---------------------------- MODULE JournalSource ----------------------------
(***************************************************************************)
(* fabric::spindle::sources::JournalSource, against a journal that grows   *)
(* and drops its oldest entries, a journalctl that fails or does not end   *)
(* in time, and the end of the daemon between any two steps.               *)
(*                                                                         *)
(* An entry of the unit is known by its place in the journal, and so is    *)
(* its cursor.  The source keeps nothing in memory between two polls: it   *)
(* starts each from the position that custody has saved with its last row. *)
(***************************************************************************)
EXTENDS Naturals, Sequences, FiniteSetsExt

CONSTANTS
  Replay,       (* JournalConfig::replay                                    *)
  Kinds,        (* kinds of the entries that are logged, see below          *)
  PageSize,     (* entries after the cursor in one output: 8                *)
  OutputLimit,  (* long messages that fit in the output of journalctl       *)
  MaxEntries, MaxTroubles    (* bounds                                      *)

(* "log": a message; "long": one of nearly the longest size; "own": an     *)
(* entry of Spindle's unit; "binary": no text, or too long a text;         *)
(* "broken": more than a frame, or not the JSON the source reads.          *)
VARIABLES
  journal,   (* the kinds of all entries ever logged                        *)
  oldest,    (* the first entry that is still there                         *)
  troubles,  (* how many restarts and failures have happened                *)
  stage,     (* "idle", "command" or "process"                              *)
  known,     (* the position the poll started from                          *)
  attach,    (* the last entry of before the command, for its time          *)
  page,      (* entries that were read and are still to be recorded         *)
  first,     (* whether the next one is the first of the output             *)
  rows,      (* what custody holds of this source: [entry, as]              *)
  saved      (* its position: [by, entry], by "none", "since" or "cursor"   *)

surroundings == <<journal, oldest>>
poll == <<stage, known, attach, page, first>>
store == <<rows, saved>>
journalVars == <<surroundings, troubles, poll, store>>

Nowhere == [by |-> "none", entry |-> 0]

JournalInit ==
    /\ journal = <<>> /\ oldest = 1
    /\ troubles = 0
    /\ stage = "idle"
    /\ known = Nowhere /\ attach = 0
    /\ page = <<>> /\ first = FALSE
    /\ rows = <<>> /\ saved = Nowhere

-----------------------------------------------------------------------------
(* The surroundings *)

Log ==
    /\ Len(journal) < MaxEntries
    /\ \E kind \in Kinds : journal' = Append(journal, kind)
    /\ UNCHANGED <<oldest, troubles, poll, store>>

Vacuum ==
    /\ oldest <= Len(journal)
    /\ oldest' = oldest + 1
    /\ UNCHANGED <<journal, troubles, poll, store>>

Trouble == troubles < MaxTroubles /\ troubles' = troubles + 1

EndPoll ==
    /\ stage' = "idle"
    /\ page' = <<>> /\ first' = FALSE
    /\ known' = Nowhere /\ attach' = 0

Restart ==
    /\ Trouble
    /\ stage # "idle"
    /\ EndPoll
    /\ UNCHANGED <<surroundings, store>>

-----------------------------------------------------------------------------
(* JournalSource::inner *)

BeginPoll ==
    /\ stage = "idle"
    /\ stage' = "command"
    /\ known' = saved
    /\ attach' = Len(journal)
    /\ UNCHANGED <<surroundings, troubles, page, first, store>>

(* The first `count` entries from one on. *)
From(entry, count) ==
    LET start == Max({entry, oldest})
        end == Min({start + count - 1, Len(journal)})
    IN [i \in 1 .. (end + 1 - start) |-> start + i - 1]

(* Faulty variant: the saved entry itself uses up the page. *)
OutputCursorOnly ==
    CASE known.by = "cursor" -> From(known.entry, 1)
      [] known.by = "since" -> From(known.entry + 1, PageSize)
      [] OTHER -> From(IF Replay THEN 1 ELSE Len(journal),
                       IF Replay THEN PageSize ELSE 1)

(* --cursor and --lines=+9, --since and --lines=+8, --lines=+8 or, when a  *)
(* source is attached that does not replay, the last entry alone.          *)
Output ==
    CASE known.by = "cursor" -> From(known.entry, PageSize + 1)
      [] known.by = "since" -> From(known.entry + 1, PageSize)
      [] OTHER -> From(IF Replay THEN 1 ELSE Len(journal),
                       IF Replay THEN PageSize ELSE 1)

Fits(entries) ==
    Cardinality({i \in DOMAIN entries : journal[entries[i]] = "long"}) <= OutputLimit

(* journal_command ends in time, with output that fits.  An empty journal  *)
(* is attached to at the present time; else nothing is to be done.         *)
Command ==
    /\ stage = "command"
    /\ Fits(Output)
    /\ IF Output # <<>> \/ (known.by = "none" /\ ~Replay)
       THEN /\ stage' = "process" /\ page' = Output /\ first' = TRUE
            /\ UNCHANGED <<known, attach>>
       ELSE EndPoll
    /\ UNCHANGED <<surroundings, troubles, store>>

(* The output is larger than 256 KiB: the process is killed. *)
CommandTooLarge ==
    /\ stage = "command"
    /\ ~Fits(Output)
    /\ EndPoll
    /\ UNCHANGED <<surroundings, troubles, store>>

(* It cannot be run, fails, writes to its error output or takes too long. *)
CommandFails ==
    /\ Trouble
    /\ stage = "command"
    /\ EndPoll
    /\ UNCHANGED <<surroundings, store>>

-----------------------------------------------------------------------------
(* JournalSource::process_output *)

Entry == Head(page)

(* The saved cursor comes first and is passed over. *)
IsSaved == first /\ known.by = "cursor" /\ known.entry = Entry

SkipSaved ==
    /\ stage = "process" /\ page # <<>>
    /\ journal[Entry] # "broken"
    /\ IsSaved
    /\ page' = Tail(page) /\ first' = FALSE
    /\ UNCHANGED <<surroundings, troubles, stage, known, attach, store>>

(* An entry that is not the saved one, or that is only attached to, stands *)
(* for what is missing before it.                                          *)
RecordedAs ==
    IF \/ first /\ known.by = "cursor"
       \/ known.by = "none" /\ ~Replay
       \/ journal[Entry] \notin {"log", "long"}
    THEN "gap" ELSE "log"

Publish(row, position) == rows' = Append(rows, row) /\ saved' = position

(* What is to be recorded next, and the position that goes with it. *)
NextRow ==
    IF page = <<>> THEN [entry |-> attach, as |-> "attached"]
    ELSE [entry |-> Entry, as |-> RecordedAs]
NextPosition ==
    IF page = <<>> THEN [by |-> "since", entry |-> attach]
    ELSE [by |-> "cursor", entry |-> Entry]

ToRecord ==
    /\ stage = "process"
    /\ IF page = <<>> THEN first ELSE journal[Entry] # "broken" /\ ~IsSaved

(* Faulty variant: the position is that of the whole page. *)
RecordPage ==
    /\ ToRecord
    /\ Publish(NextRow, IF page = <<>> THEN NextPosition
                        ELSE [by |-> "cursor", entry |-> page[Len(page)]])
    /\ IF page = <<>> THEN EndPoll
       ELSE /\ page' = Tail(page) /\ first' = FALSE
            /\ UNCHANGED <<stage, known, attach>>
    /\ UNCHANGED <<surroundings, troubles>>

Record ==
    /\ ToRecord
    /\ Publish(NextRow, NextPosition)
    /\ IF page = <<>> THEN EndPoll
       ELSE /\ page' = Tail(page) /\ first' = FALSE
            /\ UNCHANGED <<stage, known, attach>>
    /\ UNCHANGED <<surroundings, troubles>>

(* Store::submit reports an error, and may have committed all the same. *)
RecordFails ==
    /\ ToRecord
    /\ Trouble
    /\ \/ UNCHANGED store
       \/ Publish(NextRow, NextPosition)
    /\ EndPoll
    /\ UNCHANGED surroundings

RefuseEntry ==
    /\ stage = "process" /\ page # <<>>
    /\ journal[Entry] = "broken"
    /\ EndPoll
    /\ UNCHANGED <<surroundings, troubles, store>>

FinishPoll ==
    /\ stage = "process" /\ page = <<>> /\ ~first
    /\ EndPoll
    /\ UNCHANGED <<surroundings, troubles, store>>

-----------------------------------------------------------------------------
Step ==
    \/ BeginPoll \/ Command \/ CommandTooLarge
    \/ SkipSaved \/ Record \/ RefuseEntry \/ FinishPoll

JournalNext == Log \/ Vacuum \/ Restart \/ CommandFails \/ RecordFails \/ Step

JournalSpec == JournalInit /\ [][JournalNext]_journalVars

-----------------------------------------------------------------------------
(* Entries are recorded in the order of the journal and each at most once, *)
(* whatever is retried, unreported, restarted or dropped meanwhile.        *)
EntriesInOrder ==
    \A i, j \in DOMAIN rows : i < j => rows[i].entry < rows[j].entry

(* An entry that comes after others that are not recorded is recorded as a *)
(* gap: no loss goes unsaid.                                               *)
LossesRecorded ==
    \A i \in 2 .. Len(rows) :
        rows[i].entry > rows[i - 1].entry + 1 => rows[i].as = "gap"

(* What is saved covers what is recorded and nothing more. *)
PositionIsLastRow ==
    IF rows = <<>> THEN saved = Nowhere ELSE saved.entry = rows[Len(rows)].entry

(* The three of them.  That each loss is said is not so for a source that  *)
(* is attached to an empty journal: what is dropped before its first entry *)
(* is recorded goes unsaid.                                                *)
EntriesRecorded ==
    EntriesInOrder /\ PositionIsLastRow /\ (Replay => LossesRecorded)

(* The source is attached and the last entry is neither recorded nor gone. *)
EntryWaits ==
    saved.by # "none" /\ saved.entry < Len(journal) /\ oldest <= Len(journal)
=============================================================================
