------------------------------ MODULE MCSources ------------------------------
(***************************************************************************)
(* The sources of a daemon, one of them configured: the loop polls one at  *)
(* a time and they share nothing but custody, where each has rows and a    *)
(* position of its own (module Custody).  `setting` says which source it   *)
(* is, and in which surroundings; what belongs to the others stands still. *)
(***************************************************************************)
EXTENDS Naturals, Sequences, FiniteSets

CONSTANTS ia, ib,
  Inodes, None, Window, LineLimit, TailLength, Unreadable,
  Replay, Writes, Troubles, MaxBytes, MaxLength, MaxFiles, MaxTroubles,
  PageSize, MaxEntries, Counters, Readings, PerPoll, MaxIntervals

VARIABLES
  setting,
  content, inode, path, writer, written, troubles, stage, fd, position, buffer,
  job, rows, saved,
  journal, oldest, jTroubles, jStage, known, attach, page, first, jRows, jSaved,
  elapsed, due, hTroubles, hStage, taking, left, pending, previous, sequence,
  missed, pending_missed, handled, life, hRows

fileState ==
    <<content, inode, path, writer, written, troubles, stage, fd, position, buffer,
      job, rows, saved>>
journalState ==
    <<journal, oldest, jTroubles, jStage, known, attach, page, first, jRows, jSaved>>
hostState ==
    <<elapsed, due, hTroubles, hStage, taking, left, pending, previous, sequence,
      missed, pending_missed, handled, life, hRows>>
sourcesVars == <<setting, fileState, journalState, hostState>>

-----------------------------------------------------------------------------
(* What the writer writes: bytes and newlines one at a time, so that lines *)
(* are incomplete for a while; whole lines, the longest of which does not  *)
(* fit a read; halves of lines and whole short lines.                      *)
MCPieces == {[bytes |-> 1, ended |-> FALSE], [bytes |-> 0, ended |-> TRUE]}
MCLines == {[bytes |-> n, ended |-> TRUE] : n \in {1, 5}}
MCHalves == {[bytes |-> 1, ended |-> e] : e \in BOOLEAN}

(* "rotation", the constants of the .cfg: two or three files, two inodes,  *)
(* a writer that goes on in the old file, restarts.  "bytes": one file     *)
(* written byte by byte, restarts and commits that report an error.        *)
(* "cut": truncations, a rotation and restarts.                            *)
File(f) == INSTANCE FileSource WITH
    Replay <- f.replay, Writes <- f.writes, Troubles <- f.kinds, MaxBytes <- f.bytes,
    MaxLength <- f.length, MaxFiles <- f.files, MaxTroubles <- f.troubles
Rotating ==
    [replay |-> Replay, writes |-> Writes, kinds |-> Troubles, bytes |-> MaxBytes,
     length |-> MaxLength, files |-> MaxFiles, troubles |-> MaxTroubles]
Bytes ==
    [replay |-> TRUE, writes |-> MCPieces, kinds |-> {"restart", "unreported"}, bytes |-> 6,
     length |-> 8, files |-> 1, troubles |-> 1]
Cut ==
    [replay |-> TRUE, writes |-> MCHalves, kinds |-> {"restart", "truncate"}, bytes |-> 3,
     length |-> 5, files |-> 2, troubles |-> 2]

ASSUME SourcesAssumption == \A f \in {Rotating, Bytes, Cut} : File(f)!FileConstants

(* "replay": entries from the start of the journal, of Spindle itself and  *)
(* broken ones too.  "attach": entries of after the start, where the pages *)
(* fit the output limit.                                                   *)
Journal(j) == INSTANCE JournalSource WITH
    Replay <- j.replay, Kinds <- j.kinds, OutputLimit <- j.limit, MaxTroubles <- j.troubles,
    troubles <- jTroubles, stage <- jStage, rows <- jRows, saved <- jSaved
Replayed == [replay |-> TRUE, kinds |-> {"log", "own", "broken"}, limit |-> 2, troubles |-> 2]
Attached == [replay |-> FALSE, kinds |-> {"log", "long"}, limit |-> 3, troubles |-> 1]

(* "host": reads and commits that fail, and restarts.  "late": also polls  *)
(* that come late and commits that report an error and are durable.        *)
(* The first of two counters goes forth and back, the second stands still. *)
MCReadings == {<<1, 1>>, <<2, 1>>}

Host(h) == INSTANCE HostSource WITH
    Troubles <- h.kinds, MaxTroubles <- h.troubles,
    troubles <- hTroubles, stage <- hStage, rows <- hRows
Sampling == [kinds |-> {"restart", "failure"}, troubles |-> 2]
Late == [kinds |-> {"restart", "failure", "unreported", "late"}, troubles |-> 2]

Settings == {"rotation", "bytes", "cut", "replay", "attach", "host", "late"}

SourcesInit ==
    /\ setting \in Settings
    /\ File(Rotating)!FileInit /\ inode = <<ia>>
    /\ Journal(Attached)!JournalInit
    /\ Host(Late)!HostInit

-----------------------------------------------------------------------------
Configured(s) == setting = s /\ UNCHANGED setting

Rotation(action) ==
    Configured("rotation") /\ action /\ UNCHANGED <<journalState, hostState>>

RotationStep ==
    Configured("rotation") /\ File(Rotating)!FileNext /\ UNCHANGED <<journalState, hostState>>
BytesStep == Configured("bytes") /\ File(Bytes)!FileNext /\ UNCHANGED <<journalState, hostState>>
CutStep == Configured("cut") /\ File(Cut)!FileNext /\ UNCHANGED <<journalState, hostState>>
ReplayStep ==
    Configured("replay") /\ Journal(Replayed)!JournalNext /\ UNCHANGED <<fileState, hostState>>
AttachStep ==
    Configured("attach") /\ Journal(Attached)!JournalNext /\ UNCHANGED <<fileState, hostState>>
HostStep == Configured("host") /\ Host(Sampling)!HostNext /\ UNCHANGED <<fileState, journalState>>
LateStep == Configured("late") /\ Host(Late)!HostNext /\ UNCHANGED <<fileState, journalState>>

SourcesNext ==
    \/ RotationStep \/ BytesStep \/ CutStep
    \/ ReplayStep \/ AttachStep \/ HostStep \/ LateStep

(* The server polls its source for ever and time goes on.  A missing path  *)
(* does not stay missing, and storage that refuses a commit again and      *)
(* again accepts one in the end.                                           *)
SourcesSpec ==
    /\ SourcesInit /\ [][SourcesNext]_sourcesVars
    /\ WF_sourcesVars(Rotation(File(Rotating)!Polling))
    /\ WF_sourcesVars(Rotation(\E i \in Inodes : File(Rotating)!Create(i)))
    /\ SF_sourcesVars(Rotation(File(Rotating)!Commit))
    /\ WF_sourcesVars(Configured("attach") /\ Journal(Attached)!Step
                        /\ UNCHANGED <<fileState, hostState>>)
    /\ WF_sourcesVars(Configured("host") /\ (Host(Sampling)!Step \/ Host(Sampling)!Elapse)
                        /\ UNCHANGED <<fileState, journalState>>)

-----------------------------------------------------------------------------
(* A line that is recorded is a line of the file at the offsets recorded,  *)
(* and where the file is not rotated it starts where a line starts.        *)
LinesAreWhole ==
    /\ setting # "cut" => File(Rotating)!LinesTileTheFile
    /\ setting = "bytes" => File(Bytes)!NoFragments

(* No line twice or out of order, a gap before each generation, and no     *)
(* identity twice where commits report what they did.                      *)
DiscontinuitiesTold ==
    /\ File(Rotating)!GapsBetweenGenerations /\ File(Rotating)!LinesInOrder
    /\ setting # "bytes" => File(Rotating)!IdentitiesFresh

(* The open file is that of the position, and custody's position is that   *)
(* of its last row and never behind the one in memory.                     *)
FilePositions == File(Rotating)!FilePositions

(* Renamed files drain their open descriptor before the replacement starts *)
DrainedFirst ==
    [][stage = "switch" /\ fd' # fd => position.offset = Len(content[fd])
      ]_fileState

(* Once the last file is there its lines are collected, as lines or in a   *)
(* gap, however often the daemon restarts and storage refuses.             *)
LinesCollected == []<>~(setting = "rotation" /\ File(Rotating)!LineWaits)

(* Entries are recorded once and in order, from the start of the journal   *)
(* also without a loss unsaid.                                             *)
EntriesRecorded ==
    /\ setting = "replay" => Journal(Replayed)!EntriesRecorded
    /\ setting = "attach" => Journal(Attached)!EntriesRecorded

(* Entries of after the attachment are recorded, or dropped by the journal,*)
(* where no entry is broken and every page fits the output limit.          *)
NothingWaits == []<>~(setting = "attach" /\ Journal(Attached)!EntryWaits)

(* Once storage accepts again, what the host sampler has missed is told at *)
(* the next interval.                                                      *)
MissedIsTold ==
    (setting = "host" /\ Host(Sampling)!MissedWaits) ~> pending_missed = 0

(* Intervals are whole or told once as missed, a reset is told, and where  *)
(* commits report what they did not do, order and identities still hold.   *)
IntervalsTold ==
    /\ setting = "host" => Host(Sampling)!IntervalsTold
    /\ setting = "late" => Host(Late)!IntervalsTold

-----------------------------------------------------------------------------
(* What documents say and the code does not do (README, disagreements).    *)

(* Oversized records produce gaps: no line that is recorded is the rest of *)
(* another, in files that are rotated too.                                 *)
LinesStartAtLines == setting = "rotation" => File(Rotating)!NoFragments

(* Retries are of unchanged identities: what is committed again is not the *)
(* identity of a row with other bytes (its time stamp is new).             *)
RetriesUnchanged == setting = "bytes" => File(Bytes)!IdentitiesFresh
=============================================================================
