----------------------------- MODULE FileSource -----------------------------
(***************************************************************************)
(* fabric::spindle::sources::FileSource, against the program that writes   *)
(* the file, the one that renames, creates and truncates it, and the end   *)
(* of the daemon between any two of its system calls.                      *)
(*                                                                         *)
(* A file is a sequence of bytes: 0 is the newline, and every other byte   *)
(* is a number nobody wrote before, so that a line tells where it is from. *)
(* The fingerprint of a position is the bytes it is computed from.  What   *)
(* custody holds of this source is its rows and its saved position, moved  *)
(* by one transaction (module Ledger).  An envelope is stamped when it is  *)
(* built, so an identity recorded before always comes with other bytes.    *)
(* One poll makes at most eight rounds and the next goes on where it       *)
(* stopped: both are the stage "check".                                    *)
(***************************************************************************)
EXTENDS Naturals, Sequences

CONSTANTS
  Inodes, None,
  Replay,      (* FileConfig::replay                                        *)
  Window,      (* observation::MAX_FRAME, one less than a read asks for     *)
  LineLimit,   (* the longest line, with its newline, that is recorded      *)
  TailLength,  (* bytes of the fingerprint                                  *)
  Unreadable,  (* bytes that make a line no UTF-8 text, or no JSON object   *)
  Writes,      (* what the writer writes at once: [bytes, ended]            *)
  Troubles,    (* of {"restart", "truncate", "unreported", "late"}          *)
  MaxBytes, MaxLength, MaxFiles, MaxTroubles    (* bounds                   *)

Position ==
    [ino : Inodes, epoch : Nat, offset : Nat, tail : Seq(Nat),
     skipping : BOOLEAN]
Line == Seq(Nat) \union {None}

FileConstants ==
    /\ None \notin Inodes \union Position
    /\ Inodes # {}
    /\ Replay \in BOOLEAN
    /\ Window \in Nat /\ LineLimit \in Nat /\ TailLength \in Nat
    /\ Writes \subseteq [bytes : Nat, ended : BOOLEAN]
    /\ MaxBytes \in Nat /\ MaxLength \in Nat
    /\ MaxFiles \in Nat \ {0} /\ MaxTroubles \in Nat

VARIABLES
  content,   (* per file that was ever created: its bytes                   *)
  inode,     (* per file: its inode, which a later file may have again      *)
  path,      (* the file the configured path names, or 0                    *)
  writer,    (* the file the writer appends to                              *)
  written,   (* bytes written so far, newlines apart                        *)
  troubles,  (* how many of the bounded Troubles have happened              *)
  stage,     (* where the source is                                         *)
  fd,        (* the file it has open, or 0                                  *)
  position,  (* FileSource::position                                        *)
  buffer,    (* what the last read returned                                 *)
  job,       (* what is being committed, or None                            *)
  rows,      (* the rows custody holds of this source                       *)
  saved      (* its saved position, or None                                 *)

files == <<content, inode, path, writer, written>>
source == <<stage, fd, position, buffer, job>>
store == <<rows, saved>>
fileVars == <<files, troubles, source, store>>

Stages == {"closed", "check", "read", "stat", "switch", "commit"}
At(ino, epoch, offset) ==
    [ino |-> ino, epoch |-> epoch, offset |-> offset, tail |-> <<>>,
     skipping |-> FALSE]

Least(a, b) == IF a < b THEN a ELSE b

Tail32(f, offset) ==
    SubSeq(content[f], offset + 1 - Least(offset, TailLength), offset)

FileInit ==
    /\ content = << <<>> >>
    /\ inode \in {<<i>> : i \in Inodes}
    /\ path = 1
    /\ writer = 1
    /\ written = 0
    /\ troubles = 0
    /\ stage = "closed"
    /\ fd = 0
    /\ position = None
    /\ buffer = <<>>
    /\ job = None
    /\ rows = <<>>
    /\ saved = None

-----------------------------------------------------------------------------
(* The programs around the file *)

Trouble(kind) ==
    /\ kind \in Troubles
    /\ troubles < MaxTroubles
    /\ troubles' = troubles + 1

Write(w) ==
    LET text == [i \in 1..w.bytes |-> written + i]
                  \o (IF w.ended THEN <<0>> ELSE <<>>)
    IN /\ writer = path \/ "late" \in Troubles
       /\ written + w.bytes <= MaxBytes
       /\ Len(content[writer]) + Len(text) <= MaxLength
       /\ content' = [content EXCEPT ![writer] = @ \o text]
       /\ written' = written + w.bytes
       /\ UNCHANGED <<inode, path, writer, troubles, source, store>>

Rename ==
    /\ path # 0
    /\ Len(content) < MaxFiles
    /\ path' = 0
    /\ UNCHANGED <<content, inode, writer, written, troubles, source, store>>

OpenFiles == ({fd, writer} \union (IF job = None THEN {} ELSE {job.old})) \ {0}

(* The inode of a file that is gone and that nobody has open may return. *)
Create(i) ==
    /\ path = 0
    /\ \A f \in OpenFiles : inode[f] # i
    /\ content' = Append(content, <<>>)
    /\ inode' = Append(inode, i)
    /\ path' = Len(content) + 1
    /\ UNCHANGED <<writer, written, troubles, source, store>>

Reopen ==
    /\ path \notin {0, writer}
    /\ writer' = path
    /\ UNCHANGED <<content, inode, path, written, troubles, source, store>>

Truncate ==
    /\ Trouble("truncate")
    /\ path # 0
    /\ content[path] # <<>>
    /\ content' = [content EXCEPT ![path] = <<>>]
    /\ UNCHANGED <<inode, path, writer, written, source, store>>

-----------------------------------------------------------------------------
(* FileSource::poll, up to the commit *)

(* A commit of `next` is to be made; should it fail, `old` is the file     *)
(* that is open again.  A line of None is a gap.                           *)
Prepare(next, line, old) ==
    /\ stage' = "commit"
    /\ job' = [next |-> next, line |-> line, old |-> old]

OpenSaved ==
    /\ saved # None
    /\ saved.ino = inode[path]
    /\ position' = saved
    /\ stage' = "check"
    /\ UNCHANGED job

(* Faulty variant: a replaced file is read from its start at once. *)
OpenReplacedAtOnce ==
    /\ saved # None
    /\ saved.ino # inode[path]
    /\ position' = At(inode[path], saved.epoch + 1, 0)
    /\ stage' = "check"
    /\ UNCHANGED job

OpenReplaced ==
    /\ saved # None
    /\ saved.ino # inode[path]
    /\ Prepare(At(inode[path], saved.epoch + 1, 0), None, 0)
    /\ UNCHANGED position

OpenNew ==
    /\ saved = None
    /\ Prepare(At(inode[path], 0, IF Replay THEN 0 ELSE Len(content[path])),
               None, 0)
    /\ UNCHANGED position

Open ==
    /\ stage = "closed"
    /\ path # 0
    /\ fd' = path
    /\ OpenSaved \/ OpenReplaced \/ OpenNew
    /\ UNCHANGED <<files, troubles, buffer, store>>

Damaged ==
    \/ Len(content[fd]) < position.offset
    \/ Tail32(fd, position.offset) # position.tail

Check ==
    /\ stage = "check"
    /\ IF Damaged
       THEN Prepare(At(position.ino, position.epoch + 1, 0), None, fd)
       ELSE stage' = "read" /\ UNCHANGED job
    /\ UNCHANGED <<files, troubles, fd, position, buffer, store>>

Read ==
    /\ stage = "read"
    /\ buffer' = SubSeq(content[fd], position.offset + 1,
                        Least(Len(content[fd]), position.offset + Window + 1))
    /\ stage' = "stat"
    /\ UNCHANGED <<files, troubles, fd, position, job, store>>

(* Faulty variant: a path that names another file is not noticed. *)
RotatedGone == path = 0

Rotated == path # 0 /\ inode[path] # position.ino
Ends == {i \in DOMAIN buffer : buffer[i] = 0}

(* Nothing to read, or an incomplete line: the poll returns. *)
Wait ==
    /\ stage = "stat"
    /\ Ends = {} /\ ~Rotated /\ Len(buffer) <= Window
    /\ stage' = "check"
    /\ buffer' = <<>>
    /\ UNCHANGED <<files, troubles, fd, position, job, store>>

(* How many bytes are consumed: to the end of the first line, or all.      *)
Consumed ==
    IF Ends = {} THEN {Len(buffer)} ELSE {i \in Ends : \A j \in Ends : i <= j}

(* Faulty variant: the rest of a long line is a line. *)
RecordedUnskipped(n) ==
    LET line == SubSeq(buffer, 1, n - 1)
    IN IF \/ Ends = {} \/ n > LineLimit
          \/ line = <<>> \/ \E i \in DOMAIN line : line[i] \in Unreadable
       THEN None ELSE line

(* What the first n bytes are recorded as: the line, or a gap. *)
RecordedAs(n) ==
    LET line == SubSeq(buffer, 1, n - 1)
    IN IF \/ position.skipping \/ Ends = {} \/ n > LineLimit
          \/ line = <<>> \/ \E i \in DOMAIN line : line[i] \in Unreadable
       THEN None ELSE line

Consume ==
    /\ stage = "stat"
    /\ buffer # <<>>
    /\ Ends # {} \/ Rotated \/ Len(buffer) > Window
    /\ \E n \in Consumed :
         Prepare([position EXCEPT !.offset = @ + n,
                                  !.skipping = Ends = {} /\ ~Rotated],
                 RecordedAs(n), fd)
    /\ buffer' = <<>>
    /\ UNCHANGED <<files, troubles, fd, position, store>>

Drained ==
    /\ stage = "stat"
    /\ buffer = <<>>
    /\ Rotated
    /\ stage' = "switch"
    /\ UNCHANGED <<files, troubles, fd, position, buffer, job, store>>

(* Faulty variant: the descriptor of the old file is dropped at once. *)
SwitchForgets ==
    /\ stage = "switch"
    /\ \/ path = 0 /\ stage' = "check" /\ UNCHANGED <<fd, job>>
       \/ /\ path # 0
          /\ fd' = path
          /\ Prepare(At(inode[path], position.epoch + 1, 0), None, path)
    /\ UNCHANGED <<files, troubles, position, buffer, store>>

(* The path may name another file by now, or none. *)
Switch ==
    /\ stage = "switch"
    /\ \/ path = 0 /\ stage' = "check" /\ UNCHANGED <<fd, job>>
       \/ /\ path # 0
          /\ fd' = path
          /\ Prepare(At(inode[path], position.epoch + 1, 0), None, fd)
    /\ UNCHANGED <<files, troubles, position, buffer, store>>

-----------------------------------------------------------------------------
(* FileSource::commit *)

Recorded(p) ==
    \E i \in DOMAIN rows : /\ rows[i].ino = p.ino
                           /\ rows[i].epoch = p.epoch
                           /\ rows[i].offset = p.offset

Marked == [job.next EXCEPT !.tail = Tail32(fd, job.next.offset)]

(* The transaction of custody; the bytes behind the new offset must be     *)
(* there to be fingerprinted.  `file` is of the model only.                *)
Publish ==
    /\ stage = "commit"
    /\ job.next.offset <= Len(content[fd])
    /\ ~Recorded(job.next)
    /\ rows' = Append(rows, [ino |-> job.next.ino, epoch |-> job.next.epoch,
                             offset |-> job.next.offset, line |-> job.line,
                             file |-> fd])
    /\ saved' = Marked

Commit ==
    /\ Publish
    /\ position' = Marked
    /\ stage' = "check"
    /\ job' = None
    /\ UNCHANGED <<files, troubles, fd, buffer>>

(* The poll fails: without a position the file is closed. *)
Abandon ==
    /\ stage = "commit"
    /\ job' = None
    /\ fd' = IF position = None THEN 0 ELSE job.old
    /\ stage' = IF position = None THEN "closed" ELSE "check"
    /\ UNCHANGED <<files, position, buffer>>

(* Storage is full, a statement fails, the identity is recorded with other *)
(* bytes, or the file is shorter than the new offset.                      *)
CommitFails == Abandon /\ UNCHANGED <<troubles, store>>

(* The commit reports an error after it became durable. *)
CommitUnreported == Trouble("unreported") /\ Publish /\ Abandon

(* The daemon ends, at any system call, and is started again. *)
Restart ==
    /\ Trouble("restart")
    /\ stage' = "closed"
    /\ fd' = 0
    /\ position' = None
    /\ buffer' = <<>>
    /\ job' = None
    /\ UNCHANGED <<files, store>>

-----------------------------------------------------------------------------
Surroundings ==
    \/ \E w \in Writes : Write(w)
    \/ Rename \/ (\E i \in Inodes : Create(i)) \/ Reopen \/ Truncate
    \/ Restart

Polling == Open \/ Check \/ Read \/ Wait \/ Consume \/ Drained \/ Switch

FileNext ==
    Surroundings \/ Polling \/ Commit \/ CommitFails \/ CommitUnreported

FileSpec == FileInit /\ [][FileNext]_fileVars

-----------------------------------------------------------------------------
(* Every variable has its type, a source that is closed holds nothing, and *)
(* one that reads has a file open and a position.                          *)
FilesTypeOK ==
    /\ content \in Seq(Seq(Nat))
    /\ inode \in Seq(Inodes)
    /\ Len(inode) = Len(content)
    /\ path \in 0..Len(content) /\ writer \in 1..Len(content)
    /\ written \in Nat /\ troubles \in Nat
SourceTypeOK ==
    /\ stage \in Stages
    /\ fd \in 0..Len(content)
    /\ position \in Position \union {None}
    /\ IF stage = "closed" THEN fd = 0 /\ position = None ELSE fd # 0
    /\ stage \in {"check", "read", "stat", "switch"} => position # None
    /\ buffer \in Seq(Nat)
    /\ stage = "commit" => job \in [next : Position, line : Line, old : 0..Len(content)]
StoreTypeOK ==
    /\ rows \in Seq([ino : Inodes, epoch : Nat, offset : Nat, line : Line,
                     file : 1..Len(content)])
    /\ saved \in Position \union {None}
FileTypeOK == FilesTypeOK /\ SourceTypeOK /\ StoreTypeOK

(* The descriptor that is open, or that is open again if the commit fails, *)
(* is of the file the position is in: a failed rotation puts the old one   *)
(* back (sources.rs:218-235).                                              *)
DescriptorMatches ==
    position # None =>
        LET f == IF stage = "commit" THEN job.old ELSE fd
        IN f # 0 /\ inode[f] = position.ino

(* The saved position is that of the last row, and the position in memory  *)
(* is never past it, through failed and unreported commits and restarts.   *)
PositionRecorded ==
    /\ (saved = None) = (rows = <<>>)
    /\ saved # None =>
         LET last == rows[Len(rows)]
         IN /\ saved.ino = last.ino /\ saved.epoch = last.epoch
            /\ saved.offset = last.offset
    /\ position # None =>
         \/ position = saved
         \/ position.epoch < saved.epoch
         \/ position.epoch = saved.epoch /\ position.offset < saved.offset

(* The descriptor, the position in memory and the one in custody agree.    *)
FilePositions == DescriptorMatches /\ PositionRecorded

SameGeneration(r, s) == r.ino = s.ino /\ r.epoch = s.epoch

(* A file that is attached, replaced, rotated or truncated starts with a   *)
(* gap: no line of a generation is recorded before the discontinuity is.   *)
GapsBetweenGenerations ==
    \A i \in DOMAIN rows :
        i = 1 \/ ~SameGeneration(rows[i - 1], rows[i]) => rows[i].line = None

(* No line is recorded twice or after a later one, whatever was rotated,   *)
(* truncated, restarted or not reported.                                   *)
LinesInOrder ==
    \A i, j \in DOMAIN rows :
        i < j /\ rows[i].line # None /\ rows[j].line # None =>
            rows[i].line[Len(rows[i].line)] < rows[j].line[1]

(* Offsets refer to source bytes: a line is what the file has between the  *)
(* offsets of the row before it and of its own.  (A file that is cut while *)
(* it is read breaks this.)                                                *)
LinesTileTheFile ==
    \A i \in DOMAIN rows :
        rows[i].line # None =>
            SubSeq(content[rows[i].file], rows[i - 1].offset + 1,
                   rows[i].offset) = Append(rows[i].line, 0)

(* Incomplete lines wait: what is recorded as a line starts where a line   *)
(* of the file starts, also after one too long for a read.                 *)
NoFragments ==
    \A i \in DOMAIN rows :
        rows[i].line # None =>
            \/ rows[i - 1].offset = 0
            \/ content[rows[i].file][rows[i - 1].offset] = 0

(* What is committed has an identity no row has: clients retry unchanged   *)
(* identities, and this source has no bytes to repeat.                     *)
IdentitiesFresh == stage = "commit" => ~Recorded(job.next)

(* A complete line of the last file that is in no row yet.                 *)
LineWaits ==
    /\ Len(content) = MaxFiles /\ path = MaxFiles
    /\ \E k \in DOMAIN content[MaxFiles] :
         /\ content[MaxFiles][k] = 0
         /\ \A i \in DOMAIN rows :
              rows[i].file = MaxFiles => rows[i].offset < k
=============================================================================
