---------------------------- MODULE SourceProofs ----------------------------
(***************************************************************************)
(* Proofs about the three sources.  FileSource, for any writer, any number *)
(* of files and inodes and any faults: descriptor, position in memory and  *)
(* saved position agree through rotations, truncations, failed and         *)
(* unreported commits and restarts.  JournalSource, for any page size and  *)
(* output limit: entries are recorded once and in order, and a loss is     *)
(* told.  HostSource, for any counters and readings: intervals are whole   *)
(* or told as missed, each once.                                           *)
(*                                                                         *)
(* A daemon polls one source at a time and each has rows of its own, so    *)
(* that the three are proved apart.  K is the setting a source is in: any  *)
(* values of its constants.                                                *)
(***************************************************************************)
EXTENDS MCSources, FiniteSetsExt, FiniteSetTheorems, WellFoundedInduction, TLAPS

Jobs(K) == [next : File(K)!Position, line : File(K)!Line, old : 0..Len(content)]
Rows(K) == [ino : Inodes, epoch : Nat, offset : Nat, line : File(K)!Line, file : 1..Len(content)]

Before(p, q) ==
    \/ p.epoch < q.epoch
    \/ p.epoch = q.epoch /\ p.offset < q.offset

(* What is being committed is of the file that is open, and goes on from   *)
(* the position in memory; whoever has a position has one saved.           *)
JobMatches ==
    /\ stage = "commit" => inode[fd] = job.next.ino
    /\ stage = "commit" /\ position # None => Before(position, job.next)
    /\ position # None => saved # None

Inv(K) == File(K)!FileTypeOK /\ File(K)!DescriptorMatches /\ File(K)!PositionRecorded /\ JobMatches

-----------------------------------------------------------------------------
(* Sequences, as the steps below use them. *)
LEMMA AppendIs ==
  ASSUME NEW S, NEW s \in Seq(S), NEW e \in S
  PROVE  /\ Append(s, e) \in Seq(S) /\ Len(Append(s, e)) = Len(s) + 1
         /\ Append(s, e) # <<>> /\ Append(s, e)[Len(s) + 1] = e
         /\ \A i \in 1..Len(s) : Append(s, e)[i] = s[i]
  OBVIOUS

LEMMA SeqGrows ==
  ASSUME NEW S, NEW T, S \subseteq T, NEW s \in Seq(S)
  PROVE  s \in Seq(T)
  OBVIOUS

LEMMA SeqAt ==
  ASSUME NEW S, NEW s \in Seq(S), NEW i \in 1..Len(s)
  PROVE  s[i] \in S
  OBVIOUS

LEMMA SubSeqIs ==
  ASSUME NEW S, NEW s \in Seq(S), NEW m \in Nat, NEW n \in Nat, m >= 1, n <= Len(s)
  PROVE  SubSeq(s, m, n) \in Seq(S)
  OBVIOUS

LEMMA ExceptIs ==
  ASSUME NEW S, NEW s \in Seq(S), NEW i \in 1..Len(s), NEW e \in S
  PROVE  [s EXCEPT ![i] = e] \in Seq(S) /\ Len([s EXCEPT ![i] = e]) = Len(s)
  OBVIOUS

LEMMA FunctionIs ==
  ASSUME NEW S, NEW n \in Nat, NEW s \in [1..n -> S]
  PROVE  s \in Seq(S) /\ Len(s) = n
  OBVIOUS

LEMMA ConcatIs ==
  ASSUME NEW S, NEW s \in Seq(S), NEW t \in Seq(S)
  PROVE  s \o t \in Seq(S)
  OBVIOUS

(* The bytes a fingerprint is computed from. *)
LEMMA TailIs ==
  ASSUME NEW K, File(K)!FileConstants,
         File(K)!FilesTypeOK, NEW f \in 1..Len(content), NEW n \in 0..Len(content[f])
  PROVE  File(K)!Tail32(f, n) \in Seq(Nat)
<1>1. content[f] \in Seq(Nat) /\ Len(content[f]) \in Nat /\ n \in Nat
  BY SeqAt DEF File!FilesTypeOK
<1>2. File(K)!Least(n, TailLength) \in Nat /\ File(K)!Least(n, TailLength) <= n
  BY <1>1 DEF File!FileConstants, File!Least
<1>3. n + 1 - File(K)!Least(n, TailLength) \in Nat /\ n + 1 - File(K)!Least(n, TailLength) >= 1
  BY <1>1, <1>2
<1> QED
  BY <1>1, <1>3, SubSeqIs DEF File!Tail32

LEMMA AtIs ==
  ASSUME NEW K, File(K)!FileConstants,
         NEW i \in Inodes, NEW e \in Nat, NEW n \in Nat
  PROVE  File(K)!At(i, e, n) \in File(K)!Position
  BY DEF File!At, File!Position

-----------------------------------------------------------------------------
LEMMA InitInv ==
  ASSUME NEW K, File(K)!FileConstants
  PROVE  File(K)!FileInit => Inv(K)
<1> SUFFICES ASSUME File(K)!FileInit PROVE Inv(K)
  OBVIOUS
<1>1. File(K)!FilesTypeOK
  <2>1. <<<<>>>> \in Seq(Seq(Nat)) /\ Len(<<<<>>>>) = 1
    OBVIOUS
  <2>2. inode \in Seq(Inodes) /\ Len(inode) = 1
    <3>1. PICK i \in Inodes : inode = <<i>>
      BY DEF File!FileInit
    <3> QED
      BY <3>1
  <2> QED
    BY <2>1, <2>2 DEF File!FileInit, File!FilesTypeOK
<1>2. File(K)!SourceTypeOK
  <2>1. Len(content) = 1
    BY DEF File!FileInit
  <2> QED
    BY <2>1 DEF File!FileInit, File!SourceTypeOK, File!Stages
<1>3. File(K)!StoreTypeOK
  BY DEF File!FileInit, File!StoreTypeOK
<1>4. File(K)!DescriptorMatches /\ File(K)!PositionRecorded /\ JobMatches
  BY DEF File!FileInit, File!DescriptorMatches, File!PositionRecorded, JobMatches
<1> QED
  BY <1>1, <1>2, <1>3, <1>4 DEF Inv, File!FileTypeOK

-----------------------------------------------------------------------------
(* Files only grow in number, and keep their inodes. *)
FilesKept == /\ Len(content) <= Len(content') /\ Len(content') \in Nat
             /\ \A f \in 1..Len(content) : inode'[f] = inode[f]

(* What the source and the store say stays true when only files change. *)
LEMMA OthersChange ==
  ASSUME NEW K, File(K)!FileConstants,
         Inv(K), File(K)!FilesTypeOK', FilesKept, UNCHANGED <<File(K)!source, File(K)!store>>
  PROVE  Inv(K)'
<1>1. UNCHANGED <<stage, fd, position, buffer, job, rows, saved>>
  BY DEF File!source, File!store
<1>2. Len(content) \in Nat
  BY DEF Inv, File!FileTypeOK, File!FilesTypeOK
<1>3. File(K)!SourceTypeOK'
  <2>1. 0..Len(content) \subseteq 0..Len(content')
    BY <1>2 DEF FilesKept
  <2>2. stage = "commit" => job \in [next : File(K)!Position, line : File(K)!Line, old : 0..Len(content')]
    BY <2>1 DEF Inv, File!FileTypeOK, File!SourceTypeOK
  <2>3. fd \in 0..Len(content')
    BY <2>1 DEF Inv, File!FileTypeOK, File!SourceTypeOK
  <2> QED
    BY <1>1, <2>2, <2>3 DEF Inv, File!FileTypeOK, File!SourceTypeOK
<1>4. File(K)!StoreTypeOK'
  <2> DEFINE New == [ino : Inodes, epoch : Nat, offset : Nat, line : File(K)!Line,
                     file : 1..Len(content')]
  <2>1. Rows(K) \subseteq New
    BY <1>2 DEF Rows, FilesKept
  <2>2. rows \in Seq(Rows(K))
    BY DEF Inv, File!FileTypeOK, File!StoreTypeOK, Rows
  <2> HIDE DEF New
  <2>3. rows \in Seq(New)
    BY <2>1, <2>2, SeqGrows
  <2> QED
    BY <1>1, <2>3 DEF Inv, File!FileTypeOK, File!StoreTypeOK, New
<1>5. File(K)!DescriptorMatches'
  <2>1. position # None =>
          LET f == IF stage = "commit" THEN job.old ELSE fd
          IN f \in 1..Len(content) /\ inode[f] = position.ino
    BY <1>2 DEF Inv, File!FileTypeOK, File!SourceTypeOK, File!DescriptorMatches
  <2> QED
    BY <1>1, <2>1 DEF File!DescriptorMatches, FilesKept
<1>6. JobMatches'
  <2>1. stage = "commit" => fd \in 1..Len(content)
    BY <1>2 DEF Inv, File!FileTypeOK, File!SourceTypeOK
  <2> QED
    BY <1>1, <2>1 DEF Inv, JobMatches, FilesKept, Before
<1>7. File(K)!PositionRecorded'
  BY <1>1 DEF Inv, File!PositionRecorded
<1> QED
  BY <1>3, <1>4, <1>5, <1>6, <1>7 DEF Inv, File!FileTypeOK

(* The programs around the file. *)
LEMMA AroundFiles ==
  ASSUME NEW K, File(K)!FileConstants,
         Inv(K),
         (\E w \in K.writes : File(K)!Write(w)) \/ File(K)!Rename \/ (\E i \in Inodes : File(K)!Create(i))
           \/ File(K)!Reopen \/ File(K)!Truncate
  PROVE  File(K)!FilesTypeOK' /\ FilesKept /\ UNCHANGED <<File(K)!source, File(K)!store>>
<1>0. /\ content \in Seq(Seq(Nat)) /\ inode \in Seq(Inodes)
      /\ Len(inode) = Len(content) /\ Len(content) \in Nat
      /\ path \in 0..Len(content) /\ writer \in 1..Len(content)
      /\ written \in Nat /\ troubles \in Nat
  BY DEF Inv, File!FileTypeOK, File!FilesTypeOK
<1>1. CASE \E w \in K.writes : File(K)!Write(w)
  <2>1. PICK w \in K.writes : File(K)!Write(w)
    BY <1>1
  <2>2. w.bytes \in Nat
    BY DEF File!FileConstants
  <2> DEFINE text == [i \in 1..w.bytes |-> written + i] \o (IF w.ended THEN <<0>> ELSE <<>>)
  <2>3. text \in Seq(Nat)
    <3>1. [i \in 1..w.bytes |-> written + i] \in Seq(Nat)
      <4>1. [i \in 1..w.bytes |-> written + i] \in [1..w.bytes -> Nat]
        BY <1>0, <2>2, SMTT(30)
      <4> QED
        BY <2>2, <4>1, FunctionIs
    <3>2. (IF w.ended THEN <<0>> ELSE <<>>) \in Seq(Nat)
      OBVIOUS
    <3> QED
      BY <3>1, <3>2, ConcatIs
  <2>4. content' = [content EXCEPT ![writer] = content[writer] \o text]
        /\ written' = written + w.bytes /\ UNCHANGED <<inode, path, writer, troubles, File(K)!source, File(K)!store>>
    BY <2>1 DEF File!Write
  <2> HIDE DEF text
  <2>5. content[writer] \o text \in Seq(Nat)
    BY <1>0, <2>3, SeqAt, ConcatIs
  <2>6. content' \in Seq(Seq(Nat)) /\ Len(content') = Len(content)
    BY <1>0, <2>4, <2>5, ExceptIs
  <2>7. File(K)!FilesTypeOK' /\ FilesKept
    BY <1>0, <2>2, <2>4, <2>6 DEF File!FilesTypeOK, FilesKept
  <2> QED
    BY <2>4, <2>7
<1>2. CASE File(K)!Rename
  <2>1. path' = 0 /\ UNCHANGED <<content, inode, writer, written, troubles, File(K)!source, File(K)!store>>
    BY <1>2 DEF File!Rename
  <2>2. File(K)!FilesTypeOK' /\ FilesKept
    BY <1>0, <2>1 DEF File!FilesTypeOK, FilesKept
  <2> QED
    BY <2>1, <2>2
<1>3. CASE \E i \in Inodes : File(K)!Create(i)
  <2>1. PICK i \in Inodes : File(K)!Create(i)
    BY <1>3
  <2>2. /\ content' = Append(content, <<>>) /\ inode' = Append(inode, i)
        /\ path' = Len(content) + 1 /\ UNCHANGED <<writer, written, troubles, File(K)!source, File(K)!store>>
    BY <2>1 DEF File!Create
  <2>3. content' \in Seq(Seq(Nat)) /\ Len(content') = Len(content) + 1
    <3>1. <<>> \in Seq(Nat)
      OBVIOUS
    <3> QED
      BY <1>0, <2>2, <3>1, AppendIs
  <2>4. /\ inode' \in Seq(Inodes) /\ Len(inode') = Len(inode) + 1
        /\ \A f \in 1..Len(inode) : inode'[f] = inode[f]
    <3>1. inode \in Seq(Inodes) /\ i \in Inodes /\ inode' = Append(inode, i)
      BY <1>0, <2>1, <2>2
    <3> QED
      BY <3>1, AppendIs
  <2>5. File(K)!FilesTypeOK' /\ FilesKept
    BY <1>0, <2>2, <2>3, <2>4 DEF File!FilesTypeOK, FilesKept
  <2> QED
    BY <2>2, <2>5
<1>4. CASE File(K)!Reopen
  <2>1. path # 0 /\ writer' = path /\ UNCHANGED <<content, inode, path, written, troubles, File(K)!source, File(K)!store>>
    BY <1>4 DEF File!Reopen
  <2>2. File(K)!FilesTypeOK' /\ FilesKept
    BY <1>0, <2>1 DEF File!FilesTypeOK, FilesKept
  <2> QED
    BY <2>1, <2>2
<1>5. CASE File(K)!Truncate
  <2>1. /\ path # 0 /\ content' = [content EXCEPT ![path] = <<>>] /\ troubles' = troubles + 1
        /\ UNCHANGED <<inode, path, writer, written, File(K)!source, File(K)!store>>
    BY <1>5 DEF File!Truncate, File!Trouble
  <2>2. content' \in Seq(Seq(Nat)) /\ Len(content') = Len(content)
    <3>1. <<>> \in Seq(Nat) /\ path \in 1..Len(content)
      BY <1>0, <2>1
    <3> QED
      BY <1>0, <2>1, <3>1, ExceptIs
  <2>3. File(K)!FilesTypeOK' /\ FilesKept
    BY <1>0, <2>1, <2>2 DEF File!FilesTypeOK, FilesKept
  <2> QED
    BY <2>1, <2>3
<1> QED
  BY <1>1, <1>2, <1>3, <1>4, <1>5

LEMMA AroundKeeps ==
  ASSUME NEW K, File(K)!FileConstants,
         Inv(K),
         (\E w \in K.writes : File(K)!Write(w)) \/ File(K)!Rename \/ (\E i \in Inodes : File(K)!Create(i))
           \/ File(K)!Reopen \/ File(K)!Truncate
  PROVE  Inv(K)'
BY AroundFiles, OthersChange

-----------------------------------------------------------------------------
(* Steps of the source leave the files alone. *)
LEMMA FilesSame ==
  ASSUME NEW K, File(K)!FileConstants,
         Inv(K), UNCHANGED File(K)!files, troubles' \in Nat
  PROVE  File(K)!FilesTypeOK' /\ content' = content /\ inode' = inode /\ path' = path
  BY DEF Inv, File!FileTypeOK, File!FilesTypeOK, File!files

LEMMA Typed ==
  ASSUME NEW K, File(K)!FileConstants,
         Inv(K)
  PROVE  /\ content \in Seq(Seq(Nat)) /\ inode \in Seq(Inodes) /\ Len(inode) = Len(content)
         /\ Len(content) \in Nat /\ path \in 0..Len(content) /\ troubles \in Nat
         /\ stage \in File(K)!Stages /\ fd \in 0..Len(content) /\ buffer \in Seq(Nat)
         /\ position \in File(K)!Position \union {None} /\ saved \in File(K)!Position \union {None}
         /\ None \notin File(K)!Position
  BY DEF File!FileConstants, Inv, File!FileTypeOK, File!FilesTypeOK, File!SourceTypeOK, File!StoreTypeOK

(* A step that goes on with what it has open. *)
LEMMA GoesOn ==
  ASSUME NEW K, File(K)!FileConstants,
         Inv(K), UNCHANGED <<File(K)!files, troubles, fd, position, File(K)!store>>,
         stage \in {"check", "read", "stat", "switch"},
         stage' \in {"check", "read", "stat", "switch"}, buffer' \in Seq(Nat)
  PROVE  Inv(K)'
<1>1. File(K)!FilesTypeOK' /\ content' = content /\ inode' = inode
  BY FilesSame, Typed
<1>2. UNCHANGED <<fd, position, rows, saved>>
  BY DEF File!store
<1>3. File(K)!SourceTypeOK'
  BY <1>1, <1>2 DEF Inv, File!FileTypeOK, File!SourceTypeOK, File!Stages
<1>4. File(K)!StoreTypeOK'
  BY <1>1, <1>2 DEF Inv, File!FileTypeOK, File!StoreTypeOK
<1>5. File(K)!DescriptorMatches' /\ JobMatches'
  BY <1>1, <1>2 DEF Inv, File!DescriptorMatches, JobMatches
<1>6. File(K)!PositionRecorded'
  BY <1>2 DEF Inv, File!PositionRecorded
<1> QED
  BY <1>1, <1>3, <1>4, <1>5, <1>6 DEF Inv, File!FileTypeOK

(* A step that prepares a commit. *)
LEMMA Prepares ==
  ASSUME NEW K, File(K)!FileConstants,
         Inv(K), UNCHANGED <<File(K)!files, troubles, position, File(K)!store>>,
         NEW next \in File(K)!Position, NEW line \in File(K)!Line, NEW old \in 0..Len(content),
         File(K)!Prepare(next, line, old), buffer' \in Seq(Nat),
         fd' \in 1..Len(content), inode[fd'] = next.ino,
         position # None => /\ old # 0 /\ inode[old] = position.ino
                            /\ Before(position, next)
  PROVE  Inv(K)'
<1>1. File(K)!FilesTypeOK' /\ content' = content /\ inode' = inode
  BY FilesSame, Typed
<1>2. UNCHANGED <<position, rows, saved>>
  BY DEF File!store
<1>3. stage' = "commit" /\ job' = [next |-> next, line |-> line, old |-> old]
  BY DEF File!Prepare
<1>4. File(K)!SourceTypeOK'
  <2>1. fd' \in 0..Len(content) /\ fd' # 0
    BY Typed
  <2> QED
    BY <1>1, <1>2, <1>3, <2>1, Typed DEF File!SourceTypeOK, File!Stages
<1>5. File(K)!StoreTypeOK'
  BY <1>1, <1>2 DEF Inv, File!FileTypeOK, File!StoreTypeOK
<1>6. File(K)!DescriptorMatches'
  BY <1>1, <1>2, <1>3 DEF File!DescriptorMatches
<1>7. JobMatches'
  <2>1. job'.next = next
    BY <1>3
  <2>2. inode'[fd'] = job'.next.ino
    BY <1>1, <2>1
  <2>3. position' # None => Before(position', job'.next)
    BY <1>2, <2>1 DEF Before
  <2> QED
    BY <1>2, <2>2, <2>3 DEF Inv, JobMatches, Before
<1>8. File(K)!PositionRecorded'
  BY <1>2 DEF Inv, File!PositionRecorded
<1> QED
  BY <1>1, <1>4, <1>5, <1>6, <1>7, <1>8 DEF Inv, File!FileTypeOK

(* A restart holds nothing. *)
LEMMA RestartKeeps ==
  ASSUME NEW K, File(K)!FileConstants
  PROVE  Inv(K) /\ File(K)!Restart => Inv(K)'
<1> SUFFICES ASSUME Inv(K), File(K)!Restart PROVE Inv(K)'
  OBVIOUS
<1>1. /\ UNCHANGED <<File(K)!files, File(K)!store>> /\ troubles' = troubles + 1
      /\ stage' = "closed" /\ fd' = 0 /\ position' = None /\ buffer' = <<>>
  BY DEF File!Restart, File!Trouble
<1>2. File(K)!FilesTypeOK' /\ content' = content
  <2>1. troubles' \in Nat
    BY <1>1, Typed
  <2> QED
    BY <1>1, <2>1, FilesSame, Typed
<1>3. File(K)!SourceTypeOK'
  BY <1>1, <1>2, Typed DEF File!SourceTypeOK, File!Stages
<1>4. File(K)!StoreTypeOK'
  BY <1>1, <1>2 DEF Inv, File!FileTypeOK, File!StoreTypeOK, File!store
<1>5. File(K)!DescriptorMatches' /\ JobMatches' /\ File(K)!PositionRecorded'
  BY <1>1 DEF Inv, File!DescriptorMatches, JobMatches, File!PositionRecorded, File!store
<1> QED
  BY <1>2, <1>3, <1>4, <1>5 DEF Inv, File!FileTypeOK

LEMMA OpenKeeps ==
  ASSUME NEW K, File(K)!FileConstants
  PROVE  Inv(K) /\ File(K)!Open => Inv(K)'
<1> SUFFICES ASSUME Inv(K), File(K)!Open PROVE Inv(K)'
  OBVIOUS
<1>1. /\ UNCHANGED <<File(K)!files, troubles, buffer, File(K)!store>> /\ stage = "closed" /\ position = None
      /\ fd' = path /\ path \in 1..Len(content)
  BY Typed DEF File!Open, Inv, File!FileTypeOK, File!SourceTypeOK
<1>2. inode[path] \in Inodes /\ buffer' \in Seq(Nat)
  BY <1>1, Typed, SeqAt
<1>3. CASE File(K)!OpenSaved
  <2>1. /\ saved # None /\ saved.ino = inode[path] /\ position' = saved /\ stage' = "check"
        /\ UNCHANGED <<rows, saved>>
    BY <1>1, <1>3 DEF File!OpenSaved, File!store
  <2>2. File(K)!FilesTypeOK' /\ content' = content /\ inode' = inode
    BY <1>1, FilesSame, Typed
  <2>3. File(K)!SourceTypeOK'
    BY <1>1, <1>2, <2>1, <2>2, Typed DEF File!SourceTypeOK, File!Stages
  <2>4. File(K)!StoreTypeOK'
    BY <2>1, <2>2 DEF Inv, File!FileTypeOK, File!StoreTypeOK
  <2>5. File(K)!DescriptorMatches' /\ JobMatches'
    BY <1>1, <2>1, <2>2 DEF File!DescriptorMatches, JobMatches
  <2>6. File(K)!PositionRecorded'
    BY <2>1 DEF Inv, File!PositionRecorded
  <2> QED
    BY <2>2, <2>3, <2>4, <2>5, <2>6 DEF Inv, File!FileTypeOK
<1>4. CASE File(K)!OpenReplaced
  <2> DEFINE next == File(K)!At(inode[path], saved.epoch + 1, 0)
  <2>1. saved \in File(K)!Position
    BY <1>4, Typed DEF File!OpenReplaced
  <2>2. next \in File(K)!Position /\ next.ino = inode[path]
    <3>1. saved.epoch + 1 \in Nat
      BY <2>1 DEF File!Position
    <3> QED
      BY <1>2, <3>1, AtIs DEF File!At
  <2>3. File(K)!Prepare(next, None, 0) /\ UNCHANGED position
    BY <1>4 DEF File!OpenReplaced
  <2> HIDE DEF next
  <2>4. None \in File(K)!Line /\ 0 \in 0..Len(content)
    BY Typed DEF File!Line
  <2> QED
    BY <1>1, <1>2, <2>2, <2>3, <2>4, Prepares
<1>5. CASE File(K)!OpenNew
  <2> DEFINE next == File(K)!At(inode[path], 0, IF K.replay THEN 0 ELSE Len(content[path]))
  <2>1. next \in File(K)!Position /\ next.ino = inode[path]
    <3>1. content[path] \in Seq(Nat)
      BY <1>1, Typed, SeqAt
    <3>2. (IF K.replay THEN 0 ELSE Len(content[path])) \in Nat
      BY <3>1
    <3> QED
      BY <1>2, <3>2, AtIs DEF File!At
  <2>2. File(K)!Prepare(next, None, 0) /\ UNCHANGED position
    BY <1>5 DEF File!OpenNew
  <2> HIDE DEF next
  <2>3. None \in File(K)!Line /\ 0 \in 0..Len(content)
    BY Typed DEF File!Line
  <2> QED
    BY <1>1, <1>2, <2>1, <2>2, <2>3, Prepares
<1> QED
  BY <1>3, <1>4, <1>5 DEF File!Open

(* What holds of a source that has a file open and a position. *)
LEMMA OpenTyped ==
  ASSUME NEW K, File(K)!FileConstants,
         Inv(K), stage \in {"check", "read", "stat", "switch"}
  PROVE  /\ position \in File(K)!Position /\ position # None
         /\ fd \in 1..Len(content) /\ fd \in 0..Len(content) /\ inode[fd] = position.ino
         /\ content[fd] \in Seq(Nat) /\ Len(content[fd]) \in Nat
<1>1. position \in File(K)!Position /\ position # None /\ fd \in 1..Len(content) /\ fd \in 0..Len(content)
  BY Typed DEF Inv, File!FileTypeOK, File!SourceTypeOK
<1>2. inode[fd] = position.ino
  BY <1>1 DEF Inv, File!DescriptorMatches
<1>3. content[fd] \in Seq(Nat)
  BY <1>1, Typed, SeqAt
<1> QED
  BY <1>1, <1>2, <1>3

LEMMA PollKeeps ==
  ASSUME NEW K, File(K)!FileConstants,
         Inv(K), File(K)!Check \/ File(K)!Read \/ File(K)!Wait \/ File(K)!Consume \/ File(K)!Drained \/ File(K)!Switch
  PROVE  Inv(K)'
<1>1. CASE File(K)!Check
  <2>1. stage = "check" /\ UNCHANGED <<File(K)!files, troubles, fd, position, buffer, File(K)!store>>
    BY <1>1 DEF File!Check
  <2>2. buffer' \in Seq(Nat)
    BY <2>1, Typed
  <2>3. CASE ~File(K)!Damaged
    BY <1>1, <2>1, <2>2, <2>3, GoesOn DEF File!Check
  <2>4. CASE File(K)!Damaged
    <3> DEFINE next == File(K)!At(position.ino, position.epoch + 1, 0)
    <3>1. next \in File(K)!Position /\ next.ino = position.ino /\ Before(position, next)
      <4>1. position.ino \in Inodes /\ position.epoch \in Nat /\ position.epoch + 1 \in Nat
        BY <2>1, OpenTyped DEF File!Position
      <4>2. next.epoch = position.epoch + 1 /\ next.ino = position.ino
        BY DEF File!At
      <4>3. position.epoch < position.epoch + 1
        BY <4>1
      <4> QED
        BY <4>1, <4>2, <4>3, AtIs DEF Before
    <3>2. File(K)!Prepare(next, None, fd)
      BY <1>1, <2>4 DEF File!Check
    <3> HIDE DEF next
    <3>3. None \in File(K)!Line
      BY DEF File!Line
    <3>4. fd' \in 1..Len(content) /\ inode[fd'] = next.ino /\ inode[fd] = position.ino /\ fd # 0
      BY <2>1, <3>1, OpenTyped
    <3> QED
      BY <2>1, <2>2, <3>1, <3>2, <3>3, <3>4, OpenTyped, Prepares
  <2> QED
    BY <2>3, <2>4
<1>2. CASE File(K)!Read
  <2>1. /\ stage = "read" /\ stage' = "stat"
        /\ UNCHANGED <<File(K)!files, troubles, fd, position, job, File(K)!store>>
        /\ buffer' = SubSeq(content[fd], position.offset + 1,
                            File(K)!Least(Len(content[fd]), position.offset + Window + 1))
    BY <1>2 DEF File!Read
  <2>2. position.offset \in Nat /\ Window \in Nat
    BY <2>1, OpenTyped DEF File!FileConstants, File!Position
  <2>3. /\ File(K)!Least(Len(content[fd]), position.offset + Window + 1) \in Nat
        /\ File(K)!Least(Len(content[fd]), position.offset + Window + 1) <= Len(content[fd])
    BY <2>1, <2>2, OpenTyped, SMTT(30) DEF File!Least
  <2>4. buffer' \in Seq(Nat)
    <3>1. position.offset + 1 \in Nat /\ position.offset + 1 >= 1
      BY <2>2
    <3> QED
      BY <2>1, <2>3, <3>1, OpenTyped, SubSeqIs
  <2> QED
    BY <2>1, <2>4, GoesOn
<1>3. CASE File(K)!Wait \/ File(K)!Drained
  <2>1. /\ stage = "stat" /\ stage' \in {"check", "switch"}
        /\ UNCHANGED <<File(K)!files, troubles, fd, position, File(K)!store>>
        /\ buffer' = buffer \/ buffer' = <<>>
    BY <1>3 DEF File!Wait, File!Drained
  <2>2. buffer' \in Seq(Nat)
    <3>1. buffer \in Seq(Nat) /\ <<>> \in Seq(Nat)
      BY Typed
    <3> QED
      BY <2>1, <3>1
  <2> QED
    BY <2>1, <2>2, GoesOn
<1>4. CASE File(K)!Consume
  <2>1. /\ stage = "stat" /\ buffer # <<>> /\ buffer' = <<>>
        /\ UNCHANGED <<File(K)!files, troubles, fd, position, File(K)!store>>
    BY <1>4 DEF File!Consume
  <2> DEFINE next(n) == [position EXCEPT !.offset = position.offset + n,
                                         !.skipping = File(K)!Ends = {} /\ ~File(K)!Rotated]
  <2>2. PICK n \in File(K)!Consumed : File(K)!Prepare(next(n), File(K)!RecordedAs(n), fd)
    BY <1>4 DEF File!Consume
  <2>3. n \in 1..Len(buffer) /\ Len(buffer) \in Nat
    <3>1. Len(buffer) \in Nat /\ Len(buffer) # 0 /\ DOMAIN buffer = 1..Len(buffer)
      BY <2>1, Typed
    <3>2. n \in {Len(buffer)} \union DOMAIN buffer
      BY <2>2 DEF File!Consumed, File!Ends
    <3> QED
      BY <3>1, <3>2
  <2>4. next(n) \in File(K)!Position /\ next(n).ino = position.ino /\ Before(position, next(n))
    <3>1. position \in File(K)!Position /\ position.offset \in Nat
      BY <2>1, OpenTyped DEF File!Position
    <3>2. position.offset + n \in Nat /\ position.offset < position.offset + n
      BY <2>3, <3>1
    <3>3. (File(K)!Ends = {} /\ ~File(K)!Rotated) \in BOOLEAN
      OBVIOUS
    <3>4. /\ next(n).epoch = position.epoch /\ next(n).ino = position.ino
          /\ next(n).offset = position.offset + n
      BY <3>1 DEF File!Position
    <3>5. next(n) \in File(K)!Position
      BY <3>1, <3>2, <3>3 DEF File!Position
    <3> QED
      BY <3>2, <3>4, <3>5 DEF Before
  <2>5. File(K)!RecordedAs(n) \in File(K)!Line
    <3>1. n - 1 \in Nat /\ n - 1 <= Len(buffer)
      BY <2>3
    <3>2. SubSeq(buffer, 1, n - 1) \in Seq(Nat)
      BY <3>1, Typed, SubSeqIs
    <3> QED
      BY <3>2 DEF File!RecordedAs, File!Line
  <2> HIDE DEF next
  <2>6. buffer' \in Seq(Nat)
    BY <2>1
  <2>7. fd' \in 1..Len(content) /\ inode[fd'] = next(n).ino /\ inode[fd] = position.ino /\ fd # 0
    BY <2>1, <2>4, OpenTyped
  <2> QED
    BY <2>1, <2>2, <2>4, <2>5, <2>6, <2>7, OpenTyped, Prepares
<1>5. CASE File(K)!Switch
  <2>1. stage = "switch" /\ UNCHANGED <<File(K)!files, troubles, position, buffer, File(K)!store>>
    BY <1>5 DEF File!Switch
  <2>2. buffer' \in Seq(Nat)
    BY <2>1, Typed
  <2>3. CASE stage' = "check" /\ UNCHANGED <<fd, job>>
    BY <2>1, <2>2, <2>3, GoesOn
  <2>4. CASE /\ path # 0 /\ fd' = path
             /\ File(K)!Prepare(File(K)!At(inode[path], position.epoch + 1, 0), None, fd)
    <3> DEFINE next == File(K)!At(inode[path], position.epoch + 1, 0)
    <3>1. path \in 1..Len(content) /\ inode[path] \in Inodes
      BY <2>4, Typed, SeqAt
    <3>2. next \in File(K)!Position /\ next.ino = inode[path] /\ Before(position, next)
      <4>1. position.epoch \in Nat /\ position.epoch + 1 \in Nat
        BY <2>1, OpenTyped DEF File!Position
      <4>2. next.epoch = position.epoch + 1 /\ next.ino = inode[path]
        BY DEF File!At
      <4>3. position.epoch < position.epoch + 1
        BY <4>1
      <4> QED
        BY <3>1, <4>1, <4>2, <4>3, AtIs DEF Before
    <3>3. File(K)!Prepare(next, None, fd)
      BY <2>4
    <3> HIDE DEF next
    <3>4. None \in File(K)!Line
      BY DEF File!Line
    <3>5. fd' \in 1..Len(content) /\ inode[fd'] = next.ino /\ inode[fd] = position.ino /\ fd # 0
      BY <2>1, <2>4, <3>1, <3>2, OpenTyped
    <3> QED
      BY <2>1, <2>2, <3>2, <3>3, <3>4, <3>5, OpenTyped, Prepares
  <2> QED
    BY <1>5, <2>3, <2>4 DEF File!Switch
<1> QED
  BY <1>1, <1>2, <1>3, <1>4, <1>5
-----------------------------------------------------------------------------
(* What a durable commit leaves in custody. *)
LEMMA Published ==
  ASSUME NEW K, File(K)!FileConstants,
         Inv(K), File(K)!Publish, UNCHANGED File(K)!files, troubles' \in Nat
  PROVE  /\ File(K)!Marked \in File(K)!Position /\ saved' = File(K)!Marked /\ File(K)!StoreTypeOK'
         /\ File(K)!Marked.ino = inode[fd] /\ saved' # None /\ rows' # <<>>
         /\ rows'[Len(rows')].ino = File(K)!Marked.ino /\ rows'[Len(rows')].epoch = File(K)!Marked.epoch
         /\ rows'[Len(rows')].offset = File(K)!Marked.offset
         /\ position # None => Before(position, File(K)!Marked)
<1>1. /\ stage = "commit" /\ fd \in 1..Len(content) /\ job.next \in File(K)!Position
      /\ job.line \in File(K)!Line /\ job.next.offset <= Len(content[fd]) /\ inode[fd] = job.next.ino
  BY Typed DEF Inv, File!FileTypeOK, File!SourceTypeOK, JobMatches, File!Publish
<1>2. content[fd] \in Seq(Nat)
  BY <1>1, Typed, SeqAt
<1>3. File(K)!Tail32(fd, job.next.offset) \in Seq(Nat)
  <2>1. job.next.offset \in 0..Len(content[fd])
    BY <1>1, <1>2 DEF File!Position
  <2> QED
    BY <1>1, <2>1, TailIs DEF Inv, File!FileTypeOK
<1>4. /\ File(K)!Marked \in File(K)!Position /\ File(K)!Marked.ino = job.next.ino /\ File(K)!Marked.epoch = job.next.epoch
      /\ File(K)!Marked.offset = job.next.offset
  BY <1>1, <1>3 DEF File!Marked, File!Position
<1>5. saved' = File(K)!Marked
  BY DEF File!Publish
<1> DEFINE row == [ino |-> job.next.ino, epoch |-> job.next.epoch,
                   offset |-> job.next.offset, line |-> job.line, file |-> fd]
<1>6. row \in Rows(K)
  BY <1>1 DEF Rows, File!Position
<1>7. rows \in Seq(Rows(K)) /\ rows' = Append(rows, row)
  BY DEF Inv, File!FileTypeOK, File!StoreTypeOK, Rows, File!Publish
<1>8. /\ row.ino = File(K)!Marked.ino /\ row.epoch = File(K)!Marked.epoch /\ row.offset = File(K)!Marked.offset
  BY <1>4
<1> HIDE DEF row
<1>9. rows' \in Seq(Rows(K)) /\ rows' # <<>> /\ rows'[Len(rows')] = row
  <2>1. /\ Append(rows, row) \in Seq(Rows(K)) /\ Len(Append(rows, row)) = Len(rows) + 1
        /\ Append(rows, row) # <<>> /\ Append(rows, row)[Len(rows) + 1] = row
    BY <1>6, <1>7, AppendIs
  <2> QED
    BY <1>7, <2>1
<1>10. File(K)!StoreTypeOK'
  <2>1. content' = content
    BY DEF File!files
  <2>2. rows' \in Seq([ino : Inodes, epoch : Nat, offset : Nat, line : File(K)!Line,
                       file : 1..Len(content')])
    BY <1>9, <2>1 DEF Rows
  <2> QED
    BY <1>4, <1>5, <2>2 DEF File!StoreTypeOK
<1>11. position # None => Before(position, File(K)!Marked)
  BY <1>1, <1>4 DEF Inv, JobMatches, Before
<1> QED
  BY <1>1, <1>4, <1>5, <1>8, <1>9, <1>10, <1>11, Typed

LEMMA CommitKeeps ==
  ASSUME NEW K, File(K)!FileConstants
  PROVE  Inv(K) /\ File(K)!Commit => Inv(K)'
<1> SUFFICES ASSUME Inv(K), File(K)!Commit PROVE Inv(K)'
  OBVIOUS
<1>1. /\ File(K)!Publish /\ UNCHANGED <<File(K)!files, troubles, fd, buffer>>
      /\ position' = File(K)!Marked /\ stage' = "check" /\ stage = "commit"
  BY DEF File!Commit, File!Publish
<1>2. File(K)!FilesTypeOK' /\ content' = content /\ inode' = inode
  BY <1>1, FilesSame, Typed
<1>3. /\ File(K)!Marked \in File(K)!Position /\ saved' = File(K)!Marked /\ File(K)!StoreTypeOK'
      /\ File(K)!Marked.ino = inode[fd] /\ saved' # None /\ rows' # <<>>
      /\ rows'[Len(rows')].ino = File(K)!Marked.ino /\ rows'[Len(rows')].epoch = File(K)!Marked.epoch
      /\ rows'[Len(rows')].offset = File(K)!Marked.offset
  BY <1>1, Published, Typed
<1>4. fd # 0
  BY <1>1 DEF Inv, File!FileTypeOK, File!SourceTypeOK
<1>5. File(K)!SourceTypeOK'
  BY <1>1, <1>2, <1>3, <1>4, Typed DEF File!SourceTypeOK, File!Stages
<1>6. File(K)!DescriptorMatches' /\ JobMatches'
  BY <1>1, <1>2, <1>3, <1>4 DEF File!DescriptorMatches, JobMatches
<1>7. File(K)!PositionRecorded'
  BY <1>1, <1>3 DEF File!PositionRecorded
<1> QED
  BY <1>2, <1>3, <1>5, <1>6, <1>7 DEF Inv, File!FileTypeOK

(* A poll that fails has again the file of the position it has. *)
LEMMA Abandoned ==
  ASSUME NEW K, File(K)!FileConstants,
         Inv(K), File(K)!Abandon, troubles' \in Nat
  PROVE  File(K)!FilesTypeOK' /\ File(K)!SourceTypeOK' /\ File(K)!DescriptorMatches' /\ stage' # "commit"
         /\ position' = position /\ content' = content
<1>1. /\ UNCHANGED <<File(K)!files, position, buffer>> /\ stage = "commit"
      /\ fd' = IF position = None THEN 0 ELSE job.old
      /\ stage' = IF position = None THEN "closed" ELSE "check"
  BY DEF File!Abandon
<1>2. File(K)!FilesTypeOK' /\ content' = content /\ inode' = inode
  BY <1>1, FilesSame
<1>3. position # None =>
         job.old # 0 /\ job.old \in 0..Len(content) /\ inode[job.old] = position.ino
  BY <1>1 DEF Inv, File!FileTypeOK, File!SourceTypeOK, File!DescriptorMatches
<1>4. File(K)!SourceTypeOK'
  BY <1>1, <1>2, <1>3, Typed DEF File!SourceTypeOK, File!Stages
<1>5. File(K)!DescriptorMatches'
  BY <1>1, <1>2, <1>3 DEF File!DescriptorMatches
<1> QED
  BY <1>1, <1>2, <1>4, <1>5

LEMMA FailureKeeps ==
  ASSUME NEW K, File(K)!FileConstants
  PROVE  Inv(K) /\ (File(K)!CommitFails \/ File(K)!CommitUnreported) => Inv(K)'
<1> SUFFICES ASSUME Inv(K), File(K)!CommitFails \/ File(K)!CommitUnreported PROVE Inv(K)'
  OBVIOUS
<1>1. File(K)!Abandon /\ troubles' \in Nat
  BY Typed DEF File!CommitFails, File!CommitUnreported, File!Trouble
<1>2. /\ File(K)!FilesTypeOK' /\ File(K)!SourceTypeOK' /\ File(K)!DescriptorMatches' /\ stage' # "commit"
      /\ position' = position /\ content' = content
  BY <1>1, Abandoned
<1>3. CASE File(K)!CommitFails
  <2>1. UNCHANGED <<rows, saved>>
    BY <1>3 DEF File!CommitFails, File!store
  <2>2. File(K)!StoreTypeOK'
    BY <1>2, <2>1 DEF Inv, File!FileTypeOK, File!StoreTypeOK
  <2>3. JobMatches' /\ File(K)!PositionRecorded'
    BY <1>2, <2>1 DEF Inv, JobMatches, File!PositionRecorded
  <2> QED
    BY <1>2, <2>2, <2>3 DEF Inv, File!FileTypeOK
<1>4. CASE File(K)!CommitUnreported
  <2>1. File(K)!Publish /\ UNCHANGED File(K)!files
    BY <1>4 DEF File!CommitUnreported, File!Abandon
  <2>2. /\ File(K)!Marked \in File(K)!Position /\ saved' = File(K)!Marked /\ File(K)!StoreTypeOK'
        /\ saved' # None /\ rows' # <<>>
        /\ rows'[Len(rows')].ino = File(K)!Marked.ino /\ rows'[Len(rows')].epoch = File(K)!Marked.epoch
        /\ rows'[Len(rows')].offset = File(K)!Marked.offset
        /\ position # None => Before(position, File(K)!Marked)
    BY <1>1, <2>1, Published
  <2>3. JobMatches'
    BY <1>2, <2>2 DEF JobMatches
  <2>4. File(K)!PositionRecorded'
    BY <1>2, <2>2 DEF File!PositionRecorded, Before
  <2> QED
    BY <1>2, <2>2, <2>3, <2>4 DEF Inv, File!FileTypeOK
<1> QED
  BY <1>3, <1>4

-----------------------------------------------------------------------------
LEMMA StutterKeeps ==
  ASSUME NEW K, File(K)!FileConstants
  PROVE  Inv(K) /\ UNCHANGED File(K)!fileVars => Inv(K)'
<1> SUFFICES ASSUME Inv(K), UNCHANGED File(K)!fileVars PROVE Inv(K)'
  OBVIOUS
<1>1. UNCHANGED <<File(K)!files, File(K)!source, File(K)!store, troubles>>
  BY DEF File!fileVars
<1>2. File(K)!FilesTypeOK' /\ FilesKept
  BY <1>1, Typed DEF Inv, File!FileTypeOK, File!FilesTypeOK, FilesKept, File!files
<1> QED
  BY <1>1, <1>2, OthersChange

LEMMA StepKeeps ==
  ASSUME NEW K, File(K)!FileConstants
  PROVE  Inv(K) /\ [File(K)!FileNext]_(File(K)!fileVars) => Inv(K)'
<1> SUFFICES ASSUME Inv(K), [File(K)!FileNext]_(File(K)!fileVars) PROVE Inv(K)'
  OBVIOUS
<1>1. CASE UNCHANGED File(K)!fileVars
  BY <1>1, StutterKeeps
<1>2. CASE File(K)!Surroundings
  BY <1>2, AroundKeeps, RestartKeeps DEF File!Surroundings
<1>3. CASE File(K)!Polling
  BY <1>3, OpenKeeps, PollKeeps DEF File!Polling
<1>4. CASE File(K)!Commit \/ File(K)!CommitFails \/ File(K)!CommitUnreported
  BY <1>4, CommitKeeps, FailureKeeps
<1> QED
  BY <1>1, <1>2, <1>3, <1>4 DEF File!FileNext

(* FileTypeOK: every variable of the file source keeps its type. *)
THEOREM FileTyped ==
  ASSUME NEW K, File(K)!FileConstants
  PROVE  File(K)!FileSpec => []File(K)!FileTypeOK
<1>1. Inv(K) => File(K)!FileTypeOK
  BY DEF Inv
<1> QED
  BY <1>1, InitInv, StepKeeps, PTL DEF File!FileSpec

-----------------------------------------------------------------------------
(* The lines that are recorded. *)

(* What is excluded: commits that report an error although they are        *)
(* durable, unless there is one file and it is not truncated.              *)
Reported(K) == "unreported" \notin K.kinds
Steady(K) == "truncate" \notin K.kinds
OneFile(K) == K.files = 1 /\ Steady(K)

(* Whatever file f of the contents c has after offset o, and any file      *)
(* after f, was written after byte b.                                      *)
Later(c, b, f, o) ==
    \A g \in 1..Len(c) : \A k \in 1..Len(c[g]) :
        (g > f \/ (g = f /\ k > o)) /\ c[g][k] # 0 => b < c[g][k]

(* Bytes are written in the order of files and offsets: the writer goes on *)
(* to later files only, and those after its own are empty.                 *)
BytesInOrder ==
    /\ path \in {0, Len(content)}
    /\ \A f \in 1..Len(content) : f > writer => content[f] = <<>>
    /\ \A f \in 1..Len(content) : \A k \in 1..Len(content[f]) :
          /\ content[f][k] <= written
          /\ content[f][k] # 0 => Later(content, content[f][k], f, k)

(* The bytes of the lines that are recorded. *)
BytesOf(line) == {line[m] : m \in DOMAIN line}
Told(rs) == UNION {BytesOf(rs[i].line) : i \in {j \in DOMAIN rs : rs[j].line # None}}

SavedFile(rs) == rs[Len(rs)].file

(* The bytes a fingerprint was computed from are there still. *)
Undamaged(K, c, f, p) ==
    /\ p.offset <= Len(c[f])
    /\ SubSeq(c[f], p.offset + 1 - File(K)!Least(p.offset, TailLength), p.offset) = p.tail

(* No line is recorded of what is after the saved position or, where the   *)
(* file is not what it was, of what is in it now.                          *)
RowsComeBefore(K) ==
    /\ \A b \in Told(rows) : b <= written
    /\ rows # <<>> =>
         /\ inode[SavedFile(rows)] = saved.ino
         /\ \A b \in Told(rows) : Later(content, b, SavedFile(rows), saved.offset)
         /\ \/ Undamaged(K, content, SavedFile(rows), saved)
            \/ ~Steady(K) /\ \A b \in Told(rows) : Later(content, b, SavedFile(rows), 0)

RowsInOrder(K) ==
    \A i \in DOMAIN rows :
        /\ ~Before(saved, rows[i])
        /\ rows[i].line # None => rows[i].line # <<>> /\ i > 1
        /\ Steady(K) => rows[i].offset <= Len(content[rows[i].file])

(* The files that are open are not older than that of the saved position;  *)
(* one that is left was replaced.                                          *)
OpenInOrder ==
    /\ rows # <<>> /\ fd # 0 => fd >= SavedFile(rows)
    /\ rows # <<>> /\ stage = "commit" /\ job.old # 0 => job.old >= SavedFile(rows)
    /\ stage = "switch" => path # fd

InStep == position # None => position = saved

(* What was read is in the file, and was written after all that is told.   *)
BufferIsRead(K) ==
    /\ stage # "stat" => buffer = <<>>
    /\ Len(buffer) <= Window + 1
    /\ Steady(K) /\ stage \in {"read", "stat"} =>
         /\ position.offset + Len(buffer) <= Len(content[fd])
         /\ \A i \in 1..Len(buffer) : buffer[i] = content[fd][position.offset + i]

BufferIsNew ==
    stage = "stat" /\ InStep =>
        \A i \in 1..Len(buffer) : buffer[i] # 0 =>
            /\ buffer[i] <= written /\ Later(content, buffer[i], fd, position.offset + i)
            /\ \A b \in Told(rows) : b < buffer[i]

(* What is committed goes on where the last row ends: a line in its        *)
(* generation, a gap before another one.                                   *)
JobGoesOn(K) ==
    stage = "commit" /\ job.line # None =>
        /\ position # None /\ job.line # <<>>
        /\ job.next.ino = position.ino /\ job.next.epoch = position.epoch
        /\ Steady(K) =>
             /\ job.next.offset <= Len(content[fd])
             /\ SubSeq(content[fd], position.offset + 1, job.next.offset) = Append(job.line, 0)

JobIsNew ==
    stage = "commit" /\ InStep =>
        /\ rows # <<>> => Before(saved, job.next)
        /\ \A b \in Told(rows) : Later(content, b, fd, job.next.offset)
        /\ job.line # None =>
             \A c \in BytesOf(job.line) :
                 /\ c <= written /\ Later(content, c, fd, job.next.offset)
                 /\ \A b \in Told(rows) : b < c

(* The bytes of the one file that are consumed from offset o on, now and   *)
(* whenever it is tried again.                                             *)
Taken(c, o, n) ==
    /\ n \in 1..(Window + 1) /\ o + n <= Len(c[1])
    /\ \A k \in (o + 1)..(o + n - 1) : c[1][k] # 0
    /\ c[1][o + n] = 0 \/ n = Window + 1

GoesTo(c, p, q) ==
    /\ q.ino = p.ino /\ q.epoch = p.epoch
    /\ \E n \in 1..(Window + 1) : Taken(c, p.offset, n) /\ q.offset = p.offset + n

(* One file: after a commit that was not reported, what it committed is    *)
(* prepared again and again, and refused.                                  *)
Repeating(K) ==
    OneFile(K) =>
        /\ Len(content) = 1 /\ path = 1
        /\ position # None =>
             /\ Undamaged(K, content, 1, position)
             /\ position # saved => GoesTo(content, position, saved)
             /\ stage = "commit" => GoesTo(content, position, job.next)

(* One file, read from its start: what is not skipped begins a line.       *)
AtLine(c, p) ==
    /\ p.offset <= Len(c[1])
    /\ p.skipping \/ p.offset = 0 \/ c[1][p.offset] = 0

LinesBegin(K) ==
    OneFile(K) /\ K.replay =>
        /\ rows # <<>> => AtLine(content, saved)
        /\ position # None => AtLine(content, position)
        /\ stage = "commit" => AtLine(content, job.next)
        /\ stage = "commit" /\ job.line # None => ~position.skipping

StoredInv(K) ==
    /\ BytesInOrder /\ RowsComeBefore(K) /\ RowsInOrder(K)
    /\ File(K)!GapsBetweenGenerations /\ File(K)!LinesInOrder
    /\ Steady(K) => File(K)!LinesTileTheFile
    /\ OneFile(K) /\ K.replay => File(K)!NoFragments

LinesInv(K) ==
    /\ Inv(K) /\ StoredInv(K) /\ OpenInOrder /\ BufferIsRead(K) /\ BufferIsNew
    /\ JobGoesOn(K) /\ JobIsNew /\ Repeating(K) /\ LinesBegin(K)
    /\ Reported(K) => InStep
-----------------------------------------------------------------------------
LEMMA SubSeqAt ==
  ASSUME NEW S, NEW s \in Seq(S), NEW m \in Nat, NEW n \in Nat, m >= 1, n <= Len(s)
  PROVE  /\ m <= n => Len(SubSeq(s, m, n)) = n - m + 1
         /\ n < m => Len(SubSeq(s, m, n)) = 0
         /\ \A i \in 1..Len(SubSeq(s, m, n)) : m + i - 1 \in 1..Len(s) /\ SubSeq(s, m, n)[i] = s[m + i - 1]
  OBVIOUS

LEMMA ConcatAt ==
  ASSUME NEW S, NEW s \in Seq(S), NEW t \in Seq(S)
  PROVE  /\ Len(s \o t) = Len(s) + Len(t)
         /\ \A i \in 1..Len(s) : (s \o t)[i] = s[i]
         /\ \A i \in (Len(s) + 1)..(Len(s) + Len(t)) : (s \o t)[i] = t[i - Len(s)]
  OBVIOUS

LEMMA SameSeq ==
  ASSUME NEW S, NEW s \in Seq(S), NEW t \in Seq(S), Len(s) = Len(t),
         \A i \in 1..Len(s) : s[i] = t[i]
  PROVE  s = t
  OBVIOUS

(* The same part of a sequence and of one it begins. *)
LEMMA SamePart ==
  ASSUME NEW S, NEW s \in Seq(S), NEW t \in Seq(S), Len(s) <= Len(t),
         \A i \in 1..Len(s) : s[i] = t[i],
         NEW m \in Nat, NEW n \in Nat, m >= 1, n <= Len(s)
  PROVE  SubSeq(t, m, n) = SubSeq(s, m, n)
<1>1. Len(s) \in Nat /\ Len(t) \in Nat /\ n <= Len(t)
  OBVIOUS
<1>2. /\ SubSeq(s, m, n) \in Seq(S) /\ Len(SubSeq(t, m, n)) = Len(SubSeq(s, m, n))
      /\ SubSeq(t, m, n) \in Seq(S)
  BY <1>1, SubSeqIs, SubSeqAt
<1>3. \A i \in 1..Len(SubSeq(t, m, n)) : SubSeq(t, m, n)[i] = SubSeq(s, m, n)[i]
  BY <1>1, <1>2, SubSeqAt
<1> QED
  BY <1>2, <1>3, SameSeq

LEMMA LaterFrom ==
  ASSUME NEW c \in Seq(Seq(Nat)), NEW b, NEW f \in Nat, NEW o \in Nat, NEW g \in Nat, NEW p \in Nat,
         Later(c, b, f, o), g > f \/ (g = f /\ p >= o)
  PROVE  Later(c, b, g, p)
<1>1. \A h \in 1..Len(c) : \A k \in 1..Len(c[h]) : h \in Nat /\ k \in Nat
  <2>1. \A h \in 1..Len(c) : Len(c[h]) \in Nat
    BY SeqAt
  <2> QED
    BY <2>1
<1>2. \A h, k \in Nat : (h > g \/ (h = g /\ k > p)) => (h > f \/ (h = f /\ k > o))
  OBVIOUS
<1> QED
  BY <1>1, <1>2 DEF Later

LEMMA LaterAt ==
  ASSUME NEW c \in Seq(Seq(Nat)), NEW b, NEW f, NEW o, Later(c, b, f, o),
         NEW g \in 1..Len(c), NEW k \in 1..Len(c[g]), g > f \/ (g = f /\ k > o), c[g][k] # 0
  PROVE  b < c[g][k]
  BY DEF Later

-----------------------------------------------------------------------------
(* The programs around the file: what is in a file stays where it is until *)
(* all of it is gone, and what is new was written after all the rest.      *)
Grows(c, d) == Len(c) <= Len(d) /\ \A k \in 1..Len(c) : d[k] = c[k]

Moves(K) ==
    /\ \A f \in 1..Len(content) :
          Grows(content[f], content'[f]) \/ (~Steady(K) /\ content'[f] = <<>>)
    /\ written <= written'
    /\ \A g \in 1..Len(content') : \A k \in 1..Len(content'[g]) :
          /\ content'[g][k] <= written'
          /\ \/ content'[g][k] = 0 \/ written < content'[g][k]
             \/ /\ g \in 1..Len(content) /\ k \in 1..Len(content[g])
                /\ content'[g][k] = content[g][k]

LEMMA LaterKept ==
  ASSUME NEW K, File(K)!FileConstants,
         Inv(K), Inv(K)', Moves(K), NEW b \in Nat, b <= written, NEW f \in Nat, NEW o \in Nat,
         Later(content, b, f, o)
  PROVE  Later(content', b, f, o)
<1>1. content' \in Seq(Seq(Nat)) /\ written \in Nat
  BY DEF Inv, File!FileTypeOK, File!FilesTypeOK
<1>2. SUFFICES ASSUME NEW g \in 1..Len(content'), NEW k \in 1..Len(content'[g]),
                      g > f \/ (g = f /\ k > o), content'[g][k] # 0
               PROVE  b < content'[g][k]
  BY DEF Later
<1>3. content'[g][k] \in Nat
  BY <1>1, SeqAt
<1>4. \/ content'[g][k] = 0 \/ written < content'[g][k]
      \/ /\ g \in 1..Len(content) /\ k \in 1..Len(content[g]) /\ content'[g][k] = content[g][k]
  BY DEF Moves
<1>5. CASE written < content'[g][k]
  BY <1>1, <1>3, <1>5, SMTT(30)
<1>6. CASE g \in 1..Len(content) /\ k \in 1..Len(content[g]) /\ content'[g][k] = content[g][k]
  <2>1. content \in Seq(Seq(Nat)) /\ content[g][k] # 0
    BY <1>2, <1>6 DEF Inv, File!FileTypeOK, File!FilesTypeOK
  <2>2. b < content[g][k]
    BY <1>2, <1>6, <2>1, LaterAt
  <2> QED
    BY <1>6, <2>2
<1> QED
  BY <1>2, <1>4, <1>5, <1>6

(* What is in a file that only grows. *)
LEMMA GrownAt ==
  ASSUME NEW c \in Seq(Nat), NEW d \in Seq(Nat), Grows(c, d)
  PROVE  /\ Len(c) \in Nat /\ Len(d) \in Nat /\ Len(c) <= Len(d)
         /\ \A k \in 1..Len(c) : d[k] = c[k]
         /\ \A m, n \in Nat : m >= 1 /\ n <= Len(c) => SubSeq(d, m, n) = SubSeq(c, m, n)
<1>1. \A k \in 1..Len(c) : d[k] = c[k]
  BY DEF Grows
<1>2. Len(c) \in Nat /\ Len(d) \in Nat /\ Len(c) <= Len(d)
  BY DEF Grows
<1>3. ASSUME NEW m \in Nat, NEW n \in Nat, m >= 1, n <= Len(c)
      PROVE  SubSeq(d, m, n) = SubSeq(c, m, n)
  <2>1. n <= Len(d)
    BY <1>2, <1>3
  <2> QED
    BY <1>1, <1>3, <2>1, SamePart
<1> QED
  BY <1>1, <1>2, <1>3

LEMMA SteadyGrows ==
  ASSUME NEW K, File(K)!FileConstants,
         Inv(K), Inv(K)', FilesKept, Moves(K), NEW f \in 1..Len(content), Steady(K)
  PROVE  /\ Grows(content[f], content'[f]) /\ f \in 1..Len(content')
         /\ content[f] \in Seq(Nat) /\ content'[f] \in Seq(Nat)
<1>1. content \in Seq(Seq(Nat)) /\ content' \in Seq(Seq(Nat))
  BY DEF Inv, File!FileTypeOK, File!FilesTypeOK
<1>2. f \in 1..Len(content')
  BY <1>1 DEF FilesKept
<1>3. Grows(content[f], content'[f])
  BY DEF Moves
<1> QED
  BY <1>1, <1>2, <1>3, SeqAt

-----------------------------------------------------------------------------
(* The rows of custody. *)
LEMMA RowsTyped ==
  ASSUME NEW K, File(K)!FileConstants,
         Inv(K)
  PROVE  /\ rows \in Seq(Rows(K)) /\ Len(rows) \in Nat /\ DOMAIN rows = 1..Len(rows)
         /\ \A i \in 1..Len(rows) :
               /\ rows[i].ino \in Inodes /\ rows[i].epoch \in Nat /\ rows[i].offset \in Nat
               /\ rows[i].line \in File(K)!Line /\ rows[i].file \in 1..Len(content)
<1>1. rows \in Seq(Rows(K))
  BY DEF Inv, File!FileTypeOK, File!StoreTypeOK, Rows
<1>2. \A i \in 1..Len(rows) : rows[i] \in Rows(K)
  BY <1>1, SeqAt
<1> QED
  BY <1>1, <1>2 DEF Rows

LEMMA SavedTyped ==
  ASSUME NEW K, File(K)!FileConstants,
         Inv(K)
  PROVE  /\ rows = <<>> <=> saved = None
         /\ rows # <<>> =>
              /\ SavedFile(rows) \in 1..Len(content) /\ SavedFile(rows) \in Nat
              /\ Len(rows) \in 1..Len(rows)
              /\ saved \in File(K)!Position /\ saved.offset \in Nat /\ saved.epoch \in Nat
              /\ saved.ino = rows[Len(rows)].ino /\ saved.epoch = rows[Len(rows)].epoch
              /\ saved.offset = rows[Len(rows)].offset
         /\ position # None => rows # <<>>
<1>1. (saved = None) = (rows = <<>>)
  BY DEF Inv, File!PositionRecorded
<1>2. position # None => saved # None
  BY DEF Inv, JobMatches
<1>3. rows # <<>> => Len(rows) \in 1..Len(rows)
  BY RowsTyped
<1>4. saved # None => saved \in File(K)!Position /\ saved.offset \in Nat /\ saved.epoch \in Nat
  BY Typed DEF File!Position
<1>5. saved # None =>
        /\ saved.ino = rows[Len(rows)].ino /\ saved.epoch = rows[Len(rows)].epoch
        /\ saved.offset = rows[Len(rows)].offset
  BY DEF Inv, File!PositionRecorded
<1>6. rows # <<>> => SavedFile(rows) \in 1..Len(content) /\ SavedFile(rows) \in Nat
  BY <1>3, RowsTyped DEF SavedFile
<1> QED
  BY <1>1, <1>2, <1>3, <1>4, <1>5, <1>6

LEMMA BytesTyped ==
  ASSUME NEW K, File(K)!FileConstants,
         NEW line \in File(K)!Line, line # None
  PROVE  BytesOf(line) \subseteq Nat /\ line \in Seq(Nat)
         /\ \A m \in 1..Len(line) : line[m] \in BytesOf(line)
<1>1. line \in Seq(Nat) /\ DOMAIN line = 1..Len(line)
  BY DEF File!Line
<1> QED
  BY <1>1, SeqAt DEF BytesOf

LEMMA ToldTyped ==
  ASSUME NEW K, File(K)!FileConstants,
         Inv(K)
  PROVE  /\ Told(rows) \subseteq Nat
         /\ \A i \in 1..Len(rows) : rows[i].line # None => BytesOf(rows[i].line) \subseteq Told(rows)
         /\ rows = <<>> => Told(rows) = {}
<1>1. DOMAIN rows = 1..Len(rows) /\ \A i \in 1..Len(rows) : rows[i].line \in File(K)!Line
  BY RowsTyped
<1>2. \A i \in 1..Len(rows) : rows[i].line # None => BytesOf(rows[i].line) \subseteq Nat
  BY <1>1, BytesTyped
<1>3. \A b \in Told(rows) : \E i \in 1..Len(rows) : rows[i].line # None /\ b \in BytesOf(rows[i].line)
  BY <1>1 DEF Told
<1>4. \A i \in 1..Len(rows) : rows[i].line # None => BytesOf(rows[i].line) \subseteq Told(rows)
  BY <1>1 DEF Told
<1>5. rows = <<>> => 1..Len(rows) = {}
  OBVIOUS
<1> QED
  BY <1>2, <1>3, <1>4, <1>5

(* What a row adds. *)
LEMMA ToldAppend ==
  ASSUME NEW S, NEW s \in Seq(S), NEW r \in S
  PROVE  Told(Append(s, r)) = Told(s) \union (IF r.line = None THEN {} ELSE BytesOf(r.line))
<1> DEFINE t == Append(s, r)
<1>1. /\ Len(s) \in Nat /\ DOMAIN s = 1..Len(s) /\ DOMAIN t = 1..(Len(s) + 1)
      /\ t[Len(s) + 1] = r /\ \A i \in 1..Len(s) : t[i] = s[i]
  BY AppendIs
<1>2. DOMAIN t = DOMAIN s \union {Len(s) + 1}
  BY <1>1
<1> HIDE DEF t
<1>3. \A x : x \in Told(t) <=> \E i \in DOMAIN t : t[i].line # None /\ x \in BytesOf(t[i].line)
  BY DEF Told
<1>4. \A x : x \in Told(s) <=> \E i \in DOMAIN s : s[i].line # None /\ x \in BytesOf(s[i].line)
  BY DEF Told
<1>5. \A i \in DOMAIN s : t[i] = s[i]
  BY <1>1
<1>6. t[Len(s) + 1] = r
  BY <1>1
<1>7. \A x : x \in Told(t) <=> x \in Told(s) \/ (r.line # None /\ x \in BytesOf(r.line))
  BY <1>2, <1>3, <1>4, <1>5, <1>6, Zenon
<1> QED
  BY <1>7 DEF t

-----------------------------------------------------------------------------
(* A step around the file. *)
Around(K) ==
    /\ Inv(K) /\ Inv(K)' /\ FilesKept /\ Moves(K) /\ BytesInOrder'
    /\ UNCHANGED <<File(K)!source, File(K)!store>>
    /\ OneFile(K) => Len(content') = 1 /\ path' = 1
    /\ stage = "switch" => path' # fd

LEMMA AroundTyped ==
  ASSUME NEW K, File(K)!FileConstants,
         Around(K)
  PROVE  /\ UNCHANGED <<stage, fd, position, buffer, job, rows, saved>>
         /\ content \in Seq(Seq(Nat)) /\ content' \in Seq(Seq(Nat))
         /\ Len(content) \in Nat /\ Len(content') \in Nat /\ Len(content) <= Len(content')
         /\ \A f \in 1..Len(content) : f \in 1..Len(content') /\ inode'[f] = inode[f]
         /\ \A f \in 1..Len(content) : content[f] \in Seq(Nat) /\ content'[f] \in Seq(Nat)
         /\ written \in Nat /\ written' \in Nat /\ written <= written'
<1>1. content \in Seq(Seq(Nat)) /\ content' \in Seq(Seq(Nat)) /\ written \in Nat /\ written' \in Nat
  BY DEF Around, Inv, File!FileTypeOK, File!FilesTypeOK
<1>2. Len(content) \in Nat /\ Len(content') \in Nat /\ Len(content) <= Len(content')
      /\ \A f \in 1..Len(content) : inode'[f] = inode[f]
  BY <1>1 DEF Around, FilesKept
<1>3. \A f \in 1..Len(content) : f \in 1..Len(content')
  BY <1>2
<1> QED
  BY <1>1, <1>2, <1>3, SeqAt DEF Around, Moves, File!source, File!store

(* The bytes of a position stay, or nothing that is told is of its file. *)
LEMMA AroundUndamaged ==
  ASSUME NEW K, File(K)!FileConstants,
         Around(K), NEW f \in 1..Len(content), NEW p \in File(K)!Position, Undamaged(K, content, f, p)
  PROVE  Undamaged(K, content', f, p) \/ (~Steady(K) /\ content'[f] = <<>>)
<1>1. content[f] \in Seq(Nat) /\ content'[f] \in Seq(Nat)
  BY AroundTyped
<1>2. CASE Grows(content[f], content'[f])
  <2> DEFINE m == p.offset + 1 - File(K)!Least(p.offset, TailLength)
  <2>1. p.offset \in Nat /\ m \in Nat /\ m >= 1
    BY SMTT(30) DEF File!FileConstants, File!Least, File!Position
  <2> HIDE DEF m
  <2>2. p.offset <= Len(content[f]) /\ SubSeq(content[f], m, p.offset) = p.tail
    BY DEF Undamaged, m
  <2>3. SubSeq(content'[f], m, p.offset) = p.tail /\ p.offset <= Len(content'[f])
    <3>1. /\ Len(content[f]) \in Nat /\ Len(content'[f]) \in Nat /\ Len(content[f]) <= Len(content'[f])
          /\ \A a, n \in Nat : a >= 1 /\ n <= Len(content[f])
               => SubSeq(content'[f], a, n) = SubSeq(content[f], a, n)
      BY <1>1, <1>2, GrownAt
    <3>2. SubSeq(content'[f], m, p.offset) = SubSeq(content[f], m, p.offset)
      BY <2>1, <2>2, <3>1
    <3>3. p.offset <= Len(content'[f])
      BY <2>1, <2>2, <3>1
    <3> QED
      BY <2>2, <3>2, <3>3
  <2> QED
    BY <2>3 DEF Undamaged, m
<1> QED
  BY <1>2 DEF Around, Moves

LEMMA AroundLater ==
  ASSUME NEW K, File(K)!FileConstants,
         Around(K), NEW b \in Nat, b <= written, NEW f \in Nat, NEW o \in Nat, Later(content, b, f, o)
  PROVE  Later(content', b, f, o) /\ b <= written'
<1>1. Inv(K) /\ Inv(K)' /\ Moves(K)
  BY DEF Around
<1>2. Later(content', b, f, o)
  BY <1>1, LaterKept
<1> QED
  BY <1>2, AroundTyped

LEMMA AroundRows ==
  ASSUME NEW K, File(K)!FileConstants,
         Around(K), StoredInv(K)
  PROVE  RowsComeBefore(K)' /\ RowsInOrder(K)'
<1>0. Inv(K) /\ UNCHANGED <<rows, saved>>
  BY AroundTyped DEF Around
<1>1. \A b \in Told(rows) : b \in Nat /\ b <= written /\ b <= written'
  <2>1. \A b \in Told(rows) : b \in Nat /\ b <= written
    BY <1>0, ToldTyped DEF StoredInv, RowsComeBefore
  <2> QED
    BY <2>1, AroundTyped
<1>2. ASSUME rows # <<>>
      PROVE  /\ inode'[SavedFile(rows)] = saved.ino
             /\ \A b \in Told(rows) : Later(content', b, SavedFile(rows), saved.offset)
             /\ \/ Undamaged(K, content', SavedFile(rows), saved)
                \/ ~Steady(K) /\ \A b \in Told(rows) : Later(content', b, SavedFile(rows), 0)
  <2>1. SavedFile(rows) \in 1..Len(content) /\ SavedFile(rows) \in Nat /\ saved \in File(K)!Position
        /\ saved.offset \in Nat
    BY <1>0, <1>2, SavedTyped
  <2>2. \A b \in Told(rows) : Later(content', b, SavedFile(rows), saved.offset)
    BY <1>1, <1>2, <2>1, AroundLater DEF StoredInv, RowsComeBefore
  <2>3. \/ Undamaged(K, content', SavedFile(rows), saved)
        \/ ~Steady(K) /\ \A b \in Told(rows) : Later(content', b, SavedFile(rows), 0)
    <3>1. CASE ~Steady(K) /\ \A b \in Told(rows) : Later(content, b, SavedFile(rows), 0)
      <4>1. 0 \in Nat
        OBVIOUS
      <4>2. \A b \in Told(rows) : Later(content', b, SavedFile(rows), 0)
        BY <1>1, <2>1, <3>1, <4>1, AroundLater
      <4> QED
        BY <3>1, <4>2
    <3>2. CASE Undamaged(K, content, SavedFile(rows), saved)
      <4>1. CASE ~Steady(K) /\ content'[SavedFile(rows)] = <<>>
        <5>1. \A k \in 1..Len(content'[SavedFile(rows)]) : k > saved.offset
          BY <4>1
        <5>2. \A b \in Told(rows) : Later(content', b, SavedFile(rows), 0)
          <6>1. \A b \in Told(rows) : \A g \in 1..Len(content') : \A k \in 1..Len(content'[g]) :
                   (g > SavedFile(rows) \/ (g = SavedFile(rows) /\ k > 0)) /\ content'[g][k] # 0
                     => b < content'[g][k]
            BY <2>2, <5>1 DEF Later
          <6> QED
            BY <6>1 DEF Later
        <5> QED
          BY <4>1, <5>2
      <4> QED
        BY <2>1, <3>2, <4>1, AroundUndamaged
    <3> QED
      BY <1>2, <3>1, <3>2 DEF StoredInv, RowsComeBefore
  <2>4. inode'[SavedFile(rows)] = saved.ino
    BY <1>2, <2>1, AroundTyped DEF StoredInv, RowsComeBefore
  <2> QED
    BY <2>2, <2>3, <2>4
<1>3. RowsComeBefore(K)'
  BY <1>0, <1>1, <1>2 DEF RowsComeBefore
<1>4. ASSUME NEW i \in 1..Len(rows), Steady(K)
      PROVE  rows[i].offset <= Len(content'[rows[i].file])
  <2>1. rows[i].file \in 1..Len(content) /\ rows[i].offset \in Nat /\ DOMAIN rows = 1..Len(rows)
    BY <1>0, RowsTyped
  <2>2. rows[i].offset <= Len(content[rows[i].file])
    BY <1>4, <2>1 DEF StoredInv, RowsInOrder
  <2>3. /\ Len(content[rows[i].file]) \in Nat /\ Len(content'[rows[i].file]) \in Nat
        /\ Len(content[rows[i].file]) <= Len(content'[rows[i].file])
    BY <1>4, <2>1, SteadyGrows, GrownAt DEF Around
  <2> QED
    BY <2>1, <2>2, <2>3
<1>5. RowsInOrder(K)'
  <2>1. DOMAIN rows = 1..Len(rows)
    BY <1>0, RowsTyped
  <2> QED
    BY <1>0, <1>4, <2>1 DEF StoredInv, RowsInOrder, Steady, Before
<1> QED
  BY <1>3, <1>5

LEMMA AroundStored ==
  ASSUME NEW K, File(K)!FileConstants,
         Around(K), StoredInv(K)
  PROVE  StoredInv(K)'
<1>0. Inv(K) /\ UNCHANGED <<rows, saved>> /\ Len(rows) \in Nat /\ DOMAIN rows = 1..Len(rows)
  BY AroundTyped, RowsTyped DEF Around
<1>1. RowsComeBefore(K)' /\ RowsInOrder(K)' /\ BytesInOrder'
  BY AroundRows DEF Around
<1>2. File(K)!GapsBetweenGenerations' /\ File(K)!LinesInOrder'
  BY <1>0 DEF StoredInv, File!GapsBetweenGenerations, File!LinesInOrder, File!SameGeneration
<1>3. \A i \in 1..Len(rows) : rows[i].line # None => i - 1 \in 1..Len(rows)
  BY <1>0 DEF StoredInv, RowsInOrder
<1>4. ASSUME NEW i \in 1..Len(rows), rows[i].line # None, Steady(K), File(K)!LinesTileTheFile
      PROVE  SubSeq(content'[rows[i].file], rows[i - 1].offset + 1, rows[i].offset)
               = Append(rows[i].line, 0)
  <2>1. /\ rows[i].file \in 1..Len(content) /\ rows[i].offset \in Nat
        /\ rows[i - 1].offset \in Nat
    BY <1>0, <1>3, <1>4, RowsTyped
  <2>2. rows[i].offset <= Len(content[rows[i].file])
    BY <1>0, <1>4 DEF StoredInv, RowsInOrder
  <2>3. \A m, n \in Nat : m >= 1 /\ n <= Len(content[rows[i].file])
          => SubSeq(content'[rows[i].file], m, n) = SubSeq(content[rows[i].file], m, n)
    BY <1>4, <2>1, SteadyGrows, GrownAt DEF Around
  <2>4. rows[i - 1].offset + 1 \in Nat /\ rows[i - 1].offset + 1 >= 1
    BY <2>1
  <2>5. SubSeq(content'[rows[i].file], rows[i - 1].offset + 1, rows[i].offset)
          = SubSeq(content[rows[i].file], rows[i - 1].offset + 1, rows[i].offset)
    BY <2>1, <2>2, <2>3, <2>4
  <2> QED
    BY <1>0, <1>4, <2>5 DEF File!LinesTileTheFile
<1>5. Steady(K) => File(K)!LinesTileTheFile'
  BY <1>0, <1>4 DEF StoredInv, File!LinesTileTheFile
<1>6. ASSUME OneFile(K), File(K)!NoFragments, NEW i \in 1..Len(rows), rows[i].line # None
      PROVE  \/ rows[i - 1].offset = 0
             \/ content'[rows[i].file][rows[i - 1].offset] = 0
  <2>1. Steady(K) /\ Len(content) \in Nat /\ rows[i].file \in 1..Len(content)
        /\ i - 1 \in 1..Len(rows) /\ rows[i - 1].file \in 1..Len(content) /\ rows[i - 1].offset \in Nat
    BY <1>0, <1>3, <1>6, RowsTyped, AroundTyped DEF OneFile
  <2>2. Len(content) <= 1
    BY <1>6, AroundTyped DEF Around
  <2>3. rows[i - 1].file = rows[i].file
    BY <2>1, <2>2
  <2>4. rows[i - 1].offset <= Len(content[rows[i].file])
    BY <1>0, <2>1, <2>3 DEF StoredInv, RowsInOrder
  <2>5. /\ Len(content[rows[i].file]) \in Nat
        /\ \A k \in 1..Len(content[rows[i].file]) : content'[rows[i].file][k] = content[rows[i].file][k]
    BY <2>1, SteadyGrows, GrownAt DEF Around
  <2>6. rows[i - 1].offset = 0 \/ content[rows[i].file][rows[i - 1].offset] = 0
    BY <1>0, <1>6 DEF File!NoFragments
  <2> QED
    BY <2>1, <2>4, <2>5, <2>6, SMTT(30)
<1>7. OneFile(K) /\ K.replay => File(K)!NoFragments'
  BY <1>0, <1>6 DEF StoredInv, File!NoFragments
<1>8. StoredInv(K)' = /\ BytesInOrder' /\ RowsComeBefore(K)' /\ RowsInOrder(K)'
                      /\ File(K)!GapsBetweenGenerations' /\ File(K)!LinesInOrder'
                      /\ (Steady(K) => File(K)!LinesTileTheFile')
                      /\ (OneFile(K) /\ K.replay => File(K)!NoFragments')
  BY DEF StoredInv, Steady, OneFile
<1> QED
  BY <1>1, <1>2, <1>5, <1>7, <1>8

LEMMA AroundBuffer ==
  ASSUME NEW K, File(K)!FileConstants,
         Around(K), LinesInv(K)
  PROVE  BufferIsRead(K)' /\ BufferIsNew'
<1>0. /\ Inv(K) /\ UNCHANGED <<stage, fd, position, buffer, job, rows, saved>>
      /\ BufferIsRead(K) /\ BufferIsNew /\ StoredInv(K)
  BY AroundTyped DEF Around, LinesInv
<1>1. ASSUME Steady(K), stage \in {"read", "stat"}
      PROVE  /\ position.offset + Len(buffer) <= Len(content'[fd])
             /\ \A i \in 1..Len(buffer) : buffer[i] = content'[fd][position.offset + i]
  <2>1. fd \in 1..Len(content) /\ position.offset \in Nat /\ Len(buffer) \in Nat
    BY <1>0, <1>1, OpenTyped, Typed DEF File!Position
  <2>2. /\ Len(content[fd]) \in Nat /\ Len(content'[fd]) \in Nat
        /\ Len(content[fd]) <= Len(content'[fd])
        /\ \A k \in 1..Len(content[fd]) : content'[fd][k] = content[fd][k]
    BY <1>1, <2>1, SteadyGrows, GrownAt DEF Around
  <2>3. /\ position.offset + Len(buffer) <= Len(content[fd])
        /\ \A i \in 1..Len(buffer) : buffer[i] = content[fd][position.offset + i]
    BY <1>0, <1>1 DEF BufferIsRead
  <2>4. \A i \in 1..Len(buffer) : position.offset + i \in 1..Len(content[fd])
    BY <2>1, <2>2, <2>3
  <2>5. position.offset + Len(buffer) <= Len(content'[fd])
    BY <2>1, <2>2, <2>3
  <2>6. ASSUME NEW i \in 1..Len(buffer)
        PROVE  buffer[i] = content'[fd][position.offset + i]
    <3>1. content'[fd][position.offset + i] = content[fd][position.offset + i]
      BY <2>2, <2>4
    <3> QED
      BY <2>3, <3>1
  <2> QED
    BY <2>5, <2>6
<1>2. BufferIsRead(K)'
  BY <1>0, <1>1 DEF BufferIsRead, Steady
<1>3. ASSUME stage = "stat", InStep, NEW i \in 1..Len(buffer), buffer[i] # 0
      PROVE  /\ buffer[i] <= written' /\ Later(content', buffer[i], fd, position.offset + i)
             /\ \A b \in Told(rows) : b < buffer[i]
  <2>1. /\ fd \in Nat /\ position.offset + i \in Nat /\ buffer[i] \in Nat
    <3>1. fd \in 1..Len(content) /\ position.offset \in Nat /\ buffer \in Seq(Nat) /\ Len(buffer) \in Nat
      BY <1>0, <1>3, OpenTyped, Typed DEF File!Position
    <3> QED
      BY <3>1, SeqAt
  <2>2. /\ buffer[i] <= written /\ Later(content, buffer[i], fd, position.offset + i)
        /\ \A b \in Told(rows) : b < buffer[i]
    BY <1>0, <1>3 DEF BufferIsNew
  <2> QED
    BY <2>1, <2>2, AroundLater
<1>4. BufferIsNew'
  BY <1>0, <1>3 DEF BufferIsNew, InStep
<1> QED
  BY <1>2, <1>4

LEMMA CommitTyped ==
  ASSUME NEW K, File(K)!FileConstants,
         Inv(K), stage = "commit"
  PROVE  /\ fd \in 1..Len(content) /\ fd \in Nat /\ inode[fd] = job.next.ino
         /\ job.next \in File(K)!Position /\ job.next.offset \in Nat /\ job.next.epoch \in Nat
         /\ job.line \in File(K)!Line /\ job.old \in 0..Len(content)
         /\ content[fd] \in Seq(Nat) /\ Len(content[fd]) \in Nat
         /\ position # None => job.old # 0 /\ inode[job.old] = position.ino
<1>1. job \in Jobs(K) /\ fd # 0
  BY DEF Inv, File!FileTypeOK, File!SourceTypeOK, Jobs
<1>2. fd \in 1..Len(content) /\ fd \in Nat
  BY <1>1, Typed
<1>3. content[fd] \in Seq(Nat)
  BY <1>2, Typed, SeqAt
<1>4. inode[fd] = job.next.ino
  BY DEF Inv, JobMatches
<1>5. position # None => job.old # 0 /\ inode[job.old] = position.ino
  BY DEF Inv, File!DescriptorMatches
<1> QED
  BY <1>1, <1>2, <1>3, <1>4, <1>5 DEF Jobs, File!Position

LEMMA AroundJob ==
  ASSUME NEW K, File(K)!FileConstants,
         Around(K), LinesInv(K)
  PROVE  JobGoesOn(K)' /\ JobIsNew'
<1>0. /\ Inv(K) /\ UNCHANGED <<stage, fd, position, buffer, job, rows, saved>>
      /\ JobGoesOn(K) /\ JobIsNew /\ StoredInv(K)
  BY AroundTyped DEF Around, LinesInv
<1>1. ASSUME stage = "commit", job.line # None, Steady(K)
      PROVE  /\ job.next.offset <= Len(content'[fd])
             /\ SubSeq(content'[fd], position.offset + 1, job.next.offset) = Append(job.line, 0)
  <2>1. fd \in 1..Len(content) /\ position.offset \in Nat /\ job.next.offset \in Nat
    BY <1>0, <1>1, CommitTyped, Typed DEF JobGoesOn, File!Position
  <2>2. /\ Len(content[fd]) \in Nat /\ Len(content'[fd]) \in Nat
        /\ Len(content[fd]) <= Len(content'[fd])
        /\ \A m, n \in Nat : m >= 1 /\ n <= Len(content[fd])
             => SubSeq(content'[fd], m, n) = SubSeq(content[fd], m, n)
    BY <1>1, <2>1, SteadyGrows, GrownAt DEF Around
  <2>3. /\ job.next.offset <= Len(content[fd])
        /\ SubSeq(content[fd], position.offset + 1, job.next.offset) = Append(job.line, 0)
    BY <1>0, <1>1 DEF JobGoesOn
  <2>4. SubSeq(content'[fd], position.offset + 1, job.next.offset)
          = SubSeq(content[fd], position.offset + 1, job.next.offset)
    <3>1. position.offset + 1 \in Nat /\ position.offset + 1 >= 1
      BY <2>1
    <3> QED
      BY <2>1, <2>2, <2>3, <3>1
  <2>5. job.next.offset <= Len(content'[fd])
    BY <2>1, <2>2, <2>3, SMTT(30)
  <2> QED
    BY <2>3, <2>4, <2>5
<1>2. JobGoesOn(K)'
  BY <1>0, <1>1 DEF JobGoesOn, Steady
<1>3. ASSUME stage = "commit", InStep
      PROVE  /\ \A b \in Told(rows) : Later(content', b, fd, job.next.offset)
             /\ job.line # None =>
                  \A c \in BytesOf(job.line) :
                      /\ c <= written' /\ Later(content', c, fd, job.next.offset)
                      /\ \A b \in Told(rows) : b < c
  <2>1. fd \in Nat /\ job.next.offset \in Nat /\ job.line \in File(K)!Line
    BY <1>0, <1>3, CommitTyped
  <2>2. \A b \in Told(rows) : b \in Nat /\ b <= written
    BY <1>0, ToldTyped DEF StoredInv, RowsComeBefore
  <2>3. \A b \in Told(rows) : Later(content', b, fd, job.next.offset)
    BY <1>0, <1>3, <2>1, <2>2, AroundLater DEF JobIsNew
  <2>4. ASSUME job.line # None, NEW c \in BytesOf(job.line)
        PROVE  /\ c <= written' /\ Later(content', c, fd, job.next.offset)
               /\ \A b \in Told(rows) : b < c
    <3>1. c \in Nat
      BY <2>1, <2>4, BytesTyped
    <3>2. /\ c <= written /\ Later(content, c, fd, job.next.offset)
          /\ \A b \in Told(rows) : b < c
      BY <1>0, <1>3, <2>4 DEF JobIsNew
    <3> QED
      BY <2>1, <3>1, <3>2, AroundLater
  <2> QED
    BY <2>3, <2>4
<1>4. JobIsNew'
  BY <1>0, <1>3 DEF JobIsNew, InStep, Before
<1> QED
  BY <1>2, <1>4

(* One file. *)
LEMMA AroundTaken ==
  ASSUME NEW K, File(K)!FileConstants,
         Around(K), OneFile(K), Len(content) = 1, NEW o \in Nat, NEW n, Taken(content, o, n)
  PROVE  Taken(content', o, n)
<1>1. 1 \in 1..Len(content) /\ Steady(K)
  BY DEF OneFile
<1>2. /\ Len(content[1]) \in Nat /\ Len(content'[1]) \in Nat /\ Len(content[1]) <= Len(content'[1])
      /\ \A k \in 1..Len(content[1]) : content'[1][k] = content[1][k]
  BY <1>1, SteadyGrows, GrownAt DEF Around
<1>3. /\ n \in 1..(Window + 1) /\ n \in Nat /\ n >= 1 /\ o + n <= Len(content[1])
      /\ \A k \in (o + 1)..(o + n - 1) : content[1][k] # 0
      /\ content[1][o + n] = 0 \/ n = Window + 1
  BY DEF File!FileConstants, Taken
<1>4. o + n \in 1..Len(content[1]) /\ \A k \in (o + 1)..(o + n - 1) : k \in 1..Len(content[1])
  BY <1>2, <1>3
<1>5. /\ o + n <= Len(content'[1])
      /\ \A k \in (o + 1)..(o + n - 1) : content'[1][k] # 0
      /\ content'[1][o + n] = 0 \/ n = Window + 1
  BY <1>2, <1>3, <1>4
<1> QED
  BY <1>3, <1>5 DEF Taken

LEMMA AroundGoesTo ==
  ASSUME NEW K, File(K)!FileConstants,
         Around(K), OneFile(K), Len(content) = 1, NEW p \in File(K)!Position, NEW q, GoesTo(content, p, q)
  PROVE  GoesTo(content', p, q)
<1>1. p.offset \in Nat
  BY DEF File!Position
<1> QED
  BY <1>1, AroundTaken DEF GoesTo

LEMMA AroundAtLine ==
  ASSUME NEW K, File(K)!FileConstants,
         Around(K), OneFile(K), Len(content) = 1, NEW p \in File(K)!Position, AtLine(content, p)
  PROVE  AtLine(content', p)
<1>1. 1 \in 1..Len(content) /\ Steady(K) /\ p.offset \in Nat
  BY DEF OneFile, File!Position
<1>2. /\ Len(content[1]) \in Nat /\ Len(content'[1]) \in Nat /\ Len(content[1]) <= Len(content'[1])
      /\ \A k \in 1..Len(content[1]) : content'[1][k] = content[1][k]
  BY <1>1, SteadyGrows, GrownAt DEF Around
<1> QED
  BY <1>1, <1>2 DEF AtLine

LEMMA AroundOne ==
  ASSUME NEW K, File(K)!FileConstants,
         Around(K), LinesInv(K)
  PROVE  Repeating(K)' /\ LinesBegin(K)'
<1>0. /\ Inv(K) /\ UNCHANGED <<stage, fd, position, buffer, job, rows, saved>>
      /\ Repeating(K) /\ LinesBegin(K) /\ StoredInv(K)
  BY AroundTyped DEF Around, LinesInv
<1>1. ASSUME OneFile(K)
      PROVE  Len(content) = 1 /\ Len(content') = 1 /\ path' = 1
  BY <1>0, <1>1 DEF Around, Repeating
<1>2. ASSUME OneFile(K), position # None
      PROVE  /\ Undamaged(K, content', 1, position)
             /\ position # saved => GoesTo(content', position, saved)
             /\ stage = "commit" => GoesTo(content', position, job.next)
  <2>1. position \in File(K)!Position
    BY <1>0, <1>2, Typed
  <2>2. /\ Undamaged(K, content, 1, position)
        /\ position # saved => GoesTo(content, position, saved)
        /\ stage = "commit" => GoesTo(content, position, job.next)
    BY <1>0, <1>2 DEF Repeating
  <2>3. Undamaged(K, content', 1, position)
    <3>1. 1 \in 1..Len(content)
      BY <1>1, <1>2
    <3> QED
      BY <1>2, <2>1, <2>2, <3>1, AroundUndamaged DEF OneFile
  <2> QED
    BY <1>1, <1>2, <2>1, <2>2, <2>3, AroundGoesTo
<1>3. Repeating(K)'
  BY <1>0, <1>1, <1>2 DEF Repeating, OneFile, Steady
<1>4. ASSUME OneFile(K), K.replay
      PROVE  /\ rows # <<>> => AtLine(content', saved)
             /\ position # None => AtLine(content', position)
             /\ stage = "commit" => AtLine(content', job.next)
  <2>1. /\ rows # <<>> => saved \in File(K)!Position
        /\ position # None => position \in File(K)!Position
        /\ stage = "commit" => job.next \in File(K)!Position
    BY <1>0, SavedTyped, Typed, CommitTyped
  <2> QED
    BY <1>0, <1>1, <1>4, <2>1, AroundAtLine DEF LinesBegin
<1>5. LinesBegin(K)'
  BY <1>0, <1>4 DEF LinesBegin, OneFile, Steady
<1> QED
  BY <1>3, <1>5

LEMMA AroundLines ==
  ASSUME NEW K, File(K)!FileConstants,
         Around(K), LinesInv(K)
  PROVE  LinesInv(K)'
<1>0. /\ Inv(K) /\ Inv(K)' /\ UNCHANGED <<stage, fd, position, buffer, job, rows, saved>>
      /\ StoredInv(K) /\ OpenInOrder
  BY AroundTyped DEF Around, LinesInv
<1>1. StoredInv(K)'
  BY <1>0, AroundStored
<1>2. OpenInOrder'
  BY <1>0 DEF OpenInOrder, Around, SavedFile
<1>3. InStep' = InStep
  BY <1>0 DEF InStep
<1>4. Reported(K)' = Reported(K)
  BY DEF Reported
<1> QED
  BY <1>0, <1>1, <1>2, <1>3, <1>4, AroundBuffer, AroundJob, AroundOne DEF LinesInv

-----------------------------------------------------------------------------
(* Each of the programs around the file. *)
LEMMA ByteStays ==
  ASSUME NEW K, File(K)!FileConstants,
         Inv(K), Inv(K)', FilesKept, Moves(K), BytesInOrder,
         NEW g \in 1..Len(content), NEW k \in 1..Len(content[g]),
         content'[g][k] = content[g][k], content'[g][k] # 0
  PROVE  Later(content', content'[g][k], g, k)
<1>1. content \in Seq(Seq(Nat)) /\ content[g] \in Seq(Nat)
  BY SeqAt DEF Inv, File!FileTypeOK, File!FilesTypeOK
<1>2. content[g][k] \in Nat /\ g \in Nat /\ k \in Nat
  BY <1>1, SeqAt
<1>3. content[g][k] <= written /\ Later(content, content[g][k], g, k)
  BY DEF BytesInOrder
<1> QED
  BY <1>2, <1>3, LaterKept

(* Files of which nothing is moved, some of them emptied. *)
LEMMA NothingNew ==
  ASSUME NEW K, File(K)!FileConstants,
         Inv(K), Inv(K)', FilesKept, BytesInOrder, written' = written,
         \A f \in 1..Len(content) : content'[f] = content[f] \/ (~Steady(K) /\ content'[f] = <<>>),
         \A f \in (Len(content) + 1)..Len(content') : content'[f] = <<>>
  PROVE  /\ Moves(K)
         /\ \A f \in 1..Len(content') : \A k \in 1..Len(content'[f]) :
               /\ content'[f][k] <= written'
               /\ content'[f][k] # 0 => Later(content', content'[f][k], f, k)
<1>1. /\ content \in Seq(Seq(Nat)) /\ content' \in Seq(Seq(Nat)) /\ written \in Nat
      /\ Len(content) \in Nat /\ Len(content') \in Nat
  BY DEF Inv, File!FileTypeOK, File!FilesTypeOK
<1>2. \A f \in 1..Len(content) : content[f] \in Seq(Nat) /\ Len(content[f]) \in Nat
  BY <1>1, SeqAt
<1>3. \A f \in 1..Len(content) :
         Grows(content[f], content'[f]) \/ (~Steady(K) /\ content'[f] = <<>>)
  BY <1>2 DEF Grows
<1>4. ASSUME NEW f \in 1..Len(content'), NEW k \in 1..Len(content'[f])
      PROVE  /\ f \in 1..Len(content) /\ k \in 1..Len(content[f])
             /\ content'[f][k] = content[f][k]
  <2>1. content'[f] # <<>>
    OBVIOUS
  <2>2. f \in 1..Len(content)
    BY <1>1, <2>1
  <2> QED
    BY <2>1, <2>2
<1>5. \A f \in 1..Len(content') : \A k \in 1..Len(content'[f]) : content'[f][k] <= written'
  BY <1>4 DEF BytesInOrder
<1>6. Moves(K)
  <2>1. written <= written'
    BY <1>1
  <2> QED
    BY <1>3, <1>4, <1>5, <2>1 DEF Moves
<1> QED
  BY <1>4, <1>5, <1>6, ByteStays

LEMMA WriteMoves ==
  ASSUME NEW K, File(K)!FileConstants,
         Inv(K), Inv(K)', FilesKept, BytesInOrder, NEW w \in K.writes, File(K)!Write(w)
  PROVE  Moves(K) /\ BytesInOrder'
<1>0. /\ content \in Seq(Seq(Nat)) /\ content' \in Seq(Seq(Nat)) /\ written \in Nat
      /\ writer \in 1..Len(content) /\ Len(content) \in Nat /\ content[writer] \in Seq(Nat)
      /\ Len(content[writer]) \in Nat /\ w.bytes \in Nat
  <2>1. /\ content \in Seq(Seq(Nat)) /\ content' \in Seq(Seq(Nat)) /\ written \in Nat
        /\ writer \in 1..Len(content) /\ Len(content) \in Nat
    BY DEF Inv, File!FileTypeOK, File!FilesTypeOK
  <2>2. content[writer] \in Seq(Nat) /\ Len(content[writer]) \in Nat
    BY <2>1, SeqAt
  <2>3. w.bytes \in Nat
    BY DEF File!FileConstants
  <2> QED
    BY <2>1, <2>2, <2>3
<1> DEFINE bytes == [i \in 1..w.bytes |-> written + i]
           newline == IF w.ended THEN <<0>> ELSE <<>>
           text == bytes \o newline
           old == content[writer]
<1>1. bytes \in Seq(Nat) /\ Len(bytes) = w.bytes /\ \A i \in 1..w.bytes : bytes[i] = written + i
  <2>1. bytes \in [1..w.bytes -> Nat]
    BY <1>0
  <2> QED
    BY <1>0, <2>1, FunctionIs
<1>2. newline \in Seq(Nat) /\ \A i \in 1..Len(newline) : newline[i] = 0
  OBVIOUS
<1>3. /\ content' = [content EXCEPT ![writer] = old \o text] /\ written' = written + w.bytes
      /\ UNCHANGED <<inode, path, writer, troubles, File(K)!source, File(K)!store>>
  BY DEF File!Write
<1> HIDE DEF bytes, newline
<1>4. /\ text \in Seq(Nat) /\ Len(text) \in Nat
      /\ \A i \in 1..Len(text) : text[i] = 0 \/ (i <= w.bytes /\ text[i] = written + i)
  <2>1. /\ text \in Seq(Nat) /\ Len(text) = Len(bytes) + Len(newline)
        /\ \A i \in 1..Len(bytes) : text[i] = bytes[i]
        /\ \A i \in (Len(bytes) + 1)..(Len(bytes) + Len(newline)) : text[i] = newline[i - Len(bytes)]
    BY <1>1, <1>2, ConcatIs, ConcatAt
  <2>2. Len(newline) \in Nat
    BY <1>2
  <2> HIDE DEF text
  <2>3. ASSUME NEW i \in 1..Len(text) PROVE text[i] = 0 \/ (i <= w.bytes /\ text[i] = written + i)
    <3>1. CASE i \in 1..w.bytes
      BY <1>1, <2>1, <3>1
    <3>2. CASE i \in (Len(bytes) + 1)..(Len(bytes) + Len(newline))
      <4>0. Len(bytes) \in Nat /\ Len(newline) \in Nat /\ i \in Nat
        BY <1>0, <1>1, <2>2, <3>2
      <4>1. i - Len(bytes) \in 1..Len(newline)
        BY <3>2, <4>0
      <4>2. text[i] = newline[i - Len(bytes)]
        BY <2>1, <3>2
      <4>3. newline[i - Len(bytes)] = 0
        BY <1>2, <4>1
      <4> QED
        BY <4>2, <4>3
    <3> QED
      BY <1>0, <1>1, <2>1, <2>2, <3>1, <3>2, SMTT(30)
  <2> QED
    BY <1>0, <1>1, <2>1, <2>2, <2>3
<1> HIDE DEF text, old
<1>5. /\ Len(content') = Len(content)
      /\ \A f \in 1..Len(content) : f # writer => content'[f] = content[f]
      /\ content'[writer] = old \o text
  BY <1>0, <1>3
<1>6. /\ old \in Seq(Nat) /\ Len(old) \in Nat /\ old = content[writer]
      /\ Len(content'[writer]) = Len(old) + Len(text)
      /\ \A i \in 1..Len(old) : content'[writer][i] = old[i]
      /\ \A i \in (Len(old) + 1)..(Len(old) + Len(text)) : content'[writer][i] = text[i - Len(old)]
  <2>1. old \in Seq(Nat) /\ Len(old) \in Nat /\ old = content[writer]
    BY <1>0 DEF old
  <2>2. content'[writer] = old \o text /\ text \in Seq(Nat)
    BY <1>4, <1>5
  <2> QED
    BY <2>1, <2>2, ConcatAt
<1>w. written' = written + w.bytes /\ written \in Nat /\ w.bytes \in Nat /\ written <= written'
  BY <1>0, <1>3
<1>7. \A f \in 1..Len(content) : content[f] \in Seq(Nat) /\ Len(content[f]) \in Nat
  BY <1>0, SeqAt
<1>8. \A f \in 1..Len(content) : Grows(content[f], content'[f])
  <2>1. Grows(content[writer], content'[writer])
    BY <1>4, <1>6 DEF Grows
  <2>2. \A f \in 1..Len(content) : f # writer => Grows(content[f], content'[f])
    BY <1>5, <1>7 DEF Grows
  <2> QED
    BY <2>1, <2>2
(* A byte is an old one, or a new one behind the old ones of the writer.   *)
<1>9. ASSUME NEW g \in 1..Len(content'), NEW k \in 1..Len(content'[g])
      PROVE  \/ /\ g \in 1..Len(content) /\ k \in 1..Len(content[g])
                /\ content'[g][k] = content[g][k] /\ content'[g][k] <= written'
             \/ /\ g = writer /\ k - Len(old) \in 1..Len(text)
                /\ content'[g][k] = text[k - Len(old)]
  <2>1. g \in 1..Len(content)
    BY <1>5
  <2>2. ASSUME k \in 1..Len(content[g]), content'[g][k] = content[g][k]
        PROVE  content'[g][k] <= written'
    <3>1. content[g][k] \in Nat /\ content[g][k] <= written
      BY <1>7, <2>1, <2>2, SeqAt DEF BytesInOrder
    <3> QED
      BY <1>w, <2>2, <3>1
  <2>3. CASE g # writer
    BY <1>5, <2>1, <2>2, <2>3
  <2>4. CASE g = writer /\ k \in 1..Len(old)
    BY <1>6, <2>1, <2>2, <2>4
  <2>5. CASE g = writer /\ k \in (Len(old) + 1)..(Len(old) + Len(text))
    <3>1. k - Len(old) \in 1..Len(text)
      BY <1>4, <1>6, <2>5
    <3> QED
      BY <1>6, <2>5, <3>1
  <2> QED
    BY <1>4, <1>6, <2>3, <2>4, <2>5
<1>10. \A g \in 1..Len(content') : \A k \in 1..Len(content'[g]) : content'[g][k] <= written'
  <2>1. \A i \in 1..Len(text) : text[i] <= written'
    <3>1. \A i \in 1..Len(text) : i \in Nat
      OBVIOUS
    <3> QED
      BY <1>w, <1>4, <3>1, SMTT(30)
  <2> QED
    BY <1>9, <2>1
<1>11. Moves(K)
  <2>1. written <= written'
    BY <1>w
  <2>2. \A g \in 1..Len(content') : \A k \in 1..Len(content'[g]) :
          \/ content'[g][k] = 0 \/ written < content'[g][k]
          \/ /\ g \in 1..Len(content) /\ k \in 1..Len(content[g])
             /\ content'[g][k] = content[g][k]
    <3>1. \A i \in 1..Len(text) : text[i] = 0 \/ written < text[i]
      <4>1. \A i \in 1..Len(text) : i \in Nat /\ i >= 1
        OBVIOUS
      <4> QED
        BY <1>w, <1>4, <4>1
    <3> QED
      BY <1>9, <3>1
  <2> QED
    BY <1>8, <1>10, <2>1, <2>2 DEF Moves
<1>12. ASSUME NEW g \in 1..Len(content'), NEW k \in 1..Len(content'[g]), content'[g][k] # 0
       PROVE  Later(content', content'[g][k], g, k)
  <2>1. CASE g = writer /\ k - Len(old) \in 1..Len(text) /\ content'[g][k] = text[k - Len(old)]
    <3>1. content'[g][k] = written + (k - Len(old))
      BY <1>4, <1>12, <2>1
    <3>2. ASSUME NEW h \in 1..Len(content'), NEW j \in 1..Len(content'[h]),
                 h > g \/ (h = g /\ j > k), content'[h][j] # 0
          PROVE  content'[g][k] < content'[h][j]
      <4>1. h = g
        <5>1. SUFFICES ASSUME h > writer PROVE FALSE
          BY <2>1, <3>2
        <5>2. h \in 1..Len(content) /\ h # writer /\ content[h] = <<>>
          BY <1>0, <1>5, <5>1 DEF BytesInOrder
        <5>3. content'[h] = <<>>
          BY <1>5, <5>2
        <5> QED
          BY <5>3
      <4>2. j > k /\ j \in Nat /\ k \in Nat
        BY <1>4, <1>6, <2>1, <3>2, <4>1
      <4>3. j - Len(old) \in 1..Len(text) /\ content'[h][j] = text[j - Len(old)]
        <5>1. j \in (Len(old) + 1)..(Len(old) + Len(text))
          <6>1. j \in 1..(Len(old) + Len(text)) /\ k > Len(old)
            BY <1>4, <1>6, <2>1, <4>1, <4>2, SMTT(30)
          <6> QED
            BY <1>4, <1>6, <4>2, <6>1
        <5> QED
          BY <1>4, <1>6, <2>1, <4>1, <5>1
      <4>4. content'[h][j] = written + (j - Len(old))
        BY <1>4, <3>2, <4>3
      <4>5. k - Len(old) < j - Len(old) /\ k - Len(old) \in Nat /\ j - Len(old) \in Nat
        <5>1. Len(old) \in Nat /\ k \in Nat /\ j \in Nat
          BY <1>6, <2>1
        <5> QED
          BY <2>1, <4>2, <4>3, <5>1, SMTT(30)
      <4> QED
        BY <1>w, <3>1, <4>4, <4>5
    <3> QED
      BY <3>2 DEF Later
  <2>2. CASE g \in 1..Len(content) /\ k \in 1..Len(content[g]) /\ content'[g][k] = content[g][k]
    BY <1>11, <1>12, <2>2, ByteStays, SMTT(30)
  <2> QED
    BY <1>9, <2>1, <2>2
<1>13. path' \in {0, Len(content')} /\ \A f \in 1..Len(content') : f > writer' => content'[f] = <<>>
  <2>1. path \in {0, Len(content)} /\ \A f \in 1..Len(content) : f > writer => content[f] = <<>>
    BY DEF BytesInOrder
  <2>2. \A f \in 1..Len(content) : f > writer => f # writer
    BY <1>0
  <2> QED
    BY <1>3, <1>5, <2>1, <2>2
<1> QED
  BY <1>10, <1>11, <1>12, <1>13 DEF BytesInOrder

LEMMA OthersMove ==
  ASSUME NEW K, File(K)!FileConstants,
         Inv(K), Inv(K)', FilesKept, BytesInOrder,
         File(K)!Rename \/ (\E i \in Inodes : File(K)!Create(i)) \/ File(K)!Reopen \/ File(K)!Truncate
  PROVE  Moves(K) /\ BytesInOrder'
<1>0. /\ content \in Seq(Seq(Nat)) /\ Len(content) \in Nat /\ path \in 0..Len(content)
      /\ writer \in 1..Len(content)
      /\ path \in {0, Len(content)} /\ \A f \in 1..Len(content) : f > writer => content[f] = <<>>
  BY DEF Inv, File!FileTypeOK, File!FilesTypeOK, BytesInOrder
<1>1. /\ written' = written
      /\ \A f \in 1..Len(content) : content'[f] = content[f] \/ (~Steady(K) /\ content'[f] = <<>>)
      /\ \A f \in (Len(content) + 1)..Len(content') : content'[f] = <<>>
      /\ path' \in {0, Len(content')}
      /\ \A f \in 1..Len(content') : f > writer' => content'[f] = <<>>
  <2>1. CASE File(K)!Rename
    <3>1. UNCHANGED <<content, writer, written>> /\ path' = 0
      BY <2>1 DEF File!Rename
    <3>2. (Len(content) + 1)..Len(content') = {}
      BY <1>0, <3>1
    <3> QED
      BY <1>0, <3>1, <3>2
  <2>2. CASE \E i \in Inodes : File(K)!Create(i)
    <3>1. /\ content' = Append(content, <<>>) /\ path' = Len(content) + 1
          /\ UNCHANGED <<writer, written>>
      BY <2>2 DEF File!Create
    <3>2. <<>> \in Seq(Nat)
      OBVIOUS
    <3>3. /\ Len(content') = Len(content) + 1 /\ content'[Len(content) + 1] = <<>>
          /\ \A f \in 1..Len(content) : content'[f] = content[f]
      BY <1>0, <3>1, <3>2, AppendIs
    <3>4. \A f \in (Len(content) + 1)..Len(content') : content'[f] = <<>>
      BY <1>0, <3>3
    <3>5. \A f \in 1..Len(content') : f \in 1..Len(content) \/ f = Len(content) + 1
      <4>1. Len(content') = Len(content) + 1 /\ Len(content) \in Nat
        BY <1>0, <3>3
      <4> QED
        BY <4>1
    <3>6. \A f \in 1..Len(content') : f > writer' => content'[f] = <<>>
      BY <1>0, <3>1, <3>3, <3>5
    <3>7. path' = Len(content')
      BY <3>1, <3>3
    <3> QED
      BY <3>1, <3>3, <3>4, <3>6, <3>7
  <2>3. CASE File(K)!Reopen
    <3>1. UNCHANGED <<content, path, written>> /\ writer' = path /\ path # 0
      BY <2>3 DEF File!Reopen
    <3>2. (Len(content) + 1)..Len(content') = {} /\ path = Len(content)
      BY <1>0, <3>1
    <3> QED
      BY <1>0, <3>1, <3>2, SMTT(30)
  <2>4. CASE File(K)!Truncate
    <3>1. /\ content' = [content EXCEPT ![path] = <<>>] /\ UNCHANGED <<path, writer, written>>
          /\ ~Steady(K)
      BY <2>4 DEF File!Truncate, File!Trouble, Steady
    <3>2. Len(content') = Len(content)
      BY <1>0, <3>1
    <3>3. \A f \in 1..Len(content) : content'[f] = content[f] \/ content'[f] = <<>>
      BY <1>0, <3>1
    <3>4. (Len(content) + 1)..Len(content') = {}
      BY <1>0, <3>2, SMTT(30)
    <3>5. \A f \in 1..Len(content') : f > writer' => content'[f] = <<>>
      BY <1>0, <3>1, <3>2, <3>3
    <3> QED
      BY <1>0, <3>1, <3>2, <3>3, <3>4, <3>5
  <2> QED
    BY <2>1, <2>2, <2>3, <2>4
<1>2. /\ Moves(K)
      /\ \A f \in 1..Len(content') : \A k \in 1..Len(content'[f]) :
            /\ content'[f][k] <= written'
            /\ content'[f][k] # 0 => Later(content', content'[f][k], f, k)
  BY <1>1, NothingNew
<1> QED
  BY <1>1, <1>2 DEF BytesInOrder

LEMMA SurroundingsKeepLines ==
  ASSUME NEW K, File(K)!FileConstants,
         Inv(K), LinesInv(K),
         (\E w \in K.writes : File(K)!Write(w)) \/ File(K)!Rename \/ (\E i \in Inodes : File(K)!Create(i))
           \/ File(K)!Reopen \/ File(K)!Truncate
  PROVE  LinesInv(K)'
<1>1. Inv(K)' /\ FilesKept /\ UNCHANGED <<File(K)!source, File(K)!store>>
  BY AroundFiles, AroundKeeps
<1>2. Moves(K) /\ BytesInOrder'
  BY <1>1, WriteMoves, OthersMove DEF LinesInv, StoredInv
<1>3. Len(content) \in Nat /\ fd \in 0..Len(content) /\ path \in 0..Len(content)
  BY Typed
<1>4. OneFile(K) => Len(content') = 1 /\ path' = 1
  <2>1. OneFile(K) => K.files = 1 /\ Len(content) = 1 /\ path = 1 /\ "truncate" \notin K.kinds
    BY DEF LinesInv, Repeating, OneFile, Steady
  <2>2. ASSUME OneFile(K), NEW w \in K.writes, File(K)!Write(w) PROVE Len(content') = Len(content) /\ path' = path
    BY <1>3, <2>2, Typed DEF File!Write
  <2>3. OneFile(K) => ~File(K)!Rename /\ ~File(K)!Truncate /\ ~(\E i \in Inodes : File(K)!Create(i))
    BY <2>1 DEF File!Rename, File!Create, File!Truncate, File!Trouble
  <2>4. File(K)!Reopen => Len(content') = Len(content) /\ path' = path
    BY DEF File!Reopen
  <2> QED
    BY <2>1, <2>2, <2>3, <2>4
<1>5. stage = "switch" => path' # fd
  <2>1. stage = "switch" => path # fd /\ fd # 0
    BY DEF LinesInv, OpenInOrder, Inv, File!FileTypeOK, File!SourceTypeOK
  <2>2. path' \in {0, path} \/ path' = Len(content) + 1
    BY DEF File!Write, File!Rename, File!Create, File!Reopen, File!Truncate
  <2> QED
    BY <1>3, <2>1, <2>2
<1> QED
  BY <1>1, <1>2, <1>4, <1>5, AroundLines DEF Around

-----------------------------------------------------------------------------
(* Steps of the source that leave the files and custody alone. *)
Still == UNCHANGED <<content, inode, path, writer, written, rows, saved>>

LEMMA StillIs ==
  ASSUME NEW K, File(K)!FileConstants,
         UNCHANGED <<File(K)!files, File(K)!store>>
  PROVE  Still
BY DEF File!files, File!store, Still

LEMMA StoredSame ==
  ASSUME NEW K, File(K)!FileConstants,
         Still, StoredInv(K)
  PROVE  StoredInv(K)'
<1>1. BytesInOrder'
  BY DEF Still, StoredInv, BytesInOrder
<1>2. RowsComeBefore(K)'
  BY DEF Still, StoredInv, RowsComeBefore, Steady, SavedFile
<1>3. RowsInOrder(K)'
  BY DEF Still, StoredInv, RowsInOrder, Steady, Before
<1>4. File(K)!GapsBetweenGenerations' /\ File(K)!LinesInOrder'
  BY DEF Still, StoredInv, File!GapsBetweenGenerations, File!LinesInOrder, File!SameGeneration
<1>5. Steady(K) => File(K)!LinesTileTheFile'
  BY DEF Still, StoredInv, File!LinesTileTheFile
<1>6. OneFile(K) /\ K.replay => File(K)!NoFragments'
  BY DEF Still, StoredInv, File!NoFragments
<1> QED
  BY <1>1, <1>2, <1>3, <1>4, <1>5, <1>6 DEF StoredInv, Steady, OneFile

(* One file: where the saved position is. *)
LEMMA OneSaved ==
  ASSUME NEW K, File(K)!FileConstants,
         Inv(K), LinesInv(K), OneFile(K)
  PROVE  /\ Len(content) = 1 /\ path = 1 /\ Steady(K)
         /\ fd # 0 => fd = 1
         /\ rows # <<>> => SavedFile(rows) = 1 /\ Undamaged(K, content, 1, saved)
<1>1. Len(content) = 1 /\ path = 1 /\ Steady(K)
  BY DEF LinesInv, Repeating, OneFile
<1>2. fd # 0 => fd = 1
  <2>1. fd \in 0..1
    BY <1>1, Typed
  <2> QED
    BY <2>1
<1>3. rows # <<>> => SavedFile(rows) = 1
  <2>1. rows # <<>> => SavedFile(rows) \in 1..1
    BY <1>1, SavedTyped
  <2> QED
    BY <2>1
<1>4. rows # <<>> => Undamaged(K, content, SavedFile(rows), saved)
  BY <1>1 DEF LinesInv, StoredInv, RowsComeBefore
<1> QED
  BY <1>1, <1>2, <1>3, <1>4

(* A step that prepares no commit. *)
LEMMA QuietLines ==
  ASSUME NEW K, File(K)!FileConstants,
         Inv(K), LinesInv(K), Inv(K)', Still, stage' # "commit",
         OpenInOrder', BufferIsRead(K)', BufferIsNew',
         position' = position \/ position' = None \/ (position' = saved /\ rows # <<>>)
  PROVE  LinesInv(K)'
<1>1. StoredInv(K)'
  BY StoredSame DEF LinesInv
<1>2. JobGoesOn(K)' /\ JobIsNew'
  BY DEF JobGoesOn, JobIsNew
<1>3. ASSUME OneFile(K), position' # None
      PROVE  /\ Undamaged(K, content, 1, position')
             /\ position' # saved => GoesTo(content, position', saved)
  BY <1>3, OneSaved DEF LinesInv, Repeating
<1>4. Repeating(K)'
  <2>1. OneFile(K)' = OneFile(K)
    BY DEF OneFile, Steady
  <2>2. OneFile(K) => Len(content') = 1 /\ path' = 1
    BY OneSaved DEF Still
  <2> QED
    BY <1>3, <2>1, <2>2 DEF Repeating, Still
<1>5. LinesBegin(K)'
  <2>1. OneFile(K) /\ K.replay =>
          /\ rows # <<>> => AtLine(content, saved)
          /\ position # None => AtLine(content, position)
    BY DEF LinesInv, LinesBegin
  <2>2. OneFile(K)' = OneFile(K)
    BY DEF OneFile, Steady
  <2> QED
    BY <2>1, <2>2 DEF LinesBegin, Still
<1>6. Reported(K) => InStep'
  BY DEF LinesInv, InStep, Still
<1> QED
  BY <1>1, <1>2, <1>4, <1>5, <1>6 DEF LinesInv, Reported

(* A step that prepares a commit. *)
LEMMA PreparesLines ==
  ASSUME NEW K, File(K)!FileConstants,
         Inv(K), LinesInv(K), Inv(K)', Still, stage' = "commit", position' = position, buffer' = <<>>,
         OpenInOrder', JobGoesOn(K)', JobIsNew',
         OneFile(K) /\ position # None => GoesTo(content, position, job'.next),
         OneFile(K) /\ K.replay => /\ AtLine(content, job'.next)
                                   /\ job'.line # None => ~position.skipping
  PROVE  LinesInv(K)'
<1>1. StoredInv(K)'
  BY StoredSame DEF LinesInv
<1>2. BufferIsRead(K)' /\ BufferIsNew'
  <2>1. Len(buffer') <= Window + 1
    BY DEF File!FileConstants
  <2> QED
    BY <2>1 DEF BufferIsRead, BufferIsNew
<1>3. OneFile(K)' = OneFile(K)
  BY DEF OneFile, Steady
<1>4. Repeating(K)'
  <2>1. OneFile(K) => /\ Len(content) = 1 /\ path = 1
                      /\ position # None =>
                           /\ Undamaged(K, content, 1, position)
                           /\ position # saved => GoesTo(content, position, saved)
    BY DEF LinesInv, Repeating
  <2>2. OneFile(K) => Len(content') = 1 /\ path' = 1
    BY <2>1 DEF Still
  <2> QED
    BY <1>3, <2>1, <2>2 DEF Repeating, Still
<1>5. LinesBegin(K)'
  <2>1. OneFile(K) /\ K.replay =>
          /\ rows # <<>> => AtLine(content, saved)
          /\ position # None => AtLine(content, position)
    BY DEF LinesInv, LinesBegin
  <2> QED
    BY <1>3, <2>1 DEF LinesBegin, Still
<1>6. Reported(K) => InStep'
  BY DEF LinesInv, InStep, Still
<1> QED
  BY <1>1, <1>2, <1>4, <1>5, <1>6 DEF LinesInv, Reported

(* A gap before a generation in file f: whatever is told was written       *)
(* before all of f from offset o on.                                       *)
LEMMA GapIsNew ==
  ASSUME NEW K, File(K)!FileConstants,
         Inv(K), LinesInv(K), Inv(K)', Still, position' = position, stage' = "commit",
         job'.line = None,
         InStep => /\ rows # <<>> => Before(saved, job'.next)
                   /\ \A b \in Told(rows) : Later(content, b, fd', job'.next.offset)
  PROVE  JobGoesOn(K)' /\ JobIsNew'
<1>1. JobGoesOn(K)'
  BY DEF JobGoesOn
<1>2. InStep' = InStep
  BY DEF InStep, Still
<1>3. JobIsNew'
  BY <1>2 DEF JobIsNew, Still, Before
<1> QED
  BY <1>1, <1>3

LEMMA ToldBefore ==
  ASSUME NEW K, File(K)!FileConstants,
         Inv(K), LinesInv(K), rows # <<>>, NEW b \in Told(rows), NEW f \in Nat, NEW o \in Nat,
         f > SavedFile(rows) \/ (f = SavedFile(rows) /\ o >= saved.offset)
  PROVE  Later(content, b, f, o)
<1>1. Later(content, b, SavedFile(rows), saved.offset)
  BY DEF LinesInv, StoredInv, RowsComeBefore
<1>2. SavedFile(rows) \in Nat /\ saved.offset \in Nat /\ content \in Seq(Seq(Nat))
  BY SavedTyped, Typed
<1> QED
  BY <1>1, <1>2, LaterFrom

-----------------------------------------------------------------------------
(* One poll, up to the commit. *)
LEMMA OpenLines ==
  ASSUME NEW K, File(K)!FileConstants
  PROVE  Inv(K) /\ LinesInv(K) /\ File(K)!Open => LinesInv(K)'
<1> SUFFICES ASSUME Inv(K), LinesInv(K), File(K)!Open PROVE LinesInv(K)'
  OBVIOUS
<1>0. Inv(K)'
  BY OpenKeeps
<1>1. /\ UNCHANGED <<File(K)!files, File(K)!store>> /\ UNCHANGED buffer /\ stage = "closed" /\ position = None
      /\ fd' = path /\ path # 0 /\ path \in 1..Len(content) /\ path \in Nat
      /\ inode[path] \in Inodes /\ content[path] \in Seq(Nat)
  <2>1. path \in 1..Len(content) /\ stage = "closed"
    BY Typed DEF File!Open
  <2> QED
    BY <2>1, Typed, SeqAt DEF File!Open, Inv, File!FileTypeOK, File!SourceTypeOK
<1>2. Still /\ buffer = <<>>
  BY <1>1, StillIs DEF LinesInv, BufferIsRead
<1>3. path = Len(content)
  BY <1>1 DEF LinesInv, StoredInv, BytesInOrder
<1>4. rows # <<>> => path >= SavedFile(rows)
  BY <1>3, SavedTyped, Typed
<1>5. rows' = rows /\ SavedFile(rows)' = SavedFile(rows)
  BY <1>2 DEF Still, SavedFile
<1>6. CASE File(K)!OpenSaved
  <2>1. position' = saved /\ stage' = "check" /\ rows # <<>>
    BY <1>6, SavedTyped DEF File!OpenSaved
  <2>2. OpenInOrder' /\ BufferIsRead(K)' /\ BufferIsNew'
    <3>1. Len(buffer') <= Window + 1
      BY <1>1, <1>2 DEF File!FileConstants
    <3> QED
      BY <1>1, <1>2, <1>4, <1>5, <2>1, <3>1 DEF OpenInOrder, BufferIsRead, BufferIsNew
  <2> QED
    BY <1>0, <1>2, <2>1, <2>2, QuietLines
<1>7. CASE File(K)!OpenReplaced
  <2> DEFINE next == File(K)!At(inode[path], saved.epoch + 1, 0)
  <2>1. /\ saved.ino # inode[path] /\ rows # <<>> /\ position' = position /\ stage' = "commit"
        /\ job' = [next |-> next, line |-> None, old |-> 0]
    BY <1>7, SavedTyped DEF File!OpenReplaced, File!Prepare
  <2>2. job'.next.offset = 0 /\ job'.next.epoch = saved.epoch + 1 /\ job'.line = None /\ job'.old = 0
        /\ job'.next.skipping = FALSE
    BY <2>1 DEF File!At
  <2>3. OpenInOrder'
    BY <1>1, <1>4, <1>5, <2>1, <2>2 DEF OpenInOrder
  <2>4. Before(saved, job'.next)
    <3>1. saved.epoch \in Nat
      BY <2>1, SavedTyped
    <3>2. saved.epoch < job'.next.epoch
      BY <2>2, <3>1
    <3> QED
      BY <3>2 DEF Before
  <2>5. path > SavedFile(rows)
    <3>1. inode[SavedFile(rows)] = saved.ino /\ SavedFile(rows) \in Nat
      BY <2>1, SavedTyped DEF LinesInv, StoredInv, RowsComeBefore
    <3>2. SavedFile(rows) # path
      BY <2>1, <3>1
    <3> QED
      BY <1>1, <1>4, <2>1, <3>1, <3>2
  <2>6. \A b \in Told(rows) : Later(content, b, fd', job'.next.offset)
    BY <1>1, <2>1, <2>2, <2>5, ToldBefore
  <2>7. JobGoesOn(K)' /\ JobIsNew'
    BY <1>0, <1>2, <2>1, <2>2, <2>4, <2>6, GapIsNew
  <2>8. AtLine(content, job'.next) \/ ~OneFile(K)
    <3>1. OneFile(K) => Len(content[1]) >= 0
      <4>1. OneFile(K) => path = 1
        BY OneSaved
      <4> QED
        BY <1>1, <4>1
    <3> QED
      BY <2>2, <3>1 DEF AtLine
  <2> QED
    BY <1>0, <1>1, <1>2, <2>1, <2>2, <2>3, <2>7, <2>8, PreparesLines
<1>8. CASE File(K)!OpenNew
  <2> DEFINE next == File(K)!At(inode[path], 0, IF K.replay THEN 0 ELSE Len(content[path]))
  <2>1. /\ rows = <<>> /\ position' = position /\ stage' = "commit"
        /\ job' = [next |-> next, line |-> None, old |-> 0]
    BY <1>8, SavedTyped DEF File!OpenNew, File!Prepare
  <2>2. /\ job'.next.offset = IF K.replay THEN 0 ELSE Len(content[path])
        /\ job'.line = None /\ job'.old = 0
    BY <2>1 DEF File!At
  <2>3. OpenInOrder'
    BY <1>5, <2>1 DEF OpenInOrder
  <2>4. JobGoesOn(K)' /\ JobIsNew'
    <3>1. Told(rows) = {}
      BY <2>1, ToldTyped
    <3> QED
      BY <1>0, <1>2, <2>1, <2>2, <3>1, GapIsNew
  <2>5. AtLine(content, job'.next) \/ ~OneFile(K) \/ ~K.replay
    <3>1. OneFile(K) => Len(content[1]) >= 0
      <4>1. OneFile(K) => path = 1
        BY OneSaved
      <4> QED
        BY <1>1, <4>1
    <3> QED
      BY <2>2, <3>1 DEF AtLine
  <2> QED
    BY <1>0, <1>1, <1>2, <2>1, <2>2, <2>3, <2>4, <2>5, PreparesLines
<1> QED
  BY <1>6, <1>7, <1>8 DEF File!Open

(* A position that is in step is that of custody's last row, in a file     *)
(* that is not newer than the open one.                                    *)
LEMMA InStepIs ==
  ASSUME NEW K, File(K)!FileConstants,
         Inv(K), LinesInv(K), InStep, stage \in {"check", "read", "stat", "switch"}
  PROVE  /\ rows # <<>> /\ position = saved /\ fd >= SavedFile(rows)
         /\ fd \in Nat /\ SavedFile(rows) \in Nat /\ position.offset \in Nat
<1>1. position # None /\ fd \in 1..Len(content) /\ position \in File(K)!Position
  BY OpenTyped
<1>2. rows # <<>> /\ position = saved
  BY <1>1, SavedTyped DEF InStep
<1> QED
  BY <1>1, <1>2, SavedTyped DEF LinesInv, OpenInOrder, File!Position

LEMMA CheckLines ==
  ASSUME NEW K, File(K)!FileConstants
  PROVE  Inv(K) /\ LinesInv(K) /\ File(K)!Check => LinesInv(K)'
<1> SUFFICES ASSUME Inv(K), LinesInv(K), File(K)!Check PROVE LinesInv(K)'
  OBVIOUS
<1>0. Inv(K)'
  BY PollKeeps
<1>1. /\ UNCHANGED <<File(K)!files, File(K)!store>> /\ UNCHANGED <<fd, position, buffer>> /\ stage = "check"
  BY DEF File!Check
<1>2. Still /\ buffer = <<>> /\ buffer' = <<>>
  BY <1>1, StillIs DEF LinesInv, BufferIsRead
<1>3. /\ fd \in 1..Len(content) /\ fd \in Nat /\ position \in File(K)!Position /\ position.offset \in Nat
      /\ content[fd] \in Seq(Nat) /\ Len(content[fd]) \in Nat /\ position # None
  BY <1>1, OpenTyped, Typed DEF File!Position
<1>4. rows' = rows /\ SavedFile(rows)' = SavedFile(rows) /\ content' = content
  BY <1>2 DEF Still, SavedFile
<1>5. CASE ~File(K)!Damaged
  <2>1. stage' = "read" /\ position.offset <= Len(content[fd])
    BY <1>3, <1>5 DEF File!Check, File!Damaged
  <2>2. OpenInOrder' /\ BufferIsRead(K)' /\ BufferIsNew'
    <3>1. Len(buffer') <= Window + 1 /\ position.offset + Len(buffer') <= Len(content[fd])
          /\ 1..Len(buffer') = {}
      BY <1>2, <1>3, <2>1 DEF File!FileConstants
    <3> QED
      BY <1>1, <1>4, <2>1, <3>1 DEF LinesInv, OpenInOrder, BufferIsRead, BufferIsNew
  <2> QED
    BY <1>0, <1>1, <1>2, <2>1, <2>2, QuietLines
<1>6. CASE File(K)!Damaged
  <2> DEFINE next == File(K)!At(position.ino, position.epoch + 1, 0)
  <2>1. /\ position' = position /\ stage' = "commit"
        /\ job' = [next |-> next, line |-> None, old |-> fd]
    BY <1>1, <1>6 DEF File!Check, File!Prepare
  <2>2. job'.next.offset = 0 /\ job'.next.epoch = position.epoch + 1 /\ job'.line = None
        /\ job'.old = fd
    BY <2>1 DEF File!At
  <2>3. OpenInOrder'
    BY <1>1, <1>4, <2>1, <2>2 DEF LinesInv, OpenInOrder
  <2>4. ASSUME InStep
        PROVE  /\ Before(saved, job'.next)
               /\ \A b \in Told(rows) : Later(content, b, fd', job'.next.offset)
    <3>1. rows # <<>> /\ position = saved /\ fd >= SavedFile(rows) /\ SavedFile(rows) \in Nat
      BY <1>1, <2>4, InStepIs
    <3>2. Before(saved, job'.next)
      <4>1. position.epoch \in Nat
        BY <1>3 DEF File!Position
      <4> QED
        BY <2>2, <3>1, <4>1 DEF Before
    <3>3. ASSUME NEW b \in Told(rows) PROVE Later(content, b, fd, 0)
      <4>1. CASE fd > SavedFile(rows)
        BY <1>3, <3>1, <4>1, ToldBefore
      <4>2. CASE fd = SavedFile(rows)
        <5>1. ~Undamaged(K, content, SavedFile(rows), saved)
          BY <1>3, <1>6, <3>1, <4>2 DEF File!Damaged, Undamaged, File!Tail32
        <5> QED
          BY <3>1, <4>2, <5>1 DEF LinesInv, StoredInv, RowsComeBefore
      <4> QED
        BY <1>3, <3>1, <4>1, <4>2
    <3> QED
      BY <1>1, <2>2, <3>2, <3>3
  <2>5. JobGoesOn(K)' /\ JobIsNew'
    BY <1>0, <1>2, <2>1, <2>2, <2>4, GapIsNew
  <2>6. ~OneFile(K)
    <3>1. SUFFICES ASSUME OneFile(K) PROVE FALSE
      OBVIOUS
    <3>2. fd = 1
      BY <1>3, <3>1, OneSaved
    <3>3. Undamaged(K, content, 1, position)
      BY <1>3, <3>1 DEF LinesInv, Repeating
    <3> QED
      BY <1>3, <1>6, <3>2, <3>3 DEF File!Damaged, Undamaged, File!Tail32
  <2> QED
    BY <1>0, <1>2, <2>1, <2>3, <2>5, <2>6, PreparesLines
<1> QED
  BY <1>5, <1>6

LEMMA ReadLines ==
  ASSUME NEW K, File(K)!FileConstants
  PROVE  Inv(K) /\ LinesInv(K) /\ File(K)!Read => LinesInv(K)'
<1> SUFFICES ASSUME Inv(K), LinesInv(K), File(K)!Read PROVE LinesInv(K)'
  OBVIOUS
<1>0. Inv(K)'
  BY PollKeeps
<1>1. /\ UNCHANGED <<File(K)!files, File(K)!store>> /\ UNCHANGED <<fd, position>> /\ stage = "read" /\ stage' = "stat"
      /\ buffer' = SubSeq(content[fd], position.offset + 1,
                          File(K)!Least(Len(content[fd]), position.offset + Window + 1))
  BY DEF File!Read
<1>2. Still /\ rows' = rows /\ SavedFile(rows)' = SavedFile(rows) /\ content' = content
      /\ written' = written /\ saved' = saved
  BY <1>1, StillIs DEF Still, SavedFile
<1>3. /\ fd \in 1..Len(content) /\ fd \in Nat /\ position.offset \in Nat /\ position # None
      /\ content[fd] \in Seq(Nat) /\ Len(content[fd]) \in Nat /\ Window \in Nat
  <2>1. position # None /\ Window \in Nat
    BY <1>1, OpenTyped DEF File!FileConstants
  <2> QED
    BY <1>1, <2>1, OpenTyped DEF File!Position
<1> DEFINE end == File(K)!Least(Len(content[fd]), position.offset + Window + 1)
<1>4. end \in Nat /\ end <= Len(content[fd]) /\ end <= position.offset + Window + 1
  BY <1>3 DEF File!Least
<1>5. position.offset <= Len(content[fd]) => position.offset <= end
  BY <1>3 DEF File!Least
<1> HIDE DEF end
<1>6. /\ position.offset + 1 <= end => Len(buffer') = end - (position.offset + 1) + 1
      /\ end < position.offset + 1 => Len(buffer') = 0
      /\ \A i \in 1..Len(buffer') :
            /\ position.offset + 1 + i - 1 \in 1..Len(content[fd])
            /\ buffer'[i] = content[fd][position.offset + 1 + i - 1]
  <2>1. buffer' = SubSeq(content[fd], position.offset + 1, end)
    BY <1>1 DEF end
  <2>2. position.offset + 1 \in Nat /\ position.offset + 1 >= 1
    BY <1>3
  <2> DEFINE part == SubSeq(content[fd], position.offset + 1, end)
  <2>3. /\ position.offset + 1 <= end => Len(part) = end - (position.offset + 1) + 1
        /\ end < position.offset + 1 => Len(part) = 0
        /\ \A i \in 1..Len(part) :
              /\ position.offset + 1 + i - 1 \in 1..Len(content[fd])
              /\ part[i] = content[fd][position.offset + 1 + i - 1]
    BY <1>3, <1>4, <2>2, SubSeqAt
  <2> HIDE DEF part
  <2>4. buffer' = part
    BY <2>1 DEF part
  <2> QED
    BY <2>3, <2>4
<1>7. Len(buffer') \in Nat /\ Len(buffer') <= Window + 1
      /\ (position.offset <= Len(content[fd]) => position.offset + Len(buffer') <= Len(content[fd]))
  <2>1. CASE position.offset + 1 <= end
    <3>1. Len(buffer') = end - position.offset
      BY <1>3, <1>4, <1>6, <2>1, SMTT(30)
    <3> QED
      BY <1>3, <1>4, <2>1, <3>1, SMTT(30)
  <2>2. CASE end < position.offset + 1
    <3>1. Len(buffer') = 0
      BY <1>6, <2>2
    <3> QED
      BY <1>3, <3>1
  <2> QED
    BY <1>3, <1>4, <2>1, <2>2
<1>8. \A i \in 1..Len(buffer') : /\ position.offset + i \in 1..Len(content[fd])
                                 /\ buffer'[i] = content[fd][position.offset + i]
  <2>1. \A i \in 1..Len(buffer') : position.offset + 1 + i - 1 = position.offset + i
    BY <1>3, <1>7
  <2> QED
    BY <1>6, <2>1
<1>9. BufferIsRead(K)'
  <2>1. Steady(K) => position.offset <= Len(content[fd])
    <3>1. buffer = <<>> /\ (Steady(K) => position.offset + Len(buffer) <= Len(content[fd]))
      BY <1>1 DEF LinesInv, BufferIsRead
    <3>2. Len(buffer) = 0
      BY <3>1
    <3> QED
      BY <1>3, <3>1, <3>2
  <2> QED
    BY <1>1, <1>2, <1>7, <1>8, <2>1 DEF BufferIsRead, Steady
<1>10. BufferIsNew'
  <2>1. SUFFICES ASSUME InStep, NEW i \in 1..Len(buffer'), buffer'[i] # 0
                 PROVE  /\ buffer'[i] <= written /\ Later(content, buffer'[i], fd, position.offset + i)
                        /\ \A b \in Told(rows) : b < buffer'[i]
    BY <1>1, <1>2 DEF BufferIsNew, InStep
  <2>2. /\ position.offset + i \in 1..Len(content[fd]) /\ buffer'[i] = content[fd][position.offset + i]
        /\ i \in Nat /\ i >= 1
    BY <1>8
  <2>3. /\ buffer'[i] <= written /\ Later(content, buffer'[i], fd, position.offset + i)
    BY <1>3, <2>1, <2>2 DEF LinesInv, StoredInv, BytesInOrder
  <2>4. ASSUME NEW b \in Told(rows) PROVE b < buffer'[i]
    <3>1. rows # <<>> /\ position = saved /\ fd >= SavedFile(rows) /\ SavedFile(rows) \in Nat
      BY <1>1, <2>1, InStepIs
    <3>2. Later(content, b, fd, position.offset)
      BY <1>3, <3>1, ToldBefore
    <3>3. position.offset + i > position.offset
      BY <1>3, <2>2
    <3> QED
      BY <1>3, <2>1, <2>2, <3>2, <3>3, LaterAt, Typed
  <2> QED
    BY <2>3, <2>4
<1>11. OpenInOrder'
  BY <1>1, <1>2 DEF LinesInv, OpenInOrder
<1> QED
  BY <1>0, <1>1, <1>2, <1>9, <1>10, <1>11, QuietLines

LEMMA WaitLines ==
  ASSUME NEW K, File(K)!FileConstants
  PROVE  Inv(K) /\ LinesInv(K) /\ (File(K)!Wait \/ File(K)!Drained) => LinesInv(K)'
<1> SUFFICES ASSUME Inv(K), LinesInv(K), File(K)!Wait \/ File(K)!Drained PROVE LinesInv(K)'
  OBVIOUS
<1>0. Inv(K)'
  BY PollKeeps
<1>1. /\ UNCHANGED <<File(K)!files, File(K)!store>> /\ UNCHANGED <<fd, position>> /\ stage = "stat"
      /\ stage' \in {"check", "switch"} /\ buffer' = <<>>
      /\ stage' = "switch" => File(K)!Rotated
  BY DEF File!Wait, File!Drained
<1>2. Still /\ rows' = rows /\ SavedFile(rows)' = SavedFile(rows) /\ path' = path
  BY <1>1, StillIs DEF Still, SavedFile
<1>3. File(K)!Rotated => path # fd
  BY <1>1, OpenTyped DEF File!Rotated
<1>4. OpenInOrder'
  BY <1>1, <1>2, <1>3 DEF LinesInv, OpenInOrder
<1>5. BufferIsRead(K)' /\ BufferIsNew'
  <2>1. Len(buffer') <= Window + 1
    BY <1>1 DEF File!FileConstants
  <2> QED
    BY <1>1, <2>1 DEF BufferIsRead, BufferIsNew
<1> QED
  BY <1>0, <1>1, <1>2, <1>4, <1>5, QuietLines

LEMMA SwitchLines ==
  ASSUME NEW K, File(K)!FileConstants
  PROVE  Inv(K) /\ LinesInv(K) /\ File(K)!Switch => LinesInv(K)'
<1> SUFFICES ASSUME Inv(K), LinesInv(K), File(K)!Switch PROVE LinesInv(K)'
  OBVIOUS
<1>0. Inv(K)'
  BY PollKeeps
<1>1. UNCHANGED <<File(K)!files, File(K)!store>> /\ UNCHANGED <<position, buffer>> /\ stage = "switch" /\ path # fd
  BY DEF File!Switch, LinesInv, OpenInOrder
<1>2. Still /\ rows' = rows /\ SavedFile(rows)' = SavedFile(rows) /\ path' = path
      /\ buffer = <<>> /\ buffer' = <<>>
  BY <1>1, StillIs DEF Still, SavedFile, LinesInv, BufferIsRead
<1>3. CASE stage' = "check" /\ fd' = fd
  <2>1. OpenInOrder'
    BY <1>2, <1>3 DEF LinesInv, OpenInOrder
  <2>2. BufferIsRead(K)' /\ BufferIsNew'
    <3>1. Len(buffer') <= Window + 1
      BY <1>2 DEF File!FileConstants
    <3> QED
      BY <1>2, <1>3, <3>1 DEF BufferIsRead, BufferIsNew
  <2> QED
    BY <1>0, <1>1, <1>2, <1>3, <2>1, <2>2, QuietLines
<1>4. CASE /\ path # 0 /\ fd' = path
           /\ File(K)!Prepare(File(K)!At(inode[path], position.epoch + 1, 0), None, fd)
  <2>1. /\ stage' = "commit"
        /\ job' = [next |-> File(K)!At(inode[path], position.epoch + 1, 0), line |-> None, old |-> fd]
    BY <1>4 DEF File!Prepare
  <2>2. job'.next.offset = 0 /\ job'.next.epoch = position.epoch + 1 /\ job'.line = None
        /\ job'.old = fd
    BY <2>1 DEF File!At
  <2>3. /\ fd \in 1..Len(content) /\ fd \in Nat /\ path \in Nat /\ position \in File(K)!Position
        /\ Len(content) \in Nat /\ position # None
    BY <1>1, OpenTyped, Typed
  <2>4. path > fd
    <3>1. path = Len(content)
      BY <1>4 DEF LinesInv, StoredInv, BytesInOrder
    <3> QED
      BY <1>1, <2>3, <3>1
  <2>5. OpenInOrder'
    <3>1. rows # <<>> => fd >= SavedFile(rows) /\ SavedFile(rows) \in Nat
      BY <2>3, SavedTyped DEF LinesInv, OpenInOrder
    <3>2. rows # <<>> => path >= SavedFile(rows)
      BY <2>3, <2>4, <3>1
    <3> QED
      BY <1>2, <1>4, <2>1, <2>2, <3>1, <3>2 DEF OpenInOrder
  <2>6. ASSUME InStep
        PROVE  /\ Before(saved, job'.next)
               /\ \A b \in Told(rows) : Later(content, b, fd', job'.next.offset)
    <3>1. rows # <<>> /\ position = saved /\ fd >= SavedFile(rows) /\ SavedFile(rows) \in Nat
      BY <1>1, <2>6, InStepIs
    <3>2. Before(saved, job'.next)
      <4>1. position.epoch \in Nat
        BY <2>3 DEF File!Position
      <4> QED
        BY <2>2, <3>1, <4>1 DEF Before
    <3>3. path > SavedFile(rows)
      BY <2>3, <2>4, <3>1
    <3> QED
      BY <1>4, <2>2, <2>3, <3>1, <3>2, <3>3, ToldBefore
  <2>7. JobGoesOn(K)' /\ JobIsNew'
    BY <1>0, <1>1, <1>2, <2>1, <2>2, <2>6, GapIsNew
  <2>8. ~OneFile(K)
    BY <1>1, <1>4, <2>3, OneSaved
  <2> QED
    BY <1>0, <1>1, <1>2, <2>1, <2>5, <2>7, <2>8, PreparesLines
<1> QED
  BY <1>3, <1>4 DEF File!Switch

LEMMA PartIs ==
  ASSUME NEW s \in Seq(Nat), NEW o \in Nat, NEW n \in Nat, n >= 1, o + n <= Len(s)
  PROVE  /\ SubSeq(s, o + 1, o + n) \in Seq(Nat) /\ Len(SubSeq(s, o + 1, o + n)) = n
         /\ \A i \in 1..n : SubSeq(s, o + 1, o + n)[i] = s[o + i]
OBVIOUS

(* What is consumed: a line and its newline, or bytes without a newline.   *)
LEMMA ConsumedIs ==
  ASSUME NEW K, File(K)!FileConstants,
         Inv(K), LinesInv(K), stage = "stat", NEW n \in File(K)!Consumed, buffer # <<>>
  PROVE  /\ n \in 1..Len(buffer) /\ n \in Nat /\ Len(buffer) \in Nat
         /\ \A i \in 1..(n - 1) : i \in 1..Len(buffer) /\ buffer[i] # 0
         /\ File(K)!Ends # {} => buffer[n] = 0
         /\ File(K)!Ends = {} => n = Len(buffer) /\ buffer[n] # 0
         /\ n <= Window + 1
<1>1. buffer \in Seq(Nat) /\ Len(buffer) \in Nat /\ DOMAIN buffer = 1..Len(buffer) /\ Len(buffer) # 0
  BY Typed
<1>2. Len(buffer) <= Window + 1 /\ Window \in Nat
  BY DEF File!FileConstants, LinesInv, BufferIsRead
<1>3. CASE File(K)!Ends = {}
  <2>1. n = Len(buffer)
    BY <1>3 DEF File!Consumed
  <2>2. \A i \in 1..Len(buffer) : buffer[i] # 0
    BY <1>1, <1>3 DEF File!Ends
  <2> QED
    BY <1>1, <1>2, <1>3, <2>1, <2>2
<1>4. CASE File(K)!Ends # {}
  <2>1. n \in File(K)!Ends /\ \A j \in File(K)!Ends : n <= j
    BY <1>4 DEF File!Consumed
  <2>2. n \in 1..Len(buffer) /\ buffer[n] = 0
    BY <1>1, <2>1 DEF File!Ends
  <2>3. ASSUME NEW i \in 1..(n - 1) PROVE i \in 1..Len(buffer) /\ buffer[i] # 0
    <3>1. i \in 1..Len(buffer) /\ ~(n <= i)
      BY <1>1, <2>2
    <3> QED
      BY <1>1, <2>1, <3>1 DEF File!Ends
  <2> QED
    BY <1>1, <1>2, <1>4, <2>2, <2>3
<1> QED
  BY <1>3, <1>4

LEMMA RecordedIs ==
  ASSUME NEW K, File(K)!FileConstants,
         Inv(K), LinesInv(K), stage = "stat", NEW n \in File(K)!Consumed, buffer # <<>>, File(K)!RecordedAs(n) # None
  PROVE  /\ File(K)!RecordedAs(n) \in Seq(Nat) /\ File(K)!RecordedAs(n) # <<>> /\ Len(File(K)!RecordedAs(n)) = n - 1
         /\ \A m \in 1..(n - 1) : File(K)!RecordedAs(n)[m] = buffer[m]
         /\ File(K)!Ends # {} /\ ~position.skipping
<1>1. File(K)!RecordedAs(n) = SubSeq(buffer, 1, n - 1) /\ File(K)!Ends # {} /\ ~position.skipping
      /\ SubSeq(buffer, 1, n - 1) # <<>>
  BY DEF File!RecordedAs
<1>2. n \in 1..Len(buffer) /\ n \in Nat /\ n - 1 \in Nat /\ Len(buffer) \in Nat /\ buffer \in Seq(Nat)
      /\ n - 1 <= Len(buffer)
  BY ConsumedIs, Typed
<1> DEFINE part == SubSeq(buffer, 1, n - 1)
<1>3. /\ part \in Seq(Nat)
      /\ 1 <= n - 1 => Len(part) = n - 1 - 1 + 1
      /\ n - 1 < 1 => Len(part) = 0
      /\ \A i \in 1..Len(part) : part[i] = buffer[1 + i - 1]
  <2>1. 1 \in Nat /\ 1 >= 1
    OBVIOUS
  <2> QED
    BY <1>2, <2>1, SubSeqIs, SubSeqAt
<1>4. part = File(K)!RecordedAs(n)
  BY <1>1
<1> HIDE DEF part
<1>5. Len(part) = n - 1
  BY <1>2, <1>3
<1>6. \A m \in 1..(n - 1) : part[m] = buffer[m]
  BY <1>2, <1>3, <1>5
<1> QED
  BY <1>1, <1>3, <1>4, <1>5, <1>6

LEMMA ConsumeLines ==
  ASSUME NEW K, File(K)!FileConstants
  PROVE  Inv(K) /\ LinesInv(K) /\ File(K)!Consume => LinesInv(K)'
<1> SUFFICES ASSUME Inv(K), LinesInv(K), File(K)!Consume PROVE LinesInv(K)'
  OBVIOUS
<1>0. Inv(K)'
  BY PollKeeps
<1>1. /\ UNCHANGED <<File(K)!files, File(K)!store>> /\ UNCHANGED <<fd, position>> /\ stage = "stat" /\ buffer # <<>>
      /\ buffer' = <<>>
      /\ File(K)!Ends # {} \/ File(K)!Rotated \/ Len(buffer) > Window
  BY DEF File!Consume
<1>2. Still /\ rows' = rows /\ SavedFile(rows)' = SavedFile(rows) /\ content' = content
      /\ written' = written /\ saved' = saved
  BY <1>1, StillIs DEF Still, SavedFile
<1>3. /\ fd \in 1..Len(content) /\ fd \in Nat /\ position \in File(K)!Position /\ position.offset \in Nat
      /\ position # None /\ inode[fd] = position.ino
      /\ content \in Seq(Seq(Nat)) /\ content[fd] \in Seq(Nat) /\ Len(content[fd]) \in Nat
  BY <1>1, OpenTyped, Typed DEF File!Position
<1> DEFINE next(n) == [position EXCEPT !.offset = position.offset + n,
                                       !.skipping = File(K)!Ends = {} /\ ~File(K)!Rotated]
<1>4. PICK n \in File(K)!Consumed : File(K)!Prepare(next(n), File(K)!RecordedAs(n), fd)
  BY DEF File!Consume
<1>5. /\ stage' = "commit" /\ job'.line = File(K)!RecordedAs(n) /\ job'.old = fd
      /\ job'.next.ino = position.ino /\ job'.next.epoch = position.epoch
      /\ job'.next.offset = position.offset + n
      /\ job'.next.skipping = (File(K)!Ends = {} /\ ~File(K)!Rotated)
  BY <1>3, <1>4 DEF File!Prepare, File!Position
<1> HIDE DEF next
<1>6. /\ n \in 1..Len(buffer) /\ n \in Nat /\ n >= 1 /\ Len(buffer) \in Nat
      /\ \A i \in 1..(n - 1) : i \in 1..Len(buffer) /\ buffer[i] # 0
      /\ File(K)!Ends # {} => buffer[n] = 0
      /\ File(K)!Ends = {} => n = Len(buffer) /\ buffer[n] # 0
      /\ n <= Window + 1
  BY <1>1, ConsumedIs
<1>7. File(K)!RecordedAs(n) # None =>
        /\ File(K)!RecordedAs(n) \in Seq(Nat) /\ File(K)!RecordedAs(n) # <<>> /\ Len(File(K)!RecordedAs(n)) = n - 1
        /\ \A m \in 1..(n - 1) : File(K)!RecordedAs(n)[m] = buffer[m]
        /\ File(K)!Ends # {} /\ ~position.skipping
  BY <1>1, RecordedIs
<1>8. OpenInOrder'
  BY <1>1, <1>2, <1>5 DEF LinesInv, OpenInOrder
(* In the file, if it was not cut meanwhile.                               *)
<1>9. Steady(K) => /\ position.offset + n <= Len(content[fd])
                   /\ \A i \in 1..Len(buffer) : buffer[i] = content[fd][position.offset + i]
  <2>1. Steady(K) => /\ position.offset + Len(buffer) <= Len(content[fd])
                     /\ \A i \in 1..Len(buffer) : buffer[i] = content[fd][position.offset + i]
    BY <1>1 DEF LinesInv, BufferIsRead
  <2>2. position.offset + n <= position.offset + Len(buffer)
    BY <1>3, <1>6
  <2>3. \A a, b, c \in Nat : a <= b /\ b <= c => a <= c
    OBVIOUS
  <2>4. position.offset + n \in Nat /\ position.offset + Len(buffer) \in Nat
    BY <1>3, <1>6, SMTT(30)
  <2>5. Steady(K) => position.offset + n <= Len(content[fd])
    BY <1>3, <2>1, <2>2, <2>3, <2>4
  <2> QED
    BY <2>1, <2>5
<1>10. JobGoesOn(K)'
  <2>1. ASSUME File(K)!RecordedAs(n) # None, Steady(K)
        PROVE  SubSeq(content[fd], position.offset + 1, position.offset + n) = Append(File(K)!RecordedAs(n), 0)
    <3> DEFINE part == SubSeq(content[fd], position.offset + 1, position.offset + n)
               line == File(K)!RecordedAs(n)
               whole == Append(line, 0)
    <3>1. part \in Seq(Nat) /\ Len(part) = n /\ \A i \in 1..n : part[i] = content[fd][position.offset + i]
      BY <1>3, <1>6, <1>9, <2>1, PartIs
    <3>2. /\ line \in Seq(Nat) /\ Len(line) = n - 1 /\ buffer[n] = 0
          /\ \A m \in 1..(n - 1) : line[m] = buffer[m]
      BY <1>6, <1>7, <2>1
    <3> HIDE DEF part, line
    <3>3. /\ whole \in Seq(Nat) /\ Len(whole) = Len(line) + 1 /\ whole[Len(line) + 1] = 0
          /\ \A i \in 1..Len(line) : whole[i] = line[i]
      BY <3>2, AppendIs
    <3> HIDE DEF whole
    <3>4. Len(whole) = n
      BY <1>6, <3>2, <3>3
    <3>5. ASSUME NEW i \in 1..n PROVE part[i] = whole[i]
      <4>1. part[i] = content[fd][position.offset + i]
        BY <3>1
      <4>2. buffer[i] = content[fd][position.offset + i]
        BY <1>6, <1>9, <2>1
      <4>3. whole[i] = buffer[i]
        <5>1. CASE i = n
          BY <1>6, <3>2, <3>3, <5>1
        <5>2. CASE i \in 1..(n - 1)
          BY <3>2, <3>3, <5>2
        <5> QED
          BY <1>6, <5>1, <5>2
      <4> QED
        BY <4>1, <4>2, <4>3
    <3>6. part = whole
      <4>1. part \in Seq(Nat) /\ whole \in Seq(Nat) /\ Len(part) = Len(whole)
        BY <3>1, <3>3, <3>4
      <4>2. \A i \in 1..Len(part) : part[i] = whole[i]
        BY <3>1, <3>5
      <4> QED
        BY <4>1, <4>2, SameSeq
    <3> QED
      BY <3>6 DEF part, whole, line
  <2>2. Steady(K)' = Steady(K)
    BY DEF Steady
  <2> QED
    BY <1>1, <1>2, <1>3, <1>5, <1>7, <1>9, <2>1, <2>2 DEF JobGoesOn
<1>11. JobIsNew'
  <2>0. InStep' = InStep
    BY <1>1, <1>2 DEF InStep
  <2>1. SUFFICES ASSUME InStep
                 PROVE  /\ Before(saved, job'.next)
                        /\ \A b \in Told(rows) : Later(content, b, fd, job'.next.offset)
                        /\ File(K)!RecordedAs(n) # None =>
                             \A c \in BytesOf(File(K)!RecordedAs(n)) :
                                 /\ c <= written /\ Later(content, c, fd, job'.next.offset)
                                 /\ \A b \in Told(rows) : b < c
    BY <1>1, <1>2, <1>5, <2>0 DEF JobIsNew, Before
  <2>2. rows # <<>> /\ position = saved /\ fd >= SavedFile(rows) /\ SavedFile(rows) \in Nat
    BY <1>1, <2>1, InStepIs
  <2>3. Before(saved, job'.next)
    <3>1. position.offset < position.offset + n
      BY <1>3, <1>6
    <3> QED
      BY <1>5, <2>2, <3>1 DEF Before
  <2>4. \A b \in Told(rows) : Later(content, b, fd, job'.next.offset)
    <3>1. job'.next.offset \in Nat /\ job'.next.offset >= position.offset
      BY <1>3, <1>5, <1>6
    <3>2. fd > SavedFile(rows) \/ fd = SavedFile(rows)
      BY <1>3, <2>2
    <3> QED
      BY <1>3, <2>2, <3>1, <3>2, ToldBefore
  <2>5. ASSUME File(K)!RecordedAs(n) # None, NEW c \in BytesOf(File(K)!RecordedAs(n))
        PROVE  /\ c <= written /\ Later(content, c, fd, job'.next.offset)
               /\ \A b \in Told(rows) : b < c
    <3>1. PICK m \in 1..(n - 1) : c = buffer[m]
      <4>1. DOMAIN File(K)!RecordedAs(n) = 1..(n - 1)
        BY <1>7, <2>5
      <4> QED
        BY <1>7, <2>5, <4>1 DEF BytesOf
    <3>2. m \in 1..Len(buffer) /\ buffer[m] # 0 /\ m \in Nat /\ m <= n
      BY <1>6
    <3>3. /\ c <= written /\ Later(content, c, fd, position.offset + m)
          /\ \A b \in Told(rows) : b < c
      BY <1>1, <2>1, <3>1, <3>2 DEF LinesInv, BufferIsNew
    <3>4. position.offset + m \in Nat /\ position.offset + n \in Nat
          /\ position.offset + n >= position.offset + m
      BY <1>3, <1>6, <3>2, SMTT(30)
    <3>5. Later(content, c, fd, position.offset + n)
      BY <1>3, <3>3, <3>4, LaterFrom
    <3> QED
      BY <1>5, <3>3, <3>5
  <2> QED
    BY <2>3, <2>4, <2>5
<1>12. ASSUME OneFile(K)
       PROVE  /\ fd = 1 /\ ~File(K)!Rotated /\ Steady(K)
              /\ Taken(content, position.offset, n)
  <2>1. fd = 1 /\ path = 1 /\ Steady(K)
    BY <1>3, <1>12, OneSaved
  <2>2. ~File(K)!Rotated
    BY <1>3, <2>1 DEF File!Rotated
  <2>3. /\ position.offset + n <= Len(content[1])
        /\ \A i \in 1..Len(buffer) : buffer[i] = content[1][position.offset + i]
    BY <1>9, <2>1
  <2>4. \A k \in (position.offset + 1)..(position.offset + n - 1) : content[1][k] # 0
    <3>1. ASSUME NEW k \in (position.offset + 1)..(position.offset + n - 1)
          PROVE  content[1][k] # 0
      <4>1. k - position.offset \in 1..(n - 1) /\ position.offset + (k - position.offset) = k
        BY <1>3, <1>6, SMTT(30)
      <4> QED
        BY <1>6, <2>3, <4>1
    <3> QED
      BY <3>1
  <2>5. content[1][position.offset + n] = 0 \/ n = Window + 1
    <3>1. CASE File(K)!Ends # {}
      BY <1>6, <2>3, <3>1
    <3>2. CASE File(K)!Ends = {}
      <4>1. Len(buffer) > Window /\ n = Len(buffer) /\ Window \in Nat
        BY <1>1, <1>6, <2>2, <3>2 DEF File!FileConstants
      <4> QED
        BY <1>6, <4>1
    <3> QED
      BY <3>1, <3>2
  <2>6. n \in 1..(Window + 1)
    BY <1>6 DEF File!FileConstants
  <2> QED
    BY <2>1, <2>2, <2>3, <2>4, <2>5, <2>6 DEF Taken
<1>13. OneFile(K) => GoesTo(content, position, job'.next)
  <2>1. n \in 1..(Window + 1)
    BY <1>6 DEF File!FileConstants
  <2> QED
    BY <1>5, <1>12, <2>1 DEF GoesTo
<1>14. OneFile(K) => AtLine(content, job'.next)
  <2>1. ASSUME OneFile(K) PROVE AtLine(content, job'.next)
    <3>1. fd = 1 /\ ~File(K)!Rotated /\ Steady(K)
      BY <1>12, <2>1
    <3>2. job'.next.offset <= Len(content[1])
      BY <1>5, <1>9, <3>1
    <3>3. CASE File(K)!Ends = {}
      BY <1>5, <3>1, <3>2, <3>3 DEF AtLine
    <3>4. CASE File(K)!Ends # {}
      <4>1. content[1][job'.next.offset] = 0
        BY <1>5, <1>6, <1>9, <3>1, <3>4
      <4> QED
        BY <3>2, <4>1 DEF AtLine
    <3> QED
      BY <3>3, <3>4
  <2> QED
    BY <2>1
<1>15. job'.line # None => ~position.skipping
  BY <1>5, <1>7
<1>16. stage' = "commit" /\ position' = position /\ buffer' = <<>>
  BY <1>1, <1>5
<1> QED
  BY <1>0, <1>2, <1>8, <1>10, <1>11, <1>13, <1>14, <1>15, <1>16, PreparesLines

-----------------------------------------------------------------------------
(* The end of the daemon, and a commit that fails. *)
LEMMA RestartLines ==
  ASSUME NEW K, File(K)!FileConstants
  PROVE  Inv(K) /\ LinesInv(K) /\ File(K)!Restart => LinesInv(K)'
<1> SUFFICES ASSUME Inv(K), LinesInv(K), File(K)!Restart PROVE LinesInv(K)'
  OBVIOUS
<1>0. Inv(K)'
  BY RestartKeeps
<1>1. /\ UNCHANGED <<File(K)!files, File(K)!store>> /\ stage' = "closed" /\ fd' = 0 /\ position' = None
      /\ buffer' = <<>>
  BY DEF File!Restart
<1>2. Still
  BY <1>1, StillIs
<1>3. OpenInOrder' /\ BufferIsRead(K)' /\ BufferIsNew'
  <2>1. Len(buffer') <= Window + 1
    BY <1>1 DEF File!FileConstants
  <2> QED
    BY <1>1, <2>1 DEF OpenInOrder, BufferIsRead, BufferIsNew
<1> QED
  BY <1>0, <1>1, <1>2, <1>3, QuietLines

LEMMA FailLines ==
  ASSUME NEW K, File(K)!FileConstants
  PROVE  Inv(K) /\ LinesInv(K) /\ File(K)!CommitFails => LinesInv(K)'
<1> SUFFICES ASSUME Inv(K), LinesInv(K), File(K)!CommitFails PROVE LinesInv(K)'
  OBVIOUS
<1>0. Inv(K)'
  BY FailureKeeps
<1>1. /\ UNCHANGED <<File(K)!files, File(K)!store>> /\ UNCHANGED <<position, buffer>> /\ stage = "commit"
      /\ fd' = (IF position = None THEN 0 ELSE job.old)
      /\ stage' \in {"closed", "check"}
  BY DEF File!CommitFails, File!Abandon
<1>2. Still /\ rows' = rows /\ SavedFile(rows)' = SavedFile(rows) /\ buffer = <<>>
  BY <1>1, StillIs DEF Still, SavedFile, LinesInv, BufferIsRead
<1>3. OpenInOrder'
  BY <1>1, <1>2 DEF LinesInv, OpenInOrder
<1>4. BufferIsRead(K)' /\ BufferIsNew'
  <2>1. Len(buffer') <= Window + 1
    BY <1>1, <1>2 DEF File!FileConstants
  <2> QED
    BY <1>1, <1>2, <2>1 DEF BufferIsRead, BufferIsNew
<1> QED
  BY <1>0, <1>1, <1>2, <1>3, <1>4, QuietLines

-----------------------------------------------------------------------------
(* A commit that becomes durable. *)
Covered(K) == Reported(K) \/ OneFile(K)

(* What was committed and not reported is prepared again, and refused.     *)
LEMMA TakenOnce ==
  ASSUME NEW c, NEW o \in Nat, NEW n, NEW m,
         Window \in Nat, Taken(c, o, n), Taken(c, o, m)
  PROVE  n = m
<1>0. n \in Nat /\ m \in Nat /\ n >= 1 /\ m >= 1 /\ n <= Window + 1 /\ m <= Window + 1 /\ Window \in Nat
  BY DEF Taken
<1>1. ASSUME NEW a \in Nat, NEW b \in Nat, a >= 1, a < b, b <= Window + 1, Taken(c, o, a), Taken(c, o, b)
      PROVE  FALSE
  <2>1. o + a \in (o + 1)..(o + b - 1)
    BY <1>1
  <2>2. c[1][o + a] # 0
    BY <1>1, <2>1 DEF Taken
  <2>3. a = Window + 1
    BY <1>1, <2>2 DEF Taken
  <2> QED
    BY <1>0, <1>1, <2>3
<1>2. ~(n < m) /\ ~(m < n)
  BY <1>0, <1>1
<1> QED
  BY <1>0, <1>2

LEMMA PublishInStep ==
  ASSUME NEW K, File(K)!FileConstants,
         Inv(K), LinesInv(K), Covered(K), File(K)!Publish
  PROVE  InStep
<1>1. CASE Reported(K)
  BY <1>1 DEF LinesInv
<1>2. CASE OneFile(K)
  <2>1. SUFFICES ASSUME position # None, position # saved PROVE FALSE
    BY DEF InStep
  <2>2. /\ stage = "commit" /\ GoesTo(content, position, saved) /\ GoesTo(content, position, job.next)
    BY <1>2, <2>1 DEF LinesInv, Repeating, File!Publish
  <2>3. position.offset \in Nat
    BY <2>1, Typed DEF File!Position
  <2>4. /\ saved.ino = job.next.ino /\ saved.epoch = job.next.epoch /\ saved.offset = job.next.offset
    <3>1. PICK n \in 1..(Window + 1) : Taken(content, position.offset, n) /\ saved.offset = position.offset + n
      BY <2>2 DEF GoesTo
    <3>2. PICK m \in 1..(Window + 1) : Taken(content, position.offset, m) /\ job.next.offset = position.offset + m
      BY <2>2 DEF GoesTo
    <3>3. n = m
      BY <2>3, <3>1, <3>2, TakenOnce DEF File!FileConstants
    <3> QED
      BY <2>2, <3>1, <3>2, <3>3 DEF GoesTo
  <2>5. /\ rows # <<>> /\ Len(rows) \in DOMAIN rows
        /\ saved.ino = rows[Len(rows)].ino /\ saved.epoch = rows[Len(rows)].epoch
        /\ saved.offset = rows[Len(rows)].offset
    BY <2>1, SavedTyped, RowsTyped
  <2>6. File(K)!Recorded(job.next)
    BY <2>4, <2>5 DEF File!Recorded
  <2> QED
    BY <2>6 DEF File!Publish
<1> QED
  BY <1>1, <1>2 DEF Covered

LEMMA NewRow ==
  ASSUME NEW K, File(K)!FileConstants,
         Inv(K), Inv(K)', LinesInv(K), Covered(K), File(K)!Publish, UNCHANGED File(K)!files
  PROVE  /\ InStep /\ stage = "commit"
         /\ UNCHANGED <<content, inode, path, writer, written>>
         /\ Len(rows') = Len(rows) + 1 /\ \A i \in 1..Len(rows) : rows'[i] = rows[i]
         /\ LET row == rows'[Len(rows) + 1]
            IN /\ row.ino = job.next.ino /\ row.epoch = job.next.epoch
               /\ row.offset = job.next.offset /\ row.line = job.line /\ row.file = fd
         /\ SavedFile(rows') = fd /\ rows' # <<>>
         /\ Told(rows') = Told(rows) \union (IF job.line = None THEN {} ELSE BytesOf(job.line))
         /\ saved' = [job.next EXCEPT !.tail = File(K)!Tail32(fd, job.next.offset)]
         /\ saved'.ino = job.next.ino /\ saved'.epoch = job.next.epoch
         /\ saved'.offset = job.next.offset /\ saved'.skipping = job.next.skipping
         /\ Undamaged(K, content, fd, saved')
<1>1. InStep /\ stage = "commit" /\ UNCHANGED <<content, inode, path, writer, written>>
  BY PublishInStep DEF File!Publish, File!files
<1>2. /\ fd \in 1..Len(content) /\ job.next \in File(K)!Position /\ job.line \in File(K)!Line
      /\ job.next.offset \in Nat /\ job.next.offset <= Len(content[fd])
      /\ job.next.ino \in Inodes /\ job.next.epoch \in Nat
  BY <1>1, CommitTyped DEF File!Publish, File!Position
<1> DEFINE row == [ino |-> job.next.ino, epoch |-> job.next.epoch,
                   offset |-> job.next.offset, line |-> job.line, file |-> fd]
<1>3. row \in Rows(K) /\ rows \in Seq(Rows(K)) /\ Len(rows) \in Nat /\ rows' = Append(rows, row)
  BY <1>2, RowsTyped DEF Rows, File!Publish
<1>4. /\ row.ino = job.next.ino /\ row.epoch = job.next.epoch
      /\ row.offset = job.next.offset /\ row.line = job.line /\ row.file = fd
  OBVIOUS
<1> HIDE DEF row
<1>5. /\ Len(rows') = Len(rows) + 1 /\ \A i \in 1..Len(rows) : rows'[i] = rows[i]
      /\ rows'[Len(rows) + 1] = row /\ rows' # <<>>
  BY <1>3, AppendIs
<1>6. Told(rows') = Told(rows) \union (IF job.line = None THEN {} ELSE BytesOf(job.line))
  BY <1>3, <1>4, ToldAppend
<1>7. saved' = [job.next EXCEPT !.tail = File(K)!Tail32(fd, job.next.offset)]
  BY DEF File!Publish, File!Marked
<1>8. /\ saved'.ino = job.next.ino /\ saved'.epoch = job.next.epoch
      /\ saved'.offset = job.next.offset /\ saved'.skipping = job.next.skipping
      /\ saved'.tail = File(K)!Tail32(fd, job.next.offset)
  BY <1>2, <1>7 DEF File!Position
<1>9. Undamaged(K, content, fd, saved')
  BY <1>2, <1>8 DEF Undamaged, File!Tail32
<1>10. SavedFile(rows') = fd
  BY <1>4, <1>5 DEF SavedFile
<1> QED
  BY <1>1, <1>4, <1>5, <1>6, <1>7, <1>8, <1>9, <1>10

LEMMA PublishStored ==
  ASSUME NEW K, File(K)!FileConstants,
         Inv(K), Inv(K)', LinesInv(K), Covered(K), File(K)!Publish, UNCHANGED File(K)!files
  PROVE  StoredInv(K)'
<1> DEFINE n == Len(rows) + 1
<1>1. /\ InStep /\ stage = "commit"
      /\ UNCHANGED <<content, inode, path, writer, written>>
      /\ Len(rows') = n /\ \A i \in 1..Len(rows) : rows'[i] = rows[i]
      /\ rows'[n].ino = job.next.ino /\ rows'[n].epoch = job.next.epoch
      /\ rows'[n].offset = job.next.offset /\ rows'[n].line = job.line /\ rows'[n].file = fd
      /\ SavedFile(rows') = fd /\ rows' # <<>>
      /\ Told(rows') = Told(rows) \union (IF job.line = None THEN {} ELSE BytesOf(job.line))
      /\ saved'.ino = job.next.ino /\ saved'.epoch = job.next.epoch
      /\ saved'.offset = job.next.offset
      /\ Undamaged(K, content, fd, saved')
  BY NewRow
<1>2. /\ fd \in 1..Len(content) /\ inode[fd] = job.next.ino /\ job.line \in File(K)!Line
      /\ job.next.offset \in Nat /\ job.next.epoch \in Nat /\ job.next.offset <= Len(content[fd])
  BY <1>1, CommitTyped DEF File!Publish
<1>3. /\ rows # <<>> => Before(saved, job.next)
      /\ \A b \in Told(rows) : Later(content, b, fd, job.next.offset)
      /\ job.line # None =>
           \A c \in BytesOf(job.line) :
               /\ c <= written /\ Later(content, c, fd, job.next.offset)
               /\ \A b \in Told(rows) : b < c
  BY <1>1 DEF LinesInv, JobIsNew
<1>4. /\ Len(rows) \in Nat /\ DOMAIN rows = 1..Len(rows) /\ DOMAIN rows' = 1..n /\ n \in Nat /\ n >= 1
      /\ \A i \in 1..n : i \in 1..Len(rows) \/ i = n
      /\ \A i \in 1..Len(rows) : i # n /\ i \in 1..n
  <2>1. Len(rows) \in Nat /\ DOMAIN rows = 1..Len(rows) /\ DOMAIN rows' = 1..Len(rows')
    BY RowsTyped
  <2> QED
    BY <1>1, <2>1
<1>5. job.line # None =>
        /\ position # None /\ job.line # <<>> /\ rows # <<>> /\ position = saved
        /\ job.next.ino = position.ino /\ job.next.epoch = position.epoch
        /\ n - 1 = Len(rows) /\ Len(rows) \in 1..Len(rows)
        /\ saved.ino = rows[Len(rows)].ino /\ saved.epoch = rows[Len(rows)].epoch
        /\ saved.offset = rows[Len(rows)].offset
  BY <1>1, <1>4, SavedTyped DEF LinesInv, JobGoesOn, InStep
<1> HIDE DEF n
<1>6. BytesInOrder'
  BY <1>1 DEF LinesInv, StoredInv, BytesInOrder
<1>7. RowsComeBefore(K)'
  <2>1. \A b \in Told(rows') : b <= written /\ Later(content, b, fd, job.next.offset)
    BY <1>1, <1>3 DEF LinesInv, StoredInv, RowsComeBefore
  <2> QED
    BY <1>1, <1>2, <2>1 DEF RowsComeBefore
<1>8. RowsInOrder(K)'
  <2>1. ASSUME NEW i \in 1..Len(rows)
        PROVE  /\ ~Before(saved', rows[i])
               /\ rows[i].line # None => rows[i].line # <<>> /\ i > 1
               /\ Steady(K) => rows[i].offset <= Len(content[rows[i].file])
    <3>1. /\ ~Before(saved, rows[i])
          /\ rows[i].line # None => rows[i].line # <<>> /\ i > 1
          /\ Steady(K) => rows[i].offset <= Len(content[rows[i].file])
      BY <1>4 DEF LinesInv, StoredInv, RowsInOrder
    <3>2. rows # <<>>
      BY <1>4
    <3>3. /\ saved.epoch \in Nat /\ saved.offset \in Nat
          /\ rows[i].epoch \in Nat /\ rows[i].offset \in Nat
      BY <3>2, RowsTyped, SavedTyped
    <3>4. Before(saved, saved')
      BY <1>1, <1>3, <3>2 DEF Before
    <3>5. ~Before(saved', rows[i])
      <4>1. saved'.epoch \in Nat /\ saved'.offset \in Nat
        BY <1>1, <1>2
      <4> QED
        BY <3>1, <3>3, <3>4, <4>1 DEF Before
    <3> QED
      BY <3>1, <3>5
  <2>2. ~Before(saved', rows'[n])
    BY <1>1, <1>2 DEF Before
  <2>3. rows'[n].line # None => rows'[n].line # <<>> /\ n > 1
    BY <1>1, <1>4, <1>5
  <2>4. rows'[n].offset <= Len(content[rows'[n].file])
    BY <1>1, <1>2
  <2>5. \A i \in 1..n :
           /\ ~Before(saved', rows'[i])
           /\ rows'[i].line # None => rows'[i].line # <<>> /\ i > 1
           /\ Steady(K) => rows'[i].offset <= Len(content'[rows'[i].file])
    BY <1>1, <1>4, <2>1, <2>2, <2>3, <2>4
  <2> QED
    BY <1>4, <2>5 DEF RowsInOrder, Steady, Before
<1>9. File(K)!GapsBetweenGenerations'
  <2>1. ASSUME NEW i \in 1..n, i = 1 \/ ~File(K)!SameGeneration(rows'[i - 1], rows'[i])
        PROVE  rows'[i].line = None
    <3>1. CASE i = n
      <4>1. SUFFICES ASSUME job.line # None PROVE FALSE
        BY <1>1, <3>1
      <4>2. n - 1 = Len(rows) /\ Len(rows) \in 1..Len(rows) /\ rows'[Len(rows)] = rows[Len(rows)] /\ i # 1
        BY <1>1, <1>4, <1>5, <3>1, <4>1
      <4>3. File(K)!SameGeneration(rows'[i - 1], rows'[i])
        BY <1>1, <1>5, <3>1, <4>1, <4>2 DEF File!SameGeneration
      <4> QED
        BY <2>1, <4>2, <4>3
    <3>2. CASE i \in 1..Len(rows)
      <4>1. i = 1 \/ i - 1 \in 1..Len(rows)
        BY <1>4, <3>2
      <4>2. i = 1 \/ ~File(K)!SameGeneration(rows[i - 1], rows[i])
        BY <1>1, <2>1, <3>2, <4>1
      <4> QED
        BY <1>1, <1>4, <3>2, <4>2 DEF LinesInv, StoredInv, File!GapsBetweenGenerations
    <3> QED
      BY <1>4, <3>1, <3>2
  <2> QED
    BY <1>4, <2>1 DEF File!GapsBetweenGenerations, File!SameGeneration
<1>10. File(K)!LinesInOrder'
  <2>1. ASSUME NEW i \in 1..n, NEW j \in 1..n, i < j, rows'[i].line # None, rows'[j].line # None
        PROVE  rows'[i].line[Len(rows'[i].line)] < rows'[j].line[1]
    <3>0. i \in 1..Len(rows) /\ rows'[i] = rows[i]
      BY <1>1, <1>4, <2>1
    <3>1. CASE j = n
      <4>1. rows[i].line \in File(K)!Line /\ rows[i].line # <<>> /\ rows[i].line # None
        BY <1>4, <2>1, <3>0, RowsTyped DEF LinesInv, StoredInv, RowsInOrder
      <4>2. rows[i].line[Len(rows[i].line)] \in Told(rows)
        <5>1. Len(rows[i].line) \in 1..Len(rows[i].line)
          BY <4>1, BytesTyped
        <5>2. rows[i].line[Len(rows[i].line)] \in BytesOf(rows[i].line)
          BY <4>1, <5>1, BytesTyped
        <5> QED
          BY <3>0, <4>1, <5>2, ToldTyped
      <4>3. job.line[1] \in BytesOf(job.line) /\ rows'[j].line = job.line /\ job.line # None
        <5>1. rows'[j].line = job.line /\ job.line # None /\ job.line # <<>>
          BY <1>1, <1>5, <2>1, <3>1
        <5>2. 1 \in 1..Len(job.line)
          BY <1>2, <5>1, BytesTyped
        <5> QED
          BY <1>2, <5>1, <5>2, BytesTyped
      <4> QED
        BY <1>3, <3>0, <4>2, <4>3
    <3>2. CASE j \in 1..Len(rows)
      BY <1>1, <1>4, <2>1, <3>0, <3>2 DEF LinesInv, StoredInv, File!LinesInOrder
    <3> QED
      BY <1>4, <3>1, <3>2
  <2> QED
    BY <1>4, <2>1 DEF File!LinesInOrder
<1>11. Steady(K) => File(K)!LinesTileTheFile'
  <2>1. ASSUME Steady(K), NEW i \in 1..n, rows'[i].line # None
        PROVE  SubSeq(content[rows'[i].file], rows'[i - 1].offset + 1, rows'[i].offset)
                 = Append(rows'[i].line, 0)
    <3>1. CASE i = n
      <4>1. job.line # None /\ n - 1 = Len(rows) /\ rows'[Len(rows)] = rows[Len(rows)]
        BY <1>1, <1>5, <2>1, <3>1
      <4>2. SubSeq(content[fd], position.offset + 1, job.next.offset) = Append(job.line, 0)
        BY <1>1, <2>1, <4>1 DEF LinesInv, JobGoesOn
      <4> QED
        BY <1>1, <1>5, <3>1, <4>1, <4>2
    <3>2. CASE i \in 1..Len(rows)
      <4>1. i - 1 \in 1..Len(rows)
        BY <1>1, <1>4, <2>1, <3>2 DEF LinesInv, StoredInv, RowsInOrder
      <4>2. rows'[i] = rows[i] /\ rows'[i - 1] = rows[i - 1]
        BY <1>1, <3>2, <4>1
      <4> QED
        BY <1>4, <2>1, <3>2, <4>2 DEF LinesInv, StoredInv, File!LinesTileTheFile
    <3> QED
      BY <1>4, <3>1, <3>2
  <2> QED
    BY <1>1, <1>4, <2>1 DEF File!LinesTileTheFile
<1>12. OneFile(K) /\ K.replay => File(K)!NoFragments'
  <2>1. ASSUME OneFile(K), K.replay, NEW i \in 1..n, rows'[i].line # None
        PROVE  \/ rows'[i - 1].offset = 0
               \/ content[rows'[i].file][rows'[i - 1].offset] = 0
    <3>1. CASE i = n
      <4>1. job.line # None /\ n - 1 = Len(rows) /\ rows'[Len(rows)] = rows[Len(rows)]
        BY <1>1, <1>5, <2>1, <3>1
      <4>2. AtLine(content, position) /\ ~position.skipping
        BY <1>1, <1>5, <2>1, <4>1 DEF LinesInv, LinesBegin
      <4>3. fd = 1
        BY <1>2, <2>1, OneSaved
      <4> QED
        BY <1>1, <1>5, <3>1, <4>1, <4>2, <4>3 DEF AtLine
    <3>2. CASE i \in 1..Len(rows)
      <4>1. i - 1 \in 1..Len(rows)
        BY <1>1, <1>4, <2>1, <3>2 DEF LinesInv, StoredInv, RowsInOrder
      <4>2. rows'[i] = rows[i] /\ rows'[i - 1] = rows[i - 1]
        BY <1>1, <3>2, <4>1
      <4> QED
        BY <1>4, <2>1, <3>2, <4>2 DEF LinesInv, StoredInv, File!NoFragments
    <3> QED
      BY <1>4, <3>1, <3>2
  <2> QED
    BY <1>1, <1>4, <2>1 DEF File!NoFragments
<1> QED
  BY <1>6, <1>7, <1>8, <1>9, <1>10, <1>11, <1>12 DEF StoredInv, Steady, OneFile

LEMMA CommitLines ==
  ASSUME NEW K, File(K)!FileConstants
  PROVE  Inv(K) /\ LinesInv(K) /\ Covered(K) /\ File(K)!Commit => LinesInv(K)'
<1> SUFFICES ASSUME Inv(K), LinesInv(K), Covered(K), File(K)!Commit PROVE LinesInv(K)'
  OBVIOUS
<1>0. Inv(K)'
  BY CommitKeeps
<1>1. /\ File(K)!Publish /\ UNCHANGED File(K)!files /\ UNCHANGED <<fd, buffer>> /\ stage = "commit"
      /\ position' = File(K)!Marked /\ stage' = "check" /\ saved' = File(K)!Marked /\ fd # 0
  BY DEF File!Commit, File!Publish, Inv, File!FileTypeOK, File!SourceTypeOK
<1>2. StoredInv(K)'
  BY <1>0, <1>1, PublishStored
<1>3. /\ UNCHANGED <<content, inode, path>> /\ SavedFile(rows') = fd /\ rows' # <<>>
      /\ saved'.offset = job.next.offset /\ saved'.skipping = job.next.skipping
      /\ Undamaged(K, content, fd, saved')
  BY <1>0, <1>1, NewRow
<1>4. OpenInOrder'
  <2>1. fd >= fd
    BY Typed
  <2> QED
    BY <1>1, <1>3, <2>1 DEF OpenInOrder, SavedFile
<1>5. BufferIsRead(K)' /\ BufferIsNew' /\ JobGoesOn(K)' /\ JobIsNew'
  <2>1. buffer' = <<>> /\ Len(buffer') <= Window + 1
    BY <1>1 DEF File!FileConstants, LinesInv, BufferIsRead
  <2> QED
    BY <1>1, <2>1 DEF BufferIsRead, BufferIsNew, JobGoesOn, JobIsNew
<1>6. OneFile(K)' = OneFile(K) /\ position' = saved'
  BY <1>1 DEF OneFile, Steady
<1>7. OneFile(K) => fd = 1 /\ Len(content) = 1 /\ path = 1
  BY <1>1, OneSaved
<1>8. Repeating(K)'
  BY <1>1, <1>3, <1>6, <1>7 DEF Repeating
<1>9. LinesBegin(K)'
  <2>1. OneFile(K) /\ K.replay => AtLine(content, job.next)
    BY <1>1 DEF LinesInv, LinesBegin
  <2>2. OneFile(K) /\ K.replay => AtLine(content, saved')
    BY <1>3, <2>1 DEF AtLine
  <2> QED
    BY <1>1, <1>3, <1>6, <2>2 DEF LinesBegin
<1>10. Reported(K) => InStep'
  BY <1>6 DEF InStep
<1> QED
  BY <1>0, <1>2, <1>4, <1>5, <1>8, <1>9, <1>10 DEF LinesInv, Reported

LEMMA UnreportedLines ==
  ASSUME NEW K, File(K)!FileConstants
  PROVE  Inv(K) /\ LinesInv(K) /\ Covered(K) /\ File(K)!CommitUnreported => LinesInv(K)'
<1> SUFFICES ASSUME Inv(K), LinesInv(K), Covered(K), File(K)!CommitUnreported PROVE LinesInv(K)'
  OBVIOUS
<1>0. Inv(K)'
  BY FailureKeeps
<1>1. OneFile(K) /\ ~Reported(K)
  BY DEF File!CommitUnreported, File!Trouble, Reported, Covered
<1>2. /\ File(K)!Publish /\ UNCHANGED File(K)!files /\ UNCHANGED <<position, buffer>> /\ stage = "commit"
      /\ fd' = (IF position = None THEN 0 ELSE job.old)
      /\ stage' \in {"closed", "check"} /\ saved' = File(K)!Marked /\ fd # 0
  BY DEF File!CommitUnreported, File!Abandon, File!Publish, Inv, File!FileTypeOK, File!SourceTypeOK
<1>3. StoredInv(K)'
  BY <1>0, <1>2, PublishStored
<1>4. /\ UNCHANGED <<content, inode, path>> /\ SavedFile(rows') = fd /\ rows' # <<>>
      /\ saved'.ino = job.next.ino /\ saved'.epoch = job.next.epoch
      /\ saved'.offset = job.next.offset /\ saved'.skipping = job.next.skipping
      /\ Undamaged(K, content, fd, saved')
  BY <1>0, <1>2, NewRow
<1>5. fd = 1 /\ Len(content) = 1 /\ path = 1
  BY <1>1, <1>2, OneSaved
<1>6. OpenInOrder'
  <2>1. fd' # 0 => fd' = 1
    <3>1. job.old \in 0..1
      BY <1>2, <1>5, CommitTyped
    <3> QED
      BY <1>2, <3>1
  <2>2. SavedFile(rows)' = 1 /\ 1 >= 1
    BY <1>4, <1>5
  <2> QED
    BY <1>2, <1>4, <1>5, <2>1, <2>2 DEF OpenInOrder
<1>7. BufferIsRead(K)' /\ BufferIsNew' /\ JobGoesOn(K)' /\ JobIsNew'
  <2>1. buffer' = <<>> /\ Len(buffer') <= Window + 1
    BY <1>2 DEF File!FileConstants, LinesInv, BufferIsRead
  <2> QED
    BY <1>2, <2>1 DEF BufferIsRead, BufferIsNew, JobGoesOn, JobIsNew
<1>8. Repeating(K)'
  <2>1. position # None => Undamaged(K, content, 1, position) /\ GoesTo(content, position, job.next)
    BY <1>1, <1>2 DEF LinesInv, Repeating
  <2>2. position # None => GoesTo(content, position, saved')
    BY <1>4, <2>1 DEF GoesTo
  <2> QED
    BY <1>2, <1>4, <1>5, <2>1, <2>2 DEF Repeating
<1>9. LinesBegin(K)'
  <2>1. OneFile(K) /\ K.replay => /\ AtLine(content, job.next)
                                  /\ position # None => AtLine(content, position)
    BY <1>2 DEF LinesInv, LinesBegin
  <2>2. OneFile(K) /\ K.replay => AtLine(content, saved')
    BY <1>4, <2>1 DEF AtLine
  <2>3. OneFile(K)' = OneFile(K)
    BY DEF OneFile, Steady
  <2> QED
    BY <1>2, <1>4, <2>1, <2>2, <2>3 DEF LinesBegin
<1> QED
  BY <1>0, <1>1, <1>3, <1>6, <1>7, <1>8, <1>9 DEF LinesInv, Reported

-----------------------------------------------------------------------------
LEMMA InitLines ==
  ASSUME NEW K, File(K)!FileConstants
  PROVE  File(K)!FileInit => LinesInv(K)
<1> SUFFICES ASSUME File(K)!FileInit PROVE LinesInv(K)
  OBVIOUS
<1>1. /\ content = <<<<>>>> /\ path = 1 /\ writer = 1 /\ written = 0 /\ stage = "closed" /\ fd = 0
      /\ position = None /\ buffer = <<>> /\ rows = <<>> /\ saved = None
  BY DEF File!FileInit
<1>2. Len(content) = 1 /\ content[1] = <<>> /\ Len(content[1]) = 0
  BY <1>1
<1>3. Told(rows) = {}
  BY <1>1, InitInv, ToldTyped
<1>4. BytesInOrder
  <2>1. \A f \in 1..1 : content[f] = <<>>
    BY <1>2
  <2> QED
    BY <1>1, <1>2, <2>1 DEF BytesInOrder
<1>5. StoredInv(K)
  BY <1>1, <1>3, <1>4
     DEF StoredInv, RowsComeBefore, RowsInOrder, File!GapsBetweenGenerations, File!LinesInOrder,
         File!LinesTileTheFile, File!NoFragments
<1>6. OpenInOrder /\ JobGoesOn(K) /\ JobIsNew /\ BufferIsNew /\ InStep
  BY <1>1 DEF OpenInOrder, JobGoesOn, JobIsNew, BufferIsNew, InStep
<1>7. BufferIsRead(K)
  <2>1. Len(buffer) <= Window + 1
    BY <1>1 DEF File!FileConstants
  <2> QED
    BY <1>1, <2>1 DEF BufferIsRead
<1>8. Repeating(K) /\ LinesBegin(K)
  BY <1>1, <1>2 DEF Repeating, LinesBegin
<1> QED
  BY <1>5, <1>6, <1>7, <1>8, InitInv DEF LinesInv

LEMMA LinesSame ==
  ASSUME NEW K, File(K)!FileConstants
  PROVE  Inv(K) /\ LinesInv(K) /\ UNCHANGED File(K)!fileVars => LinesInv(K)'
<1> SUFFICES ASSUME Inv(K), LinesInv(K), UNCHANGED File(K)!fileVars PROVE LinesInv(K)'
  OBVIOUS
<1>1. /\ UNCHANGED <<File(K)!files, File(K)!store>> /\ UNCHANGED <<stage, fd, position, buffer, job>>
  BY DEF File!fileVars, File!source
<1>2. Still /\ Inv(K)'
  BY <1>1, StillIs, StutterKeeps
<1>3. StoredInv(K)'
  BY <1>2, StoredSame DEF LinesInv
<1>4. OpenInOrder' /\ BufferIsRead(K)' /\ BufferIsNew' /\ JobGoesOn(K)' /\ JobIsNew'
  BY <1>1, <1>2, ZenonT(40)
     DEF Still, LinesInv, OpenInOrder, BufferIsRead, BufferIsNew, JobGoesOn, JobIsNew, InStep,
         SavedFile, Steady, Before
<1>5. Repeating(K)' /\ LinesBegin(K)' /\ (Reported(K) => InStep')
  BY <1>1, <1>2 DEF Still, LinesInv, Repeating, LinesBegin, InStep, OneFile, Steady
<1> QED
  BY <1>2, <1>3, <1>4, <1>5 DEF LinesInv, Reported

LEMMA LinesGoOn ==
  ASSUME NEW K, File(K)!FileConstants
  PROVE  Inv(K) /\ LinesInv(K) /\ Covered(K) /\ [File(K)!FileNext]_(File(K)!fileVars) => LinesInv(K)'
<1> SUFFICES ASSUME Inv(K), LinesInv(K), Covered(K), [File(K)!FileNext]_(File(K)!fileVars) PROVE LinesInv(K)'
  OBVIOUS
<1>1. CASE UNCHANGED File(K)!fileVars
  BY <1>1, LinesSame
<1>2. CASE File(K)!Surroundings
  BY <1>2, SurroundingsKeepLines, RestartLines DEF File!Surroundings
<1>3. CASE File(K)!Polling
  BY <1>3, OpenLines, CheckLines, ReadLines, WaitLines, ConsumeLines, SwitchLines DEF File!Polling
<1>4. CASE File(K)!Commit \/ File(K)!CommitFails \/ File(K)!CommitUnreported
  BY <1>4, CommitLines, FailLines, UnreportedLines
<1> QED
  BY <1>1, <1>2, <1>3, <1>4 DEF File!FileNext

(* What the invariant says of the lines that are recorded.                 *)
LEMMA LinesSay ==
  ASSUME NEW K, File(K)!FileConstants,
         LinesInv(K)
  PROVE  /\ File(K)!GapsBetweenGenerations /\ File(K)!LinesInOrder
         /\ Steady(K) => File(K)!LinesTileTheFile
         /\ OneFile(K) /\ K.replay => File(K)!NoFragments
         /\ Reported(K) => File(K)!IdentitiesFresh
<1>1. /\ File(K)!GapsBetweenGenerations /\ File(K)!LinesInOrder
      /\ Steady(K) => File(K)!LinesTileTheFile
      /\ OneFile(K) /\ K.replay => File(K)!NoFragments
  BY DEF LinesInv, StoredInv
<1>2. Reported(K) => File(K)!IdentitiesFresh
  <2>1. SUFFICES ASSUME Reported(K), stage = "commit", File(K)!Recorded(job.next) PROVE FALSE
    BY DEF File!IdentitiesFresh
  <2>2. PICK i \in DOMAIN rows : /\ rows[i].ino = job.next.ino
                                 /\ rows[i].epoch = job.next.epoch
                                 /\ rows[i].offset = job.next.offset
    BY <2>1 DEF File!Recorded
  <2>3. Inv(K) /\ InStep /\ JobIsNew /\ RowsInOrder(K)
    BY <2>1 DEF LinesInv, StoredInv
  <2>4. i \in 1..Len(rows) /\ rows # <<>>
    BY <2>2, <2>3, RowsTyped
  <2>5. Before(saved, job.next) /\ ~Before(saved, rows[i])
    BY <2>1, <2>2, <2>3, <2>4 DEF JobIsNew, RowsInOrder
  <2> QED
    BY <2>2, <2>5 DEF Before
<1> QED
  BY <1>1, <1>2

-----------------------------------------------------------------------------
(* The file source in its settings. *)

LEMMA SettingsAreFiles ==
  /\ File(Rotating)!FileConstants /\ File(Bytes)!FileConstants /\ File(Cut)!FileConstants
BY SourcesAssumption

LEMMA FileOfSetting ==
  ASSUME [SourcesNext]_sourcesVars
  PROVE  /\ setting' = setting
         /\ setting = "bytes" => [File(Bytes)!FileNext]_(File(Bytes)!fileVars)
         /\ setting = "cut" => [File(Cut)!FileNext]_(File(Cut)!fileVars)
         /\ setting \notin {"bytes", "cut"} => [File(Rotating)!FileNext]_(File(Rotating)!fileVars)
<1>1. setting' = setting
  BY DEF SourcesNext, sourcesVars, Configured, RotationStep, BytesStep, CutStep, ReplayStep,
         AttachStep, HostStep, LateStep
<1>2. CASE UNCHANGED fileState
  <2>1. /\ UNCHANGED File(Bytes)!fileVars /\ UNCHANGED File(Cut)!fileVars
        /\ UNCHANGED File(Rotating)!fileVars
    BY <1>2 DEF fileState, File!fileVars, File!files, File!source, File!store
  <2> QED
    BY <1>1, <2>1
<1>3. CASE RotationStep
  BY <1>1, <1>3 DEF RotationStep, Configured
<1>4. CASE BytesStep
  BY <1>1, <1>4 DEF BytesStep, Configured
<1>5. CASE CutStep
  BY <1>1, <1>5 DEF CutStep, Configured
<1> QED
  BY <1>1, <1>2, <1>3, <1>4, <1>5
     DEF SourcesNext, sourcesVars, ReplayStep, AttachStep, HostStep, LateStep

(* The invariant of the file source, in every setting. *)
FileSafe ==
    /\ setting = "bytes" => Inv(Bytes)
    /\ setting = "cut" => Inv(Cut)
    /\ setting \notin {"bytes", "cut"} => Inv(Rotating)

FileLines ==
    /\ setting = "bytes" => LinesInv(Bytes)
    /\ setting = "cut" => LinesInv(Cut)
    /\ setting \notin {"bytes", "cut"} => LinesInv(Rotating)

LEMMA FileStarts == SourcesInit => FileSafe /\ FileLines
<1> SUFFICES ASSUME SourcesInit PROVE FileSafe /\ FileLines
  OBVIOUS
<1>1. File(Rotating)!FileInit /\ File(Bytes)!FileInit /\ File(Cut)!FileInit
  BY DEF SourcesInit, File!FileInit
<1> QED
  BY <1>1, SettingsAreFiles, InitInv, InitLines DEF FileSafe, FileLines

LEMMA FileGoesOn == FileSafe /\ [SourcesNext]_sourcesVars => FileSafe'
<1> SUFFICES ASSUME FileSafe, [SourcesNext]_sourcesVars PROVE FileSafe'
  OBVIOUS
<1>1. setting' = setting
  BY FileOfSetting
<1>2. CASE setting = "bytes"
  <2>1. Inv(Bytes) /\ [File(Bytes)!FileNext]_(File(Bytes)!fileVars)
    BY <1>2, FileOfSetting DEF FileSafe
  <2>2. Inv(Bytes)'
    BY <2>1, SettingsAreFiles, StepKeeps
  <2> QED
    BY <1>1, <1>2, <2>2 DEF FileSafe
<1>3. CASE setting = "cut"
  <2>1. Inv(Cut) /\ [File(Cut)!FileNext]_(File(Cut)!fileVars)
    BY <1>3, FileOfSetting DEF FileSafe
  <2>2. Inv(Cut)'
    BY <2>1, SettingsAreFiles, StepKeeps
  <2> QED
    BY <1>1, <1>3, <2>2 DEF FileSafe
<1>4. CASE setting \notin {"bytes", "cut"}
  <2>1. Inv(Rotating) /\ [File(Rotating)!FileNext]_(File(Rotating)!fileVars)
    BY <1>4, FileOfSetting DEF FileSafe
  <2>2. Inv(Rotating)'
    BY <2>1, SettingsAreFiles, StepKeeps
  <2> QED
    BY <1>1, <1>4, <2>2 DEF FileSafe
<1> QED
  BY <1>2, <1>3, <1>4

LEMMA FileLinesGoOn ==
  ASSUME "unreported" \notin Troubles
  PROVE  FileSafe /\ FileLines /\ [SourcesNext]_sourcesVars => FileLines'
<1> SUFFICES ASSUME FileSafe, FileLines, [SourcesNext]_sourcesVars PROVE FileLines'
  OBVIOUS
<1>1. setting' = setting
  BY FileOfSetting
<1>2. CASE setting = "bytes"
  <2>1. Inv(Bytes) /\ LinesInv(Bytes) /\ [File(Bytes)!FileNext]_(File(Bytes)!fileVars)
    BY <1>2, FileOfSetting DEF FileSafe, FileLines
  <2>2. Covered(Bytes)
    BY DEF Covered, OneFile, Steady, Bytes
  <2>3. LinesInv(Bytes)'
    BY <2>1, <2>2, SettingsAreFiles, LinesGoOn
  <2> QED
    BY <1>1, <1>2, <2>3 DEF FileLines
<1>3. CASE setting = "cut"
  <2>1. Inv(Cut) /\ LinesInv(Cut) /\ [File(Cut)!FileNext]_(File(Cut)!fileVars)
    BY <1>3, FileOfSetting DEF FileSafe, FileLines
  <2>2. Covered(Cut)
    BY DEF Covered, Reported, Cut
  <2>3. LinesInv(Cut)'
    BY <2>1, <2>2, SettingsAreFiles, LinesGoOn
  <2> QED
    BY <1>1, <1>3, <2>3 DEF FileLines
<1>4. CASE setting \notin {"bytes", "cut"}
  <2>1. Inv(Rotating) /\ LinesInv(Rotating) /\ [File(Rotating)!FileNext]_(File(Rotating)!fileVars)
    BY <1>4, FileOfSetting DEF FileSafe, FileLines
  <2>2. Covered(Rotating)
    BY DEF Covered, Reported, Rotating
  <2>3. LinesInv(Rotating)'
    BY <2>1, <2>2, SettingsAreFiles, LinesGoOn
  <2> QED
    BY <1>1, <1>4, <2>3 DEF FileLines
<1> QED
  BY <1>2, <1>3, <1>4

(* FilePositions, of the sources in their settings: whatever is written,   *)
(* rotated, truncated and restarted, and whichever commit fails or is not  *)
(* reported, the open file is that of the position, and custody's position *)
(* is that of its last row and never behind the one in memory.             *)
THEOREM FilePositionsAgree == SourcesSpec => []FilePositions
<1>1. FileSafe => FilePositions
  BY DEF FileSafe, Inv, FilePositions, File!FilePositions, File!DescriptorMatches,
         File!PositionRecorded
<1> QED
  BY <1>1, FileStarts, FileGoesOn, PTL DEF SourcesSpec

(* LinesAreWhole: where files are not truncated, a line that is recorded   *)
(* is a line of its file at the offsets recorded; and where a single file  *)
(* is replayed it also starts where a line starts.  For any lengths, reads *)
(* and limits, any number of files, and restarts and failures anywhere.    *)
THEOREM LinesAreRecordedWhole ==
  ASSUME "unreported" \notin Troubles, "truncate" \notin Troubles
  PROVE  SourcesSpec => []LinesAreWhole
<1>1. FileLines => LinesAreWhole
  <2> SUFFICES ASSUME FileLines PROVE LinesAreWhole
    OBVIOUS
  <2>1. ASSUME setting = "bytes"
        PROVE  File(Rotating)!LinesTileTheFile /\ File(Bytes)!NoFragments
    <3>1. File(Bytes)!LinesTileTheFile /\ File(Bytes)!NoFragments
      <4>1. Steady(Bytes) /\ OneFile(Bytes) /\ Bytes.replay
        BY DEF Steady, OneFile, Bytes
      <4> QED
        BY <2>1, <4>1, SettingsAreFiles, LinesSay DEF FileLines
    <3> QED
      BY <3>1 DEF File!LinesTileTheFile
  <2>2. ASSUME setting \notin {"bytes", "cut"} PROVE File(Rotating)!LinesTileTheFile
    <3>1. Steady(Rotating)
      BY DEF Steady, Rotating
    <3> QED
      BY <2>2, <3>1, SettingsAreFiles, LinesSay DEF FileLines
  <2> QED
    BY <2>1, <2>2 DEF LinesAreWhole
<1> QED
  BY <1>1, FileStarts, FileGoesOn, FileLinesGoOn, PTL DEF SourcesSpec

(* DiscontinuitiesTold: however files are rotated, truncated and restarted *)
(* upon, no line is recorded twice or out of order, each generation begins *)
(* with a gap, and no identity is used for another observation.            *)
THEOREM DiscontinuitiesAreTold ==
  ASSUME "unreported" \notin Troubles
  PROVE  SourcesSpec => []DiscontinuitiesTold
<1>1. FileLines => DiscontinuitiesTold
  <2> SUFFICES ASSUME FileLines PROVE DiscontinuitiesTold
    OBVIOUS
  <2>1. CASE setting = "bytes"
    <3>1. File(Bytes)!GapsBetweenGenerations /\ File(Bytes)!LinesInOrder
      BY <2>1, SettingsAreFiles, LinesSay DEF FileLines
    <3> QED
      BY <2>1, <3>1 DEF DiscontinuitiesTold, File!GapsBetweenGenerations, File!LinesInOrder,
                       File!SameGeneration
  <2>2. CASE setting = "cut"
    <3>1. Reported(Cut)
      BY DEF Reported, Cut
    <3>2. File(Cut)!GapsBetweenGenerations /\ File(Cut)!LinesInOrder /\ File(Cut)!IdentitiesFresh
      BY <2>2, <3>1, SettingsAreFiles, LinesSay DEF FileLines
    <3> QED
      BY <3>2 DEF DiscontinuitiesTold, File!GapsBetweenGenerations, File!LinesInOrder,
                  File!IdentitiesFresh, File!Recorded, File!SameGeneration
  <2>3. CASE setting \notin {"bytes", "cut"}
    <3>1. Reported(Rotating)
      BY DEF Reported, Rotating
    <3> QED
      BY <2>3, <3>1, SettingsAreFiles, LinesSay DEF FileLines, DiscontinuitiesTold
  <2> QED
    BY <2>1, <2>2, <2>3
<1> QED
  BY <1>1, FileStarts, FileGoesOn, FileLinesGoOn, PTL DEF SourcesSpec

-----------------------------------------------------------------------------
(* The journal. *)

JournalPositions == [by : {"none", "since", "cursor"}, entry : Nat]

JournalTypeOK(K) ==
    /\ journal \in Seq(K.kinds) /\ oldest \in Nat \ {0}
    /\ jStage \in {"idle", "command", "process"}
    /\ known \in JournalPositions /\ attach \in Nat
    /\ page \in Seq(Nat) /\ first \in BOOLEAN
    /\ jRows \in Seq([entry : Nat, as : {"gap", "log", "attached"}])
    /\ jSaved \in JournalPositions

Consecutive == \A i \in 2 .. Len(page) : page[i] = page[i - 1] + 1

(* A poll goes on from the saved position: where it has recorded something *)
(* or passed over the saved entry the next one follows, and before that it *)
(* is not an entry of before the position.                                 *)
PageFollows(K) ==
    /\ jStage = "command" \/ (jStage = "process" /\ first) => known = jSaved
    /\ jStage = "process" /\ page = <<>> /\ first => jSaved = Journal(K)!Nowhere /\ ~K.replay
    /\ jStage = "process" /\ page # <<>> =>
         IF ~first THEN jSaved # Journal(K)!Nowhere /\ page[1] = jSaved.entry + 1
         ELSE /\ jSaved.by = "cursor" => page[1] >= jSaved.entry
              /\ jSaved.by = "since" => page[1] > jSaved.entry

SavedIsKnown(K) ==
    /\ (jSaved.by = "none") = (jRows = <<>>)
    /\ (jSaved.by = "none") = (jSaved = Journal(K)!Nowhere)
    /\ K.replay => jSaved.by # "since"

JournalInv(K) ==
    /\ JournalTypeOK(K) /\ Consecutive /\ PageFollows(K) /\ SavedIsKnown(K)
    /\ Journal(K)!EntriesRecorded

-----------------------------------------------------------------------------
LEMMA JournalInitInv ==
  ASSUME NEW K
  PROVE  Journal(K)!JournalInit => JournalInv(K)
<1> SUFFICES ASSUME Journal(K)!JournalInit PROVE JournalInv(K)
  OBVIOUS
<1>1. JournalTypeOK(K)
  <2>1. /\ journal \in Seq(K.kinds) /\ page \in Seq(Nat)
        /\ jRows \in Seq([entry : Nat, as : {"gap", "log", "attached"}])
    BY DEF Journal!JournalInit, Journal!Nowhere
  <2>2. Journal(K)!Nowhere \in JournalPositions
    BY DEF Journal!Nowhere, JournalPositions
  <2>3. oldest \in Nat \ {0} /\ attach \in Nat
    BY DEF Journal!JournalInit, Journal!Nowhere
  <2>4. first \in BOOLEAN
    BY DEF Journal!JournalInit, Journal!Nowhere
  <2> QED
    BY <2>1, <2>2, <2>3, <2>4 DEF Journal!JournalInit, JournalTypeOK
<1>2. Consecutive /\ PageFollows(K) /\ SavedIsKnown(K)
  BY DEF Journal!JournalInit, Consecutive, PageFollows, SavedIsKnown, Journal!Nowhere
<1>3. Journal(K)!EntriesRecorded
  BY DEF Journal!JournalInit, Journal!EntriesRecorded, Journal!EntriesInOrder, Journal!PositionIsLastRow, Journal!LossesRecorded
<1> QED
  BY <1>1, <1>2, <1>3 DEF JournalInv

(* The larger and the smaller one of two. *)
LEMMA JournalMaxIs ==
  ASSUME NEW K
  PROVE  \A m, n \in Nat : Journal(K)!Max({m, n}) = IF m >= n THEN m ELSE n
<1> SUFFICES ASSUME NEW m \in Nat, NEW n \in Nat PROVE Journal(K)!Max({m, n}) = IF m >= n THEN m ELSE n
  OBVIOUS
<1> DEFINE z == IF m >= n THEN m ELSE n
<1>1. z \in {m, n} /\ \A y \in {m, n} : z >= y
  OBVIOUS
<1>2. \A w \in {m, n} : (\A y \in {m, n} : w >= y) => w = z
  OBVIOUS
<1> QED
  BY <1>1, <1>2 DEF Journal!Max

LEMMA JournalMinIs ==
  ASSUME NEW K
  PROVE  \A m, n \in Int : Journal(K)!Min({m, n}) = IF m <= n THEN m ELSE n
<1> SUFFICES ASSUME NEW m \in Int, NEW n \in Int PROVE Journal(K)!Min({m, n}) = IF m <= n THEN m ELSE n
  OBVIOUS
<1> DEFINE z == IF m <= n THEN m ELSE n
<1>1. z \in {m, n} /\ \A y \in {m, n} : z <= y
  OBVIOUS
<1>2. \A w \in {m, n} : (\A y \in {m, n} : w <= y) => w = z
  OBVIOUS
<1> QED
  BY <1>1, <1>2 DEF Journal!Min

(* What journalctl is asked for: entries one after the other, from the     *)
(* given one or a later one.                                               *)
LEMMA JournalFromIs ==
  ASSUME NEW K,
         JournalTypeOK(K), NEW entry \in Nat, NEW count \in Nat
  PROVE  /\ Journal(K)!From(entry, count) \in Seq(Nat)
         /\ \A i \in 2 .. Len(Journal(K)!From(entry, count)) :
               Journal(K)!From(entry, count)[i] = Journal(K)!From(entry, count)[i - 1] + 1
         /\ Journal(K)!From(entry, count) # <<>> => Journal(K)!From(entry, count)[1] >= entry
<1> DEFINE start == Journal(K)!Max({entry, oldest})
           end == Journal(K)!Min({start + count - 1, Len(journal)})
           size == end + 1 - start
<1>1. start \in Nat /\ start >= entry
  <2>1. oldest \in Nat
    BY DEF JournalTypeOK
  <2>2. Journal(K)!Max({entry, oldest}) = IF entry >= oldest THEN entry ELSE oldest
    BY <2>1, JournalMaxIs
  <2> QED
    BY <2>1, <2>2
<1>3. Journal(K)!From(entry, count) = [i \in 1 .. size |-> start + i - 1]
  BY DEF Journal!From
<1> HIDE DEF start
<1>2. end \in Int
  <2>1. start + count - 1 \in Int /\ Len(journal) \in Int
    BY <1>1 DEF JournalTypeOK
  <2>2. end = IF start + count - 1 <= Len(journal) THEN start + count - 1 ELSE Len(journal)
    BY <2>1, JournalMinIs
  <2> QED
    BY <2>1, <2>2
<1> HIDE DEF end
<1> DEFINE f == [i \in 1 .. size |-> start + i - 1]
<1>4. CASE size < 1
  <2>1. 1 .. size = {} 
    BY <1>1, <1>2, <1>4
  <2>2. f = <<>>
    BY <2>1
  <2>3. Journal(K)!From(entry, count) = <<>>
    BY <1>3, <2>2
  <2>4. <<>> \in Seq(Nat) /\ 2 .. Len(<<>>) = {}
    OBVIOUS
  <2> QED
    BY <2>3, <2>4
<1>5. CASE size >= 1
  <2>1. size \in Nat /\ \A i \in 1 .. size : start + i - 1 \in Nat
    BY <1>1, <1>2, <1>5
  <2>2. f \in Seq(Nat) /\ Len(f) = size
    BY <2>1
  <2>3. f[1] = start
    BY <1>1, <2>1, <1>5
  <2>4. \A i \in 2 .. size : f[i] = f[i - 1] + 1
    BY <1>1, <2>1
  <2> HIDE DEF f, size
  <2>5. Journal(K)!From(entry, count) = f
    BY <1>3 DEF f, size
  <2> QED
    BY <1>1, <2>2, <2>3, <2>4, <2>5
<1>6. size < 1 \/ size >= 1
  BY <1>1, <1>2
<1> HIDE DEF size
<1> QED
  BY <1>4, <1>5, <1>6

(* What is recorded is of after the saved position, and a gap wherever it  *)
(* is not the next entry of it.                                            *)
LEMMA JournalNextRow ==
  ASSUME NEW K,
         JournalInv(K), Journal(K)!ToRecord
  PROVE  /\ Journal(K)!NextRow \in [entry : Nat, as : {"gap", "log", "attached"}]
         /\ Journal(K)!NextPosition \in JournalPositions /\ Journal(K)!NextPosition.entry = Journal(K)!NextRow.entry
         /\ Journal(K)!NextPosition.by # "none" /\ (K.replay => Journal(K)!NextPosition.by # "since")
         /\ jRows # <<>> => Journal(K)!NextRow.entry > jSaved.entry
         /\ jRows # <<>> /\ Journal(K)!NextRow.entry > jSaved.entry + 1 /\ K.replay => Journal(K)!NextRow.as = "gap"
<1>1. CASE page = <<>>
  <2>1. jStage = "process" /\ first /\ jSaved = Journal(K)!Nowhere /\ jRows = <<>> /\ ~K.replay
    BY <1>1 DEF Journal!ToRecord, JournalInv, PageFollows, SavedIsKnown, Journal!Nowhere
  <2>2. attach \in Nat
    BY DEF JournalInv, JournalTypeOK
  <2> QED
    BY <1>1, <2>1, <2>2 DEF Journal!NextRow, Journal!NextPosition, JournalPositions
<1>2. CASE page # <<>>
  <2>1. /\ Head(page) = page[1] /\ page[1] \in Nat /\ jStage = "process"
        /\ jSaved \in JournalPositions /\ known \in JournalPositions /\ first \in BOOLEAN /\ ~Journal(K)!IsSaved
    BY <1>2 DEF Journal!ToRecord, JournalInv, JournalTypeOK
  <2>2. /\ Journal(K)!NextRow = [entry |-> page[1], as |-> Journal(K)!RecordedAs]
        /\ Journal(K)!NextPosition = [by |-> "cursor", entry |-> page[1]]
        /\ Journal(K)!RecordedAs \in {"gap", "log"}
    BY <1>2, <2>1 DEF Journal!NextRow, Journal!NextPosition, Journal!Entry, Journal!RecordedAs
  <2>3. CASE ~first
    <3>1. page[1] = jSaved.entry + 1
      BY <1>2, <2>1, <2>3 DEF JournalInv, PageFollows
    <3> QED
      BY <2>1, <2>2, <3>1 DEF JournalPositions
  <2>4. CASE first /\ jRows = <<>>
    BY <2>1, <2>2, <2>4 DEF JournalPositions
  <2>5. CASE first /\ jRows # <<>>
    <3>1. known = jSaved /\ jSaved.by \in {"since", "cursor"} /\ (K.replay => jSaved.by = "cursor")
      BY <2>1, <2>5 DEF JournalInv, PageFollows, SavedIsKnown, JournalPositions
    <3>2. jSaved.by = "cursor" => page[1] > jSaved.entry /\ Journal(K)!RecordedAs = "gap"
      <4>1. jSaved.by = "cursor" => page[1] >= jSaved.entry /\ page[1] # jSaved.entry
        BY <1>2, <2>1, <2>5, <3>1 DEF JournalInv, PageFollows, Journal!IsSaved, Journal!Entry
      <4> QED
        BY <2>1, <2>5, <3>1, <4>1 DEF Journal!RecordedAs, JournalPositions
    <3>3. jSaved.by = "since" => page[1] > jSaved.entry
      BY <1>2, <2>1, <2>5 DEF JournalInv, PageFollows
    <3> QED
      BY <2>1, <2>2, <3>1, <3>2, <3>3 DEF JournalPositions
  <2> QED
    BY <2>1, <2>3, <2>4, <2>5
<1> QED
  BY <1>1, <1>2

(* What custody holds stays in order when the next row is published.       *)
LEMMA JournalInOrder ==
  ASSUME NEW K,
         JournalInv(K), Journal(K)!ToRecord, Journal(K)!Publish(Journal(K)!NextRow, Journal(K)!NextPosition)
  PROVE  /\ jRows' \in Seq([entry : Nat, as : {"gap", "log", "attached"}])
         /\ jSaved' \in JournalPositions /\ SavedIsKnown(K)' /\ Journal(K)!EntriesRecorded'
<1> DEFINE Row == [entry : Nat, as : {"gap", "log", "attached"}]
<1>1. jRows \in Seq(Row) /\ jSaved \in JournalPositions
  BY DEF JournalInv, JournalTypeOK
<1>2. /\ jRows' \in Seq(Row) /\ Len(jRows') = Len(jRows) + 1
      /\ jRows' # <<>> /\ jRows'[Len(jRows) + 1] = Journal(K)!NextRow
      /\ \A i \in 1..Len(jRows) : jRows'[i] = jRows[i]
  <2>1. Journal(K)!NextRow \in Row /\ jRows' = Append(jRows, Journal(K)!NextRow)
    BY JournalNextRow DEF Journal!Publish
  <2> QED
    BY <1>1, <2>1, AppendIs
<1>3. jSaved' = Journal(K)!NextPosition /\ Journal(K)!NextPosition \in JournalPositions
  BY JournalNextRow DEF Journal!Publish
<1>4. \A i \in 1..Len(jRows) : jRows[i].entry \in Nat /\ jRows[i].entry <= jSaved.entry
  <2>1. \A i \in 1..Len(jRows) : jRows[i] \in Row
    BY <1>1, SeqAt
  <2>2. jRows # <<>> => jSaved.entry = jRows[Len(jRows)].entry
    BY DEF JournalInv, Journal!EntriesRecorded, Journal!PositionIsLastRow
  <2>3. \A i, j \in 1..Len(jRows) : i < j => jRows[i].entry < jRows[j].entry
    BY <1>1 DEF JournalInv, Journal!EntriesRecorded, Journal!EntriesInOrder
  <2> QED
    BY <1>1, <2>1, <2>2, <2>3
<1>5. jRows = <<>> \/ Len(jRows) >= 1
  BY <1>1
<1>6. Journal(K)!EntriesInOrder'
  <2>1. \A i, j \in 1..Len(jRows) : i < j => jRows[i].entry < jRows[j].entry
    BY <1>1 DEF JournalInv, Journal!EntriesRecorded, Journal!EntriesInOrder
  <2>2. \A i \in 1..Len(jRows) : jRows[i].entry < Journal(K)!NextRow.entry
    BY <1>1, <1>4, <1>5, JournalNextRow DEF JournalPositions
  <2>3. DOMAIN jRows' = 1..(Len(jRows) + 1) /\ Len(jRows) \in Nat
    BY <1>1, <1>2
  <2>4. ASSUME NEW i \in 1..(Len(jRows) + 1), NEW j \in 1..(Len(jRows) + 1), i < j
        PROVE  jRows'[i].entry < jRows'[j].entry
    <3>1. i \in 1..Len(jRows) /\ (j \in 1..Len(jRows) \/ j = Len(jRows) + 1)
      BY <2>3, <2>4
    <3> QED
      BY <1>2, <2>1, <2>2, <2>4, <3>1
  <2> QED
    BY <2>3, <2>4 DEF Journal!EntriesInOrder
<1>7. Journal(K)!PositionIsLastRow'
  BY <1>2, <1>3, JournalNextRow DEF Journal!PositionIsLastRow
<1>8. K.replay => Journal(K)!LossesRecorded'
  <2> SUFFICES ASSUME K.replay PROVE Journal(K)!LossesRecorded'
    OBVIOUS
  <2>1. \A i \in 2..Len(jRows) : jRows[i].entry > jRows[i - 1].entry + 1 => jRows[i].as = "gap"
    BY DEF JournalInv, Journal!EntriesRecorded, Journal!LossesRecorded
  <2>2. Len(jRows) >= 1 => /\ jRows[Len(jRows)].entry = jSaved.entry
                           /\ Journal(K)!NextRow.entry > jSaved.entry + 1 => Journal(K)!NextRow.as = "gap"
    BY <1>1, JournalNextRow DEF JournalInv, Journal!EntriesRecorded, Journal!PositionIsLastRow
  <2>3. Len(jRows) \in Nat
    BY <1>1
  <2>4. ASSUME NEW i \in 2..Len(jRows'), jRows'[i].entry > jRows'[i - 1].entry + 1
        PROVE  jRows'[i].as = "gap"
    <3>1. CASE i = Len(jRows) + 1
      BY <1>2, <2>2, <2>3, <2>4, <3>1
    <3>2. CASE i # Len(jRows) + 1
      <4>1. i \in 2..Len(jRows) /\ i - 1 \in 1..Len(jRows) /\ i \in 1..Len(jRows)
        BY <1>2, <2>3, <3>2
      <4> QED
        BY <1>2, <2>1, <2>4, <4>1
    <3> QED
      BY <3>1, <3>2
  <2> QED
    BY <2>4 DEF Journal!LossesRecorded
<1>9. SavedIsKnown(K)'
  BY <1>2, <1>3, JournalNextRow DEF SavedIsKnown, Journal!Nowhere, JournalPositions
<1> QED
  BY <1>2, <1>3, <1>6, <1>7, <1>8, <1>9 DEF Journal!EntriesRecorded

-----------------------------------------------------------------------------
(* What may change without a row: the surroundings and the poll.           *)
LEMMA JournalStoreSame ==
  ASSUME NEW K,
         JournalInv(K), UNCHANGED Journal(K)!store
  PROVE  SavedIsKnown(K)' /\ Journal(K)!EntriesRecorded'
  BY DEF JournalInv, SavedIsKnown, Journal!EntriesRecorded, Journal!EntriesInOrder, Journal!LossesRecorded,
         Journal!PositionIsLastRow, Journal!store

LEMMA JournalPollEnded ==
  ASSUME NEW K,
         Journal(K)!EndPoll
  PROVE  /\ jStage' = "idle" /\ known' \in JournalPositions /\ attach' \in Nat
         /\ page' \in Seq(Nat) /\ first' \in BOOLEAN /\ Consecutive' /\ PageFollows(K)'
<1>1. page' \in Seq(Nat) /\ Len(page') = 0
  BY DEF Journal!EndPoll
<1>2. first' \in BOOLEAN
  BY DEF Journal!EndPoll
<1>3. known' \in JournalPositions /\ attach' \in Nat
  BY DEF Journal!EndPoll, Journal!Nowhere, JournalPositions
<1>4. PageFollows(K)'
  BY DEF Journal!EndPoll, PageFollows
<1> QED
  BY <1>1, <1>2, <1>3, <1>4 DEF Consecutive, Journal!EndPoll

LEMMA JournalAroundKeeps ==
  ASSUME NEW K,
         JournalInv(K), UNCHANGED <<Journal(K)!poll, Journal(K)!store>>, journal' \in Seq(K.kinds), oldest' \in Nat \ {0}
  PROVE  JournalInv(K)'
<1>1. JournalTypeOK(K)' /\ Consecutive' /\ PageFollows(K)'
  BY DEF JournalInv, JournalTypeOK, Consecutive, PageFollows, Journal!poll, Journal!store
<1> QED
  BY <1>1, JournalStoreSame DEF JournalInv

(* A poll that ends, whether it has published a row or not. *)
LEMMA JournalEndKeeps ==
  ASSUME NEW K,
         JournalInv(K), Journal(K)!EndPoll, UNCHANGED Journal(K)!surroundings,
         UNCHANGED Journal(K)!store \/ (Journal(K)!ToRecord /\ Journal(K)!Publish(Journal(K)!NextRow, Journal(K)!NextPosition))
  PROVE  JournalInv(K)'
<1>1. /\ jRows' \in Seq([entry : Nat, as : {"gap", "log", "attached"}])
      /\ jSaved' \in JournalPositions /\ SavedIsKnown(K)' /\ Journal(K)!EntriesRecorded'
  BY JournalStoreSame, JournalInOrder DEF JournalInv, JournalTypeOK, Journal!store
<1>2. JournalTypeOK(K)'
  BY <1>1, JournalPollEnded DEF JournalInv, JournalTypeOK, Journal!surroundings
<1> QED
  BY <1>1, <1>2, JournalPollEnded DEF JournalInv

(* One more entry of the page is dealt with. *)
LEMMA JournalTailIs ==
  ASSUME NEW K,
         JournalInv(K), page # <<>>
  PROVE  /\ page[1] \in Nat /\ Head(page) = page[1] /\ Tail(page) \in Seq(Nat)
         /\ \A i \in 2 .. Len(Tail(page)) : Tail(page)[i] = Tail(page)[i - 1] + 1
         /\ Tail(page) # <<>> => Tail(page)[1] = page[1] + 1
<1>1. /\ page \in Seq(Nat) /\ Len(page) \in Nat /\ Len(page) >= 1
      /\ \A i \in 2..Len(page) : page[i] = page[i - 1] + 1
  BY DEF JournalInv, JournalTypeOK, Consecutive
<1>2. /\ Tail(page) \in Seq(Nat) /\ Len(Tail(page)) = Len(page) - 1
      /\ \A i \in 1..(Len(page) - 1) : Tail(page)[i] = page[i + 1]
  BY <1>1
<1>3. Tail(page) # <<>> => Len(page) >= 2
  BY <1>1, <1>2
<1>4. ASSUME NEW i \in 2 .. Len(Tail(page)) PROVE Tail(page)[i] = Tail(page)[i - 1] + 1
  <2>1. /\ i \in 1..(Len(page) - 1) /\ i - 1 \in 1..(Len(page) - 1)
        /\ i + 1 \in 2..Len(page) /\ (i - 1) + 1 = i /\ (i + 1) - 1 = i
    BY <1>1, <1>2
  <2> QED
    BY <1>1, <1>2, <2>1
<1>5. Len(page) >= 2 => Tail(page)[1] = page[1] + 1
  <2> SUFFICES ASSUME Len(page) >= 2 PROVE Tail(page)[1] = page[1] + 1
    OBVIOUS
  <2>1. 1 \in 1..(Len(page) - 1) /\ 2 \in 2..Len(page) /\ 1 + 1 = 2 /\ 2 - 1 = 1
    BY <1>1
  <2>2. Tail(page)[1] = page[2] /\ page[2] = page[1] + 1
    BY <1>1, <1>2, <2>1
  <2> QED
    BY <2>2
<1> QED
  BY <1>1, <1>2, <1>3, <1>4, <1>5

LEMMA JournalCommandKeeps == ASSUME NEW K,
         PageSize \in Nat, JournalInv(K), Journal(K)!Command PROVE JournalInv(K)'
<1>1. UNCHANGED Journal(K)!store /\ UNCHANGED Journal(K)!surroundings
  BY DEF Journal!Command
<1>2. CASE Journal(K)!EndPoll
  BY <1>1, <1>2, JournalEndKeeps
<1>3. CASE ~Journal(K)!EndPoll
  <2>1. /\ jStage = "command" /\ jStage' = "process" /\ page' = Journal(K)!Output /\ first' = TRUE
        /\ UNCHANGED <<known, attach, jSaved, jRows, journal, oldest>> /\ known = jSaved
        /\ Journal(K)!Output = <<>> => known.by = "none" /\ ~K.replay
    BY <1>3 DEF Journal!Command, JournalInv, PageFollows, Journal!surroundings, Journal!store
  <2>2. PICK entry \in Nat, count \in Nat :
          /\ Journal(K)!Output = Journal(K)!From(entry, count)
          /\ known.by = "cursor" => entry = known.entry
          /\ known.by = "since" => entry = known.entry + 1
    <3>1. Len(journal) \in Nat /\ known \in JournalPositions /\ known.entry \in Nat
      BY DEF JournalInv, JournalTypeOK, JournalPositions
    <3>2. PageSize + 1 \in Nat /\ known.entry + 1 \in Nat /\ 1 \in Nat
      BY <3>1
    <3> QED
      BY <3>1, <3>2 DEF Journal!Output
  <2>3. JournalTypeOK(K)
    BY DEF JournalInv
  <2>4. /\ Journal(K)!Output \in Seq(Nat) /\ (Journal(K)!Output # <<>> => Journal(K)!Output[1] >= entry)
        /\ \A i \in 2 .. Len(Journal(K)!Output) : Journal(K)!Output[i] = Journal(K)!Output[i - 1] + 1
    BY <2>2, <2>3, JournalFromIs
  <2>5. JournalTypeOK(K)'
    BY <2>1, <2>3, <2>4 DEF JournalTypeOK
  <2>6. PageFollows(K)'
    <3>1. known.entry \in Nat
      BY <2>3 DEF JournalTypeOK, JournalPositions
    <3>2. Journal(K)!Output # <<>> /\ known.by = "since" => Journal(K)!Output[1] > known.entry
      <4>1. Journal(K)!Output # <<>> => Journal(K)!Output[1] \in Nat
        BY <2>4
      <4> QED
        BY <2>2, <2>4, <3>1, <4>1
    <3> QED
      BY <2>1, <2>2, <2>4, <3>1, <3>2 DEF PageFollows, JournalInv, SavedIsKnown
  <2>7. Consecutive'
    BY <2>1, <2>4 DEF Consecutive
  <2> QED
    BY <1>1, <2>5, <2>6, <2>7, JournalStoreSame DEF JournalInv
<1> QED
  BY <1>2, <1>3

LEMMA JournalSkipKeeps ==
  ASSUME NEW K
  PROVE  JournalInv(K) /\ Journal(K)!SkipSaved => JournalInv(K)'
<1> SUFFICES ASSUME JournalInv(K), Journal(K)!SkipSaved PROVE JournalInv(K)'
  OBVIOUS
<1>1. /\ jStage = "process" /\ page # <<>> /\ page' = Tail(page) /\ first' = FALSE
      /\ UNCHANGED <<journal, oldest, jStage, known, attach, jRows, jSaved>>
      /\ first /\ known.by = "cursor" /\ known.entry = Head(page)
  BY DEF Journal!SkipSaved, Journal!IsSaved, Journal!Entry, Journal!surroundings, Journal!store
<1>2. JournalTypeOK(K)'
  BY <1>1, JournalTailIs DEF JournalInv, JournalTypeOK
<1>3. Consecutive'
  BY <1>1, JournalTailIs DEF Consecutive
<1>4. known = jSaved /\ jSaved # Journal(K)!Nowhere
  BY <1>1 DEF JournalInv, PageFollows, Journal!Nowhere
<1>5. PageFollows(K)'
  BY <1>1, <1>4, JournalTailIs DEF PageFollows
<1> QED
  BY <1>1, <1>2, <1>3, <1>5, JournalStoreSame DEF JournalInv, Journal!store

LEMMA JournalRecordKeeps ==
  ASSUME NEW K
  PROVE  JournalInv(K) /\ Journal(K)!Record => JournalInv(K)'
<1> SUFFICES ASSUME JournalInv(K), Journal(K)!Record PROVE JournalInv(K)'
  OBVIOUS
<1>1. Journal(K)!ToRecord /\ Journal(K)!Publish(Journal(K)!NextRow, Journal(K)!NextPosition) /\ UNCHANGED Journal(K)!surroundings
  BY DEF Journal!Record
<1>2. CASE page = <<>>
  BY <1>1, <1>2, JournalEndKeeps DEF Journal!Record
<1>3. CASE page # <<>>
  <2>1. /\ jStage = "process" /\ page' = Tail(page) /\ first' = FALSE
        /\ UNCHANGED <<journal, oldest, jStage, known, attach>>
        /\ jSaved' = [by |-> "cursor", entry |-> page[1]]
    BY <1>1, <1>3, JournalTailIs DEF Journal!Record, Journal!ToRecord, Journal!surroundings, Journal!Publish, Journal!NextPosition, Journal!Entry
  <2>2. JournalTypeOK(K)'
    BY <1>1, <1>3, <2>1, JournalTailIs, JournalInOrder DEF JournalInv, JournalTypeOK
  <2>3. Consecutive'
    BY <1>3, <2>1, JournalTailIs DEF Consecutive
  <2>4. PageFollows(K)'
    BY <1>3, <2>1, JournalTailIs DEF PageFollows, Journal!Nowhere
  <2> QED
    BY <1>1, <2>2, <2>3, <2>4, JournalInOrder DEF JournalInv
<1> QED
  BY <1>2, <1>3

LEMMA JournalStep == ASSUME NEW K,
         PageSize \in Nat, JournalInv(K), [Journal(K)!JournalNext]_(Journal(K)!journalVars) PROVE JournalInv(K)'
<1>1. CASE UNCHANGED Journal(K)!journalVars
  BY <1>1, JournalAroundKeeps DEF Journal!journalVars, Journal!surroundings, JournalInv, JournalTypeOK
<1>2. CASE Journal(K)!Log
  <2>1. journal' \in Seq(K.kinds)
    BY <1>2 DEF Journal!Log, JournalInv, JournalTypeOK
  <2> QED
    BY <1>2, <2>1, JournalAroundKeeps DEF Journal!Log, JournalInv, JournalTypeOK
<1>3. CASE Journal(K)!Vacuum
  <2>1. oldest' \in Nat \ {0}
    BY <1>3 DEF Journal!Vacuum, JournalInv, JournalTypeOK
  <2> QED
    BY <1>3, <2>1, JournalAroundKeeps DEF Journal!Vacuum, JournalInv, JournalTypeOK
<1>4. CASE Journal(K)!Restart \/ Journal(K)!CommandFails \/ Journal(K)!CommandTooLarge \/ Journal(K)!RefuseEntry \/ Journal(K)!FinishPoll
  BY <1>4, JournalEndKeeps DEF Journal!Restart, Journal!CommandFails, Journal!CommandTooLarge, Journal!RefuseEntry, Journal!FinishPoll
<1>5. CASE Journal(K)!RecordFails
  BY <1>5, JournalEndKeeps DEF Journal!RecordFails
<1>6. CASE Journal(K)!BeginPoll
  <2>1. JournalTypeOK(K)'
    BY <1>6 DEF Journal!BeginPoll, JournalInv, JournalTypeOK, Journal!surroundings, Journal!store
  <2>2. Consecutive' /\ PageFollows(K)'
    BY <1>6 DEF Journal!BeginPoll, JournalInv, Consecutive, PageFollows, Journal!store
  <2> QED
    BY <1>6, <2>1, <2>2, JournalStoreSame DEF Journal!BeginPoll, JournalInv
<1>7. CASE Journal(K)!Command
  BY <1>7, JournalCommandKeeps
<1>8. CASE Journal(K)!SkipSaved \/ Journal(K)!Record
  BY <1>8, JournalSkipKeeps, JournalRecordKeeps
<1> QED
  BY <1>1, <1>2, <1>3, <1>4, <1>5, <1>6, <1>7, <1>8 DEF Journal!JournalNext, Journal!Step

(* EntriesRecorded: whatever is logged, dropped, refused, retried, not     *)
(* reported and restarted, entries are recorded once and in order, with    *)
(* the position of the last row, and, where the journal is replayed from   *)
(* its start, no loss goes unsaid.                                         *)
THEOREM JournalRecords ==
  ASSUME NEW K,
         PageSize \in Nat
  PROVE  Journal(K)!JournalSpec => []Journal(K)!EntriesRecorded
<1>1. JournalInv(K) => Journal(K)!EntriesRecorded
  BY DEF JournalInv
<1>2. JournalInv(K) /\ [Journal(K)!JournalNext]_(Journal(K)!journalVars) => JournalInv(K)'
  BY JournalStep
<1> QED
  BY <1>1, <1>2, JournalInitInv, PTL DEF Journal!JournalSpec

(* EntriesRecorded, of the sources in their settings: the source that is   *)
(* configured takes its steps, and those of the others leave it alone.     *)
THEOREM EntriesAreRecorded ==
  ASSUME PageSize \in Nat
  PROVE  SourcesSpec => []EntriesRecorded
<1> DEFINE Safe == /\ setting = "replay" => JournalInv(Replayed)
                   /\ setting = "attach" => JournalInv(Attached)
<1>1. SourcesInit => Safe
  <2>1. Journal(Attached)!JournalInit => Journal(Replayed)!JournalInit
    BY DEF Journal!JournalInit, Journal!Nowhere
  <2> QED
    BY <2>1, JournalInitInv DEF SourcesInit
<1>2. Safe /\ [SourcesNext]_sourcesVars => Safe'
  <2> SUFFICES ASSUME Safe, [SourcesNext]_sourcesVars PROVE Safe'
    OBVIOUS
  <2>1. ASSUME UNCHANGED journalState
        PROVE  /\ UNCHANGED Journal(Replayed)!journalVars
               /\ UNCHANGED Journal(Attached)!journalVars
    BY <2>1 DEF journalState, Journal!journalVars, Journal!surroundings, Journal!poll, Journal!store
  <2>2. setting' = setting
    BY DEF SourcesNext, sourcesVars, Configured, RotationStep, BytesStep, CutStep, ReplayStep,
           AttachStep, HostStep, LateStep
  <2>3. CASE setting = "replay"
    <3>1. Journal(Replayed)!JournalNext \/ UNCHANGED journalState
      BY <2>3 DEF SourcesNext, sourcesVars, Configured, RotationStep, BytesStep, CutStep,
                  ReplayStep, AttachStep, HostStep, LateStep
    <3> QED
      BY <2>1, <2>2, <2>3, <3>1, JournalStep
  <2>4. CASE setting = "attach"
    <3>1. Journal(Attached)!JournalNext \/ UNCHANGED journalState
      BY <2>4 DEF SourcesNext, sourcesVars, Configured, RotationStep, BytesStep, CutStep,
                  ReplayStep, AttachStep, HostStep, LateStep
    <3> QED
      BY <2>1, <2>2, <2>4, <3>1, JournalStep
  <2> QED
    BY <2>2, <2>3, <2>4
<1>3. Safe => EntriesRecorded
  BY DEF EntriesRecorded, JournalInv
<1> QED
  BY <1>1, <1>2, <1>3, PTL DEF SourcesSpec

-----------------------------------------------------------------------------
(* The host sampler. *)

LEMMA HostCounts == \A K, S : Host(K)!Cardinality(S) = Cardinality(S)
  BY DEF Host!Cardinality, Cardinality, Host!IsFiniteSet, IsFiniteSet


HostConstants ==
    /\ Counters \in Nat \ {0} /\ PerPoll \in Nat
    /\ Readings \subseteq [1..Counters -> Nat] /\ None \notin Nat

GapDatas == [gap : Nat]
MetricDatas == [counter : 1..Counters, value : Nat, reset : BOOLEAN, interval : Nat]
HostRows == [life : Nat, sequence : Nat, data : GapDatas \union MetricDatas]

HostTypeOK ==
    /\ elapsed \in Nat /\ due \in BOOLEAN
    /\ hStage \in {"idle", "gap", "sample", "emit"}
    /\ taking \in BOOLEAN /\ left \in Nat
    /\ pending \in Seq([counter : 1..Counters, value : Nat, interval : Nat])
    /\ previous \in [1..Counters -> Nat \union {None}]
    /\ sequence \in Nat /\ missed \in Nat /\ pending_missed \in Nat
    /\ handled \in Nat /\ life \in Nat
    /\ hRows \in Seq(HostRows)

(* What is left of an interval's samples are the last ones of it, and a    *)
(* poll that goes on with them is not one that samples.                    *)
Taking == hStage \in {"gap", "sample"} /\ taking
PendingIsRest ==
    /\ Len(pending) <= Counters
    /\ \A i \in 1..Len(pending) : /\ pending[i].counter = Counters - Len(pending) + i
                                  /\ pending[i].interval = handled
    /\ Taking => pending = <<>>
    /\ hStage = "sample" => taking
    /\ hStage = "gap" /\ ~taking => pending # <<>>

(* What is recorded is of before what is to be recorded.                   *)
RowsAreBefore(K) ==
    /\ \A i \in DOMAIN hRows : /\ hRows[i].life <= life
                               /\ hRows[i].life = life => hRows[i].sequence <= sequence
    /\ \A i \in Host(K)!Metrics : hRows[i].life = life =>
         /\ hRows[i].data.interval <= handled
         /\ Taking => hRows[i].data.interval < handled
         /\ pending # <<>> /\ hRows[i].data.interval = handled
              => hRows[i].data.counter <= Counters - Len(pending)

OrderInv(K) ==
    /\ HostTypeOK /\ PendingIsRest /\ RowsAreBefore(K)
    /\ Host(K)!SamplesInOrder /\ Host(K)!IdentitiesRise

-----------------------------------------------------------------------------
(* A row that is recorded comes after the others. *)
LEMMA RowsGrow ==
  ASSUME NEW K,
         HostTypeOK, NEW data \in GapDatas \union MetricDatas, hRows' = Host(K)!Emitted(data)
  PROVE  /\ hRows' \in Seq(HostRows) /\ Len(hRows) \in Nat /\ DOMAIN hRows = 1..Len(hRows)
         /\ DOMAIN hRows' = 1..(Len(hRows) + 1)
         /\ \A i \in 1..Len(hRows) : hRows'[i] = hRows[i]
         /\ hRows'[Len(hRows) + 1] = [life |-> life, sequence |-> sequence + 1, data |-> data]
         /\ Host(K)!Metrics \subseteq 1..Len(hRows)
         /\ data \in GapDatas => Host(K)!Metrics' = Host(K)!Metrics
         /\ data \in MetricDatas => Host(K)!Metrics' = Host(K)!Metrics \union {Len(hRows) + 1}
<1> DEFINE row == [life |-> life, sequence |-> sequence + 1, data |-> data]
<1>1. row \in HostRows /\ hRows \in Seq(HostRows)
  BY DEF HostTypeOK, HostRows
<1>2. /\ hRows' \in Seq(HostRows) /\ Len(hRows') = Len(hRows) + 1
      /\ hRows'[Len(hRows) + 1] = row /\ \A i \in 1..Len(hRows) : hRows'[i] = hRows[i]
  BY <1>1, AppendIs DEF Host!Emitted
<1>3. DOMAIN hRows = 1..Len(hRows) /\ Len(hRows) \in Nat /\ DOMAIN hRows' = 1..(Len(hRows) + 1)
  BY <1>1, <1>2
<1>4. data \in GapDatas => "gap" \in DOMAIN data
  BY DEF GapDatas
<1>5. data \in MetricDatas => "gap" \notin DOMAIN data
  BY DEF MetricDatas
<1>6. Host(K)!Gaps' = Host(K)!Gaps \union {i \in {Len(hRows) + 1} : "gap" \in DOMAIN data}
  BY <1>2, <1>3 DEF Host!Gaps
<1>7. Len(hRows) + 1 \notin 1..Len(hRows) /\ 1..(Len(hRows) + 1) = 1..Len(hRows) \union {Len(hRows) + 1}
  BY <1>3
<1>8. Host(K)!Metrics = 1..Len(hRows) \ Host(K)!Gaps /\ Host(K)!Gaps \subseteq 1..Len(hRows) /\ Host(K)!Metrics' = 1..(Len(hRows) + 1) \ Host(K)!Gaps'
  BY <1>3 DEF Host!Metrics, Host!Gaps
<1> QED
  BY <1>2, <1>3, <1>4, <1>5, <1>6, <1>7, <1>8

LEMMA MetricIs ==
  ASSUME NEW K,
         HostTypeOK, NEW i \in Host(K)!Metrics
  PROVE  i \in DOMAIN hRows /\ hRows[i].data \in MetricDatas /\ hRows[i] \in HostRows
<1>1. i \in DOMAIN hRows /\ "gap" \notin DOMAIN hRows[i].data /\ hRows[i] \in HostRows
  BY SeqAt DEF Host!Metrics, Host!Gaps, HostTypeOK
<1>2. hRows[i].data \in GapDatas \union MetricDatas
  BY <1>1 DEF HostRows
<1>3. hRows[i].data \in GapDatas => "gap" \in DOMAIN hRows[i].data
  BY DEF GapDatas
<1> QED
  BY <1>1, <1>2, <1>3

LEMMA HostInitOrder ==
  ASSUME NEW K
  PROVE  HostConstants /\ Host(K)!HostInit => OrderInv(K)
<1> SUFFICES ASSUME HostConstants, Host(K)!HostInit PROVE OrderInv(K)
  OBVIOUS
<1>1. /\ pending \in Seq([counter : 1..Counters, value : Nat, interval : Nat])
      /\ hRows \in Seq(HostRows) /\ DOMAIN hRows = {} /\ Len(pending) = 0
  BY DEF Host!HostInit
<1>2. previous \in [1..Counters -> Nat \union {None}]
  BY DEF Host!HostInit, Host!NoValues
<1>3. HostTypeOK
  BY <1>1, <1>2 DEF Host!HostInit, HostTypeOK
<1>4. Host(K)!Metrics = {}
  BY <1>1 DEF Host!Metrics
<1>5. PendingIsRest
  BY <1>1 DEF Host!HostInit, PendingIsRest, Taking, HostConstants
<1>6. RowsAreBefore(K) /\ Host(K)!SamplesInOrder /\ Host(K)!IdentitiesRise
  BY <1>1, <1>4 DEF RowsAreBefore, Host!SamplesInOrder, Host!IdentitiesRise
<1> QED
  BY <1>3, <1>5, <1>6 DEF OrderInv

(* Steps that record nothing, and after which no more is to be recorded    *)
(* than before.                                                            *)
LEMMA NothingRecorded ==
  ASSUME NEW K,
         OrderInv(K), HostTypeOK', PendingIsRest', UNCHANGED <<hRows, life>>,
         sequence <= sequence', handled <= handled',
         handled' > handled \/ (pending' = <<>> /\ ~Taking') \/ (pending' = pending /\ (Taking' => Taking))
           \/ (Taking /\ ~Taking')
  PROVE  OrderInv(K)'
<1>1. Host(K)!Metrics' = Host(K)!Metrics
  BY DEF Host!Metrics, Host!Gaps
<1>2. \A i \in Host(K)!Metrics : i \in DOMAIN hRows /\ hRows[i].data.interval \in Nat /\ hRows[i].data.counter \in 1..Counters
  BY MetricIs DEF OrderInv, MetricDatas
<1>3. Host(K)!SamplesInOrder' /\ Host(K)!IdentitiesRise'
  BY <1>1 DEF OrderInv, Host!SamplesInOrder, Host!IdentitiesRise
<1>4. \A i \in DOMAIN hRows : hRows[i].sequence \in Nat
  <2>1. \A i \in DOMAIN hRows : hRows[i] \in HostRows
    BY SeqAt DEF OrderInv, HostTypeOK
  <2> QED
    BY <2>1 DEF HostRows
<1>5. \A i \in DOMAIN hRows : hRows[i].life <= life /\ (hRows[i].life = life => hRows[i].sequence <= sequence')
  <2>1. sequence \in Nat /\ sequence' \in Nat
    BY DEF OrderInv, HostTypeOK
  <2>2. \A i \in DOMAIN hRows : hRows[i].life <= life /\ (hRows[i].life = life => hRows[i].sequence <= sequence)
    BY DEF OrderInv, RowsAreBefore
  <2> QED
    BY <1>4, <2>1, <2>2
<1>6. \A i \in Host(K)!Metrics : hRows[i].life = life =>
         /\ hRows[i].data.interval <= handled'
         /\ Taking' => hRows[i].data.interval < handled'
         /\ pending' # <<>> /\ hRows[i].data.interval = handled'
              => hRows[i].data.counter <= Counters - Len(pending')
  <2> SUFFICES ASSUME NEW i \in Host(K)!Metrics, hRows[i].life = life
               PROVE  /\ hRows[i].data.interval <= handled'
                      /\ Taking' => hRows[i].data.interval < handled'
                      /\ pending' # <<>> /\ hRows[i].data.interval = handled'
                           => hRows[i].data.counter <= Counters - Len(pending')
    OBVIOUS
  <2>1. /\ hRows[i].data.interval <= handled
        /\ Taking => hRows[i].data.interval < handled
        /\ pending # <<>> /\ hRows[i].data.interval = handled
              => hRows[i].data.counter <= Counters - Len(pending)
    BY DEF OrderInv, RowsAreBefore
  <2>2. hRows[i].data.interval \in Nat /\ handled \in Nat /\ handled' \in Nat
    BY <1>2 DEF OrderInv, HostTypeOK
  <2>3. CASE handled' > handled
    BY <2>1, <2>2, <2>3
  <2>4. CASE handled' = handled /\ pending' = <<>> /\ ~Taking'
    BY <2>1, <2>2, <2>4
  <2>5. CASE handled' = handled /\ pending' = pending /\ (Taking' => Taking)
    BY <2>1, <2>2, <2>5
  <2>6. CASE handled' = handled /\ Taking /\ ~Taking'
    BY <2>1, <2>2, <2>6
  <2>7. handled' > handled \/ handled' = handled
    BY <2>2
  <2> QED
    BY <2>3, <2>4, <2>5, <2>6, <2>7
<1> QED
  BY <1>1, <1>3, <1>5, <1>6 DEF OrderInv, RowsAreBefore

(* A row is recorded: a gap, or the next sample that is pending, which is  *)
(* then taken off, or dropped with the rest.                               *)
LEMMA RecordedInOrder ==
  ASSUME NEW K,
         OrderInv(K), HostTypeOK', PendingIsRest', UNCHANGED <<handled, life>>, Counters \in Nat,
         sequence' = sequence + 1, Taking' => Taking,
         NEW data \in GapDatas \union MetricDatas, hRows' = Host(K)!Emitted(data),
         \/ data \in GapDatas /\ pending' \in {pending, <<>>}
         \/ /\ data \in MetricDatas /\ pending # <<>> /\ ~Taking
            /\ data.counter = Counters - Len(pending) + 1 /\ data.interval = handled
            /\ pending' = <<>> \/ Len(pending') = Len(pending) - 1
  PROVE  OrderInv(K)'
<1> DEFINE n == Len(hRows) + 1
<1>1. HostTypeOK
  BY DEF OrderInv
<1>2. /\ DOMAIN hRows = 1..Len(hRows) /\ DOMAIN hRows' = 1..n /\ n \in Nat /\ Len(hRows) \in Nat
      /\ \A i \in 1..Len(hRows) : hRows'[i] = hRows[i]
      /\ hRows'[n] = [life |-> life, sequence |-> sequence + 1, data |-> data]
      /\ Host(K)!Metrics \subseteq 1..Len(hRows)
      /\ Host(K)!Metrics' = IF data \in GapDatas THEN Host(K)!Metrics ELSE Host(K)!Metrics \union {n}
      /\ data \notin GapDatas => data \in MetricDatas
  BY <1>1, RowsGrow
<1>3. \A i \in 1..Len(hRows) : hRows[i].sequence \in Nat /\ hRows[i].life \in Nat
  <2>1. \A i \in 1..Len(hRows) : hRows[i] \in HostRows
    BY SeqAt, <1>1 DEF HostTypeOK
  <2> QED
    BY <2>1 DEF HostRows
<1>4. \A i \in Host(K)!Metrics : hRows[i].data.interval \in Nat /\ hRows[i].data.counter \in 1..Counters
  BY MetricIs, <1>1 DEF MetricDatas
<1>5. sequence \in Nat /\ life \in Nat /\ handled \in Nat /\ Len(pending) \in Nat
      /\ (pending # <<>> => Len(pending) >= 1)
  BY <1>1 DEF HostTypeOK
<1>6. \A i \in 1..Len(hRows) : /\ hRows[i].life <= life
                               /\ hRows[i].life = life => hRows[i].sequence <= sequence
  BY <1>2 DEF OrderInv, RowsAreBefore
<1> HIDE DEF n
<1>7. n = Len(hRows) + 1 /\ \A i \in 1..n : i \in 1..Len(hRows) \/ i = n
  BY <1>2 DEF n
<1>8. Host(K)!IdentitiesRise'
  <2>1. ASSUME NEW i \in 1..n, NEW j \in 1..n, i < j
        PROVE  \/ hRows'[i].life < hRows'[j].life
               \/ hRows'[i].life = hRows'[j].life /\ hRows'[i].sequence < hRows'[j].sequence
    <3>1. i \in 1..Len(hRows)
      BY <1>2, <1>7, <2>1
    <3>2. CASE j = n
      BY <1>2, <1>3, <1>5, <1>6, <3>1, <3>2
    <3>3. CASE j \in 1..Len(hRows)
      BY <1>2, <2>1, <3>1, <3>3 DEF OrderInv, Host!IdentitiesRise
    <3> QED
      BY <1>7, <3>2, <3>3
  <2> QED
    BY <1>2, <2>1 DEF Host!IdentitiesRise
<1>9. \A i \in Host(K)!Metrics : hRows[i].life = life =>
         /\ hRows[i].data.interval <= handled
         /\ Taking => hRows[i].data.interval < handled
         /\ pending # <<>> /\ hRows[i].data.interval = handled
              => hRows[i].data.counter <= Counters - Len(pending)
  BY DEF OrderInv, RowsAreBefore
<1>10. CASE data \in GapDatas
  <2>1. Host(K)!Metrics' = Host(K)!Metrics /\ \A i \in Host(K)!Metrics : hRows'[i] = hRows[i]
    BY <1>2, <1>10
  <2>2. Host(K)!SamplesInOrder'
    BY <2>1 DEF OrderInv, Host!SamplesInOrder
  <2>3. pending' # <<>> => pending' = pending
    <3>1. data \notin MetricDatas \/ pending' \in {pending, <<>>}
      <4>1. data \in MetricDatas => FALSE
        <5>1. "gap" \in DOMAIN data
          BY <1>10 DEF GapDatas
        <5> QED
          BY <5>1 DEF MetricDatas
      <4> QED
        BY <4>1
    <3> QED
      BY <3>1
  <2>4. RowsAreBefore(K)'
    <3>1. \A i \in DOMAIN hRows' : /\ hRows'[i].life <= life'
                                   /\ hRows'[i].life = life' => hRows'[i].sequence <= sequence'
      BY <1>2, <1>3, <1>5, <1>6, <1>7
    <3>2. \A i \in Host(K)!Metrics' : hRows'[i].life = life' =>
             /\ hRows'[i].data.interval <= handled'
             /\ Taking' => hRows'[i].data.interval < handled'
             /\ pending' # <<>> /\ hRows'[i].data.interval = handled'
                  => hRows'[i].data.counter <= Counters - Len(pending')
      BY <1>9, <2>1, <2>3
    <3> QED
      BY <3>1, <3>2 DEF RowsAreBefore
  <2> QED
    BY <1>8, <2>2, <2>4 DEF OrderInv
<1>11. CASE data \notin GapDatas
  <2>1. /\ Host(K)!Metrics' = Host(K)!Metrics \union {n} /\ \A i \in Host(K)!Metrics : hRows'[i] = hRows[i] /\ i < n
        /\ pending # <<>> /\ ~Taking /\ ~Taking'
        /\ data.counter = Counters - Len(pending) + 1 /\ data.interval = handled
        /\ pending' = <<>> \/ Len(pending') = Len(pending) - 1
    BY <1>2, <1>7, <1>11
  <2>2. ASSUME NEW i \in Host(K)!Metrics, hRows[i].life = life
        PROVE  \/ hRows[i].data.interval < handled
               \/ hRows[i].data.interval = handled /\ hRows[i].data.counter < data.counter
    BY <1>4, <1>5, <1>9, <2>1, <2>2
  <2>3. Host(K)!SamplesInOrder'
    <3>1. ASSUME NEW i \in Host(K)!Metrics', NEW j \in Host(K)!Metrics', i < j, hRows'[i].life = hRows'[j].life
          PROVE  \/ hRows'[i].data.interval < hRows'[j].data.interval
                 \/ /\ hRows'[i].data.interval = hRows'[j].data.interval
                    /\ hRows'[i].data.counter < hRows'[j].data.counter
      <4>1. i \in Host(K)!Metrics
        <5>1. i = n => j > n /\ j \in Host(K)!Metrics
          BY <1>7, <2>1, <3>1
        <5> QED
          BY <1>2, <1>7, <2>1, <5>1
      <4>2. CASE j = n
        BY <1>2, <2>1, <2>2, <3>1, <4>1, <4>2
      <4>3. CASE j \in Host(K)!Metrics
        BY <2>1, <3>1, <4>1, <4>3 DEF OrderInv, Host!SamplesInOrder
      <4> QED
        BY <2>1, <4>2, <4>3
    <3> QED
      BY <3>1 DEF Host!SamplesInOrder
  <2>4. RowsAreBefore(K)'
    <3>1. \A i \in DOMAIN hRows' : /\ hRows'[i].life <= life'
                                   /\ hRows'[i].life = life' => hRows'[i].sequence <= sequence'
      BY <1>2, <1>3, <1>5, <1>6, <1>7
    <3>2. ASSUME NEW i \in Host(K)!Metrics', hRows'[i].life = life'
          PROVE  /\ hRows'[i].data.interval <= handled'
                 /\ Taking' => hRows'[i].data.interval < handled'
                 /\ pending' # <<>> /\ hRows'[i].data.interval = handled'
                      => hRows'[i].data.counter <= Counters - Len(pending')
      <4>1. CASE i = n
        BY <1>2, <1>5, <2>1, <4>1
      <4>2. CASE i \in Host(K)!Metrics
        <5>1. hRows'[i] = hRows[i] /\ hRows[i].life = life
          BY <2>1, <3>2, <4>2
        <5>2. \/ hRows[i].data.interval < handled
              \/ hRows[i].data.interval = handled /\ hRows[i].data.counter < data.counter
          BY <2>2, <4>2, <5>1
        <5>3. /\ hRows[i].data.interval \in Nat /\ hRows[i].data.counter \in 1..Counters
              /\ Counters \in Nat
          BY <1>4, <4>2
        <5>4. hRows[i].data.interval <= handled
          BY <1>5, <5>2, <5>3
        <5>5. pending' # <<>> /\ hRows[i].data.interval = handled
                => hRows[i].data.counter <= Counters - Len(pending')
          BY <1>5, <2>1, <5>2, <5>3
        <5> QED
          BY <2>1, <5>1, <5>4, <5>5
      <4> QED
        BY <2>1, <4>1, <4>2
    <3> QED
      BY <3>1, <3>2 DEF RowsAreBefore
  <2> QED
    BY <1>8, <2>3, <2>4 DEF OrderInv
<1> QED
  BY <1>10, <1>11

-----------------------------------------------------------------------------
(* The types, and what is pending, step by step. *)
LEMMA EmptyPending ==
  ASSUME HostConstants, pending' = <<>>, hStage' = "idle" \/ (hStage' = "gap" /\ taking')
  PROVE  PendingIsRest'
<1>1. Len(<<>>) = 0 /\ 1..0 = {}
  OBVIOUS
<1> QED
  BY <1>1 DEF PendingIsRest, HostConstants

LEMMA FailTyped ==
  ASSUME NEW K,
         HostConstants, OrderInv(K), Host(K)!Fail, sequence' \in Nat, hRows' \in Seq(HostRows)
  PROVE  HostTypeOK' /\ PendingIsRest' /\ ~Taking' /\ pending' = <<>> /\ UNCHANGED <<handled, life>>
<1>1. PendingIsRest'
  BY EmptyPending DEF Host!Fail
<1>2. pending' \in Seq([counter : 1..Counters, value : Nat, interval : Nat])
  BY DEF Host!Fail
<1>3. HostTypeOK'
  BY <1>2 DEF Host!Fail, OrderInv, HostTypeOK, Host!time, Host!Missing
<1> QED
  BY <1>1, <1>3 DEF Host!Fail, Taking

LEMMA SampledIs ==
  ASSUME NEW K,
         OrderInv(K), pending # <<>>, HostConstants
  PROVE  /\ Host(K)!Sampled = pending[1] /\ Host(K)!Sampled.counter \in 1..Counters
         /\ Host(K)!Sampled.value \in Nat /\ Host(K)!Sampled.interval = handled
         /\ Host(K)!Sampled.counter = Counters - Len(pending) + 1
         /\ Len(pending) \in Nat /\ Len(pending) >= 1
         /\ Host(K)!MetricData \in MetricDatas
         /\ Host(K)!MetricData.counter = Host(K)!Sampled.counter /\ Host(K)!MetricData.interval = handled
         /\ Host(K)!MetricData.value = Host(K)!Sampled.value /\ Host(K)!MetricData.reset = Host(K)!IsReset
<1>1. /\ Len(pending) \in Nat /\ Len(pending) >= 1 /\ Host(K)!Sampled = pending[1] /\ handled \in Nat
      /\ pending[1] \in [counter : 1..Counters, value : Nat, interval : Nat]
  <2>1. /\ pending \in Seq([counter : 1..Counters, value : Nat, interval : Nat])
        /\ Len(pending) \in Nat /\ Len(pending) >= 1 /\ Host(K)!Sampled = pending[1] /\ handled \in Nat
    BY DEF OrderInv, HostTypeOK, Host!Sampled
  <2>2. 1 \in 1..Len(pending)
    BY <2>1
  <2> QED
    BY <2>1, <2>2, SeqAt
<1>2. pending[1].counter = Counters - Len(pending) + 1 /\ pending[1].interval = handled
  BY <1>1 DEF OrderInv, PendingIsRest
<1>3. Host(K)!IsReset \in BOOLEAN
  BY DEF Host!IsReset
<1>4. Host(K)!MetricData \in MetricDatas
  BY <1>1, <1>2, <1>3 DEF Host!MetricData, MetricDatas
<1> QED
  BY <1>1, <1>2, <1>4 DEF Host!MetricData

LEMMA TailPending ==
  ASSUME NEW K,
         OrderInv(K), pending # <<>>, HostConstants, pending' = Tail(pending),
         UNCHANGED handled, hStage' = "emit"
  PROVE  /\ PendingIsRest' /\ Len(pending') = Len(pending) - 1
         /\ pending' \in Seq([counter : 1..Counters, value : Nat, interval : Nat])
<1> DEFINE S == [counter : 1..Counters, value : Nat, interval : Nat]
<1>1. pending \in Seq(S) /\ Len(pending) \in Nat /\ Len(pending) >= 1
  BY DEF OrderInv, HostTypeOK
<1>2. /\ pending' \in Seq(S) /\ Len(pending') = Len(pending) - 1
      /\ \A i \in 1..Len(pending') : pending'[i] = pending[i + 1]
  BY <1>1
<1>3. ASSUME NEW i \in 1..Len(pending')
      PROVE  pending'[i].counter = Counters - Len(pending') + i /\ pending'[i].interval = handled'
  <2>1. i + 1 \in 1..Len(pending)
    BY <1>1, <1>2
  <2>2. pending[i + 1].counter = Counters - Len(pending) + (i + 1) /\ pending[i + 1].interval = handled
    BY <2>1 DEF OrderInv, PendingIsRest
  <2> QED
    BY <1>1, <1>2, <2>2 DEF HostConstants
<1>4. Len(pending') <= Counters
  BY <1>1, <1>2 DEF OrderInv, PendingIsRest, HostConstants
<1> QED
  BY <1>2, <1>3, <1>4 DEF PendingIsRest, Taking

LEMMA SampleTyped ==
  ASSUME NEW K,
         HostConstants, OrderInv(K), Host(K)!Sample
  PROVE  /\ HostTypeOK' /\ PendingIsRest' /\ pending' # <<>> /\ Len(pending') = Counters
         /\ Taking /\ ~Taking' /\ UNCHANGED <<hRows, handled, life, missed, pending_missed>>
<1> DEFINE S == [counter : 1..Counters, value : Nat, interval : Nat]
<1>1. PICK values \in Readings :
        pending' = [c \in 1..Counters |-> [counter |-> c, value |-> values[c], interval |-> handled]]
  BY DEF Host!Sample
<1>2. \A c \in 1..Counters : [counter |-> c, value |-> values[c], interval |-> handled] \in S
  BY <1>1 DEF HostConstants, OrderInv, HostTypeOK
<1>3. pending' \in [1..Counters -> S]
  BY <1>1, <1>2
<1>4. Counters \in Nat /\ Counters >= 1
  BY DEF HostConstants
<1>5. pending' \in Seq(S) /\ Len(pending') = Counters
  BY <1>3, <1>4, FunctionIs
<1>6. pending' # <<>>
  BY <1>4, <1>5
<1>7. PendingIsRest'
  <2>1. \A i \in 1..Counters : pending'[i].counter = i /\ pending'[i].interval = handled
    BY <1>1
  <2>2. hStage' = "emit" /\ UNCHANGED handled
    BY DEF Host!Sample
  <2> QED
    BY <1>4, <1>5, <2>1, <2>2 DEF PendingIsRest, Taking
<1>8. HostTypeOK'
  BY <1>5 DEF Host!Sample, OrderInv, HostTypeOK, Host!time, Host!counts
<1> QED
  BY <1>5, <1>6, <1>7, <1>8 DEF Host!Sample, Taking, Host!counts, OrderInv, PendingIsRest

LEMMA BeginTyped ==
  ASSUME NEW K,
         HostConstants, OrderInv(K), Host(K)!BeginPoll
  PROVE  /\ HostTypeOK' /\ PendingIsRest' /\ UNCHANGED <<hRows, life, sequence>> /\ hStage = "idle"
         /\ IF due THEN /\ handled' = handled + 1 /\ Taking' /\ pending' = <<>>
                        /\ missed' = missed + (IF pending # <<>> THEN 1 ELSE 0)
                        /\ pending_missed' = pending_missed + (IF pending # <<>> THEN 1 ELSE 0)
            ELSE /\ UNCHANGED <<handled, pending, missed, pending_missed>>
                 /\ pending # <<>> /\ ~Taking'
<1>1. HostTypeOK
  BY DEF OrderInv
<1>2. CASE due
  <2>1. pending' = <<>> /\ taking' = TRUE /\ hStage' = "gap" /\ handled' = handled + 1
    BY <1>2 DEF Host!BeginPoll
  <2>2. PendingIsRest'
    BY <2>1, EmptyPending
  <2>3. /\ missed' = missed + (IF pending # <<>> THEN 1 ELSE 0)
        /\ pending_missed' = pending_missed + (IF pending # <<>> THEN 1 ELSE 0)
    BY <1>1, <1>2 DEF Host!BeginPoll, Host!Missing, Host!counts, HostTypeOK
  <2>4. pending' \in Seq([counter : 1..Counters, value : Nat, interval : Nat])
    BY <2>1
  <2>5. missed' \in Nat /\ pending_missed' \in Nat /\ handled' \in Nat
    BY <1>1, <2>1, <2>3 DEF HostTypeOK
  <2>6. HostTypeOK'
    BY <1>1, <2>1, <2>4, <2>5 DEF Host!BeginPoll, HostTypeOK, HostConstants
  <2> QED
    BY <1>2, <2>1, <2>2, <2>3, <2>6 DEF Host!BeginPoll, Taking
<1>3. CASE ~due
  <2>1. /\ UNCHANGED <<handled, pending, missed, pending_missed>> /\ taking' = FALSE /\ hStage' = "gap"
        /\ pending # <<>>
    BY <1>1, <1>3 DEF Host!BeginPoll, Host!counts, HostTypeOK
  <2>2. HostTypeOK'
    BY <1>1, <2>1 DEF Host!BeginPoll, HostTypeOK, HostConstants
  <2>3. PendingIsRest'
    BY <2>1 DEF OrderInv, PendingIsRest, Taking
  <2> QED
    BY <1>3, <2>1, <2>2, <2>3 DEF Host!BeginPoll, Taking
<1> QED
  BY <1>1, <1>2, <1>3 DEF HostTypeOK

LEMMA GapIs ==
  ASSUME NEW K
  PROVE  OrderInv(K) => Host(K)!GapData \in GapDatas
  BY DEF Host!GapData, GapDatas, OrderInv, HostTypeOK

(* The first steps of another process: nothing of its life is recorded.    *)
LEMMA RestartInOrder ==
  ASSUME NEW K,
         HostConstants, OrderInv(K), Host(K)!Restart
  PROVE  OrderInv(K)'
<1>1. /\ UNCHANGED hRows /\ Host(K)!Metrics' = Host(K)!Metrics /\ life' = life + 1 /\ life \in Nat /\ pending' = <<>>
      /\ hStage' = "idle" /\ previous' = Host(K)!NoValues
  BY DEF Host!Restart, Host!Metrics, Host!Gaps, OrderInv, HostTypeOK
<1>2. PendingIsRest'
  BY <1>1, EmptyPending
<1>3. HostTypeOK'
  <2>1. previous' \in [1..Counters -> Nat \union {None}]
    BY <1>1 DEF Host!NoValues
  <2>2. pending' \in Seq([counter : 1..Counters, value : Nat, interval : Nat])
    BY <1>1
  <2>3. due' \in BOOLEAN /\ taking' \in BOOLEAN
    BY DEF Host!Restart
  <2>4. /\ left' \in Nat /\ sequence' \in Nat /\ missed' \in Nat /\ pending_missed' \in Nat
        /\ handled' \in Nat /\ elapsed' \in Nat /\ life' \in Nat
    BY <1>1 DEF Host!Restart
  <2>5. hRows' \in Seq(HostRows)
    BY <1>1 DEF OrderInv, HostTypeOK
  <2> QED
    BY <1>1, <2>1, <2>2, <2>3, <2>4, <2>5 DEF HostTypeOK
<1>4. \A i \in DOMAIN hRows : hRows[i].life <= life /\ hRows[i].life \in Nat
  <2>1. \A i \in DOMAIN hRows : hRows[i] \in HostRows
    BY SeqAt DEF OrderInv, HostTypeOK
  <2>2. \A i \in DOMAIN hRows : hRows[i].life \in Nat
    BY <2>1 DEF HostRows
  <2> QED
    BY <2>2 DEF OrderInv, RowsAreBefore
<1>5. \A i \in DOMAIN hRows : hRows[i].life < life'
  BY <1>1, <1>4
<1>6. Host(K)!Metrics \subseteq DOMAIN hRows
  BY DEF Host!Metrics
<1>7. RowsAreBefore(K)'
  BY <1>1, <1>4, <1>5, <1>6 DEF RowsAreBefore
<1>8. Host(K)!SamplesInOrder' /\ Host(K)!IdentitiesRise'
  BY <1>1 DEF OrderInv, Host!SamplesInOrder, Host!IdentitiesRise
<1> QED
  BY <1>2, <1>3, <1>7, <1>8 DEF OrderInv

LEMMA EmitGapTyped ==
  ASSUME NEW K,
         HostConstants, OrderInv(K), Host(K)!EmitGap
  PROVE  HostTypeOK' /\ PendingIsRest' /\ (Taking' = Taking)
<1>1. hRows' \in Seq(HostRows)
  BY RowsGrow, GapIs DEF Host!EmitGap, Host!Emit, OrderInv
<1>2. /\ hStage = "gap" /\ hStage' = (IF taking THEN "sample" ELSE "emit") /\ taking' = taking
      /\ pending' = pending /\ handled' = handled /\ taking \in BOOLEAN
  BY DEF Host!EmitGap, Host!Emit, OrderInv, HostTypeOK
<1>3. HostTypeOK'
  BY <1>1, <1>2 DEF Host!EmitGap, Host!Emit, OrderInv, HostTypeOK, Host!time
<1>4. Taking' = Taking
  BY <1>2 DEF Taking
<1>5. PendingIsRest'
  BY <1>2, <1>4 DEF OrderInv, PendingIsRest
<1> QED
  BY <1>3, <1>4, <1>5

LEMMA EmitMetricTyped ==
  ASSUME NEW K,
         HostConstants, OrderInv(K), Host(K)!EmitMetric
  PROVE  /\ HostTypeOK' /\ PendingIsRest' /\ ~Taking /\ ~Taking' /\ pending # <<>>
         /\ pending' = Tail(pending) /\ Len(pending') = Len(pending) - 1
         /\ UNCHANGED <<handled, life, missed, pending_missed>> /\ sequence' = sequence + 1
         /\ hRows' = Host(K)!Emitted(Host(K)!MetricData) /\ Host(K)!MetricData \in MetricDatas
         /\ previous' = [previous EXCEPT ![Host(K)!Sampled.counter] = Host(K)!Sampled.value]
<1>1. /\ pending # <<>> /\ hStage = "emit" /\ hStage' = "emit" /\ pending' = Tail(pending) /\ left > 0
      /\ UNCHANGED <<handled, life, missed, pending_missed, taking, elapsed, due>>
      /\ sequence' = sequence + 1 /\ hRows' = Host(K)!Emitted(Host(K)!MetricData) /\ left' = left - 1
      /\ previous' = [previous EXCEPT ![Host(K)!Sampled.counter] = Host(K)!Sampled.value]
  BY DEF Host!EmitMetric, Host!Storing, Host!Emit, Host!counts, Host!time
<1>2. /\ PendingIsRest' /\ Len(pending') = Len(pending) - 1
      /\ pending' \in Seq([counter : 1..Counters, value : Nat, interval : Nat])
  BY <1>1, TailPending
<1>3. hRows' \in Seq(HostRows)
  BY <1>1, RowsGrow, SampledIs DEF OrderInv
<1>4. HostTypeOK'
  <2>1. previous' \in [1..Counters -> Nat \union {None}]
    BY <1>1, SampledIs DEF OrderInv, HostTypeOK
  <2>2. left' \in Nat /\ sequence' \in Nat
    BY <1>1 DEF OrderInv, HostTypeOK, Host!Storing
  <2> QED
    BY <1>1, <1>2, <1>3, <2>1, <2>2 DEF OrderInv, HostTypeOK
<1> QED
  BY <1>1, <1>2, <1>4, SampledIs DEF Taking

LEMMA FailedInOrder ==
  ASSUME NEW K,
         HostConstants, OrderInv(K), NEW data, Host(K)!EmitFails(data),
         \/ data \in GapDatas
         \/ data = Host(K)!MetricData /\ pending # <<>> /\ ~Taking
  PROVE  OrderInv(K)'
<1>1. sequence' = sequence + 1 /\ sequence \in Nat /\ Host(K)!Fail /\ (UNCHANGED hRows \/ hRows' = Host(K)!Emitted(data))
  BY DEF Host!EmitFails, OrderInv, HostTypeOK
<1>2. data \in GapDatas \union MetricDatas
  BY SampledIs
<1>3. hRows' \in Seq(HostRows)
  BY <1>1, <1>2, RowsGrow DEF OrderInv, HostTypeOK
<1>4. HostTypeOK' /\ PendingIsRest' /\ ~Taking' /\ pending' = <<>> /\ UNCHANGED <<handled, life>>
  BY <1>1, <1>3, FailTyped
<1>5. handled \in Nat
  BY DEF OrderInv, HostTypeOK
<1>6. CASE UNCHANGED hRows
  BY <1>1, <1>4, <1>5, <1>6, NothingRecorded
<1>7. CASE hRows' = Host(K)!Emitted(data)
  BY <1>1, <1>2, <1>4, <1>7, RecordedInOrder, SampledIs DEF HostConstants
<1> QED
  BY <1>1, <1>6, <1>7

LEMMA OrderStep ==
  ASSUME NEW K,
         HostConstants, OrderInv(K), [Host(K)!HostNext]_(Host(K)!hostVars)
  PROVE  OrderInv(K)'
<1>0. HostTypeOK /\ PendingIsRest /\ handled \in Nat /\ sequence \in Nat
  BY DEF OrderInv, HostTypeOK
<1>1. CASE UNCHANGED Host(K)!hostVars
  <2>1. HostTypeOK' /\ PendingIsRest'
    BY <1>0, <1>1 DEF HostTypeOK, PendingIsRest, Taking, Host!hostVars, Host!time, Host!locals, Host!counts
  <2> QED
    BY <1>0, <1>1, <2>1, NothingRecorded DEF Host!hostVars, Host!locals, Taking
<1>2. CASE Host(K)!Elapse
  <2>1. HostTypeOK' /\ PendingIsRest'
    BY <1>0, <1>2 DEF HostTypeOK, PendingIsRest, Taking, Host!Elapse, Host!locals, Host!counts
  <2> QED
    BY <1>0, <1>2, <2>1, NothingRecorded DEF Host!Elapse, Host!locals, Taking
<1>3. CASE Host(K)!Restart
  BY <1>3, RestartInOrder
<1>4. CASE Host(K)!BeginPoll
  BY <1>0, <1>4, BeginTyped, NothingRecorded
<1>5. CASE Host(K)!SkipGap
  <2>1. /\ hStage = "gap" /\ hStage' = (IF taking THEN "sample" ELSE "emit") /\ taking' = taking
        /\ pending' = pending /\ UNCHANGED <<handled, hRows, life, sequence>> /\ taking \in BOOLEAN
    BY <1>0, <1>5 DEF Host!SkipGap, HostTypeOK
  <2>2. Taking' = Taking
    BY <2>1 DEF Taking
  <2>3. HostTypeOK' /\ PendingIsRest'
    BY <1>0, <1>5, <2>1, <2>2 DEF HostTypeOK, PendingIsRest, Host!SkipGap, Host!time, Host!counts
  <2> QED
    BY <1>0, <2>1, <2>2, <2>3, NothingRecorded
<1>6. CASE Host(K)!EmitGap
  BY <1>6, EmitGapTyped, RecordedInOrder, GapIs DEF Host!EmitGap, Host!Emit, HostConstants
<1>7. CASE Host(K)!Sample
  BY <1>0, <1>7, SampleTyped, NothingRecorded DEF Host!Sample
<1>8. CASE Host(K)!EmitMetric
  BY <1>8, EmitMetricTyped, RecordedInOrder, SampledIs DEF HostConstants
<1>9. CASE Host(K)!EndPoll
  <2>1. /\ hStage' = "idle" /\ hStage = "emit" /\ UNCHANGED <<handled, hRows, life, sequence, pending, taking>>
    BY <1>9 DEF Host!EndPoll
  <2>2. HostTypeOK' /\ PendingIsRest' /\ ~Taking'
    BY <1>0, <1>9, <2>1 DEF HostTypeOK, PendingIsRest, Host!EndPoll, Host!time, Host!counts, Taking
  <2> QED
    BY <1>0, <2>1, <2>2, NothingRecorded
<1>10. CASE Host(K)!GapFails
  BY <1>10, FailedInOrder, GapIs DEF Host!GapFails
<1>11. CASE Host(K)!SampleFails
  <2>1. HostTypeOK' /\ PendingIsRest' /\ ~Taking' /\ pending' = <<>> /\ UNCHANGED <<handled, life>>
    BY <1>0, <1>11, FailTyped DEF Host!SampleFails, HostTypeOK
  <2> QED
    BY <1>0, <1>11, <2>1, NothingRecorded DEF Host!SampleFails
<1>12. CASE Host(K)!MetricFails
  BY <1>12, FailedInOrder DEF Host!MetricFails, Host!Storing, Taking
<1> QED
  BY <1>1, <1>2, <1>3, <1>4, <1>5, <1>6, <1>7, <1>8, <1>9, <1>10, <1>11, <1>12
     DEF Host!HostNext, Host!Step


-----------------------------------------------------------------------------
(* Numbers: of any there is a least, and induction over sets of them. *)
LEMMA LeastOf ==
  ASSUME NEW T \in SUBSET Nat, T # {}
  PROVE  \E n \in T : \A m \in T : ~ (m < n)
<1> DEFINE R == {ss \in Nat \X Nat : ss[1] < ss[2]}
<1>1. IsWellFoundedOn(R, Nat)
  BY NatLessThanWellFounded DEF OpToRel
<1>2. \A x, y \in Nat : x < y => <<x, y>> \in R
  OBVIOUS
<1> HIDE DEF R
<1>3. PICK n \in T : \A m \in T : ~ (<<m, n>> \in R)
  BY <1>1, WFMin
<1> QED
  BY <1>3, <1>2

LEMMA SetInduction ==
  ASSUME NEW S \in SUBSET Nat, 0 \in S, \A n \in S : n + 1 \in S
  PROVE  S = Nat
<1> SUFFICES ASSUME Nat \ S # {} PROVE FALSE
  OBVIOUS
<1>1. PICK n \in Nat \ S : \A m \in Nat \ S : ~ (m < n)
  BY LeastOf
<1>2. n - 1 \in Nat /\ n - 1 < n /\ n = (n - 1) + 1
  OBVIOUS
<1> QED
  BY <1>1, <1>2

(* Sums over finite sets, as MapThenSumSet computes them: of one element   *)
(* chosen and of the rest.                                                 *)
Pick(s) == CHOOSE x \in s : TRUE

(* g tells the sum of f over each part of S *)
IsSum(g, f, S) ==
    /\ g \in [SUBSET S -> Nat]
    /\ \A s \in SUBSET S : g[s] = IF s = {} THEN 0 ELSE f[Pick(s)] + g[s \ {Pick(s)}]

LEMMA PickIs == ASSUME NEW s, s # {} PROVE Pick(s) \in s
  BY DEF Pick

LEMMA Without ==
  ASSUME NEW s, IsFiniteSet(s), NEW x \in s
  PROVE  /\ IsFiniteSet(s \ {x}) /\ Cardinality(s) \in Nat /\ Cardinality(s \ {x}) \in Nat
         /\ Cardinality(s) = Cardinality(s \ {x}) + 1
<1>1. IsFiniteSet(s \ {x}) /\ Cardinality(s \ {x}) = Cardinality(s) - 1
  BY FS_RemoveElement
<1>2. Cardinality(s) \in Nat /\ Cardinality(s \ {x}) \in Nat
  BY <1>1, FS_CardinalityType
<1> QED
  BY <1>1, <1>2

(* There is such a sum: built up by the size of the parts. *)
LEMMA SumExists ==
  ASSUME NEW S, IsFiniteSet(S), NEW f \in [S -> Nat]
  PROVE  \E g : IsSum(g, f, S)
<1> DEFINE Good(g, n) ==
             \A s \in SUBSET S : Cardinality(s) <= n =>
                g[s] = IF s = {} THEN 0 ELSE f[Pick(s)] + g[s \ {Pick(s)}]
           N == {n \in Nat : \E g \in [SUBSET S -> Nat] : Good(g, n)}
<1>1. \A s \in SUBSET S : IsFiniteSet(s) /\ Cardinality(s) \in Nat /\ Cardinality(s) <= Cardinality(S)
  BY FS_Subset, FS_CardinalityType
<1>2. \A s \in SUBSET S : s # {} =>
         /\ Pick(s) \in S /\ f[Pick(s)] \in Nat /\ s \ {Pick(s)} \in SUBSET S
         /\ Cardinality(s) = Cardinality(s \ {Pick(s)}) + 1
  BY <1>1, PickIs, Without
<1>3. 0 \in N
  <2> DEFINE g == [s \in SUBSET S |-> 0]
  <2>1. \A s \in SUBSET S : Cardinality(s) <= 0 => s = {}
    BY <1>1, FS_EmptySet
  <2>2. g \in [SUBSET S -> Nat] /\ \A s \in SUBSET S : g[s] = 0
    OBVIOUS
  <2> HIDE DEF g
  <2>3. Good(g, 0)
    BY <2>1, <2>2
  <2> QED
    BY <2>2, <2>3
<1>4. ASSUME NEW n \in N PROVE n + 1 \in N
  <2>1. PICK g \in [SUBSET S -> Nat] : Good(g, n)
    OBVIOUS
  <2> DEFINE h == [s \in SUBSET S |-> IF s = {} THEN 0
                     ELSE IF Cardinality(s) <= n THEN g[s] ELSE f[Pick(s)] + g[s \ {Pick(s)}]]
  <2>2. h \in [SUBSET S -> Nat]
    <3>1. \A s \in SUBSET S : h[s] \in Nat
      BY <1>2
    <3> QED
      BY <3>1
  <2>3. \A s \in SUBSET S : h[s] = IF s = {} THEN 0
                     ELSE IF Cardinality(s) <= n THEN g[s] ELSE f[Pick(s)] + g[s \ {Pick(s)}]
    OBVIOUS
  <2> HIDE DEF h
  <2>4. \A s \in SUBSET S : Cardinality(s) <= n => h[s] = g[s]
    BY <2>1, <2>3
  <2>5. ASSUME NEW s \in SUBSET S, Cardinality(s) <= n + 1
        PROVE  h[s] = IF s = {} THEN 0 ELSE f[Pick(s)] + h[s \ {Pick(s)}]
    <3>1. CASE s = {}
      BY <2>3, <3>1
    <3>2. CASE s # {}
      <4>1. Cardinality(s \ {Pick(s)}) <= n /\ s \ {Pick(s)} \in SUBSET S
        BY <1>1, <1>2, <2>5, <3>2
      <4>2. h[s] = f[Pick(s)] + g[s \ {Pick(s)}]
        BY <2>1, <2>3, <3>2
      <4> QED
        BY <2>4, <3>2, <4>1, <4>2
    <3> QED
      BY <3>1, <3>2
  <2>6. Good(h, n + 1)
    BY <2>5
  <2>7. n + 1 \in Nat
    OBVIOUS
  <2> HIDE DEF Good
  <2> QED
    BY <2>2, <2>6, <2>7
<1>5. N = Nat
  <2> N \in SUBSET Nat
    OBVIOUS
  <2> HIDE DEF N
  <2> QED
    BY <1>3, <1>4, SetInduction
<1>6. Cardinality(S) \in N
  BY <1>5, FS_CardinalityType
<1>7. PICK g \in [SUBSET S -> Nat] : Good(g, Cardinality(S))
  BY <1>6
<1>8. IsSum(g, f, S)
  BY <1>1, <1>7 DEF IsSum
<1> QED
  BY <1>8

(* What a sum over a set says of its parts is what a sum over them says. *)
LEMMA SumsAgree ==
  ASSUME NEW S, IsFiniteSet(S), NEW T, S \subseteq T, NEW f, NEW h, NEW g1, NEW g2,
         IsSum(g1, f, S), IsSum(g2, h, T), \A x \in S : f[x] = h[x]
  PROVE  \A s \in SUBSET S : g1[s] = g2[s]
<1> SUFFICES ASSUME NEW z \in SUBSET S, g1[z] # g2[z] PROVE FALSE
  OBVIOUS
<1>1. \A s \in SUBSET S : IsFiniteSet(s) /\ Cardinality(s) \in Nat
  BY FS_Subset, FS_CardinalityType
<1> DEFINE N == {n \in Nat : \E s \in SUBSET S : Cardinality(s) = n /\ g1[s] # g2[s]}
<1>2. Cardinality(z) \in N
  BY <1>1
<1>3. PICK n \in N : \A m \in N : ~ (m < n)
  BY <1>2, LeastOf
<1>4. PICK s \in SUBSET S : Cardinality(s) = n /\ g1[s] # g2[s]
  BY <1>3
<1>5. s # {}
  BY <1>4 DEF IsSum
<1>6. Pick(s) \in s /\ s \ {Pick(s)} \in SUBSET S /\ Cardinality(s) = Cardinality(s \ {Pick(s)}) + 1
  BY <1>1, <1>5, PickIs, Without
<1>7. Cardinality(s \ {Pick(s)}) \in Nat /\ Cardinality(s \ {Pick(s)}) < n
  BY <1>1, <1>4, <1>6
<1>8. g1[s \ {Pick(s)}] = g2[s \ {Pick(s)}]
  BY <1>3, <1>6, <1>7
<1>9. g1[s] = f[Pick(s)] + g1[s \ {Pick(s)}] /\ g2[s] = h[Pick(s)] + g2[s \ {Pick(s)}]
  BY <1>5, <1>6 DEF IsSum
<1> QED
  BY <1>4, <1>6, <1>8, <1>9

(* It does not matter which element is taken first. *)
LEMMA AnyFirst ==
  ASSUME NEW S, IsFiniteSet(S), NEW f \in [S -> Nat], NEW g, IsSum(g, f, S)
  PROVE  \A s \in SUBSET S : \A x \in s : g[s] = f[x] + g[s \ {x}]
<1> SUFFICES ASSUME NEW z \in SUBSET S, NEW y \in z, g[z] # f[y] + g[z \ {y}] PROVE FALSE
  OBVIOUS
<1>1. \A s \in SUBSET S : IsFiniteSet(s) /\ Cardinality(s) \in Nat /\ g[s] \in Nat
  BY FS_Subset, FS_CardinalityType DEF IsSum
<1> DEFINE N == {n \in Nat : \E s \in SUBSET S : Cardinality(s) = n /\ \E x \in s : g[s] # f[x] + g[s \ {x}]}
<1>2. Cardinality(z) \in N
  BY <1>1
<1>3. PICK n \in N : \A m \in N : ~ (m < n)
  BY <1>2, LeastOf
<1>4. PICK s \in SUBSET S : Cardinality(s) = n /\ \E x \in s : g[s] # f[x] + g[s \ {x}]
  BY <1>3
<1>5. PICK x \in s : g[s] # f[x] + g[s \ {x}]
  BY <1>4
<1> DEFINE p == Pick(s)
<1>6. p \in s
  BY <1>5, PickIs
<1>7. g[s] = f[p] + g[s \ {p}]
  BY <1>5 DEF IsSum
<1> HIDE DEF p
<1>8. p # x
  BY <1>5, <1>7
<1>9. \A t \in SUBSET S : Cardinality(t) < n => \A v \in t : g[t] = f[v] + g[t \ {v}]
  BY <1>1, <1>3
<1>10. s \ {p} \in SUBSET S /\ s \ {x} \in SUBSET S /\ Cardinality(s \ {p}) < n /\ Cardinality(s \ {x}) < n
  <2>1. \A v \in s : Cardinality(s) = Cardinality(s \ {v}) + 1 /\ Cardinality(s \ {v}) \in Nat
    BY <1>1, Without
  <2>2. \A v \in s : Cardinality(s \ {v}) < n
    BY <2>1, <1>4
  <2> QED
    BY <2>2, <1>6
<1>11. x \in s \ {p} /\ p \in s \ {x}
  BY <1>6, <1>8
<1>12. g[s \ {p}] = f[x] + g[(s \ {p}) \ {x}]
  BY <1>9, <1>10, <1>11
<1>13. g[s \ {x}] = f[p] + g[(s \ {x}) \ {p}]
  BY <1>9, <1>10, <1>11
<1>14. (s \ {p}) \ {x} = (s \ {x}) \ {p} /\ (s \ {p}) \ {x} \in SUBSET S
  BY <1>10
<1>15. f[p] \in Nat /\ f[x] \in Nat /\ g[(s \ {p}) \ {x}] \in Nat
  BY <1>1, <1>6, <1>14
<1>16. \A a, b, c \in Nat : a + (b + c) = b + (a + c)
  OBVIOUS
<1>17. f[p] + (f[x] + g[(s \ {p}) \ {x}]) = f[x] + (f[p] + g[(s \ {p}) \ {x}])
  BY <1>15, <1>16
<1>18. g[s] = f[x] + g[s \ {x}]
  BY <1>7, <1>12, <1>13, <1>14, <1>17
<1> QED
  BY <1>5, <1>18

-----------------------------------------------------------------------------
(* What was told in this life is such a sum. *)
Counted(T) == [i \in T |-> hRows[i].data.gap]
ToldIn(K) == {i \in Host(K)!Gaps : hRows[i].life = life}

LEMMA ToldIsSum ==
  ASSUME NEW K,
         IsFiniteSet(ToldIn(K)), Counted(ToldIn(K)) \in [ToldIn(K) -> Nat]
  PROVE  \E g : IsSum(g, Counted(ToldIn(K)), ToldIn(K)) /\ Host(K)!Told = g[ToldIn(K)]
<1> DEFINE S == ToldIn(K)
           body(g) == [s \in SUBSET S |-> IF s = {} THEN 0
                        ELSE hRows[CHOOSE x \in s : TRUE].data.gap + g[s \ {CHOOSE x \in s : TRUE}]]
<1>1. Host(K)!Told = (CHOOSE g : g = body(g))[S]
  BY DEF Host!Told, Host!MapThenSumSet, Host!MapThenFoldSet, ToldIn
<1>2. PICK h : IsSum(h, Counted(S), S)
  BY SumExists
<1>3. \A s \in SUBSET S : s # {} => Counted(S)[Pick(s)] = hRows[CHOOSE x \in s : TRUE].data.gap
  BY PickIs DEF Pick, Counted
<1>4. h = body(h)
  <2>1. \A s \in SUBSET S : h[s] = body(h)[s]
    BY <1>2, <1>3 DEF IsSum, Pick
  <2> QED
    BY <1>2, <2>1 DEF IsSum
<1> DEFINE G == CHOOSE g : g = body(g)
<1>5. G = body(G)
  BY <1>4
<1> HIDE DEF G
<1>6. IsSum(G, Counted(S), S)
  <2>1. \A s \in SUBSET S : G[s] = IF s = {} THEN 0 ELSE Counted(S)[Pick(s)] + G[s \ {Pick(s)}]
    <3>1. \A s \in SUBSET S : G[s] = IF s = {} THEN 0
             ELSE hRows[CHOOSE x \in s : TRUE].data.gap + G[s \ {CHOOSE x \in s : TRUE}]
      BY <1>5
    <3> QED
      BY <3>1, <1>3 DEF Pick
  <2>2. \A s \in SUBSET S : G[s] \in Nat
    <3> SUFFICES ASSUME NEW z \in SUBSET S, G[z] \notin Nat PROVE FALSE
      OBVIOUS
    <3> DEFINE N == {n \in Nat : \E s \in SUBSET S : Cardinality(s) = n /\ G[s] \notin Nat}
    <3>1. \A s \in SUBSET S : IsFiniteSet(s) /\ Cardinality(s) \in Nat
      BY FS_Subset, FS_CardinalityType
    <3>2. Cardinality(z) \in N
      BY <3>1
    <3>3. PICK n \in N : \A m \in N : ~ (m < n)
      BY <3>2, LeastOf
    <3>4. PICK s \in SUBSET S : Cardinality(s) = n /\ G[s] \notin Nat
      BY <3>3
    <3>5. s # {}
      BY <2>1, <3>4
    <3>6. Pick(s) \in s /\ s \ {Pick(s)} \in SUBSET S /\ Cardinality(s) = Cardinality(s \ {Pick(s)}) + 1
      BY <3>1, <3>5, PickIs, Without
    <3>7. Cardinality(s \ {Pick(s)}) \in Nat /\ Cardinality(s \ {Pick(s)}) < n
      BY <3>1, <3>4, <3>6
    <3>8. G[s \ {Pick(s)}] \in Nat
      BY <3>3, <3>6, <3>7
    <3>9. Counted(S)[Pick(s)] \in Nat
      BY <3>6
    <3>10. G[s] = Counted(S)[Pick(s)] + G[s \ {Pick(s)}]
      BY <2>1, <3>5
    <3>11. G[s] \in Nat
      BY <3>8, <3>9, <3>10
    <3> QED
      BY <3>4, <3>11
  <2>3. G \in [SUBSET S -> Nat]
    <3>1. G = [s \in SUBSET S |-> G[s]]
      BY <1>5
    <3> QED
      BY <3>1, <2>2
  <2> QED
    BY <2>1, <2>3 DEF IsSum
<1> QED
  BY <1>1, <1>6 DEF G

(* One element more. *)
LEMMA SumGrows ==
  ASSUME NEW S, IsFiniteSet(S), NEW T, NEW n, n \notin S, T = S \union {n}, NEW f \in [S -> Nat], NEW h \in [T -> Nat],
         \A x \in S : h[x] = f[x], NEW g1, IsSum(g1, f, S), NEW g2, IsSum(g2, h, T)
  PROVE  g2[T] = g1[S] + h[n]
<1>1. IsFiniteSet(T)
  BY FS_AddElement
<1>2. g2[T] = h[n] + g2[T \ {n}]
  BY <1>1, AnyFirst
<1>3. T \ {n} = S
  OBVIOUS
<1>4. g1[S] = g2[S]
  <2>1. S \subseteq T /\ S \in SUBSET S /\ \A x \in S : f[x] = h[x]
    OBVIOUS
  <2>2. \A s \in SUBSET S : g1[s] = g2[s]
    BY <2>1, SumsAgree
  <2> QED
    BY <2>1, <2>2
<1>5. g1[S] \in Nat /\ h[n] \in Nat
  BY DEF IsSum
<1> QED
  BY <1>2, <1>3, <1>4, <1>5


(* What was told of this life is a sum, of its gap records' counts. *)
ToldFact(K) ==
    IsFiniteSet(ToldIn(K)) /\ Counted(ToldIn(K)) \in [ToldIn(K) -> Nat] =>
      \E g : IsSum(g, Counted(ToldIn(K)), ToldIn(K)) /\ Host(K)!Told = g[ToldIn(K)]

LEMMA ToldHolds ==
  ASSUME NEW K
  PROVE  ToldFact(K)
  BY ToldIsSum DEF ToldFact

LEMMA ToldHoldsNext ==
  ASSUME NEW K
  PROVE  ToldFact(K)'
  BY ToldHolds, PTL

LEMMA ToldInIs ==
  ASSUME NEW K,
         HostTypeOK
  PROVE  /\ IsFiniteSet(ToldIn(K)) /\ ToldIn(K) \subseteq 1..Len(hRows) /\ Len(hRows) \in Nat
         /\ Counted(ToldIn(K)) \in [ToldIn(K) -> Nat]
<1>1. DOMAIN hRows = 1..Len(hRows) /\ Len(hRows) \in Nat /\ hRows \in Seq(HostRows)
  BY DEF HostTypeOK
<1>2. ToldIn(K) \subseteq 1..Len(hRows)
  BY <1>1 DEF ToldIn, Host!Gaps
<1>3. IsFiniteSet(ToldIn(K))
  <2>1. IsFiniteSet(1..Len(hRows))
    BY <1>1, FS_Interval
  <2> QED
    BY <1>2, <2>1, FS_Subset
<1>4. ASSUME NEW i \in ToldIn(K) PROVE hRows[i].data.gap \in Nat
  <2>1. hRows[i] \in HostRows /\ "gap" \in DOMAIN hRows[i].data
    BY <1>1, <1>2, SeqAt DEF ToldIn, Host!Gaps
  <2>2. hRows[i].data \in GapDatas \union MetricDatas
    BY <2>1 DEF HostRows
  <2>3. hRows[i].data \in GapDatas
    BY <2>1, <2>2 DEF MetricDatas
  <2> QED
    BY <2>3 DEF GapDatas
<1>5. Counted(ToldIn(K)) \in [ToldIn(K) -> Nat]
  BY <1>4 DEF Counted
<1> QED
  BY <1>1, <1>2, <1>3, <1>5

(* Nothing told, a gap told, and another life, of which nothing is told.   *)
LEMMA ToldSame ==
  ASSUME NEW K,
         HostTypeOK, HostTypeOK', ToldIn(K)' = ToldIn(K),
         \A i \in ToldIn(K) : hRows'[i].data = hRows[i].data
  PROVE  Host(K)!Told' = Host(K)!Told /\ Host(K)!Told \in Nat
<1>1. IsFiniteSet(ToldIn(K)) /\ Counted(ToldIn(K)) \in [ToldIn(K) -> Nat]
  BY ToldInIs
<1>2. Counted(ToldIn(K))' = Counted(ToldIn(K))
  BY DEF Counted
<1>3. PICK g : IsSum(g, Counted(ToldIn(K)), ToldIn(K)) /\ Host(K)!Told = g[ToldIn(K)]
  BY <1>1, ToldHolds DEF ToldFact
<1>4. PICK h : IsSum(h, Counted(ToldIn(K)), ToldIn(K)) /\ Host(K)!Told' = h[ToldIn(K)]
  BY <1>1, <1>2, ToldHoldsNext DEF ToldFact
<1>5. \A s \in SUBSET ToldIn(K) : g[s] = h[s]
  BY <1>1, <1>3, <1>4, SumsAgree
<1> QED
  BY <1>3, <1>4, <1>5 DEF IsSum

LEMMA ToldMore ==
  ASSUME NEW K,
         HostTypeOK, HostTypeOK', UNCHANGED life, NEW data \in GapDatas, hRows' = Host(K)!Emitted(data)
  PROVE  Host(K)!Told' = Host(K)!Told + data.gap
<1>1. /\ DOMAIN hRows = 1..Len(hRows) /\ DOMAIN hRows' = 1..(Len(hRows) + 1) /\ Len(hRows) \in Nat
      /\ \A i \in 1..Len(hRows) : hRows'[i] = hRows[i]
      /\ hRows'[Len(hRows) + 1] = [life |-> life, sequence |-> sequence + 1, data |-> data]
  BY RowsGrow
<1>2. "gap" \in DOMAIN data
  BY DEF GapDatas
<1>3. ToldIn(K)' = ToldIn(K) \union {Len(hRows) + 1}
  BY <1>1, <1>2 DEF ToldIn, Host!Gaps
<1>4. /\ IsFiniteSet(ToldIn(K)) /\ ToldIn(K) \subseteq 1..Len(hRows) /\ Counted(ToldIn(K)) \in [ToldIn(K) -> Nat]
      /\ Len(hRows) + 1 \notin ToldIn(K)
  BY <1>1, ToldInIs
<1>5. data.gap \in Nat
  BY DEF GapDatas
<1> DEFINE T == ToldIn(K) \union {Len(hRows) + 1}
           f == [i \in T |-> hRows'[i].data.gap]
<1>6. Counted(ToldIn(K))' = f
  BY <1>3 DEF Counted
<1>7. /\ \A i \in ToldIn(K) : f[i] = Counted(ToldIn(K))[i] /\ Counted(ToldIn(K))[i] \in Nat
      /\ f[Len(hRows) + 1] = data.gap
  BY <1>1, <1>4 DEF Counted
<1>8. f \in [T -> Nat]
  <2>1. \A i \in T : f[i] \in Nat
    BY <1>5, <1>7
  <2> QED
    BY <2>1
<1>9. IsFiniteSet(T)
  BY <1>4, FS_AddElement
<1> HIDE DEF f
<1>10. PICK g : IsSum(g, Counted(ToldIn(K)), ToldIn(K)) /\ Host(K)!Told = g[ToldIn(K)]
  BY <1>4, ToldHolds DEF ToldFact
<1>11. PICK h : IsSum(h, f, T) /\ Host(K)!Told' = h[T]
  BY <1>3, <1>6, <1>8, <1>9, ToldHoldsNext DEF ToldFact
<1>12. h[T] = g[ToldIn(K)] + f[Len(hRows) + 1]
  <2>1. \A x \in ToldIn(K) : f[x] = Counted(ToldIn(K))[x]
    BY <1>7
  <2>2. T = ToldIn(K) \union {Len(hRows) + 1}
    OBVIOUS
  <2> HIDE DEF T
  <2> QED
    BY <1>4, <1>8, <1>10, <1>11, <2>1, <2>2, SumGrows
<1> QED
  BY <1>7, <1>10, <1>11, <1>12

LEMMA ToldNothing ==
  ASSUME NEW K,
         HostTypeOK, ToldIn(K) = {}
  PROVE  Host(K)!Told = 0
<1>1. PICK g : IsSum(g, Counted(ToldIn(K)), ToldIn(K)) /\ Host(K)!Told = g[ToldIn(K)]
  BY ToldHolds, ToldInIs DEF ToldFact
<1> QED
  BY <1>1 DEF IsSum

ToldNothingFact(K) == HostTypeOK /\ ToldIn(K) = {} => Host(K)!Told = 0
LEMMA ToldNothingNext ==
  ASSUME NEW K
  PROVE  ToldNothingFact(K)'
<1>1. ToldNothingFact(K)
  BY ToldNothing DEF ToldNothingFact
<1> QED
  BY <1>1, PTL


(* Samples of the interval that are not pending are recorded; and the      *)
(* values compared with are those recorded last.                           *)
RestIsRecorded(K) ==
    pending # <<>> =>
      \A c \in 1..(Counters - Len(pending)) :
        \E i \in Host(K)!Metrics : /\ hRows[i].life = life
                                   /\ hRows[i].data.interval = handled
                                   /\ hRows[i].data.counter = c

LastOf(K, i, c) ==
    /\ i \in Host(K)!Metrics /\ hRows[i].life = life /\ hRows[i].data.counter = c
    /\ \A j \in Host(K)!Metrics : j > i => hRows[j].data.counter # c

PreviousIsLast(K) ==
    \A c \in 1..Counters :
      IF previous[c] = None THEN \A i \in Host(K)!Metrics : hRows[i].life = life => hRows[i].data.counter # c
      ELSE \E i \in Host(K)!Metrics : LastOf(K, i, c) /\ hRows[i].data.value = previous[c]

ReportInv(K) ==
    /\ OrderInv(K) /\ RestIsRecorded(K) /\ PreviousIsLast(K)
    /\ Host(K)!MissedToldOnce /\ Host(K)!IntervalsAccounted /\ Host(K)!ResetsTold

(* An interval was begun and is neither whole nor missed. *)
IntervalOpen == pending # <<>> \/ Taking

(* What IntervalsAccounted says. *)
LEMMA IntervalOpenIs ==
  ASSUME NEW K
  PROVE  Host(K)!IntervalsAccounted <=>
handled = Cardinality({n \in 1..handled : Host(K)!Complete(n)}) + missed + (IF IntervalOpen THEN 1 ELSE 0)
  BY HostCounts DEF Host!IntervalsAccounted, IntervalOpen, Taking

(* The interval that is open is not yet complete, nor is a later one. *)
LEMMA NotComplete ==
  ASSUME NEW K,
         OrderInv(K), HostConstants
  PROVE  /\ IntervalOpen => ~Host(K)!Complete(handled)
         /\ \A n \in Nat : n > handled => ~Host(K)!Complete(n)
<1>1. Counters \in 1..Counters /\ Counters \in Nat
  BY DEF HostConstants
<1>2. \A i \in Host(K)!Metrics : hRows[i].life = life =>
         /\ hRows[i].data.interval <= handled
         /\ Taking => hRows[i].data.interval < handled
         /\ pending # <<>> /\ hRows[i].data.interval = handled
              => hRows[i].data.counter <= Counters - Len(pending)
  BY DEF OrderInv, RowsAreBefore
<1>3. \A i \in Host(K)!Metrics : hRows[i].data.interval \in Nat /\ hRows[i].data.counter \in 1..Counters
  BY MetricIs DEF OrderInv, MetricDatas
<1>4. handled \in Nat /\ Len(pending) \in Nat /\ (pending # <<>> => Len(pending) >= 1)
  BY DEF OrderInv, HostTypeOK
<1>5. ASSUME NEW n \in Nat, Host(K)!Complete(n) PROVE ~IntervalOpen \/ n # handled
  <2>1. PICK i \in Host(K)!Metrics : hRows[i].life = life /\ hRows[i].data.interval = n /\ hRows[i].data.counter = Counters
    BY <1>1, <1>5 DEF Host!Complete
  <2> QED
    BY <1>1, <1>2, <1>3, <1>4, <2>1 DEF IntervalOpen
<1>6. ASSUME NEW n \in Nat, Host(K)!Complete(n) PROVE ~ (n > handled)
  <2>1. PICK i \in Host(K)!Metrics : hRows[i].life = life /\ hRows[i].data.interval = n
    BY <1>1, <1>6 DEF Host!Complete
  <2> QED
    BY <1>2, <1>3, <1>4, <2>1
<1> QED
  BY <1>4, <1>5, <1>6

(* The same, said of the state after a step. *)
NotCompleteFact(K) == HostConstants /\ OrderInv(K) /\ IntervalOpen => ~Host(K)!Complete(handled)
LEMMA NotCompleteNext ==
  ASSUME NEW K
  PROVE  NotCompleteFact(K)'
<1>1. NotCompleteFact(K)
  BY NotComplete DEF NotCompleteFact
<1> QED
  BY <1>1, PTL

(* Counts of intervals are numbers. *)
LEMMA WholeCount ==
  ASSUME NEW n \in Nat, NEW W, W \subseteq 1..n
  PROVE  IsFiniteSet(W) /\ Cardinality(W) \in Nat
<1>1. IsFiniteSet(1..n)
  BY FS_Interval
<1> QED
  BY <1>1, FS_Subset, FS_CardinalityType

(* A step that records nothing, of the same life. *)
LEMMA NothingReported ==
  ASSUME NEW K,
         HostConstants, ReportInv(K), OrderInv(K)', UNCHANGED <<hRows, life, previous>>,
         pending' = <<>> \/ (pending' = pending /\ handled' = handled) \/ Len(pending') = Counters,
         NEW k \in Nat, missed' = missed + k, pending_missed' = pending_missed + k,
         \/ handled' = handled /\ k = 0 /\ (IntervalOpen' <=> IntervalOpen)
         \/ handled' = handled /\ k = 1 /\ IntervalOpen /\ ~IntervalOpen'
         \/ handled' = handled + 1 /\ k = (IF IntervalOpen THEN 1 ELSE 0) /\ IntervalOpen'
  PROVE  ReportInv(K)'
<1>1. Host(K)!Metrics' = Host(K)!Metrics /\ Host(K)!Gaps' = Host(K)!Gaps
  BY DEF Host!Metrics, Host!Gaps
<1>2. HostTypeOK /\ HostTypeOK'
  BY DEF ReportInv, OrderInv
<1>3. RestIsRecorded(K)'
  <2>1. CASE pending' = <<>>
    BY <2>1 DEF RestIsRecorded
  <2>2. CASE pending' = pending /\ handled' = handled
    BY <1>1, <2>2 DEF ReportInv, RestIsRecorded
  <2>3. CASE Len(pending') = Counters
    <3>1. 1..(Counters - Len(pending')) = {}
      BY <2>3 DEF HostConstants
    <3> QED
      BY <3>1 DEF RestIsRecorded
  <2> QED
    BY <2>1, <2>2, <2>3
<1>4. PreviousIsLast(K)'
  BY <1>1 DEF ReportInv, PreviousIsLast, LastOf
<1>5. Host(K)!ResetsTold'
  BY <1>1 DEF ReportInv, Host!ResetsTold
<1>6. Host(K)!MissedToldOnce'
  <2>1. Host(K)!Told' = Host(K)!Told /\ Host(K)!Told \in Nat
    <3>1. ToldIn(K)' = ToldIn(K)
      BY <1>1 DEF ToldIn
    <3> QED
      BY <1>2, <3>1, ToldSame
  <2>2. Host(K)!Told + pending_missed = missed
    BY DEF ReportInv, Host!MissedToldOnce
  <2>3. missed \in Nat /\ pending_missed \in Nat /\ missed' \in Nat /\ pending_missed' \in Nat
    BY <1>2 DEF HostTypeOK
  <2>5. Host(K)!Told + pending_missed' = missed'
    BY <2>1, <2>2, <2>3
  <2> QED
    BY <2>1, <2>5 DEF Host!MissedToldOnce
<1>7. \A n : Host(K)!Complete(n)' <=> Host(K)!Complete(n)
  BY <1>1 DEF Host!Complete
<1>8. {n \in 1..handled : Host(K)!Complete(n)}' = {n \in 1..handled : Host(K)!Complete(n)}
  <2>1. CASE handled' = handled
    BY <1>7, <2>1
  <2>2. CASE handled' = handled + 1
    <3>1. handled \in Nat /\ ~Host(K)!Complete(handled + 1)
      BY <1>2, NotComplete DEF ReportInv, HostTypeOK
    <3>2. 1..handled' = 1..handled \union {handled + 1}
      BY <2>2, <3>1
    <3> QED
      BY <1>7, <3>1, <3>2
  <2> QED
    BY <2>1, <2>2
<1>9. Host(K)!IntervalsAccounted'
  <2> DEFINE W == {n \in 1..handled : Host(K)!Complete(n)}
  <2>1. W \subseteq 1..handled /\ handled \in Nat /\ missed \in Nat /\ missed' \in Nat /\ W' = W
    BY <1>2, <1>8 DEF HostTypeOK
  <2>2. handled = Cardinality(W) + missed + (IF IntervalOpen THEN 1 ELSE 0)
    BY IntervalOpenIs DEF ReportInv
  <2> HIDE DEF W
  <2>3. Cardinality(W) \in Nat
    BY <2>1, WholeCount
  <2>4. handled' = Cardinality(W) + missed' + (IF IntervalOpen' THEN 1 ELSE 0)
    <3>1. CASE handled' = handled /\ k = 0 /\ (IntervalOpen' <=> IntervalOpen)
      BY <2>1, <2>2, <2>3, <3>1
    <3>2. CASE handled' = handled /\ k = 1 /\ IntervalOpen /\ ~IntervalOpen'
      BY <2>1, <2>2, <2>3, <3>2
    <3>3. CASE handled' = handled + 1 /\ k = (IF IntervalOpen THEN 1 ELSE 0) /\ IntervalOpen'
      BY <2>1, <2>2, <2>3, <3>3
    <3> QED
      BY <3>1, <3>2, <3>3
  <2>5. (Host(K)!IntervalsAccounted <=> handled = Cardinality(W) + missed + (IF IntervalOpen THEN 1 ELSE 0))'
    BY IntervalOpenIs, PTL DEF W
  <2> QED
    BY <2>1, <2>4, <2>5
<1> QED
  BY <1>3, <1>4, <1>5, <1>6, <1>9 DEF ReportInv

(* What is missed is told. *)
LEMMA GapReported ==
  ASSUME NEW K,
         HostConstants, ReportInv(K), OrderInv(K)', Host(K)!EmitGap
  PROVE  ReportInv(K)'
<1>1. HostTypeOK /\ HostTypeOK' /\ Host(K)!GapData \in GapDatas
  BY GapIs DEF ReportInv, OrderInv
<1>2. /\ hRows' = Host(K)!Emitted(Host(K)!GapData) /\ pending_missed' = 0
      /\ UNCHANGED <<life, handled, taking, pending, previous, missed>>
      /\ hStage = "gap" /\ hStage' = IF taking THEN "sample" ELSE "emit"
  BY DEF Host!EmitGap, Host!Emit
<1>3. Host(K)!Metrics' = Host(K)!Metrics /\ \A i \in Host(K)!Metrics : hRows'[i] = hRows[i]
  BY <1>1, <1>2, RowsGrow
<1>4. RestIsRecorded(K)' /\ PreviousIsLast(K)'
  BY <1>2, <1>3 DEF ReportInv, RestIsRecorded, PreviousIsLast, LastOf
<1>5. Host(K)!ResetsTold'
  BY <1>3 DEF ReportInv, Host!ResetsTold
<1>6. Host(K)!MissedToldOnce'
  <2>1. Host(K)!Told' = Host(K)!Told + Host(K)!GapData.gap
    BY <1>1, <1>2, ToldMore
  <2>2. Host(K)!GapData.gap = pending_missed
    BY DEF Host!GapData
  <2>3. Host(K)!Told' = missed /\ missed' = missed /\ missed \in Nat
    BY <1>1, <1>2, <2>1, <2>2 DEF ReportInv, Host!MissedToldOnce, HostTypeOK
  <2> QED
    BY <1>2, <2>3 DEF Host!MissedToldOnce
<1>7. Host(K)!IntervalsAccounted'
  <2>1. \A n : Host(K)!Complete(n)' <=> Host(K)!Complete(n)
    BY <1>2, <1>3 DEF Host!Complete
  <2>2. {n \in 1..handled : Host(K)!Complete(n)}' = {n \in 1..handled : Host(K)!Complete(n)}
    BY <1>2, <2>1
  <2>3. IntervalOpen' <=> IntervalOpen
    BY <1>1, <1>2 DEF IntervalOpen, Taking, HostTypeOK
  <2>4. (Host(K)!IntervalsAccounted <=>
          handled = Cardinality({n \in 1..handled : Host(K)!Complete(n)}) + missed + (IF IntervalOpen THEN 1 ELSE 0))'
    BY IntervalOpenIs, PTL
  <2> QED
    BY <1>2, <2>2, <2>3, <2>4, IntervalOpenIs DEF ReportInv
<1> QED
  BY <1>4, <1>5, <1>6, <1>7 DEF ReportInv

(* A sample is recorded: the last of its interval makes it complete. *)
LEMMA MetricReported ==
  ASSUME NEW K,
         HostConstants, ReportInv(K), OrderInv(K)', Host(K)!EmitMetric
  PROVE  ReportInv(K)'
<1> DEFINE n == Len(hRows) + 1
           c == Host(K)!Sampled.counter
<1>1. HostTypeOK /\ HostTypeOK' /\ OrderInv(K)
  BY DEF ReportInv, OrderInv
<1>2. /\ hRows' = Host(K)!Emitted(Host(K)!MetricData) /\ Host(K)!MetricData \in MetricDatas /\ pending # <<>>
      /\ pending' = Tail(pending) /\ Len(pending') = Len(pending) - 1
      /\ UNCHANGED <<handled, life, missed, pending_missed>> /\ ~Taking /\ ~Taking'
      /\ previous' = [previous EXCEPT ![c] = Host(K)!Sampled.value]
  BY <1>1, EmitMetricTyped
<1>3. /\ c \in 1..Counters /\ c = Counters - Len(pending) + 1 /\ Host(K)!Sampled.value \in Nat
      /\ Len(pending) \in Nat /\ Len(pending) >= 1
      /\ Host(K)!MetricData.counter = c /\ Host(K)!MetricData.interval = handled
      /\ Host(K)!MetricData.value = Host(K)!Sampled.value /\ Host(K)!MetricData.reset = Host(K)!IsReset
  BY <1>1, <1>2, SampledIs
<1>4. Host(K)!MetricData \notin GapDatas
  <2>1. "gap" \notin DOMAIN Host(K)!MetricData
    BY <1>2 DEF MetricDatas
  <2> QED
    BY <2>1 DEF GapDatas
<1>5. /\ Len(hRows) \in Nat /\ Host(K)!Metrics \subseteq 1..Len(hRows) /\ Host(K)!Metrics' = Host(K)!Metrics \union {n}
      /\ DOMAIN hRows = 1..Len(hRows) /\ DOMAIN hRows' = 1..n
      /\ \A i \in 1..Len(hRows) : hRows'[i] = hRows[i]
      /\ hRows'[n] = [life |-> life, sequence |-> sequence + 1, data |-> Host(K)!MetricData]
  BY <1>1, <1>2, RowsGrow
<1>6. n \in Nat /\ n \notin 1..Len(hRows) /\ \A i \in Host(K)!Metrics : i < n /\ i \in Nat /\ ~ (n < i) /\ i # n
  BY <1>5
<1>7. /\ hRows'[n].life = life /\ hRows'[n].data = Host(K)!MetricData
      /\ \A i \in Host(K)!Metrics : hRows'[i] = hRows[i]
  <2>1. hRows'[n].life = life /\ hRows'[n].data = Host(K)!MetricData
    BY <1>5
  <2>2. \A i \in Host(K)!Metrics : hRows'[i] = hRows[i]
    BY <1>5
  <2> QED
    BY <2>1, <2>2
<1> HIDE DEF n, c
<1>8. RestIsRecorded(K)'
  <2>1. SUFFICES ASSUME pending' # <<>>, NEW k \in 1..(Counters - Len(pending'))
                 PROVE  \E i \in Host(K)!Metrics' : /\ hRows'[i].life = life' /\ hRows'[i].data.interval = handled'
                                                    /\ hRows'[i].data.counter = k
    BY DEF RestIsRecorded
  <2>2. CASE k = c
    BY <1>2, <1>3, <1>5, <1>7, <2>2
  <2>3. CASE k # c
    <3>1. k \in 1..(Counters - Len(pending))
      BY <1>2, <1>3, <2>3 DEF HostConstants
    <3>2. PICK i \in Host(K)!Metrics : hRows[i].life = life /\ hRows[i].data.interval = handled /\ hRows[i].data.counter = k
      BY <1>2, <3>1 DEF ReportInv, RestIsRecorded
    <3> QED
      BY <1>2, <1>5, <1>7, <3>2
  <2> QED
    BY <2>2, <2>3
<1>9. PreviousIsLast(K)'
  <2> SUFFICES ASSUME NEW k \in 1..Counters
      PROVE IF previous'[k] = None THEN \A i \in Host(K)!Metrics' : hRows'[i].life = life' => hRows'[i].data.counter # k
            ELSE \E i \in Host(K)!Metrics' : LastOf(K, i, k)' /\ hRows'[i].data.value = previous'[k]
    BY DEF PreviousIsLast
  <2>0. previous \in [1..Counters -> Nat \union {None}]
    BY <1>1 DEF HostTypeOK
  <2>1. CASE k = c
    <3>1. previous'[k] = Host(K)!Sampled.value /\ previous'[k] # None
      BY <1>2, <1>3, <2>0, <2>1 DEF HostConstants
    <3>2. n \in Host(K)!Metrics' /\ hRows'[n].life = life' /\ hRows'[n].data.counter = k
          /\ hRows'[n].data.value = previous'[k]
      BY <1>2, <1>3, <1>5, <1>7, <2>1, <3>1
    <3>3. \A j \in Host(K)!Metrics' : ~ (j > n)
      BY <1>5, <1>6
    <3>4. \E i \in Host(K)!Metrics' : LastOf(K, i, k)' /\ hRows'[i].data.value = previous'[k]
      <4>1. \A j \in Host(K)!Metrics' : j > n => hRows'[j].data.counter # k
        BY <3>3
      <4> QED
        BY <3>2, <4>1 DEF LastOf
    <3> QED
      BY <3>1, <3>4
  <2>2. CASE k # c
    <3>1. previous'[k] = previous[k]
      BY <1>2, <2>0, <2>2
    <3>2. IF previous[k] = None THEN \A i \in Host(K)!Metrics : hRows[i].life = life => hRows[i].data.counter # k
          ELSE \E i \in Host(K)!Metrics : LastOf(K, i, k) /\ hRows[i].data.value = previous[k]
      BY DEF ReportInv, PreviousIsLast
    <3>3. CASE previous[k] = None
      BY <1>2, <1>3, <1>5, <1>7, <2>2, <3>1, <3>2, <3>3
    <3>4. CASE previous[k] # None
      <4>1. PICK i \in Host(K)!Metrics : LastOf(K, i, k) /\ hRows[i].data.value = previous[k]
        BY <3>2, <3>4
      <4>2. LastOf(K, i, k)'
        BY <1>2, <1>3, <1>5, <1>7, <2>2, <4>1 DEF LastOf
      <4> QED
        BY <1>5, <1>7, <3>1, <3>4, <4>1, <4>2
    <3> QED
      BY <3>3, <3>4
  <2> QED
    BY <2>1, <2>2
<1>10. Host(K)!ResetsTold'
  <2> SUFFICES ASSUME NEW i \in Host(K)!Metrics', NEW j \in Host(K)!Metrics', i < j,
                      hRows'[j].data.counter = hRows'[i].data.counter,
                      \A k \in (i + 1) .. (j - 1) : k \in Host(K)!Metrics' => hRows'[k].data.counter # hRows'[i].data.counter,
                      hRows'[j].life # hRows'[i].life \/ hRows'[j].data.value < hRows'[i].data.value
               PROVE  hRows'[j].data.reset
    BY DEF Host!ResetsTold
  <2>1. i \in Host(K)!Metrics
    <3>1. i = n => ~ (i < j)
      BY <1>5, <1>6
    <3> QED
      BY <1>5, <3>1
  <2>2. CASE j = n
    <3>1. hRows[i].data.counter = c
      BY <1>3, <1>7, <2>1, <2>2
    <3>2. CASE previous[c] = None
      BY <1>3, <1>7, <2>2, <3>2 DEF Host!IsReset, c
    <3>3. CASE previous[c] # None
      <4>1. PICK m \in Host(K)!Metrics : LastOf(K, m, c) /\ hRows[m].data.value = previous[c]
        BY <1>3, <3>3 DEF ReportInv, PreviousIsLast
      <4>2. hRows[m].data.counter = c /\ hRows[m].life = life /\ \A k \in Host(K)!Metrics : k > m => hRows[k].data.counter # c
        BY <4>1 DEF LastOf
      <4>3. ~ (i > m)
        BY <2>1, <3>1, <4>2
      <4>4. ~ (i < m)
        <5>1. i < m => m \in (i + 1) .. (j - 1)
          BY <1>6, <2>1, <2>2
        <5>2. m \in Host(K)!Metrics' /\ hRows'[m].data.counter = c
          BY <1>5, <1>7, <4>2
        <5> QED
          BY <1>7, <2>1, <3>1, <5>1, <5>2
      <4>5. i = m
        BY <1>6, <2>1, <4>3, <4>4
      <4>6. Host(K)!Sampled.value < previous[c]
        BY <1>3, <1>7, <2>1, <2>2, <4>1, <4>2, <4>5
      <4> QED
        BY <1>3, <1>7, <2>2, <4>6 DEF Host!IsReset, c
    <3> QED
      BY <3>2, <3>3
  <2>3. CASE j \in Host(K)!Metrics
    <3>1. \A k \in (i + 1) .. (j - 1) : k \in Host(K)!Metrics => hRows[k].data.counter # hRows[i].data.counter
      BY <1>5, <1>7, <2>1
    <3> QED
      BY <1>7, <2>1, <2>3, <3>1 DEF ReportInv, Host!ResetsTold
  <2> QED
    BY <1>5, <2>2, <2>3
<1>11. Host(K)!MissedToldOnce'
  <2>1. ToldIn(K)' = ToldIn(K) /\ \A i \in ToldIn(K) : hRows'[i].data = hRows[i].data
    <3>1. Host(K)!Gaps \subseteq 1..Len(hRows) /\ Host(K)!Gaps = 1..Len(hRows) \ Host(K)!Metrics
      BY <1>5 DEF Host!Gaps, Host!Metrics
    <3>2. Host(K)!Gaps' = 1..n \ Host(K)!Metrics'
      BY <1>5 DEF Host!Gaps, Host!Metrics
    <3>3. 1..n = 1..Len(hRows) \union {n}
      BY <1>5 DEF n
    <3>4. Host(K)!Gaps' = Host(K)!Gaps
      BY <1>5, <1>6, <3>1, <3>2, <3>3
    <3> QED
      BY <1>2, <1>5, <3>1, <3>4 DEF ToldIn
  <2>2. Host(K)!Told' = Host(K)!Told
    BY <1>1, <2>1, ToldSame
  <2> QED
    BY <1>2, <2>2 DEF ReportInv, Host!MissedToldOnce
<1>12. Host(K)!IntervalsAccounted'
  <2> DEFINE W == {k \in 1..handled : Host(K)!Complete(k)}
  <2>0. handled \in Nat /\ missed \in Nat
    BY <1>1 DEF HostTypeOK
  <2>1. handled = Cardinality(W) + missed + 1 /\ ~Host(K)!Complete(handled)
    BY <1>1, <1>2, IntervalOpenIs, NotComplete DEF ReportInv, IntervalOpen
  <2>2. \A k \in 1..handled : k # handled => (Host(K)!Complete(k)' <=> Host(K)!Complete(k))
    <3> SUFFICES ASSUME NEW k \in 1..handled, k # handled PROVE Host(K)!Complete(k)' <=> Host(K)!Complete(k)
      OBVIOUS
    <3>1. Host(K)!Complete(k) => Host(K)!Complete(k)'
      BY <1>2, <1>5, <1>7 DEF Host!Complete
    <3>2. ASSUME Host(K)!Complete(k)' PROVE Host(K)!Complete(k)
      <4> SUFFICES ASSUME NEW d \in 1..Counters
                   PROVE \E i \in Host(K)!Metrics : hRows[i].life = life /\ hRows[i].data.interval = k
                                            /\ hRows[i].data.counter = d
        BY DEF Host!Complete
      <4>1. PICK i \in Host(K)!Metrics' : hRows'[i].life = life' /\ hRows'[i].data.interval = k /\ hRows'[i].data.counter = d
        BY <3>2 DEF Host!Complete
      <4>2. i # n
        BY <1>3, <1>7, <4>1
      <4> QED
        BY <1>2, <1>5, <1>7, <4>1, <4>2
    <3> QED
      BY <3>1, <3>2
  <2>3. IsFiniteSet(W) /\ Cardinality(W) \in Nat /\ handled \notin W
    BY <2>0, <2>1, WholeCount
  <2>4. (Host(K)!IntervalsAccounted <=> handled = Cardinality({k \in 1..handled : Host(K)!Complete(k)}) + missed
                                       + (IF IntervalOpen THEN 1 ELSE 0))'
    BY IntervalOpenIs, PTL
  <2>5. CASE pending' # <<>>
    <3>1. ~Host(K)!Complete(handled)'
      <4>1. (IntervalOpen => ~Host(K)!Complete(handled))'
        BY NotCompleteNext DEF NotCompleteFact, HostConstants
      <4> QED
        BY <2>5, <4>1 DEF IntervalOpen
    <3>2. W' = W
      BY <1>2, <2>1, <2>2, <3>1
    <3>3. IntervalOpen'
      BY <2>5 DEF IntervalOpen
    <3> QED
      BY <1>2, <2>1, <2>4, <3>2, <3>3
  <2>6. CASE pending' = <<>>
    <3>1. Len(pending) = 1 /\ c = Counters
      <4>1. Len(pending') = 0
        BY <2>6
      <4>2. Len(pending) = 1
        <5>1. Len(pending) - 1 = 0
          BY <1>2, <4>1
        <5> QED
          BY <1>3, <5>1
      <4> QED
        BY <1>3, <4>2 DEF HostConstants
    <3>2. Host(K)!Complete(handled)'
      <4> SUFFICES ASSUME NEW k \in 1..Counters
                   PROVE \E i \in Host(K)!Metrics' : hRows'[i].life = life' /\ hRows'[i].data.interval = handled'
                                             /\ hRows'[i].data.counter = k
        BY <1>2 DEF Host!Complete
      <4>1. CASE k = c
        BY <1>2, <1>3, <1>5, <1>7, <4>1
      <4>2. CASE k # c
        <5>1. k \in 1..(Counters - Len(pending))
          BY <3>1, <4>2 DEF HostConstants
        <5>2. PICK i \in Host(K)!Metrics : hRows[i].life = life /\ hRows[i].data.interval = handled /\ hRows[i].data.counter = k
          BY <1>2, <5>1 DEF ReportInv, RestIsRecorded
        <5> QED
          BY <1>2, <1>5, <1>7, <5>2
      <4> QED
        BY <4>1, <4>2
    <3>3. handled \in 1..handled
      <4>1. Cardinality(W) + missed + 1 >= 1
        BY <2>0, <2>3
      <4> QED
        BY <2>0, <2>1, <4>1
    <3>4. W' = W \union {handled}
      BY <1>2, <2>2, <3>2, <3>3
    <3>5. Cardinality(W') = Cardinality(W) + 1
      BY <2>3, <3>4, FS_AddElement
    <3>6. ~IntervalOpen'
      BY <1>2, <2>6 DEF IntervalOpen
    <3>7. handled' = Cardinality(W') + missed'
      BY <1>2, <2>0, <2>1, <2>3, <3>5
    <3>8. Cardinality(W') + missed' = Cardinality(W') + missed' + 0
      BY <1>2, <2>0, <2>3, <3>5
    <3> QED
      BY <2>4, <3>6, <3>7, <3>8
  <2> QED
    BY <2>5, <2>6
<1> QED
  BY <1>8, <1>9, <1>10, <1>11, <1>12 DEF ReportInv

(* A new process: nothing of its life is recorded, told or begun. *)
LEMMA RestartReported ==
  ASSUME NEW K,
         HostConstants, ReportInv(K), OrderInv(K)', Host(K)!Restart
  PROVE  ReportInv(K)'
<1>1. /\ UNCHANGED hRows /\ pending' = <<>> /\ previous' = Host(K)!NoValues /\ missed' = 0 /\ pending_missed' = 0
      /\ handled' = 0 /\ hStage' = "idle" /\ life' = life + 1
  BY DEF Host!Restart
<1>2. HostTypeOK /\ HostTypeOK' /\ RowsAreBefore(K)
  BY DEF ReportInv, OrderInv
<1>3. Host(K)!Metrics' = Host(K)!Metrics /\ Host(K)!Gaps' = Host(K)!Gaps /\ Host(K)!Metrics \subseteq DOMAIN hRows /\ Host(K)!Gaps \subseteq DOMAIN hRows
  BY <1>1 DEF Host!Metrics, Host!Gaps
<1>4. \A i \in DOMAIN hRows : hRows'[i].life # life'
  <2>1. \A i \in DOMAIN hRows : hRows[i] \in HostRows
    BY <1>2, SeqAt DEF HostTypeOK
  <2>2. \A i \in DOMAIN hRows : hRows[i].life \in Nat
    BY <2>1 DEF HostRows
  <2>3. \A i \in DOMAIN hRows : hRows[i].life <= life
    BY <1>2 DEF RowsAreBefore
  <2>4. life \in Nat
    BY <1>2 DEF HostTypeOK
  <2> QED
    BY <1>1, <2>2, <2>3, <2>4
<1>5. RestIsRecorded(K)'
  BY <1>1 DEF RestIsRecorded
<1>6. PreviousIsLast(K)'
  BY <1>1, <1>3, <1>4 DEF PreviousIsLast, Host!NoValues
<1>7. Host(K)!ResetsTold'
  BY <1>1, <1>3 DEF ReportInv, Host!ResetsTold
<1>8. Host(K)!MissedToldOnce'
  <2>1. ToldIn(K)' = {}
    BY <1>3, <1>4 DEF ToldIn
  <2>2. Host(K)!Told' = 0
    BY <1>2, <2>1, ToldNothingNext DEF ToldNothingFact
  <2> QED
    BY <1>1, <2>2 DEF Host!MissedToldOnce
<1>9. Host(K)!IntervalsAccounted'
  <2>1. {n \in 1..handled : Host(K)!Complete(n)}' = {}
    BY <1>1
  <2>2. Cardinality({}) = 0
    BY FS_EmptySet
  <2>3. ~IntervalOpen'
    BY <1>1 DEF IntervalOpen, Taking
  <2>4. (Host(K)!IntervalsAccounted <=>
          handled = Cardinality({n \in 1..handled : Host(K)!Complete(n)}) + missed + (IF IntervalOpen THEN 1 ELSE 0))'
    BY IntervalOpenIs, PTL
  <2> QED
    BY <1>1, <2>1, <2>2, <2>3, <2>4
<1> QED
  BY <1>5, <1>6, <1>7, <1>8, <1>9 DEF ReportInv

(* A poll that fails counts the interval it had begun. *)
LEMMA FailReported ==
  ASSUME NEW K,
         HostConstants, ReportInv(K), OrderInv(K)', Host(K)!Fail, UNCHANGED hRows, IntervalOpen
  PROVE  ReportInv(K)'
<1>1. /\ pending' = <<>> /\ hStage' = "idle" /\ missed' = missed + 1 /\ pending_missed' = pending_missed + 1
      /\ UNCHANGED <<handled, life, previous>>
  BY DEF Host!Fail, Host!Missing
<1>2. ~IntervalOpen'
  BY <1>1 DEF IntervalOpen, Taking
<1> QED
  BY <1>1, <1>2, NothingReported

-----------------------------------------------------------------------------
LEMMA ReportStep ==
  ASSUME NEW K,
         HostConstants, "unreported" \notin K.kinds, ReportInv(K), [Host(K)!HostNext]_(Host(K)!hostVars)
  PROVE  ReportInv(K)'
<1>1. OrderInv(K)' /\ OrderInv(K) /\ HostTypeOK
  BY OrderStep DEF ReportInv, OrderInv
<1>2. ASSUME UNCHANGED <<hRows, life, previous, missed, pending_missed, handled, pending>>, IntervalOpen' <=> IntervalOpen
      PROVE  ReportInv(K)'
  <2>1. missed' = missed + 0 /\ pending_missed' = pending_missed + 0
    BY <1>1, <1>2 DEF HostTypeOK
  <2> QED
    BY <1>1, <1>2, <2>1, NothingReported
<1>3. CASE UNCHANGED Host(K)!hostVars \/ Host(K)!Elapse \/ Host(K)!SkipGap \/ Host(K)!EndPoll
  <2>1. UNCHANGED <<hRows, life, previous, missed, pending_missed, handled, pending>>
    BY <1>3 DEF Host!hostVars, Host!Elapse, Host!SkipGap, Host!EndPoll, Host!counts
  <2>2. Taking' <=> Taking
    BY <1>1, <1>3 DEF Host!hostVars, Host!Elapse, Host!SkipGap, Host!EndPoll, Host!locals, Taking, HostTypeOK
  <2> QED
    BY <1>2, <2>1, <2>2 DEF IntervalOpen
<1>4. CASE Host(K)!Restart
  BY <1>1, <1>4, RestartReported
<1>5. CASE Host(K)!BeginPoll
  <2>1. /\ UNCHANGED <<hRows, life, sequence>> /\ hStage = "idle"
         /\ IF due THEN /\ handled' = handled + 1 /\ Taking' /\ pending' = <<>>
                        /\ missed' = missed + (IF pending # <<>> THEN 1 ELSE 0)
                        /\ pending_missed' = pending_missed + (IF pending # <<>> THEN 1 ELSE 0)
            ELSE /\ UNCHANGED <<handled, pending, missed, pending_missed>>
                 /\ pending # <<>> /\ ~Taking'
    BY <1>1, <1>5, BeginTyped
  <2>2. UNCHANGED previous /\ ~Taking
    BY <1>5, <2>1 DEF Host!BeginPoll, Taking
  <2>3. CASE due
    <3>1. IntervalOpen' /\ (IF pending # <<>> THEN 1 ELSE 0) = (IF IntervalOpen THEN 1 ELSE 0)
      BY <2>1, <2>2, <2>3 DEF IntervalOpen
    <3>2. (IF pending # <<>> THEN 1 ELSE 0) \in Nat
      OBVIOUS
    <3> QED
      BY <1>1, <2>1, <2>2, <2>3, <3>1, <3>2, NothingReported
  <2>4. CASE ~due
    BY <1>2, <2>1, <2>2, <2>4 DEF IntervalOpen
  <2> QED
    BY <2>3, <2>4
<1>6. CASE Host(K)!EmitGap
  BY <1>1, <1>6, GapReported
<1>7. CASE Host(K)!Sample
  <2>1. /\ pending' # <<>> /\ Len(pending') = Counters
         /\ Taking /\ ~Taking' /\ UNCHANGED <<hRows, handled, life, missed, pending_missed>>
    BY <1>1, <1>7, SampleTyped
  <2>2. IntervalOpen /\ IntervalOpen' /\ UNCHANGED previous
    BY <1>7, <2>1 DEF IntervalOpen, Host!Sample
  <2>3. missed' = missed + 0 /\ pending_missed' = pending_missed + 0
    BY <1>1, <2>1 DEF HostTypeOK
  <2> QED
    BY <1>1, <2>1, <2>2, <2>3, NothingReported
<1>8. CASE Host(K)!EmitMetric
  BY <1>1, <1>8, MetricReported
<1>9. CASE Host(K)!GapFails
  <2>1. Host(K)!Fail /\ UNCHANGED hRows
    <3>1. ~ Host(K)!Trouble("unreported")
      BY DEF Host!Trouble
    <3> QED
      BY <1>9, <3>1 DEF Host!GapFails, Host!EmitFails
  <2>2. IntervalOpen
    BY <1>1, <1>9 DEF Host!GapFails, OrderInv, PendingIsRest, IntervalOpen, Taking
  <2> QED
    BY <1>1, <2>1, <2>2, FailReported
<1>10. CASE Host(K)!SampleFails
  <2>1. IntervalOpen
    BY <1>1, <1>10 DEF Host!SampleFails, OrderInv, PendingIsRest, IntervalOpen, Taking
  <2> QED
    BY <1>1, <1>10, <2>1, FailReported DEF Host!SampleFails
<1>11. CASE Host(K)!MetricFails
  <2>1. Host(K)!Fail /\ UNCHANGED hRows
    <3>1. ~ Host(K)!Trouble("unreported")
      BY DEF Host!Trouble
    <3> QED
      BY <1>11, <3>1 DEF Host!MetricFails, Host!EmitFails
  <2>2. IntervalOpen
    BY <1>11 DEF Host!MetricFails, Host!Storing, IntervalOpen
  <2> QED
    BY <1>1, <2>1, <2>2, FailReported
<1> QED
  BY <1>3, <1>4, <1>5, <1>6, <1>7, <1>8, <1>9, <1>10, <1>11 DEF Host!HostNext, Host!Step

LEMMA HostInitReport ==
  ASSUME NEW K
  PROVE  HostConstants /\ Host(K)!HostInit => ReportInv(K)
<1> SUFFICES ASSUME HostConstants, Host(K)!HostInit PROVE ReportInv(K)
  OBVIOUS
<1>1. OrderInv(K)
  BY HostInitOrder
<1>2. DOMAIN hRows = {} /\ Host(K)!Metrics = {} /\ ToldIn(K) = {}
  BY DEF Host!HostInit, Host!Metrics, ToldIn, Host!Gaps
<1>3. Host(K)!Told = 0
  BY <1>1, <1>2, ToldNothing DEF OrderInv
<1>4. RestIsRecorded(K) /\ Host(K)!ResetsTold
  BY <1>2 DEF RestIsRecorded, Host!HostInit, Host!ResetsTold
<1>5. PreviousIsLast(K)
  BY <1>2 DEF PreviousIsLast, Host!HostInit, Host!NoValues
<1>6. Host(K)!MissedToldOnce
  BY <1>3 DEF Host!MissedToldOnce, Host!HostInit
<1>7. Host(K)!IntervalsAccounted
  <2>1. {n \in 1..handled : Host(K)!Complete(n)} = {} /\ handled = 0 /\ missed = 0 /\ pending = <<>> /\ hStage = "idle"
    BY DEF Host!HostInit
  <2>2. Cardinality({}) = 0
    BY FS_EmptySet
  <2> QED
    BY <2>1, <2>2, HostCounts DEF Host!IntervalsAccounted
<1> QED
  BY <1>1, <1>4, <1>5, <1>6, <1>7 DEF ReportInv

(* IntervalsTold: for any number of counters, readings, polls, failures,   *)
(* restarts and late intervals, samples are recorded in order and under    *)
(* new identities; and where a commit that reports an error was not        *)
(* durable, every interval that is begun is whole in custody or counted as *)
(* missed, each missed one is told once, and a counter that goes back or   *)
(* is new is told as reset.                                                *)
THEOREM HostTells ==
  ASSUME NEW K,
         HostConstants
  PROVE  Host(K)!HostSpec => []Host(K)!IntervalsTold
<1>1. Host(K)!HostInit => OrderInv(K)
  BY HostInitOrder
<1>2. OrderInv(K) /\ [Host(K)!HostNext]_(Host(K)!hostVars) => OrderInv(K)'
  BY OrderStep
<1>3. CASE "unreported" \in K.kinds
  <2>1. OrderInv(K) => Host(K)!IntervalsTold
    BY <1>3 DEF OrderInv, Host!IntervalsTold
  <2> QED
    BY <1>1, <1>2, <2>1, PTL DEF Host!HostSpec
<1>4. CASE "unreported" \notin K.kinds
  <2>1. Host(K)!HostInit => ReportInv(K)
    BY HostInitReport
  <2>2. ReportInv(K) /\ [Host(K)!HostNext]_(Host(K)!hostVars) => ReportInv(K)'
    BY <1>4, ReportStep
  <2>3. ReportInv(K) => Host(K)!IntervalsTold
    BY DEF ReportInv, OrderInv, Host!IntervalsTold
  <2> QED
    BY <2>1, <2>2, <2>3, PTL DEF Host!HostSpec
<1> QED
  BY <1>3, <1>4

(* IntervalsTold, of the sources in their settings. *)
THEOREM IntervalsAreTold ==
  ASSUME HostConstants
  PROVE  SourcesSpec => []IntervalsTold
<1> DEFINE Safe == /\ setting = "host" => ReportInv(Sampling)
                   /\ setting = "late" => OrderInv(Late)
<1>1. SourcesInit => Safe
  <2>1. Host(Late)!HostInit => Host(Sampling)!HostInit
    BY DEF Host!HostInit, Host!NoValues
  <2> QED
    BY <2>1, HostInitOrder, HostInitReport DEF SourcesInit
<1>2. Safe /\ [SourcesNext]_sourcesVars => Safe'
  <2> SUFFICES ASSUME Safe, [SourcesNext]_sourcesVars PROVE Safe'
    OBVIOUS
  <2>1. ASSUME UNCHANGED hostState
        PROVE  UNCHANGED Host(Sampling)!hostVars /\ UNCHANGED Host(Late)!hostVars
    BY <2>1 DEF hostState, Host!hostVars, Host!time, Host!locals, Host!counts
  <2>2. setting' = setting
    BY DEF SourcesNext, sourcesVars, Configured, RotationStep, BytesStep, CutStep, ReplayStep,
           AttachStep, HostStep, LateStep
  <2>3. CASE setting = "host"
    <3>1. Host(Sampling)!HostNext \/ UNCHANGED hostState
      BY <2>3 DEF SourcesNext, sourcesVars, Configured, RotationStep, BytesStep, CutStep,
                  ReplayStep, AttachStep, HostStep, LateStep
    <3>2. "unreported" \notin Sampling.kinds
      BY DEF Sampling
    <3> QED
      BY <2>1, <2>2, <2>3, <3>1, <3>2, ReportStep
  <2>4. CASE setting = "late"
    <3>1. Host(Late)!HostNext \/ UNCHANGED hostState
      BY <2>4 DEF SourcesNext, sourcesVars, Configured, RotationStep, BytesStep, CutStep,
                  ReplayStep, AttachStep, HostStep, LateStep
    <3> QED
      BY <2>1, <2>2, <2>4, <3>1, OrderStep
  <2> QED
    BY <2>2, <2>3, <2>4
<1>3. Safe => IntervalsTold
  <2>1. ReportInv(Sampling) => Host(Sampling)!IntervalsTold
    BY DEF ReportInv, OrderInv, Host!IntervalsTold
  <2>2. OrderInv(Late) => Host(Late)!IntervalsTold
    BY DEF OrderInv, Host!IntervalsTold, Late
  <2> QED
    BY <2>1, <2>2 DEF IntervalsTold
<1> QED
  BY <1>1, <1>2, <1>3, PTL DEF SourcesSpec
=============================================================================
