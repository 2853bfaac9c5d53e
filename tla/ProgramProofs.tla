---------------------------- MODULE ProgramProofs ----------------------------
(***************************************************************************)
(* Proofs about the programs beside the daemon.                            *)
(*                                                                         *)
(* Export, for any rows and any bound on them: an export that pages        *)
(* through a store that grows prints a prefix of the rows of one moment,   *)
(* and all of them if it ends well.  JsonScan, for texts of any length and *)
(* any depth: the scan refuses exactly what is nested too deep.            *)
(*                                                                         *)
(* Adapter, for lines of any bytes cut into any pieces and any limits: each*)
(* line is answered, once, in order.  BatchCustody, for any frames, limit  *)
(* on the records and number of kills: what is stored of a frame is the    *)
(* whole of it, each record is read under its identity, and stays so.      *)
(***************************************************************************)
EXTENDS MCPrograms, FiniteSetTheorems, WellFoundedInduction, TLAPS


Steps == {"status", "read", "done", "failed"}

(* The rows that were there when it was asked are there still. *)
Kept ==
    /\ Len(asked) <= Len(records)
    /\ \A i \in 1..Len(asked) : records[i] = asked[i]

(* `after` rows are printed, of the `boundary` rows of that moment. *)
Printed ==
    /\ boundary <= Len(asked)
    /\ output = [i \in 1..after |-> asked[i].body]

(* The loop goes on while there are rows below the boundary. *)
Stepwise ==
    /\ step = "status" => boundary = 0 /\ after = 0
    /\ step = "read" => after < boundary
    /\ step = "done" => after = boundary

(* A failed query of the highest id is the one reason to ask for less. *)
Whole == (step = "status" => asked = <<>>) /\ (~QueriesFail => boundary = Len(asked))

Inv == ExportTypeOK /\ Kept /\ Printed /\ Stepwise /\ Whole

-----------------------------------------------------------------------------
LEMMA InitInv == ExportInit => Inv
<1> SUFFICES ASSUME ExportInit PROVE Inv
  OBVIOUS
<1>1. ExportTypeOK
  BY DEF ExportInit, LedgerInit, ExportTypeOK
<1>2. Kept /\ Stepwise /\ Whole
  BY DEF ExportInit, LedgerInit, Kept, Stepwise, Whole
<1>3. Printed
  BY DEF ExportInit, Printed
<1> QED
  BY <1>1, <1>2, <1>3 DEF Inv

(* The row behind the one that was read last is the next one of the store. *)
LEMMA NextPage ==
  ASSUME Inv, after < Len(records)
  PROVE  Page(after) = {after + 1}
<1>1. DOMAIN records = 1..Len(records) /\ Len(records) \in Nat /\ after \in Nat
  BY DEF Inv, ExportTypeOK
<1>2. \A id \in Page(after) : id = after + 1
  <2> SUFFICES ASSUME NEW id \in Page(after) PROVE id = after + 1
    OBVIOUS
  <2>1. id \in 1..Len(records) /\ id > after /\ id <= after + 1
    BY <1>1 DEF Page
  <2> QED
    BY <1>1, <2>1
<1>3. after + 1 \in Page(after)
  BY <1>1 DEF Page
<1> QED
  BY <1>2, <1>3

LEMMA StoreKeeps == Inv /\ Store => Inv'
<1> SUFFICES ASSUME Inv, Store PROVE Inv'
  OBVIOUS
<1>1. PICK body \in Bodies : records' = Append(records, [body |-> body, mark |-> None])
  BY DEF Store, Record
<1>2. [body |-> body, mark |-> None] \in Row
  BY DEF Row
<1>3. UNCHANGED exportVars
  BY DEF Store
<1>4. records \in Seq(Row) /\ asked \in Seq(Row)
  BY DEF Inv, ExportTypeOK
<1>5. records' \in Seq(Row) /\ Len(records') = Len(records) + 1
  BY <1>1, <1>2, <1>4
<1>6. \A i \in 1..Len(records) : records'[i] = records[i]
  BY <1>1, <1>4
<1>7. Kept'
  BY <1>3, <1>4, <1>5, <1>6 DEF Inv, Kept, exportVars
<1>8. ExportTypeOK' /\ Printed' /\ Stepwise' /\ Whole'
  BY <1>3, <1>5 DEF Inv, ExportTypeOK, Printed, Stepwise, Whole, exportVars
<1> QED
  BY <1>7, <1>8 DEF Inv

LEMMA AskKeeps == Inv /\ AskStatus => Inv'
<1> SUFFICES ASSUME Inv, AskStatus PROVE Inv'
  OBVIOUS
<1>1. /\ step = "status" /\ after = 0 /\ after' = 0 /\ output' = output
      /\ records' = records /\ asked' = records
  BY DEF Inv, Stepwise, AskStatus, ledgerVars
<1>2. /\ records \in Seq(Row) /\ Len(records) \in Nat
      /\ boundary' \in 0..Len(records)
      /\ ~QueriesFail => boundary' = Len(records)
  BY DEF Inv, ExportTypeOK, AskStatus
<1>3. step' = IF 0 < boundary' THEN "read" ELSE "done"
  BY <1>1 DEF AskStatus, Loop
<1>4. ExportTypeOK'
  BY <1>1, <1>2, <1>3 DEF Inv, ExportTypeOK
<1>5. Kept' /\ Stepwise' /\ Whole'
  BY <1>1, <1>2, <1>3 DEF Kept, Stepwise, Whole
<1>6. output' = [i \in 1..after' |-> asked'[i].body]
  <2>1. output = [i \in 1..0 |-> asked[i].body]
    BY <1>1 DEF Inv, Printed
  <2> QED
    BY <1>1, <2>1
<1> QED
  BY <1>1, <1>2, <1>4, <1>5, <1>6 DEF Inv, Printed

(* The page is the next row of the moment that was asked. *)
LEMMA ReadKeeps == Inv /\ ReadPage => Inv'
<1> SUFFICES ASSUME Inv, ReadPage PROVE Inv'
  OBVIOUS
<1> DEFINE next == after + 1
<1>1. /\ after \in Nat /\ boundary \in Nat /\ after < boundary
      /\ records \in Seq(Row) /\ asked \in Seq(Row)
      /\ boundary <= Len(asked) /\ Len(asked) <= Len(records)
  BY DEF Inv, ReadPage, Stepwise, ExportTypeOK, Printed, Kept
<1>2. Page(after) = {next}
  BY <1>1, NextPage
<1>3. /\ next \in 1..boundary /\ next \in 1..Len(asked) /\ next \in 1..Len(records)
      /\ ~(next > boundary)
  BY <1>1
<1>4. /\ after' = next
      /\ output' = Append(output, records[next].body)
      /\ step' = IF next < boundary THEN "read" ELSE "done"
      /\ boundary' = boundary /\ asked' = asked /\ records' = records
  BY <1>2, <1>3 DEF ReadPage, Loop, ledgerVars
<1>5. records[next] = asked[next] /\ asked[next].body \in Bodies
  <2>1. asked[next] \in Row
    BY <1>1, <1>3
  <2> QED
    BY <1>1, <1>3, <2>1 DEF Inv, Kept, Row
<1>6. /\ output \in Seq(Bodies) /\ Len(output) = after
      /\ \A i \in 1..after : output[i] = asked[i].body
  BY <1>1 DEF Inv, Printed, ExportTypeOK
<1>7. output' \in Seq(Bodies)
  BY <1>4, <1>5, <1>6
<1>8. output' = [i \in 1..next |-> asked[i].body]
  <2>1. Len(output') = next /\ DOMAIN output' = 1..next
    BY <1>1, <1>4, <1>5, <1>6
  <2>2. \A i \in 1..next : output'[i] = asked[i].body
    BY <1>1, <1>4, <1>5, <1>6
  <2> QED
    BY <1>7, <2>1, <2>2
<1>9. ExportTypeOK'
  BY <1>1, <1>3, <1>4, <1>7 DEF ExportTypeOK
<1>10. Kept' /\ Printed'
  BY <1>4, <1>8 DEF Inv, Kept, Printed
<1>11. Stepwise' /\ Whole'
  BY <1>1, <1>3, <1>4 DEF Inv, Stepwise, Whole, ReadPage
<1> QED
  BY <1>9, <1>10, <1>11 DEF Inv

LEMMA FailKeeps == Inv /\ (RequestFails \/ UNCHANGED allVars) => Inv'
  BY DEF Inv, RequestFails, ExportTypeOK, Kept, Printed, Stepwise, Whole,
         allVars, exportVars, ledgerVars

-----------------------------------------------------------------------------
(* What the invariant says of an export. *)
LEMMA InvIsExact ==
  ASSUME Inv, ~QueriesFail
  PROVE  ExportIsExact
<1>1. /\ after \in Nat /\ boundary \in Nat /\ after <= Len(asked)
      /\ asked \in Seq(Row) /\ records \in Seq(Row) /\ boundary = Len(asked)
  BY DEF Inv, ExportTypeOK, Printed, Whole
<1>2. output \in Seq(Bodies) /\ Len(output) = after /\ DOMAIN output = 1..after
  BY <1>1 DEF Inv, ExportTypeOK, Printed
<1>3. BodiesOf(asked) = [i \in 1..Len(asked) |-> asked[i].body]
  BY <1>1 DEF BodiesOf
<1>4. \A i \in 1..after : output[i] = BodiesOf(asked)[i]
  BY <1>1, <1>3 DEF Inv, Printed
<1>5. OutputIsPrefix
  <2>1. BodiesOf(asked) \in Seq(Bodies)
    <3>1. \A i \in 1..Len(asked) : asked[i] \in Row
      BY <1>1
    <3>2. \A i \in 1..Len(asked) : asked[i].body \in Bodies
      BY <3>1 DEF Row
    <3> QED
      BY <1>1, <1>3, <3>2
  <2>2. /\ SubSeq(BodiesOf(asked), 1, after) \in Seq(Bodies)
        /\ Len(SubSeq(BodiesOf(asked), 1, after)) = after
        /\ \A i \in 1..after : SubSeq(BodiesOf(asked), 1, after)[i] = BodiesOf(asked)[i]
    BY <1>1, <1>3, <2>1
  <2>3. output = SubSeq(BodiesOf(asked), 1, after)
    BY <1>2, <1>4, <2>2
  <2> QED
    BY <1>1, <1>2, <2>3 DEF OutputIsPrefix
<1>6. DoneIsComplete
  <2> SUFFICES ASSUME step = "done" PROVE output = BodiesOf(asked)
    BY DEF DoneIsComplete
  <2>1. after = Len(asked)
    BY <1>1 DEF Inv, Stepwise
  <2> QED
    BY <1>3, <2>1 DEF Inv, Printed
<1>7. FrontierAvailable
  <2> SUFFICES ASSUME step = "read" PROVE Page(after) # {}
    BY DEF FrontierAvailable
  <2>1. after < Len(records)
    BY <1>1 DEF Inv, Stepwise, Kept
  <2> QED
    BY <2>1, NextPage
<1> QED
  BY <1>5, <1>6, <1>7 DEF ExportIsExact

(* ExportTypeOK: every variable keeps its type. *)
THEOREM ExportSafe == ExportSpec => [](ExportTypeOK /\ Inv)
<1>1. Inv /\ [ExportNext]_allVars => Inv'
  BY StoreKeeps, AskKeeps, ReadKeeps, FailKeeps DEF ExportNext
<1>2. Inv => ExportTypeOK
  BY DEF Inv
<1> QED
  BY InitInv, <1>1, <1>2, PTL DEF ExportSpec

(* ExportIsExact: whatever is stored meanwhile and whichever request       *)
(* fails, an export prints a prefix of the rows of one moment, all of them *)
(* if it ends well, and never misses the row it asks for, as long as the   *)
(* query of the highest id is answered truly.                              *)
THEOREM ExactExport ==
  ASSUME ~QueriesFail
  PROVE  ExportSpec => []ExportIsExact
<1>1. Inv => ExportIsExact
  BY InvIsExact
<1> QED
  BY <1>1, ExportSafe, PTL

-----------------------------------------------------------------------------
(* The scan of a frame. *)

LEMMA ScanCounts == \A S : Scanning!Cardinality(S) = Cardinality(S)
  BY DEF Scanning!Cardinality, Cardinality, Scanning!IsFiniteSet, IsFiniteSet


(* The lengths of the runs of backslashes that end before byte i. *)
Backslashes(t, i) == {n \in 0..(i - 1) : \A j \in (i - n)..(i - 1) : t[j] = "backslash"}

Greatest(S, m) == m \in S /\ \A y \in S : m >= y

(* The quotes before byte i that begin or end a string, and the brackets   *)
(* up to byte i that count.                                                *)
Quotes(t, i) == {j \in 1..(i - 1) : t[j] = "quote" /\ ~Scanning!EscapedAt(t, j)}
Brackets(t, b, i) == {j \in 1..i : t[j] = b /\ ~Scanning!InString(t, j)}

(* What the scan remembers is what the words of the text say of the byte   *)
(* that comes next; outside a string nothing is escaped.                   *)
ScanInv ==
    /\ text \in Seq(Scanning!Bytes)
    /\ quoted \in BOOLEAN /\ escaped \in BOOLEAN /\ refused \in BOOLEAN /\ depth \in Nat
    /\ escaped => quoted
    /\ \E m \in Nat : Greatest(Backslashes(text, Len(text) + 1), m)
    /\ escaped = Scanning!EscapedAt(text, Len(text) + 1)
    /\ Scanning!DepthIsNesting

-----------------------------------------------------------------------------
LEMMA MaxIsGreatest ==
  ASSUME NEW S \in SUBSET Nat, NEW m, Greatest(S, m)
  PROVE  Scanning!Max(S) = m
<1>1. \E x \in S : \A y \in S : x >= y
  BY DEF Greatest
<1>2. Scanning!Max(S) \in S /\ \A y \in S : Scanning!Max(S) >= y
  BY <1>1 DEF Scanning!Max
<1>3. m \in Nat /\ Scanning!Max(S) \in Nat /\ m >= Scanning!Max(S) /\ Scanning!Max(S) >= m
  BY <1>2 DEF Greatest
<1> QED
  BY <1>3

LEMMA EscapedIs ==
  ASSUME NEW t, NEW i \in Nat, NEW m, Greatest(Backslashes(t, i), m)
  PROVE  Scanning!EscapedAt(t, i) = (m % 2 = 1)
<1>1. Scanning!Max(Backslashes(t, i)) = m
  <2>1. Backslashes(t, i) \in SUBSET Nat
    BY DEF Backslashes
  <2> QED
    BY <2>1, MaxIsGreatest
<1> QED
  BY <1>1 DEF Scanning!EscapedAt, Backslashes

(* One byte more. *)
LEMMA OneByteMore ==
  ASSUME NEW t \in Seq(Scanning!Bytes), NEW b \in Scanning!Bytes
  PROVE  /\ Len(Append(t, b)) = Len(t) + 1 /\ Len(t) \in Nat
         /\ Append(t, b) \in Seq(Scanning!Bytes)
         /\ DOMAIN t = 1..Len(t) /\ DOMAIN Append(t, b) = 1..(Len(t) + 1)
         /\ \A i \in 1..Len(t) : Append(t, b)[i] = t[i]
         /\ Append(t, b)[Len(t) + 1] = b
  OBVIOUS

(* What is said of a byte does not depend on the bytes after it. *)
LEMMA EscapedStays ==
  ASSUME NEW t, NEW u, NEW n \in Nat, \A i \in 1..n : t[i] = u[i]
  PROVE  \A i \in 1..(n + 1) : /\ Backslashes(t, i) = Backslashes(u, i)
                               /\ Scanning!EscapedAt(t, i) = Scanning!EscapedAt(u, i)
<1> SUFFICES ASSUME NEW i \in 1..(n + 1)
             PROVE  /\ Backslashes(t, i) = Backslashes(u, i)
                    /\ Scanning!EscapedAt(t, i) = Scanning!EscapedAt(u, i)
  OBVIOUS
<1>1. \A k \in 0..(i - 1) : \A j \in (i - k)..(i - 1) : j \in 1..n
  OBVIOUS
<1>2. Backslashes(t, i) = Backslashes(u, i)
  BY <1>1 DEF Backslashes
<1> QED
  BY <1>2 DEF Scanning!EscapedAt, Backslashes

LEMMA StringsStay ==
  ASSUME NEW t, NEW u, NEW n \in Nat, \A i \in 1..n : t[i] = u[i]
  PROVE  \A i \in 1..(n + 1) : /\ Quotes(t, i) = Quotes(u, i)
                               /\ Scanning!InString(t, i) = Scanning!InString(u, i)
<1> SUFFICES ASSUME NEW i \in 1..(n + 1)
             PROVE  /\ Quotes(t, i) = Quotes(u, i)
                    /\ Scanning!InString(t, i) = Scanning!InString(u, i)
  OBVIOUS
<1>1. \A j \in 1..(i - 1) : j \in 1..n /\ j \in 1..(n + 1)
  OBVIOUS
<1>2. Quotes(t, i) = Quotes(u, i)
  BY <1>1, EscapedStays DEF Quotes
<1> QED
  BY <1>2 DEF Scanning!InString, Quotes

LEMMA NestingStays ==
  ASSUME NEW t, NEW u, NEW n \in Nat, \A i \in 1..n : t[i] = u[i]
  PROVE  \A i \in 0..n : /\ \A b : Brackets(t, b, i) = Brackets(u, b, i)
                         /\ Scanning!Nesting(t, i) = Scanning!Nesting(u, i)
<1> SUFFICES ASSUME NEW i \in 0..n
             PROVE  /\ \A b : Brackets(t, b, i) = Brackets(u, b, i)
                    /\ Scanning!Nesting(t, i) = Scanning!Nesting(u, i)
  OBVIOUS
<1>1. \A j \in 1..i : j \in 1..n /\ j \in 1..(n + 1)
  OBVIOUS
<1>2. \A b : Brackets(t, b, i) = Brackets(u, b, i)
  BY <1>1, StringsStay DEF Brackets
<1>3. \A b : Scanning!Counted(t, b, i) = Scanning!Counted(u, b, i)
  BY <1>2, ScanCounts DEF Scanning!Counted, Brackets
<1> QED
  BY <1>2, <1>3 DEF Scanning!Nesting

LEMMA SetsAreFinite ==
  ASSUME NEW t, NEW i \in Nat
  PROVE  /\ IsFiniteSet(Quotes(t, i)) /\ Cardinality(Quotes(t, i)) \in Nat
         /\ \A b : IsFiniteSet(Brackets(t, b, i)) /\ Cardinality(Brackets(t, b, i)) \in Nat
<1>1. IsFiniteSet(1..(i - 1)) /\ IsFiniteSet(1..i)
  BY FS_Interval
<1>2. Quotes(t, i) \subseteq 1..(i - 1) /\ \A b : Brackets(t, b, i) \subseteq 1..i
  BY DEF Quotes, Brackets
<1>3. IsFiniteSet(Quotes(t, i)) /\ \A b : IsFiniteSet(Brackets(t, b, i))
  BY <1>1, <1>2, FS_Subset
<1> QED
  BY <1>3, FS_CardinalityType

-----------------------------------------------------------------------------
(* The run of backslashes grows with a backslash, and ends with any other. *)
LEMMA EscapeGoesOn ==
  ASSUME NEW t \in Seq(Scanning!Bytes), NEW b \in Scanning!Bytes, NEW m \in Nat,
         Greatest(Backslashes(t, Len(t) + 1), m)
  PROVE  LET u == Append(t, b)
         IN /\ \E k \in Nat : Greatest(Backslashes(u, Len(u) + 1), k)
            /\ Scanning!EscapedAt(u, Len(u) + 1)
                 = (b = "backslash" /\ ~Scanning!EscapedAt(t, Len(t) + 1))
<1> DEFINE u == Append(t, b)
           L == Len(t)
           k == IF b = "backslash" THEN m + 1 ELSE 0
<1>1. /\ Len(u) = L + 1 /\ L \in Nat /\ u[L + 1] = b
      /\ \A i \in 1..L : u[i] = t[i]
  BY OneByteMore
<1> HIDE DEF u, L
<1>2. m \in 0..L /\ (\A j \in (L + 1 - m)..L : t[j] = "backslash")
      /\ \A n \in 0..L : (\A j \in (L + 1 - n)..L : t[j] = "backslash") => m >= n
  BY <1>1 DEF Greatest, Backslashes, L
<1>3. Greatest(Backslashes(u, L + 2), k)
  <2>1. CASE b = "backslash"
    <3>1. \A j \in (L + 2 - (m + 1))..(L + 1) : u[j] = "backslash"
      BY <1>1, <1>2, <2>1
    <3>2. m + 1 \in Backslashes(u, L + 2)
      BY <1>1, <1>2, <3>1 DEF Backslashes
    <3>3. ASSUME NEW n \in Backslashes(u, L + 2) PROVE m + 1 >= n
      <4>1. n \in 0..(L + 1) /\ \A j \in (L + 2 - n)..(L + 1) : u[j] = "backslash"
        BY <1>1 DEF Backslashes
      <4>2. CASE n = 0
        BY <4>2
      <4>3. CASE n # 0
        <5>1. n - 1 \in 0..L /\ \A j \in (L + 1 - (n - 1))..L : t[j] = "backslash"
          BY <1>1, <4>1, <4>3
        <5> QED
          BY <1>2, <4>1, <5>1
      <4> QED
        BY <4>2, <4>3
    <3> QED
      BY <2>1, <3>2, <3>3 DEF Greatest
  <2>2. CASE b # "backslash"
    <3>1. 0 \in Backslashes(u, L + 2)
      BY <1>1 DEF Backslashes
    <3>2. ASSUME NEW n \in Backslashes(u, L + 2) PROVE n = 0
      <4>1. n \in 0..(L + 1) /\ \A j \in (L + 2 - n)..(L + 1) : u[j] = "backslash"
        BY <1>1 DEF Backslashes
      <4> QED
        BY <1>1, <2>2, <4>1
    <3> QED
      BY <2>2, <3>1, <3>2 DEF Greatest
  <2> QED
    BY <2>1, <2>2
<1>4. Scanning!EscapedAt(u, L + 2) = (k % 2 = 1)
  BY <1>1, <1>3, EscapedIs
<1>5. Scanning!EscapedAt(t, L + 1) = (m % 2 = 1)
  BY <1>1, EscapedIs DEF L
<1>6. k \in Nat
  OBVIOUS
<1>7. (k % 2 = 1) = (b = "backslash" /\ m % 2 # 1)
  OBVIOUS
<1>8. Len(u) + 1 = L + 2
  BY <1>1
<1> QED
  BY <1>3, <1>4, <1>5, <1>6, <1>7, <1>8 DEF u, L

(* A quote that is not escaped begins or ends a string. *)
LEMMA StringGoesOn ==
  ASSUME NEW t \in Seq(Scanning!Bytes), NEW b \in Scanning!Bytes
  PROVE  Scanning!InString(Append(t, b), Len(t) + 2)
           = IF b = "quote" /\ ~Scanning!EscapedAt(t, Len(t) + 1)
             THEN ~Scanning!InString(t, Len(t) + 1) ELSE Scanning!InString(t, Len(t) + 1)
<1> DEFINE u == Append(t, b)
           L == Len(t)
<1>1. /\ L \in Nat /\ u[L + 1] = b /\ \A i \in 1..L : t[i] = u[i]
  BY OneByteMore
<1> HIDE DEF u, L
<1>2. Quotes(u, L + 1) = Quotes(t, L + 1) /\ Scanning!EscapedAt(u, L + 1) = Scanning!EscapedAt(t, L + 1)
  <2>1. L + 1 \in 1..(L + 1)
    BY <1>1
  <2> QED
    BY <1>1, <2>1, EscapedStays, StringsStay
<1>3. 1..((L + 2) - 1) = 1..((L + 1) - 1) \union {L + 1} /\ L + 1 \notin 1..((L + 1) - 1)
  BY <1>1
<1>4. Quotes(u, L + 2) = IF b = "quote" /\ ~Scanning!EscapedAt(t, L + 1)
                         THEN Quotes(t, L + 1) \union {L + 1} ELSE Quotes(t, L + 1)
  BY <1>1, <1>2, <1>3 DEF Quotes
<1>5. IsFiniteSet(Quotes(t, L + 1)) /\ Cardinality(Quotes(t, L + 1)) \in Nat
  BY <1>1, SetsAreFinite
<1>6. L + 1 \notin Quotes(t, L + 1)
  BY <1>3 DEF Quotes
<1>7. Cardinality(Quotes(t, L + 1) \union {L + 1}) = Cardinality(Quotes(t, L + 1)) + 1
  BY <1>5, <1>6, FS_AddElement
<1>8. \A s, i : Scanning!InString(s, i) = (Cardinality(Quotes(s, i)) % 2 = 1)
  BY ScanCounts DEF Scanning!InString, Quotes
<1>9. Scanning!InString(u, L + 2) = (Cardinality(Quotes(u, L + 2)) % 2 = 1)
      /\ Scanning!InString(t, L + 1) = (Cardinality(Quotes(t, L + 1)) % 2 = 1)
  BY <1>8
<1>10. \A x \in Nat : ((x + 1) % 2 = 1) = ~(x % 2 = 1)
  OBVIOUS
<1>11. CASE b = "quote" /\ ~Scanning!EscapedAt(t, L + 1)
  BY <1>4, <1>5, <1>7, <1>9, <1>10, <1>11, ZenonT(40) DEF u, L
<1>12. CASE ~(b = "quote" /\ ~Scanning!EscapedAt(t, L + 1))
  BY <1>4, <1>9, <1>12 DEF u, L
<1> QED
  BY <1>11, <1>12 DEF u, L

(* A bracket outside a string counts. *)
LEMMA NestingGoesOn ==
  ASSUME NEW t \in Seq(Scanning!Bytes), NEW b \in Scanning!Bytes
  PROVE  /\ Scanning!Nesting(t, Len(t)) \in Int
         /\ Scanning!Nesting(Append(t, b), Len(t) + 1) = Scanning!Nesting(t, Len(t))
              + (IF Scanning!InString(t, Len(t) + 1) THEN 0
                 ELSE IF b = "open" THEN 1 ELSE IF b = "close" THEN -1 ELSE 0)
<1> DEFINE u == Append(t, b)
           L == Len(t)
<1>1. /\ L \in Nat /\ u[L + 1] = b /\ \A i \in 1..L : t[i] = u[i]
  BY OneByteMore
<1> HIDE DEF u, L
<1>2. /\ \A x : Brackets(u, x, L) = Brackets(t, x, L)
      /\ Scanning!InString(u, L + 1) = Scanning!InString(t, L + 1)
  <2>1. L + 1 \in 1..(L + 1) /\ L \in 0..L
    BY <1>1
  <2> QED
    BY <1>1, <2>1, NestingStays, StringsStay
<1>3. 1..(L + 1) = 1..L \union {L + 1} /\ L + 1 \notin 1..L
  BY <1>1
<1>4. \A x : Brackets(u, x, L + 1) = IF x = b /\ ~Scanning!InString(t, L + 1)
                                     THEN Brackets(t, x, L) \union {L + 1} ELSE Brackets(t, x, L)
  BY <1>1, <1>2, <1>3 DEF Brackets
<1>5. \A x : /\ IsFiniteSet(Brackets(t, x, L)) /\ Cardinality(Brackets(t, x, L)) \in Nat
             /\ L + 1 \notin Brackets(t, x, L)
  BY <1>1, <1>3, SetsAreFinite DEF Brackets
<1>6. \A x : Cardinality(Brackets(t, x, L) \union {L + 1}) = Cardinality(Brackets(t, x, L)) + 1
  BY <1>5, FS_AddElement
<1>7. \A s, i : Scanning!Nesting(s, i) = Cardinality(Brackets(s, "open", i)) - Cardinality(Brackets(s, "close", i))
  BY ScanCounts DEF Scanning!Nesting, Scanning!Counted, Brackets
<1>8. \A x : Cardinality(Brackets(u, x, L + 1)) = IF x = b /\ ~Scanning!InString(t, L + 1)
               THEN Cardinality(Brackets(t, x, L)) + 1 ELSE Cardinality(Brackets(t, x, L))
  BY <1>4, <1>6
<1> DEFINE o == Cardinality(Brackets(t, "open", L))
           c == Cardinality(Brackets(t, "close", L))
<1>9. o \in Nat /\ c \in Nat /\ Scanning!Nesting(t, L) = o - c
  BY <1>5, <1>7
<1>10. Scanning!Nesting(u, L + 1) = Cardinality(Brackets(u, "open", L + 1)) - Cardinality(Brackets(u, "close", L + 1))
  BY <1>7
<1>11. /\ Cardinality(Brackets(u, "open", L + 1)) = IF "open" = b /\ ~Scanning!InString(t, L + 1) THEN o + 1 ELSE o
       /\ Cardinality(Brackets(u, "close", L + 1)) = IF "close" = b /\ ~Scanning!InString(t, L + 1) THEN c + 1 ELSE c
  BY <1>8
<1> HIDE DEF o, c
<1>12. Scanning!Nesting(u, L + 1) = Scanning!Nesting(t, L)
              + (IF Scanning!InString(t, L + 1) THEN 0
                 ELSE IF b = "open" THEN 1 ELSE IF b = "close" THEN -1 ELSE 0)
  <2>1. CASE Scanning!InString(t, L + 1)
    BY <1>9, <1>10, <1>11, <2>1
  <2>2. CASE ~Scanning!InString(t, L + 1) /\ b = "open"
    BY <1>9, <1>10, <1>11, <2>2
  <2>3. CASE ~Scanning!InString(t, L + 1) /\ b = "close"
    BY <1>9, <1>10, <1>11, <2>3
  <2>4. CASE ~Scanning!InString(t, L + 1) /\ b \notin {"open", "close"}
    BY <1>9, <1>10, <1>11, <2>4
  <2> QED
    BY <2>1, <2>2, <2>3, <2>4
<1> QED
  BY <1>9, <1>12 DEF u, L

-----------------------------------------------------------------------------
LEMMA EmptyText ==
  /\ Greatest(Backslashes(<< >>, 1), 0) /\ ~Scanning!EscapedAt(<< >>, 1)
  /\ ~Scanning!InString(<< >>, 1) /\ Scanning!Nesting(<< >>, 0) = 0
<1>1. Backslashes(<< >>, 1) = {0}
  BY DEF Backslashes
<1>2. Greatest(Backslashes(<< >>, 1), 0)
  BY <1>1 DEF Greatest
<1>3. ~Scanning!EscapedAt(<< >>, 1)
  <2>1. Scanning!EscapedAt(<< >>, 1) = (0 % 2 = 1)
    BY <1>2, EscapedIs
  <2>2. (0 % 2 = 1) = FALSE
    OBVIOUS
  <2> QED
    BY <2>1, <2>2
<1>4. Quotes(<< >>, 1) = {} /\ \A b : Brackets(<< >>, b, 0) = {}
  BY DEF Quotes, Brackets
<1>5. ~Scanning!InString(<< >>, 1)
  BY <1>4, FS_EmptySet, ScanCounts DEF Scanning!InString, Quotes
<1>6. Scanning!Nesting(<< >>, 0) = 0
  BY <1>4, FS_EmptySet, ScanCounts DEF Scanning!Nesting, Scanning!Counted, Brackets
<1> QED
  BY <1>2, <1>3, <1>5, <1>6

LEMMA ScanInitInv == Scanning!ScanInit /\ MaxDepth \in Nat => ScanInv
<1> SUFFICES ASSUME Scanning!ScanInit, MaxDepth \in Nat PROVE ScanInv
  OBVIOUS
<1>1. text = << >> /\ Len(text) = 0 /\ DOMAIN text = {} /\ text \in Seq(Scanning!Bytes)
  BY DEF Scanning!ScanInit
<1>2. Len(text) + 1 = 1
  BY <1>1
<1>3. /\ Greatest(Backslashes(text, Len(text) + 1), 0) /\ ~Scanning!EscapedAt(text, Len(text) + 1)
      /\ ~Scanning!InString(text, Len(text) + 1) /\ Scanning!Nesting(text, Len(text)) = 0
  <2>1. << >> = text
    BY <1>1
  <2> QED
    BY <1>1, <1>2, <2>1, EmptyText
<1>4. Scanning!DepthIsNesting
  <2>1. ~(\E i \in DOMAIN text : Scanning!Nesting(text, i) > MaxDepth)
    BY <1>1
  <2>2. refused = FALSE /\ depth = 0 /\ quoted = FALSE
    BY DEF Scanning!ScanInit
  <2>3. Scanning!InString(text, Len(text) + 1) = FALSE
    BY <1>3 DEF Scanning!InString
  <2> QED
    BY <1>3, <2>1, <2>2, <2>3 DEF Scanning!DepthIsNesting
<1> QED
  BY <1>1, <1>3, <1>4 DEF Scanning!ScanInit, ScanInv, Scanning!EscapedAt

LEMMA ScanOfByte ==
  ASSUME MaxDepth \in Nat, ScanInv, [Scanning!Scan]_Scanning!scanVars
  PROVE  ScanInv'
<1>1. CASE UNCHANGED Scanning!scanVars
  BY <1>1 DEF Scanning!scanVars, ScanInv, Scanning!DepthIsNesting
<1>2. CASE Scanning!Scan
  <2>1. PICK b \in Scanning!Bytes : /\ text' = Append(text, b) /\ Scanning!Grammatical(text') /\ ~refused
                                    /\ IF quoted THEN Scanning!Inside(b) ELSE Scanning!Outside(b)
    BY <1>2 DEF Scanning!Scan
  <2> DEFINE L == Len(text)
  <2>2. /\ text \in Seq(Scanning!Bytes) /\ quoted \in BOOLEAN /\ escaped \in BOOLEAN
        /\ refused \in BOOLEAN /\ depth \in Nat /\ (escaped => quoted)
        /\ escaped = Scanning!EscapedAt(text, L + 1)
        /\ quoted = Scanning!InString(text, L + 1)
        /\ depth = Scanning!Nesting(text, L)
    BY DEF ScanInv, Scanning!DepthIsNesting
  <2>3. PICK m \in Nat : Greatest(Backslashes(text, L + 1), m)
    BY DEF ScanInv
  <2>4. /\ Len(text') = L + 1 /\ L \in Nat /\ text' \in Seq(Scanning!Bytes)
        /\ DOMAIN text = 1..L /\ DOMAIN text' = 1..(L + 1)
        /\ \A i \in 1..L : text'[i] = text[i]
        /\ text'[L + 1] = b
    BY <2>1, <2>2, OneByteMore
  <2>5. /\ \E k \in Nat : Greatest(Backslashes(text', Len(text') + 1), k)
        /\ Scanning!EscapedAt(text', Len(text') + 1) = (b = "backslash" /\ ~escaped)
    BY <2>1, <2>2, <2>3, EscapeGoesOn
  <2>6. Scanning!InString(text', L + 2) = IF b = "quote" /\ ~escaped THEN ~quoted ELSE quoted
    BY <2>1, <2>2, StringGoesOn
  <2>7. Scanning!Nesting(text', L + 1) = depth
              + (IF quoted THEN 0
                 ELSE IF b = "open" THEN 1 ELSE IF b = "close" THEN -1 ELSE 0)
    BY <2>1, <2>2, NestingGoesOn
  <2>8. Scanning!InString(text', L + 1) = quoted
    <3>1. L + 1 \in 1..(L + 1) /\ L \in Nat
      BY <2>4
    <3>2. \A i \in 1..L : text'[i] = text[i]
      BY <2>4
    <3> HIDE DEF L
    <3>3. Scanning!InString(text', L + 1) = Scanning!InString(text, L + 1)
      BY <3>1, <3>2, StringsStay
    <3> QED
      BY <2>2, <3>3 DEF L
  <2>9. Scanning!Nesting(text', L + 1) >= 0 /\ (b = "backslash" => quoted)
    BY <2>1, <2>4, <2>8 DEF Scanning!Grammatical
  <2>10. \A i \in 1..L : Scanning!Nesting(text', i) = Scanning!Nesting(text, i) /\ ~(Scanning!Nesting(text, i) > MaxDepth)
    <3>1. \A i \in 1..L : i \in 0..L
      OBVIOUS
    <3>2. \A i \in 1..L : Scanning!Nesting(text', i) = Scanning!Nesting(text, i)
      BY <2>4, <3>1, NestingStays
    <3>3. \A i \in 1..L : ~(Scanning!Nesting(text, i) > MaxDepth)
      BY <2>1, <2>4 DEF ScanInv, Scanning!DepthIsNesting
    <3> QED
      BY <3>2, <3>3
  <2>11. ~(depth > MaxDepth)
    <3>1. CASE L = 0
      <4>1. text = << >>
        BY <2>2, <3>1
      <4> QED
        BY <2>2, <3>1, <4>1, EmptyText
    <3>2. CASE L # 0
      <4>1. L \in 1..L
        BY <2>4, <3>2
      <4> QED
        BY <2>2, <2>10, <4>1
    <3> QED
      BY <3>1, <3>2
  <2>12. DOMAIN text' = 1..L \union {L + 1}
    BY <2>4
  <2>13. (\E i \in DOMAIN text' : Scanning!Nesting(text', i) > MaxDepth) <=> (Scanning!Nesting(text', L + 1) > MaxDepth)
    <3>1. ASSUME NEW i \in DOMAIN text', Scanning!Nesting(text', i) > MaxDepth
          PROVE  i = L + 1
      <4>1. ~(Scanning!Nesting(text, i) > MaxDepth) \/ i = L + 1
        BY <2>10, <2>12
      <4>2. i \in 1..L => Scanning!Nesting(text', i) = Scanning!Nesting(text, i)
        BY <2>10
      <4> QED
        BY <2>12, <3>1, <4>1, <4>2
    <3>2. L + 1 \in DOMAIN text'
      BY <2>12
    <3> HIDE DEF L
    <3> QED
      BY <3>1, <3>2
  <2>14. L + 2 = Len(text') + 1
    BY <2>4
  <2> HIDE DEF L
  <2>15. CASE quoted
    <3>1. /\ quoted' = (escaped \/ b # "quote") /\ escaped' = (~escaped /\ b = "backslash")
          /\ UNCHANGED <<depth, refused>>
      BY <2>1, <2>15 DEF Scanning!Inside
    <3>2. escaped' = Scanning!EscapedAt(text', Len(text') + 1)
      BY <2>2, <2>5, <3>1
    <3>3. quoted' = Scanning!InString(text', Len(text') + 1)
      BY <2>2, <2>6, <2>14, <2>15, <3>1
    <3>4. depth' = Scanning!Nesting(text', L + 1)
      BY <2>2, <2>7, <2>15, <3>1
    <3>5. refused' = (Scanning!Nesting(text', L + 1) > MaxDepth)
      BY <2>1, <2>2, <2>11, <3>1, <3>4
    <3>7. refused' = (\E i \in DOMAIN text' : Scanning!Nesting(text', i) > MaxDepth)
      <4>1. CASE Scanning!Nesting(text', L + 1) > MaxDepth
        <5>1. refused' = TRUE
          BY <3>5, <4>1
        <5> QED
          BY <2>13, <4>1, <5>1
      <4>2. CASE ~(Scanning!Nesting(text', L + 1) > MaxDepth)
        <5>1. refused' = FALSE
          <6>1. (Scanning!Nesting(text', L + 1) > MaxDepth) = FALSE
            BY <4>2
          <6> QED
            BY <3>5, <6>1
        <5> QED
          BY <2>13, <4>2, <5>1
      <4> QED
        BY <4>1, <4>2
    <3>8. Scanning!DepthIsNesting'
      BY <2>4, <3>3, <3>4, <3>7 DEF Scanning!DepthIsNesting
    <3> QED
      BY <2>2, <2>4, <2>5, <3>1, <3>2, <3>8 DEF ScanInv
  <2>16. CASE ~quoted
    <3>1. /\ quoted' = (b = "quote")
          /\ depth' = CASE b = "open" -> depth + 1
                        [] b = "close" /\ depth > 0 -> depth - 1
                        [] OTHER -> depth
          /\ refused' = (depth' > MaxDepth)
          /\ UNCHANGED escaped
      BY <2>1, <2>16 DEF Scanning!Outside
    <3>2. ~escaped /\ b # "backslash"
      BY <2>2, <2>9, <2>16
    <3>3. depth' = Scanning!Nesting(text', L + 1) /\ depth' \in Nat
      <4>1. CASE b = "open"
        BY <2>2, <2>7, <2>16, <3>1, <4>1
      <4>2. CASE b = "close"
        <5>1. depth > 0
          BY <2>2, <2>7, <2>9, <2>16, <4>2
        <5> QED
          BY <2>2, <2>7, <2>16, <3>1, <4>2, <5>1
      <4>3. CASE b \notin {"open", "close"}
        BY <2>2, <2>7, <2>16, <3>1, <4>3
      <4> QED
        BY <4>1, <4>2, <4>3
    <3>4. escaped' = Scanning!EscapedAt(text', Len(text') + 1)
      BY <2>2, <2>5, <3>1, <3>2
    <3>5. quoted' = Scanning!InString(text', Len(text') + 1)
      BY <2>2, <2>6, <2>14, <2>16, <3>1, <3>2
    <3>7. refused' = (\E i \in DOMAIN text' : Scanning!Nesting(text', i) > MaxDepth)
      <4>1. CASE Scanning!Nesting(text', L + 1) > MaxDepth
        <5>1. refused' = TRUE
          BY <3>1, <3>3, <4>1
        <5> QED
          BY <2>13, <4>1, <5>1
      <4>2. CASE ~(Scanning!Nesting(text', L + 1) > MaxDepth)
        <5>1. refused' = FALSE
          <6>1. ~(depth' > MaxDepth)
            BY <3>3, <4>2
          <6>2. (depth' > MaxDepth) = FALSE
            BY <6>1
          <6> QED
            BY <3>1, <6>2
        <5> QED
          BY <2>13, <4>2, <5>1
      <4> QED
        BY <4>1, <4>2
    <3>8. Scanning!DepthIsNesting'
      BY <2>4, <3>3, <3>5, <3>7 DEF Scanning!DepthIsNesting
    <3> QED
      BY <2>2, <2>4, <2>5, <3>1, <3>2, <3>3, <3>4, <3>8 DEF ScanInv
  <2> QED
    BY <2>2, <2>15, <2>16
<1> QED
  BY <1>1, <1>2

(* NestingIsFound, of the programs: the scan's depth is the nesting of the *)
(* text, and it refuses a text exactly where that is too deep.             *)
THEOREM NestingFound == MaxDepth \in Nat => (ProgramsSpec => []NestingIsFound)
<1> SUFFICES ASSUME MaxDepth \in Nat PROVE ProgramsSpec => []NestingIsFound
  OBVIOUS
<1>1. ProgramsInit => ScanInv
  BY ScanInitInv DEF ProgramsInit
<1>2. ScanInv /\ [ProgramsNext]_programVars => ScanInv'
  <2> SUFFICES ASSUME ScanInv, [ProgramsNext]_programVars PROVE ScanInv'
    OBVIOUS
  <2>1. [Scanning!Scan]_(Scanning!scanVars)
    BY DEF ProgramsNext, programVars, ExportStep, AdapterStep, ScanStep, FramesStep, RetryStep,
           Retries, scanState, Scanning!scanVars
  <2> QED
    BY <2>1, ScanOfByte
<1>3. ScanInv => NestingIsFound
  BY DEF ScanInv, NestingIsFound
<1> QED
  BY <1>1, <1>2, <1>3, PTL DEF ProgramsSpec

-----------------------------------------------------------------------------
(* The adapter. *)

LEMMA RepliesCount == \A S : Adapting!Cardinality(S) = Cardinality(S)
BY DEF Adapting!Cardinality, Cardinality, Adapting!IsFiniteSet, IsFiniteSet

(* Lines of any number and size, which say anything. *)
AdapterInputs ==
    /\ MaxFrame \in Nat
    /\ \A s \in Inputs :
         /\ Len(s) \in Nat
         /\ \A i \in 1..Len(s) : s[i].size \in Nat

Told == {"accepted", "refused", "status", "bad", "too large", "receipt", "error", "oversized"}
Replies == [line : Nat, told : Told]
Accepted(rs) == {k \in DOMAIN rs : rs[k].told = "accepted"}

(* The line that is read is held from its first byte on, every line before *)
(* it is answered, and what was accepted is what was told so.              *)
AdapterInv ==
    /\ Len(lines) \in Nat /\ \A i \in 1..Len(lines) : lines[i].size \in Nat
    /\ at \in 1..(Len(lines) + 1) /\ taken \in Nat
    /\ doing \in {"read", "reply", "oversized", "eof", "done"}
    /\ doing = "read" =>
         /\ held = [bytes |-> taken, from |-> 0]
         /\ Len(replies) = at - 1
         /\ at <= Len(lines) => taken <= Adapting!Whole(lines[at])
    /\ doing = "reply" =>
         /\ held = [bytes |-> Adapting!Whole(lines[at - 1]), from |-> 0]
         /\ taken = 0 /\ at > 1 /\ Len(replies) = at - 2
    /\ doing = "oversized" =>
         IF taken = 0 THEN at > 1 /\ Len(replies) = at - 2 ELSE Len(replies) = at - 1
    /\ replies \in Seq(Replies)
    /\ \A i \in 1..Len(replies) :
         replies[i].line = IF doing = "done" /\ i = Len(replies) THEN 0 ELSE i
    /\ accepted = Cardinality(Accepted(replies))

LEMMA AdapterInitInv == AdapterInputs /\ Adapting!AdapterInit => AdapterInv
<1> SUFFICES ASSUME AdapterInputs, Adapting!AdapterInit PROVE AdapterInv
  OBVIOUS
<1>1. /\ Len(lines) \in Nat /\ \A i \in 1..Len(lines) : lines[i].size \in Nat
      /\ at = 1 /\ taken = 0 /\ held = [bytes |-> 0, from |-> 0] /\ doing = "read"
      /\ accepted = 0 /\ replies = << >>
  BY DEF AdapterInputs, Adapting!AdapterInit, Adapting!Nothing
<1>2. at <= Len(lines) => taken <= Adapting!Whole(lines[at])
  BY <1>1 DEF Adapting!Whole
<1>3. replies \in Seq(Replies) /\ Len(replies) = 0
  BY <1>1
<1>4. accepted = Cardinality(Accepted(replies))
  <2>1. Accepted(replies) = {}
    BY <1>1 DEF Accepted
  <2> QED
    BY <1>1, <2>1, FS_EmptySet
<1> QED
  BY <1>1, <1>2, <1>3, <1>4 DEF AdapterInv

LEMMA AcceptedCounted ==
  ASSUME NEW rs \in Seq(Replies)
  PROVE  IsFiniteSet(Accepted(rs)) /\ Cardinality(Accepted(rs)) \in Nat
<1>1. Len(rs) \in Nat /\ DOMAIN rs = 1..Len(rs)
  OBVIOUS
<1>2. Accepted(rs) \subseteq 1..Len(rs)
  BY <1>1 DEF Accepted
<1>3. IsFiniteSet(1..Len(rs))
  BY <1>1, FS_Interval
<1>4. IsFiniteSet(Accepted(rs))
  BY <1>2, <1>3, FS_Subset
<1> QED
  BY <1>4, FS_CardinalityType

(* One reply more, of the line that is next. *)
LEMMA OneReplyMore ==
  ASSUME AdapterInv, NEW told \in Told, NEW line \in Nat,
         replies' = Append(replies, [line |-> line, told |-> told])
  PROVE  /\ replies' \in Seq(Replies) /\ Len(replies') = Len(replies) + 1 /\ Len(replies) \in Nat
         /\ \A i \in 1..Len(replies) : replies'[i] = replies[i]
         /\ replies'[Len(replies) + 1] = [line |-> line, told |-> told]
         /\ Cardinality(Accepted(replies')) =
              Cardinality(Accepted(replies)) + (IF told = "accepted" THEN 1 ELSE 0)
<1> DEFINE n == Len(replies)
<1>1. /\ replies \in Seq(Replies) /\ [line |-> line, told |-> told] \in Replies
  BY DEF AdapterInv, Replies
<1>2. /\ replies' \in Seq(Replies) /\ Len(replies') = n + 1 /\ n \in Nat
      /\ \A i \in 1..n : replies'[i] = replies[i]
      /\ replies'[n + 1] = [line |-> line, told |-> told]
  BY <1>1
<1>3. DOMAIN replies = 1..n /\ DOMAIN replies' = 1..(n + 1)
  BY <1>1, <1>2
<1> HIDE DEF n
<1>4. \A i \in 1..(n + 1) : i \in 1..n \/ i = n + 1
  BY <1>2
<1>5. n + 1 \notin 1..n /\ 1..n \subseteq 1..(n + 1) /\ n + 1 \in 1..(n + 1)
  BY <1>2
<1>6. Accepted(replies') =
        Accepted(replies) \union (IF told = "accepted" THEN {n + 1} ELSE {})
  <2>1. replies'[n + 1].told = told
    BY <1>2
  <2>2. ASSUME NEW i \in 1..n PROVE (i \in Accepted(replies')) = (i \in Accepted(replies))
    BY <1>2, <1>3, <1>5 DEF Accepted
  <2>3. (n + 1 \in Accepted(replies')) = (told = "accepted")
    BY <1>3, <1>5, <2>1 DEF Accepted
  <2>4. Accepted(replies') \subseteq 1..(n + 1) /\ Accepted(replies) \subseteq 1..n
    BY <1>3 DEF Accepted
  <2> QED
    BY <1>4, <1>5, <2>2, <2>3, <2>4
<1>7. IsFiniteSet(Accepted(replies)) /\ n + 1 \notin Accepted(replies)
  BY <1>1, <1>3, <1>5, AcceptedCounted DEF Accepted
<1>8. Cardinality(Accepted(replies')) =
        Cardinality(Accepted(replies)) + (IF told = "accepted" THEN 1 ELSE 0)
  <2>0. Cardinality(Accepted(replies)) \in Nat
    BY <1>7, FS_CardinalityType
  <2>1. CASE told = "accepted"
    <3>1. Accepted(replies') = Accepted(replies) \union {n + 1}
      BY <1>6, <2>1
    <3> QED
      BY <1>7, <2>0, <2>1, <3>1, FS_AddElement
  <2>2. CASE told # "accepted"
    <3>1. Accepted(replies') = Accepted(replies)
      BY <1>6, <2>2
    <3> QED
      BY <2>0, <2>2, <3>1
  <2> QED
    BY <2>1, <2>2
<1> QED
  BY <1>2, <1>8 DEF n

(* A reply to a line that was read whole. *)
LEMMA ReplyGoesOn ==
  ASSUME AdapterInv, doing = "reply", NEW told \in Told,
         Adapting!Tell(at - 1, told), doing' = "read", held' = Adapting!Nothing,
         UNCHANGED <<lines, at, taken>>,
         accepted' = accepted + (IF told = "accepted" THEN 1 ELSE 0)
  PROVE  AdapterInv'
<1>1. /\ Len(lines) \in Nat /\ at \in 1..(Len(lines) + 1) /\ at \in Nat /\ at > 1
      /\ taken = 0 /\ Len(replies) = at - 2 /\ at - 1 \in Nat
  BY DEF AdapterInv
<1>2. replies' = Append(replies, [line |-> at - 1, told |-> told])
  BY DEF Adapting!Tell
<1>3. /\ replies' \in Seq(Replies) /\ Len(replies') = Len(replies) + 1
      /\ \A i \in 1..Len(replies) : replies'[i] = replies[i]
      /\ replies'[Len(replies) + 1] = [line |-> at - 1, told |-> told]
      /\ Cardinality(Accepted(replies')) =
           Cardinality(Accepted(replies)) + (IF told = "accepted" THEN 1 ELSE 0)
  BY <1>1, <1>2, OneReplyMore
<1>4. \A i \in 1..Len(replies') : replies'[i].line = i
  <2>1. \A i \in 1..Len(replies) : replies[i].line = i
    BY DEF AdapterInv
  <2>2. \A i \in 1..Len(replies') : i \in 1..Len(replies) \/ i = Len(replies) + 1
    BY <1>1, <1>3
  <2>3. replies'[Len(replies) + 1].line = Len(replies) + 1
    BY <1>1, <1>3
  <2> QED
    BY <1>3, <2>1, <2>2, <2>3
<1>5. at <= Len(lines) => taken <= Adapting!Whole(lines[at])
  BY <1>1 DEF AdapterInv, Adapting!Whole
<1>6. held' = [bytes |-> taken', from |-> 0] /\ Len(replies') = at' - 1
  BY <1>1, <1>3 DEF Adapting!Nothing
<1>7. accepted' = Cardinality(Accepted(replies'))
  BY <1>3 DEF AdapterInv
<1>8. /\ Len(lines') \in Nat /\ \A i \in 1..Len(lines') : lines'[i].size \in Nat
      /\ at' \in 1..(Len(lines') + 1) /\ taken' \in Nat
      /\ at' <= Len(lines') => taken' <= Adapting!Whole(lines'[at'])
  BY <1>1, <1>5 DEF AdapterInv
<1> QED
  BY <1>3, <1>4, <1>6, <1>7, <1>8 DEF AdapterInv

LEMMA FillGoesOn == AdapterInputs /\ AdapterInv /\ Adapting!Fill => AdapterInv'
<1> SUFFICES ASSUME AdapterInputs, AdapterInv, Adapting!Fill PROVE AdapterInv'
  OBVIOUS
<1> DEFINE whole == Adapting!Whole(lines[at])
<1>1. /\ doing = "read" /\ at <= Len(lines) /\ UNCHANGED <<lines, accepted, confirmed, replies>>
      /\ Len(lines) \in Nat /\ at \in 1..(Len(lines) + 1) /\ at \in Nat /\ at \in 1..Len(lines)
      /\ taken \in Nat /\ held = [bytes |-> taken, from |-> 0] /\ Len(replies) = at - 1
      /\ taken <= whole
  BY DEF AdapterInv, Adapting!Fill
<1>2. whole \in Nat
  BY <1>1 DEF AdapterInv, Adapting!Whole
<1>3. PICK n \in 1..(whole - taken) :
        /\ held' = IF held.bytes + n <= MaxFrame + 1
                   THEN [bytes |-> held.bytes + n, from |-> IF held.bytes = 0 THEN taken ELSE held.from]
                   ELSE held
        /\ doing' = IF ~(held.bytes + n <= MaxFrame + 1) THEN "oversized"
                    ELSE IF taken + n = whole THEN "reply" ELSE "read"
        /\ taken' = IF taken + n = whole THEN 0 ELSE taken + n
        /\ at' = IF taken + n = whole THEN at + 1 ELSE at
  BY DEF Adapting!Fill
<1>4. n \in Nat /\ n >= 1 /\ taken + n <= whole /\ held.bytes = taken /\ held.from = 0
  BY <1>1, <1>2, <1>3
<1>5. \A m : lines'[m] = lines[m]
  BY <1>1
<1> HIDE DEF whole
<1>6. /\ at' \in 1..(Len(lines) + 1) /\ taken' \in Nat
      /\ doing' \in {"read", "reply", "oversized", "eof", "done"} /\ doing' # "done"
  BY <1>1, <1>2, <1>3, <1>4
<1>7. /\ doing' = "read" =>
           /\ held' = [bytes |-> taken', from |-> 0]
           /\ Len(replies) = at' - 1
           /\ at' = at /\ taken' <= whole
  BY <1>1, <1>2, <1>3, <1>4
<1>8. doing' = "reply" =>
        /\ held' = [bytes |-> whole, from |-> 0]
        /\ taken' = 0 /\ at' = at + 1
  BY <1>1, <1>2, <1>3, <1>4
<1>9. doing' = "oversized" =>
        IF taken' = 0 THEN at' > 1 /\ Len(replies) = at' - 2 ELSE Len(replies) = at' - 1
  BY <1>1, <1>2, <1>3, <1>4
<1>10. doing' = "read" => (at' <= Len(lines') => taken' <= Adapting!Whole(lines'[at']))
  BY <1>1, <1>7 DEF whole
<1>11. doing' = "reply" =>
         /\ held' = [bytes |-> Adapting!Whole(lines'[at' - 1]), from |-> 0]
         /\ at' > 1 /\ Len(replies) = at' - 2
  BY <1>1, <1>8 DEF whole
<1>12. \A i \in 1..Len(replies) : replies[i].line = i
  BY <1>1 DEF AdapterInv
<1>13. /\ Len(lines) \in Nat /\ \A i \in 1..Len(lines) : lines[i].size \in Nat
       /\ replies \in Seq(Replies) /\ accepted = Cardinality(Accepted(replies))
  BY DEF AdapterInv
<1> QED
  BY <1>1, <1>6, <1>7, <1>8, <1>9, <1>10, <1>11, <1>12, <1>13 DEF AdapterInv

LEMMA RefuseGoesOn == AdapterInv /\ Adapting!Refuse => AdapterInv'
<1> SUFFICES ASSUME AdapterInv, Adapting!Refuse PROVE AdapterInv'
  OBVIOUS
<1> DEFINE line == IF taken = 0 THEN at - 1 ELSE at
<1>1. /\ Len(lines) \in Nat /\ at \in 1..(Len(lines) + 1) /\ at \in Nat /\ taken \in Nat
      /\ doing = "oversized" /\ doing' = "eof"
      /\ UNCHANGED <<lines, at, taken, held, accepted, confirmed>>
      /\ IF taken = 0 THEN at > 1 /\ Len(replies) = at - 2 ELSE Len(replies) = at - 1
      /\ replies' = Append(replies, [line |-> line, told |-> "oversized"])
  BY DEF AdapterInv, Adapting!Refuse, Adapting!Tell
<1>2. line \in Nat /\ line = Len(replies) + 1
  BY <1>1
<1> HIDE DEF line
<1>3. "oversized" \in Told /\ "oversized" # "accepted"
  BY DEF Told
<1>4. /\ replies' \in Seq(Replies) /\ Len(replies') = Len(replies) + 1 /\ Len(replies) \in Nat
      /\ \A i \in 1..Len(replies) : replies'[i] = replies[i]
      /\ replies'[Len(replies) + 1] = [line |-> line, told |-> "oversized"]
      /\ Cardinality(Accepted(replies')) =
           Cardinality(Accepted(replies)) + (IF "oversized" = "accepted" THEN 1 ELSE 0)
  BY <1>1, <1>2, <1>3, OneReplyMore
<1>5. \A i \in 1..Len(replies') : replies'[i].line = i
  <2>1. \A i \in 1..Len(replies) : replies[i].line = i
    BY <1>1 DEF AdapterInv
  <2>2. \A i \in 1..Len(replies') : i \in 1..Len(replies) \/ i = Len(replies) + 1
    BY <1>4
  <2> QED
    BY <1>2, <1>4, <2>1, <2>2
<1>6. accepted' = Cardinality(Accepted(replies'))
  <2>1. accepted = Cardinality(Accepted(replies)) /\ accepted' = accepted
    BY <1>1 DEF AdapterInv
  <2>2. accepted \in Nat
    BY <2>1, AcceptedCounted DEF AdapterInv
  <2> QED
    BY <1>3, <1>4, <2>1, <2>2
<1> QED
  BY <1>1, <1>4, <1>5, <1>6 DEF AdapterInv

LEMMA LastGoesOn == AdapterInv /\ Adapting!LastFlush => AdapterInv'
<1> SUFFICES ASSUME AdapterInv, Adapting!LastFlush PROVE AdapterInv'
  OBVIOUS
<1>1. /\ doing = "eof" /\ doing' = "done"
      /\ UNCHANGED <<lines, at, taken, held, accepted, confirmed>>
  BY DEF Adapting!LastFlush
<1>2. PICK told \in {"receipt", "error"} : replies' = Append(replies, [line |-> 0, told |-> told])
  BY DEF Adapting!LastFlush, Adapting!Tell, Adapting!Flushes
<1>3. told \in Told /\ told # "accepted"
  BY <1>2 DEF Told
<1>4. /\ replies' \in Seq(Replies) /\ Len(replies') = Len(replies) + 1 /\ Len(replies) \in Nat
      /\ \A i \in 1..Len(replies) : replies'[i] = replies[i]
      /\ replies'[Len(replies) + 1] = [line |-> 0, told |-> told]
      /\ Cardinality(Accepted(replies')) =
           Cardinality(Accepted(replies)) + (IF told = "accepted" THEN 1 ELSE 0)
  BY <1>2, <1>3, OneReplyMore
<1>5. \A i \in 1..Len(replies') :
        replies'[i].line = IF doing' = "done" /\ i = Len(replies') THEN 0 ELSE i
  <2>1. \A i \in 1..Len(replies) : replies[i].line = i
    BY <1>1 DEF AdapterInv
  <2>2. \A i \in 1..Len(replies') : i \in 1..Len(replies) \/ i = Len(replies) + 1
    BY <1>4
  <2>3. \A i \in 1..Len(replies) : i # Len(replies')
    BY <1>4
  <2> QED
    BY <1>1, <1>4, <2>1, <2>2, <2>3
<1>6. accepted' = Cardinality(Accepted(replies'))
  <2>1. accepted = Cardinality(Accepted(replies)) /\ accepted' = accepted
    BY <1>1 DEF AdapterInv
  <2>2. accepted \in Nat
    BY <2>1, AcceptedCounted DEF AdapterInv
  <2> QED
    BY <1>3, <1>4, <2>1, <2>2
<1>7. /\ Len(lines') \in Nat /\ \A i \in 1..Len(lines') : lines'[i].size \in Nat
      /\ at' \in 1..(Len(lines') + 1) /\ taken' \in Nat
  BY <1>1 DEF AdapterInv
<1> QED
  BY <1>1, <1>4, <1>5, <1>6, <1>7 DEF AdapterInv

LEMMA AdapterStays ==
  ASSUME AdapterInv, UNCHANGED <<lines, at, taken, held, doing, accepted, replies>>
  PROVE  AdapterInv'
BY DEF AdapterInv, Accepted

LEMMA AdapterGoesOn ==
  AdapterInputs /\ AdapterInv /\ [Adapting!AdapterNext]_(Adapting!adapterVars) => AdapterInv'
<1> SUFFICES ASSUME AdapterInputs, AdapterInv, [Adapting!AdapterNext]_(Adapting!adapterVars)
             PROVE  AdapterInv'
  OBVIOUS
<1>0. ASSUME NEW told, told # "accepted", accepted' = accepted
      PROVE  accepted' = accepted + (IF told = "accepted" THEN 1 ELSE 0)
  <2>1. accepted \in Nat
    BY AcceptedCounted DEF AdapterInv
  <2> QED
    BY <1>0, <2>1
<1>1. CASE UNCHANGED Adapting!adapterVars
  BY <1>1, AdapterStays DEF Adapting!adapterVars
<1>2. CASE Adapting!Deliver
  BY <1>2, AdapterStays DEF Adapting!Deliver
<1>3. CASE Adapting!Fill
  BY <1>3, FillGoesOn
<1>4. CASE Adapting!ReplyRecord
  <2>1. /\ doing = "reply" /\ doing' = "read" /\ held' = Adapting!Nothing
        /\ UNCHANGED <<lines, at, taken>>
    BY <1>4 DEF Adapting!ReplyRecord
  <2>2. CASE accepted - confirmed < Capacity
    <3>1. /\ Adapting!Tell(at - 1, "accepted") /\ "accepted" \in Told
          /\ accepted' = accepted + (IF "accepted" = "accepted" THEN 1 ELSE 0)
      BY <1>4, <2>2 DEF Adapting!ReplyRecord, Told
    <3> QED
      BY <2>1, <3>1, ReplyGoesOn
  <2>3. CASE ~(accepted - confirmed < Capacity)
    <3>1. /\ Adapting!Tell(at - 1, "refused") /\ "refused" \in Told
          /\ accepted' = accepted
      BY <1>4, <2>3 DEF Adapting!ReplyRecord, Told
    <3>2. accepted' = accepted + (IF "refused" = "accepted" THEN 1 ELSE 0)
      <4>1. "refused" # "accepted"
        OBVIOUS
      <4> QED
        BY <1>0, <3>1, <4>1
    <3> QED
      BY <2>1, <3>1, <3>2, ReplyGoesOn
  <2> QED
    BY <2>2, <2>3
<1>5. CASE Adapting!ReplyOther
  <2>1. /\ doing = "reply" /\ doing' = "read" /\ held' = Adapting!Nothing
        /\ UNCHANGED <<lines, at, taken>> /\ accepted' = accepted
        /\ Adapting!Tell(at - 1, Adapting!Command)
        /\ Adapting!Command \in {"status", "bad", "too large"}
    BY <1>5 DEF Adapting!ReplyOther
  <2>2. PICK told \in {"status", "bad", "too large"} : Adapting!Tell(at - 1, told)
    BY <2>1
  <2>3. told \in Told /\ told # "accepted"
    BY <2>2 DEF Told
  <2>4. accepted' = accepted + (IF told = "accepted" THEN 1 ELSE 0)
    BY <1>0, <2>1, <2>3
  <2> QED
    BY <2>1, <2>2, <2>3, <2>4, ReplyGoesOn
<1>6. CASE Adapting!ReplyFlush
  <2>1. /\ doing = "reply" /\ doing' = "read" /\ held' = Adapting!Nothing
        /\ UNCHANGED <<lines, at, taken>> /\ accepted' = accepted
    BY <1>6 DEF Adapting!ReplyFlush
  <2>2. PICK told \in {"receipt", "error"} : Adapting!Tell(at - 1, told)
    BY <1>6 DEF Adapting!ReplyFlush, Adapting!Flushes
  <2>3. told \in Told /\ told # "accepted"
    BY <2>2 DEF Told
  <2>4. accepted' = accepted + (IF told = "accepted" THEN 1 ELSE 0)
    BY <1>0, <2>1, <2>3
  <2> QED
    BY <2>1, <2>2, <2>3, <2>4, ReplyGoesOn
<1>7. CASE Adapting!Refuse
  BY <1>7, RefuseGoesOn
<1>8. CASE Adapting!Eof
  <2>1. /\ doing = "read" /\ doing' = "eof"
        /\ UNCHANGED <<lines, at, taken, held, accepted, confirmed, replies>>
    BY <1>8 DEF Adapting!Eof
  <2> QED
    BY <2>1 DEF AdapterInv, Accepted
<1>9. CASE Adapting!LastFlush
  BY <1>9, LastGoesOn
<1> QED
  BY <1>1, <1>2, <1>3, <1>4, <1>5, <1>6, <1>7, <1>8, <1>9
     DEF Adapting!AdapterNext, Adapting!Proceed

(* A receipt is told of what is confirmed, which is all that was accepted. *)
LEMMA ReceiptsAreTrue ==
  ASSUME AdapterInv, [Adapting!AdapterNext]_(Adapting!adapterVars),
         NEW i \in DOMAIN replies' \ DOMAIN replies, replies'[i].told = "receipt"
  PROVE  confirmed = Adapting!Cardinality({k \in DOMAIN replies : replies[k].told = "accepted"})
<1>1. ASSUME NEW line, NEW told, replies' = Append(replies, [line |-> line, told |-> told])
      PROVE  told = "receipt"
  <2>1. replies \in Seq(Replies) /\ Len(replies) \in Nat /\ DOMAIN replies = 1..Len(replies)
    BY DEF AdapterInv
  <2>2. DOMAIN replies' = 1..(Len(replies) + 1)
        /\ replies'[Len(replies) + 1] = [line |-> line, told |-> told]
    BY <1>1, <2>1
  <2>3. i = Len(replies) + 1
    BY <2>1, <2>2
  <2> QED
    BY <2>2, <2>3
<1>2. confirmed = accepted
  <2>1. replies' # replies
    OBVIOUS
  <2>2. Adapting!ReplyRecord \/ Adapting!ReplyOther \/ Adapting!ReplyFlush \/ Adapting!Refuse
          \/ Adapting!LastFlush
    BY <2>1 DEF Adapting!AdapterNext, Adapting!Proceed, Adapting!adapterVars, Adapting!Deliver,
                Adapting!Fill, Adapting!Eof
  <2>3. CASE Adapting!ReplyRecord
    <3>1. PICK told \in {"accepted", "refused"} :
            replies' = Append(replies, [line |-> at - 1, told |-> told])
      BY <2>3 DEF Adapting!ReplyRecord, Adapting!Tell
    <3> QED
      BY <1>1, <3>1
  <2>4. CASE Adapting!ReplyOther
    <3>1. PICK told \in {"status", "bad", "too large"} :
            replies' = Append(replies, [line |-> at - 1, told |-> told])
      BY <2>4 DEF Adapting!ReplyOther, Adapting!Tell
    <3> QED
      BY <1>1, <3>1
  <2>5. CASE Adapting!Refuse
    <3>1. replies' = Append(replies, [line |-> IF taken = 0 THEN at - 1 ELSE at, told |-> "oversized"])
      BY <2>5 DEF Adapting!Refuse, Adapting!Tell
    <3> QED
      BY <1>1, <3>1
  <2>6. CASE Adapting!ReplyFlush
    <3>1. PICK told \in Adapting!Flushes : replies' = Append(replies, [line |-> at - 1, told |-> told])
      BY <2>6 DEF Adapting!ReplyFlush, Adapting!Tell
    <3>2. told = "receipt"
      BY <1>1, <3>1
    <3> QED
      BY <3>1, <3>2 DEF Adapting!Flushes
  <2>7. CASE Adapting!LastFlush
    <3>1. PICK told \in Adapting!Flushes : replies' = Append(replies, [line |-> 0, told |-> told])
      BY <2>7 DEF Adapting!LastFlush, Adapting!Tell
    <3>2. told = "receipt"
      BY <1>1, <3>1
    <3> QED
      BY <3>1, <3>2 DEF Adapting!Flushes
  <2> QED
    BY <2>2, <2>3, <2>4, <2>5, <2>6, <2>7
<1> QED
  BY <1>2, RepliesCount DEF AdapterInv, Accepted

(* CommandsAreAnswered: for lines of any number and size, cut into pieces  *)
(* anywhere, each is answered once and in order, none is carried out that  *)
(* was not read from its first byte to its last, and a receipt is only     *)
(* told when all that was accepted before it is confirmed.                 *)
THEOREM EveryCommandIsAnswered == AdapterInputs => (ProgramsSpec => CommandsAreAnswered)
<1> SUFFICES ASSUME AdapterInputs PROVE ProgramsSpec => CommandsAreAnswered
  OBVIOUS
<1>1. ProgramsInit => AdapterInv
  BY AdapterInitInv DEF ProgramsInit
<1>2. [ProgramsNext]_programVars => [Adapting!AdapterNext]_(Adapting!adapterVars)
  BY DEF ProgramsNext, programVars, ExportStep, AdapterStep, ScanStep, FramesStep, RetryStep,
         Retries, adapterState, Adapting!adapterVars
<1>3. AdapterInv /\ [ProgramsNext]_programVars => AdapterInv'
  BY <1>2, AdapterGoesOn, SMTT(30)
<1>4. AdapterInv => Adapting!OneReplyEach /\ Adapting!CommandsAreWhole
  <2> SUFFICES ASSUME AdapterInv PROVE Adapting!OneReplyEach /\ Adapting!CommandsAreWhole
    OBVIOUS
  <2>1. DOMAIN replies = 1..Len(replies)
    BY DEF AdapterInv
  <2> QED
    BY <2>1 DEF AdapterInv, Adapting!OneReplyEach, Adapting!CommandsAreWhole
<1>5. AdapterInv /\ [ProgramsNext]_programVars =>
        [\A i \in DOMAIN replies' \ DOMAIN replies :
           replies'[i].told = "receipt" =>
             confirmed = Adapting!Cardinality({k \in DOMAIN replies : replies[k].told = "accepted"})
          ]_(Adapting!adapterVars)
  BY <1>2, ReceiptsAreTrue
<1> QED
  BY <1>1, <1>3, <1>4, <1>5, PTL
     DEF ProgramsSpec, CommandsAreAnswered, Adapting!ReceiptsCover

-----------------------------------------------------------------------------
(* The laboratory's store of frames. *)

LEMMA RowsCount == \A S : /\ Frames!Cardinality(S) = Cardinality(S)
                          /\ Frames!IsFiniteSet(S) = IsFiniteSet(S)
BY DEF Frames!Cardinality, Cardinality, Frames!IsFiniteSet, IsFiniteSet

LEMMA LeastOf ==
  ASSUME NEW T \in SUBSET Nat, T # {}
  PROVE  \E n \in T : \A m \in T : n <= m
<1> DEFINE less == {ss \in Nat \X Nat : ss[1] < ss[2]}
<1>1. IsWellFoundedOn(less, Nat)
  BY NatLessThanWellFounded DEF OpToRel
<1>2. \A x, y \in Nat : x < y => <<x, y>> \in less
  OBVIOUS
<1> HIDE DEF less
<1>3. PICK n \in T : \A m \in T : ~ (<<m, n>> \in less)
  BY <1>1, WFMin
<1>4. ASSUME NEW m \in T PROVE n <= m
  <2>1. m \in Nat /\ n \in Nat
    OBVIOUS
  <2>2. ~ (m < n)
    BY <1>2, <1>3, <2>1
  <2> QED
    BY <2>1, <2>2
<1> QED
  BY <1>4

LEMMA MinIsLeast ==
  ASSUME NEW T \in SUBSET Nat, T # {}
  PROVE  Frames!Min(T) \in T /\ \A m \in T : Frames!Min(T) <= m
BY LeastOf DEF Frames!Min

(* Numbers up to n that are not none have a greatest one. *)
LEMMA MaxIsThere ==
  ASSUME NEW n \in Nat, NEW T \in SUBSET (0..n), T # {}
  PROVE  Frames!Max(T) \in T /\ \A m \in T : m <= Frames!Max(T)
<1> DEFINE U == {b \in Nat : \A m \in T : m <= b}
<1>1. U \in SUBSET Nat /\ n \in U
  OBVIOUS
<1>2. PICK b \in U : \A c \in U : b <= c
  BY <1>1, LeastOf
<1>3. b \in T
  <2>1. SUFFICES ASSUME b \notin T PROVE FALSE
    OBVIOUS
  <2>2. \A m \in T : m \in Nat /\ m < b
    BY <1>2, <2>1
  <2>3. b - 1 \in Nat /\ \A m \in T : m <= b - 1
    <3>1. PICK x \in T : TRUE
      OBVIOUS
    <3>2. b \in Nat /\ x \in Nat /\ x < b
      BY <1>2, <2>2
    <3>3. b - 1 \in Nat
      BY <3>2
    <3>4. ASSUME NEW m \in T PROVE m <= b - 1
      <4>1. m \in Nat /\ m < b
        BY <2>2
      <4> QED
        BY <3>2, <4>1
    <3> QED
      BY <3>3, <3>4
  <2>4. b - 1 \in U
    BY <2>3
  <2> QED
    BY <1>2, <2>3, <2>4
<1>4. \E x \in T : \A y \in T : x >= y
  BY <1>2, <1>3
<1>5. Frames!Max(T) \in T /\ \A y \in T : Frames!Max(T) >= y
  BY <1>4 DEF Frames!Max
<1> QED
  BY <1>5

-----------------------------------------------------------------------------
(* Any frames of records. *)
FrameInputs ==
    \A m \in Messages :
        /\ Len(m.frame) \in Nat /\ DOMAIN m.frame = 1..Len(m.frame)
        /\ \A i \in DOMAIN m.frame : m.frame[i].seq \in Nat

FrameSet == {m.frame : m \in Messages}

(* The record is in the tables, under its own identity. *)
Holds(rs, bs, o, r) ==
    /\ Frames!Key(o, r) \in DOMAIN rs
    /\ Frames!At(bs, rs[Frames!Key(o, r)]) = r

(* Each row is of the record it has the identity of. *)
Tables(rs, bs) ==
    /\ bs \in Seq(FrameSet) /\ IsFiniteSet(DOMAIN rs)
    /\ \A k \in DOMAIN rs :
         /\ rs[k].b \in 1..Len(bs) /\ rs[k].n \in DOMAIN bs[rs[k].b]
         /\ Frames!Key(k[1], Frames!At(bs, rs[k])) = k

WholeFrame(rs, bs, b) ==
    \E o \in Frames!Origins :
        /\ \E k \in DOMAIN rs : k[1] = o /\ rs[k].b = b
        /\ \A i \in DOMAIN bs[b] : Holds(rs, bs, o, bs[b][i])

(* Tables only grow. *)
Grown(rs, bs, rt, bt) ==
    /\ DOMAIN rs \subseteq DOMAIN rt /\ \A k \in DOMAIN rs : rt[k] = rs[k]
    /\ Len(bs) <= Len(bt) /\ \A b \in 1..Len(bs) : bt[b] = bs[b]

(* The worker's own tables, from its first look to its commit: those of    *)
(* the store, then with its frame and the rows of all records but the      *)
(* fresh ones, then of all.                                                *)
WorkerInv(w) ==
    /\ w = [msg |-> w.msg, at |-> w.at, fresh |-> w.fresh, records |-> w.records,
            batches |-> w.batches]
    /\ w.msg \in Messages
    /\ w.at \in {"look", "insert", "commit", "seal"}
    /\ w.at = "look" => w.records = stored /\ w.batches = batches
    /\ w.at \in {"insert", "commit"} =>
         /\ Tables(w.records, w.batches) /\ Grown(stored, batches, w.records, w.batches)
         /\ \A b \in 1..Len(batches) : WholeFrame(w.records, w.batches, b)
    /\ w.at = "insert" =>
         /\ w.fresh \subseteq DOMAIN w.msg.frame /\ w.fresh # {}
         /\ Len(w.batches) = Len(batches) + 1 /\ w.batches[Len(w.batches)] = w.msg.frame
         /\ \A i \in DOMAIN w.msg.frame \ w.fresh :
              Holds(w.records, w.batches, w.msg.origin, w.msg.frame[i])
         /\ \A i \in w.fresh :
              /\ Frames!Key(w.msg.origin, w.msg.frame[i]) \notin DOMAIN w.records
              /\ \A j \in w.fresh :
                   i # j => Frames!Key(w.msg.origin, w.msg.frame[i]) # Frames!Key(w.msg.origin, w.msg.frame[j])
    /\ w.at = "commit" =>
         /\ \A b \in 1..Len(w.batches) : WholeFrame(w.records, w.batches, b)
         /\ \A i \in DOMAIN w.msg.frame : Holds(w.records, w.batches, w.msg.origin, w.msg.frame[i])
    /\ w.at = "seal" =>
         \A i \in DOMAIN w.msg.frame : Holds(stored, batches, w.msg.origin, w.msg.frame[i])

BatchInv ==
    /\ Tables(stored, batches)
    /\ \A b \in 1..Len(batches) : WholeFrame(stored, batches, b)
    /\ \A m \in sealed :
         m \in Messages /\ \A i \in DOMAIN m.frame : Holds(stored, batches, m.origin, m.frame[i])
    /\ worker # None => WorkerInv(worker)

-----------------------------------------------------------------------------
LEMMA BatchInitInv == Frames!BatchInit => BatchInv
<1> SUFFICES ASSUME Frames!BatchInit PROVE BatchInv
  OBVIOUS
<1>1. stored = << >> /\ batches = << >> /\ worker = None /\ sealed = {}
  BY DEF Frames!BatchInit
<1>2. DOMAIN stored = {} /\ batches \in Seq(FrameSet) /\ Len(batches) = 0
  BY <1>1
<1>3. Tables(stored, batches)
  BY <1>2, FS_EmptySet DEF Tables
<1> QED
  BY <1>1, <1>2, <1>3 DEF BatchInv

LEMMA HoldsOn ==
  ASSUME NEW rs, NEW bs, NEW rt, NEW bt, Tables(rs, bs), Grown(rs, bs, rt, bt),
         NEW o, NEW r, Holds(rs, bs, o, r)
  PROVE  Holds(rt, bt, o, r)
<1> DEFINE k == Frames!Key(o, r)
<1>1. k \in DOMAIN rs /\ k \in DOMAIN rt /\ rt[k] = rs[k] /\ rs[k].b \in 1..Len(bs)
  BY DEF Holds, Grown, Tables
<1>2. bt[rt[k].b] = bs[rs[k].b]
  BY <1>1 DEF Grown
<1> QED
  BY <1>1, <1>2 DEF Holds, Frames!At

LEMMA WholeOn ==
  ASSUME NEW rs, NEW bs, NEW rt, NEW bt, Tables(rs, bs), Grown(rs, bs, rt, bt),
         NEW b \in 1..Len(bs), WholeFrame(rs, bs, b)
  PROVE  WholeFrame(rt, bt, b)
<1>1. PICK o \in Frames!Origins :
        /\ \E k \in DOMAIN rs : k[1] = o /\ rs[k].b = b
        /\ \A i \in DOMAIN bs[b] : Holds(rs, bs, o, bs[b][i])
  BY DEF WholeFrame
<1>2. bt[b] = bs[b]
  BY DEF Grown
<1>3. \E k \in DOMAIN rt : k[1] = o /\ rt[k].b = b
  BY <1>1 DEF Grown
<1>4. \A i \in DOMAIN bt[b] : Holds(rt, bt, o, bt[b][i])
  BY <1>1, <1>2, HoldsOn
<1> QED
  BY <1>3, <1>4 DEF WholeFrame

(* One row more, of a record of the last frame. *)
IsRowMore(rs, bs, rt, o, n) ==
  LET key == Frames!Key(o, bs[Len(bs)][n])
  IN  /\ Tables(rs, bs)
      /\ Len(bs) >= 1
      /\ n \in DOMAIN bs[Len(bs)]
      /\ DOMAIN rt = DOMAIN rs \union {key}
      /\ key \notin DOMAIN rs
      /\ rt[key] = [b |-> Len(bs), n |-> n]
      /\ \A k \in DOMAIN rs : rt[k] = rs[k]

RowIsKept(rs, bs, rt, o, n) ==
  /\ Tables(rt, bs)
  /\ Grown(rs, bs, rt, bs)
  /\ Holds(rt, bs, o, bs[Len(bs)][n])
  /\ \E k \in DOMAIN rt : k[1] = o /\ rt[k].b = Len(bs)

LEMMA RowMore ==
  ASSUME NEW rs, NEW bs, NEW rt, NEW o, NEW n, IsRowMore(rs, bs, rt, o, n)
  PROVE  RowIsKept(rs, bs, rt, o, n)
<1> DEFINE key == Frames!Key(o, bs[Len(bs)][n])
<1>0. Tables(rs, bs) /\ Len(bs) >= 1 /\ n \in DOMAIN bs[Len(bs)]
  BY DEF IsRowMore
<1>1. /\ DOMAIN rt = DOMAIN rs \union {key} /\ key \notin DOMAIN rs
      /\ rt[key] = [b |-> Len(bs), n |-> n] /\ \A k \in DOMAIN rs : rt[k] = rs[k]
  BY DEF IsRowMore
<1>2. rt[key].b = Len(bs) /\ rt[key].n = n
  BY <1>1
<1>3. key[1] = o
  BY DEF Frames!Key
<1>4. Frames!At(bs, rt[key]) = bs[Len(bs)][n]
  BY <1>2 DEF Frames!At
<1>5. Len(bs) \in Nat /\ bs \in Seq(FrameSet) /\ Len(bs) \in 1..Len(bs)
  BY <1>0 DEF Tables
<1>6. Frames!Key(key[1], Frames!At(bs, rt[key])) = key
  BY <1>3, <1>4
<1> HIDE DEF key
<1>7. Tables(rt, bs)
  <2>1. IsFiniteSet(DOMAIN rt)
    BY <1>1, <1>0, FS_AddElement DEF Tables
  <2>2. ASSUME NEW k \in DOMAIN rt
        PROVE  /\ rt[k].b \in 1..Len(bs) /\ rt[k].n \in DOMAIN bs[rt[k].b]
               /\ Frames!Key(k[1], Frames!At(bs, rt[k])) = k
    <3>1. CASE k = key
      BY <1>0, <1>2, <1>5, <1>6, <3>1
    <3>2. CASE k \in DOMAIN rs
      BY <1>0, <1>1, <3>2 DEF Tables
    <3> QED
      BY <1>1, <3>1, <3>2
  <2> QED
    BY <1>5, <2>1, <2>2 DEF Tables
<1>8. Grown(rs, bs, rt, bs)
  BY <1>1, <1>5 DEF Grown
<1>9. Holds(rt, bs, o, bs[Len(bs)][n])
  BY <1>1, <1>4 DEF Holds, key
<1>10. \E k \in DOMAIN rt : k[1] = o /\ rt[k].b = Len(bs)
  BY <1>1, <1>2, <1>3
<1> QED
  BY <1>7, <1>8, <1>9, <1>10 DEF RowIsKept

LEMMA GrownTwice ==
  ASSUME NEW rs, NEW bs, NEW rt, NEW bt, NEW ru, NEW bu,
         Len(bs) \in Nat, Len(bt) \in Nat, Len(bu) \in Nat,
         Grown(rs, bs, rt, bt), Grown(rt, bt, ru, bu)
  PROVE  Grown(rs, bs, ru, bu)
<1>1. Len(bs) <= Len(bu) /\ \A b \in 1..Len(bs) : b \in 1..Len(bt)
  BY DEF Grown
<1> QED
  BY <1>1 DEF Grown

LEMMA GrownOneFrame ==
  ASSUME NEW rs, NEW bs, Tables(rs, bs), NEW f \in FrameSet
  PROVE  /\ Tables(rs, Append(bs, f)) /\ Grown(rs, bs, rs, Append(bs, f))
         /\ Len(Append(bs, f)) = Len(bs) + 1 /\ Append(bs, f)[Len(bs) + 1] = f
         /\ Len(bs) \in Nat
<1> DEFINE bt == Append(bs, f)
<1>1. /\ bt \in Seq(FrameSet) /\ Len(bt) = Len(bs) + 1 /\ Len(bs) \in Nat /\ bt[Len(bs) + 1] = f
      /\ \A b \in 1..Len(bs) : bt[b] = bs[b] /\ b \in 1..Len(bt)
  BY DEF Tables
<1> HIDE DEF bt
<1>2. Grown(rs, bs, rs, bt)
  BY <1>1 DEF Grown
<1>3. ASSUME NEW k \in DOMAIN rs
      PROVE  /\ rs[k].b \in 1..Len(bt) /\ rs[k].n \in DOMAIN bt[rs[k].b]
             /\ Frames!Key(k[1], Frames!At(bt, rs[k])) = k
  <2>1. rs[k].b \in 1..Len(bs) /\ bt[rs[k].b] = bs[rs[k].b]
    BY <1>1 DEF Tables
  <2>2. Frames!At(bt, rs[k]) = Frames!At(bs, rs[k])
    BY <2>1 DEF Frames!At
  <2> QED
    BY <1>1, <2>1, <2>2 DEF Tables
<1>4. Tables(rs, bt)
  BY <1>1, <1>3 DEF Tables
<1> QED
  BY <1>1, <1>2, <1>4 DEF bt

-----------------------------------------------------------------------------
(* What does not touch the store keeps what is said of it. *)
LEMMA StoreStays ==
  ASSUME BatchInv, UNCHANGED <<stored, batches, sealed>>, worker' # None => WorkerInv(worker)'
  PROVE  BatchInv'
BY DEF BatchInv, Tables, WholeFrame, Holds

LEMMA ReceiveStays ==
  ASSUME BatchInv, NEW m \in Messages, Frames!Receive(m)
  PROVE  BatchInv'
<1>1. /\ UNCHANGED <<stored, batches, sealed>>
      /\ worker' = [msg |-> m, at |-> "look", fresh |-> {}, records |-> stored, batches |-> batches]
  BY DEF Frames!Receive
<1>2. WorkerInv(worker)'
  BY <1>1 DEF WorkerInv
<1> QED
  BY <1>1, <1>2, StoreStays

LEMMA LookStays ==
  ASSUME FrameInputs, BatchInv, Frames!Look
  PROVE  BatchInv'
<1> DEFINE all == DOMAIN worker.msg.frame
           fresh == {i \in all : ~Frames!Known(worker, i)}
           key(i) == Frames!Key(worker.msg.origin, worker.msg.frame[i])
<1>1. /\ UNCHANGED <<stored, batches, sealed>> /\ WorkerInv(worker) /\ worker.at = "look"
      /\ worker.records = stored /\ worker.batches = batches /\ worker.msg \in Messages
  BY DEF BatchInv, Frames!Look, WorkerInv
<1>2. CASE worker' = None
  BY <1>1, <1>2, StoreStays
<1>3. CASE worker' # None
  <2>1. /\ \A i \in all : ~Frames!Conflicts(worker, i) /\ ~Frames!Repeats(worker, i)
        /\ worker' = [worker EXCEPT
                        !.at = IF fresh = {} THEN "commit" ELSE "insert",
                        !.fresh = fresh,
                        !.batches = IF fresh = {} THEN @ ELSE Append(@, worker.msg.frame)]
    BY <1>3 DEF Frames!Look
  <2>2. /\ worker'.msg = worker.msg /\ worker'.fresh = fresh /\ worker'.records = stored
        /\ worker'.at = (IF fresh = {} THEN "commit" ELSE "insert")
        /\ worker'.batches = (IF fresh = {} THEN batches ELSE Append(batches, worker.msg.frame))
        /\ worker' = [msg |-> worker.msg, at |-> worker'.at, fresh |-> fresh,
                      records |-> stored, batches |-> worker'.batches]
    BY <1>1, <2>1 DEF WorkerInv
  <2>3. ASSUME NEW i \in all \ fresh
        PROVE  Holds(stored, batches, worker.msg.origin, worker.msg.frame[i])
    BY <1>1, <2>1 DEF Frames!Known, Frames!Conflicts, Holds
  <2>4. ASSUME NEW i \in fresh PROVE key(i) \notin DOMAIN stored
    BY <1>1 DEF Frames!Known
  <2>5. ASSUME NEW i \in fresh, NEW j \in fresh, i # j PROVE key(i) # key(j)
    <3>1. \A a, b : a \in fresh /\ b \in fresh /\ a < b => key(a) # key(b)
      <4> SUFFICES ASSUME NEW a \in fresh, NEW b \in fresh, a < b, key(a) = key(b) PROVE FALSE
        OBVIOUS
      <4>1. a \in 1..(b - 1)
        BY <1>1 DEF FrameInputs
      <4>2. Frames!Key("", worker.msg.frame[a]) = Frames!Key("", worker.msg.frame[b])
        BY DEF Frames!Key
      <4>3. Frames!Repeats(worker, b)
        BY <4>1, <4>2 DEF Frames!Repeats
      <4> QED
        BY <2>1, <4>3
    <3>2. i \in Nat /\ j \in Nat
      BY <1>1 DEF FrameInputs
    <3>3. i < j \/ j < i
      BY <2>5, <3>2
    <3> QED
      BY <3>1, <3>3
  <2> HIDE DEF all, fresh, key
  <2>6. Tables(stored, batches) /\ \A b \in 1..Len(batches) : WholeFrame(stored, batches, b)
    BY DEF BatchInv
  <2>7. CASE fresh = {}
    <3>1. worker'.at = "commit" /\ worker'.batches = batches
      BY <2>2, <2>7
    <3>2. Grown(stored, batches, stored, batches)
      BY <2>6 DEF Grown, Tables
    <3>3. \A i \in all : Holds(stored, batches, worker.msg.origin, worker.msg.frame[i])
      BY <2>3, <2>7
    <3>4. /\ Tables(stored, batches)' /\ (Grown(stored, batches, worker.records, worker.batches))'
      BY <1>1, <2>2, <2>6, <3>1, <3>2 DEF Tables, Grown
    <3>5. WorkerInv(worker)'
      BY <1>1, <2>2, <2>6, <3>1, <3>2, <3>3 DEF WorkerInv, all, Grown
    <3> QED
      BY <1>1, <3>5, StoreStays
  <2>8. CASE fresh # {}
    <3> DEFINE f == worker.msg.frame
               bt == Append(batches, f)
    <3>1. worker'.at = "insert" /\ worker'.batches = bt
      BY <2>2, <2>8
    <3>2. f \in FrameSet
      BY <1>1 DEF FrameSet
    <3>3. /\ Tables(stored, bt) /\ Grown(stored, batches, stored, bt) /\ Len(bt) = Len(batches) + 1
          /\ bt[Len(bt)] = f
      BY <2>6, <3>2, GrownOneFrame
    <3> HIDE DEF bt
    <3>4. \A i \in all \ fresh : Holds(stored, bt, worker.msg.origin, f[i])
      BY <2>3, <2>6, <3>3, HoldsOn
    <3>5. \A b \in 1..Len(batches) : WholeFrame(stored, bt, b)
      BY <2>6, <3>3, WholeOn
    <3>6. fresh \subseteq all
      BY DEF fresh
    <3>7. /\ worker'.at # "look" /\ worker'.at # "commit" /\ worker'.at # "seal"
          /\ Grown(stored', batches', stored, bt) /\ Len(bt) = Len(batches') + 1
          /\ \A b \in 1..Len(batches') : WholeFrame(stored, bt, b)
      BY <1>1, <3>1, <3>3, <3>5
    <3>8. WorkerInv(worker)'
      BY <1>1, <2>2, <2>4, <2>5, <2>8, <3>1, <3>3, <3>4, <3>6, <3>7 DEF WorkerInv, all, key
    <3> QED
      BY <1>1, <3>8, StoreStays
  <2> QED
    BY <2>7, <2>8
<1> QED
  BY <1>2, <1>3

LEMMA InsertStays ==
  ASSUME FrameInputs, BatchInv, Frames!Insert
  PROVE  BatchInv'
<1> DEFINE w == worker
           f == worker.msg.frame
           o == worker.msg.origin
           n == Frames!Min(worker.fresh)
           rt == Frames!WithRow(worker, n)
<1>1. /\ UNCHANGED <<stored, batches, sealed>> /\ WorkerInv(worker) /\ worker.at = "insert"
      /\ worker' = [worker EXCEPT !.records = rt,
                                  !.at = IF worker.fresh = {n} THEN "commit" ELSE @,
                                  !.fresh = @ \ {n}]
  BY DEF BatchInv, Frames!Insert
<1>2. /\ worker.msg \in Messages /\ worker.fresh \subseteq DOMAIN f /\ worker.fresh # {}
      /\ Tables(w.records, w.batches) /\ Grown(stored, batches, w.records, w.batches)
      /\ \A b \in 1..Len(batches) : WholeFrame(w.records, w.batches, b)
      /\ Len(w.batches) = Len(batches) + 1 /\ w.batches[Len(w.batches)] = f
  BY <1>1 DEF WorkerInv
<1>3. n \in worker.fresh /\ n \in DOMAIN f
  <2>1. worker.fresh \in SUBSET Nat
    BY <1>2 DEF FrameInputs
  <2> QED
    BY <1>2, <2>1, MinIsLeast
<1>4. /\ worker'.msg = worker.msg /\ worker'.records = rt /\ worker'.batches = worker.batches
      /\ worker'.at = (IF worker.fresh = {n} THEN "commit" ELSE "insert")
      /\ worker'.fresh = worker.fresh \ {n}
      /\ worker' = [msg |-> worker.msg, at |-> worker'.at, fresh |-> worker.fresh \ {n},
                    records |-> rt, batches |-> worker.batches]
  BY <1>1 DEF WorkerInv
<1>5. rt = [k \in DOMAIN w.records \union {Frames!Key(o, f[n])} |->
              IF k = Frames!Key(o, f[n]) THEN [b |-> Len(w.batches), n |-> n] ELSE w.records[k]]
  BY DEF Frames!WithRow
<1>6. /\ \A i \in DOMAIN f \ w.fresh : Holds(w.records, w.batches, o, f[i])
      /\ \A i \in w.fresh :
           /\ Frames!Key(o, f[i]) \notin DOMAIN w.records
           /\ \A j \in w.fresh : i # j => Frames!Key(o, f[i]) # Frames!Key(o, f[j])
  BY <1>1 DEF WorkerInv
<1>7. Len(batches) \in Nat /\ Len(w.batches) \in Nat /\ Len(w.batches) >= 1
  BY <1>2 DEF BatchInv, Tables
<1> HIDE DEF n, rt
<1>8. /\ Tables(rt, w.batches) /\ Grown(w.records, w.batches, rt, w.batches)
      /\ Holds(rt, w.batches, o, f[n])
      /\ \E k \in DOMAIN rt : k[1] = o /\ rt[k].b = Len(w.batches)
  <2>1. Frames!Key(o, f[n]) \notin DOMAIN w.records
    BY <1>3, <1>6
  <2>2. /\ DOMAIN rt = DOMAIN w.records \union {Frames!Key(o, f[n])}
        /\ rt[Frames!Key(o, f[n])] = [b |-> Len(w.batches), n |-> n]
        /\ \A k \in DOMAIN w.records : rt[k] = w.records[k]
    BY <1>5, <2>1
  <2> HIDE DEF w, f, o
  <2> QED
    <3>1. /\ Tables(w.records, w.batches) /\ Len(w.batches) >= 1 /\ w.batches[Len(w.batches)] = f
          /\ n \in DOMAIN w.batches[Len(w.batches)]
      BY <1>2, <1>3, <1>7
    <3>2. Frames!Key(o, f[n]) = Frames!Key(o, w.batches[Len(w.batches)][n])
      BY <3>1
    <3>3. IsRowMore(w.records, w.batches, rt, o, n)
      BY <2>1, <2>2, <3>1, <3>2 DEF IsRowMore
    <3>4. RowIsKept(w.records, w.batches, rt, o, n)
      BY <3>3, RowMore
    <3> QED
      BY <3>1, <3>4 DEF RowIsKept
<1>9. Grown(stored, batches, rt, w.batches)
  BY <1>2, <1>7, <1>8, GrownTwice
<1>10. ASSUME NEW i \in DOMAIN f \ (w.fresh \ {n}) PROVE Holds(rt, w.batches, o, f[i])
  <2>1. CASE i = n
    BY <1>8, <2>1
  <2>2. CASE i # n
    BY <1>2, <1>6, <1>8, <2>2, HoldsOn
  <2> QED
    BY <2>1, <2>2
<1>11. \A b \in 1..Len(batches) : WholeFrame(rt, w.batches, b)
  <2>1. \A b \in 1..Len(batches) : b \in 1..Len(w.batches)
    BY <1>2, <1>7
  <2> QED
    BY <1>2, <1>8, <2>1, WholeOn
<1>12. CASE worker.fresh = {n}
  <2>1. worker'.at = "commit"
    BY <1>4, <1>12
  <2>2. \A i \in DOMAIN f : Holds(rt, w.batches, o, f[i])
    BY <1>10, <1>12
  <2>3. o \in Frames!Origins
    BY <1>2 DEF Frames!Origins
  <2>4. WholeFrame(rt, w.batches, Len(w.batches))
    BY <1>2, <1>8, <2>2, <2>3 DEF WholeFrame
  <2>5. \A b \in 1..Len(w.batches) : b \in 1..Len(batches) \/ b = Len(w.batches)
    BY <1>2, <1>7
  <2>6. \A b \in 1..Len(w.batches) : WholeFrame(rt, w.batches, b)
    BY <1>11, <2>4, <2>5
  <2>7. /\ Grown(stored', batches', rt, w.batches)
        /\ \A b \in 1..Len(batches') : WholeFrame(rt, w.batches, b)
    BY <1>1, <1>9, <1>11
  <2>8. WorkerInv(worker)'
    BY <1>2, <1>4, <1>8, <2>1, <2>2, <2>6, <2>7 DEF WorkerInv
  <2> QED
    BY <1>1, <2>8, StoreStays
<1>13. CASE worker.fresh # {n}
  <2>1. worker'.at = "insert"
    BY <1>4, <1>13
  <2>2. worker.fresh \ {n} # {} /\ worker.fresh \ {n} \subseteq DOMAIN f
    BY <1>2, <1>3, <1>13
  <2>3. \A i \in w.fresh \ {n} :
          /\ Frames!Key(o, f[i]) \notin DOMAIN rt
          /\ \A j \in w.fresh \ {n} : i # j => Frames!Key(o, f[i]) # Frames!Key(o, f[j])
    <3>1. DOMAIN rt = DOMAIN w.records \union {Frames!Key(o, f[n])}
      BY <1>5
    <3> QED
      BY <1>3, <1>6, <3>1
  <2>4. /\ Grown(stored', batches', rt, w.batches) /\ Len(w.batches) = Len(batches') + 1
        /\ \A b \in 1..Len(batches') : WholeFrame(rt, w.batches, b)
    BY <1>1, <1>2, <1>9, <1>11
  <2>5. WorkerInv(worker)'
    BY <1>2, <1>4, <1>8, <1>10, <2>1, <2>2, <2>3, <2>4 DEF WorkerInv
  <2> QED
    BY <1>1, <2>5, StoreStays
<1> QED
  BY <1>12, <1>13

LEMMA CommitStays ==
  ASSUME BatchInv, Frames!Commit
  PROVE  BatchInv' /\ Grown(stored, batches, stored', batches')
<1>1. /\ WorkerInv(worker) /\ worker.at = "commit" /\ sealed' = sealed
      /\ stored' = worker.records /\ batches' = worker.batches
      /\ worker' = [worker EXCEPT !.at = "seal"]
  BY DEF BatchInv, Frames!Commit
<1>2. /\ worker.msg \in Messages /\ Tables(stored', batches')
      /\ Grown(stored, batches, stored', batches')
      /\ \A b \in 1..Len(batches') : WholeFrame(stored', batches', b)
      /\ \A i \in DOMAIN worker.msg.frame :
           Holds(stored', batches', worker.msg.origin, worker.msg.frame[i])
  BY <1>1 DEF WorkerInv
<1>3. \A m \in sealed : m \in Messages /\ \A i \in DOMAIN m.frame :
        Holds(stored', batches', m.origin, m.frame[i])
  <2>1. Tables(stored, batches)
    BY DEF BatchInv
  <2>2. ASSUME NEW m \in sealed, NEW i \in DOMAIN m.frame
        PROVE  Holds(stored', batches', m.origin, m.frame[i])
    BY <1>2, <2>1, HoldsOn DEF BatchInv
  <2> QED
    BY <2>2 DEF BatchInv
<1>4. /\ worker'.at = "seal" /\ worker'.msg = worker.msg
      /\ worker' = [msg |-> worker'.msg, at |-> worker'.at, fresh |-> worker'.fresh,
                    records |-> worker'.records, batches |-> worker'.batches]
  BY <1>1 DEF WorkerInv
<1>5. WorkerInv(worker)'
  BY <1>2, <1>4 DEF WorkerInv
<1> QED
  BY <1>1, <1>2, <1>3, <1>5 DEF BatchInv

LEMMA SealStays ==
  ASSUME BatchInv, Frames!Seal
  PROVE  BatchInv'
<1>1. /\ UNCHANGED <<stored, batches>> /\ WorkerInv(worker) /\ worker.at = "seal"
      /\ sealed' = sealed \union {worker.msg} /\ worker' = None
  BY DEF BatchInv, Frames!Seal
<1>2. worker.msg \in Messages /\ \A i \in DOMAIN worker.msg.frame :
        Holds(stored, batches, worker.msg.origin, worker.msg.frame[i])
  BY <1>1 DEF WorkerInv
<1>3. \A m \in sealed' : m \in Messages /\ \A i \in DOMAIN m.frame :
        Holds(stored', batches', m.origin, m.frame[i])
  BY <1>1, <1>2 DEF BatchInv
<1>4. Tables(stored', batches') /\ \A b \in 1..Len(batches') : WholeFrame(stored', batches', b)
  BY <1>1 DEF BatchInv
<1> QED
  BY <1>1, <1>3, <1>4 DEF BatchInv

LEMMA BatchGoesOn ==
  ASSUME FrameInputs, BatchInv, [Frames!BatchNext]_(Frames!batchVars)
  PROVE  BatchInv' /\ (Grown(stored, batches, stored', batches') \/ stored' = stored)
<1>1. CASE UNCHANGED Frames!batchVars
  <2>1. UNCHANGED <<stored, batches, sealed, worker>>
    BY <1>1 DEF Frames!batchVars
  <2>2. BatchInv'
    BY <2>1 DEF BatchInv, WorkerInv
  <2> QED
    BY <2>1, <2>2
<1>2. CASE \E m \in Messages : Frames!Receive(m)
  BY <1>2, ReceiveStays DEF Frames!Receive
<1>3. CASE Frames!Look
  BY <1>3, LookStays DEF Frames!Look
<1>4. CASE Frames!Insert
  BY <1>4, InsertStays DEF Frames!Insert
<1>5. CASE Frames!Commit
  BY <1>5, CommitStays
<1>6. CASE Frames!Seal
  BY <1>6, SealStays DEF Frames!Seal
<1>7. CASE Frames!Kill
  BY <1>7, StoreStays DEF Frames!Kill
<1> QED
  BY <1>1, <1>2, <1>3, <1>4, <1>5, <1>6, <1>7 DEF Frames!BatchNext

-----------------------------------------------------------------------------
LEMMA FramesKept ==
  ASSUME FrameInputs, BatchInv
  PROVE  Frames!BatchesAreKept
<1>0. Tables(stored, batches) /\ DOMAIN batches = 1..Len(batches)
  BY DEF BatchInv, Tables
<1>1. Frames!FramesAreWhole
  <2> SUFFICES ASSUME NEW b \in DOMAIN batches
               PROVE  \E o \in Frames!Origins :
                        /\ \E k \in Frames!Stored(o) : stored[k].b = b
                        /\ \A i \in DOMAIN batches[b] :
                             LET k == Frames!Key(o, batches[b][i])
                             IN k \in DOMAIN stored /\ Frames!At(batches, stored[k]) = batches[b][i]
    BY DEF Frames!FramesAreWhole
  <2>1. PICK o \in Frames!Origins :
          /\ \E k \in DOMAIN stored : k[1] = o /\ stored[k].b = b
          /\ \A i \in DOMAIN batches[b] : Holds(stored, batches, o, batches[b][i])
    BY <1>0 DEF BatchInv, WholeFrame
  <2> QED
    BY <2>1 DEF Holds, Frames!Stored
<1>2. Frames!ReadGivesAll
  <2> SUFFICES ASSUME NEW o \in Frames!Origins
               PROVE  /\ Frames!Readable(o)
                      /\ \A k \in Frames!Stored(o) :
                           Frames!Key(o, Frames!At(batches, stored[k])) = k
                      /\ \A k, l \in Frames!Stored(o) :
                           LET r == Frames!At(batches, stored[k])
                               s == Frames!At(batches, stored[l])
                           IN r.stream = s.stream /\ r.seq < s.seq => <<k, l>> \in Frames!Read(o)
    BY DEF Frames!ReadGivesAll
  <2>1. \A k \in Frames!Stored(o) :
          /\ stored[k].b \in DOMAIN batches /\ stored[k].n \in DOMAIN batches[stored[k].b]
          /\ Frames!Key(o, Frames!At(batches, stored[k])) = k
    BY <1>0 DEF Frames!Stored, Tables
  <2>2. \A k \in Frames!Stored(o) : \A l \in Frames!Stored(o) \ {k} : stored[l] # stored[k]
    BY <2>1
  <2>3. ASSUME NEW k \in Frames!Stored(o), NEW l \in Frames!Stored(o),
               Frames!At(batches, stored[k]).seq < Frames!At(batches, stored[l]).seq
        PROVE  <<k, l>> \in Frames!Read(o)
    <3>1. /\ k[3] = Frames!At(batches, stored[k]).seq
          /\ l[3] = Frames!At(batches, stored[l]).seq
      BY <2>1 DEF Frames!Key
    <3>2. \A f \in FrameSet : \A i \in DOMAIN f : f[i].seq \in Nat
      BY DEF FrameInputs, FrameSet
    <3>3. k[3] \in Nat /\ l[3] \in Nat
      <4>1. ASSUME NEW j \in Frames!Stored(o) PROVE Frames!At(batches, stored[j]).seq \in Nat
        <5>1. batches[stored[j].b] \in FrameSet
          BY <1>0, <2>1 DEF Tables
        <5> QED
          BY <2>1, <3>2, <5>1 DEF Frames!At
      <4> QED
        BY <3>1, <4>1
    <3>4. k[3] < l[3]
      BY <2>3, <3>1
    <3>5. ~Frames!Before(l, k)
      BY <3>3, <3>4 DEF Frames!Before
    <3> QED
      BY <3>5 DEF Frames!Read
  <2> QED
    BY <2>1, <2>2, <2>3 DEF Frames!Readable
<1>3. Frames!SealedIsKept
  BY DEF BatchInv, Holds, Frames!SealedIsKept
<1> QED
  BY <1>1, <1>2, <1>3 DEF Frames!BatchesAreKept

(* The frontier is the last of the stored sequences without a gap. *)
LEMMA FrontierIs ==
  ASSUME NEW rs, IsFiniteSet(DOMAIN rs), NEW o, NEW s
  PROVE  /\ Frames!Frontier(rs, o, s) \in 0..Cardinality(DOMAIN rs)
         /\ Cardinality(DOMAIN rs) \in Nat
         /\ \A n \in 1..Frames!Frontier(rs, o, s) : <<o, s, n>> \in DOMAIN rs
         /\ \A m \in 0..Cardinality(DOMAIN rs) :
              (\A n \in 1..m : <<o, s, n>> \in DOMAIN rs) => m <= Frames!Frontier(rs, o, s)
<1> DEFINE c == Cardinality(DOMAIN rs)
           T == {n \in 0..c : \A k \in 1..n : <<o, s, k>> \in DOMAIN rs}
<1>1. c \in Nat
  BY FS_CardinalityType
<1>2. Frames!Frontier(rs, o, s) = Frames!Max(T)
  BY RowsCount DEF Frames!Frontier
<1>3. 0 \in T
  <2>1. 0 \in 0..c /\ 1..0 = {}
    BY <1>1
  <2> QED
    BY <2>1
<1>4. Frames!Max(T) \in T /\ \A m \in T : m <= Frames!Max(T)
  BY <1>1, <1>3, MaxIsThere
<1> QED
  BY <1>1, <1>2, <1>4

LEMMA FrontierRises ==
  ASSUME Tables(stored, batches), Tables(stored', batches'),
         Grown(stored, batches, stored', batches') \/ stored' = stored
  PROVE  Frames!FrontierKept
<1>1. /\ IsFiniteSet(DOMAIN stored) /\ IsFiniteSet(DOMAIN stored')
      /\ DOMAIN stored \subseteq DOMAIN stored'
  BY DEF Tables, Grown
<1> SUFFICES ASSUME NEW o, NEW s
             PROVE  /\ Frames!Frontier(stored, o, s) <= Frames!Frontier(stored', o, s)
                    /\ \A n \in 1..Frames!Frontier(stored, o, s) : <<o, s, n>> \in DOMAIN stored
  BY DEF Frames!FrontierKept
<1>2. Cardinality(DOMAIN stored) <= Cardinality(DOMAIN stored')
  BY <1>1, FS_Subset
<1> DEFINE m == Frames!Frontier(stored, o, s)
<1>3. /\ m \in 0..Cardinality(DOMAIN stored) /\ Cardinality(DOMAIN stored) \in Nat
      /\ \A n \in 1..m : <<o, s, n>> \in DOMAIN stored
  BY <1>1, FrontierIs
<1>4. /\ Cardinality(DOMAIN stored') \in Nat
      /\ \A k \in 0..Cardinality(DOMAIN stored') :
           (\A n \in 1..k : <<o, s, n>> \in DOMAIN stored') => k <= Frames!Frontier(stored', o, s)
  BY <1>1, FrontierIs
<1> HIDE DEF m
<1>5. m \in 0..Cardinality(DOMAIN stored')
  BY <1>2, <1>3, <1>4
<1>6. m <= Frames!Frontier(stored', o, s)
  BY <1>1, <1>3, <1>4, <1>5
<1> QED
  BY <1>3, <1>6 DEF m

(* FramesAreKept: for any frames, however they overlap, contradict one     *)
(* another and repeat, and wherever workers are killed, frames are stored  *)
(* whole, what is stored can be read under its identity, what was sealed   *)
(* is there from then on, and no frontier ever goes back.                  *)
THEOREM FramesStayKept == FrameInputs => (ProgramsSpec => FramesAreKept)
<1> SUFFICES ASSUME FrameInputs PROVE ProgramsSpec => FramesAreKept
  OBVIOUS
<1> DEFINE Safe == setting = "frames" => BatchInv
<1>1. ProgramsInit => Safe
  BY BatchInitInv DEF ProgramsInit
<1>2. [ProgramsNext]_programVars /\ setting' = "frames" =>
        setting = "frames" /\ [Frames!BatchNext]_(Frames!batchVars)
  BY DEF ProgramsNext, programVars, Runs, ExportStep, AdapterStep, ScanStep, FramesStep, RetryStep,
         Retries, batchState, Frames!batchVars
<1>3. Safe /\ [ProgramsNext]_programVars => Safe'
  BY <1>2, BatchGoesOn
<1>4. Safe => (setting = "frames" => Frames!BatchesAreKept)
  BY FramesKept
<1>5. Safe /\ [ProgramsNext]_programVars => [setting = "frames" => Frames!FrontierKept]_batchState
  <2> SUFFICES ASSUME Safe, [ProgramsNext]_programVars, setting = "frames", ~UNCHANGED batchState
               PROVE  Frames!FrontierKept
    OBVIOUS
  <2>1. setting' = "frames"
    BY DEF ProgramsNext, programVars, Runs, ExportStep, AdapterStep, ScanStep, FramesStep, RetryStep,
           Retries
  <2>2. BatchInv /\ BatchInv' /\ (Grown(stored, batches, stored', batches') \/ stored' = stored)
    BY <1>2, <2>1, BatchGoesOn
  <2> QED
    BY <2>2, FrontierRises DEF BatchInv
<1> QED
  BY <1>1, <1>3, <1>4, <1>5, PTL DEF ProgramsSpec, FramesAreKept

=============================================================================
