--------------------------- MODULE SearchReference ---------------------------
(***************************************************************************)
(* The reference algorithms the candidates of `xtask search` are compared  *)
(* with: the loop that merges closed intervals, one pair at a time, and    *)
(* the largest k of a list.  What they compute is held against what the    *)
(* contract says they are.                                                 *)
(***************************************************************************)
EXTENDS Integers, FiniteSets, Sequences, SequencesExt, Functions

CONSTANTS MaxPoint, MaxPairs    (* bounds on the inputs *)

VARIABLES
  data,   (* the pairs, as they are given                                   *)
  rest,   (* those that are still to be merged, sorted                      *)
  out     (* the result so far                                              *)

referenceVars == <<data, rest, out>>

Pairs == {p \in (0..MaxPoint) \X (0..MaxPoint) : p[1] <= p[2]}

(* The order of pairs, by their starts and then by their ends, and that of *)
(* numbers, the largest first.                                             *)
Ascending ==
    {o \in Pairs \X Pairs : o[1][1] < o[2][1] \/ (o[1][1] = o[2][1] /\ o[1][2] <= o[2][2])}
Descending == {o \in (0..MaxPoint) \X (0..MaxPoint) : o[1] >= o[2]}

(* The places of a list in which its members are in the order R. *)
InOrder(p, s, R) == \A i, j \in DOMAIN s : i < j => <<s[p[i]], s[p[j]]>> \in R
Sorted(s, R) ==
    LET p == CHOOSE p \in Bijection(DOMAIN s, DOMAIN s) : InOrder(p, s, R)
    IN [i \in DOMAIN s |-> s[p[i]]]

ReferenceInit ==
    /\ data \in UNION {[1..n -> Pairs] : n \in 0..MaxPairs}
    /\ rest = Sorted(data, Ascending)
    /\ out = << >>

(* Faulty variant: the later pair's end replaces the earlier one's. *)
MergeToEnd ==
    /\ rest # << >>
    /\ rest' = Tail(rest)
    /\ out' = IF out # << >> /\ Head(rest)[1] <= Last(out)[2]
              THEN Append(Front(out), <<Last(out)[1], Head(rest)[2]>>)
              ELSE Append(out, Head(rest))
    /\ UNCHANGED data

(* A pair that starts at or before the end of the last one extends it. *)
Merge ==
    /\ rest # << >>
    /\ rest' = Tail(rest)
    /\ out' = IF out # << >> /\ Head(rest)[1] <= Last(out)[2]
              THEN Append(Front(out),
                          <<Last(out)[1], IF Head(rest)[2] > Last(out)[2] THEN Head(rest)[2]
                                          ELSE Last(out)[2]>>)
              ELSE Append(out, Head(rest))
    /\ UNCHANGED data

(* The largest k, in descending order. *)
TopK(values, k) ==
    SubSeq(Sorted(values, Descending), 1, IF k < Len(values) THEN k ELSE Len(values))

ReferenceSpec == ReferenceInit /\ [][Merge]_referenceVars

-----------------------------------------------------------------------------
(* The points of the intervals, halves among them: a gap between two       *)
(* neighbouring integers is one.                                           *)
Cover(s) == UNION {{x \in 0..(2 * MaxPoint) : 2 * s[i][1] <= x /\ x <= 2 * s[i][2]} : i \in DOMAIN s}

(* Nothing is gained or lost by a step: what has been merged and what has  *)
(* not been cover what was given, and what has been merged is in order,    *)
(* disjoint, and apart.                                                    *)
MergeIsExact ==
    /\ Cover(out) \union Cover(rest) = Cover(data)
    /\ \A i \in DOMAIN out : i > 1 => out[i - 1][2] < out[i][1]
    /\ \A i \in DOMAIN out : \A j \in DOMAIN rest : out[i][1] <= rest[j][1]

Count(v, s) == Cardinality({i \in DOMAIN s : s[i] = v})

(* The k largest are a part of the values, in descending order, and        *)
(* nothing that is left out is larger.                                     *)
TopKIsLargest ==
    LET values == [i \in DOMAIN data |-> data[i][2]]
    IN \A k \in 0..(Len(values) + 1) :
          LET top == TopK(values, k)
          IN /\ Len(top) = IF k < Len(values) THEN k ELSE Len(values)
             /\ \A i \in DOMAIN top : i > 1 => top[i - 1] >= top[i]
             /\ \A v \in Range(values) :
                    /\ Count(v, top) <= Count(v, values)
                    /\ Count(v, top) < Count(v, values) => \A i \in DOMAIN top : v <= top[i]

(* Both reference algorithms compute what the contract says.               *)
ReferenceIsExact == MergeIsExact /\ TopKIsLargest
=============================================================================
