------------------------------ MODULE JsonScan ------------------------------
(***************************************************************************)
(* The scan of a frame's nesting before anything of it is decoded          *)
(* (observation::check_json_depth, and the laboratory's Limit, which takes *)
(* the same text in the pieces a serializer writes), held against what     *)
(* nesting is in a JSON text: every prefix of one is scanned.              *)
(*                                                                         *)
(* Of a text's bytes only those count that open and close a value, begin   *)
(* and end a string, or escape the byte after them.                        *)
(***************************************************************************)
EXTENDS Integers, FiniteSets, Sequences, FiniteSetsExt

CONSTANTS MaxDepth, MaxLength    (* MAX_DEPTH, and a bound on the text *)

VARIABLES
  text,      (* what has been scanned                                       *)
  quoted, escaped, depth,
  refused

scanVars == <<text, quoted, escaped, depth, refused>>

Bytes == {"open", "close", "quote", "backslash", "other"}

-----------------------------------------------------------------------------
(* What a text is, by its own words. *)

(* A byte is escaped after an odd number of backslashes. *)
EscapedAt(t, i) ==
    LET run == {n \in 0..(i - 1) : \A j \in (i - n)..(i - 1) : t[j] = "backslash"}
    IN Max(run) % 2 = 1

(* It is inside a string after an odd number of quotes that count. *)
InString(t, i) ==
    Cardinality({j \in 1..(i - 1) : t[j] = "quote" /\ ~EscapedAt(t, j)}) % 2 = 1

Counted(t, b, i) == Cardinality({j \in 1..i : t[j] = b /\ ~InString(t, j)})
Nesting(t, i) == Counted(t, "open", i) - Counted(t, "close", i)

(* A value is closed after it was opened, and backslashes are in strings. *)
Grammatical(t) ==
    /\ Nesting(t, Len(t)) >= 0
    /\ \A i \in DOMAIN t : t[i] = "backslash" => InString(t, i)

-----------------------------------------------------------------------------
ScanInit ==
    /\ text = << >>
    /\ quoted = FALSE /\ escaped = FALSE /\ depth = 0
    /\ refused = FALSE

(* Faulty variant: an escape is forgotten when the next piece begins. *)
InsideForgetting(b) ==
    /\ quoted' = (escaped \/ b # "quote")
    /\ escaped' = (b = "backslash")
    /\ UNCHANGED <<depth, refused>>

(* Inside a string only an unescaped quote ends it. *)
Inside(b) ==
    /\ quoted' = (escaped \/ b # "quote")
    /\ escaped' = (~escaped /\ b = "backslash")
    /\ UNCHANGED <<depth, refused>>

Outside(b) ==
    /\ quoted' = (b = "quote")
    /\ depth' = CASE b = "open" -> depth + 1
                  [] b = "close" /\ depth > 0 -> depth - 1
                  [] OTHER -> depth
    /\ refused' = (depth' > MaxDepth)
    /\ UNCHANGED escaped

Scan ==
    /\ ~refused /\ Len(text) < MaxLength
    /\ \E b \in Bytes :
          /\ text' = Append(text, b)
          /\ Grammatical(text')
          /\ IF quoted THEN Inside(b) ELSE Outside(b)

ScanSpec == ScanInit /\ [][Scan]_scanVars

-----------------------------------------------------------------------------
(* A text is refused exactly when a value in it is nested too deep, and    *)
(* until then the scan's depth is the text's nesting: brackets in strings  *)
(* do not count, whatever is escaped in them.                              *)
DepthIsNesting ==
    /\ refused = (\E i \in DOMAIN text : Nesting(text, i) > MaxDepth)
    /\ depth = Nesting(text, Len(text))
    /\ quoted = InString(text, Len(text) + 1)
=============================================================================
