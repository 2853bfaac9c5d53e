------------------------------- MODULE Adapter -------------------------------
(***************************************************************************)
(* fabric-adapter: lines of commands come in pieces over standard input,   *)
(* are bounded, given to the one SDK client and answered; at the end of    *)
(* the input, or after a line that is too long, a last flush is answered.  *)
(*                                                                         *)
(* A line is [size, command, ended]: its bytes without the newline, what   *)
(* it says, and whether a newline ends it.  The client is what Client is   *)
(* to its caller: how much it has accepted, and how far it is confirmed.   *)
(***************************************************************************)
EXTENDS Naturals, Sequences, FiniteSets

CONSTANTS
  Inputs,     (* the sequences of lines that may come                       *)
  MaxFrame,   (* observation::MAX_FRAME                                     *)
  Capacity    (* the client's buffers                                       *)

VARIABLES
  lines,      (* the input                                                  *)
  at, taken,  (* the line being read, and the bytes taken of it             *)
  held,       (* the line as it is held: [bytes, from] where it began       *)
  step,
  accepted, confirmed,
  replies     (* [line, told], a line 0 for the end                         *)

adapterVars == <<lines, at, taken, held, step, accepted, confirmed, replies>>

Nothing == [bytes |-> 0, from |-> 0]

AdapterInit ==
    /\ lines \in Inputs
    /\ at = 1 /\ taken = 0 /\ held = Nothing
    /\ step = "read"
    /\ accepted = 0 /\ confirmed = 0
    /\ replies = << >>

(* The worker delivers what was accepted: a receipt confirms the next one. *)
Deliver ==
    /\ confirmed < accepted /\ confirmed' = confirmed + 1
    /\ UNCHANGED <<lines, at, taken, held, step, accepted, replies>>

Whole(l) == l.size + (IF l.ended THEN 1 ELSE 0)

(* The next piece of the line that is in the buffer, up to its newline or  *)
(* to the end of the input.                                                *)
Fill ==
    /\ step = "read" /\ at <= Len(lines)
    /\ \E n \in 1..(Whole(lines[at]) - taken) :
          LET last == taken + n = Whole(lines[at])
              fits == held.bytes + n <= MaxFrame + 1
          IN /\ held' = IF fits
                        THEN [bytes |-> held.bytes + n, from |-> IF held.bytes = 0 THEN taken ELSE held.from]
                        ELSE held
             /\ step' = IF ~fits THEN "oversized" ELSE IF last THEN "reply" ELSE "read"
             /\ taken' = IF last THEN 0 ELSE taken + n
             /\ at' = IF last THEN at + 1 ELSE at
    /\ UNCHANGED <<lines, accepted, confirmed, replies>>

Tell(line, told) == replies' = Append(replies, [line |-> line, told |-> told])

(* adapter_reply: the newline counts.  What is too large or no command is  *)
(* an error, and the adapter goes on.                                      *)
Command == IF held.bytes > MaxFrame THEN "too large" ELSE lines[at - 1].command

(* try_record: what a full client refuses is told. *)
ReplyRecord ==
    /\ step = "reply" /\ Command = "record"
    /\ step' = "read" /\ held' = Nothing
    /\ LET admitted == accepted - confirmed < Capacity
       IN /\ accepted' = IF admitted THEN accepted + 1 ELSE accepted
          /\ Tell(at - 1, IF admitted THEN "accepted" ELSE "refused")
    /\ UNCHANGED <<lines, at, taken, confirmed>>

ReplyOther ==
    /\ step = "reply" /\ Command \in {"status", "bad", "too large"}
    /\ step' = "read" /\ held' = Nothing
    /\ Tell(at - 1, Command)
    /\ UNCHANGED <<lines, at, taken, accepted, confirmed>>

(* Faulty variant: whatever was confirmed so far is a receipt. *)
FlushesEarly == {"receipt"}

(* A flush is answered with a receipt when everything that was accepted    *)
(* before is confirmed, or with an error at its deadline.                  *)
Flushes == IF confirmed = accepted THEN {"receipt", "error"} ELSE {"error"}

ReplyFlush ==
    /\ step = "reply" /\ Command = "flush"
    /\ step' = "read" /\ held' = Nothing
    /\ \E told \in Flushes : Tell(at - 1, told)
    /\ UNCHANGED <<lines, at, taken, accepted, confirmed>>

(* A line that is too long is refused, and nothing more is read. *)
Refuse ==
    /\ step = "oversized" /\ step' = "eof"
    /\ Tell(IF taken = 0 THEN at - 1 ELSE at, "oversized")
    /\ UNCHANGED <<lines, at, taken, held, accepted, confirmed>>

(* Faulty variant: an empty line is skipped, the end of the input too. *)
EofSkipped ==
    /\ step = "read" /\ at > Len(lines)
    /\ UNCHANGED adapterVars

(* The end of the input, with nothing held. *)
Eof ==
    /\ step = "read" /\ at > Len(lines) /\ step' = "eof"
    /\ UNCHANGED <<lines, at, taken, held, accepted, confirmed, replies>>

LastFlush ==
    /\ step = "eof" /\ step' = "done"
    /\ \E told \in Flushes : Tell(0, told)
    /\ UNCHANGED <<lines, at, taken, held, accepted, confirmed>>

-----------------------------------------------------------------------------
Proceed == Fill \/ ReplyRecord \/ ReplyOther \/ ReplyFlush \/ Refuse \/ Eof \/ LastFlush

AdapterNext == Deliver \/ Proceed

AdapterSpec == AdapterInit /\ [][AdapterNext]_adapterVars

-----------------------------------------------------------------------------
(* Every command is answered with one line, in order: each reply is to the *)
(* line after the one before it, and the last one to the end of the input. *)
OneReplyEach ==
    /\ \A i \in DOMAIN replies : replies[i].line = (IF step = "done" /\ i = Len(replies) THEN 0 ELSE i)
    /\ step = "read" /\ taken = 0 => Len(replies) = at - 1

(* A command is carried out only when it was read from its first byte to   *)
(* its last one: never as what is left of a longer line.                   *)
CommandsAreWhole ==
    step = "reply" => held = [bytes |-> Whole(lines[at - 1]), from |-> 0]

(* A receipt is never told while something that was accepted before is not *)
(* confirmed; and accepted is only what the client has taken.              *)
ReceiptsCover ==
    [][\A i \in DOMAIN replies' \ DOMAIN replies :
          replies'[i].told = "receipt" =>
              confirmed = Cardinality({k \in DOMAIN replies : replies[k].told = "accepted"})]_adapterVars

=============================================================================
