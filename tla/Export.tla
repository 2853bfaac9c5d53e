------------------------------- MODULE Export -------------------------------
(***************************************************************************)
(* `spindle export`: the highest record id is asked once, and the rows up  *)
(* to it are read one by one, each over a connection of its own, while     *)
(* other clients and the sources go on storing rows.                       *)
(*                                                                         *)
(* A request is answered from the rows that are there at one moment; it    *)
(* may also fail, at the daemon or on its way.                             *)
(***************************************************************************)
EXTENDS Ledger, FiniteSets

CONSTANTS
  MaxRecords,   (* bound on the rows that are stored                        *)
  QueriesFail   (* whether Health's own query of the highest id may fail    *)

ASSUME ExportAssumption == MaxRecords \in Nat /\ QueriesFail \in BOOLEAN

VARIABLES
  step,      (* "status", "read", "done" or "failed"                        *)
  boundary,  (* the highest id when it was asked                            *)
  after,     (* the id read last                                            *)
  output,    (* what is printed: the bodies                                 *)
  asked      (* rows that were there when it was asked (of the model only)  *)

exportVars == <<step, boundary, after, output, asked>>
allVars == <<ledgerVars, exportVars>>

ExportInit ==
    /\ LedgerInit
    /\ step = "status"
    /\ boundary = 0 /\ after = 0
    /\ output = <<>>
    /\ asked = <<>>

Store ==
    /\ Len(records) < MaxRecords
    /\ \E body \in Bodies : Record([body |-> body, mark |-> None])
    /\ UNCHANGED exportVars

(* The loop goes on while after < boundary. *)
Loop(id, highest) == IF id < highest THEN "read" ELSE "done"

(* Daemon::health reports 0 where its query fails. *)
AskStatus ==
    /\ step = "status"
    /\ \/ boundary' = Len(records)
       \/ QueriesFail /\ boundary' = 0
    /\ asked' = records
    /\ step' = Loop(after, boundary')
    /\ UNCHANGED <<after, output, ledgerVars>>

(* Store::read_raw, with a limit of one row. *)
Page(id) == {next \in DOMAIN records :
               next > id /\ \A other \in DOMAIN records : other > id => next <= other}

(* Faulty variant: the boundary is asked again with each page. *)
ReadPageChasing ==
    /\ step = "read"
    /\ \E id \in Page(after) :
         /\ after' = id
         /\ output' = Append(output, records[id].body)
         /\ boundary' = Len(records)
         /\ step' = Loop(id, boundary')
    /\ UNCHANGED <<asked, ledgerVars>>

ReadPage ==
    /\ step = "read"
    /\ IF Page(after) = {}
       THEN step' = "failed" /\ UNCHANGED <<after, output>>
       ELSE \E id \in Page(after) :
              IF id > boundary
              THEN step' = "done" /\ UNCHANGED <<after, output>>
              ELSE /\ after' = id
                   /\ output' = Append(output, records[id].body)
                   /\ step' = Loop(id, boundary)
    /\ UNCHANGED <<boundary, asked, ledgerVars>>

(* An error reply, a broken connection or the deadline. *)
RequestFails ==
    /\ step \in {"status", "read"}
    /\ step' = "failed"
    /\ UNCHANGED <<boundary, after, output, asked, ledgerVars>>

ExportNext == Store \/ AskStatus \/ ReadPage \/ RequestFails

ExportSpec == ExportInit /\ [][ExportNext]_allVars

-----------------------------------------------------------------------------
(* Every variable has its type. *)
ExportTypeOK ==
    /\ records \in Seq(Row) /\ asked \in Seq(Row)
    /\ step \in {"status", "read", "done", "failed"}
    /\ boundary \in Nat /\ after \in 0..boundary
    /\ output \in Seq(Bodies)

BodiesOf(rows) == [id \in DOMAIN rows |-> rows[id].body]

(* What is printed are the stored rows in their order, from the first one  *)
(* and each once, and nothing that came after the command was started.     *)
OutputIsPrefix ==
    /\ Len(output) <= Len(asked)
    /\ output = SubSeq(BodiesOf(asked), 1, Len(output))

(* An export that ends well has printed all rows of the moment it asked. *)
DoneIsComplete == step = "done" => output = BodiesOf(asked)

(* The page that is asked for is there: "export frontier unavailable" is   *)
(* never the reason of a failure, whatever is stored meanwhile.            *)
FrontierAvailable == step = "read" => Page(after) # {}

(* An export prints a prefix of the rows of one moment, all of them if it  *)
(* ends well, and never misses the row it asks for.                        *)
ExportIsExact == OutputIsPrefix /\ DoneIsComplete /\ FrontierAvailable

=============================================================================
