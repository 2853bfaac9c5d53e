----------------------------- MODULE MCPrograms ------------------------------
(***************************************************************************)
(* What the programs beside the daemon do, one at a time: `spindle export` *)
(* against a store that grows, fabric-adapter, and the scan of a frame's   *)
(* nesting that both ends make before they decode it; and the worker of    *)
(* the representation laboratory.  `setting` says which one it is; the     *)
(* variables of the others stand still.                                    *)
(***************************************************************************)
EXTENDS Export

CONSTANTS
  one, two, three, four, ba, bb, bc, bd,
  Inputs, MaxFrame, Capacity,   (* of Adapter  *)
  MaxDepth, MaxLength,          (* of JsonScan *)
  Messages, Limit, MaxKills     (* of BatchCustody *)

VARIABLES
  setting,
  lines, at, taken, held, doing, accepted, confirmed, replies,
  text, quoted, escaped, depth, refused,
  stored, batches, worker, sealed, kills

adapterState == <<lines, at, taken, held, doing, accepted, confirmed, replies>>
scanState == <<text, quoted, escaped, depth, refused>>
batchState == <<stored, batches, worker, sealed, kills>>
programVars == <<setting, allVars, adapterState, scanState, batchState>>

(* Every body has an identity of its own. *)
MCIdentityOf ==
    [body \in {ba, bb, bc, bd} |->
       CASE body = ba -> one [] body = bb -> two [] body = bc -> three
         [] body = bd -> four]

(* Up to three lines: short, as long as a frame may be, or longer than the *)
(* adapter holds; the last of them perhaps without its newline.            *)
Lines == [size : {1, MaxFrame, MaxFrame + 2},
          command : {"record", "flush", "status", "bad"}, ended : {TRUE}]
UpToThree ==
    LET ended == UNION {[1..n -> Lines] : n \in 0..3}
    IN ended \union {[s EXCEPT ![Len(s)].ended = FALSE] : s \in ended \ {<< >>}}

Adapting == INSTANCE Adapter WITH step <- doing
Scanning == INSTANCE JsonScan

R(s, n, body) == [stream |-> s, seq |-> n, body |-> body]
From(o, f) == [origin |-> o, frame |-> f]

(* Frames that overlap, come out of order, contradict one another, repeat  *)
(* an identity, and the same identities from another origin.               *)
Mixed == {
    From("a", <<R("p", 1, "x")>>),
    From("a", <<R("p", 3, "x"), R("p", 2, "x")>>),
    From("a", <<R("p", 1, "x"), R("p", 2, "x"), R("q", 1, "x")>>),
    From("a", <<R("p", 2, "y"), R("q", 1, "x")>>),
    From("a", <<R("q", 2, "x"), R("q", 2, "x")>>),
    From("a", <<R("p", 10, "x"), R("p", 1, "x"), R("p", 1, "x")>>),
    From("b", <<R("p", 1, "y")>>),
    From("b", <<R("p", 2, "x"), R("p", 1, "y")>>)}

(* One origin's stream, cut in two ways, and the other origin's. *)
Agreeing == {
    From("a", <<R("p", 1, "x"), R("p", 2, "x")>>),
    From("a", <<R("p", 2, "x"), R("p", 3, "x")>>),
    From("b", <<R("p", 1, "y")>>)}

Frames == INSTANCE BatchCustody WITH records <- stored
Retried == INSTANCE BatchCustody WITH Messages <- Agreeing, Limit <- 4, MaxKills <- 3,
    records <- stored

ProgramsInit ==
    /\ setting \in {"export", "adapter", "scan", "frames", "retry"}
    /\ ExportInit
    /\ Adapting!AdapterInit /\ (setting = "adapter" \/ lines = << >>)
    /\ Scanning!ScanInit
    /\ Frames!BatchInit

-----------------------------------------------------------------------------
Runs(program) == setting = program /\ UNCHANGED setting

Exports(action) == Runs("export") /\ action /\ UNCHANGED <<adapterState, scanState, batchState>>
Adapts(action) == Runs("adapter") /\ action /\ UNCHANGED <<allVars, scanState, batchState>>

Retries(action) == Runs("retry") /\ action /\ UNCHANGED <<allVars, adapterState, scanState>>

ExportStep == Runs("export") /\ ExportNext /\ UNCHANGED <<adapterState, scanState, batchState>>
AdapterStep == Runs("adapter") /\ Adapting!AdapterNext /\ UNCHANGED <<allVars, scanState, batchState>>
ScanStep == Runs("scan") /\ Scanning!Scan /\ UNCHANGED <<allVars, adapterState, batchState>>

FramesStep == Runs("frames") /\ Frames!BatchNext /\ UNCHANGED <<allVars, adapterState, scanState>>
RetryStep == Retries(Retried!BatchNext)

ProgramsNext == ExportStep \/ AdapterStep \/ ScanStep \/ FramesStep \/ RetryStep

(* The programs run on, and whatever is not sealed is sent again. *)
ProgramsSpec ==
    /\ ProgramsInit /\ [][ProgramsNext]_programVars
    /\ WF_programVars(Exports(AskStatus \/ ReadPage))
    /\ WF_programVars(Adapts(Adapting!Proceed))
    /\ WF_programVars(Retries(\/ Retried!Look \/ Retried!Insert
                              \/ Retried!Commit \/ Retried!Seal))
    /\ \A m \in Agreeing :
         SF_programVars(Retries(m \notin sealed /\ Retried!Receive(m)))

-----------------------------------------------------------------------------
(* Each command is answered once and in order, none is carried out that    *)
(* was not read whole, and a receipt covers what was accepted before it.   *)
CommandsAreAnswered ==
    /\ [](Adapting!OneReplyEach /\ Adapting!CommandsAreWhole)
    /\ Adapting!ReceiptsCover

(* The scan refuses a text exactly where it is nested too deep. *)
NestingIsFound == Scanning!DepthIsNesting

(* The laboratory's worker stores frames whole, what is stored is read as  *)
(* it was sent and kept from its seal on, and the frontier only rises over *)
(* what is stored.                                                         *)
FramesAreKept ==
    /\ [](setting = "frames" => Frames!BatchesAreKept)
    /\ [][setting = "frames" => Frames!FrontierKept]_batchState

(* An export ends although the store grows, the adapter with the last      *)
(* flush answered, and the sending of frames with all of them sealed.      *)
ProgramsEnd ==
    []<>~(\/ setting = "retry" /\ ~Retried!EverythingArrived
          \/ setting = "export" /\ step \notin {"done", "failed"}
          \/ setting = "adapter" /\ doing # "done")
=============================================================================
