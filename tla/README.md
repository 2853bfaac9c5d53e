# A TLA+ model of FabricO11y

FabricO11y collects observations on one machine. An application records typed
observations into preallocated memory and never waits; a background worker hands
each of them to the local daemon, Spindle, over a Unix socket; Spindle stores
them, and what it collects itself from files, the journal and `/proc`, in one
SQLite database. The hard part is what is promised across those boundaries:
memory admission never blocks and never loses capacity, a flush means *durable*,
a retry never stores twice, a checkpoint never runs ahead of its record, and
what cannot be collected is said in a gap.

This directory holds the specifications, their TLC configurations and their
machine-checked proofs. Each definition that stands for code is listed with its
lines in `PROJECT.json` under `map`; comments name the function they model.

    tlc -config MCSdkPool.cfg MCSdkClient      # model-check one instance
    tlapm AdmissionQueueProofs.tla             # check the proofs of a module

Contents: [inventory](#inventory), [modules](#modules), [runs](#runs),
[fairness](#fairness), [proofs](#what-is-proved),
[disagreements](#disagreements), [not modelled](#not-modelled).

## Inventory

| Component | State it keeps | Operations | What is hard |
|---|---|---|---|
| Admission kernel (`admission-kernel/src`) | none: transitions of a slot credit, a ticket FIFO, the delivery frontier | reserve, publish, lease, cancel, retry, release; enqueue, dequeue; next and confirm sequence | callers must use guard and transition together; u64 limits |
| Admission queue (`fabric/src/admission`) | a mutex per slot, a state mutex, fault flag, probe counter, leases held outside | try_record, try_dequeue, drop of a lease, shutdown, rejected | try-lock scans racing releases, two lock orders, unwinding encoders, poisoning |
| SDK client (`fabric/src/sdk.rs`) | a pool of buffers, ready queue, accepted and confirmed frontiers, last receipt, one worker | try_record, flush, status, close; the worker's take, submit, confirm or retry | one condition variable for everyone, lost and foreign receipts, deadlines, close at any time |
| Adapter (`bin/fabric-adapter.rs`) | a line being read, one client | record, flush, status; end of input | pieces of lines, the bound, what a receipt covers |
| Transport (`spindle/transport.rs`, `wire.rs`) | one connection per attempt | connect, write, read until a deadline | every failure means "outcome unknown"; abandoned frames may still be handled |
| Spindle daemon (`spindle/server.rs`) | connections with partial frames and replies, stop flag, health, the socket path | open, accept, progress, handle, poll one source per tick, stop, drop | bounded work per tick, deadlines, replies that are never read, socket files of the dead |
| Durable custody (`spindle/custody.rs`) | records, checkpoints, registry row; owner lock; the directory | open, submit, read, drop | a crash or error between any two statements, retries, conflicting bytes, quota |
| File source (`spindle/sources.rs`) | offset, epoch, tail fingerprint; open descriptor | poll | rotation and truncation at any moment, partial lines, commits of unknown outcome |
| Journal source | cursor or boundary of time | poll | pages that fail halfway, dropped entries, missing cursors |
| Host sampler | sequence, pending samples, missed count | poll | failed emits, missed intervals, resets |
| Command line (`bin/spindle.rs`) | export's boundary and position | serve, status, stop, export | the store grows meanwhile, requests fail |
| Observation codec (`observation.rs`) | none | bounded depth, decode, validate | limits |
| Laboratory (`xtask/src/representation`) | tables of frames and records | receive, commit, seal, read | whole frames, workers that are killed, repeated frames |
| Workflow tool (`xtask`) | receipts, statuses, reports, evidence files | capture, verify, benchmark, coverage, search | the working copy and files change between the steps |
| Prototype (`collection.rs`, `analysis.rs`), fuzz targets, Lean proofs | files | append, read, gaps | see [not modelled](#not-modelled) |

How they interact: the application calls the client; client callers and worker
share one mutex and one condition variable; worker and daemon exchange one frame
and one reply per connection; the daemon calls custody in its only thread, for
frames and for sources alike; export asks the daemon. The admission queue is the
same idea for consumers in the same process, with leases instead of receipts.

What makes each correct:

* queue: buffers are conserved, tickets are contiguous, callers see a bounded FIFO,
  Full is true when reported, threads never wait in a circle;
* client: the pool is partitioned and holds the unconfirmed sequences in order, only
  the exact receipt confirms, flush covers everything accepted before it, everyone
  who waits is woken, close ends the worker;
* custody: one row per identity, record and checkpoint together, receipts for ever;
* delivery: what is confirmed is stored, once and in order, whatever dies;
* daemon: connections are served in turn and end, replies are true, the socket a
  daemon listens on is its own;
* sources: what is recorded is whole, in order and once, a loss is said, nothing waits
  for ever; export and adapter: complete up to what they report;
* laboratory and tool: what is left behind as evidence was earned by what it names.

## Modules

| Module | Models | Kind |
|---|---|---|
| `AdmissionKernel` | both files of the kernel | guards and transitions, used by the next ones |
| `BoundedFifo` | what the queue promises | abstract specification |
| `AdmissionQueue` | `admission/mod.rs`, `admission/queue.rs` | one action per lock, unlock or atomic access |
| `SdkClient` | `sdk.rs` | one action per acquisition and per critical section |
| `Ledger` | what custody promises | abstract specification |
| `Custody` | `Store::open`, `submit` and `Drop` | one action per statement |
| `StoreCreation` | the first steps of `Store::open` | one action per file system call |
| `DurableLog` | what recording through the SDK promises | abstract specification |
| `Delivery` | `SdkClient`, `transport.rs`, the submission path of `server.rs`, `Ledger` for custody | composition, with crashes of both processes |
| `SpindleServer` | `Daemon::tick` and the loop around it | one action per step of a tick |
| `SocketOwner` | `Daemon::open`, `Drop for Daemon` | one action per file system call |
| `FileSource`, `JournalSource`, `HostSource` | the three sources, each with what it reads | one action per system call or commit |
| `Export` | `spindle export`, over `Ledger` | one action per request |
| `Adapter` | `fabric-adapter` | one action per piece of input or answer |
| `JsonScan` | the two scans of nesting | one action per byte |
| `BatchCustody` | the laboratory's store and worker | one action per statement |
| `CandidateVerification`, `CoverageRun`, `CandidateSearch` | commands of the workflow tool | one action per file or process |
| `SearchReference` | the reference algorithms of `xtask search` | operators and one loop |
| `*Proofs` | | proofs about the module they extend |
| `MC*` | | instances for TLC |

Definitions marked "Faulty variant" are plausible bugs of the definition that
follows them. No specification uses them; each is there to show that a property
notices the bug.

### Admission queue

`cell[i]` and `owner[i]` are the contents and the holder of slot mutex `i`, `mutex`
the holder of the state mutex. A thread's `pc` runs through the operation it is in;
`at`, `held` and `scan` are the reservation guard, the buffer in it and the scan of
`record_with_probe`. A try-lock is a step that succeeds only when nobody holds the
lock; a blocking lock is a step that is enabled only then. Critical sections of
the state mutex are a step of their own, so other threads observe contention.
Encoding is abstracted to its outcome: a payload is accepted, malformed, too
large, refused by the serializer, or it unwinds; unwinding restores the buffer
(`Reservation::drop`), poisons the slot mutex and sets the fault flag in the
order of the code. `Call` is the application, which never has to call.

### SDK client

`free`, `ready`, `carried` say where each of the buffers is (`buffer[i]`, wherever
it is); `inflight`, `accepted`, `confirmed`, `last_receipt`, `closed` are the fields
of `State`. The order of the free list is left out, because nothing reads it: any
free buffer may be taken. `Acquire` is every blocking lock, a wait's own
reacquisition included; the critical section that follows, with its unlock or
its wait, is one step. Waiting threads are at `waiting` (flush), `resting` and
`backoff` (the worker); `GotoNotifying` is `notify_all`; `Spurious` is a spurious
wakeup. Time is a choice: a deadline may have passed whenever it is compared, and
a wait may end by timeout at any time. `Answer` is the whole of
`transport::submit_bytes`: any receipt in `Replies`, or an error. `log` and
`seen` are history variables: the payload of each accepted sequence, and the
frontier when a caller entered flush. Assertions are modelled by what happens
when they fail (poison, and the thread is gone), so that `NeverPanics` means
something. `retries` and `last_error`, which only `status` reports, are left out.

### Durable custody

`records` and `checkpoints` are the disk. A process opens the store with the
`flock` of `owner.lock` (`owner`), then runs one submission at a time through
`lookup`, `insert`, `mark`, `commit` and `reply`, with the row (`job`), what its
transaction has written (`view`) and the id for its receipt (`found`). Any
statement may fail; `Leave` is the end of the process at any point, or `Drop`.
The body determines its identity (`IdentityOf`), as `decode` does; `Undecodable`
bodies and `Oversized` checkpoints are the requests refused before any SQL. The
quota, which the code computes from directory and payload size, is a number of rows.
SQLite itself is external: a commit is atomic and durable, or it reports an error
and has either become durable or not. `issued` is a history variable, the
receipts that were returned.

`StoreCreation` is what comes before: the directory as programs see it and as a
loss of power leaves it for certain, through creation, restriction and the two
synchronizations, by processes that may end in between.

### Delivery

`Delivery` extends `SdkClient` and puts a real receiver in the place of `Answer`.
`link` is the connection of the attempt under way, with its frame and then its
answer; `left` are frames of attempts that were given up, still in a socket or in
the daemon's backlog, which `HandleLate` may handle at any time and in any order.
`up` is whether a daemon runs, `records` its custody: a `Ledger` (which
`StoreIsLedger` says the store implements), so that handling a frame is one step,
with a failure before or after the commit (`StoreFails`). A daemon that stops ends
every connection, but a reply that was written can still be read. A client that
restarts loses everything that was in memory and gets a new `generation`; `past`
is a history variable with the log and frontier of each dead client. A frame that
was written in part is never handled, so it does not exist here.

Generations are fresh because `Config::local` reads a new UUID from the kernel. An
application that used one `Config` for two clients would break this; `NoConflicts`
is what it would lose.

### Daemon

`SpindleServer` takes a tick apart: `Accept` up to the budget and the limit, then `Serve`
for each connection from the last to the first with `swap_remove` (`SwapRemove`, `Settle`,
`Drop`), then `Poll`, which moves the wrapping counter that says whose turn the next source
has. What a read finds is what the client has sent by then: nothing, a part, a whole
frame, a bad one, or its end; a reply is written whole or stays in `out`. The transaction
of a request is one step (`Custody` has its parts). `Expire` is a connection's deadline,
which the loop compares when it serves the connection. `served` is a history variable.
`health` has the counters that are told to clients.

`SocketOwner` is about the path: what `open` probes, removes, binds and identifies,
what `Drop` compares and unlinks, and what the kernel does with the descriptors of a
process that dies. Socket files are numbered, so that a path that is reused names
another file.

### Sources

Each source is modelled with its surroundings, because its hazards are races with
them, and with its rows in custody, one transaction per row (`Custody` has what a
submission does inside). The end of the daemon is a step that may come anywhere.

* `FileSource`: files are sequences of bytes that are told apart, so that a recorded
  line says where it came from; inodes may come again. `Open`, `Check` (the bytes
  behind the offset against the fingerprint), `Read`, `Wait`, `Consume` (line, or
  gap when it is too long or unreadable), `Drained` and `Switch` (rotation) and
  `Commit` are the poll; `Write`, `Rename`, `Create`, `Reopen` and `Truncate` are
  everyone else. A commit is reported, refused, or durable and not reported.
* `JournalSource`: the journal grows and is vacuumed; `Command` is one run of
  `journalctl` with its limits on entries and output, `Record` one entry of its page.
* `HostSource`: `Elapse` is the interval, `BeginPoll` decides whether this poll
  samples, `EmitGap` and `EmitMetric` commit. `previous` per counter is what `reset`
  is computed from; which values `/proc` holds is open.

### Programs

`Export` reads page by page from a `Ledger` that grows. `Adapter` reads its input in
any pieces; its client is what `SdkClient` is to one caller (how much is accepted,
how far it is confirmed). `JsonScan` feeds every text byte by byte to the scan and
compares it with a definition of nesting that looks at the whole text. `BatchCustody`
keeps two tables and a worker with a transaction of its own, killed anywhere.

### Workflow tool

`CandidateVerification` follows a candidate from capture to receipt, status file and
accepted profile while the working copy is edited; `CoverageRun` follows the manifest
from its first read to the report; `CandidateSearch` lets two evaluators share files.
Digests stand for the contents; compilers, provers and tests succeed or fail.
`SearchReference` checks the reference algorithms of `xtask search` against what the
contract says they compute.

## Runs

Some instances are small and share nothing with one another. Those are put in one
run: `MCSources`, `MCDaemon`, `MCPrograms` and `MCXtask` have a variable `setting` which
is chosen in the initial state and never changes, an instance of a module for each
setting, and the variables of the other settings stand still. A property says for
which setting it is meant. Where a module has several settings they are records of its
constants (`Bytes`, `Owners`, `Limited`), given to one parametrised instance
(`File(f)`, `Journal(j)`, `Host(h)`, `Creation(c)`, `Server(s)`): the proofs are about
any such record.

| Run | Instance | Checked |
|---|---|---|
| `queue_pool` | 2 threads that record, one that drains and one that shuts down, 2 slots, 3 payloads of which one unwinds, 2 tickets | `QueueInOrder`, `FullIsExact`, `ImplementsBoundedFifo` |
| `queue_calls` | 2 threads, every call, 1 slot, all kinds of payloads, fair | `OnlyPanicsPoison`, `CallsReturn` |
| `sdk_pool` | 2 callers and the worker, 2 slots, 4 kinds of payloads, 3 sequences, any receipts | `ClientInOrder`, `SdkFullIsExact`, `NoLostWakeup`, `FlushCoversEntry`, `FrontierStepsByOne` |
| `sdk_liveness` | 2 callers, 1 slot, fair | `CallsReturn` |
| `custody` | 2 processes, 3 identities, one with two bodies, 2 sources, a quota of 2 rows | `RowsAreKept`, `CheckpointsFollowRows`, `ImplementsLedger` |
| `delivery_faults` | 1 caller, 1 slot, 2 payloads, 2 faults | `DeliveryInOrder`, `ImplementsDurableLog` |
| `delivery_liveness` | 1 caller that may close, 1 slot, 2 faults, fair | `AcceptedIsConfirmed` |
| `sources` | settings `rotation`, `bytes`, `cut`, `replay`, `attach`, `host`, `late` | `LinesAreWhole`, `DiscontinuitiesTold`, `FilePositions`, `LinesCollected`, `EntriesRecorded`, `IntervalsTold`, `NothingWaits`, `MissedIsTold` |
| `file_drained` | `rotation` with 2 files and no trouble | `DrainedFirst`, which is violated |
| `programs` | settings `export`, `adapter`, `scan`, `frames`, `retry` | `ExportIsExact`, `CommandsAreAnswered`, `NestingIsFound`, `FramesAreKept`, `ProgramsEnd` |
| `daemon` | settings `socket`, `power`, `owners`, `deaths`, `requests`, `foreign`, `limit` | `SocketIsOwned`, `StorageIsSafe`, `RequestsAreServed`, `LoopIsOrderly`, `LoopGoesOn`, `ComesUpAgain` |
| `xtask` | settings `verification`, `coverage`, `search`, `reference` | `VerificationIsEvidence`, `ReportIsEvidence`, `ReferenceIsExact`, `OnlyRightAdvances` |

Deadlock is checked in the runs of queue, client, custody and delivery: a blocked set
of threads, none of which can move or be called, would be reported. The other runs
stop where their bounds are used up (programs end, files are full), and check what must
not wait by liveness instead.

Bounds. `U64Max` stands for `u64::MAX`; at 2 and 3 the runs reach the last ticket
or sequence and the refusals that follow, and reuse every slot (3 sequences over 2
slots). Two slots are the fewest with which a scan can look past one slot while the
other changes and in which ready order differs from slot order; with one slot every
pair of threads contends. Two callers are enough for each hazard that involves another
caller, the worker being a third thread. Sizes 1 to 3 around `MaxRecord = 2` give a
record that fits, one that fills the buffer and one that does not fit. Receipts
range over all sequences, right or wrong. A quota of 2 with 3 identities makes the
store full; two bodies of one identity conflict. In `custody` the processes are
symmetric, in `delivery_faults` the payloads. No liveness run uses
symmetry. `MaxFaults` bounds attempts given up, store failures, daemon crashes and
client restarts together; handling a late frame is not a fault. One fault is
enough for a retry to race the frame it repeats, two for a restart in between.
`Calls` says which operations callers use: in `Delivery` flush and status change
nothing that the daemon sees, so its callers only record, and close in the
liveness run; what flush returns is `last_receipt`, which `ConfirmedIsDurable` is about.

In `sources` a read returns 3 bytes and a line holds at most 3, so that lines of 1
byte fit, lines of 5 take more than one read, and bytes written one at a time are
incomplete for a while; byte 3 cannot be decoded. Fingerprints are of the last 2
bytes. `rotation` has three files over two inodes (an inode comes again), a writer
that goes on in the old file, restarts and a poll that comes late; `bytes` has commits
that are durable and report an error; `cut` has two truncations. A page of the journal
has 2 entries of at most 4, so that pages fail halfway and the oldest entries are
dropped meanwhile. Of two counters one goes forth and back; 3 intervals and 2 troubles
let a missed interval be followed by one that fails to be told, and by one that is
due after the last failure, in which it must be told (`MissedIsTold`).

In `programs` a store of 4 rows grows while 0 to 4 of them are read; up to three lines
around the length of the longest frame are cut into all pieces; every text of up to 7
bytes is scanned for a depth of 2; frames of the laboratory overlap, conflict,
repeat themselves and come from two origins, with up to three kills. In `daemon` two
processes leave up to 5 socket files in 4 troubles; two or three clients meet one or
two connections, with 3 sources and a counter that wraps at 4, which 3 does not
divide. In `xtask` the working copy takes 3 edits over 4 commits, one of which has
conflicts; manifests are edited at any step, a test passes, fails, is ignored, absent or
one of several; two evaluators write two files, over two splits; pairs of numbers up to 3 are merged, three at a time.

## Fairness

`FairSpec` of the queue lets every thread inside the library keep
running (weak fairness of its next step); nothing is assumed of the application's
calls. A blocking lock is only taken for certain if it *stays* free, because the
standard mutex is not fair; hence `DropsComplete` is conditional on other kinds of
calls ceasing, while `TryOperationsReturn` is unconditional: these operations only
try. `SdkFairSpec` assumes strong fairness of each caller's and of the worker's
steps: the worker waits, does I/O or sleeps up to 100 ms in every round, so a thread
that is blocked meanwhile gets the mutex; a deadline passes (`FlushElapse`), and
`submit_bytes` returns by its own. Spurious wakeups may recur for ever. Both
properties hold once callers start nothing new (`Quiet`): callers that call
for ever could starve one another on an unfair mutex. `DeliveryFairSpec` adds that
the daemon, which serves every connection in each turn of its loop, handles the
frame that is waited for, and that someone starts it again when it is down; faults
are finite, as `MaxFaults` bounds them. Late frames need not ever be handled.

`SourcesSpec`: the daemon's loop polls its source for ever (weak fairness of the poll's
next step) and time goes on; a configured path does not stay missing (`Create`); and
storage that refuses commits again and again accepts one in the end (strong fairness
of `Commit`), which the code cannot bring about but which is what it waits for. Of the
host sampler the process and its interval go on; its failures are bounded, not fair.
Writers, rotators and the journal do what they like. `DaemonSpec`: a process that is
down is started again, as a service manager does, and runs on; the loop runs, and
deadlines pass (`Expire`). Clients need do nothing: that is the point of `LoopGoesOn`.
`ProgramsSpec`: programs run on, and a sender of the laboratory sends again what has
not been sealed (strong fairness, because the worker may be busy or killed whenever it
does; kills are finite). `XtaskSpec` needs no fairness; its properties are of safety.

## What is proved

TLAPS checks the following for every value of the constants that satisfies the
modules' assumptions, that is for any number of threads, slots, processes,
payloads, sizes, files and limits.

* `AdmissionQueueProofs`: every safety property of the queue. `ControlSafe`
  (`ControlInv`) joins the types with `ControlMatch`: each mutex is held by exactly the
  thread whose control point says so, and each local a control point relies on is
  there. There is one lemma per action, and two frame lemmas that reduce what has to be
  shown of the other threads to the locks the step touches. `TypeCorrect` and
  `NoDeadlock` (`HoldersNeverDeadlock`) follow: whoever holds the state mutex is at a
  point that waits for nothing (the runs see threads that wait for one another as a
  deadlock, or by `CallsReturn`). `QueueSafe` adds `BuffersInv` and `PoisonInv`. Each
  action is one of seven moves of buffers (`Quiet`, `Reserving`, `Restoring`, `Publishing`,
  `Leasing`, `LettingGo`, `Releasing`; the lemmas `...Moves`), and what a move keeps is
  proved once (`...Keeps`). To see that an action is only that move one needs the
  invariant itself: the head of `ready` can be leased (`HeadEntry`), the encoded record
  was measured (`RecordKnown`), so the branches that raise the fault flag are dead; and
  `QueueInOrder` alone is not inductive, as it does not say that entries are of different
  slots and leases of different tickets (`PlacesDistinct`). From it follow `QueueKept`
  (`QueueInOrder`), `OnlyPanics` (`OnlyPanicsPoison`), `FullIsTrue` (`FullIsExact`, by
  counting the slots that are charged) and `QueueIsFifo`, the refinement of
  `BoundedFifo`: publishing is `Admit`, leasing `LeaseFirst`, releasing `Return`, and the
  other moves do not show.
* `SdkClientProofs`: every safety property of the client that the runs check.
  `SdkInv` is inductive (`SdkSafe`); it joins the types, `WindowOK` (pool, window and
  receipt) and `ControlOK` (what each control point says). The parts need each
  other: `WorkerConfirm` keeps `WindowContiguous` because the carried buffer is the
  *first* charged one and in no other place (`CarriedFacts`, from `PoolPartition`), and
  the new frontier has a receipt because that buffer holds sequence `confirmed + 1`
  (from `WindowContiguous`). `WorkerCarries` says between which steps the worker has a
  buffer; `FlushSees` bounds the frontier a flush saw on entry by the one it waits
  for. There is one lemma per action; steps that leave the pool alone share
  `QuietStep`, those that change a charged buffer's phase `PhaseStep`. From `SdkInv`
  follow `ClientKept` (`ClientInOrder`; no `assert!` fails, so the branches that model a
  panic are dead), `WakeupsKept`, `FullIsTrue`, and for steps `FrontierAdvances` and
  `FlushIsCovered`. The receiver is arbitrary: `Replies` may be any set of receipts.
* `CustodyProofs`: `CustodyTyped`, `KeptRows`, `AtomicCheckpoints` and `StoreIsLedger`,
  which says that a store implements the ledger. None of them is inductive alone, since
  a commit makes durable what was written many steps before. `CustodyInv` adds
  `Exclusive` (only the owner of the lock is out of `down`) and `ViewsAhead` (the view of
  a transaction is the disk of this moment with one more row and its mark).
  `AppendUnique` and `MarkingFollows` are the facts about one more row; `DiskGrows`
  combines them for both kinds of commit.
* `DeliveryProofs`: `DeliverySafe`, from which `DeliveryTyped`, `DeliveryKept`
  (`DeliveryInOrder`) with its three parts and the refinement `DeliveryIsDurableLog`
  follow, for any number of faults. `SdkInv` carries over, because the client's lemmas
  allow any answer, and a restarted client is in an initial state. `CallerView` and
  `WorkerView` reduce each step of the client to what the others can see of it. On top of
  that, `DeliveryInv` says that every row and every frame still under way is `Genuine`:
  it carries what its generation accepted under its number, and is at most one
  ahead of what is confirmed; that an answer on its way is `Truthful`, that is
  names a row with the record the worker carries; and that what is confirmed is
  stored. So a frame that is not stored yet is the next of its generation
  (`MissingIsNext`), which keeps custody in order, and one that is stored has equal
  bytes. `Grows` and `RowsGrow` are all that each step has to keep of the rest.
* `SourceProofs`, for each source apart, since a daemon polls one at a time.
  *File*: `FileTyped` and `FilePositionsAgree` (`FilePositions`) rest on `Inv`, whose
  `JobMatches` says that the row under way goes on from the position in memory, and
  that a rotation under way still has the descriptor to put back. `LinesAreRecordedWhole`
  (`LinesAreWhole`) and `DiscontinuitiesAreTold` (`DiscontinuitiesTold`) rest on `LinesInv`, an
  invariant about the whole history of files. Bytes are numbered as they are written,
  so that the order of what is recorded can be compared with it: what was read is of
  the open file, from the position on (`BufferIsRead`), and it and the row under way are
  of bytes written after all that are recorded (`BufferIsNew`, `JobIsNew`); a file that is
  open is not older than that of the saved position (`OpenInOrder`); the position in memory
  is the saved one (`InStep`). With commits that are not reported the last part fails,
  and for the single file of `bytes` another argument takes its place: what was
  committed is prepared again and again, and refused (`Repeating`).
  *Journal*: `EntriesAreRecorded` from `JournalInv`: the entries of a page follow one another
  (`Consecutive`), it goes on from the saved position unless that was lost (`PageFollows`),
  and there is a saved position once there is a row (`SavedIsKnown`).
  *Host*: `IntervalsAreTold` in two layers. `OrderInv` has what is pending as the rest of
  one sample (`PendingIsRest`) behind all rows (`RowsAreBefore`). `ReportInv` adds that the
  metrics of the sample that are not pending are recorded (`RestIsRecorded`) and that
  `previous` is the last row of its counter (`PreviousIsLast`), from which resets follow.
* `DaemonProofs`. *Socket*: `OwnedSocket` (`SocketIsOwned`); `Owned` says what the holder of
  the lock knows at each step of opening and closing, `Distinct` that no two processes
  have one socket file. *Storage*: `CreatedSafely` and `StoredSafely` (`StorageIsSafe`):
  who goes on to the lock has found the directory private or made it so
  (`DirectoryIsThere`), and a single process that does not die has synchronized it before
  it is found there again (`DirectoryIsKept`). *Loop*: `RequestsServed`
  (`RequestsAreServed`) and `LoopOrderly` (`LoopIsOrderly`) from `ServerInv`. `OnceEach` says
  that no client is connected twice, which `swap_remove` keeps because it only moves the
  last connection; `ServedInTurn`, that those still to be served are the first ones, so
  that the connection that is moved has been served; `RepliesWait`, that a reply waits only for
  who is connected, so that no reply goes to another; `RepliesAreEarned`, that no
  identity has two bodies, without which a receipt could be of another observation; and
  `HealthIsTrue` counts rows against ingestion, retries and refusals.
* `ProgramProofs`. *Export*: `ExactExport` (`ExportIsExact`); `Kept`: the rows of the boundary
  are still there; `Stepwise`: the output ends where the next page begins. *Scan*:
  `NestingFound` (`NestingIsFound`) from `ScanInv`, which relates the scan's flags to the
  definition over the whole text: a byte is escaped if the run of backslashes before it
  is odd, and in a string if the quotes before it are. *Adapter*: `EveryCommandIsAnswered`
  (`CommandsAreAnswered`) from `AdapterInv`; there are as many replies as lines that ended,
  in their order, and the client accepted as many records as were told "accepted".
  *Laboratory*: `FramesStayKept` (`FramesAreKept`) from `BatchInv` and `WorkerInv`; tables
  only grow, each row points to the record it has the identity of, and the transaction
  of a worker is ahead of the tables by its one frame. That the frontier is the first
  sequence that is missing needs the least element of a set, `LeastOf`.
* `XtaskProofs`. *Verification*: `LastIsLast` without assumptions, and `EvidenceIsEarned`
  (`VerificationIsEvidence`). *Coverage*: `ReportsAreEvidence` (`ReportIsEvidence`), for
  a manifest that is edited at any step; results are of the first checks of the manifest
  that was loaded, in order (`RunIsOfManifest`), so a report that is complete covers what
  it lists. That it also covers what it names, which is what is in the file when it is
  written, needs that this manifest was the loaded one: `torn` is a history variable that
  remembers an edit between the two reads, and the only edit that goes unnoticed. *Search*: `RightOnlyAdvances` (`OnlyRightAdvances`), whoever writes which
  file. *Reference*: `ReferenceExact` (`ReferenceIsExact`), for lists of any length. That a
  list can be sorted at all is proved by insertion into the shortest that could not
  (`Sortable`); that pairs left are in order (`RestInOrder`) makes each step of the loop exact.

The theorems with a hypothesis, and why they need it:

| Theorem | Hypothesis | Without it |
|---|---|---|
| `OwnedSocket` | all processes are given one storage directory | "Two storages, one socket" below |
| `ExactExport` | queries for the highest id are answered truly | "An error for the boundary" |
| `EvidenceIsEarned` | no edit returns to earlier contents | "Edits that revert" |
| `LinesAreRecordedWhole` | in the setting `rotation` no commit is durable and unreported, no file is cut | "A position that goes back", "Truncation during a commit" |
| `DiscontinuitiesAreTold` | in the setting `rotation` no commit is durable and unreported | "A position that goes back" |
| `EntriesAreRecorded`, `IntervalsAreTold`, `NestingFound`, `ReferenceExact` | sizes, bounds and readings are numbers (`HostConstants` for the host) | nothing to compare |
| `EveryCommandIsAnswered`, `FramesStayKept` | inputs are sequences of pieces and records (`AdapterInputs`, `FrameInputs`) | no inputs |
| `ReportsAreEvidence` | manifests hold lists (`AreTexts`) | nothing to count |
| `RequestsServed`, `LoopOrderly` | `None` is not a reply (`NoneApart`) | no reply could be told from one |

So each hypothesis either says what kind of value a constant is, or excludes a
disagreement that is described below and that a run without it would report.

Only model-checked: liveness, that is `CallsReturn`, `AcceptedIsConfirmed`, `LinesCollected`,
`NothingWaits`, `MissedIsTold`, `ProgramsEnd`, `LoopGoesOn` and `ComesUpAgain` (it needs fairness and ENABLED,
which are beyond the prover). Every other property of a passing run is a theorem.

## Disagreements

Where the code and what its documents say differ. The first has a run of its own; the
others were met in the settings named, and the properties of the passing runs are stated so
that they do not ask for them. Five are written down as properties of the MC modules:
`LinesStartAtLines`, `RetriesUnchanged`, `CreationSurvives`, `ReceiptsSurvive` and
`NamedIsCovered` are violated within seconds when one of them is put in the place of the
properties of `MCSources.cfg`, `MCDaemon.cfg` or `MCXtask.cfg`. To see one, check the formula with the constants named.

* **Rotation is seen after the last read** (`sources.rs:218`; run `file_drained`). The path
  is examined after the read that returned nothing, and the descriptor is dropped: lines
  written to the old file in between are never read, while the gap says "previous descriptor
  drained". `docs/collection.md:57-58`: "Renamed files drain their open descriptor before the
  replacement starts".
* **Parts of lines as lines** (`sources.rs:259`; `LinesStartAtLines`). `skipping` is set
  only while the path is not rotated: of a line longer than a read, in a file that was
  renamed before, the first part becomes a gap and the rest a line of its own.
  `docs/collection.md:56-57`: "Oversized, malformed or invalid records produce explicit gap
  records."
* **Truncation during a commit** (`sources.rs:100`; setting `cut`). The fingerprint is of the
  file as it is at the commit, not of the bytes that were read: truncated and rewritten in
  between, the bytes before the offset are never collected and no gap is recorded.
  `docs/collection.md:58-59`: "truncation or changes behind the last offset produce a gap".
* **A retry with other bytes** (`sources.rs:101`; `RetriesUnchanged`). After a commit
  of unknown outcome the next poll submits the identity with a new timestamp, custody
  answers "identity conflict" at every poll, and the source stands still.
  `docs/contracts/spindle.md:16-17`: "clients retry unchanged identities."
* **A position that goes back** (`sources.rs:240`; `rotation` with "unreported"). When the
  commit of a rotation became durable and reported an error, the old descriptor is put back
  while the saved position is in the new file; the next line of the old file overwrites it.
  `docs/contracts/spindle.md:15`: "Source checkpoints advance only with custody or a durable
  explicit gap/rejection record."
* **Pages that never fit** (`sources.rs:378`; `EntryWaits` in `attach` with `OutputLimit` 2). Eight
  entries near the bound of 32768 bytes, none of them oversized, exceed the 262144 bytes of a
  poll; the same page is asked for at each poll. `docs/collection.md:69-72` allows this only
  for "persistent oversized native journal entries".
* **Losses before the first cursor** (`sources.rs:546`; `LossesRecorded` in `attach`). A source
  attached to an empty journal takes the first entry that is there for the next one,
  although others were vacuumed. `docs/contracts/spindle.md:7-8`: "reports missing cursors
  and access gaps".
* **Intervals a slow loop skips** (`sources.rs:665`; `elapsed` ahead of `handled` in `late`). `due` is a yes
  or no: intervals that went by while the loop was held up are neither sampled nor counted.
  `docs/collection.md:78-79`: "Missed or partially collected intervals are reported as gaps on
  recovery".
* **Misses told twice** (`sources.rs:695`; `MissedToldOnce` in `late`). A gap that became durable
  and reported an error is counted again in the next. `docs/contracts/spindle.md:16-17`.
* **Resets not told** (`sources.rs:726`; `ResetsTold` in `late`). `previous` is not moved by a
  metric that became durable and reported an error. `docs/collection.md:76-77`: "decreases set
  `reset`".
* **A reply completed late is counted as an error** (`server.rs:298`): a reply that takes more
  than one tick to write ends as `Err("reply complete")`, and `tick` counts it in
  `health.errors`. `docs/contracts/spindle.md:24-25`.
* **A directory that is never private** (`custody.rs:53`; `CreationSurvives`).
  `create_dir` uses the default mode and `set_permissions` follows: if the process ends in
  between, each later open refuses the directory. `docs/contracts/spindle.md:14-15`: "Initial
  file and directory creation must survive a crash."
* **An entry never synchronized** (`custody.rs:57`; `ReceiptsSurvive`). Only the
  process that created the directory synchronizes its parent; if it ends first, the entry
  is never synchronized. `docs/contracts/spindle.md:13-15`.
* **Two storages, one socket** (`server.rs:66`; `RunningIsReached` with a `Storage` of two). A
  refused connection is taken for a file left behind, and the path is removed by name: a
  daemon with another storage that starts at the same moment removes the socket of one that
  has bound and not yet listens. `fabric/tests/local_collection.rs:441` states that live
  daemons are preserved.
* **An error for the boundary** (`server.rs:195`; `DoneIsComplete` with `QueriesFail`). `health`
  replaces an error of the query for the highest id by 0, and export ends without a row and
  without an error. `docs/collection.md:47`: "captures the durable high watermark".
* **A line at the edge** (`fabric-adapter.rs:30`). A line of one byte more than a frame is refused
  like any other and does not close the adapter. `docs/collection.md:125`: "oversized lines are
  rejected and close the adapter".
* **Edits that revert** (`xtask/src/benchmark.rs:92`; `ProfilesAreOfAccepted` with `Reverts`). A
  change made after the first capture and taken back before the second is in the
  executable and in neither capture. `CONTRIBUTING.md:158`: "Profiles bind source".
* **A manifest read twice** (`xtask/src/coverage.rs:139`; `NamedIsCovered`). An
  edit between the read that is worked through and the read whose digest is taken is not
  noticed: the report lists the invariants of the first under the name of the second.
  `verification/readback-contract.md:19`: "Evidence binds source and manifest identity."

## Not modelled

* The text of observations, JSON and SQL: which fields an observation may hold is decided
  once per record, and the models take the outcome as sets of refused payloads.
* Frames and replies byte by byte, peer credentials beyond "foreign or not",
  `Config::validate`, the reading of configurations: decided once, no state.
* `retries`, `last_error` and other metrics that nothing reads back.
* SQLite (its transactions are taken as atomic, durable or failed), the kernel's file
  system but for what `StoreCreation` and `SocketOwner` say of it, `journalctl` as a process,
  the parsing of `/proc`, and a change of boot while the daemon runs, which ends it.
* The historical prototype (`collection.rs`, `analysis.rs`): one call each on one file, kept
  for its tests and no part of a running system.
* Arrow and the other codecs of the laboratory, its measurements; compilers, provers,
  fuzzers and benchmarks that `xtask` only runs: one step that succeeds or fails.
* The repository's own Lean proofs and fuzz targets, which are about single slots and
  steps where these modules treat whole pools and all schedules.
