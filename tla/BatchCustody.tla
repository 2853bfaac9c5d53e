---------------------------- MODULE BatchCustody ----------------------------
(***************************************************************************)
(* The laboratory's batch store (xtask representation::custody) and the    *)
(* worker process that commits one received frame and then tells the       *)
(* sender, over a network that loses, repeats and reorders frames, with    *)
(* the process killed between any two statements.                          *)
(*                                                                         *)
(* A frame is a sequence of records [stream, seq, body]; a stream is a     *)
(* producer and its generation.  The table `records` has one row per       *)
(* origin, stream and sequence, which says where the record is: in frame   *)
(* b of the table `batches`, at position n.  SQLite's transaction is       *)
(* external: what a worker writes is its own until it commits.             *)
(***************************************************************************)
EXTENDS Naturals, FiniteSets, Sequences, FiniteSetsExt

CONSTANTS
  Messages,   (* the [origin, frame] that may be sent, again and again      *)
  Limit,      (* Store::limit                                               *)
  MaxKills,   (* bound: how often a worker is killed                        *)
  None

VARIABLES
  records,   (* the table: a function from keys to [b, n]                   *)
  batches,   (* the other table: the frames, by their row number            *)
  worker,    (* the process: its message, where it is and its transaction   *)
  sealed,    (* the messages that were answered with a seal                 *)
  kills

batchVars == <<records, batches, worker, sealed, kills>>

Key(origin, r) == <<origin, r.stream, r.seq>>
At(bs, row) == bs[row.b][row.n]

BatchInit ==
    /\ records = << >> /\ batches = << >>
    /\ worker = None
    /\ sealed = {} /\ kills = 0

(* A frame arrives at a worker that has opened the store. *)
Receive(m) ==
    /\ worker = None
    /\ worker' = [msg |-> m, at |-> "look", fresh |-> {},
                  records |-> records, batches |-> batches]
    /\ UNCHANGED <<records, batches, sealed, kills>>

-----------------------------------------------------------------------------
(* Store::commit_validated *)

Known(w, i) == Key(w.msg.origin, w.msg.frame[i]) \in DOMAIN w.records

(* Faulty variant: whatever is stored under the identity will do. *)
ConflictsNever(w, i) == FALSE

Conflicts(w, i) ==
    /\ Known(w, i)
    /\ At(w.batches, w.records[Key(w.msg.origin, w.msg.frame[i])]) # w.msg.frame[i]

Repeats(w, i) ==
    /\ ~Known(w, i)
    /\ \E j \in 1..(i - 1) : Key("", w.msg.frame[j]) = Key("", w.msg.frame[i])

Full(w, fresh) == Cardinality(DOMAIN w.records) + Cardinality(fresh) > Limit

(* One record that cannot be taken refuses the whole frame: the            *)
(* transaction is dropped.                                                 *)
Look ==
    /\ worker # None /\ worker.at = "look"
    /\ LET all   == DOMAIN worker.msg.frame
           fresh == {i \in all : ~Known(worker, i)}
       IN worker' = IF (\E i \in all : Conflicts(worker, i) \/ Repeats(worker, i))
                          \/ Full(worker, fresh)
                    THEN None
                    ELSE [worker EXCEPT
                            !.at = IF fresh = {} THEN "commit" ELSE "insert",
                            !.fresh = fresh,
                            !.batches = IF fresh = {} THEN @
                                        ELSE Append(@, worker.msg.frame)]
    /\ UNCHANGED <<records, batches, sealed, kills>>

(* INSERT: the row of the first fresh record that has none yet. *)
WithRow(w, n) ==
    LET key == Key(w.msg.origin, w.msg.frame[n])
    IN [k \in DOMAIN w.records \union {key} |->
          IF k = key THEN [b |-> Len(w.batches), n |-> n] ELSE w.records[k]]

Insert ==
    /\ worker # None /\ worker.at = "insert"
    /\ LET n == Min(worker.fresh)
       IN worker' = [worker EXCEPT !.records = WithRow(worker, n),
                                   !.at = IF worker.fresh = {n} THEN "commit" ELSE @,
                                   !.fresh = @ \ {n}]
    /\ UNCHANGED <<records, batches, sealed, kills>>

Commit ==
    /\ worker # None /\ worker.at = "commit"
    /\ records' = worker.records /\ batches' = worker.batches
    /\ worker' = [worker EXCEPT !.at = "seal"]
    /\ UNCHANGED <<sealed, kills>>

(* The worker tells that the frame is kept, and ends. *)
Seal ==
    /\ worker # None /\ worker.at = "seal"
    /\ sealed' = sealed \union {worker.msg}
    /\ worker' = None
    /\ UNCHANGED <<records, batches, kills>>

(* The process is killed, or a statement fails. *)
Kill ==
    /\ worker # None /\ kills < MaxKills
    /\ worker' = None /\ kills' = kills + 1
    /\ UNCHANGED <<records, batches, sealed>>

-----------------------------------------------------------------------------
(* What is asked of the store *)

Stored(origin) == {k \in DOMAIN records : k[1] = origin}

(* ORDER BY length(s), s: decimal numbers by what they are.                *)
Before(k, l) == k[3] <= l[3]

(* Store::read: each frame is decoded once and each of its records taken   *)
(* out once; a second row for the same one finds nothing.                  *)
Readable(origin) ==
    \A k \in Stored(origin) :
        /\ records[k].b \in DOMAIN batches /\ records[k].n \in DOMAIN batches[records[k].b]
        /\ \A l \in Stored(origin) \ {k} : records[l] # records[k]

(* The pairs of rows of which the first is surely read first: those that   *)
(* compare equal come in either order.                                     *)
Read(origin) == {p \in Stored(origin) \X Stored(origin) : ~Before(p[2], p[1])}

Frontier(rows, origin, stream) ==
    Max({n \in 0..Cardinality(DOMAIN rows) :
            \A s \in 1..n : <<origin, stream, s>> \in DOMAIN rows})

-----------------------------------------------------------------------------
BatchNext ==
    \/ \E m \in Messages : Receive(m)
    \/ Look \/ Insert \/ Commit \/ Seal \/ Kill

BatchSpec == BatchInit /\ [][BatchNext]_batchVars

-----------------------------------------------------------------------------
Origins == {m.origin : m \in Messages}
Streams == UNION {{m.frame[i].stream : i \in DOMAIN m.frame} : m \in Messages}

(* A frame is stored as a whole: it is in the table for some origin, and   *)
(* every record of it is read back for that origin, from this frame or     *)
(* from the earlier one that brought it.                                   *)
FramesAreWhole ==
    \A b \in DOMAIN batches :
        \E o \in Origins :
            /\ \E k \in Stored(o) : records[k].b = b
            /\ \A i \in DOMAIN batches[b] :
                   LET k == Key(o, batches[b][i])
                   IN k \in DOMAIN records /\ At(batches, records[k]) = batches[b][i]

(* Whatever an origin has stored is read, each stream in the order of its  *)
(* sequences and each record under the identity it was sent with: no row   *)
(* points past its frame and no two at the same record.                    *)
ReadGivesAll ==
    \A o \in Origins :
        /\ Readable(o)
        /\ \A k \in Stored(o) : Key(o, At(batches, records[k])) = k
        /\ \A k, l \in Stored(o) :
               LET r == At(batches, records[k])
                   s == At(batches, records[l])
               IN r.stream = s.stream /\ r.seq < s.seq => <<k, l>> \in Read(o)

(* What was sealed is read back for the origin that sent it, as it sent    *)
(* it, from then on: whatever else arrives and whenever workers are killed. *)
SealedIsKept ==
    \A m \in sealed : \A i \in DOMAIN m.frame :
        LET k == Key(m.origin, m.frame[i])
        IN k \in DOMAIN records /\ At(batches, records[k]) = m.frame[i]

(* The frontier the sender may forget its records up to is covered by      *)
(* stored records, and never moves back.                                   *)
FrontierKept ==
    \A o \in Origins : \A s \in Streams :
        /\ Frontier(records, o, s) <= Frontier(records', o, s)
        /\ \A n \in 1..Frontier(records, o, s) : <<o, s, n>> \in DOMAIN records


(* Frames are stored whole, what is stored is read, what was sealed stays. *)
BatchesAreKept == FramesAreWhole /\ ReadGivesAll /\ SealedIsKept

(* Everything is sealed, and the frontier of each stream is its last one.  *)
EverythingArrived ==
    /\ sealed = Messages
    /\ \A m \in Messages : \A i \in DOMAIN m.frame :
         Frontier(records, m.origin, m.frame[i].stream) >= m.frame[i].seq
=============================================================================
