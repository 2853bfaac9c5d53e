----------------------------- MODULE HostSource -----------------------------
(***************************************************************************)
(* fabric::spindle::sources::HostSource: one set of samples per interval,  *)
(* stored a few per poll, against reads and commits that fail, a loop that *)
(* comes late, and the end of the daemon between any two steps.            *)
(*                                                                         *)
(* A sample is a counter's number and its value, which may have gone back. *)
(* The boot ID is read with the samples; it cannot change while a process  *)
(* lives, so that a life of the process is a generation.                   *)
(***************************************************************************)
EXTENDS Naturals, Sequences, FiniteSetsExt

CONSTANTS
  Counters,    (* samples per interval                                      *)
  Readings,    (* the values that the counters may read at one time         *)
  PerPoll,     (* samples stored in one poll: 4                             *)
  Troubles,    (* of {"restart", "failure", "unreported", "late"}           *)
  None,
  MaxIntervals, MaxTroubles    (* bounds                                    *)

VARIABLES
  elapsed,   (* intervals that have ended in this life                      *)
  due,       (* whether the next poll comes after HostSource::next          *)
  troubles,  (* how many of the bounded Troubles have happened              *)
  stage,     (* "idle", "gap", "sample" or "emit"                           *)
  taking,    (* inner's `due`                                               *)
  left,      (* samples this poll may still store                           *)
  pending,   (* samples to be stored: [counter, value, interval]            *)
  previous,  (* per counter: the value stored last, or None                 *)
  sequence, missed, pending_missed,
  handled,   (* intervals this life has begun to sample, or missed          *)
  life,      (* the generation                                              *)
  rows       (* what custody holds: [life, sequence, data]                  *)

time == <<elapsed, due>>
locals == <<stage, taking, left>>
counts == <<missed, pending_missed>>
hostVars == <<time, troubles, locals, pending, previous, sequence, counts,
              handled, life, rows>>

NoValues == [c \in 1..Counters |-> None]

HostInit ==
    /\ stage = "idle" /\ taking = FALSE /\ left = 0
    /\ pending = <<>> /\ previous = NoValues
    /\ sequence = 0 /\ missed = 0 /\ pending_missed = 0
    /\ handled = 0 /\ elapsed = 1 /\ due = TRUE
    /\ troubles = 0
    /\ life = 1
    /\ rows = <<>>

Trouble(kind) ==
    /\ kind \in Troubles
    /\ troubles < MaxTroubles
    /\ troubles' = troubles + 1

-----------------------------------------------------------------------------
(* An interval ends, of fewer in each life; one that ends before the last was noticed is late. *)
Elapse ==
    /\ elapsed + life <= MaxIntervals
    /\ IF due THEN Trouble("late") ELSE UNCHANGED troubles
    /\ elapsed' = elapsed + 1
    /\ due' = TRUE
    /\ UNCHANGED <<locals, pending, previous, sequence, counts, handled, life, rows>>

(* HostSource::new in another process *)
Restart ==
    /\ Trouble("restart")
    /\ stage' = "idle" /\ taking' = FALSE /\ left' = 0
    /\ pending' = <<>> /\ previous' = NoValues
    /\ sequence' = 0 /\ missed' = 0 /\ pending_missed' = 0
    /\ handled' = 0 /\ elapsed' = 1 /\ due' = TRUE
    /\ life' = life + 1
    /\ UNCHANGED rows

-----------------------------------------------------------------------------
(* HostSource::poll *)

Missing(n) ==
    /\ missed' = missed + n
    /\ pending_missed' = pending_missed + n

(* Faulty variant: samples that are left over go with the next interval. *)
BeginPollKeeping ==
    /\ stage = "idle"
    /\ due \/ pending # <<>>
    /\ due' = FALSE
    /\ handled' = handled + (IF due THEN 1 ELSE 0)
    /\ taking' = due
    /\ left' = PerPoll
    /\ stage' = "gap"
    /\ UNCHANGED <<elapsed, troubles, pending, previous, sequence, counts, life, rows>>

BeginPoll ==
    /\ stage = "idle"
    /\ due \/ pending # <<>>
    /\ IF due /\ pending # <<>> THEN pending' = <<>> /\ Missing(1)
       ELSE UNCHANGED <<pending, counts>>
    /\ due' = FALSE
    /\ handled' = handled + (IF due THEN 1 ELSE 0)
    /\ taking' = due
    /\ left' = PerPoll
    /\ stage' = "gap"
    /\ UNCHANGED <<elapsed, troubles, previous, sequence, life, rows>>

(* Any error ends the poll: what is pending is dropped and the interval    *)
(* counted as missed.                                                      *)
Fail ==
    /\ pending' = <<>>
    /\ stage' = "idle"
    /\ Missing(1)
    /\ UNCHANGED <<time, taking, left, previous, handled, life>>

(* HostSource::emit *)

Emitted(data) == Append(rows, [life |-> life, sequence |-> sequence + 1, data |-> data])

(* The number is used up also where the commit fails. *)
EmitFails(data) ==
    /\ \/ Trouble("failure") /\ UNCHANGED rows
       \/ Trouble("unreported") /\ rows' = Emitted(data)
    /\ sequence' = sequence + 1
    /\ Fail

Emit(data) ==
    /\ rows' = Emitted(data)
    /\ sequence' = sequence + 1
    /\ UNCHANGED <<time, troubles, taking, handled, life>>

(* HostSource::inner *)

GapData == [gap |-> pending_missed]

(* Faulty variant: what was missed is not told before the samples. *)
SkipGapSilently ==
    /\ stage = "gap"
    /\ stage' = IF taking THEN "sample" ELSE "emit"
    /\ UNCHANGED <<time, troubles, taking, left, pending, previous, sequence, counts,
                   handled, life, rows>>

SkipGap ==
    /\ stage = "gap" /\ pending_missed = 0
    /\ stage' = IF taking THEN "sample" ELSE "emit"
    /\ UNCHANGED <<time, troubles, taking, left, pending, previous, sequence, counts,
                   handled, life, rows>>

EmitGap ==
    /\ stage = "gap" /\ pending_missed > 0
    /\ Emit(GapData)
    /\ pending_missed' = 0
    /\ stage' = IF taking THEN "sample" ELSE "emit"
    /\ UNCHANGED <<left, pending, previous, missed>>

GapFails == stage = "gap" /\ pending_missed > 0 /\ EmitFails(GapData)

(* host_samples *)
Sample ==
    /\ stage = "sample"
    /\ \E values \in Readings :
         pending' = [c \in 1..Counters |->
                       [counter |-> c, value |-> values[c], interval |-> handled]]
    /\ stage' = "emit"
    /\ UNCHANGED <<time, troubles, taking, left, previous, sequence, counts, handled,
                   life, rows>>

SampleFails ==
    /\ stage = "sample"
    /\ Trouble("failure")
    /\ Fail
    /\ UNCHANGED <<sequence, rows>>

Sampled == Head(pending)

IsReset == previous[Sampled.counter] = None \/ Sampled.value < previous[Sampled.counter]

MetricData ==
    [counter |-> Sampled.counter, value |-> Sampled.value, reset |-> IsReset,
     interval |-> Sampled.interval]

Storing == stage = "emit" /\ left > 0 /\ pending # <<>>

EmitMetric ==
    /\ Storing
    /\ Emit(MetricData)
    /\ previous' = [previous EXCEPT ![Sampled.counter] = Sampled.value]
    /\ pending' = Tail(pending)
    /\ left' = left - 1
    /\ UNCHANGED <<stage, counts>>

MetricFails == Storing /\ EmitFails(MetricData)

EndPoll ==
    /\ stage = "emit" /\ (left = 0 \/ pending = <<>>)
    /\ stage' = "idle"
    /\ UNCHANGED <<time, troubles, taking, left, pending, previous, sequence, counts,
                   handled, life, rows>>

-----------------------------------------------------------------------------
Step == BeginPoll \/ SkipGap \/ EmitGap \/ Sample \/ EmitMetric \/ EndPoll

HostNext ==
    \/ Elapse \/ Restart \/ Step
    \/ GapFails \/ SampleFails \/ MetricFails

HostSpec == HostInit /\ [][HostNext]_hostVars

-----------------------------------------------------------------------------
Gaps == {i \in DOMAIN rows : "gap" \in DOMAIN rows[i].data}
Metrics == DOMAIN rows \ Gaps

(* The counts of the gaps recorded in this life. *)
Told == MapThenSumSet(LAMBDA i : rows[i].data.gap,
                      {i \in Gaps : rows[i].life = life})

(* Missed intervals are told once each: those of the gap records and those *)
(* still to be told are all there were.                                    *)
MissedToldOnce == Told + pending_missed = missed

Complete(n) ==
    \A c \in 1..Counters :
        \E i \in Metrics : /\ rows[i].life = life
                           /\ rows[i].data.interval = n
                           /\ rows[i].data.counter = c

(* Of the intervals that were begun each is sampled whole or counted as    *)
(* missed, or it is the one being sampled.                                 *)
IntervalsAccounted ==
    handled = Cardinality({n \in 1..handled : Complete(n)}) + missed +
        (IF pending # <<>> \/ (stage \in {"gap", "sample"} /\ taking) THEN 1 ELSE 0)

(* A counter that goes back, or that is seen by a new process, is told as  *)
(* reset in the record that shows it.                                      *)
ResetsTold ==
    \A i, j \in Metrics :
        LET before == rows[i]  later == rows[j] IN
        (/\ i < j /\ later.data.counter = before.data.counter
         /\ \A k \in (i + 1) .. (j - 1) :
              k \in Metrics => rows[k].data.counter # before.data.counter
         /\ later.life # before.life \/ later.data.value < before.data.value)
        => later.data.reset

(* No identity is used for two records, also when a commit whose failure   *)
(* was reported had been durable: custody has no reason to refuse one.     *)
IdentitiesRise ==
    \A i, j \in DOMAIN rows :
        i < j => \/ rows[i].life < rows[j].life
                 \/ rows[i].life = rows[j].life /\ rows[i].sequence < rows[j].sequence

(* Samples of different intervals are not mixed. *)
SamplesInOrder ==
    \A i, j \in Metrics :
        i < j /\ rows[i].life = rows[j].life =>
          \/ rows[i].data.interval < rows[j].data.interval
          \/ /\ rows[i].data.interval = rows[j].data.interval
             /\ rows[i].data.counter < rows[j].data.counter

(* Samples are in order and identities new, whatever fails; where commits  *)
(* report what they did, each interval that was begun is whole or missed,  *)
(* each missed one is told once, and a reset with the value that shows it. *)
IntervalsTold ==
    /\ SamplesInOrder /\ IdentitiesRise
    /\ "unreported" \notin Troubles =>
         MissedToldOnce /\ IntervalsAccounted /\ ResetsTold

(* Something was missed and is not told, although storage accepts again    *)
(* and another interval is to come.                                        *)
MissedWaits ==
    troubles = MaxTroubles /\ pending_missed > 0 /\ elapsed + life <= MaxIntervals
=============================================================================
