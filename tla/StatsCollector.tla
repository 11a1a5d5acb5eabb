---------------------------- MODULE StatsCollector ----------------------------
(***************************************************************************)
(* Rolling windows and counters (inferneo/metrics/stats.py), fed by the    *)
(* engine thread (engine.py, _record_stats) and read by the HTTP handlers. *)
(*                                                                         *)
(* Both threads read the clock before they take the lock, so that the time *)
(* they use may be older than what the other has done meanwhile.  The      *)
(* latency windows (ttft, tpot, e2e) are alike; one stands for them.       *)
(***************************************************************************)
EXTENDS PartialSums, FiniteSets

CONSTANTS
    Window,         \* window_s
    StepSamples,    \* what a step may bring
    MaxClock,       \* bound on the clock
    MaxRecords      \* bound on the recorded steps

VARIABLES
    clock,      \* time.monotonic()
    recordAt,   \* the engine thread's `now`, -1 outside record_step
    snapAt,     \* the reader's `now`, -1 outside snapshot
    steps,      \* _steps
    latencies,  \* a latency window: (t, milliseconds)
    totals,     \* the monotonic counters
    snap,       \* the last snapshot
    history,    \* every step ever recorded (ghost)
    reported    \* every latency ever recorded (ghost)

statsVars == <<clock, recordAt, snapAt, steps, latencies, totals, snap, history, reported>>

StepSample == [gen : Nat, proc : Nat, preempt : Nat, latency : Seq(Nat)]

\* A step processes a token for each one it samples: generation_tokens counts
\* updated requests, and each was scheduled with at least one token.
ASSUME StatsAssumption ==
    /\ Window \in Nat /\ MaxClock \in Nat /\ MaxRecords \in Nat
    /\ \A s \in StepSamples : s \in StepSample /\ s.gen <= s.proc /\ Len(s.latency) <= s.gen

StatsInit ==
    /\ clock = 0 /\ recordAt = -1 /\ snapAt = -1
    /\ steps = << >> /\ latencies = << >> /\ history = << >> /\ reported = << >>
    /\ totals = [steps |-> 0, prompt |-> 0, gen |-> 0, finished |-> 0, preempt |-> 0]
    /\ snap = [at |-> -1, n |-> 0, gen |-> 0, proc |-> 0, preempt |-> 0, p50 |-> 0, p99 |-> 0]

Tick ==
    /\ clock < MaxClock
    /\ clock' = clock + 1
    /\ UNCHANGED <<recordAt, snapAt, steps, latencies, totals, snap, history, reported>>

OlderThan(dq, cut) == {i \in DOMAIN dq : \A j \in 1 .. i : dq[j].t < cut}
DropFront(dq, n) == SubSeq(dq, n + 1, Len(dq))

\* Mutant: what lies on the boundary of the window goes too.
EvictBoundary(dq, now) == DropFront(dq, Cardinality(OlderThan(dq, now - Window + 1)))

\* _evict: pop from the front while it is old.
Evict(dq, now) == DropFront(dq, Cardinality(OlderThan(dq, now - Window)))

EnterRecord ==
    /\ recordAt = -1 /\ Len(history) < MaxRecords
    /\ recordAt' = clock
    /\ UNCHANGED <<clock, snapAt, steps, latencies, totals, snap, history, reported>>

RecordStep ==
    /\ recordAt >= 0
    /\ \E s \in StepSamples :
          LET step == [t |-> recordAt, gen |-> s.gen, proc |-> s.proc, preempt |-> s.preempt]
              new == [i \in DOMAIN s.latency |-> [t |-> recordAt, ms |-> s.latency[i]]]
          IN  /\ totals' = [steps    |-> totals.steps + 1,
                            prompt   |-> totals.prompt + (IF s.proc > s.gen THEN s.proc - s.gen ELSE 0),
                            gen      |-> totals.gen + s.gen,
                            finished |-> totals.finished + Len(s.latency),
                            preempt  |-> totals.preempt + s.preempt]
              /\ steps' = Evict(Append(steps, step), recordAt)
              /\ latencies' = Evict(latencies \o new, recordAt)
              /\ history' = Append(history, step)
              /\ reported' = reported \o new
    /\ recordAt' = -1
    /\ UNCHANGED <<clock, snapAt, snap>>

EnterSnapshot ==
    /\ snapAt = -1
    /\ snapAt' = clock
    /\ UNCHANGED <<clock, recordAt, steps, latencies, totals, snap, history, reported>>

\* The sums over a window.
Generated(dq) == SumOf([i \in DOMAIN dq |-> dq[i].gen])
Processed(dq) == SumOf([i \in DOMAIN dq |-> dq[i].proc])
Preempted(dq) == SumOf([i \in DOMAIN dq |-> dq[i].preempt])

\* The value at place k of the sorted latencies: fewer than k are below it, k or
\* more are not above it.
Ranked(dq, k) ==
    CHOOSE v \in {dq[i].ms : i \in DOMAIN dq} :
       /\ Cardinality({i \in DOMAIN dq : dq[i].ms < v}) < k
       /\ Cardinality({i \in DOMAIN dq : dq[i].ms <= v}) >= k

\* _pct, q in percent.
Pct(dq, q) ==
    IF dq = << >> THEN 0
    ELSE LET i == (q * Len(dq)) \div 100
         IN  Ranked(dq, 1 + (IF i < Len(dq) - 1 THEN i ELSE Len(dq) - 1))

Snapshot ==
    /\ snapAt >= 0
    /\ steps' = Evict(steps, snapAt)
    /\ latencies' = Evict(latencies, snapAt)
    /\ snap' = [at      |-> snapAt,
                n       |-> Len(steps'),
                gen     |-> Generated(steps'),
                proc    |-> Processed(steps'),
                preempt |-> Preempted(steps'),
                p50     |-> Pct(latencies', 50),
                p99     |-> Pct(latencies', 99)]
    /\ snapAt' = -1
    /\ UNCHANGED <<clock, recordAt, totals, history, reported>>

StatsNext == Tick \/ EnterRecord \/ RecordStep \/ EnterSnapshot \/ Snapshot

StatsSpec == StatsInit /\ [][StatsNext]_statsVars

-----------------------------------------------------------------------------

\* The engine thread's clock at the last step it recorded, and what of all entries
\* is not older than some time.
LastRecord == IF history = << >> THEN -1 ELSE history[Len(history)].t
Later(t, u) == IF t > u THEN t ELSE u
Recent(all, cut) == DropFront(all, Cardinality({i \in DOMAIN all : all[i].t < cut}))

\* A snapshot sums up exactly the steps and the latencies, of all ever recorded, of
\* the last window_s seconds, counted from the later of the two clocks: the
\* reader's own and the one the engine thread last recorded with.  Neither loses
\* an entry to the other's evictions nor keeps one too many, though the engine
\* thread records and evicts between the reading of the clock and the lock.  In it
\* generated tokens never exceed the processed ones (prefill_fraction is in [0, 1])
\* and p50 never exceeds p99.  The counters split what was processed exactly:
\* max(..., 0) in record_step clips nothing.
SnapshotIsExact ==
    [][ /\ snapAt >= 0 /\ snapAt' = -1 =>
              LET since == Later(snapAt, LastRecord) - Window
                  s == Recent(history, since)
                  l == Recent(reported, since)
              IN  /\ snap' = [at |-> snapAt, n |-> Len(s), gen |-> Generated(s),
                              proc |-> Processed(s), preempt |-> Preempted(s),
                              p50 |-> Pct(l, 50), p99 |-> Pct(l, 99)]
                  /\ snap'.gen <= snap'.proc
                  /\ snap'.p50 <= snap'.p99
        /\ totals.prompt + totals.gen = Processed(history)
        /\ totals.gen = Generated(history) ]_statsVars
=============================================================================
