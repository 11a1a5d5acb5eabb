----------------------------- MODULE PagedDecode ------------------------------
(***************************************************************************)
(* Where the attention of a step writes and reads: the SDPA reference      *)
(* (inferneo/attention/sdpa_backend.py), the FlashInfer backend            *)
(* (flashinfer_backend.py) and the captured decode graphs                  *)
(* (inferneo/executor/cuda_graph.py).                                      *)
(*                                                                         *)
(* A replay runs over static buffers that outlive the step: what an        *)
(* earlier, larger batch left in them is there in the next one.  The model *)
(* keeps these buffers; `access` is what the last step's kernels did, row  *)
(* by row, read off the buffers they were given.                           *)
(***************************************************************************)
EXTENDS PartialSums, SequencesExt, FiniteSetsExt

CONSTANTS
    BlockSize,
    NumBlocks,          \* blocks the engine hands out: 0 .. NumBlocks - 1
    MaxNumSeqs,         \* SchedulerConfig.max_num_seqs
    MaxBlocksPerSeq,    \* pages of a sequence of max_model_len tokens
    Batches,            \* the steps the engine may send
    MaxSteps            \* bound on the number of steps

\* init_kv_cache: one page more than the engine knows, for padding rows.
Scratch == NumBlocks

\* The pages of n tokens.
Pages(n) == (n + BlockSize - 1) \div BlockSize

\* A row of a step: its block table, the tokens it computes and its length with
\* them, and whether it samples.  The table has the pages of all its tokens
\* (KVCacheManager), which fit max_model_len.
BatchRow ==
    {row \in [table : Seq(0 .. NumBlocks - 1), q : Nat \ {0}, s : Nat \ {0}, sample : BOOLEAN] :
        row.q <= row.s /\ Pages(row.s) <= Len(row.table) /\ Pages(row.s) <= MaxBlocksPerSeq}

ASSUME DecodeAssumption ==
    /\ BlockSize \in Nat \ {0} /\ NumBlocks \in Nat
    /\ MaxNumSeqs \in Nat /\ MaxBlocksPerSeq \in Nat \ {0} /\ MaxSteps \in Nat
    /\ Batches \subseteq Seq(BatchRow) /\ \A rows \in Batches : Len(rows) \in 1 .. MaxNumSeqs

VARIABLES
    batch,      \* the rows of the last step
    graphed,    \* whether it was a replay
    buffers,    \* g_positions, g_block_ids, g_offsets, by row
    plans,      \* indptr, indices, last_page of every bucket's wrapper
    access,     \* per row of the kernels: slots written, slots read by each query token
    stepCount

decodeVars == <<batch, graphed, buffers, plans, access, stepCount>>

-----------------------------------------------------------------------------
(* The reference. *)

Slot(table, pos) == <<table[pos \div BlockSize + 1], pos % BlockSize>>
Slots(table, n) == [i \in 1 .. n |-> Slot(table, i - 1)]

\* SDPA: new keys and values go to the last q slots of the sequence; query token
\* i sees the positions up to its own, s - q + i.
SDPA(row) ==
    LET slots == Slots(row.table, row.s)
    IN  [pos    |-> row.s - row.q,
         writes |-> SubSeq(slots, row.s - row.q + 1, row.s),
         reads  |-> [i \in 1 .. row.q |-> SubSeq(slots, 1, row.s - row.q + i)]]

-----------------------------------------------------------------------------
(* Pages. *)

\* The page metadata of a wrapper: where each row's pages begin in `indices`,
\* and how much of the last one is in use.
PagePlan(rows) ==
    [indptr  |-> Sums([i \in 1 .. Len(rows) |-> Pages(rows[i].s)]),
     indices |-> FlattenSeq([i \in 1 .. Len(rows) |-> SubSeq(rows[i].table, 1, Pages(rows[i].s))]),
     last    |-> [i \in 1 .. Len(rows) |-> rows[i].s - (Pages(rows[i].s) - 1) * BlockSize]]

\* What the paged kernel makes of it: row i's slots, in order.
PlannedSlots(plan, i) ==
    LET pages == SubSeq(plan.indices, plan.indptr[i - 1] + 1, plan.indptr[i])
    IN  Slots(pages, (Len(pages) - 1) * BlockSize + plan.last[i])

\* FlashInfer, eager: query tokens are aligned to the tail of the sequence.
FlashInfer(rows) ==
    LET plan == PagePlan(rows)
    IN  [i \in 1 .. Len(rows) |->
          LET slots == PlannedSlots(plan, i)
              q == rows[i].q
          IN  [pos    |-> rows[i].s - q,
               writes |-> [k \in 1 .. q |-> Slot(rows[i].table, rows[i].s - q + k - 1)],
               reads  |-> [k \in 1 .. q |-> SubSeq(slots, 1, Len(slots) - q + k)]]]

-----------------------------------------------------------------------------
(* Decode graphs. *)

Doubled(m) == LET b[k \in 0 .. m] == IF k = 0 THEN 1 ELSE 2 * b[k - 1] IN b

\* Mutant: the largest batch has no bucket of its own.
PowersBelow(m) == {b \in Range(Doubled(m)) : b < m}

\* default_buckets
DefaultBuckets(m) == {b \in Range(Doubled(m)) : b < m} \cup {m}

Fitting(n) == {b \in DefaultBuckets(MaxNumSeqs) : b >= n}
PickBucket(n) == Min(Fitting(n))

\* execute: a graph replays only when every request advances one token and samples.
PureDecode(rows) == \A i \in 1 .. Len(rows) : rows[i].sample /\ rows[i].q = 1

PaddingRow == [table |-> <<Scratch>>, q |-> 1, s |-> 1, sample |-> TRUE]
Padded(rows, b) == [i \in 1 .. b |-> IF i <= Len(rows) THEN rows[i] ELSE PaddingRow]

Entry(row) == [pos |-> row.s - 1, slot |-> Slot(row.table, row.s - 1)]

\* Mutant: only the rows of the batch are refreshed.
RefreshedForBatch(rows, b) ==
    [i \in DOMAIN buffers |-> IF i <= Len(rows) THEN Entry(rows[i]) ELSE buffers[i]]

\* run: the first b entries of the static buffers are refreshed, padding included;
\* those of larger buckets keep what they had.
Refreshed(rows, b) ==
    [i \in DOMAIN buffers |-> IF i <= b THEN Entry(Padded(rows, b)[i]) ELSE buffers[i]]

\* _plan copies into the bucket's fixed buffers, from their start.
Overwrite(old, new) == new \o SubSeq(old, Len(new) + 1, Len(old))
Replan(plan, rows, b) ==
    LET new == PagePlan(Padded(rows, b))
    IN  [new EXCEPT !.indices = Overwrite(plan.indices, @)]

\* What the captured kernels of bucket b do.
Replay(bufs, plan, b) ==
    [i \in 1 .. b |-> [pos |-> bufs[i].pos, writes |-> <<bufs[i].slot>>,
                       reads |-> <<PlannedSlots(plan, i)>>]]

\* _capture: every bucket, in order, over an all-padding batch.
DecodeInit ==
    /\ batch = << >>
    /\ graphed = FALSE
    /\ buffers = [i \in 1 .. MaxNumSeqs |-> Entry(PaddingRow)]
    /\ plans = [b \in DefaultBuckets(MaxNumSeqs) |->
          LET new == PagePlan(Padded(<< >>, b))
          IN  [new EXCEPT !.indices = Overwrite([i \in 1 .. b * MaxBlocksPerSeq |-> 0], @)]]
    /\ access = << >>
    /\ stepCount = 0

\* A pure decode step with a captured graph.
RunGraph(rows) ==
    /\ PureDecode(rows)
    /\ Fitting(Len(rows)) # {}
    /\ LET b == PickBucket(Len(rows))
       IN  /\ buffers' = Refreshed(rows, b)
           /\ plans' = [plans EXCEPT ![b] = Replan(@, rows, b)]
           /\ access' = Replay(buffers', plans'[b], b)
    /\ graphed' = TRUE

\* Any other step, or every step without graphs.
RunEager(rows) ==
    /\ access' = FlashInfer(rows)
    /\ graphed' = FALSE
    /\ UNCHANGED <<buffers, plans>>

DecodeNext ==
    /\ stepCount < MaxSteps
    /\ \E rows \in Batches : batch' = rows /\ (RunGraph(rows) \/ RunEager(rows))
    /\ stepCount' = stepCount + 1

DecodeSpec == DecodeInit /\ [][DecodeNext]_decodeVars

-----------------------------------------------------------------------------

\* The three paths write and read the same slots: FlashInfer for every mix of
\* prefill, chunks and decode, a replay for the real rows of a decode step,
\* whatever earlier batches left in the buffers.  The padding rows of a replay
\* touch the scratch page only ("their KV writes and reads are harmless",
\* cuda_graph.py:11-13).
PathsAgree ==
    /\ Len(batch) <= Len(access)
    /\ \A i \in 1 .. Len(access) :
          IF i <= Len(batch)
          THEN access[i] = SDPA(batch[i])
          ELSE access[i] = SDPA(PaddingRow)

\* A decode step of any size the scheduler sends has a bucket, with less than
\* twice its rows ("padding waste stays under 2x", cuda_graph.py:30-31), and
\* its pages fit the buffers the graph was captured with.
GraphsFit ==
    PureDecode(batch) /\ batch # << >> =>
       /\ Fitting(Len(batch)) # {}
       /\ PickBucket(Len(batch)) < 2 * Len(batch)
       /\ \A b \in DOMAIN plans : Len(plans[b].indices) = b * MaxBlocksPerSeq
=============================================================================
