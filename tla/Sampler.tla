------------------------------- MODULE Sampler --------------------------------
(***************************************************************************)
(* Which tokens a row of a step may get (inferneo/sampling/sampler.py).    *)
(*                                                                         *)
(* The rows of a step are processed as one tensor, under switches that any *)
(* row of the batch can turn on.  Logits are integers and the exponentials *)
(* of a softmax whole numbers; the temperature is an integer that          *)
(* multiplies, 0 for greedy; top_p and min_p are whole parts of `Whole`.   *)
(* Noise makes any token that is left possible, so a result holds the set  *)
(* of possible tokens.  Tokens of equal logit come in any order.           *)
(*                                                                         *)
(* The float32 sum that is compared with top_p is within one part of the   *)
(* exact one, on either side, and the same for a row in any batch; the     *)
(* comparison with min_p is exact.                                         *)
(***************************************************************************)
EXTENDS PartialSums, SequencesExt, FiniteSetsExt

CONSTANTS
    VocabSize,
    SampledRows,    \* the batches of rows to sample
    Whole,          \* the parts top_p and min_p count: 1.0 is all of them
    Logits,         \* what a logit may be, as it comes and after penalties and temperature
    Exp             \* the exponential of each, up to a common factor

Vocab == 1 .. VocabSize
NoLogprobs == -1
NoTop == {}

\* RequestSamplerState: raw logits, parameters and the request's tokens.
SamplerRow ==
    [logits : [Vocab -> Int], temp : Nat, topK : Int, topP : 1 .. Whole, minP : 0 .. Whole,
     repetition : Nat \ {0}, frequency : Int, presence : Int, seeded : BOOLEAN,
     logprobs : Int, promptLen : Nat, tokenIds : Seq(Vocab)]

ASSUME SamplerAssumption ==
    /\ VocabSize \in Nat \ {0} /\ Whole \in Nat \ {0}
    /\ SampledRows \subseteq Seq(SamplerRow)
    /\ Logits \subseteq Int
    /\ Exp \in [Logits -> Nat \ {0}]
    /\ \A x, y \in Logits : x <= y => Exp[x] <= Exp[y]

VARIABLES
    rows,       \* the rows of the batch
    sorts,      \* by row: how the sorts order its raw and its penalized logits, and
                \* the ranks where rounding decides that top_p is reached
    result      \* what each row gets

samplerVars == <<rows, sorts, result>>

-----------------------------------------------------------------------------

Greedy(row) == row.temp = 0
NeedsPenalties(row) == row.presence # 0 \/ row.frequency # 0 \/ row.repetition # 1

\* _apply_penalties: the repetition penalty over all tokens, the others over the
\* generated ones.
Penalized(row) ==
    LET output == SubSeq(row.tokenIds, row.promptLen + 1, Len(row.tokenIds))
        Count(t) == Cardinality({i \in DOMAIN output : output[i] = t})
        Repeated(t, l) == IF t \notin Range(row.tokenIds) THEN l
                          ELSE IF l > 0 THEN l \div row.repetition ELSE l * row.repetition
    IN  IF ~NeedsPenalties(row) THEN row.logits
        ELSE [t \in Vocab |-> Repeated(t, row.logits[t])
                - (IF Count(t) > 0 THEN row.frequency * Count(t) + row.presence ELSE 0)]

\* The logits the filters see, after the penalties and the temperature.
Scaled(row) ==
    [t \in Vocab |-> Penalized(row)[t] * (IF Greedy(row) THEN 1 ELSE row.temp)]

ASSUME LogitsAssumption ==
    \A b \in SampledRows : \A i \in DOMAIN b : \A t \in Vocab :
       b[i].logits[t] \in Logits /\ Scaled(b[i])[t] \in Logits

\* softmax, up to a common factor: of a token, of a set of them.
Weight(l, t) == Exp[l[t]]
Mass(l, S) == SumOf([t \in Vocab |-> IF t \in S THEN Weight(l, t) ELSE 0])

\* The ways a sort may order the vocabulary.
Orders == Bijection(Vocab, Vocab)

\* sort, descending, when equal logits come in the order `tie` gives them.
Sorted(l, tie) ==
    CHOOSE order \in Orders :
       \A i, j \in Vocab : i < j =>
          \/ l[order[i]] > l[order[j]]
          \/ l[order[i]] = l[order[j]] /\ tie[order[i]] < tie[order[j]]
Maximal(l, S) == {t \in S : \A u \in S : l[u] <= l[t]}

\* Mutant: -1 is not turned into the size of the vocabulary.
TopKAsGiven(row) == row.topK

TopK(row) == IF 0 < row.topK /\ row.topK < VocabSize THEN row.topK ELSE VocabSize

\* What one row of the batch switches on for all of them.
AnyTopK(batch) == \E i \in DOMAIN batch : TopK(batch[i]) < VocabSize
AnyTopP(batch) == \E i \in DOMAIN batch : batch[i].topP < Whole
AnyMinP(batch) == \E i \in DOMAIN batch : batch[i].minP > 0

\* The first m tokens of an order.
Firsts(order, m) == {order[j] : j \in 1 .. m}

\* The ranks whose preceding mass is so near to top_p that cumsum - probs may come
\* out on either side of it.
Undecided(row, order) ==
    LET l == Scaled(row)
        whole == Mass(l, Vocab)
        Preceding(k) == Mass(l, Firsts(order, k - 1)) * Whole
    IN  {k \in Vocab : (row.topP - 1) * whole < Preceding(k) /\ Preceding(k) < (row.topP + 1) * whole}

\* The mass before the token of rank k has reached top_p.
DropsByMass(row, sort, k) ==
    LET l == Scaled(row)
    IN  \/ Mass(l, Firsts(sort.scaled, k - 1)) * Whole >= (row.topP + 1) * Mass(l, Vocab)
        \/ k \in sort.rounded

\* _filter, for one row of the batch.
Kept(batch, row, sort) ==
    LET l == Scaled(row)
        sorted == AnyTopK(batch) \/ AnyTopP(batch)
        cut == {sort.scaled[k] : k \in {i \in Vocab :
                   /\ i <= TopK(row)
                   /\ AnyTopP(batch) => ~DropsByMass(row, sort, i)}}
        left == IF sorted THEN cut ELSE Vocab
    IN  IF AnyMinP(batch)
        THEN {t \in left : \A u \in left : Weight(l, t) * Whole >= row.minP * Weight(l, u)}
        ELSE left

\* Mutant: every row gets as many top logprobs as the largest of the batch.
TopLogprobsUnsliced(batch, row, order) ==
    IF row.logprobs = NoLogprobs THEN NoTop
    ELSE {order[k] : k \in 1 .. Max({0} \cup {batch[i].logprobs : i \in DOMAIN batch})}

\* _logprobs: topk for the largest count asked for, cut to the row's own.
TopLogprobs(batch, row, order) ==
    IF row.logprobs = NoLogprobs THEN NoTop ELSE {order[k] : k \in 1 .. row.logprobs}

FastPath(batch) ==
    \A i \in DOMAIN batch :
       Greedy(batch[i]) /\ batch[i].logprobs = NoLogprobs /\ ~NeedsPenalties(batch[i])

\* _pick: argmax for a greedy row; otherwise the noise decides, the request's own or
\* the engine's.
Pick(row, kept) ==
    IF Greedy(row) THEN [tokens |-> Maximal(Scaled(row), kept), noise |-> "none"]
    ELSE [tokens |-> kept, noise |-> IF row.seeded THEN "own" ELSE "engine"]

\* sample, for one row: the tokens it may get, whose noise decides, and the
\* tokens its logprobs name.
SampleRow(batch, row, sort) ==
    IF FastPath(batch)
    THEN [tokens |-> Maximal(row.logits, Vocab), noise |-> "none", top |-> NoTop]
    ELSE LET picked == Pick(row, Kept(batch, row, sort))
         IN  [tokens |-> picked.tokens, noise |-> picked.noise,
              top |-> TopLogprobs(batch, row, sort.raw)]

SamplerInit == rows = << >> /\ sorts = << >> /\ result = << >>

Sample ==
    /\ rows = << >>
    /\ rows' \in SampledRows
    /\ \E tie \in Orders :
          LET order == [i \in DOMAIN rows' |-> Sorted(Scaled(rows'[i]), tie)]
              near == UNION {{i} \X Undecided(rows'[i], order[i]) : i \in DOMAIN rows'}
          IN  \E reached \in SUBSET near :
                 sorts' = [i \in DOMAIN rows' |->
                             [raw |-> Sorted(rows'[i].logits, tie), scaled |-> order[i],
                              rounded |-> {k \in Vocab : <<i, k>> \in reached}]]
    /\ result' = [i \in DOMAIN rows' |-> SampleRow(rows', rows'[i], sorts'[i])]

SamplerSpec == SamplerInit /\ [][Sample]_samplerVars

-----------------------------------------------------------------------------

\* What the filters leave is what top-k, top-p and min-p mean together, stated
\* without a sort: a token is left when fewer than k and less than p of the mass
\* are above it and it is within min_p of the top; it is dropped only when k
\* others or p of the mass are level with it or above, or for min_p; p give or
\* take the rounding.  So some token is always left ("keeps at least the top
\* token", sampler.py:133), never more than k, and a greedy row gets a maximal one
\* under any filter.
FilterIsNucleus ==
    \A i \in DOMAIN result :
       LET row == rows[i]
           l == Scaled(row)
           kept == result[i].tokens
           Above(t) == {u \in Vocab : l[u] > l[t]}
           Level(t) == {u \in Vocab \ {t} : l[u] >= l[t]}
           Exceeds(S) == Mass(l, S) * Whole >= (row.topP + 1) * Mass(l, Vocab)
           Nears(S) == Mass(l, S) * Whole > (row.topP - 1) * Mass(l, Vocab)
           NearTop(t) == \A u \in Vocab : Weight(l, t) * Whole >= row.minP * Weight(l, u)
       IN  /\ kept # {}
           /\ Greedy(row) => kept \subseteq Maximal(l, Vocab)
           /\ ~Greedy(row) =>
              /\ Cardinality(kept) <= TopK(row)
              /\ \A t \in kept : Cardinality(Above(t)) < TopK(row) /\ ~Exceeds(Above(t)) /\ NearTop(t)
              /\ \A t \in Vocab \ kept :
                    Cardinality(Level(t)) >= TopK(row) \/ Nears(Level(t)) \/ ~NearTop(t)

\* What the rows beside it cost a row: their filters, penalties and logprobs switch
\* work on for the whole tensor, and must change nothing in it but for the rounding.
\* A row takes its own noise and logprobs, and its tokens are those it would get
\* alone, except that a row without a top_p of its own may lose, to a neighbour's,
\* a tail that weighs less than the rounding (sampler.py:8-10, 126-135).
NeighboursTakeOnlyRounding ==
    \A i \in DOMAIN result :
       LET row == rows[i]
           l == Scaled(row)
           alone == SampleRow(<<row>>, row, sorts[i])
           lost == alone.tokens \ result[i].tokens
       IN  /\ result[i].noise = alone.noise
           /\ result[i].top = alone.top
           /\ result[i].tokens \subseteq alone.tokens
           /\ ~Greedy(row) =>
              /\ row.topP < Whole => lost = {}
              /\ Mass(l, lost) * Whole < Mass(l, Vocab)
=============================================================================
