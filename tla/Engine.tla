-------------------------------- MODULE Engine --------------------------------
(***************************************************************************)
(* The engine step: the scheduler's output executed by the model runner    *)
(* (inferneo/engine/engine.py, inferneo/executor/torch_runner.py, with the *)
(* paged KV memory of inferneo/attention/sdpa_backend.py and the seeded    *)
(* draws of inferneo/sampling/sampler.py).                                 *)
(*                                                                         *)
(* The runner keeps its own copy of every resident request and the tensors *)
(* behind the block ids.  The key/value of a token depends on the tokens   *)
(* up to and including it, so a slot holds that prefix; what the forward   *)
(* pass computes is right when every slot it reads holds the prefix its    *)
(* request has at that position.                                           *)
(*                                                                         *)
(* What is fed at a position is a row: the embedding of a token, or of a   *)
(* patch of an image.  The prompt of a request with an image holds the     *)
(* same placeholder token for every patch of every image (inferneo/inputs),*)
(* and its rows go straight to the runner, past the scheduler.             *)
(***************************************************************************)
EXTENDS Scheduler

CONSTANTS
    ImageToken,     \* the <image> placeholder token
    Image,          \* the images requests come with
    NoImage         \* a request of text

\* A row is a token's embedding or a patch of an image, and never both.
ASSUME ImageAssumption == Image \cap Token = {} /\ NoImage \notin Image

VARIABLES
    image,      \* the image a request was submitted with (ghost: the engine forgets it)
    embeds,     \* TorchModelRunner._prompt_embeds: the rows of the prompt
    resident,   \* TorchModelRunner._states: the token ids of resident requests
    draws,      \* draws made from the request's seeded generator since it was seeded
    kv          \* kv_caches: what each slot of each block holds

runnerVars == <<image, embeds, resident, draws, kv>>
engineVars == <<vars, runnerVars>>

NoState == << >>    \* a resident request has at least one token once executed
NoEmbeds == << >>   \* a prompt has at least one row
Row == Token \cup Image

EngineTypeOK ==
    /\ TypeOK
    /\ image \in [Request -> Image \cup {NoImage}]
    /\ embeds \in [Request -> Seq(Row)]
    /\ resident \in [Request -> Seq(Token)]
    /\ draws \in [Request -> Nat]
    /\ kv \in [Block -> [0 .. BlockSize - 1 -> Seq(Row)]]

EngineInit ==
    /\ Init
    /\ image = [r \in Request |-> NoImage]
    /\ embeds = [r \in Request |-> NoEmbeds]
    /\ resident = [r \in Request |-> NoState]
    /\ draws = [r \in Request |-> 0]
    /\ kv = [b \in Block |-> [o \in 0 .. BlockSize - 1 |-> << >>]]

-----------------------------------------------------------------------------

\* The rows of a token sequence with its placeholders spliced.
Splice(seq, im) == [i \in DOMAIN seq |-> IF seq[i] = ImageToken THEN im ELSE seq[i]]

\* add_request: the rows of an image prompt are set before the request is queued.
\* LLM and the server submit images under fresh ids.
Submit(r) ==
    \E prompt \in Prompts, p \in Params, prio \in Priorities :
       /\ AddRequest(r, prompt, p, prio)
       /\ IF ImageToken \in Range(prompt)
          THEN /\ status[r] = "NONE"
               /\ \E im \in Image : /\ image' = [image EXCEPT ![r] = im]
                                    /\ embeds' = [embeds EXCEPT ![r] = Splice(prompt, im)]
          ELSE image' = [image EXCEPT ![r] = NoImage] /\ UNCHANGED embeds
       /\ UNCHANGED <<resident, draws, kv>>

\* The row a request should see at its i-th token.
OwnRow(r, i) ==
    IF i <= info[r].promptLen /\ tokens[r][i] = ImageToken /\ image[r] # NoImage
    THEN image[r] ELSE tokens[r][i]
OwnRows(r, n) == [i \in 1 .. n |-> OwnRow(r, i)]

\* The slot of a position: bt[pos // bs] * bs + pos % bs.
BlockAt(blocks, pos) == blocks[pos \div BlockSize + 1]

\* Mutant: the first position of a chunk is skipped.
WritesLate(s, b, o) ==
    \E pos \in s.start + 1 .. s.start + s.num - 1 : BlockAt(s.blocks, pos) = b /\ pos % BlockSize = o

\* The entry of `scheduled` that writes a slot in this step, if any.
Writes(s, b, o) ==
    \E pos \in s.start .. s.start + s.num - 1 : BlockAt(s.blocks, pos) = b /\ pos % BlockSize = o

Entries == Range(scheduled)
EntryOf(r) == CHOOSE s \in Entries : s.id = r
InStep(r) == \E s \in Entries : s.id = r

\* Every request advances one token and samples: a captured graph may replay.
PureDecode == \A s \in Entries : s.doSample /\ s.num = 1

Dropped == finishedIds \cup preempted

\* Mutant: a preempted request loses its rows like a finished one.
EmbedsDroppedWithState == Dropped

EmbedsDropped == finishedIds

\* The rows the runner still has when it builds the batch.
EmbedsKept(r) == IF r \in EmbedsDropped THEN NoEmbeds ELSE embeds[r]

\* _build_embeds: the row of the prompt, while the chunk is in the prompt.
FedEagerly(s, i) ==
    IF i <= Len(EmbedsKept(s.id)) THEN EmbedsKept(s.id)[i] ELSE tokens[s.id][i]

\* A graph is fed token ids only.
Fed(s, i, graph) == IF graph THEN tokens[s.id][i] ELSE FedEagerly(s, i)

\* The rows up to the position that the entry computes in slot o of block b.
WrittenPrefix(s, b, o, graph) ==
    LET pos == CHOOSE p \in s.start .. s.start + s.num - 1 :
                  BlockAt(s.blocks, p) = b /\ p % BlockSize = o
    IN  [i \in 1 .. pos + 1 |-> IF i <= s.start THEN OwnRow(s.id, i) ELSE Fed(s, i, graph)]

\* Mutant: an admitted request is not rebuilt from its cached prefix.
KnownStale(s) == resident[s.id]

\* What the runner knows of an entry before its chunk: a newly admitted request
\* is rebuilt from the cached prefix it comes with.
KnownTokens(s) == IF s.isNew THEN SubSeq(tokens[s.id], 1, s.start) ELSE resident[s.id]

\* Draws already made: a newly admitted request gets a freshly seeded generator.
DrawsBefore(s) == IF s.isNew THEN 0 ELSE draws[s.id]

\* execute: the state of finished and preempted requests is dropped (the rows of
\* the prompt only when finished), every entry is extended by its chunk, the
\* forward pass writes the chunk's slots, and every sampled row takes one draw
\* from its own generator.
Execute ==
    /\ embeds' = [r \in Request |-> EmbedsKept(r)]
    /\ UNCHANGED image
    /\ resident' = [r \in Request |->
          IF InStep(r)
          THEN LET s == EntryOf(r)
               IN  KnownTokens(s) \o SubSeq(tokens[r], s.start + 1, s.start + s.num)
          ELSE IF r \in Dropped THEN NoState ELSE resident[r]]
    /\ draws' = [r \in Request |->
          IF InStep(r)
          THEN LET s == EntryOf(r) IN DrawsBefore(s) + (IF s.doSample THEN 1 ELSE 0)
          ELSE IF r \in Dropped THEN 0 ELSE draws[r]]
    /\ \E graph \in {FALSE} \cup {PureDecode} :
          kv' = [b \in Block |-> [o \in 0 .. BlockSize - 1 |->
             IF \E s \in Entries : Writes(s, b, o)
             THEN LET s == CHOOSE s \in Entries : Writes(s, b, o)
                  IN  WrittenPrefix(s, b, o, graph)
             ELSE kv[b][o]]]

\* step(): nothing scheduled and nothing finished returns before execute, and
\* then the preempted ids never reach the runner.
ExecuteStep ==
    /\ StartUpdate
    /\ IF scheduled = << >> /\ finishedIds = {} THEN UNCHANGED runnerVars ELSE Execute

EngineStep ==
    \/ ExecuteStep
    \/ (ScheduleNext \/ UpdateNext \/ ManagerStep) /\ UNCHANGED runnerVars

EngineModelNext ==
    \/ EngineStep
    \/ \E r \in Request : Submit(r) \/ (Abort(r) /\ UNCHANGED runnerVars)

EngineSpec == EngineInit /\ [][EngineModelNext]_engineVars

-----------------------------------------------------------------------------
(* What the engine promises. *)

\* The assert of execute ("runner out of sync"): the runner's copy of a request
\* that goes on is exactly the tokens the scheduler counts as computed, through
\* preemption, resumption, abort and reuse of the id.
RunnerInSync ==
    phase = "scheduled" /\ Settled =>
       \A s \in Entries : ~s.isNew => resident[s.id] = SubSeq(tokens[s.id], 1, s.start)

\* The forward pass reads only valid keys and values: after a step every
\* position of every request in it, computed now, earlier, or by another
\* request with the same prefix, holds that request's own rows up to there:
\* its text and its image, in chunks, after a preemption, and in a graph replay
\* ("equal hashes mean equal full prefixes", hashing.py:4-5).
ReadsOwnPrefix ==
    phase = "update" /\ idx = 1 =>
       \A s \in Entries : \A pos \in 0 .. s.start + s.num - 1 :
          kv[BlockAt(s.blocks, pos)][pos % BlockSize] = OwnRows(s.id, pos + 1)

\* A label in the prefix index is never wrong about the memory: between steps
\* every cached block, in use or parked, holds the content its hash names, an image
\* row standing where the hash has a placeholder.
CachedContentIsValid ==
    phase = "idle" =>
       \A h \in Hash : cached[h] # NoBlock =>
          \A o \in 0 .. BlockSize - 1 :
             LET rows == kv[cached[h]][o]
             IN  [i \in DOMAIN rows |-> IF rows[i] \in Image THEN ImageToken ELSE rows[i]]
                    = SubSeq(h, 1, Len(h) - BlockSize + o + 1)

\* No two entries of a step write the same slot.
WritesAreDisjoint ==
    phase = "scheduled" /\ Settled =>
       \A s, t \in Entries : s # t =>
          \A b \in Block, o \in 0 .. BlockSize - 1 : ~(Writes(s, b, o) /\ Writes(t, b, o))

\* The runner keeps nothing for a finished request beyond the notice it is about
\* to get.
NoResidentLeak ==
    \A r \in Request :
       ~IsLive(r) /\ (resident[r] # NoState \/ embeds[r] # NoEmbeds) =>
          r \in newlyFinished \cup finishedIds

\* "Lets a seeded request reproduce its own noise row independently of the rest
\* of the batch" (sampler.py:10): the n-th output token of a request takes the
\* n-th draw of its generator.
SeededDrawIsReproducible ==
    phase = "update" /\ idx = 1 =>
       \A s \in Entries : IsLive(s.id) /\ s.doSample =>
          draws[s.id] = NumOutputTokens(s.id) + 1
=============================================================================
