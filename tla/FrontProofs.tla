----------------------------- MODULE FrontProofs ------------------------------
(***************************************************************************)
(* Theorems about what surrounds the engine: LLM.generate for batches of   *)
(* any size, a call of the server for any requests and outputs, and the    *)
(* snapshots of the statistics for any records, window and clock.          *)
(***************************************************************************)
EXTENDS OfflineLLM, ApiServer, StatsCollector, SequenceLemmas

-----------------------------------------------------------------------------
(* The offline front. *)

LLMTypeOK ==
    /\ llmPc \in {"idle", "adding", "stepping", "returned", "raised"}
    /\ calls \in Nat
    /\ lastId \in Nat
    /\ prompts \in Seq(BOOLEAN)
    /\ order \in Seq(Nat)
    /\ finished \in Seq(Nat)
    /\ live \in SUBSET Nat
    /\ inherited \in SUBSET Nat

\* Ids are fresh, and none is in two places.
IdsInv ==
    /\ IsInjective(order)
    /\ IsInjective(finished)
    /\ \A id \in Range(order) \cup live \cup inherited : id <= lastId
    /\ inherited \cap Range(order) = {}
    /\ live \cap Range(finished) = {}

\* Where a call is, and where its requests and the inherited ones are.
BatchInv ==
    /\ llmPc = "adding" => finished = << >> /\ Len(order) <= Len(prompts)
    /\ llmPc = "stepping" => Len(order) = Len(prompts)
    /\ llmPc \in {"adding", "stepping"} => live \cup Range(finished) = inherited \cup Range(order)

LLMInv == LLMTypeOK /\ IdsInv /\ BatchInv /\ BatchReturnsItsResults

LEMMA EmptySequence == \A S : << >> \in Seq(S) /\ Len(<< >>) = 0 /\ Range(<< >>) = {} /\ IsInjective(<< >>)
BY DEF Range, IsInjective

LEMMA LLMInitInv == LLMInit => LLMInv
<1> SUFFICES ASSUME LLMInit PROVE LLMInv
  OBVIOUS
<1>1. LLMTypeOK
  BY EmptySequence DEF LLMInit, LLMTypeOK
<1>2. IdsInv
  BY EmptySequence DEF LLMInit, IdsInv
<1>3. BatchInv /\ BatchReturnsItsResults
  BY DEF LLMInit, BatchInv, BatchReturnsItsResults
<1> QED BY <1>1, <1>2, <1>3 DEF LLMInv

\* A call begins with what is left in the engine.
LEMMA GenerateInv ==
  ASSUME LLMInv, Generate
  PROVE  LLMInv'
<1> USE DEF Generate
<1>1. LLMTypeOK'
  <2>1. prompts' \in Seq(BOOLEAN)
    <3>1. PICK n \in 0 .. MaxPrompts : prompts' \in [1 .. n -> BOOLEAN]
      OBVIOUS
    <3>2. n \in Nat
      BY LLMAssumption
    <3> QED BY <3>1, <3>2
  <2>2. llmPc' \in {"adding", "raised"}
    BY DEF Raise
  <2> QED BY <2>1, <2>2, EmptySequence DEF LLMInv, LLMTypeOK
<1>2. IdsInv'
  BY EmptySequence DEF LLMInv, IdsInv
<1>3. BatchInv'
  <2>1. Len(prompts') \in Nat
    BY <1>1 DEF LLMTypeOK
  <2>2. llmPc' \in {"adding", "raised"}
    BY DEF Raise
  <2> QED BY <2>1, <2>2, EmptySequence DEF BatchInv
<1>4. BatchReturnsItsResults'
  <2>1. llmPc' = "adding" \/ (llmPc' = "raised" /\ raises' = "parameters")
    BY DEF Raise
  <2> QED BY <2>1 DEF BatchReturnsItsResults
<1> QED BY <1>1, <1>2, <1>3, <1>4 DEF LLMInv

LEMMA AddPromptInv ==
  ASSUME LLMInv, AddPrompt
  PROVE  LLMInv'
<1> USE DEF LLMInv
<1>1. CASE prompts[Len(order) + 1]
  <2>1. /\ llmPc = "adding" /\ llmPc' = "adding" /\ Len(order) < Len(prompts)
        /\ lastId' = lastId + 1 /\ order' = Append(order, lastId') /\ live' = live \cup {lastId'}
        /\ UNCHANGED <<calls, prompts, finished, results, inherited>>
    BY <1>1 DEF AddPrompt
  <2>2. lastId \in Nat /\ lastId' \in Nat /\ order \in Seq(Nat) /\ live \in SUBSET Nat
    BY <2>1 DEF LLMTypeOK
  <2>3. lastId' \notin Range(order) /\ lastId' \notin live /\ lastId' \notin inherited
    <3>1. \A id \in Range(order) \cup live \cup inherited : id <= lastId
      BY DEF IdsInv
    <3> QED BY <2>1, <2>2, <3>1
  <2>4. /\ order' \in Seq(Nat) /\ Len(order') = Len(order) + 1
        /\ Range(order') = Range(order) \cup {lastId'}
        /\ IsInjective(order')
    <3>1. /\ Append(order, lastId') \in Seq(Nat)
          /\ Len(Append(order, lastId')) = Len(order) + 1
          /\ Range(Append(order, lastId')) = Range(order) \cup {lastId'}
          /\ IsInjective(order) /\ lastId' \notin Range(order) => IsInjective(Append(order, lastId'))
      BY <2>2, AppendLemma
    <3> QED BY <2>1, <2>3, <3>1 DEF IdsInv
  <2>5. LLMTypeOK'
    BY <2>1, <2>2, <2>4 DEF LLMTypeOK
  <2>6. Range(finished) = {} /\ finished = << >>
    BY <2>1, EmptySequence DEF BatchInv
  <2>7. IdsInv'
    <3>1. \A id \in Range(order)' \cup live' \cup inherited' : id <= lastId'
      <4>1. \A id \in Range(order) \cup live \cup inherited : id \in Nat /\ id <= lastId
        <5>1. \A id \in Range(order) : id \in Nat
          BY <2>2, RangeOfSequence
        <5> QED BY <5>1 DEF IdsInv, LLMTypeOK
      <4> QED BY <2>1, <2>2, <2>4, <4>1
    <3> QED BY <2>1, <2>3, <2>4, <2>6, <3>1 DEF IdsInv
  <2>8. BatchInv'
    <3>1. Len(order) \in Nat /\ Len(prompts) \in Nat
      BY DEF LLMTypeOK
    <3>2. Len(order') <= Len(prompts)
      BY <2>1, <2>4, <3>1
    <3> QED BY <2>1, <2>4, <2>6, <3>2 DEF BatchInv
  <2>9. BatchReturnsItsResults'
    BY <2>1 DEF BatchReturnsItsResults
  <2> QED BY <2>5, <2>7, <2>8, <2>9
<1>2. CASE ~prompts[Len(order) + 1]
  <2>1. /\ llmPc = "adding" /\ llmPc' = "raised" /\ raises' = "prompt"
        /\ UNCHANGED <<lastId, order, live, calls, prompts, finished, results, inherited>>
    BY <1>2 DEF AddPrompt, Raise
  <2>2. LLMTypeOK' /\ IdsInv' /\ BatchInv'
    BY <2>1 DEF LLMTypeOK, IdsInv, BatchInv
  <2>3. live = inherited \cup Range(order)
    BY <2>1, EmptySequence DEF BatchInv
  <2>4. BatchReturnsItsResults'
    BY <2>1, <2>3 DEF BatchReturnsItsResults
  <2> QED BY <2>2, <2>4
<1> QED BY <1>1, <1>2

LEMMA StepEngineInv ==
  ASSUME LLMInv, StepEngine
  PROVE  LLMInv'
<1> USE DEF LLMInv
<1>1. PICK id \in live : live' = live \ {id} /\ finished' = Append(finished, id)
  BY DEF StepEngine
<1>2. /\ llmPc = "stepping" /\ llmPc' = "stepping"
      /\ UNCHANGED <<calls, prompts, order, lastId, results, inherited>>
  BY DEF StepEngine
<1>3. id \in Nat /\ finished \in Seq(Nat) /\ id \notin Range(finished)
  BY DEF LLMTypeOK, IdsInv
<1>4. /\ finished' \in Seq(Nat)
      /\ Range(finished') = Range(finished) \cup {id}
      /\ IsInjective(finished')
  <2>1. /\ Append(finished, id) \in Seq(Nat)
        /\ Range(Append(finished, id)) = Range(finished) \cup {id}
        /\ IsInjective(finished) /\ id \notin Range(finished) => IsInjective(Append(finished, id))
    BY <1>3, AppendLemma
  <2> QED BY <1>1, <1>3, <2>1 DEF IdsInv
<1>5. LLMTypeOK'
  BY <1>1, <1>2, <1>4 DEF LLMTypeOK
<1>6. IdsInv'
  BY <1>1, <1>2, <1>4 DEF IdsInv
<1>7. BatchInv'
  BY <1>1, <1>2, <1>4 DEF BatchInv
<1>8. BatchReturnsItsResults'
  BY <1>2 DEF BatchReturnsItsResults
<1> QED BY <1>5, <1>6, <1>7, <1>8

\* A step that raises leaves the engine what it has.
LEMMA StepRaisesInv ==
  ASSUME LLMInv, StepRaises
  PROVE  LLMInv'
<1> USE DEF LLMInv
<1>1. /\ llmPc = "stepping" /\ live # {} /\ llmPc' = "raised" /\ raises' = "step"
      /\ UNCHANGED <<calls, prompts, order, live, lastId, finished, results, inherited>>
  BY DEF StepRaises, Raise
<1>2. LLMTypeOK' /\ IdsInv' /\ BatchInv'
  BY <1>1 DEF LLMTypeOK, IdsInv, BatchInv
<1>3. live \subseteq inherited \cup Range(order)
  BY <1>1 DEF BatchInv
<1>4. BatchReturnsItsResults'
  BY <1>1, <1>3 DEF BatchReturnsItsResults
<1> QED BY <1>2, <1>4

\* Sorted back, the outputs of a call's own requests are in the order of its prompts.
LEMMA SortedBack ==
  ASSUME LLMTypeOK, IdsInv, Range(finished) = Range(order)
  PROVE  InPromptOrder = order
<1> DEFINE places == DOMAIN finished
           Sorts(q) == \A i, j \in places :
                          i < j => Position(finished[q[i]]) < Position(finished[q[j]])
           p == CHOOSE q \in Bijection(places, places) : Sorts(q)
<1>1. /\ order \in Seq(Nat) /\ finished \in Seq(Nat) /\ IsInjective(order) /\ IsInjective(finished)
      /\ Range(finished) = Range(order)
  BY DEF LLMTypeOK, IdsInv
<1>0. places = 1 .. Len(finished) /\ DOMAIN order = 1 .. Len(order) /\ Len(order) \in Nat
  BY <1>1
<1> HIDE DEF places, Sorts, p
<1>2. Len(finished) = Len(order)
  BY <1>1, SameElements
<1>3. \A k \in 1 .. Len(order) : Position(order[k]) = k
  <2> SUFFICES ASSUME NEW k \in 1 .. Len(order) PROVE Position(order[k]) = k
    OBVIOUS
  <2>1. \A i, j \in 1 .. Len(order) : order[i] = order[j] => i = j
    BY <1>1, InjectiveSequence
  <2> QED BY <1>0, <2>1 DEF Position
<1>4. \E q \in Bijection(places, places) : Sorts(q)
  <2>1. \E q \in Bijection(1 .. Len(finished), 1 .. Len(finished)) :
               \A i \in 1 .. Len(finished) : finished[q[i]] = order[i]
    BY <1>1, SortExists
  <2>2. PICK q \in Bijection(places, places) : \A i \in places : finished[q[i]] = order[i]
    BY <1>0, <2>1
  <2>3. \A i \in places : Position(finished[q[i]]) = i
    BY <1>0, <1>2, <1>3, <2>2
  <2>4. \A i \in places : i \in Int
    BY <1>0, <1>2
  <2>5. Sorts(q)
    BY <2>3, <2>4 DEF Sorts
  <2> QED BY <2>2, <2>5
<1>5. p \in Bijection(places, places) /\ Sorts(p)
  BY <1>4 DEF p
<1>6. InPromptOrder = [i \in places |-> finished[p[i]]]
  BY DEF InPromptOrder, places, p, Sorts
<1>7. p \in Bijection(1 .. Len(finished), 1 .. Len(finished))
  BY <1>0, <1>5
<1>8. \A i, j \in 1 .. Len(finished) : i < j =>
         \A k, l \in 1 .. Len(order) : order[k] = finished[p[i]] /\ order[l] = finished[p[j]] => k < l
  <2> SUFFICES ASSUME NEW i \in 1 .. Len(finished), NEW j \in 1 .. Len(finished), i < j,
                      NEW k \in 1 .. Len(order), NEW l \in 1 .. Len(order),
                      order[k] = finished[p[i]], order[l] = finished[p[j]]
               PROVE  k < l
    OBVIOUS
  <2>1. Position(finished[p[i]]) < Position(finished[p[j]])
    BY <1>0, <1>5 DEF Sorts
  <2>2. Position(finished[p[i]]) = k /\ Position(finished[p[j]]) = l
    BY <1>3
  <2> QED BY <2>1, <2>2
<1>9. \A i \in 1 .. Len(finished) : finished[p[i]] = order[i]
  BY <1>1, <1>7, <1>8, SortByPlace
<1>10. order = [i \in 1 .. Len(order) |-> order[i]]
  BY <1>1
<1> QED BY <1>0, <1>2, <1>6, <1>9, <1>10

LEMMA ReturnResultsInv ==
  ASSUME LLMInv, ReturnResults
  PROVE  LLMInv'
<1> USE DEF LLMInv
<1>1. /\ llmPc = "stepping" /\ live = {} /\ llmPc' \in {"returned", "raised"}
      /\ UNCHANGED <<calls, prompts, order, live, lastId, finished, inherited>>
  BY DEF ReturnResults, Raise
<1>2. LLMTypeOK' /\ IdsInv' /\ BatchInv'
  BY <1>1 DEF LLMTypeOK, IdsInv, BatchInv
<1>3. Range(finished) = inherited \cup Range(order) /\ Len(order) = Len(prompts)
  BY <1>1 DEF BatchInv
<1>4. AllOfThisCall <=> Range(finished) \subseteq Range(order)
  BY DEF AllOfThisCall, Range
<1>5. CASE AllOfThisCall
  <2>1. results' = InPromptOrder /\ llmPc' = "returned"
    BY <1>5 DEF ReturnResults
  <2>2. inherited = {} /\ Range(finished) = Range(order)
    BY <1>3, <1>4, <1>5 DEF IdsInv
  <2>3. InPromptOrder = order
    BY <2>2, SortedBack
  <2> QED BY <1>1, <1>2, <1>3, <2>1, <2>2, <2>3 DEF BatchReturnsItsResults
<1>6. CASE ~AllOfThisCall
  <2>1. llmPc' = "raised" /\ raises' = "key"
    BY <1>6 DEF ReturnResults, Raise
  <2>2. inherited # {}
    BY <1>3, <1>4, <1>6
  <2> QED BY <1>1, <1>2, <2>1, <2>2 DEF BatchReturnsItsResults
<1> QED BY <1>5, <1>6

LEMMA LLMNextInv == LLMInv /\ [LLMNext]_llmVars => LLMInv'
<1> SUFFICES ASSUME LLMInv, [LLMNext]_llmVars PROVE LLMInv'
  OBVIOUS
<1>1. CASE Generate
  BY <1>1, GenerateInv
<1>2. CASE AddPrompt
  BY <1>2, AddPromptInv
<1>3. CASE AllAdded
  <2>1. /\ llmPc = "adding" /\ Len(order) = Len(prompts) /\ llmPc' = "stepping"
        /\ UNCHANGED <<calls, prompts, order, live, lastId, finished, results, inherited>>
    BY <1>3 DEF AllAdded
  <2> QED BY <2>1 DEF LLMInv, LLMTypeOK, IdsInv, BatchInv, BatchReturnsItsResults
<1>4. CASE StepEngine
  BY <1>4, StepEngineInv
<1>5. CASE StepRaises
  BY <1>5, StepRaisesInv
<1>6. CASE ReturnResults
  BY <1>6, ReturnResultsInv
<1>7. CASE UNCHANGED llmVars
  BY <1>7 DEF llmVars, LLMInv, LLMTypeOK, IdsInv, BatchInv, BatchReturnsItsResults, Position
<1> QED BY <1>1, <1>2, <1>3, <1>4, <1>5, <1>6, <1>7 DEF LLMNext

\* A call that returns has one output per prompt of its own, in the order of the
\* prompts, and leaves an empty engine; one that raises, for its parameters, a
\* prompt, a step or an unknown id, leaves the next call exactly what the reason
\* says, and after the unknown id nothing (llm.py, LLM.generate).
THEOREM BatchCorrect == LLMSpec => []BatchReturnsItsResults
<1>1. LLMInv => BatchReturnsItsResults
  BY DEF LLMInv
<1> QED BY <1>1, LLMInitInv, LLMNextInv, PTL DEF LLMSpec

-----------------------------------------------------------------------------
(* The detokenizer. *)

Text == Seq(Char)

LEMMA FlattenOne ==
  ASSUME NEW S, NEW x \in Seq(S)
  PROVE  FlattenSeq(<<x>>) = x /\ FlattenSeq(<< >>) = << >>
<1>1. << >> \in Seq(Seq(S)) /\ Append(<< >>, x) = <<x>>
  OBVIOUS
<1>2. FlattenSeq(<< >>) = << >>
  BY DEF FlattenSeq
<1>3. FlattenSeq(Append(<< >>, x)) = FlattenSeq(<< >>) \o x
  BY <1>1, FlattenAppend
<1>4. << >> \o x = x
  BY ConcatEmpty
<1> QED BY <1>1, <1>2, <1>3, <1>4

\* The bytes of two lists of tokens, one after the other.
LEMMA BytesType ==
  ASSUME NEW s \in Seq(Token)
  PROVE  /\ [i \in DOMAIN s |-> Piece[s[i]]] \in Seq(Text)
         /\ Bytes(s) \in Text
<1> DEFINE pieces == [i \in DOMAIN s |-> Piece[s[i]]]
<1>1. pieces \in Seq(Text)
  <2>1. \A i \in DOMAIN s : Piece[s[i]] \in Text
    BY DetokenizerAssumption DEF Text
  <2>2. DOMAIN s = 1 .. Len(s) /\ Len(s) \in Nat
    OBVIOUS
  <2> QED BY <2>1, <2>2
<1> HIDE DEF pieces
<1>2. << >> \in Text
  BY DEF Text
<1>3. FlattenSeq(pieces) \in Text
  BY <1>1, <1>2, FlattenAppend DEF Text
<1> QED BY <1>1, <1>3 DEF Bytes, pieces

LEMMA BytesConcat ==
  ASSUME NEW s \in Seq(Token), NEW t \in Seq(Token)
  PROVE  Bytes(s \o t) = Bytes(s) \o Bytes(t)
<1> DEFINE P(u) == [i \in DOMAIN u |-> Piece[u[i]]]
           u == s \o t
<1>1. /\ u \in Seq(Token) /\ Len(u) = Len(s) + Len(t) /\ Len(s) \in Nat /\ Len(t) \in Nat
      /\ \A i \in 1 .. Len(s) : u[i] = s[i]
      /\ \A i \in 1 .. Len(t) : u[Len(s) + i] = t[i]
  BY ConcatLemma
<1> HIDE DEF u
<1>2. /\ P(s) \in Seq(Text) /\ P(t) \in Seq(Text) /\ P(u) \in Seq(Text)
  BY <1>1, BytesType
<1>3. /\ Len(P(s)) = Len(s) /\ Len(P(t)) = Len(t) /\ Len(P(u)) = Len(u)
      /\ \A i \in 1 .. Len(s) : P(s)[i] = Piece[s[i]]
      /\ \A i \in 1 .. Len(t) : P(t)[i] = Piece[t[i]]
      /\ \A i \in 1 .. Len(u) : P(u)[i] = Piece[u[i]]
  BY <1>1
<1> HIDE DEF P
<1> DEFINE ps == P(s)
           pt == P(t)
<1>4. /\ ps \in Seq(Text) /\ pt \in Seq(Text) /\ Len(ps) = Len(s) /\ Len(pt) = Len(t)
  BY <1>2, <1>3
<1> HIDE DEF ps, pt
<1>5. /\ ps \o pt \in Seq(Text) /\ Len(ps \o pt) = Len(s) + Len(t)
      /\ \A i \in 1 .. Len(s) : (ps \o pt)[i] = ps[i]
      /\ \A i \in 1 .. Len(t) : (ps \o pt)[Len(s) + i] = pt[i]
  <2>1. /\ ps \o pt \in Seq(Text) /\ Len(ps \o pt) = Len(ps) + Len(pt)
        /\ \A i \in 1 .. Len(ps) : (ps \o pt)[i] = ps[i]
        /\ \A i \in 1 .. Len(pt) : (ps \o pt)[Len(ps) + i] = pt[i]
    <3> DEFINE T == Text
    <3>1. ps \in Seq(T) /\ pt \in Seq(T)
      BY <1>4
    <3> HIDE DEF T
    <3>2. /\ ps \o pt \in Seq(T) /\ Len(ps \o pt) = Len(ps) + Len(pt)
          /\ \A i \in 1 .. Len(ps) : (ps \o pt)[i] = ps[i]
          /\ \A i \in 1 .. Len(pt) : (ps \o pt)[Len(ps) + i] = pt[i]
      BY <3>1
    <3> QED BY <3>2 DEF T
  <2> QED BY <1>4, <2>1, Zenon
<1>6. \A i \in 1 .. Len(u) : P(u)[i] = (ps \o pt)[i]
  <2> SUFFICES ASSUME NEW i \in 1 .. Len(u) PROVE P(u)[i] = (ps \o pt)[i]
    OBVIOUS
  <2>1. CASE i \in 1 .. Len(s)
    BY <1>1, <1>3, <1>5, <2>1, SMTT(40) DEF ps
  <2>2. CASE i \notin 1 .. Len(s)
    <3>1. PICK j \in 1 .. Len(t) : i = Len(s) + j
      <4>1. i - Len(s) \in 1 .. Len(t) /\ i = Len(s) + (i - Len(s))
        BY <1>1, <2>2
      <4> QED BY <4>1
    <3>2. P(u)[i] = Piece[u[i]] /\ u[i] = t[j]
      BY <1>1, <1>3, <3>1
    <3>3. (ps \o pt)[i] = Piece[t[j]]
      BY <1>3, <1>5, <3>1 DEF pt
    <3> QED BY <3>2, <3>3
  <2> QED BY <2>1, <2>2
<1>7. P(u) = ps \o pt
  BY <1>1, <1>2, <1>3, <1>5, <1>6, SameSequence
<1>8. FlattenSeq(ps \o pt) = FlattenSeq(ps) \o FlattenSeq(pt)
  BY <1>4, FlattenConcat DEF Text
<1> QED BY <1>7, <1>8 DEF Bytes, P, ps, pt, u

\* What a byte is decoded to depends on the byte before it and the one after it.
LEMMA CharAtType ==
  ASSUME NEW b \in Text, NEW i \in 1 .. Len(b)
  PROVE  CharAt(b, i) \in Text
<1>1. b[i] \in Char
  BY DEF Text
<1>2. /\ <<"joined">> \in Text /\ << >> \in Text /\ <<Broken>> \in Text
      /\ <<b[i]>> \in Text
  <2>1. "joined" \in Char /\ Broken \in Char
    BY DetokenizerAssumption
  <2>2. \A x \in Char : <<x>> \in Seq(Char)
    OBVIOUS
  <2> QED BY <1>1, <2>1, <2>2 DEF Text
<1> HIDE DEF Text, Broken
<1>3. CASE Joined(b, i)
  BY <1>2, <1>3 DEF CharAt
<1>4. CASE ~Joined(b, i) /\ Joined(b, i - 1)
  BY <1>2, <1>4 DEF CharAt
<1>5. CASE ~Joined(b, i) /\ ~Joined(b, i - 1) /\ b[i] \in {"lead", "cont"}
  BY <1>2, <1>5 DEF CharAt
<1>6. CASE ~Joined(b, i) /\ ~Joined(b, i - 1) /\ b[i] \notin {"lead", "cont"}
  BY <1>2, <1>6 DEF CharAt
<1> QED BY <1>3, <1>4, <1>5, <1>6

LEMMA CharsType ==
  ASSUME NEW b \in Text
  PROVE  /\ [i \in DOMAIN b |-> CharAt(b, i)] \in Seq(Text)
         /\ Chars(b) \in Text
<1> DEFINE chars == [i \in DOMAIN b |-> CharAt(b, i)]
<1>1. chars \in Seq(Text)
  <2>1. DOMAIN b = 1 .. Len(b) /\ Len(b) \in Nat
    BY DEF Text
  <2>2. \A i \in 1 .. Len(b) : CharAt(b, i) \in Text
    BY CharAtType
  <2> QED BY <2>1, <2>2
<1> HIDE DEF chars
<1>2. << >> \in Text
  BY DEF Text
<1>3. FlattenSeq(chars) \in Text
  BY <1>1, <1>2, FlattenAppend DEF Text
<1> QED BY <1>1, <1>3 DEF Chars, chars

\* Bytes whose first part does not end in the middle of a character decode part
\* by part.
LEMMA CharsConcat ==
  ASSUME NEW a \in Text, NEW b \in Text,
         a # << >> => a[Len(a)] # "lead"
  PROVE  Chars(a \o b) = Chars(a) \o Chars(b)
<1> DEFINE C(u) == [i \in DOMAIN u |-> CharAt(u, i)]
           u == a \o b
<1>1. /\ u \in Text /\ Len(u) = Len(a) + Len(b) /\ Len(a) \in Nat /\ Len(b) \in Nat
      /\ \A i \in 1 .. Len(a) : u[i] = a[i]
      /\ \A i \in 1 .. Len(b) : u[Len(a) + i] = b[i]
  BY ConcatLemma DEF Text
<1> HIDE DEF u
<1>2. a # << >> <=> Len(a) # 0
  BY DEF Text
<1>3. /\ C(a) \in Seq(Text) /\ C(b) \in Seq(Text) /\ C(u) \in Seq(Text)
  BY <1>1, CharsType
<1>4. /\ Len(C(a)) = Len(a) /\ Len(C(b)) = Len(b) /\ Len(C(u)) = Len(u)
      /\ \A i \in 1 .. Len(a) : C(a)[i] = CharAt(a, i)
      /\ \A i \in 1 .. Len(b) : C(b)[i] = CharAt(b, i)
      /\ \A i \in 1 .. Len(u) : C(u)[i] = CharAt(u, i)
  BY <1>1 DEF Text
<1>5. ASSUME NEW i \in 0 .. Len(a) PROVE Joined(u, i) <=> Joined(a, i)
  <2>1. CASE i = Len(a)
    BY <1>1, <1>2, <2>1 DEF Joined
  <2>2. CASE i < Len(a)
    BY <1>1, <2>2 DEF Joined
  <2> QED BY <1>1, <2>1, <2>2
<1>6. ASSUME NEW i \in 0 .. Len(b) PROVE Joined(u, Len(a) + i) <=> Joined(b, i)
  <2>1. CASE i = 0
    <3>1. ~Joined(b, i)
      BY <2>1 DEF Joined
    <3>2. ~Joined(u, Len(a))
      BY <1>1, <1>2 DEF Joined
    <3> QED BY <1>1, <2>1, <3>1, <3>2
  <2>2. CASE i # 0
    <3>1. i \in 1 .. Len(b) /\ u[Len(a) + i] = b[i]
      BY <1>1, <2>2
    <3>2. Len(a) + i \in 1 .. Len(u) - 1 <=> i \in 1 .. Len(b) - 1
      BY <1>1, <2>2
    <3>3. i \in 1 .. Len(b) - 1 => u[Len(a) + i + 1] = b[i + 1]
      <4> SUFFICES ASSUME i \in 1 .. Len(b) - 1 PROVE u[Len(a) + i + 1] = b[i + 1]
        OBVIOUS
      <4> DEFINE j == i + 1
      <4>1. j \in 1 .. Len(b) /\ Len(a) + i + 1 = Len(a) + j
        BY <1>1
      <4> HIDE DEF j
      <4>2. u[Len(a) + j] = b[j]
        BY <1>1, <4>1
      <4> QED BY <4>1, <4>2 DEF j
    <3> QED BY <3>1, <3>2, <3>3 DEF Joined
  <2> QED BY <2>1, <2>2
<1>7. ASSUME NEW i \in 1 .. Len(a) PROVE CharAt(u, i) = CharAt(a, i)
  <2>1. i \in 0 .. Len(a) /\ i - 1 \in 0 .. Len(a) /\ u[i] = a[i]
    BY <1>1
  <2>2. (Joined(u, i) <=> Joined(a, i)) /\ (Joined(u, i - 1) <=> Joined(a, i - 1))
    BY <1>5, <2>1
  <2> QED BY <2>1, <2>2 DEF CharAt
<1>8. ASSUME NEW i \in 1 .. Len(b) PROVE CharAt(u, Len(a) + i) = CharAt(b, i)
  <2>1. i \in 0 .. Len(b) /\ i - 1 \in 0 .. Len(b) /\ u[Len(a) + i] = b[i]
        /\ Len(a) + i - 1 = Len(a) + (i - 1)
    BY <1>1
  <2>2. (Joined(u, Len(a) + i) <=> Joined(b, i)) /\ (Joined(u, Len(a) + (i - 1)) <=> Joined(b, i - 1))
    BY <1>6, <2>1
  <2> QED BY <2>1, <2>2 DEF CharAt
<1> HIDE DEF C
<1> DEFINE ca == C(a)
           cb == C(b)
<1>9. /\ ca \in Seq(Text) /\ cb \in Seq(Text) /\ Len(ca) = Len(a) /\ Len(cb) = Len(b)
  BY <1>3, <1>4
<1> HIDE DEF ca, cb
<1>10. /\ ca \o cb \in Seq(Text) /\ Len(ca \o cb) = Len(a) + Len(b)
       /\ \A i \in 1 .. Len(a) : (ca \o cb)[i] = ca[i]
       /\ \A i \in 1 .. Len(b) : (ca \o cb)[Len(a) + i] = cb[i]
  <2>1. /\ ca \o cb \in Seq(Text) /\ Len(ca \o cb) = Len(ca) + Len(cb)
        /\ \A i \in 1 .. Len(ca) : (ca \o cb)[i] = ca[i]
        /\ \A i \in 1 .. Len(cb) : (ca \o cb)[Len(ca) + i] = cb[i]
    BY <1>9
  <2> QED BY <1>9, <2>1, Zenon
<1>11. \A i \in 1 .. Len(u) : C(u)[i] = (ca \o cb)[i]
  <2> SUFFICES ASSUME NEW i \in 1 .. Len(u) PROVE C(u)[i] = (ca \o cb)[i]
    OBVIOUS
  <2>1. CASE i \in 1 .. Len(a)
    BY <1>4, <1>7, <1>10, <2>1 DEF ca
  <2>2. CASE i \notin 1 .. Len(a)
    <3>1. PICK j \in 1 .. Len(b) : i = Len(a) + j
      <4>1. i - Len(a) \in 1 .. Len(b) /\ i = Len(a) + (i - Len(a))
        BY <1>1, <2>2
      <4> QED BY <4>1
    <3>2. C(u)[i] = CharAt(b, j)
      BY <1>4, <1>8, <3>1
    <3>3. (ca \o cb)[i] = CharAt(b, j)
      BY <1>4, <1>10, <3>1 DEF cb
    <3> QED BY <3>2, <3>3
  <2> QED BY <2>1, <2>2
<1>12. C(u) = ca \o cb
  <2> DEFINE cu == C(u)
             v == ca \o cb
  <2>1. cu \in Seq(Text) /\ v \in Seq(Text) /\ Len(cu) = Len(v) /\ \A i \in 1 .. Len(cu) : cu[i] = v[i]
    BY <1>1, <1>3, <1>4, <1>10, <1>11
  <2> HIDE DEF cu, v
  <2>2. cu = v
    BY <2>1, SameSequence
  <2> QED BY <2>2 DEF cu, v
<1>13. FlattenSeq(ca \o cb) = FlattenSeq(ca) \o FlattenSeq(cb)
  BY <1>9, FlattenConcat DEF Text
<1> QED BY <1>12, <1>13 DEF Chars, C, ca, cb, u

LEMMA FlattenLast ==
  ASSUME NEW S, NEW s \in Seq(Seq(S)), s # << >>
  PROVE  \E t \in Seq(S) : FlattenSeq(s) = t \o s[Len(s)]
<1> DEFINE T == Seq(S)
           n == Len(s) - 1
<1>1. s \in Seq(T) /\ n \in Nat /\ n < Len(s) /\ n + 1 = Len(s)
  OBVIOUS
<1> HIDE DEF T, n
<1>2. /\ SubSeq(s, 1, n) \in Seq(T) /\ SubSeq(s, 1, n + 1) = Append(SubSeq(s, 1, n), s[n + 1])
      /\ SubSeq(s, 1, Len(s)) = s
  BY <1>1, TakeOneMore
<1> DEFINE u == SubSeq(s, 1, n)
           x == s[n + 1]
<1>3. u \in Seq(T) /\ s = Append(u, x) /\ x \in T
  BY <1>1, <1>2
<1> HIDE DEF u, x
<1>4. FlattenSeq(u) \in Seq(S) /\ FlattenSeq(Append(u, x)) = FlattenSeq(u) \o x
  BY <1>3, FlattenAppend DEF T
<1> QED BY <1>1, <1>3, <1>4 DEF x

LEMMA FlattenFirst ==
  ASSUME NEW S, NEW s \in Seq(Seq(S)), s # << >>
  PROVE  \E t \in Seq(S) : FlattenSeq(s) = s[1] \o t
<1> DEFINE T == Seq(S)
           x == s[1]
           u == Tail(s)
<1>1. s \in Seq(T) /\ x \in T /\ u \in Seq(T)
  OBVIOUS
<1>2. <<x>> \o u = s
  <2>1. <<x>> \in Seq(T) /\ Len(<<x>>) = 1 /\ <<x>>[1] = x
    BY <1>1
  <2>2. Len(u) = Len(s) - 1 /\ \A i \in 1 .. Len(s) - 1 : u[i] = s[i + 1]
    OBVIOUS
  <2> DEFINE v == <<x>>
  <2>3. v \in Seq(T) /\ Len(v) = 1 /\ v[1] = s[1] /\ Len(s) \in Nat \ {0}
    BY <2>1
  <2> HIDE DEF v, u, T
  <2> DEFINE w == v \o u
  <2>4. /\ w \in Seq(T) /\ Len(w) = Len(v) + Len(u)
        /\ \A i \in 1 .. Len(v) : w[i] = v[i]
        /\ \A i \in 1 .. Len(u) : w[Len(v) + i] = u[i]
    <3>1. \A y, z \in Seq(T) :
             /\ y \o z \in Seq(T) /\ Len(y \o z) = Len(y) + Len(z)
             /\ \A i \in 1 .. Len(y) : (y \o z)[i] = y[i]
             /\ \A i \in 1 .. Len(z) : (y \o z)[Len(y) + i] = z[i]
      OBVIOUS
    <3> QED BY <1>1, <2>3, <3>1
  <2> HIDE DEF w
  <2>5. ASSUME NEW i \in 1 .. Len(s) PROVE w[i] = s[i]
    <3>1. CASE i = 1
      BY <2>3, <2>4, <3>1
    <3>2. CASE i # 1
      <4>1. PICK j \in 1 .. Len(s) - 1 : i = 1 + j /\ i = j + 1
        <5>1. i - 1 \in 1 .. Len(s) - 1 /\ i = 1 + (i - 1) /\ i = (i - 1) + 1
          BY <2>3, <3>2
        <5> QED BY <5>1
      <4>2. w[i] = u[j] /\ u[j] = s[j + 1]
        BY <2>2, <2>3, <2>4, <4>1
      <4> QED BY <4>1, <4>2
    <3> QED BY <3>1, <3>2
  <2>7. Len(w) = Len(s)
    BY <2>2, <2>3, <2>4
  <2>6. v \o u = s
    BY <1>1, <2>4, <2>5, <2>7, SameSequence DEF w
  <2> QED BY <2>6 DEF v
<1>3. FlattenSeq(<<x>>) = x
  BY <1>1, FlattenOne
<1>4. <<x>> \in Seq(Seq(S)) /\ u \in Seq(Seq(S))
  BY <1>1
<1> HIDE DEF u, x
<1>5. FlattenSeq(<<x>> \o u) = FlattenSeq(<<x>>) \o FlattenSeq(u)
  <2> DEFINE v == <<x>>
  <2>1. v \in Seq(Seq(S))
    BY <1>4
  <2> HIDE DEF v
  <2>2. FlattenSeq(v \o u) = FlattenSeq(v) \o FlattenSeq(u)
    BY <1>4, <2>1, FlattenConcat
  <2> QED BY <2>2 DEF v
<1>6. FlattenSeq(u) \in Seq(S)
  <2>1. << >> \in Seq(S)
    OBVIOUS
  <2> QED BY <1>4, <2>1, FlattenAppend
<1> QED BY <1>2, <1>3, <1>5, <1>6 DEF x

LEMMA TextEnd ==
  ASSUME NEW t \in Text, NEW x \in Text
  PROVE  /\ t \o x \in Text
         /\ x # << >> => (EndsBroken(t \o x) <=> EndsBroken(x))
         /\ t # << >> \/ x # << >> => t \o x # << >>
         /\ IsPrefix(t, t \o x)
         /\ SubSeq(t \o x, Len(t) + 1, Len(t \o x)) = x
         /\ Len(t \o x) <= Len(t) <=> x = << >>
         /\ x = << >> => t \o x = t
<1> DEFINE u == t \o x
<1>1. /\ u \in Text /\ Len(u) = Len(t) + Len(x) /\ Len(t) \in Nat /\ Len(x) \in Nat
      /\ \A i \in 1 .. Len(t) : u[i] = t[i]
      /\ \A i \in 1 .. Len(x) : u[Len(t) + i] = x[i]
  BY ConcatLemma DEF Text
<1> HIDE DEF u
<1>2. \A v \in Text : v = << >> <=> Len(v) = 0
  BY DEF Text
<1>3. x # << >> => (EndsBroken(u) <=> EndsBroken(x))
  BY <1>1, <1>2 DEF EndsBroken, Last
<1>4. IsPrefix(t, u)
  <2> DEFINE a == SubSeq(t, 1, Len(t))
             b == SubSeq(u, 1, Len(t))
  <2>1. /\ a \in Text /\ Len(a) = Len(t) /\ \A i \in 1 .. Len(t) : a[i] = t[i]
        /\ b \in Text /\ Len(b) = Len(t) /\ \A i \in 1 .. Len(t) : b[i] = u[i]
    BY <1>1 DEF Text
  <2> HIDE DEF a, b
  <2>2. \A i \in 1 .. Len(a) : a[i] = b[i]
    BY <1>1, <2>1
  <2>3. a = b
    BY <2>1, <2>2, SameSequence DEF Text
  <2> QED BY <1>1, <2>3 DEF IsPrefix, a, b
<1>5. SubSeq(u, Len(t) + 1, Len(u)) = x
  <2> DEFINE a == SubSeq(u, Len(t) + 1, Len(u))
  <2>1. /\ a \in Text /\ Len(a) = Len(x) /\ \A i \in 1 .. Len(x) : a[i] = u[Len(t) + i]
    BY <1>1 DEF Text
  <2> HIDE DEF a
  <2>2. \A i \in 1 .. Len(a) : a[i] = x[i]
    BY <1>1, <2>1
  <2>3. a = x
    BY <2>1, <2>2, SameSequence DEF Text
  <2> QED BY <2>3 DEF a
<1>6. x = << >> => u = t
  BY ConcatEmpty DEF u, Text
<1> QED BY <1>1, <1>2, <1>3, <1>4, <1>5, <1>6 DEF u

\* A text is empty only for no bytes, and ends broken after a lead byte.
LEMMA CharsEnds ==
  ASSUME NEW b \in Text
  PROVE  /\ Chars(b) = << >> <=> b = << >>
         /\ b # << >> /\ b[Len(b)] = "lead" => EndsBroken(Chars(b))
<1> DEFINE c == [i \in DOMAIN b |-> CharAt(b, i)]
<1>1. /\ c \in Seq(Text) /\ Len(c) = Len(b) /\ Len(b) \in Nat /\ Chars(b) = FlattenSeq(c) /\ Chars(b) \in Text
      /\ \A i \in 1 .. Len(b) : c[i] = CharAt(b, i)
  BY CharsType DEF Chars, Text
<1> HIDE DEF c
<1>2. b = << >> <=> Len(b) = 0
  BY DEF Text
<1>3. b = << >> => Chars(b) = << >>
  <2> SUFFICES ASSUME b = << >> PROVE FlattenSeq(c) = << >>
    BY <1>1
  <2>1. Len(c) = 0 /\ c = << >>
    BY <1>1, <1>2
  <2> QED BY <2>1 DEF FlattenSeq
<1>4. ASSUME b # << >> PROVE Chars(b) # << >>
  <2>1. Len(c) # 0 /\ c # << >> /\ 1 \in 1 .. Len(b) /\ c \in Seq(Seq(Char))
    BY <1>1, <1>2, <1>4 DEF Text
  <2>2. PICK t \in Seq(Char) : FlattenSeq(c) = c[1] \o t
    BY <2>1, FlattenFirst
  <2>3. c[1] \in Text /\ c[1] # << >>
    <3>1. ~Joined(b, 0)
      BY DEF Joined
    <3>2. c[1] = CharAt(b, 1) /\ CharAt(b, 1) \in Text
      BY <1>1, <2>1, CharAtType
    <3>3. CASE Joined(b, 1)
      BY <3>1, <3>2, <3>3 DEF CharAt
    <3>4. CASE ~Joined(b, 1) /\ b[1] \in {"lead", "cont"}
      BY <3>1, <3>2, <3>4 DEF CharAt
    <3>5. CASE ~Joined(b, 1) /\ b[1] \notin {"lead", "cont"}
      BY <3>1, <3>2, <3>5 DEF CharAt
    <3> QED BY <3>3, <3>4, <3>5
  <2>4. c[1] \o t # << >>
    BY <2>3, TextEnd DEF Text
  <2> QED BY <1>1, <2>2, <2>4
<1>5. ASSUME b # << >>, b[Len(b)] = "lead" PROVE EndsBroken(Chars(b))
  <2>1. Len(c) # 0 /\ c # << >> /\ Len(b) \in 1 .. Len(b) /\ c \in Seq(Seq(Char))
    BY <1>1, <1>2, <1>5 DEF Text
  <2>2. PICK t \in Seq(Char) : FlattenSeq(c) = t \o c[Len(c)]
    BY <2>1, FlattenLast
  <2>3. c[Len(c)] = <<Broken>>
    <3> DEFINE n == Len(b)
    <3>1. n \in 1 .. n /\ ~Joined(b, n) /\ c[Len(c)] = CharAt(b, n)
      BY <1>1, <2>1 DEF Joined
    <3>2. ~Joined(b, n - 1)
      <4>1. Joined(b, n - 1) => b[n - 1 + 1] = "cont"
        BY DEF Joined
      <4>2. n - 1 + 1 = n
        BY <1>1
      <4> QED BY <1>5, <4>1, <4>2
    <3>3. b[n] \in {"lead", "cont"}
      BY <1>5
    <3> HIDE DEF n
    <3> QED BY <3>1, <3>2, <3>3 DEF CharAt
  <2>4. <<Broken>> \in Text /\ EndsBroken(<<Broken>>) /\ <<Broken>> # << >>
    <3>1. Broken \in Char
      BY DetokenizerAssumption
    <3> HIDE DEF Broken
    <3> QED BY <3>1 DEF Text, EndsBroken, Last
  <2>5. EndsBroken(t \o c[Len(c)])
    BY <2>3, <2>4, TextEnd DEF Text
  <2> QED BY <1>1, <2>2, <2>5
<1> QED BY <1>3, <1>4, <1>5

LEMMA StrippedLemma ==
  ASSUME NEW c \in Text
  PROVE  /\ Stripped(c) \in Text
         /\ Stripped(<< >>) = << >>
         /\ EndsBroken(c) => EndsBroken(Stripped(c))
         /\ \A d \in Text : c # << >> => Stripped(c \o d) = Stripped(c) \o d
<1>1. Stripped(c) \in Text /\ Stripped(<< >>) = << >>
  BY DEF Stripped, Text
<1>2. c = << >> <=> Len(c) = 0
  BY DEF Text
<1>3. c # << >> => /\ Head(c) = c[1] /\ Tail(c) \in Text /\ Len(Tail(c)) = Len(c) - 1 /\ Len(c) \in Nat
                   /\ \A i \in 1 .. Len(c) - 1 : Tail(c)[i] = c[i + 1]
  BY DEF Text
<1>4. ASSUME EndsBroken(c) PROVE EndsBroken(Stripped(c))
  <2>1. CASE StripsLeading /\ c # << >> /\ Head(c) = "space"
    <3>1. c[Len(c)] = Broken /\ c # << >> /\ Stripped(c) = Tail(c) /\ Len(c) # 0
      BY <1>2, <1>4, <2>1 DEF EndsBroken, Last, Stripped
    <3>2. Len(c) # 1
      BY <1>3, <2>1, <3>1 DEF Broken
    <3>3. Len(Tail(c)) # 0 /\ Tail(c)[Len(Tail(c))] = c[Len(c)]
      <4>0. Len(c) \in Nat /\ Len(c) # 0 /\ Len(c) # 1
        BY <1>3, <3>1, <3>2
      <4>1. Len(c) - 1 \in 1 .. Len(c) - 1 /\ Len(c) - 1 + 1 = Len(c)
        <5> DEFINE n == Len(c)
        <5>1. n \in Nat /\ n # 0 /\ n # 1
          BY <4>0
        <5> HIDE DEF n
        <5>2. n - 1 \in 1 .. n - 1 /\ n - 1 + 1 = n
          BY <5>1
        <5> QED BY <5>2 DEF n
      <4>2. Tail(c)[Len(c) - 1] = c[Len(c) - 1 + 1]
        BY <1>3, <2>1, <4>1
      <4> QED BY <1>3, <3>1, <4>1, <4>2
    <3>4. Tail(c) # << >>
      BY <3>3
    <3> QED BY <3>1, <3>3, <3>4 DEF EndsBroken, Last
  <2>2. CASE ~(StripsLeading /\ c # << >> /\ Head(c) = "space")
    BY <1>4, <2>2 DEF Stripped
  <2> QED BY <2>1, <2>2
<1>5. ASSUME NEW d \in Text, c # << >> PROVE Stripped(c \o d) = Stripped(c) \o d
  <2> DEFINE u == c \o d
  <2>1. /\ u \in Text /\ Len(u) = Len(c) + Len(d) /\ Len(c) \in Nat \ {0} /\ Len(d) \in Nat
        /\ \A i \in 1 .. Len(c) : u[i] = c[i]
        /\ \A i \in 1 .. Len(d) : u[Len(c) + i] = d[i]
    BY <1>2, <1>5, ConcatLemma DEF Text
  <2> HIDE DEF u
  <2>2. u # << >> /\ Head(u) = u[1] /\ u[1] = c[1] /\ Head(c) = c[1]
    BY <1>3, <1>5, <2>1 DEF Text
  <2>3. Tail(u) = Tail(c) \o d
    <3> DEFINE a == Tail(u)
               b == Tail(c)
               v == b \o d
    <3>1. /\ a \in Text /\ Len(a) = Len(u) - 1 /\ \A i \in 1 .. Len(u) - 1 : a[i] = u[i + 1]
      BY <2>1, <2>2 DEF Text
    <3>2. /\ b \in Text /\ Len(b) = Len(c) - 1 /\ \A i \in 1 .. Len(c) - 1 : b[i] = c[i + 1]
      BY <1>3, <1>5
    <3> HIDE DEF a, b
    <3>3. /\ v \in Text /\ Len(v) = Len(b) + Len(d)
          /\ \A i \in 1 .. Len(b) : v[i] = b[i]
          /\ \A i \in 1 .. Len(d) : v[Len(b) + i] = d[i]
      <4>1. \A y, z \in Text :
               /\ y \o z \in Text /\ Len(y \o z) = Len(y) + Len(z)
               /\ \A i \in 1 .. Len(y) : (y \o z)[i] = y[i]
               /\ \A i \in 1 .. Len(z) : (y \o z)[Len(y) + i] = z[i]
        BY DEF Text
      <4> QED BY <3>2, <4>1
    <3> HIDE DEF v
    <3>4. Len(a) = Len(v)
      BY <2>1, <3>1, <3>2, <3>3
    <3>5. ASSUME NEW i \in 1 .. Len(a) PROVE a[i] = v[i]
      <4>1. a[i] = u[i + 1]
        BY <3>1
      <4>2. CASE i < Len(c)
        <5>1. i + 1 \in 1 .. Len(c) /\ i \in 1 .. Len(c) - 1 /\ i \in 1 .. Len(b)
          BY <2>1, <3>2, <4>2
        <5> QED BY <2>1, <3>2, <3>3, <4>1, <5>1
      <4>3. CASE i >= Len(c)
        <5>1. PICK j \in 1 .. Len(d) : i + 1 = Len(c) + j /\ i = Len(b) + j
          <6>1. i + 1 - Len(c) \in 1 .. Len(d) /\ i + 1 = Len(c) + (i + 1 - Len(c))
                /\ i = Len(b) + (i + 1 - Len(c))
            BY <2>1, <3>1, <3>2, <4>3
          <6> QED BY <6>1
        <5> QED BY <2>1, <3>3, <4>1, <5>1
      <4> QED BY <2>1, <4>2, <4>3
    <3>6. a = v
      BY <3>1, <3>3, <3>4, <3>5, SameSequence DEF Text
    <3> QED BY <3>6 DEF a, b, v
  <2>4. CASE StripsLeading /\ c[1] = "space"
    BY <1>5, <2>2, <2>3, <2>4 DEF Stripped, u
  <2>5. CASE ~(StripsLeading /\ c[1] = "space")
    BY <1>5, <2>2, <2>5 DEF Stripped, u
  <2> QED BY <2>4, <2>5
<1> QED BY <1>1, <1>4, <1>5

\* Whether the bytes of some tokens end between two characters, as far as the
\* decoder can tell.
Whole(s) == Bytes(s) # << >> => Bytes(s)[Len(Bytes(s))] # "lead"

\* Text is final as soon as it does not end broken.
LEMMA WholeText ==
  ASSUME NEW s \in Seq(Token), NEW t \in Seq(Token)
  PROVE  /\ Decode(s) \in Text
         /\ ~EndsBroken(Decode(s)) => Whole(s)
         /\ Bytes(s) = << >> => Decode(s) = << >>
         /\ Whole(s) /\ Bytes(s) # << >> => Decode(s \o t) = Decode(s) \o Chars(Bytes(t))
<1> DEFINE a == Bytes(s)
           b == Bytes(t)
<1>1. a \in Text /\ b \in Text /\ Chars(a) \in Text /\ Chars(b) \in Text
  BY BytesType, CharsType
<1>2. Bytes(s \o t) = a \o b
  BY BytesConcat
<1> HIDE DEF a, b
<1>3. Decode(s) = Stripped(Chars(a)) /\ Decode(s \o t) = Stripped(Chars(a \o b))
  BY <1>2 DEF Decode, a
<1>4. Decode(s) \in Text
  BY <1>1, <1>3, StrippedLemma
<1>5. ~EndsBroken(Decode(s)) => Whole(s)
  <2> SUFFICES ASSUME a # << >>, a[Len(a)] = "lead" PROVE EndsBroken(Decode(s))
    BY DEF Whole, a
  <2>1. EndsBroken(Chars(a))
    BY <1>1, CharsEnds
  <2> QED BY <1>1, <1>3, <2>1, StrippedLemma
<1>6. a = << >> => Decode(s) = << >>
  <2>1. a = << >> => Chars(a) = << >>
    BY <1>1, CharsEnds
  <2>2. Stripped(<< >>) = << >>
    BY DEF Stripped
  <2> QED BY <1>3, <2>1, <2>2
<1>7. ASSUME Whole(s), a # << >> PROVE Decode(s \o t) = Decode(s) \o Chars(b)
  <2>1. Chars(a \o b) = Chars(a) \o Chars(b)
    BY <1>1, <1>7, CharsConcat DEF Whole, a
  <2>2. Chars(a) # << >>
    BY <1>1, <1>7, CharsEnds
  <2> DEFINE c == Chars(a)
             d == Chars(b)
  <2>3. c \in Text /\ d \in Text /\ c # << >>
    BY <1>1, <2>2
  <2> HIDE DEF c, d
  <2>4. Stripped(c \o d) = Stripped(c) \o d
    BY <2>3, StrippedLemma
  <2> QED BY <1>3, <2>1, <2>4 DEF c, d
<1> QED BY <1>4, <1>5, <1>6, <1>7 DEF a, b

\* Where a detokenizer stands in the tokens it has been given.
Fits(d, s) ==
    /\ d \in [prefixOffset : Nat, readOffset : Nat, text : Text]
    /\ d.prefixOffset <= d.readOffset /\ d.readOffset <= Len(s)
    /\ Whole(SubSeq(s, 1, d.prefixOffset)) /\ Whole(SubSeq(s, 1, d.readOffset))
    /\ d.readOffset = 0 \/ Bytes(SubSeq(s, d.prefixOffset + 1, d.readOffset)) # << >>
    /\ d.text = Decode(SubSeq(s, 1, d.readOffset))

\* What it has given out is the text so far, but for a broken end.
GivenOut(text, s) ==
    /\ IsPrefix(text, Decode(s))
    /\ Stable(Decode(s)) => text = Decode(s)

\* Two parts of a sequence that meet.
LEMMA Meet ==
  ASSUME NEW S, NEW s \in Seq(S), NEW i \in Nat, NEW j \in Nat, NEW k \in Nat, i <= j, j <= k, k <= Len(s)
  PROVE  /\ SubSeq(s, i + 1, j) \in Seq(S) /\ SubSeq(s, j + 1, k) \in Seq(S)
         /\ SubSeq(s, i + 1, k) = SubSeq(s, i + 1, j) \o SubSeq(s, j + 1, k)
<1> DEFINE a == SubSeq(s, i + 1, j)
           b == SubSeq(s, j + 1, k)
           c == SubSeq(s, i + 1, k)
<1>1. /\ a \in Seq(S) /\ Len(a) = j - i /\ \A m \in 1 .. j - i : a[m] = s[i + m]
      /\ b \in Seq(S) /\ Len(b) = k - j /\ \A m \in 1 .. k - j : b[m] = s[j + m]
      /\ c \in Seq(S) /\ Len(c) = k - i /\ \A m \in 1 .. k - i : c[m] = s[i + m]
  OBVIOUS
<1> HIDE DEF a, b, c
<1> DEFINE u == a \o b
<1>2. /\ u \in Seq(S) /\ Len(u) = Len(a) + Len(b)
      /\ \A m \in 1 .. Len(a) : u[m] = a[m]
      /\ \A m \in 1 .. Len(b) : u[Len(a) + m] = b[m]
  <2>1. \A y, z \in Seq(S) :
           /\ y \o z \in Seq(S) /\ Len(y \o z) = Len(y) + Len(z)
           /\ \A m \in 1 .. Len(y) : (y \o z)[m] = y[m]
           /\ \A m \in 1 .. Len(z) : (y \o z)[Len(y) + m] = z[m]
    OBVIOUS
  <2> QED BY <1>1, <2>1
<1> HIDE DEF u
<1>3. ASSUME NEW m \in 1 .. Len(c) PROVE c[m] = u[m]
  <2>1. CASE m <= j - i
    BY <1>1, <1>2, <2>1
  <2>2. CASE m > j - i
    <3>1. PICK l \in 1 .. k - j : m = Len(a) + l /\ i + m = j + l
      <4>1. m - (j - i) \in 1 .. k - j /\ m = Len(a) + (m - (j - i)) /\ i + m = j + (m - (j - i))
        BY <1>1, <2>2, SMTT(40)
      <4> QED BY <4>1
    <3> QED BY <1>1, <1>2, <3>1
  <2> QED BY <2>1, <2>2
<1>4. c = u
  <2>1. Len(c) = Len(u) /\ c \in Seq(S) /\ u \in Seq(S)
    BY <1>1, <1>2
  <2> QED BY <1>3, <2>1, SameSequence
<1> QED BY <1>1, <1>4 DEF a, b, c, u

\* The text that is new in the tokens, seen from the prefix and from the start.
LEMMA NewText ==
  ASSUME NEW s \in Seq(Token), NEW d, Fits(d, s)
  PROVE  LET prefix == Decode(SubSeq(s, d.prefixOffset + 1, d.readOffset))
             whole == Decode(SubSeq(s, d.prefixOffset + 1, Len(s)))
         IN  /\ prefix \in Text
             /\ \E x \in Text : /\ whole = prefix \o x
                                /\ Decode(s) = d.text \o x
                                /\ x # << >> => Bytes(SubSeq(s, d.readOffset + 1, Len(s))) # << >>
<1> DEFINE p == d.prefixOffset
           r == d.readOffset
           n == Len(s)
           A == SubSeq(s, 0 + 1, p)
           B == SubSeq(s, p + 1, r)
           C == SubSeq(s, r + 1, n)
           AB == SubSeq(s, 0 + 1, r)
           BC == SubSeq(s, p + 1, n)
<1>1. /\ p \in Nat /\ r \in Nat /\ n \in Nat /\ p <= r /\ r <= n /\ d.text \in Text
      /\ Whole(A) /\ Whole(AB) /\ (r = 0 \/ Bytes(B) # << >>) /\ d.text = Decode(AB)
  BY DEF Fits
<1>2. /\ A \in Seq(Token) /\ B \in Seq(Token) /\ C \in Seq(Token) /\ AB \in Seq(Token)
      /\ AB = A \o B /\ BC = B \o C /\ SubSeq(s, 0 + 1, n) = AB \o C
  <2> HIDE DEF p, r, n
  <2>1. 0 \in Nat /\ 0 <= p /\ 0 <= r /\ n <= Len(s)
    BY <1>1 DEF n
  <2> QED BY <1>1, <2>1, Meet, SMTT(40)
<1>3. SubSeq(s, 0 + 1, n) = s
  BY TakeOneMore
<1>4. Decode(B) \in Text
  BY <1>2, WholeText
<1>5. CASE r = 0
  <2>1. p = 0 /\ AB = << >> /\ B = << >> /\ C = s /\ BC = s
    BY <1>1, <1>3, <1>5
  <2>2. Bytes(<< >>) = << >>
    BY DEF Bytes, FlattenSeq
  <2>3. Decode(B) = << >> /\ d.text = << >>
    BY <1>1, <1>2, <2>1, <2>2, WholeText
  <2>4. Decode(s) \in Text /\ (Bytes(s) = << >> => Decode(s) = << >>)
    BY WholeText
  <2>5. Decode(s) = << >> \o Decode(s)
    BY <2>4, ConcatEmpty DEF Text
  <2> HIDE DEF p, r, n, A, B, C, AB, BC
  <2>6. Decode(BC) = Decode(B) \o Decode(s) /\ Decode(s) = d.text \o Decode(s) /\ (Decode(s) # << >> => Bytes(C) # << >>)
    BY <2>1, <2>3, <2>4, <2>5
  <2> QED BY <1>4, <2>4, <2>6 DEF p, r, n, B, C, BC
<1>6. CASE r # 0
  <2> DEFINE x == Chars(Bytes(C))
  <2> HIDE DEF p, r, n, A, B, C, AB, BC
  <2>1. Bytes(A) \in Text /\ Bytes(B) \in Text /\ Bytes(AB) = Bytes(A) \o Bytes(B) /\ Bytes(B) # << >>
    BY <1>1, <1>2, <1>6, BytesType, BytesConcat
  <2>2. Bytes(AB) # << >> /\ Whole(B)
    <3> DEFINE a == Bytes(A)
               b == Bytes(B)
    <3>1. a \in Text /\ b \in Text /\ b # << >> /\ Bytes(AB) = a \o b
      BY <2>1
    <3> HIDE DEF a, b
    <3>2. /\ Len(a \o b) = Len(a) + Len(b) /\ Len(a) \in Nat /\ Len(b) \in Nat \ {0}
          /\ \A i \in 1 .. Len(b) : (a \o b)[Len(a) + i] = b[i]
      BY <3>1 DEF Text
    <3>3. (a \o b)[Len(a \o b)] = b[Len(b)] /\ a \o b # << >>
      BY <3>1, <3>2, TextEnd
    <3> QED BY <1>1, <3>1, <3>3 DEF Whole, b
  <2>3. Decode(AB \o C) = Decode(AB) \o x /\ Decode(B \o C) = Decode(B) \o x
    BY <1>1, <1>2, <2>1, <2>2, WholeText
  <2>4. Bytes(C) \in Text /\ x \in Text /\ (Bytes(C) = << >> => x = << >>)
    BY <1>2, BytesType, CharsType, CharsEnds
  <2> HIDE DEF x
  <2>5. Decode(BC) = Decode(B) \o x /\ Decode(s) = d.text \o x /\ (x # << >> => Bytes(C) # << >>)
    BY <1>1, <1>2, <1>3, <2>3, <2>4
  <2> QED BY <1>4, <2>4, <2>5 DEF p, r, n, B, C, BC
<1> QED BY <1>5, <1>6

\* Feeding the tokens so far.
LEMMA FedLemma ==
  ASSUME NEW s \in Seq(Token), NEW d, Fits(d, s)
  PROVE  /\ Delta(d, s) \in Text
         /\ Fed(d, s).text = d.text \o Delta(d, s)
         /\ Fits(Fed(d, s), s)
         /\ GivenOut(Fed(d, s).text, s)
<1> DEFINE p == d.prefixOffset
           r == d.readOffset
           prefix == Decode(SubSeq(s, p + 1, r))
           whole == Decode(SubSeq(s, p + 1, Len(s)))
<1>1. /\ d \in [prefixOffset : Nat, readOffset : Nat, text : Text]
      /\ p \in Nat /\ r \in Nat /\ Len(s) \in Nat /\ p <= r /\ r <= Len(s) /\ d.text \in Text
      /\ Whole(SubSeq(s, 1, r))
  BY DEF Fits
<1>2. PICK x \in Text : /\ whole = prefix \o x
                        /\ Decode(s) = d.text \o x
                        /\ x # << >> => Bytes(SubSeq(s, r + 1, Len(s))) # << >>
  BY NewText
<1>3. prefix \in Text
  BY NewText
<1> HIDE DEF prefix, whole
<1>4. /\ Len(whole) <= Len(prefix) <=> x = << >>
      /\ x # << >> => (EndsBroken(whole) <=> EndsBroken(x))
      /\ SubSeq(whole, Len(prefix) + 1, Len(whole)) = x
  BY <1>2, <1>3, TextEnd
<1>5. /\ x # << >> => (EndsBroken(Decode(s)) <=> EndsBroken(x))
      /\ IsPrefix(d.text, Decode(s))
      /\ x = << >> => Decode(s) = d.text
  <2> DEFINE t == d.text
  <2>1. t \in Text
    BY <1>1
  <2> HIDE DEF t
  <2>2. /\ x # << >> => (EndsBroken(t \o x) <=> EndsBroken(x))
        /\ IsPrefix(t, t \o x)
        /\ x = << >> => t \o x = t
    BY <2>1, TextEnd
  <2> QED BY <1>2, <2>2 DEF t
<1>6. Delta(d, s) = IF NothingNew(whole, prefix) THEN << >> ELSE x
  BY <1>4 DEF Delta, whole, prefix
<1>7. CASE x = << >> \/ EndsBroken(x)
  <2>1. Delta(d, s) = << >>
    <3>1. CASE x = << >>
      BY <1>4, <1>6, <3>1 DEF NothingNew
    <3>2. CASE x # << >>
      BY <1>4, <1>6, <1>7, <3>2 DEF NothingNew
    <3> QED BY <3>1, <3>2
  <2>2. Fed(d, s) = d
    BY <2>1 DEF Fed
  <2>3. d.text \o << >> = d.text /\ << >> \in Text
    BY <1>1, ConcatEmpty DEF Text
  <2>4. GivenOut(d.text, s)
    BY <1>5, <1>7 DEF GivenOut, Stable
  <2> QED BY <2>1, <2>2, <2>3, <2>4
<1>8. CASE x # << >> /\ ~EndsBroken(x)
  <2>1. Delta(d, s) = x
    BY <1>4, <1>6, <1>8 DEF NothingNew
  <2>2. Fed(d, s) = [prefixOffset |-> r, readOffset |-> Len(s), text |-> d.text \o x]
    BY <1>8, <2>1 DEF Fed
  <2>3. SubSeq(s, 1, Len(s)) = s
    BY TakeOneMore
  <2>4. Whole(s) /\ Decode(s) \in Text
    BY <1>5, <1>8, WholeText
  <2> DEFINE e == [prefixOffset |-> r, readOffset |-> Len(s), text |-> d.text \o x]
  <2>5. e.prefixOffset = r /\ e.readOffset = Len(s) /\ e.text = Decode(s)
    BY <1>2
  <2>6. e \in [prefixOffset : Nat, readOffset : Nat, text : Text]
    BY <1>1, <1>2, <2>4
  <2> HIDE DEF e, p, r
  <2>7. Fits(e, s)
    <3>1. r \in Nat /\ Len(s) \in Nat /\ r <= Len(s) /\ Whole(SubSeq(s, 1, r))
      BY <1>1 DEF r
    <3>2. Bytes(SubSeq(s, r + 1, Len(s))) # << >>
      BY <1>2, <1>8
    <3>3. e.prefixOffset <= e.readOffset /\ e.readOffset <= Len(s)
      BY <2>5, <3>1
    <3>4. Whole(SubSeq(s, 1, e.prefixOffset)) /\ Whole(SubSeq(s, 1, e.readOffset))
      BY <2>3, <2>4, <2>5, <3>1
    <3>5. Bytes(SubSeq(s, e.prefixOffset + 1, e.readOffset)) # << >>
      BY <2>5, <3>2
    <3>6. e.text = Decode(SubSeq(s, 1, e.readOffset))
      BY <2>3, <2>5
    <3> QED BY <2>6, <3>3, <3>4, <3>5, <3>6 DEF Fits
  <2>9. GivenOut(e.text, s)
    <3>1. Len(Decode(s)) \in Nat
      BY <2>4 DEF Text
    <3>2. IsPrefix(Decode(s), Decode(s))
      BY <3>1 DEF IsPrefix
    <3> QED BY <2>5, <3>2 DEF GivenOut
  <2> QED BY <1>2, <2>1, <2>2, <2>5, <2>7, <2>9 DEF e
<1> QED BY <1>7, <1>8

\* One more token changes nothing of where it stands.
LEMMA FitsAppend ==
  ASSUME NEW s \in Seq(Token), NEW t \in Token, NEW d, Fits(d, s)
  PROVE  Fits(d, Append(s, t))
<1> DEFINE u == Append(s, t)
           p == d.prefixOffset
           r == d.readOffset
<1>1. p \in Nat /\ r \in Nat /\ p <= r /\ r <= Len(s) /\ Len(s) \in Nat
  BY DEF Fits
<1>2. u \in Seq(Token) /\ Len(u) = Len(s) + 1 /\ \A i \in 1 .. Len(s) : u[i] = s[i]
  OBVIOUS
<1> HIDE DEF u
<1>3. ASSUME NEW i \in Nat, NEW j \in Nat, i <= j, j <= Len(s)
      PROVE  SubSeq(u, i + 1, j) = SubSeq(s, i + 1, j)
  <2> DEFINE a == SubSeq(u, i + 1, j)
             b == SubSeq(s, i + 1, j)
  <2>1. /\ a \in Seq(Token) /\ Len(a) = j - i /\ \A m \in 1 .. j - i : a[m] = u[i + m]
        /\ b \in Seq(Token) /\ Len(b) = j - i /\ \A m \in 1 .. j - i : b[m] = s[i + m]
    BY <1>1, <1>2, <1>3
  <2> HIDE DEF a, b
  <2>2. \A m \in 1 .. j - i : a[m] = b[m]
    <3> SUFFICES ASSUME NEW m \in 1 .. j - i PROVE a[m] = b[m]
      OBVIOUS
    <3>1. i + m \in 1 .. Len(s)
      BY <1>1, <1>3
    <3>2. a[m] = u[i + m] /\ b[m] = s[i + m]
      BY <2>1
    <3> QED BY <1>2, <3>1, <3>2
  <2>3. a = b
    <3>1. Len(a) = Len(b)
      BY <2>1
    <3> QED BY <2>1, <2>2, <3>1, SameSequence
  <2> QED BY <2>3 DEF a, b
<1>4. SubSeq(u, 0 + 1, p) = SubSeq(s, 0 + 1, p) /\ SubSeq(u, 0 + 1, r) = SubSeq(s, 0 + 1, r)
  <2>1. 0 \in Nat /\ 0 <= p /\ 0 <= r /\ p <= Len(s)
    BY <1>1
  <2> HIDE DEF p, r
  <2> QED BY <1>1, <1>3, <2>1
<1>5. SubSeq(u, p + 1, r) = SubSeq(s, p + 1, r)
  BY <1>1, <1>3
<1>6. r <= Len(u)
  BY <1>1, <1>2
<1>7. SubSeq(u, 1, p) = SubSeq(s, 1, p) /\ SubSeq(u, 1, r) = SubSeq(s, 1, r)
  <2>1. 0 + 1 = 1
    OBVIOUS
  <2> HIDE DEF p, r
  <2> QED BY <1>4, <2>1, Zenon
<1>8. Len(u) \in Nat
  BY <1>2
<1> QED BY <1>5, <1>6, <1>7 DEF Fits, u

-----------------------------------------------------------------------------
(* The cut at the stop strings. *)

\* What is found in the beginning of a text is found there in the text.
LEMMA FoundInPrefix ==
  ASSUME NEW z \in Text, NEW s \in Text, NEW m \in 0 .. Len(z)
  PROVE  /\ SubSeq(z, 1, m) \in Text /\ Len(SubSeq(z, 1, m)) = m
         /\ \A i \in Found(SubSeq(z, 1, m), s) : i \in Found(z, s) /\ i + Len(s) <= m
<1> DEFINE y == SubSeq(z, 1, m)
<1>1. /\ y \in Text /\ Len(y) = m /\ m \in Nat /\ Len(z) \in Nat /\ Len(s) \in Nat /\ m <= Len(z)
      /\ \A i \in 1 .. m : y[i] = z[i]
  BY DEF Text
<1> HIDE DEF y
<1>2. ASSUME NEW i \in Found(y, s) PROVE i \in Found(z, s) /\ i + Len(s) <= m
  <2>1. i \in 0 .. m - Len(s) /\ SubSeq(y, i + 1, i + Len(s)) = s /\ i \in Nat
    BY <1>1 DEF Found
  <2> DEFINE n == Len(s)
             a == SubSeq(y, i + 1, i + n)
             b == SubSeq(z, i + 1, i + n)
  <2>2. n \in Nat /\ i + n <= m /\ i \in 0 .. Len(z) - n
    BY <1>1, <2>1
  <2>3. /\ a \in Text /\ Len(a) = n /\ \A k \in 1 .. n : a[k] = y[i + k]
        /\ b \in Text /\ Len(b) = n /\ \A k \in 1 .. n : b[k] = z[i + k]
    <3> HIDE DEF n
    <3> QED BY <1>1, <2>1, <2>2 DEF Text
  <2> HIDE DEF a, b, n
  <2>4. ASSUME NEW k \in 1 .. n PROVE a[k] = b[k]
    <3>1. i + k \in 1 .. m
      BY <1>1, <2>1, <2>2
    <3> QED BY <1>1, <2>3, <3>1
  <2>5. a = b
    <3>1. Len(a) = Len(b)
      BY <2>3
    <3> QED BY <2>3, <2>4, <3>1, SameSequence DEF Text
  <2> QED BY <2>1, <2>2, <2>5 DEF Found, a, b, n
<1> QED BY <1>1, <1>2 DEF y

\* One cut.
LEMMA CutAtLemma ==
  ASSUME NEW z \in Text, NEW s \in Text
  PROVE  /\ CutAt(z, s) \in Text
         /\ s # << >> => Found(CutAt(z, s), s) = {}
         /\ Found(z, s) # {} => Len(CutAt(z, s)) = Min(Found(z, s))
         /\ \A r \in Text : Found(z, r) = {} => Found(CutAt(z, s), r) = {}
<1>1. Len(z) \in Nat /\ Len(s) \in Nat /\ (s # << >> => Len(s) # 0)
  BY DEF Text
<1>2. Found(z, s) \in SUBSET Nat /\ \A i \in Found(z, s) : i \in 0 .. Len(z)
  BY <1>1 DEF Found
<1>3. CASE Found(z, s) = {}
  BY <1>3 DEF CutAt
<1>4. CASE Found(z, s) # {}
  <2> DEFINE m == Min(Found(z, s))
  <2>1. m \in Found(z, s) /\ \A i \in Found(z, s) : m <= i
    <3> DEFINE F == Found(z, s)
    <3>1. F \in SUBSET Nat /\ F # {}
      BY <1>2, <1>4
    <3> HIDE DEF F
    <3>2. \E x \in F : \A y \in F : x <= y
      BY <3>1, LeastNatural
    <3>3. Min(F) \in F /\ \A i \in F : Min(F) <= i
      BY <3>2 DEF Min
    <3> QED BY <3>3 DEF F
  <2> HIDE DEF m
  <2>2. m \in 0 .. Len(z) /\ CutAt(z, s) = SubSeq(z, 1, m)
    BY <1>2, <1>4, <2>1 DEF CutAt, m
  <2>3. CutAt(z, s) \in Text /\ Len(CutAt(z, s)) = m
    BY <2>2, FoundInPrefix
  <2>4. ASSUME NEW r \in Text, Found(z, r) = {} PROVE Found(CutAt(z, s), r) = {}
    BY <2>2, <2>4, FoundInPrefix
  <2>5. ASSUME s # << >> PROVE Found(CutAt(z, s), s) = {}
    <3> SUFFICES ASSUME NEW i \in Found(CutAt(z, s), s) PROVE FALSE
      OBVIOUS
    <3>1. i \in Found(z, s) /\ i + Len(s) <= m
      BY <2>2, FoundInPrefix
    <3>2. i \in Nat /\ m <= i /\ m \in Nat
      BY <1>2, <2>1, <3>1
    <3> QED BY <1>1, <2>5, <3>1, <3>2
  <2> QED BY <2>3, <2>4, <2>5 DEF m
<1> QED BY <1>3, <1>4

\* All of them, in turn.
LEMMA CutsSteps ==
  ASSUME NEW z \in Text, NEW stops \in Seq(Text)
  PROVE  /\ Cuts(z, stops) \in [0 .. Len(stops) -> Text]
         /\ Cuts(z, stops)[0] = z
         /\ \A i \in 1 .. Len(stops) : Cuts(z, stops)[i] = CutAt(Cuts(z, stops)[i - 1], stops[i])
<1> DEFINE n == Len(stops)
           step == [i \in 1 .. n |-> [y \in Text |-> CutAt(y, stops[i])]]
           IsCuts(h) == h = [i \in 0 .. n |-> IF i = 0 THEN z ELSE CutAt(h[i - 1], stops[i])]
           left == CHOOSE h : IsCuts(h)
<1>1. n \in Nat
  OBVIOUS
<1>2. step \in [1 .. n -> [Text -> Text]] /\ \A i \in 1 .. n : \A y \in Text : step[i][y] = CutAt(y, stops[i])
  <2>1. \A i \in 1 .. n : \A y \in Text : CutAt(y, stops[i]) \in Text
    <3> SUFFICES ASSUME NEW i \in 1 .. n, NEW y \in Text PROVE CutAt(y, stops[i]) \in Text
      OBVIOUS
    <3>1. stops[i] \in Text
      OBVIOUS
    <3> QED BY <3>1, CutAtLemma
  <2> QED BY <2>1
<1> HIDE DEF step
<1>3. PICK f \in [0 .. n -> Text] : f[0] = z /\ \A i \in 1 .. n : f[i] = step[i][f[i - 1]]
  <2> HIDE DEF n
  <2>1. \E f \in [0 .. n -> Text] : f[0] = z /\ \A i \in 1 .. n : f[i] = step[i][f[i - 1]]
    BY <1>1, <1>2, Recursion, SMTT(60)
  <2> QED BY <2>1
<1>4. \A i \in 1 .. n : f[i] = CutAt(f[i - 1], stops[i])
  <2> SUFFICES ASSUME NEW i \in 1 .. n PROVE f[i] = CutAt(f[i - 1], stops[i])
    OBVIOUS
  <2>1. i - 1 \in 0 .. n
    BY <1>1
  <2>2. f[i - 1] \in Text
    BY <2>1
  <2> QED BY <1>2, <1>3, <2>2
<1>5. \E h : IsCuts(h)
  <2> DEFINE g == [i \in 0 .. n |-> IF i = 0 THEN z ELSE CutAt(f[i - 1], stops[i])]
  <2>1. \A i \in 0 .. n : f[i] = g[i]
    <3> SUFFICES ASSUME NEW i \in 0 .. n PROVE f[i] = g[i]
      OBVIOUS
    <3>1. i = 0 \/ i \in 1 .. n
      BY <1>1
    <3> QED BY <1>3, <1>4, <3>1
  <2>2. f = [i \in 0 .. n |-> f[i]] /\ g = [i \in 0 .. n |-> g[i]]
    OBVIOUS
  <2>3. f = g
    <3> HIDE DEF g, n
    <3>1. [i \in 0 .. n |-> f[i]] = [i \in 0 .. n |-> g[i]]
      BY <2>1
    <3> QED BY <2>2, <3>1, Zenon
  <2> QED BY <2>3
<1>6. IsCuts(left)
  <2> HIDE DEF IsCuts
  <2> QED BY <1>5
<1>7. Cuts(z, stops) = left
  BY DEF Cuts
<1> HIDE DEF left
<1>8. \A i \in 0 .. n : left[i] = IF i = 0 THEN z ELSE CutAt(left[i - 1], stops[i])
  <2> HIDE DEF n
  <2> QED BY <1>6
<1>9. left = [i \in 0 .. n |-> left[i]]
  <2> DEFINE v == [i \in 0 .. n |-> IF i = 0 THEN z ELSE CutAt(left[i - 1], stops[i])]
  <2>1. v = [i \in 0 .. n |-> v[i]]
    OBVIOUS
  <2>2. left = v
    BY <1>6
  <2> HIDE DEF v
  <2> QED BY <2>1, <2>2
<1> DEFINE A == {k \in Nat : k <= n => left[k] = f[k]}
<1>10. 0 \in A
  BY <1>1, <1>3, <1>8
<1>11. ASSUME NEW k \in Nat, k \in A PROVE k + 1 \in A
  <2> SUFFICES ASSUME k + 1 <= n PROVE left[k + 1] = f[k + 1]
    OBVIOUS
  <2> DEFINE i == k + 1
  <2>1. i \in 1 .. n /\ i \in 0 .. n /\ i # 0 /\ i - 1 = k /\ k <= n
    BY <1>1
  <2> HIDE DEF i, n
  <2>2. left[i] = CutAt(left[i - 1], stops[i]) /\ f[i] = CutAt(f[i - 1], stops[i])
    BY <1>4, <1>8, <2>1
  <2>3. left[i] = f[i]
    BY <1>11, <2>1, <2>2
  <2> QED BY <2>3 DEF i
<1>12. \A k \in Nat : k \in A
  <2> HIDE DEF A
  <2> QED BY <1>10, <1>11, SetInduction
<1>13. \A i \in 0 .. n : left[i] = f[i]
  BY <1>1, <1>12
<1>14. left = f
  <2>1. f = [i \in 0 .. n |-> f[i]]
    OBVIOUS
  <2> HIDE DEF n
  <2>2. [i \in 0 .. n |-> left[i]] = [i \in 0 .. n |-> f[i]]
    BY <1>13
  <2> QED BY <1>9, <2>1, <2>2, Zenon
<1> QED BY <1>3, <1>4, <1>7, <1>14

LEMMA CutLemma ==
  ASSUME NEW z \in Text, NEW stops \in Seq(Text)
  PROVE  /\ Cut(z, stops) \in Text
         /\ Cut(z, stops) # z => IsCut(z, stops)
         /\ \A i \in 1 .. Len(stops) : stops[i] # << >> => Found(Cut(z, stops), stops[i]) = {}
         /\ Len(stops) = 1 /\ Found(z, stops[1]) # {} => Len(Cut(z, stops)) = Min(Found(z, stops[1]))
<1> DEFINE n == Len(stops)
           f == Cuts(z, stops)
<1>1. /\ n \in Nat /\ f \in [0 .. n -> Text] /\ f[0] = z /\ Cut(z, stops) = f[n]
      /\ \A i \in 1 .. n : f[i] = CutAt(f[i - 1], stops[i])
      /\ \A i \in 1 .. n : stops[i] \in Text
  BY CutsSteps DEF Cut
<1> HIDE DEF f
<1>2. \A i \in 1 .. n : i - 1 \in 0 .. n /\ f[i - 1] \in Text
  BY <1>1
<1>3. Cut(z, stops) \in Text
  <2>1. n \in 0 .. n
    BY <1>1
  <2> QED BY <1>1, <2>1
<1>4. ASSUME ~IsCut(z, stops) PROVE f[n] = z
  <2> DEFINE A == {k \in Nat : k <= n => f[k] = z}
  <2>1. 0 \in A
    BY <1>1
  <2>2. ASSUME NEW k \in Nat, k \in A PROVE k + 1 \in A
    <3> SUFFICES ASSUME k + 1 <= n PROVE f[k + 1] = z
      OBVIOUS
    <3> DEFINE i == k + 1
    <3>1. i \in 1 .. n /\ i - 1 = k /\ f[k] = z
      BY <1>1, <2>2
    <3> HIDE DEF i, n
    <3>2. Found(f[i - 1], stops[i]) = {}
      <4>1. DOMAIN stops = 1 .. n
        BY DEF n
      <4> QED BY <1>4, <3>1, <4>1 DEF IsCut, f
    <3>3. f[i] = z
      BY <1>1, <3>1, <3>2 DEF CutAt
    <3> QED BY <3>3 DEF i
  <2>3. n \in A
    <3> HIDE DEF A, n
    <3> QED BY <1>1, <2>1, <2>2, SetInduction
  <2> QED BY <1>1, <2>3
<1>5. ASSUME NEW i \in 1 .. n, stops[i] # << >> PROVE Found(f[n], stops[i]) = {}
  <2> DEFINE s == stops[i]
             A == {k \in Nat : i + k <= n => Found(f[i + k], s) = {}}
  <2>1. 0 \in A
    <3>1. Found(CutAt(f[i - 1], s), s) = {}
      BY <1>1, <1>2, <1>5, CutAtLemma
    <3>2. i + 0 = i
      BY <1>1
    <3> QED BY <1>1, <3>1, <3>2
  <2>2. ASSUME NEW k \in Nat, k \in A PROVE k + 1 \in A
    <3> SUFFICES ASSUME i + (k + 1) <= n PROVE Found(f[i + (k + 1)], s) = {}
      OBVIOUS
    <3> DEFINE j == i + (k + 1)
    <3>1. j \in 1 .. n /\ j - 1 = i + k /\ Found(f[i + k], s) = {}
      BY <1>1, <2>2
    <3> HIDE DEF j, s, n
    <3>2. f[j] = CutAt(f[j - 1], stops[j]) /\ f[j - 1] \in Text /\ stops[j] \in Text /\ s \in Text
      BY <1>1, <1>2, <3>1 DEF s
    <3>3. Found(f[j - 1], s) = {}
      BY <3>1
    <3>4. Found(f[j], s) = {}
      BY <3>2, <3>3, CutAtLemma
    <3> QED BY <3>4 DEF j
  <2>3. n - i \in A
    <3>1. n - i \in Nat
      BY <1>1
    <3> HIDE DEF A, n
    <3> QED BY <2>1, <2>2, <3>1, SetInduction
  <2>4. i + (n - i) = n /\ n - i \in Nat /\ n <= n
    BY <1>1
  <2> HIDE DEF n, s
  <2>5. i + (n - i) <= n => Found(f[i + (n - i)], s) = {}
    BY <2>3
  <2> QED BY <2>4, <2>5 DEF s
<1>6. ASSUME n = 1, Found(z, stops[1]) # {} PROVE Len(f[n]) = Min(Found(z, stops[1]))
  <2>1. 1 \in 1 .. n /\ stops[1] \in Text
    BY <1>1, <1>6
  <2>2. \A i \in 1 .. n : i = 1 => f[i] = CutAt(f[i - 1], stops[i]) /\ i - 1 = 0
    BY <1>1
  <2>3. f[1] = CutAt(z, stops[1])
    BY <1>1, <2>1, <2>2
  <2> QED BY <1>6, <2>1, <2>3, CutAtLemma
<1> QED BY <1>1, <1>3, <1>4, <1>5, <1>6

-----------------------------------------------------------------------------
(* A call of the server. *)

\* What may be in a stream, or a response.
Chunk ==
    [type : {"role", "done"}] \cup [type : {"delta"}, text : Text]
    \cup [type : {"final"}, reason : {"stop", "length"}]
    \cup [type : {"response"}, text : Text, reason : {"stop", "length"}, count : Nat]

ServerTypeOK ==
    /\ reply \in {"none", "422", "raised", "400", "open", "answered", "dropped", "broken", "500", "closed"}
    /\ call \in [kind : {"none", "collect", "completion", "chat"}, stops : Seq(Text)]
    /\ toks \in Seq(Token)
    /\ reason \in {"none", "stop", "length"}
    /\ tick \in Nat
    /\ gone \in Nat \cup {-1}
    /\ sent \in Seq(Chunk)

\* A connection that is gone was there when the handler last looked.
DropInv == gone < DisconnectEvery /\ (reply = "open" => gone <= tick % DisconnectEvery)

\* What a handler has done with the outputs so far.
HandlerInv ==
    /\ Fits(detok, toks)
    /\ reply # "raised"
    /\ reply = "none" => /\ toks = << >> /\ reason = "none" /\ detok = NewDetokenizer
                         /\ gone = -1
    /\ reply = "open" => reason = "none"
    /\ reply \in {"open", "answered"} => call.kind # "none" /\ GivenOut(detok.text, toks)

\* What it has sent.
SentInv ==
    /\ Streams /\ reply \in {"open", "answered"} =>
          /\ DeltaText = detok.text
          /\ call.kind = "chat" => sent # << >>
          /\ \A i \in DOMAIN sent : sent[i].type = "role" <=> i = 1 /\ call.kind = "chat"
          /\ \A i \in DOMAIN sent : sent[i].type \in {"final", "done"} =>
                reply = "answered" /\ i > Len(sent) - 2
          /\ reply = "answered" => /\ Len(sent) >= 2
                                   /\ sent[Len(sent) - 1].type = "final" /\ sent[Len(sent)].type = "done"
    /\ ~Streams /\ reply = "answered" =>
          sent[1] = Response(detok, toks, reason)

ServerInv == ServerTypeOK /\ DropInv /\ HandlerInv /\ SentInv

\* The remainder goes up by one until it is back at nothing.
LEMMA NextRemainder ==
  ASSUME NEW n \in Nat, NEW d \in Nat \ {0}
  PROVE  /\ n % d \in 0 .. d - 1
         /\ (n + 1) % d # 0 => (n + 1) % d = (n % d) + 1
<1> DEFINE q == n \div d
           m == n % d
           r == (n + 1) \div d
           l == (n + 1) % d
<1>1. q \in Nat /\ m \in 0 .. d - 1 /\ n = q * d + m /\ r \in Nat /\ l \in 0 .. d - 1 /\ n + 1 = r * d + l
  OBVIOUS
<1> HIDE DEF q, m, r, l
<1>2. l # 0 => l = m + 1
  <2>1. CASE r = q
    BY <1>1, <2>1
  <2>2. CASE r > q
    <3>1. r - q \in Nat \ {0} /\ r * d = q * d + (r - q) * d /\ (r - q) * d = d + (r - q - 1) * d /\ r - q - 1 \in Nat
      BY <1>1, <2>2
    <3>2. (r - q - 1) * d \in Nat /\ q * d \in Nat
      BY <1>1, <3>1
    <3> QED BY <1>1, <3>1, <3>2
  <2>3. CASE r < q
    <3>1. q - r \in Nat \ {0} /\ q * d = r * d + (q - r) * d /\ (q - r) * d = d + (q - r - 1) * d /\ q - r - 1 \in Nat
      BY <1>1, <2>3
    <3>2. (q - r - 1) * d \in Nat /\ r * d \in Nat
      BY <1>1, <3>1
    <3> QED BY <1>1, <3>1, <3>2
  <2> QED BY <1>1, <2>1, <2>2, <2>3
<1> QED BY <1>1, <1>2 DEF m, l

\* The text of the deltas in some chunks.
DeltaOf(c) == IF c.type = "delta" THEN c.text ELSE << >>
DeltasOf(s) == FlattenSeq([i \in DOMAIN s |-> DeltaOf(s[i])])

LEMMA DeltasType ==
  ASSUME NEW s \in Seq(Chunk)
  PROVE  /\ [i \in DOMAIN s |-> DeltaOf(s[i])] \in Seq(Text)
         /\ DeltasOf(s) \in Text
<1> DEFINE P == [i \in DOMAIN s |-> DeltaOf(s[i])]
<1>1. P \in Seq(Text)
  <2>1. << >> \in Text
    BY DEF Text
  <2>2. \A c \in Chunk : DeltaOf(c) \in Text
    BY <2>1 DEF Chunk, DeltaOf
  <2>3. DOMAIN s = 1 .. Len(s) /\ Len(s) \in Nat /\ \A i \in 1 .. Len(s) : s[i] \in Chunk
    OBVIOUS
  <2> QED BY <2>2, <2>3
<1> HIDE DEF P
<1>2. << >> \in Text
  BY DEF Text
<1>3. FlattenSeq(P) \in Text
  BY <1>1, <1>2, FlattenAppend DEF Text
<1> QED BY <1>1, <1>3 DEF DeltasOf, P

LEMMA DeltasConcat ==
  ASSUME NEW s \in Seq(Chunk), NEW t \in Seq(Chunk)
  PROVE  DeltasOf(s \o t) = DeltasOf(s) \o DeltasOf(t)
<1> DEFINE P(u) == [i \in DOMAIN u |-> DeltaOf(u[i])]
           u == s \o t
<1>1. /\ u \in Seq(Chunk) /\ Len(u) = Len(s) + Len(t) /\ Len(s) \in Nat /\ Len(t) \in Nat
      /\ \A i \in 1 .. Len(s) : u[i] = s[i]
      /\ \A i \in 1 .. Len(t) : u[Len(s) + i] = t[i]
  BY ConcatLemma
<1> HIDE DEF u
<1>2. /\ P(s) \in Seq(Text) /\ P(t) \in Seq(Text) /\ P(u) \in Seq(Text)
  BY <1>1, DeltasType
<1>3. /\ Len(P(s)) = Len(s) /\ Len(P(t)) = Len(t) /\ Len(P(u)) = Len(u)
      /\ \A i \in 1 .. Len(s) : P(s)[i] = DeltaOf(s[i])
      /\ \A i \in 1 .. Len(t) : P(t)[i] = DeltaOf(t[i])
      /\ \A i \in 1 .. Len(u) : P(u)[i] = DeltaOf(u[i])
  BY <1>1
<1> HIDE DEF P
<1> DEFINE ps == P(s)
           pt == P(t)
<1>4. /\ ps \in Seq(Text) /\ pt \in Seq(Text) /\ Len(ps) = Len(s) /\ Len(pt) = Len(t)
  BY <1>2, <1>3
<1> HIDE DEF ps, pt
<1>5. /\ ps \o pt \in Seq(Text) /\ Len(ps \o pt) = Len(s) + Len(t)
      /\ \A i \in 1 .. Len(s) : (ps \o pt)[i] = ps[i]
      /\ \A i \in 1 .. Len(t) : (ps \o pt)[Len(s) + i] = pt[i]
  <2>1. /\ ps \o pt \in Seq(Text) /\ Len(ps \o pt) = Len(ps) + Len(pt)
        /\ \A i \in 1 .. Len(ps) : (ps \o pt)[i] = ps[i]
        /\ \A i \in 1 .. Len(pt) : (ps \o pt)[Len(ps) + i] = pt[i]
    <3> DEFINE T == Text
    <3>1. ps \in Seq(T) /\ pt \in Seq(T)
      BY <1>4
    <3> HIDE DEF T
    <3>2. /\ ps \o pt \in Seq(T) /\ Len(ps \o pt) = Len(ps) + Len(pt)
          /\ \A i \in 1 .. Len(ps) : (ps \o pt)[i] = ps[i]
          /\ \A i \in 1 .. Len(pt) : (ps \o pt)[Len(ps) + i] = pt[i]
      BY <3>1
    <3> QED BY <3>2 DEF T
  <2> QED BY <1>4, <2>1, Zenon
<1>6. \A i \in 1 .. Len(u) : P(u)[i] = (ps \o pt)[i]
  <2> SUFFICES ASSUME NEW i \in 1 .. Len(u) PROVE P(u)[i] = (ps \o pt)[i]
    OBVIOUS
  <2>1. CASE i \in 1 .. Len(s)
    BY <1>1, <1>3, <1>5, <2>1 DEF ps
  <2>2. CASE i \notin 1 .. Len(s)
    <3>1. PICK j \in 1 .. Len(t) : i = Len(s) + j
      <4>1. i - Len(s) \in 1 .. Len(t) /\ i = Len(s) + (i - Len(s))
        BY <1>1, <2>2
      <4> QED BY <4>1
    <3>2. P(u)[i] = DeltaOf(u[i]) /\ u[i] = t[j]
      BY <1>1, <1>3, <3>1
    <3>3. (ps \o pt)[i] = DeltaOf(t[j])
      BY <1>3, <1>5, <3>1 DEF pt
    <3> QED BY <3>2, <3>3
  <2> QED BY <2>1, <2>2
<1>7. P(u) = ps \o pt
  BY <1>1, <1>2, <1>3, <1>5, <1>6, SameSequence
<1>8. FlattenSeq(ps \o pt) = FlattenSeq(ps) \o FlattenSeq(pt)
  BY <1>4, FlattenConcat DEF Text
<1> QED BY <1>7, <1>8 DEF DeltasOf, P, ps, pt, u

LEMMA OneChunk ==
  ASSUME NEW c \in Chunk
  PROVE  <<c>> \in Seq(Chunk) /\ DeltasOf(<<c>>) = DeltaOf(c)
<1> DEFINE s == <<c>>
           P == [i \in DOMAIN s |-> DeltaOf(s[i])]
           x == DeltaOf(c)
           u == <<x>>
<1>1. s \in Seq(Chunk) /\ Len(s) = 1 /\ s[1] = c /\ DOMAIN s = 1 .. 1
  OBVIOUS
<1>2. x \in Text
  <2>1. << >> \in Text
    BY DEF Text
  <2> QED BY <2>1 DEF Chunk, DeltaOf
<1> HIDE DEF s, x
<1>3. P \in Seq(Text) /\ Len(P) = 1 /\ P[1] = x
  <2>1. P \in Seq(Text)
    BY <1>1, DeltasType
  <2>2. DOMAIN P = 1 .. 1 /\ P[1] = x
    BY <1>1 DEF x
  <2> HIDE DEF P
  <2>3. DOMAIN P = 1 .. Len(P) /\ Len(P) \in Nat
    BY <2>1
  <2> QED BY <2>1, <2>2, <2>3
<1>4. u \in Seq(Text) /\ Len(u) = 1 /\ u[1] = x
  BY <1>2
<1> HIDE DEF P, u
<1>5. P = u
  <2>1. Len(P) = Len(u) /\ \A i \in 1 .. Len(P) : P[i] = u[i]
    BY <1>3, <1>4
  <2> QED BY <1>3, <1>4, <2>1, SameSequence
<1>6. FlattenSeq(u) = x
  BY <1>2, FlattenOne DEF Text, u
<1> QED BY <1>1, <1>5, <1>6 DEF DeltasOf, P, s, x

LEMMA Pair ==
  ASSUME NEW S, NEW x \in S, NEW y \in S
  PROVE  <<x, y>> = <<x>> \o <<y>> /\ <<x, y>> \in Seq(S)
<1> DEFINE a == <<x>>
           b == <<y>>
           c == <<x, y>>
<1>1. /\ a \in Seq(S) /\ Len(a) = 1 /\ a[1] = x /\ b \in Seq(S) /\ Len(b) = 1 /\ b[1] = y
      /\ c \in Seq(S) /\ Len(c) = 2 /\ c[1] = x /\ c[2] = y
  OBVIOUS
<1> HIDE DEF a, b, c
<1>2. a \o b \in Seq(S) /\ Len(a \o b) = 2 /\ (a \o b)[1] = x /\ (a \o b)[2] = y
  <2> DEFINE d == a \o b
  <2>1. /\ d \in Seq(S) /\ Len(d) = Len(a) + Len(b)
        /\ \A i \in 1 .. Len(a) : d[i] = a[i]
        /\ \A i \in 1 .. Len(b) : d[Len(a) + i] = b[i]
    <3>1. \A v, w \in Seq(S) :
             /\ v \o w \in Seq(S) /\ Len(v \o w) = Len(v) + Len(w)
             /\ \A i \in 1 .. Len(v) : (v \o w)[i] = v[i]
             /\ \A i \in 1 .. Len(w) : (v \o w)[Len(v) + i] = w[i]
      OBVIOUS
    <3> QED BY <1>1, <3>1
  <2> HIDE DEF d
  <2>2. 1 \in 1 .. Len(a) /\ 1 \in 1 .. Len(b) /\ Len(a) + 1 = 2
    BY <1>1
  <2>3. d[1] = x /\ d[Len(a) + 1] = y
    BY <1>1, <2>1, <2>2
  <2> QED BY <1>1, <2>1, <2>2, <2>3 DEF d
<1>3. \A i \in 1 .. Len(c) : i = 1 \/ i = 2
  BY <1>1
<1>4. c = a \o b
  BY <1>1, <1>2, <1>3, SameSequence
<1> QED BY <1>1, <1>4 DEF a, b, c

\* The chunks for one output.
LEMMA ChunksLemma ==
  ASSUME NEW output, NEW why \in {"none", "stop", "length"}, Delta(detok, output) \in Text
  PROVE  LET s == Chunks(output, why)
         IN  /\ s \in Seq(Chunk)
             /\ DeltasOf(s) = Delta(detok, output)
             /\ \A i \in 1 .. Len(s) : s[i].type # "role"
             /\ \A i \in 1 .. Len(s) : s[i].type \in {"final", "done"} => why # "none" /\ i > Len(s) - 2
             /\ why # "none" => Len(s) >= 2 /\ s[Len(s) - 1].type = "final" /\ s[Len(s)].type = "done"
<1> DEFINE x == Delta(detok, output)
           dc == [type |-> "delta", text |-> x]
           fc == [type |-> "final", reason |-> why]
           ec == [type |-> "done"]
           D == IF x = << >> THEN << >> ELSE <<dc>>
           F == IF why = "none" THEN << >> ELSE <<fc, ec>>
<1> HIDE DEF x
<1>1. Chunks(output, why) = D \o F /\ x \in Text
  BY DEF Chunks, x
<1>2. D \in Seq(Chunk) /\ DeltasOf(D) = x /\ \A i \in 1 .. Len(D) : D[i].type = "delta"
  <2>1. CASE x = << >>
    <3>1. D = << >>
      BY <2>1
    <3>2. DeltasOf(<< >>) = << >>
      BY DEF DeltasOf, FlattenSeq
    <3>3. << >> \in Seq(Chunk) /\ Len(<< >>) = 0
      OBVIOUS
    <3> QED BY <2>1, <3>1, <3>2, <3>3
  <2>2. CASE x # << >>
    <3>1. dc \in Chunk
      BY <1>1 DEF Chunk
    <3>2. dc.type = "delta" /\ dc.text = x
      OBVIOUS
    <3>3. DeltaOf(dc) = x
      BY <3>2 DEF DeltaOf
    <3>4. D = <<dc>>
      BY <2>2
    <3> HIDE DEF dc, D
    <3>5. <<dc>> \in Seq(Chunk) /\ DeltasOf(<<dc>>) = x
      BY <3>1, <3>3, OneChunk
    <3>6. Len(<<dc>>) = 1 /\ <<dc>>[1] = dc
      OBVIOUS
    <3> QED BY <3>2, <3>4, <3>5, <3>6
  <2> QED BY <2>1, <2>2
<1>3. /\ F \in Seq(Chunk) /\ DeltasOf(F) = << >>
      /\ why = "none" => F = << >> /\ Len(F) = 0
      /\ why # "none" => Len(F) = 2 /\ F[1].type = "final" /\ F[2].type = "done"
  <2>1. CASE why = "none"
    <3>1. F = << >>
      BY <2>1
    <3>2. DeltasOf(<< >>) = << >>
      BY DEF DeltasOf, FlattenSeq
    <3>3. << >> \in Seq(Chunk) /\ Len(<< >>) = 0
      OBVIOUS
    <3> QED BY <2>1, <3>1, <3>2, <3>3
  <2>2. CASE why # "none"
    <3>1. fc \in Chunk /\ ec \in Chunk
      BY <2>2 DEF Chunk
    <3>2. fc.type = "final" /\ ec.type = "done"
      OBVIOUS
    <3>3. DeltaOf(fc) = << >> /\ DeltaOf(ec) = << >>
      BY <3>2 DEF DeltaOf
    <3>4. F = <<fc, ec>>
      BY <2>2
    <3> HIDE DEF fc, ec, F
    <3>5. <<fc, ec>> = <<fc>> \o <<ec>> /\ <<fc, ec>> \in Seq(Chunk)
      BY <3>1, Pair
    <3>6. Len(<<fc, ec>>) = 2 /\ <<fc, ec>>[1] = fc /\ <<fc, ec>>[2] = ec
      OBVIOUS
    <3> DEFINE a == <<fc>>
               b == <<ec>>
    <3>7. a \in Seq(Chunk) /\ b \in Seq(Chunk) /\ DeltasOf(a) = << >> /\ DeltasOf(b) = << >>
      BY <3>1, <3>3, OneChunk
    <3>8. <<fc, ec>> = a \o b
      BY <3>5
    <3> HIDE DEF a, b
    <3>9. DeltasOf(a \o b) = << >> \o << >>
      BY <3>7, DeltasConcat
    <3>10. << >> \o << >> = << >>
      OBVIOUS
    <3>11. DeltasOf(F) = << >>
      BY <3>4, <3>8, <3>9, <3>10
    <3> QED BY <2>2, <3>2, <3>4, <3>5, <3>6, <3>11
  <2> QED BY <2>1, <2>2
<1> HIDE DEF D, F
<1> DEFINE s == D \o F
<1>4. /\ s \in Seq(Chunk) /\ Len(s) = Len(D) + Len(F) /\ Len(D) \in Nat /\ Len(F) \in Nat
      /\ \A i \in 1 .. Len(D) : s[i] = D[i]
      /\ \A i \in 1 .. Len(F) : s[Len(D) + i] = F[i]
  BY <1>2, <1>3, ConcatLemma
<1>5. DeltasOf(s) = x
  <2>1. DeltasOf(s) = DeltasOf(D) \o DeltasOf(F)
    BY <1>2, <1>3, DeltasConcat
  <2>2. x \o << >> = x
    BY <1>1, ConcatEmpty DEF Text
  <2> QED BY <1>2, <1>3, <2>1, <2>2
<1> HIDE DEF s
<1>6. ASSUME NEW i \in 1 .. Len(s)
      PROVE  s[i].type # "role" /\ (s[i].type \in {"final", "done"} => why # "none" /\ i > Len(s) - 2)
  <2>1. CASE i <= Len(D)
    BY <1>2, <1>4, <2>1
  <2>2. CASE i > Len(D)
    <3>1. PICK j \in 1 .. Len(F) : i = Len(D) + j
      <4>1. i - Len(D) \in 1 .. Len(F) /\ i = Len(D) + (i - Len(D))
        BY <1>4, <2>2
      <4> QED BY <4>1
    <3>2. s[i] = F[j] /\ why # "none" /\ Len(F) = 2
      BY <1>3, <1>4, <3>1
    <3>3. j = 1 \/ j = 2
      BY <3>2
    <3>4. i > Len(s) - 2
      BY <1>4, <3>1, <3>2, <3>3
    <3>5. F[j].type \in {"final", "done"}
      BY <1>3, <3>2, <3>3
    <3> QED BY <3>2, <3>4, <3>5
  <2> QED BY <1>4, <2>1, <2>2
<1>7. why # "none" => Len(s) >= 2 /\ s[Len(s) - 1].type = "final" /\ s[Len(s)].type = "done"
  <2> SUFFICES ASSUME why # "none"
               PROVE  Len(s) >= 2 /\ s[Len(s) - 1].type = "final" /\ s[Len(s)].type = "done"
    OBVIOUS
  <2>0. Len(F) = 2
    BY <1>3
  <2>1. Len(s) - 1 = Len(D) + 1 /\ Len(s) = Len(D) + 2 /\ 1 \in 1 .. Len(F) /\ 2 \in 1 .. Len(F)
    BY <1>4, <2>0
  <2>2. s[Len(D) + 1] = F[1] /\ s[Len(D) + 2] = F[2]
    BY <1>4, <2>1
  <2> QED BY <1>3, <1>4, <2>1, <2>2
<1> QED BY <1>1, <1>4, <1>5, <1>6, <1>7 DEF s, x

LEMMA ServerInitInv == ServerInit => ServerInv
<1> SUFFICES ASSUME ServerInit PROVE ServerInv
  OBVIOUS
<1> USE DEF ServerInit
<1>1. << >> \in Seq(Text) /\ << >> \in Seq(Token) /\ << >> \in Seq(Chunk) /\ << >> \in Text
  BY DEF Text
<1>2. ServerTypeOK
  BY <1>1 DEF ServerTypeOK
<1>3. DropInv
  BY ServerAssumption DEF DropInv
<1>4. Fits(detok, toks)
  <2>1. SubSeq(<< >>, 1, 0) = << >>
    OBVIOUS
  <2>2. Bytes(<< >>) = << >>
    BY DEF Bytes, FlattenSeq
  <2>3. Decode(<< >>) = << >>
    <3>1. << >> \in Seq(Token)
      OBVIOUS
    <3> QED BY <2>2, <3>1, WholeText
  <2>4. Whole(<< >>)
    BY <2>2 DEF Whole
  <2>5. detok \in [prefixOffset : Nat, readOffset : Nat, text : Text]
    BY <1>1 DEF NewDetokenizer
  <2>6. detok.prefixOffset = 0 /\ detok.readOffset = 0 /\ detok.text = << >> /\ toks = << >> /\ Len(toks) = 0
    BY DEF NewDetokenizer
  <2>7. /\ detok.prefixOffset <= detok.readOffset /\ detok.readOffset <= Len(toks)
        /\ Whole(SubSeq(toks, 1, detok.prefixOffset)) /\ Whole(SubSeq(toks, 1, detok.readOffset))
        /\ detok.text = Decode(SubSeq(toks, 1, detok.readOffset))
    <3>1. SubSeq(toks, 1, detok.prefixOffset) = << >> /\ SubSeq(toks, 1, detok.readOffset) = << >>
      BY <2>1, <2>6
    <3>2. detok.prefixOffset <= detok.readOffset /\ detok.readOffset <= Len(toks)
      BY <2>6
    <3> QED BY <2>3, <2>4, <2>6, <3>1, <3>2
  <2> QED BY <2>5, <2>6, <2>7 DEF Fits
<1>5. HandlerInv /\ SentInv
  BY <1>4 DEF HandlerInv, SentInv
<1> QED BY <1>2, <1>3, <1>5 DEF ServerInv

\* What the schema lets through, SamplingParams lets through.
LEMMA ParamsFollowSchema ==
  ASSUME NEW f \in Fields, SchemaAccepts(f)
  PROVE  ParamsAccept(ToParams(f))
<1>1. f \in [maxTokens : Int, temperature : Int, topP : Int, topK : Int, minP : Int,
             penalty : Int, repetition : Int, logprobs : Int]
  BY ServerAssumption
<1> DEFINE p == ToParams(f)
<1>2. /\ p.maxTokens = IF f.maxTokens \in {NoMaxTokens, 0} THEN 128 ELSE f.maxTokens
      /\ p.temperature = f.temperature /\ p.topP = f.topP /\ p.topK = f.topK /\ p.minP = f.minP
      /\ p.penalty = f.penalty /\ p.repetition = f.repetition /\ p.logprobs = f.logprobs
  BY <1>1 DEF ToParams
<1> HIDE DEF p
<1>3. p.maxTokens >= 1
  BY <1>1, <1>2 DEF SchemaAccepts, NoMaxTokens
<1>4. ParamsAccept(p)
  BY <1>1, <1>2, <1>3 DEF SchemaAccepts, ParamsAccept
<1> QED BY <1>4 DEF p

\* Before the first token.
LEMMA NothingGiven == GivenOut(<< >>, << >>) /\ Decode(<< >>) = << >>
<1>1. Bytes(<< >>) = << >>
  BY DEF Bytes, FlattenSeq
<1>2. Decode(<< >>) = << >>
  <2>1. << >> \in Seq(Token)
    OBVIOUS
  <2> QED BY <1>1, <2>1, WholeText
<1>3. IsPrefix(<< >>, << >>)
  BY DEF IsPrefix
<1> QED BY <1>2, <1>3 DEF GivenOut

LEMMA PostInv ==
  ASSUME ServerInv, Post
  PROVE  ServerInv'
<1> USE DEF ServerInv
<1>1. PICK f \in Fields, n \in PromptLens, kind \in {"collect", "completion", "chat"},
           stops \in StopLists :
          /\ reply' = IF ~SchemaAccepts(f) THEN "422"
                      ELSE IF ~ParamsAccept(ToParams(f)) THEN "raised"
                      ELSE IF n >= MaxModelLen THEN "400"
                      ELSE "open"
          /\ call' = [kind |-> kind, stops |-> stops]
          /\ sent' = IF reply' = "open" /\ kind = "chat" THEN <<[type |-> "role"]>> ELSE << >>
  BY DEF Post
<1>2. /\ reply = "none" /\ toks = << >> /\ detok = NewDetokenizer
      /\ UNCHANGED <<toks, reason, tick, detok, gone>>
  BY DEF Post, HandlerInv
<1>3. reply' \in {"422", "400", "open"}
  BY <1>1, ParamsFollowSchema
<1>4. call' \in [kind : {"collect", "completion", "chat"}, stops : Seq(Text)] /\ call'.kind = kind
  BY <1>1, ServerAssumption DEF Text
<1> DEFINE role == [type |-> "role"]
<1>5. role \in Chunk /\ <<role>> \in Seq(Chunk) /\ role.type = "role" /\ DeltasOf(<<role>>) = << >>
  <2>1. role \in Chunk
    BY DEF Chunk
  <2>2. role.type = "role"
    OBVIOUS
  <2> HIDE DEF role
  <2> QED BY <2>1, <2>2, OneChunk DEF DeltaOf
<1>6. << >> \in Seq(Chunk) /\ DeltasOf(<< >>) = << >>
  BY DEF DeltasOf, FlattenSeq
<1>7. sent' = IF reply' = "open" /\ kind = "chat" THEN <<role>> ELSE << >>
  BY <1>1
<1> HIDE DEF role
<1>8. ServerTypeOK'
  BY <1>2, <1>3, <1>4, <1>5, <1>6, <1>7 DEF ServerTypeOK
<1>9. DropInv'
  <2>1. gone = -1 /\ tick \in Nat
    BY <1>2 DEF ServerTypeOK, HandlerInv
  <2>2. tick % DisconnectEvery \in 0 .. DisconnectEvery - 1
    BY <2>1, ServerAssumption, NextRemainder
  <2> QED BY <1>2, <2>1, <2>2, ServerAssumption DEF DropInv
<1>10. HandlerInv'
  <2>1. detok.text = << >> /\ reason = "none"
    BY <1>2 DEF NewDetokenizer, HandlerInv
  <2>2. GivenOut(detok.text, toks)
    BY <1>2, <2>1, NothingGiven
  <2> QED BY <1>2, <1>3, <1>4, <2>1, <2>2 DEF HandlerInv
<1>11. SentInv'
  <2>1. detok'.text = << >>
    BY <1>2 DEF NewDetokenizer
  <2>2. DeltaText' = DeltasOf(sent')
    BY DEF DeltaText, DeltasOf, DeltaOf
  <2>3. reply' # "answered"
    BY <1>3
  <2>4. CASE reply' = "open" /\ kind = "chat"
    <3>1. sent' = <<role>> /\ call'.kind = "chat"
      BY <1>4, <1>7, <2>4
    <3>2. DOMAIN sent' = 1 .. 1 /\ sent'[1] = role /\ sent' # << >>
      BY <3>1
    <3> QED BY <1>5, <2>1, <2>2, <2>3, <3>1, <3>2 DEF SentInv
  <2>5. CASE reply' # "open" \/ kind # "chat"
    <3>1. sent' = << >> /\ DOMAIN sent' = {}
      BY <1>7, <2>5
    <3>2. (reply' = "open") => call'.kind # "chat"
      BY <1>4, <2>5
    <3> QED BY <1>6, <2>1, <2>2, <2>3, <3>1, <3>2 DEF SentInv
  <2> QED BY <2>4, <2>5
<1> QED BY <1>8, <1>9, <1>10, <1>11

LEMMA OutputInv ==
  ASSUME ServerInv, Output
  PROVE  ServerInv'
<1> USE DEF ServerInv
<1>1. PICK t \in Token, why \in {"none", "stop", "length"} :
          /\ toks' = Append(toks, t)
          /\ reason' = why
          /\ detok' = Fed(detok, toks')
          /\ sent' = IF Streams THEN sent \o Chunks(toks', why)
                     ELSE IF why = "none" THEN sent
                     ELSE <<Response(detok', toks', why)>>
          /\ reply' = IF why = "none" THEN "open" ELSE "answered"
  BY DEF Output
<1>2. /\ reply = "open" /\ reason = "none" /\ ~Dropped
      /\ tick' = tick + 1
      /\ gone' = IF gone >= 0 THEN gone + 1 ELSE gone
      /\ call' = call
  BY DEF Output
<1>3. toks \in Seq(Token) /\ toks' \in Seq(Token) /\ Len(toks') \in Nat
  BY <1>1 DEF ServerTypeOK
<1>4. Fits(detok, toks')
  BY <1>1, <1>3, FitsAppend DEF HandlerInv
<1> DEFINE x == Delta(detok, toks')
<1>5. x \in Text /\ detok'.text = detok.text \o x /\ Fits(detok', toks') /\ GivenOut(detok'.text, toks')
  BY <1>1, <1>3, <1>4, FedLemma
<1> HIDE DEF x
<1>6. detok.text \in Text /\ detok'.text \in Text
  BY <1>5 DEF HandlerInv, Fits
<1>7. DropInv'
  <2>1. tick \in Nat /\ DisconnectEvery \in Nat \ {0} /\ gone \in Nat \cup {-1} /\ gone <= tick % DisconnectEvery
    BY <1>2, ServerAssumption DEF ServerTypeOK, DropInv
  <2>2. /\ tick % DisconnectEvery \in 0 .. DisconnectEvery - 1
        /\ (tick + 1) % DisconnectEvery # 0 => (tick + 1) % DisconnectEvery = (tick % DisconnectEvery) + 1
        /\ (tick + 1) % DisconnectEvery \in 0 .. DisconnectEvery - 1
    <3>1. tick + 1 \in Nat
      BY <2>1
    <3> QED BY <2>1, <3>1, NextRemainder
  <2>3. gone' <= (tick + 1) % DisconnectEvery
    <3>1. CASE gone >= 0
      BY <1>2, <2>1, <2>2, <3>1 DEF Dropped
    <3>2. CASE ~(gone >= 0)
      BY <1>2, <2>1, <2>2, <3>2
    <3> QED BY <3>1, <3>2
  <2>4. gone' < DisconnectEvery
    <3>1. gone' \in Int
      BY <1>2, <2>1
    <3> QED BY <2>1, <2>2, <2>3, <3>1
  <2> QED BY <1>2, <2>3, <2>4 DEF DropInv
<1>8. HandlerInv'
  BY <1>1, <1>2, <1>5 DEF HandlerInv
<1>9. Streams' <=> Streams
  BY <1>2 DEF Streams
<1>10. gone' \in Nat \cup {-1} /\ tick' \in Nat /\ reply' \in {"open", "answered"}
  BY <1>1, <1>2 DEF ServerTypeOK
<1>11. CASE Streams
  <2> DEFINE c == Chunks(toks', why)
             s == sent \o c
  <2>1. /\ c \in Seq(Chunk) /\ DeltasOf(c) = x
        /\ \A i \in 1 .. Len(c) : c[i].type # "role"
        /\ \A i \in 1 .. Len(c) : c[i].type \in {"final", "done"} => why # "none" /\ i > Len(c) - 2
        /\ why # "none" => Len(c) >= 2 /\ c[Len(c) - 1].type = "final" /\ c[Len(c)].type = "done"
    BY <1>5, ChunksLemma DEF x
  <2> HIDE DEF c
  <2>2. sent \in Seq(Chunk) /\ sent' = s /\ DeltaText = DeltasOf(sent) /\ DeltaText' = DeltasOf(sent')
    BY <1>1, <1>11 DEF ServerTypeOK, DeltaText, DeltasOf, DeltaOf, c
  <2>3. /\ s \in Seq(Chunk) /\ Len(s) = Len(sent) + Len(c) /\ Len(sent) \in Nat /\ Len(c) \in Nat
        /\ \A i \in 1 .. Len(sent) : s[i] = sent[i]
        /\ \A i \in 1 .. Len(c) : s[Len(sent) + i] = c[i]
    BY <2>1, <2>2, ConcatLemma
  <2>4. ServerTypeOK'
    BY <1>1, <1>2, <1>3, <1>10, <2>2, <2>3 DEF ServerTypeOK
  <2>5. DeltaText' = detok'.text
    <3>1. DeltasOf(s) = DeltasOf(sent) \o x
      BY <2>1, <2>2, DeltasConcat
    <3>2. DeltasOf(sent) = detok.text
      BY <1>2, <1>11, <2>2 DEF SentInv
    <3> QED BY <1>5, <2>2, <3>1, <3>2
  <2> HIDE DEF s
  <2>6. /\ call.kind = "chat" => sent # << >>
        /\ \A i \in 1 .. Len(sent) : sent[i].type = "role" <=> i = 1 /\ call.kind = "chat"
        /\ \A i \in 1 .. Len(sent) : sent[i].type \notin {"final", "done"}
    <3>1. DOMAIN sent = 1 .. Len(sent)
      BY <2>2
    <3> QED BY <1>2, <1>11, <3>1 DEF SentInv
  <2>7. call.kind = "chat" => Len(sent) # 0
    BY <2>2, <2>6
  <2>8. ASSUME NEW i \in 1 .. Len(s)
        PROVE  /\ s[i].type = "role" <=> i = 1 /\ call.kind = "chat"
               /\ s[i].type \in {"final", "done"} => why # "none" /\ i > Len(s) - 2
    <3>1. CASE i <= Len(sent)
      <4>1. i \in 1 .. Len(sent) /\ s[i] = sent[i]
        BY <2>3, <3>1
      <4> QED BY <2>6, <4>1
    <3>2. CASE i > Len(sent)
      <4>1. PICK j \in 1 .. Len(c) : i = Len(sent) + j
        <5>1. i - Len(sent) \in 1 .. Len(c) /\ i = Len(sent) + (i - Len(sent))
          BY <2>3, <3>2
        <5> QED BY <5>1
      <4>2. s[i] = c[j]
        BY <2>3, <4>1
      <4>3. i = 1 => call.kind # "chat"
        BY <2>3, <2>7, <4>1
      <4>4. c[j].type \in {"final", "done"} => why # "none" /\ j > Len(c) - 2
        BY <2>1
      <4>5. j > Len(c) - 2 => i > Len(s) - 2
        BY <2>3, <4>1
      <4> QED BY <2>1, <4>2, <4>3, <4>4, <4>5
    <3> QED BY <2>3, <3>1, <3>2
  <2>9. why # "none" => Len(s) >= 2 /\ s[Len(s) - 1].type = "final" /\ s[Len(s)].type = "done"
    <3> SUFFICES ASSUME why # "none"
                 PROVE  Len(s) >= 2 /\ s[Len(s) - 1].type = "final" /\ s[Len(s)].type = "done"
      OBVIOUS
    <3>0. Len(c) >= 2 /\ Len(c) \in Nat
      BY <2>1, <2>3
    <3>1. Len(c) - 1 \in 1 .. Len(c) /\ Len(c) \in 1 .. Len(c)
      BY <3>0
    <3>2. Len(s) - 1 = Len(sent) + (Len(c) - 1) /\ Len(s) = Len(sent) + Len(c) /\ Len(s) >= 2
      BY <2>3, <3>0
    <3>3. s[Len(sent) + (Len(c) - 1)] = c[Len(c) - 1] /\ s[Len(sent) + Len(c)] = c[Len(c)]
      BY <2>3, <3>1
    <3> QED BY <2>1, <3>2, <3>3
  <2>10. SentInv'
    <3>1. DOMAIN s = 1 .. Len(s) /\ (call.kind = "chat" => s # << >>)
      BY <2>3, <2>7
    <3>2. reply' = "answered" <=> why # "none"
      BY <1>1
    <3> QED BY <1>2, <1>9, <1>11, <2>2, <2>5, <2>8, <2>9, <3>1, <3>2 DEF SentInv
  <2> QED BY <1>7, <1>8, <2>4, <2>10
<1>12. CASE ~Streams
  <2> DEFINE c == Response(detok', toks', why)
  <2>1. why # "none" => c \in Chunk /\ <<c>> \in Seq(Chunk) /\ <<c>>[1] = c
    <3>1. call.stops \in Seq(Text)
      BY DEF ServerTypeOK
    <3>2. Cut(detok'.text, call.stops) \in Text
      BY <1>6, <3>1, CutLemma
    <3>3. why # "none" => c \in Chunk
      BY <1>3, <3>2 DEF Response, Chunk
    <3> HIDE DEF c
    <3> QED BY <3>3
  <2> HIDE DEF c
  <2>2. sent' = IF why = "none" THEN sent ELSE <<c>>
    BY <1>1, <1>12 DEF c
  <2>3. ServerTypeOK'
    BY <1>1, <1>2, <1>3, <1>10, <2>1, <2>2 DEF ServerTypeOK
  <2>4. reply' = "answered" => sent'[1] = c /\ c = Response(detok, toks, reason)'
    BY <1>1, <1>2, <2>1, <2>2 DEF c, Response
  <2>5. SentInv'
    BY <1>9, <1>12, <2>4 DEF SentInv
  <2> QED BY <1>7, <1>8, <2>3, <2>5
<1> QED BY <1>11, <1>12

\* The ways a handler ends without an answer.
LEMMA LeaveInv ==
  ASSUME ServerInv, NoticeDrop \/ EngineError \/ CloseStream
  PROVE  ServerInv'
<1> USE DEF ServerInv
<1>1. /\ reply' \in {"dropped", "broken", "500", "closed"} /\ tick' \in {tick, tick + 1}
      /\ UNCHANGED <<call, toks, reason, detok, sent, gone>>
  BY DEF NoticeDrop, EngineError, CloseStream
<1>2. ServerTypeOK'
  BY <1>1 DEF ServerTypeOK
<1>3. DropInv' /\ HandlerInv'
  BY <1>1 DEF DropInv, HandlerInv
<1>4. SentInv'
  BY <1>1 DEF SentInv
<1> QED BY <1>2, <1>3, <1>4

LEMMA ClientVanishesInv ==
  ASSUME ServerInv, ClientVanishes
  PROVE  ServerInv'
<1> USE DEF ServerInv
<1>1. gone' = 0 /\ reply = "open" /\ UNCHANGED <<reply, call, toks, reason, tick, detok, sent>>
  BY DEF ClientVanishes
<1>2. DropInv'
  <2>1. tick % DisconnectEvery \in 0 .. DisconnectEvery - 1
    BY ServerAssumption, NextRemainder DEF ServerTypeOK
  <2> QED BY <1>1, <2>1, ServerAssumption DEF DropInv
<1>3. ServerTypeOK' /\ HandlerInv'
  BY <1>1 DEF ServerTypeOK, HandlerInv
<1>4. Streams' = Streams /\ DeltaText' = DeltaText /\ Response(detok, toks, reason)' = Response(detok, toks, reason)
  BY <1>1 DEF Streams, DeltaText, Response
<1>5. SentInv'
  BY <1>1, <1>4 DEF SentInv
<1> QED BY <1>2, <1>3, <1>5

LEMMA ServerNextInv == ServerInv /\ [ServerNext]_serverVars => ServerInv'
<1> SUFFICES ASSUME ServerInv, [ServerNext]_serverVars PROVE ServerInv'
  OBVIOUS
<1>1. CASE Post
  BY <1>1, PostInv
<1>2. CASE Output
  BY <1>2, OutputInv
<1>3. CASE NoticeDrop \/ EngineError \/ CloseStream
  BY <1>3, LeaveInv
<1>4. CASE ClientVanishes
  BY <1>4, ClientVanishesInv
<1>5. CASE UNCHANGED serverVars
  <2>1. UNCHANGED <<reply, call, toks, reason, tick, detok, sent, gone>>
    BY <1>5 DEF serverVars
  <2>2. Streams' = Streams /\ DeltaText' = DeltaText /\ Response(detok, toks, reason)' = Response(detok, toks, reason)
    BY <2>1 DEF Streams, DeltaText, Response
  <2> QED BY <2>1, <2>2 DEF ServerInv, ServerTypeOK, DropInv, HandlerInv, SentInv
<1> QED BY <1>1, <1>2, <1>3, <1>4, <1>5 DEF ServerNext

\* A stream that ends with a reason and the mark of its end.
LEMMA StreamEnd ==
  ASSUME NEW s \in Seq(Chunk), Len(s) >= 2, s[Len(s) - 1].type = "final", s[Len(s)].type = "done",
         NEW types, types = [i \in DOMAIN s |-> s[i].type]
  PROVE  SubSeq(types, Len(s) - 1, Len(s)) = <<"final", "done">>
<1> DEFINE n == Len(s)
           S == {s[i].type : i \in 1 .. n}
           a == SubSeq(types, n - 1, n)
           b == <<"final", "done">>
<1>1. n \in Nat /\ n >= 2 /\ n - 1 \in 1 .. n /\ n \in 1 .. n /\ DOMAIN s = 1 .. n
  OBVIOUS
<1>2. \A i \in 1 .. n : s[i].type \in S
  OBVIOUS
<1>3. "final" \in S /\ "done" \in S
  BY <1>1, <1>2, Zenon
<1> HIDE DEF S, n
<1>4. types \in Seq(S) /\ Len(types) = n /\ types[n - 1] = "final" /\ types[n] = "done"
  BY <1>1, <1>2 DEF n
<1>5. a \in Seq(S) /\ Len(a) = 2 /\ a[1] = types[n - 1] /\ a[2] = types[n]
  <2>1. \A z \in Seq(S) : \A i \in 1 .. Len(z) : i + 1 <= Len(z) =>
           /\ SubSeq(z, i, i + 1) \in Seq(S) /\ Len(SubSeq(z, i, i + 1)) = 2
           /\ SubSeq(z, i, i + 1)[1] = z[i] /\ SubSeq(z, i, i + 1)[2] = z[i + 1]
    OBVIOUS
  <2> DEFINE k == n - 1
  <2>2. k \in 1 .. n /\ k + 1 <= n /\ n = k + 1
    BY <1>1
  <2>3. a = SubSeq(types, k, k + 1)
    BY <2>2
  <2>4. /\ SubSeq(types, k, k + 1) \in Seq(S) /\ Len(SubSeq(types, k, k + 1)) = 2
        /\ SubSeq(types, k, k + 1)[1] = types[k] /\ SubSeq(types, k, k + 1)[2] = types[k + 1]
    <3> HIDE DEF k, a
    <3> QED BY <1>4, <2>1, <2>2
  <2> HIDE DEF a
  <2> QED BY <2>2, <2>3, <2>4
<1>6. b \in Seq(S) /\ Len(b) = 2 /\ b[1] = "final" /\ b[2] = "done"
  BY <1>3
<1> HIDE DEF a, b
<1>7. a = b
  <2>1. \A i \in 1 .. Len(a) : a[i] = b[i]
    BY <1>4, <1>5, <1>6
  <2> QED BY <1>5, <1>6, <2>1, SameSequence, SMTT(40)
<1> QED BY <1>7 DEF a, b, n

LEMMA AnswerFollows == ServerInv => AnswerIsExact
<1> SUFFICES ASSUME ServerInv PROVE AnswerIsExact
  OBVIOUS
<1> USE DEF ServerInv
<1>1. ASSUME Streams, reply \in {"open", "answered"}
      PROVE  /\ IsPrefix(DeltaText, Decode(toks))
             /\ Stable(Decode(toks)) => DeltaText = Decode(toks)
             /\ \A i \in DOMAIN sent : sent[i].type = "role" <=> i = 1 /\ call.kind = "chat"
             /\ \A i \in DOMAIN sent : sent[i].type \in {"final", "done"} =>
                   reply = "answered" /\ i > Len(sent) - 2
             /\ reply = "answered" => Len(sent) >= 2 /\ SubSeq(Types, Len(sent) - 1, Len(sent)) = <<"final", "done">>
  <2>1. DeltaText = detok.text /\ GivenOut(detok.text, toks)
    BY <1>1 DEF SentInv, HandlerInv
  <2>2. IsPrefix(DeltaText, Decode(toks)) /\ (Stable(Decode(toks)) => DeltaText = Decode(toks))
    BY <2>1 DEF GivenOut
  <2>3. reply = "answered" => Len(sent) >= 2 /\ SubSeq(Types, Len(sent) - 1, Len(sent)) = <<"final", "done">>
    BY <1>1, StreamEnd DEF SentInv, ServerTypeOK, Types
  <2> QED BY <1>1, <2>2, <2>3 DEF SentInv
<1>2. ASSUME ~Streams, reply = "answered"
      PROVE  /\ Stable(Decode(toks)) => sent[1].text = Cut(Decode(toks), call.stops)
             /\ \A i \in DOMAIN call.stops : call.stops[i] # << >> => Found(sent[1].text, call.stops[i]) = {}
             /\ sent[1].text # detok.text => sent[1].reason = "stop"
             /\ Len(call.stops) = 1 /\ Found(detok.text, call.stops[1]) # {} =>
                   Len(sent[1].text) = Min(Found(detok.text, call.stops[1]))
             /\ sent[1].count = Len(toks)
  <2> DEFINE x == Cut(detok.text, call.stops)
  <2>1. sent[1] = Response(detok, toks, reason) /\ GivenOut(detok.text, toks)
    BY <1>2 DEF SentInv, HandlerInv
  <2>2. /\ sent[1].text = x /\ sent[1].count = Len(toks)
        /\ IsCut(detok.text, call.stops) => sent[1].reason = "stop"
    BY <2>1 DEF Response
  <2>3. detok.text \in Text /\ call.stops \in Seq(Text) /\ DOMAIN call.stops = 1 .. Len(call.stops)
    BY DEF ServerTypeOK, HandlerInv, Fits
  <2>4. /\ x # detok.text => IsCut(detok.text, call.stops)
        /\ \A i \in 1 .. Len(call.stops) : call.stops[i] # << >> => Found(x, call.stops[i]) = {}
        /\ Len(call.stops) = 1 /\ Found(detok.text, call.stops[1]) # {} => Len(x) = Min(Found(detok.text, call.stops[1]))
    BY <2>3, CutLemma
  <2>5. Stable(Decode(toks)) => x = Cut(Decode(toks), call.stops)
    BY <2>1 DEF GivenOut
  <2> HIDE DEF x
  <2> QED BY <2>2, <2>3, <2>4, <2>5
<1> QED BY <1>1, <1>2 DEF AnswerIsExact

LEMMA ServerIsInductive == ServerSpec => []ServerInv
  BY ServerInitInv, ServerNextInv, PTL DEF ServerSpec

\* Every stream has sent a prefix of the text of its tokens, and every response is
\* that text cut at the stop strings: the detokenizer that decodes a few tokens at
\* a time (tokenizer.py) gives what decoding all of them gives, for any
\* vocabulary and any tokens.
THEOREM AnswerCorrect == ServerSpec => []AnswerIsExact
  BY ServerIsInductive, AnswerFollows, PTL

\* A client that is gone is noticed within DisconnectEvery outputs, for every
\* DisconnectEvery (_dropped of api_server.py).
THEOREM DropNoticed == ServerSpec => []DropIsNoticed
<1>1. ServerInv => DropIsNoticed
  BY DEF ServerInv, DropInv, DropIsNoticed
<1> QED BY <1>1, ServerIsInductive, PTL

\* No body the schema lets through makes SamplingParams raise (protocol.py).
THEOREM BadValueIsTheClients == ServerSpec => []NoServerError
<1>1. ServerInv => NoServerError
  BY DEF ServerInv, HandlerInv, NoServerError
<1> QED BY <1>1, ServerIsInductive, PTL

-----------------------------------------------------------------------------
(* The statistics. *)

\* Evicting drops the old entries at the front, up to the first that is not old.
LEMMA EvictLemma ==
  ASSUME NEW S, NEW dq \in Seq(S), NEW now \in Int, \A i \in 1 .. Len(dq) : dq[i].t \in Int
  PROVE  \E e \in 0 .. Len(dq) :
            /\ Evict(dq, now) \in Seq(S) /\ Len(Evict(dq, now)) = Len(dq) - e
            /\ \A i \in 1 .. Len(dq) - e : Evict(dq, now)[i] = dq[e + i]
            /\ \A i \in 1 .. e : dq[i].t < now - Window
            /\ e < Len(dq) => dq[e + 1].t >= now - Window
<1> DEFINE n == Len(dq)
           cut == now - Window
           T == {k \in Nat : k >= 1 /\ (k <= n => ~(dq[k].t < cut))}
<1>1. n \in Nat /\ cut \in Int
  BY StatsAssumption
<1>2. T \subseteq Nat /\ T # {}
  <2>1. n + 1 \in T
    BY <1>1
  <2> QED BY <2>1
<1>3. PICK k \in T : \A m \in T : k <= m
  <2> HIDE DEF T
  <2> QED BY <1>2, LeastNatural
<1>4. k \in Nat /\ k >= 1 /\ k <= n + 1 /\ (k <= n => ~(dq[k].t < cut))
  <2>1. n + 1 \in T
    BY <1>1
  <2> QED BY <1>1, <1>3, <2>1
<1>5. \A i \in 1 .. k - 1 : i \in 1 .. n /\ dq[i].t < cut
  <2> SUFFICES ASSUME NEW i \in 1 .. k - 1 PROVE i \in 1 .. n /\ dq[i].t < cut
    OBVIOUS
  <2>1. i \in Nat /\ i >= 1 /\ i < k /\ i \in 1 .. n
    BY <1>1, <1>4
  <2>2. i \notin T
    BY <1>3, <1>4, <2>1
  <2> QED BY <2>1, <2>2
<1> HIDE DEF T
<1> DEFINE e == k - 1
<1>6. e \in 0 .. n /\ e + 1 = k
  BY <1>1, <1>4
<1>7. OlderThan(dq, cut) = 1 .. e
  <2>1. DOMAIN dq = 1 .. n
    OBVIOUS
  <2>2. ASSUME NEW i \in 1 .. n PROVE (\A j \in 1 .. i : dq[j].t < cut) <=> i \in 1 .. e
    <3>1. i < k => \A j \in 1 .. i : j \in 1 .. k - 1
      BY <1>1, <1>4
    <3>2. ~(i < k) => k \in 1 .. i /\ k <= n
      BY <1>1, <1>4
    <3>3. i < k <=> i \in 1 .. e
      BY <1>1, <1>4
    <3> QED BY <1>4, <1>5, <3>1, <3>2, <3>3
  <2>3. \A i \in 1 .. e : i \in 1 .. n
    BY <1>5
  <2> HIDE DEF e, cut, n
  <2>4. OlderThan(dq, cut) = {i \in 1 .. n : \A j \in 1 .. i : dq[j].t < cut}
    BY <2>1 DEF OlderThan
  <2> QED BY <2>2, <2>3, <2>4
<1>8. Cardinality(1 .. e) = e
  <2>1. 1 \in Int /\ e \in Int /\ (IF 1 > e THEN 0 ELSE e - 1 + 1) = e
    BY <1>6
  <2> HIDE DEF e
  <2> QED BY <2>1, FS_Interval
<1>9. Evict(dq, now) = SubSeq(dq, e + 1, n)
  BY <1>7, <1>8 DEF Evict, DropFront
<1> DEFINE u == SubSeq(dq, e + 1, n)
<1>10. u \in Seq(S) /\ Len(u) = n - e /\ \A i \in 1 .. n - e : u[i] = dq[e + i]
  <2> HIDE DEF e
  <2>1. e \in 0 .. Len(dq) /\ n = Len(dq)
    BY <1>6
  <2>2. \A i \in 1 .. n - e : u[i] = dq[i + (e + 1) - 1] /\ i + (e + 1) - 1 = e + i
    BY <2>1
  <2> QED BY <2>1, <2>2
<1>11. e < n => dq[e + 1].t >= cut
  <2>1. e < n => k <= n /\ k \in 1 .. n
    BY <1>4, <1>6
  <2> QED BY <1>1, <1>4, <1>6, <2>1
<1>12. /\ Evict(dq, now) \in Seq(S) /\ Len(Evict(dq, now)) = n - e
       /\ \A i \in 1 .. n - e : Evict(dq, now)[i] = dq[e + i]
       /\ \A i \in 1 .. e : dq[i].t < cut
       /\ e < n => dq[e + 1].t >= cut
  BY <1>5, <1>9, <1>10, <1>11
<1> HIDE DEF e
<1> QED BY <1>6, <1>12

Step == [t : Nat, gen : Nat, proc : Nat, preempt : Nat]
Latency == [t : Nat, ms : Nat]

Ordered(h) == \A i, j \in 1 .. Len(h) : i <= j => h[i].t <= h[j].t

\* dq is what is left of h after old entries were dropped from the front.
LastOf(dq, h, cut) ==
    /\ Len(dq) <= Len(h)
    /\ \A i \in 1 .. Len(dq) : dq[i] = h[Len(h) - Len(dq) + i]
    /\ \A i \in 1 .. Len(h) - Len(dq) : h[i].t < cut

LEMMA EvictsLast ==
  ASSUME NEW S, \A x \in S : x.t \in Int, NEW dq \in Seq(S), NEW h \in Seq(S), NEW cut \in Int,
         LastOf(dq, h, cut), Ordered(h), NEW now \in Int, now - Window <= cut
  PROVE  /\ Evict(dq, now) \in Seq(S) /\ LastOf(Evict(dq, now), h, cut)
         /\ \A i \in 1 .. Len(Evict(dq, now)) : Evict(dq, now)[i].t >= now - Window
<1> DEFINE n == Len(dq)
           m == Len(h)
           u == Evict(dq, now)
           old == now - Window
<1>1. /\ n \in Nat /\ m \in Nat /\ n <= m /\ old \in Int /\ old <= cut
      /\ \A i \in 1 .. n : dq[i] = h[m - n + i]
      /\ \A i \in 1 .. m - n : h[i].t < cut
      /\ \A i \in 1 .. n : dq[i].t \in Int
      /\ \A i \in 1 .. m : h[i].t \in Int
  <2>1. Window \in Nat
    BY StatsAssumption
  <2>2. \A x \in S : x.t \in Int
    OBVIOUS
  <2>3. \A i \in 1 .. n : dq[i] \in S
    OBVIOUS
  <2>4. \A i \in 1 .. m : h[i] \in S
    OBVIOUS
  <2>5. n \in Nat /\ m \in Nat
    OBVIOUS
  <2>6. n <= m /\ (\A i \in 1 .. n : dq[i] = h[m - n + i]) /\ \A i \in 1 .. m - n : h[i].t < cut
    BY DEF LastOf
  <2> HIDE DEF n, m
  <2> QED BY <2>1, <2>2, <2>3, <2>4, <2>5, <2>6
<1>2. PICK e \in 0 .. n :
         /\ u \in Seq(S) /\ Len(u) = n - e
         /\ \A i \in 1 .. n - e : u[i] = dq[e + i]
         /\ \A i \in 1 .. e : dq[i].t < old
         /\ e < n => dq[e + 1].t >= old
  BY <1>1, EvictLemma
<1> HIDE DEF n, m, u, old
<1>3. \A i \in 1 .. n - e : u[i] = h[m - (n - e) + i]
  <2> SUFFICES ASSUME NEW i \in 1 .. n - e PROVE u[i] = h[m - (n - e) + i]
    OBVIOUS
  <2> DEFINE p == e + i
             r == m - n + p
  <2>1. p \in 1 .. n /\ r = m - (n - e) + i
    BY <1>1, SMTT(40)
  <2>2. u[i] = dq[p]
    BY <1>2
  <2> HIDE DEF p
  <2>3. dq[p] = h[r]
    BY <1>1, <2>1
  <2> HIDE DEF r
  <2> QED BY <2>1, <2>2, <2>3
<1>4. \A i \in 1 .. m - (n - e) : h[i].t < cut
  <2> SUFFICES ASSUME NEW i \in 1 .. m - (n - e), ~(i <= m - n) PROVE h[i].t < cut
    BY <1>1, SMTT(40)
  <2> DEFINE p == i - (m - n)
  <2>1. p \in 1 .. e /\ p \in 1 .. n /\ m - n + p = i /\ i \in 1 .. m
    BY <1>1, <1>2
  <2> HIDE DEF p
  <2>2. dq[p] = h[i] /\ dq[p].t < old
    BY <1>1, <1>2, <2>1
  <2>3. h[i].t < old /\ h[i].t \in Int
    BY <1>1, <2>1, <2>2
  <2> QED BY <1>1, <2>3, SMTT(40)
<1>5. \A i \in 1 .. n - e : u[i].t >= old
  <2> SUFFICES ASSUME NEW i \in 1 .. n - e PROVE u[i].t >= old
    OBVIOUS
  <2> DEFINE p == e + 1
             r == m - n + p
             q == e + i
             s == m - n + q
  <2>1. p \in 1 .. n /\ r \in 1 .. m /\ q \in 1 .. n /\ s \in 1 .. m /\ r <= s /\ e < n
    BY <1>1, <1>2
  <2>2. dq[p].t >= old /\ u[i] = dq[q]
    BY <1>2, <2>1
  <2> HIDE DEF p, q
  <2>3. dq[p] = h[r] /\ dq[q] = h[s]
    BY <1>1, <2>1
  <2> HIDE DEF r, s
  <2>4. h[r].t <= h[s].t /\ h[r].t \in Int /\ h[s].t \in Int
    BY <1>1, <2>1 DEF Ordered, m
  <2>5. h[r].t >= old
    BY <2>2, <2>3
  <2>6. h[s].t >= old
    BY <1>1, <2>4, <2>5
  <2> QED BY <2>2, <2>3, <2>6
<1>6. Len(u) <= m /\ Len(u) = n - e
  BY <1>1, <1>2
<1>7. LastOf(u, h, cut)
  BY <1>3, <1>4, <1>6 DEF LastOf, m
<1> QED BY <1>2, <1>5, <1>6, <1>7 DEF u, old

\* Later the window may keep less.
LEMMA LaterLastOf ==
  ASSUME NEW S, \A x \in S : x.t \in Int, NEW dq \in Seq(S), NEW h \in Seq(S),
         NEW c \in Int, NEW d \in Int, c <= d, LastOf(dq, h, c)
  PROVE  LastOf(dq, h, d)
<1>1. \A i \in 1 .. Len(h) - Len(dq) : i \in 1 .. Len(h)
  OBVIOUS
<1>2. \A i \in 1 .. Len(h) : h[i].t \in Int
  OBVIOUS
<1>3. \A i \in 1 .. Len(h) - Len(dq) : h[i].t < d
  BY <1>1, <1>2 DEF LastOf
<1> QED BY <1>3 DEF LastOf

\* What is left of h and not old is exactly what of h is not old.
LEMMA RecentLemma ==
  ASSUME NEW S, \A x \in S : x.t \in Int, NEW dq \in Seq(S), NEW h \in Seq(S), NEW cut \in Int,
         LastOf(dq, h, cut), \A i \in 1 .. Len(dq) : dq[i].t >= cut
  PROVE  Recent(h, cut) = dq
<1> DEFINE n == Len(dq)
           m == Len(h)
           e == m - n
           old == {i \in DOMAIN h : h[i].t < cut}
<1>1. /\ n \in Nat /\ m \in Nat /\ n <= m /\ DOMAIN h = 1 .. m
      /\ \A i \in 1 .. n : dq[i] = h[e + i] /\ dq[i].t >= cut
      /\ \A i \in 1 .. e : h[i].t < cut
      /\ \A i \in 1 .. m : h[i].t \in Int
  BY DEF LastOf
<1> HIDE DEF n, m
<1>2. e \in 0 .. m /\ n = m - e
  BY <1>1
<1>3. \A i \in 1 .. m : h[i].t < cut <=> i \in 1 .. e
  <2> SUFFICES ASSUME NEW i \in 1 .. m, ~(i <= e) PROVE ~(h[i].t < cut)
    BY <1>1, <1>2
  <2> DEFINE j == i - e
  <2>1. j \in 1 .. n /\ e + j = i
    BY <1>1, <1>2
  <2> HIDE DEF j, e
  <2>2. h[i].t >= cut /\ h[i].t \in Int
    BY <1>1, <2>1
  <2> QED BY <2>2
<1> HIDE DEF e
<1>4. old = 1 .. e
  BY <1>1, <1>2, <1>3
<1>5. Cardinality(1 .. e) = e
  <2>1. 1 \in Int /\ e \in Int /\ (IF 1 > e THEN 0 ELSE e - 1 + 1) = e
    BY <1>1, <1>2
  <2> QED BY <2>1, FS_Interval
<1>6. Recent(h, cut) = SubSeq(h, e + 1, Len(h))
  BY <1>4, <1>5 DEF Recent, DropFront
<1> DEFINE u == SubSeq(h, e + 1, Len(h))
<1>7. u \in Seq(S) /\ Len(u) = m - e /\ \A i \in 1 .. m - e : u[i] = h[e + i]
  <2>1. e \in 0 .. Len(h) /\ m = Len(h)
    BY <1>2 DEF m
  <2>2. \A i \in 1 .. m - e : u[i] = h[i + (e + 1) - 1] /\ i + (e + 1) - 1 = e + i
    BY <2>1
  <2> QED BY <2>1, <2>2
<1> HIDE DEF u
<1>8. Len(u) = Len(dq) /\ \A i \in 1 .. Len(u) : u[i] = dq[i]
  BY <1>1, <1>2, <1>7 DEF n, e
<1>9. u = dq
  BY <1>7, <1>8
<1> QED BY <1>6, <1>9 DEF u

\* The same new entries at the end of both.
LEMMA BothConcat ==
  ASSUME NEW S, \A x \in S : x.t \in Int, NEW dq \in Seq(S), NEW h \in Seq(S), NEW c \in Int,
         LastOf(dq, h, c), Ordered(h), NEW add \in Seq(S), NEW now \in Int,
         \A i \in 1 .. Len(add) : add[i].t = now, \A i \in 1 .. Len(h) : h[i].t <= now
  PROVE  /\ LastOf(dq \o add, h \o add, c) /\ Ordered(h \o add)
         /\ \A i \in 1 .. Len(h \o add) : (h \o add)[i].t <= now
<1> DEFINE u == dq \o add
           w == h \o add
           n == Len(dq)
           m == Len(h)
           a == Len(add)
<1>1. /\ n \in Nat /\ m \in Nat /\ a \in Nat /\ Len(u) = n + a /\ Len(w) = m + a
      /\ \A i \in 1 .. n : u[i] = dq[i]
      /\ \A i \in 1 .. a : u[n + i] = add[i] /\ w[m + i] = add[i]
      /\ \A i \in 1 .. m : w[i] = h[i]
  BY ConcatLemma
<1>2. n <= m /\ (\A i \in 1 .. n : dq[i] = h[m - n + i]) /\ \A i \in 1 .. m - n : h[i].t < c
  BY DEF LastOf
<1>3. /\ \A i, j \in 1 .. m : i <= j => h[i].t <= h[j].t
      /\ \A i \in 1 .. m : h[i].t <= now /\ h[i].t \in Int
      /\ \A i \in 1 .. a : add[i].t = now
  BY DEF Ordered
<1> HIDE DEF u, w, n, m, a
<1>4. \A i \in 1 .. m + a : (i \in 1 .. m /\ w[i] = h[i]) \/ (i > m /\ w[i].t = now)
  <2> SUFFICES ASSUME NEW i \in 1 .. m + a
               PROVE  (i \in 1 .. m /\ w[i] = h[i]) \/ (i > m /\ w[i].t = now)
    OBVIOUS
  <2>1. CASE i \in 1 .. m
    BY <1>1, <2>1
  <2>2. CASE i \notin 1 .. m
    <3> DEFINE k == i - m
    <3>1. i > m /\ k \in 1 .. a /\ m + k = i
      BY <1>1, <2>2
    <3> HIDE DEF k
    <3>2. w[i] = add[k] /\ add[k].t = now
      BY <1>1, <1>3, <3>1
    <3> QED BY <3>1, <3>2
  <2> QED BY <2>1, <2>2
<1>5. \A i \in 1 .. n + a : u[i] = w[(m + a) - (n + a) + i]
  <2> SUFFICES ASSUME NEW i \in 1 .. n + a PROVE u[i] = w[(m + a) - (n + a) + i]
    OBVIOUS
  <2> DEFINE r == m - n + i
             k == i - n
  <2>1. (m + a) - (n + a) + i = r
    BY <1>1
  <2>2. CASE i <= n
    <3>1. i \in 1 .. n /\ r \in 1 .. m
      BY <1>1, <1>2, <2>2
    <3>2. dq[i] = h[r]
      BY <1>2, <3>1
    <3> HIDE DEF r
    <3> QED BY <1>1, <2>1, <3>1, <3>2
  <2>3. CASE ~(i <= n)
    <3>1. k \in 1 .. a /\ n + k = i /\ m + k = r
      BY <1>1, <2>3
    <3> HIDE DEF r, k
    <3> QED BY <1>1, <2>1, <3>1
  <2> QED BY <2>2, <2>3
<1>6. \A i \in 1 .. (m + a) - (n + a) : w[i].t < c
  <2> SUFFICES ASSUME NEW i \in 1 .. (m + a) - (n + a) PROVE w[i].t < c
    OBVIOUS
  <2>1. i \in 1 .. m - n /\ i \in 1 .. m
    BY <1>1
  <2> QED BY <1>1, <1>2, <2>1
<1>7. \A i, j \in 1 .. m + a : i <= j => w[i].t <= w[j].t
  <2> SUFFICES ASSUME NEW i \in 1 .. m + a, NEW j \in 1 .. m + a, i <= j PROVE w[i].t <= w[j].t
    OBVIOUS
  <2>1. CASE j \in 1 .. m
    <3>1. i \in 1 .. m
      BY <1>1, <2>1
    <3> QED BY <1>1, <1>3, <2>1, <3>1
  <2>2. CASE j > m /\ w[j].t = now
    <3>1. w[i].t <= now
      BY <1>3, <1>4
    <3> QED BY <2>2, <3>1
  <2> QED BY <1>4, <2>1, <2>2
<1>8. \A i \in 1 .. m + a : w[i].t <= now
  BY <1>3, <1>4
<1>9. LastOf(u, w, c)
  <2>1. n + a <= m + a
    BY <1>1, <1>2
  <2> QED BY <1>1, <1>5, <1>6, <2>1 DEF LastOf
<1>10. Ordered(w)
  BY <1>1, <1>7 DEF Ordered
<1> QED BY <1>1, <1>8, <1>9, <1>10 DEF u, w

\* A window tracks all entries: they are in the order of their times, none later
\* than the engine thread's last record; what it lost is older than window_s by
\* the later of the two clocks, what it holds is not by the engine thread's.
Tracks(dq, all, at, last) ==
    /\ Ordered(all)
    /\ \A i \in 1 .. Len(all) : all[i].t <= last
    /\ LastOf(dq, all, Later(at, last) - Window)
    /\ \A i \in 1 .. Len(dq) : dq[i].t >= last - Window

\* The entries of a set carry times.
Timed(S) == \A x \in S : x.t \in Int

LEMMA TracksRecord ==
  ASSUME NEW S, Timed(S), NEW dq \in Seq(S), NEW h \in Seq(S), NEW add \in Seq(S),
         NEW at \in Int, NEW last \in Int, NEW now \in Int, Tracks(dq, h, at, last), last <= now,
         \A i \in 1 .. Len(add) : add[i].t = now
  PROVE  Evict(dq \o add, now) \in Seq(S) /\ Tracks(Evict(dq \o add, now), h \o add, at, now)
<1> DEFINE c == Later(at, last) - Window
           d == Later(at, now) - Window
           u == dq \o add
           w == h \o add
<1>0. \A x \in S : x.t \in Int
  BY DEF Timed
<1>1. c \in Int /\ d \in Int /\ c <= d /\ now - Window <= d
  BY StatsAssumption DEF Later
<1>2. LastOf(dq, h, c) /\ Ordered(h) /\ \A i \in 1 .. Len(h) : h[i].t <= last
  BY DEF Tracks
<1>3. \A i \in 1 .. Len(h) : h[i].t <= now
  <2>1. \A i \in 1 .. Len(h) : h[i].t \in Int
    BY <1>0
  <2> QED BY <1>2, <2>1
<1> HIDE DEF c
<1>4. u \in Seq(S) /\ w \in Seq(S)
  OBVIOUS
<1> HIDE DEF d
<1>5. LastOf(dq, h, d)
  BY <1>0, <1>1, <1>2, LaterLastOf
<1>6. LastOf(u, w, d) /\ Ordered(w) /\ \A i \in 1 .. Len(w) : w[i].t <= now
  BY <1>0, <1>1, <1>2, <1>3, <1>5, BothConcat
<1> HIDE DEF u, w
<1>7. /\ Evict(u, now) \in Seq(S) /\ LastOf(Evict(u, now), w, d)
      /\ \A i \in 1 .. Len(Evict(u, now)) : Evict(u, now)[i].t >= now - Window
  BY <1>0, <1>1, <1>4, <1>6, EvictsLast
<1> QED BY <1>6, <1>7 DEF Tracks, d, u, w

LEMMA TracksSnapshot ==
  ASSUME NEW S, Timed(S), NEW dq \in Seq(S), NEW h \in Seq(S),
         NEW at \in Int, NEW last \in Int, NEW now \in Int, Tracks(dq, h, at, last), at <= now
  PROVE  /\ Evict(dq, now) \in Seq(S) /\ Tracks(Evict(dq, now), h, now, last)
         /\ Evict(dq, now) = Recent(h, Later(now, last) - Window)
<1> DEFINE c == Later(at, last) - Window
           d == Later(now, last) - Window
           u == Evict(dq, now)
<1>0. \A x \in S : x.t \in Int
  BY DEF Timed
<1>1. /\ c \in Int /\ d \in Int /\ c <= d /\ now - Window <= d
      /\ d = now - Window \/ d = last - Window
  BY StatsAssumption DEF Later
<1>2. /\ LastOf(dq, h, c) /\ Ordered(h) /\ \A i \in 1 .. Len(h) : h[i].t <= last
      /\ \A i \in 1 .. Len(dq) : dq[i].t >= last - Window
  BY DEF Tracks
<1> HIDE DEF c, d
<1>3. LastOf(dq, h, d)
  BY <1>0, <1>1, <1>2, LaterLastOf
<1>4. /\ u \in Seq(S) /\ LastOf(u, h, d)
      /\ \A i \in 1 .. Len(u) : u[i].t >= now - Window
  BY <1>0, <1>1, <1>2, <1>3, EvictsLast
<1>5. \A i \in 1 .. Len(u) : u[i].t >= last - Window
  <2>1. \A i \in 1 .. Len(dq) : dq[i].t \in Int
    BY <1>0
  <2>2. PICK e \in 0 .. Len(dq) :
           /\ u \in Seq(S) /\ Len(u) = Len(dq) - e
           /\ \A i \in 1 .. Len(dq) - e : u[i] = dq[e + i]
           /\ \A i \in 1 .. e : dq[i].t < now - Window
           /\ e < Len(dq) => dq[e + 1].t >= now - Window
    BY <2>1, EvictLemma
  <2> HIDE DEF u
  <2> SUFFICES ASSUME NEW i \in 1 .. Len(u) PROVE u[i].t >= last - Window
    OBVIOUS
  <2> DEFINE j == e + i
  <2>3. j \in 1 .. Len(dq) /\ u[i] = dq[j]
    BY <2>2
  <2> HIDE DEF j
  <2> QED BY <1>2, <2>3
<1> HIDE DEF u
<1>6. \A i \in 1 .. Len(u) : u[i].t >= d
  BY <1>1, <1>4, <1>5
<1>7. Recent(h, d) = u
  BY <1>0, <1>1, <1>4, <1>6, RecentLemma
<1> QED BY <1>2, <1>4, <1>5, <1>7 DEF Tracks, d, u

\* A window has a value at every place, and the values ascend.
LEMMA RankedLemma ==
  ASSUME NEW dq \in Seq(Latency), NEW k \in 1 .. Len(dq)
  PROVE  /\ Ranked(dq, k) \in Nat
         /\ Cardinality({i \in DOMAIN dq : dq[i].ms < Ranked(dq, k)}) < k
         /\ Cardinality({i \in DOMAIN dq : dq[i].ms <= Ranked(dq, k)}) >= k
<1> DEFINE n == Len(dq)
           D == DOMAIN dq
           Upto(v) == {i \in D : dq[i].ms <= v}
           Below(v) == {i \in D : dq[i].ms < v}
           T == {v \in Nat : Cardinality(Upto(v)) >= k}
           A == {m \in Nat : m <= n => \E v \in Nat : \A i \in 1 .. m : dq[i].ms <= v}
           Placed(v) == Cardinality(Below(v)) < k /\ Cardinality(Upto(v)) >= k
<1>1. n \in Nat /\ D = 1 .. n /\ k \in 1 .. n
  OBVIOUS
<1>2. \A i \in D : dq[i].ms \in Nat
  <2>1. \A x \in Latency : x.ms \in Nat
    BY DEF Latency
  <2>2. \A i \in D : dq[i] \in Latency
    OBVIOUS
  <2> QED BY <2>1, <2>2
<1> HIDE DEF n, D
<1>3. IsFiniteSet(D) /\ Cardinality(D) = n
  <2>1. 1 \in Int /\ n \in Int /\ (IF 1 > n THEN 0 ELSE n - 1 + 1) = n
    BY <1>1
  <2> QED BY <1>1, <2>1, FS_Interval
<1>4. \A m \in Nat : m \in A
  <2>1. 0 \in A
    OBVIOUS
  <2>2. ASSUME NEW m \in Nat, m \in A PROVE m + 1 \in A
    <3> SUFFICES ASSUME m + 1 <= n PROVE \E v \in Nat : \A i \in 1 .. m + 1 : dq[i].ms <= v
      OBVIOUS
    <3> DEFINE j == m + 1
    <3>1. j \in D /\ m <= n /\ \A i \in 1 .. j : i \in 1 .. m \/ i = j
      BY <1>1
    <3>2. PICK v \in Nat : \A i \in 1 .. m : dq[i].ms <= v
      BY <2>2, <3>1
    <3> HIDE DEF j
    <3> DEFINE w == dq[j].ms
    <3>3. w \in Nat
      BY <1>2, <3>1
    <3>4. \A i \in 1 .. m : i \in D
      BY <1>1, <3>1
    <3>5. \A i \in 1 .. m : dq[i].ms \in Nat
      BY <1>2, <3>4
    <3>6. \A i \in 1 .. j : dq[i].ms <= v + w
      <4> SUFFICES ASSUME NEW i \in 1 .. j PROVE dq[i].ms <= v + w
        OBVIOUS
      <4>1. CASE i = j
        BY <3>3, <4>1
      <4>2. CASE i \in 1 .. m
        <5> HIDE DEF w
        <5> QED BY <3>2, <3>3, <3>5, <4>2
      <4> QED BY <3>1, <4>1, <4>2
    <3>7. v + w \in Nat
      BY <3>3
    <3> QED BY <3>6, <3>7 DEF j
  <2> HIDE DEF A
  <2> QED BY <2>1, <2>2, SetInduction
<1>5. T # {}
  <2>1. PICK v \in Nat : \A i \in 1 .. n : dq[i].ms <= v
    <3>1. n \in A
      BY <1>1, <1>4
    <3>2. n <= n
      BY <1>1
    <3> QED BY <3>1, <3>2
  <2>2. Upto(v) = D
    BY <1>1, <2>1
  <2> HIDE DEF Upto
  <2>3. Cardinality(Upto(v)) >= k
    BY <1>1, <1>3, <2>2
  <2>4. v \in T
    BY <2>3
  <2> HIDE DEF T
  <2> QED BY <2>4
<1>6. PICK v \in T : \A w \in T : v <= w
  <2>1. T \in SUBSET Nat
    OBVIOUS
  <2> HIDE DEF T
  <2> QED BY <1>5, <2>1, LeastNatural
<1>7. v \in Nat /\ Cardinality(Upto(v)) >= k
  OBVIOUS
<1>8. \A w \in Nat : w < v => ~(Cardinality(Upto(w)) >= k)
  BY <1>6
<1>9. \A w : IsFiniteSet(Upto(w)) /\ Cardinality(Upto(w)) \in Nat
  <2> SUFFICES ASSUME NEW w PROVE IsFiniteSet(Upto(w)) /\ Cardinality(Upto(w)) \in Nat
    OBVIOUS
  <2>1. Upto(w) \subseteq D
    OBVIOUS
  <2> QED BY <1>3, <2>1, FS_Subset, FS_CardinalityType
<1>10. Cardinality(Below(v)) < k
  <2>1. CASE v = 0
    <3>1. Below(v) = {}
      BY <1>2, <2>1
    <3>2. Cardinality(Below(v)) = 0
      BY <3>1, FS_EmptySet
    <3> QED BY <1>1, <3>2
  <2>2. CASE v # 0
    <3> DEFINE w == v - 1
    <3>1. w \in Nat /\ w < v
      BY <1>7, <2>2
    <3>2. \A i \in D : dq[i].ms < v <=> dq[i].ms <= w
      BY <1>2, <1>7, <3>1
    <3> HIDE DEF w
    <3>3. Below(v) = Upto(w)
      BY <3>2
    <3>4. ~(Cardinality(Upto(w)) >= k) /\ Cardinality(Upto(w)) \in Nat
      BY <1>8, <1>9, <3>1
    <3> HIDE DEF Upto, Below
    <3> QED BY <1>1, <3>3, <3>4
  <2> QED BY <2>1, <2>2
<1>11. \E i \in D : dq[i].ms = v
  <2> SUFFICES ASSUME \A i \in D : dq[i].ms # v PROVE FALSE
    OBVIOUS
  <2>1. \A i \in D : dq[i].ms < v <=> dq[i].ms <= v
    BY <1>2, <1>7
  <2>2. Below(v) = Upto(v)
    BY <2>1
  <2>3. Cardinality(Upto(v)) \in Nat
    BY <1>9
  <2> HIDE DEF Upto, Below
  <2> QED BY <1>1, <1>7, <1>10, <2>2, <2>3
<1>12. v \in {dq[i].ms : i \in D} /\ Placed(v)
  BY <1>7, <1>10, <1>11
<1>13. Ranked(dq, k) = CHOOSE w \in {dq[i].ms : i \in D} : Placed(w)
  BY DEF Ranked, D
<1>14. Ranked(dq, k) \in {dq[i].ms : i \in D} /\ Placed(Ranked(dq, k))
  <2> HIDE DEF Placed
  <2> QED BY <1>12, <1>13
<1>15. Ranked(dq, k) \in Nat
  BY <1>2, <1>14
<1> QED BY <1>14, <1>15 DEF D

LEMMA RankedAscends ==
  ASSUME NEW dq \in Seq(Latency), NEW k \in 1 .. Len(dq), NEW m \in 1 .. Len(dq), k <= m
  PROVE  Ranked(dq, k) <= Ranked(dq, m)
<1> DEFINE v == Ranked(dq, k)
           w == Ranked(dq, m)
           B == {i \in DOMAIN dq : dq[i].ms < v}
           U == {i \in DOMAIN dq : dq[i].ms <= w}
<1>1. v \in Nat /\ w \in Nat /\ Cardinality(B) < k /\ Cardinality(U) >= m
  BY RankedLemma
<1>2. \A i \in DOMAIN dq : dq[i].ms \in Nat
  <2>1. \A x \in Latency : x.ms \in Nat
    BY DEF Latency
  <2>2. \A i \in DOMAIN dq : dq[i] \in Latency
    OBVIOUS
  <2> QED BY <2>1, <2>2
<1>3. IsFiniteSet(DOMAIN dq)
  <2>1. DOMAIN dq = 1 .. Len(dq) /\ 1 \in Int /\ Len(dq) \in Int
    OBVIOUS
  <2> QED BY <2>1, FS_Interval
<1> SUFFICES ASSUME w < v PROVE FALSE
  BY <1>1
<1> HIDE DEF v, w
<1>4. U \subseteq B /\ B \subseteq DOMAIN dq
  BY <1>1, <1>2
<1> HIDE DEF U, B
<1>5. IsFiniteSet(B) /\ IsFiniteSet(U)
  BY <1>3, <1>4, FS_Subset
<1>6. Cardinality(U) <= Cardinality(B) /\ Cardinality(U) \in Nat /\ Cardinality(B) \in Nat
  BY <1>4, <1>5, FS_Subset, FS_CardinalityType
<1> QED BY <1>1, <1>6

LEMMA PctLemma ==
  ASSUME NEW dq \in Seq(Latency)
  PROVE  Pct(dq, 50) <= Pct(dq, 99) /\ Pct(dq, 50) \in Nat /\ Pct(dq, 99) \in Nat
<1>1. CASE dq = << >>
  BY <1>1 DEF Pct
<1>2. CASE dq # << >>
  <2> DEFINE n == Len(dq)
             i == (50 * n) \div 100
             j == (99 * n) \div 100
             k == 1 + (IF i < n - 1 THEN i ELSE n - 1)
             m == 1 + (IF j < n - 1 THEN j ELSE n - 1)
  <2>1. n \in Nat /\ n >= 1
    BY <1>2
  <2>2. Pct(dq, 50) = Ranked(dq, k) /\ Pct(dq, 99) = Ranked(dq, m)
    BY <1>2 DEF Pct
  <2> HIDE DEF n
  <2>3. i \in Nat /\ j \in Nat /\ i <= j
    BY <2>1
  <2> HIDE DEF i, j
  <2>4. k \in 1 .. n /\ m \in 1 .. n /\ k <= m
    BY <2>1, <2>3
  <2> HIDE DEF k, m
  <2>5. k \in 1 .. Len(dq) /\ m \in 1 .. Len(dq) /\ k <= m
    BY <2>4 DEF n
  <2>6. Ranked(dq, k) <= Ranked(dq, m) /\ Ranked(dq, k) \in Nat /\ Ranked(dq, m) \in Nat
    BY <2>5, RankedLemma, RankedAscends
  <2> QED BY <2>2, <2>6
<1> QED BY <1>1, <1>2

LEMMA FieldsLemma ==
  ASSUME NEW dq \in Seq(Step)
  PROVE  LET f == [i \in DOMAIN dq |-> dq[i].gen]
             g == [i \in DOMAIN dq |-> dq[i].proc]
         IN  /\ f \in Seq(Nat) /\ Len(f) = Len(dq) /\ \A i \in 1 .. Len(dq) : f[i] = dq[i].gen
             /\ g \in Seq(Nat) /\ Len(g) = Len(dq) /\ \A i \in 1 .. Len(dq) : g[i] = dq[i].proc
<1> DEFINE n == Len(dq)
           f == [i \in 1 .. n |-> dq[i].gen]
           g == [i \in 1 .. n |-> dq[i].proc]
<1>1. n \in Nat /\ DOMAIN dq = 1 .. n
  OBVIOUS
<1>2. \A i \in 1 .. n : dq[i].gen \in Nat /\ dq[i].proc \in Nat
  <2>1. \A x \in Step : x.gen \in Nat /\ x.proc \in Nat
    BY DEF Step
  <2>2. \A i \in 1 .. n : dq[i] \in Step
    OBVIOUS
  <2> QED BY <2>1, <2>2
<1> HIDE DEF n
<1>3. f \in Seq(Nat) /\ Len(f) = n /\ \A i \in 1 .. n : f[i] = dq[i].gen
  BY <1>1, <1>2
<1>4. g \in Seq(Nat) /\ Len(g) = n /\ \A i \in 1 .. n : g[i] = dq[i].proc
  BY <1>1, <1>2
<1> QED BY <1>1, <1>3, <1>4 DEF n

LEMMA SumsAppend ==
  ASSUME NEW h \in Seq(Step), NEW x \in Step
  PROVE  /\ Generated(Append(h, x)) = Generated(h) + x.gen /\ Generated(h) \in Nat
         /\ Processed(Append(h, x)) = Processed(h) + x.proc /\ Processed(h) \in Nat
<1> DEFINE u == Append(h, x)
           f == [i \in DOMAIN h |-> h[i].gen]
           g == [i \in DOMAIN h |-> h[i].proc]
           p == [i \in DOMAIN u |-> u[i].gen]
           q == [i \in DOMAIN u |-> u[i].proc]
           last == Len(u)
<1>1. /\ u \in Seq(Step) /\ last = Len(h) + 1 /\ last \in 1 .. last /\ u[last] = x
      /\ \A i \in 1 .. Len(h) : u[i] = h[i] /\ i \in 1 .. last
  OBVIOUS
<1>2. /\ f \in Seq(Nat) /\ Len(f) = Len(h) /\ \A i \in 1 .. Len(h) : f[i] = h[i].gen
      /\ g \in Seq(Nat) /\ Len(g) = Len(h) /\ \A i \in 1 .. Len(h) : g[i] = h[i].proc
  BY FieldsLemma
<1> HIDE DEF u
<1>3. /\ p \in Seq(Nat) /\ Len(p) = last /\ \A i \in 1 .. last : p[i] = u[i].gen
      /\ q \in Seq(Nat) /\ Len(q) = last /\ \A i \in 1 .. last : q[i] = u[i].proc
  BY <1>1, FieldsLemma
<1>4. Generated(h) = SumOf(f) /\ Processed(h) = SumOf(g) /\ Generated(u) = SumOf(p) /\ Processed(u) = SumOf(q)
  BY DEF Generated, Processed
<1> HIDE DEF f, g, p, q, last
<1>5. Len(p) = Len(f) + 1 /\ Len(q) = Len(g) + 1
  BY <1>1, <1>2, <1>3
<1>6. \A i \in 1 .. Len(f) : p[i] = f[i]
  BY <1>1, <1>2, <1>3, ZenonT(60)
<1>7. \A i \in 1 .. Len(g) : q[i] = g[i]
  BY <1>1, <1>2, <1>3
<1>8. SumOf(p) = SumOf(f) + p[Len(p)] /\ SumOf(f) \in Nat
  BY <1>2, <1>3, <1>5, <1>6, SumOfAppend
<1>9. SumOf(q) = SumOf(g) + q[Len(q)] /\ SumOf(g) \in Nat
  BY <1>2, <1>3, <1>5, <1>7, SumOfAppend
<1>10. p[Len(p)] = x.gen /\ q[Len(q)] = x.proc
  BY <1>1, <1>3
<1> QED BY <1>4, <1>8, <1>9, <1>10 DEF u

\* The inductive invariant: each window tracks all that was ever reported, between
\* the clocks of the last snapshot and of the last record, and neither clock is
\* ahead of the one that thread has read since.
StatsDataInv ==
    /\ snap.at \in Int /\ LastRecord \in Int
    /\ history \in Seq(Step) /\ steps \in Seq(Step)
    /\ reported \in Seq(Latency) /\ latencies \in Seq(Latency)
    /\ Tracks(steps, history, snap.at, LastRecord)
    /\ Tracks(latencies, reported, snap.at, LastRecord)
    /\ \A i \in 1 .. Len(history) : history[i].gen <= history[i].proc
    /\ totals.prompt \in Nat
    /\ totals.gen = Generated(history)
    /\ totals.prompt + totals.gen = Processed(history)

ClocksInv ==
    /\ clock \in Nat /\ recordAt \in Int /\ snapAt \in Int /\ recordAt <= clock /\ snapAt <= clock
    /\ snap.at <= clock /\ (snapAt >= 0 => snap.at <= snapAt)
    /\ LastRecord <= clock /\ (recordAt >= 0 => LastRecord <= recordAt)

StatsInv == StatsDataInv /\ ClocksInv

LEMMA EntriesTimed == Timed(Step) /\ Timed(Latency)
  BY DEF Timed, Step, Latency

LEMMA StatsInitInv == StatsInit => StatsInv
<1> SUFFICES ASSUME StatsInit PROVE StatsInv
  OBVIOUS
<1>1. /\ clock = 0 /\ recordAt = -1 /\ snapAt = -1 /\ snap.at = -1
      /\ steps = << >> /\ latencies = << >> /\ history = << >> /\ reported = << >>
      /\ totals.prompt = 0 /\ totals.gen = 0
  BY DEF StatsInit
<1>2. LastRecord = -1
  BY <1>1 DEF LastRecord
<1>3. \A at, last : Tracks(<< >>, << >>, at, last)
  BY DEF Tracks, Ordered, LastOf
<1>4. Generated(history) = 0 /\ Processed(history) = 0
  <2> DEFINE none == << >>
             f == [i \in DOMAIN none |-> none[i].gen]
             g == [i \in DOMAIN none |-> none[i].proc]
  <2>1. none \in Seq(Step) /\ Len(none) = 0
    OBVIOUS
  <2>2. Generated(none) = SumOf(f) /\ Processed(none) = SumOf(g)
    BY DEF Generated, Processed
  <2> HIDE DEF none
  <2>3. f \in Seq(Nat) /\ Len(f) = 0 /\ g \in Seq(Nat) /\ Len(g) = 0
    BY <2>1, FieldsLemma
  <2> HIDE DEF f, g
  <2>4. Sums(f)[0] = 0 /\ Sums(g)[0] = 0
    BY <2>3, SumsLemma
  <2> QED BY <1>1, <2>2, <2>3, <2>4 DEF SumOf, none
<1>5. ClocksInv
  BY <1>1, <1>2 DEF ClocksInv
<1>6. StatsDataInv
  BY <1>1, <1>2, <1>3, <1>4 DEF StatsDataInv
<1> QED BY <1>5, <1>6 DEF StatsInv

\* Reading a clock changes nothing that is recorded.
LEMMA StatsDataKept ==
  ASSUME StatsDataInv, UNCHANGED <<steps, latencies, totals, snap, history, reported>>
  PROVE  StatsDataInv' /\ LastRecord' = LastRecord /\ snap' = snap
<1>1. LastRecord' = LastRecord
  BY DEF LastRecord
<1>2. Generated(history') = Generated(history) /\ Processed(history') = Processed(history)
  OBVIOUS
<1> QED BY <1>1, <1>2 DEF StatsDataInv

LEMMA ClockRead ==
  ASSUME StatsInv, Tick \/ EnterRecord \/ EnterSnapshot \/ UNCHANGED statsVars
  PROVE  StatsInv'
<1>1. UNCHANGED <<steps, latencies, totals, snap, history, reported>>
  BY DEF Tick, EnterRecord, EnterSnapshot, statsVars
<1>2. StatsDataInv' /\ LastRecord' = LastRecord /\ snap' = snap /\ snap.at \in Int /\ LastRecord \in Int
  BY <1>1, StatsDataKept DEF StatsInv, StatsDataInv
<1>3. ClocksInv
  BY DEF StatsInv
<1> SUFFICES ClocksInv'
  BY <1>2 DEF StatsInv
<1>4. CASE Tick
  BY <1>2, <1>3, <1>4 DEF ClocksInv, Tick
<1>5. CASE EnterRecord
  BY <1>2, <1>3, <1>5 DEF ClocksInv, EnterRecord
<1>6. CASE EnterSnapshot
  BY <1>2, <1>3, <1>6 DEF ClocksInv, EnterSnapshot
<1>7. CASE UNCHANGED statsVars
  BY <1>2, <1>3, <1>7 DEF ClocksInv, statsVars
<1> QED BY <1>4, <1>5, <1>6, <1>7

\* The engine thread's own step keeps the order: it read the clock after its last one.
LEMMA RecordStepInv == ASSUME StatsInv, RecordStep PROVE StatsInv'
<1>1. PICK s \in StepSamples :
         LET step == [t |-> recordAt, gen |-> s.gen, proc |-> s.proc, preempt |-> s.preempt]
             new == [i \in DOMAIN s.latency |-> [t |-> recordAt, ms |-> s.latency[i]]]
         IN  /\ totals' = [steps    |-> totals.steps + 1,
                           prompt   |-> totals.prompt + (IF s.proc > s.gen THEN s.proc - s.gen ELSE 0),
                           gen      |-> totals.gen + s.gen,
                           finished |-> totals.finished + Len(s.latency),
                           preempt  |-> totals.preempt + s.preempt]
             /\ steps' = Evict(Append(steps, step), recordAt)
             /\ latencies' = Evict(latencies \o new, recordAt)
             /\ history' = Append(history, step)
             /\ reported' = reported \o new
  BY DEF RecordStep
<1> DEFINE x == [t |-> recordAt, gen |-> s.gen, proc |-> s.proc, preempt |-> s.preempt]
           one == << x >>
           more == IF s.proc > s.gen THEN s.proc - s.gen ELSE 0
           new == [i \in DOMAIN s.latency |-> [t |-> recordAt, ms |-> s.latency[i]]]
           at == snap.at
           last == LastRecord
<1>2. /\ steps' = Evict(Append(steps, x), recordAt) /\ history' = Append(history, x)
      /\ totals'.prompt = totals.prompt + more /\ totals'.gen = totals.gen + s.gen
      /\ latencies' = Evict(latencies \o new, recordAt) /\ reported' = reported \o new
  BY <1>1
<1>3. recordAt >= 0 /\ recordAt' = -1 /\ clock' = clock /\ snapAt' = snapAt /\ snap' = snap
  BY DEF RecordStep
<1>4. /\ clock \in Nat /\ recordAt \in Nat /\ recordAt <= clock /\ snapAt \in Int /\ snapAt <= clock
      /\ at \in Int /\ at <= clock /\ (snapAt >= 0 => at <= snapAt)
      /\ last \in Int /\ last <= recordAt
  BY <1>3 DEF StatsInv, StatsDataInv, ClocksInv
<1>5. /\ history \in Seq(Step) /\ steps \in Seq(Step) /\ latencies \in Seq(Latency) /\ reported \in Seq(Latency)
      /\ Tracks(steps, history, at, last) /\ Tracks(latencies, reported, at, last)
      /\ \A i \in 1 .. Len(history) : history[i].gen <= history[i].proc
      /\ totals.prompt \in Nat /\ totals.gen = Generated(history)
      /\ totals.prompt + totals.gen = Processed(history)
  BY DEF StatsInv, StatsDataInv
<1>6. s.gen \in Nat /\ s.proc \in Nat /\ s.preempt \in Nat /\ s.latency \in Seq(Nat) /\ s.gen <= s.proc
  BY StatsAssumption DEF StepSample
<1>7. x \in Step /\ x.t = recordAt /\ x.gen = s.gen /\ x.proc = s.proc
  BY <1>4, <1>6 DEF Step
<1>8. more \in Nat /\ more + s.gen = s.proc
  BY <1>6
<1>9. new \in Seq(Latency) /\ \A i \in 1 .. Len(new) : new[i].t = recordAt
  <2> DEFINE l == s.latency
  <2>1. \A i \in DOMAIN l : [t |-> recordAt, ms |-> l[i]] \in Latency
    BY <1>4, <1>6, SMTT(40) DEF Latency
  <2>2. Len(l) \in Nat /\ DOMAIN l = 1 .. Len(l)
    BY <1>6
  <2>3. new = [i \in 1 .. Len(l) |-> [t |-> recordAt, ms |-> l[i]]]
    BY <2>2
  <2> HIDE DEF l, new
  <2>4. new \in Seq(Latency) /\ Len(new) = Len(l)
    BY <2>1, <2>2, <2>3
  <2>5. \A i \in 1 .. Len(new) : new[i].t = recordAt
    BY <2>3, <2>4
  <2> QED BY <2>4, <2>5
<1> HIDE DEF x, more, new, at, last
<1>10. Append(history, x) = history \o one /\ Append(steps, x) = steps \o one
       /\ one \in Seq(Step) /\ \A i \in 1 .. Len(one) : one[i].t = recordAt
  <2>1. one \in Seq(Step) /\ Len(one) = 1 /\ one[1] = x
    BY <1>7
  <2>2. \A i \in 1 .. Len(one) : one[i].t = recordAt
    BY <1>7, <2>1
  <2>3. \A u \in Seq(Step) : Append(u, x) = u \o one
    BY <1>7
  <2> QED BY <1>5, <2>1, <2>2, <2>3
<1> HIDE DEF one
<1>11. /\ Evict(steps \o one, recordAt) \in Seq(Step)
       /\ Tracks(Evict(steps \o one, recordAt), history \o one, at, recordAt)
  <2>1. steps \in Seq(Step) /\ history \in Seq(Step) /\ Tracks(steps, history, at, last) /\ Timed(Step)
    BY <1>5, EntriesTimed
  <2>2. one \in Seq(Step) /\ \A i \in 1 .. Len(one) : one[i].t = recordAt
    BY <1>10
  <2>3. at \in Int /\ last \in Int /\ recordAt \in Int /\ last <= recordAt
    BY <1>4
  <2> QED BY <2>1, <2>2, <2>3, TracksRecord
<1>12. /\ Evict(latencies \o new, recordAt) \in Seq(Latency)
       /\ Tracks(Evict(latencies \o new, recordAt), reported \o new, at, recordAt)
  BY <1>4, <1>5, <1>9, EntriesTimed, TracksRecord
<1>13. history' \in Seq(Step) /\ reported' \in Seq(Latency)
  BY <1>2, <1>5, <1>7, <1>9
<1>14. /\ Len(history') = Len(history) + 1 /\ history'[Len(history) + 1] = x
       /\ \A j \in 1 .. Len(history) : history'[j] = history[j]
  BY <1>2, <1>5, <1>7
<1>15. LastRecord' = recordAt
  BY <1>5, <1>7, <1>14 DEF LastRecord
<1>16. \A i \in 1 .. Len(history') : history'[i].gen <= history'[i].proc
  <2> SUFFICES ASSUME NEW i \in 1 .. Len(history') PROVE history'[i].gen <= history'[i].proc
    OBVIOUS
  <2>1. CASE i = Len(history) + 1
    BY <1>6, <1>7, <1>14, <2>1
  <2>2. CASE i # Len(history) + 1
    <3>1. i \in 1 .. Len(history)
      BY <1>5, <1>14, <2>2
    <3> QED BY <1>5, <1>14, <3>1
  <2> QED BY <2>1, <2>2
<1>17. /\ Generated(history') = Generated(history) + s.gen /\ Generated(history) \in Nat
       /\ Processed(history') = Processed(history) + s.proc /\ Processed(history) \in Nat
  BY <1>2, <1>5, <1>7, SumsAppend
<1>18. totals'.prompt \in Nat
  BY <1>2, <1>5, <1>8
<1>19. totals'.gen = Generated(history')
  BY <1>2, <1>5, <1>17
<1>20. totals'.prompt + totals'.gen = Processed(history')
  <2> DEFINE p == totals.prompt
             g == totals.gen
             all == Processed(history)
  <2>1. p \in Nat /\ g \in Nat /\ p + g = all
    BY <1>5, <1>17
  <2>2. /\ totals'.prompt = p + more /\ totals'.gen = g + s.gen
        /\ Processed(history') = all + s.proc
    BY <1>2, <1>17
  <2> HIDE DEF p, g, all
  <2>3. (p + more) + (g + s.gen) = all + s.proc
    BY <1>6, <1>8, <2>1
  <2> QED BY <2>2, <2>3
<1>21. /\ steps' \in Seq(Step) /\ Tracks(steps', history', snap'.at, LastRecord')
       /\ latencies' \in Seq(Latency) /\ Tracks(latencies', reported', snap'.at, LastRecord')
  BY <1>2, <1>3, <1>10, <1>11, <1>12, <1>15 DEF at
<1>22. snap'.at \in Int /\ LastRecord' \in Int
  BY <1>3, <1>4, <1>15 DEF at
<1>23. StatsDataInv'
  BY <1>13, <1>16, <1>18, <1>19, <1>20, <1>21, <1>22 DEF StatsDataInv
<1>24. ClocksInv'
  BY <1>3, <1>4, <1>15 DEF ClocksInv, at
<1> QED BY <1>23, <1>24 DEF StatsInv

\* What a snapshot shows is exact, and its evictions leave the windows in track.
LEMMA SnapshotLemma ==
  ASSUME StatsInv, Snapshot
  PROVE  LET since == Later(snapAt, LastRecord) - Window
             s == Recent(history, since)
             l == Recent(reported, since)
         IN  /\ StatsInv'
             /\ snap' = [at |-> snapAt, n |-> Len(s), gen |-> Generated(s),
                         proc |-> Processed(s), preempt |-> Preempted(s),
                         p50 |-> Pct(l, 50), p99 |-> Pct(l, 99)]
             /\ snap'.gen <= snap'.proc
             /\ snap'.p50 <= snap'.p99
<1> DEFINE since == Later(snapAt, LastRecord) - Window
           s == Recent(history, since)
           l == Recent(reported, since)
<1>1. /\ snapAt >= 0 /\ snapAt' = -1 /\ steps' = Evict(steps, snapAt) /\ latencies' = Evict(latencies, snapAt)
      /\ clock' = clock /\ recordAt' = recordAt /\ totals' = totals /\ history' = history /\ reported' = reported
      /\ snap' = [at      |-> snapAt,
                  n       |-> Len(steps'),
                  gen     |-> Generated(steps'),
                  proc    |-> Processed(steps'),
                  preempt |-> Preempted(steps'),
                  p50     |-> Pct(latencies', 50),
                  p99     |-> Pct(latencies', 99)]
  BY DEF Snapshot
<1>2. /\ clock \in Nat /\ snapAt \in Int /\ snapAt <= clock /\ snap.at \in Int /\ snap.at <= snapAt
      /\ recordAt \in Int /\ recordAt <= clock
      /\ LastRecord \in Int /\ LastRecord <= clock /\ (recordAt >= 0 => LastRecord <= recordAt)
  BY <1>1 DEF StatsInv, StatsDataInv, ClocksInv
<1>3. /\ history \in Seq(Step) /\ steps \in Seq(Step) /\ reported \in Seq(Latency) /\ latencies \in Seq(Latency)
      /\ Tracks(steps, history, snap.at, LastRecord)
      /\ Tracks(latencies, reported, snap.at, LastRecord)
      /\ \A i \in 1 .. Len(history) : history[i].gen <= history[i].proc
  BY DEF StatsInv, StatsDataInv
<1>4. LastRecord' = LastRecord
  BY <1>1 DEF LastRecord
<1> DEFINE at == snap.at
           last == LastRecord
<1>5. at \in Int /\ last \in Int /\ at <= snapAt
  BY <1>2
<1>6. Tracks(steps, history, at, last) /\ Tracks(latencies, reported, at, last)
  BY <1>3
<1> HIDE DEF at, last
<1>7. /\ Evict(steps, snapAt) \in Seq(Step) /\ Tracks(Evict(steps, snapAt), history, snapAt, last)
      /\ Evict(steps, snapAt) = Recent(history, Later(snapAt, last) - Window)
  BY <1>2, <1>3, <1>5, <1>6, EntriesTimed, TracksSnapshot
<1>8. /\ Evict(latencies, snapAt) \in Seq(Latency) /\ Tracks(Evict(latencies, snapAt), reported, snapAt, last)
      /\ Evict(latencies, snapAt) = Recent(reported, Later(snapAt, last) - Window)
  BY <1>2, <1>3, <1>5, <1>6, EntriesTimed, TracksSnapshot
<1>9. steps' = s /\ latencies' = l /\ s \in Seq(Step) /\ l \in Seq(Latency)
  BY <1>1, <1>7, <1>8 DEF last
<1>10. snap'.at = snapAt
  BY <1>1
<1>11. /\ Tracks(steps', history', snap'.at, LastRecord')
       /\ Tracks(latencies', reported', snap'.at, LastRecord')
  BY <1>1, <1>4, <1>7, <1>8, <1>10 DEF last
<1> HIDE DEF s, l, since
<1>12. snap' = [at |-> snapAt, n |-> Len(s), gen |-> Generated(s),
                proc |-> Processed(s), preempt |-> Preempted(s),
                p50 |-> Pct(l, 50), p99 |-> Pct(l, 99)]
  BY <1>1, <1>9
<1>13. Generated(s) <= Processed(s)
  <2> DEFINE f == [i \in DOMAIN s |-> s[i].gen]
             g == [i \in DOMAIN s |-> s[i].proc]
  <2>1. /\ f \in Seq(Nat) /\ Len(f) = Len(s) /\ \A i \in 1 .. Len(s) : f[i] = s[i].gen
        /\ g \in Seq(Nat) /\ Len(g) = Len(s) /\ \A i \in 1 .. Len(s) : g[i] = s[i].proc
    BY <1>9, FieldsLemma
  <2>2. Generated(s) = SumOf(f) /\ Processed(s) = SumOf(g)
    BY DEF Generated, Processed
  <2>3. LastOf(s, history, Later(snapAt, last) - Window)
    BY <1>7, <1>9, <1>1 DEF Tracks
  <2> HIDE DEF f, g
  <2>4. \A i \in 1 .. Len(s) : s[i].gen <= s[i].proc
    <3> SUFFICES ASSUME NEW i \in 1 .. Len(s) PROVE s[i].gen <= s[i].proc
      OBVIOUS
    <3> DEFINE j == Len(history) - Len(s) + i
    <3>1. s[i] = history[j] /\ Len(s) <= Len(history)
      BY <2>3 DEF LastOf
    <3>2. j \in 1 .. Len(history)
      BY <1>3, <1>9, <3>1
    <3> HIDE DEF j
    <3> QED BY <1>3, <3>1, <3>2
  <2>5. Len(f) = Len(g) /\ \A i \in 1 .. Len(f) : f[i] <= g[i]
    BY <2>1, <2>4
  <2>6. SumOf(f) <= SumOf(g)
    BY <2>1, <2>5, CompareSums
  <2> QED BY <2>2, <2>6
<1>14. Pct(l, 50) <= Pct(l, 99)
  BY <1>9, PctLemma
<1>15. snap'.gen <= snap'.proc /\ snap'.p50 <= snap'.p99
  BY <1>12, <1>13, <1>14
<1>16. Generated(history') = Generated(history) /\ Processed(history') = Processed(history)
  BY <1>1
<1>17. StatsDataInv'
  <2>1. snap'.at \in Int /\ LastRecord' \in Int
    BY <1>2, <1>4, <1>10
  <2>2. steps' \in Seq(Step) /\ latencies' \in Seq(Latency) /\ history' \in Seq(Step) /\ reported' \in Seq(Latency)
    BY <1>1, <1>3, <1>9
  <2>3. /\ totals'.prompt \in Nat /\ totals'.gen = Generated(history')
        /\ totals'.prompt + totals'.gen = Processed(history')
    BY <1>1, <1>16 DEF StatsInv, StatsDataInv
  <2>4. \A i \in 1 .. Len(history') : history'[i].gen <= history'[i].proc
    BY <1>1, <1>3
  <2> QED BY <1>11, <2>1, <2>2, <2>3, <2>4 DEF StatsDataInv
<1>18. ClocksInv'
  BY <1>1, <1>2, <1>4, <1>10 DEF ClocksInv
<1> QED BY <1>12, <1>15, <1>17, <1>18 DEF StatsInv, s, l, since

LEMMA StatsNextInv == StatsInv /\ [StatsNext]_statsVars => StatsInv'
  BY ClockRead, RecordStepInv, SnapshotLemma DEF StatsNext

LEMMA StatsIsInductive == StatsSpec => []StatsInv
  BY StatsInitInv, StatsNextInv, PTL DEF StatsSpec

\* A snapshot is exactly the sums and the percentiles of what was recorded in the
\* window before the later of the two clocks, whatever the engine thread records
\* and evicts between the reading of the clock and the lock; the rates and
\* percentiles it shows are consistent, and the counters split what was processed
\* exactly (stats.py), for every window and any steps.
THEOREM SnapshotsExact == StatsSpec => SnapshotIsExact
<1> DEFINE Exact ==
        /\ snapAt >= 0 /\ snapAt' = -1 =>
              LET since == Later(snapAt, LastRecord) - Window
                  s == Recent(history, since)
                  l == Recent(reported, since)
              IN  /\ snap' = [at |-> snapAt, n |-> Len(s), gen |-> Generated(s),
                              proc |-> Processed(s), preempt |-> Preempted(s),
                              p50 |-> Pct(l, 50), p99 |-> Pct(l, 99)]
                  /\ snap'.gen <= snap'.proc
                  /\ snap'.p50 <= snap'.p99
        /\ totals.prompt + totals.gen = Processed(history)
        /\ totals.gen = Generated(history)
<1>1. ASSUME StatsInv, [StatsNext]_statsVars PROVE [Exact]_statsVars
  <2> SUFFICES ASSUME StatsNext PROVE Exact
    BY <1>1
  <2>1. ASSUME snapAt >= 0, snapAt' = -1 PROVE Snapshot
    <3>1. snapAt \in Int
      BY <1>1 DEF StatsInv, ClocksInv
    <3>2. Tick \/ EnterRecord \/ RecordStep => snapAt' = snapAt
      BY DEF Tick, EnterRecord, RecordStep
    <3>3. EnterSnapshot => snapAt = -1
      BY DEF EnterSnapshot
    <3> QED BY <2>1, <3>1, <3>2, <3>3 DEF StatsNext
  <2>2. totals.prompt + totals.gen = Processed(history) /\ totals.gen = Generated(history)
    BY <1>1 DEF StatsInv, StatsDataInv
  <2>3. CASE snapAt >= 0 /\ snapAt' = -1
    BY <1>1, <2>1, <2>2, <2>3, SnapshotLemma
  <2>4. CASE ~(snapAt >= 0 /\ snapAt' = -1)
    BY <2>2, <2>4
  <2> QED BY <2>3, <2>4
<1>2. StatsInv /\ [StatsNext]_statsVars => [Exact]_statsVars
  BY <1>1
<1>3. [][Exact]_statsVars => SnapshotIsExact
  BY PTL DEF SnapshotIsExact
<1> QED BY StatsIsInductive, <1>2, <1>3, PTL DEF StatsSpec
=============================================================================
