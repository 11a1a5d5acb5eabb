----------------------------- MODULE Detokenizer ------------------------------
(***************************************************************************)
(* Text from tokens (inferneo/tokenizer/tokenizer.py) and the cut at stop  *)
(* strings that both fronts make (inferneo/engine/llm.py,                  *)
(* inferneo/server/api_server.py).                                         *)
(*                                                                         *)
(* A token is a fragment of bytes.  "lead" and "cont" are the two bytes of *)
(* one character, "special" tokens have no text, and a word may begin with *)
(* a space, which some tokenizers strip at the start of what they decode.  *)
(***************************************************************************)
EXTENDS Integers, Sequences, SequencesExt, FiniteSetsExt

CONSTANTS
    Char,           \* the characters of a text, and the bytes without one of their own
    Piece,          \* the bytes of each token
    StripsLeading   \* whether decoding drops a leading space

Token == DOMAIN Piece
Broken == "?"       \* U+FFFD

ASSUME DetokenizerAssumption ==
    /\ {"joined", Broken} \subseteq Char
    /\ \A t \in Token : Piece[t] \in Seq(Char)
    /\ StripsLeading \in BOOLEAN

\* The library's decode(skip_special_tokens=True).
Joined(bytes, i) == i \in 1 .. Len(bytes) - 1 /\ bytes[i] = "lead" /\ bytes[i + 1] = "cont"
CharAt(bytes, i) ==
    CASE Joined(bytes, i) -> <<"joined">>
      [] Joined(bytes, i - 1) -> << >>
      [] bytes[i] \in {"lead", "cont"} /\ ~Joined(bytes, i) /\ ~Joined(bytes, i - 1) -> <<Broken>>
      [] OTHER -> <<bytes[i]>>
Chars(bytes) == FlattenSeq([i \in DOMAIN bytes |-> CharAt(bytes, i)])

Stripped(chars) ==
    IF StripsLeading /\ chars # << >> /\ Head(chars) = "space" THEN Tail(chars) ELSE chars

Bytes(toks) == FlattenSeq([i \in DOMAIN toks |-> Piece[toks[i]]])
Decode(toks) == Stripped(Chars(Bytes(toks)))

EndsBroken(text) == text # << >> /\ Last(text) = Broken

\* IncrementalDetokenizer
NewDetokenizer == [prefixOffset |-> 0, readOffset |-> 0, text |-> << >>]

\* Mutant: an incomplete character is not held back.
NothingStable(whole, prefix) == Len(whole) <= Len(prefix)

NothingNew(whole, prefix) == Len(whole) <= Len(prefix) \/ EndsBroken(whole)

\* decode: what is new at the end of all tokens, or nothing, and the detokenizer
\* afterwards.
Delta(d, toks) ==
    LET prefix == Decode(SubSeq(toks, d.prefixOffset + 1, d.readOffset))
        whole == Decode(SubSeq(toks, d.prefixOffset + 1, Len(toks)))
    IN  IF NothingNew(whole, prefix) THEN << >>
        ELSE SubSeq(whole, Len(prefix) + 1, Len(whole))

Fed(d, toks) ==
    IF Delta(d, toks) = << >> THEN d
    ELSE [prefixOffset |-> d.readOffset, readOffset |-> Len(toks), text |-> d.text \o Delta(d, toks)]

\* text.find(s)
Found(text, s) == {i \in 0 .. Len(text) - Len(s) : SubSeq(text, i + 1, i + Len(s)) = s}

CutAt(text, s) == IF Found(text, s) = {} THEN text ELSE SubSeq(text, 1, Min(Found(text, s)))

\* One stop string after the other, each in what the ones before have left.
Cuts(text, stops) ==
    LET left[i \in 0 .. Len(stops)] == IF i = 0 THEN text ELSE CutAt(left[i - 1], stops[i])
    IN  left
Cut(text, stops) == Cuts(text, stops)[Len(stops)]

\* Whether one of them set the finish reason.
IsCut(text, stops) == \E i \in DOMAIN stops : Found(Cuts(text, stops)[i - 1], stops[i]) # {}
=============================================================================
