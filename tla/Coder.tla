------------------------------- MODULE Coder -------------------------------
(***************************************************************************)
(* The codec's coders: ciphertext becomes a row of words that a language   *)
(* model would have said, and the words become the ciphertext again.  The  *)
(* process loads a model (codec.py), a request names its coder or leaves   *)
(* it to the deployment, and what is asked back later may meet another     *)
(* process.  A word is a number; a byte has ByteBits bits.                 *)
(***************************************************************************)
EXTENDS Integers, Sequences, FiniteSets, SequencesExt, FiniteSetsExt

CONSTANTS
  Models,      \* [name -> [succ, top, weight]], a language model each
  ByteBits,    \* bits of a byte
  Precision,   \* bits of the range coder's registers
  K,           \* bits per word, block coder
  TopN,        \* candidates per step, arithmetic coder
  Nonce,       \* bytes of the random prefix
  MaxPayload,  \* the most that the length header can say
  Datas,       \* ciphertexts
  Foreign,     \* a word no model knows
  MaxStarts    \* how often the process may be started

VARIABLES svc, note
coderVars == <<svc, note>>

Coders == {"block", "arith"}
\* Who asks: the X and universal builds name a coder, Telegram's does not.
Clients == {"x", "telegram"}
Bytes == 0..(2 ^ ByteBits - 1)
Nothing == [state |-> "none"]

\* A row of bits as the number it spells, and back.
Number(bits) == FoldLeft(LAMBDA n, b : 2 * n + b, 0, bits)
Spelled(n, width) == [i \in 1..width |-> (n \div 2 ^ (width - i)) % 2]
ToBits(bytes) == FlattenSeq([i \in DOMAIN bytes |-> Spelled(bytes[i], ByteBits)])
\* A last byte that is not whole is dropped.
FromBits(bits) == [i \in 1..(Len(bits) \div ByteBits) |-> Number(SubSeq(bits, (i - 1) * ByteBits + 1, i * ByteBits))]

\* nonce, two bytes of length, data.
Framed(nonce, data) == nonce \o FromBits(Spelled(Len(data), 2 * ByteBits)) \o data
\* Mutant: the header is read without the bound.
Unbounded(bytes) ==
  LET start == Nonce + 2
      length == Number(ToBits(SubSeq(bytes, Nonce + 1, start)))
  IN [ok |-> Len(bytes) >= start, data |-> SubSeq(bytes, start + 1, Len(bytes))]
\* What the framing says; a header that claims more than there is is no cover.
Unframed(bytes) ==
  LET start == Nonce + 2
      length == Number(ToBits(SubSeq(bytes, Nonce + 1, start)))
  IN IF Len(bytes) < start \/ start + length > Len(bytes) THEN [ok |-> FALSE, data |-> <<>>]
     ELSE [ok |-> TRUE, data |-> SubSeq(bytes, start + 1, start + length)]

-----------------------------------------------------------------------------
(* A model: what it would say after a word, in a fixed order, the words of  *)
(* all contexts behind those of this one.                                   *)
TopK(m, ctx, n) ==
  LET said == Models[m].succ[ctx] IN
  SubSeq(said \o SelectSeq(Models[m].top, LAMBDA t : t \notin ToSet(said)), 1, n)
\* By rank, for a model that kept no counts.
Decay[rank \in Nat \ {0}] == IF rank = 1 THEN 16 ELSE Max({1, (Decay[rank - 1] * 88) \div 100})
Weight(m, ctx, rank) == IF Models[m].weight = <<>> THEN Decay[rank] ELSE Models[m].weight[ctx][rank]
SumOf(seq) == FoldLeft(LAMBDA a, b : a + b, 0, seq)
Index(cands, t) == IF \E i \in DOMAIN cands : cands[i] = t
                   THEN CHOOSE i \in DOMAIN cands : cands[i] = t ELSE 0
Knows(m, words) == \A i \in DOMAIN words : words[i] \in ToSet(Models[m].top)
Before(tokens, i) == IF i = 1 THEN 0 ELSE tokens[i - 1]

-----------------------------------------------------------------------------
(* The block coder: K bits per word. *)
BlockHide(m, nonce, data) ==
  LET bits == ToBits(Framed(nonce, data))
      padded == bits \o [i \in 1..((-Len(bits)) % K) |-> 0]
      Put(tokens, i) == Append(tokens,
        TopK(m, Before(tokens, i), 2 ^ K)[Number(SubSeq(padded, (i - 1) * K + 1, i * K)) + 1])
  IN IF Len(data) > MaxPayload THEN [ok |-> FALSE, status |-> 400]
     ELSE [ok |-> TRUE, words |-> FoldLeft(Put, <<>>, [i \in 1..(Len(padded) \div K) |-> i])]

BlockReveal(m, words) ==
  LET ranks == [i \in DOMAIN words |-> Index(TopK(m, Before(words, i), 2 ^ K), words[i])]
      bytes == FromBits(FlattenSeq([i \in DOMAIN words |-> Spelled(ranks[i] - 1, K)]))
  IN IF 0 \in ToSet(ranks) \/ ~Unframed(bytes).ok THEN [status |-> 422]
     ELSE [status |-> 200, data |-> Unframed(bytes).data]
-----------------------------------------------------------------------------
(* The arithmetic coder: integer ranges of Precision bits; a word carries   *)
(* as much as the model was surprised by it.                                *)
Whole == 2 ^ Precision
Half == Whole \div 2
Quarter == Whole \div 4
MaxTotal == Quarter

\* The candidates and where the interval of each begins; weights are rescaled
\* when their sum would be more than a range can tell apart, none to nothing.
Prepared(m, ctx) ==
  LET cands == TopK(m, ctx, TopN)
      raw == [i \in DOMAIN cands |-> Weight(m, ctx, i)]
      total == SumOf(raw)
      scaled == IF total <= MaxTotal THEN raw
                ELSE [i \in DOMAIN raw |-> Max({1, (raw[i] * MaxTotal) \div total})]
  IN [words |-> cands, cum |-> [i \in 1..(Len(cands) + 1) |-> SumOf(SubSeq(scaled, 1, i - 1))]]

Contexts == {0} \cup UNION {ToSet(Models[m].top) : m \in DOMAIN Models}
Dist == [m \in DOMAIN Models |-> [ctx \in Contexts |-> Prepared(m, ctx)]]

\* The interval of the jth candidate.
Narrowed(r, d, j) ==
  LET range == r.high - r.low + 1
      total == d.cum[Len(d.cum)]
  IN [r EXCEPT !.low = r.low + (range * d.cum[j]) \div total,
               !.high = r.low + (range * d.cum[j + 1]) \div total - 1]

\* What a range gives up before it is doubled: the lower half nothing, the
\* upper half Half, the middle Quarter; Whole where it is wide enough.
Given(r) == CASE r.high < Half -> 0
              [] r.low >= Half -> Half
              [] r.low >= Quarter /\ r.high < 3 * Quarter /\ r.low < Half /\ r.high >= Half -> Quarter
              [] OTHER -> Whole
Doubled(r) == [r EXCEPT !.low = 2 * (r.low - Given(r)), !.high = 2 * (r.high - Given(r)) + 1]

\* A bit, and the opposite for every middle that waited for it.
Emitted(r, bit) ==
  [r EXCEPT !.bits = Append(@, bit) \o [i \in 1..r.pending |-> 1 - bit], !.pending = 0]
Rescaled(r) ==
  IF Given(r) = Quarter THEN [Doubled(r) EXCEPT !.pending = @ + 1]
  ELSE Emitted(Doubled(r), IF Given(r) = 0 THEN 0 ELSE 1)
RECURSIVE Renormalised(_)
Renormalised(r) == IF Given(r) = Whole THEN r ELSE Renormalised(Rescaled(r))

\* One bit that tells the last interval, and those that wait for it.
Flushed(r) == Emitted([r EXCEPT !.pending = @ + 1], IF r.low < Quarter THEN 0 ELSE 1).bits

\* Words to bits, the ground truth of what was hidden.
EncodeTokens(m, words) ==
  LET RECURSIVE Taken(_, _)
      Taken(r, i) ==
        LET d == Dist[m][Before(words, i)]
            j == Index(d.words, words[i])
        IN IF i > Len(words) THEN [ok |-> TRUE, bits |-> Flushed(r)]
           ELSE IF j = 0 THEN [ok |-> FALSE, bits |-> <<>>]
           ELSE Taken(Renormalised(Narrowed(r, d, j)), i + 1)
  IN Taken([low |-> 0, high |-> Whole - 1, pending |-> 0, bits |-> <<>>], 1)

-----------------------------------------------------------------------------
(* Bits to words: the decoder looks Precision bits ahead and reads zeros    *)
(* behind the end.                                                          *)
BitAt(bits, i) == IF i \in DOMAIN bits THEN bits[i] ELSE 0
Decoder(bits) ==
  [low |-> 0, high |-> Whole - 1, pos |-> Precision, renorm |-> 0, words |-> <<>>,
   value |-> Number([i \in 1..Precision |-> BitAt(bits, i)])]

RECURSIVE Followed(_, _)
Followed(r, bits) ==
  IF Given(r) = Whole THEN r
  ELSE Followed([Doubled(r) EXCEPT !.value = ((2 * (@ - Given(r))) % Whole) + BitAt(bits, r.pos + 1),
                                   !.pos = @ + 1, !.renorm = @ + 1], bits)

\* The word whose interval holds the value.
WordIn(d, r, bits) ==
  LET total == d.cum[Len(d.cum)]
      scaled == ((r.value - r.low + 1) * total - 1) \div (r.high - r.low + 1)
      j == Min({Len(d.words), Max({1} \cup {i \in DOMAIN d.cum : d.cum[i] <= scaled})})
  IN [Followed(Narrowed(r, d, j), bits) EXCEPT !.words = Append(@, d.words[j])]
NextWord(m, r, bits) == WordIn(Dist[m][Before(r.words, Len(r.words) + 1)], r, bits)

RECURSIVE Generated(_, _, _, _)
Generated(m, r, bits, cap) ==
  IF r.renorm >= Len(bits) + Precision \/ Len(r.words) >= cap THEN r
  ELSE Generated(m, NextWord(m, r, bits), bits, cap)

\* Mutant: what was generated is taken as it is.
Unverified(m, r, bits, cap, left) == [ok |-> TRUE, words |-> r.words]
\* Words are added until what they encode begins with the payload; it is
\* given up after some tries, "should never happen".
RECURSIVE Checked(_, _, _, _, _)
Checked(m, r, bits, cap, left) ==
  IF IsPrefix(bits, EncodeTokens(m, r.words).bits) THEN [ok |-> TRUE, words |-> r.words]
  ELSE IF left = 0 \/ Len(r.words) >= cap THEN [ok |-> FALSE, status |-> 500]
  ELSE Checked(m, NextWord(m, r, bits), bits, cap, left - 1)

ArithHide(m, nonce, data) ==
  LET bits == ToBits(Framed(nonce, data))
      cap == 8 * Len(bits) + 128
  IN IF Len(data) > MaxPayload THEN [ok |-> FALSE, status |-> 500]
     ELSE Checked(m, Generated(m, Decoder(bits), bits, cap), bits, cap, 63)

\* A word that the model knows and would not have said here is a plain error,
\* as is a framing that does not fit.
Read(end) ==
  LET got == Unframed(FromBits(end.bits)) IN
  IF ~end.ok \/ ~got.ok THEN [status |-> 400] ELSE [status |-> 200, data |-> got.data]
ArithReveal(m, words) == Read(EncodeTokens(m, words))
-----------------------------------------------------------------------------
(* The process.  A request that names no coder, or one there is none of,    *)
(* gets the deployment's.                                                   *)
Named(client) == IF client = "x" THEN "arith" ELSE "none"
\* Mutant: the deployment's coder for everyone.
Deployed(which) == svc.coder
Pick(which) == IF which \in Coders THEN which ELSE svc.coder

ByteWord(b) == 100 + b
Hide(kind, coder, nonce, data) ==
  CASE kind = "wordmap" -> [ok |-> TRUE, words |-> [i \in DOMAIN data |-> ByteWord(data[i])]]
    [] kind # "wordmap" /\ coder = "arith" -> ArithHide(kind, nonce, data)
    [] OTHER -> BlockHide(kind, nonce, data)
Seek(kind, coder, words) ==
  CASE kind = "wordmap" ->
         IF ToSet(words) \subseteq {ByteWord(b) : b \in Bytes}
         THEN [status |-> 200, data |-> [i \in DOMAIN words |-> words[i] - 100]] ELSE [status |-> 422]
    [] kind # "wordmap" /\ ~Knows(kind, words) -> [status |-> 422]
    [] kind # "wordmap" /\ Knows(kind, words) /\ coder = "arith" -> ArithReveal(kind, words)
    [] OTHER -> BlockReveal(kind, words)

\* A model that loads must hide and find a random text by the deployment's coder.
Finds(m, coder, cover, data) == cover.ok /\ Seek(m, coder, cover.words) = [status |-> 200, data |-> data]
SelfTest(m, coder, x) == Finds(m, coder, Hide(m, coder, [i \in 1..Nonce |-> x], <<x>>), <<x>>)
Tested == [m \in DOMAIN Models, coder \in Coders, x \in Bytes |-> SelfTest(m, coder, x)]
\* The best model of those that load; one that was asked for by name and does
\* not load, or a table nobody allowed, stops the process.
Loaded(backend, usable, placeholder) ==
  CASE backend \in {"auto", "gpt2"} /\ "gpt2" \in usable -> "gpt2"
    [] backend = "auto" /\ "gpt2" \notin usable /\ "markov" \in usable -> "markov"
    [] backend = "markov" /\ "markov" \in usable -> "markov"
    [] (backend = "auto" /\ usable = {} /\ placeholder) \/ backend = "wordmap" -> "wordmap"
    [] OTHER -> "none"

\* What starting the process can come to, by settings and what is installed.
Outcomes ==
  {[kind |-> Loaded(backend, {m \in installed : Tested[m, coder, x]}, placeholder), coder |-> coder] :
     backend \in {"auto", "gpt2", "markov", "wordmap"}, installed \in SUBSET DOMAIN Models,
     coder \in Coders, x \in Bytes, placeholder \in BOOLEAN}

LoadCodec ==
  /\ svc.starts < MaxStarts /\ note.state # "read"
  /\ \E o \in Outcomes : svc' = [kind |-> o.kind, coder |-> o.coder, starts |-> svc.starts + 1]
  /\ UNCHANGED note

Covers == [kind \in DOMAIN Models \cup {"wordmap"}, coder \in Coders, nonce \in [1..Nonce -> Bytes], data \in Datas |->
             Hide(kind, coder, nonce, data)]
\* Of several covers 0G names one; an answer that is none of them is no answer.
Chosen(covers, index) == IF index \in DOMAIN covers THEN covers[index] ELSE covers[1]

EncodeRequest(client, data) ==
  /\ svc.kind # "none" /\ note.state = "none"
  /\ \E nonce \in [1..Nonce -> Bytes], index \in 0..2 :
       LET coder == Pick(Named(client))
           nonces == <<nonce, [i \in 1..Nonce |-> 0]>>
           covers == [n \in 1..2 |-> Covers[svc.kind, coder, nonces[n], data]]
       IN \E cover \in {Chosen(covers, index)} :
            note' = [state |-> IF cover.ok THEN "sent" ELSE "refused", client |-> client, data |-> data,
                     words |-> IF cover.ok THEN cover.words ELSE <<>>,
                     kind |-> svc.kind, coder |-> coder, touched |-> "no", answer |-> Nothing]
  /\ UNCHANGED svc

\* On its way a cover is cut short, continued or changed.
Touch ==
  /\ note.state = "sent" /\ note.touched = "no" /\ note.words # <<>>
  /\ \/ note' = [note EXCEPT !.words = Front(@), !.touched = "cut"]
     \/ note' = [note EXCEPT !.words = Append(@, 1), !.touched = "more"]
     \/ \E i \in {1, Len(note.words)}, w \in {1, Foreign} :
          note' = [note EXCEPT !.words[i] = w, !.touched = "changed"]
  /\ UNCHANGED svc

DecodeRequest ==
  /\ svc.kind # "none" /\ note.state = "sent"
  /\ note' = [note EXCEPT !.state = "read",
                          !.answer = Seek(svc.kind, Pick(Named(note.client)), note.words)]
  /\ UNCHANGED svc

CoderInit == svc = [kind |-> "none", coder |-> "block", starts |-> 0] /\ note = Nothing
CoderNext == LoadCodec \/ Touch \/ DecodeRequest \/ \E c \in Clients, d \in Datas : EncodeRequest(c, d)
CoderSpec == CoderInit /\ [][CoderNext]_coderVars

-----------------------------------------------------------------------------
\* The same model and the same coder are asked that hid it.
SameCodec == svc.kind = note.kind /\ (svc.kind # "wordmap" => Pick(Named(note.client)) = note.coder)

\* What was hidden is found, whatever the text, the nonce and the model, for as
\* long as the same model runs; a client that names its coder also after a
\* deployment changed the coder (codec.py:56-61), one that does not, until then.
HiddenIsFound ==
  note.state = "read" /\ note.touched = "no" /\ SameCodec => note.answer = [status |-> 200, data |-> note.data]
NamedSurvives ==
  note.state = "read" /\ note.touched = "no" /\ svc.kind = note.kind /\ note.client = "x" =>
    note.answer.status = 200

\* Hiding fails for nothing but size: arith's "should never happen" does not.
SmallIsHidden == note.state = "refused" => Len(note.data) > MaxPayload

\* A block cover that lost its end is refused: the length it claims is not made
\* up from what is left.  (The byte table claims none; the bits that an
\* arithmetic cover holds back at its end may come out otherwise without it.)
CutIsRefused ==
  note.state = "read" /\ note.touched = "cut" /\ SameCodec /\ svc.kind # "wordmap" /\ note.coder = "block" =>
    note.answer.status = 422

\* A text with a word that no model has is ordinary chatter, the one answer
\* that may be remembered for ever (coder.py:NotCoverText).
ForeignIsChatter ==
  note.state = "read" /\ Foreign \in ToSet(note.words) => note.answer.status = 422
=============================================================================
