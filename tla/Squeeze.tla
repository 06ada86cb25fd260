------------------------------ MODULE Squeeze ------------------------------
(***************************************************************************)
(* shared/squeeze.mjs: text is compressed with a fixed dictionary before   *)
(* it is encrypted.  A text is a sequence of UTF-16 units, as JavaScript   *)
(* indexes it, and a wire form a sequence of bytes.                        *)
(***************************************************************************)
EXTENDS Integers, Sequences, FiniteSets, SequencesExt

CONSTANTS
  Table,     \* the dictionary, a sequence of texts
  Chunks,    \* texts that messages are put together from
  MaxChunks  \* the most chunks of a message

VARIABLES text, wire, read
squeezeVars == <<text, wire, read>>

Escape == 127
Base == 128

\* Units: ASCII, one letter of two bytes, the halves of one astral character
\* and the replacement character.
Accent == 233
HighHalf == 55357
LowHalf == 56832
Replaced == 65533
Astral == <<240, 159, 152, 128>>

\* TextEncoder on a string of one unit: half a character is replaced.
EncodeUnit(u) ==
  CASE u < Base -> <<u>>
    [] u = Accent -> <<195, 169>>
    [] OTHER -> <<239, 191, 189>>

RECURSIVE Encode(_)
Encode(t) ==
  CASE t = <<>> -> <<>>
    [] Len(t) > 1 /\ t[1] = HighHalf /\ t[2] = LowHalf -> Astral \o Encode(SubSeq(t, 3, Len(t)))
    [] OTHER -> EncodeUnit(t[1]) \o Encode(Tail(t))

\* TextDecoder.
RECURSIVE Decode(_)
Decode(b) ==
  LET Rest(n) == Decode(SubSeq(b, n + 1, Len(b))) IN
  CASE b = <<>> -> <<>>
    [] b[1] < Base -> <<b[1]>> \o Rest(1)
    [] IsPrefix(<<195, 169>>, b) -> <<Accent>> \o Rest(2)
    [] IsPrefix(<<239, 191, 189>>, b) -> <<Replaced>> \o Rest(3)
    [] IsPrefix(Astral, b) -> <<HighHalf, LowHalf>> \o Rest(4)
    [] OTHER -> <<Replaced>> \o Rest(1)

\* The longest entry that the text starts with, or 0.
Hits(t) == {i \in DOMAIN Table : IsPrefix(Table[i], t)}
Hit(t) == IF Hits(t) = {} THEN 0
          ELSE CHOOSE i \in Hits(t) : \A j \in Hits(t) : Len(Table[j]) <= Len(Table[i])

Escaped(bytes) ==
  FlattenSeq([i \in DOMAIN bytes |-> IF bytes[i] >= Escape THEN <<Escape, bytes[i]>> ELSE <<bytes[i]>>])

\* Greedy; a unit that no entry covers is a literal.
RECURSIVE Squeezed(_)
Squeezed(t) ==
  IF t = <<>> THEN <<>>
  ELSE LET i == Hit(t) IN
       IF i > 0 THEN <<Base + i - 1>> \o Squeezed(SubSeq(t, Len(Table[i]) + 1, Len(t)))
       ELSE Escaped(EncodeUnit(t[1])) \o Squeezed(Tail(t))

\* Literal bytes are decoded run by run; a stream that is cut is no text.
\* Mutant: a dictionary entry does not end the run before it.
RECURSIVE RunOn(_, _)
RunOn(b, run) ==
  CASE b = <<>> -> [ok |-> TRUE, text |-> Decode(run)]
    [] b[1] = Escape /\ Len(b) = 1 -> [ok |-> FALSE, text |-> <<>>]
    [] b[1] = Escape /\ Len(b) > 1 -> RunOn(SubSeq(b, 3, Len(b)), Append(run, b[2]))
    [] b[1] < Escape -> RunOn(Tail(b), Append(run, b[1]))
    [] b[1] >= Base -> IF b[1] - Base >= Len(Table) THEN [ok |-> FALSE, text |-> <<>>]
                       ELSE LET r == RunOn(Tail(b), run) IN
                            [r EXCEPT !.text = Table[b[1] - Base + 1] \o @]

RECURSIVE Unsqueezed(_, _)
Unsqueezed(b, run) ==
  CASE b = <<>> -> [ok |-> TRUE, text |-> Decode(run)]
    [] b[1] = Escape /\ Len(b) = 1 -> [ok |-> FALSE, text |-> <<>>]
    [] b[1] = Escape /\ Len(b) > 1 -> Unsqueezed(SubSeq(b, 3, Len(b)), Append(run, b[2]))
    [] b[1] < Escape -> Unsqueezed(Tail(b), Append(run, b[1]))
    [] b[1] >= Base -> IF b[1] - Base >= Len(Table) THEN [ok |-> FALSE, text |-> <<>>]
                       ELSE LET r == Unsqueezed(Tail(b), <<>>) IN
                            [r EXCEPT !.text = Decode(run) \o Table[b[1] - Base + 1] \o @]

SqueezeIfSmaller(t) ==
  LET raw == Encode(t)
      small == Squeezed(t) IN
  IF Len(small) < Len(raw) THEN [bytes |-> small, squeezed |-> TRUE]
  ELSE [bytes |-> raw, squeezed |-> FALSE]

UnsqueezeMaybe(w) == IF w.squeezed THEN Unsqueezed(w.bytes, <<>>) ELSE [ok |-> TRUE, text |-> Decode(w.bytes)]

-----------------------------------------------------------------------------
Unsent == [bytes |-> <<>>, squeezed |-> FALSE]
Unread == [ok |-> FALSE, text |-> <<>>]

SqueezeInit ==
  /\ text = <<>>
  /\ wire = Unsent
  /\ read = Unread

\* The author writes the message, one chunk after another.
Write ==
  /\ wire = Unsent
  /\ \E c \in Chunks : text' = text \o c
  /\ Len(text) < MaxChunks
  /\ UNCHANGED <<wire, read>>

Ship == /\ wire = Unsent /\ text # <<>>
        /\ wire' = SqueezeIfSmaller(text)
        /\ UNCHANGED <<text, read>>

ReadIt == /\ wire # Unsent /\ read = Unread
          /\ read' = UnsqueezeMaybe(wire)
          /\ UNCHANGED <<text, wire>>

SqueezeNext == Write \/ Ship \/ ReadIt
SqueezeSpec == SqueezeInit /\ [][SqueezeNext]_squeezeVars

-----------------------------------------------------------------------------
\* The reader sees the text the author wrote: whatever is a literal, an
\* escaped byte or an entry, and whichever of the two forms was shipped.
SqueezeExact == read # Unread => read.ok /\ read.text = text
=============================================================================
