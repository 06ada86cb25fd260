-------------------------------- MODULE XPost --------------------------------
(***************************************************************************)
(* The X extension, posting: a click on Post or Ctrl+Enter is held back,   *)
(* the text is encrypted and encoded, split into as many posts as it       *)
(* needs, laid out over the composers of one thread and only then posted.  *)
(* Source: extension-x/src/content/index.ts (swap) and compose.ts.         *)
(***************************************************************************)
EXTENDS Integers, Sequences

CONSTANTS
  PostLimit, TagCost, Safety,  \* 280, 13 and 78 (percent) in the code
  MaxParts,     \* the most posts of one message
  CipherSizes,  \* sizes of an encrypted message, in bytes
  Costs,        \* characters of cover that one byte may cost
  MaxSwaps,     \* bound on the messages of a behaviour
  MaxEdits,     \* bound on what the author types
  OwnThreads,   \* the author may lay out a thread by hand
  XFaults       \* subset of {"codec", "ens", "append", "deaf", "mount", "undo"}

ASSUME XPostAssumption ==
  /\ PostLimit \in Nat /\ TagCost \in Nat /\ Safety \in Nat /\ TagCost <= PostLimit
  /\ Costs \subseteq Nat /\ CipherSizes \subseteq Nat

VARIABLES
  composers,     \* the composers of the dialog: a set of fragments each
  swap,      \* the message on its way
  swaps,
  swapping,  \* the flag that holds further clicks back
  allow,     \* the flag that lets one click through
  on,        \* the master switch
  named,     \* recipients are configured
  authorEdits,
  posted     \* the threads that were published

xpostVars == <<composers, swap, swaps, swapping, allow, on, named, authorEdits, posted>>

Real(n) == <<"real", n>>
Cover(m, i) == <<"cover", m, i>>
IsReal(f) == f[1] = "real"

NoSwap == [at |-> "none", real |-> {}, id |-> 0, size |-> 0, try |-> 0, first |-> 0,
           frames |-> <<>>, done |-> 0, tries |-> 0]
Header(n) == IF n > 1 THEN 4 ELSE 2
Ceil(a, b) == (a + b - 1) \div b

\* buildXFrames: the payload of each frame, from chunk bytes per post.
FramesOneShort(size, chunk) ==
  LET n == Ceil(size, chunk) IN
  [i \in 1..n |-> [from |-> (i - 1) * chunk, to |-> IF i = n THEN size ELSE i * chunk - 1]]
Frames(size, chunk) ==
  LET n == Ceil(size, chunk) IN
  [i \in 1..n |-> [from |-> (i - 1) * chunk, to |-> IF i = n THEN size ELSE i * chunk]]

\* The size of a part, from what the first cover cost.
Shrunk(a, try) ==
  CASE try = 0 -> a
    [] try = 1 -> (a * Safety) \div 100
    [] try = 2 -> (a * Safety * Safety) \div 10000
Chunk(size, first, try) ==
  LET fit == (Shrunk((PostLimit - TagCost) * Safety, try) * (size + Header(1))) \div ((first - TagCost) * 100) IN
  IF fit - 4 < 2 THEN 2 ELSE fit - 4

Length(f, n, cost) == (f.to - f.from + Header(n)) * cost + TagCost

SwapGoes(step) == swap' = [swap EXCEPT !.at = step]

-----------------------------------------------------------------------------
(* The author.                                                             *)

\* While the codec works the composers stay editable.
Typing == swap.at \in {"none", "resolve", "single", "parts"}
AuthorTypes(b) ==
  /\ Typing /\ authorEdits < MaxEdits
  /\ authorEdits' = authorEdits + 1
  /\ composers' = [composers EXCEPT ![b] = @ \cup {Real(authorEdits + 1)}]
  /\ UNCHANGED <<swap, swaps, swapping, allow, on, named, posted>>

AddByHand ==
  /\ OwnThreads /\ swap.at = "none" /\ Len(composers) < 2 /\ composers[1] # {}
  /\ composers' = Append(composers, {})
  /\ UNCHANGED <<swap, swaps, swapping, allow, on, named, authorEdits, posted>>

\* Ctrl+Z in the first box, before the last look at it.
Undo ==
  /\ "undo" \in XFaults
  /\ swap.at \in {"layout", "mounting", "gate"}
  /\ composers[1] # swap.real
  /\ composers' = [composers EXCEPT ![1] = swap.real]
  /\ UNCHANGED <<swap, swaps, swapping, allow, on, named, authorEdits, posted>>

Switch ==
  /\ on' = ~on
  /\ swap.at = "none" /\ swaps < MaxSwaps
  /\ UNCHANGED <<composers, swap, swaps, swapping, allow, named, authorEdits, posted>>

-----------------------------------------------------------------------------
(* The interceptor.                                                        *)

\* The click listener lets its own click through, and everything while the
\* extension is off; the rest starts a swap or is swallowed.
PublishThread(by) ==
  /\ posted' = posted \cup {[by |-> by, composers |-> composers, id |-> swap.id, frames |-> swap.frames, real |-> swap.real, size |-> swap.size]}
  /\ composers' = << {} >>

PostWhileOff ==
  /\ ~on /\ ~allow /\ composers[1] # {} /\ swap.at = "none"
  /\ PublishThread("author")
  /\ UNCHANGED <<swap, swaps, swapping, allow, on, named, authorEdits>>

\* doSwapAndPost reads one box: the first one, as the click took the focus.
Intercept ==
  /\ on /\ ~swapping /\ swaps < MaxSwaps
  /\ composers[1] # {}
  /\ swapping' = TRUE /\ swaps' = swaps + 1
  /\ \E s \in CipherSizes :
       swap' = [NoSwap EXCEPT !.at = "resolve", !.real = composers[1], !.id = swaps + 1, !.size = s]
  /\ UNCHANGED <<composers, allow, on, named, authorEdits, posted>>

Aborts ==
  /\ swap' = NoSwap /\ swapping' = FALSE
  /\ UNCHANGED <<composers, swaps, allow, on, named, authorEdits, posted>>

-----------------------------------------------------------------------------
(* swap: recipients, one cover for all of it, then parts.                  *)

\* Every named handle must resolve.
Resolve ==
  /\ swap.at = "resolve"
  /\ SwapGoes("single")
  /\ UNCHANGED <<composers, swaps, swapping, allow, on, named, authorEdits, posted>>
Unresolved == swap.at = "resolve" /\ named /\ "ens" \in XFaults /\ Aborts

EncodeSingle ==
  /\ swap.at = "single"
  /\ \E cost \in Costs :
       LET whole == [from |-> 0, to |-> swap.size]
           length == Length(whole, 1, cost) IN
       swap' = IF length <= PostLimit THEN [swap EXCEPT !.frames = <<whole>>, !.at = "layout"]
               ELSE [swap EXCEPT !.first = length, !.at = "parts",
                                 !.frames = Frames(swap.size, Chunk(swap.size, length, 0))]
  /\ UNCHANGED <<composers, swaps, swapping, allow, on, named, authorEdits, posted>>

\* One part; a cover that does not fit starts over with smaller parts.
EncodePart ==
  /\ swap.at = "parts" /\ Len(swap.frames) <= MaxParts
  /\ \E cost \in Costs :
       IF Length(swap.frames[swap.done + 1], Len(swap.frames), cost) <= PostLimit
       THEN swap' = [swap EXCEPT !.done = @ + 1,
                                 !.at = IF swap.done + 1 = Len(swap.frames) THEN "layout" ELSE "parts"]
       ELSE /\ swap.try < 2
            /\ swap' = [swap EXCEPT !.try = @ + 1, !.done = 0,
                                    !.frames = Frames(swap.size, Chunk(swap.size, swap.first, swap.try + 1))]
  /\ UNCHANGED <<composers, swaps, swapping, allow, on, named, authorEdits, posted>>

TooLong == swap.at = "parts" /\ Len(swap.frames) > MaxParts /\ Aborts
NeverFits ==
  /\ swap.at = "parts" /\ Len(swap.frames) <= MaxParts /\ swap.try = 2
  /\ \E cost \in Costs : Length(swap.frames[swap.done + 1], Len(swap.frames), cost) > PostLimit
  /\ Aborts
EncodeFails == "codec" \in XFaults /\ swap.at \in {"single", "parts"} /\ Aborts

-----------------------------------------------------------------------------
(* layoutThread, the last look and the click.                              *)


Part == swap.tries \div 3 + 1     \* three tries for each part

\* replaceCompose on box i: the editor takes the text, or adds it, or shows it
\* without taking it; both outcomes are looked at.
WriteBox(i, result) ==
  LET c == {Cover(swap.id, i)} IN
  CASE result = "taken" -> [composers EXCEPT ![i] = c]
    [] result = "append" -> [composers EXCEPT ![i] = @ \cup c]
    [] result = "deaf" -> composers
NextPart == IF Part = Len(swap.frames) THEN "gate" ELSE "mounting"
ReplaceCompose ==
  /\ swap.at = "layout"
  /\ \E result \in {"taken"} \cup (XFaults \cap {"append", "deaf"}) :
       LET after == WriteBox(Part, result)
           good == /\ after[Part] = {Cover(swap.id, Part)} /\ result # "deaf"
                   /\ \A i \in DOMAIN after : after[i] # {} IN   \* X lets no empty part through
       /\ composers' = after
       /\ IF good THEN swap' = [swap EXCEPT !.at = NextPart, !.tries = Part * 3] /\ UNCHANGED swapping
          ELSE IF swap.tries % 3 < 2 THEN swap' = [swap EXCEPT !.tries = @ + 1] /\ UNCHANGED swapping
          ELSE swap' = NoSwap /\ swapping' = FALSE
  /\ UNCHANGED <<swaps, allow, on, named, authorEdits, posted>>

\* "Add post" mounts the next composer, or never does.
MountNext ==
  /\ swap.at = "mounting"
  /\ composers' = Append(composers, {})
  /\ SwapGoes("layout")
  /\ UNCHANGED <<swaps, swapping, allow, on, named, authorEdits, posted>>
NeverMounts == "mount" \in XFaults /\ swap.at = "mounting" /\ Aborts

\* The text that was swapped may be in no composer.  Mutant: only the last
\* composer is looked at.
LookAtTheLast ==
  /\ swap.at = "gate" /\ ~(swap.real \subseteq composers[Len(composers)])
  /\ SwapGoes("press") /\ allow' = TRUE
  /\ UNCHANGED <<composers, swaps, swapping, on, named, authorEdits, posted>>
LastGate ==
  /\ swap.at = "gate" /\ \A i \in DOMAIN composers : ~(swap.real \subseteq composers[i])
  /\ SwapGoes("press") /\ allow' = TRUE
  /\ UNCHANGED <<composers, swaps, swapping, on, named, authorEdits, posted>>
Leaked == swap.at = "gate" /\ (\E i \in DOMAIN composers : swap.real \subseteq composers[i]) /\ Aborts

\* Our click, or the author's in the quarter second before it.
Press ==
  /\ swap.at = "press" /\ allow
  /\ PublishThread("extension")
  /\ allow' = FALSE /\ swap' = NoSwap /\ swapping' = FALSE
  /\ UNCHANGED <<swaps, on, named, authorEdits>>

XPostInit ==
  /\ composers = << {} >> /\ swap = NoSwap /\ swaps = 0 /\ swapping = FALSE /\ allow = FALSE
  /\ on \in BOOLEAN /\ named \in BOOLEAN /\ authorEdits = 0 /\ posted = {}

XPostNext ==
  \/ \E b \in DOMAIN composers : AuthorTypes(b)
  \/ AddByHand \/ Undo \/ Switch \/ PostWhileOff \/ Intercept
  \/ Resolve \/ Unresolved \/ EncodeSingle \/ EncodePart \/ TooLong \/ NeverFits \/ EncodeFails
  \/ ReplaceCompose \/ MountNext \/ NeverMounts \/ LastGate \/ Leaked \/ Press

XPostSpec == XPostInit /\ [][XPostNext]_xpostVars

-----------------------------------------------------------------------------
OursPosted == {p \in posted : p.by = "extension"}

\* What the extension publishes begins with the whole message as covers, one
\* part to a post, in order, the posts carry its bytes without a gap, and the
\* text that was swapped is nowhere: whatever the editor did with the text and
\* however often a part was redone.
PostedWhole ==
  \A p \in OursPosted :
    /\ \A i \in DOMAIN p.composers : \A f \in p.composers[i] : ~IsReal(f) \/ f \notin p.real
    /\ \A i \in DOMAIN p.frames :
         /\ p.composers[i] = {Cover(p.id, i)}
         /\ p.frames[i].from = IF i = 1 THEN 0 ELSE p.frames[i - 1].to
         /\ i = Len(p.frames) => p.frames[i].to = p.size
=============================================================================
