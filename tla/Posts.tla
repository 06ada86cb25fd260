------------------------------- MODULE Posts -------------------------------
(***************************************************************************)
(* A post that opens only for the readers its author chose: the policy     *)
(* engine (shared/policy.mjs), the sealed posts that came after it         *)
(* (shared/sealed.mjs), the checks of shared/checks and the client half of *)
(* the gate (shared/gateclient.mjs).                                       *)
(*                                                                         *)
(* Keys, shares and masks are 16 random bytes combined with XOR.  Here     *)
(* each of them is a set of atoms, one atom per random value drawn or mask *)
(* derived, and XOR is the symmetric difference.  A body decrypts exactly  *)
(* under its root.                                                         *)
(***************************************************************************)
EXTENDS Integers, Sequences, FiniteSets, FiniteSetsExt, SequencesExt

CONSTANTS
  Phrases,        \* passphrases
  People,         \* owners of messaging keys
  NoOne,          \* no messaging key
  PolicyTrees,    \* the policies an author may write
  MaxDepth, MaxLeaves, MaxChildren,  \* limits of the tree
  MaxCandidates,  \* keys a reader tries (256 in the code)
  Slots,          \* inline checks of a sealed post
  MaxShares       \* shares a reader of a sealed post combines

VARIABLES
  policy,    \* the author's tree
  format,    \* "policy" (with a public shape) or "sealed"
  stage,     \* "draft", "sealing", "posted", "refused"
  held,      \* the paths of the leaves whose shares the gate stores
  reader,    \* what the reader has
  attempt    \* the last attempt to open the post

postVars == <<policy, format, stage, held, reader, attempt>>

Atom(kind, who, path, j) == {<<kind, who, path, j>>}
Root == Atom("root", "-", <<>>, 0)
Fresh(path) == Atom("share", "-", path, 0)

Xor(S) == FoldSet(SymDiff, {}, S)

\* Every key that XORs of K give.
RECURSIVE Span(_)
Span(K) == IF K = {} THEN {{}}
           ELSE LET v == CHOOSE v \in K : TRUE
                    rest == Span(K \ {v}) IN
                rest \cup {SymDiff(v, k) : k \in rest}

-----------------------------------------------------------------------------
(* The tree.  A leaf names its check and that check's secret arguments.    *)

Leaf(check, args) == [op |-> "leaf", check |-> check, args |-> args, kids |-> <<>>]
Node(op, kids) == [op |-> op, check |-> "none", args |-> <<>>, kids |-> kids]
Attested == {"after", "human", "nft"}
Inline == {"public", "passphrase"}

RECURSIVE Leaves(_, _)
Leaves(n, path) ==
  IF n.op = "leaf" THEN << [node |-> n, path |-> path] >>
  ELSE FlattenSeq([i \in DOMAIN n.kids |-> Leaves(n.kids[i], Append(path, i))])

RECURSIVE Valid(_, _)
Valid(n, depth) ==
  n.op # "leaf" =>
    /\ depth < MaxDepth
    /\ Len(n.kids) \in 2..MaxChildren
    /\ \A i \in DOMAIN n.kids : Valid(n.kids[i], depth + 1)
    /\ depth = 0 => Len(Leaves(n, <<>>)) <= MaxLeaves

RECURSIVE Satisfied(_, _, _)
Satisfied(n, passed, path) ==
  CASE n.op = "leaf" -> path \in passed
    [] n.op = "and"  -> \A i \in DOMAIN n.kids : Satisfied(n.kids[i], passed, Append(path, i))
    [] n.op = "or"   -> \E i \in DOMAIN n.kids : Satisfied(n.kids[i], passed, Append(path, i))

-----------------------------------------------------------------------------
(* compile: the author's side.                                             *)

\* The share of the leaf at `rest' below a node with the key `key'.  Of the
\* children of an AND all but the last get fresh shares, the last what is
\* left.  Mutant: it gets the key itself.
RECURSIVE ShareLastWhole(_, _, _, _)
ShareLastWhole(n, key, path, rest) ==
  IF rest = <<>> THEN key
  ELSE LET i == Head(rest)
           here == Append(path, i) IN
       ShareLastWhole(n.kids[i],
                      IF n.op = "or" \/ i = Len(n.kids) THEN key ELSE Fresh(here),
                      here, Tail(rest))

RECURSIVE ShareOf(_, _, _, _)
ShareOf(n, key, path, rest) ==
  IF rest = <<>> THEN key
  ELSE LET i == Head(rest)
           here == Append(path, i)
           given == {Fresh(Append(path, j)) : j \in 1..Len(n.kids) - 1} IN
       ShareOf(n.kids[i],
               CASE n.op = "or" -> key
                 [] n.op = "and" /\ i < Len(n.kids) -> Fresh(here)
                 [] OTHER -> Xor({key} \cup given),
               here, Tail(rest))

LeafShare(l) == ShareOf(policy, Root, <<>>, l.path)

\* The mask of a secret at a leaf.  Mutant: one mask per secret and post.
MaskAnywhere(kind, who, path, j) == Atom(kind, who, <<>>, j)
Mask(kind, who, path, j) == Atom(kind, who, path, j)

\* What the post carries for a leaf; an attested leaf leaves a reference.
SealPublic(l) == << SymDiff(LeafShare(l), Mask("public", "-", l.path, 0)) >>
SealPassphrase(l) == << SymDiff(LeafShare(l), Mask("phrase", l.node.args[1], l.path, 0)) >>
SealRecipients(l) ==
  [j \in DOMAIN l.node.args |-> SymDiff(LeafShare(l), Mask("ecdh", l.node.args[j], l.path, j))]

Material(l) ==
  CASE l.node.check = "public" -> SealPublic(l)
    [] l.node.check = "passphrase" -> SealPassphrase(l)
    [] l.node.check = "recipients" -> SealRecipients(l)
    [] OTHER -> << Atom("ref", "-", l.path, 0) >>

\* The post says the shape of its tree, without the secrets, and carries the
\* material of the leaves one after the other.
RECURSIVE EncodeShape(_)
EncodeShape(n) ==
  IF n.op = "leaf"
  THEN << [op |-> "leaf", check |-> n.check, n |-> IF n.check = "recipients" THEN Len(n.args) ELSE 0] >>
  ELSE << [op |-> n.op, check |-> "none", n |-> Len(n.kids)] >>
       \o FlattenSeq([i \in DOMAIN n.kids |-> EncodeShape(n.kids[i])])

RECURSIVE DecodeShape(_, _)
DecodeShape(s, at) ==
  LET Kid(got, i) == LET r == DecodeShape(s, got.at) IN
                     [kids |-> Append(got.kids, r.node), at |-> r.at]
      got == FoldLeft(Kid, [kids |-> <<>>, at |-> at + 1], [i \in 1..s[at].n |-> i])
  IN IF s[at].op = "leaf"
     THEN [node |-> Leaf(s[at].check, [j \in 1..s[at].n |-> NoOne]), at |-> at + 1]
     ELSE [node |-> Node(s[at].op, got.kids), at |-> got.at]

AllLeaves == Leaves(policy, <<>>)
Container == [shape |-> EncodeShape(policy),
              material |-> FlattenSeq([i \in DOMAIN AllLeaves |-> Material(AllLeaves[i])])]

GateLeaves == SelectSeq(AllLeaves, LAMBDA l : l.node.check \in Attested)

-----------------------------------------------------------------------------
(* open: the reader's side.  Each leaf gives the keys it might hold.       *)

ReadMaterial(l, bytes, at) ==
  SubSeq(bytes, at, at + (IF l.node.check = "recipients" THEN Len(l.node.args) ELSE 1) - 1)

Parse(post) ==
  LET shape == DecodeShape(post.shape, 1).node
      Take(got, l) == LET m == ReadMaterial(l, post.material, got.at) IN
                      [at |-> got.at + Len(m), of |-> Append(got.of, [path |-> l.path, material |-> m])]
  IN [shape |-> shape,
      material |-> FoldLeft(Take, [at |-> 1, of |-> <<>>], Leaves(shape, <<>>)).of]

OpenPublic(l, m) == << SymDiff(m[1], Mask("public", "-", l.path, 0)) >>
OpenPassphrase(l, m) ==
  LET tries == SetToSeq(reader.phrases) IN
  [i \in DOMAIN tries |-> SymDiff(m[1], Mask("phrase", tries[i], l.path, 0))]
\* A reader cannot tell which wrap is theirs.
OpenRecipients(l, m) ==
  IF reader.me = NoOne THEN <<>>
  ELSE [j \in DOMAIN l.node.args |-> SymDiff(m[j], Mask("ecdh", reader.me, l.path, j))]
\* The gate keeps the share of the leaf that the reference was given for.
OpenAttested(m, released) ==
  LET mine == SelectSeq(GateLeaves, LAMBDA g : Atom("ref", "-", g.path, 0) = m[1] /\ g.path \in released) IN
  [i \in DOMAIN mine |-> LeafShare(mine[i])]

OpenLeaf(l, m, released) ==
  CASE l.node.check = "public" -> OpenPublic(l, m)
    [] l.node.check = "passphrase" -> OpenPassphrase(l, m)
    [] l.node.check = "recipients" -> OpenRecipients(l, m)
    [] OTHER -> OpenAttested(m, released)

Dedupe(s) == SelectSeq([i \in DOMAIN s |-> [at |-> i, key |-> s[i]]],
                       LAMBDA e : \A j \in 1..e.at - 1 : s[j] # e.key)
Cut(s, n) == LET d == Dedupe(s) IN [i \in 1..(IF Len(d) > n THEN n ELSE Len(d)) |-> d[i].key]

RECURSIVE Candidates(_, _, _, _)
Candidates(n, path, post, released) ==
  LET Of(i) == Candidates(n.kids[i], Append(path, i), post, released)
      Times(acc, i) ==
        LET cs == Of(i) IN
        Cut(FlattenSeq([a \in DOMAIN acc |-> [c \in DOMAIN cs |-> SymDiff(acc[a], cs[c])]]), MaxCandidates)
      mine == SelectSeq(post.material, LAMBDA m : m.path = path)[1].material
  IN CASE n.op = "leaf" -> OpenLeaf([node |-> n, path |-> path], mine, released)
       [] n.op = "or" -> Cut(FlattenSeq([i \in DOMAIN n.kids |-> Of(i)]), MaxCandidates)
       [] n.op = "and" -> FoldLeft(Times, << {} >>, [i \in DOMAIN n.kids |-> i])

OpenPolicy(released) ==
  LET post == Parse(Container) IN
  Root \in ToSet(Candidates(post.shape, <<>>, post, released))

-----------------------------------------------------------------------------
(* Sealed posts: rows that AND together, the checks of a row OR together,  *)
(* one share per row; two slots for the inline checks, one reference for   *)
(* all the others.                                                         *)

IsRow(n) == n.op = "leaf" \/ (n.op = "or" /\ \A i \in DOMAIN n.kids : n.kids[i].op = "leaf")
RowNodes == IF policy.op = "and" THEN policy.kids ELSE << policy >>
RowOf(l) == IF policy.op = "and" THEN l.path[1] ELSE 1

SlotLeaves == SelectSeq(AllLeaves, LAMBDA l : l.node.check \in Inline)

\* toRows refuses what it cannot express.
Sealable ==
  /\ \A i \in DOMAIN RowNodes : IsRow(RowNodes[i])
  /\ \A i \in DOMAIN AllLeaves : AllLeaves[i].node.check \in Inline \cup Attested
  /\ Len(SlotLeaves) <= Slots

RowShare(r) ==
  IF r < Len(RowNodes) THEN Fresh(<<r>>)
  ELSE Xor({Root} \cup {Fresh(<<j>>) : j \in 1..Len(RowNodes) - 1})

SlotKey(l) == IF l.node.check = "public" THEN <<"public", "-">> ELSE <<"phrase", l.node.args[1]>>
WrapSlot(i) ==
  LET l == SlotLeaves[i] IN
  SymDiff(RowShare(RowOf(l)), Mask(SlotKey(l)[1], SlotKey(l)[2], <<i>>, 1))

\* The tag of a slot tells a reader that a key fits it.
UnwrapSlots(keys) ==
  FlattenSeq([i \in DOMAIN SlotLeaves |->
    IF SlotKey(SlotLeaves[i]) \in keys
    THEN << SymDiff(WrapSlot(i), Mask(SlotKey(SlotLeaves[i])[1], SlotKey(SlotLeaves[i])[2], <<i>>, 1)) >>
    ELSE <<>>])

OpenSealed(released) ==
  LET keys == {<<"public", "-">>} \cup {<<"phrase", p>> : p \in reader.phrases}
      gate == SelectSeq(GateLeaves, LAMBDA l : l.path \in released)
      shares == Cut(UnwrapSlots(keys) \o [i \in DOMAIN gate |-> RowShare(RowOf(gate[i]))], MaxShares)
  IN \E S \in SUBSET ToSet(shares) : S # {} /\ Xor(S) = Root

-----------------------------------------------------------------------------
(* The steps.  Older posts deposit one share after another, sealed posts   *)
(* all of them at once; a request that fails ends the sealing.             *)

NoAttempt == [done |-> FALSE, released |-> {}, opened |-> FALSE]

Compile ==
  /\ stage = "draft" /\ format = "policy"
  /\ stage' = IF Valid(policy, 0) THEN "sealing" ELSE "refused"
  /\ UNCHANGED <<policy, format, held, reader, attempt>>

Pending == SelectSeq(GateLeaves, LAMBDA l : l.path \notin held)

DepositShare ==
  /\ stage = "sealing" /\ Pending # <<>>
  /\ \/ held' = held \cup {Head(Pending).path} /\ UNCHANGED stage
     \/ stage' = "refused" /\ UNCHANGED held
  /\ UNCHANGED <<policy, format, reader, attempt>>

Publish ==
  /\ stage = "sealing" /\ Pending = <<>>
  /\ stage' = "posted"
  /\ UNCHANGED <<policy, format, held, reader, attempt>>

SealPost ==
  /\ stage = "draft" /\ format = "sealed"
  /\ \/ /\ Sealable
        /\ stage' = "posted"
        /\ held' = {GateLeaves[i].path : i \in DOMAIN GateLeaves}
     \/ /\ ~Sealable \/ GateLeaves # <<>>
        /\ stage' = "refused"
        /\ UNCHANGED held
  /\ UNCHANGED <<policy, format, reader, attempt>>

\* The leaves of checks the reader passes whose shares the gate releases now;
\* a request may fail and a reader may decline to prove.
Releasable == {GateLeaves[i].path : i \in {i \in DOMAIN GateLeaves :
                 GateLeaves[i].node.check \in reader.passes /\ GateLeaves[i].path \in held}}

TryOpen ==
  /\ stage = "posted"
  /\ \E released \in SUBSET Releasable :
       attempt' = [done |-> TRUE, released |-> released,
                   opened |-> IF format = "policy" THEN OpenPolicy(released) ELSE OpenSealed(released)]
  /\ UNCHANGED <<policy, format, stage, held, reader>>

PostsInit ==
  /\ policy \in PolicyTrees
  /\ format \in {"policy", "sealed"}
  /\ stage = "draft"
  /\ held = {}
  /\ reader \in [phrases : SUBSET Phrases, me : People \cup {NoOne}, passes : SUBSET {"human", "after"}]
  /\ attempt = NoAttempt

PostsNext == Compile \/ DepositShare \/ Publish \/ SealPost \/ TryOpen

PostsSpec == PostsInit /\ [][PostsNext]_postVars

-----------------------------------------------------------------------------
(* What a post promises.                                                   *)

\* The leaves this reader passes, with what the gate has released.
Passes(l) ==
  CASE l.node.check = "public" -> TRUE
    [] l.node.check = "passphrase" -> l.node.args[1] \in reader.phrases
    [] l.node.check = "recipients" -> reader.me \in ToSet(l.node.args)
    [] OTHER -> l.path \in attempt.released
Passed == {AllLeaves[i].path : i \in {i \in DOMAIN AllLeaves : Passes(AllLeaves[i])}}

\* The most keys that any node of the tree can offer this reader.
RECURSIVE FanOut(_)
FanOut(n) ==
  CASE n.op = "leaf" -> (CASE n.check = "passphrase" -> Cardinality(reader.phrases)
                           [] n.check = "recipients" -> Len(n.args)
                           [] OTHER -> 1)
    [] n.op = "and" -> FoldLeft(LAMBDA a, k : a * FanOut(k), 1, n.kids)
    [] n.op = "or" -> FoldLeft(LAMBDA a, k : a + FanOut(k), 0, n.kids)

\* A post opens exactly for the readers that satisfy its policy, whatever the
\* gate could not answer: never for another, and for each of those whose keys
\* stay within the number the reader's side is willing to try.
OpensExactly ==
  attempt.done =>
    /\ attempt.opened => Satisfied(policy, Passed, <<>>)
    /\ Satisfied(policy, Passed, <<>>) /\ FanOut(policy) <= MaxCandidates => attempt.opened

\* Everything the reader can compute: what the post carries, the masks of the
\* secrets known to them, and the released shares.
Seen ==
  IF format = "policy"
  THEN UNION {ToSet(Material(AllLeaves[i])) : i \in DOMAIN AllLeaves}
  ELSE {WrapSlot(i) : i \in DOMAIN SlotLeaves}
ShareAt(l) == IF format = "policy" THEN LeafShare(l) ELSE RowShare(RowOf(l))
KnownMasks ==
  {m \in UNION Seen : m[1] = "public" \/ (m[1] = "phrase" /\ m[2] \in reader.phrases)
                                       \/ (m[1] = "ecdh" /\ m[2] = reader.me)}
Learned == Span(Seen \cup {{m} : m \in KnownMasks}
                \cup {ShareAt(l) : l \in {l \in ToSet(AllLeaves) : l.path \in attempt.released}})

\* Combining all that is in reach gives a reader the shares of the checks
\* passed and what follows from those, and nothing about the other checks.
SharesStayApart ==
  attempt.done =>
    LET own == Span({ShareAt(l) : l \in {l \in ToSet(AllLeaves) : l.path \in Passed}}) IN
    \A l \in ToSet(AllLeaves) : ShareAt(l) \in Learned => ShareAt(l) \in own

\* The chips shown to the author.  Mutant: `public' is not counted as held by
\* the gate.
GateAloneReads ==
  Satisfied(policy, {AllLeaves[i].path : i \in {i \in DOMAIN AllLeaves :
                       AllLeaves[i].node.check \in Attested}}, <<>>)
GateCanRead ==
  Satisfied(policy, {AllLeaves[i].path : i \in {i \in DOMAIN AllLeaves :
                       AllLeaves[i].node.check \in Attested \cup {"public"}}}, <<>>)
ObfuscationOnly ==
  Satisfied(policy, {AllLeaves[i].path : i \in {i \in DOMAIN AllLeaves :
                       AllLeaves[i].node.check = "public"}}, <<>>)

\* The chips are true of the bytes: the gate's operator alone can put the root
\* together exactly when `gateCanRead' is shown, and everyone with the
\* extension exactly when `obfuscationOnly' is.
HonestChips ==
  stage = "posted" /\ ~attempt.done =>
    LET public == Seen \cup {{m} : m \in {m \in UNION Seen : m[1] = "public"}}
        gates == {ShareAt(l) : l \in {l \in ToSet(AllLeaves) : l.path \in held}} IN
    /\ GateCanRead <=> Root \in Span(public \cup gates)
    /\ ObfuscationOnly <=> Root \in Span(public)
=============================================================================
