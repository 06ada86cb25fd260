-------------------------------- MODULE XFeed --------------------------------
(***************************************************************************)
(* The X extension, reading: a debounced scan walks the posts on screen,   *)
(* decodes those with the hashtag, keeps a decoded per status id, collects *)
(* the parts of a thread and paints what it found.  The feed is            *)
(* virtualised: an article of the page shows one post now and another     *)
(* later.  Source: extension-x/src/content/inbound.ts, index.ts (decode),  *)
(* identity.ts and shared/xframe.mjs (ThreadCollector).                    *)
(***************************************************************************)
EXTENDS Integers, Sequences, FiniteSets

CONSTANTS
  Articles,     \* the articles of the page, in page order
  Posts,        \* what the posts are: [kind, to, thread, seq, total]
  MaxThreads,   \* threads that the collector holds
  MaxRestarts,  \* passes of one scan
  MaxMutations, \* bound on the changes of the page
  MaxKeyMoves,  \* bound on the author's Lock and VaultUnlocks
  MaxBacklog,   \* articles that a pass looks at
  FeedFaults    \* subset of {"codec"}

Kinds == {"plain", "public", "sealed"}
ASSUME FeedAssumption ==
  /\ MaxRestarts \in Nat \ {0} /\ MaxThreads \in Nat \ {0}
  /\ \A p \in DOMAIN Posts : Posts[p].kind \in Kinds

VARIABLES
  node,       \* what an article holds: [post, shows, rendered, state], and a ghost, late:
              \* the post that was still being decoded when it got its present one
  decoded,    \* seen: per post "?", "null", "message" or "part"
  threadText, \* per thread "?", "failed" or "message"
  collector,  \* the threads held, oldest first: [thread, parts]
  identity,   \* the key in the page's memory
  vault,      \* the key in session storage
  scan,       \* the pass: [at, todo, restarts, dirty, article, post]
  rescan,      \* a scan is due
  again,      \* posts whose decode failed in this pass
  mutations, keyMoves,
  overflowed, \* ghost: a thread was pushed out of the collector
  unheard     \* ghost: a reset met a running scan, or the last pass was cut short
              \* after its rescan had been dropped

feedVars == <<node, decoded, threadText, collector, identity, vault, scan, rescan, again,
              mutations, keyMoves, overflowed, unheard>>

Unknown == "?"
PostIds == DOMAIN Posts
Threads == {Posts[p].thread : p \in {q \in PostIds : Posts[q].total > 1}}
PartsOf(t) == {p \in PostIds : Posts[p].thread = t}
NoScan == [at |-> "idle", todo |-> {}, restarts |-> 0, dirty |-> FALSE, article |-> 0, post |-> 0]
NewNode(p) == [post |-> p, shows |-> 0, rendered |-> FALSE, state |-> "", late |-> 0]
Visible == {node[a].post : a \in Articles}
Tagged(p) == Posts[p].kind # "plain"

-----------------------------------------------------------------------------
(* Painting.  shows is the post, or the thread, whose message is painted.  *)

Wanted(p, v, texts) ==
  IF v = "message" THEN "m"
  ELSE CASE texts[Posts[p].thread] = Unknown -> "wait"
         [] texts[Posts[p].thread] = "failed" -> "failed"
         [] texts[Posts[p].thread] = "message" -> IF Posts[p].seq = 0 THEN "m" ELSE "label"

\* paint: post p's verdict on a node.
Paint(n, p, v, texts) ==
  LET want == Wanted(p, v, texts) IN
  IF n.state = want /\ (want = "m" => n.shows = p) THEN n
  ELSE [n EXCEPT !.state = want,
                 !.shows = IF want = "m" THEN p ELSE @,
                 !.rendered = @ \/ want \in {"m", "label"}]

IsOurs(p, verdicts) == verdicts[p] \in {"message", "part"}
\* Mutant: every article gets the post that completed the thread.
RepaintWithIt(nodes, verdicts, texts) ==
  [a \in Articles |-> IF IsOurs(nodes[a].post, verdicts)
                      THEN Paint(nodes[a], scan.post, verdicts[scan.post], texts) ELSE nodes[a]]
RepaintVisible(nodes, verdicts, texts) ==
  [a \in Articles |-> IF IsOurs(nodes[a].post, verdicts)
                      THEN Paint(nodes[a], nodes[a].post, verdicts[nodes[a].post], texts) ELSE nodes[a]]

-----------------------------------------------------------------------------
(* The page.                                                               *)

\* debouncedScan.
Mutated == /\ rescan' = TRUE
           /\ scan' = IF scan.at = "idle" THEN scan ELSE [scan EXCEPT !.dirty = TRUE]

\* An article shows another post; its text is new, its marks may be the old ones.
Recycle(a, p) ==
  /\ mutations < MaxMutations
  /\ p \notin Visible
  /\ mutations' = mutations + 1
  /\ \E n \in {NewNode(p), [node[a] EXCEPT !.post = p, !.shows = 0]} :
       node' = [node EXCEPT ![a] = [n EXCEPT !.late = IF scan.at = "decoding" /\ scan.article = a THEN scan.post ELSE 0]]
  /\ Mutated
  /\ UNCHANGED <<decoded, threadText, collector, identity, vault, again, keyMoves, overflowed, unheard>>

\* The page changes elsewhere.
PageMoves ==
  /\ mutations < MaxMutations /\ ~rescan
  /\ mutations' = mutations + 1
  /\ Mutated
  /\ UNCHANGED <<node, decoded, threadText, collector, identity, vault, again, keyMoves, overflowed, unheard>>

\* The scan's rescan: dropped while a scan runs.
RescanFires ==
  /\ rescan /\ rescan' = FALSE
  /\ scan' = IF scan.at = "idle" THEN [NoScan EXCEPT !.at = "pass", !.restarts = 1] ELSE scan
  /\ UNCHANGED <<node, decoded, threadText, collector, identity, vault, again, mutations, keyMoves, overflowed, unheard>>

-----------------------------------------------------------------------------
(* The scan.                                                               *)

\* The articles of one pass, the first ones of the page.
Backlog == {a \in Articles : Cardinality({b \in Articles : b <= a}) <= MaxBacklog}

StartPass ==
  /\ scan.at = "pass"
  /\ scan' = [scan EXCEPT !.at = "looking", !.dirty = FALSE, !.todo = Backlog]
  /\ again' = {}
  /\ UNCHANGED <<node, decoded, threadText, collector, identity, vault, rescan, mutations, keyMoves, overflowed, unheard>>

\* A pass ends when it is through or something newer came.  Mutant: what came
\* during a pass is left to its rescan.
EndAtOnce ==
  /\ scan.at = "looking" /\ (scan.dirty \/ scan.todo = {})
  /\ scan' = NoScan
  /\ UNCHANGED <<node, decoded, threadText, collector, identity, vault, rescan, again, mutations, keyMoves, overflowed, unheard>>
EndPass ==
  /\ scan.at = "looking" /\ (scan.dirty \/ scan.todo = {})
  /\ scan' = IF scan.dirty /\ scan.restarts < MaxRestarts
             THEN [scan EXCEPT !.at = "pass", !.restarts = @ + 1] ELSE NoScan
  /\ unheard' = (unheard \/ (scan.dirty /\ scan.restarts = MaxRestarts /\ ~rescan))
  /\ UNCHANGED <<node, decoded, threadText, collector, identity, vault, rescan, again, mutations, keyMoves, overflowed>>

\* One article: what is known is painted, what has no hashtag is not ours, and
\* the rest is asked of the codec.
LookAtArticle(a) ==
  LET p == node[a].post
      next == [scan EXCEPT !.todo = @ \ {a}] IN
  CASE decoded[p] # Unknown ->
         /\ node' = IF IsOurs(p, decoded) THEN [node EXCEPT ![a] = Paint(@, p, decoded[p], threadText)] ELSE node
         /\ rescan' = (rescan \/ node' # node)
         /\ scan' = [next EXCEPT !.dirty = node' # node]
         /\ UNCHANGED decoded
    [] decoded[p] = Unknown /\ node[a].rendered -> scan' = next /\ UNCHANGED <<node, rescan, decoded>>
    [] decoded[p] = Unknown /\ ~node[a].rendered /\ ~Tagged(p) ->
         scan' = next /\ decoded' = [decoded EXCEPT ![p] = "null"] /\ UNCHANGED <<node, rescan>>
    [] OTHER -> /\ scan' = [next EXCEPT !.at = "decoding", !.article = a, !.post = p]
                /\ UNCHANGED <<node, rescan, decoded>>

LookAt ==
  /\ scan.at = "looking" /\ ~scan.dirty
  /\ \E a \in scan.todo : (\A b \in scan.todo : a <= b) /\ LookAtArticle(a)
  /\ UNCHANGED <<threadText, collector, identity, vault, again, mutations, keyMoves, overflowed, unheard>>

-----------------------------------------------------------------------------
(* decode: the codec, the collector, the key.                              *)

\* ThreadCollector.offer: a new thread may push the oldest one out.
Slot(t) == {i \in DOMAIN collector : collector[i].thread = t}
Offered(p) ==
  LET t == Posts[p].thread
      kept == IF Len(collector) >= MaxThreads THEN Tail(collector) ELSE collector IN
  IF Slot(t) = {} THEN Append(kept, [thread |-> t, parts |-> {p}])
  ELSE [i \in DOMAIN collector |-> IF i \in Slot(t) THEN [collector[i] EXCEPT !.parts = @ \cup {p}] ELSE collector[i]]
WholeThread(p, held) ==
  \E i \in DOMAIN held : held[i].thread = Posts[p].thread /\ Cardinality(held[i].parts) = Posts[p].total

\* identity.current: the page's copy first.
Current == IF identity # "none" THEN identity ELSE vault
OpensFor(p) == Posts[p].kind = "public" \/ Posts[p].to = Current

PassOn(nodes, verdicts, texts) ==
  /\ node' = nodes /\ decoded' = verdicts /\ threadText' = texts
  /\ rescan' = (rescan \/ nodes # node)
  /\ scan' = [scan EXCEPT !.at = "looking", !.dirty = @ \/ nodes # node]
Undone == node' = node /\ decoded' = decoded /\ threadText' = threadText /\ rescan' = rescan
          /\ scan' = [scan EXCEPT !.at = "looking"]

\* RETRY: nothing is recorded.  Mutant: the answer is taken as final.
RetryIsFinal ==
  /\ scan.at = "decoding" /\ "codec" \in FeedFaults
  /\ PassOn(node, [decoded EXCEPT ![scan.post] = "null"], threadText)
  /\ again' = again \cup {scan.post}
  /\ UNCHANGED <<collector, identity, vault, mutations, keyMoves, overflowed, unheard>>
CodecFails ==
  /\ scan.at = "decoding" /\ "codec" \in FeedFaults
  /\ Undone
  /\ again' = again \cup {scan.post}
  /\ UNCHANGED <<collector, identity, vault, mutations, keyMoves, overflowed, unheard>>

\* One post; text that is no cover of ours (422) opens to nobody.
Single ==
  /\ scan.at = "decoding" /\ Posts[scan.post].total = 1
  /\ LET p == scan.post IN
     IF Posts[p].kind = "sealed" /\ Current = "none" THEN Undone /\ again' = again \cup {p}
     ELSE LET v == [decoded EXCEPT ![p] = IF OpensFor(p) THEN "message" ELSE "null"] IN
          /\ PassOn(IF OpensFor(p) THEN [node EXCEPT ![scan.article] = Paint(@, p, "message", threadText)] ELSE node,
                    v, threadText)
          /\ UNCHANGED again
  /\ identity' = IF Posts[scan.post].kind = "sealed" THEN Current ELSE identity
  /\ UNCHANGED <<collector, vault, mutations, keyMoves, overflowed, unheard>>

\* A part, and its siblings on screen when it completes the thread.
PaintThread(p, v, texts) ==
  LET painted == [node EXCEPT ![scan.article] = Paint(@, p, v[p], texts)] IN
  IF texts[Posts[p].thread] = Unknown THEN painted ELSE RepaintVisible(painted, v, texts)

ThreadPart ==
  /\ scan.at = "decoding" /\ Posts[scan.post].total > 1
  /\ LET p == scan.post
         t == Posts[p].thread
         whole == WholeThread(p, Offered(p))
         locked == whole /\ Posts[p].kind = "sealed" /\ Current = "none"
         texts == IF ~whole THEN threadText
                  ELSE [threadText EXCEPT ![t] = IF OpensFor(p) THEN "message" ELSE "failed"]
         v == [decoded EXCEPT ![p] = "part"] IN
     /\ collector' = Offered(p)
     /\ overflowed' = (overflowed \/ (Slot(t) = {} /\ Len(collector) >= MaxThreads))
     /\ identity' = IF whole /\ Posts[p].kind = "sealed" THEN Current ELSE identity
     /\ IF locked THEN Undone /\ again' = again \cup {p}
        ELSE PassOn(PaintThread(p, v, texts), v, texts) /\ UNCHANGED again
  /\ UNCHANGED <<vault, mutations, keyMoves, unheard>>

-----------------------------------------------------------------------------
(* The popup; every change of the storage resets the feed.                 *)

Reset ==
  /\ decoded' = [p \in PostIds |-> Unknown]
  /\ threadText' = [t \in Threads |-> Unknown]
  /\ again' = {}
  /\ unheard' = (unheard \/ scan.at # "idle")
  /\ scan' = IF scan.at = "idle" THEN [NoScan EXCEPT !.at = "pass", !.restarts = 1] ELSE scan

VaultUnlocks(k) ==
  /\ keyMoves < MaxKeyMoves /\ vault # k
  /\ vault' = k /\ keyMoves' = keyMoves + 1
  /\ Reset
  /\ UNCHANGED <<node, collector, identity, rescan, mutations, overflowed>>
Lock ==
  /\ keyMoves < MaxKeyMoves /\ vault # "none"
  /\ vault' = "none" /\ keyMoves' = keyMoves + 1
  /\ Reset
  /\ UNCHANGED <<node, collector, identity, rescan, mutations, overflowed>>

FeedKeys == {"me"}
FeedInit ==
  /\ node \in {[a \in Articles |-> NewNode(ps[a])] : ps \in {f \in [Articles -> PostIds] : \A a, b \in Articles : a < b => f[a] < f[b]}}
  /\ decoded = [p \in PostIds |-> Unknown]
  /\ threadText = [t \in Threads |-> Unknown]
  /\ collector = <<>> /\ identity = "none" /\ vault \in {"none"} \cup FeedKeys
  /\ scan = [NoScan EXCEPT !.at = "pass", !.restarts = 1] /\ rescan = FALSE
  /\ again = {} /\ mutations = 0 /\ keyMoves = 0 /\ overflowed = FALSE /\ unheard = FALSE

FeedNext ==
  \/ \E a \in Articles, p \in PostIds : Recycle(a, p)
  \/ PageMoves \/ RescanFires \/ StartPass \/ EndPass \/ LookAt
  \/ CodecFails \/ Single \/ ThreadPart
  \/ \E k \in FeedKeys : VaultUnlocks(k)
  \/ Lock

FeedSpec == FeedInit /\ [][FeedNext]_feedVars

-----------------------------------------------------------------------------
\* An article shows the message of its own post, although it is recycled while
\* scans run; or that of the post it was taken from in the middle of a decode,
\* whose answer is painted on the article that was asked for.
ShownIsOwn == \A a \in Articles : node[a].shows \in {0, node[a].post, node[a].late}

\* While the collector has room no message is lost: a thread whose parts were
\* all decoded is decided, and a post is put aside as not ours only when it is
\* not, whatever failed on the way.
NothingIsLost ==
  /\ ~overflowed => \A t \in Threads : (\A p \in PartsOf(t) : Cardinality(PartsOf(t)) = Posts[p].total /\ decoded[p] = "part") => threadText[t] # Unknown
  /\ \A p \in PostIds : decoded[p] = "null" => Posts[p].kind = "plain" \/ (Posts[p].kind = "sealed" /\ Posts[p].to \notin FeedKeys)

\* A feed at rest is done with its articles: it has looked at every post on screen, and the message of a
\* thread is on its first post, whichever part came last: unless the wake-up
\* for it met a running scan.
Done(a) ==
  LET p == node[a].post IN
  /\ decoded[p] # Unknown \/ node[a].rendered \/ p \in again
  /\ decoded[p] = "part" /\ Posts[p].seq = 0 /\ threadText[Posts[p].thread] = "message" => node[a].shows = p
RestIsPainted == ~unheard /\ scan.at = "idle" /\ ~rescan => \A a \in Backlog : Done(a)
=============================================================================
