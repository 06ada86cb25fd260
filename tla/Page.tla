-------------------------------- MODULE Page --------------------------------
(***************************************************************************)
(* The universal extension on a page: blocks of text appear, scans collect *)
(* them, the service worker asks the codec and the gate which of them are  *)
(* posts for this reader, and a chip appears under each of those.  Source: *)
(* extension-everywhere/src/content, background/index.ts (FIND_POSTS) and  *)
(* background/sealed.ts.                                                   *)
(***************************************************************************)
EXTENDS Integers, Sequences, FiniteSets

CONSTANTS
  Places,         \* places of blocks on the page, numbered in page order
  Content,        \* Content[p]: "plain", "prose" (looks like a cover, is none)
                  \* or a post: "any", "pass", "gate", "both", after its checks
  MaxBlocks,      \* blocks that a scan collects (200 in the code)
  MaxFinds,       \* candidates that the worker decodes (40 in the code)
  MaxScans,       \* bound on the scans of a behaviour
  PageFaults      \* subset of {"codec", "gate", "worker"}

ASSUME PageAssumption == Places \subseteq Nat /\ IsFiniteSet(Places)

VARIABLES
  here,    \* the blocks that are on the page
  auto,    \* the site is "always on" and the observer runs
  timer,   \* the observer's debounce timer is set
  seen,    \* blocks marked lortnocSeen
  chips,   \* the chips under each block, each with its id
  scans,   \* scans in flight
  started, \* how many scans there were
  ring,    \* what the keyring holds: subset of {"pass", "token"}
  notice,  \* storage.onChanged is on its way to the page
  texts,   \* storage.session: what each id shows
  missed,  \* ghost: blocks whose last scan could not try them
  shown    \* what the card shows, and for which block

pageVars == <<here, auto, timer, seen, chips, scans, started, ring, notice, texts, missed, shown>>

IsPost(p) == Content[p] \in {"any", "pass", "gate", "both"}
LooksLikeCover(p) == Content[p] # "plain"
Chipped == {p \in Places : chips[p] # <<>>}

\* The index in a list of blocks, which is in page order.
IndexIn(blocks, p) == Cardinality({q \in blocks : q <= p})

\* Blocks with a chip are the extension's own to collectBlocks.
CollectBlocks == {p \in here \ Chipped : IndexIn(here \ Chipped, p) <= MaxBlocks}

\* The texts worth a codec call, each with its index among the blocks.
\* Mutant: with its index among the texts sent.
Rank(blocks, p) == IndexIn({q \in blocks : LooksLikeCover(q)}, p)
CandidatesRenumbered(blocks) ==
  {[i |-> Rank(blocks, p), text |-> p] :
     p \in {q \in blocks : LooksLikeCover(q) /\ Rank(blocks, q) <= MaxFinds}}
FindCandidates(blocks) ==
  {[i |-> IndexIn(blocks, p), text |-> p] :
     p \in {q \in blocks : LooksLikeCover(q) /\ Rank(blocks, q) <= MaxFinds}}

\* scan: mark the blocks that have no mark yet, before the worker is asked.
Scan(marks) ==
  LET blocks == CollectBlocks \ marks
      queue == FindCandidates(blocks)
      cut == blocks \ {c.text : c \in queue} IN
  IF blocks = {} THEN seen' = marks /\ UNCHANGED <<scans, started, missed>>
  ELSE /\ started < MaxScans
       /\ started' = started + 1
       /\ seen' = marks \cup blocks
       /\ scans' = scans \cup {[n |-> started + 1, blocks |-> blocks, queue |-> queue,
                                frames |-> {}, keys |-> {}, opened |-> {}, at |-> "decoding"]}
       /\ missed' = (missed \ blocks) \cup {p \in cut : IsPost(p)}

ManualScan ==
  /\ Scan(seen \cap Chipped)
  /\ UNCHANGED <<here, auto, timer, chips, ring, notice, texts, shown>>

\* SITE_STATE answers that the site is always on.
AutoScan ==
  /\ ~auto
  /\ auto' = TRUE
  /\ Scan(seen)
  /\ UNCHANGED <<here, timer, chips, ring, notice, texts, shown>>

TimerFires ==
  /\ timer
  /\ timer' = FALSE
  /\ Scan(seen)
  /\ UNCHANGED <<here, auto, chips, ring, notice, texts, shown>>

\* Mutant: the observer is deaf while a scan runs.
ArriveUnseen ==
  /\ \E p \in Places \ here : here' = here \cup {p}
  /\ timer' = (timer \/ (auto /\ scans = {}))
  /\ UNCHANGED <<auto, seen, chips, scans, started, ring, notice, texts, missed, shown>>
Arrive ==
  /\ \E p \in Places \ here : here' = here \cup {p}
  /\ timer' = (timer \/ auto)
  /\ UNCHANGED <<auto, seen, chips, scans, started, ring, notice, texts, missed, shown>>

-----------------------------------------------------------------------------
(* The worker.  Candidates are decoded a few at a time, in any order; what *)
(* fails to decode is skipped.                                             *)

Move(s, t) == scans' = (scans \ {s}) \cup {t}

DecodeNext(s) ==
  /\ s.at = "decoding"
  /\ \E c \in s.queue :
       LET rest == [s EXCEPT !.queue = @ \ {c}] IN
       \/ /\ IsPost(c.text)
          /\ Move(s, [rest EXCEPT !.frames = @ \cup {c}])
          /\ UNCHANGED missed
       \/ /\ ~IsPost(c.text)
          /\ Move(s, rest)
          /\ UNCHANGED missed
       \/ /\ IsPost(c.text) /\ "codec" \in PageFaults
          /\ Move(s, rest)
          /\ missed' = missed \cup {c.text}
  /\ UNCHANGED <<here, auto, timer, seen, chips, started, ring, notice, texts, shown>>

\* openCandidates reads the keyring once, then asks the gate.
ReadRing(s) ==
  /\ s.at = "decoding" /\ s.queue = {}
  /\ Move(s, [s EXCEPT !.at = "asking", !.keys = ring])
  /\ UNCHANGED <<here, auto, timer, seen, chips, started, ring, notice, texts, missed, shown>>

OpensWith(p, keys, gate) ==
  CASE Content[p] = "any" -> TRUE
    [] Content[p] = "pass" -> "pass" \in keys
    [] Content[p] = "gate" -> gate /\ "token" \in keys
    [] Content[p] = "both" -> "pass" \in keys /\ gate /\ "token" \in keys
    [] OTHER -> FALSE

OpenCandidates(s) ==
  /\ s.at = "asking"
  /\ \E gate \in {TRUE} \cup {~("gate" \in PageFaults)} :
       LET opened == {c \in s.frames : OpensWith(c.text, s.keys, gate)} IN
       /\ Move(s, [s EXCEPT !.at = "answered", !.opened = opened])
       /\ texts' = texts \cup {[id |-> <<s.n, c.i>>, text |-> c.text] : c \in opened}
       /\ missed' = missed \cup (IF gate THEN {} ELSE {c.text : c \in s.frames \ opened})
  /\ UNCHANGED <<here, auto, timer, seen, chips, started, ring, notice, shown>>

\* One chip per block.  A chip is a change of the page that the observer sees.
AddChips(s) ==
  /\ s.at = "answered"
  /\ scans' = scans \ {s}
  /\ LET Of(p) == {c \in s.opened : p \in s.blocks /\ IndexIn(s.blocks, p) = c.i /\ chips[p] = <<>>} IN
     /\ chips' = [p \in Places |-> IF Of(p) = {} THEN chips[p]
                                   ELSE << <<s.n, (CHOOSE c \in Of(p) : TRUE).i>> >>]
     /\ timer' = (timer \/ (auto /\ chips' # chips))
  /\ UNCHANGED <<here, auto, seen, started, ring, notice, texts, missed, shown>>

\* The worker is stopped: what it had not answered is rejected.
WorkerStops ==
  /\ "worker" \in PageFaults
  /\ LET lost == {s \in scans : s.at # "answered"}
         blocks == UNION {s.blocks : s \in lost} IN
     /\ lost # {}
     /\ scans' = scans \ lost
     /\ seen' = seen \ blocks
     /\ missed' = missed \cup blocks
  /\ UNCHANGED <<here, auto, timer, chips, started, ring, notice, texts, shown>>

-----------------------------------------------------------------------------
(* The keyring changes elsewhere; the page hears of it later and asks      *)
(* again about the posts that stayed shut.                                 *)

RingChanges ==
  /\ \E new \in SUBSET {"pass", "token"} : new # ring /\ ring' = new
  /\ notice' = TRUE
  /\ started < MaxScans
  /\ UNCHANGED <<here, auto, timer, seen, chips, scans, started, texts, missed, shown>>

\* Mutant: the marks stay on the blocks of scans that are still running.
RescanTheIdle ==
  /\ notice
  /\ notice' = FALSE
  /\ Scan(seen \cap (Chipped \cup UNION {s.blocks : s \in scans}))
  /\ UNCHANGED <<here, auto, timer, chips, ring, texts, shown>>
RingChanged ==
  /\ notice
  /\ notice' = FALSE
  /\ IF seen \subseteq Chipped THEN UNCHANGED <<seen, scans, started, missed>>
     ELSE Scan(seen \cap Chipped)
  /\ UNCHANGED <<here, auto, timer, chips, ring, texts, shown>>

\* A click on a chip opens the card, which asks the worker for the text.
TextOf(p) == (CHOOSE t \in texts : t.id = chips[p][1]).text
OpenChip ==
  /\ \E p \in Chipped : shown' = << p, TextOf(p) >>
  /\ UNCHANGED <<here, auto, timer, seen, chips, scans, started, ring, notice, texts, missed>>

PageInit ==
  /\ here \in SUBSET Places
  /\ auto = FALSE /\ timer = FALSE
  /\ seen = {} /\ chips = [p \in Places |-> <<>>]
  /\ scans = {} /\ started = 0
  /\ ring \in SUBSET {"pass", "token"} /\ notice = FALSE
  /\ texts = {} /\ missed = {} /\ shown = <<>>

PageNext ==
  \/ Arrive \/ AutoScan \/ TimerFires \/ ManualScan
  \/ \E s \in scans : DecodeNext(s) \/ ReadRing(s) \/ OpenCandidates(s) \/ AddChips(s)
  \/ WorkerStops \/ RingChanges \/ RingChanged \/ OpenChip

PageSpec == PageInit /\ [][PageNext]_pageVars

-----------------------------------------------------------------------------
InFlight == UNION {s.blocks : s \in scans}

\* A chip leads to the text of the post it stands under, whatever scans
\* overlapped and in whatever order the codec answered.
ChipsAreTheirs ==
  /\ \A p \in Chipped : TextOf(p) = p
  /\ shown # <<>> => shown[1] = shown[2]

\* A block that is marked and carries no chip is shut to the keyring as it is
\* now, except while somebody asks, or when its last scan was cut short.
ShutMeansTried ==
  ~notice => \A p \in seen \ (Chipped \cup InFlight \cup missed) : ~OpensWith(p, ring, TRUE)

\* On an "always on" page nothing within a scan's reach stays unexamined once
\* timer and scans have come to rest, except what a stopped worker lost.
NothingOverlooked ==
  auto /\ ~timer /\ scans = {} => CollectBlocks \subseteq seen \cup missed

=============================================================================
