------------------------------- MODULE Knock -------------------------------
(***************************************************************************)
(* Knocks: a published question, sealed introductions that wait at the     *)
(* relay, and devices of the recipient that open them with a cached key.   *)
(* Source: relayer/server.mjs (knock relay), app lib/live/knock.ts and the *)
(* knock half of lib/live.ts.  A key is what salt and answer derive.       *)
(***************************************************************************)
EXTENDS Integers, FiniteSets

CONSTANTS
  Phones,       \* devices of the recipient
  Answers,
  NoAnswer,
  MaxPerHandle, \* knocks kept for a handle: 50 in the code
  RatePerMin,   \* knocks of one address in a minute: 6 in the code
  MaxKnocks,    \* bound on the knocks posted
  MaxPublishes, \* bound on the questions published
  KnockFaults   \* subset of {"rpc", "crash", "disk", "lost", "ttl"}

ASSUME KnockAssumption == MaxPerHandle \in Nat \ {0}

VARIABLES
  question,  \* the record: the salt of the question published, 0 for none
  publishes,
  editing,   \* phone -> publication under way: [at, salt, answer]
  conf,      \* phone -> the 60 s cache: Cold, 0 for null, or a salt
  doorkey,   \* phone -> localStorage: [salt, answer], NoKey for none
  guest,     \* the stranger: [at, salt, answer]
  pile,      \* the relay's memory: [id, key], numbered in the order of their arrival
  file,      \* what it would restore
  relayUp, diskBad, hits, knocks,
  expired,   \* knocks up to this id are older than a week
  acked,     \* ghost: ids the sender was told are delivered
  excused    \* ghost: ids evicted, or lost with a failing disk

knockVars == <<question, publishes, editing, conf, doorkey, guest, pile,
               file, relayUp, diskBad, hits, knocks, expired, acked, excused>>
recipientVars == <<question, publishes, editing, conf, doorkey>>
relayVars == <<pile, file, relayUp, diskBad, hits, knocks, expired, acked, excused>>

Cold == -1
NoKey == [salt |-> 0, answer |-> NoAnswer]
Off == [at |-> "off", salt |-> 0, answer |-> NoAnswer]
\* The answer is normalised and stretched with the salt of the question; a
\* sealed introduction opens with that key only.
Derived(salt, answer) == [salt |-> salt, answer |-> answer]
Sealed(id, key) == [id |-> id, key |-> key]
KnockIds(list) == {k.id : k \in list}
Living(list) == {k \in list : k.id > expired}
\* slice: the newest ones, which have the greatest ids.
Capped(list) == {k \in list : Cardinality({j \in list : j.id > k.id}) < MaxPerHandle}

-----------------------------------------------------------------------------
(* The recipient.                                                          *)

\* myKnockConfig: a read that fails gives null, and null is cached as well.
ReadConf(ph) ==
  /\ conf[ph] = Cold
  /\ \E got \in {question} \cup (IF "rpc" \in KnockFaults THEN {0} ELSE {}) :
       conf' = [conf EXCEPT ![ph] = got]
  /\ UNCHANGED <<question, publishes, editing, doorkey, guest, relayVars>>

ConfExpires(ph) ==
  /\ conf[ph] # Cold
  /\ conf' = [conf EXCEPT ![ph] = Cold]
  /\ UNCHANGED <<question, publishes, editing, doorkey, guest, relayVars>>

\* setKnock: the salt already published is reused.
Salted(ph) == IF conf[ph] = 0 THEN publishes + 1 ELSE conf[ph]
\* The panel's button, which works once at a time.
SetKnock(ph) ==
  /\ editing[ph].at = "off" /\ conf[ph] # Cold /\ publishes < MaxPublishes
  /\ publishes' = publishes + 1
  /\ \E a \in Answers :
       editing' = [editing EXCEPT ![ph] = [at |-> "writing", answer |-> a, salt |-> Salted(ph)]]
  /\ UNCHANGED <<question, conf, doorkey, guest, relayVars>>

\* The transaction is mined, the derived key and the question are kept; or it
\* fails and nothing is.
PublishQuestion(ph) ==
  /\ editing[ph].at = "writing"
  /\ editing' = [editing EXCEPT ![ph] = Off]
  /\ \/ /\ question' = editing[ph].salt
        /\ doorkey' = [doorkey EXCEPT ![ph] = Derived(editing[ph].salt, editing[ph].answer)]
        /\ conf' = [conf EXCEPT ![ph] = editing[ph].salt]
     \/ UNCHANGED <<question, doorkey, conf>>
  /\ UNCHANGED <<publishes, guest, relayVars>>

\* GET /knocks/:handle: what has expired is dropped on the way out.
Fetched ==
  /\ pile' = Living(pile)
  /\ file' = IF pile' # pile /\ ~diskBad THEN pile' ELSE file
  /\ UNCHANGED <<relayUp, diskBad, hits, knocks, expired, acked, excused>>

\* readKnocks: the question is read anew and the key of the typed answer is
\* kept before anything was opened with it.
ReadKnocks(ph) ==
  /\ question # 0 /\ relayUp
  /\ \E a \in Answers : doorkey' = [doorkey EXCEPT ![ph] = Derived(question, a)]
  /\ Fetched
  /\ UNCHANGED <<question, publishes, editing, conf, guest>>

\* knockState, and pendingKnocks: fetched and opened with the key that is kept.
Armed(ph) == conf[ph] > 0 /\ doorkey[ph].salt = conf[ph]
PollKnocks(ph) ==
  /\ Armed(ph) /\ relayUp
  /\ Fetched
  /\ UNCHANGED recipientVars /\ UNCHANGED guest

-----------------------------------------------------------------------------
(* The stranger: the question is read, the answer takes a second to derive *)
(* the key, the sealed introduction is posted.                             *)

Stranger ==
  /\ guest.at = "off" /\ question # 0 /\ knocks < MaxKnocks
  /\ \E a \in Answers : guest' = [at |-> "deriving", salt |-> question, answer |-> a]
  /\ UNCHANGED <<recipientVars, relayVars>>

\* POST /knock: the rate, the list without the expired, the cap, the file,
\* the answer.  Mutant: the file is written before the knock is in the list.
PostFileFirst ==
  /\ guest.at = "deriving" /\ relayUp /\ hits < RatePerMin /\ knocks < MaxKnocks
  /\ knocks' = knocks + 1 /\ hits' = hits + 1
  /\ LET list == Living(pile) \cup {Sealed(knocks + 1, Derived(guest.salt, guest.answer))} IN
     /\ pile' = Capped(list)
     /\ \E bad \in IF "disk" \in KnockFaults THEN BOOLEAN ELSE {FALSE} :
          diskBad' = bad /\ file' = IF bad THEN file ELSE pile
     /\ excused' = excused \cup (KnockIds(pile) \ KnockIds(Capped(list)))
     /\ \/ acked' = acked \cup {knocks + 1} /\ guest' = Off
        \/ "lost" \in KnockFaults /\ UNCHANGED <<acked, guest>>
  /\ UNCHANGED <<recipientVars, relayUp, expired>>
PostKnock ==
  /\ guest.at = "deriving" /\ relayUp /\ hits < RatePerMin /\ knocks < MaxKnocks
  /\ knocks' = knocks + 1 /\ hits' = hits + 1
  /\ LET list == Living(pile) \cup {Sealed(knocks + 1, Derived(guest.salt, guest.answer))} IN
     /\ pile' = Capped(list)
     /\ \E bad \in IF "disk" \in KnockFaults THEN BOOLEAN ELSE {FALSE} :
          diskBad' = bad /\ file' = IF bad THEN file ELSE pile'
     /\ excused' = excused \cup (KnockIds(pile) \ KnockIds(Capped(list)))
     /\ \/ acked' = acked \cup {knocks + 1} /\ guest' = Off
        \/ "lost" \in KnockFaults /\ UNCHANGED <<acked, guest>>
  /\ UNCHANGED <<recipientVars, relayUp, expired>>

\* 429, a relay that is down, or the sender gives up.
NotPosted ==
  /\ guest.at = "deriving"
  /\ guest' = Off
  /\ hits' = IF relayUp /\ hits = RatePerMin THEN hits + 1 ELSE hits
  /\ UNCHANGED <<recipientVars, pile, file, relayUp, diskBad, knocks, expired, acked, excused>>

Minute == hits > 0 /\ hits' = 0 /\ UNCHANGED <<recipientVars, guest, pile, file, relayUp, diskBad, knocks, expired, acked, excused>>

\* Seven days: the oldest knock that still counts is over.
Week ==
  /\ "ttl" \in KnockFaults /\ expired < knocks
  /\ expired' = expired + 1
  /\ UNCHANGED <<recipientVars, guest, pile, file, relayUp, diskBad, hits, knocks, acked, excused>>

\* A crash or a deploy; the rate is forgotten with the rest.
Crash ==
  /\ "crash" \in KnockFaults /\ relayUp
  /\ relayUp' = FALSE /\ pile' = {} /\ hits' = 0
  /\ excused' = IF diskBad THEN excused \cup (KnockIds(pile) \ KnockIds(file)) ELSE excused
  /\ UNCHANGED <<recipientVars, guest, file, diskBad, knocks, expired, acked>>

LoadKnocks ==
  /\ ~relayUp
  /\ relayUp' = TRUE /\ pile' = Living(file)
  /\ UNCHANGED <<recipientVars, guest, file, diskBad, hits, knocks, expired, acked, excused>>

KnockInit ==
  /\ question = 0 /\ publishes = 0
  /\ editing = [ph \in Phones |-> Off]
  /\ conf = [ph \in Phones |-> Cold]
  /\ doorkey = [ph \in Phones |-> NoKey]
  /\ guest = Off
  /\ pile = {} /\ file = {} /\ relayUp = TRUE /\ diskBad = FALSE /\ hits = 0 /\ knocks = 0 /\ expired = 0
  /\ acked = {} /\ excused = {}

KnockNext ==
  \/ \E ph \in Phones : ReadConf(ph) \/ ConfExpires(ph) \/ SetKnock(ph) \/ PublishQuestion(ph)
                          \/ ReadKnocks(ph) \/ PollKnocks(ph)
  \/ Stranger \/ PostKnock \/ NotPosted \/ Minute \/ Week \/ Crash \/ LoadKnocks

KnockSpec == KnockInit /\ [][KnockNext]_knockVars

-----------------------------------------------------------------------------
\* A knock whose sender was told "sent" waits at the relay, over crashes and
\* restarts, until a week is over or newer ones push it out; a disk that
\* cannot be written is the one excuse.
AckedIsServed ==
  {id \in acked \ excused : id > expired} \subseteq IF relayUp THEN KnockIds(pile) ELSE KnockIds(file)
=============================================================================
