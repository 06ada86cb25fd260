------------------------------- MODULE Spaces -------------------------------
(***************************************************************************)
(* What the universal extension keeps of its spaces: the member keys that  *)
(* the gate binds to pseudonyms, stored in one object that cards and the   *)
(* service worker read and write back, and the ban list that an owner and  *)
(* moderators rewrite on ENS.  Source: extension-everywhere/src/shared/    *)
(* spaces.ts and ensWrite.ts, background/sealed.ts, reveal/reveal.ts; the  *)
(* gate's side is gate/spaces.mjs.                                         *)
(***************************************************************************)
EXTENDS Integers, FiniteSets

CONSTANTS
  Joinable,     \* the spaces a reader may join
  Pseudonyms,   \* members who may be banned
  Editors,      \* holders of a key for the ban list; one of them is "owner"
  MaxJoins,     \* bound on the admissions in a behaviour
  MaxAtOnce,    \* admissions that overlap, and ban writes that do
  MaxBans,      \* bound on the writes of the ban list in a behaviour
  SpaceFaults   \* subset of {"answer", "rpc"}

VARIABLES
  memberOf,  \* storage.local spaceMemberships: per space the key and the pseudonym
  boundKey,  \* the gate's table: the key bound to the reader's pseudonym
  keysMade,  \* keys generated so far
  joins,     \* admissions in progress
  joinCount, \* how many were started
  banList,   \* the record of the space on ENS
  editors,   \* who may write it
  bans,      \* writes of it in progress
  banCount,  \* how many were started
  wanted,    \* ghost: who was banned
  blind      \* ghost: a write landed on a list other than the one it had read

memberVars == <<memberOf, boundKey, keysMade, joins, joinCount>>
banVars == <<banList, editors, bans, banCount, wanted, blind>>
spacesVars == <<memberOf, boundKey, keysMade, joins, joinCount,
                banList, editors, bans, banCount, wanted, blind>>

NoKey == -1
RingKey == 0   \* the member key of the keyring; generated keys are 1, 2, ...
NotAMember == [key |-> NoKey, id |-> FALSE]

-----------------------------------------------------------------------------
(* A card (reveal) makes a key on first need; a scan (the worker) sends    *)
(* the keyring's.                                                          *)

StartJoin(by) ==
  /\ joinCount < MaxJoins /\ Cardinality(joins) < MaxAtOnce
  /\ joinCount' = joinCount + 1
  /\ \E s \in Joinable :
       joins' = joins \cup {[n |-> joinCount', by |-> by, space |-> s, read |-> memberOf,
                             key |-> IF by = "scan" THEN RingKey ELSE NoKey,
                             at |-> IF by = "scan" THEN "release" ELSE "key"]}
  /\ UNCHANGED <<memberOf, boundKey, keysMade>> /\ UNCHANGED banVars

Step(j, next) == joins' = (joins \ {j}) \cup {next}
Drop(j) == joins' = joins \ {j}

\* memberKey: the whole object is written back with the new key.
MemberKey(j) ==
  /\ j.at = "key"
  /\ IF j.read[j.space].key # NoKey
     THEN /\ Step(j, [j EXCEPT !.at = "release", !.key = j.read[j.space].key])
          /\ UNCHANGED <<memberOf, keysMade>>
     ELSE /\ keysMade' = keysMade + 1
          /\ memberOf' = [j.read EXCEPT ![j.space].key = keysMade']
          /\ Step(j, [j EXCEPT !.at = "release", !.key = keysMade'])
  /\ UNCHANGED <<boundKey, joinCount>> /\ UNCHANGED banVars

\* The gate admits the member and binds the key it was sent; it may also
\* refuse, and its answer may be lost.
GateAdmits(j) ==
  /\ j.at = "release"
  /\ \/ /\ boundKey' = [boundKey EXCEPT ![j.space] = j.key]
        /\ \/ Step(j, [j EXCEPT !.at = "read"])
           \/ "answer" \in SpaceFaults /\ Drop(j)
     \/ Drop(j) /\ UNCHANGED boundKey
  /\ UNCHANGED <<memberOf, keysMade, joinCount>> /\ UNCHANGED banVars

\* rememberMember reads the object again.
ReadMemberships(j) ==
  /\ j.at = "read"
  /\ Step(j, [j EXCEPT !.at = "write", !.read = memberOf])
  /\ UNCHANGED <<memberOf, boundKey, keysMade, joinCount>> /\ UNCHANGED banVars

\* A card keeps the key that is stored by now and makes one if there is none.
\* Mutant: it stores the key of its own, whatever is stored.
RememberInAll(j) ==
  /\ j.at = "write"
  /\ memberOf' = [s \in Joinable |->
                    [key |-> IF s = j.space \/ j.read[s].key = NoKey THEN j.key ELSE j.read[s].key, id |-> TRUE]]
  /\ Drop(j)
  /\ UNCHANGED <<boundKey, keysMade, joinCount>> /\ UNCHANGED banVars
RememberMember(j) ==
  /\ j.at = "write"
  /\ IF j.by = "scan" THEN /\ memberOf' = [j.read EXCEPT ![j.space] = [key |-> RingKey, id |-> TRUE]]
                           /\ UNCHANGED keysMade
     ELSE IF j.read[j.space].key # NoKey
     THEN /\ memberOf' = [j.read EXCEPT ![j.space].id = TRUE]
          /\ UNCHANGED keysMade
     ELSE /\ keysMade' = keysMade + 1
          /\ memberOf' = [j.read EXCEPT ![j.space] = [key |-> keysMade', id |-> TRUE]]
  /\ Drop(j)
  /\ UNCHANGED <<boundKey, joinCount>> /\ UNCHANGED banVars

-----------------------------------------------------------------------------
(* The ban list is one text record: a write replaces all of it.            *)

\* readBans: a read that fails is an empty list.  Mutant: the list is not read.
BanFromNothing(e) ==
  /\ banCount < MaxBans /\ Cardinality(bans) < MaxAtOnce
  /\ banCount' = banCount + 1
  /\ \E m \in Pseudonyms :
       bans' = bans \cup {[n |-> banCount', by |-> e, member |-> m, seen |-> banList, new |-> {m}]}
  /\ UNCHANGED <<banList, editors, wanted, blind>> /\ UNCHANGED memberVars
StartBan(e) ==
  /\ banCount < MaxBans /\ Cardinality(bans) < MaxAtOnce
  /\ banCount' = banCount + 1
  /\ \E m \in Pseudonyms, seen \in {banList} \cup (IF "rpc" \in SpaceFaults THEN {{}} ELSE {}) :
       bans' = bans \cup {[n |-> banCount', by |-> e, member |-> m, seen |-> seen,
                           new |-> seen \cup {m}]}
  /\ UNCHANGED <<banList, editors, wanted, blind>> /\ UNCHANGED memberVars

\* The transaction is mined, or it reverts because the role was taken back, or
\* the node refuses it.
BanLands(b) ==
  /\ bans' = bans \ {b}
  /\ \/ /\ b.by \in editors
        /\ banList' = b.new
        /\ wanted' = wanted \cup {b.member}
        /\ blind' = (blind \/ b.seen # banList)
     \/ UNCHANGED <<banList, wanted, blind>>
  /\ UNCHANGED <<editors, banCount>> /\ UNCHANGED memberVars

GrantModerator ==
  /\ \E e \in Editors \ editors : editors' = editors \cup {e}
  /\ UNCHANGED <<banList, bans, banCount, wanted, blind>> /\ UNCHANGED memberVars

RevokeModerator ==
  /\ \E e \in editors \ {"owner"} : editors' = editors \ {e}
  /\ UNCHANGED <<banList, bans, banCount, wanted, blind>> /\ UNCHANGED memberVars

SpacesInit ==
  /\ memberOf = [s \in Joinable |-> NotAMember]
  /\ boundKey = [s \in Joinable |-> NoKey]
  /\ keysMade = 0 /\ joins = {} /\ joinCount = 0
  /\ banList = {} /\ editors = {"owner"} /\ bans = {} /\ banCount = 0
  /\ wanted = {} /\ blind = FALSE

JoinNext ==
  \/ StartJoin("card") \/ StartJoin("scan")
  \/ \E j \in joins : MemberKey(j) \/ GateAdmits(j) \/ ReadMemberships(j) \/ RememberMember(j)

BanNext ==
  \/ \E e \in Editors : StartBan(e)
  \/ \E b \in bans : BanLands(b)
  \/ GrantModerator \/ RevokeModerator

SpacesNext == JoinNext \/ BanNext

SpacesSpec == SpacesInit /\ [][SpacesNext]_spacesVars

-----------------------------------------------------------------------------
\* However the read-modify-write cycles of cards and scans overlap, a space
\* that the extension lists as joined is one that the gate has admitted it to.
KnownIsAdmitted == \A s \in Joinable : memberOf[s].id => boundKey[s] # NoKey

\* Bans by the owner and moderators add up, as long as each was computed from
\* the list that it replaces.
BansAddUp == ~blind => wanted \subseteq banList

=============================================================================
