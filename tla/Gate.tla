-------------------------------- MODULE Gate --------------------------------
(***************************************************************************)
(* The gate: gate/core.mjs with its keyring, its spaces, the ENS and the   *)
(* NFT reads with their caches, World ID, and the gate half of the checks. *)
(*                                                                         *)
(* A handler of the gate runs alone between two awaits.  `calls' holds the *)
(* handlers in progress, and a step of one of them is the code from one    *)
(* await to the next.  A read of a chain takes two steps, the moment the   *)
(* node answers from and the moment the answer arrives, with `now' free to *)
(* move by less than RpcMax between them.  ENS, the NFT and the people are *)
(* the environment.                                                        *)
(***************************************************************************)
EXTENDS Integers, Sequences, FiniteSets

CONSTANTS
  Humans,      \* people with a World ID, each with one reader key
  Wallets,     \* wallets that may hold the space's NFT
  Nobody,      \* no key, no human, no token
  Keys,        \* member keys (Ed25519) of extensions
  Tokens,      \* keyring tokens the gate can mint
  Nonces,      \* challenges the gate can issue
  Refs,        \* references of posts
  Policies,    \* the sequences of gate checks an author may ask for
  Calls,       \* handlers that may be in progress at once
  EnsTtl, YesTtl, NoTtl,   \* lifetimes of the caches
  SessionTtl, NonceTtl,    \* lifetimes of sessions and challenges
  RpcMax,      \* the longest a read may take
  MaxClock     \* bound of the clock

ASSUME GateAssumption ==
  /\ {EnsTtl, YesTtl, NoTtl, SessionTtl, RpcMax} \subseteq Nat \ {0}
  /\ {NonceTtl, MaxClock} \subseteq Nat
  /\ Nobody \notin Humans

\* A check of a policy: only `after' names a time, and it names no space.
Item == {i \in [check : {"after", "human", "nft"}, at : Nat, space : {"none", "gate", "ens"}] :
           i.check = "after" => i.space = "none"}
ASSUME PolicyAssumption == Policies \subseteq Seq(Item)

VARIABLES
  now,         \* the clock
  posts,       \* what each reference stores: sealed items or one deposit
  sessions,    \* the keyring session of each token
  nonces,      \* the challenges issued
  members,     \* the members table of the gate's space and of the ENS space
  registered,  \* the gate's space has an owner
  calls,       \* the handlers in progress
  ensCache,    \* ens-spaces.mjs: the last good read of the space
  heldCache,   \* holders.mjs: the last answer about each wallet
  record,      \* ENS: the space's collection and its ban list
  holders,     \* the chain: the wallets that hold the collection
  bannedAt, lostAt, unnamedAt   \* history: since when the records say no

tables == <<posts, sessions, nonces, members, registered>>
caches == <<ensCache, heldCache>>
ledger == <<record, holders, bannedAt, lostAt, unnamedAt>>
gateVars == <<now, tables, calls, caches, ledger>>

(* Members: a World ID nullifier is one per human and action, a wallet     *)
(* stands for itself.  The keyring proves under one action of its own, a   *)
(* release of an older post under the action of the space.                 *)
ByKeyring(h) == <<"keyring", h>>
BySpace(h) == <<"space", h>>
ByWallet(w) == <<"wallet", w>>
Ids == ({"keyring", "space"} \X Humans) \cup ({"wallet"} \X Wallets)

Never == 2 * MaxClock
NoClaims == [poh |-> Nobody, wallets |-> {}]
NoRow == [claims |-> NoClaims, exp |-> -1]
Idle == [pc |-> "idle", op |-> "none", claims |-> NoClaims, try |-> {}, todo |-> <<>>,
         id |-> Nobody, key |-> Nobody, token |-> Nobody, val |-> [k |-> "ask"],
         since |-> 0, began |-> 0, won |-> 0]

NoNonce == [kind |-> "none", by |-> Nobody, at |-> 0, used |-> FALSE, wins |-> 0, forged |-> FALSE]
NoPost == [kind |-> "none", items |-> <<>>]
EnsSteps == {"exists", "banned", "collection", "attest"}
Read(k) == [k |-> k]
Record == [k |-> "ok", token |-> record.token, bans |-> record.bans]
EnsFresh == now - ensCache.at < EnsTtl
HeldOneLonger(w) == now - heldCache[w].at <= (IF heldCache[w].yes THEN YesTtl ELSE NoTtl)
HeldFresh(w) == now - heldCache[w].at < (IF heldCache[w].yes THEN YesTtl ELSE NoTtl)

-----------------------------------------------------------------------------
(* The keyring's sessions.                                                 *)

Claims(t) ==
  IF t \in Tokens /\ sessions[t].exp > now THEN sessions[t].claims ELSE NoClaims

\* Mutant: the row's claims are merged without a look at its end.
GrantToRow(t, add) ==
  \E u \in Tokens :
    /\ IF t \in Tokens /\ sessions[t].exp >= 0 THEN u = t ELSE sessions[u] = NoRow
    /\ LET c == sessions[u].claims IN
       sessions' = [sessions EXCEPT ![u] =
         [claims |-> [poh |-> IF add.poh # Nobody THEN add.poh ELSE c.poh,
                      wallets |-> c.wallets \cup add.wallets],
          exp |-> now + SessionTtl]]

\* A token whose row exists is kept, even an expired one; else a new one is
\* minted (a token that was forgotten is never minted again).
Grant(t, add) ==
  \E u \in Tokens :
    /\ IF t \in Tokens /\ sessions[t].exp >= 0 THEN u = t ELSE sessions[u] = NoRow
    /\ LET c == Claims(u) IN
       sessions' = [sessions EXCEPT ![u] =
         [claims |-> [poh |-> IF add.poh # Nobody THEN add.poh ELSE c.poh,
                      wallets |-> c.wallets \cup add.wallets],
          exp |-> now + SessionTtl]]

Forget(t) ==
  /\ sessions[t].exp >= 0
  /\ sessions' = [sessions EXCEPT ![t] = [claims |-> NoClaims, exp |-> -2]]
  /\ UNCHANGED <<now, posts, nonces, members, registered, calls, caches, ledger>>

-----------------------------------------------------------------------------
(* How a handler goes on from a verdict.                                   *)

Skip(c) == [c EXCEPT !.pc = "item", !.todo = Tail(@), !.try = c.claims.wallets]
Win(c) == [Skip(c) EXCEPT !.won = @ + 1]
\* `continue' in the loop over wallets; for any other check the item fails.
Deny(c) ==
  IF c.op = "unlock" /\ Head(c.todo).check = "nft"
  THEN [c EXCEPT !.pc = "item", !.try = {w \in @ : ByWallet(w) # c.id}]
  ELSE Skip(c)

Ask(c, pc) == [c EXCEPT !.pc = pc, !.val = Read("ask")]

\* spaces.admit: the banned are refused, the rest join, and the key that
\* came with the request becomes the member's key.
Admit(q, c, space, id) ==
  LET row == members[space][id] IN
  IF row.st = "banned"
  THEN calls' = [calls EXCEPT ![q] = Deny([c EXCEPT !.id = id])] /\ UNCHANGED members
  ELSE /\ members' = [members EXCEPT ![space][id] =
                       [st |-> "member", key |-> IF c.key = Nobody THEN @.key ELSE c.key]]
       /\ calls' = [calls EXCEPT ![q] =
            IF space = "ens" THEN Ask([c EXCEPT !.id = id], "banned")
            ELSE Win([c EXCEPT !.id = id])]

-----------------------------------------------------------------------------
(* unlock: one request for all the references of a page.                   *)

ItemsOf(r) == IF posts[r].kind = "sealed" THEN posts[r].items ELSE <<>>

\* The claims are read once, before the first await.
Unlock(q, t, k, r, s) ==
  /\ calls[q].pc = "idle"
  /\ calls' = [calls EXCEPT ![q] =
       [Idle EXCEPT !.pc = "item", !.op = "unlock", !.claims = Claims(t), !.key = k,
                    !.try = Claims(t).wallets, !.began = now,
                    !.todo = IF r = s THEN ItemsOf(r) ELSE ItemsOf(r) \o ItemsOf(s)]]
  /\ UNCHANGED <<now, tables, caches, ledger>>

AtItem(q, check) ==
  /\ calls[q].pc = "item"
  /\ calls[q].todo # <<>>
  /\ Head(calls[q].todo).check = check

AfterItem(q) ==
  /\ AtItem(q, "after")
  /\ LET c == calls[q] IN
     calls' = [calls EXCEPT ![q] = IF now >= Head(c.todo).at THEN Win(c) ELSE Skip(c)]
  /\ UNCHANGED <<now, tables, caches, ledger>>

HumanItem(q) ==
  /\ AtItem(q, "human")
  /\ LET c == calls[q]
         space == Head(c.todo).space IN
     IF /\ c.claims.poh # Nobody
        /\ space = "gate"
        /\ registered
     THEN Admit(q, c, space, ByKeyring(c.claims.poh))
     ELSE /\ calls' = [calls EXCEPT ![q] =
               CASE c.claims.poh # Nobody /\ space = "none" -> Win(c)
                 [] c.claims.poh # Nobody /\ space = "ens" ->
                      Ask([c EXCEPT !.id = ByKeyring(c.claims.poh)], "exists")
                 [] OTHER -> Skip(c)]
          /\ UNCHANGED members
  /\ UNCHANGED <<now, posts, sessions, nonces, registered, caches, ledger>>

\* The wallets of the claims are tried one after another, and the cache of
\* answers is looked at before the records.
NftItem(q) ==
  /\ AtItem(q, "nft")
  /\ LET c == calls[q] IN
     \/ /\ c.try = {}
        /\ calls' = [calls EXCEPT ![q] = Skip(c)]
        /\ UNCHANGED members
     \/ \E w \in c.try :
          IF ~HeldFresh(w)
          THEN /\ calls' = [calls EXCEPT ![q] = Ask([c EXCEPT !.id = ByWallet(w)], "collection")]
               /\ UNCHANGED members
          ELSE IF heldCache[w].yes THEN Admit(q, c, "ens", ByWallet(w))
          ELSE /\ calls' = [calls EXCEPT ![q] = Deny([c EXCEPT !.id = ByWallet(w)])]
               /\ UNCHANGED members
  /\ UNCHANGED <<now, posts, sessions, nonces, registered, caches, ledger>>

Answer(q) ==
  /\ calls[q].pc = "item"
  /\ calls[q].todo = <<>>
  /\ calls' = [calls EXCEPT ![q] = Idle]
  /\ UNCHANGED <<now, tables, caches, ledger>>

-----------------------------------------------------------------------------
(* The reads of ENS and of the collection, with their caches.              *)

\* Mutant: as the code was before: a ban list that could not be read bans nobody.
FailOpen(q, v) ==
  /\ calls' = [calls EXCEPT ![q] =
       IF calls[q].pc = "attest" THEN Idle
       ELSE IF calls[q].pc = "collection" THEN Ask(calls[q], "balance")
       ELSE IF calls[q].pc = "exists" THEN Ask(calls[q], "banned")
       ELSE IF v.k = "err" \/ calls[q].id \notin v.bans THEN Win(calls[q]) ELSE Deny(calls[q])]
  /\ UNCHANGED <<members, heldCache>>

\* What the handler does with the space v: `exists', `isBanned', `holds'.
\* A read that failed is no space, no collection, and everyone banned.
EnsAnswer(q, v) ==
  LET c == calls[q]
      next == CASE c.pc = "attest" -> Idle
                [] c.pc = "collection" /\ v.k = "ok" /\ v.token -> Ask(c, "balance")
                [] c.pc = "banned" /\ v.k = "ok" /\ c.id \notin v.bans -> Win(c)
                [] OTHER -> Deny(c) IN
  IF c.pc = "exists" /\ v.k = "ok"
  THEN Admit(q, c, "ens", c.id) /\ UNCHANGED heldCache
  ELSE /\ calls' = [calls EXCEPT ![q] = next]
       /\ heldCache' = IF c.pc = "collection" /\ c.op = "unlock" /\ ~(v.k = "ok" /\ v.token)
                       THEN [heldCache EXCEPT ![c.id[2]] = [yes |-> FALSE, at |-> now]]
                       ELSE heldCache
       /\ UNCHANGED members

EnsHit(q) ==
  /\ calls[q].pc \in EnsSteps /\ calls[q].val.k = "ask"
  /\ EnsFresh
  /\ EnsAnswer(q, ensCache.v)
  /\ UNCHANGED <<now, posts, sessions, nonces, registered, ensCache, ledger>>

EnsRead(q) ==
  /\ calls[q].pc \in EnsSteps /\ calls[q].val.k = "ask"
  /\ ~EnsFresh
  /\ \E v \in {Record, Read("err")} :
       calls' = [calls EXCEPT ![q].val = v, ![q].since = now]
  /\ UNCHANGED <<now, tables, caches, ledger>>

EnsStore(q) ==
  /\ calls[q].pc \in EnsSteps /\ calls[q].val.k # "ask"
  /\ ensCache' = IF calls[q].val.k = "ok" THEN [v |-> calls[q].val, at |-> now] ELSE ensCache
  /\ EnsAnswer(q, calls[q].val)
  /\ UNCHANGED <<now, posts, sessions, nonces, registered, ledger>>

BalanceRead(q) ==
  /\ calls[q].pc = "balance" /\ calls[q].val.k = "ask"
  /\ \E k \in {IF calls[q].id[2] \in holders THEN "yes" ELSE "no", "err"} :
       calls' = [calls EXCEPT ![q].val = Read(k), ![q].since = now]
  /\ UNCHANGED <<now, tables, caches, ledger>>

\* unlock keeps the answer, release asks again every time.
BalanceStore(q) ==
  /\ calls[q].pc = "balance" /\ calls[q].val.k # "ask"
  /\ LET c == calls[q]
         yes == c.val.k = "yes" IN
     /\ heldCache' = IF c.op = "unlock" /\ c.val.k # "err"
                     THEN [heldCache EXCEPT ![c.id[2]] = [yes |-> yes, at |-> now]]
                     ELSE heldCache
     /\ IF yes THEN Admit(q, c, "ens", c.id)
        ELSE calls' = [calls EXCEPT ![q] = Deny(c)] /\ UNCHANGED members
  /\ UNCHANGED <<now, posts, sessions, nonces, registered, ensCache, ledger>>

-----------------------------------------------------------------------------
(* Challenges and proofs.  A nonce is marked used before the first await.  *)

Issue(n, kind, h) ==
  /\ nonces[n].kind = "none"
  /\ nonces' = [nonces EXCEPT ![n] = [NoNonce EXCEPT !.kind = kind, !.by = h, !.at = now]]

WorldChallenge(n, h) ==
  /\ Issue(n, "world", h)
  /\ UNCHANGED <<now, posts, sessions, members, registered, calls, caches, ledger>>

WalletChallenge(n, h) ==
  /\ Issue(n, "wallet", h)
  /\ UNCHANGED <<now, posts, sessions, members, registered, calls, caches, ledger>>

\* For a deposit only, and not for `after'.
PostChallenge(n, r, check, h) ==
  /\ posts[r].kind = "deposit"
  /\ Head(posts[r].items).check = check
  /\ Issue(n, "post", h)
  /\ UNCHANGED <<now, posts, sessions, members, registered, calls, caches, ledger>>

HumanChallenge(n, r, h) ==
  /\ PostChallenge(n, r, "human", h)
  /\ Head(posts[r].items).space = "gate" => registered

NftChallenge(n, r, h) ==
  /\ PostChallenge(n, r, "nft", h)
  /\ record.token

\* What the gate judges by itself.  Beside the nonce and its age that is the
\* form of the proof; a request that fails here changes nothing.
Usable(n, kind) ==
  /\ nonces[n].kind = kind
  /\ ~nonces[n].used
  /\ now - nonces[n].at <= NonceTtl

Burn(n) == nonces' = [nonces EXCEPT ![n].used = TRUE]

Confirmed(v) ==
  /\ Cardinality({i \in DOMAIN v : v[i] = "valid"}) >= 2
  /\ \A i \in DOMAIN v : v[i] # "invalid"

\* The answers of the nodes to a proof: one of them may say anything, the
\* others the truth or nothing.
NodesSay(genuine) ==
  {v \in [1..3 -> {"valid", "invalid", "unknown"}] :
     \E liar \in 1..3 : \A i \in 1..3 \ {liar} :
       v[i] \in {"unknown", IF genuine THEN "valid" ELSE "invalid"}}

\* World's own API is not always reachable: then the contract decides alone.
WorldSaysYes(genuine) ==
  \E v \in NodesSay(genuine), api \in {"skipped", IF genuine THEN "ok" ELSE "refused"} :
    Confirmed(v) /\ api # "refused"

Proving(q, c, genuine) ==
  calls' = [calls EXCEPT ![q] = [c EXCEPT !.since = now, !.began = now,
                                          !.val = Read(IF genuine THEN "yes" ELSE "no")]]

\* Mutant: the nonce is left to be burned when the proof is good.
ConnectUnburned(q, n, h, t, genuine) ==
  /\ calls[q].pc = "idle"
  /\ Usable(n, "world") /\ nonces[n].by = h
  /\ Proving(q, [Idle EXCEPT !.pc = "connect", !.id = ByKeyring(h), !.token = t, !.key = n], genuine)
  /\ UNCHANGED <<now, tables, caches, ledger>>

WorldConnect(q, n, h, t, genuine) ==
  /\ calls[q].pc = "idle"
  /\ Usable(n, "world") /\ nonces[n].by = h
  /\ Burn(n)
  /\ Proving(q, [Idle EXCEPT !.pc = "connect", !.id = ByKeyring(h), !.token = t, !.key = n], genuine)
  /\ UNCHANGED <<now, posts, sessions, members, registered, caches, ledger>>

WalletConnect(q, n, w, t, genuine) ==
  /\ calls[q].pc = "idle"
  /\ Usable(n, "wallet")
  /\ Burn(n)
  /\ Proving(q, [Idle EXCEPT !.pc = "connect", !.id = ByWallet(w), !.token = t, !.key = n], genuine)
  /\ UNCHANGED <<now, posts, sessions, members, registered, caches, ledger>>

\* The verdict arrives.  A signature is judged by the gate itself.
Connected(q) ==
  /\ calls[q].pc = "connect"
  /\ calls' = [calls EXCEPT ![q] = Idle]
  /\ \/ UNCHANGED <<sessions, nonces>>
     \/ LET c == calls[q]
            genuine == c.val.k = "yes" IN
        /\ IF c.id[1] = "wallet" THEN genuine ELSE WorldSaysYes(genuine)
        /\ Grant(c.token, IF c.id[1] = "wallet" THEN [NoClaims EXCEPT !.wallets = {c.id[2]}]
                          ELSE [NoClaims EXCEPT !.poh = c.id[2]])
        /\ nonces' = [nonces EXCEPT ![c.key].wins = @ + 1, ![c.key].forged = ~genuine]
  /\ UNCHANGED <<now, posts, members, registered, caches, ledger>>

-----------------------------------------------------------------------------
(* Posts: sealed ones, and the deposits of the older format.               *)

Store(r, kind, p) ==
  /\ posts[r] = NoPost
  /\ posts' = [posts EXCEPT ![r] = [kind |-> kind, items |-> p]]
  /\ UNCHANGED <<now, sessions, nonces, members, registered, calls, caches, ledger>>

Seal(r) == \E p \in Policies : Store(r, "sealed", p)
Deposit(r) == \E p \in Policies : Len(p) = 1 /\ Store(r, "deposit", p)

\* release: `after' needs no proof, the other checks start from a challenge.
Releasing(q, r, check) ==
  /\ calls[q].pc = "idle"
  /\ posts[r].kind = "deposit"
  /\ Head(posts[r].items).check = check

Released(r, id, k) == [Idle EXCEPT !.op = "release", !.todo = posts[r].items, !.id = id, !.key = k]

ReleaseAfter(q, r) ==
  /\ Releasing(q, r, "after")
  /\ calls' = [calls EXCEPT ![q] = [Released(r, Nobody, Nobody) EXCEPT !.pc = "item", !.began = now]]
  /\ UNCHANGED <<now, tables, caches, ledger>>

ReleaseHuman(q, r, n, k, genuine) ==
  /\ Releasing(q, r, "human")
  /\ Usable(n, "post") /\ Burn(n)
  /\ Proving(q, [Released(r, BySpace(nonces[n].by), k) EXCEPT !.pc = "prove"], genuine)
  /\ UNCHANGED <<now, posts, sessions, members, registered, caches, ledger>>

ReleaseNft(q, r, n, w, k) ==
  /\ Releasing(q, r, "nft")
  /\ Usable(n, "post") /\ Burn(n)
  /\ calls' = [calls EXCEPT ![q] =
       Ask([Released(r, ByWallet(w), k) EXCEPT !.began = now], "collection")]
  /\ UNCHANGED <<now, posts, sessions, members, registered, caches, ledger>>

Proved(q) ==
  /\ calls[q].pc = "prove"
  /\ LET c == calls[q]
         space == Head(c.todo).space IN
     \/ /\ calls' = [calls EXCEPT ![q] = Deny(c)]    \* refused, or no answer
        /\ UNCHANGED members
     \/ /\ WorldSaysYes(c.val.k = "yes")
        /\ IF space # "none" THEN Admit(q, c, space, c.id)
           ELSE calls' = [calls EXCEPT ![q] = Win(c)] /\ UNCHANGED members
  /\ UNCHANGED <<now, posts, sessions, nonces, registered, caches, ledger>>

-----------------------------------------------------------------------------
(* The gate's own space, attestations, and a restart.                      *)

Register ==
  /\ ~registered
  /\ registered' = TRUE
  /\ UNCHANGED <<now, posts, sessions, nonces, members, calls, caches, ledger>>

Ban(id, unban) ==
  /\ registered
  /\ members["gate"][id].st # "none"
  /\ members' = [members EXCEPT !["gate"][id].st = IF unban THEN "member" ELSE "banned"]
  /\ UNCHANGED <<now, posts, sessions, nonces, registered, calls, caches, ledger>>

\* The row is read before the live ban list, and the signature judged by it.
Attest(q, id) ==
  /\ calls[q].pc = "idle"
  /\ members["ens"][id].st = "member"
  /\ calls' = [calls EXCEPT ![q] =
       [Idle EXCEPT !.pc = "attest", !.id = id, !.key = members["ens"][id].key, !.began = now]]
  /\ UNCHANGED <<now, tables, caches, ledger>>

NoEnsEntry == [v |-> Read("err"), at |-> -EnsTtl]
NoHeldEntry == [yes |-> FALSE, at |-> -YesTtl]

Restart ==
  /\ calls' = [q \in Calls |-> Idle]
  /\ ensCache' = NoEnsEntry
  /\ heldCache' = [w \in Wallets |-> NoHeldEntry]
  /\ UNCHANGED <<now, tables, ledger>>

-----------------------------------------------------------------------------
(* The environment.                                                        *)

WriteBan(id) ==
  /\ record' = [record EXCEPT !.bans = IF id \in @ THEN @ \ {id} ELSE @ \cup {id}]
  /\ bannedAt' = [bannedAt EXCEPT ![id] = IF id \in record.bans THEN Never ELSE now]
  /\ UNCHANGED <<now, tables, calls, caches, holders, lostAt, unnamedAt>>

WriteToken ==
  /\ record' = [record EXCEPT !.token = ~@]
  /\ unnamedAt' = IF record.token THEN now ELSE Never
  /\ UNCHANGED <<now, tables, calls, caches, holders, bannedAt, lostAt>>

Transfer(w) ==
  /\ holders' = IF w \in holders THEN holders \ {w} ELSE holders \cup {w}
  /\ lostAt' = [lostAt EXCEPT ![w] = IF w \in holders THEN now ELSE Never]
  /\ UNCHANGED <<now, tables, calls, caches, record, bannedAt, unnamedAt>>

\* Time passes while every handler waits for the network, and none for longer
\* than RpcMax.
Waiting(c) ==
  \/ c.pc = "idle"
  \/ /\ c.pc \in {"connect", "prove"} \/ (c.pc \in EnsSteps \cup {"balance"} /\ c.val.k # "ask")
     /\ now - c.since < RpcMax

Tick ==
  /\ now < MaxClock
  /\ \A q \in Calls : Waiting(calls[q])
  /\ now' = now + 1
  /\ UNCHANGED <<tables, calls, caches, ledger>>

-----------------------------------------------------------------------------
GateStart ==
  /\ now = 0
  /\ nonces = [n \in Nonces |-> NoNonce]
  /\ members = [s \in {"gate", "ens"} |-> [id \in Ids |-> [st |-> "none", key |-> Nobody]]]
  /\ registered = FALSE
  /\ calls = [q \in Calls |-> Idle]
  /\ ensCache = NoEnsEntry
  /\ heldCache = [w \in Wallets |-> NoHeldEntry]
  /\ record = [token |-> TRUE, bans |-> {}]
  /\ holders = Wallets
  /\ bannedAt = [id \in Ids |-> Never]
  /\ lostAt = [w \in Wallets |-> Never]
  /\ unnamedAt = Never

GateInit ==
  /\ GateStart
  /\ posts = [r \in Refs |-> NoPost]
  /\ sessions = [t \in Tokens |-> NoRow]

Unlocking ==
  \/ \E q \in Calls, t \in Tokens, k \in Keys, r, s \in Refs : Unlock(q, t, k, r, s)
  \/ \E q \in Calls : AfterItem(q) \/ HumanItem(q) \/ NftItem(q) \/ Answer(q)

Reading ==
  \E q \in Calls : EnsHit(q) \/ EnsRead(q) \/ EnsStore(q) \/ BalanceRead(q) \/ BalanceStore(q)

Connecting ==
  \/ \E n \in Nonces, h \in Humans : WorldChallenge(n, h) \/ WalletChallenge(n, h)
  \/ \E q \in Calls, n \in Nonces, t \in Tokens \cup {Nobody}, genuine \in BOOLEAN :
       \/ \E h \in Humans : WorldConnect(q, n, h, t, genuine)
       \/ \E w \in Wallets : WalletConnect(q, n, w, t, genuine)
  \/ \E q \in Calls : Connected(q)
  \/ \E t \in Tokens : Forget(t)

OlderPosts ==
  \/ \E n \in Nonces, r \in Refs, h \in Humans : HumanChallenge(n, r, h) \/ NftChallenge(n, r, h)
  \/ \E q \in Calls, r \in Refs : ReleaseAfter(q, r)
  \/ \E q \in Calls, r \in Refs, n \in Nonces, k \in Keys :
       \/ \E genuine \in BOOLEAN : ReleaseHuman(q, r, n, k, genuine)
       \/ \E w \in Wallets : ReleaseNft(q, r, n, w, k)
  \/ \E q \in Calls : Proved(q)

Spaces ==
  \/ Register
  \/ \E id \in Ids, unban \in BOOLEAN : Ban(id, unban)
  \/ \E q \in Calls, id \in Ids : Attest(q, id)

World == WriteToken \/ (\E id \in Ids : WriteBan(id)) \/ (\E w \in Wallets : Transfer(w))

GateNext ==
  \/ Unlocking \/ Reading \/ Connecting \/ OlderPosts \/ Spaces \/ World \/ Tick \/ Restart
  \/ \E r \in Refs : Seal(r) \/ Deposit(r)

GateSpec == GateInit /\ [][GateNext]_gateVars

-----------------------------------------------------------------------------
(* What the gate promises.                                                 *)

\* The step hands out the share of the item that call q stands at.
Opens(q) == calls'[q].won > calls[q].won

\* A ban written to the space's ENS record is obeyed by every request that
\* starts once the cache's lifetime and one slow read have passed, whatever
\* reads were in flight, failed or arrived late in between.
BanIsObeyed ==
  [][\A q \in Calls : Opens(q) /\ Head(calls[q].todo).space = "ens" =>
       bannedAt[calls'[q].id] > calls[q].began - (EnsTtl + RpcMax)]_gateVars

\* A share kept for holders goes only to a wallet that held the collection,
\* and that while the space named it, within the lifetimes of the two caches
\* the answer may have gone through and of the reads between them.
HolderWindow ==
  [][\A q \in Calls : Opens(q) /\ Head(calls[q].todo).check = "nft" =>
       /\ lostAt[calls'[q].id[2]] > now - (YesTtl + 2 * RpcMax)
       /\ unnamedAt > now - (EnsTtl + YesTtl + 3 * RpcMax)]_gateVars

\* Claims that expired do not come back with the next proof: a session that
\* is renewed after its end holds what was proven since, and nothing else.
ExpiredClaimsDie ==
  [][\A t \in Tokens : sessions[t].exp >= 0 /\ sessions[t].exp <= now /\ sessions'[t].exp > now =>
       Cardinality(sessions'[t].claims.wallets)
         + (IF sessions'[t].claims.poh = Nobody THEN 0 ELSE 1) = 1]_gateVars

\* One challenge, one grant, and that for a genuine proof: of any number of
\* requests that present the same nonce while its proof is being checked at
\* most one is answered, and no node of World Chain can pass a forged proof
\* alone, whatever it says and whoever else is silent.
SoundGrants == \A n \in Nonces : nonces[n].wins <= 1 /\ ~nonces[n].forged
=============================================================================
