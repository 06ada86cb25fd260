------------------------------- MODULE Claim -------------------------------
(***************************************************************************)
(* The paid claim: a member joins on 0G (LortnocMembership.sol), the app    *)
(* hands a ticket to the relayer (app/src/lib/live.ts), and the relayer     *)
(* burns it on 0G and issues the handle on Sepolia (relayer/server.mjs      *)
(* POST /claim, LortnocRegistrar.sol).                                      *)
(*                                                                          *)
(* The handler awaits at every chain call, so handlers interleave there,    *)
(* and a crash of the relayer may fall between any two of them; a           *)
(* transaction that was sent is mined all the same.  A ticket is known by   *)
(* its member: the claim scope is fixed, so an identity has one nullifier,  *)
(* and owner, Sui address and messaging key are derived from it.            *)
(***************************************************************************)
EXTENDS Integers, FiniteSets

CONSTANTS
  Members,     \* identities that may pay
  Labels,      \* valid handle labels
  Handlers,    \* requests the relayer may serve at once
  Free,        \* the owner of an unissued label
  Stranger,    \* whoever claims on the free path
  None,        \* no label, no handler, no member
  MaxJoins,    \* bound: join transactions in flight, per member
  MaxFaults    \* bound: faults

ASSUME ClaimAssumption ==
  /\ MaxJoins \in [Members -> Nat] /\ MaxFaults \in Nat
  /\ Free # Stranger /\ {Free, Stranger} \cap Members = {}
  /\ None \notin Labels \cup Handlers \cup Members

VARIABLES
  \* the chains
  charged,   \* charged[m]: fees taken from m
  joined,    \* commitments in the member group
  joins,     \* joins[m]: join transactions of m not mined yet
  burned,    \* burned[m]: label in the message of the spent ticket of m
  owner,     \* owner[l]: registry entry of label l
  txs,       \* transactions of the relayer not mined yet
  \* the relayer
  inFlight,  \* labels with a claim in progress
  job,       \* job[h]: the request handler h serves
  \* the app
  waiting,   \* waiting[m]: handler whose answer m waits for
  handle,    \* handle[m]: handle the app of m has saved
  faults

chains == <<charged, joined, joins, burned, owner, txs>>
apps == <<waiting, handle>>
vars == <<chains, inFlight, job, apps, faults>>

Stages == {"idle", "spent", "simulate", "burn", "confirm", "available",
           "holder", "claimFor", "queued", "receipt", "stipends"}
Results == {"none", "ok", "reverted"}
Job == [stage : Stages, member : Members \cup {None}, label : Labels \cup {None},
        result : Results]
Tx == [kind : {"spendTicket", "claimFor"}, member : Members, label : Labels,
       by : Handlers \cup {None}]

NoJob == [stage |-> "idle", member |-> None, label |-> None, result |-> "none"]

-----------------------------------------------------------------------------

Fault == faults < MaxFaults /\ faults' = faults + 1

At(h, s) == job[h].stage = s

GoTo(h, s) == job' = [job EXCEPT ![h] = [@ EXCEPT !.stage = s, !.result = "none"]]

\* Mutant: the label is released on success only.
KeepOnError(h, won) ==
  /\ job' = [job EXCEPT ![h] = NoJob]
  /\ inFlight' = IF won THEN inFlight \ {job[h].label} ELSE inFlight
  /\ LET m == job[h].member IN
       IF waiting[m] = h
         THEN /\ waiting' = [waiting EXCEPT ![m] = None]
              /\ handle' = [handle EXCEPT ![m] = IF won THEN job[h].label ELSE @]
         ELSE UNCHANGED apps

\* The handler answers, and its finally releases the label.  The app saves a
\* handle it is told of, if it still waits.
Respond(h, won) ==
  /\ job' = [job EXCEPT ![h] = NoJob]
  /\ inFlight' = inFlight \ {job[h].label}
  /\ LET m == job[h].member IN
       IF waiting[m] = h
         THEN /\ waiting' = [waiting EXCEPT ![m] = None]
              /\ handle' = [handle EXCEPT ![m] = IF won THEN job[h].label ELSE @]
         ELSE UNCHANGED apps

\* The transaction leaves; a handler waits for it.
Send(h, kind) ==
  txs' = txs \cup {[kind |-> kind, member |-> job[h].member,
                    label |-> job[h].label, by |-> h]}

\* The handler stops waiting, its transaction stays in the mempool.
Abandon(h) == {IF t.by = h THEN [t EXCEPT !.by = None] ELSE t : t \in txs}

-----------------------------------------------------------------------------
(***************************************************************************)
(* Paying.                                                                 *)
(***************************************************************************)

\* join in the app: the commitment is not in the set yet, so the fee is sent.
SendJoin(m) ==
  /\ m \notin joined /\ joins[m] < MaxJoins[m]
  /\ joins' = [joins EXCEPT ![m] = @ + 1]
  /\ UNCHANGED <<charged, joined, burned, owner, txs, inFlight, job, apps, faults>>

\* Mutant: the contract does not look whether the commitment has joined.
MineAnyJoin(m) ==
  /\ joins[m] > 0
  /\ joins' = [joins EXCEPT ![m] = @ - 1]
  /\ \/ /\ charged' = [charged EXCEPT ![m] = @ + 1]
        /\ joined' = joined \cup {m} /\ UNCHANGED faults
     \/ Fault /\ UNCHANGED <<charged, joined>>
  /\ UNCHANGED <<burned, owner, txs, inFlight, job, apps>>

\* join in the contract: it takes the fee and adds the member, or it reverts:
\* AlreadyJoined, or Underpaid when the price has been raised meanwhile.
MineJoin(m) ==
  /\ joins[m] > 0
  /\ joins' = [joins EXCEPT ![m] = @ - 1]
  /\ \/ /\ m \notin joined
        /\ charged' = [charged EXCEPT ![m] = @ + 1]
        /\ joined' = joined \cup {m} /\ UNCHANGED faults
     \/ m \in joined /\ UNCHANGED <<charged, joined, faults>>
     \/ Fault /\ UNCHANGED <<charged, joined>>
  /\ UNCHANGED <<burned, owner, txs, inFlight, job, apps>>

(***************************************************************************)
(* The app.                                                                *)
(***************************************************************************)

\* claimHandlePaid, for a member without a handle.  The relayer refuses a label
\* that is in flight, and the finally of that refusal releases it.
Submit(m, l) ==
  /\ m \in joined /\ handle[m] = None /\ waiting[m] = None
  /\ IF l \in inFlight
       THEN inFlight' = inFlight \ {l} /\ UNCHANGED <<job, waiting>>
       ELSE \E h \in Handlers :
              /\ At(h, "idle")
              /\ inFlight' = inFlight \cup {l}
              /\ job' = [job EXCEPT ![h] = [stage |-> "spent", member |-> m,
                                            label |-> l, result |-> "none"]]
              /\ waiting' = [waiting EXCEPT ![m] = h]
  /\ UNCHANGED <<chains, handle, faults>>

\* The fetch is aborted after three minutes, or its answer is lost.
GiveUp(m) ==
  /\ waiting[m] # None /\ Fault
  /\ waiting' = [waiting EXCEPT ![m] = None]
  /\ UNCHANGED <<chains, inFlight, job, handle>>

(***************************************************************************)
(* The handler of POST /claim, from one await to the next.                 *)
(***************************************************************************)

\* Mutant: a spent ticket is refused, as in a service that cannot resume.
RefuseSpent(h) ==
  /\ At(h, "spent")
  /\ IF burned[job[h].member] # None
       THEN Respond(h, FALSE)
       ELSE GoTo(h, "simulate") /\ UNCHANGED <<inFlight, apps>>
  /\ UNCHANGED <<chains, faults>>

\* Is the ticket spent?  Then a previous attempt is resumed.
ReadSpent(h) ==
  /\ At(h, "spent")
  /\ GoTo(h, IF burned[job[h].member] # None THEN "available" ELSE "simulate")
  /\ UNCHANGED <<chains, inFlight, apps, faults>>

\* spendTicket is simulated: an invalid proof, or a ticket that was spent since,
\* is refused before it costs anything.
SimulateSpend(h) ==
  /\ At(h, "simulate")
  /\ IF job[h].member \in joined /\ burned[job[h].member] = None
       THEN GoTo(h, "burn") /\ UNCHANGED <<inFlight, apps>>
       ELSE Respond(h, FALSE)
  /\ UNCHANGED <<chains, faults>>

SendSpend(h) ==
  /\ At(h, "burn")
  /\ Send(h, "spendTicket")
  /\ GoTo(h, "confirm")
  /\ UNCHANGED <<charged, joined, joins, burned, owner, inFlight, apps, faults>>

\* confirmSpent, by state: the ticket reads as spent, whoever has spent it.
Confirm(h) ==
  /\ At(h, "confirm") /\ burned[job[h].member] # None
  /\ GoTo(h, "available")
  /\ txs' = Abandon(h)
  /\ UNCHANGED <<charged, joined, joins, burned, owner, inFlight, apps, faults>>

\* Mutant: a label that is taken is taken for a claim that was issued before.
AssumeOurs(h) ==
  /\ At(h, "available")
  /\ GoTo(h, IF owner[job[h].label] = Free THEN "claimFor" ELSE "stipends")
  /\ UNCHANGED <<chains, inFlight, apps, faults>>

ReadAvailable(h) ==
  /\ At(h, "available")
  /\ GoTo(h, IF owner[job[h].label] = Free THEN "claimFor" ELSE "holder")
  /\ UNCHANGED <<chains, inFlight, apps, faults>>

\* A label the claimant holds was issued by an earlier attempt; one that somebody
\* else holds is refused.
ReadHolder(h) ==
  /\ At(h, "holder")
  /\ IF owner[job[h].label] = job[h].member
       THEN GoTo(h, "stipends") /\ UNCHANGED <<inFlight, apps>>
       ELSE Respond(h, FALSE)
  /\ UNCHANGED <<chains, faults>>

\* claimFor is simulated, then queued behind the other Sepolia sends.
SimulateClaim(h) ==
  /\ At(h, "claimFor")
  /\ IF owner[job[h].label] = Free
       THEN GoTo(h, "queued") /\ UNCHANGED <<inFlight, apps>>
       ELSE Respond(h, FALSE)
  /\ UNCHANGED <<chains, faults>>

\* sepoliaSerial: one send at a time.
SendClaim(h) ==
  /\ At(h, "queued") /\ \A g \in Handlers : ~At(g, "receipt")
  /\ Send(h, "claimFor")
  /\ GoTo(h, "receipt")
  /\ UNCHANGED <<charged, joined, joins, burned, owner, inFlight, apps, faults>>

ClaimReceipt(h) ==
  /\ At(h, "receipt") /\ job[h].result # "none"
  /\ IF job[h].result = "ok"
       THEN GoTo(h, "stipends") /\ UNCHANGED <<inFlight, apps>>
       ELSE Respond(h, FALSE)
  /\ UNCHANGED <<chains, faults>>

\* The stipends are paid or fail, the codec token is minted, and 200 is answered.
Succeed(h) ==
  /\ At(h, "stipends")
  /\ Respond(h, TRUE)
  /\ UNCHANGED <<chains, faults>>

\* A chain call throws or times out, or spendTicket is seen to have reverted: 500.
HandlerThrows(h) ==
  /\ job[h].stage \notin {"idle", "stipends"}
  /\ \/ At(h, "confirm") /\ job[h].result = "reverted" /\ UNCHANGED faults
     \/ Fault
  /\ Respond(h, FALSE)
  /\ txs' = Abandon(h)
  /\ UNCHANGED <<charged, joined, joins, burned, owner>>

(***************************************************************************)
(* The chains and the free path; a crash of the relayer.                   *)
(***************************************************************************)

Report(t, result) ==
  job' = IF t.by = None THEN job ELSE [job EXCEPT ![t.by].result = result]

\* spendTicket burns the nullifier once.
MineSpend(t) ==
  /\ t \in txs /\ t.kind = "spendTicket"
  /\ txs' = txs \ {t}
  /\ IF burned[t.member] = None /\ t.member \in joined
       THEN burned' = [burned EXCEPT ![t.member] = t.label] /\ Report(t, "ok")
       ELSE UNCHANGED burned /\ Report(t, "reverted")
  /\ UNCHANGED <<charged, joined, joins, owner, inFlight, apps, faults>>

\* claimFor registers a label nobody holds.
MineClaim(t) ==
  /\ t \in txs /\ t.kind = "claimFor"
  /\ txs' = txs \ {t}
  /\ IF owner[t.label] = Free
       THEN owner' = [owner EXCEPT ![t.label] = t.member] /\ Report(t, "ok")
       ELSE UNCHANGED owner /\ Report(t, "reverted")
  /\ UNCHANGED <<charged, joined, joins, burned, inFlight, apps, faults>>

\* claim: with no gate set, anybody registers a free label directly.
FreeClaim(l) ==
  /\ owner[l] = Free /\ Fault
  /\ owner' = [owner EXCEPT ![l] = Stranger]
  /\ UNCHANGED <<charged, joined, joins, burned, txs, inFlight, job, apps>>

\* The locks are in memory; what was sent is mined all the same.
Crash ==
  /\ Fault
  /\ inFlight' = {}
  /\ job' = [h \in Handlers |-> NoJob]
  /\ txs' = {[t EXCEPT !.by = None] : t \in txs}
  /\ waiting' = [m \in Members |-> None]
  /\ UNCHANGED <<charged, joined, joins, burned, owner, handle>>

-----------------------------------------------------------------------------

Init ==
  /\ charged = [m \in Members |-> 0] /\ joined = {}
  /\ joins = [m \in Members |-> 0]
  /\ burned = [m \in Members |-> None]
  /\ owner = [l \in Labels |-> Free]
  /\ txs = {} /\ inFlight = {}
  /\ job = [h \in Handlers |-> NoJob]
  /\ waiting = [m \in Members |-> None] /\ handle = [m \in Members |-> None]
  /\ faults = 0

App(m) == SendJoin(m) \/ GiveUp(m) \/ \E l \in Labels : Submit(m, l)

Handle(h) ==
  \/ ReadSpent(h) \/ SimulateSpend(h) \/ SendSpend(h) \/ Confirm(h)
  \/ ReadAvailable(h) \/ ReadHolder(h) \/ SimulateClaim(h) \/ SendClaim(h)
  \/ ClaimReceipt(h) \/ Succeed(h)

Mine == \E t \in txs : MineSpend(t) \/ MineClaim(t)

Next ==
  \/ \E m \in Members : App(m) \/ MineJoin(m)
  \/ \E h \in Handlers : Handle(h) \/ HandlerThrows(h)
  \/ Mine \/ \E l \in Labels : FreeClaim(l)
  \/ Crash

Spec == Init /\ [][Next]_vars

\* Handlers run, sent transactions are mined, and a member without a handle keeps
\* trying, with every label that may be left.
FairSpec ==
  /\ Spec
  /\ \A h \in Handlers : WF_vars(Handle(h))
  /\ WF_vars(Mine)
  /\ \A m \in Members, l \in Labels : SF_vars(Submit(m, l))

-----------------------------------------------------------------------------

TypeOK ==
  /\ charged \in [Members -> Nat] /\ joined \in SUBSET Members
  /\ joins \in [Members -> Nat] /\ \A m \in Members : joins[m] <= MaxJoins[m]
  /\ burned \in [Members -> Labels \cup {None}]
  /\ owner \in [Labels -> Members \cup {Free, Stranger}]
  /\ txs \in SUBSET Tx /\ inFlight \in SUBSET Labels
  /\ job \in [Handlers -> Job]
  /\ waiting \in [Members -> Handlers \cup {None}]
  /\ handle \in [Members -> Labels \cup {None}]
  /\ faults \in 0..MaxFaults

\* The relayer never reports a success that is not one: a handle the app has
\* saved is on chain and its own.
NoFalseSuccess ==
  \A m \in Members : handle[m] # None => owner[handle[m]] = m

\* A label that is locked is being worked on: no error path leaves it locked.
LocksReleased ==
  \A l \in inFlight : \E h \in Handlers : ~At(h, "idle") /\ job[h].label = l

\* Over both chains the claim is what Handles promises: one fee per member, every
\* handle paid for or from the free path, and never taken from its holder.
Ledger == INSTANCE Handles
ImplementsHandles == Ledger!Spec

\* The ticket is the receipt: once it is burned, its member ends up with a handle,
\* as long as one is left, through errors, lost answers, crashes and a label that
\* somebody else took.
TicketIsReceipt ==
  \A m \in Members :
    burned[m] # None ~> (Free \notin {owner[l] : l \in Labels}
                           \/ \E l \in Labels : owner[l] = m)

\* "One nullifier per identity => one handle per membership" (shared/ticket.mjs).
OneHandlePerMembership ==
  \A k, l \in Labels : owner[k] = owner[l] /\ owner[k] \in Members => k = l

=============================================================================
