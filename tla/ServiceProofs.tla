--------------------------- MODULE ServiceProofs ---------------------------
(***************************************************************************)
(* The two services that people rely on for their names and their posts.   *)
(* The relayer's claim, for any number of members, labels, concurrent      *)
(* requests and faults: it implements Handles, never reports a success     *)
(* that is not one, and no error path leaves a label locked.  The gate,    *)
(* for any number of people, wallets, posts and handlers, any lifetimes of *)
(* its caches and any policies: what it grants was shown, in time.         *)
(***************************************************************************)
EXTENDS Claim, Gate, FiniteSetTheorems, TLAPS

-----------------------------------------------------------------------------
(***************************************************************************)
(* The relayer's claim.                                                    *)
(***************************************************************************)

\* A member has paid once, everybody else nothing.
Paid == \A m \in Members : charged[m] = IF m \in joined THEN 1 ELSE 0

\* A request in progress is that of a paid member.
JobsPaid ==
  \A h \in Handlers : ~At(h, "idle") =>
    job[h].label \in Labels /\ job[h].member \in joined

\* A transaction that is not mined yet is that of a paid member, and the handler
\* it reports to, if any, waits for it.
Awaits(h, t) ==
  /\ At(h, IF t.kind = "spendTicket" THEN "confirm" ELSE "receipt")
  /\ job[h].member = t.member /\ job[h].label = t.label /\ job[h].result = "none"
TxsServed ==
  \A t \in txs : t.member \in joined /\ (t.by # None => Awaits(t.by, t))

\* A handler that is about to succeed has seen its claimant own the label.
Issued(h) == owner[job[h].label] = job[h].member
Won ==
  \A h \in Handlers :
    At(h, "stipends") \/ (At(h, "receipt") /\ job[h].result = "ok") => Issued(h)

IInv == /\ TypeOK /\ Paid /\ JobsPaid /\ TxsServed /\ Won
        /\ NoFalseSuccess /\ LocksReleased

Awaited(h) == \E t \in txs : t.by = h

-----------------------------------------------------------------------------

LEMMA Initially == Init => IInv /\ Ledger!Init
<1> SUFFICES ASSUME Init PROVE IInv /\ Ledger!Init
  OBVIOUS
<1>1. NoJob \in Job BY DEF NoJob, Job, Stages, Results
<1>2. TypeOK BY <1>1, ClaimAssumption DEF Init, TypeOK
<1>3. Paid /\ TxsServed /\ NoFalseSuccess /\ LocksReleased
  BY DEF Init, Paid, TxsServed, NoFalseSuccess, LocksReleased
<1>4. JobsPaid /\ Won BY DEF Init, JobsPaid, Won, At, NoJob
<1>5. Ledger!Init BY DEF Init, Ledger!Init
<1> QED BY <1>2, <1>3, <1>4, <1>5 DEF IInv

\* The request a busy handler serves, with its types.
LEMMA Serves ==
  ASSUME IInv, NEW h \in Handlers, ~At(h, "idle")
  PROVE  /\ job[h] \in Job /\ job[h].label \in Labels
         /\ job[h].member \in joined /\ job[h].member \in Members
BY DEF IInv, TypeOK, JobsPaid

\* Only a handler that waits for a transaction is reported to.
LEMMA Unawaited ==
  ASSUME IInv, NEW h \in Handlers,
         job[h].stage \notin {"confirm", "receipt"} \/ job[h].result # "none"
  PROVE  ~Awaited(h)
<1>1. \A t \in txs : t.by \in Handlers \cup {None} BY DEF IInv, TypeOK, Tx
<1> QED BY <1>1, ClaimAssumption DEF IInv, TxsServed, Awaits, At, Awaited

LEMMA FaultsTyped ==
  ASSUME TypeOK, Fault \/ UNCHANGED faults
  PROVE  faults' \in 0..MaxFaults
BY ClaimAssumption DEF TypeOK, Fault

\* Detached transactions keep their sort and belong to nobody's wait.
LEMMA Detached ==
  ASSUME IInv, NEW h \in Handlers
  PROVE  /\ Abandon(h) \in SUBSET Tx
         /\ \A t \in Abandon(h) :
              t.by # h /\ t.member \in joined /\ (t.by # None => Awaits(t.by, t))
<1> SUFFICES ASSUME NEW t \in txs,
                    NEW u, u = IF t.by = h THEN [t EXCEPT !.by = None] ELSE t
             PROVE  /\ u \in Tx /\ u.by # h /\ u.member \in joined
                    /\ u.by # None => Awaits(u.by, u)
  BY DEF Abandon
<1>1. t \in Tx /\ t.member \in joined /\ (t.by # None => Awaits(t.by, t))
  BY DEF IInv, TypeOK, TxsServed
<1>2. CASE t.by = h
  <2>1. u \in Tx /\ u.by = None /\ u.member = t.member BY <1>1, <1>2 DEF Tx
  <2> QED BY <1>1, <2>1, ClaimAssumption
<1>3. CASE t.by # h BY <1>1, <1>3
<1> QED BY <1>2, <1>3

-----------------------------------------------------------------------------

\* A handler that answers keeps the invariant: the app is told of a success only
\* when the label is its own.
LEMMA RespondKeeps ==
  ASSUME IInv, NEW h \in Handlers, NEW won \in BOOLEAN, ~At(h, "idle"),
         won => At(h, "stipends"), Respond(h, won),
         txs' = Abandon(h) \/ (txs' = txs /\ ~Awaited(h)),
         UNCHANGED <<charged, joined, joins, burned, owner>>,
         faults' \in 0..MaxFaults
  PROVE  IInv'
<1> DEFINE m == job[h].member
           l == job[h].label
<1>1. l \in Labels /\ m \in joined /\ m \in Members BY Serves
<1>2. /\ job \in [Handlers -> Job] /\ waiting \in [Members -> Handlers \cup {None}]
      /\ handle \in [Members -> Labels \cup {None}] /\ inFlight \in SUBSET Labels
  BY DEF IInv, TypeOK
<1>3. NoJob \in Job BY DEF NoJob, Job, Stages, Results
<1>4. job' = [job EXCEPT ![h] = NoJob] /\ inFlight' = inFlight \ {l}
  BY DEF Respond
<1>5. job' \in [Handlers -> Job] BY <1>2, <1>3, <1>4
<1>6. \A g \in Handlers \ {h} : job'[g] = job[g] BY <1>2, <1>4
<1>7. job'[h].stage = "idle" BY <1>2, <1>4 DEF NoJob
<1>8. /\ waiting' \in [Members -> Handlers \cup {None}]
      /\ handle' \in [Members -> Labels \cup {None}]
      /\ \A k \in Members : handle'[k] = handle[k] \/ (won /\ k = m /\ handle'[k] = l)
  BY <1>1, <1>2 DEF Respond, apps
<1>9. /\ txs' \in SUBSET Tx
      /\ \A t \in txs' : t.by # h /\ t.member \in joined
                         /\ (t.by # None => Awaits(t.by, t))
  BY Detached DEF IInv, TypeOK, TxsServed, Awaited
<1>10. TypeOK' BY <1>5, <1>4, <1>2, <1>8, <1>9 DEF IInv, TypeOK
<1>11. Paid' BY DEF IInv, Paid
<1>12. JobsPaid' BY <1>6, <1>7 DEF IInv, JobsPaid, At
<1>13. TxsServed'
  <2>1. \A t \in txs' : t.by \in Handlers \cup {None} BY <1>9 DEF Tx
  <2> QED BY <2>1, <1>6, <1>9 DEF TxsServed, Awaits, At
<1>14. Won' BY <1>6, <1>7 DEF IInv, Won, At, Issued
<1>15. NoFalseSuccess'
  <2>1. won => owner[l] = m BY DEF IInv, Won, Issued
  <2> QED BY <1>8, <2>1 DEF IInv, NoFalseSuccess
<1>16. LocksReleased' BY <1>4, <1>6 DEF IInv, LocksReleased, At
<1> QED BY <1>10, <1>11, <1>12, <1>13, <1>14, <1>15, <1>16 DEF IInv

\* A handler that goes on to its next await keeps the invariant.
LEMMA GoToKeeps ==
  ASSUME IInv, NEW h \in Handlers, NEW s \in Stages \ {"idle"}, ~At(h, "idle"),
         GoTo(h, s), s = "stipends" => Issued(h),
         txs' = Abandon(h) \/ (txs' = txs /\ ~Awaited(h)),
         UNCHANGED <<charged, joined, joins, burned, owner, inFlight, apps, faults>>
  PROVE  IInv'
<1>1. job \in [Handlers -> Job] BY DEF IInv, TypeOK
<1>2. job' = [job EXCEPT ![h] = [@ EXCEPT !.stage = s, !.result = "none"]]
  BY DEF GoTo
<1>3. /\ job'[h] \in Job /\ job'[h].stage = s /\ job'[h].result = "none"
      /\ job'[h].member = job[h].member /\ job'[h].label = job[h].label
  BY <1>1, <1>2 DEF Job, Results
<1>4. \A g \in Handlers \ {h} : job'[g] = job[g] BY <1>1, <1>2
<1>5. job' \in [Handlers -> Job] BY <1>1, <1>2, <1>3, <1>4
<1>6. UNCHANGED <<waiting, handle>> BY DEF apps
<1>7. /\ txs' \in SUBSET Tx
      /\ \A t \in txs' : t.by # h /\ t.member \in joined
                         /\ (t.by # None => Awaits(t.by, t))
  BY Detached DEF IInv, TypeOK, TxsServed, Awaited
<1>8. TypeOK' BY <1>5, <1>6, <1>7 DEF IInv, TypeOK
<1>9. Paid' BY DEF IInv, Paid
<1>10. JobsPaid' BY <1>3, <1>4 DEF IInv, JobsPaid, At
<1>11. TxsServed'
  <2>1. \A t \in txs' : t.by \in Handlers \cup {None} BY <1>7 DEF Tx
  <2> QED BY <2>1, <1>4, <1>7 DEF TxsServed, Awaits, At
<1>12. Won' BY <1>3, <1>4 DEF IInv, Won, At, Issued
<1>13. NoFalseSuccess' BY <1>6 DEF IInv, NoFalseSuccess
<1>14. LocksReleased' BY <1>3, <1>4 DEF IInv, LocksReleased, At
<1> QED BY <1>8, <1>9, <1>10, <1>11, <1>12, <1>13, <1>14 DEF IInv

-----------------------------------------------------------------------------

\* A handler that sends a transaction is the one it reports to.
LEMMA SendKeeps ==
  ASSUME IInv, NEW h \in Handlers, NEW kind \in {"spendTicket", "claimFor"},
         NEW s, s = IF kind = "spendTicket" THEN "confirm" ELSE "receipt",
         At(h, "burn") \/ At(h, "queued"), Send(h, kind), GoTo(h, s),
         UNCHANGED <<charged, joined, joins, burned, owner, inFlight, apps, faults>>
  PROVE  IInv'
<1> DEFINE t0 == [kind |-> kind, member |-> job[h].member,
                  label |-> job[h].label, by |-> h]
<1>1. /\ GoTo(h, s) /\ txs' = txs \cup {t0} /\ job[h].stage \in {"burn", "queued"}
      /\ UNCHANGED <<charged, joined, joins, burned, owner, inFlight, faults>>
      /\ UNCHANGED <<waiting, handle>>
  BY DEF Send, At, apps
<1>2. /\ job[h].label \in Labels /\ job[h].member \in joined
      /\ job[h].member \in Members /\ job \in [Handlers -> Job]
  BY <1>1, Serves DEF At, IInv, TypeOK
<1>3. ~Awaited(h) BY <1>1, Unawaited
<1>4. /\ job'[h] \in Job /\ job'[h].stage = s /\ job'[h].result = "none"
      /\ job'[h].member = job[h].member /\ job'[h].label = job[h].label
      /\ job' \in [Handlers -> Job]
  <2>1. job' = [job EXCEPT ![h] = [@ EXCEPT !.stage = s, !.result = "none"]]
    BY <1>1 DEF GoTo
  <2>2. s \in Stages BY DEF Stages
  <2> QED BY <1>2, <2>1, <2>2 DEF Job, Results
<1>5. \A g \in Handlers \ {h} : job'[g] = job[g] BY <1>1, <1>2 DEF GoTo
<1>6. t0 \in Tx BY <1>2 DEF Tx
<1>7. TypeOK' BY <1>1, <1>4, <1>6 DEF IInv, TypeOK
<1>8. Paid' BY <1>1 DEF IInv, Paid
<1>9. JobsPaid' BY <1>1, <1>4, <1>5 DEF IInv, JobsPaid, At
<1>10. TxsServed'
  <2>1. /\ t0.member \in joined' /\ t0.by = h
        /\ job'[h].stage = IF t0.kind = "spendTicket" THEN "confirm" ELSE "receipt"
        /\ job'[h].member = t0.member /\ job'[h].label = t0.label
        /\ job'[h].result = "none"
    BY <1>1, <1>2, <1>4
  <2>2. ASSUME NEW t \in txs, t.by # None
        PROVE  Awaits(t.by, t)'
    <3>1. t.by \in Handlers \ {h} BY <1>3, <2>2 DEF IInv, TypeOK, Tx, Awaited
    <3> QED BY <3>1, <2>2, <1>5 DEF IInv, TxsServed, Awaits, At
  <2>3. \A t \in txs : t.member \in joined' BY <1>1 DEF IInv, TxsServed
  <2> QED BY <1>1, <2>1, <2>2, <2>3 DEF TxsServed, Awaits, At
<1>11. Won' BY <1>1, <1>4, <1>5 DEF IInv, Won, At, Issued
<1>12. NoFalseSuccess' BY <1>1 DEF IInv, NoFalseSuccess
<1>13. LocksReleased' BY <1>1, <1>4, <1>5 DEF IInv, LocksReleased, At
<1> QED BY <1>7, <1>8, <1>9, <1>10, <1>11, <1>12, <1>13 DEF IInv

\* Every step of a handler keeps the invariant.
LEMMA HandlerKeeps ==
  ASSUME IInv, NEW h \in Handlers, Handle(h) \/ HandlerThrows(h)
  PROVE  IInv' /\ UNCHANGED <<charged, owner>>
<1>0. faults \in 0..MaxFaults BY DEF IInv, TypeOK
<1>1. CASE ReadSpent(h)
  BY <1>1, GoToKeeps, Unawaited DEF ReadSpent, At, Stages, chains
<1>2. CASE SimulateSpend(h)
  BY <1>0, <1>2, GoToKeeps, RespondKeeps, Unawaited
  DEF SimulateSpend, At, Stages, chains
<1>3. CASE SendSpend(h) \/ SendClaim(h)
  <2>1. CASE SendSpend(h)
    <3>1. IInv' BY <2>1, SendKeeps DEF SendSpend
    <3> QED BY <2>1, <3>1 DEF SendSpend
  <2>2. CASE SendClaim(h)
    <3>1. IInv' BY <2>2, SendKeeps DEF SendClaim
    <3> QED BY <2>2, <3>1 DEF SendClaim
  <2> QED BY <1>3, <2>1, <2>2
<1>4. CASE Confirm(h)
  BY <1>4, GoToKeeps DEF Confirm, At, Stages
<1>5. CASE ReadAvailable(h)
  BY <1>5, GoToKeeps, Unawaited DEF ReadAvailable, At, Stages, chains
<1>6. CASE ReadHolder(h)
  BY <1>0, <1>6, GoToKeeps, RespondKeeps, Unawaited
  DEF ReadHolder, At, Stages, chains, Issued
<1>7. CASE SimulateClaim(h)
  BY <1>0, <1>7, GoToKeeps, RespondKeeps, Unawaited
  DEF SimulateClaim, At, Stages, chains
<1>8. CASE ClaimReceipt(h)
  <2>1. ~Awaited(h) BY <1>8, Unawaited DEF ClaimReceipt
  <2>2. job[h].result = "ok" => Issued(h) BY <1>8 DEF ClaimReceipt, IInv, Won
  <2> QED BY <1>0, <1>8, <2>1, <2>2, GoToKeeps, RespondKeeps
          DEF ClaimReceipt, At, Stages, chains
<1>9. CASE Succeed(h)
  BY <1>0, <1>9, RespondKeeps, Unawaited DEF Succeed, At, chains
<1>10. CASE HandlerThrows(h)
  <2>1. faults' \in 0..MaxFaults BY <1>10, FaultsTyped DEF HandlerThrows, IInv
  <2> QED BY <1>10, <2>1, RespondKeeps DEF HandlerThrows, At
<1> QED BY <1>1, <1>2, <1>3, <1>4, <1>5, <1>6, <1>7, <1>8, <1>9, <1>10 DEF Handle

-----------------------------------------------------------------------------

\* Reporting a result to the handler that waits changes nothing else of it, and
\* no other transaction is awaited by that handler.
LEMMA Reported ==
  ASSUME IInv, NEW t \in txs, NEW r \in {"ok", "reverted"},
         Report(t, r), txs' = txs \ {t}, joined' = joined,
         r = "ok" /\ t.kind = "claimFor" => owner'[t.label] = t.member,
         \A l \in Labels : owner[l] # Free => owner'[l] = owner[l]
  PROVE  /\ job' \in [Handlers -> Job] /\ txs' \in SUBSET Tx
         /\ JobsPaid' /\ TxsServed' /\ Won'
         /\ \A h \in Handlers :
              job'[h].label = job[h].label /\ job'[h].stage = job[h].stage
<1> DEFINE g == t.by
<1>1. /\ job \in [Handlers -> Job] /\ t \in Tx /\ g \in Handlers \cup {None}
      /\ txs \in SUBSET Tx /\ joined \in SUBSET Members
  BY DEF IInv, TypeOK, Tx
<1>2. job' = IF g = None THEN job ELSE [job EXCEPT ![g].result = r]
  BY DEF Report
<1>3. /\ job' \in [Handlers -> Job]
      /\ \A h \in Handlers :
           /\ job'[h].label = job[h].label /\ job'[h].member = job[h].member
           /\ job'[h].stage = job[h].stage
           /\ (h # g => job'[h] = job[h]) /\ (h = g => job'[h].result = r)
  BY <1>1, <1>2, ClaimAssumption DEF Job, Results
<1>4. JobsPaid' BY <1>3 DEF IInv, JobsPaid, At
<1>5. \A u \in txs \ {t} : u.by = None \/ u.by # g
  <2> SUFFICES ASSUME NEW u \in txs \ {t}, u.by # None, u.by = g PROVE FALSE
    OBVIOUS
  <2>1. Awaits(g, u) /\ Awaits(g, t) /\ u \in Tx BY <1>1 DEF IInv, TxsServed
  <2>2. u.kind = t.kind /\ u.member = t.member /\ u.label = t.label
    BY <1>1, <2>1 DEF Awaits, At, Tx
  <2>3. u = t BY <1>1, <2>1, <2>2 DEF Tx
  <2> QED BY <2>3
<1>6. TxsServed'
  <2> SUFFICES ASSUME NEW u \in txs \ {t}
               PROVE  u.member \in joined /\ (u.by # None => Awaits(u.by, u)')
    BY DEF TxsServed
  <2>1. u.member \in joined /\ (u.by # None => Awaits(u.by, u)) /\ u \in Tx
    BY <1>1 DEF IInv, TxsServed
  <2>2. u.by # None => u.by \in Handlers /\ u.by # g BY <1>5, <2>1 DEF Tx
  <2> QED BY <1>3, <2>1, <2>2 DEF Awaits, At
<1>7. Won'
  <2> SUFFICES ASSUME NEW h \in Handlers,
                      At(h, "stipends")' \/ (At(h, "receipt")' /\ job'[h].result = "ok")
               PROVE  Issued(h)'
    BY DEF Won
  <2>1. job[h].label \in Labels /\ job[h].member \in joined
    BY <1>3 DEF At, IInv, JobsPaid
  <2>2. job[h].member # Free BY <1>1, <2>1, ClaimAssumption
  <2>3. CASE Issued(h) BY <1>3, <2>1, <2>2, <2>3 DEF Issued
  <2>4. CASE ~Issued(h)
    <3>1. h = g /\ At(h, "receipt") /\ r = "ok"
      BY <1>3, <2>4 DEF IInv, Won, At
    <3>2. Awaits(h, t) BY <3>1, <1>1, ClaimAssumption DEF IInv, TxsServed
    <3>3. t.kind = "claimFor" /\ job[h].member = t.member /\ job[h].label = t.label
      BY <1>1, <3>1, <3>2 DEF Awaits, At, Tx
    <3> QED BY <1>3, <3>1, <3>3 DEF Issued
  <2> QED BY <2>3, <2>4
<1> QED BY <1>1, <1>3, <1>4, <1>6, <1>7

\* Mining keeps the invariant, and issues a handle to a paid member or nothing.
LEMMA MiningKeeps ==
  ASSUME IInv, NEW t \in txs, MineSpend(t) \/ MineClaim(t)
  PROVE  /\ IInv' /\ UNCHANGED charged
         /\ UNCHANGED owner \/ Ledger!Issue(t.label, t.member)
<1>1. t \in Tx /\ t.member \in joined /\ t.member \in Members /\ t.label \in Labels
  BY DEF IInv, TypeOK, TxsServed, Tx
<1>2. /\ txs' = txs \ {t} /\ UNCHANGED <<charged, joined, joins, inFlight, faults>>
      /\ UNCHANGED <<waiting, handle>>
  BY DEF MineSpend, MineClaim, apps
<1>3. owner \in [Labels -> Members \cup {Free, Stranger}]
  BY DEF IInv, TypeOK
<1>4. PICK r \in {"ok", "reverted"} :
        /\ Report(t, r)
        /\ \/ UNCHANGED owner /\ (r = "ok" => t.kind = "spendTicket")
           \/ owner[t.label] = Free /\ owner' = [owner EXCEPT ![t.label] = t.member]
  BY DEF MineSpend, MineClaim
<1>5. /\ \A l \in Labels : owner[l] # Free => owner'[l] = owner[l]
      /\ owner' \in [Labels -> Members \cup {Free, Stranger}]
      /\ r = "ok" /\ t.kind = "claimFor" => owner'[t.label] = t.member
  BY <1>1, <1>3, <1>4
<1>6. /\ job' \in [Handlers -> Job] /\ txs' \in SUBSET Tx
      /\ JobsPaid' /\ TxsServed' /\ Won'
      /\ \A h \in Handlers :
           job'[h].label = job[h].label /\ job'[h].stage = job[h].stage
  BY <1>2, <1>4, <1>5, Reported
<1>7. burned' \in [Members -> Labels \cup {None}]
  BY <1>1 DEF MineSpend, MineClaim, IInv, TypeOK
<1>8. TypeOK' BY <1>2, <1>5, <1>6, <1>7 DEF IInv, TypeOK
<1>9. Paid' BY <1>2 DEF IInv, Paid
<1>10. NoFalseSuccess'
  <2>1. \A m \in Members : handle[m] \in Labels \cup {None} /\ m # Free
    BY ClaimAssumption DEF IInv, TypeOK
  <2> QED BY <1>2, <1>5, <2>1 DEF IInv, NoFalseSuccess
<1>11. LocksReleased' BY <1>2, <1>6 DEF IInv, LocksReleased, At
<1>12. UNCHANGED owner \/ Ledger!Issue(t.label, t.member)
  BY <1>1, <1>2, <1>4 DEF Ledger!Issue, IInv, Paid
<1> QED BY <1>2, <1>6, <1>8, <1>9, <1>10, <1>11, <1>12 DEF IInv

-----------------------------------------------------------------------------

\* Paying, submitting, giving up and the free path keep the invariant, and only
\* pay for a member who has not paid, or issue a free label to a stranger.
LEMMA AppKeeps ==
  ASSUME IInv, NEW m \in Members, App(m)
  PROVE  IInv' /\ UNCHANGED <<charged, owner>>
<1>1. CASE SendJoin(m) \/ GiveUp(m)
  <2>1. UNCHANGED <<charged, joined, burned, owner, txs, inFlight, job, handle>>
    BY <1>1 DEF SendJoin, GiveUp, chains, apps
  <2>2. faults' \in 0..MaxFaults
    BY <1>1, FaultsTyped DEF SendJoin, GiveUp, IInv
  <2>3. /\ joins' \in [Members -> Nat] /\ \A k \in Members : joins'[k] <= MaxJoins[k]
        /\ waiting' \in [Members -> Handlers \cup {None}]
    BY <1>1, ClaimAssumption DEF SendJoin, GiveUp, chains, apps, IInv, TypeOK
  <2>4. TypeOK' BY <2>1, <2>2, <2>3 DEF IInv, TypeOK
  <2> QED BY <2>1, <2>4 DEF IInv, Paid, JobsPaid, TxsServed, Awaits, Won, Issued,
                            NoFalseSuccess, LocksReleased, At
<1>2. ASSUME NEW l \in Labels, Submit(m, l)
      PROVE  IInv' /\ UNCHANGED <<charged, owner>>
  <2>1. /\ UNCHANGED <<charged, joined, joins, burned, owner, txs, handle, faults>>
        /\ m \in joined
    BY <1>2 DEF Submit, chains
  <2>2. CASE l \in inFlight
    <3>1. inFlight' = inFlight \ {l} /\ UNCHANGED <<job, waiting>>
      BY <1>2, <2>2 DEF Submit
    <3>2. TypeOK' BY <2>1, <3>1 DEF IInv, TypeOK
    <3> QED BY <2>1, <3>1, <3>2
            DEF IInv, Paid, JobsPaid, TxsServed, Awaits, Won, Issued,
                NoFalseSuccess, LocksReleased, At
  <2>3. CASE l \notin inFlight
    <3>1. PICK h \in Handlers :
            /\ At(h, "idle") /\ inFlight' = inFlight \cup {l}
            /\ job' = [job EXCEPT ![h] = [stage |-> "spent", member |-> m,
                                          label |-> l, result |-> "none"]]
            /\ waiting' = [waiting EXCEPT ![m] = h]
      BY <1>2, <2>3 DEF Submit
    <3>2. /\ job \in [Handlers -> Job] /\ waiting \in [Members -> Handlers \cup {None}]
          /\ inFlight \in SUBSET Labels
      BY DEF IInv, TypeOK
    <3>3. [stage |-> "spent", member |-> m, label |-> l, result |-> "none"] \in Job
      BY DEF Job, Stages, Results
    <3>4. /\ job' \in [Handlers -> Job] /\ waiting' \in [Members -> Handlers \cup {None}]
          /\ job'[h].stage = "spent" /\ job'[h].member = m /\ job'[h].label = l
          /\ \A g \in Handlers \ {h} : job'[g] = job[g]
      BY <3>1, <3>2, <3>3
    <3>5. TypeOK' BY <2>1, <3>1, <3>2, <3>4 DEF IInv, TypeOK
    <3>6. JobsPaid' BY <2>1, <3>4 DEF IInv, JobsPaid, At
    <3>7. TxsServed'
      <4>1. ~Awaited(h) BY <3>1, Unawaited DEF At
      <4>2. \A t \in txs : t.by \in Handlers \cup {None} BY DEF IInv, TypeOK, Tx
      <4> QED BY <2>1, <3>4, <4>1, <4>2 DEF IInv, TxsServed, Awaits, At, Awaited
    <3>8. Won' BY <2>1, <3>4 DEF IInv, Won, Issued, At
    <3>9. LocksReleased' BY <3>1, <3>4 DEF IInv, LocksReleased, At
    <3> QED BY <2>1, <3>5, <3>6, <3>7, <3>8, <3>9 DEF IInv, Paid, NoFalseSuccess
  <2> QED BY <2>2, <2>3
<1> QED BY <1>1, <1>2 DEF App

LEMMA JoinKeeps ==
  ASSUME IInv, NEW m \in Members, MineJoin(m)
  PROVE  IInv' /\ UNCHANGED owner /\ (UNCHANGED charged \/ Ledger!Pay(m))
<1>1. /\ joins' = [joins EXCEPT ![m] = @ - 1] /\ joins[m] > 0
      /\ UNCHANGED <<burned, owner, txs, inFlight, job, waiting, handle>>
  BY DEF MineJoin, apps
<1>2. \/ /\ m \notin joined /\ joined' = joined \cup {m}
         /\ charged' = [charged EXCEPT ![m] = @ + 1]
      \/ UNCHANGED <<charged, joined>>
  BY DEF MineJoin
<1>3. faults' \in 0..MaxFaults BY FaultsTyped DEF MineJoin, IInv
<1>4. /\ joins' \in [Members -> Nat] /\ \A k \in Members : joins'[k] <= MaxJoins[k]
  <2>1. /\ joins \in [Members -> Nat] /\ MaxJoins \in [Members -> Nat]
        /\ \A k \in Members : joins[k] <= MaxJoins[k]
    BY ClaimAssumption DEF IInv, TypeOK
  <2>2. joins[m] - 1 \in Nat /\ joins[m] - 1 <= MaxJoins[m] BY <1>1, <2>1
  <2> QED BY <1>1, <2>1, <2>2
<1>5. charged' \in [Members -> Nat] /\ joined' \in SUBSET Members
  BY <1>2 DEF IInv, TypeOK
<1>6. TypeOK' BY <1>1, <1>3, <1>4, <1>5 DEF IInv, TypeOK
<1>7. Paid' BY <1>2 DEF IInv, Paid, TypeOK
<1>8. joined \subseteq joined' BY <1>2
<1>9. JobsPaid' /\ TxsServed'
  BY <1>1, <1>8 DEF IInv, JobsPaid, TxsServed, Awaits, At
<1>10. Won' BY <1>1 DEF IInv, Won, Issued, At
<1>11. UNCHANGED charged \/ Ledger!Pay(m)
  BY <1>1, <1>2 DEF Ledger!Pay, IInv, Paid, TypeOK
<1> QED BY <1>1, <1>6, <1>7, <1>9, <1>10, <1>11
        DEF IInv, NoFalseSuccess, LocksReleased, At

LEMMA FreeKeeps ==
  ASSUME IInv, NEW l \in Labels, FreeClaim(l)
  PROVE  IInv' /\ Ledger!Issue(l, Stranger)
<1>1. /\ owner[l] = Free /\ owner' = [owner EXCEPT ![l] = Stranger]
      /\ UNCHANGED <<charged, joined, joins, burned, txs, inFlight, job, waiting, handle>>
  BY DEF FreeClaim, apps
<1>2. faults' \in 0..MaxFaults BY FaultsTyped DEF FreeClaim, IInv
<1>3. /\ owner' \in [Labels -> Members \cup {Free, Stranger}]
      /\ \A k \in Labels : owner[k] # Free => owner'[k] = owner[k]
  BY <1>1 DEF IInv, TypeOK
<1>4. TypeOK' BY <1>1, <1>2, <1>3 DEF IInv, TypeOK
<1>5. Won'
  <2>1. \A h \in Handlers : ~At(h, "idle") =>
          job[h].label \in Labels /\ job[h].member # Free
    BY ClaimAssumption DEF IInv, JobsPaid, TypeOK
  <2> QED BY <1>1, <1>3, <2>1 DEF IInv, Won, Issued, At
<1>6. NoFalseSuccess'
  <2>1. \A m \in Members : handle[m] \in Labels \cup {None} /\ m # Free
    BY ClaimAssumption DEF IInv, TypeOK
  <2> QED BY <1>1, <1>3, <2>1 DEF IInv, NoFalseSuccess
<1>7. Ledger!Issue(l, Stranger) BY <1>1, ClaimAssumption DEF Ledger!Issue
<1> QED BY <1>1, <1>4, <1>5, <1>6, <1>7
        DEF IInv, Paid, JobsPaid, TxsServed, Awaits, LocksReleased, At

LEMMA CrashKeeps ==
  ASSUME IInv, Crash
  PROVE  IInv' /\ UNCHANGED <<charged, owner>>
<1>1. /\ UNCHANGED <<charged, joined, joins, burned, owner, handle>>
      /\ inFlight' = {} /\ job' = [h \in Handlers |-> NoJob]
      /\ waiting' = [m \in Members |-> None]
      /\ txs' = {[t EXCEPT !.by = None] : t \in txs}
  BY DEF Crash
<1>2. faults' \in 0..MaxFaults BY FaultsTyped DEF Crash, IInv
<1>3. NoJob \in Job BY DEF NoJob, Job, Stages, Results
<1>4. \A t \in txs : /\ [t EXCEPT !.by = None] \in Tx
                     /\ [t EXCEPT !.by = None].by = None
                     /\ [t EXCEPT !.by = None].member \in joined
  BY DEF IInv, TypeOK, TxsServed, Tx
<1>5. TypeOK' BY <1>1, <1>2, <1>3, <1>4 DEF IInv, TypeOK
<1>6. TxsServed' BY <1>1, <1>4 DEF TxsServed
<1>7. JobsPaid' /\ Won' BY <1>1 DEF JobsPaid, Won, At, NoJob
<1> QED BY <1>1, <1>5, <1>6, <1>7
        DEF IInv, Paid, NoFalseSuccess, LocksReleased

-----------------------------------------------------------------------------

\* Every step keeps the invariant and is a step of Handles or a stutter.
LEMMA EveryStep ==
  ASSUME IInv, [Next]_vars
  PROVE  IInv' /\ [Ledger!Next]_<<charged, owner>>
<1>1. CASE UNCHANGED vars
  BY <1>1 DEF vars, chains, apps, IInv, TypeOK, Paid, JobsPaid, TxsServed, Awaits,
              Won, Issued, NoFalseSuccess, LocksReleased, At
<1>2. ASSUME NEW m \in Members, App(m)
      PROVE  IInv' /\ [Ledger!Next]_<<charged, owner>>
  BY <1>2, AppKeeps
<1>3. ASSUME NEW m \in Members, MineJoin(m)
      PROVE  IInv' /\ [Ledger!Next]_<<charged, owner>>
  BY <1>3, JoinKeeps DEF Ledger!Next
<1>4. ASSUME NEW h \in Handlers, Handle(h) \/ HandlerThrows(h)
      PROVE  IInv' /\ [Ledger!Next]_<<charged, owner>>
  BY <1>4, HandlerKeeps
<1>5. ASSUME NEW t \in txs, MineSpend(t) \/ MineClaim(t)
      PROVE  IInv' /\ [Ledger!Next]_<<charged, owner>>
  <2>1. t.label \in Labels /\ t.member \in Members BY DEF IInv, TypeOK, Tx
  <2> QED BY <1>5, <2>1, MiningKeeps DEF Ledger!Next
<1>6. ASSUME NEW l \in Labels, FreeClaim(l)
      PROVE  IInv' /\ [Ledger!Next]_<<charged, owner>>
  BY <1>6, FreeKeeps DEF Ledger!Next
<1>7. CASE Crash BY <1>7, CrashKeeps
<1> QED BY <1>1, <1>2, <1>3, <1>4, <1>5, <1>6, <1>7 DEF Next, Mine

\* The claim over both chains implements Handles: a member is charged once, and a
\* handle is issued to a paid member or a stranger and never moves again.
THEOREM ClaimImplementsHandles == Spec => ImplementsHandles
<1>1. IInv /\ [Next]_vars => IInv' /\ [Ledger!Next]_<<charged, owner>>
  BY EveryStep
<1> QED BY Initially, <1>1, PTL DEF Spec, ImplementsHandles, Ledger!Spec

\* A handle the app has saved is on chain and its own.
THEOREM SuccessIsReal == Spec => []NoFalseSuccess
<1>1. IInv /\ [Next]_vars => IInv' BY EveryStep
<1>2. IInv => NoFalseSuccess BY DEF IInv
<1> QED BY Initially, <1>1, <1>2, PTL DEF Spec

\* A locked label is being worked on.
THEOREM LocksAreReleased == Spec => []LocksReleased
<1>1. IInv /\ [Next]_vars => IInv' BY EveryStep
<1>2. IInv => LocksReleased BY DEF IInv
<1> QED BY Initially, <1>1, <1>2, PTL DEF Spec


-----------------------------------------------------------------------------
(***************************************************************************)
(* Types.                                                                  *)
(***************************************************************************)

ClaimSet == [poh : Humans \cup {Nobody}, wallets : SUBSET Wallets]
Val == [k : {"ask", "err", "yes", "no"}] \cup [k : {"ok"}, token : BOOLEAN, bans : SUBSET Ids]
CallStages == EnsSteps \cup {"idle", "item", "balance", "connect", "prove"}
Key == Keys \cup Nonces \cup {Nobody}
Call == [pc : CallStages, op : {"none", "unlock", "release"}, claims : ClaimSet,
         try : SUBSET Wallets, todo : Seq(Item), id : Ids \cup {Nobody}, key : Key,
         token : Tokens \cup {Nobody}, val : Val, since : Nat, began : Nat, won : Nat]

StoredOK ==
  /\ posts \in [Refs -> [kind : {"none", "sealed", "deposit"}, items : Seq(Item)]]
  /\ \A r \in Refs : posts[r].kind = "deposit" => posts[r].items # <<>>
  /\ sessions \in [Tokens -> [claims : ClaimSet, exp : Int]]
NonceOK ==
  /\ nonces \in [Nonces -> [kind : {"none", "world", "wallet", "post"}, by : Humans \cup {Nobody},
                            at : Nat, used : BOOLEAN, wins : Nat, forged : BOOLEAN]]
  /\ \A n \in Nonces : nonces[n].kind # "none" => nonces[n].by \in Humans
MembersOK ==
  members \in [{"gate", "ens"} -> [Ids -> [st : {"none", "member", "banned"}, key : Key]]]
ClockOK == now \in Nat /\ now <= MaxClock
CacheTypes ==
  /\ ensCache \in [v : Val, at : Int]
  /\ heldCache \in [Wallets -> [yes : BOOLEAN, at : Int]]
LedgerTypes ==
  /\ record \in [token : BOOLEAN, bans : SUBSET Ids]
  /\ holders \in SUBSET Wallets
  /\ bannedAt \in [Ids -> Nat] /\ lostAt \in [Wallets -> Nat] /\ unnamedAt \in Nat

GateTypeOK ==
  /\ ClockOK /\ StoredOK /\ NonceOK /\ MembersOK /\ CacheTypes /\ LedgerTypes
  /\ calls \in [Calls -> Call]

-----------------------------------------------------------------------------
(***************************************************************************)
(* The inductive invariant.                                                *)
(***************************************************************************)

\* A nonce is used by one handler, which alone may still win with it.
OneTry ==
  /\ \A n \in Nonces : /\ nonces[n].used => nonces[n].kind # "none"
                       /\ nonces[n].wins # 0 => nonces[n].used
                       /\ nonces[n].wins <= 1 /\ ~nonces[n].forged
  /\ \A q \in Calls : calls[q].pc = "connect" =>
       /\ calls[q].key \in Nonces
       /\ nonces[calls[q].key].used /\ nonces[calls[q].key].wins = 0
       /\ calls[q].id \in Ids /\ calls[q].val.k \in {"yes", "no"}
       /\ \A p \in Calls : calls[p].pc = "connect" /\ calls[p].key = calls[q].key => p = q

\* The history says since when the records say no.
LedgerOK ==
  /\ \A id \in Ids : id \notin record.bans => bannedAt[id] = Never
  /\ \A w \in Wallets : w \in holders => lostAt[w] = Never
  /\ record.token => unnamedAt = Never

\* What v says of the space was so at t.
View(v, t) ==
  v.k = "ok" => /\ \A id \in Ids : id \notin v.bans => bannedAt[id] >= t
                /\ v.token => unnamedAt >= t

\* The wallet w held at t, as far as a read tells that took at most RpcMax, and
\* the space named the collection, as far as the cache before it told.
Held(w, t) ==
  /\ lostAt[w] >= t - RpcMax
  /\ unnamedAt > t - (EnsTtl + 2 * RpcMax)

CachesOK ==
  /\ ensCache.at <= now /\ View(ensCache.v, ensCache.at - RpcMax)
  /\ \A w \in Wallets : heldCache[w].at <= now
  /\ \A w \in Wallets : heldCache[w].yes => Held(w, heldCache[w].at)

Stands(c, S) == c.todo # <<>> /\ Head(c.todo).check \in S
OfWallet(c) == \E w \in Wallets : c.id = ByWallet(w)
\* A handler that has still to ask asks now.
Asked(c) == IF c.val.k = "ask" THEN now ELSE c.since

Timely(c) ==
  /\ c.since <= now /\ c.began <= now
  /\ c.pc \in EnsSteps \cup {"balance"} /\ c.val.k # "ask" => now - c.since <= RpcMax

Placed(c) ==
  /\ c.pc \in {"exists", "prove"} => Stands(c, {"human"}) /\ c.id \in Ids
  /\ c.pc \in {"collection", "balance"} => Stands(c, {"nft"}) /\ OfWallet(c)
  /\ c.pc = "banned" => Stands(c, {"human", "nft"}) /\ c.id \in Ids
  /\ c.pc = "banned" /\ Head(c.todo).check = "nft" => OfWallet(c)

Told(c) ==
  /\ c.pc \in EnsSteps => View(c.val, c.since)
  /\ c.pc = "balance" => /\ c.val.k = "yes" => lostAt[c.id[2]] >= c.since
                         /\ unnamedAt > Asked(c) - (EnsTtl + RpcMax)
  /\ c.pc = "banned" /\ Head(c.todo).check = "nft" =>
       /\ lostAt[c.id[2]] > Asked(c) - (YesTtl + RpcMax)
       /\ unnamedAt > Asked(c) - (EnsTtl + YesTtl + 2 * RpcMax)

CallOK(c) == Timely(c) /\ Placed(c) /\ Told(c)

GateInv ==
  /\ GateTypeOK /\ OneTry /\ LedgerOK /\ CachesOK
  /\ \A q \in Calls : CallOK(calls[q])

-----------------------------------------------------------------------------
(***************************************************************************)
(* How a handler goes on.                                                  *)
(***************************************************************************)

\* What the history must say for a share to be handed out.
Justified(c, d) ==
  /\ Head(c.todo).space = "ens" => bannedAt[d.id] > c.began - (EnsTtl + RpcMax)
  /\ Head(c.todo).check = "nft" =>
       /\ lostAt[d.id[2]] > now - (YesTtl + 2 * RpcMax)
       /\ unnamedAt > now - (EnsTtl + YesTtl + 3 * RpcMax)

\* The handler goes from c to d, and hands out a share only when it may.
Lawful(c, d) ==
  /\ d \in Call /\ CallOK(d)
  /\ d.won > c.won => Justified(c, d)
Fair(c, d) == Lawful(c, d) /\ d.pc # "connect"

\* Call q alone goes on.
Acts(q) == \E d \in Call : calls' = [calls EXCEPT ![q] = d] /\ Lawful(calls[q], d)
Goes(q) == \E d \in Call : calls' = [calls EXCEPT ![q] = d] /\ Fair(calls[q], d)

LEMMA Numbers ==
  /\ EnsTtl \in Nat /\ EnsTtl > 0 /\ YesTtl \in Nat /\ YesTtl > 0 /\ NoTtl \in Nat /\ NoTtl > 0
  /\ SessionTtl \in Nat /\ SessionTtl > 0 /\ RpcMax \in Nat /\ RpcMax > 0
  /\ NonceTtl \in Nat /\ MaxClock \in Nat
  /\ Never \in Nat /\ (ClockOK => now <= Never)
BY GateAssumption DEF Never, ClockOK

LEMMA Fields ==
  ASSUME NEW c \in Call
  PROVE  /\ c.pc \in CallStages /\ c.claims \in ClaimSet /\ c.claims.wallets \in SUBSET Wallets
         /\ c.try \in SUBSET Wallets /\ c.todo \in Seq(Item) /\ c.id \in Ids \cup {Nobody}
         /\ c.key \in Key /\ c.val \in Val /\ c.since \in Nat /\ c.began \in Nat /\ c.won \in Nat
         /\ c.token \in Tokens \cup {Nobody}
         /\ c.todo # <<>> => Head(c.todo) \in Item /\ Tail(c.todo) \in Seq(Item)
BY DEF Call, ClaimSet

\* Whatever a handler that stands at an item does with it, it goes on in order.
LEMMA SkipFields ==
  ASSUME NEW c \in Call, c.todo # <<>>
  PROVE  /\ Skip(c) \in Call /\ Skip(c).pc = "item" /\ Skip(c).won = c.won /\ Skip(c).id = c.id
         /\ Skip(c).since = c.since /\ Skip(c).began = c.began
<1>1. /\ "item" \in CallStages /\ c.claims.wallets \in SUBSET Wallets /\ Tail(c.todo) \in Seq(Item)
  BY Fields DEF CallStages
<1> QED BY <1>1 DEF Skip, Call

LEMMA WinFields ==
  ASSUME NEW c \in Call, c.todo # <<>>
  PROVE  /\ Win(c) \in Call /\ Win(c).pc = "item" /\ Win(c).id = c.id
         /\ Win(c).since = c.since /\ Win(c).began = c.began
<1>1. Skip(c).won + 1 \in Nat BY Fields, SkipFields
<1> QED BY <1>1, SkipFields DEF Win, Call

LEMMA DenyFields ==
  ASSUME NEW c \in Call, c.todo # <<>>
  PROVE  /\ Deny(c) \in Call /\ Deny(c).pc = "item" /\ Deny(c).won = c.won
         /\ Deny(c).since = c.since /\ Deny(c).began = c.began
<1>1. CASE c.op = "unlock" /\ Head(c.todo).check = "nft"
  <2> DEFINE left == {w \in c.try : ByWallet(w) # c.id}
  <2>1. Deny(c) = [c EXCEPT !.pc = "item", !.try = left] BY <1>1 DEF Deny
  <2>2. left \in SUBSET Wallets /\ "item" \in CallStages BY Fields DEF CallStages
  <2> HIDE DEF left
  <2> QED BY <2>1, <2>2 DEF Call
<1>2. CASE ~(c.op = "unlock" /\ Head(c.todo).check = "nft")
  <2>1. Deny(c) = Skip(c) BY <1>2 DEF Deny
  <2> QED BY <2>1, SkipFields
<1> QED BY <1>1, <1>2

\* Between two items nothing is asked, and nothing is claimed.
LEMMA ItemOK ==
  ASSUME NEW d \in Call, d.pc = "item", d.since <= now, d.began <= now
  PROVE  CallOK(d)
BY DEF CallOK, Timely, Placed, Told, EnsSteps

LEMMA SkipFair ==
  ASSUME NEW c \in Call, CallOK(c), c.todo # <<>>
  PROVE  Fair(c, Skip(c))
<1>1. c.since <= now /\ c.began <= now BY DEF CallOK, Timely
<1>2. ~(Skip(c).won > c.won) BY Fields, SkipFields
<1> QED BY <1>1, <1>2, SkipFields, ItemOK DEF Fair, Lawful

LEMMA DenyFair ==
  ASSUME NEW c \in Call, CallOK(c), c.todo # <<>>
  PROVE  Fair(c, Deny(c))
<1>1. c.since <= now /\ c.began <= now BY DEF CallOK, Timely
<1>2. ~(Deny(c).won > c.won) BY Fields, DenyFields
<1> QED BY <1>1, <1>2, DenyFields, ItemOK DEF Fair, Lawful

LEMMA WinFair ==
  ASSUME NEW c \in Call, CallOK(c), c.todo # <<>>, Justified(c, Win(c))
  PROVE  Fair(c, Win(c))
<1>1. c.since <= now /\ c.began <= now BY DEF CallOK, Timely
<1> QED BY <1>1, WinFields, ItemOK DEF Fair, Lawful
-----------------------------------------------------------------------------
(***************************************************************************)
(* Admitting, and asking the chains.                                       *)
(***************************************************************************)

LEMMA AskFields ==
  ASSUME NEW c \in Call, NEW pc \in CallStages
  PROVE  LET d == Ask(c, pc) IN
         /\ d \in Call /\ d.pc = pc /\ d.val.k = "ask" /\ d.id = c.id /\ d.todo = c.todo
         /\ d.won = c.won /\ d.since = c.since /\ d.began = c.began
<1>1. Read("ask") \in Val /\ Read("ask").k = "ask" BY DEF Read, Val
<1> HIDE DEF Read
<1> QED BY <1>1 DEF Ask, Call

\* What a handler must know to ask at stage pc.
MayAsk(c, pc) ==
  /\ pc = "exists" => Stands(c, {"human"}) /\ c.id \in Ids
  /\ pc = "collection" => Stands(c, {"nft"}) /\ OfWallet(c)
  /\ pc = "balance" => /\ Stands(c, {"nft"}) /\ OfWallet(c)
                       /\ unnamedAt > now - (EnsTtl + RpcMax)
  /\ pc = "banned" => Stands(c, {"human", "nft"}) /\ c.id \in Ids
  /\ pc = "banned" /\ Head(c.todo).check = "nft" =>
       /\ OfWallet(c)
       /\ lostAt[c.id[2]] > now - (YesTtl + RpcMax)
       /\ unnamedAt > now - (EnsTtl + YesTtl + 2 * RpcMax)

LEMMA AskFair ==
  ASSUME NEW c \in Call, c.since <= now, c.began <= now,
         NEW pc \in {"exists", "collection", "balance", "banned"}, MayAsk(c, pc)
  PROVE  Fair(c, Ask(c, pc))
<1> DEFINE d == Ask(c, pc)
<1>1. /\ d \in Call /\ d.pc = pc /\ d.val.k = "ask" /\ d.id = c.id /\ d.todo = c.todo
      /\ d.won = c.won /\ d.since = c.since /\ d.began = c.began
  BY AskFields DEF CallStages, EnsSteps
<1> HIDE DEF d
<1>2. Timely(d) BY <1>1 DEF Timely
<1>3. Placed(d) BY <1>1 DEF Placed, MayAsk, Stands, OfWallet
<1>4. Told(d) BY <1>1 DEF Told, MayAsk, View, Asked
<1>5. ~(d.won > c.won) BY <1>1, Fields
<1> QED BY <1>1, <1>2, <1>3, <1>4, <1>5 DEF Fair, Lawful, CallOK, d

LEMMA Named ==
  ASSUME NEW c \in Call, NEW id \in Ids
  PROVE  LET d == [c EXCEPT !.id = id] IN
         /\ d \in Call /\ d.id = id /\ d.pc = c.pc /\ d.todo = c.todo /\ d.won = c.won
         /\ d.since = c.since /\ d.began = c.began /\ d.op = c.op /\ d.try = c.try /\ d.key = c.key
BY DEF Call

\* The members' table after admitting someone.
LEMMA AdmitKeeps ==
  ASSUME MembersOK, NEW q \in Calls, NEW c \in Call, NEW space \in {"gate", "ens"},
         NEW id \in Ids, Admit(q, c, space, id)
  PROVE  MembersOK'
<1>1. CASE members' = members BY <1>1 DEF MembersOK
<1>2. CASE members' = [members EXCEPT ![space][id] =
                        [st |-> "member", key |-> IF c.key = Nobody THEN @.key ELSE c.key]]
  <2>1. c.key \in Key /\ members[space][id].key \in Key BY Fields DEF MembersOK
  <2> QED BY <1>2, <2>1 DEF MembersOK
<1> QED BY <1>1, <1>2 DEF Admit

\* Admitted to the gate's space a human has the share; to the ENS space, whoever
\* is admitted is looked up in the ban list first.
LEMMA AdmitFair ==
  ASSUME NEW q \in Calls, calls \in [Calls -> Call], NEW c \in Call, c.since <= now, c.began <= now,
         NEW space \in {"gate", "ens"}, NEW id \in Ids, Admit(q, c, space, id),
         c.todo # <<>>, c.won = calls[q].won,
         space = "gate" => Head(c.todo).space # "ens" /\ Head(c.todo).check # "nft",
         space = "gate" => calls[q].todo = c.todo,
         space = "ens" => MayAsk([c EXCEPT !.id = id], "banned")
  PROVE  Goes(q)
<1> DEFINE b == [c EXCEPT !.id = id]
<1>1. /\ b \in Call /\ b.todo = c.todo /\ b.won = c.won /\ b.since = c.since /\ b.began = c.began
  BY Named
<1>2. CASE calls' = [calls EXCEPT ![q] = Deny(b)]
  <2>1. CallOK(Deny(b)) /\ Deny(b) \in Call /\ Deny(b).pc = "item" /\ Deny(b).won = c.won
    BY <1>1, DenyFields, ItemOK
  <2>2. ~(Deny(b).won > calls[q].won) BY <2>1, Fields
  <2> QED BY <1>2, <2>1, <2>2 DEF Fair, Lawful, Goes
<1>3. CASE space = "ens" /\ calls' = [calls EXCEPT ![q] = Ask(b, "banned")]
  <2>1. CallOK(Ask(b, "banned")) /\ Ask(b, "banned") \in Call /\ Ask(b, "banned").pc # "connect"
    BY <1>1, <1>3, AskFair DEF Fair, Lawful
  <2>2. Ask(b, "banned").won = b.won BY <1>1, AskFields DEF CallStages, EnsSteps
  <2>3. ~(Ask(b, "banned").won > calls[q].won) BY <2>2, <1>1, Fields
  <2> QED BY <1>3, <2>1, <2>3 DEF Fair, Lawful, Goes
<1>4. CASE space = "gate" /\ calls' = [calls EXCEPT ![q] = Win(b)]
  <2>1. CallOK(Win(b)) /\ Win(b) \in Call /\ Win(b).pc = "item"
    BY <1>1, WinFields, ItemOK
  <2>2. Justified(calls[q], Win(b)) BY <1>4 DEF Justified
  <2> QED BY <1>4, <2>1, <2>2 DEF Fair, Lawful, Goes
<1> HIDE DEF b
<1>5. calls' = [calls EXCEPT ![q] = Deny(b)]
      \/ (space = "ens" /\ calls' = [calls EXCEPT ![q] = Ask(b, "banned")])
      \/ (space = "gate" /\ calls' = [calls EXCEPT ![q] = Win(b)])
  BY DEF Admit, b
<1> QED BY <1>2, <1>3, <1>4, <1>5

-----------------------------------------------------------------------------
(***************************************************************************)
(* unlock.                                                                 *)
(***************************************************************************)

LEMMA IdleFields ==
  Idle \in Call /\ Idle.pc = "idle" /\ Idle.since = 0 /\ Idle.began = 0 /\ Idle.won = 0
<1>1. /\ NoClaims \in ClaimSet /\ {} \in SUBSET Wallets /\ <<>> \in Seq(Item)
      /\ "idle" \in CallStages /\ [k |-> "ask"] \in Val
  BY DEF NoClaims, ClaimSet, CallStages, Val
<1>2. Nobody \in Key BY DEF Key
<1> HIDE DEF NoClaims
<1> QED BY <1>1, <1>2 DEF Idle, Call

LEMMA IdleFair ==
  ASSUME ClockOK, NEW c \in Call
  PROVE  Fair(c, Idle)
<1>1. CallOK(Idle) BY IdleFields DEF ClockOK, CallOK, Timely, Placed, Told, EnsSteps
<1>2. ~(Idle.won > c.won) BY IdleFields, Fields
<1> QED BY <1>1, <1>2, IdleFields DEF Fair, Lawful

LEMMA ClaimsType ==
  ASSUME StoredOK, NEW t
  PROVE  Claims(t) \in ClaimSet
BY DEF StoredOK, Claims, NoClaims, ClaimSet

LEMMA UnlockGoes ==
  ASSUME GateTypeOK, NEW q \in Calls, NEW t \in Tokens, NEW k \in Keys, NEW r \in Refs, NEW s \in Refs,
         Unlock(q, t, k, r, s)
  PROVE  Goes(q)
<1> DEFINE todo == IF r = s THEN ItemsOf(r) ELSE ItemsOf(r) \o ItemsOf(s)
           d == [Idle EXCEPT !.pc = "item", !.op = "unlock", !.claims = Claims(t), !.key = k,
                             !.try = Claims(t).wallets, !.began = now, !.todo = todo]
<1>1. calls' = [calls EXCEPT ![q] = d] BY DEF Unlock
<1>2. todo \in Seq(Item)
  <2>1. ItemsOf(r) \in Seq(Item) /\ ItemsOf(s) \in Seq(Item) BY DEF ItemsOf, GateTypeOK, StoredOK
  <2> QED BY <2>1
<1>3. Claims(t) \in ClaimSet /\ Claims(t).wallets \in SUBSET Wallets
  BY ClaimsType DEF GateTypeOK, ClaimSet
<1>4. k \in Key /\ "item" \in CallStages /\ now \in Nat BY DEF Key, CallStages, GateTypeOK, ClockOK
<1>5. Idle \in Call /\ Idle.since = 0 /\ Idle.won = 0 BY IdleFields
<1> HIDE DEF todo
<1>6. d \in Call /\ d.pc = "item" /\ d.since = 0 /\ d.began = now /\ d.won = 0
  BY <1>2, <1>3, <1>4, <1>5 DEF Call
<1> HIDE DEF d
<1>7. CallOK(d) BY <1>4, <1>6, ItemOK
<1>8. calls[q] \in Call BY DEF GateTypeOK
<1>9. ~(d.won > calls[q].won) BY <1>6, <1>8, Fields
<1> QED BY <1>1, <1>6, <1>7, <1>9 DEF Goes, Fair, Lawful

LEMMA AfterItemGoes ==
  ASSUME GateInv, NEW q \in Calls, AfterItem(q)
  PROVE  Goes(q)
<1> DEFINE c == calls[q]
<1>1. c \in Call /\ CallOK(c) BY DEF GateInv, GateTypeOK
<1>2. c.todo # <<>> /\ Head(c.todo).check = "after" BY DEF AfterItem, AtItem
<1>3. Head(c.todo).space = "none" BY <1>1, <1>2, Fields DEF Item
<1>4. calls' = [calls EXCEPT ![q] = Win(c)] \/ calls' = [calls EXCEPT ![q] = Skip(c)]
  BY DEF AfterItem
<1> HIDE DEF c
<1>5. Justified(c, Win(c)) BY <1>2, <1>3 DEF Justified
<1>6. Fair(c, Win(c)) /\ Fair(c, Skip(c)) BY <1>1, <1>2, <1>5, WinFair, SkipFair
<1> QED BY <1>4, <1>6 DEF Goes, c, Fair, Lawful

LEMMA HumanItemGoes ==
  ASSUME GateInv, NEW q \in Calls, HumanItem(q)
  PROVE  Goes(q) /\ MembersOK'
<1> DEFINE c == calls[q]
           space == Head(c.todo).space
           id == ByKeyring(c.claims.poh)
           b == [c EXCEPT !.id = id]
<1>1. c \in Call /\ CallOK(c) /\ MembersOK BY DEF GateInv, GateTypeOK
<1>2. c.todo # <<>> /\ Head(c.todo).check = "human" BY DEF HumanItem, AtItem
<1>3. space \in {"none", "gate", "ens"} BY <1>1, <1>2, Fields DEF Item
<1>4. c.since <= now /\ c.began <= now BY <1>1 DEF CallOK, Timely
<1>5. ASSUME c.claims.poh # Nobody PROVE id \in Ids
  <2>1. c.claims.poh \in Humans BY <1>1, <1>5, Fields DEF ClaimSet
  <2> QED BY <2>1 DEF ByKeyring, Ids
<1>6. CASE c.claims.poh # Nobody /\ space = "gate" /\ registered
  <2>1. Admit(q, c, "gate", id) BY <1>6 DEF HumanItem
  <2>2. calls \in [Calls -> Call] BY DEF GateInv, GateTypeOK
  <2>3. id \in Ids BY <1>5, <1>6
  <2>4. Head(c.todo).space = "gate" /\ Head(c.todo).check = "human" BY <1>2, <1>6
  <2> HIDE DEF id
  <2>5. MembersOK' BY <1>1, <2>1, <2>3, AdmitKeeps
  <2>6. Goes(q) BY <1>1, <1>2, <1>4, <2>1, <2>2, <2>3, <2>4, AdmitFair
  <2> QED BY <2>5, <2>6
<1>7. CASE ~(c.claims.poh # Nobody /\ space = "gate" /\ registered)
  <2>1. /\ members' = members
        /\ \/ c.claims.poh # Nobody /\ space = "none" /\ calls' = [calls EXCEPT ![q] = Win(c)]
           \/ c.claims.poh # Nobody /\ space = "ens" /\ calls' = [calls EXCEPT ![q] = Ask(b, "exists")]
           \/ calls' = [calls EXCEPT ![q] = Skip(c)]
    BY <1>7 DEF HumanItem
  <2>2. MembersOK' BY <1>1, <2>1 DEF MembersOK
  <2>3. CASE space = "none" /\ calls' = [calls EXCEPT ![q] = Win(c)]
    <3>1. Justified(c, Win(c)) BY <1>2, <2>3 DEF Justified
    <3> QED BY <1>1, <1>2, <2>2, <2>3, <3>1, WinFair DEF Goes, Fair, Lawful
  <2>4. CASE c.claims.poh # Nobody /\ calls' = [calls EXCEPT ![q] = Ask(b, "exists")]
    <3>1. id \in Ids BY <1>5, <2>4
    <3> HIDE DEF id
    <3>2. /\ b \in Call /\ b.id = id /\ b.todo = c.todo /\ b.since = c.since /\ b.began = c.began
          /\ b.won = c.won
      BY <1>1, <3>1, Named
    <3> HIDE DEF b
    <3>3. MayAsk(b, "exists") BY <1>2, <3>1, <3>2 DEF MayAsk, Stands
    <3>4. Fair(b, Ask(b, "exists")) BY <1>4, <3>2, <3>3, AskFair
    <3>5. Ask(b, "exists").won = c.won BY <3>2, AskFields DEF CallStages, EnsSteps
    <3>6. ~(Ask(b, "exists").won > c.won) BY <1>1, <3>5, Fields
    <3> QED BY <2>2, <2>4, <3>4, <3>6 DEF Goes, Fair, Lawful
  <2>5. CASE calls' = [calls EXCEPT ![q] = Skip(c)]
    BY <1>1, <1>2, <2>2, <2>5, SkipFair DEF Goes, Fair, Lawful
  <2> QED BY <2>1, <2>3, <2>4, <2>5
<1> QED BY <1>6, <1>7

\* A cached yes that is still fresh is young enough for both windows.
LEMMA FreshHolds ==
  ASSUME GateInv, NEW w \in Wallets, HeldFresh(w), heldCache[w].yes
  PROVE  /\ lostAt[w] > now - (YesTtl + RpcMax)
         /\ unnamedAt > now - (EnsTtl + YesTtl + 2 * RpcMax)
<1>1. Held(w, heldCache[w].at) BY DEF GateInv, CachesOK
<1>2. now - heldCache[w].at < YesTtl BY DEF HeldFresh
<1>3. /\ heldCache[w].at \in Int /\ now \in Int /\ lostAt[w] \in Int /\ unnamedAt \in Int
  BY DEF GateInv, GateTypeOK, CacheTypes, ClockOK, LedgerTypes
<1> QED BY <1>1, <1>2, <1>3, Numbers DEF Held

LEMMA WalletIds ==
  ASSUME NEW w \in Wallets
  PROVE  ByWallet(w) \in Ids /\ ByWallet(w)[2] = w
BY DEF ByWallet, Ids

LEMMA NftItemGoes ==
  ASSUME GateInv, NEW q \in Calls, NftItem(q)
  PROVE  Goes(q) /\ MembersOK'
<1> DEFINE c == calls[q]
<1>1. c \in Call /\ CallOK(c) /\ MembersOK /\ calls \in [Calls -> Call] BY DEF GateInv, GateTypeOK
<1>2. c.todo # <<>> /\ Head(c.todo).check = "nft" BY DEF NftItem, AtItem
<1>3. c.since <= now /\ c.began <= now BY <1>1 DEF CallOK, Timely
<1>4. CASE calls' = [calls EXCEPT ![q] = Skip(c)] /\ members' = members
  <2>1. MembersOK' BY <1>1, <1>4 DEF MembersOK
  <2> QED BY <1>1, <1>2, <1>4, <2>1, SkipFair DEF Goes, Fair, Lawful
<1>5. ASSUME NEW w \in c.try,
             \/ ~HeldFresh(w) /\ members' = members
                /\ calls' = [calls EXCEPT ![q] = Ask([c EXCEPT !.id = ByWallet(w)], "collection")]
             \/ HeldFresh(w) /\ heldCache[w].yes /\ Admit(q, c, "ens", ByWallet(w))
             \/ members' = members
                /\ calls' = [calls EXCEPT ![q] = Deny([c EXCEPT !.id = ByWallet(w)])]
      PROVE  Goes(q) /\ MembersOK'
  <2> DEFINE b == [c EXCEPT !.id = ByWallet(w)]
  <2>1. w \in Wallets BY <1>1, Fields
  <2>2. /\ b \in Call /\ b.id = ByWallet(w) /\ b.todo = c.todo /\ b.won = c.won
        /\ b.since = c.since /\ b.began = c.began
    BY <1>1, <2>1, WalletIds, Named
  <2>3. OfWallet(b) /\ b.id[2] = w /\ b.id \in Ids BY <2>1, <2>2, WalletIds DEF OfWallet
  <2>4. CASE members' = members /\ calls' = [calls EXCEPT ![q] = Ask(b, "collection")]
    <3> HIDE DEF b
    <3>1. MembersOK' BY <1>1, <2>4 DEF MembersOK
    <3>2. MayAsk(b, "collection") BY <1>2, <2>2, <2>3 DEF MayAsk, Stands
    <3>3. Fair(b, Ask(b, "collection")) BY <1>3, <2>2, <3>2, AskFair
    <3>4. Ask(b, "collection").won = c.won BY <2>2, AskFields DEF CallStages, EnsSteps
    <3>5. ~(Ask(b, "collection").won > c.won) BY <1>1, <3>4, Fields
    <3> QED BY <2>4, <3>1, <3>3, <3>5 DEF Goes, Fair, Lawful
  <2>5. CASE HeldFresh(w) /\ heldCache[w].yes /\ Admit(q, c, "ens", ByWallet(w))
    <3>1. /\ lostAt[w] > now - (YesTtl + RpcMax)
          /\ unnamedAt > now - (EnsTtl + YesTtl + 2 * RpcMax)
      BY <2>1, <2>5, FreshHolds
    <3>2. MayAsk(b, "banned")
      <4> HIDE DEF b
      <4> QED BY <1>2, <2>2, <2>3, <3>1 DEF MayAsk, Stands
    <3>3. ByWallet(w) \in Ids BY <2>1, WalletIds
    <3>4. MembersOK' BY <1>1, <2>5, <3>3, AdmitKeeps
    <3>5. Goes(q) BY <1>1, <1>2, <1>3, <2>5, <3>2, <3>3, AdmitFair
    <3> QED BY <3>4, <3>5
  <2>6. CASE members' = members /\ calls' = [calls EXCEPT ![q] = Deny(b)]
    <3> HIDE DEF b
    <3>1. MembersOK' BY <1>1, <2>6 DEF MembersOK
    <3>2. /\ Deny(b) \in Call /\ Deny(b).pc = "item" /\ Deny(b).won = c.won
          /\ Deny(b).since = c.since /\ Deny(b).began = c.began
      BY <1>2, <2>2, DenyFields
    <3>3. CallOK(Deny(b)) BY <1>3, <3>2, ItemOK
    <3>4. ~(Deny(b).won > c.won) BY <1>1, <3>2, Fields
    <3> QED BY <2>6, <3>1, <3>2, <3>3, <3>4 DEF Goes, Fair, Lawful
  <2> QED BY <1>5, <2>4, <2>5, <2>6
<1> QED BY <1>4, <1>5 DEF NftItem

LEMMA AnswerGoes ==
  ASSUME GateInv, NEW q \in Calls, Answer(q)
  PROVE  Goes(q)
<1>1. Fair(calls[q], Idle) BY IdleFair DEF GateInv, GateTypeOK
<1> QED BY <1>1 DEF Answer, Goes, Fair, Lawful

-----------------------------------------------------------------------------
(***************************************************************************)
(* The reads.                                                              *)
(***************************************************************************)

\* What is known since t is acted on at most EnsTtl + RpcMax later.
LEMMA EnsAnswerGoes ==
  ASSUME GateInv, NEW q \in Calls, calls[q].pc \in EnsSteps,
         NEW v \in Val, NEW t \in Int, View(v, t), t > now - (EnsTtl + RpcMax), EnsAnswer(q, v)
  PROVE  /\ Goes(q) /\ MembersOK'
         /\ \/ heldCache' = heldCache
            \/ /\ OfWallet(calls[q])
               /\ heldCache' = [heldCache EXCEPT ![calls[q].id[2]] = [yes |-> FALSE, at |-> now]]
<1> DEFINE c == calls[q]
<1>1. /\ c \in Call /\ CallOK(c) /\ MembersOK /\ calls \in [Calls -> Call] /\ ClockOK
      /\ LedgerTypes
  BY DEF GateInv, GateTypeOK
<1>2. c.since <= now /\ c.began <= now BY <1>1 DEF CallOK, Timely
<1>3. Placed(c) /\ Timely(c) /\ Told(c) BY <1>1 DEF CallOK
<1>4. c.since \in Int /\ c.began \in Int /\ now \in Int /\ unnamedAt \in Int
      /\ c.won \in Nat
  BY <1>1, Fields DEF ClockOK, LedgerTypes
<1>5. CASE c.pc = "exists" /\ v.k = "ok"
  <2> DEFINE b == [c EXCEPT !.id = c.id]
  <2>1. Admit(q, c, "ens", c.id) /\ heldCache' = heldCache BY <1>5 DEF EnsAnswer
  <2>2. c.todo # <<>> /\ Head(c.todo).check = "human" /\ c.id \in Ids
    BY <1>3, <1>5 DEF Placed, Stands
  <2>3. b \in Call /\ b.id = c.id /\ b.todo = c.todo BY <1>1, <2>2, Named
  <2>4. MayAsk(b, "banned")
    <3> HIDE DEF b
    <3> QED BY <2>2, <2>3 DEF MayAsk, Stands
  <2>5. MembersOK' BY <1>1, <2>1, <2>2, AdmitKeeps
  <2>6. Goes(q) BY <1>1, <1>2, <2>1, <2>2, <2>4, AdmitFair
  <2> QED BY <2>1, <2>5, <2>6
<1>6. CASE ~(c.pc = "exists" /\ v.k = "ok")
  <2>1. /\ members' = members
        /\ \/ heldCache' = heldCache
           \/ /\ c.pc = "collection"
              /\ heldCache' = [heldCache EXCEPT ![c.id[2]] = [yes |-> FALSE, at |-> now]]
        /\ \/ c.pc = "attest" /\ calls' = [calls EXCEPT ![q] = Idle]
           \/ /\ c.pc = "collection" /\ v.k = "ok" /\ v.token
              /\ calls' = [calls EXCEPT ![q] = Ask(c, "balance")]
           \/ /\ c.pc = "banned" /\ v.k = "ok" /\ c.id \notin v.bans
              /\ calls' = [calls EXCEPT ![q] = Win(c)]
           \/ c.pc # "attest" /\ calls' = [calls EXCEPT ![q] = Deny(c)]
    BY <1>6 DEF EnsAnswer
  <2>2. MembersOK' BY <1>1, <2>1 DEF MembersOK
  <2>3. \/ heldCache' = heldCache
        \/ /\ OfWallet(c)
           /\ heldCache' = [heldCache EXCEPT ![c.id[2]] = [yes |-> FALSE, at |-> now]]
    BY <1>3, <2>1 DEF Placed
  <2>4. CASE c.pc = "attest" /\ calls' = [calls EXCEPT ![q] = Idle]
    <3>1. Fair(c, Idle) BY <1>1, IdleFair
    <3> QED BY <2>2, <2>3, <2>4, <3>1 DEF Goes, Fair, Lawful
  <2>5. CASE /\ c.pc = "collection" /\ v.k = "ok" /\ v.token
             /\ calls' = [calls EXCEPT ![q] = Ask(c, "balance")]
    <3>1. unnamedAt >= t BY <2>5 DEF View
    <3>2. unnamedAt > now - (EnsTtl + RpcMax) BY <1>4, <3>1, Numbers
    <3>3. MayAsk(c, "balance") BY <1>3, <2>5, <3>2 DEF MayAsk, Placed
    <3>4. Fair(c, Ask(c, "balance")) BY <1>1, <1>2, <3>3, AskFair
    <3> QED BY <2>2, <2>3, <2>5, <3>4 DEF Goes, Fair, Lawful
  <2>6. CASE /\ c.pc = "banned" /\ v.k = "ok" /\ c.id \notin v.bans
             /\ calls' = [calls EXCEPT ![q] = Win(c)]
    <3>1. c.todo # <<>> /\ c.id \in Ids BY <1>3, <2>6 DEF Placed, Stands
    <3>2. bannedAt[c.id] >= t /\ bannedAt[c.id] \in Int BY <1>1, <2>6, <3>1 DEF View, LedgerTypes
    <3>3. bannedAt[c.id] > c.began - (EnsTtl + RpcMax) BY <1>2, <1>4, <3>2, Numbers
    <3>4. ASSUME Head(c.todo).check = "nft"
          PROVE  /\ lostAt[c.id[2]] > now - (YesTtl + 2 * RpcMax)
                 /\ unnamedAt > now - (EnsTtl + YesTtl + 3 * RpcMax)
      <4>1. /\ lostAt[c.id[2]] > Asked(c) - (YesTtl + RpcMax)
            /\ unnamedAt > Asked(c) - (EnsTtl + YesTtl + 2 * RpcMax)
        BY <1>3, <2>6, <3>4 DEF Told
      <4>2. Asked(c) \in Int /\ Asked(c) >= now - RpcMax
        BY <1>3, <1>4, <2>6, Numbers DEF Asked, Timely, EnsSteps
      <4>3. lostAt[c.id[2]] \in Int
        <5>1. PICK w \in Wallets : c.id = ByWallet(w) BY <1>3, <2>6, <3>4 DEF Placed, OfWallet
        <5> QED BY <1>1, <5>1, WalletIds DEF LedgerTypes
      <4> QED BY <1>4, <4>1, <4>2, <4>3, Numbers
    <3>5. Win(c).id = c.id BY <1>1, <3>1, WinFields
    <3>6. Justified(c, Win(c)) BY <3>3, <3>4, <3>5 DEF Justified
    <3>7. Fair(c, Win(c)) BY <1>1, <3>1, <3>6, WinFair
    <3> QED BY <2>2, <2>3, <2>6, <3>7 DEF Goes, Fair, Lawful
  <2>7. CASE c.pc # "attest" /\ calls' = [calls EXCEPT ![q] = Deny(c)]
    <3>1. c.todo # <<>> BY <1>3, <2>7 DEF Placed, Stands, EnsSteps
    <3>2. Fair(c, Deny(c)) BY <1>1, <3>1, DenyFair
    <3> QED BY <2>2, <2>3, <2>7, <3>2 DEF Goes, Fair, Lawful
  <2> QED BY <2>1, <2>4, <2>5, <2>6, <2>7
<1> QED BY <1>5, <1>6

\* An entry that only says no claims nothing.
LEMMA DenialStored ==
  ASSUME GateInv,
         \/ heldCache' = heldCache
         \/ \E w \in Wallets : heldCache' = [heldCache EXCEPT ![w] = [yes |-> FALSE, at |-> now]]
  PROVE  /\ heldCache' \in [Wallets -> [yes : BOOLEAN, at : Int]]
         /\ \A w \in Wallets : heldCache'[w].at <= now
         /\ \A w \in Wallets : heldCache'[w].yes => Held(w, heldCache'[w].at)
<1>1. /\ heldCache \in [Wallets -> [yes : BOOLEAN, at : Int]] /\ now \in Int
      /\ \A w \in Wallets : heldCache[w].at <= now
      /\ \A w \in Wallets : heldCache[w].yes => Held(w, heldCache[w].at)
  BY DEF GateInv, GateTypeOK, CacheTypes, CachesOK, ClockOK
<1>2. CASE heldCache' = heldCache BY <1>1, <1>2
<1>3. ASSUME NEW u \in Wallets, heldCache' = [heldCache EXCEPT ![u] = [yes |-> FALSE, at |-> now]]
      PROVE  /\ heldCache' \in [Wallets -> [yes : BOOLEAN, at : Int]]
             /\ \A w \in Wallets : heldCache'[w].at <= now
             /\ \A w \in Wallets : heldCache'[w].yes => Held(w, heldCache'[w].at)
  <2>1. [yes |-> FALSE, at |-> now] \in [yes : BOOLEAN, at : Int] BY <1>1
  <2>2. ~heldCache'[u].yes /\ heldCache'[u].at = now BY <1>1, <1>3
  <2>3. \A w \in Wallets : w # u => heldCache'[w] = heldCache[w] BY <1>1, <1>3
  <2> QED BY <1>1, <1>3, <2>1, <2>2, <2>3
<1> QED BY <1>2, <1>3

LEMMA Unread ==
  ASSUME GateInv, UNCHANGED <<now, caches, ledger>>
  PROVE  CacheTypes' /\ CachesOK'
<1>1. CacheTypes /\ CachesOK BY DEF GateInv, GateTypeOK
<1>2. CacheTypes' BY <1>1 DEF CacheTypes, caches, Val, Ids
<1>3. CachesOK' BY <1>1 DEF CachesOK, Held, View, caches, ledger, Ids
<1> QED BY <1>2, <1>3

\* A turn of handler q: it and the caches change, and nothing else that the
\* windows are about.
Turn(q) ==
  /\ Goes(q) /\ MembersOK' /\ CacheTypes' /\ CachesOK'
  /\ UNCHANGED <<now, posts, sessions, nonces, ledger>>

LEMMA EnsHitTurn ==
  ASSUME GateInv, NEW q \in Calls, EnsHit(q)
  PROVE  Turn(q)
<1>1. calls[q].pc \in EnsSteps /\ EnsFresh /\ EnsAnswer(q, ensCache.v) /\ ensCache' = ensCache
      /\ UNCHANGED <<now, posts, sessions, nonces, ledger>>
  BY DEF EnsHit
<1>2. /\ ensCache \in [v : Val, at : Int] /\ now \in Int /\ View(ensCache.v, ensCache.at - RpcMax)
      /\ ensCache.at <= now
  BY DEF GateInv, GateTypeOK, CacheTypes, CachesOK, ClockOK
<1>3. ensCache.v \in Val /\ ensCache.at \in Int BY <1>2
<1> DEFINE t == ensCache.at - RpcMax
<1>4. t \in Int /\ t > now - (EnsTtl + RpcMax) BY <1>1, <1>2, <1>3, Numbers DEF EnsFresh
<1>5. View(ensCache.v, t) BY <1>2
<1> HIDE DEF t
<1>6. /\ Goes(q) /\ MembersOK'
      /\ \/ heldCache' = heldCache
         \/ /\ OfWallet(calls[q])
            /\ heldCache' = [heldCache EXCEPT ![calls[q].id[2]] = [yes |-> FALSE, at |-> now]]
  BY <1>1, <1>3, <1>4, <1>5, EnsAnswerGoes
<1>7. \/ heldCache' = heldCache
      \/ \E w \in Wallets : heldCache' = [heldCache EXCEPT ![w] = [yes |-> FALSE, at |-> now]]
  BY <1>6, WalletIds DEF OfWallet
<1>8. /\ heldCache' \in [Wallets -> [yes : BOOLEAN, at : Int]]
      /\ \A w \in Wallets : heldCache'[w].at <= now
      /\ \A w \in Wallets : heldCache'[w].yes => Held(w, heldCache'[w].at)
  BY <1>7, DenialStored
<1>9. CacheTypes' BY <1>1, <1>2, <1>8 DEF CacheTypes, Val, Ids
<1>10. CachesOK' BY <1>1, <1>2, <1>8 DEF CachesOK, Held, View, ledger, Ids
<1> QED BY <1>1, <1>6, <1>9, <1>10 DEF Turn

LEMMA EnsReadTurn ==
  ASSUME GateInv, NEW q \in Calls, EnsRead(q)
  PROVE  Turn(q)
<1> DEFINE c == calls[q]
<1>1. /\ c.pc \in EnsSteps /\ c.val.k = "ask" /\ UNCHANGED <<now, tables, caches, ledger>>
  BY DEF EnsRead
<1>2. PICK v \in {Record, Read("err")} : calls' = [calls EXCEPT ![q].val = v, ![q].since = now]
  BY DEF EnsRead
<1>3. /\ c \in Call /\ Timely(c) /\ Placed(c) /\ Told(c) /\ now \in Nat /\ calls \in [Calls -> Call]
      /\ MembersOK /\ LedgerTypes /\ LedgerOK /\ ClockOK
  BY DEF GateInv, GateTypeOK, CallOK, ClockOK
<1>4. v \in Val /\ v.k # "ask"
  <2>1. record.token \in BOOLEAN /\ record.bans \in SUBSET Ids BY <1>3 DEF LedgerTypes
  <2> QED BY <2>1 DEF Record, Read, Val
<1>5. View(v, now)
  <2>1. CASE v = Record
    <3>1. v.bans = record.bans /\ v.token = record.token BY <2>1 DEF Record
    <3>2. Never >= now /\ Never \in Int BY <1>3, Numbers
    <3> QED BY <1>3, <3>1, <3>2 DEF LedgerOK, View
  <2>2. CASE v = Read("err") BY <2>2 DEF Read, View
  <2> QED BY <2>1, <2>2
<1> DEFINE d == [c EXCEPT !.val = v, !.since = now]
<1>6. calls' = [calls EXCEPT ![q] = d] BY <1>2, <1>3
<1>7. /\ d \in Call /\ d.pc = c.pc /\ d.val = v /\ d.since = now /\ d.began = c.began
      /\ d.todo = c.todo /\ d.id = c.id /\ d.won = c.won
  BY <1>3, <1>4 DEF Call
<1> HIDE DEF d, c
<1>8. Timely(d) BY <1>3, <1>7, Numbers DEF Timely
<1>9. Placed(d) BY <1>3, <1>7 DEF Placed, Stands, OfWallet
<1>10. Told(d)
  <2>1. Asked(c) = now /\ Asked(d) = now BY <1>1, <1>4, <1>7 DEF Asked
  <2> QED BY <1>1, <1>3, <1>5, <1>7, <2>1 DEF Told, EnsSteps
<1>11. d.pc # "connect" BY <1>1, <1>7 DEF EnsSteps
<1>12. ~(d.won > c.won) BY <1>3, <1>7, Fields
<1>13. Goes(q) BY <1>6, <1>7, <1>8, <1>9, <1>10, <1>11, <1>12 DEF Goes, Fair, Lawful, CallOK, c
<1>14. MembersOK' BY <1>1, <1>3 DEF MembersOK, tables
<1> QED BY <1>1, <1>13, <1>14, Unread DEF Turn, tables

LEMMA EnsStoreTurn ==
  ASSUME GateInv, NEW q \in Calls, EnsStore(q)
  PROVE  Turn(q)
<1> DEFINE v == calls[q].val
           t == calls[q].since
<1>1. /\ calls[q].pc \in EnsSteps /\ v.k # "ask" /\ EnsAnswer(q, v)
      /\ ensCache' = IF v.k = "ok" THEN [v |-> v, at |-> now] ELSE ensCache
      /\ UNCHANGED <<now, posts, sessions, nonces, ledger>>
  BY DEF EnsStore
<1>2. /\ ensCache \in [v : Val, at : Int] /\ now \in Int /\ View(ensCache.v, ensCache.at - RpcMax)
      /\ ensCache.at <= now
      /\ calls[q] \in Call /\ Timely(calls[q]) /\ Told(calls[q]) /\ LedgerTypes
  BY DEF GateInv, GateTypeOK, CacheTypes, CachesOK, ClockOK, CallOK
<1>3. v \in Val /\ t \in Int BY <1>2, Fields
<1>4. View(v, t) /\ now - t <= RpcMax BY <1>1, <1>2 DEF Told, Timely
<1>5. t > now - (EnsTtl + RpcMax) BY <1>2, <1>3, <1>4, Numbers
<1> HIDE DEF v, t
<1>6. /\ Goes(q) /\ MembersOK'
      /\ \/ heldCache' = heldCache
         \/ /\ OfWallet(calls[q])
            /\ heldCache' = [heldCache EXCEPT ![calls[q].id[2]] = [yes |-> FALSE, at |-> now]]
  BY <1>1, <1>3, <1>4, <1>5, EnsAnswerGoes
<1>7. \/ heldCache' = heldCache
      \/ \E w \in Wallets : heldCache' = [heldCache EXCEPT ![w] = [yes |-> FALSE, at |-> now]]
  BY <1>6, WalletIds DEF OfWallet
<1>8. /\ heldCache' \in [Wallets -> [yes : BOOLEAN, at : Int]]
      /\ \A w \in Wallets : heldCache'[w].at <= now
      /\ \A w \in Wallets : heldCache'[w].yes => Held(w, heldCache'[w].at)
  BY <1>7, DenialStored
<1>9. ensCache' \in [v : Val, at : Int] /\ ensCache'.at <= now BY <1>1, <1>2, <1>3
<1>10. CacheTypes' BY <1>8, <1>9 DEF CacheTypes, Val, Ids
<1>11. View(ensCache'.v, ensCache'.at - RpcMax)
  <2>1. CASE v.k = "ok"
    <3>1. ensCache'.v = v /\ ensCache'.at = now BY <1>1, <2>1
    <3>2. now - RpcMax <= t /\ now - RpcMax \in Int BY <1>2, <1>3, <1>4, Numbers
    <3>3. /\ \A id \in Ids : id \notin v.bans => bannedAt[id] >= t
          /\ v.token => unnamedAt >= t
      BY <1>4, <2>1 DEF View
    <3>4. unnamedAt \in Int /\ \A id \in Ids : bannedAt[id] \in Int BY <1>2 DEF LedgerTypes
    <3>5. /\ \A id \in Ids : id \notin v.bans => bannedAt[id] >= now - RpcMax
          /\ v.token => unnamedAt >= now - RpcMax
      BY <1>3, <3>2, <3>3, <3>4
    <3> QED BY <3>1, <3>5 DEF View
  <2>2. CASE v.k # "ok" BY <1>1, <1>2, <2>2
  <2> QED BY <2>1, <2>2
<1>12. CachesOK' BY <1>1, <1>8, <1>9, <1>11 DEF CachesOK, Held, View, ledger, Ids
<1> QED BY <1>1, <1>6, <1>10, <1>12 DEF Turn

LEMMA BalanceReadTurn ==
  ASSUME GateInv, NEW q \in Calls, BalanceRead(q)
  PROVE  Turn(q)
<1> DEFINE c == calls[q]
<1>1. /\ c.pc = "balance" /\ c.val.k = "ask" /\ UNCHANGED <<now, tables, caches, ledger>>
  BY DEF BalanceRead
<1>2. PICK k \in {IF c.id[2] \in holders THEN "yes" ELSE "no", "err"} :
        calls' = [calls EXCEPT ![q].val = Read(k), ![q].since = now]
  BY DEF BalanceRead
<1>3. /\ c \in Call /\ Timely(c) /\ Placed(c) /\ Told(c) /\ now \in Nat /\ calls \in [Calls -> Call]
      /\ MembersOK /\ LedgerTypes /\ LedgerOK /\ ClockOK
  BY DEF GateInv, GateTypeOK, CallOK, ClockOK
<1>4. Read(k) \in Val /\ Read(k).k = k /\ k # "ask" BY <1>2 DEF Read, Val
<1>5. PICK w \in Wallets : c.id = ByWallet(w) BY <1>1, <1>3 DEF Placed, OfWallet
<1>6. ASSUME k = "yes" PROVE lostAt[c.id[2]] >= now
  <2>1. w \in holders BY <1>2, <1>5, <1>6, WalletIds
  <2>2. Never >= now BY <1>3, Numbers
  <2> QED BY <1>3, <1>5, <2>1, <2>2, WalletIds DEF LedgerOK
<1> DEFINE d == [c EXCEPT !.val = Read(k), !.since = now]
<1>7. calls' = [calls EXCEPT ![q] = d] BY <1>2, <1>3
<1>8. /\ d \in Call /\ d.pc = c.pc /\ d.val = Read(k) /\ d.since = now /\ d.began = c.began
      /\ d.todo = c.todo /\ d.id = c.id /\ d.won = c.won
  BY <1>3, <1>4 DEF Call
<1> HIDE DEF d, c
<1>9. Timely(d) BY <1>3, <1>8, Numbers DEF Timely
<1>10. Placed(d) BY <1>3, <1>8 DEF Placed, Stands, OfWallet
<1>11. Told(d)
  <2>1. Asked(c) = now /\ Asked(d) = now BY <1>1, <1>4, <1>8 DEF Asked
  <2> QED BY <1>1, <1>3, <1>4, <1>6, <1>8, <2>1 DEF Told, EnsSteps
<1>12. d.pc # "connect" BY <1>1, <1>8
<1>13. ~(d.won > c.won) BY <1>3, <1>8, Fields
<1>14. Goes(q) BY <1>7, <1>8, <1>9, <1>10, <1>11, <1>12, <1>13 DEF Goes, Fair, Lawful, CallOK, c
<1>15. MembersOK' BY <1>1, <1>3 DEF MembersOK, tables
<1> QED BY <1>1, <1>14, <1>15, Unread DEF Turn, tables

LEMMA BalanceStoreTurn ==
  ASSUME GateInv, NEW q \in Calls, BalanceStore(q)
  PROVE  Turn(q)
<1> DEFINE c == calls[q]
           yes == c.val.k = "yes"
<1>1. /\ c.pc = "balance" /\ c.val.k # "ask" /\ ensCache' = ensCache
      /\ UNCHANGED <<now, posts, sessions, nonces, ledger>>
      /\ heldCache' = IF c.op = "unlock" /\ c.val.k # "err"
                      THEN [heldCache EXCEPT ![c.id[2]] = [yes |-> yes, at |-> now]]
                      ELSE heldCache
      /\ IF yes THEN Admit(q, c, "ens", c.id)
         ELSE calls' = [calls EXCEPT ![q] = Deny(c)] /\ UNCHANGED members
  BY DEF BalanceStore
<1>2. /\ c \in Call /\ CallOK(c) /\ Timely(c) /\ Placed(c) /\ Told(c) /\ now \in Int
      /\ calls \in [Calls -> Call] /\ MembersOK /\ LedgerTypes /\ CacheTypes /\ CachesOK
      /\ ensCache.at <= now
  BY DEF GateInv, GateTypeOK, CallOK, ClockOK, CachesOK
<1>3. PICK w \in Wallets : c.id = ByWallet(w) BY <1>1, <1>2 DEF Placed, OfWallet
<1>4. c.id[2] = w /\ c.id \in Ids BY <1>3, WalletIds
<1>5. c.todo # <<>> /\ Head(c.todo).check = "nft" BY <1>1, <1>2 DEF Placed, Stands
<1>6. /\ c.since \in Int /\ c.began \in Int /\ lostAt[w] \in Int /\ unnamedAt \in Int
      /\ now - c.since <= RpcMax /\ c.since <= now /\ c.began <= now
  BY <1>1, <1>2, Fields DEF LedgerTypes, Timely
<1>7. ASSUME yes PROVE lostAt[w] >= c.since BY <1>1, <1>2, <1>4, <1>7 DEF Told
<1>8. unnamedAt > c.since - (EnsTtl + RpcMax) BY <1>1, <1>2 DEF Told, Asked
<1>9. CASE yes
  <2> DEFINE b == [c EXCEPT !.id = c.id]
  <2>1. Admit(q, c, "ens", c.id) BY <1>1, <1>9
  <2>2. b \in Call /\ b.id = c.id /\ b.todo = c.todo BY <1>2, <1>4, Named
  <2>3. /\ lostAt[w] > now - (YesTtl + RpcMax)
        /\ unnamedAt > now - (EnsTtl + YesTtl + 2 * RpcMax)
    BY <1>2, <1>6, <1>7, <1>8, <1>9, Numbers
  <2>4. MayAsk(b, "banned")
    <3> HIDE DEF b
    <3> QED BY <1>3, <1>4, <1>5, <2>2, <2>3 DEF MayAsk, Stands, OfWallet
  <2>5. MembersOK' BY <1>2, <1>4, <2>1, AdmitKeeps
  <2>6. Goes(q) BY <1>2, <1>4, <1>5, <1>6, <2>1, <2>4, AdmitFair
  <2>7. Held(w, now) BY <1>2, <1>6, <1>7, <1>8, <1>9, Numbers DEF Held
  <2>8. /\ heldCache' \in [Wallets -> [yes : BOOLEAN, at : Int]]
        /\ \A u \in Wallets : heldCache'[u].at <= now
        /\ \A u \in Wallets : heldCache'[u].yes => Held(u, heldCache'[u].at)
    <3>1. /\ heldCache \in [Wallets -> [yes : BOOLEAN, at : Int]]
          /\ \A u \in Wallets : heldCache[u].at <= now
          /\ \A u \in Wallets : heldCache[u].yes => Held(u, heldCache[u].at)
      BY <1>2 DEF CacheTypes, CachesOK
    <3>2. CASE heldCache' = heldCache BY <3>1, <3>2
    <3>3. CASE heldCache' = [heldCache EXCEPT ![w] = [yes |-> TRUE, at |-> now]]
      <4>1. [yes |-> TRUE, at |-> now] \in [yes : BOOLEAN, at : Int] BY <1>2
      <4>2. heldCache'[w].at = now BY <3>1, <3>3
      <4>3. \A u \in Wallets : u # w => heldCache'[u] = heldCache[u] BY <3>1, <3>3
      <4>4. heldCache' \in [Wallets -> [yes : BOOLEAN, at : Int]] BY <3>1, <3>3, <4>1
      <4> QED BY <2>7, <3>1, <4>2, <4>3, <4>4
    <3>4. yes = TRUE BY <1>9
    <3> HIDE DEF yes
    <3> QED BY <1>1, <1>4, <3>2, <3>3, <3>4
  <2>9. CacheTypes' BY <1>1, <1>2, <2>8 DEF CacheTypes, Val, Ids
  <2>10. CachesOK' BY <1>1, <1>2, <2>8 DEF CachesOK, Held, View, ledger, Ids
  <2> QED BY <1>1, <2>5, <2>6, <2>9, <2>10 DEF Turn
<1>10. CASE ~yes
  <2>1. calls' = [calls EXCEPT ![q] = Deny(c)] /\ members' = members BY <1>1, <1>10
  <2>2. MembersOK' BY <1>2, <2>1 DEF MembersOK
  <2>3. Fair(c, Deny(c)) BY <1>2, <1>5, DenyFair
  <2>4. Goes(q) BY <2>1, <2>3 DEF Goes, Fair, Lawful
  <2>5. yes = FALSE BY <1>10
  <2>6. heldCache' = heldCache \/ heldCache' = [heldCache EXCEPT ![w] = [yes |-> FALSE, at |-> now]]
    <3> HIDE DEF yes
    <3> QED BY <1>1, <1>4, <2>5
  <2>7. /\ heldCache' \in [Wallets -> [yes : BOOLEAN, at : Int]]
        /\ \A u \in Wallets : heldCache'[u].at <= now
        /\ \A u \in Wallets : heldCache'[u].yes => Held(u, heldCache'[u].at)
    BY <2>6, DenialStored
  <2>8. CacheTypes' BY <1>1, <1>2, <2>7 DEF CacheTypes, Val, Ids
  <2>9. CachesOK' BY <1>1, <1>2, <2>7 DEF CachesOK, Held, View, ledger, Ids
  <2> QED BY <1>1, <2>2, <2>4, <2>8, <2>9 DEF Turn
<1> QED BY <1>9, <1>10

-----------------------------------------------------------------------------
(***************************************************************************)
(* Nonces, proofs and sessions.                                            *)
(***************************************************************************)

\* One node that lies is not two that agree.
LEMMA ForgeriesFail ==
  ASSUME NEW genuine \in BOOLEAN, WorldSaysYes(genuine)
  PROVE  genuine = TRUE
<1>1. PICK v \in NodesSay(genuine) : Confirmed(v) BY DEF WorldSaysYes
<1>2. SUFFICES ASSUME genuine = FALSE PROVE FALSE OBVIOUS
<1>3. PICK liar \in 1..3 : \A i \in 1..3 \ {liar} : v[i] \in {"unknown", "invalid"}
  BY <1>1, <1>2 DEF NodesSay
<1>4. DOMAIN v = 1..3 BY <1>1 DEF NodesSay
<1> DEFINE yes == {i \in DOMAIN v : v[i] = "valid"}
<1>5. Cardinality(yes) >= 2 BY <1>1 DEF Confirmed
<1>6. yes \subseteq {liar} BY <1>3, <1>4
<1>7. IsFiniteSet({liar}) /\ Cardinality({liar}) = 1 BY FS_Singleton
<1> HIDE DEF yes
<1>8. Cardinality(yes) <= 1 /\ Cardinality(yes) \in Nat BY <1>6, <1>7, FS_Subset, FS_CardinalityType
<1> QED BY <1>5, <1>8

LEMMA NonceFields ==
  ASSUME NonceOK, NEW n \in Nonces
  PROVE  /\ nonces[n].kind \in {"none", "world", "wallet", "post"} /\ nonces[n].used \in BOOLEAN
         /\ nonces[n].wins \in Nat /\ nonces[n].forged \in BOOLEAN /\ nonces[n].at \in Nat
         /\ nonces[n].by \in Humans \cup {Nobody}
BY DEF NonceOK

\* A nonce that was not used belongs to no handler, and has won nothing.
LEMMA UnusedIsFree ==
  ASSUME NonceOK, OneTry, NEW n \in Nonces, ~nonces[n].used
  PROVE  /\ nonces[n].wins = 0
         /\ \A p \in Calls : calls[p].pc = "connect" => calls[p].key # n
BY DEF OneTry

LEMMA BurnKeeps ==
  ASSUME NonceOK, OneTry, NEW n \in Nonces, NEW kind \in {"world", "wallet", "post"}, Usable(n, kind), Burn(n)
  PROVE  /\ NonceOK'
         /\ nonces'[n].used = TRUE /\ nonces'[n].wins = 0
         /\ \A m \in Nonces : /\ nonces'[m].wins = nonces[m].wins
                              /\ nonces'[m].used => nonces'[m].kind # "none"
                              /\ nonces[m].used => nonces'[m].used
                              /\ nonces'[m].forged = nonces[m].forged
<1>1. /\ nonces[n].wins = 0 /\ nonces[n].kind # "none" BY UnusedIsFree DEF Usable
<1> DEFINE x == [nonces[n] EXCEPT !.used = TRUE]
<1>2. nonces' = [nonces EXCEPT ![n] = x] BY DEF Burn
<1>3. /\ x \in [kind : {"none", "world", "wallet", "post"}, by : Humans \cup {Nobody},
                at : Nat, used : BOOLEAN, wins : Nat, forged : BOOLEAN]
      /\ x.used = TRUE /\ x.wins = nonces[n].wins /\ x.kind = nonces[n].kind
      /\ x.forged = nonces[n].forged /\ x.by = nonces[n].by
  BY DEF NonceOK
<1> HIDE DEF x
<1>4. /\ nonces'[n] = x /\ \A m \in Nonces : m # n => nonces'[m] = nonces[m] BY <1>2 DEF NonceOK
<1>5. NonceOK' BY <1>2, <1>3 DEF NonceOK
<1>6. \A m \in Nonces : nonces[m].used => nonces[m].kind # "none" BY DEF OneTry
<1> QED BY <1>1, <1>3, <1>4, <1>5, <1>6

\* A handler that does not connect keeps the nonces apart.
LEMMA OneTryKept ==
  ASSUME GateInv, NEW q \in Calls, Goes(q), NonceOK',
         \A m \in Nonces : /\ nonces'[m].wins = nonces[m].wins
                           /\ nonces'[m].used => nonces'[m].kind # "none"
                           /\ nonces[m].used => nonces'[m].used
                           /\ nonces'[m].forged = nonces[m].forged
  PROVE  OneTry'
<1>1. calls \in [Calls -> Call] /\ OneTry /\ NonceOK BY DEF GateInv, GateTypeOK
<1>2. PICK d \in Call : calls' = [calls EXCEPT ![q] = d] /\ d.pc # "connect" BY DEF Goes, Fair
<1>3. \A p \in Calls : calls'[p].pc = "connect" => p # q /\ calls'[p] = calls[p] BY <1>1, <1>2
<1>4. \A n \in Nonces : /\ nonces'[n].used => nonces'[n].kind # "none"
                        /\ nonces'[n].wins # 0 => nonces'[n].used
                        /\ nonces'[n].wins <= 1 /\ ~nonces'[n].forged
  <2>1. \A n \in Nonces : /\ nonces[n].wins # 0 => nonces[n].used
                          /\ nonces[n].wins <= 1 /\ ~nonces[n].forged
    BY <1>1 DEF OneTry
  <2> QED BY <2>1
<1>5. ASSUME NEW p \in Calls, calls'[p].pc = "connect"
      PROVE  /\ calls'[p].key \in Nonces
             /\ nonces'[calls'[p].key].used /\ nonces'[calls'[p].key].wins = 0
             /\ calls'[p].id \in Ids /\ calls'[p].val.k \in {"yes", "no"}
             /\ \A r \in Calls : calls'[r].pc = "connect" /\ calls'[r].key = calls'[p].key => r = p
  <2>1. calls'[p] = calls[p] BY <1>3, <1>5
  <2>2. /\ calls[p].key \in Nonces
        /\ nonces[calls[p].key].used /\ nonces[calls[p].key].wins = 0
        /\ calls[p].id \in Ids /\ calls[p].val.k \in {"yes", "no"}
        /\ \A r \in Calls : calls[r].pc = "connect" /\ calls[r].key = calls[p].key => r = p
    BY <1>1, <1>5, <2>1 DEF OneTry
  <2> QED BY <1>3, <2>1, <2>2
<1> QED BY <1>4, <1>5 DEF OneTry, Ids

LEMMA NoncesAlone ==
  ASSUME GateInv, NEW q \in Calls, Goes(q), nonces' = nonces
  PROVE  NonceOK' /\ OneTry'
<1>0. NonceOK BY DEF GateInv, GateTypeOK
<1>1. NonceOK' BY <1>0 DEF NonceOK
<1>2. \A m \in Nonces : nonces[m].used => nonces[m].kind # "none" BY DEF GateInv, OneTry
<1> QED BY <1>1, <1>2, OneTryKept

-----------------------------------------------------------------------------
(* The older posts.                                                        *)

LEMMA ReleasedFields ==
  ASSUME GateTypeOK, NEW r \in Refs, posts[r].kind = "deposit", NEW id \in Ids \cup {Nobody}, NEW k \in Key
  PROVE  /\ Released(r, id, k) \in Call /\ Released(r, id, k).todo = posts[r].items
         /\ Released(r, id, k).todo # <<>> /\ Released(r, id, k).id = id
         /\ Released(r, id, k).since = 0 /\ Released(r, id, k).won = 0
         /\ Released(r, id, k).pc = "idle"
<1>1. posts[r].items \in Seq(Item) /\ posts[r].items # <<>> BY DEF GateTypeOK, StoredOK
<1> QED BY <1>1, IdleFields DEF Released, Call

LEMMA ReleaseAfterGoes ==
  ASSUME GateTypeOK, NEW q \in Calls, NEW r \in Refs, ReleaseAfter(q, r)
  PROVE  Goes(q)
<1> DEFINE d == [Released(r, Nobody, Nobody) EXCEPT !.pc = "item", !.began = now]
<1>1. calls' = [calls EXCEPT ![q] = d] BY DEF ReleaseAfter
<1>2. posts[r].kind = "deposit" BY DEF ReleaseAfter, Releasing
<1>3. /\ Released(r, Nobody, Nobody) \in Call /\ Released(r, Nobody, Nobody).since = 0
      /\ Released(r, Nobody, Nobody).won = 0
  BY <1>2, ReleasedFields DEF Key
<1>4. now \in Nat /\ calls[q] \in Call BY DEF GateTypeOK, ClockOK
<1>5. d \in Call /\ d.pc = "item" /\ d.since = 0 /\ d.began = now /\ d.won = 0
  BY <1>3, <1>4 DEF Call, CallStages
<1> HIDE DEF d
<1>6. CallOK(d) BY <1>4, <1>5, ItemOK
<1>7. ~(d.won > calls[q].won) BY <1>4, <1>5, Fields
<1> QED BY <1>1, <1>5, <1>6, <1>7 DEF Goes, Fair, Lawful

LEMMA ReleaseHumanGoes ==
  ASSUME GateInv, NEW q \in Calls, NEW r \in Refs, NEW n \in Nonces, NEW k \in Keys,
         NEW genuine \in BOOLEAN, ReleaseHuman(q, r, n, k, genuine)
  PROVE  Goes(q) /\ NonceOK' /\ OneTry'
<1> DEFINE id == BySpace(nonces[n].by)
           e == Released(r, id, k)
           v == Read(IF genuine THEN "yes" ELSE "no")
           d == [[e EXCEPT !.pc = "prove"] EXCEPT !.since = now, !.began = now, !.val = v]
<1>0. GateTypeOK /\ NonceOK /\ OneTry BY DEF GateInv, GateTypeOK
<1>1. /\ calls' = [calls EXCEPT ![q] = d] /\ posts[r].kind = "deposit"
      /\ Head(posts[r].items).check = "human" /\ Usable(n, "post") /\ Burn(n)
  BY DEF ReleaseHuman, Releasing, Proving
<1>2. k \in Key BY DEF Key
<1>3. v \in Val BY DEF Read, Val
<1>4. now \in Nat /\ calls[q] \in Call BY <1>0 DEF GateTypeOK, ClockOK
<1>6. id \in Ids
  <2>1. nonces[n].by \in Humans BY <1>0, <1>1 DEF NonceOK, Usable
  <2> QED BY <2>1 DEF BySpace, Ids
<1> HIDE DEF id
<1>7. /\ e \in Call /\ e.todo = posts[r].items /\ e.todo # <<>> /\ e.id = id /\ e.won = 0
  BY <1>0, <1>1, <1>2, <1>6, ReleasedFields
<1> HIDE DEF e, v
<1>8. /\ d \in Call /\ d.pc = "prove" /\ d.since = now /\ d.began = now /\ d.won = 0
      /\ d.todo = e.todo /\ d.id = id
  BY <1>3, <1>4, <1>7 DEF Call, CallStages
<1> HIDE DEF d
<1>9. CallOK(d)
  BY <1>1, <1>4, <1>6, <1>7, <1>8 DEF CallOK, Timely, Placed, Told, EnsSteps, Stands
<1>10. ~(d.won > calls[q].won) BY <1>4, <1>8, Fields
<1>11. Goes(q) BY <1>1, <1>8, <1>9, <1>10 DEF Goes, Fair, Lawful
<1> QED BY <1>0, <1>1, <1>11, BurnKeeps, OneTryKept

LEMMA ReleaseNftGoes ==
  ASSUME GateInv, NEW q \in Calls, NEW r \in Refs, NEW n \in Nonces, NEW w \in Wallets, NEW k \in Keys,
         ReleaseNft(q, r, n, w, k)
  PROVE  Goes(q) /\ NonceOK' /\ OneTry'
<1> DEFINE e == Released(r, ByWallet(w), k)
           b == [e EXCEPT !.began = now]
<1>1. GateTypeOK /\ NonceOK /\ OneTry BY DEF GateInv, GateTypeOK
<1>2. /\ calls' = [calls EXCEPT ![q] = Ask(b, "collection")] /\ posts[r].kind = "deposit"
      /\ Head(posts[r].items).check = "nft" /\ Usable(n, "post") /\ Burn(n)
  BY DEF ReleaseNft, Releasing
<1>3. now \in Nat /\ calls[q] \in Call BY <1>1 DEF GateTypeOK, ClockOK
<1>4. /\ e \in Call /\ e.todo = posts[r].items /\ e.todo # <<>> /\ e.id = ByWallet(w)
      /\ e.since = 0 /\ e.won = 0
  BY <1>1, <1>2, WalletIds, ReleasedFields DEF Key
<1> HIDE DEF e
<1>5. /\ b \in Call /\ b.since = 0 /\ b.began = now /\ b.won = 0 /\ b.todo = e.todo
      /\ b.id = ByWallet(w)
  BY <1>3, <1>4 DEF Call
<1> HIDE DEF b
<1>6. MayAsk(b, "collection") BY <1>2, <1>4, <1>5 DEF MayAsk, Stands, OfWallet
<1>7. Fair(b, Ask(b, "collection")) BY <1>3, <1>5, <1>6, AskFair
<1>8. Ask(b, "collection").won = 0 BY <1>5, AskFields DEF CallStages, EnsSteps
<1>9. ~(Ask(b, "collection").won > calls[q].won) BY <1>3, <1>8, Fields
<1>10. Goes(q) BY <1>2, <1>7, <1>9 DEF Goes, Fair, Lawful
<1> QED BY <1>1, <1>2, <1>10, BurnKeeps, OneTryKept

LEMMA ProvedGoes ==
  ASSUME GateInv, NEW q \in Calls, Proved(q)
  PROVE  Goes(q) /\ MembersOK'
<1> DEFINE c == calls[q]
           space == Head(c.todo).space
<1>1. c \in Call /\ CallOK(c) /\ MembersOK /\ calls \in [Calls -> Call] /\ c.pc = "prove"
  BY DEF GateInv, GateTypeOK, Proved
<1>2. c.todo # <<>> /\ Head(c.todo).check = "human" /\ c.id \in Ids
  BY <1>1 DEF CallOK, Placed, Stands
<1>3. space \in {"none", "gate", "ens"} BY <1>1, <1>2, Fields DEF Item
<1>4. c.since <= now /\ c.began <= now BY <1>1 DEF CallOK, Timely
<1>5. CASE calls' = [calls EXCEPT ![q] = Deny(c)] /\ members' = members
  <2>1. MembersOK' BY <1>1, <1>5 DEF MembersOK
  <2> QED BY <1>1, <1>2, <1>5, <2>1, DenyFair DEF Goes, Fair, Lawful
<1>6. CASE space # "none" /\ Admit(q, c, space, c.id)
  <2> DEFINE b == [c EXCEPT !.id = c.id]
  <2>1. b \in Call /\ b.id = c.id /\ b.todo = c.todo BY <1>1, <1>2, Named
  <2>2. MayAsk(b, "banned")
    <3> HIDE DEF b
    <3> QED BY <1>2, <2>1 DEF MayAsk, Stands
  <2>3. space \in {"gate", "ens"} BY <1>3, <1>6
  <2>4. space = "gate" => Head(c.todo).space # "ens" /\ Head(c.todo).check # "nft" BY <1>2
  <2> HIDE DEF space
  <2>5. MembersOK' BY <1>1, <1>2, <1>6, <2>3, AdmitKeeps
  <2>6. Goes(q) BY <1>1, <1>2, <1>4, <1>6, <2>2, <2>3, <2>4, AdmitFair
  <2> QED BY <2>5, <2>6
<1>7. CASE space = "none" /\ calls' = [calls EXCEPT ![q] = Win(c)] /\ members' = members
  <2>1. MembersOK' BY <1>1, <1>7 DEF MembersOK
  <2>2. Justified(c, Win(c)) BY <1>2, <1>7 DEF Justified
  <2> QED BY <1>1, <1>2, <1>7, <2>1, <2>2, WinFair DEF Goes, Fair, Lawful
<1> QED BY <1>5, <1>6, <1>7 DEF Proved

LEMMA AttestGoes ==
  ASSUME GateInv, NEW q \in Calls, NEW id \in Ids, Attest(q, id)
  PROVE  Goes(q)
<1> DEFINE d == [Idle EXCEPT !.pc = "attest", !.id = id, !.key = members["ens"][id].key, !.began = now]
<1>1. calls' = [calls EXCEPT ![q] = d] BY DEF Attest
<1>2. now \in Nat /\ calls[q] \in Call /\ members["ens"][id].key \in Key
  BY DEF GateInv, GateTypeOK, ClockOK, MembersOK
<1>3. Idle.val.k = "ask" BY DEF Idle
<1>4. /\ d \in Call /\ d.pc = "attest" /\ d.since = 0 /\ d.began = now /\ d.won = 0
      /\ d.val = Idle.val
  BY <1>2, IdleFields DEF Call, CallStages, EnsSteps
<1> HIDE DEF d
<1>5. CallOK(d) BY <1>2, <1>3, <1>4 DEF CallOK, Timely, Placed, Told, View
<1>6. ~(d.won > calls[q].won) BY <1>2, <1>4, Fields
<1> QED BY <1>1, <1>4, <1>5, <1>6 DEF Goes, Fair, Lawful

-----------------------------------------------------------------------------
(* Connecting.                                                             *)

\* The handler that verifies a proof holds the nonce alone.
LEMMA ProvingActs ==
  ASSUME GateInv, NEW q \in Calls, NEW n \in Nonces, NEW id \in Ids, NEW t \in Tokens \cup {Nobody},
         NEW genuine \in BOOLEAN, NEW kind \in {"world", "wallet"}, Usable(n, kind), Burn(n),
         Proving(q, [Idle EXCEPT !.pc = "connect", !.id = id, !.token = t, !.key = n], genuine)
  PROVE  Acts(q) /\ NonceOK' /\ OneTry'
<1> DEFINE v == Read(IF genuine THEN "yes" ELSE "no")
           e == [Idle EXCEPT !.pc = "connect", !.id = id, !.token = t, !.key = n]
           d == [e EXCEPT !.since = now, !.began = now, !.val = v]
<1>1. /\ calls \in [Calls -> Call] /\ NonceOK /\ OneTry /\ now \in Nat
  BY DEF GateInv, GateTypeOK, ClockOK
<1>2. calls' = [calls EXCEPT ![q] = d] BY DEF Proving
<1>3. v \in Val /\ v.k \in {"yes", "no"} BY DEF Read, Val
<1>4. n \in Key BY DEF Key
<1>5. e \in Call /\ e.pc = "connect" /\ e.id = id /\ e.key = n /\ e.won = 0
  BY <1>4, IdleFields DEF Call, CallStages
<1> HIDE DEF v, e
<1>6. /\ d \in Call /\ d.pc = "connect" /\ d.id = id /\ d.key = n /\ d.won = 0 /\ d.val = v
      /\ d.since = now /\ d.began = now
  BY <1>1, <1>3, <1>5 DEF Call
<1> HIDE DEF d
<1>7. CallOK(d) BY <1>1, <1>6 DEF CallOK, Timely, Placed, Told, EnsSteps
<1>8. ~(d.won > calls[q].won) BY <1>1, <1>6, Fields
<1>9. Acts(q) BY <1>2, <1>6, <1>7, <1>8 DEF Acts, Lawful
<1>10. /\ NonceOK' /\ nonces'[n].used = TRUE /\ nonces'[n].wins = 0
       /\ \A m \in Nonces : /\ nonces'[m].wins = nonces[m].wins
                            /\ nonces'[m].used => nonces'[m].kind # "none"
                            /\ nonces[m].used => nonces'[m].used
                            /\ nonces'[m].forged = nonces[m].forged
  BY <1>1, BurnKeeps
<1>11. \A p \in Calls : calls[p].pc = "connect" => calls[p].key # n
  BY <1>1, UnusedIsFree DEF Usable
<1>12. calls'[q] = d /\ \A p \in Calls : p # q => calls'[p] = calls[p] BY <1>1, <1>2
<1>13. \A m \in Nonces : /\ nonces'[m].used => nonces'[m].kind # "none"
                         /\ nonces'[m].wins # 0 => nonces'[m].used
                         /\ nonces'[m].wins <= 1 /\ ~nonces'[m].forged
  <2>1. \A m \in Nonces : /\ nonces[m].wins # 0 => nonces[m].used
                          /\ nonces[m].wins <= 1 /\ ~nonces[m].forged
    BY <1>1 DEF OneTry
  <2> QED BY <1>10, <2>1
<1>14. ASSUME NEW p \in Calls, calls'[p].pc = "connect"
       PROVE  /\ calls'[p].key \in Nonces
              /\ nonces'[calls'[p].key].used /\ nonces'[calls'[p].key].wins = 0
              /\ calls'[p].id \in Ids /\ calls'[p].val.k \in {"yes", "no"}
              /\ \A r \in Calls : calls'[r].pc = "connect" /\ calls'[r].key = calls'[p].key => r = p
  <2>1. CASE p = q BY <1>3, <1>6, <1>10, <1>11, <1>12, <2>1
  <2>2. CASE p # q
    <3>1. calls'[p] = calls[p] BY <1>12, <2>2
    <3>2. /\ calls[p].key \in Nonces
          /\ nonces[calls[p].key].used /\ nonces[calls[p].key].wins = 0
          /\ calls[p].id \in Ids /\ calls[p].val.k \in {"yes", "no"}
          /\ \A r \in Calls : calls[r].pc = "connect" /\ calls[r].key = calls[p].key => r = p
      BY <1>1, <1>14, <3>1 DEF OneTry
    <3>3. calls[p].key # n BY <1>11, <1>14, <3>1
    <3> QED BY <1>6, <1>10, <1>12, <3>1, <3>2, <3>3
  <2> QED BY <2>1, <2>2
<1> QED BY <1>9, <1>10, <1>13, <1>14 DEF OneTry, Ids

\* What a grant adds is merged into claims that are still good.
LEMMA GrantTypes ==
  ASSUME GateTypeOK, NEW t, NEW add \in ClaimSet, Grant(t, add)
  PROVE  sessions' \in [Tokens -> [claims : ClaimSet, exp : Int]]
<1>1. PICK u \in Tokens : sessions' = [sessions EXCEPT ![u] =
         [claims |-> [poh |-> IF add.poh # Nobody THEN add.poh ELSE Claims(u).poh,
                      wallets |-> Claims(u).wallets \cup add.wallets],
          exp |-> now + SessionTtl]]
  BY DEF Grant
<1>2. Claims(u) \in ClaimSet BY ClaimsType DEF GateTypeOK
<1>3. now + SessionTtl \in Int BY Numbers DEF GateTypeOK, ClockOK
<1> DEFINE new == [poh |-> IF add.poh # Nobody THEN add.poh ELSE Claims(u).poh,
                   wallets |-> Claims(u).wallets \cup add.wallets]
<1>4. new \in ClaimSet BY <1>2 DEF ClaimSet
<1> HIDE DEF new
<1>5. sessions' = [sessions EXCEPT ![u] = [claims |-> new, exp |-> now + SessionTtl]] BY <1>1 DEF new
<1> QED BY <1>3, <1>4, <1>5 DEF GateTypeOK, StoredOK

LEMMA Added ==
  ASSUME NEW id \in Ids
  PROVE  (IF id[1] = "wallet" THEN [NoClaims EXCEPT !.wallets = {id[2]}]
          ELSE [NoClaims EXCEPT !.poh = id[2]]) \in ClaimSet
BY DEF Ids, NoClaims, ClaimSet

LEMMA ConnectedKeeps ==
  ASSUME GateInv, NEW q \in Calls, Connected(q)
  PROVE  Goes(q) /\ StoredOK' /\ NonceOK' /\ OneTry'
<1> DEFINE c == calls[q]
           genuine == c.val.k = "yes"
<1>1. /\ calls \in [Calls -> Call] /\ NonceOK /\ OneTry /\ StoredOK /\ GateTypeOK /\ c \in Call
      /\ c.pc = "connect" /\ calls' = [calls EXCEPT ![q] = Idle] /\ posts' = posts
  BY DEF GateInv, GateTypeOK, Connected
<1>2. Goes(q)
  <2>1. Fair(c, Idle) BY <1>1, IdleFair DEF GateTypeOK
  <2> QED BY <1>1, <2>1, IdleFields DEF Goes
<1>3. CASE UNCHANGED <<sessions, nonces>>
  <2>1. StoredOK' BY <1>1, <1>3 DEF StoredOK
  <2> QED BY <1>2, <1>3, <2>1, NoncesAlone
<1>4. CASE /\ IF c.id[1] = "wallet" THEN genuine ELSE WorldSaysYes(genuine)
           /\ Grant(c.token, IF c.id[1] = "wallet" THEN [NoClaims EXCEPT !.wallets = {c.id[2]}]
                             ELSE [NoClaims EXCEPT !.poh = c.id[2]])
           /\ nonces' = [nonces EXCEPT ![c.key].wins = @ + 1, ![c.key].forged = ~genuine]
  <2>1. /\ c.key \in Nonces /\ nonces[c.key].used /\ nonces[c.key].wins = 0 /\ c.id \in Ids
        /\ \A p \in Calls : calls[p].pc = "connect" /\ calls[p].key = c.key => p = q
    BY <1>1 DEF OneTry
  <2>2. genuine = TRUE
    <3>1. genuine \in BOOLEAN OBVIOUS
    <3> HIDE DEF genuine
    <3> QED BY <1>4, <3>1, ForgeriesFail
  <2> DEFINE x == [nonces[c.key] EXCEPT !.wins = 1, !.forged = FALSE]
  <2>3. nonces' = [nonces EXCEPT ![c.key] = x]
    <3>1. nonces[c.key].wins + 1 = 1 BY <2>1
    <3>2. (~genuine) = FALSE BY <2>2
    <3> HIDE DEF genuine
    <3> QED BY <1>1, <1>4, <2>1, <3>1, <3>2 DEF NonceOK
  <2>4. /\ x \in [kind : {"none", "world", "wallet", "post"}, by : Humans \cup {Nobody},
                  at : Nat, used : BOOLEAN, wins : Nat, forged : BOOLEAN]
        /\ x.used /\ x.kind = nonces[c.key].kind /\ x.wins = 1
        /\ ~x.forged /\ x.by = nonces[c.key].by
    BY <1>1, <2>1 DEF NonceOK
  <2> HIDE DEF x
  <2>5. nonces'[c.key] = x /\ \A m \in Nonces : m # c.key => nonces'[m] = nonces[m]
    BY <1>1, <2>1, <2>3 DEF NonceOK
  <2>6. NonceOK' BY <1>1, <2>3, <2>4, <2>5 DEF NonceOK
  <2>7. StoredOK'
    <3> DEFINE add == IF c.id[1] = "wallet" THEN [NoClaims EXCEPT !.wallets = {c.id[2]}]
                      ELSE [NoClaims EXCEPT !.poh = c.id[2]]
    <3>1. add \in ClaimSet BY <2>1, Added
    <3>2. Grant(c.token, add) BY <1>4
    <3> HIDE DEF add
    <3>3. sessions' \in [Tokens -> [claims : ClaimSet, exp : Int]] BY <1>1, <3>1, <3>2, GrantTypes
    <3> QED BY <1>1, <3>3 DEF StoredOK, ClaimSet
  <2>8. \A m \in Nonces : /\ nonces'[m].used => nonces'[m].kind # "none"
                          /\ nonces'[m].wins # 0 => nonces'[m].used
                          /\ nonces'[m].wins <= 1 /\ ~nonces'[m].forged
    <3>1. \A m \in Nonces : /\ nonces[m].used => nonces[m].kind # "none"
                            /\ nonces[m].wins # 0 => nonces[m].used
                            /\ nonces[m].wins <= 1 /\ ~nonces[m].forged
      BY <1>1 DEF OneTry
    <3> QED BY <2>1, <2>4, <2>5, <3>1
  <2>9. ASSUME NEW p \in Calls, calls'[p].pc = "connect"
        PROVE  /\ calls'[p].key \in Nonces
               /\ nonces'[calls'[p].key].used /\ nonces'[calls'[p].key].wins = 0
               /\ calls'[p].id \in Ids /\ calls'[p].val.k \in {"yes", "no"}
               /\ \A r \in Calls : calls'[r].pc = "connect" /\ calls'[r].key = calls'[p].key => r = p
    <3>1. \A r \in Calls : calls'[r].pc = "connect" => r # q /\ calls'[r] = calls[r]
      BY <1>1, IdleFields
    <3>2. p # q /\ calls'[p] = calls[p] BY <2>9, <3>1
    <3>3. /\ calls[p].key \in Nonces
          /\ nonces[calls[p].key].used /\ nonces[calls[p].key].wins = 0
          /\ calls[p].id \in Ids /\ calls[p].val.k \in {"yes", "no"}
          /\ \A r \in Calls : calls[r].pc = "connect" /\ calls[r].key = calls[p].key => r = p
      BY <1>1, <2>9, <3>2 DEF OneTry
    <3>4. calls[p].key # c.key BY <2>1, <2>9, <3>2
    <3> QED BY <2>5, <3>1, <3>2, <3>3, <3>4
  <2>10. OneTry' BY <2>8, <2>9 DEF OneTry, Ids
  <2> QED BY <1>2, <2>6, <2>7, <2>10
<1> QED BY <1>3, <1>4 DEF Connected

-----------------------------------------------------------------------------
(***************************************************************************)
(* Every step.                                                             *)
(***************************************************************************)

\* With the time and the world as they were, what a handler knows stays known.
LEMMA StillOK ==
  ASSUME UNCHANGED <<now, ledger>>, NEW q \in Calls, CallOK(calls'[q])
  PROVE  CallOK(calls[q])'
BY DEF CallOK, Timely, Placed, Told, View, Asked, OfWallet, Stands, Ids, ledger

LEMMA ActsKeeps ==
  ASSUME GateInv, NEW q \in Calls, Acts(q), UNCHANGED <<now, ledger>>
  PROVE  /\ calls' \in [Calls -> Call] /\ \A p \in Calls : CallOK(calls[p])'
         /\ ClockOK' /\ LedgerTypes' /\ LedgerOK'
<1>1. calls \in [Calls -> Call] /\ ClockOK /\ LedgerTypes /\ LedgerOK
      /\ \A p \in Calls : CallOK(calls[p])
  BY DEF GateInv, GateTypeOK
<1>2. PICK d \in Call : calls' = [calls EXCEPT ![q] = d] /\ CallOK(d) BY DEF Acts, Lawful
<1>3. \A p \in Calls : CallOK(calls'[p]) BY <1>1, <1>2
<1>4. calls' \in [Calls -> Call] BY <1>1, <1>2
<1>5. \A p \in Calls : CallOK(calls[p])' BY <1>3, StillOK
<1>6. ClockOK' /\ LedgerTypes' /\ LedgerOK' BY <1>1 DEF ClockOK, LedgerTypes, LedgerOK, ledger, Ids, Never
<1> QED BY <1>4, <1>5, <1>6

LEMMA GoesActs == ASSUME NEW q \in Calls, Goes(q) PROVE Acts(q)
BY DEF Goes, Acts, Fair

\* The typing of calls does not depend on the state.
LEMMA CallsTyped == ASSUME calls' \in [Calls -> Call] PROVE (calls \in [Calls -> Call])'
BY DEF Call, Val, Ids, CallStages, Key, ClaimSet, Item, EnsSteps

\* A step of one handler, whatever else it stores.
LEMMA HandlerStep ==
  ASSUME GateInv, NEW q \in Calls, Acts(q), UNCHANGED <<now, ledger>>,
         StoredOK', NonceOK', MembersOK', CacheTypes', OneTry', CachesOK'
  PROVE  GateInv'
<1>1. /\ calls' \in [Calls -> Call] /\ \A p \in Calls : CallOK(calls[p])'
      /\ ClockOK' /\ LedgerTypes' /\ LedgerOK'
  BY ActsKeeps
<1>2. GateTypeOK' BY <1>1, CallsTyped DEF GateTypeOK
<1> QED BY <1>1, <1>2 DEF GateInv

LEMMA Untouched ==
  ASSUME GateInv
  PROVE  /\ UNCHANGED <<posts, sessions>> => StoredOK'
         /\ UNCHANGED nonces => NonceOK'
         /\ UNCHANGED members => MembersOK'
         /\ UNCHANGED <<now, calls, ledger>> =>
              /\ ClockOK' /\ LedgerTypes' /\ LedgerOK' /\ (calls \in [Calls -> Call])'
              /\ \A q \in Calls : CallOK(calls[q])'
<1>1. /\ ClockOK /\ StoredOK /\ NonceOK /\ MembersOK /\ CacheTypes /\ LedgerTypes /\ LedgerOK
      /\ calls \in [Calls -> Call] /\ \A q \in Calls : CallOK(calls[q])
  BY DEF GateInv, GateTypeOK
<1>2. UNCHANGED <<posts, sessions>> => StoredOK' BY <1>1 DEF StoredOK, ClaimSet, Item
<1>3. UNCHANGED nonces => NonceOK' BY <1>1 DEF NonceOK
<1>4. UNCHANGED members => MembersOK' BY <1>1 DEF MembersOK, Key, Ids
<1>5. ASSUME UNCHANGED <<now, calls, ledger>>
      PROVE  /\ ClockOK' /\ LedgerTypes' /\ LedgerOK' /\ (calls \in [Calls -> Call])'
             /\ \A q \in Calls : CallOK(calls[q])'
  <2>1. ClockOK' /\ LedgerTypes' /\ LedgerOK' BY <1>1, <1>5 DEF ClockOK, LedgerTypes, LedgerOK, ledger, Ids, Never
  <2>2. calls' \in [Calls -> Call] /\ \A q \in Calls : CallOK(calls'[q]) BY <1>1, <1>5
  <2> QED BY <1>5, <2>1, <2>2, CallsTyped, StillOK
<1> QED BY <1>2, <1>3, <1>4, <1>5

\* A step that leaves the time, the handlers, the caches and the world alone.
LEMMA StoreStep ==
  ASSUME GateInv, UNCHANGED <<now, calls, caches, ledger>>, StoredOK', NonceOK', MembersOK', OneTry'
  PROVE  GateInv'
BY Untouched, Unread DEF GateInv, GateTypeOK

LEMMA SameNonces ==
  ASSUME GateInv, UNCHANGED <<nonces, calls>>
  PROVE  NonceOK' /\ OneTry'
<1>1. OneTry BY DEF GateInv
<1>2. OneTry' BY <1>1 DEF OneTry, Ids
<1> QED BY <1>2, Untouched

LEMMA UnlockingKeeps == ASSUME GateInv, Unlocking PROVE GateInv'
<1>1. ASSUME NEW q \in Calls, Goes(q), MembersOK', UNCHANGED <<now, posts, sessions, nonces, caches, ledger>>
      PROVE  GateInv'
  BY <1>1, GoesActs, NoncesAlone, Untouched, Unread, HandlerStep
<1>2. ASSUME NEW q \in Calls, NEW t \in Tokens, NEW k \in Keys, NEW r \in Refs, NEW s \in Refs,
             Unlock(q, t, k, r, s)
      PROVE  GateInv'
  <2>1. Goes(q) BY <1>2, UnlockGoes DEF GateInv
  <2>2. UNCHANGED <<now, posts, sessions, nonces, members, caches, ledger>> BY <1>2 DEF Unlock, tables
  <2> QED BY <1>1, <2>1, <2>2, Untouched
<1>3. ASSUME NEW q \in Calls, AfterItem(q) PROVE GateInv'
  <2>1. UNCHANGED <<now, posts, sessions, nonces, members, caches, ledger>> BY <1>3 DEF AfterItem, tables
  <2> QED BY <1>1, <1>3, <2>1, AfterItemGoes, Untouched
<1>4. ASSUME NEW q \in Calls, HumanItem(q) PROVE GateInv'
  <2>1. UNCHANGED <<now, posts, sessions, nonces, caches, ledger>> BY <1>4 DEF HumanItem
  <2> QED BY <1>1, <1>4, <2>1, HumanItemGoes
<1>5. ASSUME NEW q \in Calls, NftItem(q) PROVE GateInv'
  <2>1. UNCHANGED <<now, posts, sessions, nonces, caches, ledger>> BY <1>5 DEF NftItem
  <2> QED BY <1>1, <1>5, <2>1, NftItemGoes
<1>6. ASSUME NEW q \in Calls, Answer(q) PROVE GateInv'
  <2>1. UNCHANGED <<now, posts, sessions, nonces, members, caches, ledger>> BY <1>6 DEF Answer, tables
  <2> QED BY <1>1, <1>6, <2>1, AnswerGoes, Untouched
<1> QED BY <1>2, <1>3, <1>4, <1>5, <1>6 DEF Unlocking

LEMMA ReadingKeeps == ASSUME GateInv, Reading PROVE GateInv'
<1>1. PICK q \in Calls : Turn(q)
  BY EnsHitTurn, EnsReadTurn, EnsStoreTurn, BalanceReadTurn, BalanceStoreTurn DEF Reading
<1>2. /\ Goes(q) /\ MembersOK' /\ CacheTypes' /\ CachesOK'
      /\ UNCHANGED <<now, posts, sessions, nonces, ledger>>
  BY <1>1 DEF Turn
<1> QED BY <1>2, GoesActs, NoncesAlone, Untouched, HandlerStep

LEMMA IssueKeeps ==
  ASSUME GateInv, NEW n \in Nonces, NEW kind \in {"world", "wallet", "post"}, NEW h \in Humans,
         Issue(n, kind, h), UNCHANGED calls
  PROVE  NonceOK' /\ OneTry'
<1>1. NonceOK /\ OneTry /\ now \in Nat /\ nonces[n].kind = "none"
  BY DEF GateInv, GateTypeOK, ClockOK, Issue
<1> DEFINE x == [NoNonce EXCEPT !.kind = kind, !.by = h, !.at = now]
<1>2. nonces' = [nonces EXCEPT ![n] = x] BY DEF Issue
<1>3. /\ x \in [kind : {"none", "world", "wallet", "post"}, by : Humans \cup {Nobody},
                at : Nat, used : BOOLEAN, wins : Nat, forged : BOOLEAN]
      /\ ~x.used /\ x.wins = 0 /\ ~x.forged /\ x.by = h
  BY <1>1 DEF NoNonce
<1> HIDE DEF x
<1>4. nonces'[n] = x /\ \A m \in Nonces : m # n => nonces'[m] = nonces[m] BY <1>1, <1>2 DEF NonceOK
<1>5. NonceOK' BY <1>1, <1>2, <1>3, <1>4 DEF NonceOK
<1>6. ~nonces[n].used BY <1>1 DEF OneTry
<1>7. \A p \in Calls : calls[p].pc = "connect" => calls[p].key # n BY <1>1, <1>6, UnusedIsFree
<1>8. OneTry' BY <1>1, <1>3, <1>4, <1>7 DEF OneTry, Ids
<1> QED BY <1>5, <1>8

LEMMA ChallengeKeeps ==
  ASSUME GateInv, NEW n \in Nonces, NEW kind \in {"world", "wallet", "post"}, NEW h \in Humans,
         Issue(n, kind, h),
         UNCHANGED <<now, posts, sessions, members, calls, caches, ledger>>
  PROVE  GateInv'
<1>1. NonceOK' /\ OneTry' BY IssueKeeps
<1> QED BY <1>1, Untouched, StoreStep

LEMMA ForgetKeeps == ASSUME GateInv, NEW t \in Tokens, Forget(t) PROVE GateInv'
<1>1. /\ sessions' = [sessions EXCEPT ![t] = [claims |-> NoClaims, exp |-> -2]]
      /\ UNCHANGED <<now, posts, nonces, members, calls, caches, ledger>>
  BY DEF Forget
<1>2. StoredOK BY DEF GateInv, GateTypeOK
<1>3. [claims |-> NoClaims, exp |-> -2] \in [claims : ClaimSet, exp : Int] BY DEF NoClaims, ClaimSet
<1>4. sessions' \in [Tokens -> [claims : ClaimSet, exp : Int]] BY <1>1, <1>2, <1>3 DEF StoredOK
<1>5. StoredOK' BY <1>1, <1>2, <1>4 DEF StoredOK, ClaimSet, Item
<1> QED BY <1>1, <1>5, SameNonces, Untouched, StoreStep

LEMMA ConnectingKeeps == ASSUME GateInv, Connecting PROVE GateInv'
<1>1. ASSUME NEW n \in Nonces, NEW h \in Humans, WorldChallenge(n, h) \/ WalletChallenge(n, h)
      PROVE  GateInv'
  <2>1. PICK kind \in {"world", "wallet", "post"} : Issue(n, kind, h)
    BY <1>1 DEF WorldChallenge, WalletChallenge
  <2>2. UNCHANGED <<now, posts, sessions, members, calls, caches, ledger>>
    BY <1>1 DEF WorldChallenge, WalletChallenge
  <2> QED BY <2>1, <2>2, ChallengeKeeps
<1>2. ASSUME NEW q \in Calls, Acts(q), NonceOK', OneTry', UNCHANGED <<now, posts, sessions, members, caches, ledger>>
      PROVE  GateInv'
  BY <1>2, Untouched, Unread, HandlerStep
<1>3. ASSUME NEW q \in Calls, NEW n \in Nonces, NEW t \in Tokens \cup {Nobody}, NEW genuine \in BOOLEAN,
             NEW h \in Humans, WorldConnect(q, n, h, t, genuine)
      PROVE  GateInv'
  <2>1. ByKeyring(h) \in Ids BY DEF ByKeyring, Ids
  <2>2. /\ Usable(n, "world") /\ Burn(n)
        /\ Proving(q, [Idle EXCEPT !.pc = "connect", !.id = ByKeyring(h), !.token = t, !.key = n], genuine)
        /\ UNCHANGED <<now, posts, sessions, members, caches, ledger>>
    BY <1>3 DEF WorldConnect
  <2>3. Acts(q) /\ NonceOK' /\ OneTry' BY <2>1, <2>2, ProvingActs
  <2> QED BY <1>2, <2>2, <2>3
<1>4. ASSUME NEW q \in Calls, NEW n \in Nonces, NEW t \in Tokens \cup {Nobody}, NEW genuine \in BOOLEAN,
             NEW w \in Wallets, WalletConnect(q, n, w, t, genuine)
      PROVE  GateInv'
  <2>1. ByWallet(w) \in Ids BY WalletIds
  <2>2. /\ Usable(n, "wallet") /\ Burn(n)
        /\ Proving(q, [Idle EXCEPT !.pc = "connect", !.id = ByWallet(w), !.token = t, !.key = n], genuine)
        /\ UNCHANGED <<now, posts, sessions, members, caches, ledger>>
    BY <1>4 DEF WalletConnect
  <2>3. Acts(q) /\ NonceOK' /\ OneTry' BY <2>1, <2>2, ProvingActs
  <2> QED BY <1>2, <2>2, <2>3
<1>5. ASSUME NEW q \in Calls, Connected(q) PROVE GateInv'
  <2>1. UNCHANGED <<now, posts, members, caches, ledger>> BY <1>5 DEF Connected
  <2>2. Goes(q) /\ StoredOK' /\ NonceOK' /\ OneTry' BY <1>5, ConnectedKeeps
  <2> QED BY <2>1, <2>2, GoesActs, Untouched, Unread, HandlerStep
<1> QED BY <1>1, <1>3, <1>4, <1>5, ForgetKeeps DEF Connecting

LEMMA OlderPostsKeep == ASSUME GateInv, OlderPosts PROVE GateInv'
<1>1. ASSUME NEW n \in Nonces, NEW r \in Refs, NEW h \in Humans, NEW check \in {"human", "nft"},
             PostChallenge(n, r, check, h)
      PROVE  GateInv'
  <2>1. Issue(n, "post", h) /\ UNCHANGED <<now, posts, sessions, members, calls, caches, ledger>>
    BY <1>1 DEF PostChallenge
  <2> QED BY <2>1, ChallengeKeeps
<1>2. ASSUME NEW q \in Calls, Goes(q), NonceOK', OneTry', UNCHANGED <<now, posts, sessions, members, caches, ledger>>
      PROVE  GateInv'
  BY <1>2, GoesActs, Untouched, Unread, HandlerStep
<1>3. ASSUME NEW q \in Calls, NEW r \in Refs, ReleaseAfter(q, r) PROVE GateInv'
  <2>1. UNCHANGED <<now, posts, sessions, nonces, members, caches, ledger>> BY <1>3 DEF ReleaseAfter, tables
  <2>2. Goes(q) BY <1>3, ReleaseAfterGoes DEF GateInv
  <2> QED BY <1>2, <2>1, <2>2, NoncesAlone
<1>4. ASSUME NEW q \in Calls, NEW r \in Refs, NEW n \in Nonces, NEW k \in Keys, NEW genuine \in BOOLEAN,
             ReleaseHuman(q, r, n, k, genuine)
      PROVE  GateInv'
  <2>1. UNCHANGED <<now, posts, sessions, members, caches, ledger>> BY <1>4 DEF ReleaseHuman
  <2> QED BY <1>2, <1>4, <2>1, ReleaseHumanGoes
<1>5. ASSUME NEW q \in Calls, NEW r \in Refs, NEW n \in Nonces, NEW w \in Wallets, NEW k \in Keys,
             ReleaseNft(q, r, n, w, k)
      PROVE  GateInv'
  <2>1. UNCHANGED <<now, posts, sessions, members, caches, ledger>> BY <1>5 DEF ReleaseNft
  <2> QED BY <1>2, <1>5, <2>1, ReleaseNftGoes
<1>6. ASSUME NEW q \in Calls, Proved(q) PROVE GateInv'
  <2>1. UNCHANGED <<now, posts, sessions, nonces, caches, ledger>> BY <1>6 DEF Proved
  <2> QED BY <1>6, <2>1, ProvedGoes, GoesActs, NoncesAlone, Untouched, Unread, HandlerStep
<1>7. CASE \E n \in Nonces, r \in Refs, h \in Humans : HumanChallenge(n, r, h) \/ NftChallenge(n, r, h)
  BY <1>1, <1>7 DEF HumanChallenge, NftChallenge
<1> QED BY <1>3, <1>4, <1>5, <1>6, <1>7 DEF OlderPosts

LEMMA SpacesKeep == ASSUME GateInv, Spaces PROVE GateInv'
<1>1. CASE Register
  <2>1. UNCHANGED <<now, posts, sessions, nonces, members, calls, caches, ledger>> BY <1>1 DEF Register
  <2> QED BY <2>1, SameNonces, Untouched, StoreStep
<1>2. ASSUME NEW id \in Ids, NEW unban \in BOOLEAN, Ban(id, unban) PROVE GateInv'
  <2>1. /\ members' = [members EXCEPT !["gate"][id].st = IF unban THEN "member" ELSE "banned"]
        /\ UNCHANGED <<now, posts, sessions, nonces, calls, caches, ledger>>
    BY <1>2 DEF Ban
  <2>2. MembersOK BY DEF GateInv, GateTypeOK
  <2>3. MembersOK' BY <2>1, <2>2 DEF MembersOK, Key, Ids
  <2> QED BY <2>1, <2>3, SameNonces, Untouched, StoreStep
<1>3. ASSUME NEW q \in Calls, NEW id \in Ids, Attest(q, id) PROVE GateInv'
  <2>1. UNCHANGED <<now, posts, sessions, nonces, members, caches, ledger>> BY <1>3 DEF Attest, tables
  <2> QED BY <1>3, <2>1, AttestGoes, GoesActs, NoncesAlone, Untouched, Unread, HandlerStep
<1> QED BY <1>1, <1>2, <1>3 DEF Spaces

LEMMA StoreKeeps ==
  ASSUME GateInv, NEW r \in Refs, NEW kind \in {"sealed", "deposit"}, NEW p \in Policies,
         kind = "deposit" => Len(p) = 1, Store(r, kind, p)
  PROVE  GateInv'
<1>1. /\ posts' = [posts EXCEPT ![r] = [kind |-> kind, items |-> p]]
      /\ UNCHANGED <<now, sessions, nonces, members, calls, caches, ledger>>
  BY DEF Store
<1>2. StoredOK /\ p \in Seq(Item) BY PolicyAssumption DEF GateInv, GateTypeOK
<1>3. kind = "deposit" => p # <<>>
  <2>1. p = <<>> => Len(p) = 0 OBVIOUS
  <2> QED BY <2>1
<1> DEFINE x == [kind |-> kind, items |-> p]
<1>4. x \in [kind : {"none", "sealed", "deposit"}, items : Seq(Item)] /\ x.kind = kind /\ x.items = p
  BY <1>2
<1> HIDE DEF x
<1>5. posts' = [posts EXCEPT ![r] = x] BY <1>1 DEF x
<1>6. /\ posts' \in [Refs -> [kind : {"none", "sealed", "deposit"}, items : Seq(Item)]]
      /\ \A s \in Refs : posts'[s].kind = "deposit" => posts'[s].items # <<>>
  BY <1>2, <1>3, <1>4, <1>5 DEF StoredOK
<1>7. StoredOK' BY <1>1, <1>2, <1>6 DEF StoredOK, ClaimSet, Item
<1> QED BY <1>1, <1>7, SameNonces, Untouched, StoreStep

\* The world moves: what was read may end, but it was so when it was read.
LEMMA WorldKeeps == ASSUME GateInv, World PROVE GateInv'
<1>1. /\ ClockOK /\ LedgerTypes /\ LedgerOK /\ CachesOK /\ CacheTypes /\ calls \in [Calls -> Call]
      /\ \A q \in Calls : CallOK(calls[q])
  BY DEF GateInv, GateTypeOK
<1>2. now \in Nat /\ now <= Never /\ Never \in Nat BY <1>1, Numbers DEF ClockOK
<1>3. /\ UNCHANGED <<now, posts, sessions, nonces, members, calls, caches>>
      /\ LedgerTypes' /\ LedgerOK'
      /\ \A id \in Ids : bannedAt'[id] >= now \/ bannedAt'[id] = bannedAt[id]
      /\ \A w \in Wallets : lostAt'[w] >= now \/ lostAt'[w] = lostAt[w]
      /\ unnamedAt' >= now \/ unnamedAt' = unnamedAt
  <2>1. CASE WriteToken
    <3>1. /\ record' = [record EXCEPT !.token = ~@] /\ unnamedAt' = IF record.token THEN now ELSE Never
          /\ UNCHANGED <<now, posts, sessions, nonces, members, calls, caches, holders, bannedAt, lostAt>>
      BY <2>1 DEF WriteToken, tables
    <3>2. record'.bans = record.bans /\ (record'.token <=> ~record.token)
          /\ record' \in [token : BOOLEAN, bans : SUBSET Ids]
      BY <1>1, <3>1 DEF LedgerTypes
    <3>3. unnamedAt' \in Nat /\ unnamedAt' >= now BY <1>2, <3>1
    <3>4. record'.token => unnamedAt' = Never BY <3>1, <3>2
    <3>5. LedgerTypes' BY <1>1, <3>1, <3>2, <3>3 DEF LedgerTypes, Ids
    <3>6. LedgerOK' BY <1>1, <3>1, <3>2, <3>4 DEF LedgerOK, Ids, Never
    <3> QED BY <3>1, <3>3, <3>5, <3>6
  <2>2. ASSUME NEW id \in Ids, WriteBan(id)
        PROVE  /\ UNCHANGED <<now, posts, sessions, nonces, members, calls, caches, holders, lostAt, unnamedAt>>
               /\ LedgerTypes' /\ LedgerOK'
               /\ \A i \in Ids : bannedAt'[i] >= now \/ bannedAt'[i] = bannedAt[i]
    <3>1. /\ record' = [record EXCEPT !.bans = IF id \in @ THEN @ \ {id} ELSE @ \cup {id}]
          /\ bannedAt' = [bannedAt EXCEPT ![id] = IF id \in record.bans THEN Never ELSE now]
          /\ UNCHANGED <<now, posts, sessions, nonces, members, calls, caches, holders, lostAt, unnamedAt>>
      BY <2>2 DEF WriteBan, tables
    <3>2. /\ record' \in [token : BOOLEAN, bans : SUBSET Ids] /\ (record'.token <=> record.token)
          /\ record'.bans = IF id \in record.bans THEN record.bans \ {id} ELSE record.bans \cup {id}
      BY <1>1, <3>1 DEF LedgerTypes
    <3>3. /\ bannedAt' \in [Ids -> Nat]
          /\ bannedAt'[id] = IF id \in record.bans THEN Never ELSE now
          /\ \A i \in Ids : i # id => bannedAt'[i] = bannedAt[i]
      BY <1>1, <1>2, <3>1 DEF LedgerTypes
    <3>4. LedgerTypes' BY <1>1, <3>1, <3>2, <3>3 DEF LedgerTypes, Ids
    <3>5. \A i \in Ids : i \notin record'.bans => bannedAt'[i] = Never
      <4>1. \A i \in Ids : i \notin record.bans => bannedAt[i] = Never BY <1>1 DEF LedgerOK
      <4> QED BY <3>2, <3>3, <4>1
    <3>6. LedgerOK' BY <1>1, <3>1, <3>2, <3>5 DEF LedgerOK, Ids, Never
    <3>7. \A i \in Ids : bannedAt'[i] >= now \/ bannedAt'[i] = bannedAt[i] BY <1>2, <3>3
    <3> QED BY <3>1, <3>4, <3>6, <3>7
  <2>3. ASSUME NEW w \in Wallets, Transfer(w)
        PROVE  /\ UNCHANGED <<now, posts, sessions, nonces, members, calls, caches, record, bannedAt, unnamedAt>>
               /\ LedgerTypes' /\ LedgerOK'
               /\ \A u \in Wallets : lostAt'[u] >= now \/ lostAt'[u] = lostAt[u]
    <3>1. /\ holders' = IF w \in holders THEN holders \ {w} ELSE holders \cup {w}
          /\ lostAt' = [lostAt EXCEPT ![w] = IF w \in holders THEN now ELSE Never]
          /\ UNCHANGED <<now, posts, sessions, nonces, members, calls, caches, record, bannedAt, unnamedAt>>
      BY <2>3 DEF Transfer, tables
    <3>2. /\ lostAt' \in [Wallets -> Nat] /\ lostAt'[w] = IF w \in holders THEN now ELSE Never
          /\ \A u \in Wallets : u # w => lostAt'[u] = lostAt[u]
          /\ holders' \in SUBSET Wallets
      BY <1>1, <1>2, <3>1 DEF LedgerTypes
    <3>3. LedgerTypes' BY <1>1, <3>1, <3>2 DEF LedgerTypes, Ids
    <3>4. \A u \in Wallets : u \in holders' => lostAt'[u] = Never
      <4>1. \A u \in Wallets : u \in holders => lostAt[u] = Never BY <1>1 DEF LedgerOK
      <4> QED BY <3>1, <3>2, <4>1
    <3>5. LedgerOK' BY <1>1, <3>1, <3>4 DEF LedgerOK, Ids, Never
    <3>6. \A u \in Wallets : lostAt'[u] >= now \/ lostAt'[u] = lostAt[u] BY <1>2, <3>2
    <3> QED BY <3>1, <3>3, <3>5, <3>6
  <2> QED BY <2>1, <2>2, <2>3 DEF World
<1>4. /\ unnamedAt \in Int /\ unnamedAt' \in Int
      /\ \A w \in Wallets : lostAt[w] \in Int /\ lostAt'[w] \in Int
  BY <1>1, <1>3 DEF LedgerTypes
<1>5. ASSUME NEW q \in Calls PROVE CallOK(calls[q])'
  <2> DEFINE c == calls[q]
  <2>1. /\ c \in Call /\ Timely(c) /\ Placed(c) /\ Told(c) /\ c' = c /\ now' = now
        /\ c.since \in Int /\ c.since <= now /\ Asked(c) <= now /\ Asked(c) \in Int
    BY <1>1, <1>2, <1>3, Fields DEF CallOK, Timely, Asked
  <2>2. Timely(c)' BY <2>1 DEF Timely
  <2>3. Placed(c)' BY <2>1 DEF Placed, Stands, OfWallet, Ids
  <2>4. \A id \in Ids : bannedAt[id] >= c.since => bannedAt'[id] >= c.since
    BY <1>1, <1>2, <1>3, <2>1 DEF LedgerTypes
  <2>5. unnamedAt >= c.since => unnamedAt' >= c.since BY <1>2, <1>3, <1>4, <2>1
  <2>6. /\ unnamedAt > Asked(c) - (EnsTtl + RpcMax) => unnamedAt' > Asked(c) - (EnsTtl + RpcMax)
        /\ unnamedAt > Asked(c) - (EnsTtl + YesTtl + 2 * RpcMax)
             => unnamedAt' > Asked(c) - (EnsTtl + YesTtl + 2 * RpcMax)
    BY <1>2, <1>3, <1>4, <2>1, Numbers
  <2>7. ASSUME OfWallet(c)
        PROVE  /\ lostAt[c.id[2]] >= c.since => lostAt'[c.id[2]] >= c.since
               /\ lostAt[c.id[2]] > Asked(c) - (YesTtl + RpcMax)
                    => lostAt'[c.id[2]] > Asked(c) - (YesTtl + RpcMax)
    <3>1. PICK w \in Wallets : c.id = ByWallet(w) BY <2>7 DEF OfWallet
    <3>2. c.id[2] = w BY <3>1, WalletIds
    <3>3. lostAt'[w] >= now \/ lostAt'[w] = lostAt[w] BY <1>3
    <3> QED BY <1>2, <1>4, <2>1, <3>2, <3>3, Numbers
  <2>8. Asked(c)' = Asked(c) BY <2>1 DEF Asked
  <2>9. View(c.val, c.since) => View(c.val, c.since)' BY <2>1, <2>4, <2>5 DEF View, Ids
  <2>10. OfWallet(c)' = OfWallet(c) BY <2>1 DEF OfWallet
  <2>11. Told(c)'
    <3>1. c.pc \in EnsSteps => View(c.val, c.since)' BY <2>1, <2>9 DEF Told
    <3>2. c.pc = "balance" => /\ c.val.k = "yes" => lostAt'[c.id[2]] >= c.since
                              /\ unnamedAt' > Asked(c) - (EnsTtl + RpcMax)
      BY <2>1, <2>6, <2>7 DEF Told, Placed
    <3>3. c.pc = "banned" /\ Head(c.todo).check = "nft" =>
            /\ lostAt'[c.id[2]] > Asked(c) - (YesTtl + RpcMax)
            /\ unnamedAt' > Asked(c) - (EnsTtl + YesTtl + 2 * RpcMax)
      BY <2>1, <2>6, <2>7 DEF Told, Placed
    <3> QED BY <2>1, <2>8, <3>1, <3>2, <3>3 DEF Told, EnsSteps
  <2> QED BY <2>2, <2>3, <2>11 DEF CallOK
<1>6. CacheTypes' BY <1>1, <1>3 DEF CacheTypes, caches, Val, Ids
<1>7. CachesOK'
  <2>1. ensCache' = ensCache /\ heldCache' = heldCache /\ now' = now BY <1>3 DEF caches
  <2>2. /\ ensCache.at \in Int /\ ensCache.at <= now /\ \A w \in Wallets : heldCache[w].at \in Int
        /\ \A w \in Wallets : heldCache[w].at <= now
        /\ View(ensCache.v, ensCache.at - RpcMax)
        /\ \A w \in Wallets : heldCache[w].yes => Held(w, heldCache[w].at)
    BY <1>1 DEF CacheTypes, CachesOK
  <2>3. ensCache.at - RpcMax <= now /\ ensCache.at - RpcMax \in Int BY <1>2, <2>2, Numbers
  <2>4. \A id \in Ids : bannedAt[id] >= ensCache.at - RpcMax => bannedAt'[id] >= ensCache.at - RpcMax
    BY <1>1, <1>2, <1>3, <2>3 DEF LedgerTypes
  <2>5. unnamedAt >= ensCache.at - RpcMax => unnamedAt' >= ensCache.at - RpcMax BY <1>2, <1>3, <1>4, <2>3
  <2>6. View(ensCache.v, ensCache.at - RpcMax)' BY <2>1, <2>2, <2>4, <2>5 DEF View, Ids
  <2>7. ASSUME NEW w \in Wallets, Held(w, heldCache[w].at)
        PROVE  Held(w, heldCache[w].at)'
    <3>1. heldCache[w].at \in Int /\ heldCache[w].at <= now BY <2>2
    <3>2. lostAt'[w] >= now \/ lostAt'[w] = lostAt[w] BY <1>3
    <3>3. lostAt'[w] >= heldCache[w].at - RpcMax BY <1>2, <1>4, <2>7, <3>1, <3>2, Numbers DEF Held
    <3>4. unnamedAt' > heldCache[w].at - (EnsTtl + 2 * RpcMax)
      BY <1>2, <1>3, <1>4, <2>7, <3>1, Numbers DEF Held
    <3> QED BY <2>1, <3>3, <3>4 DEF Held
  <2> QED BY <2>1, <2>2, <2>6, <2>7 DEF CachesOK
<1>8. StoredOK' /\ MembersOK' /\ NonceOK' /\ OneTry' BY <1>3, Untouched, SameNonces
<1>9. ClockOK' BY <1>1, <1>3 DEF ClockOK
<1>10. (calls \in [Calls -> Call])' BY <1>1, <1>3, CallsTyped
<1> QED BY <1>3, <1>5, <1>6, <1>7, <1>8, <1>9, <1>10 DEF GateInv, GateTypeOK

\* Time passes only while every handler waits, and for none too long.
LEMMA TickKeeps == ASSUME GateInv, Tick PROVE GateInv'
<1>1. /\ ClockOK /\ LedgerTypes /\ LedgerOK /\ CachesOK /\ CacheTypes /\ calls \in [Calls -> Call]
      /\ \A q \in Calls : CallOK(calls[q])
  BY DEF GateInv, GateTypeOK
<1>2. /\ now' = now + 1 /\ now < MaxClock /\ \A q \in Calls : Waiting(calls[q])
      /\ UNCHANGED <<posts, sessions, nonces, members, calls, caches, ledger>>
  BY DEF Tick, tables
<1>3. now \in Nat /\ now' \in Nat /\ now' >= now /\ ClockOK'
  BY <1>1, <1>2, Numbers DEF ClockOK
<1>4. ASSUME NEW q \in Calls PROVE CallOK(calls[q])'
  <2> DEFINE c == calls[q]
  <2>1. /\ c \in Call /\ Timely(c) /\ Placed(c) /\ Told(c) /\ c' = c /\ Waiting(c)
        /\ c.since \in Int /\ c.began \in Int
    BY <1>1, <1>2, Fields DEF CallOK
  <2>2. Timely(c)'
    <3>1. c.since <= now' /\ c.began <= now' BY <1>2, <1>3, <2>1 DEF Timely
    <3>2. c.pc \in EnsSteps \cup {"balance"} => c.val.k # "ask" /\ now - c.since < RpcMax
      BY <2>1 DEF Waiting, EnsSteps
    <3>3. c.pc \in EnsSteps \cup {"balance"} => now' - c.since <= RpcMax
      BY <1>2, <1>3, <2>1, <3>2, Numbers
    <3> QED BY <2>1, <3>1, <3>3 DEF Timely, EnsSteps
  <2>3. Placed(c)' BY <2>1 DEF Placed, Stands, OfWallet, Ids
  <2>4. c.pc \in {"balance", "banned"} => Asked(c)' = Asked(c)
    BY <2>1 DEF Waiting, Asked, EnsSteps
  <2>5. /\ lostAt' = lostAt /\ unnamedAt' = unnamedAt /\ bannedAt' = bannedAt BY <1>2 DEF ledger
  <2>6. Told(c)' BY <2>1, <2>4, <2>5 DEF Told, View, EnsSteps, Ids
  <2> QED BY <2>2, <2>3, <2>6 DEF CallOK
<1>5. CacheTypes' BY <1>1, <1>2 DEF CacheTypes, caches, Val, Ids
<1>6. CachesOK'
  <2>1. /\ ensCache.at \in Int /\ ensCache.at <= now /\ \A w \in Wallets : heldCache[w].at \in Int
        /\ \A w \in Wallets : heldCache[w].at <= now
    BY <1>1 DEF CacheTypes, CachesOK
  <2>2. ensCache.at <= now' /\ \A w \in Wallets : heldCache[w].at <= now' BY <1>3, <2>1
  <2> QED BY <1>1, <1>2, <2>2 DEF CachesOK, Held, View, caches, ledger, Ids
<1>7. LedgerTypes' /\ LedgerOK' BY <1>1, <1>2 DEF LedgerTypes, LedgerOK, ledger, Ids, Never
<1>8. StoredOK' /\ MembersOK' /\ NonceOK' /\ OneTry' BY <1>2, Untouched, SameNonces
<1>9. (calls \in [Calls -> Call])' BY <1>1, <1>2, CallsTyped
<1> QED BY <1>3, <1>4, <1>5, <1>6, <1>7, <1>8, <1>9 DEF GateInv, GateTypeOK

\* The caches of a gate that has just started.
LEMMA EmptyCaches ==
  ASSUME ClockOK
  PROVE  /\ NoEnsEntry \in [v : Val, at : Int] /\ NoEnsEntry.at <= now /\ NoEnsEntry.v.k = "err"
         /\ NoHeldEntry \in [yes : BOOLEAN, at : Int] /\ NoHeldEntry.at <= now /\ ~NoHeldEntry.yes
<1>1. Read("err") \in Val /\ Read("err").k = "err" BY DEF Read, Val
<1>2. -EnsTtl \in Int /\ -EnsTtl <= now /\ -YesTtl \in Int /\ -YesTtl <= now BY Numbers DEF ClockOK
<1> HIDE DEF Read
<1> QED BY <1>1, <1>2 DEF NoEnsEntry, NoHeldEntry

LEMMA RestartKeeps == ASSUME GateInv, Restart PROVE GateInv'
<1>1. /\ calls' = [q \in Calls |-> Idle] /\ ensCache' = NoEnsEntry
      /\ heldCache' = [w \in Wallets |-> NoHeldEntry]
      /\ UNCHANGED <<now, posts, sessions, nonces, members, ledger>>
  BY DEF Restart, tables
<1>2. /\ ClockOK /\ LedgerTypes /\ LedgerOK /\ OneTry BY DEF GateInv, GateTypeOK
<1>3. Idle \in Call /\ CallOK(Idle) /\ Idle.pc # "connect"
  BY <1>2, IdleFields, IdleFair DEF Fair, Lawful
<1>4. calls' \in [Calls -> Call] /\ \A q \in Calls : CallOK(calls'[q]) BY <1>1, <1>3
<1>5. \A q \in Calls : CallOK(calls[q])' BY <1>1, <1>4, StillOK
<1>6. CacheTypes' BY <1>1, <1>2, EmptyCaches DEF CacheTypes, Val, Ids
<1>7. CachesOK' BY <1>1, <1>2, EmptyCaches DEF CachesOK, View
<1>8. OneTry' BY <1>1, <1>2, <1>3 DEF OneTry, Ids
<1>9. ClockOK' /\ LedgerTypes' /\ LedgerOK' BY <1>1, <1>2 DEF ClockOK, LedgerTypes, LedgerOK, ledger, Ids, Never
<1>10. StoredOK' /\ MembersOK' /\ NonceOK' BY <1>1, Untouched
<1>11. (calls \in [Calls -> Call])' BY <1>4, CallsTyped
<1> QED BY <1>5, <1>6, <1>7, <1>8, <1>9, <1>10, <1>11 DEF GateInv, GateTypeOK

LEMMA StutterKeeps == ASSUME GateInv, UNCHANGED gateVars PROVE GateInv'
<1>1. UNCHANGED <<now, posts, sessions, nonces, members, calls, caches, ledger>> BY DEF gateVars, tables
<1> QED BY <1>1, SameNonces, Untouched, StoreStep

LEMMA GateStep == GateInv /\ [GateNext]_gateVars => GateInv'
<1> SUFFICES ASSUME GateInv, [GateNext]_gateVars PROVE GateInv' OBVIOUS
<1>1. ASSUME NEW r \in Refs, Seal(r) \/ Deposit(r) PROVE GateInv'
  BY <1>1, StoreKeeps DEF Seal, Deposit
<1> QED
  BY <1>1, UnlockingKeeps, ReadingKeeps, ConnectingKeeps, OlderPostsKeep, SpacesKeep, WorldKeeps,
     TickKeeps, RestartKeeps, StutterKeeps DEF GateNext

LEMMA GateInitially == GateInit => GateInv
<1> SUFFICES ASSUME GateInit PROVE GateInv OBVIOUS
<1>1. ClockOK BY Numbers DEF GateInit, GateStart, ClockOK
<1>2. StoredOK
  <2>1. NoPost \in [kind : {"none", "sealed", "deposit"}, items : Seq(Item)] /\ NoPost.kind = "none"
    BY DEF NoPost
  <2>2. NoRow \in [claims : ClaimSet, exp : Int] BY DEF NoRow, NoClaims, ClaimSet
  <2> HIDE DEF NoPost, NoRow
  <2> QED BY <2>1, <2>2 DEF GateInit, StoredOK
<1>3. NonceOK BY DEF GateInit, GateStart, NonceOK, NoNonce
<1>4. MembersOK BY DEF GateInit, GateStart, MembersOK, Key
<1>5. calls = [q \in Calls |-> Idle] /\ Idle \in Call /\ CallOK(Idle) /\ Idle.pc = "idle"
  BY <1>1, IdleFields, IdleFair DEF GateInit, GateStart, Fair, Lawful
<1>6. CacheTypes /\ CachesOK
  <2>1. ensCache = NoEnsEntry /\ heldCache = [w \in Wallets |-> NoHeldEntry] BY DEF GateInit, GateStart
  <2> QED BY <1>1, <2>1, EmptyCaches DEF CacheTypes, CachesOK, View
<1>7. LedgerTypes /\ LedgerOK BY Numbers DEF GateInit, GateStart, LedgerTypes, LedgerOK
<1>8. OneTry BY <1>5 DEF GateInit, GateStart, OneTry, NoNonce
<1> QED BY <1>1, <1>2, <1>3, <1>4, <1>5, <1>6, <1>7, <1>8 DEF GateInv, GateTypeOK

-----------------------------------------------------------------------------
(***************************************************************************)
(* What the gate promises.                                                 *)
(***************************************************************************)

\* The state of the gate stays in its types, and what its caches and handlers
\* have read stays within the windows.
THEOREM GateInvariant == GateSpec => []GateInv
BY GateInitially, GateStep, PTL DEF GateSpec

\* One challenge is one grant, and no forged proof is granted, however many
\* requests present a nonce at once and whatever one node says.
THEOREM GrantsAreSound == GateSpec => []SoundGrants
<1>1. GateInv => SoundGrants BY DEF GateInv, OneTry, SoundGrants
<1> QED BY GateInvariant, <1>1, PTL

\* A step is one handler's turn, or takes no handler further.
LEMMA WhoActs ==
  ASSUME GateInv, GateNext
  PROVE  \/ \E q \in Calls : Acts(q)
         \/ calls' = calls
         \/ calls' = [q \in Calls |-> Idle]
<1>1. CASE Unlocking
  BY <1>1, UnlockGoes, AfterItemGoes, HumanItemGoes, NftItemGoes, AnswerGoes, GoesActs
     DEF Unlocking, GateInv
<1>2. CASE Reading
  <2>1. PICK q \in Calls : Turn(q)
    BY <1>2, EnsHitTurn, EnsReadTurn, EnsStoreTurn, BalanceReadTurn, BalanceStoreTurn DEF Reading
  <2> QED BY <2>1, GoesActs DEF Turn
<1>3. CASE Connecting
  <2>1. ASSUME NEW q \in Calls, NEW n \in Nonces, NEW t \in Tokens \cup {Nobody}, NEW genuine \in BOOLEAN,
               NEW h \in Humans, WorldConnect(q, n, h, t, genuine)
        PROVE  Acts(q)
    <3>1. ByKeyring(h) \in Ids BY DEF ByKeyring, Ids
    <3> QED BY <2>1, <3>1, ProvingActs DEF WorldConnect
  <2>2. ASSUME NEW q \in Calls, NEW n \in Nonces, NEW t \in Tokens \cup {Nobody}, NEW genuine \in BOOLEAN,
               NEW w \in Wallets, WalletConnect(q, n, w, t, genuine)
        PROVE  Acts(q)
    BY <2>2, WalletIds, ProvingActs DEF WalletConnect
  <2>3. ASSUME NEW q \in Calls, Connected(q) PROVE Acts(q) BY <2>3, ConnectedKeeps, GoesActs
  <2>4. ASSUME NEW n \in Nonces, NEW h \in Humans, WorldChallenge(n, h) \/ WalletChallenge(n, h)
        PROVE  calls' = calls
    BY <2>4 DEF WorldChallenge, WalletChallenge
  <2>5. ASSUME NEW t \in Tokens, Forget(t) PROVE calls' = calls BY <2>5 DEF Forget
  <2> QED BY <1>3, <2>1, <2>2, <2>3, <2>4, <2>5 DEF Connecting
<1>4. CASE OlderPosts
  <2>1. ASSUME NEW n \in Nonces, NEW r \in Refs, NEW h \in Humans, HumanChallenge(n, r, h) \/ NftChallenge(n, r, h)
        PROVE  calls' = calls
    BY <2>1 DEF HumanChallenge, NftChallenge, PostChallenge
  <2>2. ASSUME NEW q \in Calls, NEW r \in Refs, ReleaseAfter(q, r) PROVE Acts(q)
    BY <2>2, ReleaseAfterGoes, GoesActs DEF GateInv
  <2>3. ASSUME NEW q \in Calls, NEW r \in Refs, NEW n \in Nonces, NEW k \in Keys, NEW genuine \in BOOLEAN,
               ReleaseHuman(q, r, n, k, genuine)
        PROVE  Acts(q)
    BY <2>3, ReleaseHumanGoes, GoesActs
  <2>4. ASSUME NEW q \in Calls, NEW r \in Refs, NEW n \in Nonces, NEW w \in Wallets, NEW k \in Keys,
               ReleaseNft(q, r, n, w, k)
        PROVE  Acts(q)
    BY <2>4, ReleaseNftGoes, GoesActs
  <2>5. ASSUME NEW q \in Calls, Proved(q) PROVE Acts(q) BY <2>5, ProvedGoes, GoesActs
  <2> QED BY <1>4, <2>1, <2>2, <2>3, <2>4, <2>5 DEF OlderPosts
<1>5. CASE Spaces
  <2>1. ASSUME NEW id \in Ids, NEW unban \in BOOLEAN, Ban(id, unban) PROVE calls' = calls BY <2>1 DEF Ban
  <2>2. ASSUME NEW q \in Calls, NEW id \in Ids, Attest(q, id) PROVE Acts(q)
    BY <2>2, AttestGoes, GoesActs
  <2>3. CASE Register BY <2>3 DEF Register
  <2> QED BY <1>5, <2>1, <2>2, <2>3 DEF Spaces
<1>6. CASE World BY <1>6 DEF World, WriteToken, WriteBan, Transfer
<1>7. CASE Tick BY <1>7 DEF Tick
<1>8. CASE Restart BY <1>8 DEF Restart
<1>9. CASE \E r \in Refs : Seal(r) \/ Deposit(r) BY <1>9 DEF Seal, Deposit, Store
<1> QED BY <1>1, <1>2, <1>3, <1>4, <1>5, <1>6, <1>7, <1>8, <1>9 DEF GateNext

\* Whatever hands out a share may do so.
LEMMA OpeningIsJustified ==
  ASSUME GateInv, [GateNext]_gateVars, NEW q \in Calls, Opens(q)
  PROVE  Justified(calls[q], calls'[q])
<1>1. calls \in [Calls -> Call] BY DEF GateInv, GateTypeOK
<1>2. calls'[q].won > calls[q].won /\ calls[q].won \in Nat BY <1>1, Fields DEF Opens
<1>3. calls' # calls BY <1>2
<1>4. calls' # [p \in Calls |-> Idle] BY <1>2, IdleFields
<1>5. GateNext BY <1>3 DEF gateVars
<1>6. PICK p \in Calls : Acts(p) BY <1>3, <1>4, <1>5, WhoActs
<1>7. PICK d \in Call : calls' = [calls EXCEPT ![p] = d] /\ Lawful(calls[p], d) BY <1>6 DEF Acts
<1>8. p = q BY <1>1, <1>2, <1>7
<1>9. calls'[q] = d BY <1>1, <1>7, <1>8
<1> QED BY <1>2, <1>7, <1>8, <1>9 DEF Lawful

\* A ban is obeyed by every request that starts EnsTtl + RpcMax after it was
\* written, whatever reads were in flight, failed, or arrived late.
THEOREM BansAreObeyed == GateSpec => BanIsObeyed
<1>1. GateInv /\ [GateNext]_gateVars =>
        [\A q \in Calls : Opens(q) /\ Head(calls[q].todo).space = "ens" =>
            bannedAt[calls'[q].id] > calls[q].began - (EnsTtl + RpcMax)]_gateVars
  BY OpeningIsJustified DEF Justified
<1> QED BY GateInvariant, <1>1, PTL DEF GateSpec, BanIsObeyed

\* A share for holders goes to a wallet that held the collection, and that while
\* the space named it, within the lifetimes of the two caches and the reads.
THEOREM HoldersOnly == GateSpec => HolderWindow
<1>1. GateInv /\ [GateNext]_gateVars =>
        [\A q \in Calls : Opens(q) /\ Head(calls[q].todo).check = "nft" =>
            /\ lostAt[calls'[q].id[2]] > now - (YesTtl + 2 * RpcMax)
            /\ unnamedAt > now - (EnsTtl + YesTtl + 3 * RpcMax)]_gateVars
  BY OpeningIsJustified DEF Justified
<1> QED BY GateInvariant, <1>1, PTL DEF GateSpec, HolderWindow

\* Only a proof extends a session, and one that had ended holds that proof alone.
LEMMA RenewedHoldsOne ==
  ASSUME GateInv, [GateNext]_gateVars, NEW t \in Tokens,
         sessions[t].exp >= 0, sessions[t].exp <= now, sessions'[t].exp > now
  PROVE  Cardinality(sessions'[t].claims.wallets)
           + (IF sessions'[t].claims.poh = Nobody THEN 0 ELSE 1) = 1
<1>1. GateTypeOK /\ StoredOK /\ now \in Nat /\ OneTry BY DEF GateInv, GateTypeOK, ClockOK
<1>2. sessions[t].exp \in Int BY <1>1 DEF StoredOK
<1>3. sessions' # sessions BY <1>1, <1>2
<1>4. GateNext BY <1>3 DEF gateVars, tables
<1>5. ASSUME NEW u \in Tokens, Forget(u) PROVE FALSE
  <2>1. sessions'[t] = sessions[t] \/ sessions'[t] = [claims |-> NoClaims, exp |-> -2]
    BY <1>1, <1>5 DEF Forget, StoredOK
  <2> QED BY <1>1, <1>2, <2>1
<1>6. PICK q \in Calls : Connected(q)
  <2>1. \/ \E q \in Calls : Connected(q)
        \/ \E u \in Tokens : Forget(u)
        \/ sessions' = sessions
    <3>1. CASE Unlocking
      BY <3>1 DEF Unlocking, Unlock, AfterItem, HumanItem, NftItem, Answer, tables
    <3>2. CASE Reading
      BY <3>2 DEF Reading, EnsHit, EnsRead, EnsStore, BalanceRead, BalanceStore, tables
    <3>3. CASE Connecting BY <3>3 DEF Connecting, WorldChallenge, WalletChallenge, WorldConnect, WalletConnect
    <3>4. CASE OlderPosts
      BY <3>4 DEF OlderPosts, HumanChallenge, NftChallenge, PostChallenge, ReleaseAfter, ReleaseHuman, ReleaseNft,
                  Proved, tables
    <3>5. CASE Spaces BY <3>5 DEF Spaces, Register, Ban, Attest, tables
    <3>6. CASE World BY <3>6 DEF World, WriteToken, WriteBan, Transfer, tables
    <3>7. CASE Tick \/ Restart BY <3>7 DEF Tick, Restart, tables
    <3>8. CASE \E r \in Refs : Seal(r) \/ Deposit(r) BY <3>8 DEF Seal, Deposit, Store
    <3> QED BY <1>4, <3>1, <3>2, <3>3, <3>4, <3>5, <3>6, <3>7, <3>8 DEF GateNext
  <2> QED BY <1>3, <1>5, <2>1
<1> DEFINE c == calls[q]
           add == IF c.id[1] = "wallet" THEN [NoClaims EXCEPT !.wallets = {c.id[2]}]
                  ELSE [NoClaims EXCEPT !.poh = c.id[2]]
<1>7. c.id \in Ids BY <1>1, <1>6 DEF OneTry, Connected
<1>8. Grant(c.token, add) BY <1>3, <1>6 DEF Connected
<1>9. \/ add.wallets = {} /\ add.poh \in Humans
      \/ add.poh = Nobody /\ \E w \in Wallets : add.wallets = {w}
  BY <1>7 DEF Ids, NoClaims
<1> HIDE DEF add
<1>10. PICK u \in Tokens : sessions' = [sessions EXCEPT ![u] =
         [claims |-> [poh |-> IF add.poh # Nobody THEN add.poh ELSE Claims(u).poh,
                      wallets |-> Claims(u).wallets \cup add.wallets],
          exp |-> now + SessionTtl]]
  BY <1>8 DEF Grant
<1>11. u = t BY <1>1, <1>2, <1>10 DEF StoredOK
<1>12. Claims(t) = NoClaims BY <1>1, <1>2 DEF Claims
<1>13. /\ sessions'[t].claims.poh = add.poh /\ sessions'[t].claims.wallets = add.wallets
  <2> DEFINE poh == IF add.poh # Nobody THEN add.poh ELSE Claims(u).poh
             both == Claims(u).wallets \cup add.wallets
  <2>1. sessions'[t].claims.poh = poh /\ sessions'[t].claims.wallets = both
    <3> HIDE DEF poh, both
    <3>1. sessions' = [sessions EXCEPT ![t] = [claims |-> [poh |-> poh, wallets |-> both], exp |-> now + SessionTtl]]
      BY <1>10, <1>11 DEF poh, both
    <3> QED BY <1>1, <3>1 DEF StoredOK
  <2>2. NoClaims.poh = Nobody /\ NoClaims.wallets = {} BY DEF NoClaims
  <2>3. poh = add.poh BY <1>11, <1>12, <2>2
  <2>4. both = add.wallets BY <1>11, <1>12, <2>2
  <2> QED BY <2>1, <2>3, <2>4
<1>14. CASE add.wallets = {} /\ add.poh \in Humans
  <2>1. add.poh # Nobody BY <1>14, GateAssumption
  <2>2. Cardinality(add.wallets) = 0 BY <1>14, FS_EmptySet
  <2> QED BY <1>13, <2>1, <2>2
<1>15. CASE add.poh = Nobody /\ \E w \in Wallets : add.wallets = {w}
  <2>1. PICK w \in Wallets : add.wallets = {w} BY <1>15
  <2>2. Cardinality(add.wallets) = 1 BY <2>1, FS_Singleton
  <2> QED BY <1>13, <1>15, <2>2
<1> QED BY <1>9, <1>14, <1>15

\* A session that is renewed after its end holds what was proven since, and
\* nothing that had expired.
THEOREM ExpiredClaimsStayDead == GateSpec => ExpiredClaimsDie
<1>1. GateInv /\ [GateNext]_gateVars =>
        [\A t \in Tokens : sessions[t].exp >= 0 /\ sessions[t].exp <= now /\ sessions'[t].exp > now =>
           Cardinality(sessions'[t].claims.wallets)
             + (IF sessions'[t].claims.poh = Nobody THEN 0 ELSE 1) = 1]_gateVars
  BY RenewedHoldsOne
<1> QED BY GateInvariant, <1>1, PTL DEF GateSpec, ExpiredClaimsDie
=============================================================================
