-------------------------- MODULE SpaceSaleProofs --------------------------
(***************************************************************************)
(* For every number of buyers, names, confirmations, reorganisations, lost  *)
(* answers and restarts: a space is owned only by the key of the one final  *)
(* purchase of its name, and whoever is told that a space is theirs owns    *)
(* it.                                                                      *)
(***************************************************************************)
EXTENDS SpaceSale, TLAPS

\* A name is sold once, as far as the head of the chain goes.
OneSale ==
  \A a, b \in Attempts :
    tx[a] = "success" /\ tx[b] = "success" /\ LabelOf[a] = LabelOf[b] => a = b

\* What the wallet has not sent is nowhere on the chain.
Unsent ==
  \A a \in Attempts : stage[a] \in {"idle", "reading", "keyed", "wallet", "signing"} =>
    tx[a] = "none" /\ height[a] = 0

\* A label whose handler runs is locked.
Locked == \A l \in Labels : ~JobAt(l, "idle") => l \in inFlight

\* A handler serves an attempt at its own label.
JobsServe ==
  \A l \in Labels : ~JobAt(l, "idle") =>
    job[l].attempt \in Attempts /\ LabelOf[job[l].attempt] = l

\* The block of the first receipt is deep enough when the second is read.
WaitedEnough ==
  \A l \in Labels : JobAt(l, "reread") => head - job[l].height + 1 >= Confirmations

\* Past the second receipt the purchase is final.
JobsFinal ==
  \A l \in Labels : job[l].stage \in {"holder", "claim", "sent", "mined"} =>
    Final(job[l].attempt)

ClaimsFinal == \A c \in claims : Final(c.owner) /\ LabelOf[c.owner] = c.label

\* The claim a handler waits for is its own, and the only one it waits for.
AwaitedIsSent ==
  \A c \in claims : c.awaited => JobAt(c.label, "sent") /\ job[c.label].attempt = c.owner

MinedIsOwned == \A l \in Labels : JobAt(l, "mined") => holder[l] = job[l].attempt

IInv ==
  /\ SpaceTypeOK /\ OneSale /\ Unsent
  /\ Locked /\ JobsServe /\ WaitedEnough /\ JobsFinal /\ ClaimsFinal /\ AwaitedIsSent
  /\ MinedIsOwned /\ IssuedIsBought /\ DoneIsOwned

-----------------------------------------------------------------------------

LEMMA Initially == Init => IInv
BY SpaceSaleAssumption DEF Init, IInv, SpaceTypeOK, OneSale, Unsent, Locked, JobsServe,
  WaitedEnough, JobsFinal, ClaimsFinal, AwaitedIsSent, MinedIsOwned, IssuedIsBought, DoneIsOwned,
  JobAt, Job, NoJob, NoKeys, Keys, Stages

\* What is final stays final.
LEMMA FinalStays ==
  ASSUME SpaceTypeOK, NEW a \in Attempts, Final(a),
         UNCHANGED ethereum \/ MineBlock \/ (\E b \in Attempts : MineBuy(b))
           \/ (\E k \in 1 .. Confirmations - 1 : Reorg(k))
  PROVE  Final(a)'
<1>1. tx[a] = "success" /\ head - height[a] + 1 >= Confirmations
  BY DEF Final, Sold
<1>2. CASE UNCHANGED ethereum
  BY <1>1, <1>2 DEF Final, Sold, ethereum
<1>3. CASE MineBlock
  BY <1>1, <1>3, SpaceSaleAssumption DEF Final, Sold, MineBlock, SpaceTypeOK
<1>4. ASSUME NEW b \in Attempts, MineBuy(b) PROVE Final(a)'
  <2>1. a # b /\ tx'[a] = tx[a] /\ height'[a] = height[a] /\ head' = head + 1
    BY <1>1, <1>4 DEF MineBuy, SpaceTypeOK
  <2> QED BY <1>1, <2>1, SpaceSaleAssumption DEF Final, Sold, SpaceTypeOK
<1>5. ASSUME NEW k \in 1 .. Confirmations - 1, Reorg(k) PROVE Final(a)'
  <2>1. ~(height[a] > head - k)
    BY <1>1, SpaceSaleAssumption DEF SpaceTypeOK
  <2>2. tx'[a] = tx[a] /\ height'[a] = height[a] /\ head' = head
    BY <1>5, <2>1 DEF Reorg
  <2> QED BY <1>1, <2>2 DEF Final, Sold
<1> QED BY <1>2, <1>3, <1>4, <1>5

\* Mainnet moves on: the chain keeps its types, and sells a name once.
LEMMA MiningTyped ==
  ASSUME IInv, NEW a \in Attempts, MineBuy(a)
  PROVE  SpaceTypeOK' /\ OneSale'
<1>1. SpaceTypeOK'
  BY SpaceSaleAssumption DEF IInv, SpaceTypeOK, MineBuy, extension, relayer, sepolia
<1>2. ASSUME NEW b \in Attempts, NEW c \in Attempts,
             tx'[b] = "success", tx'[c] = "success", LabelOf[b] = LabelOf[c]
      PROVE  b = c
  <2>1. \A d \in Attempts \ {a} : tx'[d] = tx[d]
    BY DEF MineBuy, IInv, SpaceTypeOK
  <2>2. tx'[a] = "success" => \A d \in Attempts : tx[d] = "success" => LabelOf[d] # LabelOf[a]
    BY DEF MineBuy, IInv, SpaceTypeOK, Taken, Sold
  <2> QED BY <1>2, <2>1, <2>2 DEF IInv, OneSale
<1> QED BY <1>1, <1>2 DEF OneSale

LEMMA ReorgTyped ==
  ASSUME IInv, NEW k \in 1 .. Confirmations - 1, Reorg(k)
  PROVE  SpaceTypeOK' /\ OneSale'
<1> DEFINE out == {a \in Attempts : height[a] > head - k}
<1>1. PICK stay \in SUBSET (out \cap Sold) :
        /\ tx' = [a \in Attempts |-> IF a \in out \ stay THEN "pool" ELSE tx[a]]
        /\ height' = [a \in Attempts |-> IF a \in out \ stay THEN 0 ELSE height[a]]
        /\ fork' = [a \in Attempts |-> IF a \in stay THEN forks + 1 ELSE fork[a]]
  BY DEF Reorg
<1> HIDE DEF out
<1>2. forks' = forks + 1 /\ forks' \in 0 .. MaxReorgs
  BY SpaceSaleAssumption DEF Reorg, IInv, SpaceTypeOK
<1>3. /\ tx' \in [Attempts -> {"none", "pool", "success", "reverted"}]
      /\ height' \in [Attempts -> 0 .. MaxHead]
  BY <1>1, SpaceSaleAssumption DEF IInv, SpaceTypeOK
<1>4. fork' \in [Attempts -> 0 .. MaxReorgs]
  BY <1>1, <1>2 DEF IInv, SpaceTypeOK
<1>5. SpaceTypeOK'
  BY <1>2, <1>3, <1>4 DEF IInv, SpaceTypeOK, Reorg, extension, relayer, sepolia
<1>6. \A a \in Attempts : tx'[a] = "success" => tx[a] = "success"
  BY <1>1
<1> QED BY <1>5, <1>6 DEF IInv, OneSale

\* Nothing but mainnet moves.
LEMMA EthereumKeeps ==
  ASSUME IInv,
         MineBlock \/ (\E a \in Attempts : MineBuy(a))
           \/ (\E k \in 1 .. Confirmations - 1 : Reorg(k))
  PROVE  IInv'
<1>1. SpaceTypeOK' /\ OneSale'
  <2>1. CASE MineBlock
    BY <2>1, SpaceSaleAssumption
       DEF MineBlock, IInv, SpaceTypeOK, OneSale, extension, relayer, sepolia
  <2> QED BY <2>1, MiningTyped, ReorgTyped
<1>2. UNCHANGED <<extension, relayer, sepolia, faults>> /\ head' >= head
  BY SpaceSaleAssumption DEF MineBlock, MineBuy, Reorg, IInv, SpaceTypeOK
<1>3. \A a \in Attempts : Final(a) => Final(a)'
  BY FinalStays DEF IInv
<1>4. Locked' /\ JobsServe' /\ AwaitedIsSent' /\ MinedIsOwned' /\ DoneIsOwned'
  BY <1>2 DEF IInv, Locked, JobsServe, AwaitedIsSent, MinedIsOwned, DoneIsOwned, JobAt,
              extension, relayer, sepolia
<1>5. WaitedEnough'
  BY <1>1, <1>2, SpaceSaleAssumption
     DEF IInv, WaitedEnough, JobAt, SpaceTypeOK, Job, relayer
<1>6. JobsFinal'
  <2> SUFFICES ASSUME NEW l \in Labels, job[l].stage \in {"holder", "claim", "sent", "mined"}
               PROVE  Final(job[l].attempt)'
    BY <1>2 DEF JobsFinal, relayer
  <2>1. job[l].attempt \in Attempts
    BY DEF IInv, JobsServe, JobAt
  <2>2. Final(job[l].attempt) /\ job' = job
    BY <1>2 DEF IInv, JobsFinal, relayer
  <2> QED BY <1>3, <2>1, <2>2 DEF Final, Sold
<1>7. ClaimsFinal'
  BY <1>2, <1>3 DEF IInv, ClaimsFinal, SpaceTypeOK, sepolia
<1>8. IssuedIsBought'
  BY <1>2, <1>3 DEF IInv, IssuedIsBought, SpaceTypeOK, sepolia
<1>9. Unsent'
  <2> SUFFICES ASSUME NEW a \in Attempts,
                      stage[a] \in {"idle", "reading", "keyed", "wallet", "signing"}
               PROVE  tx'[a] = "none" /\ height'[a] = 0
    BY <1>2 DEF Unsent, extension
  <2>1. tx[a] = "none" /\ height[a] = 0
    BY DEF IInv, Unsent
  <2>2. CASE MineBlock
    BY <2>1, <2>2 DEF MineBlock
  <2>3. ASSUME NEW b \in Attempts, MineBuy(b) PROVE tx'[a] = "none" /\ height'[a] = 0
    BY <2>1, <2>3 DEF MineBuy, IInv, SpaceTypeOK
  <2>4. ASSUME NEW k \in 1 .. Confirmations - 1, Reorg(k)
        PROVE  tx'[a] = "none" /\ height'[a] = 0
    BY <2>1, <2>4, SpaceSaleAssumption DEF Reorg, IInv, SpaceTypeOK
  <2> QED BY <2>2, <2>3, <2>4
<1> QED BY <1>1, <1>4, <1>5, <1>6, <1>7, <1>8, <1>9 DEF IInv

-----------------------------------------------------------------------------

\* Neither the chains nor the relayer move, nobody is told anything, and no
\* purchase is taken back: the rest of the invariant is as it was.
LEMMA Elsewhere ==
  ASSUME IInv, SpaceTypeOK', UNCHANGED <<ethereum, relayer, sepolia>>, Unsent',
         \A a \in Attempts : stage'[a] = "done" => stage[a] = "done"
  PROVE  IInv'
BY DEF IInv, OneSale, Locked, JobsServe, WaitedEnough, JobsFinal, ClaimsFinal,
  AwaitedIsSent, MinedIsOwned, IssuedIsBought, DoneIsOwned, JobAt, Final, Sold,
  ethereum, relayer, sepolia

LEMMA FaultsTyped ==
  ASSUME SpaceTypeOK, faults' = faults \/ \E f \in {"ens", "answer", "worker", "rpc", "crash"} : Fault(f)
  PROVE  faults' \in 0 .. MaxFaults
BY SpaceSaleAssumption DEF SpaceTypeOK, Fault

\* What a call does before and after its purchase, without the relayer.
LEMMA CallKeeps ==
  ASSUME IInv, NEW a \in Attempts,
         \/ CheckName(a) \/ NameIsTaken(a) \/ SaveKey(a) \/ Quote(a)
         \/ WalletDeclines(a) \/ GiveUp(a) \/ LoseAnswer(a)
  PROVE  IInv'
<1>1. UNCHANGED <<ethereum, relayer, sepolia>>
  BY DEF CheckName, NameIsTaken, SaveKey, Quote, WalletDeclines, GiveUp, LoseAnswer
<1>2. faults' \in 0 .. MaxFaults
  <2>1. faults' = faults \/ \E f \in {"ens", "answer", "worker", "rpc", "crash"} : Fault(f)
    BY DEF CheckName, NameIsTaken, SaveKey, Quote, WalletDeclines, GiveUp, LoseAnswer
  <2> QED BY <2>1, FaultsTyped DEF IInv
<1>3. PICK s \in {"reading", "keyed", "wallet", "failed", "polling"} : GoTo(a, s)
  BY DEF CheckName, NameIsTaken, SaveKey, Quote, WalletDeclines, GiveUp, LoseAnswer
<1>4. stage' \in [Attempts -> Stages]
  BY <1>3 DEF GoTo, IInv, SpaceTypeOK, Stages
<1>5. seen' \in [Attempts -> Keys] /\ saved' \in [Buyers -> Keys]
  <2>1. seen \in [Attempts -> Keys] /\ saved \in [Buyers -> Keys]
    BY DEF IInv, SpaceTypeOK
  <2>2. CASE CheckName(a)
    BY <2>1, <2>2, SpaceSaleAssumption DEF CheckName
  <2>3. CASE SaveKey(a)
    <3>1. [seen[a] EXCEPT ![LabelOf[a]] = a] \in Keys
      BY <2>1, SpaceSaleAssumption DEF Keys
    <3>2. NoKeys \in Keys
      BY DEF NoKeys, Keys
    <3> QED BY <2>1, <2>3, <3>1, <3>2, SpaceSaleAssumption DEF SaveKey
  <2>4. CASE ~CheckName(a) /\ ~SaveKey(a)
    BY <2>1, <2>4 DEF NameIsTaken, Quote, WalletDeclines, GiveUp, LoseAnswer
  <2> QED BY <2>2, <2>3, <2>4
<1>6. early' \in [Attempts -> BOOLEAN]
  <2>1. early \in [Attempts -> BOOLEAN] /\ EarlyBird \in BOOLEAN
    BY DEF IInv, SpaceTypeOK, EarlyBird
  <2>2. CASE Quote(a)
    <3>1. PICK e \in BOOLEAN : early' = [early EXCEPT ![a] = e]
      BY <2>1, <2>2, Zenon DEF Quote
    <3> QED BY <2>1, <3>1
  <2>3. CASE ~Quote(a)
    BY <2>1, <2>3 DEF CheckName, NameIsTaken, SaveKey, WalletDeclines, GiveUp, LoseAnswer
  <2> QED BY <2>2, <2>3
<1>7. polls' = polls
  BY DEF CheckName, NameIsTaken, SaveKey, Quote, WalletDeclines, GiveUp, LoseAnswer
<1>8. SpaceTypeOK'
  BY <1>1, <1>2, <1>4, <1>5, <1>6, <1>7
     DEF IInv, SpaceTypeOK, ethereum, relayer, sepolia
<1>9. Unsent'
  <2>1. stage[a] \in {"idle", "reading", "keyed", "wallet"} \/ s \in {"failed", "polling"}
    BY <1>3 DEF CheckName, NameIsTaken, SaveKey, Quote, WalletDeclines, GiveUp, LoseAnswer,
                GoTo, At, IInv, SpaceTypeOK
  <2>2. UNCHANGED <<tx, height>>
    BY <1>1 DEF ethereum
  <2> QED BY <1>3, <2>1, <2>2 DEF GoTo, IInv, SpaceTypeOK, Unsent
<1> QED BY <1>1, <1>3, <1>8, <1>9, Elsewhere DEF GoTo, IInv, SpaceTypeOK

LEMMA StopKeeps ==
  ASSUME IInv, NEW b \in Buyers, StopWorker(b)
  PROVE  IInv'
<1>1. UNCHANGED <<seen, saved, early, polls, ethereum, relayer, sepolia>>
  BY DEF StopWorker
<1>2. faults' \in 0 .. MaxFaults
  BY FaultsTyped DEF StopWorker, IInv
<1>3. stage' \in [Attempts -> Stages]
  BY DEF StopWorker, IInv, SpaceTypeOK, Stages
<1>4. SpaceTypeOK'
  BY <1>1, <1>2, <1>3 DEF IInv, SpaceTypeOK, ethereum, relayer, sepolia
<1>5. Unsent'
  BY <1>1 DEF StopWorker, IInv, Unsent, SpaceTypeOK, ethereum
<1>6. \A a \in Attempts : stage'[a] = "done" => stage[a] = "done"
  BY DEF StopWorker
<1> QED BY <1>1, <1>4, <1>5, <1>6, Elsewhere

\* The wallet's transaction is new.
LEMMA PaymentKeeps ==
  ASSUME IInv, NEW a \in Attempts, WalletPays(a)
  PROVE  IInv'
<1>1. tx[a] = "none" /\ tx' = [tx EXCEPT ![a] = "pool"]
  BY DEF WalletPays, At, IInv, Unsent
<1>2. PICK s \in {"polling", "dead"} : stage' = [stage EXCEPT ![a] = s]
  BY DEF WalletPays, GoTo
<1>3. UNCHANGED <<seen, saved, early, polls, height, fork, head, forks, relayer, sepolia, faults>>
  BY DEF WalletPays
<1>4. SpaceTypeOK'
  BY <1>1, <1>2, <1>3 DEF IInv, SpaceTypeOK, Stages, relayer, sepolia
<1>5. \A b \in Attempts : (Final(b) => Final(b)') /\ (tx'[b] = "success" <=> tx[b] = "success")
  BY <1>1, <1>3 DEF Final, Sold, IInv, SpaceTypeOK
<1>6. OneSale'
  BY <1>5 DEF IInv, OneSale
<1>7. Unsent'
  BY <1>1, <1>2, <1>3 DEF IInv, SpaceTypeOK, Unsent
<1>8. Locked' /\ JobsServe' /\ AwaitedIsSent' /\ MinedIsOwned' /\ WaitedEnough'
  BY <1>3 DEF IInv, Locked, JobsServe, AwaitedIsSent, MinedIsOwned, WaitedEnough, JobAt,
              relayer, sepolia
<1>9. JobsFinal'
  BY <1>3, <1>5 DEF IInv, JobsFinal, JobsServe, JobAt, relayer
<1>10. ClaimsFinal' /\ IssuedIsBought'
  BY <1>3, <1>5 DEF IInv, ClaimsFinal, IssuedIsBought, SpaceTypeOK, sepolia
<1>11. DoneIsOwned'
  BY <1>2, <1>3 DEF IInv, DoneIsOwned, SpaceTypeOK, sepolia
<1> QED BY <1>4, <1>6, <1>7, <1>8, <1>9, <1>10, <1>11 DEF IInv

\* A request is refused, or locks its label and starts a handler.
LEMMA PostKeeps ==
  ASSUME IInv, NEW a \in Attempts, Post(a)
  PROVE  IInv'
<1> DEFINE l == LabelOf[a]
<1>1. l \in Labels
  BY SpaceSaleAssumption
<1>2. UNCHANGED <<seen, saved, early, ethereum, sepolia, faults>>
  BY DEF Post
<1>3. polls' \in [Attempts -> 0 .. MaxPolls]
  BY SpaceSaleAssumption DEF Post, IInv, SpaceTypeOK
<1>4. PICK s \in {"failed", "asked"} : stage' = [stage EXCEPT ![a] = s]
  BY DEF Post, GoTo
<1>5. stage' \in [Attempts -> Stages]
  BY <1>4 DEF IInv, SpaceTypeOK, Stages
<1>6. Unsent' /\ \A b \in Attempts : stage'[b] = "done" => stage[b] = "done"
  BY <1>2, <1>4 DEF IInv, Unsent, SpaceTypeOK, ethereum
<1>7. CASE l \in inFlight
  <2>1. UNCHANGED relayer
    BY <1>7 DEF Post
  <2>2. SpaceTypeOK'
    BY <1>2, <1>3, <1>5, <2>1 DEF IInv, SpaceTypeOK, ethereum, relayer, sepolia
  <2> QED BY <1>2, <1>6, <2>1, <2>2, Elsewhere
<1>8. CASE l \notin inFlight
  <2>1. /\ inFlight' = inFlight \cup {l}
        /\ job' = [job EXCEPT ![l] = [NoJob EXCEPT !.stage = "receipt", !.attempt = a]]
    BY <1>8 DEF Post
  <2>2. JobAt(l, "idle")
    BY <1>1, <1>8 DEF IInv, Locked
  <2>3. [NoJob EXCEPT !.stage = "receipt", !.attempt = a] \in Job
    <3>1. NoJob \in Job
      BY SpaceSaleAssumption DEF NoJob, Job
    <3> QED BY <3>1 DEF Job
  <2>4. /\ job' \in [Labels -> Job]
        /\ job'[l].stage = "receipt" /\ job'[l].attempt = a
        /\ \A k \in Labels \ {l} : job'[k] = job[k]
    BY <1>1, <2>1, <2>3 DEF IInv, SpaceTypeOK, NoJob
  <2> HIDE DEF l
  <2>5. SpaceTypeOK'
    BY <1>1, <1>2, <1>3, <1>5, <2>1, <2>4 DEF IInv, SpaceTypeOK, ethereum, sepolia
  <2>6. OneSale' /\ IssuedIsBought' /\ ClaimsFinal' /\ DoneIsOwned'
    BY <1>2, <1>6 DEF IInv, OneSale, IssuedIsBought, ClaimsFinal, DoneIsOwned, Final, Sold,
                      ethereum, sepolia
  <2>7. Locked' /\ JobsServe'
    BY <2>1, <2>4 DEF IInv, Locked, JobsServe, JobAt, l
  <2>8. WaitedEnough' /\ JobsFinal' /\ MinedIsOwned'
    BY <1>2, <2>4 DEF IInv, WaitedEnough, JobsFinal, MinedIsOwned, JobAt, Final, Sold,
                      ethereum, sepolia
  <2>9. AwaitedIsSent'
    BY <1>2, <2>2, <2>4 DEF IInv, AwaitedIsSent, JobAt, SpaceTypeOK, sepolia
  <2> QED BY <1>6, <2>5, <2>6, <2>7, <2>8, <2>9 DEF IInv
<1> QED BY <1>7, <1>8

-----------------------------------------------------------------------------

\* A handler answers and releases its label.  It may leave a claim behind.
LEMMA AnswerKeeps ==
  ASSUME IInv, NEW l \in Labels, ~JobAt(l, "idle"),
         NEW s \in {"polling", "failed", "done"}, Answer(l, s),
         s = "done" => holder[l] = job[l].attempt,
         UNCHANGED <<ethereum, holder>>, faults' \in 0 .. MaxFaults,
         claims' \subseteq [label : Labels, owner : Attempts, awaited : BOOLEAN],
         \A c \in claims' : \E d \in claims : c.label = d.label /\ c.owner = d.owner,
         \A c \in claims' : c.awaited => c \in claims /\ c.label # l
  PROVE  IInv'
<1> DEFINE a == job[l].attempt
<1>1. a \in Attempts /\ LabelOf[a] = l
  BY DEF IInv, JobsServe
<1>2. /\ job' = [job EXCEPT ![l] = NoJob] /\ inFlight' = inFlight \ {l}
      /\ stage' = (IF At(a, "asked") THEN [stage EXCEPT ![a] = s] ELSE stage)
      /\ UNCHANGED <<seen, saved, early, polls>>
  BY DEF Answer
<1>3. NoJob \in Job
  BY SpaceSaleAssumption DEF NoJob, Job
<1>4. /\ job' \in [Labels -> Job] /\ job'[l].stage = "idle"
      /\ \A k \in Labels \ {l} : job'[k] = job[k]
  BY <1>2, <1>3 DEF IInv, SpaceTypeOK, NoJob
<1> HIDE DEF a
<1>5. /\ stage' \in [Attempts -> Stages]
      /\ stage'[a] \in {stage[a], s} /\ (stage'[a] # stage[a] => stage[a] = "asked")
      /\ \A b \in Attempts \ {a} : stage'[b] = stage[b]
  BY <1>1, <1>2 DEF IInv, SpaceTypeOK, Stages, At
<1>6. SpaceTypeOK'
  BY <1>2, <1>4, <1>5 DEF IInv, SpaceTypeOK, ethereum
<1>7. OneSale' /\ IssuedIsBought'
  BY DEF IInv, OneSale, IssuedIsBought, Final, Sold, ethereum
<1>8. Unsent'
  BY <1>1, <1>5 DEF IInv, Unsent, ethereum
<1>9. Locked' /\ JobsServe' /\ WaitedEnough' /\ JobsFinal' /\ MinedIsOwned'
  BY <1>2, <1>4 DEF IInv, Locked, JobsServe, WaitedEnough, JobsFinal, MinedIsOwned, JobAt,
                    Final, Sold, ethereum
<1>10. ClaimsFinal'
  BY DEF IInv, ClaimsFinal, Final, Sold, ethereum
<1>11. AwaitedIsSent'
  BY <1>4 DEF IInv, AwaitedIsSent, SpaceTypeOK, JobAt
<1>12. DoneIsOwned'
  BY <1>1, <1>5 DEF IInv, DoneIsOwned, a
<1> QED BY <1>6, <1>7, <1>8, <1>9, <1>10, <1>11, <1>12 DEF IInv

\* The same when no claim is left behind.
LEMMA PlainAnswerKeeps ==
  ASSUME IInv, NEW l \in Labels, ~JobAt(l, "idle"), ~JobAt(l, "sent"),
         NEW s \in {"polling", "failed", "done"}, Answer(l, s),
         s = "done" => holder[l] = job[l].attempt,
         UNCHANGED <<ethereum, sepolia>>, faults' \in 0 .. MaxFaults
  PROVE  IInv'
<1>1. UNCHANGED <<ethereum, holder>> /\ claims' = claims
  BY DEF sepolia
<1>2. \A c \in claims : c.awaited => c.label # l
  BY DEF IInv, AwaitedIsSent
<1> QED BY <1>1, <1>2, AnswerKeeps DEF IInv, SpaceTypeOK

\* A handler goes on.  It may have sent a claim.
LEMMA AdvanceKeeps ==
  ASSUME IInv, NEW l \in Labels, ~JobAt(l, "idle"), ~JobAt(l, "sent"),
         NEW s \in {"reread", "holder", "claim", "sent"}, Advance(l, s),
         s = "reread" => head - job[l].height + 1 >= Confirmations,
         s # "reread" => Final(job[l].attempt),
         UNCHANGED <<extension, ethereum, holder, faults>>,
         \/ claims' = claims
         \/ /\ s = "sent"
            /\ claims' = claims \cup {[label |-> l, owner |-> job[l].attempt, awaited |-> TRUE]}
  PROVE  IInv'
<1>1. job[l].attempt \in Attempts /\ LabelOf[job[l].attempt] = l
  BY DEF IInv, JobsServe
<1>2. job' = [job EXCEPT ![l].stage = s] /\ inFlight' = inFlight
  BY DEF Advance
<1>3. /\ job' \in [Labels -> Job]
      /\ job'[l].stage = s /\ job'[l].attempt = job[l].attempt /\ job'[l].height = job[l].height
      /\ \A k \in Labels \ {l} : job'[k] = job[k]
  BY <1>2 DEF IInv, SpaceTypeOK, Job
<1>4. claims' \subseteq [label : Labels, owner : Attempts, awaited : BOOLEAN]
  <2>1. [label |-> l, owner |-> job[l].attempt, awaited |-> TRUE]
          \in [label : Labels, owner : Attempts, awaited : BOOLEAN]
    BY <1>1
  <2>2. claims \subseteq [label : Labels, owner : Attempts, awaited : BOOLEAN]
    BY DEF IInv, SpaceTypeOK
  <2>3. \/ claims' = claims
        \/ claims' = claims \cup {[label |-> l, owner |-> job[l].attempt, awaited |-> TRUE]}
    OBVIOUS
  <2> QED BY <2>1, <2>2, <2>3, Zenon
<1>5. SpaceTypeOK'
  BY <1>2, <1>3, <1>4 DEF IInv, SpaceTypeOK, extension, ethereum
<1>6. OneSale' /\ IssuedIsBought' /\ Unsent' /\ DoneIsOwned'
  BY DEF IInv, OneSale, IssuedIsBought, Unsent, DoneIsOwned, Final, Sold, extension, ethereum
<1>7. Locked' /\ JobsServe' /\ MinedIsOwned'
  BY <1>1, <1>2, <1>3 DEF IInv, Locked, JobsServe, MinedIsOwned, JobAt
<1>8. WaitedEnough'
  BY <1>3 DEF IInv, WaitedEnough, JobAt, ethereum
<1>9. JobsFinal'
  BY <1>3 DEF IInv, JobsFinal, Final, Sold, ethereum
<1>10. ClaimsFinal'
  BY <1>1 DEF IInv, ClaimsFinal, Final, Sold, ethereum
<1>11. AwaitedIsSent'
  BY <1>3 DEF IInv, AwaitedIsSent, SpaceTypeOK, JobAt
<1> QED BY <1>5, <1>6, <1>7, <1>8, <1>9, <1>10, <1>11 DEF IInv

\* Claims that are no longer waited for are the same claims.
LEMMA Left ==
  ASSUME SpaceTypeOK, NEW ls
  PROVE  /\ Leave(ls) \subseteq [label : Labels, owner : Attempts, awaited : BOOLEAN]
         /\ \A c \in Leave(ls) : \E d \in claims : c.label = d.label /\ c.owner = d.owner
         /\ \A c \in Leave(ls) : c.awaited => c \in claims /\ c.label \notin ls
<1>1. ASSUME NEW c \in Leave(ls)
      PROVE  /\ c \in [label : Labels, owner : Attempts, awaited : BOOLEAN]
             /\ \E d \in claims : c.label = d.label /\ c.owner = d.owner
             /\ c.awaited => c \in claims /\ c.label \notin ls
  <2>1. PICK d \in claims : c = IF d.label \in ls THEN [d EXCEPT !.awaited = FALSE] ELSE d
    BY DEF Leave
  <2>2. d \in [label : Labels, owner : Attempts, awaited : BOOLEAN]
    BY DEF SpaceTypeOK
  <2>3. CASE d.label \in ls
    <3>1. c = [d EXCEPT !.awaited = FALSE]
      BY <2>1, <2>3
    <3>2. /\ c \in [label : Labels, owner : Attempts, awaited : BOOLEAN]
          /\ c.label = d.label /\ c.owner = d.owner /\ ~c.awaited
      BY <2>2, <3>1
    <3> QED BY <3>2
  <2>4. CASE d.label \notin ls
    BY <2>1, <2>2, <2>4
  <2> QED BY <2>3, <2>4
<1> QED BY <1>1

\* The first receipt is found.
LEMMA ReceiptKeeps ==
  ASSUME IInv, NEW l \in Labels, JobAt(l, "receipt"),
         job' = [job EXCEPT ![l] = [@ EXCEPT !.stage = "confirm",
                   !.height = height[job[l].attempt], !.fork = fork[job[l].attempt]]],
         UNCHANGED <<inFlight, extension, ethereum, sepolia, faults>>
  PROVE  IInv'
<1>1. job[l].attempt \in Attempts /\ LabelOf[job[l].attempt] = l
  BY DEF IInv, JobsServe, JobAt
<1>2. /\ job' \in [Labels -> Job]
      /\ job'[l].stage = "confirm" /\ job'[l].attempt = job[l].attempt
      /\ \A k \in Labels \ {l} : job'[k] = job[k]
  BY <1>1 DEF IInv, SpaceTypeOK, Job
<1>3. SpaceTypeOK'
  BY <1>2 DEF IInv, SpaceTypeOK, extension, ethereum, sepolia
<1>4. OneSale' /\ IssuedIsBought' /\ Unsent' /\ DoneIsOwned' /\ ClaimsFinal'
  BY DEF IInv, OneSale, IssuedIsBought, Unsent, DoneIsOwned, ClaimsFinal, Final, Sold,
         extension, ethereum, sepolia
<1>5. Locked' /\ JobsServe' /\ MinedIsOwned' /\ WaitedEnough' /\ JobsFinal'
  BY <1>1, <1>2 DEF IInv, Locked, JobsServe, MinedIsOwned, WaitedEnough, JobsFinal, JobAt,
         Final, Sold, ethereum, sepolia
<1>6. AwaitedIsSent'
  BY <1>2 DEF IInv, AwaitedIsSent, SpaceTypeOK, JobAt, sepolia
<1> QED BY <1>3, <1>4, <1>5, <1>6 DEF IInv

LEMMA HandlerKeeps ==
  ASSUME IInv, NEW l \in Labels, Handler(l)
  PROVE  IInv'
<1> DEFINE a == job[l].attempt
<1>1. faults' \in 0 .. MaxFaults
  <2>1. faults' = faults \/ \E f \in {"ens", "answer", "worker", "rpc", "crash"} : Fault(f)
    BY DEF Handler, ReadReceipt, AwaitConfirmations, ConfirmTimeout, Reread, ReadHolder,
           SendClaim, ClaimReceipt, ClaimTimeout, CallFails
  <2> QED BY <2>1, FaultsTyped DEF IInv
<1>2. CASE ReadReceipt(l)
  <2>1. UNCHANGED <<ethereum, sepolia, faults>> /\ JobAt(l, "receipt")
    BY <1>2 DEF ReadReceipt
  <2>2. CASE Answer(l, "failed") \/ Answer(l, "polling")
    BY <1>1, <2>1, <2>2, PlainAnswerKeeps DEF JobAt
  <2>3. CASE ~Answer(l, "failed") /\ ~Answer(l, "polling")
    BY <1>2, <2>1, <2>3, ReceiptKeeps DEF ReadReceipt
  <2> QED BY <2>2, <2>3
<1>3. CASE AwaitConfirmations(l)
  <2>1. /\ JobAt(l, "confirm") /\ head - job[l].height + 1 >= Confirmations
        /\ Advance(l, "reread")
        /\ UNCHANGED <<extension, ethereum, holder, faults>> /\ claims' = claims
    BY <1>3 DEF AwaitConfirmations, sepolia
  <2> QED BY <2>1, AdvanceKeeps DEF JobAt
<1>4. CASE ConfirmTimeout(l)
  BY <1>1, <1>4, PlainAnswerKeeps DEF ConfirmTimeout, JobAt
<1>5. CASE Reread(l)
  <2>1. JobAt(l, "reread") /\ UNCHANGED <<ethereum, sepolia, faults>>
    BY <1>5 DEF Reread
  <2>2. CASE tx[a] = "success" /\ height[a] = job[l].height /\ fork[a] = job[l].fork
    <3>1. Advance(l, "holder") /\ UNCHANGED <<extension, ethereum, holder, faults>>
            /\ claims' = claims
      BY <1>5, <2>2 DEF Reread, sepolia
    <3>2. Final(a)
      BY <2>1, <2>2 DEF IInv, JobsServe, WaitedEnough, JobAt, Final, Sold
    <3> QED BY <2>1, <3>1, <3>2, AdvanceKeeps DEF JobAt
  <2>3. CASE ~(tx[a] = "success" /\ height[a] = job[l].height /\ fork[a] = job[l].fork)
    <3>1. Answer(l, "failed")
      BY <1>5, <2>3 DEF Reread
    <3> QED BY <1>1, <2>1, <3>1, PlainAnswerKeeps DEF JobAt
  <2> QED BY <2>2, <2>3
<1>6. CASE ReadHolder(l)
  <2>1. JobAt(l, "holder") /\ UNCHANGED <<ethereum, sepolia, faults>>
    BY <1>6 DEF ReadHolder
  <2>2. CASE holder[l] = a
    <3>1. holder[l] # None
      BY <2>1, <2>2, SpaceSaleAssumption DEF IInv, JobsServe, JobAt
    <3>2. Answer(l, "done")
      BY <1>6, <2>2, <3>1 DEF ReadHolder
    <3> QED BY <1>1, <2>1, <2>2, <3>2, PlainAnswerKeeps DEF JobAt
  <2>3. CASE holder[l] # a /\ holder[l] = None
    <3>1. Advance(l, "claim") /\ UNCHANGED <<extension, ethereum, holder, faults>>
            /\ claims' = claims
      BY <1>6, <2>3 DEF ReadHolder, sepolia
    <3>2. Final(a)
      BY <2>1 DEF IInv, JobsFinal, JobAt
    <3> QED BY <2>1, <3>1, <3>2, AdvanceKeeps DEF JobAt
  <2>4. CASE holder[l] # a /\ holder[l] # None
    <3>1. Answer(l, "failed")
      BY <1>6, <2>4 DEF ReadHolder
    <3> QED BY <1>1, <2>1, <3>1, PlainAnswerKeeps DEF JobAt
  <2> QED BY <2>2, <2>3, <2>4
<1>7. CASE SendClaim(l)
  <2>1. JobAt(l, "claim") /\ UNCHANGED <<ethereum, holder, faults>>
    BY <1>7 DEF SendClaim
  <2>2. Final(a)
    BY <2>1 DEF IInv, JobsFinal, JobAt
  <2>3. CASE holder[l] = None
    <3>1. /\ Advance(l, "sent") /\ UNCHANGED <<extension, ethereum, holder, faults>>
          /\ claims' = claims \cup {[label |-> l, owner |-> a, awaited |-> TRUE]}
      BY <1>7, <2>3 DEF SendClaim
    <3> QED BY <2>1, <2>2, <3>1, AdvanceKeeps DEF JobAt
  <2>4. CASE holder[l] # None
    <3>1. Answer(l, "failed") /\ UNCHANGED <<ethereum, sepolia>>
      BY <1>7, <2>4 DEF SendClaim, sepolia
    <3> QED BY <1>1, <2>1, <3>1, PlainAnswerKeeps DEF JobAt
  <2> QED BY <2>3, <2>4
<1>8. CASE ClaimReceipt(l)
  <2>1. UNCHANGED <<ethereum, sepolia, faults>>
    BY <1>8 DEF ClaimReceipt
  <2>2. CASE JobAt(l, "mined") /\ Answer(l, "done")
    <3>1. holder[l] = a
      BY <2>2 DEF IInv, MinedIsOwned
    <3> QED BY <1>1, <2>1, <2>2, <3>1, PlainAnswerKeeps DEF JobAt
  <2>3. CASE JobAt(l, "reverted") /\ Answer(l, "failed")
    BY <1>1, <2>1, <2>3, PlainAnswerKeeps DEF JobAt
  <2> QED BY <1>8, <2>2, <2>3 DEF ClaimReceipt
<1>9. CASE ClaimTimeout(l)
  <2>1. JobAt(l, "sent") /\ Answer(l, "polling") /\ claims' = Leave({l})
          /\ UNCHANGED <<ethereum, holder>>
    BY <1>9 DEF ClaimTimeout
  <2>2. /\ claims' \subseteq [label : Labels, owner : Attempts, awaited : BOOLEAN]
        /\ \A c \in claims' : \E d \in claims : c.label = d.label /\ c.owner = d.owner
        /\ \A c \in claims' : c.awaited => c \in claims /\ c.label # l
    BY <2>1, Left DEF IInv
  <2> QED BY <1>1, <2>1, <2>2, AnswerKeeps DEF JobAt
<1>10. CASE CallFails(l)
  <2>1. job[l].stage \in {"receipt", "confirm", "reread", "holder", "claim"}
          /\ (Answer(l, "polling") \/ Answer(l, "failed")) /\ UNCHANGED <<ethereum, sepolia>>
    BY <1>10 DEF CallFails
  <2> QED BY <1>1, <2>1, PlainAnswerKeeps DEF JobAt
<1> QED BY <1>2, <1>3, <1>4, <1>5, <1>6, <1>7, <1>8, <1>9, <1>10 DEF Handler

\* A claim is mined: the registrar gives a free label to a final purchase, and
\* a handler that waits for its own claim learns what became of it.
LEMMA MineClaimKeeps ==
  ASSUME IInv, NEW c \in claims, MineClaim(c)
  PROVE  IInv'
<1> DEFINE won == holder[c.label] = None
           l == c.label
<1>1. /\ c \in [label : Labels, owner : Attempts, awaited : BOOLEAN]
      /\ l \in Labels /\ c.owner \in Attempts /\ c.owner # None
  BY SpaceSaleAssumption DEF IInv, SpaceTypeOK
<1>2. /\ claims' = claims \ {c} /\ UNCHANGED <<extension, ethereum, faults>>
      /\ holder' = (IF won THEN [holder EXCEPT ![l] = c.owner] ELSE holder)
  BY DEF MineClaim
<1>3. Final(c.owner) /\ LabelOf[c.owner] = l
  BY DEF IInv, ClaimsFinal
<1>4. /\ holder' \in [Labels -> Attempts \cup {None}]
      /\ \A k \in Labels : holder'[k] # holder[k] => k = l /\ holder[k] = None /\ holder'[k] = c.owner
      /\ won => holder'[l] = c.owner
  BY <1>1, <1>2 DEF IInv, SpaceTypeOK
<1>5. /\ inFlight' = inFlight /\ job' \in [Labels -> Job]
      /\ \A k \in Labels : job'[k].attempt = job[k].attempt /\ job'[k].height = job[k].height
      /\ \A k \in Labels : job'[k].stage # job[k].stage =>
           /\ k = l /\ c.awaited
           /\ job'[k].stage \in {"mined", "reverted"} /\ (job'[k].stage = "mined" => won)
      /\ c.awaited => job'[l].stage # "sent"
  <2>1. CASE c.awaited
    <3>1. PICK s \in {"mined", "reverted"} : Advance(l, s) /\ (s = "mined" => won)
      BY <2>1 DEF MineClaim
    <3>2. job' = [job EXCEPT ![l].stage = s] /\ inFlight' = inFlight
      BY <3>1 DEF Advance
    <3> QED BY <1>1, <2>1, <3>1, <3>2 DEF IInv, SpaceTypeOK, Job
  <2>2. CASE ~c.awaited
    BY <2>2 DEF MineClaim, relayer, IInv, SpaceTypeOK
  <2> QED BY <2>1, <2>2
<1> HIDE DEF won, l
<1>6. SpaceTypeOK'
  BY <1>2, <1>4, <1>5 DEF IInv, SpaceTypeOK, extension, ethereum
<1>7. OneSale' /\ Unsent'
  BY <1>2 DEF IInv, OneSale, Unsent, extension, ethereum
<1>8. WaitedEnough'
  BY <1>2, <1>5 DEF IInv, WaitedEnough, JobAt, ethereum
<1>9. c.awaited => job[l].stage = "sent" /\ job[l].attempt = c.owner
  BY DEF IInv, AwaitedIsSent, JobAt, l
<1>10. Locked' /\ JobsServe'
  BY <1>1, <1>5, <1>9 DEF IInv, Locked, JobsServe, JobAt
<1>11. JobsFinal'
  BY <1>2, <1>5, <1>9 DEF IInv, JobsFinal, Final, Sold, ethereum
<1>12. ClaimsFinal'
  BY <1>2 DEF IInv, ClaimsFinal, Final, Sold, ethereum
<1>13. AwaitedIsSent'
  <2> SUFFICES ASSUME NEW d \in claims', d.awaited
               PROVE  job'[d.label].stage = "sent" /\ job'[d.label].attempt = d.owner
    BY DEF AwaitedIsSent, JobAt
  <2>1. d \in claims /\ d # c /\ d \in [label : Labels, owner : Attempts, awaited : BOOLEAN]
    BY <1>2 DEF IInv, SpaceTypeOK
  <2>2. job[d.label].stage = "sent" /\ job[d.label].attempt = d.owner
    BY <2>1 DEF IInv, AwaitedIsSent, JobAt
  <2>3. ~(d.label = l /\ c.awaited)
    BY <1>1, <1>9, <2>1, <2>2 DEF l
  <2> QED BY <1>5, <2>1, <2>2, <2>3
<1>14. MinedIsOwned'
  <2> SUFFICES ASSUME NEW k \in Labels, job'[k].stage = "mined"
               PROVE  holder'[k] = job'[k].attempt
    BY DEF MinedIsOwned, JobAt
  <2>1. CASE job[k].stage = "mined"
    <3>1. holder[k] = job[k].attempt /\ job[k].attempt \in Attempts
      BY <2>1 DEF IInv, MinedIsOwned, JobsServe, JobAt
    <3> QED BY <1>4, <1>5, <3>1, SpaceSaleAssumption
  <2>2. CASE job[k].stage # "mined"
    BY <1>4, <1>5, <1>9, <2>2
  <2> QED BY <2>1, <2>2
<1>15. IssuedIsBought'
  BY <1>2, <1>3, <1>4 DEF IInv, IssuedIsBought, Final, Sold, ethereum
<1>16. DoneIsOwned'
  <2> SUFFICES ASSUME NEW a \in Attempts, stage'[a] = "done"
               PROVE  holder'[LabelOf[a]] = a
    BY DEF DoneIsOwned
  <2>1. holder[LabelOf[a]] = a /\ a # None /\ LabelOf[a] \in Labels
    BY <1>2, SpaceSaleAssumption DEF IInv, DoneIsOwned, extension
  <2> QED BY <1>4, <2>1
<1> QED BY <1>6, <1>7, <1>8, <1>10, <1>11, <1>12, <1>13, <1>14, <1>15, <1>16 DEF IInv

\* A restart forgets the handlers, and no claim is waited for any more.
LEMMA CrashKeeps ==
  ASSUME IInv, Crash
  PROVE  IInv'
<1>1. /\ job' = [l \in Labels |-> NoJob] /\ inFlight' = {} /\ claims' = Leave(Labels)
      /\ stage' = [a \in Attempts |-> IF At(a, "asked") THEN "polling" ELSE stage[a]]
      /\ UNCHANGED <<seen, saved, early, polls, ethereum, holder>>
  BY DEF Crash
<1>2. faults' \in 0 .. MaxFaults
  BY FaultsTyped DEF Crash, IInv
<1>3. NoJob \in Job /\ NoJob.stage = "idle"
  BY SpaceSaleAssumption DEF NoJob, Job
<1>4. /\ claims' \subseteq [label : Labels, owner : Attempts, awaited : BOOLEAN]
      /\ \A c \in claims' : ~c.awaited
      /\ \A c \in claims' : \E d \in claims : c.label = d.label /\ c.owner = d.owner
  <2>1. \A c \in claims' : c.awaited => c.label \notin Labels
    BY <1>1, Left DEF IInv
  <2>2. claims' \subseteq [label : Labels, owner : Attempts, awaited : BOOLEAN]
    BY <1>1, Left DEF IInv
  <2>3. \A c \in claims' : \E d \in claims : c.label = d.label /\ c.owner = d.owner
    BY <1>1, Left DEF IInv
  <2> QED BY <2>1, <2>2, <2>3
<1>5. stage' \in [Attempts -> Stages]
  BY <1>1 DEF IInv, SpaceTypeOK, Stages
<1>6. SpaceTypeOK'
  BY <1>1, <1>2, <1>3, <1>4, <1>5 DEF IInv, SpaceTypeOK, ethereum
<1>7. OneSale' /\ Unsent' /\ IssuedIsBought' /\ ClaimsFinal' /\ DoneIsOwned'
  BY <1>1, <1>4 DEF IInv, OneSale, Unsent, IssuedIsBought, ClaimsFinal, DoneIsOwned, Final, Sold,
                    ethereum, SpaceTypeOK
<1>8. /\ Locked' /\ JobsServe' /\ WaitedEnough' /\ JobsFinal' /\ MinedIsOwned'
      /\ AwaitedIsSent'
  BY <1>1, <1>3, <1>4 DEF Locked, JobsServe, WaitedEnough, JobsFinal, MinedIsOwned, AwaitedIsSent,
                    JobAt
<1> QED BY <1>6, <1>7, <1>8 DEF IInv

LEMMA EveryStep == IInv /\ [Next]_vars => IInv'
<1> SUFFICES ASSUME IInv, [Next]_vars PROVE IInv' OBVIOUS
<1>1. CASE UNCHANGED vars
  <2>1. UNCHANGED <<extension, ethereum, relayer, sepolia, faults>>
    BY <1>1 DEF vars
  <2>2. SpaceTypeOK' /\ Unsent'
    BY <2>1 DEF IInv, SpaceTypeOK, Unsent, extension, ethereum, relayer, sepolia
  <2> QED BY <2>1, <2>2, Elsewhere DEF extension
<1>2. ASSUME NEW a \in Attempts, Buying(a) PROVE IInv'
  BY <1>2, CallKeeps, PaymentKeeps, PostKeeps DEF Buying
<1>3. CASE MineBlock \/ (\E a \in Attempts : MineBuy(a))
             \/ (\E k \in 1 .. Confirmations - 1 : Reorg(k))
  BY <1>3, EthereumKeeps
<1>4. ASSUME NEW b \in Buyers, StopWorker(b) PROVE IInv'
  BY <1>4, StopKeeps
<1>5. ASSUME NEW l \in Labels, Handler(l) PROVE IInv'
  BY <1>5, HandlerKeeps
<1>6. ASSUME NEW c \in claims, MineClaim(c) PROVE IInv'
  BY <1>6, MineClaimKeeps
<1>7. CASE Crash
  BY <1>7, CrashKeeps
<1> QED BY <1>1, <1>2, <1>3, <1>4, <1>5, <1>6, <1>7 DEF Next

\* However purchases, reorganisations, retries, timeouts and restarts
\* interleave: a space is owned only by the key of a final purchase of its name.
THEOREM OwnersHaveBought == Spec => []IssuedIsBought
<1>1. IInv => IssuedIsBought BY DEF IInv
<1> QED BY Initially, EveryStep, <1>1, PTL DEF Spec

\* Whoever has paid for good is never passed over for another buyer.
THEOREM PaidAreServed == Spec => []BuyerIsServed
<1>1. IInv => BuyerIsServed
  <2> SUFFICES ASSUME IInv, NEW a \in Attempts, Final(a), holder[LabelOf[a]] # None
               PROVE  holder[LabelOf[a]] = a
    BY DEF BuyerIsServed
  <2>1. holder[LabelOf[a]] \in Attempts /\ LabelOf[a] \in Labels
    BY SpaceSaleAssumption DEF IInv, SpaceTypeOK
  <2>2. Final(holder[LabelOf[a]]) /\ LabelOf[holder[LabelOf[a]]] = LabelOf[a]
    BY <2>1 DEF IInv, IssuedIsBought
  <2> QED BY <2>1, <2>2 DEF IInv, OneSale, Final, Sold
<1> QED BY Initially, EveryStep, <1>1, PTL DEF Spec

\* Whoever is told "x is yours" owns it.
THEOREM ToldIsTrue == Spec => []DoneIsOwned
<1>1. IInv => DoneIsOwned BY DEF IInv
<1> QED BY Initially, EveryStep, <1>1, PTL DEF Spec

=============================================================================
