-------------------------- MODULE CodecGateProofs --------------------------
(***************************************************************************)
(* For every number of threads, handles and free sends: the count of a     *)
(* bucket is exact, and the gate implements FreeQuota.                     *)
(***************************************************************************)
EXTENDS CodecGate, FiniteSetTheorems, TLAPS

-----------------------------------------------------------------------------
(* The reservations in flight, as threads start and end an encode.         *)

\* What the ending encode of thread t still holds of bucket b.
Held(t, b) == IF work[t].reserved /\ work[t].bucket = b THEN 1 ELSE 0

LEMMA HoldingFinite ==
  ASSUME NEW b
  PROVE  IsFiniteSet(Holding(b)) /\ Cardinality(Holding(b)) \in Nat
<1>1. Holding(b) \in SUBSET Threads BY DEF Holding
<1>2. IsFiniteSet(Holding(b)) BY <1>1, GateAssumption, FS_Subset
<1> QED BY <1>2, FS_CardinalityType

\* An idle thread that starts an encode adds itself to the bucket it charged.
LEMMA HoldingStarts ==
  ASSUME TypeOK, NEW t \in Threads, work[t] = Idle,
         NEW w \in Work, work' = [work EXCEPT ![t] = w], NEW b
  PROVE  Cardinality(Holding(b)') = Cardinality(Holding(b))
           + (IF w.reserved /\ w.bucket = b THEN 1 ELSE 0)
<1>1. t \notin Holding(b) BY DEF Holding
<1>2. w # Idle BY IdleAssumption
<1>3. work'[t] = w /\ \A u \in Threads \ {t} : work'[u] = work[u]
  BY DEF TypeOK
<1>4. CASE w.reserved /\ w.bucket = b
  <2>1. Holding(b)' = Holding(b) \cup {t} BY <1>2, <1>3, <1>4 DEF Holding
  <2>2. Cardinality(Holding(b) \cup {t}) = Cardinality(Holding(b)) + 1
    BY <1>1, HoldingFinite, FS_AddElement
  <2> QED BY <1>4, <2>1, <2>2
<1>5. CASE ~(w.reserved /\ w.bucket = b)
  <2>1. Holding(b)' = Holding(b) BY <1>1, <1>3, <1>5 DEF Holding
  <2> QED BY <1>5, <2>1, HoldingFinite
<1> QED BY <1>4, <1>5

\* A thread whose encode ends leaves the bucket it charged, if it charged one.
LEMMA HoldingEnds ==
  ASSUME TypeOK, NEW t \in Threads, work[t] # Idle,
         work' = [work EXCEPT ![t] = Idle], NEW b
  PROVE  /\ Cardinality(Holding(b)') = Cardinality(Holding(b))
              - Held(t, b)
         /\ Held(t, b) <= Cardinality(Holding(b))
<1>1. work'[t] = Idle /\ \A u \in Threads \ {t} : work'[u] = work[u]
  BY DEF TypeOK
<1>2. Holding(b)' = Holding(b) \ {t} BY <1>1 DEF Holding
<1>3. t \in Holding(b) <=> work[t].reserved /\ work[t].bucket = b BY DEF Holding
<1>4. Cardinality(Holding(b) \ {t})
        = IF t \in Holding(b) THEN Cardinality(Holding(b)) - 1
                              ELSE Cardinality(Holding(b))
  BY HoldingFinite, FS_RemoveElement
<1>5. t \in Holding(b) => Cardinality(Holding(b)) # 0
  BY HoldingFinite, FS_EmptySet
<1> QED BY <1>2, <1>3, <1>4, <1>5, HoldingFinite DEF Held

-----------------------------------------------------------------------------
(* The inductive invariant.                                                *)

IInv == TypeOK /\ CountsExact /\ WithinLimit

LEMMA Initially == Init => IInv
<1> SUFFICES ASSUME Init PROVE IInv OBVIOUS
<1>1. TypeOK
  BY GateAssumption DEF Init, TypeOK, Reply, NoReply, Statuses
<1>2. \A b \in Buckets : Holding(b) = {} BY DEF Init, Holding
<1>3. CountsExact BY <1>2, FS_EmptySet DEF Init, CountsExact
<1>4. WithinLimit BY GateAssumption DEF Init, WithinLimit
<1> QED BY <1>1, <1>3, <1>4 DEF IInv

\* An answer is well typed whatever thread gives it.
LEMMA AnswerTyped ==
  ASSUME TypeOK, NEW t \in Threads, NEW s \in Statuses,
         NEW n \in -1..FreeLimit, NEW m \in BOOLEAN, Answer(t, s, n, m)
  PROVE  reply' \in [Threads -> [status : Statuses, remaining : -1..FreeLimit,
                                 member : BOOLEAN]]
BY DEF TypeOK, Answer, Reply

\* The answers given without an encode change nothing the invariant reads.
LEMMA RefusalKeeps ==
  ASSUME IInv, NEW t \in Threads, NEW r,
         RefusePaused(t) \/ BadRequest(t) \/ Refuse(t, r)
  PROVE  IInv' /\ UNCHANGED served
<1>1. UNCHANGED <<counts, work, now, enforce, paused, served>>
  BY DEF RefusePaused, BadRequest, Refuse, settings
<1>2. -1 \in -1..FreeLimit /\ 0 \in -1..FreeLimit BY GateAssumption
<1>3. {400, 402, 503} \subseteq Statuses BY DEF Statuses
<1>4. Answer(t, 503, -1, FALSE) \/ Answer(t, 400, -1, FALSE) \/ Answer(t, 402, 0, FALSE)
  BY DEF RefusePaused, BadRequest, Refuse
<1>5. reply' \in [Threads -> [status : Statuses, remaining : -1..FreeLimit,
                              member : BOOLEAN]]
  <2>1. TypeOK /\ FALSE \in BOOLEAN BY DEF IInv
  <2>2. 400 \in Statuses /\ 402 \in Statuses /\ 503 \in Statuses BY <1>3
  <2> QED BY <1>2, <1>4, <2>1, <2>2, AnswerTyped
<1>6. TypeOK' BY <1>1, <1>5 DEF IInv, TypeOK
<1>7. \A b \in Buckets : Holding(b)' = Holding(b) BY <1>1 DEF Holding
<1> QED BY <1>1, <1>6, <1>7 DEF IInv, CountsExact, WithinLimit

\* A started encode: the claim and the reservation appear together.
LEMMA StartKeeps ==
  ASSUME IInv, NEW t \in Threads, NEW r, r.handle \in Names \cup {NoHandle},
         Reserve(t, r) \/ EncodeUnmetered(t, r)
  PROVE  IInv' /\ UNCHANGED served
<1> DEFINE bk == Bucket(r)
<1>1. bk \in Buckets BY DEF Bucket, NormHandle, Buckets
<1>2. /\ counts \in [Buckets -> Nat] /\ counts[bk] \in Nat /\ FreeLimit \in Nat
  BY <1>1, GateAssumption DEF IInv, TypeOK
<1>3. UNCHANGED <<reply, now, enforce, paused, served>>
  BY DEF Reserve, EncodeUnmetered, settings
<1>4. work[t] = Idle BY DEF Reserve, EncodeUnmetered
<1>5. CASE Reserve(t, r)
  <2> DEFINE w == [bucket |-> bk, reserved |-> TRUE, member |-> FALSE,
                   remaining |-> FreeLimit - (counts[bk] + 1)]
  <2>1. counts[bk] < FreeLimit /\ counts' = [counts EXCEPT ![bk] = counts[bk] + 1]
    BY <1>5 DEF Reserve, Claim
  <2>2. FreeLimit - (counts[bk] + 1) \in -1..FreeLimit BY <1>2, <2>1
  <2>3. w \in Work BY <1>1, <2>2 DEF Work
  <2>4. work' = [work EXCEPT ![t] = w] BY <1>5 DEF Reserve, Start
  <2>5. TypeOK'
    <3>1. counts[bk] + 1 \in Nat BY <1>2
    <3>2. counts' \in [Buckets -> Nat] BY <1>1, <1>2, <2>1, <3>1
    <3>3. work' \in [Threads -> Work \cup {Idle}] BY <2>3, <2>4 DEF IInv, TypeOK
    <3> QED BY <1>3, <3>2, <3>3 DEF IInv, TypeOK
  <2>6. ASSUME NEW b \in Buckets
        PROVE  /\ counts'[b] = served'[b] + Cardinality(Holding(b)')
               /\ counts'[b] <= FreeLimit
    <3>1. counts'[b] = counts[b] + (IF bk = b THEN 1 ELSE 0) BY <1>2, <2>1
    <3>2. Cardinality(Holding(b)')
            = Cardinality(Holding(b)) + (IF bk = b THEN 1 ELSE 0)
      BY <1>4, <2>3, <2>4, HoldingStarts DEF IInv
    <3>3. /\ counts[b] = served[b] + Cardinality(Holding(b))
          /\ counts[b] <= FreeLimit /\ counts[b] \in Nat /\ served[b] \in Nat
      BY DEF IInv, TypeOK, CountsExact, WithinLimit
    <3> QED BY <1>2, <1>3, <2>1, <3>1, <3>2, <3>3, HoldingFinite
  <2> QED BY <1>3, <2>5, <2>6 DEF IInv, CountsExact, WithinLimit
<1>6. CASE EncodeUnmetered(t, r)
  <2> DEFINE w == [bucket |-> bk, reserved |-> FALSE, member |-> Gated(r),
                   remaining |-> -1]
  <2>1. counts' = counts BY <1>6 DEF EncodeUnmetered
  <2>2. Gated(r) \in BOOLEAN BY DEF Gated, IInv, TypeOK
  <2>3. w \in Work BY <1>1, <1>2, <2>2 DEF Work
  <2>4. work' = [work EXCEPT ![t] = w] BY <1>6 DEF EncodeUnmetered, Start
  <2>5. TypeOK' BY <1>3, <2>1, <2>3, <2>4 DEF IInv, TypeOK
  <2>6. ASSUME NEW b \in Buckets
        PROVE  Cardinality(Holding(b)') = Cardinality(Holding(b))
    <3>1. ~w.reserved OBVIOUS
    <3>2. Cardinality(Holding(b)') = Cardinality(Holding(b)) + 0
      BY <1>4, <2>3, <2>4, <3>1, HoldingStarts DEF IInv
    <3> QED BY <3>2, HoldingFinite
  <2> QED BY <1>3, <2>1, <2>5, <2>6 DEF IInv, CountsExact, WithinLimit
<1> QED BY <1>5, <1>6

\* A failed encode takes back exactly the claim of its own reservation.
LEMMA FailureKeeps ==
  ASSUME IInv, NEW t \in Threads, EncodeFails(t)
  PROVE  IInv' /\ UNCHANGED served
<1>1. /\ work[t] # Idle /\ work' = [work EXCEPT ![t] = Idle]
      /\ UNCHANGED <<now, enforce, paused, served>>
  BY DEF EncodeFails, settings
<1>0. ASSUME NEW b \in Buckets
      PROVE  /\ Cardinality(Holding(b)') = Cardinality(Holding(b)) - Held(t, b)
             /\ Held(t, b) <= Cardinality(Holding(b))
  <2>1. TypeOK BY DEF IInv
  <2>2. work[t] # Idle BY DEF EncodeFails
  <2>3. work' = [work EXCEPT ![t] = Idle] BY DEF EncodeFails
  <2> QED BY <2>1, <2>2, <2>3, HoldingEnds
<1>2. work[t] \in Work BY <1>1 DEF IInv, TypeOK
<1>3. PICK s \in {400, 500} : Answer(t, s, -1, FALSE) BY DEF EncodeFails
<1>4. reply' \in [Threads -> [status : Statuses, remaining : -1..FreeLimit,
                              member : BOOLEAN]]
  <2>1. -1 \in -1..FreeLimit BY GateAssumption
  <2>2. s \in Statuses /\ FALSE \in BOOLEAN BY DEF Statuses
  <2> QED BY <1>3, <2>1, <2>2, AnswerTyped DEF IInv
<1>5. counts \in [Buckets -> Nat] BY DEF IInv, TypeOK
<1>6. work[t].bucket \in Buckets /\ work[t].reserved \in BOOLEAN
  BY <1>2 DEF Work
<1>7. ASSUME NEW b \in Buckets
      PROVE  /\ counts'[b] = counts[b]
                  - Held(t, b)
             /\ counts'[b] \in Nat
  <2>1. /\ counts[b] = served[b] + Cardinality(Holding(b))
        /\ counts[b] \in Nat /\ served[b] \in Nat
    BY DEF IInv, TypeOK, CountsExact
  <2>2. Held(t, b) <= Cardinality(Holding(b))
    BY <1>0
  <2>3. work[t].reserved /\ work[t].bucket = b => counts[b] > 0
    BY <2>1, <2>2, HoldingFinite DEF Held
  <2>4. CASE work[t].reserved
    <3>1. counts' = [counts EXCEPT ![work[t].bucket] =
                       IF counts[work[t].bucket] = 0 THEN 0
                       ELSE counts[work[t].bucket] - 1]
      BY <2>4 DEF EncodeFails, Refund
    <3> QED BY <1>5, <1>6, <2>1, <2>3, <2>4, <3>1 DEF Held
  <2>5. CASE ~work[t].reserved
    <3>1. counts' = counts BY <2>5 DEF EncodeFails
    <3> QED BY <2>1, <2>5, <3>1 DEF Held
  <2> QED BY <2>4, <2>5
<1>8. counts' \in [Buckets -> Nat]
  <2>1. counts' = [b \in Buckets |-> counts'[b]]
    BY <1>5 DEF EncodeFails, Refund
  <2> QED BY <1>7, <2>1
<1>9. TypeOK' BY <1>1, <1>4, <1>8 DEF IInv, TypeOK
<1>10. ASSUME NEW b \in Buckets
       PROVE  /\ counts'[b] = served'[b] + Cardinality(Holding(b)')
              /\ counts'[b] <= FreeLimit
  <2>1. Cardinality(Holding(b)') = Cardinality(Holding(b))
          - Held(t, b)
    BY <1>0
  <2>2. /\ counts[b] = served[b] + Cardinality(Holding(b))
        /\ counts[b] <= FreeLimit /\ counts[b] \in Nat /\ served[b] \in Nat
    BY DEF IInv, TypeOK, CountsExact, WithinLimit
  <2>3. Held(t, b) \in {0, 1} BY DEF Held
  <2> QED BY <1>1, <1>7, <2>1, <2>2, <2>3, HoldingFinite, GateAssumption
<1> QED BY <1>1, <1>9, <1>10 DEF IInv, CountsExact, WithinLimit

\* A finished encode turns its reservation into a cover handed out.
LEMMA SuccessKeeps ==
  ASSUME IInv, NEW t \in Threads, EncodeSucceeds(t)
  PROVE  /\ IInv'
         /\ served' # served =>
              /\ served[work[t].bucket] < FreeLimit
              /\ work[t].bucket \in Buckets
              /\ served' = [served EXCEPT ![work[t].bucket] = @ + 1]
<1>1. /\ work[t] # Idle /\ work' = [work EXCEPT ![t] = Idle]
      /\ UNCHANGED <<counts, now, enforce, paused>>
      /\ Answer(t, 200, work[t].remaining, work[t].member)
      /\ served' = IF work[t].reserved
                     THEN [served EXCEPT ![work[t].bucket] = @ + 1] ELSE served
  BY DEF EncodeSucceeds, settings
<1>2. work[t] \in Work BY <1>1 DEF IInv, TypeOK
<1>3. /\ work[t].bucket \in Buckets /\ work[t].reserved \in BOOLEAN
      /\ work[t].remaining \in -1..FreeLimit /\ work[t].member \in BOOLEAN
  BY <1>2 DEF Work
<1>4. reply' \in [Threads -> [status : Statuses, remaining : -1..FreeLimit,
                              member : BOOLEAN]]
  BY <1>1, <1>3, AnswerTyped DEF Statuses, IInv
<1>5. served \in [Buckets -> Nat] /\ served' \in [Buckets -> Nat]
  BY <1>1, <1>3 DEF IInv, TypeOK
<1>6. TypeOK' BY <1>1, <1>4, <1>5 DEF IInv, TypeOK
<1>7. ASSUME NEW b \in Buckets
      PROVE  /\ counts'[b] = served'[b] + Cardinality(Holding(b)')
             /\ counts'[b] <= FreeLimit
             /\ work[t].reserved /\ work[t].bucket = b => served[b] < FreeLimit
  <2>1. /\ Cardinality(Holding(b)') = Cardinality(Holding(b))
             - Held(t, b)
        /\ Held(t, b) <= Cardinality(Holding(b))
    BY <1>1, HoldingEnds DEF IInv
  <2>2. /\ counts[b] = served[b] + Cardinality(Holding(b))
        /\ counts[b] <= FreeLimit /\ counts[b] \in Nat /\ served[b] \in Nat
    BY DEF IInv, TypeOK, CountsExact, WithinLimit
  <2>3. served'[b] = served[b]
          + Held(t, b)
    BY <1>1, <1>3, <1>5 DEF Held
  <2>4. work[t].reserved /\ work[t].bucket = b => Held(t, b) = 1 BY DEF Held
  <2>5. Held(t, b) \in {0, 1} BY DEF Held
  <2> QED BY <1>1, <2>1, <2>2, <2>3, <2>4, <2>5, HoldingFinite, GateAssumption
<1>8. IInv' BY <1>6, <1>7 DEF IInv, CountsExact, WithinLimit
<1> QED BY <1>1, <1>3, <1>7, <1>8

\* A restart is a new beginning, and the clock touches nothing.
LEMMA ProcessKeeps ==
  ASSUME IInv, Restart \/ Tick
  PROVE  IInv' /\ (served' = served \/ served' = [b \in Buckets |-> 0])
<1>1. CASE Restart
  <2>1. TypeOK'
    BY <1>1, GateAssumption DEF Restart, IInv, TypeOK, Reply, NoReply, Statuses
  <2>2. \A b \in Buckets : Holding(b)' = {} BY <1>1 DEF Restart, Holding
  <2>3. CountsExact' BY <1>1, <2>2, FS_EmptySet DEF Restart, CountsExact
  <2>4. WithinLimit' BY <1>1, GateAssumption DEF Restart, WithinLimit
  <2> QED BY <1>1, <2>1, <2>3, <2>4 DEF Restart, IInv
<1>2. CASE Tick
  <2>1. UNCHANGED <<counts, work, reply, enforce, paused, served>>
    BY <1>2 DEF Tick, settings
  <2>2. now' \in 0..MaxTime BY <1>2, GateAssumption DEF Tick, IInv, TypeOK
  <2>3. TypeOK' BY <2>1, <2>2 DEF IInv, TypeOK
  <2>4. \A b \in Buckets : Holding(b)' = Holding(b) BY <2>1 DEF Holding
  <2> QED BY <2>1, <2>3, <2>4 DEF IInv, CountsExact, WithinLimit
<1> QED BY <1>1, <1>2

-----------------------------------------------------------------------------

\* What a thread does with a request, whatever token the request carries.
LEMMA ThreadKeeps ==
  ASSUME IInv, NEW t \in Threads, NEW r, r.handle \in Names \cup {NoHandle},
         \/ Encode(t, r) \/ RefusePaused(t) \/ BadRequest(t)
         \/ EncodeSucceeds(t) \/ EncodeFails(t)
  PROVE  IInv' /\ (Quota!Next \/ served' = served)
<1>1. CASE RefusePaused(t) \/ BadRequest(t) \/ Refuse(t, r)
  BY <1>1, RefusalKeeps
<1>2. CASE Reserve(t, r) \/ EncodeUnmetered(t, r) BY <1>2, StartKeeps
<1>3. CASE EncodeFails(t) BY <1>3, FailureKeeps
<1>4. CASE EncodeSucceeds(t)
  BY <1>4, SuccessKeeps DEF Quota!Next, Quota!Serve
<1> QED BY <1>1, <1>2, <1>3, <1>4 DEF Encode

\* Every step keeps the invariant and is a step of FreeQuota or a stutter.
LEMMA EveryStep ==
  ASSUME IInv, [Next]_gateVars
  PROVE  IInv' /\ (Quota!Next \/ served' = served)
<1>1. CASE UNCHANGED gateVars
  <2>1. UNCHANGED <<counts, work, reply, now, enforce, paused, served>>
    BY <1>1 DEF gateVars, settings
  <2>2. \A b \in Buckets : Holding(b)' = Holding(b) BY <2>1 DEF Holding
  <2> QED BY <2>1, <2>2 DEF IInv, TypeOK, CountsExact, WithinLimit
<1>2. CASE Restart \/ Tick
  BY <1>2, ProcessKeeps DEF Quota!Next, Quota!Forget, Quota!Fresh
<1>3. ASSUME NEW t \in Threads, Handle(t)
      PROVE  IInv' /\ (Quota!Next \/ served' = served)
  <2>1. ASSUME NEW r \in Request, Encode(t, r)
        PROVE  IInv' /\ (Quota!Next \/ served' = served)
    <3>1. r.handle \in Names \cup {NoHandle} BY DEF Request
    <3> QED BY <2>1, <3>1, ThreadKeeps
  <2>2. CASE RefusePaused(t) \/ BadRequest(t) \/ EncodeSucceeds(t) \/ EncodeFails(t)
    <3> DEFINE r == [handle |-> NoHandle]
    <3>1. r.handle \in Names \cup {NoHandle} OBVIOUS
    <3> QED BY <2>2, <3>1, ThreadKeeps
  <2> QED BY <1>3, <2>1, <2>2 DEF Handle
<1> QED BY <1>1, <1>2, <1>3 DEF Next

\* The variables of the gate stay in their types.
THEOREM TypeCorrect == Spec => []TypeOK
<1>1. IInv /\ [Next]_gateVars => IInv' BY EveryStep
<1>2. IInv => TypeOK BY DEF IInv
<1> QED BY Initially, <1>1, <1>2, PTL DEF Spec

\* The count of every bucket is the covers handed out plus the reservations in
\* flight, whatever the threads do.
THEOREM CountsAreExact == Spec => []CountsExact
<1>1. IInv /\ [Next]_gateVars => IInv' BY EveryStep
<1>2. IInv => CountsExact BY DEF IInv
<1> QED BY Initially, <1>1, <1>2, PTL DEF Spec

\* The gate implements the quota: no interleaving hands out more than FreeLimit
\* free covers of one bucket between two restarts.
THEOREM GateImplementsQuota == Spec => ImplementsQuota
<1>1. Init => Quota!Init BY DEF Init, Quota!Init, Quota!Fresh
<1>2. IInv /\ [Next]_gateVars => IInv' /\ [Quota!Next]_served
  BY EveryStep
<1> QED BY Initially, <1>1, <1>2, PTL DEF Spec, ImplementsQuota, Quota!Spec

=============================================================================
