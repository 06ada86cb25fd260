----------------------------- MODULE CodecGate -----------------------------
(***************************************************************************)
(* The capability gate of the codec's /encode (codec/auth.py) under the    *)
(* threaded HTTP server that calls it (codec/server.py).                   *)
(*                                                                         *)
(* A request decides and claims its free send in one locked step, then     *)
(* calls a model for seconds with the lock released, and commits or        *)
(* refunds when the call ends.  One thread serves one request; all threads *)
(* share the counts, which live in memory only.                            *)
(***************************************************************************)
EXTENDS Integers, FiniteSets

CONSTANTS
  Threads,     \* the handler threads that may run at once
  Names,       \* handles, their spelling (case, blanks, leading @) removed
  NoHandle,    \* a request that asserts no handle
  Anon,        \* _ANON: the bucket such requests share
  NoToken,     \* a request without a membership token
  Idle,        \* a thread with no request
  FreeLimit,   \* FREE_LIMIT
  HasSecret,   \* CODEC_SECRET is set
  MaxTime      \* bound: the clock

Buckets == Names \cup {Anon}

ASSUME GateAssumption ==
  /\ IsFiniteSet(Threads)
  /\ FreeLimit \in Nat /\ MaxTime \in Nat /\ HasSecret \in BOOLEAN
  /\ NoHandle \notin Names

\* A signed token: its expiry, and whether it carries a nullifier.
Token == [exp : 0..MaxTime, nul : BOOLEAN]
Request == [handle : Names \cup {NoHandle}, fast : BOOLEAN,
            token : Token \cup {NoToken}]

\* What a thread holds across the model call.
Work == [bucket : Buckets, reserved : BOOLEAN, member : BOOLEAN,
         remaining : -1..FreeLimit]
ASSUME IdleAssumption == Idle \notin Work /\ NoToken \notin Token

VARIABLES
  counts,    \* _counts: free sends used, reserved ones included
  work,      \* work[t]: the encode thread t is in
  reply,     \* reply[t]: the last answer thread t gave
  now,       \* the clock tokens expire by
  enforce,   \* CODEC_ENFORCE of the running process
  paused,    \* CODEC_PAUSED of the running process
  served     \* ghost: free covers handed out since the process started

settings == <<enforce, paused>>
gateVars == <<counts, work, reply, now, settings, served>>

Reply(status, remaining, member) ==
  [status |-> status, remaining |-> remaining, member |-> member]
NoReply == Reply(0, -1, FALSE)
Statuses == {0, 200, 400, 402, 500, 503}

-----------------------------------------------------------------------------

NormHandle(h) == IF h = NoHandle THEN Anon ELSE h

\* Signed with our secret, not expired, and carrying a nullifier.
VerifyMembership(token) ==
  /\ HasSecret /\ token # NoToken
  /\ token.exp >= now
  /\ token.nul

\* Handshake frames (fast) are never metered.
Gated(r) == enforce /\ ~r.fast

Bucket(r) == NormHandle(r.handle)

\* The reservations thread set S still holds for bucket b.
Holding(b) == {t \in Threads : work[t] # Idle /\ work[t].reserved
                                              /\ work[t].bucket = b}

Answer(t, status, remaining, member) ==
  reply' = [reply EXCEPT ![t] = Reply(status, remaining, member)]

Claim(b) == counts' = [counts EXCEPT ![b] = @ + 1]

Refund(b) ==
  counts' = [counts EXCEPT ![b] = IF @ = 0 THEN 0 ELSE @ - 1]

Start(t, r, reserved, member, remaining) ==
  work' = [work EXCEPT ![t] = [bucket |-> Bucket(r), reserved |-> reserved,
                               member |-> member, remaining |-> remaining]]

-----------------------------------------------------------------------------
(***************************************************************************)
(* A POST arrives.                                                         *)
(***************************************************************************)

\* Paused mode answers before the body is read.
RefusePaused(t) ==
  /\ work[t] = Idle /\ paused
  /\ Answer(t, 503, -1, FALSE)
  /\ UNCHANGED <<counts, work, now, settings, served>>

\* A missing field, bad base64 or an oversized body.
BadRequest(t) ==
  /\ work[t] = Idle /\ ~paused
  /\ Answer(t, 400, -1, FALSE)
  /\ UNCHANGED <<counts, work, now, settings, served>>

\* reserve: no free send is left, so the answer is the paywall.
Refuse(t, r) ==
  /\ work[t] = Idle /\ ~paused
  /\ Gated(r) /\ ~VerifyMembership(r.token)
  /\ counts[Bucket(r)] >= FreeLimit
  /\ Answer(t, 402, 0, FALSE)
  /\ UNCHANGED <<counts, work, now, settings, served>>

\* Mutant: the check as it was before reserve: nothing is claimed yet.
CheckOnly(t, r) ==
  /\ work[t] = Idle /\ ~paused
  /\ Gated(r) /\ ~VerifyMembership(r.token)
  /\ counts[Bucket(r)] < FreeLimit
  /\ Start(t, r, TRUE, FALSE, FreeLimit - (counts[Bucket(r)] + 1))
  /\ UNCHANGED <<counts, reply, now, settings, served>>

\* reserve: check and claim under one lock, then start the encode.
Reserve(t, r) ==
  /\ work[t] = Idle /\ ~paused
  /\ Gated(r) /\ ~VerifyMembership(r.token)
  /\ counts[Bucket(r)] < FreeLimit
  /\ Claim(Bucket(r))
  /\ Start(t, r, TRUE, FALSE, FreeLimit - (counts[Bucket(r)] + 1))
  /\ UNCHANGED <<reply, now, settings, served>>

\* A handshake frame, a member, or a gate that is switched off: no charge.
EncodeUnmetered(t, r) ==
  /\ work[t] = Idle /\ ~paused
  /\ ~Gated(r) \/ VerifyMembership(r.token)
  /\ Start(t, r, FALSE, Gated(r), -1)
  /\ UNCHANGED <<counts, reply, now, settings, served>>

(***************************************************************************)
(* The model call ends.                                                    *)
(***************************************************************************)

EncodeSucceeds(t) ==
  /\ work[t] # Idle
  /\ Answer(t, 200, work[t].remaining, work[t].member)
  /\ served' = IF work[t].reserved
                 THEN [served EXCEPT ![work[t].bucket] = @ + 1] ELSE served
  /\ work' = [work EXCEPT ![t] = Idle]
  /\ UNCHANGED <<counts, now, settings>>

\* Mutant: the refund goes to requests that paid nothing as well.
RefundAnyone(t) ==
  /\ work[t] # Idle
  /\ Refund(work[t].bucket)
  /\ \E status \in {400, 500} : Answer(t, status, -1, FALSE)
  /\ work' = [work EXCEPT ![t] = Idle]
  /\ UNCHANGED <<now, settings, served>>

\* release: a failed encode gives back what it reserved, and nothing else.
EncodeFails(t) ==
  /\ work[t] # Idle
  /\ IF work[t].reserved THEN Refund(work[t].bucket) ELSE UNCHANGED counts
  /\ \E status \in {400, 500} : Answer(t, status, -1, FALSE)
  /\ work' = [work EXCEPT ![t] = Idle]
  /\ UNCHANGED <<now, settings, served>>

(***************************************************************************)
(* The process restarts with new settings (a deploy, a crash, `fly secrets *)
(* set`): every thread and every count is gone.                            *)
(***************************************************************************)

Restart ==
  /\ counts' = [b \in Buckets |-> 0]
  /\ work' = [t \in Threads |-> Idle]
  /\ reply' = [t \in Threads |-> NoReply]
  /\ served' = [b \in Buckets |-> 0]
  /\ enforce' \in BOOLEAN /\ paused' \in BOOLEAN
  /\ UNCHANGED now

Tick ==
  /\ now < MaxTime /\ now' = now + 1
  /\ UNCHANGED <<counts, work, reply, settings, served>>

-----------------------------------------------------------------------------

Init ==
  /\ counts = [b \in Buckets |-> 0]
  /\ work = [t \in Threads |-> Idle]
  /\ reply = [t \in Threads |-> NoReply]
  /\ now = 0
  /\ enforce \in BOOLEAN /\ paused \in BOOLEAN
  /\ served = [b \in Buckets |-> 0]

Encode(t, r) == Refuse(t, r) \/ Reserve(t, r) \/ EncodeUnmetered(t, r)

Handle(t) ==
  \/ RefusePaused(t) \/ BadRequest(t)
  \/ \E r \in Request : Encode(t, r)
  \/ EncodeSucceeds(t) \/ EncodeFails(t)

Next == Restart \/ Tick \/ \E t \in Threads : Handle(t)

Spec == Init /\ [][Next]_gateVars

-----------------------------------------------------------------------------

TypeOK ==
  /\ counts \in [Buckets -> Nat] /\ served \in [Buckets -> Nat]
  /\ work \in [Threads -> Work \cup {Idle}]
  /\ reply \in [Threads -> [status : Statuses, remaining : -1..FreeLimit,
                            member : BOOLEAN]]
  /\ now \in 0..MaxTime
  /\ enforce \in BOOLEAN /\ paused \in BOOLEAN

\* The counter is exact under concurrency: for every bucket it is the covers
\* handed out plus the encodes that still hold a reservation.  (The test
\* "Half the encodes fail and refund. The counter must land exactly on the
\* successes" of test_auth.py, for every interleaving.)
CountsExact ==
  \A b \in Buckets : counts[b] = served[b] + Cardinality(Holding(b))

\* Nobody is charged past the limit, however many requests overlap.
WithinLimit == \A b \in Buckets : counts[b] <= FreeLimit

\* The free tier as a whole: what leaves the codec is what FreeQuota allows.
Quota == INSTANCE FreeQuota
ImplementsQuota == Quota!Spec

=============================================================================
