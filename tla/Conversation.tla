---------------------------- MODULE Conversation ----------------------------
(***************************************************************************)
(* The conversation store: a shared head on Sui that lists Walrus blobs,   *)
(* the devices that append to it, find it and read it.  Source: app        *)
(* lib/live/sui.ts, seal.ts, the store half of lib/live.ts and             *)
(* contracts/move conversation.move.  One pair of people; Seal is on.      *)
(***************************************************************************)
EXTENDS Integers, Sequences, FiniteSets

CONSTANTS
  Devices,      \* each signed in as one of the two people
  Attempts,     \* transactions tried before giving up: 4 in the code
  MaxSends,     \* bound on the messages of a behaviour
  MaxHeads,     \* bound on the heads
  StoreFaults   \* subset of {"walrus", "chain", "lost", "lag", "expiry", "keys", "net", "scan"}

ASSUME StoreAssumption == MaxSends \in Nat /\ Attempts \in Nat

VARIABLES
  heads,   \* the heads in order of creation: blob ids in order, 0 the empty one
  blob,    \* id -> [at, sealed]: where the bytes are, the head they were sealed to
  index,   \* device -> the head it noted for the peer, or 0
  out,     \* device -> the message it is sending
  sends,   \* messages begun
  headScan,    \* device -> discovery: [due, next, last, known]
  look,    \* device -> a read: [at, head, left, got]
  cache,   \* device -> blob -> "unknown", "ok" or "no"
  shown,   \* device -> messages on the screen
  told     \* messages that were reported as sent

convVars == <<heads, blob, index, out, sends, headScan, look, cache, shown, told>>

Blobs == 1..MaxSends
NoSend == [at |-> "idle", msg |-> 0, head |-> 0, left |-> 0]
NoHeadScan == [due |-> FALSE, next |-> 1, last |-> 0, known |-> 0]
NoLook == [at |-> "idle", head |-> 0, left |-> {}, got |-> {}]
StoreFault(f) == f \in StoreFaults
Listed(h) == {heads[h][i] : i \in DOMAIN heads[h]} \ {0}

-----------------------------------------------------------------------------
(* send and sendMessage.  The noted head is read once; without one, an     *)
(* empty head is created first, because Seal binds a message to its head.  *)

Send(d) ==
  /\ out[d].at = "idle" /\ sends < MaxSends
  /\ sends' = sends + 1
  /\ out' = [out EXCEPT ![d] = [at |-> IF index[d] = 0 THEN "creating" ELSE "encrypting",
                                msg |-> sends + 1, head |-> index[d], left |-> Attempts]]
  /\ UNCHANGED <<heads, blob, index, headScan, look, cache, shown, told>>

\* executeWithRetry: a lost race for the gas coin is tried again, any other
\* failure, an answer lost after the execution among them, ends the send.
GiveUp(d) == out' = [out EXCEPT ![d] = NoSend]
Raced(d) ==
  /\ StoreFault("chain") /\ out[d].at \in {"creating", "appending"}
  /\ IF out[d].left = 1 THEN GiveUp(d) ELSE out' = [out EXCEPT ![d].left = @ - 1]
  /\ UNCHANGED <<heads, blob, index, sends, headScan, look, cache, shown, told>>

CreateHead(d) ==
  /\ out[d].at = "creating" /\ Len(heads) < MaxHeads
  /\ heads' = Append(heads, <<0>>)
  /\ \/ out' = [out EXCEPT ![d].at = "encrypting", ![d].head = Len(heads) + 1, ![d].left = Attempts]
     \/ StoreFault("lost") /\ GiveUp(d)
  /\ UNCHANGED <<blob, index, sends, headScan, look, cache, shown, told>>

\* sealEncrypt, then the blob is written.  Mutant: the head is looked up anew.
SealToNoted(d) ==
  /\ out[d].at = "encrypting"
  /\ \E at \in {"up"} \cup (IF StoreFault("lag") THEN {"lagging"} ELSE {}) :
       blob' = [blob EXCEPT ![out[d].msg] = [at |-> at, sealed |-> IF index[d] = 0 THEN out[d].head ELSE index[d]]]
  /\ out' = [out EXCEPT ![d].at = "appending"]
  /\ UNCHANGED <<heads, index, sends, headScan, look, cache, shown, told>>
StoreBlob(d) ==
  /\ out[d].at = "encrypting"
  /\ \E at \in {"up"} \cup (IF StoreFault("lag") THEN {"lagging"} ELSE {}) :
       blob' = [blob EXCEPT ![out[d].msg] = [at |-> at, sealed |-> out[d].head]]
  /\ out' = [out EXCEPT ![d].at = "appending"]
  /\ UNCHANGED <<heads, index, sends, headScan, look, cache, shown, told>>

\* No WAL, no SUI or no relay: the message is not stored, the head stays.
StoreFails(d) ==
  /\ StoreFault("walrus") /\ out[d].at = "encrypting"
  /\ GiveUp(d)
  /\ UNCHANGED <<heads, blob, index, sends, headScan, look, cache, shown, told>>

\* append, and the note of the head only after all of it.
AppendBlob(d) ==
  /\ out[d].at = "appending"
  /\ heads' = [heads EXCEPT ![out[d].head] = Append(@, out[d].msg)]
  /\ \/ /\ index' = [index EXCEPT ![d] = out[d].head]
        /\ told' = told \cup {out[d].msg}
     \/ StoreFault("lost") /\ UNCHANGED <<index, told>>
  /\ GiveUp(d)
  /\ UNCHANGED <<blob, sends, headScan, look, cache, shown>>

-----------------------------------------------------------------------------
(* listConversations and discoverHeads: at most every 30 s the events are  *)
(* searched for heads of mine, and each one not noted replaces the note.   *)

\* Mutant: only a device that has the conversation is searched again.
ScanDueIfKnown(d) ==
  /\ ~headScan[d].due /\ headScan[d].next > headScan[d].last /\ index[d] # 0
  /\ headScan' = [headScan EXCEPT ![d].due = TRUE]
  /\ UNCHANGED <<heads, blob, index, out, sends, look, cache, shown, told>>
ScanDue(d) ==
  /\ ~headScan[d].due /\ headScan[d].next > headScan[d].last
  /\ headScan' = [headScan EXCEPT ![d].due = TRUE]
  /\ UNCHANGED <<heads, blob, index, out, sends, look, cache, shown, told>>

FindHeads(d) ==
  /\ headScan[d].due
  /\ headScan' = [headScan EXCEPT ![d] = [due |-> FALSE, next |-> 1, last |-> Len(heads), known |-> index[d]]]
  /\ UNCHANGED <<heads, blob, index, out, sends, look, cache, shown, told>>

ScanFails(d) ==
  /\ StoreFault("scan") /\ (headScan[d].due \/ headScan[d].next <= headScan[d].last)
  /\ headScan' = [headScan EXCEPT ![d] = NoHeadScan]
  /\ UNCHANGED <<heads, blob, index, out, sends, look, cache, shown, told>>

AdoptHead(d) ==
  /\ headScan[d].next <= headScan[d].last
  /\ headScan' = [headScan EXCEPT ![d].next = @ + 1]
  /\ index' = IF headScan[d].next = headScan[d].known THEN index ELSE [index EXCEPT ![d] = headScan[d].next]
  /\ UNCHANGED <<heads, blob, out, sends, look, cache, shown, told>>

-----------------------------------------------------------------------------
(* readMessages: the ids of the head as it is now, every blob on its own,  *)
(* and the screen gets what could be opened.                               *)

ReadHead(d) ==
  /\ look[d].at = "idle"
  /\ look' = [look EXCEPT ![d] = [at |-> "blobs", head |-> index[d], got |-> {},
                                  left |-> IF index[d] = 0 THEN {} ELSE Listed(index[d])]]
  /\ UNCHANGED <<heads, blob, index, out, sends, headScan, cache, shown, told>>

Settled(d, b, opens) ==
  look' = [look EXCEPT ![d].left = @ \ {b}, ![d].got = IF opens THEN @ \cup {b} ELSE @]

FromCache(d, b) ==
  /\ b \in look[d].left /\ cache[d][b] # "unknown"
  /\ Settled(d, b, cache[d][b] = "ok")
  /\ UNCHANGED <<heads, blob, index, out, sends, headScan, cache, shown, told>>

\* walrusRead when every aggregator says 404.  It would count the rounds up to
\* MISS_LIMIT, but readMessages caches the null of the first.
BlobGone(d, b) ==
  /\ b \in look[d].left /\ cache[d][b] = "unknown" /\ blob[b].at \in {"lagging", "expired"}
  /\ cache' = [cache EXCEPT ![d][b] = "no"]
  /\ Settled(d, b, FALSE)
  /\ UNCHANGED <<heads, blob, index, out, sends, headScan, shown, told>>

\* No aggregator and no storage node: tried again by the next poll.
Unreachable(d, b) ==
  /\ StoreFault("net") /\ b \in look[d].left /\ cache[d][b] = "unknown"
  /\ Settled(d, b, FALSE)
  /\ UNCHANGED <<heads, blob, index, out, sends, headScan, cache, shown, told>>

\* sealDecrypt: the key servers run seal_approve, which wants the prefix of
\* this head; a refusal and a failure are cached alike.
OpenBlob(d, b) ==
  /\ b \in look[d].left /\ cache[d][b] = "unknown" /\ blob[b].at = "up"
  /\ LET approved == blob[b].sealed = look[d].head IN
     \/ /\ cache' = [cache EXCEPT ![d][b] = IF approved THEN "ok" ELSE "no"]
        /\ Settled(d, b, approved)
     \/ /\ StoreFault("keys")
        /\ cache' = [cache EXCEPT ![d][b] = "no"]
        /\ Settled(d, b, FALSE)
  /\ UNCHANGED <<heads, blob, index, out, sends, headScan, shown, told>>

ReadDone(d) ==
  /\ look[d].at = "blobs" /\ look[d].left = {}
  /\ look' = [look EXCEPT ![d] = NoLook]
  /\ shown' = [shown EXCEPT ![d] = look[d].got]
  /\ UNCHANGED <<heads, blob, index, out, sends, headScan, cache, told>>

CatchUp(b) ==
  /\ blob[b].at = "lagging"
  /\ blob' = [blob EXCEPT ![b].at = "up"]
  /\ UNCHANGED <<heads, index, out, sends, headScan, look, cache, shown, told>>

\* Storage is bought for a few epochs.
Expire(b) ==
  /\ StoreFault("expiry") /\ blob[b].at = "up"
  /\ blob' = [blob EXCEPT ![b].at = "expired"]
  /\ UNCHANGED <<heads, index, out, sends, headScan, look, cache, shown, told>>

ConvInit ==
  /\ heads = <<>>
  /\ blob = [b \in Blobs |-> [at |-> "none", sealed |-> 0]]
  /\ index = [d \in Devices |-> 0]
  /\ out = [d \in Devices |-> NoSend]
  /\ sends = 0
  /\ headScan = [d \in Devices |-> [NoHeadScan EXCEPT !.due = TRUE]]
  /\ look = [d \in Devices |-> NoLook]
  /\ cache = [d \in Devices |-> [b \in Blobs |-> "unknown"]]
  /\ shown = [d \in Devices |-> {}]
  /\ told = {}

ConvWrites ==
  \E d \in Devices :
    \/ Send(d) \/ Raced(d) \/ CreateHead(d) \/ StoreBlob(d) \/ StoreFails(d) \/ AppendBlob(d)
    \/ ScanDue(d) \/ FindHeads(d) \/ ScanFails(d) \/ AdoptHead(d)

ConvReads ==
  \/ \E d \in Devices :
       \/ ReadHead(d) \/ ReadDone(d)
       \/ \E b \in Blobs : FromCache(d, b) \/ BlobGone(d, b) \/ Unreachable(d, b) \/ OpenBlob(d, b)
  \/ \E b \in Blobs : CatchUp(b) \/ Expire(b)

ConvNext == ConvWrites \/ ConvReads

\* A poll runs again and again while the app is open, the clock reaches the
\* next scan, a stored blob is reconstructed in time, and a network that
\* fails does not fail for ever.
ConvFair ==
  /\ \A b \in Blobs : WF_convVars(CatchUp(b))
  /\ \A d \in Devices :
    /\ WF_convVars(ReadHead(d)) /\ WF_convVars(ReadDone(d)) /\ WF_convVars(ScanDue(d))
    /\ SF_convVars(FindHeads(d)) /\ SF_convVars(AdoptHead(d))
    /\ \A b \in Blobs : WF_convVars(FromCache(d, b)) /\ SF_convVars(OpenBlob(d, b))

ConvSpec == ConvInit /\ [][ConvNext]_convVars /\ ConvFair

-----------------------------------------------------------------------------
\* Every message of a head was sealed to that head, so its members can open
\* it, whatever discovery did to the note while it was being stored; and what
\* was reported as sent is in a head.
StoreIsSound ==
  /\ \A h \in DOMAIN heads : \A b \in Listed(h) : blob[b].sealed = h
  /\ told \subseteq UNION {Listed(h) : h \in DOMAIN heads}

\* While the pair has one head, and apart from a blob this device wrote off
\* or whose term ran out, what was reported as sent is shown on each device.
Excused(d, m) == Len(heads) > 1 \/ cache[d][m] = "no" \/ blob[m].at = "expired"
SentIsShown ==
  \A d \in Devices, m \in Blobs : m \in told ~> (m \in shown[d] \/ Excused(d, m))
=============================================================================
