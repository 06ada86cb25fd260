----------------------------- MODULE AppProofs -----------------------------
(***************************************************************************)
(* What the messenger app and the services it talks to promise, for any    *)
(* number of people, knocks, updates, forms and payments: part by part an  *)
(* inductive invariant, and at the end the scenes of MCApp put together.   *)
(***************************************************************************)
EXTENDS MCApp, FiniteSetTheorems, SequenceTheorems, TLAPS

-----------------------------------------------------------------------------
(***************************************************************************)
(* The inbox, when messages are listed in the order of their time: a row   *)
(* is a beginning of the conversation, or empty.                           *)
(***************************************************************************)

InOrder == "gap" \notin InboxFaults

Begun(s) == \E k \in History..MaxIn : s = 1..k
Row(s) == s = {} \/ Begun(s)

InboxTypes ==
  /\ mail_in \in [Peers -> SUBSET InMail] /\ \A p \in Peers : Begun(mail_in[p])
  /\ polls \subseteq [n : Int, at : {"reading", "whole", "partial"}, list : [Peers -> SUBSET InMail]]
  /\ \A r \in polls : \A p \in Peers : Row(r.list[p]) /\ (r.at = "whole" => Begun(r.list[p]))
  /\ convos \in [Peers -> SUBSET InMail] /\ \A p \in Peers : Row(convos[p])
  /\ marks # <<>> => marks[1] \in [Peers -> 0..MaxIn]

\* A row is marked, and its messages were rendered; so is all that a mark covers.
Rendered ==
  /\ marks = <<>> => convos = NoMail
  /\ \A p \in Peers : \A m \in convos[p] : <<p, m>> \in rendered
  /\ marks # <<>> => \A p \in Peers : \A m \in 1..marks[1][p] : <<p, m>> \in rendered

\* History is covered from the first mark on.
PastHistory ==
  ~blind => /\ marks # <<>> => \A p \in Peers : marks[1][p] >= History
            /\ \A b \in banners : b[2] > History

CountsItsRows == marks # <<>> /\ ~failed => unread = UnreadByPeer(convos, marks[1])

InboxInv == InboxTypes /\ Rendered /\ PastHistory /\ CountsItsRows

\* The newest of a set that has a greatest element.
LEMMA NewestIs ==
  ASSUME NEW s \in SUBSET Int, NEW k \in s, \A x \in s : x <= k
  PROVE  Newest(s) = k
<1>1. k \in s /\ \A y \in s : k >= y OBVIOUS
<1>2. \A x \in s : (\A y \in s : x >= y) => x = k BY <1>1
<1>3. Max(s) = k BY <1>1, <1>2 DEF Max
<1> QED BY <1>3 DEF Newest

LEMMA NewestOfRow ==
  ASSUME NEW s, Row(s), NEW b \in Nat, NEW t, t = {x \in s : x > b}
  PROVE  /\ Newest(t) \in 0..MaxIn
         /\ t # {} => Newest(t) >= b /\ Newest(t) >= History
         /\ \A m \in 1..Newest(t) : m \in s
         /\ \A x \in s : t # {} => ~(x > Newest(t))
<1> USE InboxAssumption
<1>1. CASE t = {} BY <1>1 DEF Newest
<1>2. CASE t # {}
  <2>1. PICK k \in History..MaxIn : s = 1..k BY <1>2 DEF Row, Begun
  <2>2. k \in t /\ t \in SUBSET Int /\ \A x \in t : x <= k BY <1>2, <2>1
  <2>3. Newest(t) = k BY <2>2, NewestIs
  <2>4. k \in 0..MaxIn /\ k >= b /\ k >= History BY <2>1, <2>2
  <2>5. \A x \in s : ~(x > k) BY <2>1
  <2> QED BY <1>2, <2>1, <2>3, <2>4, <2>5
<1> QED BY <1>1, <1>2

LEMMA SeedOfRow ==
  ASSUME NEW s, Row(s), NEW t, t = {m \in s : m <= History}
  PROVE  /\ Newest(t) \in 0..MaxIn
         /\ \A m \in 1..Newest(t) : m \in s
         /\ Begun(s) => Newest(t) >= History
<1> USE InboxAssumption
<1>1. CASE t = {} BY <1>1 DEF Newest, Begun
<1>2. CASE t # {}
  <2>1. PICK k \in History..MaxIn : s = 1..k BY <1>2 DEF Row, Begun
  <2>2. History \in t /\ t \in SUBSET Int /\ \A x \in t : x <= History BY <1>2, <2>1
  <2>3. Newest(t) = History BY <2>2, NewestIs
  <2>4. History \in 0..MaxIn /\ \A m \in 1..History : m \in s BY <2>1
  <2>5. History >= History OBVIOUS
  <2> QED BY <2>3, <2>4, <2>5
<1> QED BY <1>1, <1>2

LEMMA InboxInitially == InboxInit => InboxInv
<1> USE InboxAssumption
<1>1. Begun(1..History) /\ 1..History \subseteq InMail BY DEF Begun, InMail
<1>2. ASSUME InboxInit PROVE InboxTypes
  <2>1. mail_in \in [Peers -> SUBSET InMail] /\ \A p \in Peers : Begun(mail_in[p])
    BY <1>1, <1>2 DEF InboxInit
  <2> QED BY <1>2, <2>1 DEF InboxInit, InboxTypes, NoMail, Row
<1> QED BY <1>2 DEF InboxInit, InboxInv, Rendered, PastHistory, CountsItsRows, NoMail

LEMMA ArrivesInOrder ==
  ASSUME InboxInv, InOrder, NEW p \in Peers, Arrives(p) PROVE InboxInv'
<1> USE InboxAssumption
<1>1. PICK m \in InMail \ mail_in[p] :
        m = Newest(mail_in[p]) + 1 /\ mail_in' = [mail_in EXCEPT ![p] = @ \cup {m}]
  BY DEF Arrives, InOrder
<1>2. PICK k \in History..MaxIn : mail_in[p] = 1..k BY DEF InboxInv, InboxTypes, Begun
<1>3. m = k + 1
  <2>1. CASE k = 0 BY <1>1, <1>2, <2>1 DEF Newest
  <2>2. CASE k > 0
    <3>1. 1..k \in SUBSET Int /\ k \in 1..k /\ \A x \in 1..k : x <= k BY <2>2
    <3>2. Newest(1..k) = k BY <3>1, NewestIs
    <3> QED BY <1>1, <1>2, <3>2
  <2> QED BY <2>1, <2>2
<1>4. 1..k \cup {m} = 1..m /\ m \in History..MaxIn BY <1>1, <1>3 DEF InMail
<1>5. \A q \in Peers : mail_in'[q] = IF q = p THEN 1..m ELSE mail_in[q]
  BY <1>1, <1>2, <1>4 DEF InboxInv, InboxTypes
<1>6. mail_in' \in [Peers -> SUBSET InMail] BY <1>1 DEF InboxInv, InboxTypes
<1>7. \A q \in Peers : Begun(mail_in'[q]) BY <1>4, <1>5 DEF InboxInv, InboxTypes, Begun
<1> QED BY <1>6, <1>7 DEF Arrives, InboxInv, InboxTypes, Rendered, PastHistory, CountsItsRows

LEMMA PollLandsOK ==
  ASSUME InboxInv, NEW r \in polls, PollLands(r) PROVE InboxInv'
<1> DEFINE base == IF marks = <<>> THEN SeedWatermarks(r.list) ELSE marks[1]
           fresh == UnreadByPeer(r.list, base)
           read == {p \in Peers : fresh[p] # {} /\ visible /\ active = p}
<1> USE InboxAssumption
<1>0. /\ r.list \in [Peers -> SUBSET InMail] /\ \A p \in Peers : Row(r.list[p])
      /\ r.at # "partial" => \A p \in Peers : Begun(r.list[p])
  BY DEF InboxInv, InboxTypes, PollLands
<1>1. /\ convos' = r.list /\ rendered' = rendered \cup Pairs(r.list) /\ failed' = FALSE
      /\ mail_in' = mail_in /\ polls' = polls \ {r}
      /\ blind' = (blind \/ (marks = <<>> /\ r.at = "partial"))
      /\ marks' = <<[p \in Peers |-> IF p \in read THEN Newest(fresh[p]) ELSE base[p]]>>
      /\ unread' = [p \in Peers |-> IF p \in read THEN {} ELSE fresh[p]]
      /\ banners' = banners \cup Pairs(unread')
  BY DEF PollLands
<1>2. \A p \in Peers : \A m \in r.list[p] : <<p, m>> \in rendered'
  BY <1>0, <1>1 DEF Pairs
<1>3. /\ base \in [Peers -> 0..MaxIn]
      /\ \A p \in Peers : \A m \in 1..base[p] : <<p, m>> \in rendered'
      /\ ~blind' => \A p \in Peers : base[p] >= History
  <2>1. CASE marks = <<>>
    <3>1. /\ base = [p \in Peers |-> Newest({m \in r.list[p] : m <= History})]
      BY <2>1 DEF SeedWatermarks
    <3> HIDE DEF base
    <3>2. \A p \in Peers : /\ base[p] \in 0..MaxIn
                           /\ \A m \in 1..base[p] : m \in r.list[p]
                           /\ Begun(r.list[p]) => base[p] >= History
      BY <1>0, <3>1, SeedOfRow
    <3>3. base \in [Peers -> 0..MaxIn] BY <3>1, <3>2
    <3> QED BY <1>0, <1>1, <1>2, <2>1, <3>2, <3>3
  <2>2. CASE marks # <<>>
    BY <1>1, <2>2 DEF InboxInv, InboxTypes, Rendered, PastHistory
  <2> QED BY <2>1, <2>2
<1> HIDE DEF base
<1>4. \A p \in Peers : fresh[p] = {x \in r.list[p] : x > base[p]} BY DEF UnreadByPeer
<1>5. \A p \in Peers : /\ Newest(fresh[p]) \in 0..MaxIn
                       /\ fresh[p] # {} => Newest(fresh[p]) >= base[p] /\ Newest(fresh[p]) >= History
                       /\ \A m \in 1..Newest(fresh[p]) : m \in r.list[p]
                       /\ \A x \in r.list[p] : fresh[p] # {} => ~(x > Newest(fresh[p]))
  BY <1>0, <1>3, <1>4, NewestOfRow
<1>6. /\ \A p \in read : fresh[p] # {} /\ p \in Peers
      /\ fresh = [p \in Peers |-> fresh[p]]
  BY DEF UnreadByPeer
<1> HIDE DEF read, fresh
<1>7. marks' # <<>> /\ marks'[1] = [p \in Peers |-> IF p \in read THEN Newest(fresh[p]) ELSE base[p]]
  BY <1>1
<1>8. marks'[1] \in [Peers -> 0..MaxIn] BY <1>3, <1>5, <1>7
<1>9. InboxTypes' BY <1>0, <1>1, <1>8 DEF InboxInv, InboxTypes
<1>10. Rendered' BY <1>1, <1>2, <1>3, <1>5, <1>7 DEF Rendered
<1>11. PastHistory'
  <2>1. \A p \in Peers : ~blind' => marks'[1][p] >= History
    BY <1>3, <1>5, <1>6, <1>7
  <2>2. \A b \in Pairs(unread') : b[1] \in Peers /\ b[2] \in InMail /\ b[2] \in fresh[b[1]]
    BY <1>1 DEF Pairs
  <2>3. \A b \in Pairs(unread') : ~blind' => b[2] > History
    BY <1>3, <1>4, <2>2 DEF InMail
  <2> QED BY <1>1, <2>1, <2>3 DEF PastHistory, InboxInv
<1>12. CountsItsRows'
  <2>1. \A p \in Peers : unread'[p] = {x \in r.list[p] : x > marks'[1][p]}
    <3> TAKE p \in Peers
    <3>1. CASE p \in read BY <1>1, <1>5, <1>6, <1>7, <3>1
    <3>2. CASE p \notin read BY <1>1, <1>4, <1>7, <3>2
    <3> QED BY <3>1, <3>2
  <2>2. unread' = [p \in Peers |-> unread'[p]] BY <1>1
  <2>3. unread' = [p \in Peers |-> {x \in convos'[p] : x > marks'[1][p]}] BY <1>1, <2>1, <2>2
  <2> QED BY <2>3 DEF CountsItsRows, UnreadByPeer
<1> QED BY <1>9, <1>10, <1>11, <1>12 DEF InboxInv

LEMMA OpenPeerOK ==
  ASSUME InboxInv, NEW p \in Peers, OpenPeer(p) PROVE InboxInv'
<1> USE InboxAssumption
<1>1. CASE convos[p] = {}
  BY <1>1 DEF OpenPeer, InboxInv, InboxTypes, Rendered, PastHistory, CountsItsRows
<1>2. CASE convos[p] # {}
  <2>1. marks # <<>> BY <1>2 DEF InboxInv, Rendered, NoMail
  <2>2. PICK k \in History..MaxIn : convos[p] = 1..k
    BY <1>2 DEF InboxInv, InboxTypes, Row, Begun
  <2>3. Newest(convos[p]) = k
    <3>1. 1..k \in SUBSET Int /\ k \in 1..k /\ \A x \in 1..k : x <= k BY <1>2, <2>2
    <3> QED BY <2>2, <3>1, NewestIs
  <2>4. /\ marks' = <<[marks[1] EXCEPT ![p] = k]>> /\ unread' = [unread EXCEPT ![p] = {}]
        /\ UNCHANGED <<mail_in, polls, convos, banners, rendered, blind, failed>>
    BY <1>2, <2>1, <2>3 DEF OpenPeer
  <2>5. marks[1] \in [Peers -> 0..MaxIn] BY <2>1 DEF InboxInv, InboxTypes
  <2>6. /\ marks' # <<>> /\ marks'[1] = [marks[1] EXCEPT ![p] = k] BY <2>4
  <2>7. marks'[1] \in [Peers -> 0..MaxIn]
        /\ \A q \in Peers : marks'[1][q] = IF q = p THEN k ELSE marks[1][q]
    BY <2>2, <2>5, <2>6
  <2>8. InboxTypes' BY <2>4, <2>7 DEF InboxInv, InboxTypes
  <2>9. Rendered' BY <2>1, <2>2, <2>4, <2>6, <2>7 DEF InboxInv, Rendered
  <2>10. PastHistory' BY <2>1, <2>2, <2>4, <2>6, <2>7 DEF InboxInv, PastHistory
  <2>11. CountsItsRows'
    <3> SUFFICES ASSUME ~failed PROVE unread' = UnreadByPeer(convos', marks'[1])
      BY <2>4 DEF CountsItsRows
    <3>1. unread = [q \in Peers |-> {x \in convos[q] : x > marks[1][q]}]
      BY <2>1 DEF InboxInv, CountsItsRows, UnreadByPeer
    <3>2. {x \in convos[p] : x > k} = {} BY <2>2
    <3>3. \A q \in Peers : unread'[q] = {x \in convos[q] : x > marks'[1][q]}
      BY <2>4, <2>7, <3>1, <3>2
    <3>4. unread' = [q \in Peers |-> unread'[q]] BY <2>4, <3>1
    <3> QED BY <2>4, <3>3, <3>4 DEF UnreadByPeer
  <2> QED BY <2>8, <2>9, <2>10, <2>11 DEF InboxInv
<1> QED BY <1>1, <1>2

LEMMA InboxStep ==
  ASSUME InboxInv, InOrder, InboxNext PROVE InboxInv'
<1> USE InboxAssumption
<1>1. CASE PollStarts
  <2>1. PICK n \in {1, 2} : polls' = polls \cup {[n |-> n, at |-> "reading", list |-> NoMail]}
    BY <1>1 DEF PollStarts
  <2>2. UNCHANGED <<mail_in, convos, marks, unread, active, visible, banners, rendered, blind, failed>>
    BY <1>1 DEF PollStarts
  <2>3. InboxTypes' BY <2>1, <2>2 DEF InboxInv, InboxTypes, NoMail, Row
  <2> QED BY <2>2, <2>3 DEF InboxInv, Rendered, PastHistory, CountsItsRows
<1>2. CASE Look
  BY <1>2 DEF Look, InboxInv, InboxTypes, Rendered, PastHistory, CountsItsRows
<1>3. ASSUME NEW r \in polls, PollReads(r) PROVE InboxInv'
  <2>1. PICK list \in {mail_in, NoMail} :
          polls' = (polls \ {r}) \cup {[r EXCEPT !.at = IF list = mail_in THEN "whole" ELSE "partial", !.list = list]}
    BY <1>3 DEF PollReads, InOrder
  <2>2. UNCHANGED <<mail_in, convos, marks, unread, active, visible, banners, rendered, blind, failed>>
    BY <1>3 DEF PollReads
  <2>3. list \in [Peers -> SUBSET InMail] /\ \A p \in Peers : Row(list[p])
    BY DEF InboxInv, InboxTypes, NoMail, Row
  <2>4. list = mail_in => \A p \in Peers : Begun(list[p]) BY DEF InboxInv, InboxTypes
  <2>5. \A s \in polls' \ polls : /\ s \in [n : Int, at : {"reading", "whole", "partial"}, list : [Peers -> SUBSET InMail]]
                                  /\ s.list = list /\ (s.at = "whole" => list = mail_in)
    BY <1>3, <2>1, <2>3 DEF InboxInv, InboxTypes
  <2>6. InboxTypes' BY <2>1, <2>2, <2>3, <2>4, <2>5 DEF InboxInv, InboxTypes
  <2> QED BY <2>2, <2>6 DEF InboxInv, Rendered, PastHistory, CountsItsRows
<1>4. ASSUME NEW r \in polls, PollThrows(r) PROVE InboxInv'
  <2>1. SeedWatermarks(NoMail) = [p \in Peers |-> 0] BY DEF SeedWatermarks, NoMail, Newest
  <2>2. marks' # <<>> /\ marks'[1] = IF marks = <<>> THEN [p \in Peers |-> 0] ELSE marks[1]
    BY <1>4, <2>1 DEF PollThrows
  <2>3. UNCHANGED <<mail_in, convos, active, visible, banners, rendered>> /\ polls' = polls \ {r}
        /\ blind' = (blind \/ marks = <<>>) /\ failed' = TRUE
    BY <1>4 DEF PollThrows
  <2>4. InboxTypes' BY <2>2, <2>3 DEF InboxInv, InboxTypes
  <2>5. Rendered' BY <2>2, <2>3 DEF InboxInv, Rendered
  <2> QED BY <2>2, <2>3, <2>4, <2>5 DEF InboxInv, PastHistory, CountsItsRows
<1> QED BY <1>1, <1>2, <1>3, <1>4, ArrivesInOrder, OpenPeerOK, PollLandsOK DEF InboxNext

LEMMA InboxTells == ASSUME InboxInv PROVE UnreadIsHonest
<1> USE InboxAssumption
<1>1. \A p \in Peers : \A m \in mail_in[p] : marks # <<>> /\ m <= marks[1][p] => m \in 1..marks[1][p]
  BY DEF InboxInv, InboxTypes, InMail
<1> QED BY <1>1 DEF InboxInv, Rendered, PastHistory, CountsItsRows, UnreadIsHonest

-----------------------------------------------------------------------------
(* The thread: the report of a failed send.                                *)

Thread == [conv : Peers \cup {NoPeer}, ticking : Peers \cup {NoPeer},
           box : [for : Peers \cup {NoPeer}, n : Nat], sending : [for : Peers \cup {NoPeer}, n : Nat],
           to : Peers \cup {NoPeer}, after : Peers \cup {NoPeer}, err : BOOLEAN, typed : Nat,
           kept : SUBSET [text : [for : Peers \cup {NoPeer}, n : Nat], to : Peers \cup {NoPeer}],
           lastFailed : BOOLEAN]
ThreadInv == thread \in Thread /\ active \in Peers \cup {NoPeer} /\ FailureStays

LEMMA ThreadInitially == InboxInit => ThreadInv
BY DEF InboxInit, ThreadInv, Thread, NoThread, NoText, FailureStays

LEMMA ThreadStep == ASSUME ThreadInv, ThreadNext PROVE ThreadInv'
<1>0. thread \in Thread /\ active \in Peers \cup {NoPeer} /\ FailureStays BY DEF ThreadInv
<1>1. ASSUME NEW p \in Peers, ShowPeer(p) PROVE ThreadInv'
  BY <1>0, <1>1 DEF ShowPeer, ThreadInv, FailureStays
<1>2. CASE ThreadTick \/ TickLands \/ Type \/ LoadAfterSend
  <2>1. CASE ThreadTick BY <1>0, <2>1 DEF ThreadTick, ThreadInv, FailureStays, Thread
  <2>2. CASE TickLands BY <1>0, <2>2 DEF TickLands, ThreadInv, FailureStays, Thread
  <2>3. CASE Type
    <3> DEFINE text == [for |-> active, n |-> thread.typed + 1]
    <3>1. thread.typed + 1 \in Nat BY <1>0 DEF Thread
    <3>2. text \in [for : Peers \cup {NoPeer}, n : Nat] BY <1>0, <3>1
    <3>3. thread' = [thread EXCEPT !.typed = @ + 1, !.box = text] BY <2>3 DEF Type
    <3> HIDE DEF text
    <3>4. thread' \in Thread BY <1>0, <3>1, <3>2, <3>3 DEF Thread
    <3> QED BY <1>0, <2>3, <3>3, <3>4 DEF Type, ThreadInv, FailureStays, Thread
  <2>4. CASE LoadAfterSend BY <1>0, <2>4 DEF LoadAfterSend, ThreadInv, FailureStays, Thread
  <2> QED BY <1>2, <2>1, <2>2, <2>3, <2>4
<1>3. CASE Submit BY <1>0, <1>3 DEF Submit, ThreadInv, FailureStays, Thread, NoText
<1>4. CASE SendEnds
  <2> DEFINE outgoing == [text |-> thread.sending, to |-> thread.to]
  <2>1. outgoing \in [text : [for : Peers \cup {NoPeer}, n : Nat], to : Peers \cup {NoPeer}]
    BY <1>0 DEF Thread
  <2> HIDE DEF outgoing
  <2>2. thread' = [thread EXCEPT !.kept = @ \cup {outgoing},
                                 !.sending = NoText, !.to = NoPeer, !.after = thread.to]
    BY <1>4 DEF SendEnds, outgoing
  <2>3. thread' \in Thread BY <1>0, <2>1, <2>2 DEF Thread, NoText
  <2> QED BY <1>0, <1>4, <2>2, <2>3 DEF SendEnds, ThreadInv, FailureStays, Thread
<1>5. CASE SendFails BY <1>0, <1>5 DEF SendFails, ThreadInv, FailureStays, Thread, NoText
<1> QED BY <1>1, <1>2, <1>3, <1>4, <1>5 DEF ThreadNext

-----------------------------------------------------------------------------
(***************************************************************************)
(* The store: what a head lists was sealed to it.                          *)
(***************************************************************************)

Sending == [at : {"idle", "creating", "encrypting", "appending"}, msg : Nat, head : Nat, left : Int]
ConvTypes ==
  /\ heads \in Seq(Seq(Nat))
  /\ blob \in [Blobs -> [at : {"none", "up", "lagging", "expired"}, sealed : Nat]]
  /\ index \in [Devices -> 0..Len(heads)]
  /\ out \in [Devices -> Sending]
  /\ sends \in 0..MaxSends
  /\ headScan \in [Devices -> [due : BOOLEAN, next : Nat \ {0}, last : 0..Len(heads), known : Nat]]

MessageIds(list) == {list[i] : i \in DOMAIN list} \ {0}

\* A device sends a message of its own, which no head lists yet, to a head that
\* is there as soon as it is sealed.
OnItsWay ==
  /\ \A d \in Devices : out[d].at # "idle" =>
       /\ out[d].msg \in 1..sends
       /\ \A e \in Devices \ {d} : out[e].at # "idle" => out[e].msg # out[d].msg
       /\ \A h \in DOMAIN heads : out[d].msg \notin MessageIds(heads[h])
  /\ \A d \in Devices : out[d].at \in {"encrypting", "appending"} => out[d].head \in DOMAIN heads
  /\ \A d \in Devices : out[d].at = "appending" => blob[out[d].msg].sealed = out[d].head
  /\ \A h \in DOMAIN heads : MessageIds(heads[h]) \subseteq 1..sends

ConvInv == ConvTypes /\ OnItsWay /\ StoreIsSound

LEMMA ConvInitially == ConvInit => ConvInv
<1> USE StoreAssumption
<1>0. NoSend \in Sending BY DEF NoSend, Sending
<1>1. ASSUME ConvInit PROVE ConvTypes
  <2>1. heads = <<>> /\ sends = 0 BY <1>1 DEF ConvInit
  <2>2. heads \in Seq(Seq(Nat)) /\ Len(heads) = 0 BY <2>1
  <2>3. blob \in [Blobs -> [at : {"none", "up", "lagging", "expired"}, sealed : Nat]]
    BY <1>1 DEF ConvInit
  <2>4. out \in [Devices -> Sending] BY <1>0, <1>1 DEF ConvInit
  <2>5. headScan \in [Devices -> [due : BOOLEAN, next : Nat \ {0}, last : 0..Len(heads), known : Nat]]
    <3> DEFINE fresh == [NoHeadScan EXCEPT !.due = TRUE]
    <3>1. 0 \in 0..Len(heads) /\ 0 \in Nat /\ 1 \in Nat \ {0} BY <2>2
    <3>2. fresh \in [due : BOOLEAN, next : Nat \ {0}, last : 0..Len(heads), known : Nat]
      BY <3>1 DEF NoHeadScan
    <3>3. headScan = [d \in Devices |-> fresh] BY <1>1 DEF ConvInit
    <3> HIDE DEF fresh
    <3> QED BY <3>2, <3>3
  <2>6. index \in [Devices -> 0..Len(heads)] BY <1>1, <2>2 DEF ConvInit
  <2> QED BY <2>1, <2>2, <2>3, <2>4, <2>5, <2>6 DEF ConvTypes
<1> QED BY <1>1 DEF ConvInit, ConvInv, OnItsWay, StoreIsSound, Listed, MessageIds, NoSend

\* A send that ends, or that only counts its tries, takes nothing back.
LEMMA SendOver ==
  ASSUME ConvInv, NEW d \in Devices, UNCHANGED <<heads, blob, index, sends, headScan, told>>,
         GiveUp(d) \/ (out[d].at \in {"creating", "appending"} /\ out' = [out EXCEPT ![d].left = @ - 1])
  PROVE  ConvInv'
<1>0. ConvTypes /\ OnItsWay /\ StoreIsSound BY DEF ConvInv
<1>1. /\ out' \in [Devices -> Sending]
      /\ \A e \in Devices : out'[e].at # "idle" =>
           out'[e].at = out[e].at /\ out'[e].msg = out[e].msg /\ out'[e].head = out[e].head
  <2>1. CASE GiveUp(d)
    <3>1. NoSend \in Sending /\ NoSend.at = "idle" BY DEF NoSend, Sending
    <3>2. out' = [out EXCEPT ![d] = NoSend] BY <2>1 DEF GiveUp
    <3>3. \A e \in Devices : out'[e] = IF e = d THEN NoSend ELSE out[e] BY <1>0, <3>2 DEF ConvTypes
    <3>4. out' \in [Devices -> Sending] BY <1>0, <3>1, <3>2 DEF ConvTypes
    <3> QED BY <3>1, <3>3, <3>4
  <2>2. CASE out' = [out EXCEPT ![d].left = @ - 1]
    <3> DEFINE less == [out[d] EXCEPT !.left = @ - 1]
    <3>1. out[d] \in Sending BY <1>0 DEF ConvTypes
    <3>2. less \in Sending /\ less.at = out[d].at /\ less.msg = out[d].msg /\ less.head = out[d].head
      BY <3>1 DEF Sending
    <3>3. out' = [out EXCEPT ![d] = less] BY <2>2
    <3> HIDE DEF less
    <3>4. \A e \in Devices : out'[e] = IF e = d THEN less ELSE out[e] BY <1>0, <3>3 DEF ConvTypes
    <3>5. out' \in [Devices -> Sending] BY <1>0, <3>2, <3>3 DEF ConvTypes
    <3> QED BY <3>2, <3>4, <3>5
  <2> QED BY <2>1, <2>2
<1>2. ConvTypes' BY <1>0, <1>1 DEF ConvTypes
<1>3. \A h : MessageIds(heads'[h]) = MessageIds(heads[h]) OBVIOUS
<1>4. OnItsWay' BY <1>0, <1>1, <1>3 DEF OnItsWay
<1>5. StoreIsSound' BY <1>0, <1>3 DEF StoreIsSound, Listed, MessageIds
<1> QED BY <1>2, <1>4, <1>5 DEF ConvInv

LEMMA SendOK == ASSUME ConvInv, NEW d \in Devices, Send(d) PROVE ConvInv'
<1> USE StoreAssumption
<1>0. ConvTypes /\ OnItsWay /\ StoreIsSound BY DEF ConvInv
<1> DEFINE new == [at |-> IF index[d] = 0 THEN "creating" ELSE "encrypting",
                   msg |-> sends + 1, head |-> index[d], left |-> Attempts]
<1>1. new \in Sending BY <1>0 DEF ConvTypes, Sending
<1>2. /\ new.msg = sends + 1 /\ new.head = index[d] /\ new.at # "appending"
      /\ new.at = "encrypting" => index[d] # 0
  OBVIOUS
<1>3. out' = [out EXCEPT ![d] = new] BY DEF Send
<1> HIDE DEF new
<1>4. \A e \in Devices : out'[e] = IF e = d THEN new ELSE out[e] BY <1>0, <1>3 DEF ConvTypes
<1>5. UNCHANGED <<heads, blob, index, headScan, told>> /\ sends' = sends + 1 /\ sends < MaxSends
  BY DEF Send
<1>6. out' \in [Devices -> Sending] BY <1>0, <1>1, <1>3 DEF ConvTypes
<1>7. ConvTypes' BY <1>0, <1>5, <1>6 DEF ConvTypes
<1>8. \A h : MessageIds(heads'[h]) = MessageIds(heads[h]) BY <1>5
<1>9. sends \in Nat /\ index[d] \in 0..Len(heads) /\ Len(heads) \in Nat /\ DOMAIN heads = 1..Len(heads)
  BY <1>0 DEF ConvTypes
<1>10. OnItsWay'
  <2>1. \A e \in Devices : out'[e].at # "idle" =>
          /\ out'[e].msg \in 1..(sends + 1)
          /\ \A h \in DOMAIN heads : out'[e].msg \notin MessageIds(heads[h])
    BY <1>0, <1>2, <1>4, <1>9 DEF OnItsWay
  <2>2. \A e \in Devices : out'[e].at # "idle" =>
          \A f \in Devices \ {e} : out'[f].at # "idle" => out'[f].msg # out'[e].msg
    BY <1>0, <1>2, <1>4, <1>9 DEF OnItsWay
  <2>3. \A e \in Devices : out'[e].at \in {"encrypting", "appending"} => out'[e].head \in DOMAIN heads
    BY <1>0, <1>2, <1>4, <1>9 DEF OnItsWay
  <2>4. \A e \in Devices : out'[e].at = "appending" => blob[out'[e].msg].sealed = out'[e].head
    BY <1>0, <1>2, <1>4 DEF OnItsWay
  <2>5. \A h \in DOMAIN heads : MessageIds(heads[h]) \subseteq 1..(sends + 1) BY <1>0, <1>9 DEF OnItsWay
  <2> QED BY <1>5, <1>8, <2>1, <2>2, <2>3, <2>4, <2>5 DEF OnItsWay
<1>11. StoreIsSound' BY <1>0, <1>5, <1>8 DEF StoreIsSound, Listed, MessageIds
<1> QED BY <1>7, <1>10, <1>11 DEF ConvInv

\* Only the record of the send changes; it goes on to an existing head.
LEMMA CreateHeadOK == ASSUME ConvInv, NEW d \in Devices, CreateHead(d) PROVE ConvInv'
<1> USE StoreAssumption
<1>0. ConvTypes /\ OnItsWay /\ StoreIsSound BY DEF ConvInv
<1> DEFINE L == Len(heads)
<1>1. heads' = Append(heads, <<0>>) /\ UNCHANGED <<blob, index, sends, headScan, told>>
      /\ out[d].at = "creating"
  BY DEF CreateHead
<1>2. heads \in Seq(Seq(Nat)) /\ <<0>> \in Seq(Nat) /\ L \in Nat BY <1>0 DEF ConvTypes
<1>3. /\ heads' \in Seq(Seq(Nat)) /\ Len(heads') = L + 1 /\ heads'[L + 1] = <<0>>
      /\ \A h \in 1..L : heads'[h] = heads[h]
      /\ DOMAIN heads = 1..L /\ DOMAIN heads' = 1..(L + 1)
  BY <1>1, <1>2
<1>4. (\A h \in 1..L : MessageIds(heads'[h]) = MessageIds(heads[h])) /\ MessageIds(heads'[L + 1]) = {}
  <2>1. DOMAIN <<0>> = {1} /\ <<0>>[1] = 0 OBVIOUS
  <2>2. MessageIds(<<0>>) = {} BY <2>1 DEF MessageIds
  <2>3. MessageIds(heads'[L + 1]) = {} BY <1>3, <2>2
  <2>4. \A h \in 1..L : MessageIds(heads'[h]) = MessageIds(heads[h]) BY <1>3
  <2> QED BY <2>3, <2>4
<1>5. out' \in [Devices -> Sending] /\ \A e \in Devices : out'[e].at # "idle" =>
        /\ out[e].at # "idle" /\ out'[e].msg = out[e].msg
        /\ out'[e].at = "appending" => out[e].at = "appending"
        /\ out'[e].head = out[e].head \/ out'[e].head = L + 1
        /\ e # d => out'[e] = out[e]
        /\ e = d => out'[e].head = L + 1 /\ out'[e].at = "encrypting"
  <2>1. CASE out' = [out EXCEPT ![d].at = "encrypting", ![d].head = L + 1, ![d].left = Attempts]
    <3> DEFINE on == [out[d] EXCEPT !.at = "encrypting", !.head = L + 1, !.left = Attempts]
    <3>1. out[d] \in Sending BY <1>0 DEF ConvTypes
    <3>2. out'[d] = on /\ out' = [out EXCEPT ![d] = on] BY <1>0, <2>1 DEF ConvTypes
    <3>3. L + 1 \in Nat /\ Attempts \in Int BY <1>2
    <3> HIDE DEF L
    <3>4. on \in Sending BY <3>1, <3>3 DEF Sending
    <3>5. on.at = "encrypting" /\ on.msg = out[d].msg /\ on.head = L + 1 BY <3>1 DEF Sending
    <3> HIDE DEF on
    <3>6. \A e \in Devices : out'[e] = IF e = d THEN on ELSE out[e] BY <1>0, <3>2 DEF ConvTypes
    <3>7. out' \in [Devices -> Sending] BY <1>0, <3>2, <3>4 DEF ConvTypes
    <3> QED BY <1>1, <3>5, <3>6, <3>7
  <2>2. CASE GiveUp(d)
    <3>1. NoSend \in Sending /\ NoSend.at = "idle" BY DEF NoSend, Sending
    <3>2. out' = [out EXCEPT ![d] = NoSend] BY <2>2 DEF GiveUp
    <3>3. \A e \in Devices : out'[e] = IF e = d THEN NoSend ELSE out[e] BY <1>0, <3>2 DEF ConvTypes
    <3>4. out' \in [Devices -> Sending] BY <1>0, <3>1, <3>2 DEF ConvTypes
    <3> QED BY <3>1, <3>3, <3>4
  <2> QED BY <2>1, <2>2 DEF CreateHead
<1> HIDE DEF L
<1>6. 0..L \subseteq 0..(L + 1) /\ 1..L \subseteq 1..(L + 1) /\ L + 1 \in 1..(L + 1) /\ L + 1 \notin 1..L
      /\ \A h \in 1..(L + 1) : h \in 1..L \/ h = L + 1
  BY <1>2
<1>7. ConvTypes'
  <2>1. index' \in [Devices -> 0..(L + 1)] BY <1>0, <1>1, <1>6 DEF ConvTypes, L
  <2>2. headScan' \in [Devices -> [due : BOOLEAN, next : Nat \ {0}, last : 0..(L + 1), known : Nat]]
    BY <1>0, <1>1, <1>6 DEF ConvTypes, L
  <2> QED BY <1>0, <1>1, <1>3, <1>5, <2>1, <2>2 DEF ConvTypes
<1>8. OnItsWay'
  <2>1. \A e \in Devices : out'[e].at # "idle" =>
          /\ out'[e].msg \in 1..sends
          /\ \A f \in Devices \ {e} : out'[f].at # "idle" => out'[f].msg # out'[e].msg
          /\ \A h \in DOMAIN heads' : out'[e].msg \notin MessageIds(heads'[h])
    <3> SUFFICES ASSUME NEW e \in Devices, out'[e].at # "idle"
                 PROVE  /\ out'[e].msg \in 1..sends
                        /\ \A f \in Devices \ {e} : out'[f].at # "idle" => out'[f].msg # out'[e].msg
                        /\ \A h \in DOMAIN heads' : out'[e].msg \notin MessageIds(heads'[h])
      OBVIOUS
    <3>1. out[e].at # "idle" /\ out'[e].msg = out[e].msg BY <1>5
    <3>2. \A f \in Devices \ {e} : out'[f].at # "idle" => out[f].at # "idle" /\ out'[f].msg = out[f].msg
      BY <1>5
    <3>3. \A f \in Devices \ {e} : out'[f].at # "idle" => out'[f].msg # out'[e].msg
      BY <1>0, <3>1, <3>2 DEF OnItsWay
    <3>4. \A h \in 1..L : out'[e].msg \notin MessageIds(heads'[h]) BY <1>0, <1>3, <1>4, <3>1 DEF OnItsWay
    <3>5. \A h \in DOMAIN heads' : out'[e].msg \notin MessageIds(heads'[h]) BY <1>3, <1>4, <1>6, <3>4
    <3> QED BY <1>0, <3>1, <3>3, <3>5 DEF OnItsWay
  <2>2. \A e \in Devices : out'[e].at \in {"encrypting", "appending"} => out'[e].head \in DOMAIN heads'
    BY <1>0, <1>3, <1>5, <1>6 DEF OnItsWay
  <2>3. \A e \in Devices : out'[e].at = "appending" => blob[out'[e].msg].sealed = out'[e].head
    BY <1>0, <1>5 DEF OnItsWay
  <2>4. \A h \in DOMAIN heads' : MessageIds(heads'[h]) \subseteq 1..sends BY <1>0, <1>3, <1>4, <1>6 DEF OnItsWay
  <2> QED BY <1>1, <2>1, <2>2, <2>3, <2>4 DEF OnItsWay
<1>9. StoreIsSound' BY <1>0, <1>1, <1>3, <1>4, <1>6 DEF StoreIsSound, Listed, MessageIds
<1> QED BY <1>7, <1>8, <1>9 DEF ConvInv

LEMMA StoreBlobOK == ASSUME ConvInv, NEW d \in Devices, StoreBlob(d) PROVE ConvInv'
<1> USE StoreAssumption
<1>0. ConvTypes /\ OnItsWay /\ StoreIsSound BY DEF ConvInv
<1> DEFINE m == out[d].msg
<1>1. PICK at \in {"up", "lagging"} : blob' = [blob EXCEPT ![m] = [at |-> at, sealed |-> out[d].head]]
  BY DEF StoreBlob
<1>2. out' = [out EXCEPT ![d].at = "appending"] /\ out[d].at = "encrypting"
      /\ UNCHANGED <<heads, index, sends, headScan, told>>
  BY DEF StoreBlob
<1>3. m \in Blobs /\ m \in 1..sends /\ out[d].head \in Nat
  BY <1>0, <1>2 DEF OnItsWay, ConvTypes, Blobs, Sending
<1>4. /\ blob' \in [Blobs -> [at : {"none", "up", "lagging", "expired"}, sealed : Nat]]
      /\ \A b \in Blobs : blob'[b].sealed = IF b = m THEN out[d].head ELSE blob[b].sealed
  <2> HIDE DEF m
  <2> QED BY <1>0, <1>1, <1>3 DEF ConvTypes
<1>5. /\ out' \in [Devices -> Sending]
      /\ \A e \in Devices : /\ out'[e].msg = out[e].msg /\ out'[e].head = out[e].head
                            /\ out'[e].at = IF e = d THEN "appending" ELSE out[e].at
  BY <1>0, <1>2 DEF ConvTypes, Sending
<1>6. ConvTypes' BY <1>0, <1>2, <1>4, <1>5 DEF ConvTypes
<1>7. \A h : MessageIds(heads'[h]) = MessageIds(heads[h]) BY <1>2
<1>8. 1..sends \subseteq Blobs BY <1>0 DEF ConvTypes, Blobs
<1>9. OnItsWay'
  <2>1. \A e \in Devices : out'[e].at = "appending" => blob'[out'[e].msg].sealed = out'[e].head
    <3>1. \A e \in Devices \ {d} : out[e].at = "appending" =>
            out[e].msg \in Blobs /\ out[e].msg # m /\ blob[out[e].msg].sealed = out[e].head
      BY <1>0, <1>2, <1>8 DEF OnItsWay
    <3> QED BY <1>3, <1>4, <1>5, <3>1
  <2> QED BY <1>0, <1>2, <1>5, <1>7, <2>1 DEF OnItsWay
<1>10. StoreIsSound'
  <2>1. \A h \in DOMAIN heads : \A b \in MessageIds(heads[h]) : b \in Blobs /\ b # m
    BY <1>0, <1>2, <1>8 DEF OnItsWay
  <2> QED BY <1>0, <1>2, <1>4, <1>7, <2>1 DEF StoreIsSound, Listed, MessageIds
<1> QED BY <1>6, <1>9, <1>10 DEF ConvInv

LEMMA AppendBlobOK == ASSUME ConvInv, NEW d \in Devices, AppendBlob(d) PROVE ConvInv'
<1> USE StoreAssumption
<1>0. ConvTypes /\ OnItsWay /\ StoreIsSound BY DEF ConvInv
<1> DEFINE m == out[d].msg
           H == out[d].head
           L == Len(heads)
<1>1. /\ heads' = [heads EXCEPT ![H] = Append(@, m)]
      /\ UNCHANGED <<blob, sends, headScan>> /\ GiveUp(d) /\ out[d].at = "appending"
      /\ \/ index' = [index EXCEPT ![d] = H] /\ told' = told \cup {m}
         \/ UNCHANGED <<index, told>>
  BY DEF AppendBlob
<1>2. /\ m \in 1..sends /\ m \in Nat /\ H \in 1..L /\ L \in Nat /\ DOMAIN heads = 1..L
      /\ heads \in Seq(Seq(Nat)) /\ blob[m].sealed = H
      /\ \A h \in 1..L : m \notin MessageIds(heads[h])
  BY <1>0, <1>1 DEF OnItsWay, ConvTypes
<1> HIDE DEF m, H, L
<1>3. heads[H] \in Seq(Nat) BY <1>2
<1>4. Append(heads[H], m) \in Seq(Nat) /\ MessageIds(Append(heads[H], m)) = MessageIds(heads[H]) \cup {m}
  <2>1. DEFINE s == heads[H]
               t == Append(s, m)
  <2>2. /\ s \in Seq(Nat) /\ t \in Seq(Nat) /\ Len(t) = Len(s) + 1 /\ t[Len(s) + 1] = m
        /\ \A i \in 1..Len(s) : t[i] = s[i]
        /\ DOMAIN s = 1..Len(s) /\ DOMAIN t = 1..Len(t) /\ Len(s) \in Nat
    BY <1>2, <1>3
  <2> HIDE DEF s, t
  <2>3. \A i \in DOMAIN t : i \in DOMAIN s \/ i = Len(s) + 1 BY <2>2
  <2>4. \A i \in DOMAIN s : i \in DOMAIN t BY <2>2
  <2>5. Len(s) + 1 \in DOMAIN t BY <2>2
  <2>6. m # 0 BY <1>0, <1>2 DEF ConvTypes
  <2>7. MessageIds(t) = MessageIds(s) \cup {m} BY <2>2, <2>3, <2>4, <2>5, <2>6 DEF MessageIds
  <2> QED BY <2>2, <2>7 DEF s, t
<1>5. /\ heads' \in Seq(Seq(Nat)) /\ Len(heads') = L /\ DOMAIN heads' = 1..L
      /\ \A h \in 1..L : heads'[h] = IF h = H THEN Append(heads[H], m) ELSE heads[h]
  BY <1>1, <1>2, <1>4 DEF L
<1>6. \A h \in 1..L : MessageIds(heads'[h]) = IF h = H THEN MessageIds(heads[H]) \cup {m} ELSE MessageIds(heads[h])
  BY <1>4, <1>5
<1>7. /\ out' \in [Devices -> Sending]
      /\ \A e \in Devices : out'[e].at # "idle" => e # d /\ out'[e] = out[e]
  <2>1. NoSend \in Sending /\ NoSend.at = "idle" BY DEF NoSend, Sending
  <2>2. out' = [out EXCEPT ![d] = NoSend] BY <1>1 DEF GiveUp
  <2>3. \A e \in Devices : out'[e] = IF e = d THEN NoSend ELSE out[e] BY <1>0, <2>2 DEF ConvTypes
  <2>4. out' \in [Devices -> Sending] BY <1>0, <2>1, <2>2 DEF ConvTypes
  <2> QED BY <2>1, <2>3, <2>4
<1>8. ConvTypes'
  <2>1. index' \in [Devices -> 0..L]
    <3>1. index \in [Devices -> 0..L] BY <1>0 DEF ConvTypes, L
    <3>2. H \in 0..L BY <1>2
    <3>3. CASE index' = [index EXCEPT ![d] = H] BY <3>1, <3>2, <3>3
    <3> QED BY <1>1, <3>1, <3>3
  <2> QED BY <1>0, <1>1, <1>5, <1>7, <2>1 DEF ConvTypes, L
<1>9. OnItsWay'
  <2>1. \A e \in Devices : out'[e].at # "idle" => out'[e].msg # m
    BY <1>0, <1>1, <1>7 DEF OnItsWay, m
  <2>2. \A e \in Devices : out'[e].at # "idle" =>
          /\ out'[e].msg \in 1..sends
          /\ \A f \in Devices \ {e} : out'[f].at # "idle" => out'[f].msg # out'[e].msg
          /\ \A h \in DOMAIN heads' : out'[e].msg \notin MessageIds(heads'[h])
    <3> SUFFICES ASSUME NEW e \in Devices, out'[e].at # "idle"
                 PROVE  /\ out'[e].msg \in 1..sends
                        /\ \A f \in Devices \ {e} : out'[f].at # "idle" => out'[f].msg # out'[e].msg
                        /\ \A h \in DOMAIN heads' : out'[e].msg \notin MessageIds(heads'[h])
      OBVIOUS
    <3>1. out[e].at # "idle" /\ out'[e] = out[e] BY <1>7
    <3>2. \A f \in Devices \ {e} : out'[f].at # "idle" => out'[f].msg # out'[e].msg
      BY <1>0, <1>7, <3>1 DEF OnItsWay
    <3>3. \A h \in 1..L : out'[e].msg \notin MessageIds(heads[h]) BY <1>0, <1>2, <3>1 DEF OnItsWay
    <3>4. \A h \in DOMAIN heads' : out'[e].msg \notin MessageIds(heads'[h]) BY <1>2, <1>5, <1>6, <2>1, <3>3
    <3> QED BY <1>0, <3>1, <3>2, <3>4 DEF OnItsWay
  <2>3. \A e \in Devices : out'[e].at \in {"encrypting", "appending"} => out'[e].head \in DOMAIN heads'
    BY <1>0, <1>2, <1>5, <1>7 DEF OnItsWay
  <2>4. \A e \in Devices : out'[e].at = "appending" => blob[out'[e].msg].sealed = out'[e].head
    BY <1>0, <1>7 DEF OnItsWay
  <2>5. \A h \in 1..L : MessageIds(heads'[h]) \subseteq 1..sends BY <1>0, <1>2, <1>6 DEF OnItsWay
  <2> QED BY <1>1, <1>5, <2>2, <2>3, <2>4, <2>5 DEF OnItsWay
<1>10. StoreIsSound'
  <2>1. \A h \in 1..L : \A b \in MessageIds(heads[h]) : blob[b].sealed = h
    BY <1>0, <1>2 DEF StoreIsSound, Listed, MessageIds
  <2>2. \A h \in 1..L : \A b \in MessageIds(heads'[h]) : blob[b].sealed = h BY <1>2, <1>6, <2>1
  <2>3. told \subseteq UNION {MessageIds(heads[h]) : h \in 1..L}
    <3>1. \A h : Listed(h) = MessageIds(heads[h]) BY DEF Listed, MessageIds
    <3>2. told \subseteq UNION {Listed(h) : h \in 1..L} BY <1>0, <1>2 DEF StoreIsSound
    <3> QED BY <3>1, <3>2
  <2>4. told' \subseteq UNION {MessageIds(heads'[h]) : h \in 1..L} BY <1>1, <1>2, <1>6, <2>3
  <2> QED BY <1>1, <1>5, <2>2, <2>4 DEF StoreIsSound, Listed, MessageIds
<1> QED BY <1>8, <1>9, <1>10 DEF ConvInv

\* What discovery does, and what reads do, is no business of the store.
LEMMA StoreKept ==
  ASSUME ConvInv, UNCHANGED <<heads, out, sends, told>>,
         index' \in [Devices -> 0..Len(heads)],
         headScan' \in [Devices -> [due : BOOLEAN, next : Nat \ {0}, last : 0..Len(heads), known : Nat]],
         blob' \in [Blobs -> [at : {"none", "up", "lagging", "expired"}, sealed : Nat]],
         \A b \in Blobs : blob'[b].sealed = blob[b].sealed
  PROVE  ConvInv'
<1> USE StoreAssumption
<1>0. ConvTypes /\ OnItsWay /\ StoreIsSound BY DEF ConvInv
<1>1. ConvTypes' BY <1>0 DEF ConvTypes
<1>2. 1..sends \subseteq Blobs BY <1>0 DEF ConvTypes, Blobs
<1>3. OnItsWay' BY <1>0, <1>2 DEF OnItsWay
<1>4. \A h \in DOMAIN heads : \A b \in MessageIds(heads[h]) : blob'[b].sealed = blob[b].sealed
  BY <1>0, <1>2 DEF OnItsWay
<1>5. StoreIsSound' BY <1>0, <1>4 DEF StoreIsSound, Listed, MessageIds
<1> QED BY <1>1, <1>3, <1>5 DEF ConvInv

LEMMA ConvStep == ASSUME ConvInv, ConvNext PROVE ConvInv'
<1>0. ConvTypes BY DEF ConvInv
<1> DEFINE Scans == [due : BOOLEAN, next : Nat \ {0}, last : 0..Len(heads), known : Nat]
<1>1. Len(heads) \in Nat /\ headScan \in [Devices -> Scans] /\ index \in [Devices -> 0..Len(heads)]
  BY <1>0 DEF ConvTypes
<1>2. ASSUME NEW d \in Devices, ScanDue(d) \/ FindHeads(d) \/ ScanFails(d) \/ AdoptHead(d) PROVE ConvInv'
  <2>0. headScan[d] \in Scans /\ index[d] \in Nat BY <1>1, <1>2
  <2>1. PICK new \in Scans : headScan' = [headScan EXCEPT ![d] = new]
    <3>1. CASE ScanDue(d)
      <4>1. [headScan[d] EXCEPT !.due = TRUE] \in Scans BY <2>0
      <4> QED BY <3>1, <4>1 DEF ScanDue
    <3>2. CASE FindHeads(d)
      <4>1. [due |-> FALSE, next |-> 1, last |-> Len(heads), known |-> index[d]] \in Scans BY <1>1, <2>0
      <4> QED BY <3>2, <4>1 DEF FindHeads
    <3>3. CASE ScanFails(d)
      <4>1. NoHeadScan \in Scans BY <1>1 DEF NoHeadScan
      <4> QED BY <3>3, <4>1 DEF ScanFails
    <3>4. CASE AdoptHead(d)
      <4>1. [headScan[d] EXCEPT !.next = @ + 1] \in Scans BY <2>0
      <4> QED BY <3>4, <4>1 DEF AdoptHead
    <3> QED BY <1>2, <3>1, <3>2, <3>3, <3>4
  <2>2. headScan[d].next \in 0..Len(heads) \/ ~AdoptHead(d) BY <1>1, <2>0 DEF AdoptHead
  <2>3. index' \in [Devices -> 0..Len(heads)]
    <3>1. CASE AdoptHead(d) BY <1>1, <2>2, <3>1 DEF AdoptHead
    <3>2. CASE UNCHANGED index BY <1>1, <3>2
    <3> QED BY <1>2, <3>1, <3>2 DEF ScanDue, FindHeads, ScanFails
  <2>4. headScan' \in [Devices -> Scans]
    <3> HIDE DEF Scans
    <3> QED BY <1>1, <2>1
  <2>5. UNCHANGED <<heads, out, sends, told, blob>>
    BY <1>2 DEF ScanDue, FindHeads, ScanFails, AdoptHead
  <2> QED BY <1>0, <2>3, <2>4, <2>5, StoreKept DEF ConvTypes
<1>3. ASSUME NEW d \in Devices, NEW b \in Blobs,
             \/ ReadHead(d) \/ ReadDone(d)
             \/ FromCache(d, b) \/ BlobGone(d, b) \/ Unreachable(d, b) \/ OpenBlob(d, b)
      PROVE  ConvInv'
  <2>1. UNCHANGED <<heads, out, sends, told, blob, index, headScan>>
    BY <1>3 DEF ReadHead, ReadDone, FromCache, BlobGone, Unreachable, OpenBlob
  <2> QED BY <1>0, <2>1, StoreKept DEF ConvTypes
<1>4. ASSUME NEW d \in Devices, ReadHead(d) \/ ReadDone(d) PROVE ConvInv'
  <2>1. UNCHANGED <<heads, out, sends, told, blob, index, headScan>>
    BY <1>4 DEF ReadHead, ReadDone
  <2> QED BY <1>0, <2>1, StoreKept DEF ConvTypes
<1>5. ASSUME NEW b \in Blobs, CatchUp(b) \/ Expire(b) PROVE ConvInv'
  <2>1. PICK at \in {"up", "expired"} : blob' = [blob EXCEPT ![b].at = at]
    BY <1>5 DEF CatchUp, Expire
  <2>2. UNCHANGED <<heads, out, sends, told, index, headScan>> BY <1>5 DEF CatchUp, Expire
  <2>3. /\ blob' \in [Blobs -> [at : {"none", "up", "lagging", "expired"}, sealed : Nat]]
        /\ \A c \in Blobs : blob'[c].sealed = blob[c].sealed
    BY <1>0, <2>1 DEF ConvTypes
  <2> QED BY <1>0, <2>2, <2>3, StoreKept DEF ConvTypes
<1>6. ASSUME NEW d \in Devices, Raced(d) \/ StoreFails(d) PROVE ConvInv'
  <2>1. UNCHANGED <<heads, blob, index, sends, headScan, told>> BY <1>6 DEF Raced, StoreFails
  <2>2. GiveUp(d) \/ (out[d].at \in {"creating", "appending"} /\ out' = [out EXCEPT ![d].left = @ - 1])
    BY <1>6 DEF Raced, StoreFails
  <2> QED BY <2>1, <2>2, SendOver
<1> QED BY <1>2, <1>3, <1>4, <1>5, <1>6, SendOK, CreateHeadOK, StoreBlobOK, AppendBlobOK
        DEF ConvNext, ConvWrites, ConvReads

-----------------------------------------------------------------------------
(***************************************************************************)
(* The relay of knocks: between a crash and the restart the file has what  *)
(* the memory had, or the disk is to blame.                                *)
(***************************************************************************)

Numbered(list) == \A k \in list : k.id \in Nat /\ k.id <= knocks

\* What was acknowledged, is not over and has no excuse.
Owed == {id \in acked \ excused : id > expired}

KnockInv ==
  /\ knocks \in Nat /\ expired \in Nat /\ Numbered(pile) /\ Numbered(file) /\ acked \subseteq Nat
  /\ relayUp \in BOOLEAN /\ diskBad \in BOOLEAN
  /\ relayUp => Owed \subseteq KnockIds(pile)
  /\ relayUp /\ ~diskBad => {id \in KnockIds(pile) : id > expired} \subseteq KnockIds(file)
  /\ ~relayUp => Owed \subseteq KnockIds(file)

LEMMA KnockInitially == KnockInit => KnockInv
<1> SUFFICES ASSUME KnockInit PROVE KnockInv OBVIOUS
<1>1. pile = {} /\ file = {} /\ acked = {} /\ knocks = 0 /\ expired = 0 /\ relayUp = TRUE /\ diskBad = FALSE
  BY DEF KnockInit
<1>2. Owed = {} /\ KnockIds(pile) = {} BY <1>1 DEF Owed, KnockIds
<1>3. Numbered(pile) /\ Numbered(file) BY <1>1 DEF Numbered
<1> QED BY <1>1, <1>2, <1>3 DEF KnockInv

\* The knock that was posted last is within the cap.
LEMMA NewestIsKept ==
  ASSUME NEW list, NEW k \in list, \A j \in list : ~(j.id > k.id)
  PROVE  k \in Capped(list)
<1>1. {j \in list : j.id > k.id} = {} OBVIOUS
<1>2. Cardinality({j \in list : j.id > k.id}) = 0 BY <1>1, FS_EmptySet
<1> QED BY <1>2, KnockAssumption DEF Capped

LEMMA FetchKeeps == ASSUME KnockInv, Fetched, relayUp PROVE KnockInv'
<1>1. pile' \subseteq pile /\ \A id \in KnockIds(pile) : id > expired => id \in KnockIds(pile')
  BY DEF Fetched, Living, KnockIds
<1>2. /\ file' = pile' \/ (file' = file /\ (diskBad \/ pile' = pile))
      /\ UNCHANGED <<relayUp, diskBad, hits, knocks, expired, acked, excused>>
  BY DEF Fetched
<1>3. KnockIds(pile') \subseteq KnockIds(pile) BY <1>1 DEF KnockIds
<1>4. Numbered(pile)' /\ Numbered(file)' BY <1>1, <1>2 DEF KnockInv, Numbered
<1>5. Owed' = Owed BY <1>2 DEF Owed
<1>6. KnockIds(pile)' = KnockIds(pile') /\ KnockIds(file)' = KnockIds(file') BY DEF KnockIds
<1>7. \A id \in Owed : id > expired BY DEF Owed
<1> QED BY <1>1, <1>2, <1>3, <1>4, <1>5, <1>6, <1>7 DEF KnockInv

LEMMA PostKeeps == ASSUME KnockInv, PostKnock PROVE KnockInv'
<1> DEFINE new == Sealed(knocks + 1, Derived(guest.salt, guest.answer))
           list == Living(pile) \cup {new}
<1>1. /\ relayUp /\ UNCHANGED <<relayUp, expired>> /\ knocks' = knocks + 1
      /\ pile' = Capped(list) /\ diskBad' \in BOOLEAN /\ (file' = file \/ file' = pile')
      /\ ~diskBad' => file' = pile'
      /\ excused' = excused \cup (KnockIds(pile) \ KnockIds(Capped(list)))
      /\ acked' \in {acked, acked \cup {knocks + 1}}
  <2>1. PICK bad \in BOOLEAN : diskBad' = bad /\ file' = IF bad THEN file ELSE pile' BY DEF PostKnock
  <2>2. diskBad' \in BOOLEAN /\ (file' = file \/ file' = pile') /\ (~diskBad' => file' = pile') BY <2>1
  <2> QED BY <2>2 DEF PostKnock
<1>2. new.id = knocks + 1 BY DEF Sealed
<1> HIDE DEF new
<1>3. knocks \in Nat /\ \A k \in pile : k.id \in Nat /\ k.id <= knocks BY DEF KnockInv, Numbered
<1>4. \A k \in list : k.id \in Nat /\ k.id <= knocks + 1 BY <1>2, <1>3 DEF Living
<1>5. new \in Capped(list) BY <1>2, <1>3, <1>4, NewestIsKept
<1>6. Capped(list) \subseteq list BY DEF Capped
<1> HIDE DEF list
<1>7. knocks' \in Nat /\ Numbered(pile)' BY <1>1, <1>3, <1>4, <1>6 DEF Numbered
<1>8. \A k \in file : k.id \in Nat /\ k.id <= knocks + 1 BY <1>3 DEF KnockInv, Numbered
<1>9. Numbered(file)' BY <1>1, <1>7, <1>8 DEF Numbered
<1>10. knocks + 1 \in KnockIds(pile') BY <1>1, <1>2, <1>5 DEF KnockIds
<1>11. KnockIds(pile)' = KnockIds(pile') /\ KnockIds(file)' = KnockIds(file') BY DEF KnockIds
<1>12. Owed' \subseteq KnockIds(pile')
  BY <1>1, <1>10 DEF KnockInv, Owed
<1> QED BY <1>1, <1>3, <1>7, <1>9, <1>11, <1>12 DEF KnockInv

LEMMA RelayStill ==
  ASSUME KnockInv, UNCHANGED <<pile, file, relayUp, diskBad, knocks, expired, acked, excused>>
  PROVE  KnockInv'
BY DEF KnockInv, Numbered, Owed, KnockIds

LEMMA KnockStep == ASSUME KnockInv, KnockNext PROVE KnockInv'
<1>1. ASSUME NEW ph \in Phones, ReadConf(ph) \/ ConfExpires(ph) \/ SetKnock(ph) \/ PublishQuestion(ph)
      PROVE  KnockInv'
  BY <1>1, RelayStill DEF ReadConf, ConfExpires, SetKnock, PublishQuestion, relayVars
<1>2. ASSUME NEW ph \in Phones, ReadKnocks(ph) \/ PollKnocks(ph) PROVE KnockInv'
  BY <1>2, FetchKeeps DEF ReadKnocks, PollKnocks
<1>3. CASE Stranger \/ NotPosted \/ Minute
  BY <1>3, RelayStill DEF Stranger, NotPosted, Minute, relayVars
<1>4. CASE Week
  <2>1. expired' = expired + 1 /\ UNCHANGED <<pile, file, relayUp, diskBad, knocks, acked, excused>>
    BY <1>4 DEF Week
  <2>2. /\ acked \subseteq Nat /\ expired \in Nat /\ expired' \in Nat
        /\ \A id \in KnockIds(pile) : id \in Nat
    BY <2>1 DEF KnockInv, Numbered, KnockIds
  <2>3. \A id \in Nat : id > expired' => id > expired BY <2>1, <2>2
  <2>4. Owed' \subseteq Owed BY <2>1, <2>2, <2>3 DEF Owed
  <2>5. KnockIds(pile)' = KnockIds(pile) /\ KnockIds(file)' = KnockIds(file) BY <2>1 DEF KnockIds
  <2>6. Numbered(pile)' /\ Numbered(file)' BY <2>1 DEF KnockInv, Numbered
  <2> QED BY <2>1, <2>2, <2>3, <2>4, <2>5, <2>6 DEF KnockInv
<1>5. CASE Crash
  <2>1. /\ relayUp /\ ~relayUp' /\ relayUp' \in BOOLEAN /\ pile' = {}
        /\ excused' = IF diskBad THEN excused \cup (KnockIds(pile) \ KnockIds(file)) ELSE excused
        /\ UNCHANGED <<file, diskBad, knocks, expired, acked>>
    BY <1>5 DEF Crash
  <2>2. Owed' \subseteq KnockIds(file)
    <3>1. CASE diskBad BY <2>1, <3>1 DEF KnockInv, Owed
    <3>2. CASE ~diskBad BY <2>1, <3>2 DEF KnockInv, Owed
    <3> QED BY <3>1, <3>2
  <2>3. KnockIds(file)' = KnockIds(file) BY <2>1 DEF KnockIds
  <2>4. Numbered(pile)' /\ Numbered(file)' BY <2>1 DEF KnockInv, Numbered
  <2> QED BY <2>1, <2>2, <2>3, <2>4 DEF KnockInv
<1>6. CASE LoadKnocks
  <2>1. /\ ~relayUp /\ relayUp' /\ relayUp' \in BOOLEAN /\ pile' = Living(file)
        /\ UNCHANGED <<file, diskBad, knocks, expired, acked, excused>>
    BY <1>6 DEF LoadKnocks
  <2>2. /\ KnockIds(pile') \subseteq KnockIds(file)
        /\ \A id \in KnockIds(file) : id > expired => id \in KnockIds(pile')
    BY <2>1 DEF Living, KnockIds
  <2>3. Owed' = Owed /\ \A id \in Owed : id > expired BY <2>1 DEF Owed
  <2>4. Numbered(pile)' /\ Numbered(file)' BY <2>1 DEF KnockInv, Numbered, Living
  <2>5. KnockIds(pile)' = KnockIds(pile') /\ KnockIds(file)' = KnockIds(file) BY <2>1 DEF KnockIds
  <2> QED BY <2>1, <2>2, <2>3, <2>4, <2>5 DEF KnockInv
<1> QED BY <1>1, <1>2, <1>3, <1>4, <1>5, <1>6, PostKeeps DEF KnockNext

LEMMA KnockTells == ASSUME KnockInv PROVE AckedIsServed
BY DEF KnockInv, Owed, AckedIsServed

-----------------------------------------------------------------------------
(***************************************************************************)
(* The sign-ups: what is given stays, a status is meant for this person    *)
(* because a serial key never names a second one, and a window that is     *)
(* opened anew is one in which nothing was counted.                        *)
(***************************************************************************)

SignRow == [id : Nat, status : {"new", "invited", "onboarded"}]
Counter == [count : Nat, start : 0..MaxTime]
Windows == Callers \X Scopes \X (0..MaxTime)

HandleTypes ==
  /\ \A f \in forms : f.scope \in Scopes /\ f.key \in (IF f.scope = "waitlist" THEN Emails ELSE Telegrams)
  /\ given \subseteq Emails /\ DOMAIN waitlist = Emails

KeyTypes ==
  /\ alpha \in [Telegrams -> SignRow \cup {Absent}] /\ nextId \in Nat
  /\ DOMAIN meant = Telegrams
\* A serial key names one person for ever, on an old page too.
KeysAreOnes ==
  /\ \A t \in Telegrams : alpha[t] # Absent => alpha[t].id < nextId
  /\ \A t, u \in Telegrams : alpha[t] # Absent /\ alpha[u] # Absent /\ alpha[t].id = alpha[u].id => t = u
  /\ \A r \in page : /\ r.telegram \in Telegrams /\ r.id \in Nat /\ r.id < nextId
                     /\ \A t \in Telegrams : alpha[t] # Absent /\ alpha[t].id = r.id => t = r.telegram
NoRowNew == \A t \in Telegrams : alpha[t] = Absent => meant[t] = "new"

RateTypes ==
  /\ limit \in [Callers \X Scopes -> Counter \cup {Absent}]
  /\ passed \in [Windows -> Nat] /\ time \in 0..MaxTime
\* What was let through in a window is counted in it, or the window is over.
Counting ==
  \A c \in Callers, s \in Scopes :
    LET l == limit[<<c, s>>] IN
    /\ l = Absent => \A k \in 0..MaxTime : passed[<<c, s, k>>] > 0 => k < time
    /\ l # Absent => /\ l.start <= time /\ passed[<<c, s, l.start>>] <= l.count
                     /\ \A k \in 0..MaxTime : passed[<<c, s, k>>] > 0 => k <= l.start

SignupInv ==
  /\ HandleTypes /\ HandleKept
  /\ KeyTypes /\ KeysAreOnes /\ NoRowNew /\ StatusIsMeant
  /\ RateTypes /\ Counting /\ RateHolds

LEMMA RowsAreThere ==
  /\ \A r \in SignRow : r # Absent
  /\ \A l \in Counter : l # Absent
  /\ \A t : [telegram |-> t] # Absent
<1>1. DOMAIN Absent = {"absent"} BY DEF Absent
<1>2. ASSUME NEW r \in SignRow PROVE r # Absent
  <2>1. DOMAIN r = {"id", "status"} BY DEF SignRow
  <2> QED BY <1>1, <2>1
<1>3. ASSUME NEW l \in Counter PROVE l # Absent
  <2>1. DOMAIN l = {"count", "start"} BY DEF Counter
  <2> QED BY <1>1, <2>1
<1>4. ASSUME NEW t PROVE [telegram |-> t] # Absent
  <2>1. DOMAIN [telegram |-> t] = {"telegram"} OBVIOUS
  <2> QED BY <1>1, <2>1
<1> QED BY <1>2, <1>3, <1>4

LEMMA SignupInitially == SiteInit => SignupInv
<1> SUFFICES ASSUME SiteInit PROVE SignupInv OBVIOUS
<1> USE SiteAssumption
<1>1. /\ waitlist = [e \in Emails |-> Absent] /\ alpha = [t \in Telegrams |-> Absent]
      /\ limit = [x \in Callers \X Scopes |-> Absent] /\ passed = [x \in Windows |-> 0]
      /\ forms = {} /\ given = {} /\ page = {} /\ time = 0 /\ nextId = 1
      /\ meant = [t \in Telegrams |-> "new"]
  BY DEF SiteInit, Windows
<1>2. HandleTypes /\ HandleKept BY <1>1 DEF HandleTypes, HandleKept
<1>3. KeyTypes BY <1>1 DEF KeyTypes
<1>4. KeysAreOnes /\ NoRowNew /\ StatusIsMeant BY <1>1 DEF KeysAreOnes, NoRowNew, StatusIsMeant
<1>5. RateTypes BY <1>1 DEF RateTypes
<1>7. Counting
  <2> SUFFICES ASSUME NEW c \in Callers, NEW s \in Scopes
               PROVE  limit[<<c, s>>] = Absent /\ \A k \in 0..MaxTime : ~(passed[<<c, s, k>>] > 0)
    BY DEF Counting
  <2>1. \A k \in 0..MaxTime : <<c, s, k>> \in Windows BY DEF Windows
  <2>2. \A x \in Windows : passed[x] = 0 BY <1>1
  <2>3. limit[<<c, s>>] = Absent BY <1>1
  <2> QED BY <2>1, <2>2, <2>3
<1>8. \A x \in Windows : x[2] \in Scopes BY DEF Windows
<1>9. DOMAIN passed = Windows /\ \A x \in Windows : passed[x] = 0 BY <1>1
<1>10. \A s \in Scopes : RateMax[s] \in Nat BY DEF Scopes
<1>11. RateHolds BY <1>8, <1>9, <1>10 DEF RateHolds
<1> QED BY <1>2, <1>3, <1>4, <1>5, <1>7, <1>11 DEF SignupInv

\* A form is counted before anything else is done with it.
LEMMA CountedOnce ==
  ASSUME RateTypes, Counting, RateHolds,
         NEW c \in Callers, NEW s \in Scopes, NEW key, NEW telegram, SignUp(c, s, key, telegram)
  PROVE  RateTypes' /\ Counting' /\ RateHolds'
<1> USE SiteAssumption
<1> DEFINE l == Counted(c, s)
<1>1. PICK clear \in BOOLEAN :
        limit' = [x \in DOMAIN limit |->
                    IF x = <<c, s>> THEN l
                    ELSE IF clear /\ limit[x] # Absent /\ limit[x].start < time - 2 THEN Absent ELSE limit[x]]
  BY DEF SignUp
<1>2. /\ passed' = IF l.count > RateMax[s] THEN passed ELSE [passed EXCEPT ![<<c, s, l.start>>] = @ + 1]
      /\ time' = time
  BY DEF SignUp
<1>3. /\ limit \in [Callers \X Scopes -> Counter \cup {Absent}] /\ passed \in [Windows -> Nat] /\ time \in 0..MaxTime
  BY DEF RateTypes
<1>4. <<c, s>> \in Callers \X Scopes /\ limit[<<c, s>>] \in Counter \cup {Absent} BY <1>3
<1>5. RateMax[s] \in Nat BY DEF Scopes
<1>6. l \in Counter /\ l # Absent /\ l.count \in Nat /\ l.start \in 0..MaxTime /\ l.start <= time
      /\ passed[<<c, s, l.start>>] + 1 <= l.count
      /\ \A k \in 0..MaxTime : passed[<<c, s, k>>] > 0 => k <= l.start
  <2>1. \A k \in 0..MaxTime : passed[<<c, s, k>>] \in Nat
    <3>1. \A k \in 0..MaxTime : <<c, s, k>> \in Windows BY DEF Windows
    <3> QED BY <1>3, <3>1
  <2>2. CASE limit[<<c, s>>] = Absent \/ limit[<<c, s>>].start < time - 1
    <3>1. l = [count |-> 1, start |-> time] BY <2>2 DEF Counted
    <3>2. l \in Counter /\ l.count = 1 /\ l.start = time BY <1>3, <3>1 DEF Counter
    <3>3. \A k \in 0..MaxTime : passed[<<c, s, k>>] > 0 => k < time
      <4>1. CASE limit[<<c, s>>] = Absent BY <4>1 DEF Counting
      <4>2. CASE limit[<<c, s>>] # Absent /\ limit[<<c, s>>].start < time - 1
        <5>1. limit[<<c, s>>].start \in Int BY <1>4, <4>2 DEF Counter
        <5>2. \A k \in 0..MaxTime : passed[<<c, s, k>>] > 0 => k <= limit[<<c, s>>].start BY <4>2 DEF Counting
        <5> QED BY <1>3, <4>2, <5>1, <5>2
      <4> QED BY <2>2, <4>1, <4>2
    <3>4. passed[<<c, s, time>>] = 0 BY <1>3, <2>1, <3>3
    <3> QED BY <1>3, <3>2, <3>3, <3>4, RowsAreThere
  <2>3. CASE ~(limit[<<c, s>>] = Absent \/ limit[<<c, s>>].start < time - 1)
    <3>1. limit[<<c, s>>] \in Counter BY <1>4, <2>3
    <3>2. l = [limit[<<c, s>>] EXCEPT !.count = @ + 1] BY <2>3 DEF Counted
    <3>3. l \in Counter /\ l.count = limit[<<c, s>>].count + 1 /\ l.start = limit[<<c, s>>].start
      BY <3>1, <3>2 DEF Counter
    <3>4. limit[<<c, s>>].count \in Nat /\ limit[<<c, s>>].start \in 0..MaxTime BY <3>1 DEF Counter
    <3>5. /\ limit[<<c, s>>].start <= time /\ passed[<<c, s, limit[<<c, s>>].start>>] <= limit[<<c, s>>].count
          /\ \A k \in 0..MaxTime : passed[<<c, s, k>>] > 0 => k <= limit[<<c, s>>].start
      BY <2>3 DEF Counting
    <3> QED BY <1>3, <2>1, <3>3, <3>4, <3>5, RowsAreThere
  <2> QED BY <2>2, <2>3
<1> HIDE DEF l
<1>7. /\ \A x \in Windows : x \in DOMAIN passed /\ passed[x] \in Nat /\ passed[x] <= RateMax[x[2]]
  BY <1>3 DEF RateHolds
<1>8. <<c, s, l.start>> \in Windows BY <1>6 DEF Windows
<1>9. passed[<<c, s, l.start>>] \in Nat BY <1>7, <1>8
<1>10. /\ passed' \in [Windows -> Nat]
       /\ \A x \in Windows : passed'[x] # passed[x] =>
            x = <<c, s, l.start>> /\ passed'[x] = passed[x] + 1 /\ l.count <= RateMax[s]
  <2>1. CASE l.count > RateMax[s] BY <1>2, <1>3, <2>1
  <2>2. CASE ~(l.count > RateMax[s])
    <3>1. passed' = [passed EXCEPT ![<<c, s, l.start>>] = passed[<<c, s, l.start>>] + 1] BY <1>2, <2>2
    <3>2. passed[<<c, s, l.start>>] + 1 \in Nat BY <1>9
    <3>3. passed' \in [Windows -> Nat] BY <1>3, <1>8, <3>1, <3>2
    <3>4. l.count <= RateMax[s] BY <1>5, <1>6, <2>2
    <3> QED BY <1>3, <1>8, <3>1, <3>3, <3>4
  <2> QED BY <2>1, <2>2
<1>11. \A x \in Callers \X Scopes :
         limit'[x] = IF x = <<c, s>> THEN l
                     ELSE IF clear /\ limit[x] # Absent /\ limit[x].start < time - 2 THEN Absent ELSE limit[x]
  BY <1>1, <1>3
<1>12. limit' \in [Callers \X Scopes -> Counter \cup {Absent}]
  <2>1. DOMAIN limit = Callers \X Scopes BY <1>3
  <2>2. \A x \in Callers \X Scopes : limit'[x] \in Counter \cup {Absent} BY <1>3, <1>6, <1>11
  <2> QED BY <1>1, <2>1, <2>2
<1>13. RateTypes' BY <1>2, <1>3, <1>10, <1>12 DEF RateTypes
<1>14. RateHolds'
  <2> SUFFICES ASSUME NEW x \in Windows PROVE passed'[x] <= RateMax[x[2]]
    <3>1. DOMAIN passed' = Windows BY <1>10
    <3> QED BY <3>1 DEF RateHolds
  <2>1. CASE passed'[x] = passed[x] BY <1>7, <2>1
  <2>2. CASE passed'[x] # passed[x]
    <3>1. x = <<c, s, l.start>> /\ passed'[x] = passed[x] + 1 /\ l.count <= RateMax[s] BY <1>10, <2>2
    <3>2. x[2] = s BY <3>1
    <3>3. passed[x] + 1 <= l.count BY <1>6, <3>1
    <3> QED BY <1>5, <1>6, <1>9, <3>1, <3>2, <3>3
  <2> QED BY <2>1, <2>2
<1>15. Counting'
  <2> SUFFICES ASSUME NEW d \in Callers, NEW v \in Scopes
               PROVE  /\ limit'[<<d, v>>] = Absent => \A k \in 0..MaxTime : passed'[<<d, v, k>>] > 0 => k < time
                      /\ limit'[<<d, v>>] # Absent =>
                           /\ limit'[<<d, v>>].start <= time /\ passed'[<<d, v, limit'[<<d, v>>].start>>] <= limit'[<<d, v>>].count
                           /\ \A k \in 0..MaxTime : passed'[<<d, v, k>>] > 0 => k <= limit'[<<d, v>>].start
    BY <1>2 DEF Counting
  <2>1. <<d, v>> \in Callers \X Scopes /\ \A k \in 0..MaxTime : <<d, v, k>> \in Windows BY DEF Windows
  <2>2. CASE <<d, v>> = <<c, s>>
    <3>1. d = c /\ v = s /\ limit'[<<d, v>>] = l BY <1>11, <2>1, <2>2
    <3>2. passed'[<<c, s, l.start>>] <= l.count
      <4>1. passed'[<<c, s, l.start>>] = passed[<<c, s, l.start>>] \/ passed'[<<c, s, l.start>>] = passed[<<c, s, l.start>>] + 1
        BY <1>8, <1>10
      <4> QED BY <1>6, <1>9, <4>1
    <3>3. ASSUME NEW k \in 0..MaxTime, passed'[<<c, s, k>>] > 0 PROVE k <= l.start
      <4>1. <<c, s, k>> \in Windows BY <2>1, <3>1
      <4>2. CASE passed'[<<c, s, k>>] = passed[<<c, s, k>>] BY <1>6, <3>3, <4>2
      <4>3. CASE passed'[<<c, s, k>>] # passed[<<c, s, k>>]
        <5>1. <<c, s, k>> = <<c, s, l.start>> BY <1>10, <4>1, <4>3
        <5>2. k = l.start BY <5>1
        <5> QED BY <1>6, <5>2
      <4> QED BY <4>2, <4>3
    <3> QED BY <1>6, <3>1, <3>2, <3>3
  <2>3. CASE <<d, v>> # <<c, s>>
    <3>1. \A k \in 0..MaxTime : passed'[<<d, v, k>>] = passed[<<d, v, k>>]
      <4> SUFFICES ASSUME NEW k \in 0..MaxTime PROVE passed'[<<d, v, k>>] = passed[<<d, v, k>>] OBVIOUS
      <4>1. <<d, v, k>> # <<c, s, l.start>> BY <2>3
      <4>2. <<d, v, k>> \in Windows BY <2>1
      <4> QED BY <1>10, <4>1, <4>2
    <3>2. \A k \in 0..MaxTime : passed[<<d, v, k>>] \in Nat BY <1>3, <2>1
    <3>3. CASE limit'[<<d, v>>] = limit[<<d, v>>]
      <4>1. CASE limit[<<d, v>>] = Absent
        <5>1. \A k \in 0..MaxTime : passed[<<d, v, k>>] > 0 => k < time BY <4>1 DEF Counting
        <5> QED BY <3>1, <3>3, <4>1, <5>1
      <4>2. CASE limit[<<d, v>>] # Absent
        <5>1. limit[<<d, v>>].start \in 0..MaxTime BY <1>3, <2>1, <4>2 DEF Counter
        <5>2. /\ limit[<<d, v>>].start <= time /\ passed[<<d, v, limit[<<d, v>>].start>>] <= limit[<<d, v>>].count
              /\ \A k \in 0..MaxTime : passed[<<d, v, k>>] > 0 => k <= limit[<<d, v>>].start
          BY <4>2 DEF Counting
        <5> QED BY <3>1, <3>3, <4>2, <5>1, <5>2
      <4> QED BY <4>1, <4>2
    <3>4. CASE limit'[<<d, v>>] = Absent /\ limit[<<d, v>>] # Absent /\ limit[<<d, v>>].start < time - 2
      <4>1. limit[<<d, v>>].start \in Int BY <1>3, <2>1, <3>4 DEF Counter
      <4>2. \A k \in 0..MaxTime : passed[<<d, v, k>>] > 0 => k <= limit[<<d, v>>].start BY <3>4 DEF Counting
      <4> QED BY <1>3, <3>1, <3>4, <4>1, <4>2
    <3> QED BY <1>11, <2>1, <2>3, <3>3, <3>4
  <2> QED BY <2>2, <2>3
<1> QED BY <1>13, <1>14, <1>15

\* What is given is not blanked.
LEMMA HandlesStay ==
  ASSUME HandleTypes, HandleKept, SignupNext PROVE HandleTypes' /\ HandleKept'
<1>0. /\ \A f \in forms : f.scope \in Scopes /\ f.key \in (IF f.scope = "waitlist" THEN Emails ELSE Telegrams)
      /\ given \subseteq Emails /\ DOMAIN waitlist = Emails
      /\ \A e \in given : waitlist[e] # Absent /\ waitlist[e].telegram # Null
  BY DEF HandleTypes, HandleKept
<1>1. CASE UNCHANGED <<waitlist, given, forms>> BY <1>0, <1>1 DEF HandleTypes, HandleKept
<1>2. ASSUME NEW c \in Callers, NEW s \in Scopes, NEW key \in (IF s = "waitlist" THEN Emails ELSE Telegrams),
             NEW telegram, SignUp(c, s, key, telegram)
      PROVE  HandleTypes' /\ HandleKept'
  <2>1. /\ waitlist' = waitlist /\ given' = given
        /\ \A f \in forms' : f \in forms \/ f = [no |-> sent, scope |-> s, key |-> key, telegram |-> telegram]
    BY <1>2 DEF SignUp
  <2> QED BY <1>0, <1>2, <2>1 DEF HandleTypes, HandleKept
<1>3. ASSUME NEW f \in forms, FormLands(f) PROVE HandleTypes' /\ HandleKept'
  <2>1. forms' = forms \ {f} BY <1>3 DEF FormLands
  <2>2. CASE f.scope # "waitlist"
    <3>1. waitlist' = waitlist /\ given' = given BY <1>3, <2>2 DEF FormLands
    <3> QED BY <1>0, <2>1, <3>1 DEF HandleTypes, HandleKept
  <2>3. CASE f.scope = "waitlist"
    <3>1. f.key \in Emails BY <1>0, <2>3
    <3>2. /\ waitlist' = [waitlist EXCEPT ![f.key] = WaitlistRow(f)]
          /\ given' = IF f.telegram = Null THEN given ELSE given \cup {f.key}
      BY <1>3, <2>3 DEF FormLands
    <3>3. \A e \in Emails : waitlist'[e] = IF e = f.key THEN WaitlistRow(f) ELSE waitlist[e] BY <1>0, <3>2
    <3>4. WaitlistRow(f) # Absent /\ WaitlistRow(f).telegram =
            IF f.telegram = Null /\ waitlist[f.key] # Absent THEN waitlist[f.key].telegram ELSE f.telegram
      BY RowsAreThere DEF WaitlistRow
    <3>5. HandleKept'
      <4> SUFFICES ASSUME NEW e \in given' PROVE waitlist'[e] # Absent /\ waitlist'[e].telegram # Null
        BY DEF HandleKept
      <4>1. e \in Emails /\ (e \in given \/ (e = f.key /\ f.telegram # Null)) BY <1>0, <3>1, <3>2
      <4>2. CASE e # f.key BY <1>0, <3>3, <4>1, <4>2
      <4>3. CASE e = f.key BY <1>0, <3>3, <3>4, <4>1, <4>3
      <4> QED BY <4>2, <4>3
    <3>6. HandleTypes' BY <1>0, <2>1, <3>1, <3>2 DEF HandleTypes
    <3> QED BY <3>5, <3>6
  <2> QED BY <2>2, <2>3
<1>4. ASSUME NEW f \in forms, FormFails(f) PROVE HandleTypes' /\ HandleKept'
  BY <1>0, <1>4 DEF FormFails, HandleTypes, HandleKept
<1>5. ASSUME NEW e \in Emails, AdminDropsEmail(e) PROVE HandleTypes' /\ HandleKept'
  <2>1. waitlist' = [waitlist EXCEPT ![e] = Absent] /\ given' = given \ {e} /\ forms' = forms
    BY <1>5 DEF AdminDropsEmail
  <2> QED BY <1>0, <2>1 DEF HandleTypes, HandleKept
<1>6. CASE AdminLoads \/ WindowPasses \/ (\E r \in page : AdminDeletes(r) \/ \E s \in {"new", "invited", "onboarded"} : AdminSets(r, s))
  <2>1. UNCHANGED <<waitlist, given, forms>>
    BY <1>6 DEF AdminLoads, WindowPasses, AdminDeletes, AdminSets
  <2> QED BY <1>1, <2>1
<1>7. "waitlist" \in Scopes /\ "alpha" \in Scopes /\ "alpha" # "waitlist" BY DEF Scopes
<1> QED BY <1>2, <1>3, <1>4, <1>5, <1>6, <1>7 DEF SignupNext

KeysInv == KeyTypes /\ KeysAreOnes /\ NoRowNew /\ StatusIsMeant

\* A status follows its key, and a key names one person for ever.
LEMMA StatusStays ==
  ASSUME HandleTypes, KeysInv, SignupNext PROVE KeysInv'
<1>0. /\ alpha \in [Telegrams -> SignRow \cup {Absent}] /\ nextId \in Nat /\ DOMAIN meant = Telegrams
      /\ KeysAreOnes /\ NoRowNew /\ StatusIsMeant
  BY DEF KeysInv, KeyTypes
<1>1. /\ \A t \in Telegrams : alpha[t] # Absent => alpha[t] \in SignRow /\ alpha[t].id \in Nat /\ alpha[t].id < nextId
      /\ \A t, u \in Telegrams : alpha[t] # Absent /\ alpha[u] # Absent /\ alpha[t].id = alpha[u].id => t = u
      /\ \A r \in page : r.telegram \in Telegrams /\ r.id \in Nat /\ r.id < nextId
      /\ \A r \in page, t \in Telegrams : alpha[t] # Absent /\ alpha[t].id = r.id => t = r.telegram
  BY <1>0 DEF KeysAreOnes, SignRow
<1>2. /\ \A t \in Telegrams : alpha[t] = Absent => meant[t] = "new"
      /\ \A t \in Telegrams : alpha[t] # Absent => alpha[t].status = meant[t]
  BY <1>0 DEF NoRowNew, StatusIsMeant
<1>3. CASE UNCHANGED <<alpha, nextId, meant, page>>
  BY <1>0, <1>3 DEF KeysInv, KeyTypes, KeysAreOnes, NoRowNew, StatusIsMeant
<1>4. CASE \/ WindowPasses \/ (\E f \in forms : FormFails(f)) \/ (\E e \in Emails : AdminDropsEmail(e))
           \/ \E c \in Callers, s \in Scopes, key \in Emails \cup Telegrams, t \in Telegrams \cup {Null, "bad"} : SignUp(c, s, key, t)
  <2>1. UNCHANGED <<alpha, nextId, meant, page>>
    BY <1>4 DEF WindowPasses, FormFails, AdminDropsEmail, SignUp
  <2> QED BY <1>3, <2>1
<1>5. ASSUME NEW f \in forms, FormLands(f) PROVE KeysInv'
  <2>1. CASE f.scope = "waitlist"
    <3>1. UNCHANGED <<alpha, nextId, meant, page>> BY <1>5, <2>1 DEF FormLands
    <3> QED BY <1>3, <3>1
  <2>2. CASE f.scope # "waitlist"
    <3> DEFINE row == [id |-> nextId, status |-> "new"]
    <3>1. /\ alpha' = IF alpha[f.key] # Absent THEN alpha ELSE [alpha EXCEPT ![f.key] = row]
          /\ nextId' = nextId + 1 /\ meant' = meant /\ page' = page
      BY <1>5, <2>2 DEF FormLands, FreshId
    <3>2. f.key \in Telegrams BY <2>2 DEF HandleTypes
    <3>3. row \in SignRow /\ row.id = nextId /\ row.status = "new" BY <1>0 DEF SignRow
    <3>4. row # Absent BY <3>3, RowsAreThere
    <3> HIDE DEF row
    <3>5. alpha' \in [Telegrams -> SignRow \cup {Absent}] BY <1>0, <3>1, <3>3
    <3>6. \A t \in Telegrams : alpha'[t] = alpha[t] \/ (t = f.key /\ alpha[t] = Absent /\ alpha'[t] = row)
      BY <1>0, <3>1, <3>2
    <3>7. \A t \in Telegrams : alpha'[t] # Absent => alpha'[t].id < nextId + 1
      BY <1>0, <1>1, <3>3, <3>6
    <3>8. \A t, u \in Telegrams : alpha'[t] # Absent /\ alpha'[u] # Absent /\ alpha'[t].id = alpha'[u].id => t = u
      BY <1>0, <1>1, <3>3, <3>6
    <3>9. \A r \in page : r.id < nextId + 1 BY <1>0, <1>1
    <3>10. \A r \in page, t \in Telegrams : alpha'[t] # Absent /\ alpha'[t].id = r.id => t = r.telegram
      BY <1>0, <1>1, <3>3, <3>6
    <3>11. KeysAreOnes' BY <1>1, <3>1, <3>7, <3>8, <3>9, <3>10 DEF KeysAreOnes
    <3>12. NoRowNew' BY <1>2, <3>1, <3>4, <3>6 DEF NoRowNew
    <3>13. StatusIsMeant' BY <1>2, <3>1, <3>3, <3>6 DEF StatusIsMeant
    <3>14. KeyTypes' BY <1>0, <3>1, <3>5 DEF KeyTypes
    <3> QED BY <3>11, <3>12, <3>13, <3>14 DEF KeysInv
  <2> QED BY <2>1, <2>2
<1>6. CASE AdminLoads
  <2>1. /\ UNCHANGED <<alpha, nextId, meant>>
        /\ page' = {[telegram |-> t, id |-> alpha[t].id] : t \in {u \in Telegrams : alpha[u] # Absent}}
    BY <1>6 DEF AdminLoads
  <2>2. \A r \in page' : \E t \in Telegrams : alpha[t] # Absent /\ r.telegram = t /\ r.id = alpha[t].id BY <2>1
  <2>3. KeysAreOnes' BY <1>1, <2>1, <2>2 DEF KeysAreOnes
  <2> QED BY <1>0, <2>1, <2>3 DEF KeysInv, KeyTypes, NoRowNew, StatusIsMeant
<1>7. ASSUME NEW r \in page, NEW s \in {"new", "invited", "onboarded"}, AdminSets(r, s) PROVE KeysInv'
  <2>1. /\ alpha' = [t \in Telegrams |-> IF alpha[t] # Absent /\ alpha[t].id = r.id
                                         THEN [alpha[t] EXCEPT !.status = s] ELSE alpha[t]]
        /\ meant' = IF alpha[r.telegram] # Absent /\ alpha[r.telegram].id = r.id
                    THEN [meant EXCEPT ![r.telegram] = s] ELSE meant
        /\ UNCHANGED <<page, nextId>>
    BY <1>7 DEF AdminSets
  <2>2. ASSUME NEW t \in Telegrams
        PROVE  IF alpha[t] # Absent /\ alpha[t].id = r.id
               THEN /\ alpha'[t] \in SignRow /\ alpha'[t] # Absent /\ alpha'[t].id = alpha[t].id /\ alpha'[t].status = s
                    /\ t = r.telegram /\ meant'[t] = s
               ELSE alpha'[t] = alpha[t] /\ meant'[t] = meant[t]
    <3>1. CASE alpha[t] # Absent /\ alpha[t].id = r.id
      <4>1. alpha[t] \in SignRow /\ t = r.telegram BY <1>1, <3>1
      <4>2. alpha'[t] = [alpha[t] EXCEPT !.status = s] BY <2>1, <3>1
      <4>3. alpha'[t] \in SignRow /\ alpha'[t].id = alpha[t].id /\ alpha'[t].status = s
        BY <4>1, <4>2 DEF SignRow
      <4>4. meant' = [meant EXCEPT ![t] = s] BY <2>1, <3>1, <4>1
      <4>5. meant'[t] = s BY <1>0, <4>4
      <4> QED BY <3>1, <4>1, <4>3, <4>5, RowsAreThere
    <3>2. CASE ~(alpha[t] # Absent /\ alpha[t].id = r.id)
      <4>1. alpha'[t] = alpha[t] BY <2>1, <3>2
      <4>2. meant'[t] = meant[t] BY <1>0, <2>1, <3>2
      <4> QED BY <3>2, <4>1, <4>2
    <3> QED BY <3>1, <3>2
  <2>3. \A t \in Telegrams : alpha'[t] \in SignRow \cup {Absent} BY <1>0, <2>2
  <2>4. alpha' \in [Telegrams -> SignRow \cup {Absent}] BY <2>1, <2>3
  <2>5. \A t \in Telegrams : (alpha'[t] = Absent <=> alpha[t] = Absent) /\ (alpha[t] # Absent => alpha'[t].id = alpha[t].id)
    BY <2>2
  <2>6. KeysAreOnes' BY <1>1, <2>1, <2>5 DEF KeysAreOnes
  <2>7. NoRowNew' BY <1>2, <2>2 DEF NoRowNew
  <2>8. StatusIsMeant' BY <1>2, <2>2 DEF StatusIsMeant
  <2>9. DOMAIN meant' = Telegrams BY <1>0, <2>1
  <2>10. KeyTypes' BY <1>0, <2>1, <2>4, <2>9 DEF KeyTypes
  <2> QED BY <2>6, <2>7, <2>8, <2>10 DEF KeysInv
<1>8. ASSUME NEW r \in page, AdminDeletes(r) PROVE KeysInv'
  <2>1. /\ alpha' = [t \in Telegrams |-> IF alpha[t] # Absent /\ alpha[t].id = r.id THEN Absent ELSE alpha[t]]
        /\ meant' = [t \in Telegrams |-> IF alpha'[t] = Absent THEN "new" ELSE meant[t]]
        /\ UNCHANGED <<page, nextId>>
    BY <1>8 DEF AdminDeletes
  <2>2. \A t \in Telegrams : alpha'[t] = Absent \/ alpha'[t] = alpha[t] BY <2>1
  <2>3. \A t \in Telegrams : meant'[t] = IF alpha'[t] = Absent THEN "new" ELSE meant[t] BY <2>1
  <2>4. alpha' \in [Telegrams -> SignRow \cup {Absent}] BY <1>0, <2>1
  <2>5. KeysAreOnes' BY <1>1, <2>1, <2>2 DEF KeysAreOnes
  <2>6. NoRowNew' BY <2>3 DEF NoRowNew
  <2>7. StatusIsMeant' BY <1>2, <2>2, <2>3 DEF StatusIsMeant
  <2>8. KeyTypes' BY <1>0, <2>1, <2>4 DEF KeyTypes
  <2> QED BY <2>5, <2>6, <2>7, <2>8 DEF KeysInv
<1>9. "waitlist" \in Scopes /\ "alpha" \in Scopes BY DEF Scopes
<1> QED BY <1>4, <1>5, <1>6, <1>7, <1>8, <1>9 DEF SignupNext

\* The counters of a caller.
LEMMA RateStays ==
  ASSUME RateTypes, Counting, RateHolds, SignupNext PROVE RateTypes' /\ Counting' /\ RateHolds'
<1>1. "waitlist" \in Scopes /\ "alpha" \in Scopes BY DEF Scopes
<1>2. CASE WindowPasses
  <2>1. time < MaxTime /\ time' = time + 1 /\ limit' = limit /\ passed' = passed BY <1>2 DEF WindowPasses
  <2>2. RateTypes' BY <2>1, SiteAssumption DEF RateTypes
  <2>3. RateHolds' BY <2>1 DEF RateHolds
  <2>4. Counting'
    <3> SUFFICES ASSUME NEW c \in Callers, NEW s \in Scopes
                 PROVE  /\ limit[<<c, s>>] = Absent => \A k \in 0..MaxTime : passed[<<c, s, k>>] > 0 => k < time + 1
                        /\ limit[<<c, s>>] # Absent =>
                             /\ limit[<<c, s>>].start <= time + 1 /\ passed[<<c, s, limit[<<c, s>>].start>>] <= limit[<<c, s>>].count
                             /\ \A k \in 0..MaxTime : passed[<<c, s, k>>] > 0 => k <= limit[<<c, s>>].start
      BY <2>1 DEF Counting
    <3>1. time \in Int BY DEF RateTypes
    <3>2. CASE limit[<<c, s>>] = Absent
      <4>1. \A k \in 0..MaxTime : passed[<<c, s, k>>] > 0 => k < time BY <3>2 DEF Counting
      <4> QED BY <3>1, <3>2, <4>1
    <3>3. CASE limit[<<c, s>>] # Absent
      <4>1. limit[<<c, s>>] \in Counter BY <3>3 DEF RateTypes
      <4>2. limit[<<c, s>>].start \in Int BY <4>1, SiteAssumption DEF Counter
      <4>3. /\ limit[<<c, s>>].start <= time /\ passed[<<c, s, limit[<<c, s>>].start>>] <= limit[<<c, s>>].count
            /\ \A k \in 0..MaxTime : passed[<<c, s, k>>] > 0 => k <= limit[<<c, s>>].start
        BY <3>3 DEF Counting
      <4> QED BY <3>1, <3>3, <4>2, <4>3
    <3> QED BY <3>2, <3>3
  <2> QED BY <2>2, <2>3, <2>4
<1>3. CASE \/ \E f \in forms : FormLands(f) \/ FormFails(f)
           \/ AdminLoads \/ (\E e \in Emails : AdminDropsEmail(e))
           \/ \E r \in page : AdminDeletes(r) \/ \E s \in {"new", "invited", "onboarded"} : AdminSets(r, s)
  <2>1. UNCHANGED <<limit, passed, time>>
    BY <1>3 DEF FormLands, FormFails, AdminLoads, AdminDropsEmail, AdminDeletes, AdminSets
  <2>2. RateTypes' BY <2>1 DEF RateTypes
  <2>3. Counting' BY <2>1 DEF Counting
  <2>4. RateHolds' BY <2>1 DEF RateHolds
  <2> QED BY <2>2, <2>3, <2>4
<1> QED BY <1>1, <1>2, <1>3, CountedOnce DEF SignupNext

LEMMA SignupStep == ASSUME SignupInv, SignupNext PROVE SignupInv'
<1>1. HandleTypes' /\ HandleKept' BY HandlesStay DEF SignupInv
<1>2. KeysInv' BY StatusStays DEF SignupInv, KeysInv
<1>3. RateTypes' /\ Counting' /\ RateHolds' BY RateStays DEF SignupInv
<1> QED BY <1>1, <1>2, <1>3 DEF SignupInv, KeysInv

-----------------------------------------------------------------------------
(***************************************************************************)
(* The bot: handlers of one person run beside each other, statement after  *)
(* statement.  A handler that is past its upsert has a row to write to,    *)
(* since only an erasure takes it away, and an erasure that runs beside    *)
(* anything else tangles the person.                                       *)
(***************************************************************************)

\* What may still have to run after the upsert, and what a handler holds.
Afters ==
  {<<"step", s>> : s \in Buttons \cup {"welcome"}} \cup {<<"stepOf", h>> : h \in XHandles} \cup {<<"note", TRUE>>}
Erasing == <<<<"forget", Null>>>>
Told == <<<<"step", "done">>>>

Seens == {<<"seen", s>> : s \in {Null, "site"}}
PlainTodos == {<<>>, Erasing} \cup {<<a>> : a \in Afters} \cup {<<s, a>> : s \in Seens, a \in Afters}
Entries == {<<>>, Told} \cup {EntryStatements(h) : h \in XHandles}
Handlers ==
  [user : Chats, todo : PlainTodos, entry : {Null}] \cup [user : Chats, todo : Entries, entry : XHandles]

Steps == Buttons \cup {"welcome", "done"}
BotRow == [step : Steps, source : {Null, "site"}, x : XHandles \cup {Null}, note : BOOLEAN]

BotTypes ==
  /\ bot \in [Chats -> BotRow \cup {Absent}] /\ DOMAIN answered = Chats /\ work \in Seq(Handlers)
  /\ gone \subseteq Chats

\* A handler whose upsert has run, and one whose entry has.
Past(w) == w.todo # <<>> /\ w.todo # Erasing /\ w.todo[1][1] # "seen"
Entered(w) == w.entry # Null /\ w.todo = Told

RowThere == \A n \in DOMAIN work : Past(work[n]) /\ work[n].user \notin tangled => bot[work[n].user] # Absent
EntryThere == \A n \in DOMAIN work : Entered(work[n]) /\ work[n].user \notin tangled => bot[work[n].user].x # Null
ErasesAlone ==
  \A n, m \in DOMAIN work :
    n # m /\ work[n].todo = Erasing /\ work[m].user = work[n].user /\ work[n].user \notin tangled => work[m].todo = <<>>
GoneQuiet == \A n \in DOMAIN work : work[n].user \in gone \ tangled => work[n].todo = <<>>

BotInv ==
  BotTypes /\ RowThere /\ EntryThere /\ ErasesAlone /\ GoneQuiet /\ EntryKept /\ DoneIsEntered /\ GoneIsGone

LEMMA BotRows == \A r \in BotRow : r # Absent /\ NewRow # Absent
<1>1. DOMAIN Absent = {"absent"} BY DEF Absent
<1>2. DOMAIN NewRow = {"step", "source", "x", "note"} BY DEF NewRow
<1>3. ASSUME NEW r \in BotRow PROVE r # Absent
  <2>1. DOMAIN r = {"step", "source", "x", "note"} BY DEF BotRow
  <2> QED BY <1>1, <2>1
<1> QED BY <1>1, <1>2, <1>3

LEMMA BotInitially == SiteInit => BotInv
<1> SUFFICES ASSUME SiteInit PROVE BotInv OBVIOUS
<1>1. /\ bot = [u \in Chats |-> Absent] /\ work = <<>> /\ tangled = {} /\ gone = {}
      /\ answered = [u \in Chats |-> Null]
  BY DEF SiteInit
<1>2. DOMAIN work = {} /\ Len(work) = 0 /\ 1..Len(work) = {} BY <1>1
<1>3. BotTypes
  <2>1. work \in Seq(Handlers) BY <1>1
  <2> QED BY <1>1, <2>1 DEF BotTypes
<1>4. RowThere /\ EntryThere /\ ErasesAlone /\ GoneQuiet BY <1>2 DEF RowThere, EntryThere, ErasesAlone, GoneQuiet
<1>5. EntryKept /\ DoneIsEntered /\ GoneIsGone BY <1>1 DEF EntryKept, DoneIsEntered, GoneIsGone
<1> QED BY <1>3, <1>4, <1>5 DEF BotInv

LEMMA DoneIsNoButton == "done" \notin Buttons
BY DEF Buttons, Screens

\* The shapes of what a handler holds, read from the front.
LEMMA Fronts ==
  /\ \A a, b : <<a, b>> # <<>> /\ Head(<<a, b>>) = a /\ Tail(<<a, b>>) = <<b>> /\ Len(<<a, b>>) = 2 /\ <<a, b>>[1] = a
  /\ \A a : <<a>> # <<>> /\ Head(<<a>>) = a /\ Tail(<<a>>) = <<>> /\ Len(<<a>>) = 1 /\ <<a>>[1] = a
  /\ \A a, b, c : <<a, b>> # <<c>>
OBVIOUS

LEMMA Shapes ==
  ASSUME NEW w \in Handlers
  PROVE  /\ w.user \in Chats
         /\ \/ w.todo = <<>>
            \/ w.todo = Erasing /\ w.entry = Null
            \/ w.entry = Null /\ \E a \in Afters : w.todo = <<a>>
            \/ w.entry = Null /\ \E a \in Afters, s \in {Null, "site"} : w.todo = <<<<"seen", s>>, a>>
            \/ w.entry \in XHandles /\ w.todo = Told
            \/ w.entry \in XHandles /\ \E h \in XHandles : w.todo = <<<<"enter", h>>, <<"step", "done">>>>
BY DEF Handlers, PlainTodos, Entries, Seens, EntryStatements

\* A handler as it goes on.
Onward(n, t, e) == work' = [work EXCEPT ![n].todo = t, ![n].entry = e]

LEMMA Replaced ==
  ASSUME NEW S, NEW q \in Seq(S), NEW n \in DOMAIN q, NEW w \in S
  PROVE  /\ [q EXCEPT ![n] = w] \in Seq(S) /\ DOMAIN [q EXCEPT ![n] = w] = DOMAIN q
         /\ [q EXCEPT ![n] = w][n] = w /\ \A m \in DOMAIN q : m # n => [q EXCEPT ![n] = w][m] = q[m]
<1>1. n \in 1..Len(q) OBVIOUS
<1> QED BY <1>1, ExceptSeq

LEMMA GoesOn ==
  ASSUME BotTypes, NEW n \in DOMAIN work, NEW t, NEW e,
         Onward(n, t, e),
         (t \in PlainTodos /\ e = Null) \/ (t \in Entries /\ e \in XHandles)
  PROVE  /\ work' \in Seq(Handlers) /\ DOMAIN work' = DOMAIN work
         /\ work'[n].user = work[n].user /\ work'[n].todo = t /\ work'[n].entry = e
         /\ \A m \in DOMAIN work : m # n => work'[m] = work[m]
<1>1. work \in Seq(Handlers) /\ work[n] \in Handlers /\ DOMAIN work = 1..Len(work) BY DEF BotTypes
<1> DEFINE w == [work[n] EXCEPT !.todo = t, !.entry = e]
<1>2. work' = [work EXCEPT ![n] = w] BY DEF Onward
<1>3. w.user = work[n].user /\ w.todo = t /\ w.entry = e BY <1>1 DEF Handlers
<1>4. w \in Handlers
  <2>1. CASE t \in PlainTodos /\ e = Null BY <1>1, <2>1 DEF Handlers
  <2>2. CASE t \in Entries /\ e \in XHandles BY <1>1, <2>2 DEF Handlers
  <2> QED BY <2>1, <2>2
<1> HIDE DEF w
<1>5. /\ work' \in Seq(Handlers) /\ DOMAIN work' = DOMAIN work /\ work'[n] = w
      /\ \A m \in DOMAIN work : m # n => work'[m] = work[m]
  BY <1>1, <1>2, <1>4, Replaced
<1> QED BY <1>3, <1>5

\* A statement of a handler that erases nothing: rows and entries stay.
LEMMA RunKeeps ==
  ASSUME BotInv, NEW n \in DOMAIN work, NEW u, u = work[n].user,
         work[n].todo # <<>>, work[n].todo # Erasing,
         NEW t, NEW e, t # Erasing, (t \in PlainTodos /\ e = Null) \/ (t \in Entries /\ e \in XHandles),
         Onward(n, t, e),
         gone' = gone, tangled' = tangled,
         bot' \in [Chats -> BotRow \cup {Absent}],
         \A v \in Chats : v # u => bot'[v] = bot[v],
         u \notin tangled /\ bot[u] # Absent => bot'[u] # Absent /\ (bot[u].x # Null => bot'[u].x # Null),
         u \notin tangled /\ bot'[u] # Absent /\ bot'[u].step = "done" => bot'[u].x # Null,
         u \notin tangled /\ t # <<>> /\ t[1][1] # "seen" => bot'[u] # Absent,
         u \notin tangled /\ t = Told /\ e # Null => bot'[u].x # Null,
         DOMAIN answered' = Chats,
         \A v \in Chats : answered'[v] # answered[v] => v = u /\ (u \notin tangled => bot'[u] # Absent /\ bot'[u].x # Null)
  PROVE  BotInv'
<1>1. /\ BotTypes /\ RowThere /\ EntryThere /\ ErasesAlone /\ GoneQuiet /\ EntryKept /\ DoneIsEntered /\ GoneIsGone
  BY DEF BotInv
<1>2. work \in Seq(Handlers) /\ work[n] \in Handlers /\ u \in Chats
  <2>1. work \in Seq(Handlers) BY <1>1 DEF BotTypes
  <2>2. work[n] \in Handlers BY <2>1
  <2> QED BY <2>1, <2>2, Shapes
<1>3. /\ work' \in Seq(Handlers) /\ DOMAIN work' = DOMAIN work
      /\ work'[n].user = u /\ work'[n].todo = t /\ work'[n].entry = e
      /\ \A m \in DOMAIN work : m # n => work'[m] = work[m]
  BY <1>1, GoesOn
<1>4. \A m \in DOMAIN work : work[m].user \in Chats /\ work'[m].user = work[m].user
  <2>1. \A m \in DOMAIN work : work[m] \in Handlers BY <1>2
  <2> QED BY <1>3, <2>1, Shapes
<1>5. BotTypes' BY <1>1, <1>3 DEF BotTypes
<1>6. RowThere'
  <2> SUFFICES ASSUME NEW m \in DOMAIN work, Past(work'[m]), work'[m].user \notin tangled
               PROVE  bot'[work'[m].user] # Absent
    BY <1>3 DEF RowThere
  <2>1. CASE m = n BY <1>3, <2>1 DEF Past
  <2>2. CASE m # n
    <3>1. bot[work[m].user] # Absent BY <1>1, <1>3, <2>2 DEF RowThere
    <3> QED BY <1>3, <1>4, <2>2, <3>1
  <2> QED BY <2>1, <2>2
<1>7. EntryThere'
  <2> SUFFICES ASSUME NEW m \in DOMAIN work, Entered(work'[m]), work'[m].user \notin tangled
               PROVE  bot'[work'[m].user].x # Null
    BY <1>3 DEF EntryThere
  <2>1. CASE m = n BY <1>3, <2>1 DEF Entered
  <2>2. CASE m # n
    <3>1. work'[m] = work[m] /\ Entered(work[m]) BY <1>3, <2>2
    <3>2. bot[work[m].user].x # Null BY <1>1, <3>1 DEF EntryThere
    <3>3. Past(work[m])
      <4>1. Told # <<>> /\ Told # Erasing /\ Told[1][1] = "step" BY DEF Told, Erasing
      <4> QED BY <3>1, <4>1 DEF Past, Entered
    <3>4. bot[work[m].user] # Absent BY <1>1, <3>1, <3>3 DEF RowThere
    <3> QED BY <1>4, <3>1, <3>2, <3>4
  <2> QED BY <2>1, <2>2
<1>8. ErasesAlone'
  <2> SUFFICES ASSUME NEW i \in DOMAIN work, NEW m \in DOMAIN work,
                      i # m, work'[i].todo = Erasing, work'[m].user = work'[i].user, work'[i].user \notin tangled
               PROVE  work'[m].todo = <<>>
    BY <1>3 DEF ErasesAlone
  <2>1. i # n /\ work'[i] = work[i] BY <1>3
  <2>2. work[m].todo = <<>> BY <1>1, <1>4, <2>1 DEF ErasesAlone
  <2> QED BY <1>3, <2>2
<1>9. u \notin gone \ tangled BY <1>1 DEF GoneQuiet
<1>10. GoneQuiet'
  <2> SUFFICES ASSUME NEW m \in DOMAIN work, work'[m].user \in gone \ tangled PROVE work'[m].todo = <<>>
    BY <1>3 DEF GoneQuiet
  <2>1. m # n BY <1>3, <1>9
  <2> QED BY <1>1, <1>3, <2>1 DEF GoneQuiet
<1>11. EntryKept'
  <2> SUFFICES ASSUME NEW v \in Chats \ tangled, answered'[v] # Null PROVE bot'[v] # Absent /\ bot'[v].x # Null
    BY DEF EntryKept
  <2>1. CASE answered'[v] # answered[v] BY <2>1
  <2>2. CASE answered'[v] = answered[v]
    <3>1. bot[v] # Absent /\ bot[v].x # Null BY <1>1, <2>2 DEF EntryKept
    <3> QED BY <3>1
  <2> QED BY <2>1, <2>2
<1>12. DoneIsEntered' BY <1>1 DEF DoneIsEntered
<1>13. GoneIsGone'
  <2>1. \A v \in gone \ tangled : v \in Chats /\ v # u /\ bot[v] = Absent BY <1>1, <1>9 DEF GoneIsGone, BotTypes
  <2> QED BY <2>1 DEF GoneIsGone
<1> QED BY <1>5, <1>6, <1>7, <1>8, <1>10, <1>11, <1>12, <1>13 DEF BotInv

\* A statement that writes one field of a row that is there.
LEMMA WriteOK ==
  ASSUME BotTypes, NEW u \in Chats,
         NEW field \in {"step", "x", "note"}, NEW v,
         field = "step" => v \in Steps, field = "x" => v \in XHandles, field = "note" => v \in BOOLEAN,
         Write(u, field, v)
  PROVE  /\ bot' \in [Chats -> BotRow \cup {Absent}] /\ \A o \in Chats : o # u => bot'[o] = bot[o]
         /\ bot[u] = Absent => bot'[u] = Absent
         /\ bot[u] # Absent => /\ bot'[u] # Absent
                               /\ bot'[u].x = (IF field = "x" THEN v ELSE bot[u].x)
                               /\ bot'[u].step = (IF field = "step" THEN v ELSE bot[u].step)
<1>1. bot \in [Chats -> BotRow \cup {Absent}] BY DEF BotTypes
<1>2. CASE bot[u] = Absent
  <2>1. bot' = bot BY <1>2 DEF Write
  <2> QED BY <1>1, <1>2, <2>1
<1>3. CASE bot[u] # Absent
  <2> DEFINE row == [bot[u] EXCEPT ![field] = v]
  <2>1. bot' = [bot EXCEPT ![u] = row] BY <1>3 DEF Write
  <2>2. bot[u] \in BotRow BY <1>1, <1>3
  <2>3. /\ row \in BotRow /\ row.x = (IF field = "x" THEN v ELSE bot[u].x)
        /\ row.step = (IF field = "step" THEN v ELSE bot[u].step)
    <3>1. CASE field = "step"
      <4>1. row = [bot[u] EXCEPT !.step = v] /\ v \in Steps BY <3>1
      <4>2. row \in BotRow BY <2>2, <4>1 DEF BotRow
      <4>3. row.x = bot[u].x /\ row.step = v BY <2>2, <4>1 DEF BotRow
      <4> QED BY <3>1, <4>2, <4>3
    <3>2. CASE field = "x"
      <4>1. row = [bot[u] EXCEPT !.x = v] /\ v \in XHandles BY <3>2
      <4>2. row \in BotRow BY <2>2, <4>1 DEF BotRow
      <4>3. row.x = v /\ row.step = bot[u].step BY <2>2, <4>1 DEF BotRow
      <4> QED BY <3>2, <4>2, <4>3
    <3>3. CASE field = "note"
      <4>1. row = [bot[u] EXCEPT !.note = v] /\ v \in BOOLEAN BY <3>3
      <4>2. row \in BotRow BY <2>2, <4>1 DEF BotRow
      <4>3. row.x = bot[u].x /\ row.step = bot[u].step BY <2>2, <4>1 DEF BotRow
      <4> QED BY <3>3, <4>2, <4>3
    <3> QED BY <3>1, <3>2, <3>3
  <2> HIDE DEF row
  <2>4. bot'[u] = row /\ \A o \in Chats : o # u => bot'[o] = bot[o] BY <1>1, <2>1
  <2>5. bot' \in [Chats -> BotRow \cup {Absent}] BY <1>1, <2>1, <2>3
  <2> QED BY <1>3, <2>3, <2>4, <2>5, BotRows
<1> QED BY <1>2, <1>3

\* The upsert: a row is there, and an old one keeps its entry and its step.
LEMMA SeenOK ==
  ASSUME BotTypes, NEW u \in Chats, NEW source \in {Null, "site"}, Seen(u, source)
  PROVE  /\ bot' \in [Chats -> BotRow \cup {Absent}] /\ \A o \in Chats : o # u => bot'[o] = bot[o]
         /\ bot'[u] # Absent
         /\ bot[u] = Absent => bot'[u].step = "welcome"
         /\ bot[u] # Absent => bot'[u].x = bot[u].x /\ bot'[u].step = bot[u].step
<1>1. bot \in [Chats -> BotRow \cup {Absent}] BY DEF BotTypes
<1> DEFINE row == IF bot[u] = Absent THEN [NewRow EXCEPT !.source = source]
                  ELSE IF bot[u].source = Null THEN [bot[u] EXCEPT !.source = source] ELSE bot[u]
<1>2. bot' = [bot EXCEPT ![u] = row] BY DEF Seen
<1>3. /\ row \in BotRow
      /\ bot[u] = Absent => row.step = "welcome"
      /\ bot[u] # Absent => row.x = bot[u].x /\ row.step = bot[u].step
  <2>1. CASE bot[u] = Absent
    <3>1. row = [NewRow EXCEPT !.source = source] BY <2>1
    <3>2. NewRow \in BotRow /\ NewRow.step = "welcome" BY DEF NewRow, BotRow, Steps
    <3>3. row \in BotRow BY <3>1, <3>2 DEF BotRow
    <3>4. row.step = "welcome" BY <3>1, <3>2 DEF BotRow
    <3> QED BY <2>1, <3>3, <3>4
  <2>2. CASE bot[u] # Absent
    <3>1. row = bot[u] \/ row = [bot[u] EXCEPT !.source = source] BY <2>2
    <3>2. bot[u] \in BotRow BY <1>1, <2>2
    <3>3. [bot[u] EXCEPT !.source = source] \in BotRow BY <3>2 DEF BotRow
    <3>4. row \in BotRow BY <3>1, <3>2, <3>3
    <3>5. row.x = bot[u].x /\ row.step = bot[u].step
      <4>1. [bot[u] EXCEPT !.source = source].x = bot[u].x /\ [bot[u] EXCEPT !.source = source].step = bot[u].step
        BY <3>2 DEF BotRow
      <4> QED BY <3>1, <4>1
    <3> QED BY <2>2, <3>4, <3>5
  <2> QED BY <2>1, <2>2
<1> HIDE DEF row
<1>4. bot'[u] = row /\ \A o \in Chats : o # u => bot'[o] = bot[o] BY <1>1, <1>2
<1>5. bot' \in [Chats -> BotRow \cup {Absent}] BY <1>1, <1>2, <1>3
<1> QED BY <1>3, <1>4, <1>5, BotRows

\* An erasure that runs alone: nothing of the person is left, nothing at work.
LEMMA ForgetKeeps ==
  ASSUME BotInv, NEW n \in DOMAIN work, work[n].todo = Erasing, Run(n) PROVE BotInv'
<1>1. /\ BotTypes /\ RowThere /\ EntryThere /\ ErasesAlone /\ GoneQuiet /\ EntryKept /\ DoneIsEntered /\ GoneIsGone
  BY DEF BotInv
<1> DEFINE u == work[n].user
<1>2. work \in Seq(Handlers) BY <1>1 DEF BotTypes
<1>3. work[n] \in Handlers /\ u \in Chats
  <2>1. work[n] \in Handlers BY <1>2
  <2> QED BY <2>1, Shapes
<1>4. Head(work[n].todo)[1] = "forget" BY DEF Erasing
<1>5. /\ bot' = [bot EXCEPT ![u] = Absent] /\ Onward(n, <<>>, Null)
      /\ answered' = [answered EXCEPT ![u] = Null] /\ gone' = gone \cup {u} /\ tangled' = tangled
  BY <1>4 DEF Run, Onward
<1> HIDE DEF u
<1>6. <<>> \in PlainTodos BY DEF PlainTodos
<1>7. /\ work' \in Seq(Handlers) /\ DOMAIN work' = DOMAIN work
      /\ work'[n].user = work[n].user /\ work'[n].todo = <<>>
      /\ \A m \in DOMAIN work : m # n => work'[m] = work[m]
  BY <1>1, <1>5, <1>6, GoesOn
<1>8. u = work[n].user BY DEF u
<1>9. \A m \in DOMAIN work : work'[m].user = work[m].user /\ work[m].user \in Chats
  <2>1. \A m \in DOMAIN work : work[m] \in Handlers BY <1>2
  <2> QED BY <1>7, <2>1, Shapes
<1>10. u \notin tangled => \A m \in DOMAIN work : work[m].user = u => work'[m].todo = <<>>
  BY <1>1, <1>7, <1>8 DEF ErasesAlone
<1>11. /\ bot \in [Chats -> BotRow \cup {Absent}] /\ DOMAIN answered = Chats /\ gone \subseteq Chats
  BY <1>1 DEF BotTypes
<1>12. bot'[u] = Absent /\ \A v \in Chats : v # u => bot'[v] = bot[v] BY <1>3, <1>5, <1>11
<1>13. answered'[u] = Null /\ \A v \in Chats : v # u => answered'[v] = answered[v] BY <1>3, <1>5, <1>11
<1>14. BotTypes' BY <1>3, <1>5, <1>7, <1>11 DEF BotTypes
<1>15. \A m \in DOMAIN work : work[m].user # u => work'[m] = work[m] BY <1>7, <1>8
<1>16. RowThere'
  <2> SUFFICES ASSUME NEW m \in DOMAIN work, Past(work'[m]), work'[m].user \notin tangled
               PROVE  bot'[work'[m].user] # Absent
    BY <1>5, <1>7 DEF RowThere
  <2>1. work[m].user # u BY <1>9, <1>10 DEF Past
  <2> QED BY <1>1, <1>9, <1>12, <1>15, <2>1 DEF RowThere
<1>17. EntryThere'
  <2> SUFFICES ASSUME NEW m \in DOMAIN work, Entered(work'[m]), work'[m].user \notin tangled
               PROVE  bot'[work'[m].user].x # Null
    BY <1>5, <1>7 DEF EntryThere
  <2>1. work[m].user # u BY <1>9, <1>10 DEF Entered, Told
  <2> QED BY <1>1, <1>9, <1>12, <1>15, <2>1 DEF EntryThere
<1>18. ErasesAlone'
  <2> SUFFICES ASSUME NEW i \in DOMAIN work, NEW m \in DOMAIN work,
                      i # m, work'[i].todo = Erasing, work'[m].user = work'[i].user, work'[i].user \notin tangled
               PROVE  work'[m].todo = <<>>
    BY <1>5, <1>7 DEF ErasesAlone
  <2>1. work[i].user # u BY <1>9, <1>10 DEF Erasing
  <2> QED BY <1>1, <1>9, <1>15, <2>1 DEF ErasesAlone
<1>19. GoneQuiet'
  <2> SUFFICES ASSUME NEW m \in DOMAIN work, work'[m].user \in gone \cup {u}, work'[m].user \notin tangled
               PROVE  work'[m].todo = <<>>
    BY <1>5, <1>7 DEF GoneQuiet
  <2>1. CASE work[m].user = u BY <1>9, <1>10, <2>1
  <2>2. CASE work[m].user # u BY <1>1, <1>9, <1>15, <2>2 DEF GoneQuiet
  <2> QED BY <2>1, <2>2
<1>20. EntryKept' BY <1>1, <1>5, <1>12, <1>13 DEF EntryKept
<1>21. DoneIsEntered' BY <1>1, <1>5, <1>12 DEF DoneIsEntered
<1>22. GoneIsGone' BY <1>1, <1>5, <1>11, <1>12 DEF GoneIsGone
<1> QED BY <1>14, <1>16, <1>17, <1>18, <1>19, <1>20, <1>21, <1>22 DEF BotInv

\* The statement at the front of a handler that erases nothing.
LEMMA StatementKeeps ==
  ASSUME BotInv, NEW n \in DOMAIN work, work[n].todo # <<>>, work[n].todo # Erasing, Run(n) PROVE BotInv'
<1> USE SiteAssumption
<1>1. /\ BotTypes /\ RowThere /\ EntryThere /\ ErasesAlone /\ GoneQuiet /\ EntryKept /\ DoneIsEntered /\ GoneIsGone
  BY DEF BotInv
<1> DEFINE w == work[n]
           u == w.user
<1>2. w \in Handlers
  <2>1. work \in Seq(Handlers) BY <1>1 DEF BotTypes
  <2> QED BY <2>1
<1>3. /\ u \in Chats
      /\ \/ w.entry = Null /\ \E a \in Afters : w.todo = <<a>>
         \/ w.entry = Null /\ \E a \in Afters, s \in {Null, "site"} : w.todo = <<<<"seen", s>>, a>>
         \/ w.entry \in XHandles /\ w.todo = Told
         \/ w.entry \in XHandles /\ \E h \in XHandles : w.todo = <<<<"enter", h>>, <<"step", "done">>>>
  BY <1>2, Shapes
<1>4. /\ bot \in [Chats -> BotRow \cup {Absent}] /\ DOMAIN answered = Chats /\ gone \subseteq Chats
  BY <1>1 DEF BotTypes
<1>5. \A a \in Afters : a[1] \in {"step", "stepOf", "note"}
  <2> SUFFICES ASSUME NEW a \in Afters PROVE a[1] \in {"step", "stepOf", "note"} OBVIOUS
  <2>1. ASSUME NEW s, a = <<"step", s>> PROVE a[1] = "step" BY <2>1
  <2>2. ASSUME NEW h, a = <<"stepOf", h>> PROVE a[1] = "stepOf" BY <2>2
  <2>3. CASE a = <<"note", TRUE>> BY <2>3
  <2> QED BY <2>1, <2>2, <2>3 DEF Afters
<1>6. Past(w) /\ u \notin tangled => bot[u] # Absent BY <1>1 DEF RowThere
<1>7. <<>> \in PlainTodos /\ <<>> \in Entries /\ Told \in Entries /\ Told # Erasing /\ <<>> # Erasing
  BY DEF PlainTodos, Entries, Told, Erasing
<1>8. ASSUME w.entry = Null, NEW a \in Afters, NEW s \in {Null, "site"}, w.todo = <<<<"seen", s>>, a>> PROVE BotInv'
  <2>1. Head(w.todo)[1] = "seen" /\ Head(w.todo)[2] = s /\ Tail(w.todo) = <<a>> /\ Len(w.todo) = 2 BY <1>8
  <2>2. Seen(u, s) /\ Onward(n, <<a>>, Null) /\ answered' = answered /\ gone' = gone /\ tangled' = tangled
    BY <1>8, <2>1 DEF Run, Onward
  <2>3. /\ bot' \in [Chats -> BotRow \cup {Absent}] /\ \A o \in Chats : o # u => bot'[o] = bot[o]
        /\ bot'[u] # Absent
        /\ bot[u] = Absent => bot'[u].step = "welcome"
        /\ bot[u] # Absent => bot'[u].x = bot[u].x /\ bot'[u].step = bot[u].step
    BY <1>1, <1>3, <2>2, SeenOK
  <2>4. <<a>> \in PlainTodos BY DEF PlainTodos
  <2>5. <<a>> # Erasing
    <3>1. a # <<"forget", Null>> BY <1>5
    <3> QED BY <3>1 DEF Erasing
  <2>6. u \notin tangled /\ bot'[u].step = "done" => bot'[u].x # Null
    BY <1>1, <1>3, <2>3 DEF DoneIsEntered
  <2> HIDE DEF w, u
  <2>7. u = work[n].user BY DEF u, w
  <2> QED BY <1>4, <2>2, <2>3, <2>4, <2>5, <2>6, <2>7, RunKeeps
<1>9. ASSUME w.entry = Null, NEW a \in Afters, w.todo = <<a>> PROVE BotInv'
  <2>1. Head(w.todo) = a /\ Tail(w.todo) = <<>> /\ Len(w.todo) = 1 /\ w.todo[1] = a BY <1>9
  <2>2. u \notin tangled => bot[u] # Absent
    <3>1. a[1] # "seen" BY <1>5
    <3> QED BY <1>6, <2>1, <3>1 DEF Past
  <2>3. answered' = answered /\ gone' = gone /\ tangled' = tangled
    <3>1. a[1] # "forget" BY <1>5
    <3> QED BY <1>9, <2>1, <3>1 DEF Run
  <2>4. u \notin tangled /\ bot[u] # Absent /\ bot[u].step = "done" => bot[u].x # Null
    BY <1>1, <1>3 DEF DoneIsEntered
  <2>5. u = work[n].user OBVIOUS
  <2>6. CASE a \in {<<"step", s>> : s \in Buttons \cup {"welcome"}}
    <3>1. PICK s \in Buttons \cup {"welcome"} : a = <<"step", s>> BY <2>6
    <3>2. Write(u, "step", s) /\ Onward(n, <<>>, Null)
      <4>1. Head(w.todo)[1] = "step" /\ Head(w.todo)[2] = s BY <2>1, <3>1
      <4> QED BY <1>9, <2>1, <4>1 DEF Run, Onward
    <3>3. s \in Steps /\ s # "done" BY DoneIsNoButton DEF Steps
    <3>4. /\ bot' \in [Chats -> BotRow \cup {Absent}] /\ \A o \in Chats : o # u => bot'[o] = bot[o]
          /\ bot[u] = Absent => bot'[u] = Absent
          /\ bot[u] # Absent => bot'[u] # Absent /\ bot'[u].x = bot[u].x /\ bot'[u].step = s
      BY <1>1, <1>3, <3>2, <3>3, WriteOK
    <3> HIDE DEF w, u
    <3> QED BY <1>4, <1>7, <2>3, <2>5, <3>2, <3>3, <3>4, RunKeeps
  <2>7. CASE a = <<"note", TRUE>>
    <3>1. Write(u, "note", TRUE) /\ Onward(n, <<>>, Null)
      <4>1. Head(w.todo)[1] = "note" BY <2>1, <2>7
      <4> QED BY <1>9, <2>1, <4>1 DEF Run, Onward
    <3>2. /\ bot' \in [Chats -> BotRow \cup {Absent}] /\ \A o \in Chats : o # u => bot'[o] = bot[o]
          /\ bot[u] = Absent => bot'[u] = Absent
          /\ bot[u] # Absent => bot'[u] # Absent /\ bot'[u].x = bot[u].x /\ bot'[u].step = bot[u].step
      BY <1>1, <1>3, <3>1, WriteOK
    <3> HIDE DEF w, u
    <3> QED BY <1>4, <1>7, <2>3, <2>4, <2>5, <3>1, <3>2, RunKeeps
  <2>8. CASE a \in {<<"stepOf", h>> : h \in XHandles}
    <3>1. PICK h \in XHandles : a = <<"stepOf", h>> BY <2>8
    <3>2. /\ bot' = bot
          /\ Onward(n, EntryStatements(h), h) \/ Onward(n, <<<<"note", TRUE>>>>, Null)
      <4>1. Head(w.todo)[1] = "stepOf" /\ Head(w.todo)[2] = h BY <2>1, <3>1
      <4> QED BY <4>1 DEF Run, Onward
    <3>3. CASE Onward(n, EntryStatements(h), h)
      <4>1. /\ EntryStatements(h) \in Entries /\ EntryStatements(h) # Erasing /\ EntryStatements(h) # Told
        BY DEF Entries, EntryStatements, Erasing, Told
      <4> HIDE DEF w, u
      <4> QED BY <1>4, <2>2, <2>3, <2>4, <2>5, <3>2, <3>3, <4>1, RunKeeps
    <3>4. CASE Onward(n, <<<<"note", TRUE>>>>, Null)
      <4>1. <<<<"note", TRUE>>>> \in PlainTodos
        <5>1. <<"note", TRUE>> \in Afters BY DEF Afters
        <5>2. \A b \in Afters : <<b>> \in PlainTodos BY DEF PlainTodos
        <5> QED BY <5>1, <5>2
      <4>2. <<<<"note", TRUE>>>> # Erasing
        <5>1. <<"note", TRUE>>[1] # <<"forget", Null>>[1] OBVIOUS
        <5> QED BY <5>1 DEF Erasing
      <4> HIDE DEF w, u
      <4> QED BY <1>4, <2>2, <2>3, <2>4, <2>5, <3>2, <3>4, <4>1, <4>2, RunKeeps
    <3> QED BY <3>2, <3>3, <3>4
  <2> QED BY <2>6, <2>7, <2>8 DEF Afters
<1>10. ASSUME w.entry \in XHandles, NEW h \in XHandles, w.todo = <<<<"enter", h>>, <<"step", "done">>>> PROVE BotInv'
  <2>1. /\ Head(w.todo)[1] = "enter" /\ Head(w.todo)[2] = h /\ Tail(w.todo) = Told /\ Len(w.todo) = 2
        /\ w.todo[1][1] = "enter"
    BY <1>10 DEF Told
  <2>2. /\ Write(u, "x", h) /\ Onward(n, Told, w.entry) /\ answered' = answered
        /\ gone' = gone /\ tangled' = tangled
    <3>1. Write(u, "x", h) BY <2>1 DEF Run
    <3>2. Onward(n, Tail(w.todo), w.entry) BY <2>1 DEF Run, Onward
    <3>3. answered' = answered /\ gone' = gone /\ tangled' = tangled BY <2>1 DEF Run
    <3> QED BY <2>1, <3>1, <3>2, <3>3
  <2>3. u \notin tangled => bot[u] # Absent BY <1>6, <2>1 DEF Past
  <2>4. /\ bot' \in [Chats -> BotRow \cup {Absent}] /\ \A o \in Chats : o # u => bot'[o] = bot[o]
        /\ bot[u] = Absent => bot'[u] = Absent
        /\ bot[u] # Absent => bot'[u] # Absent /\ bot'[u].x = h /\ bot'[u].step = bot[u].step
    BY <1>1, <1>3, <2>2, WriteOK
  <2>5. h # Null OBVIOUS
  <2>6. u = work[n].user OBVIOUS
  <2> HIDE DEF u
  <2> QED BY <1>4, <1>7, <1>10, <2>2, <2>3, <2>4, <2>5, <2>6, RunKeeps
<1>11. ASSUME w.entry \in XHandles, w.todo = Told PROVE BotInv'
  <2>1. /\ Head(w.todo)[1] = "step" /\ Head(w.todo)[2] = "done" /\ Tail(w.todo) = <<>> /\ Len(w.todo) = 1
        /\ w.todo[1][1] = "step"
    BY <1>11 DEF Told
  <2>2. /\ Write(u, "step", "done") /\ Onward(n, <<>>, w.entry)
        /\ answered' = [answered EXCEPT ![u] = w.entry] /\ gone' = gone /\ tangled' = tangled
    BY <1>11, <2>1 DEF Run, Onward
  <2>3. u \notin tangled => bot[u] # Absent /\ bot[u].x # Null
    <3>1. w.entry # Null BY <1>11
    <3> QED BY <1>1, <1>6, <1>11, <2>1, <3>1 DEF Past, EntryThere, Entered
  <2>4. "done" \in Steps BY DEF Steps
  <2>5. /\ bot' \in [Chats -> BotRow \cup {Absent}] /\ \A o \in Chats : o # u => bot'[o] = bot[o]
        /\ bot[u] = Absent => bot'[u] = Absent
        /\ bot[u] # Absent => bot'[u] # Absent /\ bot'[u].x = bot[u].x /\ bot'[u].step = "done"
    BY <1>1, <1>3, <2>2, <2>4, WriteOK
  <2>6. DOMAIN answered' = Chats /\ \A v \in Chats : v # u => answered'[v] = answered[v] BY <1>4, <2>2
  <2>7. u = work[n].user OBVIOUS
  <2> HIDE DEF u
  <2> QED BY <1>4, <1>7, <1>11, <2>2, <2>3, <2>5, <2>6, <2>7, RunKeeps
<1> QED BY <1>3, <1>8, <1>9, <1>10, <1>11

\* A handler that stops leaves everything as it is.
LEMMA AbandonKeeps ==
  ASSUME BotInv, NEW n \in DOMAIN work, Abandon(n) PROVE BotInv'
<1>1. /\ BotTypes /\ RowThere /\ EntryThere /\ ErasesAlone /\ GoneQuiet /\ EntryKept /\ DoneIsEntered /\ GoneIsGone
  BY DEF BotInv
<1>2. work \in Seq(Handlers) BY <1>1 DEF BotTypes
<1>3. work[n] \in Handlers BY <1>2
<1> DEFINE w == [work[n] EXCEPT !.todo = <<>>]
<1>4. /\ work' = [work EXCEPT ![n] = w] /\ UNCHANGED <<bot, answered, gone, tangled>> BY DEF Abandon
<1>5. w \in Handlers /\ w.user = work[n].user /\ w.todo = <<>>
  <2>1. <<>> \in PlainTodos /\ <<>> \in Entries BY DEF PlainTodos, Entries
  <2>2. w.user = work[n].user /\ w.todo = <<>> BY <1>3 DEF Handlers
  <2>3. w \in Handlers BY <1>3, <2>1 DEF Handlers
  <2> QED BY <2>2, <2>3
<1> HIDE DEF w
<1>6. /\ work' \in Seq(Handlers) /\ DOMAIN work' = DOMAIN work /\ work'[n] = w
      /\ \A m \in DOMAIN work : m # n => work'[m] = work[m]
  BY <1>2, <1>4, <1>5, Replaced
<1>7. BotTypes' BY <1>1, <1>4, <1>6 DEF BotTypes
<1>8. \A m \in DOMAIN work : work'[m].user = work[m].user /\ (work'[m].todo = <<>> \/ work'[m] = work[m])
  BY <1>5, <1>6
<1>9. RowThere' BY <1>1, <1>4, <1>6, <1>8 DEF RowThere, Past
<1>14. Told # <<>> /\ Erasing # <<>> BY DEF Told, Erasing
<1>10. EntryThere' BY <1>1, <1>4, <1>6, <1>8, <1>14 DEF EntryThere, Entered
<1>11. ErasesAlone' BY <1>1, <1>4, <1>6, <1>8, <1>14 DEF ErasesAlone
<1>12. GoneQuiet' BY <1>1, <1>4, <1>6, <1>8 DEF GoneQuiet
<1>13. EntryKept' /\ DoneIsEntered' /\ GoneIsGone' BY <1>1, <1>4 DEF EntryKept, DoneIsEntered, GoneIsGone
<1> QED BY <1>7, <1>9, <1>10, <1>11, <1>12, <1>13 DEF BotInv

\* A message arrives: its handler begins with an upsert, or is an erasure that
\* nothing else of the person runs beside.
LEMMA UpdateKeeps ==
  ASSUME BotInv, NEW u \in Chats, NEW kind, NEW arg, Update(u, kind, arg),
         LET t == Statements(kind, arg) IN
          \/ t = Erasing /\ kind = "delete"
          \/ \E a \in Afters, s \in {Null, "site"} : t = <<<<"seen", s>>, a>>
  PROVE  BotInv'
<1>1. /\ BotTypes /\ RowThere /\ EntryThere /\ ErasesAlone /\ GoneQuiet /\ EntryKept /\ DoneIsEntered /\ GoneIsGone
  BY DEF BotInv
<1> DEFINE t == Statements(kind, arg)
           w == [user |-> u, todo |-> t, entry |-> Null]
           k == Len(work) + 1
<1>2. /\ work' = Append(work, w) /\ gone' = gone \ {u} /\ bot' = bot /\ answered' = answered
      /\ tangled' = IF InFlight(u) # {} /\ (kind = "delete" \/ \E n \in InFlight(u) : work[n].todo[1][1] = "forget")
                    THEN tangled \cup {u} ELSE tangled
  BY DEF Update
<1>3. t \in PlainTodos /\ t # <<>> /\ (t # Erasing => t[1][1] = "seen") /\ (t = Erasing => kind = "delete") /\ t # Told
  <2>1. CASE t = Erasing /\ kind = "delete" BY <2>1 DEF PlainTodos, Erasing, Told
  <2>2. ASSUME NEW a \in Afters, NEW s \in {Null, "site"}, t = <<<<"seen", s>>, a>>
        PROVE  t \in PlainTodos /\ t # <<>> /\ t[1][1] = "seen" /\ t # Erasing /\ t # Told
    <3>1. <<"seen", s>> \in Seens BY DEF Seens
    <3>2. t \in PlainTodos BY <2>2, <3>1 DEF PlainTodos
    <3>3. t[1] = <<"seen", s>> /\ <<"seen", s>>[1] = "seen" BY <2>2
    <3>4. Erasing[1][1] = "forget" /\ Told[1][1] = "step" BY DEF Erasing, Told
    <3> QED BY <2>2, <3>2, <3>3, <3>4
  <2> QED BY <2>1, <2>2
<1> HIDE DEF t
<1>4. w \in Handlers /\ w.user = u /\ w.todo = t /\ w.entry = Null BY <1>3 DEF Handlers
<1> HIDE DEF w
<1>5. work \in Seq(Handlers) BY <1>1 DEF BotTypes
<1>6. /\ work' \in Seq(Handlers) /\ DOMAIN work' = DOMAIN work \cup {k} /\ k \notin DOMAIN work /\ work'[k] = w
      /\ \A m \in DOMAIN work : work'[m] = work[m]
  BY <1>2, <1>4, <1>5
<1> HIDE DEF k
<1>7. tangled \subseteq tangled' BY <1>2
<1>8. BotTypes' BY <1>1, <1>2, <1>6 DEF BotTypes
<1>9. ~Past(w) /\ ~Entered(w) BY <1>3, <1>4 DEF Past, Entered
<1>10. RowThere' BY <1>1, <1>2, <1>6, <1>7, <1>9 DEF RowThere
<1>11. EntryThere' BY <1>1, <1>2, <1>6, <1>7, <1>9 DEF EntryThere
<1>12. ErasesAlone'
  <2> SUFFICES ASSUME NEW i \in DOMAIN work', NEW m \in DOMAIN work',
                      i # m, work'[i].todo = Erasing, work'[m].user = work'[i].user, work'[i].user \notin tangled'
               PROVE  work'[m].todo = <<>>
    BY DEF ErasesAlone
  <2>1. CASE i # k /\ m # k BY <1>1, <1>6, <1>7, <2>1 DEF ErasesAlone
  <2>2. CASE i = k
    <3>1. kind = "delete" /\ u \notin tangled' BY <1>3, <1>4, <1>6, <2>2
    <3>2. InFlight(u) = {} BY <1>2, <3>1
    <3>3. m \in DOMAIN work /\ work'[m] = work[m] /\ work[m].user = u BY <1>4, <1>6, <2>2
    <3> QED BY <3>2, <3>3 DEF InFlight
  <2>3. CASE m = k
    <3>1. i \in DOMAIN work /\ work[i].user = u /\ work[i].todo = Erasing /\ u \notin tangled'
      BY <1>4, <1>6, <2>3
    <3>2. Erasing # <<>> /\ Erasing[1][1] = "forget" BY DEF Erasing
    <3>3. i \in InFlight(u) BY <3>1, <3>2 DEF InFlight
    <3>4. u \in tangled' BY <1>2, <3>1, <3>2, <3>3
    <3> QED BY <3>1, <3>4
  <2> QED BY <2>1, <2>2, <2>3
<1>13. GoneQuiet'
  <2> SUFFICES ASSUME NEW m \in DOMAIN work', work'[m].user \in gone' \ tangled' PROVE work'[m].todo = <<>>
    BY DEF GoneQuiet
  <2>1. m # k BY <1>2, <1>4, <1>6
  <2> QED BY <1>1, <1>2, <1>6, <1>7, <2>1 DEF GoneQuiet
<1>14. EntryKept' /\ DoneIsEntered' /\ GoneIsGone' BY <1>1, <1>2, <1>7 DEF EntryKept, DoneIsEntered, GoneIsGone
<1> QED BY <1>8, <1>10, <1>11, <1>12, <1>13, <1>14 DEF BotInv

LEMMA BotStep == ASSUME BotInv, BotNext PROVE BotInv'
<1>1. ASSUME NEW u \in Chats, NEW s \in Buttons, Update(u, "tap", s) PROVE BotInv'
  <2>1. <<"step", s>> \in Afters BY DEF Afters
  <2>2. Statements("tap", s) = <<<<"seen", Null>>, <<"step", s>>>> BY DEF Statements
  <2> QED BY <1>1, <2>1, <2>2, UpdateKeeps
<1>2. ASSUME NEW u \in Chats, NEW s \in {Null, "site"}, Update(u, "start", s) PROVE BotInv'
  <2>1. <<"step", "welcome">> \in Afters BY DEF Afters
  <2>2. Statements("start", s) = <<<<"seen", s>>, <<"step", "welcome">>>> BY DEF Statements
  <2> QED BY <1>2, <2>1, <2>2, UpdateKeeps
<1>3. ASSUME NEW u \in Chats, NEW h \in XHandles, Update(u, "text", h) PROVE BotInv'
  <2>1. <<"stepOf", h>> \in Afters BY DEF Afters
  <2>2. Statements("text", h) = <<<<"seen", Null>>, <<"stepOf", h>>>> BY DEF Statements
  <2> QED BY <1>3, <2>1, <2>2, UpdateKeeps
<1>4. ASSUME NEW u \in Chats, Update(u, "delete", Null) PROVE BotInv'
  <2>1. Statements("delete", Null) = Erasing BY DEF Statements, Erasing
  <2> QED BY <1>4, <2>1, UpdateKeeps
<1>5. ASSUME NEW u \in Chats, Update(u, "words", Null) PROVE BotInv'
  <2>1. <<"note", TRUE>> \in Afters BY DEF Afters
  <2>2. Statements("words", Null) = <<<<"seen", Null>>, <<"note", TRUE>>>> BY DEF Statements
  <2> QED BY <1>5, <2>1, <2>2, UpdateKeeps
<1>6. ASSUME NEW n \in DOMAIN work, Run(n) PROVE BotInv'
  <2>1. work[n].todo # <<>> BY <1>6 DEF Run
  <2> QED BY <1>6, <2>1, ForgetKeeps, StatementKeeps
<1> QED BY <1>1, <1>2, <1>3, <1>4, <1>5, <1>6, AbandonKeeps DEF BotNext

-----------------------------------------------------------------------------
(***************************************************************************)
(* The records of a person who alone signs in with this browser: what is   *)
(* expected is that person's, so what a repair finds or writes is right.   *)
(***************************************************************************)

Alone == \A p, q \in People : p = q

Who == [who : People \cup {NoOne}, handle : BOOLEAN]
Results == {"none", "ok", "cannot-write", "repaired", "failed"}
RecTypes ==
  /\ ident \in Who /\ me \in Who /\ (me # NoIdentity => me.who \in People)
  /\ suiKp \in People \cup {NoOne} /\ session \in People \cup {NoOne}
  /\ signing.before \in BOOLEAN
  /\ panel \in [job : {"none", "repair"}, key : RecKeys, at : {"look", "write"}]
  /\ report \in [RecKeys -> Results]
  /\ rec \in [People -> [RecKeys -> People \cup {NoOne, Gateway}]]

\* Who is at work is signed in; without a handle nothing was reported, and no
\* button is at work.
AtWork ==
  /\ ident.handle \/ signing # NotSigning \/ heals # {} => me # NoIdentity
  /\ ident # NoIdentity => signing = NotSigning /\ me # NoIdentity
  /\ ~ident.handle => panel = NoJob /\ report = NoReport
HealsOwn == \A j \in heals : j.key \in RecKeys /\ (j.at = "write" => j.value \in People)

RecInv == RecTypes /\ AtWork /\ HealsOwn /\ RepairIsHonest

LEMMA NobodyIsTyped == NoIdentity \in Who /\ NoIdentity.who = NoOne /\ ~NoIdentity.handle
BY DEF NoIdentity, Who

LEMMA NothingIsTyped ==
  /\ NoJob \in [job : {"none", "repair"}, key : RecKeys, at : {"look", "write"}] /\ NoJob.job = "none"
  /\ NoReport \in [RecKeys -> Results] /\ \A k \in RecKeys : NoReport[k] \notin {"ok", "repaired"}
  /\ NotSigning.before \in BOOLEAN
BY DEF NoJob, NoReport, RecKeys, Results, NotSigning

LEMMA TwoRecords ==
  ASSUME NEW S, NEW a \in S, NEW b \in S
  PROVE  [sui |-> a, addr |-> b] \in [RecKeys -> S]
BY DEF RecKeys

\* With nothing reported, records may change in any way.
LEMMA NothingReported == ASSUME report = NoReport PROVE RepairIsHonest
BY NothingIsTyped DEF RepairIsHonest

LEMMA RecInitially == RecInit => RecInv
<1> SUFFICES ASSUME RecInit PROVE RecInv OBVIOUS
<1>1. /\ ident = NoIdentity /\ me = NoIdentity /\ suiKp = NoOne /\ session = NoOne
      /\ signing = NotSigning /\ heals = {} /\ panel = NoJob /\ report = NoReport
  BY DEF RecInit
<1>2. rec \in [People -> [RecKeys -> People \cup {NoOne, Gateway}]]
  <2>1. PICK k \in {"none", "owner", "wallet"}, s \in {TRUE, FALSE} :
          rec = [p \in People |-> [sui |-> IF s /\ k # "none" THEN p ELSE NoOne, addr |-> IF k = "owner" THEN p ELSE NoOne]]
    BY DEF RecInit
  <2> DEFINE r(p) == [sui |-> IF s /\ k # "none" THEN p ELSE NoOne, addr |-> IF k = "owner" THEN p ELSE NoOne]
  <2>2. \A p \in People : r(p) \in [RecKeys -> People \cup {NoOne, Gateway}] BY TwoRecords
  <2>3. rec = [p \in People |-> r(p)] BY <2>1
  <2> HIDE DEF r
  <2> QED BY <2>2, <2>3
<1>3. RecTypes BY <1>1, <1>2, NobodyIsTyped, NothingIsTyped DEF RecTypes
<1>4. AtWork BY <1>1, NobodyIsTyped DEF AtWork
<1>5. HealsOwn BY <1>1 DEF HealsOwn
<1> QED BY <1>1, <1>3, <1>4, <1>5, NothingReported DEF RecInv

\* What is expected is the person's own.
LEMMA ExpectedIsMine ==
  ASSUME Alone, RecTypes, me # NoIdentity, NEW k \in RecKeys
  PROVE  /\ Expected(k) = me.who /\ SuiKey = me.who /\ me.who \in People
         /\ \A p \in People : p = me.who
<1>1. me.who \in People /\ (suiKp = NoOne \/ suiKp \in People) BY DEF RecTypes
<1> QED BY <1>1 DEF Alone, Expected, SuiKey

\* Signing in, and what comes and goes with a page.
LEMMA SignInStep ==
  ASSUME RecInv, (\E p \in People : Connect(p)) \/ Reload \/ SignedIn \/ SignOut PROVE RecInv'
<1> USE RecAssumption
<1>0. RecTypes /\ AtWork /\ HealsOwn /\ RepairIsHonest BY DEF RecInv
<1>1. ASSUME NEW p \in People, Connect(p) PROVE RecInv'
  <2>1. /\ me' = [who |-> p, handle |-> p \in note]
        /\ heals' = heals \cup (IF p \in note THEN {[key |-> k, value |-> NoOne, at |-> "look"] : k \in RecKeys} ELSE {})
        /\ ident = NoIdentity /\ signing'.before = (p \in note)
        /\ UNCHANGED <<ident, suiKp, session, note, panel, report, table, kept, rec, granted>>
    BY <1>1 DEF Connect, Hydrate, chainVars
  <2>2. me' \in Who /\ me'.who = p /\ me' # NoIdentity /\ signing'.before \in BOOLEAN
    <3>1. me'.who = p /\ me'.handle = (p \in note) BY <2>1
    <3>2. (p \in note) \in BOOLEAN OBVIOUS
    <3>3. me' \in Who BY <2>1, <3>2 DEF Who
    <3> QED BY <2>1, <3>1, <3>2, <3>3, NobodyIsTyped
  <2>3. RecTypes' BY <1>0, <2>1, <2>2 DEF RecTypes
  <2>4. report = NoReport /\ panel = NoJob BY <1>0, <2>1, NobodyIsTyped DEF AtWork
  <2>5. AtWork' BY <1>0, <2>1, <2>2, <2>4 DEF AtWork
  <2>6. HealsOwn' BY <1>0, <2>1 DEF HealsOwn
  <2>7. RepairIsHonest' BY <2>1, <2>4, NothingIsTyped DEF RepairIsHonest
  <2> QED BY <2>3, <2>5, <2>6, <2>7 DEF RecInv
<1>2. CASE Reload
  <2>1. /\ ident' = NoIdentity /\ suiKp' = NoOne /\ panel' = NoJob /\ report' = NoReport
        /\ UNCHANGED <<session, note, kept, rec, granted>>
    BY <1>2 DEF Reload, chainVars
  <2>2. RepairIsHonest' BY <2>1, NothingIsTyped DEF RepairIsHonest
  <2>3. CASE session = NoOne
    <3>1. me' = NoIdentity /\ heals' = {} /\ signing' = NotSigning BY <1>2, <2>3 DEF Reload
    <3>2. RecTypes' BY <1>0, <2>1, <3>1, NobodyIsTyped, NothingIsTyped DEF RecTypes
    <3>3. AtWork' BY <2>1, <3>1, NobodyIsTyped DEF AtWork
    <3> QED BY <2>2, <3>1, <3>2, <3>3 DEF RecInv, HealsOwn
  <2>4. CASE session # NoOne
    <3>1. /\ me' = [who |-> session, handle |-> session \in note]
          /\ heals' = IF session \in note THEN {[key |-> k, value |-> NoOne, at |-> "look"] : k \in RecKeys} ELSE {}
          /\ signing' = [via |-> "restore", before |-> session \in note]
      BY <1>2, <2>4 DEF Reload
    <3>2. session \in People BY <1>0, <2>4 DEF RecTypes
    <3>3. (session \in note) \in BOOLEAN OBVIOUS
    <3>4. me' \in Who /\ me'.who = session /\ me' # NoIdentity /\ signing'.before \in BOOLEAN
      <4>1. me'.who = session /\ signing'.before = (session \in note) BY <3>1
      <4>2. me' \in Who BY <3>1, <3>2, <3>3 DEF Who
      <4> QED BY <2>4, <3>3, <4>1, <4>2, NobodyIsTyped
    <3>5. RecTypes' BY <1>0, <2>1, <3>2, <3>4, NobodyIsTyped, NothingIsTyped DEF RecTypes
    <3>6. AtWork' BY <2>1, <3>4, NobodyIsTyped DEF AtWork
    <3>7. HealsOwn' BY <3>1 DEF HealsOwn
    <3> QED BY <2>2, <3>5, <3>6, <3>7 DEF RecInv
  <2> QED BY <2>3, <2>4
<1>3. CASE SignedIn
  <2>1. /\ signing # NotSigning /\ signing' = NotSigning /\ session' = me.who
        /\ UNCHANGED <<suiKp, heals, panel, report, table, kept, rec, granted>>
    BY <1>3 DEF SignedIn, chainVars
  <2>2. PICK found \in BOOLEAN : me' = [me EXCEPT !.handle = @ \/ found]
    BY <1>3 DEF SignedIn, HandleOf, WithFault
  <2>3. me # NoIdentity /\ ident = NoIdentity BY <1>0, <2>1 DEF AtWork
  <2>4. me \in Who /\ me.who \in People /\ signing.before \in BOOLEAN BY <1>0, <2>3 DEF RecTypes
  <2>5. (me.handle \/ found) \in BOOLEAN OBVIOUS
  <2>6. me' \in Who /\ me'.who = me.who BY <2>2, <2>4, <2>5 DEF Who
  <2>7. ident' \in Who
    <3>1. CASE ident' = me' BY <2>6, <3>1
    <3>2. CASE ident' = [me EXCEPT !.handle = signing.before] BY <2>4, <3>2 DEF Who
    <3> QED BY <1>3, <3>1, <3>2 DEF SignedIn
  <2>8. me' # NoIdentity BY <2>4, <2>6, NobodyIsTyped
  <2>9. panel = NoJob /\ report = NoReport BY <1>0, <2>3, NobodyIsTyped DEF AtWork
  <2>10. RecTypes' BY <1>0, <2>1, <2>4, <2>6, <2>7, NothingIsTyped DEF RecTypes
  <2>11. AtWork' BY <2>1, <2>8, <2>9 DEF AtWork
  <2>12. HealsOwn' BY <1>0, <2>1 DEF HealsOwn
  <2>13. RepairIsHonest' BY <2>1, <2>9, NothingIsTyped DEF RepairIsHonest
  <2> QED BY <2>10, <2>11, <2>12, <2>13 DEF RecInv
<1>4. CASE SignOut
  <2>1. /\ session' = NoOne /\ ident' = NoIdentity /\ panel' = NoJob /\ report' = NoReport
        /\ UNCHANGED <<me, suiKp, note, signing, heals, kept, rec, granted>>
    BY <1>4 DEF SignOut, chainVars
  <2>2. RecTypes' BY <1>0, <2>1, NobodyIsTyped, NothingIsTyped DEF RecTypes
  <2>3. AtWork' BY <1>0, <2>1, NobodyIsTyped DEF AtWork
  <2>4. HealsOwn' BY <1>0, <2>1 DEF HealsOwn
  <2>5. RepairIsHonest' BY <2>1, NothingIsTyped DEF RepairIsHonest
  <2> QED BY <2>2, <2>3, <2>4, <2>5 DEF RecInv
<1> QED BY <1>1, <1>2, <1>3, <1>4

\* A record of the person's own, written over any other.
LEMMA OwnWrite ==
  ASSUME RecTypes, RepairIsHonest, NEW w \in People, NEW key \in RecKeys, me.who = w,
         rec' = [rec EXCEPT ![w][key] = w]
  PROVE  /\ rec' \in [People -> [RecKeys -> People \cup {NoOne, Gateway}]]
         /\ rec'[w][key] = w
         /\ \A k \in RecKeys : rec[w][k] = w => rec'[w][k] = w
<1> DEFINE RecRow == [RecKeys -> People \cup {NoOne, Gateway}]
<1>1. rec \in [People -> RecRow] BY DEF RecTypes
<1>2. rec[w] \in RecRow BY <1>1
<1>3. \A k \in RecKeys : [rec[w] EXCEPT ![key] = w][k] = IF k = key THEN w ELSE rec[w][k] BY <1>2
<1>4. [rec[w] EXCEPT ![key] = w] \in RecRow BY <1>2
<1>5. rec' = [rec EXCEPT ![w] = [rec[w] EXCEPT ![key] = w]] OBVIOUS
<1>6. rec'[w] = [rec[w] EXCEPT ![key] = w] BY <1>1, <1>5
<1>7. rec' \in [People -> RecRow] BY <1>1, <1>4, <1>5
<1> QED BY <1>3, <1>6, <1>7

\* A claim: nothing was reported to a person without a handle.
LEMMA ClaimStep == ASSUME RecInv, Alone, ClaimFree \/ ClaimPaid PROVE RecInv'
<1> USE RecAssumption
<1>0. RecTypes /\ AtWork /\ HealsOwn /\ RepairIsHonest BY DEF RecInv
<1>1. /\ ident # NoIdentity /\ ~ident.handle /\ ident' = me' /\ me' = [me EXCEPT !.handle = TRUE]
      /\ suiKp' = SuiKey /\ UNCHANGED <<session, signing, heals, panel, report>>
  BY DEF ClaimFree, ClaimPaid
<1>2. me # NoIdentity /\ signing = NotSigning /\ panel = NoJob /\ report = NoReport BY <1>0, <1>1 DEF AtWork
<1>3. me \in Who /\ me.who \in People BY <1>0, <1>2 DEF RecTypes
<1>4. "sui" \in RecKeys BY DEF RecKeys
<1>5. SuiKey = me.who BY <1>0, <1>2, <1>4, ExpectedIsMine
<1>6. me' \in Who /\ me'.who = me.who /\ me'.handle BY <1>1, <1>3 DEF Who
<1>7. me' # NoIdentity BY <1>6, NobodyIsTyped
<1>8. rec' \in [People -> [RecKeys -> People \cup {NoOne, Gateway}]]
  <2> DEFINE RecRow == [RecKeys -> People \cup {NoOne, Gateway}]
  <2>1. rec \in [People -> RecRow] BY <1>0 DEF RecTypes
  <2>2. CASE ClaimFree
    <3>1. rec' = [rec EXCEPT ![me.who] = [rec[me.who] EXCEPT !["sui"] = SuiKey]] BY <2>2 DEF ClaimFree
    <3>2. [rec[me.who] EXCEPT !["sui"] = SuiKey] \in RecRow BY <1>3, <1>5, <2>1
    <3> QED BY <2>1, <3>1, <3>2
  <2>3. CASE ClaimPaid
    <3>1. PICK sui \in {SuiKey, NoOne} : rec' = [rec EXCEPT ![me.who] = [sui |-> sui, addr |-> me.who]]
      BY <2>3 DEF ClaimPaid, WithFault
    <3>2. [sui |-> sui, addr |-> me.who] \in RecRow
      <4>1. me.who \in People \cup {NoOne, Gateway} /\ sui \in People \cup {NoOne, Gateway} BY <1>3, <1>5
      <4> QED BY <4>1, TwoRecords
    <3> QED BY <2>1, <3>1, <3>2
  <2> QED BY <2>2, <2>3
<1>9. RecTypes' BY <1>0, <1>1, <1>3, <1>5, <1>6, <1>8 DEF RecTypes
<1>10. AtWork' BY <1>1, <1>2, <1>6, <1>7 DEF AtWork
<1>11. HealsOwn' BY <1>0, <1>1 DEF HealsOwn
<1>12. RepairIsHonest' BY <1>1, <1>2, NothingIsTyped DEF RepairIsHonest
<1> QED BY <1>9, <1>10, <1>11, <1>12 DEF RecInv

\* The silent repairs write what is the person's own.
LEMMA HealStep ==
  ASSUME RecInv, Alone, NEW j \in heals, HealLooks(j) \/ HealWrites(j) PROVE RecInv'
<1> USE RecAssumption
<1>0. RecTypes /\ AtWork /\ HealsOwn /\ RepairIsHonest BY DEF RecInv
<1>1. me # NoIdentity /\ j.key \in RecKeys BY <1>0 DEF AtWork, HealsOwn
<1>2. /\ Expected(j.key) = me.who /\ SuiKey = me.who /\ me.who \in People /\ \A p \in People : p = me.who
  BY <1>0, <1>1, ExpectedIsMine
<1>3. CASE HealLooks(j)
  <2>1. /\ suiKp' = (IF j.key = "sui" THEN SuiKey ELSE suiKp)
        /\ UNCHANGED <<ident, me, session, note, signing, panel, report, rec>>
    BY <1>3 DEF HealLooks, pageVars, chainVars
  <2>2. \A i \in heals' : i \in heals \/ i = [key |-> j.key, value |-> Expected(j.key), at |-> "write"]
    BY <1>3 DEF HealLooks
  <2>3. suiKp' \in People \cup {NoOne} BY <1>0, <1>2, <2>1 DEF RecTypes
  <2>4. RecTypes' BY <1>0, <2>1, <2>3 DEF RecTypes
  <2>5. AtWork' BY <1>0, <1>1, <2>1 DEF AtWork
  <2>6. HealsOwn' BY <1>0, <1>1, <1>2, <2>2 DEF HealsOwn
  <2>7. RepairIsHonest' BY <1>0, <2>1 DEF RepairIsHonest
  <2> QED BY <2>4, <2>5, <2>6, <2>7 DEF RecInv
<1>4. CASE HealWrites(j)
  <2>1. /\ j.at = "write" /\ heals' = heals \ {j}
        /\ UNCHANGED <<ident, me, session, note, signing, suiKp, panel, report>>
    BY <1>4 DEF HealWrites, pageVars
  <2>2. j.value = me.who BY <1>0, <1>2, <2>1 DEF HealsOwn
  <2>3. rec' = rec \/ rec' = [rec EXCEPT ![me.who][j.key] = me.who] BY <1>4, <2>2 DEF HealWrites
  <2>4. /\ rec' \in [People -> [RecKeys -> People \cup {NoOne, Gateway}]]
        /\ \A k \in RecKeys : rec[me.who][k] = me.who => rec'[me.who][k] = me.who
    <3>1. CASE rec' = rec BY <1>0, <3>1 DEF RecTypes
    <3>2. CASE rec' = [rec EXCEPT ![me.who][j.key] = me.who] BY <1>0, <1>1, <1>2, <3>2, OwnWrite
    <3> QED BY <2>3, <3>1, <3>2
  <2>5. RecTypes' BY <1>0, <2>1, <2>4 DEF RecTypes
  <2>6. AtWork' BY <1>0, <1>1, <2>1 DEF AtWork
  <2>7. HealsOwn' BY <1>0, <2>1 DEF HealsOwn
  <2>8. RepairIsHonest' BY <1>0, <2>1, <2>4 DEF RepairIsHonest
  <2> QED BY <2>5, <2>6, <2>7, <2>8 DEF RecInv
<1> QED BY <1>3, <1>4

\* What ends one record's repair: its result, and the next record or none.
LEMMA NextRecordOK ==
  ASSUME RecTypes, ident.handle, NEW result \in Results, NextRecord(result)
  PROVE  /\ panel' \in [job : {"none", "repair"}, key : RecKeys, at : {"look", "write"}]
         /\ report' \in [RecKeys -> Results]
         /\ \A k \in RecKeys : report'[k] = IF k = panel.key THEN result ELSE report[k]
<1>1. report \in [RecKeys -> Results] /\ panel.key \in RecKeys
  /\ panel \in [job : {"none", "repair"}, key : RecKeys, at : {"look", "write"}] BY DEF RecTypes
<1>2. report' = [report EXCEPT ![panel.key] = result]
      /\ (panel' = [panel EXCEPT !.key = "addr", !.at = "look"] \/ panel' = NoJob)
  BY DEF NextRecord
<1>3. panel' \in [job : {"none", "repair"}, key : RecKeys, at : {"look", "write"}]
  <2>1. CASE panel' = NoJob BY <2>1, NothingIsTyped
  <2>2. CASE panel' = [panel EXCEPT !.key = "addr", !.at = "look"]
    <3>1. "addr" \in RecKeys BY DEF RecKeys
    <3> QED BY <1>1, <2>2, <3>1
  <2> QED BY <1>2, <2>1, <2>2
<1> QED BY <1>1, <1>2, <1>3

\* The panel tells of a record only what it has read or written.
LEMMA RepairStep ==
  ASSUME RecInv, Alone, RepairLooks \/ RepairWrites PROVE RecInv'
<1> USE RecAssumption
<1>0. RecTypes /\ AtWork /\ HealsOwn /\ RepairIsHonest BY DEF RecInv
<1>1. panel.job = "repair" /\ UNCHANGED <<ident, me, session, note, signing, suiKp, heals>>
  BY DEF RepairLooks, RepairWrites, pageVars
<1>2. panel # NoJob /\ panel.key \in RecKeys /\ panel \in [job : {"none", "repair"}, key : RecKeys, at : {"look", "write"}]
  BY <1>0, <1>1, NothingIsTyped DEF RecTypes
<1>3. ident.handle /\ me # NoIdentity BY <1>0, <1>2 DEF AtWork
<1>4. /\ Expected(panel.key) = me.who /\ me.who \in People BY <1>0, <1>2, <1>3, ExpectedIsMine
<1>5. report \in [RecKeys -> Results] BY <1>0 DEF RecTypes
<1>6. SUFFICES /\ panel' \in [job : {"none", "repair"}, key : RecKeys, at : {"look", "write"}]
               /\ report' \in [RecKeys -> Results]
               /\ rec' \in [People -> [RecKeys -> People \cup {NoOne, Gateway}]]
               /\ RepairIsHonest'
  <2>1. RecTypes' BY <1>0, <1>1, <1>6 DEF RecTypes
  <2>2. AtWork' BY <1>0, <1>1, <1>3 DEF AtWork
  <2>3. HealsOwn' BY <1>0, <1>1 DEF HealsOwn
  <2> QED BY <1>6, <2>1, <2>2, <2>3 DEF RecInv
<1>7. CASE RepairLooks
  <2>1. rec' = rec BY <1>7 DEF RepairLooks, chainVars
  <2>2. rec' \in [People -> [RecKeys -> People \cup {NoOne, Gateway}]] BY <1>0, <2>1 DEF RecTypes
  <2>3. PICK read \in Published(me.who, panel.key), can \in CanWrite(kept[me.who] # "none") :
          IF read = Expected(panel.key) THEN NextRecord("ok")
          ELSE IF ~can THEN NextRecord("cannot-write")
          ELSE panel' = [panel EXCEPT !.at = "write"] /\ UNCHANGED <<report, table>>
    BY <1>7 DEF RepairLooks
  <2>4. CASE read = Expected(panel.key)
    <3>1. rec[me.who][panel.key] = me.who BY <1>4, <2>4 DEF Published, WithFault
    <3>2. "ok" \in Results /\ NextRecord("ok") BY <2>3, <2>4 DEF Results
    <3>3. /\ panel' \in [job : {"none", "repair"}, key : RecKeys, at : {"look", "write"}]
          /\ report' \in [RecKeys -> Results]
          /\ \A k \in RecKeys : report'[k] = IF k = panel.key THEN "ok" ELSE report[k]
      BY <1>0, <1>3, <3>2, NextRecordOK
    <3>4. RepairIsHonest' BY <1>0, <1>1, <2>1, <3>1, <3>3 DEF RepairIsHonest
    <3> QED BY <2>2, <3>3, <3>4
  <2>5. CASE read # Expected(panel.key) /\ ~can
    <3>1. "cannot-write" \in Results /\ NextRecord("cannot-write") BY <2>3, <2>5 DEF Results
    <3>2. /\ panel' \in [job : {"none", "repair"}, key : RecKeys, at : {"look", "write"}]
          /\ report' \in [RecKeys -> Results]
          /\ \A k \in RecKeys : report'[k] = IF k = panel.key THEN "cannot-write" ELSE report[k]
      BY <1>0, <1>3, <3>1, NextRecordOK
    <3>3. RepairIsHonest' BY <1>0, <1>1, <2>1, <3>2 DEF RepairIsHonest
    <3> QED BY <2>2, <3>2, <3>3
  <2>6. CASE read # Expected(panel.key) /\ can
    <3>1. panel' = [panel EXCEPT !.at = "write"] /\ report' = report BY <2>3, <2>6
    <3>2. panel' \in [job : {"none", "repair"}, key : RecKeys, at : {"look", "write"}] BY <1>2, <3>1
    <3>3. RepairIsHonest' BY <1>0, <1>1, <2>1, <3>1 DEF RepairIsHonest
    <3> QED BY <1>5, <2>2, <3>1, <3>2, <3>3
  <2> QED BY <2>4, <2>5, <2>6
<1>8. CASE RepairWrites
  <2>1. PICK mined \in BOOLEAN, heard \in BOOLEAN :
          /\ rec' = IF mined THEN [rec EXCEPT ![me.who][panel.key] = Expected(panel.key)] ELSE rec
          /\ NextRecord(IF mined /\ heard THEN "repaired" ELSE "failed")
    BY <1>8 DEF RepairWrites, WithFault
  <2> DEFINE r == IF mined /\ heard THEN "repaired" ELSE "failed"
  <2>2. r \in Results /\ NextRecord(r) BY <2>1 DEF Results
  <2>3. r \in {"ok", "repaired"} => mined OBVIOUS
  <2> HIDE DEF r
  <2>4. /\ panel' \in [job : {"none", "repair"}, key : RecKeys, at : {"look", "write"}]
        /\ report' \in [RecKeys -> Results]
        /\ \A k \in RecKeys : report'[k] = IF k = panel.key THEN r ELSE report[k]
    BY <1>0, <1>3, <2>2, NextRecordOK
  <2>5. /\ rec' \in [People -> [RecKeys -> People \cup {NoOne, Gateway}]]
        /\ mined => rec'[me.who][panel.key] = me.who
        /\ \A k \in RecKeys : rec[me.who][k] = me.who => rec'[me.who][k] = me.who
    <3>1. CASE ~mined
      <4>1. rec' = rec BY <2>1, <3>1
      <4> QED BY <1>0, <3>1, <4>1 DEF RecTypes
    <3>2. CASE mined
      <4>1. rec' = [rec EXCEPT ![me.who][panel.key] = me.who] BY <1>4, <2>1, <3>2
      <4> QED BY <1>0, <1>2, <1>4, <4>1, OwnWrite
    <3> QED BY <3>1, <3>2
  <2>6. RepairIsHonest'
    <3> SUFFICES ASSUME NEW k \in RecKeys, report'[k] \in {"ok", "repaired"} PROVE rec'[me.who][k] = me.who
      BY <1>1 DEF RepairIsHonest
    <3>1. CASE k = panel.key BY <2>3, <2>4, <2>5, <3>1
    <3>2. CASE k # panel.key
      <4>1. report[k] \in {"ok", "repaired"} BY <2>4, <3>2
      <4>2. rec[me.who][k] = me.who BY <1>0, <1>3, <4>1 DEF RepairIsHonest
      <4> QED BY <2>5, <4>2
    <3> QED BY <3>1, <3>2
  <2> QED BY <2>4, <2>5, <2>6
<1> QED BY <1>7, <1>8

\* What touches no record a report speaks of.
LEMMA PanelStep ==
  ASSUME RecInv, Alone,
         Open \/ CheckRecords \/ (\E key \in RecKeys : Delegate(key) \/ \E p \in People : GatewayWrites(p, key))
  PROVE  RecInv'
<1> USE RecAssumption
<1>0. RecTypes /\ AtWork /\ HealsOwn /\ RepairIsHonest BY DEF RecInv
<1>1. CASE Open \/ \E key \in RecKeys : Delegate(key)
  <2>1. UNCHANGED <<ident, me, session, note, signing, suiKp, heals, panel, report, rec>>
    BY <1>1 DEF Open, Delegate, pageVars, chainVars
  <2>2. RecTypes' BY <1>0, <2>1 DEF RecTypes
  <2>3. AtWork' BY <1>0, <2>1 DEF AtWork
  <2>4. HealsOwn' BY <1>0, <2>1 DEF HealsOwn
  <2>5. RepairIsHonest' BY <1>0, <2>1 DEF RepairIsHonest
  <2> QED BY <2>2, <2>3, <2>4, <2>5 DEF RecInv
<1>2. CASE CheckRecords
  <2>1. /\ ident.handle /\ panel' = [job |-> "repair", key |-> "sui", at |-> "look"]
        /\ report' = NoReport /\ suiKp' = SuiKey
        /\ UNCHANGED <<ident, me, session, note, signing, heals, rec>>
    BY <1>2 DEF CheckRecords, Free, pageVars, chainVars
  <2>2. me # NoIdentity BY <1>0, <2>1 DEF AtWork
  <2>3. "sui" \in RecKeys BY DEF RecKeys
  <2>4. SuiKey \in People BY <1>0, <2>2, <2>3, ExpectedIsMine
  <2>5. panel' \in [job : {"none", "repair"}, key : RecKeys, at : {"look", "write"}] BY <2>1, <2>3
  <2>6. RecTypes' BY <1>0, <2>1, <2>4, <2>5, NothingIsTyped DEF RecTypes
  <2>7. AtWork' BY <1>0, <2>1, <2>2 DEF AtWork
  <2>8. HealsOwn' BY <1>0, <2>1 DEF HealsOwn
  <2>9. RepairIsHonest' BY <2>1, NothingIsTyped DEF RepairIsHonest
  <2> QED BY <2>6, <2>7, <2>8, <2>9 DEF RecInv
<1>3. ASSUME NEW key \in RecKeys, NEW p \in People, GatewayWrites(p, key) PROVE RecInv'
  <2>1. /\ rec' = [rec EXCEPT ![p] = [rec[p] EXCEPT ![key] = Gateway]] /\ report' = NoReport
        /\ UNCHANGED <<ident, me, session, note, signing, suiKp, heals, panel>>
    BY <1>3 DEF GatewayWrites, pageVars
  <2>2. rec' \in [People -> [RecKeys -> People \cup {NoOne, Gateway}]]
    <3> DEFINE RecRow == [RecKeys -> People \cup {NoOne, Gateway}]
    <3>1. rec \in [People -> RecRow] BY <1>0 DEF RecTypes
    <3>2. [rec[p] EXCEPT ![key] = Gateway] \in RecRow BY <3>1
    <3> QED BY <2>1, <3>1, <3>2
  <2>3. RecTypes' BY <1>0, <2>1, <2>2, NothingIsTyped DEF RecTypes
  <2>4. AtWork' BY <1>0, <2>1 DEF AtWork
  <2>5. HealsOwn' BY <1>0, <2>1 DEF HealsOwn
  <2>6. RepairIsHonest' BY <2>1, NothingIsTyped DEF RepairIsHonest
  <2> QED BY <2>3, <2>4, <2>5, <2>6 DEF RecInv
<1> QED BY <1>1, <1>2, <1>3

LEMMA RecStep == ASSUME RecInv, Alone, RecNext PROVE RecInv'
BY SignInStep, ClaimStep, HealStep, RepairStep, PanelStep DEF RecNext

Tab ==
  [step : {"closed", "claim", "check", "pay", "bridge", "bridging", "paying", "done"},
   at : {"rest", "reads", "looks", "quotes", "waits", "joins", "prices", "confirms"},
   balance : Int, cost : Int, mine : Nat,
   err : {"none", "read", "on 0G", "no ETH", "refused", "bridge failed", "not enough",
          "reverted", "unconfirmed"},
   bridged : BOOLEAN, ready : BOOLEAN]
Pay == [value : Prices, state : {"pending", "mined", "reverted", "dropped"}]
Bridge == [amount : Int, state : {"pending", "done", "failed"}]

MemberTypes ==
  /\ price \in Prices /\ joined \in BOOLEAN /\ funds \in Int /\ abroad \in Int
  /\ pays \in Seq(Pay) /\ bridges \in Seq(Bridge) /\ tab \in Tab

\* From a press of the button to the wallet's answer nothing old is shown.
Attempting == tab.at \in {"quotes", "joins", "prices"} => tab.err = "none"

\* Who waits for a payment waits for one that was sent, and a revert that is
\* told is of one that was.
WaitsForOwn == tab.at = "confirms" => tab.mine \in DOMAIN pays
Reverted ==
  tab.err = "reverted" => tab.mine \in DOMAIN pays /\ pays[tab.mine].state = "reverted"

MemberInv == MemberTypes /\ OneFee /\ DoneIsMember /\ Attempting /\ WaitsForOwn /\ Reverted

-----------------------------------------------------------------------------

LEMMA ClosedTab ==
  NoTab \in Tab /\ NoTab.step = "closed" /\ NoTab.at = "rest" /\ NoTab.err = "none"
BY DEF NoTab, Tab

LEMMA MemberInitially == MemberInit => MemberInv
<1> SUFFICES ASSUME MemberInit PROVE MemberInv OBVIOUS
<1>1. price \in Prices /\ joined = FALSE /\ funds \in Int /\ abroad \in Int
  BY MemberAssumption DEF MemberInit
<1>2. pays = <<>> /\ bridges = <<>> /\ paid = 0 /\ 0 \notin Prices
  BY MemberAssumption DEF MemberInit
<1>3. pays \in Seq(Pay) /\ bridges \in Seq(Bridge) BY <1>2
<1>4. /\ tab \in Tab /\ tab.step = "closed" /\ tab.at = "rest" /\ tab.err = "none"
  BY ClosedTab DEF MemberInit
<1>5. MemberTypes BY <1>1, <1>3, <1>4 DEF MemberTypes
<1>6. OneFee BY <1>1, <1>2 DEF OneFee
<1> QED BY <1>4, <1>5, <1>6 DEF MemberInv, DoneIsMember, Attempting, WaitsForOwn, Reverted

\* A step of the app that leaves the contract and the payments alone: what it
\* shows must be true of them.
LEMMA Shows ==
  ASSUME MemberInv, UNCHANGED <<price, joined, pays, paid>>,
         funds' \in Int, abroad' \in Int, bridges' \in Seq(Bridge), tab' \in Tab,
         tab'.step = "done" => joined, Attempting',
         tab'.at = "confirms" => tab'.mine \in DOMAIN pays,
         tab'.err = "reverted" => tab'.mine \in DOMAIN pays /\ pays[tab'.mine].state = "reverted"
  PROVE  MemberInv'
BY DEF MemberInv, MemberTypes, OneFee, DoneIsMember, WaitsForOwn, Reverted

LEMMA Opening ==
  ASSUME MemberInv, OpenApp \/ OpenAppUnread \/ Close
  PROVE  MemberInv'
<1>1. UNCHANGED <<price, joined, funds, abroad, pays, bridges, paid>>
  BY DEF OpenApp, OpenAppUnread, Close, world
<1> DEFINE Opened == /\ tab' \in Tab /\ tab'.step # "done" /\ tab'.err = "none"
                     /\ tab'.at \in {"rest", "reads"}
<1>2. ASSUME OpenApp PROVE Opened
  <2>1. CASE joined
    <3>1. tab' = [NoTab EXCEPT !.step = "claim", !.at = "rest"] BY <1>2, <2>1 DEF OpenApp
    <3> QED BY <3>1, ClosedTab DEF Tab
  <2>2. CASE ~joined
    <3>1. tab' = [NoTab EXCEPT !.step = "check", !.at = "reads"] BY <1>2, <2>2 DEF OpenApp
    <3> QED BY <3>1, ClosedTab DEF Tab
  <2> QED BY <2>1, <2>2
<1>3. ASSUME OpenAppUnread \/ Close PROVE Opened
  <2>1. CASE OpenAppUnread BY <2>1, ClosedTab DEF OpenAppUnread, Tab
  <2>2. CASE Close BY <2>2, ClosedTab DEF Close
  <2> QED BY <1>3, <2>1, <2>2
<1>4. Opened BY <1>2, <1>3
<1> QED BY <1>1, <1>4, Shows DEF MemberInv, MemberTypes, Attempting

LEMMA Refreshing ==
  ASSUME MemberInv, ReadsBalance \/ LooksMember
  PROVE  MemberInv'
<1>1. UNCHANGED <<price, joined, funds, abroad, pays, bridges, paid>>
  BY DEF ReadsBalance, LooksMember, world
<1>2. /\ tab \in Tab /\ price \in Int /\ funds \in Int /\ (tab.step = "done" => joined)
      /\ (tab.err = "reverted" => tab.mine \in DOMAIN pays /\ pays[tab.mine].state = "reverted")
  BY MemberAssumption DEF MemberInv, MemberTypes, DoneIsMember, Reverted
<1>3. CASE ReadsBalance
  <2>1. /\ tab' \in Tab /\ tab'.at \in {"looks", "rest"} /\ tab'.mine = tab.mine
        /\ tab'.err \in {tab.err, "read"} /\ tab'.step \in {tab.step, "pay"}
    BY <1>2, <1>3 DEF ReadsBalance, AfterRefresh, Tab
  <2> QED BY <1>1, <1>2, <2>1, Shows DEF MemberInv, MemberTypes, Attempting
<1>4. CASE LooksMember
  <2>1. /\ tab' \in Tab /\ tab'.at = "rest" /\ tab'.mine = tab.mine
        /\ tab'.err \in {tab.err, "none"} /\ (tab'.step = "done" => joined)
    BY <1>2, <1>4 DEF LooksMember, AfterRefresh, Rests, Tab
  <2> QED BY <1>1, <1>2, <2>1, Shows DEF MemberInv, MemberTypes, Attempting
<1> QED BY <1>3, <1>4

LEMMA Bridging ==
  ASSUME MemberInv, PressBridge \/ SendsBridge \/ WaitsBridge
  PROVE  MemberInv'
<1>1. /\ UNCHANGED <<price, joined, pays, paid>> /\ funds' = funds
  BY DEF PressBridge, SendsBridge, WaitsBridge, world
<1>2. /\ tab \in Tab /\ funds \in Int /\ abroad \in Int /\ bridges \in Seq(Bridge)
      /\ (tab.step = "done" => joined)
  BY DEF MemberInv, MemberTypes, DoneIsMember
<1>3. CASE PressBridge
  <2>1. abroad' = abroad /\ bridges' = bridges BY <1>3 DEF PressBridge, world
  <2>2. /\ tab' \in Tab /\ tab'.at \in {"rest", "quotes"} /\ tab'.step # "done"
        /\ tab'.err \in {"none", "on 0G", "no ETH"} /\ (tab'.at = "quotes" => tab'.err = "none")
    <3>1. tab.step = "bridge" BY <1>3 DEF PressBridge, Offers
    <3>2. CASE tab' = Rests("bridge", "on 0G") BY <1>2, <3>2 DEF Rests, Tab
    <3>3. CASE tab' = Rests("bridge", "no ETH") BY <1>2, <3>3 DEF Rests, Tab
    <3>4. CASE tab' = [tab EXCEPT !.step = "bridging", !.at = "quotes", !.err = "none"]
      BY <1>2, <3>4 DEF Tab
    <3>5. \/ tab' = Rests("bridge", "on 0G") \/ tab' = Rests("bridge", "no ETH")
          \/ tab' = [tab EXCEPT !.step = "bridging", !.at = "quotes", !.err = "none"]
      BY <1>3 DEF PressBridge
    <3> QED BY <3>2, <3>3, <3>4, <3>5
  <2> QED BY <1>1, <1>2, <2>1, <2>2, Shows DEF Attempting
<1>4. CASE SendsBridge
  <2> DEFINE amount == EthNeeded(Target(tab))
  <2>1. amount \in Int
    <3>1. tab.cost \in Int /\ tab.balance \in Int BY <1>2 DEF Tab
    <3>2. (tab.cost - tab.balance) * 145 \in Int BY <3>1
    <3>3. Target(tab) \in Int BY <3>2 DEF Target
    <3>4. Probe \div 4 \in Int /\ (Target(tab) * 112) \div 100 \in Int
      BY <3>3, MemberAssumption
    <3> QED BY <3>4 DEF EthNeeded
  <2>2. CASE /\ abroad' = abroad - amount
             /\ bridges' = Append(bridges, [amount |-> amount, state |-> "pending"])
             /\ tab' = [tab EXCEPT !.at = "waits", !.mine = Len(bridges) + 1]
    <3>1. abroad' \in Int BY <1>2, <2>1, <2>2
    <3>2. [amount |-> amount, state |-> "pending"] \in Bridge BY <2>1 DEF Bridge
    <3>3. bridges' \in Seq(Bridge) BY <1>2, <2>2, <3>2
    <3>4. tab.err = "none" BY <1>4 DEF SendsBridge, MemberInv, Attempting
    <3>5. Len(bridges) + 1 \in Nat BY <1>2
    <3>6. tab' \in Tab /\ tab'.at = "waits" /\ tab'.err = "none" /\ tab'.step = tab.step
      <4> DEFINE m == Len(bridges) + 1
      <4>1. m \in Nat /\ tab' = [tab EXCEPT !.at = "waits", !.mine = m] BY <2>2, <3>5
      <4> HIDE DEF m
      <4> QED BY <1>2, <3>4, <4>1 DEF Tab
    <3> QED BY <1>1, <1>2, <3>1, <3>3, <3>6, Shows DEF Attempting
  <2>3. CASE tab' = Rests("bridge", "refused") /\ UNCHANGED <<abroad, bridges>>
    <3>1. tab' \in Tab /\ tab'.at = "rest" /\ tab'.err = "refused" /\ tab'.step = "bridge"
      BY <1>2, <2>3 DEF Rests, Tab
    <3> QED BY <1>1, <1>2, <2>3, <3>1, Shows DEF Attempting
  <2> QED BY <1>4, <2>2, <2>3 DEF SendsBridge
<1>5. CASE WaitsBridge
  <2>1. abroad' = abroad /\ bridges' = bridges BY <1>5 DEF WaitsBridge, world
  <2>2. /\ tab' \in Tab /\ tab'.at \in {"rest", "reads"} /\ tab'.step \in {"bridge", tab.step}
        /\ tab'.err \in {"bridge failed", "none"}
    BY <1>2, <1>5 DEF WaitsBridge, Rests, Tab
  <2> QED BY <1>1, <1>2, <2>1, <2>2, Shows DEF Attempting
<1> QED BY <1>3, <1>4, <1>5

LEMMA Paying ==
  ASSUME MemberInv, PressPay \/ JoinLooks \/ Confirms
  PROVE  MemberInv'
<1>1. UNCHANGED <<price, joined, funds, abroad, pays, bridges, paid>>
  BY DEF PressPay, JoinLooks, Confirms, world
<1>2. /\ tab \in Tab /\ (tab.step = "done" => joined) /\ Attempting /\ WaitsForOwn
  BY DEF MemberInv, MemberTypes, DoneIsMember
<1>3. CASE PressPay
  <2>1. /\ tab' \in Tab /\ tab'.at \in {"rest", "joins"} /\ tab'.step # "done"
        /\ tab'.err \in {"none", "refused"} /\ (tab'.at = "joins" => tab'.err = "none")
    BY <1>2, <1>3 DEF PressPay, Offers, Rests, Tab
  <2> QED BY <1>1, <2>1, Shows DEF MemberInv, MemberTypes, Attempting
<1>4. CASE JoinLooks
  <2>1. tab.err = "none" BY <1>2, <1>4 DEF JoinLooks, Attempting
  <2>2. /\ tab' \in Tab /\ tab'.at \in {"rest", "prices"} /\ (tab'.step = "done" => joined)
        /\ tab'.err \in {"none", "read"} /\ (tab'.at = "prices" => tab'.err = "none")
    BY <1>2, <1>4, <2>1 DEF JoinLooks, Rests, Tab
  <2> QED BY <1>1, <2>2, Shows DEF MemberInv, MemberTypes, Attempting
<1>5. CASE Confirms
  <2>1. /\ tab' \in Tab /\ tab'.at = "rest" /\ (tab'.step = "done" => joined)
        /\ tab'.mine = tab.mine
        /\ (tab'.err = "reverted" => pays[tab.mine].state = "reverted")
    BY <1>2, <1>5 DEF Confirms, Rests, Tab
  <2>2. tab.mine \in DOMAIN pays BY <1>2, <1>5 DEF Confirms, WaitsForOwn
  <2> QED BY <1>1, <2>1, <2>2, Shows DEF MemberInv, MemberTypes, Attempting
<1> QED BY <1>3, <1>4, <1>5

\* The payment leaves the wallet: the one the tab then waits for.
LEMMA Charging ==
  ASSUME MemberInv, JoinSends
  PROVE  MemberInv'
<1>1. UNCHANGED <<price, joined, funds, abroad, bridges, paid>> BY DEF JoinSends
<1>2. /\ tab \in Tab /\ (tab.step = "done" => joined) /\ tab.err = "none"
      /\ pays \in Seq(Pay) /\ price \in Prices
  BY DEF MemberInv, MemberTypes, DoneIsMember, Attempting, JoinSends
<1>3. CASE /\ pays' = Append(pays, [value |-> price, state |-> "pending"])
           /\ tab' = [tab EXCEPT !.at = "confirms", !.mine = Len(pays) + 1, !.ready = FALSE]
  <2>1. [value |-> price, state |-> "pending"] \in Pay BY <1>2 DEF Pay
  <2>2. pays' \in Seq(Pay) /\ Len(pays) + 1 \in DOMAIN pays' BY <1>2, <1>3, <2>1
  <2>3. /\ tab' \in Tab /\ tab'.at = "confirms" /\ tab'.mine = Len(pays) + 1
        /\ tab'.step = tab.step /\ tab'.err = "none"
    <3> DEFINE m == Len(pays) + 1
    <3>1. m \in Nat BY <1>2
    <3>2. tab' = [tab EXCEPT !.at = "confirms", !.mine = m, !.ready = FALSE] BY <1>3
    <3> HIDE DEF m
    <3>3. tab' \in Tab /\ tab'.at = "confirms" /\ tab'.mine = m /\ tab'.step = tab.step
          /\ tab'.err = "none"
      BY <1>2, <3>1, <3>2 DEF Tab
    <3> QED BY <3>3 DEF m
  <2> QED BY <1>1, <1>2, <2>2, <2>3
        DEF MemberInv, MemberTypes, OneFee, DoneIsMember, Attempting, WaitsForOwn, Reverted
<1>4. CASE /\ tab' = Rests("pay", IF funds < price THEN "not enough" ELSE "refused")
           /\ UNCHANGED pays
  <2>1. /\ tab' \in Tab /\ tab'.at = "rest" /\ tab'.step = "pay"
        /\ tab'.err \in {"not enough", "refused"}
    BY <1>2, <1>4 DEF Rests, Tab
  <2> QED BY <1>1, <1>4, <2>1, Shows DEF MemberInv, MemberTypes, Attempting
<1> QED BY <1>3, <1>4 DEF JoinSends

\* The contract takes the first fee that suffices and no other.
LEMMA Mining ==
  ASSUME MemberInv, NEW n \in DOMAIN pays, Mine(n) \/ Drop(n)
  PROVE  MemberInv'
<1>1. /\ pays \in Seq(Pay) /\ pays[n] \in Pay /\ price \in Prices /\ funds \in Int
      /\ joined \in BOOLEAN /\ Gas \in Int /\ Prices \subseteq Nat \ {0}
  BY MemberAssumption DEF MemberInv, MemberTypes
<1>2. pays[n].state = "pending" /\ UNCHANGED <<price, abroad, bridges, tab>>
  BY DEF Mine, Drop
<1>3. PICK s \in {"mined", "reverted", "dropped"} : pays' = [pays EXCEPT ![n].state = s]
  BY DEF Mine, Drop
<1>4. /\ pays' \in Seq(Pay) /\ DOMAIN pays' = DOMAIN pays
      /\ \A i \in DOMAIN pays \ {n} : pays'[i] = pays[i]
  BY <1>1, <1>3 DEF Pay
<1>5. pays[n].value \in Prices /\ pays[n].value \in Int
  <2>1. pays[n].value \in Prices BY <1>1 DEF Pay
  <2>2. Prices \subseteq Int BY <1>1
  <2> QED BY <2>1, <2>2
<1>6. /\ funds' \in Int /\ joined' \in BOOLEAN /\ OneFee' /\ (joined => joined')
  <2>1. CASE Drop(n) BY <1>1, <2>1 DEF Drop, MemberInv, OneFee
  <2>2. CASE Mine(n) /\ ~Joins(n)
    <3>1. funds' = funds - Gas - 0 /\ paid' = paid + 0 /\ joined' = joined
      BY <1>1, <2>2 DEF Mine
    <3>2. paid \in Nat BY <1>1 DEF MemberInv, OneFee
    <3> QED BY <1>1, <3>1, <3>2 DEF MemberInv, OneFee
  <2>3. CASE Mine(n) /\ Joins(n)
    <3>1. ~joined /\ paid = 0 BY <2>3 DEF Joins, MemberInv, OneFee
    <3>2. /\ funds' = funds - Gas - pays[n].value /\ paid' = paid + pays[n].value
          /\ joined' = TRUE
      BY <1>1, <2>3 DEF Mine
    <3>3. paid' = pays[n].value /\ paid' # 0 BY <1>1, <1>5, <3>1, <3>2
    <3> QED BY <1>1, <1>5, <3>1, <3>2, <3>3 DEF OneFee
  <2> QED BY <2>1, <2>2, <2>3
<1>7. Reverted'
  BY <1>2, <1>4 DEF MemberInv, Reverted
<1> QED BY <1>1, <1>2, <1>4, <1>6, <1>7
      DEF MemberInv, MemberTypes, DoneIsMember, Attempting, WaitsForOwn

LEMMA BridgeEnds ==
  ASSUME MemberInv, NEW n \in DOMAIN bridges, Credit(n) \/ Refund(n)
  PROVE  MemberInv'
<1>1. UNCHANGED <<price, joined, pays, paid, tab>> BY DEF Credit, Refund
<1>2. /\ bridges \in Seq(Bridge) /\ bridges[n] \in Bridge /\ funds \in Int /\ abroad \in Int
      /\ Slip \in Int
  BY MemberAssumption DEF MemberInv, MemberTypes
<1>3. bridges[n].amount \in Int BY <1>2 DEF Bridge
<1>4. PICK s \in {"done", "failed"} : bridges' = [bridges EXCEPT ![n].state = s]
  BY DEF Credit, Refund
<1>5. bridges' \in Seq(Bridge) BY <1>2, <1>4 DEF Bridge
<1>6. funds' \in Int
  <2>1. (bridges[n].amount * Slip) \div 100 \in Int BY <1>2, <1>3
  <2>2. \A got \in Delivers(bridges[n].amount) : got \in Int BY <1>3, <2>1 DEF Delivers
  <2> QED BY <1>2, <2>2 DEF Credit, Refund
<1>7. abroad' \in Int BY <1>2, <1>3 DEF Credit, Refund
<1> QED BY <1>1, <1>5, <1>6, <1>7, Shows
      DEF MemberInv, MemberTypes, DoneIsMember, WaitsForOwn, Reverted, Attempting

LEMMA Around ==
  ASSUME MemberInv, SwitchChain \/ \E p \in Prices : SetPrice(p)
  PROVE  MemberInv'
<1>1. UNCHANGED <<joined, funds, abroad, pays, bridges, paid>> /\ price' \in Prices
  BY DEF SwitchChain, SetPrice, world, MemberInv, MemberTypes
<1>2. tab \in Tab BY DEF MemberInv, MemberTypes
<1>3. tab' = tab \/ tab' = [tab EXCEPT !.ready = FALSE] BY DEF SwitchChain, SetPrice
<1>4. /\ tab' \in Tab /\ tab'.step = tab.step /\ tab'.at = tab.at /\ tab'.mine = tab.mine
      /\ tab'.err = tab.err
  BY <1>2, <1>3 DEF Tab
<1> QED BY <1>1, <1>4
      DEF MemberInv, MemberTypes, OneFee, DoneIsMember, Attempting, WaitsForOwn, Reverted

LEMMA MemberStep == MemberInv /\ [MemberNext]_memberVars => MemberInv'
<1> SUFFICES ASSUME MemberInv, [MemberNext]_memberVars PROVE MemberInv' OBVIOUS
<1>1. CASE UNCHANGED memberVars
  BY <1>1 DEF memberVars, MemberInv, MemberTypes, OneFee, DoneIsMember, Attempting,
              WaitsForOwn, Reverted
<1>2. CASE MemberNext
  BY <1>2, Opening, Refreshing, Bridging, Paying, Charging, Mining, BridgeEnds, Around
     DEF MemberNext
<1> QED BY <1>1, <1>2

-----------------------------------------------------------------------------

\* However often the person pays, reloads or is told that nothing arrived, one
\* fee at most is taken, and exactly when it makes a member.
THEOREM FeeIsPaidOnce == MemberSpec => []OneFee
<1>1. MemberInv => OneFee BY DEF MemberInv
<1> QED BY MemberInitially, MemberStep, <1>1, PTL DEF MemberSpec

\* "You are a member" is said of members only, and "reverted" of a payment that
\* the contract refused.
THEOREM AppIsHonest == MemberSpec => [](DoneIsMember /\ RevertIsReal)
<1>1. MemberInv => DoneIsMember /\ RevertIsReal
  BY DEF MemberInv, Reverted, RevertIsReal
<1> QED BY MemberInitially, MemberStep, <1>1, PTL DEF MemberSpec

-----------------------------------------------------------------------------
(***************************************************************************)
(* The bridge: what it brings is measured against the balance that was     *)
(* read; while nothing was paid the wallet never holds less than that.     *)
(***************************************************************************)

\* The figures suffice: whatever is missing, the amount that is sent for it is
\* delivered with the gas of a payment to spare, at the worst slippage too.
Headroom ==
  \A c \in Prices : \A b \in 0..(c - 1) :
    \A got \in Delivers(EthNeeded(((c - b) * 145) \div 100)) : got >= (c - b) + Gas

Wealth ==
  /\ funds \in Nat /\ tab.balance \in Nat
  /\ \A n \in DOMAIN bridges : bridges[n].amount \in Nat
  /\ pays = <<>> => funds >= tab.balance
\* The bridge is offered, and asked, for what is missing to a fee.
Short(t) == t.cost \in Prices /\ t.balance < t.cost
Asks ==
  /\ tab.at \in {"reads", "quotes", "waits"} => tab.step # "bridge"
  /\ tab.at = "looks" => tab.cost \in Prices
  /\ (tab.at = "rest" /\ tab.step = "bridge") \/ tab.at \in {"quotes", "waits"} => Short(tab)
\* Who waits for a bridge waits for the amount that was asked for.
Fetches ==
  tab.at = "waits" =>
    /\ tab.mine \in DOMAIN bridges
    /\ bridges[tab.mine].amount = EthNeeded(((tab.cost - tab.balance) * 145) \div 100)
    /\ bridges[tab.mine].state = "done" /\ pays = <<>> => funds >= tab.cost + Gas
Ready == tab.ready => pays = <<>> /\ funds >= price + Gas

BridgeInv == Wealth /\ Asks /\ Fetches /\ Ready

LEMMA TabParts ==
  ASSUME tab \in Tab
  PROVE  /\ \A s, e : LET t == Rests(s, e) IN
              /\ t.step = s /\ t.at = "rest" /\ t.balance = tab.balance /\ t.cost = tab.cost /\ t.ready = tab.ready
         /\ tab.balance \in Int /\ tab.cost \in Int /\ tab.mine \in Nat /\ tab.ready \in BOOLEAN
BY DEF Rests, Tab

LEMMA NoTabParts == NoTab.balance = 0 /\ NoTab.ready = FALSE /\ NoTab.at = "rest" /\ NoTab.step = "closed"
BY DEF NoTab

LEMMA AmountsAreNat == \A want \in Int : EthNeeded(want) \in Nat
<1> SUFFICES ASSUME NEW want \in Int PROVE EthNeeded(want) \in Nat OBVIOUS
<1>1. Probe \div 4 \in Nat /\ (want * 112) \div 100 \in Int BY MemberAssumption
<1> QED BY <1>1 DEF EthNeeded

LEMMA DeliveredIsNat == \A amount \in Nat : \A got \in Delivers(amount) : got \in Nat
<1> SUFFICES ASSUME NEW amount \in Nat PROVE (amount * Slip) \div 100 \in Nat BY DEF Delivers
<1>1. Slip \in Nat BY MemberAssumption
<1>2. amount * Slip \in Nat BY <1>1
<1> QED BY <1>2

LEMMA BridgeInitially == MemberInit => BridgeInv
<1> SUFFICES ASSUME MemberInit PROVE BridgeInv OBVIOUS
<1>1. tab = NoTab /\ bridges = <<>> /\ funds \in Nat BY MemberAssumption DEF MemberInit
<1>2. DOMAIN bridges = {} BY <1>1
<1> QED BY <1>1, <1>2, NoTabParts DEF BridgeInv, Wealth, Asks, Fetches, Ready

\* A step of the tab that waits for no bridge and promises nothing new.
LEMMA Calm ==
  ASSUME BridgeInv, UNCHANGED <<price, funds, pays, bridges>>,
         tab'.balance = tab.balance \/ tab'.balance = 0 \/ tab'.balance = funds,
         tab'.ready => tab.ready,
         tab'.at # "waits",
         tab'.at \in {"reads", "quotes"} => tab'.step # "bridge",
         tab'.at = "looks" => tab'.cost \in Prices,
         (tab'.at = "rest" /\ tab'.step = "bridge") \/ tab'.at = "quotes" => tab'.cost \in Prices /\ tab'.balance < tab'.cost
  PROVE  BridgeInv'
<1>1. Wealth /\ Ready BY DEF BridgeInv
<1>2. Wealth' BY <1>1 DEF Wealth
<1>3. Asks' BY DEF Asks, Short
<1>4. Fetches' BY DEF Fetches
<1>5. Ready' BY <1>1 DEF Ready
<1> QED BY <1>2, <1>3, <1>4, <1>5 DEF BridgeInv

LEMMA BridgeTab ==
  ASSUME MemberInv, BridgeInv,
         \/ OpenApp \/ OpenAppUnread \/ Close \/ ReadsBalance \/ LooksMember \/ PressBridge
         \/ PressPay \/ JoinLooks \/ Confirms
  PROVE  BridgeInv'
<1>1. tab \in Tab /\ price \in Prices BY DEF MemberInv, MemberTypes
<1>2. Asks BY DEF BridgeInv
<1>3. UNCHANGED <<price, funds, pays, bridges>>
  BY DEF OpenApp, OpenAppUnread, Close, ReadsBalance, LooksMember, PressBridge, PressPay, JoinLooks, Confirms, world
<1>4. CASE OpenApp
  <2>1. PICK s \in {"claim", "check"}, a \in {"rest", "reads"} : tab' = [NoTab EXCEPT !.step = s, !.at = a]
    BY <1>4 DEF OpenApp
  <2>2. tab'.step = s /\ tab'.at = a /\ tab'.balance = 0 /\ tab'.ready = FALSE BY <2>1 DEF NoTab
  <2> QED BY <1>3, <2>2, Calm
<1>5. CASE OpenAppUnread \/ Close
  <2>1. tab' = NoTab \/ tab' = [NoTab EXCEPT !.step = "claim"] BY <1>5 DEF OpenAppUnread, Close
  <2>2. tab'.step # "bridge" /\ tab'.at = "rest" /\ tab'.balance = 0 /\ tab'.ready = FALSE BY <2>1 DEF NoTab
  <2> QED BY <1>3, <2>2, Calm
<1>6. CASE ReadsBalance
  <2>1. tab.at = "reads" /\ tab.step # "bridge" BY <1>2, <1>6 DEF ReadsBalance, Asks
  <2>2. CASE tab' = [tab EXCEPT !.at = "looks", !.balance = funds, !.cost = price]
    <3>1. tab'.at = "looks" /\ tab'.balance = funds /\ tab'.cost = price /\ tab'.ready = tab.ready
      BY <1>1, <2>2 DEF Tab
    <3> QED BY <1>1, <1>3, <3>1, Calm
  <2>3. CASE tab' = AfterRefresh([tab EXCEPT !.err = "read"], tab.step)
    <3>1. tab'.at = "rest" /\ tab'.step # "bridge" /\ tab'.balance = tab.balance /\ tab'.ready = tab.ready
      BY <1>1, <2>1, <2>3 DEF Tab, AfterRefresh
    <3> QED BY <1>3, <3>1, Calm
  <2> QED BY <1>6, <2>2, <2>3 DEF ReadsBalance
<1>7. CASE LooksMember
  <2>1. tab.at = "looks" /\ tab.cost \in Prices BY <1>2, <1>7 DEF LooksMember, Asks
  <2>2. CASE tab' = Rests("done", "none")
    <3>1. tab'.at = "rest" /\ tab'.step = "done" /\ tab'.balance = tab.balance /\ tab'.ready = tab.ready
      BY <1>1, <2>2, TabParts
    <3> QED BY <1>3, <3>1, Calm
  <2>3. CASE tab' = AfterRefresh(tab, IF tab.balance >= tab.cost THEN "pay" ELSE "bridge")
    <3>1. /\ tab'.at = "rest" /\ tab'.balance = tab.balance /\ tab'.ready = tab.ready /\ tab'.cost = tab.cost
          /\ tab'.step = "bridge" => ~(tab.balance >= tab.cost)
      BY <1>1, <2>3 DEF Tab, AfterRefresh
    <3>2. tab.balance \in Int /\ tab.cost \in Int BY <1>1, TabParts
    <3> QED BY <1>3, <2>1, <3>1, <3>2, Calm
  <2> QED BY <1>7, <2>2, <2>3 DEF LooksMember
<1>8. CASE PressBridge
  <2>1. tab.cost \in Prices /\ tab.balance < tab.cost BY <1>2, <1>8 DEF PressBridge, Offers, Asks, Short
  <2>2. \/ \E e : tab' = Rests("bridge", e)
        \/ tab' = [tab EXCEPT !.step = "bridging", !.at = "quotes", !.err = "none"]
    BY <1>8 DEF PressBridge
  <2>3. /\ tab'.at \in {"rest", "quotes"} /\ tab'.balance = tab.balance /\ tab'.ready = tab.ready /\ tab'.cost = tab.cost
        /\ tab'.at = "quotes" => tab'.step = "bridging"
    <3>1. ASSUME NEW e, tab' = Rests("bridge", e)
          PROVE  tab'.at = "rest" /\ tab'.balance = tab.balance /\ tab'.ready = tab.ready /\ tab'.cost = tab.cost
      BY <1>1, <3>1, TabParts
    <3>2. CASE tab' = [tab EXCEPT !.step = "bridging", !.at = "quotes", !.err = "none"] BY <1>1, <3>2 DEF Tab
    <3> QED BY <2>2, <3>1, <3>2
  <2> QED BY <1>3, <2>1, <2>3, Calm
<1>9. CASE PressPay \/ JoinLooks \/ Confirms
  <2>1. /\ tab'.at \in {"rest", "joins", "prices"} /\ (tab'.at = "rest" => tab'.step # "bridge")
        /\ tab'.balance = tab.balance /\ tab'.ready = tab.ready
    <3>1. ASSUME NEW s \in {"pay", "done"}, NEW e, tab' = Rests(s, e)
          PROVE  tab'.at = "rest" /\ tab'.step # "bridge" /\ tab'.balance = tab.balance /\ tab'.ready = tab.ready
      BY <1>1, <3>1, TabParts
    <3>2. CASE tab' = [tab EXCEPT !.step = "paying", !.at = "joins", !.err = "none"] BY <1>1, <3>2 DEF Tab
    <3>3. CASE tab' = [tab EXCEPT !.at = "prices"] BY <1>1, <3>3 DEF Tab
    <3>4. \/ \E s \in {"pay", "done"}, e \in {"none", "read", "refused", "reverted", "unconfirmed"} : tab' = Rests(s, e)
          \/ tab' = [tab EXCEPT !.step = "paying", !.at = "joins", !.err = "none"]
          \/ tab' = [tab EXCEPT !.at = "prices"]
      BY <1>9 DEF PressPay, JoinLooks, Confirms
    <3> QED BY <3>1, <3>2, <3>3, <3>4
  <2> QED BY <1>3, <2>1, Calm
<1> QED BY <1>4, <1>5, <1>6, <1>7, <1>8, <1>9

LEMMA BridgeWaits ==
  ASSUME MemberInv, BridgeInv, SendsBridge \/ WaitsBridge PROVE BridgeInv'
<1>1. tab \in Tab /\ price \in Prices /\ bridges \in Seq(Bridge) /\ Prices \subseteq Nat
  BY MemberAssumption DEF MemberInv, MemberTypes
<1>2. Wealth /\ Asks /\ Fetches /\ Ready BY DEF BridgeInv
<1>3. /\ UNCHANGED <<price, funds, pays>> /\ tab.at \in {"quotes", "waits"}
      /\ tab.cost \in Prices /\ tab.balance < tab.cost
  BY <1>2 DEF SendsBridge, WaitsBridge, world, Asks, Short
<1>4. ASSUME NEW e, tab' = Rests("bridge", e), bridges' = bridges PROVE BridgeInv'
  <2>1. /\ tab'.at = "rest" /\ tab'.balance = tab.balance /\ tab'.ready = tab.ready /\ tab'.cost = tab.cost
    BY <1>1, <1>4, TabParts
  <2> QED BY <1>3, <1>4, <2>1, Calm
<1>5. CASE SendsBridge
  <2> DEFINE amount == EthNeeded(Target(tab))
             k == Len(bridges) + 1
  <2>1. CASE /\ bridges' = Append(bridges, [amount |-> amount, state |-> "pending"])
             /\ tab' = [tab EXCEPT !.at = "waits", !.mine = k]
    <3>1. /\ tab'.at = "waits" /\ tab'.mine = k /\ tab'.balance = tab.balance /\ tab'.cost = tab.cost
          /\ tab'.ready = tab.ready /\ tab'.step = tab.step
      BY <1>1, <2>1 DEF Tab
    <3>2. tab.cost \in Int /\ tab.balance \in Int BY <1>1, TabParts
    <3>3. amount = EthNeeded(((tab.cost - tab.balance) * 145) \div 100) BY DEF Target
    <3>4. amount \in Nat
      <4>1. ((tab.cost - tab.balance) * 145) \div 100 \in Int BY <3>2
      <4> QED BY <3>3, <4>1, AmountsAreNat
    <3> HIDE DEF amount
    <3>5. /\ DOMAIN bridges' = DOMAIN bridges \cup {k} /\ k \notin DOMAIN bridges
          /\ bridges'[k] = [amount |-> amount, state |-> "pending"]
          /\ \A n \in DOMAIN bridges : bridges'[n] = bridges[n]
      BY <1>1, <2>1
    <3> HIDE DEF k
    <3>6. bridges'[k].amount = amount /\ bridges'[k].state = "pending" BY <3>5
    <3>7. Wealth' BY <1>2, <1>3, <3>1, <3>4, <3>5, <3>6 DEF Wealth
    <3>8. Asks' BY <1>2, <1>3, <3>1 DEF Asks, Short
    <3>9. Fetches' BY <3>1, <3>3, <3>5, <3>6 DEF Fetches
    <3>10. Ready' BY <1>2, <1>3, <3>1 DEF Ready
    <3> QED BY <3>7, <3>8, <3>9, <3>10 DEF BridgeInv
  <2> QED BY <1>4, <1>5, <2>1 DEF SendsBridge
<1>6. CASE WaitsBridge
  <2>1. bridges' = bridges /\ tab.at = "waits" BY <1>6 DEF WaitsBridge, world
  <2> DEFINE r == bridges[tab.mine].state = "done" /\ price = tab.cost /\ pays = <<>>
  <2>2. CASE tab' = [tab EXCEPT !.at = "reads", !.err = "none", !.bridged = TRUE, !.ready = r]
    <3>1. r \in BOOLEAN OBVIOUS
    <3>2. r => pays = <<>> /\ funds >= price + Gas BY <1>2, <2>1 DEF Fetches
    <3>3. tab.step # "bridge"
      BY <1>2, <2>1 DEF Asks
    <3> HIDE DEF r
    <3>4. tab'.at = "reads" /\ tab'.step = tab.step /\ tab'.balance = tab.balance /\ tab'.cost = tab.cost /\ tab'.ready = r
      BY <1>1, <2>2, <3>1 DEF Tab
    <3>5. Wealth' BY <1>2, <1>3, <2>1, <3>4 DEF Wealth
    <3>6. Asks' BY <3>3, <3>4 DEF Asks
    <3>7. Fetches' BY <3>4 DEF Fetches
    <3>8. Ready' BY <1>3, <3>2, <3>4 DEF Ready
    <3> QED BY <3>5, <3>6, <3>7, <3>8 DEF BridgeInv
  <2> QED BY <1>4, <1>6, <2>1, <2>2 DEF WaitsBridge
<1> QED BY <1>5, <1>6

LEMMA BridgePays ==
  ASSUME MemberInv, BridgeInv,
         \/ JoinSends \/ SwitchChain \/ (\E p \in Prices : SetPrice(p))
         \/ \E n \in DOMAIN pays : Mine(n) \/ Drop(n)
  PROVE  BridgeInv'
<1>1. tab \in Tab /\ price \in Prices /\ pays \in Seq(Pay) /\ Prices \subseteq Nat /\ Gas \in Nat
  BY MemberAssumption DEF MemberInv, MemberTypes
<1>2. Wealth /\ Asks /\ Fetches /\ Ready BY DEF BridgeInv
<1>3. CASE SwitchChain
  <2>1. UNCHANGED <<price, funds, pays, bridges, tab>> BY <1>3 DEF SwitchChain, world
  <2> QED BY <1>2, <2>1 DEF BridgeInv, Wealth, Asks, Short, Fetches, Ready
<1>4. ASSUME NEW p \in Prices, SetPrice(p) PROVE BridgeInv'
  <2>1. UNCHANGED <<funds, pays, bridges>> /\ tab' = [tab EXCEPT !.ready = FALSE] BY <1>4 DEF SetPrice
  <2>2. /\ tab'.ready = FALSE /\ tab'.at = tab.at /\ tab'.step = tab.step /\ tab'.mine = tab.mine
        /\ tab'.balance = tab.balance /\ tab'.cost = tab.cost
    BY <1>1, <2>1 DEF Tab
  <2> QED BY <1>2, <2>1, <2>2 DEF BridgeInv, Wealth, Asks, Short, Fetches, Ready
<1>5. CASE JoinSends
  <2>1. CASE UNCHANGED pays
    <3>1. UNCHANGED <<price, funds, pays, bridges>> /\ \E e : tab' = Rests("pay", e)
      <4>1. pays # Append(pays, [value |-> price, state |-> "pending"]) BY <1>1
      <4> QED BY <1>5, <2>1, <4>1 DEF JoinSends
    <3>2. tab'.at = "rest" /\ tab'.step = "pay" /\ tab'.balance = tab.balance /\ tab'.ready = tab.ready
      BY <1>1, <3>1, TabParts
    <3> QED BY <3>1, <3>2, Calm
  <2>2. CASE /\ pays' = Append(pays, [value |-> price, state |-> "pending"])
             /\ tab' = [tab EXCEPT !.at = "confirms", !.mine = Len(pays) + 1, !.ready = FALSE]
    <3>1. tab'.at = "confirms" /\ tab'.ready = FALSE /\ tab'.balance = tab.balance BY <1>1, <2>2 DEF Tab
    <3>2. pays' # <<>> BY <1>1, <2>2
    <3>3. UNCHANGED <<price, funds, bridges>> BY <1>5 DEF JoinSends
    <3> QED BY <1>2, <3>1, <3>2, <3>3 DEF BridgeInv, Wealth, Asks, Short, Fetches, Ready
  <2> QED BY <1>5, <2>1, <2>2 DEF JoinSends
<1>6. ASSUME NEW n \in DOMAIN pays, Mine(n) \/ Drop(n) PROVE BridgeInv'
  <2>1. UNCHANGED <<price, bridges, tab>> BY <1>6 DEF Mine, Drop
  <2>2. pays # <<>> /\ DOMAIN pays' = DOMAIN pays BY <1>1, <1>6 DEF Mine, Drop
  <2>3. pays' # <<>> BY <2>2
  <2>4. pays[n].value \in Nat
    <3>1. pays[n] \in Pay BY <1>1
    <3>2. pays[n].value \in Prices BY <3>1 DEF Pay
    <3> QED BY <1>1, <3>2
  <2>5. funds \in Nat BY <1>2 DEF Wealth
  <2>6. funds' \in Nat
    <3>1. CASE Drop(n) BY <2>5, <3>1 DEF Drop
    <3>2. CASE Mine(n)
      <4>1. /\ funds >= pays[n].value + Gas
            /\ funds' = funds - Gas - (IF Joins(n) THEN pays[n].value ELSE 0)
        BY <3>2 DEF Mine
      <4>2. (IF Joins(n) THEN pays[n].value ELSE 0) \in {0, pays[n].value} OBVIOUS
      <4> QED BY <1>1, <2>4, <2>5, <4>1, <4>2
    <3> QED BY <1>6, <3>1, <3>2
  <2> QED BY <1>2, <2>1, <2>2, <2>3, <2>6 DEF BridgeInv, Wealth, Asks, Short, Fetches, Ready
<1> QED BY <1>3, <1>4, <1>5, <1>6

LEMMA BridgeLands ==
  ASSUME Headroom, MemberInv, BridgeInv, NEW n \in DOMAIN bridges, Credit(n) \/ Refund(n) PROVE BridgeInv'
<1>1. /\ tab \in Tab /\ price \in Prices /\ bridges \in Seq(Bridge) /\ Prices \subseteq Nat /\ Gas \in Nat
  BY MemberAssumption DEF MemberInv, MemberTypes
<1>2. Wealth /\ Asks /\ Fetches /\ Ready BY DEF BridgeInv
<1>3. UNCHANGED <<price, pays, tab>> /\ bridges[n].state = "pending" BY DEF Credit, Refund
<1>4. PICK s \in {"done", "failed"} :
          /\ bridges' = [bridges EXCEPT ![n].state = s]
          /\ s = "done" => \E got \in Delivers(bridges[n].amount) : funds' = funds + got
          /\ s = "failed" => funds' = funds
  <2>1. CASE Credit(n) BY <2>1 DEF Credit
  <2>2. CASE Refund(n) BY <2>2 DEF Refund
  <2> QED BY <2>1, <2>2
<1>5. DOMAIN bridges' = DOMAIN bridges BY <1>4
<1>6. /\ bridges'[n].amount = bridges[n].amount /\ bridges'[n].state = s
      /\ \A m \in DOMAIN bridges : m # n => bridges'[m] = bridges[m]
  <2>1. bridges[n] \in Bridge BY <1>1
  <2>2. bridges'[n] = [bridges[n] EXCEPT !.state = s] BY <1>1, <1>4
  <2>3. \A m \in DOMAIN bridges : m # n => bridges'[m] = bridges[m] BY <1>1, <1>4
  <2> QED BY <2>1, <2>2, <2>3 DEF Bridge
<1>7. PICK got \in Delivers(bridges[n].amount) \cup {0} :
          funds' = funds + got /\ (s = "done" => got \in Delivers(bridges[n].amount))
  <2>1. CASE s = "done" BY <1>4, <2>1
  <2>2. CASE s = "failed"
    <3>1. funds' = funds + 0 BY <1>2, <1>4, <2>2 DEF Wealth
    <3> QED BY <2>2, <3>1
  <2> QED BY <2>1, <2>2
<1>8. got \in Nat /\ funds' \in Nat /\ funds' >= funds
  <2>1. got \in Nat BY <1>2, <1>7, DeliveredIsNat DEF Wealth
  <2> QED BY <1>2, <1>7, <2>1 DEF Wealth
<1>9. Wealth'
  <2>1. \A m \in DOMAIN bridges : bridges'[m].amount \in Nat BY <1>2, <1>6 DEF Wealth
  <2>2. pays = <<>> => funds' >= tab.balance BY <1>2, <1>8 DEF Wealth
  <2> QED BY <1>2, <1>3, <1>5, <1>8, <2>1, <2>2 DEF Wealth
<1>10. Asks' BY <1>2, <1>3 DEF Asks, Short
<1>11. Ready'
  <2>1. price + Gas \in Nat BY <1>1
  <2> QED BY <1>2, <1>3, <1>8, <2>1 DEF Ready, Wealth
<1>12. Fetches'
  <2> SUFFICES ASSUME tab.at = "waits"
               PROVE  /\ tab.mine \in DOMAIN bridges
                      /\ bridges'[tab.mine].amount = EthNeeded(((tab.cost - tab.balance) * 145) \div 100)
                      /\ bridges'[tab.mine].state = "done" /\ pays = <<>> => funds' >= tab.cost + Gas
    BY <1>3, <1>5 DEF Fetches
  <2>1. /\ tab.mine \in DOMAIN bridges
        /\ bridges[tab.mine].amount = EthNeeded(((tab.cost - tab.balance) * 145) \div 100)
        /\ bridges[tab.mine].state = "done" /\ pays = <<>> => funds >= tab.cost + Gas
    BY <1>2 DEF Fetches
  <2>2. tab.cost \in Prices /\ tab.balance < tab.cost /\ tab.balance \in Nat /\ tab.cost \in Nat
    BY <1>1, <1>2 DEF Asks, Short, Wealth
  <2>3. CASE tab.mine # n BY <1>2, <1>6, <1>8, <1>1, <2>1, <2>2, <2>3 DEF Wealth
  <2>4. CASE tab.mine = n
    <3>1. ASSUME s = "done", pays = <<>> PROVE funds' >= tab.cost + Gas
      <4>1. got \in Delivers(EthNeeded(((tab.cost - tab.balance) * 145) \div 100)) BY <1>4, <1>7, <2>1, <2>4, <3>1
      <4>2. tab.balance \in 0..(tab.cost - 1) BY <2>2
      <4>3. got >= (tab.cost - tab.balance) + Gas BY <2>2, <4>1, <4>2 DEF Headroom
      <4>4. funds >= tab.balance BY <1>2, <3>1 DEF Wealth
      <4> QED BY <1>1, <1>2, <1>7, <1>8, <2>2, <4>3, <4>4 DEF Wealth
    <3> QED BY <1>6, <2>1, <2>4, <3>1
  <2> QED BY <2>3, <2>4
<1> QED BY <1>9, <1>10, <1>11, <1>12 DEF BridgeInv

LEMMA BridgeStep ==
  Headroom /\ MemberInv /\ BridgeInv /\ [MemberNext]_memberVars => BridgeInv'
<1> SUFFICES ASSUME Headroom, MemberInv, BridgeInv, [MemberNext]_memberVars PROVE BridgeInv' OBVIOUS
<1>1. CASE UNCHANGED memberVars
  <2>1. UNCHANGED <<price, funds, pays, bridges, tab>> BY <1>1 DEF memberVars
  <2> QED BY <2>1 DEF BridgeInv, Wealth, Asks, Short, Fetches, Ready
<1>2. CASE MemberNext BY <1>2, BridgeTab, BridgeWaits, BridgePays, BridgeLands DEF MemberNext
<1> QED BY <1>1, <1>2

LEMMA BridgeTells == ASSUME BridgeInv PROVE BridgedIsEnough
BY DEF BridgeInv, Ready, BridgedIsEnough

-----------------------------------------------------------------------------
(***************************************************************************)
(* The membership's way to the extension: only tokens that were paid for   *)
(* are ever on it, and an answer follows a token that was stored.          *)
(***************************************************************************)

PaidTokens ==
  /\ burned \subseteq Owners
  /\ keptToken # NoMember => keptToken \in burned
  /\ extToken # NoMember => extToken \in burned
  /\ postings \in Seq(burned) /\ storing \in Seq(burned)

AnswersFollow == oks \in Nat /\ (oks > 0 \/ verdict = "unlocked" => extToken # NoMember)

UnlockInv == PaidTokens /\ AnswersFollow

LEMMA UnlockInitially == UnlockInit => UnlockInv
BY DEF UnlockInit, UnlockInv, PaidTokens, AnswersFollow

LEMMA DeliversPaid ==
  ASSUME UnlockInv, NEW token \in burned', burned \subseteq burned', burned' \subseteq Owners,
         Deliver(token), UNCHANGED <<extToken, storing, oks>>,
         verdict' = "unlocked" => verdict = "unlocked"
  PROVE  UnlockInv'
<1>1. postings' \in Seq(burned') /\ storing' \in Seq(burned')
  BY DEF UnlockInv, PaidTokens, Deliver
<1> QED BY <1>1 DEF UnlockInv, PaidTokens, AnswersFollow, Deliver

LEMMA UnlockStep == ASSUME UnlockInv, UnlockNext PROVE UnlockInv'
<1> USE UnlockAssumption
<1>1. ASSUME NEW p \in Owners, Load(p) PROVE UnlockInv'
  <2>1. /\ postings' = IF keptToken # NoMember /\ HasHandle(p) THEN <<keptToken>> ELSE <<>>
        /\ oks' = 0 /\ storing' = <<>> /\ verdict' = "none"
        /\ UNCHANGED <<burned, keptToken, extToken>>
    BY <1>1 DEF Load
  <2>2. postings' \in Seq(burned) BY <2>1 DEF UnlockInv, PaidTokens
  <2> QED BY <2>1, <2>2 DEF UnlockInv, PaidTokens, AnswersFollow
<1>2. CASE Claim
  <2>1. /\ burned' = burned \cup {viewer} /\ viewer \in Owners
        /\ UNCHANGED <<verdict, oks, extToken, storing>>
    BY <1>2 DEF Claim, buttonVars, scriptVars
  <2>2. CASE Deliver(viewer)
    BY <2>1, <2>2, DeliversPaid DEF UnlockInv, PaidTokens
  <2>3. CASE UNCHANGED <<keptToken, postings>>
    <3>1. postings' \in Seq(burned') /\ storing' \in Seq(burned')
      BY <2>1, <2>3 DEF UnlockInv, PaidTokens
    <3> QED BY <2>1, <2>3, <3>1 DEF UnlockInv, PaidTokens, AnswersFollow
  <2> QED BY <1>2, <2>2, <2>3 DEF Claim
<1>3. CASE Click
  <2>1. UNCHANGED <<burned, oks, extToken, storing>> /\ verdict' = "none"
    BY <1>3 DEF Click, scriptVars
  <2>2. CASE keptToken # NoMember
    BY <1>3, <2>1, <2>2, DeliversPaid DEF Click, UnlockInv, PaidTokens
  <2>3. CASE keptToken = NoMember
    BY <1>3, <2>1, <2>3 DEF Click, UnlockInv, PaidTokens, AnswersFollow
  <2> QED BY <2>2, <2>3
<1>4. CASE Issues
  <2>1. UNCHANGED <<burned, oks, extToken, storing, verdict>> /\ viewer \in burned /\ Deliver(viewer)
    BY <1>4 DEF Issues, Reissued, scriptVars
  <2> QED BY <2>1, DeliversPaid DEF UnlockInv, PaidTokens
<1>5. CASE Refuses BY <1>5 DEF Refuses, scriptVars, UnlockInv, PaidTokens, AnswersFollow
<1>6. CASE OkArrives
  BY <1>6 DEF OkArrives, OkTaken, scriptVars, UnlockInv, PaidTokens, AnswersFollow
<1>7. CASE TimedOut BY <1>7 DEF TimedOut, scriptVars, UnlockInv, PaidTokens, AnswersFollow
<1>8. CASE Install BY <1>8 DEF Install, buttonVars, UnlockInv, PaidTokens, AnswersFollow
<1>9. CASE Receives
  <2>1. postings' \in Seq(burned) /\ storing' \in Seq(burned)
    BY <1>9 DEF Receives, UnlockInv, PaidTokens
  <2> QED BY <1>9, <2>1 DEF Receives, buttonVars, UnlockInv, PaidTokens, AnswersFollow
<1>10. CASE Stores
  <2>1. Head(storing) \in burned /\ storing' \in Seq(burned) /\ extToken' = Head(storing)
    BY <1>10 DEF Stores, UnlockInv, PaidTokens
  <2>2. oks' = oks + 1 /\ UNCHANGED <<burned, keptToken, postings, verdict>>
    BY <1>10 DEF Stores, buttonVars
  <2> QED BY <2>1, <2>2 DEF UnlockInv, PaidTokens, AnswersFollow
<1> QED BY <1>1, <1>2, <1>3, <1>4, <1>5, <1>6, <1>7, <1>8, <1>9, <1>10 DEF UnlockNext

LEMMA UnlockTells == ASSUME UnlockInv PROVE UnlockIsReal
BY DEF UnlockInv, PaidTokens, AnswersFollow, UnlockIsReal

-----------------------------------------------------------------------------
(***************************************************************************)
(* The popup: the answers come in the order in which the session advanced, *)
(* and the guide's memory is written with what it remembers.               *)
(***************************************************************************)

Says == {"none", "offered", "established", "error"}
View == [open : BOOLEAN, loaded : BOOLEAN, on : BOOLEAN, codec : BOOLEAN, tab : BOOLEAN, hs : BOOLEAN,
         dismissed : BOOLEAN, button : Says \cup {"sending"}, connecting : BOOLEAN]
Stored == [on : BOOLEAN, guideDone : BOOLEAN]
Kinds == {"ping", "status", "start", "none"}
Message == [kind : Kinds, next : Kinds]
Answered == [kind : Kinds, next : Kinds, says : Says]

PopupTypes ==
  /\ view \in View /\ settings \in Stored /\ restored \in Stored
  /\ finished \in BOOLEAN /\ invited \in BOOLEAN
  /\ hs \in {"none", "offered", "established"}
  /\ line \in Seq(Message) /\ answers \in Seq(Answered)

\* An answer that tells of a session is followed by none that knows of none.
Ordered ==
  \A i \in DOMAIN answers : answers[i].says \in {"offered", "established"} =>
    /\ hs # "none"
    /\ \A j \in DOMAIN answers : j > i => answers[j].says # "none"

\* The button is held by this popup's own click, until a session is painted.
Held ==
  view.open /\ invited =>
    /\ view.button # "none"
    /\ view.connecting \/ (hs # "none" /\ \A i \in DOMAIN answers : answers[i].says # "none")

\* What the guide once was complete with is stored, and read again by load.
Remembered ==
  /\ finished => settings.guideDone
  /\ view.dismissed => settings.guideDone
  /\ restored.guideDone => settings.guideDone
  /\ view.open /\ ~view.loaded /\ finished => restored.guideDone
  /\ ~view.loaded => ~view.codec
  /\ view.loaded => view.open
  /\ view.loaded /\ finished => view.dismissed

PopupInv == PopupTypes /\ Ordered /\ Held /\ Remembered

LEMMA PopupInitially == PopupInit => PopupInv
<1> SUFFICES ASSUME PopupInit PROVE PopupInv OBVIOUS
<1>0. FreshView \in View /\ ~FreshView.loaded /\ ~FreshView.codec /\ ~FreshView.dismissed
  BY DEF FreshView, View, Says
<1>1. /\ Closed \in View /\ ~Closed.open /\ ~Closed.loaded /\ ~Closed.codec /\ ~Closed.dismissed
      /\ Unset \in Stored /\ ~Unset.guideDone
  <2> HIDE DEF FreshView
  <2> QED BY <1>0 DEF Closed, View, Unset, Stored
<1>2. view = Closed /\ settings = Unset /\ restored = Unset /\ answers = <<>> /\ line = <<>>
      /\ finished = FALSE /\ invited = FALSE /\ hs = "none"
  BY DEF PopupInit
<1>3. ~view.open /\ ~view.loaded /\ ~view.codec /\ ~view.dismissed /\ ~restored.guideDone BY <1>1, <1>2
<1>4. PopupTypes
  <2>1. finished \in BOOLEAN /\ invited \in BOOLEAN /\ hs \in {"none", "offered", "established"} BY <1>2
  <2>2. line \in Seq(Message) /\ answers \in Seq(Answered) BY <1>2
  <2> QED BY <1>1, <1>2, <2>1, <2>2 DEF PopupTypes
<1>5. Ordered BY <1>2 DEF Ordered
<1>6. Held BY <1>3 DEF Held
<1>7. Remembered BY <1>2, <1>3 DEF Remembered
<1> QED BY <1>4, <1>5, <1>6, <1>7 DEF PopupInv

\* What paintGuide makes of a view.
LEMMA PaintsGuide ==
  ASSUME NEW v \in View, NEW stored \in Stored, NEW was \in BOOLEAN, PaintGuide(v, stored, was)
  PROVE  /\ view' \in View /\ settings' \in Stored /\ finished' \in BOOLEAN
         /\ view'.open = v.open /\ view'.loaded = v.loaded /\ view'.codec = v.codec
         /\ view'.button = v.button /\ view'.connecting = v.connecting
         /\ view'.dismissed <=> (v.dismissed \/ Complete(v))
         /\ finished' <=> (was \/ Complete(v))
         /\ settings'.guideDone <=> (stored.guideDone \/ (Complete(v) /\ ~v.dismissed))
<1>1. Complete(v) \in BOOLEAN BY DEF Complete, View
<1> HIDE DEF Complete
<1>2. view' = [v EXCEPT !.dismissed = v.dismissed \/ Complete(v)] BY DEF PaintGuide
<1>3. settings' = [stored EXCEPT !.guideDone = stored.guideDone \/ (Complete(v) /\ ~v.dismissed)]
  BY DEF PaintGuide
<1>4. finished' = (was \/ Complete(v)) BY DEF PaintGuide
<1>5. (v.dismissed \/ Complete(v)) \in BOOLEAN OBVIOUS
<1>6. (stored.guideDone \/ (Complete(v) /\ ~v.dismissed)) \in BOOLEAN OBVIOUS
<1>7. view' \in View BY <1>2, <1>5 DEF View
<1>8. settings' \in Stored BY <1>3, <1>6 DEF Stored
<1> QED BY <1>2, <1>3, <1>4, <1>7, <1>8 DEF View, Stored

\* A repaint that begins from the same button and the same memory.
LEMMA RepaintRemembers ==
  ASSUME PopupTypes, Remembered, UNCHANGED restored,
         NEW v \in View, NEW stored \in Stored, PaintGuide(v, stored, finished),
         v.open = view.open, v.loaded = view.loaded, v.dismissed = view.dismissed,
         v.codec => v.loaded, stored.guideDone = settings.guideDone
  PROVE  Remembered'
<1>1. finished \in BOOLEAN /\ (Complete(v) => v.codec) BY DEF PopupTypes, Complete
<1> QED BY <1>1, PaintsGuide DEF Remembered

\* What is only said or asked leaves the memory alone.
LEMMA QuietRemembers ==
  ASSUME Remembered, UNCHANGED <<settings, finished>>,
         view'.open = view.open, view'.loaded = view.loaded, view'.dismissed = view.dismissed,
         view'.codec = view.codec, UNCHANGED restored
  PROVE  Remembered'
BY DEF Remembered

\* The head of the answers, and those behind it.
LEMMA AnswersFall ==
  ASSUME PopupTypes, Ordered, Held, answers # <<>>, answers' = Tail(answers), UNCHANGED hs
  PROVE  /\ Head(answers) \in Answered /\ answers' \in Seq(Answered) /\ Ordered'
         /\ (\A i \in DOMAIN answers : answers[i].says # "none")
              => \A i \in DOMAIN answers' : answers'[i].says # "none"
         /\ Head(answers).says \in {"offered", "established"}
              => hs # "none" /\ \A i \in DOMAIN answers' : answers'[i].says # "none"
<1> DEFINE n == Len(answers)
<1>1. answers \in Seq(Answered) BY DEF PopupTypes
<1>2. /\ Head(answers) = answers[1] /\ n \in Nat \ {0} /\ DOMAIN answers = 1..n
      /\ answers' \in Seq(Answered) /\ DOMAIN answers' = 1..(n - 1)
      /\ \A i \in 1..(n - 1) : answers'[i] = answers[i + 1]
  BY <1>1
<1> HIDE DEF n
<1>3. \A i \in 1..(n - 1) : i + 1 \in 1..n /\ i + 1 > 1 BY <1>2
<1>4. Ordered'
  <2> SUFFICES ASSUME NEW i \in DOMAIN answers', answers'[i].says \in {"offered", "established"}
               PROVE  hs # "none" /\ \A j \in DOMAIN answers' : j > i => answers'[j].says # "none"
    BY DEF Ordered
  <2>1. answers[i + 1].says \in {"offered", "established"} /\ i + 1 \in DOMAIN answers BY <1>2, <1>3
  <2>2. \A j \in 1..(n - 1) : j > i => j + 1 > i + 1 BY <1>2
  <2> QED BY <1>2, <1>3, <2>1, <2>2 DEF Ordered
<1>5. 1 \in DOMAIN answers BY <1>2
<1> QED BY <1>1, <1>2, <1>3, <1>4, <1>5 DEF Ordered

\* The script's answer comes last, and says at least what was said before.
LEMMA AnswersGrow ==
  ASSUME PopupTypes, Ordered, Held, NEW a \in Answered, a.says \in {hs, "error"},
         answers' = Append(answers, a), hs' \in {"none", "offered", "established"},
         hs # "none" => hs' # "none", UNCHANGED <<view, invited>>
  PROVE  answers' \in Seq(Answered) /\ Ordered' /\ Held'
<1> DEFINE n == Len(answers)
<1>1. answers \in Seq(Answered) BY DEF PopupTypes
<1>2. /\ n \in Nat /\ DOMAIN answers = 1..n
      /\ answers' \in Seq(Answered) /\ DOMAIN answers' = 1..(n + 1) /\ answers'[n + 1] = a
      /\ \A i \in 1..n : answers'[i] = answers[i]
  BY <1>1
<1> HIDE DEF n
<1>3. \A i \in 1..(n + 1) : i \in 1..n \/ i = n + 1 BY <1>2
<1>4. Ordered'
  <2> SUFFICES ASSUME NEW i \in DOMAIN answers', answers'[i].says \in {"offered", "established"}
               PROVE  hs' # "none" /\ \A j \in DOMAIN answers' : j > i => answers'[j].says # "none"
    BY DEF Ordered
  <2>1. CASE i \in 1..n
    <3>1. hs # "none" /\ a.says # "none" BY <1>2, <2>1 DEF Ordered
    <3> QED BY <1>2, <1>3, <2>1, <3>1 DEF Ordered
  <2>2. CASE i = n + 1
    <3>1. hs # "none" BY <1>2, <2>2
    <3>2. \A j \in 1..(n + 1) : ~(j > n + 1) BY <1>2
    <3> QED BY <1>2, <2>2, <3>1, <3>2
  <2> QED BY <1>2, <1>3, <2>1, <2>2
<1>5. Held'
  <2> SUFFICES ASSUME view.open, invited
               PROVE  /\ view.button # "none"
                      /\ view.connecting \/ (hs' # "none" /\ \A i \in DOMAIN answers' : answers'[i].says # "none")
    BY DEF Held
  <2>1. CASE view.connecting BY <2>1 DEF Held
  <2>2. CASE ~view.connecting
    <3>1. view.button # "none" /\ hs # "none" /\ \A i \in DOMAIN answers : answers[i].says # "none"
      BY <2>2 DEF Held
    <3> QED BY <1>2, <1>3, <3>1
  <2> QED BY <2>1, <2>2
<1> QED BY <1>2, <1>4, <1>5
LEMMA PopupQuiet ==
  ASSUME PopupInv, UNCHANGED <<hs, settings, view, restored, answers, finished, invited>>,
         line' \in Seq(Message)
  PROVE  PopupInv'
BY DEF PopupInv, PopupTypes, Ordered, Held, Remembered

\* The repaints that no answer of the script causes.
LEMMA PopupPaints ==
  ASSUME PopupInv, UNCHANGED <<hs, restored, line, answers, invited>>,
         NEW v \in View, NEW stored \in Stored, PaintGuide(v, stored, finished),
         v.open = view.open, v.loaded = view.loaded, v.dismissed = view.dismissed,
         v.button = view.button, v.connecting = view.connecting,
         v.codec => v.loaded, stored.guideDone = settings.guideDone
  PROVE  PopupInv'
<1>1. PopupTypes /\ Ordered /\ Held /\ Remembered BY DEF PopupInv
<1>2. Remembered' BY <1>1, RepaintRemembers
<1>3. finished \in BOOLEAN BY <1>1 DEF PopupTypes
<1>4. /\ view' \in View /\ settings' \in Stored /\ finished' \in BOOLEAN
      /\ view'.open = view.open /\ view'.button = view.button /\ view'.connecting = view.connecting
  BY <1>3, PaintsGuide
<1>5. PopupTypes' BY <1>1, <1>4 DEF PopupTypes
<1>6. Ordered' BY <1>1 DEF Ordered
<1>7. Held' BY <1>1, <1>4 DEF Held
<1> QED BY <1>2, <1>5, <1>6, <1>7 DEF PopupInv

LEMMA SaysMessage ==
  ASSUME PopupTypes, NEW k \in Kinds, NEW n \in Kinds, Say(k, n)
  PROVE  line' \in Seq(Message)
<1>1. [kind |-> k, next |-> n] \in Message /\ line \in Seq(Message) BY DEF Message, PopupTypes
<1> QED BY <1>1 DEF Say

LEMMA PopupUser ==
  ASSUME PopupInv,
         \/ OpenPopup \/ ClosePopup \/ Loads \/ CheckHealth \/ Switch \/ SkipGuide \/ Reopen
         \/ Poll \/ Press \/ Invite
  PROVE  PopupInv'
<1>0. PopupTypes /\ Ordered /\ Held /\ Remembered BY DEF PopupInv
<1>k. {"ping", "status", "start", "none"} = Kinds BY DEF Kinds
<1>1. CASE OpenPopup
  <2>1. /\ FreshView \in View /\ FreshView.open /\ ~FreshView.loaded /\ ~FreshView.codec /\ ~FreshView.dismissed
    BY DEF FreshView, View, Says
  <2>2. /\ view' = FreshView /\ restored' = settings /\ ~invited' /\ invited' \in BOOLEAN
        /\ Say("ping", "status") /\ UNCHANGED <<hs, settings, answers, finished>>
    BY <1>1 DEF OpenPopup, pageVars1
  <2>3. line' \in Seq(Message) BY <1>0, <1>k, <2>2, SaysMessage
  <2>4. PopupTypes' BY <1>0, <2>1, <2>2, <2>3 DEF PopupTypes
  <2>5. Ordered' BY <1>0, <2>2 DEF Ordered
  <2>6. Held' BY <2>2 DEF Held
  <2>7. Remembered' BY <1>0, <2>1, <2>2 DEF Remembered
  <2> QED BY <2>4, <2>5, <2>6, <2>7 DEF PopupInv
<1>2. CASE ClosePopup
  <2>0. FreshView \in View /\ ~FreshView.loaded /\ ~FreshView.codec /\ ~FreshView.dismissed
    BY DEF FreshView, View, Says
  <2>1. /\ Closed \in View /\ ~Closed.open /\ ~Closed.loaded /\ ~Closed.codec /\ ~Closed.dismissed
        /\ Unset \in Stored /\ ~Unset.guideDone
    <3> HIDE DEF FreshView
    <3> QED BY <2>0 DEF Closed, View, Unset, Stored
  <2>2. /\ view' = Closed /\ restored' = Unset /\ ~invited' /\ invited' \in BOOLEAN
        /\ line' = <<>> /\ answers' = <<>> /\ UNCHANGED <<settings, finished>>
        /\ hs' \in {hs, "offered"}
    BY <1>2 DEF ClosePopup
  <2>3. line' \in Seq(Message) /\ answers' \in Seq(Answered) /\ DOMAIN answers' = {} BY <2>2
  <2>4. PopupTypes' BY <1>0, <2>1, <2>2, <2>3 DEF PopupTypes
  <2>5. Ordered' BY <2>3 DEF Ordered
  <2>6. Held' BY <2>2 DEF Held
  <2>7. Remembered' BY <1>0, <2>1, <2>2 DEF Remembered
  <2> QED BY <2>4, <2>5, <2>6, <2>7 DEF PopupInv
<1>3. CASE Loads
  <2> DEFINE v == [view EXCEPT !.loaded = TRUE, !.on = restored.on, !.dismissed = restored.guideDone]
  <2>1. view \in View /\ restored.on \in BOOLEAN /\ restored.guideDone \in BOOLEAN
    BY <1>0 DEF PopupTypes, Stored
  <2>2. v \in View BY <2>1 DEF View
  <2>3. v.open = view.open /\ v.loaded /\ v.codec = view.codec /\ v.dismissed = restored.guideDone
    BY <2>1 DEF View
  <2>3a. v.button = view.button /\ v.connecting = view.connecting BY <2>1 DEF View
  <2>4. PaintGuide(v, settings, finished) /\ view.open /\ ~view.loaded BY <1>3 DEF Loads, Paint
  <2>5. restored' = Unset /\ UNCHANGED <<hs, line, answers, invited>> BY <1>3 DEF Loads, pageVars1
  <2>6. Unset \in Stored /\ ~Unset.guideDone BY DEF Unset, Stored
  <2> HIDE DEF v
  <2>7. settings \in Stored /\ finished \in BOOLEAN BY <1>0 DEF PopupTypes
  <2>8. /\ view' \in View /\ settings' \in Stored /\ finished' \in BOOLEAN
        /\ view'.open = v.open /\ view'.loaded = v.loaded /\ view'.codec = v.codec
        /\ view'.button = v.button /\ view'.connecting = v.connecting
        /\ view'.dismissed <=> (v.dismissed \/ Complete(v))
        /\ finished' <=> (finished \/ Complete(v))
        /\ settings'.guideDone <=> (settings.guideDone \/ (Complete(v) /\ ~v.dismissed))
    BY <2>2, <2>4, <2>7, PaintsGuide
  <2>9. PopupTypes' BY <1>0, <2>5, <2>6, <2>8 DEF PopupTypes
  <2>10. Ordered' BY <1>0, <2>5 DEF Ordered
  <2>11. Held' BY <1>0, <2>3, <2>3a, <2>5, <2>8 DEF Held
  <2>12. Remembered' BY <1>0, <2>3, <2>4, <2>5, <2>6, <2>8 DEF Remembered
  <2> QED BY <2>9, <2>10, <2>11, <2>12 DEF PopupInv
<1>4. CASE CheckHealth
  <2>1. PICK ready \in BOOLEAN : Paint([view EXCEPT !.codec = ready]) BY <1>4 DEF CheckHealth
  <2> DEFINE v == [view EXCEPT !.codec = ready]
  <2>2. /\ v \in View /\ v.open = view.open /\ v.loaded = view.loaded /\ v.dismissed = view.dismissed
        /\ v.button = view.button /\ v.connecting = view.connecting
    BY <1>0 DEF PopupTypes, View
  <2>3. PaintGuide(v, settings, finished) BY <2>1 DEF Paint
  <2> HIDE DEF v
  <2> QED BY <1>0, <1>4, <2>2, <2>3, PopupPaints DEF CheckHealth, pageVars1, PopupTypes
<1>5. CASE Switch
  <2> DEFINE v == [view EXCEPT !.on = ~view.on]
             stored == [settings EXCEPT !.on = ~view.on]
  <2>0. (~view.on) \in BOOLEAN OBVIOUS
  <2>1. view \in View /\ settings \in Stored BY <1>0 DEF PopupTypes
  <2>2. /\ v \in View /\ v.open = view.open /\ v.loaded = view.loaded /\ v.dismissed = view.dismissed
        /\ v.button = view.button /\ v.connecting = view.connecting /\ v.codec = view.codec
    BY <2>0, <2>1 DEF View
  <2>3. stored \in Stored /\ stored.guideDone = settings.guideDone BY <2>0, <2>1 DEF Stored
  <2>4. PaintGuide(v, stored, finished) BY <1>5 DEF Switch
  <2> HIDE DEF v, stored
  <2>5. v.codec => v.loaded BY <1>0, <2>2 DEF Remembered
  <2> QED BY <1>5, <2>2, <2>3, <2>4, <2>5, PopupPaints DEF Switch, pageVars1
<1>6. CASE SkipGuide
  <2>1. view' = [view EXCEPT !.dismissed = TRUE] /\ settings' = [settings EXCEPT !.guideDone = TRUE]
        /\ UNCHANGED <<hs, restored, line, answers, finished, invited>>
    BY <1>6 DEF SkipGuide, pageVars1
  <2>2. /\ view' \in View /\ view'.open = view.open /\ view'.loaded = view.loaded /\ view'.dismissed
        /\ view'.button = view.button /\ view'.connecting = view.connecting /\ view'.codec = view.codec
    BY <1>0, <2>1 DEF PopupTypes, View
  <2>3. settings' \in Stored /\ settings'.guideDone BY <1>0, <2>1 DEF PopupTypes, Stored
  <2>4. PopupTypes' BY <1>0, <2>1, <2>2, <2>3 DEF PopupTypes
  <2>5. Ordered' BY <1>0, <2>1 DEF Ordered
  <2>6. Held' BY <1>0, <2>1, <2>2 DEF Held
  <2>7. Remembered' BY <1>0, <2>1, <2>2, <2>3 DEF Remembered
  <2> QED BY <2>4, <2>5, <2>6, <2>7 DEF PopupInv
<1>7. CASE Reopen
  <2> DEFINE v == [view EXCEPT !.dismissed = FALSE]
  <2>1. /\ v \in View /\ v.open = view.open /\ v.loaded = view.loaded /\ ~v.dismissed
        /\ v.button = view.button /\ v.connecting = view.connecting /\ v.codec = view.codec
    BY <1>0 DEF PopupTypes, View
  <2>2. PaintGuide(v, settings, FALSE) /\ UNCHANGED <<hs, restored, line, answers, invited>>
    BY <1>7 DEF Reopen, pageVars1
  <2> HIDE DEF v
  <2>3. settings \in Stored /\ FALSE \in BOOLEAN BY <1>0 DEF PopupTypes
  <2>4. /\ view' \in View /\ settings' \in Stored /\ finished' \in BOOLEAN
        /\ view'.open = v.open /\ view'.loaded = v.loaded /\ view'.codec = v.codec
        /\ view'.button = v.button /\ view'.connecting = v.connecting
        /\ view'.dismissed <=> (v.dismissed \/ Complete(v))
        /\ finished' <=> (FALSE \/ Complete(v))
        /\ settings'.guideDone <=> (settings.guideDone \/ (Complete(v) /\ ~v.dismissed))
    BY <2>1, <2>2, <2>3, PaintsGuide
  <2>5. Complete(v) => v.codec BY DEF Complete
  <2>6. PopupTypes' BY <1>0, <2>2, <2>4 DEF PopupTypes
  <2>7. Ordered' BY <1>0, <2>2 DEF Ordered
  <2>8. Held' BY <1>0, <2>1, <2>2, <2>4 DEF Held
  <2>9. Remembered' BY <1>0, <2>1, <2>2, <2>4, <2>5 DEF Remembered
  <2> QED BY <2>6, <2>7, <2>8, <2>9 DEF PopupInv
<1>8. CASE Poll
  <2>1. line' \in Seq(Message) BY <1>0, <1>8, <1>k, SaysMessage DEF Poll
  <2> QED BY <1>8, <2>1, PopupQuiet DEF Poll, pageVars1
<1>9. CASE Press
  <2>1. line' \in Seq(Message) BY <1>0, <1>9 DEF Press, PopupTypes
  <2> QED BY <1>9, <2>1, PopupQuiet DEF Press, pageVars1
<1>10. CASE Invite
  <2>1. /\ view' = [view EXCEPT !.connecting = TRUE, !.button = "sending"]
        /\ Say("ping", "start") /\ invited' = TRUE /\ UNCHANGED <<hs, settings, restored, answers, finished>>
    BY <1>10 DEF Invite, pageVars1
  <2>2. /\ view' \in View /\ view'.open = view.open /\ view'.loaded = view.loaded
        /\ view'.dismissed = view.dismissed /\ view'.codec = view.codec
        /\ view'.button = "sending" /\ view'.connecting
    BY <1>0, <2>1 DEF PopupTypes, View
  <2>3. line' \in Seq(Message) BY <1>0, <1>k, <2>1, SaysMessage
  <2>4. PopupTypes' BY <1>0, <2>1, <2>2, <2>3 DEF PopupTypes
  <2>5. Ordered' BY <1>0, <2>1 DEF Ordered
  <2>6. Held' BY <2>2 DEF Held
  <2>7. Remembered' BY <1>0, <2>1, <2>2 DEF Remembered
  <2> QED BY <2>4, <2>5, <2>6, <2>7 DEF PopupInv
<1> QED BY <1>1, <1>2, <1>3, <1>4, <1>5, <1>6, <1>7, <1>8, <1>9, <1>10
\* paintConnect, by what the script says of its session.
LEMMA Connects ==
  ASSUME NEW v \in View, NEW said \in {"none", "offered", "established"}
  PROVE  LET w == Connectable(v, said) IN
         /\ w \in View /\ w.open = v.open /\ w.loaded = v.loaded /\ w.codec = v.codec
         /\ w.dismissed = v.dismissed
         /\ said = "none" => (v.connecting /\ w = v) \/ (~v.connecting /\ w.button = "none")
         /\ said # "none" => w.button = said /\ ~w.connecting
<1>1. CASE said = "none" /\ v.connecting BY <1>1 DEF Connectable
<1>2. CASE ~(said = "none" /\ v.connecting)
  <2>1. Connectable(v, said) = [v EXCEPT !.button = said, !.connecting = FALSE] BY <1>2 DEF Connectable
  <2>2. /\ [v EXCEPT !.button = said, !.connecting = FALSE] \in View
        /\ [v EXCEPT !.button = said, !.connecting = FALSE].open = v.open
        /\ [v EXCEPT !.button = said, !.connecting = FALSE].loaded = v.loaded
        /\ [v EXCEPT !.button = said, !.connecting = FALSE].codec = v.codec
        /\ [v EXCEPT !.button = said, !.connecting = FALSE].dismissed = v.dismissed
        /\ [v EXCEPT !.button = said, !.connecting = FALSE].button = said
        /\ ~[v EXCEPT !.button = said, !.connecting = FALSE].connecting
    BY DEF View, Says
  <2> QED BY <1>2, <2>1, <2>2
<1> QED BY <1>1, <1>2

LEMMA PopupScript ==
  ASSUME PopupInv, Replies \/ Reached \/ NotReached \/ Painted \/ InviteEnds \/ Peer \/ Orphaned
  PROVE  PopupInv'
<1>0. PopupTypes /\ Ordered /\ Held /\ Remembered BY DEF PopupInv
<1>1. CASE Replies
  <2> DEFINE a == [kind |-> Head(line).kind, next |-> Head(line).next,
                   says |-> IF scriptHere THEN hs ELSE "error"]
  <2>1. Head(line) \in Message /\ line' \in Seq(Message) BY <1>0, <1>1 DEF Replies, PopupTypes
  <2>2. a \in Answered /\ a.says \in {hs, "error"} BY <1>0, <2>1 DEF PopupTypes, Message, Answered, Says
  <2>3. answers' = Append(answers, a) /\ hs' \in {hs, "offered"}
        /\ UNCHANGED <<settings, view, restored, finished, invited>>
    BY <1>1 DEF Replies
  <2> HIDE DEF a
  <2>4. hs' \in {"none", "offered", "established"} /\ (hs # "none" => hs' # "none")
    BY <1>0, <2>3 DEF PopupTypes
  <2>5. answers' \in Seq(Answered) /\ Ordered' /\ Held' BY <1>0, <2>2, <2>3, <2>4, AnswersGrow
  <2>6. PopupTypes' BY <1>0, <2>1, <2>3, <2>4, <2>5 DEF PopupTypes
  <2>7. Remembered' BY <1>0, <2>3 DEF Remembered
  <2> QED BY <2>5, <2>6, <2>7 DEF PopupInv
<1>2. CASE Reached
  <2>1. /\ answers # <<>> /\ answers' = Tail(answers)
        /\ line' = Append(line, [kind |-> Head(answers).next, next |-> "none"])
        /\ UNCHANGED <<hs, settings, view, restored, finished, invited>>
    BY <1>2 DEF Reached
  <2>2. /\ Head(answers) \in Answered /\ answers' \in Seq(Answered) /\ Ordered'
        /\ (\A i \in DOMAIN answers : answers[i].says # "none")
             => \A i \in DOMAIN answers' : answers'[i].says # "none"
    BY <1>0, <2>1, AnswersFall
  <2>3. [kind |-> Head(answers).next, next |-> "none"] \in Message BY <2>2 DEF Answered, Message, Kinds
  <2>4. line' \in Seq(Message) BY <1>0, <2>1, <2>3 DEF PopupTypes
  <2>5. PopupTypes' BY <1>0, <2>1, <2>2, <2>4 DEF PopupTypes
  <2>6. Held' BY <1>0, <2>1, <2>2 DEF Held
  <2>7. Remembered' BY <1>0, <2>1 DEF Remembered
  <2> QED BY <2>2, <2>5, <2>6, <2>7 DEF PopupInv
<1>3. CASE NotReached
  <2>1. /\ answers # <<>> /\ answers' = Tail(answers) /\ UNCHANGED <<hs, restored, invited>>
    BY <1>3 DEF NotReached, pageVars1
  <2>2. /\ Head(answers) \in Answered /\ answers' \in Seq(Answered) /\ Ordered'
        /\ (\A i \in DOMAIN answers : answers[i].says # "none")
             => \A i \in DOMAIN answers' : answers'[i].says # "none"
    BY <1>0, <2>1, AnswersFall
  <2>3. CASE UNCHANGED <<view, settings, finished>> /\ line' = Append(line, [kind |-> "start", next |-> "none"])
    <3>1. [kind |-> "start", next |-> "none"] \in Message BY DEF Message, Kinds
    <3>2. line' \in Seq(Message) BY <1>0, <2>3, <3>1 DEF PopupTypes
    <3>3. PopupTypes' BY <1>0, <2>1, <2>2, <2>3, <3>2 DEF PopupTypes
    <3>4. Held' BY <1>0, <2>1, <2>2, <2>3 DEF Held
    <3>5. Remembered' BY <1>0, <2>1, <2>3 DEF Remembered
    <3> QED BY <2>2, <3>3, <3>4, <3>5 DEF PopupInv
  <2>4. CASE Paint([view EXCEPT !.tab = FALSE, !.hs = FALSE]) /\ UNCHANGED line
    <3> DEFINE v == [view EXCEPT !.tab = FALSE, !.hs = FALSE]
    <3>1. /\ v \in View /\ v.open = view.open /\ v.loaded = view.loaded /\ v.dismissed = view.dismissed
          /\ v.button = view.button /\ v.connecting = view.connecting /\ v.codec = view.codec
      BY <1>0 DEF PopupTypes, View
    <3>2. PaintGuide(v, settings, finished) BY <2>4 DEF Paint
    <3> HIDE DEF v
    <3>3. finished \in BOOLEAN /\ settings \in Stored /\ (v.codec => v.loaded)
      BY <1>0, <3>1 DEF PopupTypes, Remembered
    <3>4. Remembered' BY <1>0, <2>1, <3>1, <3>2, <3>3, RepaintRemembers
    <3>5. /\ view' \in View /\ settings' \in Stored /\ finished' \in BOOLEAN
          /\ view'.open = view.open /\ view'.button = view.button /\ view'.connecting = view.connecting
      BY <3>1, <3>2, <3>3, PaintsGuide
    <3>6. PopupTypes' BY <1>0, <2>1, <2>2, <2>4, <3>5 DEF PopupTypes
    <3>7. Held' BY <1>0, <2>1, <2>2, <3>5 DEF Held
    <3> QED BY <2>2, <3>4, <3>6, <3>7 DEF PopupInv
  <2> QED BY <1>3, <2>3, <2>4 DEF NotReached
<1>4. CASE Painted
  <2> DEFINE said == Head(answers).says
  <2>1. /\ answers # <<>> /\ answers' = Tail(answers) /\ UNCHANGED <<hs, restored, invited, line>>
    BY <1>4 DEF Painted, pageVars1
  <2>2. /\ Head(answers) \in Answered /\ answers' \in Seq(Answered) /\ Ordered'
        /\ (\A i \in DOMAIN answers : answers[i].says # "none")
             => \A i \in DOMAIN answers' : answers'[i].says # "none"
        /\ said \in {"offered", "established"}
             => hs # "none" /\ \A i \in DOMAIN answers' : answers'[i].says # "none"
    BY <1>0, <2>1, AnswersFall
  <2>3. CASE said = "error"
    <3>1. UNCHANGED <<view, settings, finished>> BY <1>4, <2>3 DEF Painted
    <3>2. PopupTypes' BY <1>0, <2>1, <2>2, <3>1 DEF PopupTypes
    <3>3. Held' BY <1>0, <2>1, <2>2, <3>1 DEF Held
    <3>4. Remembered' BY <1>0, <2>1, <3>1 DEF Remembered
    <3> QED BY <2>2, <3>2, <3>3, <3>4 DEF PopupInv
  <2>4. CASE said # "error"
    <3> DEFINE v == [view EXCEPT !.tab = TRUE, !.hs = said = "established"]
               w == Connectable(v, said)
    <3>1. said \in {"none", "offered", "established"} BY <2>2, <2>4 DEF Answered, Says
    <3>2. PaintGuide(w, settings, finished) BY <1>4, <2>4 DEF Painted, Paint
    <3> HIDE DEF said
    <3>3. (said = "established") \in BOOLEAN OBVIOUS
    <3>4. /\ v \in View /\ v.open = view.open /\ v.loaded = view.loaded /\ v.dismissed = view.dismissed
          /\ v.button = view.button /\ v.connecting = view.connecting /\ v.codec = view.codec
      BY <1>0, <3>3 DEF PopupTypes, View
    <3> HIDE DEF v
    <3>5. /\ w \in View /\ w.open = v.open /\ w.loaded = v.loaded /\ w.codec = v.codec
          /\ w.dismissed = v.dismissed
          /\ said = "none" => (v.connecting /\ w = v) \/ (~v.connecting /\ w.button = "none")
          /\ said # "none" => w.button = said /\ ~w.connecting
      BY <3>1, <3>4, Connects
    <3> HIDE DEF w
    <3>6. finished \in BOOLEAN /\ settings \in Stored /\ (w.codec => w.loaded)
      BY <1>0, <3>4, <3>5 DEF PopupTypes, Remembered
    <3>7. Remembered' BY <1>0, <2>1, <3>2, <3>4, <3>5, <3>6, RepaintRemembers
    <3>8. /\ view' \in View /\ settings' \in Stored /\ finished' \in BOOLEAN
          /\ view'.open = w.open /\ view'.button = w.button /\ view'.connecting = w.connecting
      BY <3>2, <3>5, <3>6, PaintsGuide
    <3>9. PopupTypes' BY <1>0, <2>1, <2>2, <3>8 DEF PopupTypes
    <3>10. Held'
      <4> SUFFICES ASSUME view.open, invited
                   PROVE  /\ view'.button # "none"
                          /\ view'.connecting \/ (hs # "none" /\ \A i \in DOMAIN answers' : answers'[i].says # "none")
        BY <2>1, <3>4, <3>5, <3>8 DEF Held
      <4>1. CASE said # "none" BY <2>2, <3>1, <3>5, <3>8, <4>1 DEF said
      <4>2. CASE said = "none"
        <5>1. view.connecting
          <6>1. 1 \in DOMAIN answers /\ Head(answers) = answers[1] BY <1>0, <2>1 DEF PopupTypes
          <6> QED BY <1>0, <4>2, <6>1 DEF Held, said
        <5> QED BY <1>0, <3>4, <3>5, <3>8, <4>2, <5>1 DEF Held
      <4> QED BY <4>1, <4>2
    <3> QED BY <2>2, <3>7, <3>9, <3>10 DEF PopupInv
  <2> QED BY <2>3, <2>4
<1>5. CASE InviteEnds
  <2>1. /\ answers # <<>> /\ answers' = Tail(answers) /\ UNCHANGED <<hs, settings, restored, line, finished>>
    BY <1>5 DEF InviteEnds, pageVars1
  <2>2. /\ Head(answers) \in Answered /\ answers' \in Seq(Answered) /\ Ordered'
        /\ (\A i \in DOMAIN answers : answers[i].says # "none")
             => \A i \in DOMAIN answers' : answers'[i].says # "none"
    BY <1>0, <2>1, AnswersFall
  <2>3. CASE UNCHANGED <<view, invited>>
    <3>1. PopupTypes' BY <1>0, <2>1, <2>2, <2>3 DEF PopupTypes
    <3>2. Held' BY <1>0, <2>1, <2>2, <2>3 DEF Held
    <3>3. Remembered' BY <1>0, <2>1, <2>3 DEF Remembered
    <3> QED BY <2>2, <3>1, <3>2, <3>3 DEF PopupInv
  <2>4. CASE view' = Connectable([view EXCEPT !.connecting = FALSE], "none") /\ invited' = FALSE
    <3> DEFINE v == [view EXCEPT !.connecting = FALSE]
    <3>1. /\ v \in View /\ v.open = view.open /\ v.loaded = view.loaded /\ v.dismissed = view.dismissed
          /\ v.codec = view.codec
      BY <1>0 DEF PopupTypes, View
    <3> HIDE DEF v
    <3>2. view' = Connectable(v, "none") /\ ~invited' /\ invited' \in BOOLEAN BY <2>4 DEF v
    <3>3. /\ view' \in View /\ view'.open = view.open /\ view'.loaded = view.loaded
          /\ view'.codec = view.codec /\ view'.dismissed = view.dismissed
      BY <3>1, <3>2, Connects
    <3>4. PopupTypes' BY <1>0, <2>1, <2>2, <3>2, <3>3 DEF PopupTypes
    <3>5. Held' BY <3>2 DEF Held
    <3>6. Remembered' BY <1>0, <2>1, <3>3, QuietRemembers
    <3> QED BY <2>2, <3>4, <3>5, <3>6 DEF PopupInv
  <2> QED BY <1>5, <2>3, <2>4 DEF InviteEnds
<1>6. CASE Peer \/ Orphaned
  <2>1. UNCHANGED <<settings, view, restored, line, answers, finished, invited>> /\ hs' \in {hs, "established"}
    BY <1>6 DEF Peer, Orphaned
  <2> QED BY <1>0, <2>1 DEF PopupInv, PopupTypes, Ordered, Held, Remembered
<1> QED BY <1>1, <1>2, <1>3, <1>4, <1>5, <1>6

LEMMA PopupStep == ASSUME PopupInv, PopupNext PROVE PopupInv'
BY PopupUser, PopupScript DEF PopupNext

LEMMA PopupTells == ASSUME PopupInv PROVE InviteIsHeld /\ GuideStaysAway
<1>1. Held /\ Remembered BY DEF PopupInv
<1>2. InviteIsHeld BY <1>1 DEF Held, InviteIsHeld
<1>3. GuideStaysAway BY <1>1 DEF Remembered, GuideStaysAway, GuideShown
<1> QED BY <1>2, <1>3

-----------------------------------------------------------------------------
(***************************************************************************)
(* The scenes put together: in each of them one part moves.                *)
(***************************************************************************)

\* A part stands still, or makes a step of its own.
LEMMA PartsMove ==
  ASSUME [Next]_appVars
  PROVE  /\ UNCHANGED convVars \/ ConvNext
         /\ \/ UNCHANGED <<thread, active, mailVars>>
            \/ InboxNext /\ UNCHANGED thread
            \/ ThreadNext /\ UNCHANGED mailVars
         /\ UNCHANGED knockVars \/ KnockNext
         /\ UNCHANGED recVars \/ RecNext
         /\ UNCHANGED siteVars \/ BotNext \/ SignupNext
         /\ UNCHANGED memberVars \/ MemberNext
         /\ UNCHANGED unlockVars \/ UnlockNext
         /\ UNCHANGED popupVars \/ PopupNext
<1>1. CASE UNCHANGED appVars BY <1>1 DEF appVars, inboxVars, threadVars, mailVars
<1>2. CASE Next BY <1>2 DEF Next, ConvNext
<1> QED BY <1>1, <1>2

LEMMA AppStarts ==
  ASSUME Init
  PROVE  ConvInit /\ InboxInit /\ KnockInit /\ RecInit /\ SiteInit /\ MemberInit /\ UnlockInit /\ PopupInit
BY DEF Init

\* Whatever happens to the group and the blobs while a message is stored, a
\* head lists only what was sealed to it, and what was reported as sent.
THEOREM StoreIsSoundAlways == Spec => []StoreIsSound
<1>1. Init => ConvInv BY AppStarts, ConvInitially
<1>2. ConvInv /\ [Next]_appVars => ConvInv'
  <2> SUFFICES ASSUME ConvInv, [Next]_appVars PROVE ConvInv' OBVIOUS
  <2>1. CASE UNCHANGED convVars
    <3>1. UNCHANGED <<heads, blob, index, out, sends, headScan, look, cache, shown, told>> BY <2>1 DEF convVars
    <3>2. ConvTypes' BY <3>1 DEF ConvInv, ConvTypes
    <3>3. OnItsWay' BY <3>1 DEF ConvInv, OnItsWay, Listed
    <3>4. StoreIsSound' BY <3>1 DEF ConvInv, StoreIsSound, Listed
    <3> QED BY <3>2, <3>3, <3>4 DEF ConvInv
  <2> QED BY <2>1, PartsMove, ConvStep
<1>3. ConvInv => StoreIsSound BY DEF ConvInv
<1> QED BY <1>1, <1>2, <1>3, PTL DEF Spec

\* A mark covers only what was rendered and a count is of what its rows hold,
\* if the indexer lists a conversation in order.
THEOREM UnreadIsHonestInOrder == InOrder => (Spec => []UnreadIsHonest)
<1> SUFFICES ASSUME InOrder PROVE Spec => []UnreadIsHonest OBVIOUS
<1>1. Init => InboxInv BY AppStarts, InboxInitially
<1>2. InboxInv /\ [Next]_appVars => InboxInv'
  <2> SUFFICES ASSUME InboxInv, [Next]_appVars PROVE InboxInv' OBVIOUS
  <2>1. CASE UNCHANGED mailVars
    <3>1. UNCHANGED <<mail_in, polls, convos, marks, unread, banners, rendered, blind, failed>>
      BY <2>1 DEF mailVars
    <3> QED BY <3>1 DEF InboxInv, InboxTypes, Rendered, PastHistory, CountsItsRows
  <2>2. CASE InboxNext BY <2>2, InboxStep
  <2> QED BY <2>1, <2>2, PartsMove
<1>3. InboxInv => UnreadIsHonest BY InboxTells
<1> QED BY <1>1, <1>2, <1>3, PTL DEF Spec

\* A failed send stays reported until the next one, whoever is opened meanwhile.
THEOREM FailureStaysAlways == Spec => []FailureStays
<1>1. Init => ThreadInv BY AppStarts, ThreadInitially
<1>2. ThreadInv /\ [Next]_appVars => ThreadInv'
  <2> SUFFICES ASSUME ThreadInv, [Next]_appVars PROVE ThreadInv' OBVIOUS
  <2>1. CASE UNCHANGED <<thread, active, mailVars>> BY <2>1 DEF ThreadInv, FailureStays
  <2>2. CASE InboxNext /\ UNCHANGED thread
    <3>1. active' = active \/ active' \in Peers
      BY <2>2 DEF InboxNext, PollStarts, Look, Arrives, OpenPeer, PollReads, PollLands, PollThrows
    <3> QED BY <2>2, <3>1 DEF ThreadInv, FailureStays
  <2>3. CASE ThreadNext BY <2>3, ThreadStep
  <2> QED BY <2>1, <2>2, <2>3, PartsMove
<1>3. ThreadInv => FailureStays BY DEF ThreadInv
<1> QED BY <1>1, <1>2, <1>3, PTL DEF Spec

\* The relay, the bot and the sign-ups.
LEMMA KnockAlways == Spec => []KnockInv
<1>1. Init => KnockInv BY AppStarts, KnockInitially
<1>2. KnockInv /\ [Next]_appVars => KnockInv'
  <2> SUFFICES ASSUME KnockInv, [Next]_appVars PROVE KnockInv' OBVIOUS
  <2>1. CASE UNCHANGED knockVars
    <3>1. UNCHANGED <<pile, file, relayUp, diskBad, knocks, expired, acked, excused>> BY <2>1 DEF knockVars
    <3> QED BY <3>1 DEF KnockInv, Numbered, Owed, KnockIds
  <2> QED BY <2>1, PartsMove, KnockStep
<1> QED BY <1>1, <1>2, PTL DEF Spec

LEMMA SiteAlways == Spec => [](BotInv /\ SignupInv)
<1>1. Init => BotInv /\ SignupInv BY AppStarts, BotInitially, SignupInitially
<1>2. BotInv /\ SignupInv /\ [Next]_appVars => (BotInv /\ SignupInv)'
  <2> SUFFICES ASSUME BotInv, SignupInv, [Next]_appVars PROVE BotInv' /\ SignupInv' OBVIOUS
  <2>1. ASSUME UNCHANGED botVars PROVE BotInv'
    <3>1. UNCHANGED <<bot, work, answered, gone, tangled>> BY <2>1 DEF botVars
    <3>2. BotTypes' BY <3>1 DEF BotInv, BotTypes
    <3>3. RowThere' /\ EntryThere' BY <3>1 DEF BotInv, RowThere, EntryThere
    <3>4. ErasesAlone' /\ GoneQuiet' BY <3>1 DEF BotInv, ErasesAlone, GoneQuiet
    <3>5. EntryKept' /\ DoneIsEntered' /\ GoneIsGone' BY <3>1 DEF BotInv, EntryKept, DoneIsEntered, GoneIsGone
    <3> QED BY <3>2, <3>3, <3>4, <3>5 DEF BotInv
  <2>2. ASSUME UNCHANGED signupVars PROVE SignupInv'
    <3>1. UNCHANGED <<waitlist, alpha, limit, passed, forms, given, page, meant, time, nextId>>
      BY <2>2 DEF signupVars
    <3>2. HandleTypes' /\ HandleKept' BY <3>1 DEF SignupInv, HandleTypes, HandleKept
    <3>3. KeyTypes' /\ KeysAreOnes' BY <3>1 DEF SignupInv, KeyTypes, KeysAreOnes
    <3>4. NoRowNew' /\ StatusIsMeant' BY <3>1 DEF SignupInv, NoRowNew, StatusIsMeant
    <3>5. RateTypes' BY <3>1 DEF SignupInv, RateTypes
    <3>6. Counting' BY <3>1 DEF SignupInv, Counting
    <3>7. RateHolds' BY <3>1 DEF SignupInv, RateHolds
    <3> QED BY <3>2, <3>3, <3>4, <3>5, <3>6, <3>7 DEF SignupInv
  <2>3. CASE UNCHANGED siteVars BY <2>1, <2>2, <2>3 DEF siteVars
  <2>4. CASE BotNext
    <3>1. UNCHANGED signupVars BY <2>4 DEF BotNext
    <3> QED BY <2>2, <2>4, <3>1, BotStep
  <2>5. CASE SignupNext
    <3>1. UNCHANGED botVars BY <2>5 DEF SignupNext
    <3> QED BY <2>1, <2>5, <3>1, SignupStep
  <2> QED BY <2>3, <2>4, <2>5, PartsMove
<1> QED BY <1>1, <1>2, PTL DEF Spec

\* An acknowledged knock is served after any crash, who was told that they are
\* in the raffle is in it, what a person erased or gave stays so, and nobody
\* has more forms through in a window than the limit says.
THEOREM ServicesSoundAlways == Spec => []ServicesSound
<1>1. KnockInv /\ BotInv /\ SignupInv => ServicesSound
  BY KnockTells DEF BotInv, SignupInv, ServicesSound
<1> QED BY <1>1, KnockAlways, SiteAlways, PTL

\* The identity panel, for one account per browser.
LEMMA RecAlways == Alone => (Spec => []RecInv)
<1> SUFFICES ASSUME Alone PROVE Spec => []RecInv OBVIOUS
<1>1. Init => RecInv BY AppStarts, RecInitially
<1>2. RecInv /\ [Next]_appVars => RecInv'
  <2> SUFFICES ASSUME RecInv, [Next]_appVars PROVE RecInv' OBVIOUS
  <2>1. CASE UNCHANGED recVars
    <3>1. UNCHANGED <<ident, me, suiKp, session, signing, heals, panel, report, rec>> BY <2>1 DEF recVars
    <3>2. RecTypes' BY <3>1 DEF RecInv, RecTypes
    <3>3. AtWork' /\ HealsOwn' /\ RepairIsHonest' BY <3>1 DEF RecInv, AtWork, HealsOwn, RepairIsHonest
    <3> QED BY <3>2, <3>3 DEF RecInv
  <2> QED BY <2>1, PartsMove, RecStep
<1> QED BY <1>1, <1>2, PTL DEF Spec

LEMMA MemberAlways == Spec => []MemberInv
<1>1. Init => MemberInv BY AppStarts, MemberInitially
<1>2. MemberInv /\ [Next]_appVars => MemberInv' BY PartsMove, MemberStep
<1> QED BY <1>1, <1>2, PTL DEF Spec

LEMMA UnlockAlways == Spec => []UnlockInv
<1>1. Init => UnlockInv BY AppStarts, UnlockInitially
<1>2. UnlockInv /\ [Next]_appVars => UnlockInv'
  <2> SUFFICES ASSUME UnlockInv, [Next]_appVars PROVE UnlockInv' OBVIOUS
  <2>1. CASE UNCHANGED unlockVars
    <3>1. UNCHANGED <<burned, keptToken, verdict, postings, oks, storing, extToken>> BY <2>1 DEF unlockVars
    <3> QED BY <3>1 DEF UnlockInv, PaidTokens, AnswersFollow
  <2> QED BY <2>1, PartsMove, UnlockStep
<1> QED BY <1>1, <1>2, PTL DEF Spec

LEMMA PopupAlways == Spec => []PopupInv
<1>1. Init => PopupInv BY AppStarts, PopupInitially
<1>2. PopupInv /\ [Next]_appVars => PopupInv'
  <2> SUFFICES ASSUME PopupInv, [Next]_appVars PROVE PopupInv' OBVIOUS
  <2>1. CASE UNCHANGED popupVars
    <3>1. UNCHANGED <<hs, settings, view, restored, line, answers, finished, invited>> BY <2>1 DEF popupVars
    <3>2. PopupTypes' BY <3>1 DEF PopupInv, PopupTypes
    <3>3. Ordered' /\ Held' /\ Remembered' BY <3>1 DEF PopupInv, Ordered, Held, Remembered
    <3> QED BY <3>2, <3>3 DEF PopupInv
  <2> QED BY <2>1, PartsMove, PopupStep
<1> QED BY <1>1, <1>2, PTL DEF Spec

LEMMA BridgeAlways == Headroom => (Spec => []BridgeInv)
<1> SUFFICES ASSUME Headroom PROVE Spec => []BridgeInv OBVIOUS
<1>1. Init => BridgeInv BY AppStarts, BridgeInitially
<1>2. MemberInv /\ BridgeInv /\ [Next]_appVars => BridgeInv' BY PartsMove, BridgeStep
<1> QED BY <1>1, <1>2, MemberAlways, PTL DEF Spec

\* A repair that says so has repaired, the fee is taken once and what is told
\* of it is true, an unlock is one that was paid and burned, an invitation is
\* told of a key that is held; for one account per browser, and where what a
\* bridge is asked for suffices at the worst rate.
THEOREM IdentityIsHonestAlways == Alone /\ Headroom => (Spec => []IdentityIsHonest)
<1> SUFFICES ASSUME Alone, Headroom PROVE Spec => []IdentityIsHonest OBVIOUS
<1>1. RecInv /\ MemberInv /\ BridgeInv /\ UnlockInv /\ PopupInv => IdentityIsHonest
  <2> SUFFICES ASSUME RecInv, MemberInv, BridgeInv, UnlockInv, PopupInv PROVE IdentityIsHonest OBVIOUS
  <2>1. RepairIsHonest BY DEF RecInv
  <2>2. OneFee /\ DoneIsMember /\ RevertIsReal BY DEF MemberInv, Reverted, RevertIsReal
  <2> QED BY <2>1, <2>2, BridgeTells, UnlockTells, PopupTells DEF IdentityIsHonest
<1>2. Spec => []RecInv /\ []BridgeInv BY RecAlways, BridgeAlways
<1> QED BY <1>1, <1>2, MemberAlways, UnlockAlways, PopupAlways, PTL
=============================================================================
