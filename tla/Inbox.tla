------------------------------- MODULE Inbox -------------------------------
(***************************************************************************)
(* The messenger: the poll that lists the conversations and keeps the      *)
(* watermarks, the thread on the screen and its composer.                  *)
(* Source: app ui/Messenger.tsx, ui/Thread.tsx, lib/unread.ts, notify.ts.  *)
(***************************************************************************)
EXTENDS Integers, FiniteSets, FiniteSetsExt

CONSTANTS
  Peers, NoPeer,  \* NoPeer: no thread is open
  History,        \* messages of each peer that are older than FRESH_MS
  MaxIn,          \* bound on the messages of a peer, numbered by their time
  MaxTexts,       \* bound on the texts typed
  InboxFaults     \* subset of {"list", "empty", "gap", "send"}

ASSUME InboxAssumption == History \in Nat /\ MaxIn \in Nat /\ History <= MaxIn

VARIABLES
  mail_in,   \* peer -> inbound messages that can be read
  polls,     \* refreshes under way: [at, list]
  convos,    \* peer -> messages of its row
  marks,     \* what localStorage holds: <<>> or <<peer -> newest acknowledged>>
  unread,    \* peer -> messages counted unread
  active, visible,
  banners,   \* ghost: messages a notification named
  rendered,  \* ghost: messages some row had
  blind,     \* ghost: the marks were seeded by a poll that saw nothing
  failed,    \* ghost: the last poll failed
  thread     \* [conv, ticking, box, sending, after, err, typed, kept, lastFailed]

inboxVars == <<mail_in, polls, convos, marks, unread, active, visible, banners, rendered, blind, failed>>
threadVars == <<thread, active>>
mailVars == <<mail_in, polls, convos, marks, unread, visible, banners, rendered, blind, failed>>

InMail == 1..MaxIn
NoMail == [p \in Peers |-> {}]
Newest(s) == IF s = {} THEN 0 ELSE Max(s)
Pairs(f) == {b \in Peers \X InMail : b[2] \in f[b[1]]}

-----------------------------------------------------------------------------
(* The store, as the messenger sees it.                                    *)

Arrives(p) ==
  /\ \E m \in InMail \ mail_in[p] :
       /\ "gap" \in InboxFaults \/ m = Newest(mail_in[p]) + 1
       /\ mail_in' = [mail_in EXCEPT ![p] = @ \cup {m}]
  /\ UNCHANGED <<polls, convos, marks, unread, active, visible, banners, rendered, blind, failed>>

\* refresh begins: by the interval, a tab that is looked at, a sent message.
\* Nothing keeps two of them from overlapping.
PollStarts ==
  /\ Cardinality(polls) < 2
  /\ \E n \in {1, 2} \ {r.n : r \in polls} : polls' = polls \cup {[n |-> n, at |-> "reading", list |-> NoMail]}
  /\ UNCHANGED <<mail_in, convos, marks, unread, active, visible, banners, rendered, blind, failed>>

\* listConversations: a peer that cannot be read is left out, and a failed
\* discovery on a device without notes is an empty list.
PollReads(r) ==
  /\ r.at = "reading"
  /\ \E list \in {mail_in} \cup (IF "gap" \in InboxFaults THEN {[mail_in EXCEPT ![p] = {}] : p \in Peers} ELSE {})
                 \cup (IF "empty" \in InboxFaults THEN {NoMail} ELSE {}) :
       polls' = (polls \ {r}) \cup {[r EXCEPT !.at = IF list = mail_in THEN "whole" ELSE "partial", !.list = list]}
  /\ UNCHANGED <<mail_in, convos, marks, unread, active, visible, banners, rendered, blind, failed>>

\* seedWatermarks: all that is older than a few minutes counts as seen.
SeedWatermarks(list) == [p \in Peers |-> Newest({m \in list[p] : m <= History})]

\* unreadByPeer, past the watermark of each peer.
UnreadByPeer(list, m) == [p \in Peers |-> {x \in list[p] : x > m[p]}]

\* The synchronous rest of refresh: rows, seeding, what is open on a visible
\* screen is acknowledged, the rest is announced.  Mutant: the open thread is
\* marked with the time of the poll.
LandMarkingNow(r) ==
  /\ r.at \in {"whole", "partial"}
  /\ polls' = polls \ {r}
  /\ convos' = r.list
  /\ LET base == IF marks = <<>> THEN SeedWatermarks(r.list) ELSE marks[1]
         fresh == UnreadByPeer(r.list, base)
         read == {p \in Peers : fresh[p] # {} /\ visible /\ active = p} IN
     /\ marks' = <<[p \in Peers |-> IF p \in read THEN Newest(mail_in[p]) ELSE base[p]]>>
     /\ unread' = [p \in Peers |-> IF p \in read THEN {} ELSE fresh[p]]
     /\ banners' = banners \cup Pairs(unread')
  /\ rendered' = rendered \cup Pairs(r.list)
  /\ blind' = (blind \/ (marks = <<>> /\ r.at = "partial"))
  /\ failed' = FALSE
  /\ UNCHANGED <<mail_in, active, visible>>
PollLands(r) ==
  /\ r.at \in {"whole", "partial"}
  /\ polls' = polls \ {r}
  /\ convos' = r.list
  /\ LET base == IF marks = <<>> THEN SeedWatermarks(r.list) ELSE marks[1]
         fresh == UnreadByPeer(r.list, base)
         read == {p \in Peers : fresh[p] # {} /\ visible /\ active = p} IN
     /\ marks' = <<[p \in Peers |-> IF p \in read THEN Newest(fresh[p]) ELSE base[p]]>>
     /\ unread' = [p \in Peers |-> IF p \in read THEN {} ELSE fresh[p]]
     /\ banners' = banners \cup Pairs(unread')
  /\ rendered' = rendered \cup Pairs(r.list)
  /\ blind' = (blind \/ (marks = <<>> /\ r.at = "partial"))
  /\ failed' = FALSE
  /\ UNCHANGED <<mail_in, active, visible>>

\* listConversations throws: the rows stay, all else runs on an empty list.
PollThrows(r) ==
  /\ "list" \in InboxFaults /\ r.at = "reading"
  /\ polls' = polls \ {r}
  /\ marks' = IF marks = <<>> THEN <<SeedWatermarks(NoMail)>> ELSE marks
  /\ unread' = NoMail
  /\ blind' = (blind \/ marks = <<>>)
  /\ failed' = TRUE
  /\ UNCHANGED <<mail_in, convos, active, visible, banners, rendered>>

\* openPeer acknowledges what the row has.
OpenPeer(p) ==
  /\ active' = p
  /\ IF convos[p] = {} THEN UNCHANGED <<marks, unread>>
     ELSE /\ marks' = <<[(IF marks = <<>> THEN [q \in Peers |-> 0] ELSE marks[1]) EXCEPT ![p] = Newest(convos[p])]>>
          /\ unread' = [unread EXCEPT ![p] = {}]
  /\ UNCHANGED <<mail_in, polls, convos, visible, banners, rendered, blind, failed>>

Look == visible' = ~visible /\ UNCHANGED <<mail_in, polls, convos, marks, unread, active, banners, rendered, blind, failed>>

InboxNext ==
  \/ PollStarts \/ Look
  \/ \E p \in Peers : Arrives(p) \/ OpenPeer(p)
  \/ \E r \in polls : PollReads(r) \/ PollLands(r) \/ PollThrows(r)

-----------------------------------------------------------------------------
(* The thread.  One component serves every peer: what it holds stays when  *)
(* the peer changes, and a load or a send goes on for the peer it began    *)
(* with.                                                                   *)

NoText == [for |-> NoPeer, n |-> 0]
NoThread == [conv |-> NoPeer, ticking |-> NoPeer, box |-> NoText, sending |-> NoText, to |-> NoPeer,
             after |-> NoPeer, err |-> FALSE, typed |-> 0, kept |-> {}, lastFailed |-> FALSE]

ShowPeer(p) == active' = p /\ UNCHANGED thread

\* The 3 s tick, not while one is under way.
ThreadTick ==
  /\ active # NoPeer /\ thread.ticking = NoPeer
  /\ thread' = [thread EXCEPT !.ticking = active]
  /\ UNCHANGED active

\* load: the conversation, or the error line of its own.  Mutant: one error
\* line for loads and sends.
TickClearsError ==
  /\ thread.ticking # NoPeer
  /\ \/ thread' = [thread EXCEPT !.ticking = NoPeer, !.conv = thread.ticking, !.err = FALSE]
     \/ "list" \in InboxFaults /\ thread' = [thread EXCEPT !.ticking = NoPeer]
  /\ UNCHANGED active
TickLands ==
  /\ thread.ticking # NoPeer
  /\ \/ thread' = [thread EXCEPT !.ticking = NoPeer, !.conv = thread.ticking]
     \/ "list" \in InboxFaults /\ thread' = [thread EXCEPT !.ticking = NoPeer]
  /\ UNCHANGED active

Type ==
  /\ active # NoPeer /\ thread.typed < MaxTexts
  /\ thread' = [thread EXCEPT !.typed = @ + 1, !.box = [for |-> active, n |-> thread.typed + 1]]
  /\ UNCHANGED active

Submit ==
  /\ active # NoPeer /\ thread.box # NoText /\ thread.sending = NoText /\ thread.after = NoPeer
  /\ thread' = [thread EXCEPT !.sending = thread.box, !.to = active, !.box = NoText, !.err = FALSE, !.lastFailed = FALSE]
  /\ UNCHANGED active

\* Stored; the thread is loaded once more before the composer is free.
SendEnds ==
  /\ thread.sending # NoText
  /\ thread' = [thread EXCEPT !.kept = @ \cup {[text |-> thread.sending, to |-> thread.to]},
                              !.sending = NoText, !.to = NoPeer, !.after = thread.to]
  /\ UNCHANGED active

LoadAfterSend ==
  /\ thread.after # NoPeer
  /\ thread' = [thread EXCEPT !.after = NoPeer, !.conv = thread.after]
  /\ UNCHANGED active

SendFails ==
  /\ "send" \in InboxFaults /\ thread.sending # NoText
  /\ thread' = [thread EXCEPT !.box = thread.sending, !.sending = NoText, !.to = NoPeer, !.err = TRUE, !.lastFailed = TRUE]
  /\ UNCHANGED active

ThreadNext ==
  \/ (\E p \in Peers : ShowPeer(p))
  \/ ThreadTick \/ TickLands \/ Type \/ Submit \/ SendEnds \/ LoadAfterSend \/ SendFails

InboxInit ==
  /\ mail_in = [p \in Peers |-> 1..History]
  /\ polls = {} /\ convos = NoMail /\ marks = <<>> /\ unread = NoMail
  /\ active = NoPeer /\ visible = TRUE
  /\ banners = {} /\ rendered = {} /\ blind = FALSE /\ failed = FALSE
  /\ thread = NoThread

-----------------------------------------------------------------------------
\* A mark covers only messages that some list had when it was rendered, so
\* none is acknowledged that nobody could have seen; a count is of the row's
\* messages past the mark; and history is silent, unless the first poll of
\* the device saw nothing of it.
UnreadIsHonest ==
  /\ marks # <<>> => \A p \in Peers : \A m \in mail_in[p] : m <= marks[1][p] => <<p, m>> \in rendered
  /\ (marks # <<>> /\ ~failed) => unread = UnreadByPeer(convos, marks[1])
  /\ ~blind => \A b \in banners : b[2] > History

\* The report of a failed send stays until the next one.
FailureStays == thread.lastFailed => thread.err
=============================================================================
