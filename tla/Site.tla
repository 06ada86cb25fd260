-------------------------------- MODULE Site --------------------------------
(***************************************************************************)
(* The website's back end: functions without memory around one database.   *)
(* Telegram's updates of one person may be handled at once, each as a row  *)
(* of SQL statements; sign-ups are limited per caller and window; an       *)
(* administrator acts on the rows of a page loaded earlier.                *)
(***************************************************************************)
EXTENDS Integers, Sequences, FiniteSets, FiniteSetsExt

CONSTANTS
  Chats,       \* people who talk to the bot
  XHandles,    \* what they enter the raffle with
  Null,      \* SQL's NULL
  Tapped,      \* bound: the steps whose buttons are tapped
  MaxUpdates,  \* updates delivered, over a behaviour
  Callers,     \* addresses the sign-up forms come from
  Emails, Telegrams, \* what is given in them
  RateMax,     \* [scope -> sign-ups a caller has per window]
  MaxForms,    \* forms sent, over a behaviour
  MaxTime      \* time; a window is 1, a day 2

ASSUME SiteAssumption == Null \notin XHandles /\ RateMax \in [{"waitlist", "alpha"} -> Nat] /\ MaxTime \in Nat

VARIABLES
  bot,      \* bot_users: [person -> row or Absent]
  work,     \* the statements that a handler still has to run
  answered,     \* the entry a person was told of, since they last erased it
  gone,     \* who was told that nothing is held, and has not written since
  tangled,  \* who wrote while their own /delete was at work
  waitlist, \* [email -> Absent or [telegram]]
  alpha,    \* [handle -> Absent or [id, status]]
  limit,    \* rate_limit: [<<caller, scope>> -> Absent or [count, start]]
  passed,   \* forms the limiter let through, per caller, scope and window
  forms,    \* sign-ups under way
  given,    \* emails whose row got a handle
  page,     \* rows the administrator's page shows
  meant,    \* the status an administrator gave a person's present row
  sent, time, nextId
botVars == <<bot, work, answered, gone, tangled>>
signupVars == <<waitlist, alpha, limit, passed, forms, given, page, meant, sent, time, nextId>>
siteVars == <<botVars, signupVars>>

Absent == [absent |-> TRUE]
Scopes == {"waitlist", "alpha"}

-----------------------------------------------------------------------------
(* The bot's statements. *)
NewRow == [step |-> "welcome", source |-> Null, x |-> Null, note |-> FALSE]

\* Mutant: INSERT OR REPLACE.
SeenAnew(u, source) == bot' = [bot EXCEPT ![u] = [NewRow EXCEPT !.source = source]]
\* An upsert that writes the source once.
Seen(u, source) ==
  bot' = [bot EXCEPT ![u] = IF bot[u] = Absent THEN [NewRow EXCEPT !.source = source]
                            ELSE IF bot[u].source = Null THEN [bot[u] EXCEPT !.source = source] ELSE bot[u]]
\* An UPDATE of a row that is not there changes nothing.
Write(u, field, value) ==
  bot' = IF bot[u] = Absent THEN bot ELSE [bot EXCEPT ![u][field] = value]

\* Where the buttons of each screen lead: forward and back, never to "done".  A
\* button works in whichever message of the chat it stands.
Screens == [welcome |-> {"download"}, download |-> {"load", "welcome"}, load |-> {"run", "download"},
            run |-> {"raffle", "load"}, raffle |-> {"run"}, done |-> {}]
Buttons == UNION {Screens[s] : s \in DOMAIN Screens} \cap Tapped

\* What a handler runs, by what the person sent.
Statements(kind, arg) ==
  CASE kind = "tap" -> <<<<"seen", Null>>, <<"step", arg>>>>
    [] kind = "start" -> <<<<"seen", arg>>, <<"step", "welcome">>>>
    [] kind = "delete" -> <<<<"forget", Null>>>>
    [] kind = "text" -> <<<<"seen", Null>>, <<"stepOf", arg>>>>
    [] OTHER -> <<<<"seen", Null>>, <<"note", TRUE>>>>

InFlight(u) == {n \in DOMAIN work : work[n].user = u /\ work[n].todo # <<>>}

\* handleUpdate begins; /privacy runs no statement and is left out.
Update(u, kind, arg) ==
  /\ Len(work) < MaxUpdates
  /\ work' = Append(work, [user |-> u, todo |-> Statements(kind, arg), entry |-> Null])
  /\ tangled' = IF InFlight(u) # {} /\ (kind = "delete" \/ \E n \in InFlight(u) : work[n].todo[1][1] = "forget")
                THEN tangled \cup {u} ELSE tangled
  /\ gone' = gone \ {u}
  /\ UNCHANGED <<bot, answered>>

\* Mutant: the step first.
StepFirst(h) == <<<<"step", "done">>, <<"enter", h>>>>
\* The raffle entry and the step that says so, in this order.
EntryStatements(h) == <<<<"enter", h>>, <<"step", "done">>>>

\* The next statement of a handler.
Run(n) ==
  LET w == work[n]
      u == w.user
      op == Head(w.todo)[1]
      arg == Head(w.todo)[2]
      over == Len(w.todo) = 1
      Goes(todo, entry) == work' = [work EXCEPT ![n].todo = todo, ![n].entry = entry]
  IN
  /\ w.todo # <<>>
  /\ \/ op = "seen" /\ Seen(u, arg) /\ Goes(Tail(w.todo), w.entry)
     \/ op = "step" /\ Write(u, "step", arg) /\ Goes(Tail(w.todo), w.entry)
     \/ op = "note" /\ Write(u, "note", TRUE) /\ Goes(Tail(w.todo), w.entry)
     \/ op = "enter" /\ Write(u, "x", arg) /\ Goes(Tail(w.todo), w.entry)
     \/ /\ op = "stepOf" /\ UNCHANGED bot
        /\ IF bot[u] # Absent /\ bot[u].step = "raffle"
           THEN Goes(EntryStatements(arg), arg) ELSE Goes(<<<<"note", TRUE>>>>, Null)
     \/ op = "forget" /\ bot' = [bot EXCEPT ![u] = Absent] /\ Goes(<<>>, Null)
  /\ answered' = IF op = "forget" THEN [answered EXCEPT ![u] = Null]
             ELSE IF over /\ w.entry # Null THEN [answered EXCEPT ![u] = w.entry] ELSE answered
  /\ gone' = IF op = "forget" THEN gone \cup {u} ELSE gone
  /\ UNCHANGED tangled

\* The database or Telegram fails: the handler ends, and Telegram is told 200.
Abandon(n) ==
  /\ work[n].todo # <<>>
  /\ work' = [work EXCEPT ![n].todo = <<>>]
  /\ UNCHANGED <<bot, answered, gone, tangled>>

BotNext ==
  /\ \/ \E u \in Chats :
          \/ \E s \in Buttons : Update(u, "tap", s)
          \/ \E s \in {Null, "site"} : Update(u, "start", s)
          \/ \E h \in XHandles : Update(u, "text", h)
          \/ Update(u, "delete", Null) \/ Update(u, "words", Null)
     \/ \E n \in DOMAIN work : Run(n) \/ Abandon(n)
  /\ UNCHANGED signupVars

-----------------------------------------------------------------------------
(* The sign-up forms and the administrator. *)

\* One statement counts a caller: a window that is over begins anew.
\* Mutant: a caller that was refused gets a new window.
Reopened(c, scope) ==
  LET l == limit[<<c, scope>>] IN
  IF l = Absent \/ l.start < time - 1 \/ l.count > RateMax[scope] THEN [count |-> 1, start |-> time]
  ELSE [l EXCEPT !.count = @ + 1]
Counted(c, scope) ==
  LET l == limit[<<c, scope>>] IN
  IF l = Absent \/ l.start < time - 1 THEN [count |-> 1, start |-> time] ELSE [l EXCEPT !.count = @ + 1]

\* Only a handle or an address that can be one is taken.
WellFormed(telegram) == telegram # "bad"

\* A form arrives; at times rows of the day before are cleared away.  What
\* is over the limit or not well formed is answered at once.
SignUp(c, scope, key, telegram) ==
  LET l == Counted(c, scope) IN
  /\ sent < MaxForms /\ sent' = sent + 1
  /\ \E clear \in BOOLEAN :
       limit' = [x \in DOMAIN limit |->
                   IF x = <<c, scope>> THEN l
                   ELSE IF clear /\ limit[x] # Absent /\ limit[x].start < time - 2 THEN Absent ELSE limit[x]]
  /\ passed' = IF l.count > RateMax[scope] THEN passed ELSE [passed EXCEPT ![<<c, scope, l.start>>] = @ + 1]
  /\ forms' = IF l.count > RateMax[scope] \/ ~WellFormed(telegram) THEN forms
              ELSE forms \cup {[no |-> sent, scope |-> scope, key |-> key, telegram |-> telegram]}
  /\ UNCHANGED <<waitlist, alpha, given, meant, page, time, nextId>>

\* A serial key is never given twice.
\* Mutant: the lowest key that is free.
LowestFree == Min({i \in 1..(MaxForms + 1) : \A t \in Telegrams : alpha[t] = Absent \/ alpha[t].id # i})
FreshId == nextId

\* Upserts that neither blank a handle nor undo an invitation; INSERT takes a
\* key from the sequence also when the row is there.
\* Mutant: the later form replaces the row.
BlankingRow(f) == [telegram |-> f.telegram]
WaitlistRow(f) ==
  [telegram |-> IF f.telegram = Null /\ waitlist[f.key] # Absent THEN waitlist[f.key].telegram ELSE f.telegram]
FormLands(f) ==
  /\ forms' = forms \ {f}
  /\ IF f.scope = "waitlist"
     THEN /\ waitlist' = [waitlist EXCEPT ![f.key] = WaitlistRow(f)]
          /\ given' = IF f.telegram = Null THEN given ELSE given \cup {f.key}
          /\ UNCHANGED <<alpha, nextId>>
     ELSE /\ alpha' = IF alpha[f.key] # Absent THEN alpha
                      ELSE [alpha EXCEPT ![f.key] = [id |-> FreshId, status |-> "new"]]
          /\ nextId' = nextId + 1
          /\ UNCHANGED <<waitlist, given>>
  /\ UNCHANGED <<limit, passed, sent, meant, page, time>>
FormFails(f) == forms' = forms \ {f} /\ UNCHANGED <<waitlist, alpha, given, limit, passed, sent, meant, page, time, nextId>>

AdminLoads ==
  /\ page' = {[telegram |-> t, id |-> alpha[t].id] : t \in {u \in Telegrams : alpha[u] # Absent}}
  /\ UNCHANGED <<waitlist, alpha, given, limit, passed, sent, forms, meant, time, nextId>>
\* A row is named by its key, as the page showed it.
AdminSets(r, status) ==
  /\ alpha' = [t \in Telegrams |-> IF alpha[t] # Absent /\ alpha[t].id = r.id
                                   THEN [alpha[t] EXCEPT !.status = status] ELSE alpha[t]]
  /\ meant' = IF alpha[r.telegram] # Absent /\ alpha[r.telegram].id = r.id
              THEN [meant EXCEPT ![r.telegram] = status] ELSE meant
  /\ UNCHANGED <<waitlist, given, limit, passed, sent, forms, page, time, nextId>>
AdminDeletes(r) ==
  /\ alpha' = [t \in Telegrams |-> IF alpha[t] # Absent /\ alpha[t].id = r.id THEN Absent ELSE alpha[t]]
  /\ meant' = [t \in Telegrams |-> IF alpha'[t] = Absent THEN "new" ELSE meant[t]]
  /\ UNCHANGED <<waitlist, given, limit, passed, sent, forms, page, time, nextId>>
AdminDropsEmail(e) ==
  /\ waitlist' = [waitlist EXCEPT ![e] = Absent] /\ given' = given \ {e}
  /\ UNCHANGED <<alpha, limit, passed, sent, forms, meant, page, time, nextId>>

WindowPasses ==
  /\ time < MaxTime /\ time' = time + 1
  /\ UNCHANGED <<waitlist, alpha, given, limit, passed, sent, forms, meant, page, nextId>>

SignupNext ==
  /\ \/ \E c \in Callers :
          \/ \E e \in Emails, t \in Telegrams \cup {Null, "bad"} : SignUp(c, "waitlist", e, t)
          \/ \E t \in Telegrams : SignUp(c, "alpha", t, t)
     \/ \E f \in forms : FormLands(f) \/ FormFails(f)
     \/ AdminLoads \/ WindowPasses
     \/ \E r \in page : AdminDeletes(r) \/ \E s \in {"new", "invited", "onboarded"} : AdminSets(r, s)
     \/ \E e \in Emails : AdminDropsEmail(e)
  /\ UNCHANGED botVars

SiteInit ==
  /\ bot = [u \in Chats |-> Absent] /\ work = <<>> /\ tangled = {} /\ gone = {}
  /\ answered = [u \in Chats |-> Null]
  /\ waitlist = [e \in Emails |-> Absent] /\ alpha = [t \in Telegrams |-> Absent]
  /\ limit = [x \in Callers \X Scopes |-> Absent]
  /\ passed = [x \in Callers \X Scopes \X (0..MaxTime) |-> 0]
  /\ forms = {} /\ sent = 0 /\ given = {} /\ page = {} /\ time = 0 /\ nextId = 1
  /\ meant = [t \in Telegrams |-> "new"]

-----------------------------------------------------------------------------
\* Whoever was told that they are in the raffle is in it, and a person whose
\* setup counts as done has entered, whatever they tap meanwhile and wherever a
\* handler stops; what a person erased stays away until they write again.
\* (Not for someone who writes while their own /delete is at work.)
EntryKept == \A u \in Chats \ tangled : answered[u] # Null => bot[u] # Absent /\ bot[u].x # Null
DoneIsEntered == \A u \in Chats \ tangled : bot[u] # Absent /\ bot[u].step = "done" => bot[u].x # Null
GoneIsGone == \A u \in gone \ tangled : bot[u] = Absent

\* A handle once given is not blanked by a later form; a status is what the
\* administrator set for this person, after more forms and from an old page.
HandleKept == \A e \in given : waitlist[e] # Absent /\ waitlist[e].telegram # Null
StatusIsMeant == \A t \in Telegrams : alpha[t] # Absent => alpha[t].status = meant[t]

\* A caller gets no more forms through in a window than the limit says.
RateHolds == \A x \in DOMAIN passed : passed[x] <= RateMax[x[2]]
=============================================================================
