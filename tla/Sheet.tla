------------------------------- MODULE Sheet -------------------------------
(***************************************************************************)
(* The compose sheet of the universal extension and the box on the page it *)
(* writes to.  The author may go on typing, editing the rules, moving from *)
(* box to box and pressing the shortcut while a post is being locked.      *)
(* Source: extension-everywhere/src/sheet/sheet.ts, content/index.ts and   *)
(* content/insert.ts.                                                      *)
(***************************************************************************)
EXTENDS Integers, Sequences, FiniteSets, TLC

CONSTANTS
  Known,       \* spaces that exist on ENS
  Labels,      \* other names that the author may type
  Collections, \* those that have an NFT collection
  Passphrases,     \* passphrases
  Texts,       \* messages
  Boxes,       \* editable boxes of the page
  GateRuns,    \* the checks that the gate runs
  Ready,       \* the presets the author picks from
  MaxRules,    \* rules in the builder
  MaxMoves,    \* bound on changes of the rules and presses of Hide & insert
  MaxFrames,   \* bound on the frames opened in a behaviour
  SheetFaults  \* subset of {"ens", "gate", "codec", "editor"}

VARIABLES
  groups,    \* the rules: a set (and) of sets (or) of drafts
  edits,     \* how often they were changed
  lastWho,   \* storage.local: the preset chosen last
  booted,    \* the sheet has read its storage
  msg,       \* the text in the sheet
  signAs,    \* the space to sign as, "" for none
  goes,      \* calls of go in progress
  presses,   \* how many there were
  covers,    \* ghost: the texts of the posts encoded so far, a cover is its index
  lastCover, \* the cover that the Insert button sends
  verdict,   \* the status line: "", "failed", "inserted", "homeless"
  frameNo,   \* the open frame, 0 if none
  frames,    \* frames opened so far
  toPage,    \* messages of the frames to the page
  target,    \* the box that the cover goes to, "none" before there is one
  boxes,     \* what each box on the page holds, "gone" when there is no such box
  joined,    \* passphrases sent to the keyring
  pressed,   \* ghost: the text of the last press
  touched    \* ghost: the author typed since, while a post was being locked

sheetVars == <<groups, edits, lastWho, booted, msg, signAs, goes, presses, covers, lastCover, verdict,
               frameNo, frames, toPage, target, boxes, joined, pressed, touched>>

Draft(c, a) == [check |-> c, arg |-> a]
Public == Draft("public", "")
SpaceRules == {"nft", "member"}

\* What the author may put into the one input of a rule.
ArgsOf(c) == CASE c = "passphrase" -> Passphrases
               [] c \in SpaceRules -> Labels \cup Known \cup {""}
               [] c = "citizen" -> {"", "SVK"}
               [] c = "after" -> {"", "date"}
               [] OTHER -> {""}

\* The drafts a rule starts from: random words, one of the author's own spaces.
FreshDrafts(c) ==
  CASE c = "passphrase" -> {Draft(c, w) : w \in Passphrases}
    [] c = "after" -> {Draft(c, "date")}
    [] c \in SpaceRules -> {Draft(c, l) : l \in {""} \cup Known}
    [] OTHER -> {Draft(c, "")}

PresetGroups(p) ==
  CASE p = "humanOrPass" -> {"human", "passphrase"}
    [] p = "citizens" -> {"citizen"}
    [] p = "holders" -> {"nft"}
    [] p = "spacehumans" -> {"member"}
    [] OTHER -> {p}

Drafts == UNION groups

\* leaf throws on a rule whose input is missing.
Complete(d) == d.check \in {"nft", "citizen", "after"} => d.arg # ""

GateCheck(d) == IF d.check \in {"human", "member", "citizen"} THEN "human" ELSE d.check
Gated(policy) == {GateCheck(d) : d \in UNION policy} \cap {"after", "human", "nft"}

Busy == goes # {}
SheetOpen == frameNo # 0

-----------------------------------------------------------------------------
(* The author.                                                             *)

CountEdit == edits + presses < MaxMoves /\ edits' = edits + 1

StartFrom(p) ==
  \E G \in SUBSET UNION {FreshDrafts(c) : c \in PresetGroups(p)} :
    /\ \A c \in PresetGroups(p) : Cardinality(G \cap FreshDrafts(c)) = 1
    /\ groups' = {G}

\* The storage was read: the sheet starts from the preset chosen last.
Boot ==
  /\ SheetOpen /\ ~booted
  /\ booted' = TRUE
  /\ StartFrom(lastWho)
  /\ UNCHANGED <<edits, lastWho, msg, signAs, goes, presses, covers, lastCover, verdict, frameNo,
                 frames, toPage, target, boxes, joined, pressed, touched>>

ChoosePreset ==
  /\ SheetOpen /\ booted
  /\ CountEdit
  /\ \E p \in Ready : lastWho' = p /\ StartFrom(p)
  /\ UNCHANGED <<booted, msg, signAs, goes, presses, covers, lastCover, verdict, frameNo, frames,
                 toPage, target, boxes, joined, pressed, touched>>

\* The builder adds a rule to a group, or as a group of its own.
AddRule ==
  /\ SheetOpen
  /\ CountEdit
  /\ Cardinality(Drafts) < MaxRules
  /\ \E G \in groups \cup {{}}, d \in UNION {FreshDrafts(c) : c \in UNION {PresetGroups(p) : p \in Ready}} :
       groups' = (groups \ {G}) \cup {G \cup {d}}
  /\ UNCHANGED <<lastWho, booted, msg, signAs, goes, presses, covers, lastCover, verdict, frameNo, frames,
                 toPage, target, boxes, joined, pressed, touched>>

\* Removing the last rule leaves "anyone with lortnoc".
RemoveRule ==
  /\ SheetOpen
  /\ CountEdit
  /\ \E G \in groups : \E d \in G :
       LET rest == ((groups \ {G}) \cup {G \ {d}}) \ {{}} IN
       groups' = IF rest = {} THEN {{Public}} ELSE rest
  /\ UNCHANGED <<lastWho, booted, msg, signAs, goes, presses, covers, lastCover, verdict, frameNo, frames,
                 toPage, target, boxes, joined, pressed, touched>>

\* A running call holds the same drafts as the builder and sees the edit.
EditRule ==
  /\ SheetOpen
  /\ CountEdit
  /\ \E d \in Drafts : \E a \in ArgsOf(d.check) \ {d.arg} :
       LET Edited(G) == {IF e = d THEN Draft(d.check, a) ELSE e : e \in G} IN
       /\ groups' = {Edited(G) : G \in groups}
       /\ goes' = {[g EXCEPT !.todo = Edited(@)] : g \in goes}
  /\ UNCHANGED <<lastWho, booted, msg, signAs, presses, covers, lastCover, verdict, frameNo, frames,
                 toPage, target, boxes, joined, pressed, touched>>

Type ==
  /\ SheetOpen
  /\ \E t \in Texts \ {msg} : msg' = t
  /\ touched' = Busy
  /\ pressed' = IF Busy THEN pressed ELSE ""
  /\ UNCHANGED <<groups, edits, lastWho, booted, signAs, goes, presses, covers, lastCover, verdict, frameNo,
                 frames, toPage, target, boxes, joined>>

ToggleSign ==
  /\ SheetOpen
  /\ \E s \in Known : signAs' = IF signAs = "" THEN s ELSE ""
  /\ UNCHANGED <<groups, edits, lastWho, booted, msg, goes, presses, covers, lastCover, verdict, frameNo,
                 frames, toPage, target, boxes, joined, pressed, touched>>

-----------------------------------------------------------------------------
(* go: every await ends a step.  The rules are read again after the spaces *)
(* were looked up, and once more after the post was sealed.                *)

\* The checkbox is read once the gate answered.
ReadSign(g) == [g EXCEPT !.signed = signAs, !.at = IF signAs = "" THEN "seal" ELSE "sign"]

\* What becomes of a call that has looked up its last space; nothing if a
\* rule is incomplete.
BuildPolicy(g) ==
  IF \E d \in Drafts : ~Complete(d) THEN {}
  ELSE LET built == [g EXCEPT !.policy = groups] IN
       {IF Gated(groups) = {} THEN ReadSign(built) ELSE [built EXCEPT !.at = "gate"]}

Fail(g) == goes' = goes \ {g} /\ verdict' = "failed"
Becomes(g, after) ==
  /\ goes' = (goes \ {g}) \cup after
  /\ verdict' = IF after = {} THEN "failed" ELSE ""

Go ==
  /\ SheetOpen
  /\ msg # ""
  /\ edits + presses < MaxMoves
  /\ presses' = presses + 1
  /\ LET todo == {d \in Drafts : d.check \in SpaceRules}
         g == [n |-> presses', at |-> "spaces", text |-> msg, todo |-> todo,
               policy |-> {}, signed |-> ""] IN
     Becomes(g, IF todo = {} THEN BuildPolicy(g) ELSE {g})
  /\ pressed' = msg /\ touched' = (touched /\ Busy)
  /\ UNCHANGED <<groups, edits, lastWho, booted, msg, signAs, covers, lastCover, frameNo, frames, toPage,
                 target, boxes, joined>>

\* SPACE_INFO of one rule, with the name as it reads when its turn comes.  An
\* error of the lookup itself does not stop the post.
SpaceStops(d) ==
  \/ d.check = "nft" /\ d.arg = ""
  \/ d.arg # "" /\ d.arg \notin Known
  \/ d.arg # "" /\ d.check = "nft" /\ d.arg \notin Collections

LookUpSpace(g) ==
  /\ g.at = "spaces"
  /\ \E d \in g.todo :
       LET next == [g EXCEPT !.todo = @ \ {d}]
           Passed == Becomes(g, IF next.todo = {} THEN BuildPolicy(next) ELSE {next}) IN
       \/ SpaceStops(d) /\ Fail(g)
       \/ ~SpaceStops(d) /\ Passed
       \/ "ens" \in SheetFaults /\ d.arg # "" /\ Passed
  /\ UNCHANGED <<groups, edits, lastWho, booted, msg, signAs, presses, covers, lastCover, frameNo, frames,
                 toPage, target, boxes, joined, pressed, touched>>

\* GATE_HEALTH.  Mutant: the checks of the rules as they are now.
HealthOfTheLiveRules(g) ==
  /\ g.at = "gate"
  /\ \/ "gate" \in SheetFaults /\ Fail(g)
     \/ ~(Gated(groups) \subseteq GateRuns) /\ Fail(g)
     \/ Gated(groups) \subseteq GateRuns /\ Becomes(g, {ReadSign(g)})
  /\ UNCHANGED <<groups, edits, lastWho, booted, msg, signAs, presses, covers, lastCover, frameNo, frames,
                 toPage, target, boxes, joined, pressed, touched>>
Health(g) ==
  /\ g.at = "gate"
  /\ \/ "gate" \in SheetFaults /\ Fail(g)
     \/ ~(Gated(g.policy) \subseteq GateRuns) /\ Fail(g)
     \/ Gated(g.policy) \subseteq GateRuns /\ Becomes(g, {ReadSign(g)})
  /\ UNCHANGED <<groups, edits, lastWho, booted, msg, signAs, presses, covers, lastCover, frameNo, frames,
                 toPage, target, boxes, joined, pressed, touched>>

\* attestAsMember: the gate may refuse to sign.
SignAsMember(g) ==
  /\ g.at = "sign"
  /\ \/ Fail(g)
     \/ Becomes(g, {[g EXCEPT !.at = "seal"]})
  /\ UNCHANGED <<groups, edits, lastWho, booted, msg, signAs, presses, covers, lastCover, frameNo, frames,
                 toPage, target, boxes, joined, pressed, touched>>

\* sealPost deposits key shares at the gate.  Then the passphrases of the
\* rules go to the keyring.
LockPost(g) ==
  /\ g.at = "seal"
  /\ \/ "gate" \in SheetFaults /\ Gated(g.policy) # {} /\ Fail(g) /\ UNCHANGED joined
     \/ /\ Becomes(g, {[g EXCEPT !.at = "encode"]})
        /\ joined' = joined \cup {d.arg : d \in {d \in Drafts : d.check = "passphrase"}}
  /\ UNCHANGED <<groups, edits, lastWho, booted, msg, signAs, presses, covers, lastCover, frameNo, frames,
                 toPage, target, boxes, pressed, touched>>

\* The cover is sent to the page and the text cleared.  Mutant: the text is
\* cleared whether or not the codec answered.
CoverAndForget(g) ==
  /\ g.at = "encode"
  /\ msg' = ""
  /\ \/ "codec" \in SheetFaults /\ Fail(g) /\ UNCHANGED <<covers, lastCover, toPage>>
     \/ /\ Becomes(g, {}) /\ covers' = Append(covers, g.text)
        /\ lastCover' = Len(covers')
        /\ toPage' = Append(toPage, [from |-> frameNo, cover |-> lastCover'])
  /\ UNCHANGED <<groups, edits, lastWho, booted, signAs, presses, frameNo, frames, target, boxes, joined, pressed, touched>>
SendCover(g) ==
  /\ g.at = "encode"
  /\ \/ "codec" \in SheetFaults /\ Fail(g) /\ UNCHANGED <<covers, lastCover, msg, toPage>>
     \/ /\ goes' = goes \ {g}
        /\ verdict' = ""
        /\ covers' = Append(covers, g.text)
        /\ lastCover' = Len(covers')
        /\ toPage' = Append(toPage, [from |-> frameNo, cover |-> lastCover'])
        /\ msg' = ""
  /\ UNCHANGED <<groups, edits, lastWho, booted, signAs, presses, frameNo, frames, target, boxes, joined, pressed, touched>>

\* Offered after an insert that failed.
InsertAgain ==
  /\ SheetOpen /\ verdict = "homeless" /\ toPage = <<>>
  /\ toPage' = Append(toPage, [from |-> frameNo, cover |-> lastCover])
  /\ UNCHANGED <<groups, edits, lastWho, booted, msg, signAs, goes, presses, covers, lastCover, verdict,
                 frameNo, frames, target, boxes, joined, pressed, touched>>

-----------------------------------------------------------------------------
(* The page: frames, boxes and the insertion.                              *)

\* Until it is booted a frame holds "anyone with lortnoc"; one that is removed takes
\* its calls with it.
FreshSheet ==
  /\ groups' = {{Public}} /\ booted' = FALSE
  /\ msg' = "" /\ signAs' = "" /\ goes' = {} /\ lastCover' = 0 /\ verdict' = ""
  /\ pressed' = "" /\ touched' = FALSE

\* The shortcut, the popup or the pill: the sheet is aimed at the box in use.
OpenSheet ==
  /\ frames < MaxFrames
  /\ frames' = frames + 1 /\ frameNo' = frames'
  /\ \E b \in {b \in Boxes : boxes[b] # "gone"} \cup {"none"} : target' = b
  /\ FreshSheet
  /\ UNCHANGED <<edits, lastWho, presses, covers, toPage, boxes, joined>>

CloseSheet ==
  /\ SheetOpen
  /\ frameNo' = 0
  /\ FreshSheet
  /\ UNCHANGED <<edits, lastWho, presses, covers, frames, toPage, target, boxes, joined>>

FocusBox ==
  /\ SheetOpen
  /\ \E b \in Boxes \ {target} : boxes[b] # "gone" /\ target' = b
  /\ UNCHANGED <<groups, edits, lastWho, booted, msg, signAs, goes, presses, covers, lastCover, verdict,
                 frameNo, frames, toPage, boxes, joined, pressed, touched>>

BoxGoes ==
  /\ \E b \in Boxes : boxes[b] # "gone" /\ boxes' = [boxes EXCEPT ![b] = "gone"]
  /\ UNCHANGED <<groups, edits, lastWho, booted, msg, signAs, goes, presses, covers, lastCover, verdict,
                 frameNo, frames, toPage, target, joined, pressed, touched>>

\* onFrameMessage and insertCover.  The answer reaches the frame that is open.
\* Mutant: messages of a frame that was replaced count too.
AnyFrameInserts ==
  /\ toPage # <<>>
  /\ toPage' = Tail(toPage)
  /\ LET m == Head(toPage) IN
     IF ~SheetOpen THEN UNCHANGED <<boxes, verdict>>
     ELSE \/ /\ boxes[target] # "gone"
             /\ boxes' = [boxes EXCEPT ![target] = ToString(m.cover)]
             /\ verdict' = "inserted"
          \/ /\ boxes[target] = "gone" \/ "editor" \in SheetFaults
             /\ verdict' = "homeless" /\ UNCHANGED boxes
  /\ UNCHANGED <<groups, edits, lastWho, booted, msg, signAs, goes, presses, covers, lastCover, frameNo,
                 frames, target, joined, pressed, touched>>
InsertCover ==
  /\ toPage # <<>>
  /\ toPage' = Tail(toPage)
  /\ LET m == Head(toPage) IN
     IF m.from # frameNo THEN UNCHANGED <<boxes, verdict>>
     ELSE \/ /\ boxes[target] # "gone"
             /\ boxes' = [boxes EXCEPT ![target] = ToString(m.cover)]
             /\ verdict' = "inserted"
          \/ /\ boxes[target] = "gone" \/ "editor" \in SheetFaults
             /\ verdict' = "homeless" /\ UNCHANGED boxes
  /\ UNCHANGED <<groups, edits, lastWho, booted, msg, signAs, goes, presses, covers, lastCover, frameNo,
                 frames, target, joined, pressed, touched>>

SheetInit ==
  /\ groups = {{Public}} /\ edits = 0 /\ lastWho = "public" /\ booted = FALSE
  /\ msg = "" /\ signAs = "" /\ goes = {} /\ presses = 0
  /\ covers = <<>> /\ lastCover = 0 /\ verdict = ""
  /\ frameNo = 0 /\ frames = 0 /\ toPage = <<>>
  /\ target = "none" /\ boxes = [b \in Boxes \cup {"none"} |-> IF b = "none" THEN "gone" ELSE ""]
  /\ joined = {} /\ pressed = "" /\ touched = FALSE

SheetNext ==
  \/ Boot \/ ChoosePreset \/ AddRule \/ RemoveRule \/ EditRule \/ Type \/ ToggleSign \/ Go
  \/ \E g \in goes : LookUpSpace(g) \/ Health(g) \/ SignAsMember(g) \/ LockPost(g) \/ SendCover(g)
  \/ InsertAgain \/ OpenSheet \/ CloseSheet \/ FocusBox \/ BoxGoes \/ InsertCover

SheetSpec == SheetInit /\ [][SheetNext]_sheetVars

-----------------------------------------------------------------------------
\* Whatever the author edits while the post is being locked, it leaves under
\* rules that are complete and whose checks the gate runs.
LockedAsPromised ==
  \A g \in goes : g.at = "encode" =>
    /\ g.policy # {} /\ {} \notin g.policy
    /\ \A d \in UNION g.policy : Complete(d)
    /\ Gated(g.policy) \subseteq GateRuns

\* A message that the author leaves alone stays in the sheet until its own
\* cover is ready, also when presses overlap and some of them fail.
TextKept ==
  ~touched /\ msg = "" /\ pressed # "" => \E c \in DOMAIN covers : covers[c] = pressed

\* "Inserted" is said of the cover of this sheet, never of one that an earlier
\* sheet sent.
InsertedIsThere ==
  verdict = "inserted" /\ toPage = <<>> =>
    lastCover # 0 /\ \E b \in Boxes : boxes[b] \in {ToString(lastCover), "gone"}

=============================================================================
