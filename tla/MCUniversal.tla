---------------------------- MODULE MCUniversal ----------------------------
(***************************************************************************)
(* The scenes of Browser, and three for what is computed over data: the    *)
(* coder that hides bytes in words, a sealed post under every policy of a  *)
(* set, and the text compression of the X extension.                       *)
(***************************************************************************)
EXTENDS Coder, Posts, Squeeze, Browser

\* Two models of six words: one with weights of its own for every context,
\* peaked, level and beyond what a range can tell apart; one that ranks.
MCModels ==
  [gpt2 |-> [succ |-> [c \in 0..6 |-> CASE c = 0 -> <<3, 1, 4, 2>> [] c \in {1, 2} -> <<5, 6, 2, 1>>
                                        [] c \in {3, 4} -> <<1, 2, 3, 4>> [] OTHER -> <<6, 4, 2, 5>>],
             top |-> <<1, 2, 3, 4, 5, 6>>,
             weight |-> [c \in 0..6 |-> CASE c \in {0, 3} -> <<13, 1, 1, 1>> [] c \in {1, 5} -> <<4, 4, 4, 4>>
                                          [] c = 2 -> <<60, 5, 1, 1>> [] OTHER -> <<5, 3, 2, 1>>]],
   markov |-> [succ |-> [c \in 0..6 |-> CASE c = 0 -> <<>> [] c = 1 -> <<2>> [] c = 2 -> <<3, 6>>
                                          [] c \in {3, 4} -> <<1, 5, 6>> [] OTHER -> <<4, 2, 1, 5, 3>>],
               top |-> <<2, 1, 4, 3, 6, 5>>,
               weight |-> <<>>]]
MCDatas == {<<>>, <<0>>, <<2>>, <<3>>, <<1, 2>>, <<0, 3>>, [i \in 1..16 |-> 0]}

P1 == Leaf("passphrase", <<"p1">>)
P2 == Leaf("passphrase", <<"p2">>)
Us == Leaf("recipients", <<"x", "y">>)
Gate1 == Leaf("human", <<>>)
Gate2 == Leaf("after", <<>>)
All == Leaf("public", <<>>)
Basic == {P1, Us, Gate1, All}

Flat == {Node(op, <<a, b>>) : op \in {"and", "or"}, a \in Basic, b \in {P1, P2, Us, Gate1, Gate2}}
Deep == {Node(o[1], <<a, Node(o[2], <<b, c>>)>>) :
           o \in {<<"and", "or">>, <<"or", "and">>}, a \in {P1, Gate1}, b \in {P1, Us, All}, c \in {P2, Gate2}}
MCTrees ==
  Basic \cup Flat \cup Deep \cup
  { Node("or", <<Node("and", <<P1, Gate1>>), Node("and", <<P1, Gate2>>)>>),
    Node("and", <<Node("or", <<P1, Gate1>>), Node("or", <<P2, Gate2>>)>>),
    Node("and", <<Us, Us, Gate1>>), Node("and", <<Us, P1, Us>>),
    Node("and", <<All, Gate1, P1>>),
    Node("and", <<P1, Node("or", <<P1, Node("and", <<P1, P2>>)>>)>>),
    Node("and", <<P1>>) }

\* ' the ', 'th', 'he', 'e '
MCTable == << <<32,116,104,101,32>>, <<116,104>>, <<104,101>>, <<101,32>> >>
Plain == { <<116>>, <<104>>, <<101,32>>, <<32,116,104,101>>, <<127>>, <<Accent>> }

MCContent == <<"both", "plain", "gate", "pass">>

RevealPolicies == {[op |-> "or", checks |-> <<"pass", "human">>],
               [op |-> "and", checks |-> <<"pass", "human", "after">>],
               [op |-> "and", checks |-> <<"human", "nft">>]}

APost(kind, to, thread, seq, total) == [kind |-> kind, to |-> to, thread |-> thread, seq |-> seq, total |-> total]
\* A thread and a post for me, and one part of a thread for all.
FeedPosts == << APost("sealed", "me", "t1", 0, 2), APost("sealed", "me", "t1", 1, 2),
               APost("sealed", "me", "-", 0, 1), APost("public", "-", "t2", 1, 2) >>

-----------------------------------------------------------------------------

Init ==
  /\ scene \in {"coder", "posts", "squeeze"} \cup BrowserParts
  /\ CoderInit
  /\ PostsInit
  /\ scene # "posts" => /\ policy = All /\ format = "policy"
                        /\ reader = [phrases |-> {}, me |-> NoOne, passes |-> {}]
  /\ SqueezeInit
  /\ BrowserInit

Next ==
  /\ IF scene = "coder" THEN CoderNext ELSE UNCHANGED coderVars
  /\ IF scene = "posts" THEN PostsNext ELSE UNCHANGED postVars
  /\ IF scene = "squeeze" THEN SqueezeNext ELSE UNCHANGED squeezeVars
  /\ BrowserNext

Spec == Init /\ [][Next]_<<coderVars, postVars, squeezeVars, browserVars>>

-----------------------------------------------------------------------------
\* What is sealed or packed is what its readers get: a post opens for exactly
\* those who satisfy its policy, no half of it holds the shares of another, the
\* chips say so, a packed text unpacks to itself, and what a coder hid is found.
PostsSound ==
  /\ scene = "coder" => /\ HiddenIsFound /\ NamedSurvives /\ SmallIsHidden
                        /\ CutIsRefused /\ ForeignIsChatter
  /\ scene = "posts" => OpensExactly /\ SharesStayApart /\ HonestChips
  /\ scene = "squeeze" => SqueezeExact
=============================================================================
