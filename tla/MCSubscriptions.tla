-------------------------- MODULE MCSubscriptions --------------------------
(* Small instances of the subscription tasks for TLC. *)
EXTENDS Subscriptions, TLC

CONSTANTS u1, u2, c1, c2, c3, m1, g1, g2

Text(name, server) == [name |-> name, server |-> server, port |-> "443", secret |-> "s"]

(* c1 and c3 are one server under two names.                               *)
MCIdentity == (c1 :> Text("a", "x")) @@ (c2 :> Text("b", "y"))
           @@ (c3 :> Text("c", "x")) @@ (m1 :> Text("m", "z"))

Link(c) == [id |-> <<c>>, content |-> c]

MCFetched == (u1 :> {<<Link(c1), Link(c2)>>, <<Link(c3)>>, <<Link(c2), Link(c2)>>})
          @@ (u2 :> {<<Link(c3)>>})

GroupOf(id, url, nodes) ==
  [id |-> id, url |-> url, enabled |-> TRUE, selectedNodeId |-> NoNode, nodes |-> nodes]

Profile(groups, current) ==
  [url |-> NoUrl, nodes |-> <<>>, groups |-> groups,
   selectedGroupId |-> NoGroup, selectedNodeId |-> current]

Manual == GroupOf(Local, NoUrl, <<[id |-> <<"manual", 9>>, content |-> m1]>>)

TwoGroups == Profile(<<GroupOf(g1, u1, <<Link(c1), Link(c2)>>), Manual>>, <<c1>>)
OneGroup == Profile(<<GroupOf(g1, u1, <<Link(c1), Link(c2)>>)>>, <<c1>>)
LocalOnly == Profile(<<Manual>>, <<"manual", 9>>)

(* A profile from before the groups, its selection dangling.               *)
OldProfile == [url |-> u1, nodes |-> <<Link(c2), Link(c2)>>, groups |-> <<>>,
               selectedGroupId |-> NoGroup, selectedNodeId |-> <<c1>>]

FromTwo == {TwoGroups}
FromOne == {Empty, OneGroup}
FromLocal == {LocalOnly}
FromAll == {Empty, TwoGroups}
Old == {OldProfile}
=============================================================================
