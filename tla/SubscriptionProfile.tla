------------------------- MODULE SubscriptionProfile -------------------------
(***************************************************************************)
(* The subscription profile as SubscriptionStore reads and writes it: a    *)
(* list of groups of nodes, the browsed group and the current node.  Every *)
(* read and every write passes through Normalize.                          *)
(*                                                                         *)
(* A node is its id and its content; the content stands for the name and   *)
(* the outbound, and Identity gives the four texts of nodeIdentity.  Ids   *)
(* are sequences, so that the suffix of a repeated id can be told from the *)
(* id itself.  Delays, times, filters and intervals are left out.          *)
(***************************************************************************)
EXTENDS Naturals, Sequences, FiniteSets

CONSTANTS Url, NoUrl,     \* addresses of subscriptions; the empty address
          Content,        \* what a node can be
          Identity,       \* the texts a content is recognised by
          Local, NoGroup  \* 'sub-local'; the empty group id

Fields == {"name", "server", "port", "secret"}

ASSUME ProfileAssumption ==
  /\ NoUrl \notin Url
  /\ Local # NoGroup
  /\ Identity \in [Content -> [Fields -> STRING]]

NoNode == <<>>                                \* the empty node id
LegacyId(url) == <<"legacy", url>>            \* makeGroupId of the address

Ids(nodes) == {nodes[i].id : i \in DOMAIN nodes}
GroupIdsOf(groups) == {groups[i].id : i \in DOMAIN groups}
NodeIdsOf(groups) == UNION {Ids(groups[i].nodes) : i \in DOMAIN groups}

First(S) == CHOOSE i \in S : \A j \in S : i <= j

Group(groups, id) == First({i \in DOMAIN groups : groups[i].id = id})
Node(nodes, id) == First({i \in DOMAIN nodes : nodes[i].id = id})

Empty == [url |-> NoUrl, nodes |-> <<>>, groups |-> <<>>,
          selectedGroupId |-> NoGroup, selectedNodeId |-> NoNode]

NewGroup(id, url) ==
  [id |-> id, url |-> url, enabled |-> TRUE, selectedNodeId |-> NoNode, nodes |-> <<>>]

(* The elements at the positions of K, in their order (filter of an array).*)
Kept(s, K) ==
  LET at == CHOOSE f \in [1..Cardinality(K) -> K] :
              \A i, j \in 1..Cardinality(K) : i < j => f[i] < f[j]
  IN [k \in 1..Cardinality(K) |-> s[at[k]]]

(* ---- normalize ---- *)

BaseId(nodes, i) ==
  IF nodes[i].id = NoNode THEN <<"node", i - 1>> ELSE nodes[i].id

(* Mutant: every node gets a suffix, its own occurrence counted in.        *)
EagerNodeId(nodes, i) ==
  LET base == BaseId(nodes, i)
      count == Cardinality({j \in 1..i : BaseId(nodes, j) = base})
  IN Append(base, count)

UniqueNodeId(nodes, i) ==
  LET base == BaseId(nodes, i)
      count == Cardinality({j \in 1..(i - 1) : BaseId(nodes, j) = base})
  IN IF count = 0 THEN base ELSE Append(base, count + 1)

NormalizeNodes(nodes) ==
  [i \in DOMAIN nodes |-> [id |-> UniqueNodeId(nodes, i), content |-> nodes[i].content]]

IsSeq(s) == Len(s) \in Nat /\ s = [i \in 1..Len(s) |-> s[i]]

(* What a list may hold: the hashes of a source, of which none is another, *)
(* or the number of a node without id, with one more part.                 *)
Unsuffixed(nodes) ==
  \A i, j \in DOMAIN nodes :
    LET id == BaseId(nodes, i) IN SubSeq(id, 1, Len(id) - 1) # BaseId(nodes, j)

(* Or what normalizeNodes made of one before.                              *)
Numbered(nodes) ==
  \A i, j \in DOMAIN nodes : nodes[i].id # NoNode /\ (nodes[i].id = nodes[j].id => i = j)

IsNode(node) ==
  /\ node = [id |-> node.id, content |-> node.content]
  /\ IsSeq(node.id) /\ node.content \in Content

Delivered(nodes) ==
  /\ IsSeq(nodes) /\ \A i \in DOMAIN nodes : IsNode(nodes[i])
  /\ Unsuffixed(nodes) \/ Numbered(nodes)

IsGroup(g) ==
  /\ DOMAIN g = DOMAIN NewGroup(NoGroup, NoUrl)
  /\ g.url \in Url \cup {NoUrl} /\ g.enabled \in BOOLEAN /\ Delivered(g.nodes)

(* A profile that earlier runs, or a backup, may hold.                     *)
IsProfile(p) ==
  /\ DOMAIN p = DOMAIN Empty
  /\ p.url \in Url \cup {NoUrl} /\ Delivered(p.nodes)
  /\ IsSeq(p.groups)
  /\ \A i \in DOMAIN p.groups : IsGroup(p.groups[i])
  /\ \A i, j \in DOMAIN p.groups : p.groups[i].id = p.groups[j].id => i = j

(* Mutant: a selection is taken over as it is.                             *)
TrustedNodeId(nodes, id) == id

ResolveSelectedNodeId(nodes, id) ==
  IF id \in Ids(nodes) THEN id
  ELSE IF 1 \in DOMAIN nodes THEN nodes[1].id
  ELSE NoNode

NormalizeGroup(group) ==
  LET nodes == NormalizeNodes(group.nodes)
  IN [id |-> group.id, url |-> group.url, enabled |-> group.enabled, nodes |-> nodes,
      selectedNodeId |-> ResolveSelectedNodeId(nodes, group.selectedNodeId)]

(* Mutant: the browsed group's own selection is preferred.                 *)
BrowsedSelectedNodeId(groups, current, browsed) ==
  IF browsed # NoNode THEN browsed ELSE current

ResolveGlobalSelectedNodeId(groups, current, browsed) ==
  IF current # NoNode /\ current \in NodeIdsOf(groups) THEN current
  ELSE IF browsed # NoNode /\ browsed \in NodeIdsOf(groups) THEN browsed
  ELSE NoNode

(* A profile of the time before groups becomes its one group.              *)
LegacyGroup(raw) ==
  [id |-> LegacyId(raw.url), url |-> raw.url, enabled |-> TRUE,
   selectedNodeId |-> raw.selectedNodeId, nodes |-> NormalizeNodes(raw.nodes)]

NormalizedGroups(raw) ==
  IF DOMAIN raw.groups = {} /\ (raw.url # NoUrl \/ DOMAIN raw.nodes # {})
  THEN <<LegacyGroup(raw)>>
  ELSE [i \in DOMAIN raw.groups |-> NormalizeGroup(raw.groups[i])]

Normalize(raw) ==
  LET groups == NormalizedGroups(raw)
      chosen == IF raw.selectedGroupId \in GroupIdsOf(groups) THEN raw.selectedGroupId
                ELSE IF 1 \in DOMAIN groups THEN groups[1].id
                ELSE NoGroup
      known == chosen \in GroupIdsOf(groups)
      active == groups[Group(groups, chosen)]
  IN [url |-> IF known THEN active.url ELSE NoUrl,
      nodes |-> IF known THEN active.nodes ELSE <<>>,
      groups |-> groups,
      selectedGroupId |-> chosen,
      selectedNodeId |-> ResolveGlobalSelectedNodeId(groups, raw.selectedNodeId,
                           IF known THEN active.selectedNodeId ELSE NoNode)]

(* ---- the selection kept over an update ---- *)

Same(a, b) == a # "" /\ a = b
Agree(c, d, fields) == \A f \in fields : Same(Identity[c][f], Identity[d][f])

Levels == <<Fields, {"name"}, {"server", "port", "secret"}, {"server", "port"}, {"server"}>>

(* Positions of the nodes that match the content at a level.               *)
Matching(nodes, content, level) ==
  {i \in DOMAIN nodes : Agree(nodes[i].content, content, Levels[level])}

(* The first node of the most demanding level that any node reaches.       *)
MatchedNodeId(nodes, content) ==
  LET reached == {l \in DOMAIN Levels : Matching(nodes, content, l) # {}}
  IN IF reached = {} THEN nodes[1].id
     ELSE nodes[First(Matching(nodes, content, First(reached)))].id

(* Mutant: an update starts over with the first node.                      *)
FirstNodeId(existing, next, id) == IF next = <<>> THEN NoNode ELSE next[1].id

RetainedNodeId(existing, next, id) ==
  IF next = <<>> THEN NoNode
  ELSE IF id # NoNode /\ id \in Ids(next) THEN id
  ELSE IF id = NoNode \/ id \notin Ids(existing) THEN next[1].id
  ELSE MatchedNodeId(next, existing[Node(existing, id)].content)

(* ---- what each operation does to the profile it loaded ---- *)

ActiveOr(p, id) ==
  IF id \in GroupIdsOf(p.groups) THEN id ELSE p.selectedGroupId

(* saveUrl: into the group asked for, the active one, or a new one.        *)
WithUrl(p, id, url, fresh) ==
  LET target == ActiveOr(p, id)
  IN IF target \in GroupIdsOf(p.groups)
     THEN [p EXCEPT !.groups[Group(p.groups, target)].url = url]
     ELSE [p EXCEPT !.groups = Append(@, NewGroup(fresh, url)), !.selectedGroupId = fresh]

(* The group saveNodes writes: of the id, of the address, or the active.   *)
TargetGroup(p, id, url) ==
  LET ofUrl == {i \in DOMAIN p.groups : p.groups[i].url = url}
  IN IF id \in GroupIdsOf(p.groups) THEN id
     ELSE IF ofUrl # {} THEN p.groups[First(ofUrl)].id
     ELSE p.selectedGroupId

WithNodes(p, id, url, nodes, selected, makeActive, fresh) ==
  LET found == TargetGroup(p, id, url) \in GroupIdsOf(p.groups)
      target == IF found THEN TargetGroup(p, id, url) ELSE fresh
      q == IF found THEN p ELSE [p EXCEPT !.groups = Append(@, NewGroup(fresh, url))]
      at == Group(q.groups, target)
      previous == q.groups[at].nodes
      kept == RetainedNodeId(previous, nodes, selected)
      follows == p.selectedNodeId # NoNode /\ p.selectedNodeId \in Ids(previous)
  IN [q EXCEPT !.groups[at].url = url,
               !.groups[at].nodes = nodes,
               !.groups[at].selectedNodeId = kept,
               !.selectedNodeId = IF follows THEN kept ELSE @,
               !.selectedGroupId = IF makeActive THEN target ELSE @]

WithSelectedNode(p, id) ==
  LET holders == {i \in DOMAIN p.groups : id \in Ids(p.groups[i].nodes)}
  IN IF holders = {} THEN [p EXCEPT !.selectedNodeId = id]
     ELSE [p EXCEPT !.groups[First(holders)].selectedNodeId = id,
                    !.selectedGroupId = p.groups[First(holders)].id,
                    !.selectedNodeId = id]

WithoutNodes(groups, ids) ==
  [i \in DOMAIN groups |->
     LET all == groups[i].nodes
         nodes == Kept(all, {j \in DOMAIN all : all[j].id \notin ids})
     IN [groups[i] EXCEPT !.nodes = nodes,
                          !.selectedNodeId = IF nodes = all THEN @
                                             ELSE ResolveSelectedNodeId(nodes, @)]]

WithoutGroup(p, id) ==
  LET groups == Kept(p.groups, {i \in DOMAIN p.groups : p.groups[i].id # id})
  IN [p EXCEPT !.groups = groups,
               !.selectedGroupId = IF @ \in GroupIdsOf(groups) THEN @
                                   ELSE IF groups # <<>> THEN groups[1].id
                                   ELSE NoGroup]

Swapped(s, i, j) == [s EXCEPT ![i] = s[j], ![j] = s[i]]

(* Mutant: the local group is made anew.                                   *)
ManualNodeAlone(p, id, content) ==
  LET others == Kept(p.groups, {i \in DOMAIN p.groups : p.groups[i].id # Local})
  IN [p EXCEPT !.groups = Append(others, [NewGroup(Local, NoUrl) EXCEPT
                                            !.nodes = <<[id |-> id, content |-> content]>>]),
               !.selectedGroupId = Local, !.selectedNodeId = id]

(* addManualNode: into the local group, which it makes when it is missing. *)
WithManualNode(p, id, content) ==
  LET q == IF Local \in GroupIdsOf(p.groups) THEN p
           ELSE [p EXCEPT !.groups = Append(@, NewGroup(Local, NoUrl))]
      at == Group(q.groups, Local)
  IN [q EXCEPT !.groups[at].nodes = Append(@, [id |-> id, content |-> content]),
               !.groups[at].selectedNodeId = id,
               !.selectedGroupId = Local,
               !.selectedNodeId = id]

(* updateManualNode: the first node of that id, wherever it is.            *)
WithContent(p, id, content) ==
  LET at == First({i \in DOMAIN p.groups : id \in Ids(p.groups[i].nodes)})
  IN [p EXCEPT !.groups[at].nodes[Node(p.groups[at].nodes, id)].content = content]
=============================================================================
