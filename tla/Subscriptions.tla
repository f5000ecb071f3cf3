---------------------------- MODULE Subscriptions ----------------------------
(***************************************************************************)
(* The tasks that change the subscription profile.  Every operation of     *)
(* SubscriptionStore loads the stored profile, changes its own copy, saves *)
(* the copy and loads again for the caller, with an await before each; an  *)
(* update also fetches from the network in between.  Page tasks work from  *)
(* the view, the state the page was last given; a background task runs     *)
(* SubscriptionUpdateWorkAbility and never touches the view.               *)
(***************************************************************************)
EXTENDS SubscriptionProfile

CONSTANTS PageTask, WorkTask,   \* the calls that may be under way
          FreshGroup,           \* bound: ids createGroup can draw
          ManualContent,        \* what a user can enter by hand
          Fetched,              \* address -> lists of nodes it may deliver
          InitialProfiles,      \* what earlier runs of the program stored
          Backups,              \* profiles a user can restore
          Overlap,              \* "none": one task at a time; "fetch": others
                                \* run while a task fetches; "any": always
          Faults,               \* reads and writes of the store may fail
          MaxTasks              \* bound: tasks started

Task == PageTask \cup WorkTask

ASSUME TaskAssumption ==
  /\ PageTask \cap WorkTask = {}
  /\ Overlap \in {"none", "fetch", "any"}
  /\ Faults \in BOOLEAN
  /\ MaxTasks \in Nat

(* Sources and stored profiles hold ids that no draw repeats.              *)
SourceLists ==
  (UNION {Fetched[url] : url \in Url})
  \cup (UNION {{p.nodes} \cup {p.groups[i].nodes : i \in DOMAIN p.groups} :
                p \in InitialProfiles \cup Backups})

ManualDrawn(id, n) == id # NoNode /\ id[1] = "manual" /\ (Len(id) < 2 \/ id[2] \in n..MaxTasks)

ASSUME SourceAssumption ==
  /\ ManualContent \subseteq Content
  /\ \A nodes \in SourceLists :
       Delivered(nodes) /\ \A i \in DOMAIN nodes : ~ManualDrawn(nodes[i].id, 0)
  /\ \A p \in InitialProfiles \cup Backups : IsProfile(p)

VARIABLES stored,   \* the profile in the preferences
          view,     \* the profile the page shows
          task,     \* how far each call is
          started   \* number of tasks started

vars == <<stored, view, task, started>>

Idle == [pc |-> "idle"]

(* ---- the store ---- *)

(* A failed read answers with an empty profile, a failed write is ignored. *)
Load == {Normalize(stored)} \cup (IF Faults THEN {Empty} ELSE {})

Saved(raw) == {Normalize(raw)} \cup (IF Faults THEN {stored} ELSE {})

(* No other call is between its load and its save.                         *)
CanLoad(t) ==
  Overlap # "any" => \A u \in Task \ {t} : task[u].pc \notin {"loaded", "saved"}

CanStart(t) ==
  /\ task[t].pc = "idle"
  /\ started < MaxTasks
  /\ Overlap = "none" => \A u \in Task : task[u].pc = "idle"
  /\ started' = started + 1

(* The call has loaded its copy and will save what op makes of it.         *)
Begin(t, op) ==
  /\ CanLoad(t)
  /\ \E copy \in Load : task' = [task EXCEPT ![t] = [pc |-> "loaded", op |-> op, copy |-> copy]]

UsedGroups == UNION {GroupIdsOf(p.groups) : p \in {stored, view}
                       \cup {task[t].copy : t \in {u \in Task : task[u].pc = "loaded"}}}
FreshIds == FreshGroup \ UsedGroups

(* Mutant: the id is made of the address alone.                            *)
RepeatedId == CHOOSE id \in FreshGroup : TRUE

FreshId == CHOOSE id \in FreshGroup : FreshIds # {} => id \in FreshIds

(* ---- operations of the pages ---- *)

PageStarts(t, op) == CanStart(t) /\ t \in PageTask /\ Begin(t, op) /\ UNCHANGED stored

SelectNode(t) ==
  \E i \in DOMAIN view.groups : \E j \in DOMAIN view.groups[i].nodes :
    LET node == view.groups[i].nodes[j] IN
    /\ PageStarts(t, [name |-> "selectNode", id |-> node.id])
    /\ view' = [view EXCEPT !.selectedNodeId = node.id]

OnGroup(t, name, ids) ==
  \E id \in ids :
    /\ PageStarts(t, [name |-> name, id |-> id])
    /\ UNCHANGED view

(* The local group can be browsed and toggled, and that is all.            *)
Shown == GroupIdsOf(view.groups)

SelectGroup(t) == OnGroup(t, "selectGroup", Shown)
ToggleGroup(t) == OnGroup(t, "toggleGroup", Shown)
RemoveGroup(t) == OnGroup(t, "removeGroup", Shown \ {Local})

MoveGroup(t) ==
  \E id \in Shown \ {Local}, up \in BOOLEAN :
    /\ PageStarts(t, [name |-> "moveGroup", id |-> id, up |-> up])
    /\ UNCHANGED view

(* The address of a group may be left empty.                               *)
AddGroup(t) ==
  \E url \in Url \cup {NoUrl} :
    /\ FreshIds # {}
    /\ PageStarts(t, [name |-> "addGroup", id |-> FreshId, url |-> url])
    /\ UNCHANGED view

UpdateGroup(t) ==
  \E id \in Shown \ {Local}, url \in Url \cup {NoUrl} :
    /\ PageStarts(t, [name |-> "updateGroup", id |-> id, url |-> url])
    /\ UNCHANGED view

RemoveNode(t) ==
  \E id \in Ids(view.nodes) :
    /\ PageStarts(t, [name |-> "removeNode", id |-> id])
    /\ UNCHANGED view

AddManualNode(t) ==
  \E content \in ManualContent :
    /\ PageStarts(t, [name |-> "addManualNode", id |-> <<"manual", started>>, content |-> content])
    /\ UNCHANGED view

UpdateManualNode(t) ==
  \E id \in Ids(view.nodes), content \in ManualContent :
    /\ PageStarts(t, [name |-> "updateManualNode", id |-> id, content |-> content])
    /\ UNCHANGED view

(* Delays are left out: the profile is loaded and written back.            *)
SaveDelays(t) ==
  /\ view.groups # <<>>
  /\ PageStarts(t, [name |-> "saveDelays"])
  /\ UNCHANGED view

RestoreProfile(t) ==
  \E p \in Backups :
    /\ PageStarts(t, [name |-> "restoreProfile", profile |-> p])
    /\ UNCHANGED view

(* Deleting, deduplicating or sorting the nodes shown: the groups of the   *)
(* view, edited, replace the stored ones.                                  *)
EditNodes(t) ==
  \E i \in DOMAIN view.groups :
    LET nodes == view.groups[i].nodes IN
    \/ \E ids \in SUBSET Ids(nodes) :
         /\ ids # {}
         /\ PageStarts(t, [name |-> "saveGroups", ids |-> ids,
                           groups |-> WithoutNodes(view.groups, ids)])
         /\ UNCHANGED view
    \/ \E j \in DOMAIN nodes :
         /\ j + 1 \in DOMAIN nodes
         /\ PageStarts(t, [name |-> "saveGroups", ids |-> {},
                           groups |-> [view.groups EXCEPT ![i].nodes = Swapped(nodes, j, j + 1)]])
         /\ UNCHANGED view

(* ---- the copy each operation saves ---- *)

UsesManual(p, id) ==
  \E i \in DOMAIN p.groups : \E j \in DOMAIN p.groups[i].nodes :
    p.groups[i].nodes[j].id = id /\ p.groups[i].nodes[j].content \in ManualContent

(* Neighbour a group changes places with.                                  *)
Beside(p, op) == IF op.up THEN Group(p.groups, op.id) - 1 ELSE Group(p.groups, op.id) + 1

(* Early returns: the operation saves nothing.                             *)
Saves(op, p) ==
  CASE op.name \in {"selectGroup", "toggleGroup", "updateGroup"} -> op.id \in GroupIdsOf(p.groups)
    [] op.name = "removeNode" -> op.id \in NodeIdsOf(p.groups)
    [] op.name = "updateManualNode" -> UsesManual(p, op.id)
    [] OTHER -> TRUE

Edited(op, p) ==
  CASE op.name = "selectNode" -> WithSelectedNode(p, op.id)
    [] op.name = "selectGroup" -> [p EXCEPT !.selectedGroupId = op.id]
    [] op.name = "toggleGroup" -> [p EXCEPT !.groups[Group(p.groups, op.id)].enabled = ~@]
    [] op.name = "removeGroup" -> WithoutGroup(p, op.id)
    [] op.name = "moveGroup" ->
         IF op.id \in GroupIdsOf(p.groups) /\ Beside(p, op) \in DOMAIN p.groups
         THEN [p EXCEPT !.groups = Swapped(@, Group(@, op.id), Beside(p, op))]
         ELSE p
    [] op.name = "addGroup" ->
         [p EXCEPT !.groups = Append(@, NewGroup(op.id, op.url)), !.selectedGroupId = op.id]
    [] op.name = "updateGroup" -> [p EXCEPT !.groups[Group(p.groups, op.id)].url = op.url]
    [] op.name = "removeNode" -> [p EXCEPT !.groups = WithoutNodes(@, {op.id})]
    [] op.name = "addManualNode" -> WithManualNode(p, op.id, op.content)
    [] op.name = "updateManualNode" -> WithContent(p, op.id, op.content)
    [] op.name = "saveGroups" -> [p EXCEPT !.groups = op.groups]
    [] op.name = "restoreProfile" -> op.profile
    [] op.name = "saveUrl" -> WithUrl(p, op.id, op.url, FreshId)
    [] op.name = "saveNodes" ->
         WithNodes(p, op.id, op.url, op.nodes, op.selected, op.makeActive, FreshId)
    [] OTHER -> p

Save(t) ==
  /\ task[t].pc = "loaded"
  /\ LET op == task[t].op
         p == task[t].copy
     IN stored' \in IF Saves(op, p) THEN Saved(Edited(op, p)) ELSE {stored}
  /\ task' = [task EXCEPT ![t] = [pc |-> "saved", op |-> task[t].op]]
  /\ UNCHANGED <<view, started>>

(* ---- what follows a save ---- *)

(* The state the call returns is shown.                                    *)
Return(t) ==
  /\ task[t].pc = "saved"
  /\ task[t].op.name \notin {"saveUrl", "saveNodes"}
  /\ view' \in Load
  /\ task' = [task EXCEPT ![t] = Idle]
  /\ UNCHANGED <<stored, started>>

(* ---- update: one group, asked for by a page ---- *)

(* The group an update without an id is for: the active one if the address *)
(* is its own, else the first of that address, else the active one.        *)
UpdateTarget(p, id, url) ==
  LET ofUrl == {i \in DOMAIN p.groups : p.groups[i].url = url}
  IN IF id # NoGroup THEN id
     ELSE IF p.url = url \/ ofUrl = {} THEN p.selectedGroupId
     ELSE p.groups[First(ofUrl)].id

Update(t) ==
  \E id \in {view.selectedGroupId, NoGroup}, url \in Url :
    /\ id # Local
    /\ CanStart(t) /\ t \in PageTask /\ CanLoad(t)
    /\ \E p \in Load :
         task' = [task EXCEPT ![t] =
           [pc |-> "resolved", id |-> UpdateTarget(p, id, url), url |-> url,
            selected |-> view.selectedNodeId]]
    /\ UNCHANGED <<stored, view>>

SaveUrl(t) ==
  /\ task[t].pc = "resolved"
  /\ Begin(t, [name |-> "saveUrl", id |-> task[t].id, url |-> task[t].url,
               selected |-> task[t].selected])
  /\ UNCHANGED <<stored, view, started>>

AskSource(t) ==
  /\ task[t].pc = "saved" /\ task[t].op.name = "saveUrl"
  /\ \E p \in Load :
       task' = [task EXCEPT ![t] =
         [pc |-> "fetching", url |-> task[t].op.url, selected |-> task[t].op.selected,
          id |-> IF task[t].op.id = NoGroup THEN p.selectedGroupId ELSE task[t].op.id,
          batch |-> <<>>]]
  /\ UNCHANGED <<stored, view, started>>

(* ---- updateAll, updateDue, updateDueGroup: group after group ---- *)

(* all: whether a group that can be updated is never passed over; loops:   *)
(* whether the profile each save returns is gone on with.                  *)
Batch(t, all) ==
  /\ CanStart(t) /\ CanLoad(t)
  /\ t \in WorkTask => ~all
  /\ \E p \in Load :
       task' = [task EXCEPT ![t] =
         [pc |-> "looping", profile |-> p, index |-> 1, all |-> all, loops |-> TRUE]]
  /\ UNCHANGED <<stored, view>>

UpdateAll(t) == Batch(t, TRUE)
UpdateDue(t) == Batch(t, FALSE)

UpdateDueGroup(t) ==
  /\ CanStart(t) /\ t \in WorkTask /\ CanLoad(t)
  /\ \E p \in Load : \E i \in DOMAIN p.groups :
       task' = [task EXCEPT ![t] =
         [pc |-> "looping", profile |-> p, index |-> i, all |-> FALSE, loops |-> FALSE]]
  /\ UNCHANGED <<stored, view>>

Updatable(group) == group.url # NoUrl /\ group.enabled

(* The next group; one that is not due is passed over.                     *)
NextGroup(t) ==
  /\ task[t].pc = "looping"
  /\ \E i \in DOMAIN task[t].profile.groups :
       LET b == task[t]
           group == b.profile.groups[i]
       IN /\ i >= b.index /\ Updatable(group)
          /\ b.all => \A j \in b.index..(i - 1) : ~Updatable(b.profile.groups[j])
          /\ ~b.loops => i = b.index
          /\ task' = [task EXCEPT ![t] =
               [pc |-> "fetching", id |-> group.id, url |-> group.url,
                selected |-> group.selectedNodeId,
                batch |-> <<[b EXCEPT !.index = i + 1]>>]]
  /\ UNCHANGED <<stored, view, started>>

(* updateAll shows the last profile it was given; updateDue loads again if *)
(* it has updated a group.                                                 *)
EndBatch(t) ==
  /\ task[t].pc = "looping"
  /\ LET b == task[t]
     IN /\ b.all => \A j \in b.index..Len(b.profile.groups) : ~Updatable(b.profile.groups[j])
        /\ view' \in IF t \in WorkTask THEN {view}
                     ELSE IF b.all THEN {b.profile}
                     ELSE IF b.index = 1 THEN {view}
                     ELSE Load
  /\ task' = [task EXCEPT ![t] = Idle]
  /\ UNCHANGED <<stored, started>>

(* ---- the source answers, or not ---- *)

Continued(b, p) == IF b.loops THEN [b EXCEPT !.profile = p] ELSE [b EXCEPT !.index = Len(b.profile.groups) + 1]

Deliver(t) ==
  /\ task[t].pc = "fetching"
  /\ \E nodes \in Fetched[task[t].url] :
       Begin(t, [name |-> "saveNodes", id |-> task[t].id, url |-> task[t].url,
                 nodes |-> nodes, selected |-> task[t].selected,
                 makeActive |-> task[t].batch = <<>>, batch |-> task[t].batch])
  /\ UNCHANGED <<stored, view, started>>

FetchFails(t) ==
  /\ task[t].pc = "fetching"
  /\ \E p \in Load :
       IF task[t].batch = <<>>
       THEN /\ view' = p
            /\ task' = [task EXCEPT ![t] = Idle]
       ELSE /\ task' = [task EXCEPT ![t] = Continued(task[t].batch[1], p)]
            /\ UNCHANGED view
  /\ UNCHANGED <<stored, started>>

FinishUpdate(t) ==
  /\ task[t].pc = "saved" /\ task[t].op.name = "saveNodes" /\ task[t].op.batch = <<>>
  /\ view' \in Load
  /\ task' = [task EXCEPT ![t] = Idle]
  /\ UNCHANGED <<stored, started>>

ContinueBatch(t) ==
  /\ task[t].pc = "saved" /\ task[t].op.name = "saveNodes" /\ task[t].op.batch # <<>>
  /\ \E p \in Load : task' = [task EXCEPT ![t] = Continued(task[t].op.batch[1], p)]
  /\ UNCHANGED <<stored, view, started>>

(* onPageShow of the list: it is loaded again.                             *)
ShowPage ==
  /\ Overlap = "none" => \A u \in Task : task[u].pc = "idle"
  /\ view' \in Load
  /\ UNCHANGED <<stored, task, started>>

(* ---- the specification ---- *)

Init ==
  /\ stored \in {Normalize(p) : p \in InitialProfiles}
  /\ view = Normalize(stored)
  /\ task = [t \in Task |-> Idle]
  /\ started = 0

StoreOp(t) ==
  \/ SelectNode(t) \/ SelectGroup(t) \/ ToggleGroup(t) \/ RemoveGroup(t) \/ MoveGroup(t)
  \/ AddGroup(t) \/ UpdateGroup(t) \/ RemoveNode(t) \/ AddManualNode(t)
  \/ UpdateManualNode(t) \/ SaveDelays(t) \/ RestoreProfile(t) \/ EditNodes(t)

UpdateOp(t) ==
  \/ Update(t) \/ SaveUrl(t) \/ AskSource(t)
  \/ UpdateAll(t) \/ UpdateDue(t) \/ UpdateDueGroup(t) \/ NextGroup(t) \/ EndBatch(t)
  \/ Deliver(t) \/ FetchFails(t) \/ FinishUpdate(t) \/ ContinueBatch(t)

Next == (\E t \in Task : StoreOp(t) \/ UpdateOp(t) \/ Save(t) \/ Return(t)) \/ ShowPage

Spec == Init /\ [][Next]_vars

(* ---- properties ---- *)

GroupTypeOK(g) ==
  /\ g.url \in Url \cup {NoUrl} /\ g.enabled \in BOOLEAN
  /\ \A j \in DOMAIN g.nodes : g.nodes[j].content \in Content

ProfileTypeOK(p) ==
  /\ p.url \in Url \cup {NoUrl}
  /\ \A i \in DOMAIN p.groups : GroupTypeOK(p.groups[i])
  /\ \A i, j \in DOMAIN p.groups : p.groups[i].id = p.groups[j].id => i = j

(* Types of the variables; no two groups of the stored profile, or of the  *)
(* one shown, have the same id (createGroup, addManualNode).               *)
TypeOK ==
  /\ ProfileTypeOK(stored) /\ ProfileTypeOK(view)
  /\ DOMAIN task = Task
  /\ started \in 0..MaxTasks

Consistent(p) ==
  /\ p.selectedGroupId \in GroupIdsOf(p.groups) \/ (1 \notin DOMAIN p.groups /\ p.selectedGroupId = NoGroup)
  /\ \A i \in DOMAIN p.groups :
       LET g == p.groups[i]
       IN g.selectedNodeId \in Ids(g.nodes) \/ (1 \notin DOMAIN g.nodes /\ g.selectedNodeId = NoNode)
  /\ p.selectedNodeId \in NodeIdsOf(p.groups) \cup {NoNode}

(* Whatever tasks interleave, and whichever reads and writes fail, a load  *)
(* finds the browsed group, the selected node of every group and the       *)
(* current node among what there is (normalize, on both sides of the       *)
(* store; a restored backup may have any of them dangling).                *)
LoadedConsistent == Consistent(Normalize(stored))

(* A load gives every stored node the id it was stored under, so an id a   *)
(* page was given still names its node when the page sends it back         *)
(* (uniqueNodeId renames repeated ids at every load and every save).       *)
LoadKeepsNodeIds ==
  \A i \in DOMAIN stored.groups :
    Normalize(stored).groups[i].nodes = stored.groups[i].nodes

Completes(t, name) ==
  task[t].pc = "loaded" /\ task[t].op.name = name /\ task'[t].pc = "saved"

(* Browsing another group leaves the current node alone                    *)
(* (SubscriptionsController.selectGroup, resolveGlobalSelectedNodeId).     *)
BrowsingKeepsNode ==
  [][\A t \in Task : Completes(t, "selectGroup") /\ stored.selectedNodeId # NoNode
                       => stored'.selectedNodeId = stored.selectedNodeId]_vars

HoldersOf(id) == {i \in DOMAIN stored.groups : id \in Ids(stored.groups[i].nodes)}

(* An update of a group does not change the current node while that node   *)
(* is still delivered, or belongs to another group (saveNodes), when one   *)
(* group only has it.                                                      *)
UpdateKeepsCurrentNode ==
  [][\A t \in Task :
       /\ Completes(t, "saveNodes")
       /\ \E i \in HoldersOf(stored.selectedNodeId) :
            /\ HoldersOf(stored.selectedNodeId) = {i}
            /\ \/ stored.groups[i].id # task[t].op.id
               \/ stored.selectedNodeId \in Ids(task[t].op.nodes)
       => stored'.selectedNodeId = stored.selectedNodeId]_vars

NodesOfGroup(id) ==
  UNION {Ids(stored.groups[i].nodes) : i \in {j \in DOMAIN stored.groups : stored.groups[j].id = id}}

(* The nodes an operation may take away.                                   *)
Named(op) ==
  CASE op.name = "removeNode" -> {op.id}
    [] op.name \in {"removeGroup", "saveNodes"} -> NodesOfGroup(op.id)
    [] op.name = "saveGroups" -> op.ids
    [] op.name = "restoreProfile" -> NodeIdsOf(stored.groups)
    [] OTHER -> {}

(* A save takes away no node but those its operation is about: an edit of  *)
(* the shown list those it removed, an update those of its own group.      *)
OnlyNamedNodesRemoved ==
  [][\A t \in Task :
       task[t].pc = "loaded" /\ task'[t].pc = "saved"
       => NodeIdsOf(stored.groups) \subseteq NodeIdsOf(stored'.groups) \cup Named(task[t].op)]_vars

(* ---- what the pages say and the code contradicts (README, section 7) ---- *)

(* A removed group takes its nodes with it (the question the page asks).   *)
RemovedGroupIsGone ==
  [][\A t \in Task : Completes(t, "removeGroup")
       => NodeIdsOf(stored'.groups) \subseteq
            UNION {NodesOfGroup(id) : id \in GroupIdsOf(stored.groups) \ {task[t].op.id}}]_vars

(* Updates leave the group of the manual nodes alone ("Local node group    *)
(* does not need updates").                                                *)
LocalGroupNotUpdated ==
  [][\A t \in Task : Completes(t, "saveNodes")
       => TargetGroup(task[t].copy, task[t].op.id, task[t].op.url) # Local]_vars
=============================================================================
