------------------------- MODULE SubscriptionProofs -------------------------
(***************************************************************************)
(* Proofs about the subscription tasks, for every set of tasks, addresses, *)
(* contents and backups, every answer of the network, every degree of      *)
(* overlap, and with or without failing reads and writes.                  *)
(***************************************************************************)
EXTENDS Subscriptions, FiniteSetTheorems, WellFoundedInduction, TLAPS

(* Without groups there is nothing a load would make a legacy group of.    *)
Settled(p) == DOMAIN p.groups = {} => p.url = NoUrl /\ DOMAIN p.nodes = {}

(* ---- what normalize returns ---- *)

(* Whatever is normalized, the result is settled: the address and the      *)
(* nodes are those of the browsed group, and without groups there are none.*)
LEMMA NormalizeSettles == \A raw : Settled(Normalize(raw))
  <1> TAKE raw
  <1> DEFINE groups == NormalizedGroups(raw)
             chosen == IF raw.selectedGroupId \in GroupIdsOf(groups) THEN raw.selectedGroupId
                       ELSE IF 1 \in DOMAIN groups THEN groups[1].id
                       ELSE NoGroup
             known == chosen \in GroupIdsOf(groups)
             active == groups[Group(groups, chosen)]
  <1>1. /\ Normalize(raw).groups = groups
        /\ Normalize(raw).url = (IF known THEN active.url ELSE NoUrl)
        /\ Normalize(raw).nodes = (IF known THEN active.nodes ELSE <<>>)
    BY DEF Normalize
  <1> HIDE DEF groups, active
  <1>2. SUFFICES ASSUME DOMAIN groups = {}
                 PROVE  Normalize(raw).url = NoUrl /\ DOMAIN Normalize(raw).nodes = {}
    BY <1>1 DEF Settled
  <1>3. ~known BY <1>2 DEF GroupIdsOf
  <1>4. DOMAIN <<>> = {} OBVIOUS
  <1>5. QED BY <1>1, <1>3, <1>4

(* A selection is one of the nodes, or empty where there are none.         *)
LEMMA ResolvedIsThere ==
  \A nodes, id : \/ ResolveSelectedNodeId(nodes, id) \in Ids(nodes)
                 \/ 1 \notin DOMAIN nodes /\ ResolveSelectedNodeId(nodes, id) = NoNode
  BY DEF ResolveSelectedNodeId, Ids

LEMMA GlobalIsThere ==
  \A groups, current, browsed :
    ResolveGlobalSelectedNodeId(groups, current, browsed) \in NodeIdsOf(groups) \cup {NoNode}
  BY DEF ResolveGlobalSelectedNodeId

(* A settled profile is normalized group by group, so that every selection *)
(* is resolved: the legacy group, whose selection is taken over as it is,  *)
(* is never made.                                                          *)
LEMMA SettledLoadsConsistent ==
  ASSUME NEW raw, Settled(raw)
  PROVE  Consistent(Normalize(raw))
  <1> DEFINE groups == NormalizedGroups(raw)
             chosen == IF raw.selectedGroupId \in GroupIdsOf(groups) THEN raw.selectedGroupId
                       ELSE IF 1 \in DOMAIN groups THEN groups[1].id
                       ELSE NoGroup
             browsed == IF chosen \in GroupIdsOf(groups)
                        THEN groups[Group(groups, chosen)].selectedNodeId ELSE NoNode
  <1>1. /\ Normalize(raw).groups = groups
        /\ Normalize(raw).selectedGroupId = chosen
        /\ Normalize(raw).selectedNodeId
             = ResolveGlobalSelectedNodeId(groups, raw.selectedNodeId, browsed)
    BY DEF Normalize
  <1>2. groups = [i \in DOMAIN raw.groups |-> NormalizeGroup(raw.groups[i])]
    BY DEF NormalizedGroups, Settled
  <1> HIDE DEF groups
  <1>3. chosen \in GroupIdsOf(groups) \/ (1 \notin DOMAIN groups /\ chosen = NoGroup)
    BY DEF GroupIdsOf
  <1>4. ASSUME NEW i \in DOMAIN groups
        PROVE  \/ groups[i].selectedNodeId \in Ids(groups[i].nodes)
               \/ 1 \notin DOMAIN groups[i].nodes /\ groups[i].selectedNodeId = NoNode
    <2> DEFINE g == raw.groups[i]
    <2>1. groups[i] = NormalizeGroup(g) BY <1>2
    <2>2. /\ NormalizeGroup(g).nodes = NormalizeNodes(g.nodes)
          /\ NormalizeGroup(g).selectedNodeId
               = ResolveSelectedNodeId(NormalizeNodes(g.nodes), g.selectedNodeId)
      BY DEF NormalizeGroup
    <2>3. QED BY <2>1, <2>2, ResolvedIsThere
  <1>5. Normalize(raw).selectedNodeId \in NodeIdsOf(groups) \cup {NoNode}
    BY <1>1, GlobalIsThere
  <1> HIDE DEF chosen, browsed
  <1>6. QED BY <1>1, <1>3, <1>4, <1>5 DEF Consistent

(* ---- what a step does to the store ---- *)

(* Every step leaves the store alone or writes something normalized to it. *)
LEMMA StoredIsNormalized ==
  ASSUME Next
  PROVE  stored' = stored \/ \E raw : stored' = Normalize(raw)
  <1>1. CASE ShowPage
    BY <1>1 DEF ShowPage
  <1>2. ASSUME NEW t \in Task, StoreOp(t)
        PROVE  stored' = stored
    BY <1>2 DEF StoreOp, SelectNode, SelectGroup, ToggleGroup, RemoveGroup, MoveGroup, AddGroup,
       UpdateGroup, RemoveNode, AddManualNode, UpdateManualNode, SaveDelays, RestoreProfile,
       EditNodes, OnGroup, PageStarts
  <1>3. ASSUME NEW t \in Task, UpdateOp(t)
        PROVE  stored' = stored
    BY <1>3 DEF UpdateOp, Update, SaveUrl, AskSource, UpdateAll, UpdateDue, UpdateDueGroup, Batch,
       NextGroup, EndBatch, Deliver, FetchFails, FinishUpdate, ContinueBatch
  <1>4. ASSUME NEW t \in Task, Return(t)
        PROVE  stored' = stored
    BY <1>4 DEF Return
  <1>5. ASSUME NEW t \in Task, Save(t)
        PROVE  stored' = stored \/ \E raw : stored' = Normalize(raw)
    <2> DEFINE raw == Edited(task[t].op, task[t].copy)
    <2>1. stored' \in Saved(raw) \/ stored' = stored
      BY <1>5 DEF Save
    <2>2. Saved(raw) \subseteq {Normalize(raw), stored}
      BY DEF Saved
    <2>3. QED BY <2>1, <2>2
  <1>6. QED BY <1>1, <1>2, <1>3, <1>4, <1>5 DEF Next

(* ---- the theorem ---- *)

(* LoadedConsistent does not follow from itself: a consistent profile with *)
(* no groups but an address would load as a legacy group whose selection   *)
(* nobody resolved.  That what is stored is settled rules it out.          *)
THEOREM StoreIsSettled == Spec => []Settled(stored)
  <1>1. Init => Settled(stored)
    <2> SUFFICES ASSUME Init PROVE Settled(stored) OBVIOUS
    <2>1. PICK p \in InitialProfiles : stored = Normalize(p) BY DEF Init
    <2>2. QED BY <2>1, NormalizeSettles
  <1>2. Settled(stored) /\ [Next]_vars => Settled(stored)'
    <2> SUFFICES ASSUME Settled(stored), [Next]_vars PROVE Settled(stored') OBVIOUS
    <2>1. CASE Next
      BY <2>1, StoredIsNormalized, NormalizeSettles
    <2>2. CASE UNCHANGED vars
      BY <2>2 DEF vars
    <2>3. QED BY <2>1, <2>2
  <1>3. QED BY <1>1, <1>2, PTL DEF Spec

(* Whatever tasks interleave, whatever the network delivers, whatever a    *)
(* backup holds and whichever reads and writes fail, a load finds every    *)
(* selection among what there is.                                          *)
THEOREM LoadedIsConsistent == Spec => []LoadedConsistent
  <1>1. Settled(stored) => LoadedConsistent
    BY SettledLoadsConsistent DEF LoadedConsistent
  <1>2. QED BY <1>1, StoreIsSettled, PTL

-----------------------------------------------------------------------------
(* Positions.                                                              *)

(* A set of numbers that is not empty has a least one.                     *)
LEMMA LeastThere ==
  ASSUME NEW S \in SUBSET Nat, S # {}
  PROVE  \E x \in S : \A y \in S : x <= y
  <1> DEFINE R == {ss \in Nat \X Nat : ss[1] < ss[2]}
  <1>1. \A x, y \in Nat : x < y => <<x, y>> \in R
    OBVIOUS
  <1>2. IsWellFoundedOn(R, Nat)
    BY NatLessThanWellFounded DEF OpToRel
  <1> HIDE DEF R
  <1>3. PICK x \in S : \A y \in S : ~ (<<y, x>> \in R)
    BY <1>2, WFMin
  <1>4. \A y \in S : ~(y < x)
    BY <1>1, <1>3
  <1>5. QED BY <1>4

LEMMA FirstThere ==
  ASSUME NEW S \in SUBSET Nat, S # {}
  PROVE  First(S) \in S /\ \A j \in S : First(S) <= j
  <1>1. \E i \in S : \A j \in S : i <= j BY LeastThere
  <1>2. QED BY <1>1 DEF First

LEMMA LargestThere ==
  ASSUME NEW n \in Nat, NEW T \in SUBSET (1 .. n), T # {}
  PROVE  \E k \in T : \A m \in T : m <= k
  <1> DEFINE L == {n - k : k \in T}
  <1>1. L \in SUBSET Nat
    <2>1. \A k \in T : n - k \in Nat OBVIOUS
    <2>2. QED BY <2>1
  <1>2. \A k \in T : n - k \in L OBVIOUS
  <1>3. L # {} BY <1>2
  <1>4. PICK x \in L : \A y \in L : x <= y
    <2> HIDE DEF L
    <2>1. QED BY <1>1, <1>3, LeastThere
  <1>5. PICK k \in T : x = n - k BY DEF L
  <1>6. \A m \in T : n - k <= n - m BY <1>2, <1>4, <1>5
  <1>7. QED BY <1>6

Increasing(f, n) == \A i, j \in 1 .. n : i < j => f[i] < f[j]

(* The elements of a finite set of positions can be listed in their order: *)
(* a smallest set that cannot has a largest element, and the rest can.     *)
LEMMA Listed ==
  ASSUME NEW n \in Nat, NEW K \in SUBSET (1 .. n)
  PROVE  /\ Cardinality(K) \in Nat
         /\ \E f \in [1 .. Cardinality(K) -> K] : Increasing(f, Cardinality(K))
  <1> DEFINE Finite(T) == IsFiniteSet(T) /\ Cardinality(T) \in Nat
             Bad(T) == ~ \E f \in [1 .. Cardinality(T) -> T] : Increasing(f, Cardinality(T))
             Sizes == {c \in Nat : \E T \in SUBSET (1 .. n) : Cardinality(T) = c /\ Bad(T)}
  <1>1. ASSUME NEW T \in SUBSET (1 .. n) PROVE Finite(T)
    <2>1. IsFiniteSet(1 .. n) BY FS_Interval
    <2>2. IsFiniteSet(T) BY <2>1, FS_Subset
    <2>3. QED BY <2>2, FS_CardinalityType
  <1>2. SUFFICES ASSUME Bad(K) PROVE FALSE BY <1>1
  <1>3. PICK c \in Sizes : \A d \in Sizes : c <= d
    <2>1. Cardinality(K) \in Sizes BY <1>1, <1>2
    <2>2. Sizes \in SUBSET Nat OBVIOUS
    <2> HIDE DEF Sizes
    <2>3. QED BY <2>1, <2>2, LeastThere
  <1>4. PICK T \in SUBSET (1 .. n) : Cardinality(T) = c /\ Bad(T) OBVIOUS
  <1>5. T # {}
    <2> SUFFICES ASSUME T = {} PROVE FALSE OBVIOUS
    <2>1. Cardinality(T) = 0 BY FS_EmptySet
    <2> DEFINE f == [k \in 1 .. 0 |-> k]
    <2>2. f \in [1 .. 0 -> T] /\ Increasing(f, 0) BY DEF Increasing
    <2>3. QED BY <1>4, <2>1, <2>2
  <1>6. PICK m \in T : \A k \in T : k <= m BY <1>5, LargestThere
  <1> DEFINE U == T \ {m}
  <1>7. Finite(T) /\ Finite(U) /\ Cardinality(U) = c - 1
    BY <1>1, <1>4, FS_RemoveElement
  <1>8. ~Bad(U)
    <2>1. U \in SUBSET (1 .. n) /\ ~(c <= Cardinality(U)) BY <1>7
    <2>2. Cardinality(U) \notin Sizes BY <1>3, <2>1
    <2>3. QED BY <1>7, <2>1, <2>2
  <1>9. PICK g \in [1 .. (c - 1) -> U] : Increasing(g, c - 1)
    BY <1>7, <1>8
  <1> DEFINE f == [k \in 1 .. c |-> IF k = c THEN m ELSE g[k]]
  <1>10. \A k \in 1 .. c : k = c \/ k \in 1 .. (c - 1) BY <1>7
  <1>11. f \in [1 .. c -> T]
    <2>1. \A k \in 1 .. c : (IF k = c THEN m ELSE g[k]) \in T BY <1>9, <1>10
    <2>2. QED BY <2>1
  <1>12. Increasing(f, c)
    <2> SUFFICES ASSUME NEW i \in 1 .. c, NEW j \in 1 .. c, i < j PROVE f[i] < f[j]
      BY DEF Increasing
    <2>1. i \in 1 .. (c - 1) /\ f[i] = g[i] BY <1>7
    <2>2. CASE j = c
      <3>1. g[i] \in U /\ f[j] = m BY <1>9, <2>1, <2>2
      <3>2. g[i] \in T /\ g[i] # m /\ g[i] <= m BY <1>6, <3>1
      <3>3. \A x \in T : x \in Int OBVIOUS
      <3>4. g[i] \in Int /\ m \in Int BY <3>2, <3>3
      <3>5. QED BY <2>1, <3>1, <3>2, <3>4
    <2>3. CASE j # c
      <3>1. j \in 1 .. (c - 1) /\ f[j] = g[j] BY <1>10, <2>3
      <3>2. QED BY <1>9, <2>1, <3>1 DEF Increasing
    <2>4. QED BY <2>2, <2>3
  <1>13. QED BY <1>4, <1>11, <1>12

(* What is kept comes from distinct positions of what there was.           *)
FromDistinct(s, K) ==
  \E c \in Nat : \E f \in [1 .. c -> K] :
    /\ \A i, j \in 1 .. c : f[i] = f[j] => i = j
    /\ Kept(s, K) = [k \in 1 .. c |-> s[f[k]]]

LEMMA KeptFrom ==
  ASSUME NEW s, NEW n \in Nat, DOMAIN s = 1 .. n, NEW K, K \subseteq DOMAIN s
  PROVE  FromDistinct(s, K)
  <1> USE DEF FromDistinct
  <1>0. K \in SUBSET (1 .. n) /\ \A x \in K : x \in Nat OBVIOUS
  <1> DEFINE c == Cardinality(K)
             f == CHOOSE h \in [1 .. c -> K] : \A i, j \in 1 .. c : i < j => h[i] < h[j]
  <1>1. c \in Nat /\ \E h \in [1 .. c -> K] : \A i, j \in 1 .. c : i < j => h[i] < h[j]
    BY <1>0, Listed DEF Increasing
  <1>2. f \in [1 .. c -> K] /\ \A i, j \in 1 .. c : i < j => f[i] < f[j]
    BY <1>1
  <1>3. Kept(s, K) = [k \in 1 .. c |-> s[f[k]]]
    BY DEF Kept
  <1> HIDE DEF c, f
  <1>4. ASSUME NEW i \in 1 .. c, NEW j \in 1 .. c, f[i] = f[j] PROVE i = j
    <2>1. f[i] \in K /\ f[j] \in K BY <1>2
    <2>2. f[i] \in Nat /\ f[j] \in Nat BY <1>0, <2>1
    <2>3. ~(i < j) /\ ~(j < i) BY <1>2, <1>4, <2>2
    <2>4. QED BY <1>1, <2>3
  <1>5. QED BY <1>1, <1>2, <1>3, <1>4

-----------------------------------------------------------------------------
(* Ids of nodes.                                                           *)

(* What the ids of nodes are made of.                                      *)
Part ==
  Nat \cup {"node", "manual"}
  \cup UNION {UNION {{nodes[i].id[k] : k \in 1 .. Len(nodes[i].id)} : i \in DOMAIN nodes} :
              nodes \in SourceLists}

(* The ids there are before manual nodes n, n + 1 and so on are drawn.     *)
NodeIds(n) == {id \in Seq(Part) : id # NoNode /\ ~ManualDrawn(id, n)}

Nodes(n) == [id : NodeIds(n), content : Content]

DistinctIds(nodes) == \A i, j \in DOMAIN nodes : nodes[i].id = nodes[j].id => i = j

GoodNodes(nodes, n) == nodes \in Seq(Nodes(n)) /\ DistinctIds(nodes)

RawNodes(nodes, n) ==
  nodes \in Seq([id : NodeIds(n) \cup {NoNode}, content : Content]) /\ Unsuffixed(nodes)

(* A list that is stored, or one that may be given to normalize.           *)
AnyNodes(nodes, n) == GoodNodes(nodes, n) \/ RawNodes(nodes, n)

LEMMA SeqFacts ==
  ASSUME NEW s, IsSeq(s), NEW S, \A i \in DOMAIN s : s[i] \in S
  PROVE  s \in Seq(S)
  <1>1. Len(s) \in Nat /\ s = [i \in 1 .. Len(s) |-> s[i]] BY DEF IsSeq
  <1>2. DOMAIN s = 1 .. Len(s) BY <1>1
  <1>3. s \in [1 .. Len(s) -> S] BY <1>1, <1>2
  <1>4. QED BY <1>1, <1>3

(* The lists of the sources and of old profiles.                           *)
LEMMA SourcesAreAny ==
  ASSUME NEW nodes \in SourceLists
  PROVE  AnyNodes(nodes, 0)
  <1>1. Delivered(nodes) /\ \A i \in DOMAIN nodes : ~ManualDrawn(nodes[i].id, 0)
    BY SourceAssumption
  <1>2. ASSUME NEW i \in DOMAIN nodes
        PROVE  nodes[i] \in [id : NodeIds(0) \cup {NoNode}, content : Content]
    <2> DEFINE id == nodes[i].id
    <2>1. IsSeq(id) /\ nodes[i] = [id |-> id, content |-> nodes[i].content] /\ nodes[i].content \in Content
      BY <1>1 DEF Delivered, IsNode
    <2>2. \A k \in 1 .. Len(id) : id[k] \in Part BY DEF Part
    <2>3. DOMAIN id = 1 .. Len(id) BY <2>1 DEF IsSeq
    <2>4. id \in Seq(Part) BY <2>1, <2>2, <2>3, SeqFacts
    <2>5. id \in NodeIds(0) \cup {NoNode} BY <1>1, <2>4 DEF NodeIds
    <2> HIDE DEF id
    <2>6. QED BY <2>1, <2>5
  <1>3. nodes \in Seq([id : NodeIds(0) \cup {NoNode}, content : Content])
    BY <1>1, <1>2, SeqFacts DEF Delivered
  <1>4. CASE Unsuffixed(nodes) BY <1>3, <1>4 DEF AnyNodes, RawNodes
  <1>5. CASE Numbered(nodes)
    <2>1. \A i \in DOMAIN nodes : nodes[i] \in Nodes(0)
      <3> TAKE i \in DOMAIN nodes
      <3>1. nodes[i].id # NoNode BY <1>5 DEF Numbered
      <3>2. QED BY <1>2, <3>1 DEF Nodes
    <2>2. nodes \in Seq(Nodes(0)) BY <1>1, <2>1, SeqFacts DEF Delivered
    <2>3. DistinctIds(nodes) BY <1>5 DEF Numbered, DistinctIds
    <2>4. QED BY <2>2, <2>3 DEF AnyNodes, GoodNodes
  <1>6. QED BY <1>1, <1>4, <1>5 DEF Delivered

(* A later draw finds fewer ids that are still to be drawn.                *)
LEMMA IdsGrow ==
  ASSUME NEW n \in Nat, NEW m \in Nat, n <= m
  PROVE  NodeIds(n) \subseteq NodeIds(m)
  <1>1. m .. MaxTasks \subseteq n .. MaxTasks BY TaskAssumption
  <1>2. QED BY <1>1 DEF NodeIds, ManualDrawn

(* An id with a number at its end.                                         *)
LEMMA NumberGiven ==
  ASSUME NEW n \in Nat, NEW id \in NodeIds(n), NEW c \in Nat
  PROVE  /\ Append(id, c) \in NodeIds(n)
         /\ Len(Append(id, c)) = Len(id) + 1
         /\ Append(id, c)[Len(id) + 1] = c
         /\ SubSeq(Append(id, c), 1, Len(id)) = id
         /\ Len(id) \in Nat
  <1>1. id \in Seq(Part) /\ id # NoNode /\ ~ManualDrawn(id, n) BY DEF NodeIds
  <1>2. c \in Part BY DEF Part
  <1>3. id # <<>> BY <1>1 DEF NoNode
  <1>4. /\ Append(id, c) \in Seq(Part) /\ Len(Append(id, c)) = Len(id) + 1
        /\ Append(id, c)[Len(id) + 1] = c
        /\ \A k \in 1 .. Len(id) : Append(id, c)[k] = id[k]
        /\ Len(id) \in Nat /\ Len(id) >= 1
    BY <1>1, <1>2, <1>3
  <1>5. SubSeq(Append(id, c), 1, Len(id)) = id
    <2>1. /\ SubSeq(Append(id, c), 1, Len(id)) \in Seq(Part)
          /\ Len(SubSeq(Append(id, c), 1, Len(id))) = Len(id)
          /\ \A k \in 1 .. Len(id) : SubSeq(Append(id, c), 1, Len(id))[k] = Append(id, c)[k]
      BY <1>4
    <2>2. QED BY <1>1, <1>4, <2>1
  <1>6. Append(id, c) # <<>> BY <1>4
  <1>7. ~ManualDrawn(Append(id, c), n)
    <2> SUFFICES ASSUME ManualDrawn(Append(id, c), n) PROVE FALSE OBVIOUS
    <2>1. id[1] = "manual" BY <1>4 DEF ManualDrawn
    <2>2. Len(id) >= 2 /\ id[2] \notin n .. MaxTasks BY <1>1, <1>4, <2>1 DEF ManualDrawn
    <2>3. Append(id, c)[2] = id[2] /\ ~(Len(Append(id, c)) < 2) BY <1>4, <2>2
    <2>4. QED BY <2>2, <2>3 DEF ManualDrawn
  <1>8. QED BY <1>4, <1>5, <1>6, <1>7 DEF NodeIds, NoNode

LEMMA InSeq ==
  ASSUME NEW S, NEW s \in Seq(S), NEW i \in DOMAIN s
  PROVE  s[i] \in S /\ i \in Nat /\ i >= 1
  <1>1. DOMAIN s = 1 .. Len(s) /\ Len(s) \in Nat OBVIOUS
  <1>2. QED BY <1>1

LEMMA BaseThere ==
  ASSUME NEW n \in Nat, NEW nodes \in Seq([id : NodeIds(n) \cup {NoNode}, content : Content]),
         NEW i \in DOMAIN nodes
  PROVE  BaseId(nodes, i) \in NodeIds(n)
  <1>1. nodes[i].id \in NodeIds(n) \cup {NoNode} /\ i \in Nat /\ i >= 1
    <2>1. /\ nodes[i] \in [id : NodeIds(n) \cup {NoNode}, content : Content]
          /\ i \in Nat /\ i >= 1
      BY InSeq
    <2>2. QED BY <2>1
  <1>2. CASE nodes[i].id # NoNode BY <1>1, <1>2 DEF BaseId
  <1>3. CASE nodes[i].id = NoNode
    <2>1. "node" \in Part /\ i - 1 \in Part BY <1>1 DEF Part
    <2>2. <<"node", i - 1>> \in Seq(Part) BY <2>1
    <2>3. ~ManualDrawn(<<"node", i - 1>>, n) BY DEF ManualDrawn
    <2>4. <<"node", i - 1>> # <<>> OBVIOUS
    <2>5. QED BY <1>3, <2>2, <2>3, <2>4 DEF BaseId, NodeIds, NoNode
  <1>4. QED BY <1>2, <1>3

(* How often the id has come before.                                       *)
Before(nodes, i) == {j \in 1 .. (i - 1) : BaseId(nodes, j) = BaseId(nodes, i)}

LEMMA BeforeGrows ==
  ASSUME NEW nodes, NEW i \in Nat \ {0}, NEW j \in Nat \ {0}, i < j,
         BaseId(nodes, i) = BaseId(nodes, j)
  PROVE  Cardinality(Before(nodes, i)) < Cardinality(Before(nodes, j))
  <1>1. IsFiniteSet(1 .. (j - 1)) BY FS_Interval
  <1>2. Before(nodes, j) \in SUBSET (1 .. (j - 1)) BY DEF Before
  <1>3. IsFiniteSet(Before(nodes, j)) BY <1>1, <1>2, FS_Subset
  <1>4. Before(nodes, i) \in SUBSET Before(nodes, j) BY DEF Before
  <1>5. i \in Before(nodes, j) /\ i \notin Before(nodes, i) BY DEF Before
  <1>6. /\ IsFiniteSet(Before(nodes, i))
        /\ Cardinality(Before(nodes, i)) <= Cardinality(Before(nodes, j))
        /\ Cardinality(Before(nodes, j)) # Cardinality(Before(nodes, i))
    BY <1>3, <1>4, <1>5, FS_Subset
  <1>7. Cardinality(Before(nodes, i)) \in Nat /\ Cardinality(Before(nodes, j)) \in Nat
    BY <1>3, <1>6, FS_CardinalityType
  <1>8. QED BY <1>6, <1>7

LEMMA CountThere ==
  ASSUME NEW nodes, NEW i \in Nat \ {0}
  PROVE  /\ Cardinality(Before(nodes, i)) \in Nat
         /\ UniqueNodeId(nodes, i) = IF Cardinality(Before(nodes, i)) = 0 THEN BaseId(nodes, i)
                                     ELSE Append(BaseId(nodes, i), Cardinality(Before(nodes, i)) + 1)
  <1>1. IsFiniteSet(1 .. (i - 1)) BY FS_Interval
  <1>2. Before(nodes, i) \in SUBSET (1 .. (i - 1)) BY DEF Before
  <1>3. Cardinality(Before(nodes, i)) \in Nat BY <1>1, <1>2, FS_Subset, FS_CardinalityType
  <1>4. QED BY <1>3 DEF UniqueNodeId, Before

(* Two nodes of a list that is normalized get different ids.               *)
LEMMA UniqueIds ==
  ASSUME NEW n \in Nat, NEW nodes, RawNodes(nodes, n),
         NEW i \in DOMAIN nodes, NEW j \in DOMAIN nodes, i < j
  PROVE  UniqueNodeId(nodes, i) # UniqueNodeId(nodes, j)
  <1>1. /\ BaseId(nodes, i) \in NodeIds(n) /\ BaseId(nodes, j) \in NodeIds(n)
        /\ i \in Nat \ {0} /\ j \in Nat \ {0}
    <2>1. nodes \in Seq([id : NodeIds(n) \cup {NoNode}, content : Content]) BY DEF RawNodes
    <2>2. BaseId(nodes, i) \in NodeIds(n) /\ BaseId(nodes, j) \in NodeIds(n) BY <2>1, BaseThere
    <2>3. i \in Nat \ {0} /\ j \in Nat \ {0} BY <2>1
    <2>4. QED BY <2>2, <2>3
  <1>2. /\ SubSeq(BaseId(nodes, i), 1, Len(BaseId(nodes, i)) - 1) # BaseId(nodes, j)
        /\ SubSeq(BaseId(nodes, j), 1, Len(BaseId(nodes, j)) - 1) # BaseId(nodes, i)
    BY DEF RawNodes, Unsuffixed
  <1>3. /\ Cardinality(Before(nodes, i)) \in Nat
        /\ UniqueNodeId(nodes, i) = IF Cardinality(Before(nodes, i)) = 0 THEN BaseId(nodes, i)
                                    ELSE Append(BaseId(nodes, i), Cardinality(Before(nodes, i)) + 1)
    BY <1>1, CountThere
  <1>4. /\ Cardinality(Before(nodes, j)) \in Nat
        /\ UniqueNodeId(nodes, j) = IF Cardinality(Before(nodes, j)) = 0 THEN BaseId(nodes, j)
                                    ELSE Append(BaseId(nodes, j), Cardinality(Before(nodes, j)) + 1)
    BY <1>1, CountThere
  <1>5. BaseId(nodes, i) = BaseId(nodes, j)
        => Cardinality(Before(nodes, i)) < Cardinality(Before(nodes, j))
    BY <1>1, BeforeGrows
  <1> SUFFICES ASSUME NEW a, a = BaseId(nodes, i), NEW b, b = BaseId(nodes, j),
                      NEW c, c = Cardinality(Before(nodes, i)),
                      NEW d, d = Cardinality(Before(nodes, j)),
                      UniqueNodeId(nodes, i) = UniqueNodeId(nodes, j)
               PROVE  FALSE
    OBVIOUS
  <1>6. /\ a \in NodeIds(n) /\ b \in NodeIds(n) /\ c \in Nat /\ d \in Nat
        /\ a = b => c < d
        /\ SubSeq(a, 1, Len(a) - 1) # b /\ SubSeq(b, 1, Len(b) - 1) # a
        /\ (IF c = 0 THEN a ELSE Append(a, c + 1)) = (IF d = 0 THEN b ELSE Append(b, d + 1))
    BY <1>1, <1>2, <1>3, <1>4, <1>5
  <1>7. /\ SubSeq(Append(a, c + 1), 1, Len(a)) = a /\ Len(Append(a, c + 1)) = Len(a) + 1
        /\ Append(a, c + 1)[Len(a) + 1] = c + 1
        /\ Len(a) \in Nat
    BY <1>6, NumberGiven
  <1>8. /\ SubSeq(Append(b, d + 1), 1, Len(b)) = b /\ Len(Append(b, d + 1)) = Len(b) + 1
        /\ Append(b, d + 1)[Len(b) + 1] = d + 1
        /\ Len(b) \in Nat
    BY <1>6, NumberGiven
  <1>9. CASE c = 0 /\ d = 0 BY <1>6, <1>9
  <1>10. CASE c = 0 /\ d # 0
    <2>1. a = Append(b, d + 1) BY <1>6, <1>10
    <2>2. Len(a) - 1 = Len(b) BY <1>8, <2>1
    <2>3. QED BY <1>6, <1>8, <2>1, <2>2
  <1>11. CASE c # 0 /\ d = 0
    <2>1. b = Append(a, c + 1) BY <1>6, <1>11
    <2>2. Len(b) - 1 = Len(a) BY <1>7, <2>1
    <2>3. QED BY <1>6, <1>7, <2>1, <2>2
  <1>12. CASE c # 0 /\ d # 0
    <2>1. PICK x : x = Append(a, c + 1) /\ x = Append(b, d + 1) BY <1>6, <1>12
    <2>2. Len(x) = Len(a) + 1 /\ SubSeq(x, 1, Len(a)) = a /\ x[Len(a) + 1] = c + 1 BY <1>7, <2>1
    <2>3. Len(x) = Len(b) + 1 /\ SubSeq(x, 1, Len(b)) = b /\ x[Len(b) + 1] = d + 1 BY <1>8, <2>1
    <2>4. Len(a) = Len(b)
      <3>1. Len(a) \in Nat /\ Len(b) \in Nat BY <1>7, <1>8
      <3>2. Len(a) + 1 = Len(b) + 1 BY <2>2, <2>3
      <3>3. QED BY <3>1, <3>2
    <2>5. a = b /\ c + 1 = d + 1 BY <2>2, <2>3, <2>4
    <2>6. QED BY <1>6, <2>5
  <1>13. QED BY <1>9, <1>10, <1>11, <1>12

LEMMA RawNormalized ==
  ASSUME NEW n \in Nat, NEW nodes, RawNodes(nodes, n)
  PROVE  GoodNodes(NormalizeNodes(nodes), n)
  <1>1. nodes \in Seq([id : NodeIds(n) \cup {NoNode}, content : Content]) BY DEF RawNodes
  <1>2. Len(nodes) \in Nat /\ DOMAIN nodes = 1 .. Len(nodes) BY <1>1
  <1>3. ASSUME NEW i \in DOMAIN nodes
        PROVE  [id |-> UniqueNodeId(nodes, i), content |-> nodes[i].content] \in Nodes(n)
    <2>1. BaseId(nodes, i) \in NodeIds(n) BY <1>1, BaseThere
    <2>2. i \in Nat \ {0} BY <1>2
    <2>3. PICK c \in Nat : UniqueNodeId(nodes, i) = IF c = 0 THEN BaseId(nodes, i)
                                                    ELSE Append(BaseId(nodes, i), c + 1)
      BY <2>2, CountThere
    <2>4. c + 1 \in Nat OBVIOUS
    <2>5. UniqueNodeId(nodes, i) \in NodeIds(n)
      <3>1. Append(BaseId(nodes, i), c + 1) \in NodeIds(n) BY <2>1, <2>4, NumberGiven
      <3>2. QED BY <2>1, <2>3, <3>1
    <2>6. nodes[i] \in [id : NodeIds(n) \cup {NoNode}, content : Content] BY <1>1, InSeq
    <2>7. QED BY <2>5, <2>6 DEF Nodes
  <1>4. NormalizeNodes(nodes) \in Seq(Nodes(n))
    BY <1>2, <1>3 DEF NormalizeNodes
  <1>5. DistinctIds(NormalizeNodes(nodes))
    <2> SUFFICES ASSUME NEW i \in DOMAIN nodes, NEW j \in DOMAIN nodes,
                        UniqueNodeId(nodes, i) = UniqueNodeId(nodes, j)
                 PROVE  i = j
      BY DEF DistinctIds, NormalizeNodes
    <2>1. ~(i < j) /\ ~(j < i) BY UniqueIds
    <2>2. QED BY <1>2, <2>1
  <1>6. QED BY <1>4, <1>5 DEF GoodNodes

(* What has been normalized stays as it is.                                *)
LEMMA GoodNormalized ==
  ASSUME NEW n \in Nat, NEW nodes, GoodNodes(nodes, n)
  PROVE  NormalizeNodes(nodes) = nodes
  <1>1. nodes \in Seq(Nodes(n)) /\ DistinctIds(nodes) BY DEF GoodNodes
  <1>2. Len(nodes) \in Nat /\ DOMAIN nodes = 1 .. Len(nodes)
        /\ \A i \in DOMAIN nodes : nodes[i] \in Nodes(n)
    BY <1>1
  <1>3. \A i \in DOMAIN nodes : nodes[i].id # NoNode BY <1>2 DEF Nodes, NodeIds
  <1>4. \A i \in DOMAIN nodes : BaseId(nodes, i) = nodes[i].id BY <1>3 DEF BaseId
  <1>5. ASSUME NEW i \in DOMAIN nodes
        PROVE  UniqueNodeId(nodes, i) = nodes[i].id
    <2>1. i \in Nat \ {0} BY <1>2
    <2>2. Before(nodes, i) = {}
      <3> SUFFICES ASSUME NEW j \in 1 .. (i - 1), BaseId(nodes, j) = BaseId(nodes, i) PROVE FALSE
        BY DEF Before
      <3>1. j \in DOMAIN nodes /\ j # i BY <1>2
      <3>2. nodes[j].id = nodes[i].id BY <1>4, <3>1
      <3>3. QED BY <1>1, <3>1, <3>2 DEF DistinctIds
    <2>3. Cardinality(Before(nodes, i)) = 0 BY <2>2, FS_EmptySet
    <2>4. QED BY <1>4, <2>1, <2>3, CountThere
  <1>6. \A i \in DOMAIN nodes : [id |-> UniqueNodeId(nodes, i), content |-> nodes[i].content] = nodes[i]
    BY <1>2, <1>5 DEF Nodes
  <1>7. NormalizeNodes(nodes) = [i \in DOMAIN nodes |-> nodes[i]]
    BY <1>6 DEF NormalizeNodes
  <1>8. QED BY <1>1, <1>7

-----------------------------------------------------------------------------
(* Profiles.                                                               *)

Urls == Url \cup {NoUrl}

GroupFields == {"id", "url", "enabled", "selectedNodeId", "nodes"}
ProfileFields == {"url", "nodes", "groups", "selectedGroupId", "selectedNodeId"}

GoodGroup(g, n) ==
  DOMAIN g = GroupFields /\ g.url \in Urls /\ g.enabled \in BOOLEAN /\ GoodNodes(g.nodes, n)

AnyGroup(g, n) ==
  DOMAIN g = GroupFields /\ g.url \in Urls /\ g.enabled \in BOOLEAN /\ AnyNodes(g.nodes, n)

GoodGroups(groups, n) == IsSeq(groups) /\ \A i \in DOMAIN groups : GoodGroup(groups[i], n)
AnyGroups(groups, n) == IsSeq(groups) /\ \A i \in DOMAIN groups : AnyGroup(groups[i], n)

GoodProfile(p, n) ==
  /\ DOMAIN p = ProfileFields /\ p.url \in Urls
  /\ GoodNodes(p.nodes, n) /\ GoodGroups(p.groups, n)

AnyProfile(p, n) ==
  /\ DOMAIN p = ProfileFields /\ p.url \in Urls
  /\ AnyNodes(p.nodes, n) /\ AnyGroups(p.groups, n)

LEMMA SequencesAre ==
  ASSUME NEW S, NEW s \in Seq(S)
  PROVE  IsSeq(s)
  BY DEF IsSeq

LEMMA AppendSeq ==
  ASSUME NEW s, IsSeq(s), NEW e
  PROVE  /\ IsSeq(Append(s, e))
         /\ DOMAIN s = 1 .. Len(s) /\ Len(s) \in Nat
         /\ DOMAIN Append(s, e) = 1 .. (Len(s) + 1)
         /\ \A i \in DOMAIN s : Append(s, e)[i] = s[i]
         /\ Append(s, e)[Len(s) + 1] = e
  <1> DEFINE S == {s[i] : i \in DOMAIN s} \cup {e}
  <1>1. \A i \in DOMAIN s : s[i] \in S OBVIOUS
  <1>2. e \in S OBVIOUS
  <1> HIDE DEF S
  <1>3. s \in Seq(S) BY <1>1, SeqFacts
  <1>4. Append(s, e) \in Seq(S) BY <1>2, <1>3
  <1>5. IsSeq(Append(s, e)) BY <1>4, SequencesAre
  <1>6. QED BY <1>2, <1>3, <1>5

LEMMA ExceptSeq ==
  ASSUME NEW s, IsSeq(s), NEW a, NEW e
  PROVE  /\ IsSeq([s EXCEPT ![a] = e])
         /\ DOMAIN [s EXCEPT ![a] = e] = DOMAIN s
         /\ \A i \in DOMAIN s : [s EXCEPT ![a] = e][i] = IF i = a THEN e ELSE s[i]
  <1> DEFINE S == {s[i] : i \in DOMAIN s} \cup {e}
  <1>1. \A i \in DOMAIN s : s[i] \in S OBVIOUS
  <1>2. e \in S OBVIOUS
  <1> HIDE DEF S
  <1>3. s \in Seq(S) BY <1>1, SeqFacts
  <1>4. DOMAIN s = 1 .. Len(s) /\ Len(s) \in Nat /\ s \in [1 .. Len(s) -> S] BY <1>3
  <1>5. [s EXCEPT ![a] = e] \in [1 .. Len(s) -> S] BY <1>2, <1>4
  <1>6. [s EXCEPT ![a] = e] \in Seq(S) BY <1>4, <1>5
  <1>7. IsSeq([s EXCEPT ![a] = e]) BY <1>6, SequencesAre
  <1>8. QED BY <1>4, <1>7

(* A list given by its elements, as filter and map give it.                *)
LEMMA FunctionSeq ==
  ASSUME NEW m \in Nat, NEW s, DOMAIN s = 1 .. m, s = [i \in 1 .. m |-> s[i]]
  PROVE  IsSeq(s)
  <1> DEFINE S == {s[i] : i \in 1 .. m}
  <1>1. s \in [1 .. m -> S] OBVIOUS
  <1> HIDE DEF S
  <1>2. s \in Seq(S) BY <1>1
  <1>3. QED BY <1>2, SequencesAre

LEMMA NormalizedNodes ==
  ASSUME NEW n \in Nat, NEW nodes, AnyNodes(nodes, n)
  PROVE  GoodNodes(NormalizeNodes(nodes), n)
  BY RawNormalized, GoodNormalized DEF AnyNodes

LEMMA NormalizedGroup ==
  ASSUME NEW n \in Nat, NEW g, AnyGroup(g, n)
  PROVE  GoodGroup(NormalizeGroup(g), n)
  <1>1. GoodNodes(NormalizeNodes(g.nodes), n) BY NormalizedNodes DEF AnyGroup
  <1>2. /\ DOMAIN NormalizeGroup(g) = GroupFields
        /\ NormalizeGroup(g).url = g.url /\ NormalizeGroup(g).enabled = g.enabled
        /\ NormalizeGroup(g).nodes = NormalizeNodes(g.nodes)
    BY DEF NormalizeGroup, GroupFields
  <1>3. g.enabled \in BOOLEAN /\ g.url \in Urls BY DEF AnyGroup
  <1>4. NormalizeGroup(g).enabled \in BOOLEAN BY <1>2, <1>3
  <1>5. QED BY <1>1, <1>2, <1>3, <1>4 DEF GoodGroup

LEMMA NormalizedGroupsGood ==
  ASSUME NEW n \in Nat, NEW p, AnyProfile(p, n)
  PROVE  GoodGroups(NormalizedGroups(p), n)
  <1>1. CASE DOMAIN p.groups = {} /\ (p.url # NoUrl \/ DOMAIN p.nodes # {})
    <2> DEFINE g == LegacyGroup(p)
    <2>1. NormalizedGroups(p) = <<g>> BY <1>1 DEF NormalizedGroups
    <2>2. GoodNodes(NormalizeNodes(p.nodes), n) BY NormalizedNodes DEF AnyProfile
    <2>3. /\ DOMAIN g = GroupFields /\ g.url = p.url /\ g.enabled = TRUE
          /\ g.nodes = NormalizeNodes(p.nodes)
      BY DEF LegacyGroup, GroupFields
    <2>4. GoodGroup(g, n) BY <2>2, <2>3 DEF GoodGroup, AnyProfile
    <2> HIDE DEF g
    <2>5. <<g>> \in Seq({g}) /\ DOMAIN <<g>> = {1} /\ <<g>>[1] = g OBVIOUS
    <2>6. IsSeq(<<g>>) BY <2>5, SequencesAre
    <2>7. QED BY <2>1, <2>4, <2>5, <2>6 DEF GoodGroups
  <1>2. CASE ~(DOMAIN p.groups = {} /\ (p.url # NoUrl \/ DOMAIN p.nodes # {}))
    <2>1. NormalizedGroups(p) = [i \in DOMAIN p.groups |-> NormalizeGroup(p.groups[i])]
      BY <1>2 DEF NormalizedGroups
    <2>2. IsSeq(p.groups) /\ \A i \in DOMAIN p.groups : AnyGroup(p.groups[i], n)
      BY DEF AnyProfile, AnyGroups
    <2>3. \A i \in DOMAIN p.groups : GoodGroup(NormalizedGroups(p)[i], n)
      BY <2>1, <2>2, NormalizedGroup
    <2>4. Len(p.groups) \in Nat /\ DOMAIN p.groups = 1 .. Len(p.groups)
      BY <2>2 DEF IsSeq
    <2>5. IsSeq(NormalizedGroups(p)) BY <2>1, <2>4, FunctionSeq
    <2>6. QED BY <2>1, <2>3, <2>5 DEF GoodGroups
  <1>3. QED BY <1>1, <1>2

LEMMA GroupThere ==
  ASSUME NEW groups, IsSeq(groups), NEW id \in GroupIdsOf(groups)
  PROVE  Group(groups, id) \in DOMAIN groups /\ groups[Group(groups, id)].id = id
  <1> DEFINE S == {i \in DOMAIN groups : groups[i].id = id}
  <1>1. DOMAIN groups = 1 .. Len(groups) /\ Len(groups) \in Nat BY DEF IsSeq
  <1>2. S \in SUBSET Nat /\ S # {} BY <1>1 DEF GroupIdsOf
  <1>3. First(S) \in S BY <1>2, FirstThere
  <1>4. QED BY <1>3 DEF Group

LEMMA NoNodes == \A n : GoodNodes(<<>>, n)
  <1> TAKE n
  <1>1. <<>> \in Seq(Nodes(n)) /\ DOMAIN <<>> = {} OBVIOUS
  <1>2. QED BY <1>1 DEF GoodNodes, DistinctIds

(* Whatever is normalized may be stored.                                   *)
LEMMA NormalizedProfile ==
  ASSUME NEW n \in Nat, NEW raw, AnyProfile(raw, n)
  PROVE  GoodProfile(Normalize(raw), n)
  <1> DEFINE groups == NormalizedGroups(raw)
             chosen == IF raw.selectedGroupId \in GroupIdsOf(groups) THEN raw.selectedGroupId
                       ELSE IF 1 \in DOMAIN groups THEN groups[1].id
                       ELSE NoGroup
             known == chosen \in GroupIdsOf(groups)
             active == groups[Group(groups, chosen)]
  <1>1. /\ Normalize(raw).groups = groups
        /\ Normalize(raw).url = (IF known THEN active.url ELSE NoUrl)
        /\ Normalize(raw).nodes = (IF known THEN active.nodes ELSE <<>>)
        /\ DOMAIN Normalize(raw) = ProfileFields
    BY DEF Normalize, ProfileFields
  <1>2. GoodGroups(groups, n) BY NormalizedGroupsGood
  <1> HIDE DEF groups, chosen
  <1>3. CASE known
    <2>1. GoodGroup(active, n) BY <1>2, <1>3, GroupThere DEF GoodGroups
    <2>2. QED BY <1>1, <1>2, <1>3, <2>1 DEF GoodProfile, GoodGroup
  <1>4. CASE ~known
    BY <1>1, <1>2, <1>4, NoNodes DEF GoodProfile, Urls
  <1>5. QED BY <1>3, <1>4

(* A load of what is stored keeps the groups and the nodes.                *)
LEMMA LoadKeeps ==
  ASSUME NEW n \in Nat, NEW p, GoodProfile(p, n), Settled(p)
  PROVE  /\ DOMAIN Normalize(p).groups = DOMAIN p.groups
         /\ \A i \in DOMAIN p.groups : /\ Normalize(p).groups[i].id = p.groups[i].id
                                       /\ Normalize(p).groups[i].nodes = p.groups[i].nodes
  <1>1. Normalize(p).groups = NormalizedGroups(p) BY DEF Normalize
  <1>2. NormalizedGroups(p) = [i \in DOMAIN p.groups |-> NormalizeGroup(p.groups[i])]
    BY DEF NormalizedGroups, Settled
  <1>3. \A i \in DOMAIN p.groups : NormalizeNodes(p.groups[i].nodes) = p.groups[i].nodes
    BY GoodNormalized DEF GoodProfile, GoodGroups, GoodGroup
  <1>4. QED BY <1>1, <1>2, <1>3 DEF NormalizeGroup

(* ---- time passes ---- *)

LEMMA NodesLater ==
  ASSUME NEW n \in Nat, NEW m \in Nat, n <= m, NEW nodes
  PROVE  /\ GoodNodes(nodes, n) => GoodNodes(nodes, m)
         /\ RawNodes(nodes, n) => RawNodes(nodes, m)
  <1>1. NodeIds(n) \subseteq NodeIds(m) BY IdsGrow
  <1>2. Nodes(n) \subseteq Nodes(m) BY <1>1 DEF Nodes
  <1>3. Seq(Nodes(n)) \subseteq Seq(Nodes(m)) BY <1>2
  <1> DEFINE A == [id : NodeIds(n) \cup {NoNode}, content : Content]
             B == [id : NodeIds(m) \cup {NoNode}, content : Content]
  <1>4. A \subseteq B BY <1>1
  <1> HIDE DEF A, B
  <1>5. Seq(A) \subseteq Seq(B) BY <1>4
  <1>6. QED BY <1>3, <1>5 DEF GoodNodes, RawNodes, A, B

LEMMA GroupsLater ==
  ASSUME NEW n \in Nat, NEW m \in Nat, n <= m, NEW groups
  PROVE  /\ GoodGroups(groups, n) => GoodGroups(groups, m)
         /\ AnyGroups(groups, n) => AnyGroups(groups, m)
  BY NodesLater DEF GoodGroups, AnyGroups, GoodGroup, AnyGroup, AnyNodes

LEMMA ProfilesLater ==
  ASSUME NEW n \in Nat, NEW m \in Nat, n <= m, NEW p
  PROVE  /\ GoodProfile(p, n) => GoodProfile(p, m)
         /\ AnyProfile(p, n) => AnyProfile(p, m)
  BY NodesLater, GroupsLater DEF GoodProfile, AnyProfile, AnyNodes

(* ---- what the edits of groups return ---- *)

LEMMA GoodIsAny ==
  ASSUME NEW n \in Nat
  PROVE  /\ \A g : GoodGroup(g, n) => AnyGroup(g, n)
         /\ \A groups : GoodGroups(groups, n) => AnyGroups(groups, n)
         /\ \A p : GoodProfile(p, n) => AnyProfile(p, n)
  BY DEF GoodGroup, AnyGroup, AnyNodes, GoodGroups, AnyGroups, GoodProfile, AnyProfile

LEMMA GroupReplaced ==
  ASSUME NEW n \in Nat, NEW groups, AnyGroups(groups, n), NEW at, NEW g,
         at \in DOMAIN groups => AnyGroup(g, n)
  PROVE  AnyGroups([groups EXCEPT ![at] = g], n)
  <1>1. IsSeq(groups) /\ \A i \in DOMAIN groups : AnyGroup(groups[i], n) BY DEF AnyGroups
  <1>2. QED BY <1>1, ExceptSeq DEF AnyGroups

LEMMA GroupAdded ==
  ASSUME NEW n \in Nat, NEW groups, GoodGroups(groups, n), NEW g, GoodGroup(g, n)
  PROVE  GoodGroups(Append(groups, g), n)
  <1>1. IsSeq(groups) /\ \A i \in DOMAIN groups : GoodGroup(groups[i], n) BY DEF GoodGroups
  <1>2. /\ IsSeq(Append(groups, g))
        /\ DOMAIN groups = 1 .. Len(groups) /\ Len(groups) \in Nat
        /\ DOMAIN Append(groups, g) = 1 .. (Len(groups) + 1)
        /\ \A i \in DOMAIN groups : Append(groups, g)[i] = groups[i]
        /\ Append(groups, g)[Len(groups) + 1] = g
    BY <1>1, AppendSeq
  <1>3. \A i \in 1 .. (Len(groups) + 1) : i \in 1 .. Len(groups) \/ i = Len(groups) + 1
    BY <1>2
  <1>4. QED BY <1>1, <1>2, <1>3 DEF GoodGroups

LEMMA NewGroupGood ==
  ASSUME NEW n \in Nat, NEW id, NEW url \in Urls
  PROVE  GoodGroup(NewGroup(id, url), n)
  <1>1. /\ DOMAIN NewGroup(id, url) = GroupFields /\ NewGroup(id, url).url = url
        /\ NewGroup(id, url).enabled = TRUE /\ NewGroup(id, url).nodes = <<>>
    BY DEF NewGroup, GroupFields
  <1>2. QED BY <1>1, NoNodes DEF GoodGroup

(* ---- lists of groups, or of nodes, with distinct ids ---- *)

LEMMA SwappedSeq ==
  ASSUME NEW s, IsSeq(s), NEW i \in DOMAIN s, NEW j \in DOMAIN s
  PROVE  /\ IsSeq(Swapped(s, i, j)) /\ DOMAIN Swapped(s, i, j) = DOMAIN s
         /\ \A k \in DOMAIN s : Swapped(s, i, j)[k] = IF k = j THEN s[i] ELSE IF k = i THEN s[j] ELSE s[k]
  <1> DEFINE r == [s EXCEPT ![i] = s[j]]
  <1>1. /\ IsSeq(r) /\ DOMAIN r = DOMAIN s
        /\ \A k \in DOMAIN s : r[k] = IF k = i THEN s[j] ELSE s[k]
    BY ExceptSeq
  <1>2. Swapped(s, i, j) = [r EXCEPT ![j] = s[i]] BY DEF Swapped
  <1> HIDE DEF r
  <1> DEFINE q == [r EXCEPT ![j] = s[i]]
  <1>3. /\ IsSeq(q) /\ DOMAIN q = DOMAIN r
        /\ \A k \in DOMAIN r : q[k] = IF k = j THEN s[i] ELSE r[k]
    BY <1>1, ExceptSeq
  <1> HIDE DEF q
  <1>4. Swapped(s, i, j) = q BY <1>2 DEF q
  <1>5. QED BY <1>1, <1>3, <1>4

LEMMA SameIdsDistinct ==
  ASSUME NEW s, DistinctIds(s), NEW r, DOMAIN r = DOMAIN s, \A i \in DOMAIN s : r[i].id = s[i].id
  PROVE  DistinctIds(r)
  BY DEF DistinctIds

LEMMA ExceptDistinct ==
  ASSUME NEW s, DistinctIds(s), NEW at, NEW e, at \in DOMAIN s => e.id = s[at].id
  PROVE  DistinctIds([s EXCEPT ![at] = e])
  <1> DEFINE r == [s EXCEPT ![at] = e]
  <1>1. DOMAIN r = DOMAIN s /\ \A i \in DOMAIN s : r[i] = IF i = at THEN e ELSE s[i] OBVIOUS
  <1> HIDE DEF r
  <1>2. DistinctIds(r) BY <1>1, SameIdsDistinct
  <1>3. QED BY <1>2 DEF r

LEMMA AppendDistinct ==
  ASSUME NEW s, IsSeq(s), DistinctIds(s), NEW e, e.id \notin GroupIdsOf(s)
  PROVE  DistinctIds(Append(s, e))
  <1> DEFINE r == Append(s, e)
  <1>1. /\ DOMAIN s = 1 .. Len(s) /\ Len(s) \in Nat /\ DOMAIN r = 1 .. (Len(s) + 1)
        /\ \A i \in DOMAIN s : r[i] = s[i]
        /\ r[Len(s) + 1] = e
    BY AppendSeq
  <1>2. PICK k \in Nat : /\ DOMAIN s = 1 .. k /\ DOMAIN r = 1 .. (k + 1) /\ r[k + 1] = e
                         /\ \A i \in DOMAIN s : r[i] = s[i]
    <2> HIDE DEF r
    <2>1. QED BY <1>1
  <1> HIDE DEF r
  <1>3. \A i \in DOMAIN r : i \in DOMAIN s \/ i = k + 1 BY <1>2
  <1>4. \A i \in DOMAIN s : r[i].id = s[i].id /\ r[i].id # e.id BY <1>2 DEF GroupIdsOf
  <1>5. ASSUME NEW i \in DOMAIN r, NEW j \in DOMAIN r, r[i].id = r[j].id
        PROVE  i = j
    <2>1. CASE i \in DOMAIN s /\ j \in DOMAIN s BY <1>4, <1>5, <2>1 DEF DistinctIds
    <2>2. CASE ~(i \in DOMAIN s /\ j \in DOMAIN s) BY <1>2, <1>3, <1>4, <1>5, <2>2
    <2>3. QED BY <2>1, <2>2
  <1>6. DistinctIds(r) BY <1>5 DEF DistinctIds
  <1>7. QED BY <1>6 DEF r

LEMMA KeptDistinct ==
  ASSUME NEW s, IsSeq(s), DistinctIds(s), NEW K, K \subseteq DOMAIN s
  PROVE  DistinctIds(Kept(s, K))
  <1>1. Len(s) \in Nat /\ DOMAIN s = 1 .. Len(s) BY DEF IsSeq
  <1>2. PICK c \in Nat : \E f \in [1 .. c -> K] :
           /\ \A i, j \in 1 .. c : f[i] = f[j] => i = j
           /\ Kept(s, K) = [k \in 1 .. c |-> s[f[k]]]
    BY <1>1, KeptFrom DEF FromDistinct
  <1>3. PICK f \in [1 .. c -> K] :
           /\ \A i, j \in 1 .. c : f[i] = f[j] => i = j
           /\ Kept(s, K) = [k \in 1 .. c |-> s[f[k]]]
    BY <1>2
  <1>4. \A k \in 1 .. c : f[k] \in DOMAIN s BY <1>3
  <1>5. ASSUME NEW i \in 1 .. c, NEW j \in 1 .. c, s[f[i]].id = s[f[j]].id
        PROVE  i = j
    <2>1. f[i] = f[j] BY <1>4, <1>5 DEF DistinctIds
    <2>2. QED BY <1>3, <2>1
  <1>6. QED BY <1>3, <1>5 DEF DistinctIds

LEMMA SwappedDistinct ==
  ASSUME NEW s, IsSeq(s), DistinctIds(s), NEW i \in DOMAIN s, NEW j \in DOMAIN s
  PROVE  DistinctIds(Swapped(s, i, j))
  <1>1. /\ DOMAIN Swapped(s, i, j) = DOMAIN s
        /\ \A k \in DOMAIN s :
             Swapped(s, i, j)[k] = IF k = j THEN s[i] ELSE IF k = i THEN s[j] ELSE s[k]
    BY SwappedSeq
  <1> DEFINE other(k) == IF k = j THEN i ELSE IF k = i THEN j ELSE k
  <1>2. \A k \in DOMAIN s : other(k) \in DOMAIN s /\ Swapped(s, i, j)[k] = s[other(k)]
    BY <1>1
  <1>3. \A k, l \in DOMAIN s : other(k) = other(l) => k = l OBVIOUS
  <1> HIDE DEF other
  <1>4. QED BY <1>1, <1>2, <1>3 DEF DistinctIds

LEMMA GoodSeq ==
  ASSUME NEW n, NEW nodes, GoodNodes(nodes, n)
  PROVE  /\ IsSeq(nodes) /\ Len(nodes) \in Nat /\ DOMAIN nodes = 1 .. Len(nodes)
         /\ \A i \in DOMAIN nodes : nodes[i] \in Nodes(n)
  <1>1. nodes \in Seq(Nodes(n)) BY DEF GoodNodes
  <1>2. IsSeq(nodes) BY <1>1, SequencesAre
  <1>3. QED BY <1>1, <1>2

LEMMA SeqGood ==
  ASSUME NEW n, NEW nodes, IsSeq(nodes), \A i \in DOMAIN nodes : nodes[i] \in Nodes(n),
         DistinctIds(nodes)
  PROVE  GoodNodes(nodes, n)
  BY SeqFacts DEF GoodNodes

(* A filtered list of groups, or of nodes.                                 *)
LEMMA GroupsKept ==
  ASSUME NEW n \in Nat, NEW groups, GoodGroups(groups, n), NEW K, K \subseteq DOMAIN groups
  PROVE  GoodGroups(Kept(groups, K), n)
  <1>1. /\ IsSeq(groups) /\ Len(groups) \in Nat /\ DOMAIN groups = 1 .. Len(groups)
        /\ \A i \in DOMAIN groups : GoodGroup(groups[i], n)
    BY DEF GoodGroups, IsSeq
  <1>2. PICK c \in Nat : \E f \in [1 .. c -> K] :
           /\ \A i, j \in 1 .. c : f[i] = f[j] => i = j
           /\ Kept(groups, K) = [k \in 1 .. c |-> groups[f[k]]]
    BY <1>1, KeptFrom DEF FromDistinct
  <1>3. PICK f \in [1 .. c -> K] : Kept(groups, K) = [k \in 1 .. c |-> groups[f[k]]]
    BY <1>2
  <1>4. \A k \in 1 .. c : GoodGroup(groups[f[k]], n) BY <1>1, <1>3
  <1>5. IsSeq(Kept(groups, K)) BY <1>3, FunctionSeq
  <1>6. QED BY <1>3, <1>4, <1>5 DEF GoodGroups

LEMMA NodesKept ==
  ASSUME NEW n \in Nat, NEW nodes, GoodNodes(nodes, n), NEW K, K \subseteq DOMAIN nodes
  PROVE  GoodNodes(Kept(nodes, K), n)
  <1>1. /\ IsSeq(nodes) /\ DistinctIds(nodes) /\ Len(nodes) \in Nat
        /\ DOMAIN nodes = 1 .. Len(nodes)
        /\ \A i \in DOMAIN nodes : nodes[i] \in Nodes(n)
    BY GoodSeq DEF GoodNodes
  <1>2. PICK c \in Nat : \E f \in [1 .. c -> K] : Kept(nodes, K) = [k \in 1 .. c |-> nodes[f[k]]]
    BY <1>1, KeptFrom DEF FromDistinct
  <1>3. PICK f \in [1 .. c -> K] : Kept(nodes, K) = [k \in 1 .. c |-> nodes[f[k]]]
    BY <1>2
  <1>4. \A k \in 1 .. c : nodes[f[k]] \in Nodes(n) BY <1>1, <1>3
  <1>5. Kept(nodes, K) \in Seq(Nodes(n)) BY <1>3, <1>4
  <1>6. QED BY <1>1, <1>5, KeptDistinct DEF GoodNodes

LEMMA GroupsSwapped ==
  ASSUME NEW n, NEW groups, GoodGroups(groups, n), NEW i \in DOMAIN groups, NEW j \in DOMAIN groups
  PROVE  GoodGroups(Swapped(groups, i, j), n)
  BY SwappedSeq DEF GoodGroups

LEMMA NodesSwapped ==
  ASSUME NEW n, NEW nodes, GoodNodes(nodes, n), NEW i \in DOMAIN nodes, NEW j \in DOMAIN nodes
  PROVE  GoodNodes(Swapped(nodes, i, j), n)
  <1>1. IsSeq(nodes) /\ DistinctIds(nodes) /\ \A k \in DOMAIN nodes : nodes[k] \in Nodes(n)
    BY GoodSeq DEF GoodNodes
  <1>2. /\ IsSeq(Swapped(nodes, i, j)) /\ DOMAIN Swapped(nodes, i, j) = DOMAIN nodes
        /\ \A k \in DOMAIN nodes :
             Swapped(nodes, i, j)[k] = IF k = j THEN nodes[i] ELSE IF k = i THEN nodes[j] ELSE nodes[k]
    BY <1>1, SwappedSeq
  <1>3. \A k \in DOMAIN nodes : Swapped(nodes, i, j)[k] \in Nodes(n) BY <1>1, <1>2
  <1>4. QED BY <1>1, <1>2, <1>3, SwappedDistinct, SeqGood

(* A node gets another content.                                            *)
LEMMA ContentReplaced ==
  ASSUME NEW n, NEW nodes, GoodNodes(nodes, n), NEW at, NEW content \in Content
  PROVE  GoodNodes([nodes EXCEPT ![at].content = content], n)
  <1> DEFINE node == [nodes[at] EXCEPT !.content = content]
             r == [nodes EXCEPT ![at] = node]
  <1>1. IsSeq(nodes) /\ \A i \in DOMAIN nodes : nodes[i] \in Nodes(n) BY GoodSeq
  <1>2. /\ IsSeq(r) /\ DOMAIN r = DOMAIN nodes
        /\ \A i \in DOMAIN nodes : r[i] = IF i = at THEN node ELSE nodes[i]
    <2> HIDE DEF node
    <2>1. QED BY <1>1, ExceptSeq
  <1>3. at \in DOMAIN nodes => node \in Nodes(n) /\ node.id = nodes[at].id
    BY <1>1 DEF Nodes
  <1>4. r = [nodes EXCEPT ![at].content = content] OBVIOUS
  <1> HIDE DEF node, r
  <1>5. \A i \in DOMAIN nodes : r[i] \in Nodes(n) /\ r[i].id = nodes[i].id BY <1>1, <1>2, <1>3
  <1>6. DistinctIds(r) BY <1>2, <1>5 DEF DistinctIds, GoodNodes
  <1>7. GoodNodes(r, n) BY <1>2, <1>5, <1>6, SeqGood
  <1>8. QED BY <1>4, <1>7

(* A node with an id the list does not have yet.                           *)
LEMMA NodeAdded ==
  ASSUME NEW n \in Nat, NEW nodes, GoodNodes(nodes, n), NEW id \in NodeIds(n), id \notin Ids(nodes),
         NEW content \in Content
  PROVE  GoodNodes(Append(nodes, [id |-> id, content |-> content]), n)
  <1> DEFINE node == [id |-> id, content |-> content]
  <1>1. node \in Nodes(n) /\ node.id \notin GroupIdsOf(nodes) BY DEF Nodes, Ids, GroupIdsOf
  <1>2. nodes \in Seq(Nodes(n)) /\ IsSeq(nodes) /\ DistinctIds(nodes) BY GoodSeq DEF GoodNodes
  <1> HIDE DEF node
  <1>3. Append(nodes, node) \in Seq(Nodes(n)) BY <1>1, <1>2
  <1>4. DistinctIds(Append(nodes, node)) BY <1>1, <1>2, AppendDistinct
  <1>5. QED BY <1>3, <1>4 DEF GoodNodes, node

LEMMA NodesRemoved ==
  ASSUME NEW n \in Nat, NEW groups, GoodGroups(groups, n), NEW ids
  PROVE  GoodGroups(WithoutNodes(groups, ids), n)
  <1>1. IsSeq(groups) /\ \A i \in DOMAIN groups : GoodGroup(groups[i], n) BY DEF GoodGroups
  <1>2. Len(groups) \in Nat /\ DOMAIN groups = 1 .. Len(groups) BY <1>1 DEF IsSeq
  <1> DEFINE r == WithoutNodes(groups, ids)
             left(i) == Kept(groups[i].nodes,
                             {j \in DOMAIN groups[i].nodes : groups[i].nodes[j].id \notin ids})
  <1>3. /\ DOMAIN r = DOMAIN groups /\ r = [i \in DOMAIN groups |-> r[i]]
        /\ \A i \in DOMAIN groups : \E id :
             r[i] = [groups[i] EXCEPT !.nodes = left(i), !.selectedNodeId = id]
    BY DEF WithoutNodes
  <1>4. \A i \in DOMAIN groups : GoodNodes(left(i), n)
    <2> TAKE i \in DOMAIN groups
    <2>1. GoodNodes(groups[i].nodes, n) BY <1>1 DEF GoodGroup
    <2>2. QED BY <2>1, NodesKept
  <1> HIDE DEF r, left
  <1>5. \A i \in DOMAIN groups : GoodGroup(r[i], n)
    <2> TAKE i \in DOMAIN groups
    <2>1. PICK id : r[i] = [groups[i] EXCEPT !.nodes = left(i), !.selectedNodeId = id] BY <1>3
    <2>2. DOMAIN groups[i] = GroupFields /\ GoodGroup(groups[i], n) BY <1>1 DEF GoodGroup
    <2>3. /\ DOMAIN r[i] = GroupFields /\ r[i].nodes = left(i)
          /\ r[i].url = groups[i].url /\ r[i].enabled = groups[i].enabled
      BY <2>1, <2>2 DEF GroupFields
    <2>4. QED BY <1>4, <2>2, <2>3 DEF GoodGroup
  <1>6. IsSeq(r) BY <1>2, <1>3, FunctionSeq
  <1>7. GoodGroups(r, n) BY <1>3, <1>5, <1>6 DEF GoodGroups
  <1>8. QED BY <1>7 DEF r

(* ---- what each operation saves ---- *)

(* What an operation was called with.                                      *)
OpOK(op, n) ==
  /\ op.name \in {"addGroup", "updateGroup"} => op.url \in Urls
  /\ op.name \in {"saveUrl", "saveNodes"} => op.url \in Url
  /\ op.name = "addManualNode" => op.id \in NodeIds(n)
  /\ op.name \in {"addManualNode", "updateManualNode"} => op.content \in Content
  /\ op.name = "saveGroups" => GoodGroups(op.groups, n)
  /\ op.name = "restoreProfile" => AnyProfile(op.profile, n)
  /\ op.name = "saveNodes" => AnyNodes(op.nodes, n)

LEMMA GroupsExcept ==
  ASSUME NEW n, NEW p, GoodProfile(p, n), NEW groups, AnyGroups(groups, n),
         NEW q, DOMAIN q = ProfileFields, q.url = p.url, q.nodes = p.nodes, q.groups = groups
  PROVE  AnyProfile(q, n)
  BY DEF GoodProfile, AnyProfile, AnyNodes

(* One group is changed in what does not name it.                          *)
LEMMA GroupEdited ==
  ASSUME NEW n \in Nat, NEW groups, GoodGroups(groups, n), NEW at, NEW r,
         IsSeq(r), DOMAIN r = DOMAIN groups,
         \A i \in DOMAIN groups : i # at => r[i] = groups[i],
         at \in DOMAIN groups => AnyGroup(r[at], n)
  PROVE  AnyGroups(r, n)
  BY GoodIsAny DEF GoodGroups, AnyGroups

LEMMA UrlEdited ==
  ASSUME NEW n \in Nat, NEW p, GoodProfile(p, n), NEW at, NEW url \in Urls
  PROVE  AnyProfile([p EXCEPT !.groups[at].url = url], n)
  <1> DEFINE g == [p.groups[at] EXCEPT !.url = url]
             r == [p.groups EXCEPT ![at] = g]
  <1>1. GoodGroups(p.groups, n) /\ DOMAIN p = ProfileFields BY DEF GoodProfile
  <1>2. at \in DOMAIN p.groups => AnyGroup(g, n)
    <2> SUFFICES ASSUME at \in DOMAIN p.groups PROVE AnyGroup(g, n) OBVIOUS
    <2>1. GoodGroup(p.groups[at], n) BY <1>1 DEF GoodGroups
    <2>2. /\ DOMAIN g = GroupFields /\ g.url = url
          /\ g.nodes = p.groups[at].nodes /\ g.enabled = p.groups[at].enabled
      BY <2>1 DEF GoodGroup, GroupFields
    <2> HIDE DEF g
    <2>3. QED BY <2>1, <2>2 DEF GoodGroup, AnyGroup, AnyNodes
  <1>3. [p EXCEPT !.groups[at].url = url] = [p EXCEPT !.groups = r] OBVIOUS
  <1> HIDE DEF g
  <1>4. AnyGroups(r, n) BY <1>1, <1>2, GoodIsAny, GroupReplaced
  <1> HIDE DEF r
  <1> DEFINE q == [p EXCEPT !.groups = r]
  <1>5. DOMAIN q = ProfileFields /\ q.url = p.url /\ q.nodes = p.nodes /\ q.groups = r
    BY <1>1 DEF ProfileFields
  <1> HIDE DEF q
  <1>6. AnyProfile(q, n) BY <1>4, <1>5, GroupsExcept
  <1>7. QED BY <1>3, <1>6 DEF q

LEMMA EnabledEdited ==
  ASSUME NEW n \in Nat, NEW p, GoodProfile(p, n), NEW at
  PROVE  AnyProfile([p EXCEPT !.groups[at].enabled = ~@], n)
  <1> DEFINE g == [p.groups[at] EXCEPT !.enabled = ~@]
             r == [p.groups EXCEPT ![at] = g]
  <1>1. GoodGroups(p.groups, n) /\ DOMAIN p = ProfileFields BY DEF GoodProfile
  <1>2. at \in DOMAIN p.groups => AnyGroup(g, n)
    <2> SUFFICES ASSUME at \in DOMAIN p.groups PROVE AnyGroup(g, n) OBVIOUS
    <2>1. GoodGroup(p.groups[at], n) BY <1>1 DEF GoodGroups
    <2>2. /\ DOMAIN g = GroupFields /\ g.url = p.groups[at].url
          /\ g.nodes = p.groups[at].nodes
      BY <2>1 DEF GoodGroup, GroupFields
    <2>3. g.enabled = ~p.groups[at].enabled
      <3>1. "enabled" \in DOMAIN p.groups[at] BY <2>1 DEF GoodGroup, GroupFields
      <3>2. QED BY <3>1
    <2>4. g.enabled \in BOOLEAN
      <3> HIDE DEF g
      <3>1. QED BY <2>3
    <2> HIDE DEF g
    <2>5. QED BY <2>1, <2>2, <2>4 DEF GoodGroup, AnyGroup, AnyNodes
  <1>3. [p EXCEPT !.groups[at].enabled = ~@] = [p EXCEPT !.groups = r] OBVIOUS
  <1> HIDE DEF g
  <1>4. AnyGroups(r, n) BY <1>1, <1>2, GoodIsAny, GroupReplaced
  <1> HIDE DEF r
  <1> DEFINE q == [p EXCEPT !.groups = r]
  <1>5. DOMAIN q = ProfileFields /\ q.url = p.url /\ q.nodes = p.nodes /\ q.groups = r
    BY <1>1 DEF ProfileFields
  <1> HIDE DEF q
  <1>6. AnyProfile(q, n) BY <1>4, <1>5, GroupsExcept
  <1>7. QED BY <1>3, <1>6 DEF q

LEMMA NodeSelected ==
  ASSUME NEW n \in Nat, NEW p, GoodProfile(p, n), NEW id
  PROVE  AnyProfile(WithSelectedNode(p, id), n)
  <1> DEFINE holders == {i \in DOMAIN p.groups : id \in Ids(p.groups[i].nodes)}
             at == First(holders)
             g == [p.groups[at] EXCEPT !.selectedNodeId = id]
             r == [p.groups EXCEPT ![at] = g]
  <1>1. GoodGroups(p.groups, n) /\ DOMAIN p = ProfileFields BY DEF GoodProfile
  <1>2. \/ WithSelectedNode(p, id) = [p EXCEPT !.selectedNodeId = id]
        \/ WithSelectedNode(p, id) = [p EXCEPT !.groups[at].selectedNodeId = id,
                                              !.selectedGroupId = p.groups[at].id,
                                              !.selectedNodeId = id]
    BY DEF WithSelectedNode
  <1> HIDE DEF at, holders
  <1>3. at \in DOMAIN p.groups => AnyGroup(g, n)
    <2> SUFFICES ASSUME at \in DOMAIN p.groups PROVE AnyGroup(g, n) OBVIOUS
    <2>1. GoodGroup(p.groups[at], n) BY <1>1 DEF GoodGroups
    <2>2. /\ DOMAIN g = GroupFields /\ g.url = p.groups[at].url
          /\ g.nodes = p.groups[at].nodes /\ g.enabled = p.groups[at].enabled
      BY <2>1 DEF GoodGroup, GroupFields
    <2> HIDE DEF g
    <2>3. QED BY <2>1, <2>2 DEF GoodGroup, AnyGroup, AnyNodes
  <1>4. CASE WithSelectedNode(p, id) = [p EXCEPT !.selectedNodeId = id]
    <2> DEFINE q == [p EXCEPT !.selectedNodeId = id]
    <2>1. DOMAIN q = ProfileFields /\ q.url = p.url /\ q.nodes = p.nodes /\ q.groups = p.groups
      BY <1>1 DEF ProfileFields
    <2> HIDE DEF q
    <2>2. AnyProfile(q, n) BY <1>1, <2>1, GoodIsAny, GroupsExcept
    <2>3. QED BY <1>4, <2>2 DEF q
  <1>5. CASE WithSelectedNode(p, id) = [p EXCEPT !.groups[at].selectedNodeId = id,
                                              !.selectedGroupId = p.groups[at].id,
                                              !.selectedNodeId = id]
    <2> DEFINE q == WithSelectedNode(p, id)
    <2>1. DOMAIN q = ProfileFields /\ q.url = p.url /\ q.nodes = p.nodes /\ q.groups = r
      BY <1>1, <1>5 DEF ProfileFields
    <2> HIDE DEF q, g
    <2>2. AnyGroups(r, n) BY <1>1, <1>3, GoodIsAny, GroupReplaced
    <2> HIDE DEF r
    <2>3. AnyProfile(q, n) BY <2>1, <2>2, GroupsExcept
    <2>4. QED BY <2>3 DEF q
  <1>6. QED BY <1>2, <1>4, <1>5

LEMMA ContentEdited ==
  ASSUME NEW n \in Nat, NEW p, GoodProfile(p, n), NEW id, NEW content \in Content
  PROVE  AnyProfile(WithContent(p, id, content), n)
  <1> DEFINE at == First({i \in DOMAIN p.groups : id \in Ids(p.groups[i].nodes)})
             old == p.groups[at].nodes
             nodes == [old EXCEPT ![Node(old, id)].content = content]
             g == [p.groups[at] EXCEPT !.nodes = nodes]
             r == [p.groups EXCEPT ![at] = g]
             q == [p EXCEPT !.groups = r]
  <1>1. GoodGroups(p.groups, n) /\ DOMAIN p = ProfileFields BY DEF GoodProfile
  <1>2. WithContent(p, id, content) = q BY DEF WithContent
  <1> HIDE DEF at
  <1>3. at \in DOMAIN p.groups => AnyGroup(g, n)
    <2> SUFFICES ASSUME at \in DOMAIN p.groups PROVE AnyGroup(g, n) OBVIOUS
    <2>1. GoodGroup(p.groups[at], n) BY <1>1 DEF GoodGroups
    <2>2. GoodNodes(nodes, n) BY <2>1, ContentReplaced DEF GoodGroup
    <2> HIDE DEF nodes
    <2>3. /\ DOMAIN g = GroupFields /\ g.url = p.groups[at].url
          /\ g.nodes = nodes /\ g.enabled = p.groups[at].enabled
      BY <2>1 DEF GoodGroup, GroupFields
    <2> HIDE DEF g
    <2>4. QED BY <2>1, <2>2, <2>3 DEF GoodGroup, AnyGroup, AnyNodes
  <1> HIDE DEF g
  <1>4. AnyGroups(r, n) BY <1>1, <1>3, GoodIsAny, GroupReplaced
  <1> HIDE DEF r
  <1>5. DOMAIN q = ProfileFields /\ q.url = p.url /\ q.nodes = p.nodes /\ q.groups = r
    BY <1>1 DEF ProfileFields
  <1> HIDE DEF q
  <1>6. QED BY <1>2, <1>4, <1>5, GroupsExcept

LEMMA ManualNodeAdded ==
  ASSUME NEW n \in Nat, NEW p, GoodProfile(p, n), NEW id \in NodeIds(n),
         id \notin NodeIdsOf(p.groups), NEW content \in Content
  PROVE  AnyProfile(WithManualNode(p, id, content), n)
  <1> DEFINE more == Append(p.groups, NewGroup(Local, NoUrl))
             all == IF Local \in GroupIdsOf(p.groups) THEN p.groups ELSE more
             at == Group(all, Local)
             g == [all[at] EXCEPT !.nodes = Append(@, [id |-> id, content |-> content]),
                                  !.selectedNodeId = id]
             r == [all EXCEPT ![at] = g]
             q == WithManualNode(p, id, content)
  <1>1. GoodGroups(p.groups, n) /\ DOMAIN p = ProfileFields BY DEF GoodProfile
  <1>2. GoodGroups(all, n) /\ id \notin NodeIdsOf(all)
    <2>1. CASE Local \in GroupIdsOf(p.groups) BY <1>1, <2>1
    <2>2. CASE Local \notin GroupIdsOf(p.groups)
      <3>1. all = more BY <2>2
      <3>2. GoodGroup(NewGroup(Local, NoUrl), n) BY NewGroupGood DEF Urls
      <3>3. IsSeq(p.groups) BY <1>1 DEF GoodGroups
      <3>4. \A i \in DOMAIN more : \/ more[i] = NewGroup(Local, NoUrl)
                                   \/ i \in DOMAIN p.groups /\ more[i] = p.groups[i]
        <4> DEFINE g0 == NewGroup(Local, NoUrl)
        <4>1. PICK k \in Nat :
                /\ DOMAIN p.groups = 1 .. k /\ DOMAIN more = 1 .. (k + 1)
                /\ \A i \in DOMAIN p.groups : more[i] = p.groups[i]
                /\ more[k + 1] = g0
          <5>1. /\ DOMAIN p.groups = 1 .. Len(p.groups) /\ Len(p.groups) \in Nat
                /\ DOMAIN more = 1 .. (Len(p.groups) + 1)
                /\ \A i \in DOMAIN p.groups : more[i] = p.groups[i]
                /\ more[Len(p.groups) + 1] = g0
            BY <3>3, AppendSeq
          <5> HIDE DEF more
          <5>2. QED BY <5>1
        <4> HIDE DEF more, g0
        <4>2. \A i \in DOMAIN more : i \in DOMAIN p.groups \/ i = k + 1 BY <4>1
        <4>3. \A i \in DOMAIN more : more[i] = g0 \/ (i \in DOMAIN p.groups /\ more[i] = p.groups[i])
          <5> TAKE i \in DOMAIN more
          <5>1. CASE i \in DOMAIN p.groups BY <4>1, <5>1
          <5>2. CASE i = k + 1 BY <4>1, <5>2
          <5>3. QED BY <4>2, <5>1, <5>2
        <4>4. QED BY <4>3 DEF g0
      <3>5. Ids(NewGroup(Local, NoUrl).nodes) = {} BY DEF NewGroup, Ids
      <3>6. GoodGroups(more, n) BY <1>1, <3>2, GroupAdded
      <3> HIDE DEF more
      <3>7. id \notin NodeIdsOf(more) BY <3>4, <3>5 DEF NodeIdsOf
      <3>8. QED BY <3>1, <3>6, <3>7
    <2>3. QED BY <2>1, <2>2
  <1>3. /\ DOMAIN q = ProfileFields /\ q.url = p.url /\ q.nodes = p.nodes /\ q.groups = r
    <2>1. CASE Local \in GroupIdsOf(p.groups)
      <3>1. all = p.groups BY <2>1
      <3>2. q = [p EXCEPT !.groups[at].nodes = Append(@, [id |-> id, content |-> content]),
                          !.groups[at].selectedNodeId = id,
                          !.selectedGroupId = Local, !.selectedNodeId = id]
        BY <2>1 DEF WithManualNode
      <3> HIDE DEF q, all, at
      <3>3. QED BY <1>1, <3>1, <3>2 DEF ProfileFields
    <2>2. CASE Local \notin GroupIdsOf(p.groups)
      <3> DEFINE p2 == [p EXCEPT !.groups = more]
      <3>1. all = more BY <2>2
      <3>2. /\ DOMAIN p2 = ProfileFields /\ p2.url = p.url /\ p2.nodes = p.nodes
            /\ p2.groups = more
        BY <1>1 DEF ProfileFields
      <3>3. p2 = [p EXCEPT !.groups = Append(@, NewGroup(Local, NoUrl))] OBVIOUS
      <3>4. q = [p2 EXCEPT !.groups[at].nodes = Append(@, [id |-> id, content |-> content]),
                           !.groups[at].selectedNodeId = id,
                           !.selectedGroupId = Local, !.selectedNodeId = id]
        <4> HIDE DEF p2
        <4>1. q = [p2 EXCEPT !.groups[Group(p2.groups, Local)].nodes
                                = Append(@, [id |-> id, content |-> content]),
                             !.groups[Group(p2.groups, Local)].selectedNodeId = id,
                             !.selectedGroupId = Local, !.selectedNodeId = id]
          BY <2>2, <3>3 DEF WithManualNode
        <4>2. at = Group(p2.groups, Local) BY <3>1, <3>2
        <4>3. QED BY <4>1, <4>2
      <3> HIDE DEF q, all, at, p2, more
      <3>5. QED BY <3>1, <3>2, <3>4 DEF ProfileFields
    <2>3. QED BY <2>1, <2>2
  <1> HIDE DEF at, all, q
  <1>4. at \in DOMAIN all => AnyGroup(g, n)
    <2> SUFFICES ASSUME at \in DOMAIN all PROVE AnyGroup(g, n) OBVIOUS
    <2>1. GoodGroup(all[at], n) BY <1>2 DEF GoodGroups
    <2>2. id \notin Ids(all[at].nodes) BY <1>2 DEF NodeIdsOf
    <2> DEFINE nodes == Append(all[at].nodes, [id |-> id, content |-> content])
    <2>3. GoodNodes(nodes, n)
      <3>1. GoodNodes(all[at].nodes, n) BY <2>1 DEF GoodGroup
      <3>2. QED BY <2>2, <3>1, NodeAdded
    <2>4. /\ DOMAIN g = GroupFields /\ g.url = all[at].url
          /\ g.nodes = nodes /\ g.enabled = all[at].enabled
      BY <2>1 DEF GoodGroup, GroupFields
    <2> HIDE DEF g, nodes
    <2>5. QED BY <2>1, <2>3, <2>4 DEF GoodGroup, AnyGroup, AnyNodes
  <1> HIDE DEF g
  <1>5. AnyGroups(r, n) BY <1>2, <1>4, GoodIsAny, GroupReplaced
  <1> HIDE DEF r
  <1>6. AnyProfile(q, n) BY <1>3, <1>5, GroupsExcept
  <1>7. QED BY <1>6 DEF q

LEMMA UrlSaved ==
  ASSUME NEW n \in Nat, NEW p, GoodProfile(p, n), NEW id, NEW url \in Url, NEW fresh
  PROVE  AnyProfile(WithUrl(p, id, url, fresh), n)
  <1>1. GoodGroups(p.groups, n) /\ DOMAIN p = ProfileFields BY DEF GoodProfile
  <1>2. url \in Urls BY DEF Urls
  <1> DEFINE at == Group(p.groups, ActiveOr(p, id))
             all == Append(p.groups, NewGroup(fresh, url))
             q == [p EXCEPT !.groups = all, !.selectedGroupId = fresh]
  <1>3. \/ WithUrl(p, id, url, fresh) = [p EXCEPT !.groups[at].url = url]
        \/ WithUrl(p, id, url, fresh) = q
    BY DEF WithUrl
  <1>4. CASE WithUrl(p, id, url, fresh) = [p EXCEPT !.groups[at].url = url]
    <2> HIDE DEF at
    <2>1. AnyProfile([p EXCEPT !.groups[at].url = url], n) BY <1>2, UrlEdited
    <2>2. QED BY <1>4, <2>1
  <1>5. CASE WithUrl(p, id, url, fresh) = q
    <2>1. GoodGroup(NewGroup(fresh, url), n) BY <1>2, NewGroupGood
    <2>2. AnyGroups(all, n) BY <1>1, <2>1, GroupAdded, GoodIsAny
    <2> HIDE DEF all
    <2>3. DOMAIN q = ProfileFields /\ q.url = p.url /\ q.nodes = p.nodes /\ q.groups = all
      BY <1>1 DEF ProfileFields
    <2> HIDE DEF q
    <2>4. QED BY <1>5, <2>2, <2>3, GroupsExcept
  <1>6. QED BY <1>3, <1>4, <1>5

LEMMA NodesSaved ==
  ASSUME NEW n \in Nat, NEW p, GoodProfile(p, n), NEW id, NEW url \in Url, NEW nodes,
         AnyNodes(nodes, n), NEW selected, NEW makeActive, NEW fresh
  PROVE  AnyProfile(WithNodes(p, id, url, nodes, selected, makeActive, fresh), n)
  <1>1. GoodGroups(p.groups, n) /\ DOMAIN p = ProfileFields BY DEF GoodProfile
  <1>2. url \in Urls BY DEF Urls
  <1> DEFINE found == TargetGroup(p, id, url) \in GroupIdsOf(p.groups)
             p2 == IF found THEN p ELSE [p EXCEPT !.groups = Append(@, NewGroup(fresh, url))]
             r == WithNodes(p, id, url, nodes, selected, makeActive, fresh)
  <1>3. /\ DOMAIN p2 = ProfileFields /\ p2.url = p.url /\ p2.nodes = p.nodes
        /\ GoodGroups(p2.groups, n)
    <2>1. CASE found BY <1>1, <2>1
    <2>2. CASE ~found
      <3> DEFINE all == Append(p.groups, NewGroup(fresh, url))
      <3>1. GoodGroup(NewGroup(fresh, url), n) BY <1>2, NewGroupGood
      <3>2. GoodGroups(all, n) BY <1>1, <3>1, GroupAdded
      <3>3. p2 = [p EXCEPT !.groups = all] BY <2>2
      <3> HIDE DEF all, p2
      <3>4. QED BY <1>1, <3>2, <3>3 DEF ProfileFields
    <2>3. QED BY <2>1, <2>2
  <1>4. \E at, kept, current, browsed :
          r = [p2 EXCEPT !.groups[at].url = url, !.groups[at].nodes = nodes,
                         !.groups[at].selectedNodeId = kept,
                         !.selectedNodeId = current, !.selectedGroupId = browsed]
    BY DEF WithNodes
  <1>5. PICK at, kept, current, browsed :
          r = [p2 EXCEPT !.groups[at].url = url, !.groups[at].nodes = nodes,
                         !.groups[at].selectedNodeId = kept,
                         !.selectedNodeId = current, !.selectedGroupId = browsed]
    BY <1>4
  <1> HIDE DEF p2, r
  <1> DEFINE g == [p2.groups[at] EXCEPT !.url = url, !.nodes = nodes, !.selectedNodeId = kept]
             all == [p2.groups EXCEPT ![at] = g]
  <1>6. DOMAIN r = ProfileFields /\ r.url = p2.url /\ r.nodes = p2.nodes /\ r.groups = all
    BY <1>3, <1>5 DEF ProfileFields
  <1>7. at \in DOMAIN p2.groups => AnyGroup(g, n)
    <2> SUFFICES ASSUME at \in DOMAIN p2.groups PROVE AnyGroup(g, n) OBVIOUS
    <2>1. GoodGroup(p2.groups[at], n) BY <1>3 DEF GoodGroups
    <2>2. /\ DOMAIN g = GroupFields /\ g.url = url
          /\ g.nodes = nodes /\ g.enabled = p2.groups[at].enabled
      BY <2>1 DEF GoodGroup, GroupFields
    <2> HIDE DEF g
    <2>3. QED BY <1>2, <2>1, <2>2 DEF GoodGroup, AnyGroup, AnyNodes
  <1> HIDE DEF g
  <1>8. AnyGroups(all, n) BY <1>3, <1>7, GoodIsAny, GroupReplaced
  <1> HIDE DEF all
  <1>9. AnyProfile(r, n) BY <1>3, <1>6, <1>8, GroupsExcept
  <1>10. QED BY <1>9 DEF r

LEMMA GroupsEdited ==
  ASSUME NEW n \in Nat, NEW p, GoodProfile(p, n), NEW groups, AnyGroups(groups, n)
  PROVE  AnyProfile([p EXCEPT !.groups = groups], n)
  <1> DEFINE q == [p EXCEPT !.groups = groups]
  <1>1. DOMAIN q = ProfileFields /\ q.url = p.url /\ q.nodes = p.nodes /\ q.groups = groups
    BY DEF GoodProfile, ProfileFields
  <1> HIDE DEF q
  <1>2. AnyProfile(q, n) BY <1>1, GroupsExcept
  <1>3. QED BY <1>2 DEF q

LEMMA GroupsAndBrowsedEdited ==
  ASSUME NEW n \in Nat, NEW p, GoodProfile(p, n), NEW groups, AnyGroups(groups, n), NEW id
  PROVE  AnyProfile([p EXCEPT !.groups = groups, !.selectedGroupId = id], n)
  <1> DEFINE q == [p EXCEPT !.groups = groups, !.selectedGroupId = id]
  <1>1. DOMAIN q = ProfileFields /\ q.url = p.url /\ q.nodes = p.nodes /\ q.groups = groups
    BY DEF GoodProfile, ProfileFields
  <1> HIDE DEF q
  <1>2. AnyProfile(q, n) BY <1>1, GroupsExcept
  <1>3. QED BY <1>2 DEF q

(* Whatever an operation makes of a stored profile can be normalized.      *)
LEMMA EditedIsAny ==
  ASSUME NEW n \in Nat, NEW p, GoodProfile(p, n), NEW op, OpOK(op, n),
         op.name = "addManualNode" => op.id \notin NodeIdsOf(p.groups)
  PROVE  AnyProfile(Edited(op, p), n)
  <1>0. GoodGroups(p.groups, n) BY DEF GoodProfile
  <1>1. CASE op.name = "selectNode"
    <2>1. Edited(op, p) = WithSelectedNode(p, op.id) BY <1>1 DEF Edited
    <2>2. QED BY <2>1, NodeSelected
  <1>2. CASE op.name = "selectGroup"
    <2> DEFINE q == [p EXCEPT !.selectedGroupId = op.id]
    <2>1. Edited(op, p) = q BY <1>2 DEF Edited
    <2>2. DOMAIN q = ProfileFields /\ q.url = p.url /\ q.nodes = p.nodes /\ q.groups = p.groups
      BY DEF GoodProfile, ProfileFields
    <2> HIDE DEF q
    <2>3. QED BY <1>0, <2>1, <2>2, GoodIsAny, GroupsExcept
  <1>3. CASE op.name = "toggleGroup"
    <2> DEFINE at == Group(p.groups, op.id)
    <2>1. Edited(op, p) = [p EXCEPT !.groups[at].enabled = ~@] BY <1>3 DEF Edited
    <2> HIDE DEF at
    <2>2. QED BY <2>1, EnabledEdited
  <1>4. CASE op.name = "removeGroup"
    <2> DEFINE groups == Kept(p.groups, {i \in DOMAIN p.groups : p.groups[i].id # op.id})
    <2>1. GoodGroups(groups, n) BY <1>0, GroupsKept
    <2>2. PICK id : Edited(op, p) = [p EXCEPT !.groups = groups, !.selectedGroupId = id]
      BY <1>4 DEF Edited, WithoutGroup
    <2> HIDE DEF groups
    <2>3. AnyGroups(groups, n) BY <2>1, GoodIsAny
    <2>4. AnyProfile([p EXCEPT !.groups = groups, !.selectedGroupId = id], n)
      BY <2>3, GroupsAndBrowsedEdited
    <2>5. QED BY <2>2, <2>4
  <1>5. CASE op.name = "moveGroup"
    <2> DEFINE at == Group(p.groups, op.id)
    <2>1. \/ Edited(op, p) = p
          \/ /\ op.id \in GroupIdsOf(p.groups) /\ Beside(p, op) \in DOMAIN p.groups
             /\ Edited(op, p) = [p EXCEPT !.groups = Swapped(@, Group(@, op.id), Beside(p, op))]
      BY <1>5 DEF Edited
    <2>2. CASE Edited(op, p) = p BY <2>2, GoodIsAny
    <2>3. ASSUME op.id \in GroupIdsOf(p.groups), Beside(p, op) \in DOMAIN p.groups,
                 Edited(op, p) = [p EXCEPT !.groups = Swapped(@, Group(@, op.id), Beside(p, op))]
          PROVE  AnyProfile(Edited(op, p), n)
      <3> DEFINE groups == Swapped(p.groups, at, Beside(p, op))
      <3>1. at \in DOMAIN p.groups BY <1>0, <2>3, GroupThere DEF GoodGroups
      <3>2. Edited(op, p) = [p EXCEPT !.groups = groups] BY <2>3
      <3> HIDE DEF at
      <3>3. AnyGroups(groups, n) BY <1>0, <2>3, <3>1, GroupsSwapped, GoodIsAny
      <3> HIDE DEF groups
      <3>4. QED BY <3>2, <3>3, GroupsEdited
    <2>4. QED BY <2>1, <2>2, <2>3
  <1>6. CASE op.name = "addGroup"
    <2> DEFINE groups == Append(p.groups, NewGroup(op.id, op.url))
    <2>1. GoodGroup(NewGroup(op.id, op.url), n) BY <1>6, NewGroupGood DEF OpOK
    <2>2. AnyGroups(groups, n) BY <1>0, <2>1, GroupAdded, GoodIsAny
    <2>3. Edited(op, p) = [p EXCEPT !.groups = groups, !.selectedGroupId = op.id]
      BY <1>6 DEF Edited
    <2> HIDE DEF groups
    <2>4. AnyProfile([p EXCEPT !.groups = groups, !.selectedGroupId = op.id], n)
      BY <2>2, GroupsAndBrowsedEdited
    <2>5. QED BY <2>3, <2>4
  <1>7. CASE op.name = "updateGroup"
    <2> DEFINE at == Group(p.groups, op.id)
    <2>1. Edited(op, p) = [p EXCEPT !.groups[at].url = op.url] BY <1>7 DEF Edited
    <2>2. op.url \in Urls BY <1>7 DEF OpOK
    <2> HIDE DEF at
    <2>3. AnyProfile([p EXCEPT !.groups[at].url = op.url], n) BY <2>2, UrlEdited
    <2>4. QED BY <2>1, <2>3
  <1>8. CASE op.name = "removeNode"
    <2> DEFINE groups == WithoutNodes(p.groups, {op.id})
    <2>1. AnyGroups(groups, n) BY <1>0, NodesRemoved, GoodIsAny
    <2>2. Edited(op, p) = [p EXCEPT !.groups = groups] BY <1>8 DEF Edited
    <2> HIDE DEF groups
    <2>3. QED BY <2>1, <2>2, GroupsEdited
  <1>9. CASE op.name = "addManualNode"
    <2>1. Edited(op, p) = WithManualNode(p, op.id, op.content) BY <1>9 DEF Edited
    <2>2. QED BY <1>9, <2>1, ManualNodeAdded DEF OpOK
  <1>10. CASE op.name = "updateManualNode"
    <2>1. Edited(op, p) = WithContent(p, op.id, op.content) BY <1>10 DEF Edited
    <2>2. QED BY <1>10, <2>1, ContentEdited DEF OpOK
  <1>11. CASE op.name = "saveGroups"
    <2>1. Edited(op, p) = [p EXCEPT !.groups = op.groups] BY <1>11 DEF Edited
    <2>2. AnyGroups(op.groups, n) BY <1>11, GoodIsAny DEF OpOK
    <2>3. QED BY <2>1, <2>2, GroupsEdited
  <1>12. CASE op.name = "restoreProfile"
    <2>1. Edited(op, p) = op.profile BY <1>12 DEF Edited
    <2>2. QED BY <1>12, <2>1 DEF OpOK
  <1>13. CASE op.name = "saveUrl"
    <2>1. Edited(op, p) = WithUrl(p, op.id, op.url, FreshId) BY <1>13 DEF Edited
    <2>2. QED BY <1>13, <2>1, UrlSaved DEF OpOK
  <1>14. CASE op.name = "saveNodes"
    <2>1. Edited(op, p) = WithNodes(p, op.id, op.url, op.nodes, op.selected, op.makeActive, FreshId)
      BY <1>14 DEF Edited
    <2>2. QED BY <1>14, <2>1, NodesSaved DEF OpOK
  <1>15. CASE op.name \notin {"selectNode", "selectGroup", "toggleGroup", "removeGroup", "moveGroup",
                "addGroup", "updateGroup", "removeNode", "addManualNode", "updateManualNode",
                "saveGroups", "restoreProfile", "saveUrl", "saveNodes"}
    <2>1. Edited(op, p) = p BY <1>15 DEF Edited
    <2>2. QED BY <2>1, GoodIsAny
  <1>16. QED BY <1>1, <1>2, <1>3, <1>4, <1>5, <1>6, <1>7, <1>8, <1>9, <1>10, <1>11, <1>12, <1>13,
                <1>14, <1>15

-----------------------------------------------------------------------------
(* The invariant of the data: what is stored, shown, loaded and fetched.   *)

BatchFields == {"pc", "profile", "index", "all", "loops"}

(* An update of several groups, between two of them.                       *)
BatchOK(b, n) == DOMAIN b = BatchFields /\ b.pc = "looping" /\ GoodProfile(b.profile, n)

BatchesOK(batch, n) == batch # <<>> => BatchOK(batch[1], n)

(* What a call carries from one step to the next.                          *)
CallOK(c, n) ==
  /\ c.pc \in {"loaded", "saved"} => OpOK(c.op, n)
  /\ c.pc \in {"loaded", "saved"} => (c.op.name = "saveNodes" => BatchesOK(c.op.batch, n))
  /\ c.pc = "loaded" => GoodProfile(c.copy, n)
  /\ c.pc = "loaded" => (c.op.name = "addManualNode" => c.op.id \notin NodeIdsOf(c.copy.groups))
  /\ c.pc \in {"resolved", "fetching"} => c.url \in Url
  /\ c.pc = "fetching" => BatchesOK(c.batch, n)
  /\ c.pc = "looping" => BatchOK(c, n)

DataInv ==
  /\ started \in Nat /\ DOMAIN task = Task
  /\ GoodProfile(stored, started) /\ GoodProfile(view, started)
  /\ \A t \in Task : CallOK(task[t], started)

LEMMA CallsLater ==
  ASSUME NEW n \in Nat, NEW m \in Nat, n <= m, NEW c, CallOK(c, n)
  PROVE  CallOK(c, m)
  <1>1. \A p : GoodProfile(p, n) => GoodProfile(p, m) BY ProfilesLater
  <1>2. \A p : AnyProfile(p, n) => AnyProfile(p, m) BY ProfilesLater
  <1>3. \A groups : GoodGroups(groups, n) => GoodGroups(groups, m) BY GroupsLater
  <1>4. \A nodes : AnyNodes(nodes, n) => AnyNodes(nodes, m) BY NodesLater DEF AnyNodes
  <1>5. NodeIds(n) \subseteq NodeIds(m) BY IdsGrow
  <1>6. \A op : OpOK(op, n) => OpOK(op, m)
    BY <1>2, <1>3, <1>4, <1>5 DEF OpOK
  <1>7. \A b : BatchesOK(b, n) => BatchesOK(b, m) BY <1>1 DEF BatchesOK, BatchOK
  <1>8. BatchOK(c, n) => BatchOK(c, m) BY <1>1 DEF BatchOK
  <1>9. QED BY <1>1, <1>6, <1>7, <1>8 DEF CallOK

LEMMA EmptyGood == \A n : GoodProfile(Empty, n)
  <1> TAKE n
  <1>1. /\ DOMAIN Empty = ProfileFields /\ Empty.url = NoUrl /\ Empty.nodes = <<>>
        /\ Empty.groups = <<>>
    BY DEF Empty, ProfileFields
  <1>2. <<>> \in Seq({}) /\ DOMAIN <<>> = {} OBVIOUS
  <1>3. GoodGroups(<<>>, n) BY <1>2, SequencesAre DEF GoodGroups
  <1>4. QED BY <1>1, <1>3, NoNodes DEF GoodProfile, Urls

LEMMA LoadGood ==
  ASSUME DataInv, NEW p \in Load
  PROVE  GoodProfile(p, started)
  <1>1. p = Normalize(stored) \/ p = Empty BY DEF Load
  <1>2. started \in Nat /\ GoodProfile(stored, started) BY DEF DataInv
  <1>3. GoodProfile(Normalize(stored), started) BY <1>2, GoodIsAny, NormalizedProfile
  <1>4. QED BY <1>1, <1>3, EmptyGood

(* A step that moves one call.                                             *)
LEMMA OneCallMoves ==
  ASSUME DataInv, NEW t \in Task, started' \in Nat, started <= started', NEW c,
         task' = [task EXCEPT ![t] = c], CallOK(c, started'),
         GoodProfile(stored', started'), GoodProfile(view', started')
  PROVE  DataInv'
  <1>1. started \in Nat /\ DOMAIN task = Task /\ \A u \in Task : CallOK(task[u], started)
    BY DEF DataInv
  <1>2. DOMAIN task' = Task /\ task'[t] = c /\ \A u \in Task : u # t => task'[u] = task[u]
    BY <1>1
  <1>3. \A u \in Task : CallOK(task'[u], started')
    BY <1>1, <1>2, CallsLater
  <1>4. QED BY <1>2, <1>3 DEF DataInv

(* An operation of a page starts.                                          *)
LEMMA PageStartsOK ==
  ASSUME DataInv, NEW t \in Task, NEW op, PageStarts(t, op), OpOK(op, started + 1),
         op.name # "saveNodes", op.name = "addManualNode" => op.id \notin NodeIds(started),
         GoodProfile(view', started)
  PROVE  DataInv'
  <1>1. /\ started \in Nat /\ started' = started + 1 /\ stored' = stored
        /\ GoodProfile(stored, started)
    BY DEF DataInv, PageStarts, CanStart
  <1>2. PICK copy \in Load :
           task' = [task EXCEPT ![t] = [pc |-> "loaded", op |-> op, copy |-> copy]]
    BY DEF PageStarts, Begin
  <1> DEFINE c == [pc |-> "loaded", op |-> op, copy |-> copy]
  <1>3. GoodProfile(copy, started) BY LoadGood
  <1>4. started' \in Nat /\ started <= started' BY <1>1
  <1>5. \A p : GoodProfile(p, started) => GoodProfile(p, started')
    BY <1>1, <1>4, ProfilesLater
  <1>6. op.name = "addManualNode" => op.id \notin NodeIdsOf(copy.groups)
    <2> SUFFICES ASSUME NEW i \in DOMAIN copy.groups, NEW j \in DOMAIN copy.groups[i].nodes,
                        op.id = copy.groups[i].nodes[j].id
                 PROVE  op.id \in NodeIds(started)
      BY DEF NodeIdsOf, Ids
    <2>1. GoodNodes(copy.groups[i].nodes, started)
      BY <1>3 DEF GoodProfile, GoodGroups, GoodGroup
    <2>2. copy.groups[i].nodes[j] \in Nodes(started) BY <2>1, GoodSeq
    <2>3. QED BY <2>2 DEF Nodes
  <1>7. CallOK(c, started')
    <2>1. c.pc = "loaded" /\ c.op = op /\ c.copy = copy OBVIOUS
    <2>2. GoodProfile(copy, started') /\ OpOK(op, started') BY <1>1, <1>3, <1>5
    <2> HIDE DEF c
    <2>3. QED BY <1>6, <2>1, <2>2 DEF CallOK
  <1>8. task' = [task EXCEPT ![t] = c] BY <1>2
  <1> HIDE DEF c
  <1>9. QED BY <1>1, <1>4, <1>5, <1>7, <1>8, OneCallMoves

(* A profile of earlier runs, or of a backup.                              *)
LEMMA OldIsAny ==
  ASSUME NEW p \in InitialProfiles \cup Backups, NEW n \in Nat
  PROVE  AnyProfile(p, n)
  <1>1. IsProfile(p) BY SourceAssumption
  <1>2. \A nodes \in SourceLists : AnyNodes(nodes, n)
    <2> TAKE nodes \in SourceLists
    <2>1. 0 \in Nat /\ 0 <= n OBVIOUS
    <2>2. QED BY <2>1, SourcesAreAny, NodesLater DEF AnyNodes
  <1>3. p.nodes \in SourceLists /\ \A i \in DOMAIN p.groups : p.groups[i].nodes \in SourceLists
    <2> DEFINE lists(q) == {q.nodes} \cup {q.groups[i].nodes : i \in DOMAIN q.groups}
    <2> DEFINE A == UNION {Fetched[url] : url \in Url}
               B == UNION {lists(q) : q \in InitialProfiles \cup Backups}
    <2>0. SourceLists = A \cup B BY DEF SourceLists
    <2>1. B \subseteq SourceLists
      <3> HIDE DEF A, B
      <3>1. QED BY <2>0
    <2>2. p.nodes \in lists(p) /\ \A i \in DOMAIN p.groups : p.groups[i].nodes \in lists(p)
      OBVIOUS
    <2> HIDE DEF lists
    <2>3. lists(p) \subseteq SourceLists BY <2>1
    <2>4. QED BY <2>2, <2>3
  <1>4. \A i \in DOMAIN p.groups : AnyGroup(p.groups[i], n)
    <2> TAKE i \in DOMAIN p.groups
    <2>1. IsGroup(p.groups[i]) BY <1>1 DEF IsProfile
    <2>2. DOMAIN NewGroup(NoGroup, NoUrl) = GroupFields BY DEF NewGroup, GroupFields
    <2>3. QED BY <1>2, <1>3, <2>1, <2>2 DEF IsGroup, AnyGroup, AnyNodes, Urls
  <1>5. DOMAIN Empty = ProfileFields BY DEF Empty, ProfileFields
  <1>6. QED BY <1>1, <1>2, <1>3, <1>4, <1>5 DEF IsProfile, AnyProfile, AnyGroups, AnyNodes, Urls

LEMMA NodesSwappedInGroup ==
  ASSUME NEW n, NEW groups, GoodGroups(groups, n), NEW i \in DOMAIN groups,
         NEW nodes, GoodNodes(nodes, n)
  PROVE  GoodGroups([groups EXCEPT ![i].nodes = nodes], n)
  <1> DEFINE g == [groups[i] EXCEPT !.nodes = nodes]
             r == [groups EXCEPT ![i] = g]
  <1>1. IsSeq(groups) /\ GoodGroup(groups[i], n) /\ \A k \in DOMAIN groups : GoodGroup(groups[k], n)
    BY DEF GoodGroups
  <1>2. /\ DOMAIN g = GroupFields /\ g.url = groups[i].url
        /\ g.nodes = nodes /\ g.enabled = groups[i].enabled
    BY <1>1 DEF GoodGroup, GroupFields
  <1>3. [groups EXCEPT ![i].nodes = nodes] = r OBVIOUS
  <1> HIDE DEF g
  <1>4. GoodGroup(g, n) BY <1>1, <1>2 DEF GoodGroup
  <1>5. /\ IsSeq(r) /\ DOMAIN r = DOMAIN groups
        /\ \A k \in DOMAIN groups : r[k] = IF k = i THEN g ELSE groups[k]
    BY <1>1, ExceptSeq
  <1> HIDE DEF r
  <1>6. GoodGroups(r, n) BY <1>1, <1>4, <1>5 DEF GoodGroups
  <1>7. QED BY <1>3, <1>6

(* Each operation of a page, as it is called.                              *)
LEMMA StoreOpKeeps ==
  ASSUME DataInv, NEW t \in Task, StoreOp(t)
  PROVE  DataInv'
  <1>1. started \in Nat /\ GoodProfile(view, started) BY DEF DataInv
  <1>2. GoodGroups(view.groups, started) BY <1>1 DEF GoodProfile
  <1>3. ASSUME NEW op, PageStarts(t, op), UNCHANGED view, OpOK(op, started + 1),
               op.name \notin {"saveNodes", "addManualNode"}
        PROVE  DataInv'
    BY <1>1, <1>3, PageStartsOK
  <1>4. CASE SelectNode(t)
    <2>1. PICK i, j :
            /\ PageStarts(t, [name |-> "selectNode", id |-> view.groups[i].nodes[j].id])
            /\ view' = [view EXCEPT !.selectedNodeId = view.groups[i].nodes[j].id]
      BY <1>4 DEF SelectNode
    <2> DEFINE op == [name |-> "selectNode", id |-> view.groups[i].nodes[j].id]
    <2>2. op.name = "selectNode" /\ PageStarts(t, op) BY <2>1
    <2>3. /\ DOMAIN view' = ProfileFields /\ view'.url = view.url /\ view'.nodes = view.nodes
          /\ view'.groups = view.groups
      BY <1>1, <2>1 DEF GoodProfile, ProfileFields
    <2>4. GoodProfile(view', started) BY <1>1, <2>3 DEF GoodProfile
    <2> HIDE DEF op
    <2>5. OpOK(op, started + 1) BY <2>2 DEF OpOK
    <2>6. QED BY <2>2, <2>4, <2>5, PageStartsOK
  <1>5. ASSUME NEW name \in {"selectGroup", "toggleGroup", "removeGroup"}, NEW ids,
               OnGroup(t, name, ids)
        PROVE  DataInv'
    <2>1. PICK id \in ids : PageStarts(t, [name |-> name, id |-> id]) /\ UNCHANGED view
      BY <1>5 DEF OnGroup
    <2> DEFINE op == [name |-> name, id |-> id]
    <2>2. op.name = name /\ PageStarts(t, op) BY <2>1
    <2> HIDE DEF op
    <2>3. OpOK(op, started + 1) BY <2>2 DEF OpOK
    <2>4. QED BY <1>3, <2>1, <2>2, <2>3
  <1>6. CASE SelectGroup(t) \/ ToggleGroup(t) \/ RemoveGroup(t)
    BY <1>5, <1>6 DEF SelectGroup, ToggleGroup, RemoveGroup
  <1>7. CASE MoveGroup(t)
    <2>1. PICK id, up : /\ PageStarts(t, [name |-> "moveGroup", id |-> id, up |-> up])
                        /\ UNCHANGED view
      BY <1>7 DEF MoveGroup
    <2> DEFINE op == [name |-> "moveGroup", id |-> id, up |-> up]
    <2>2. op.name = "moveGroup" /\ PageStarts(t, op) BY <2>1
    <2> HIDE DEF op
    <2>3. OpOK(op, started + 1) BY <2>2 DEF OpOK
    <2>4. QED BY <1>3, <2>1, <2>2, <2>3
  <1>8. CASE AddGroup(t)
    <2>1. PICK url \in Urls : /\ PageStarts(t, [name |-> "addGroup", id |-> FreshId, url |-> url])
                              /\ UNCHANGED view
      BY <1>8 DEF AddGroup, Urls
    <2> DEFINE op == [name |-> "addGroup", id |-> FreshId, url |-> url]
    <2>2. op.name = "addGroup" /\ op.url = url /\ PageStarts(t, op) BY <2>1
    <2> HIDE DEF op
    <2>3. OpOK(op, started + 1) BY <2>2 DEF OpOK
    <2>4. QED BY <1>3, <2>1, <2>2, <2>3
  <1>9. CASE UpdateGroup(t)
    <2>1. PICK url \in Urls, id \in Shown :
            /\ PageStarts(t, [name |-> "updateGroup", id |-> id, url |-> url])
            /\ UNCHANGED view
      BY <1>9 DEF UpdateGroup, Urls
    <2> DEFINE op == [name |-> "updateGroup", id |-> id, url |-> url]
    <2>2. op.name = "updateGroup" /\ op.url = url /\ PageStarts(t, op) BY <2>1
    <2> HIDE DEF op
    <2>3. OpOK(op, started + 1) BY <2>2 DEF OpOK
    <2>4. QED BY <1>3, <2>1, <2>2, <2>3
  <1>10. CASE RemoveNode(t)
    <2>1. PICK id : PageStarts(t, [name |-> "removeNode", id |-> id]) /\ UNCHANGED view
      BY <1>10 DEF RemoveNode
    <2> DEFINE op == [name |-> "removeNode", id |-> id]
    <2>2. op.name = "removeNode" /\ PageStarts(t, op) BY <2>1
    <2> HIDE DEF op
    <2>3. OpOK(op, started + 1) BY <2>2 DEF OpOK
    <2>4. QED BY <1>3, <2>1, <2>2, <2>3
  <1>11. CASE AddManualNode(t)
    <2> DEFINE id == <<"manual", started>>
    <2>1. PICK content \in ManualContent :
            /\ PageStarts(t, [name |-> "addManualNode", id |-> id, content |-> content])
            /\ UNCHANGED view
      BY <1>11 DEF AddManualNode
    <2>2. started < MaxTasks /\ MaxTasks \in Nat
      BY <2>1, TaskAssumption DEF PageStarts, CanStart
    <2>3. id \in NodeIds(started + 1) /\ id \notin NodeIds(started)
      <3>1. "manual" \in Part /\ started \in Part BY <1>1 DEF Part
      <3>2. id \in Seq(Part) /\ id # <<>> /\ Len(id) = 2 /\ id[1] = "manual" /\ id[2] = started
        BY <3>1
      <3>3. started \notin (started + 1) .. MaxTasks /\ started \in started .. MaxTasks
        BY <1>1, <2>2
      <3> HIDE DEF id
      <3>4. ManualDrawn(id, started) BY <3>2, <3>3 DEF ManualDrawn, NoNode
      <3>5. ~ManualDrawn(id, started + 1) BY <3>2, <3>3 DEF ManualDrawn
      <3>6. QED BY <3>2, <3>4, <3>5 DEF NodeIds, NoNode
    <2>4. content \in Content BY SourceAssumption
    <2> HIDE DEF id
    <2> DEFINE op == [name |-> "addManualNode", id |-> id, content |-> content]
    <2>5. op.name = "addManualNode" /\ op.id = id /\ op.content = content /\ PageStarts(t, op)
      BY <2>1
    <2> HIDE DEF op
    <2>6. OpOK(op, started + 1) BY <2>3, <2>4, <2>5 DEF OpOK
    <2>7. GoodProfile(view', started) BY <1>1, <2>1
    <2>8. QED BY <2>3, <2>5, <2>6, <2>7, PageStartsOK
  <1>12. CASE UpdateManualNode(t)
    <2>1. PICK content \in ManualContent, id \in Ids(view.nodes) :
            /\ PageStarts(t, [name |-> "updateManualNode", id |-> id, content |-> content])
            /\ UNCHANGED view
      BY <1>12 DEF UpdateManualNode
    <2>2. content \in Content BY SourceAssumption
    <2> DEFINE op == [name |-> "updateManualNode", id |-> id, content |-> content]
    <2>3. op.name = "updateManualNode" /\ op.content = content /\ PageStarts(t, op) BY <2>1
    <2> HIDE DEF op
    <2>4. OpOK(op, started + 1) BY <2>2, <2>3 DEF OpOK
    <2>5. QED BY <1>3, <2>1, <2>3, <2>4
  <1>13. CASE SaveDelays(t)
    <2> DEFINE op == [name |-> "saveDelays"]
    <2>1. op.name = "saveDelays" /\ PageStarts(t, op) /\ UNCHANGED view BY <1>13 DEF SaveDelays
    <2> HIDE DEF op
    <2>2. OpOK(op, started + 1) BY <2>1 DEF OpOK
    <2>3. QED BY <1>3, <2>1, <2>2
  <1>14. CASE RestoreProfile(t)
    <2>1. PICK p \in Backups :
            PageStarts(t, [name |-> "restoreProfile", profile |-> p]) /\ UNCHANGED view
      BY <1>14 DEF RestoreProfile
    <2>2. AnyProfile(p, started + 1) BY <1>1, OldIsAny
    <2> DEFINE op == [name |-> "restoreProfile", profile |-> p]
    <2>3. op.name = "restoreProfile" /\ op.profile = p /\ PageStarts(t, op) BY <2>1
    <2> HIDE DEF op
    <2>4. OpOK(op, started + 1) BY <2>2, <2>3 DEF OpOK
    <2>5. QED BY <1>3, <2>1, <2>3, <2>4
  <1>15. CASE EditNodes(t)
    <2>1. PICK ids, groups :
            /\ PageStarts(t, [name |-> "saveGroups", ids |-> ids, groups |-> groups])
            /\ UNCHANGED view
            /\ \/ groups = WithoutNodes(view.groups, ids)
               \/ \E i \in DOMAIN view.groups : \E j \in DOMAIN view.groups[i].nodes :
                    /\ j + 1 \in DOMAIN view.groups[i].nodes
                    /\ groups = [view.groups EXCEPT ![i].nodes
                                   = Swapped(view.groups[i].nodes, j, j + 1)]
      BY <1>15 DEF EditNodes
    <2>2. GoodGroups(groups, started)
      <3>1. CASE groups = WithoutNodes(view.groups, ids) BY <1>1, <1>2, <3>1, NodesRemoved
      <3>2. ASSUME NEW i \in DOMAIN view.groups, NEW j \in DOMAIN view.groups[i].nodes,
                   j + 1 \in DOMAIN view.groups[i].nodes,
                   groups = [view.groups EXCEPT ![i].nodes
                               = Swapped(view.groups[i].nodes, j, j + 1)]
            PROVE  GoodGroups(groups, started)
        <4>1. GoodNodes(view.groups[i].nodes, started) BY <1>2 DEF GoodGroups, GoodGroup
        <4>2. GoodNodes(Swapped(view.groups[i].nodes, j, j + 1), started)
          BY <3>2, <4>1, NodesSwapped
        <4>3. QED BY <1>2, <3>2, <4>2, NodesSwappedInGroup
      <3>3. QED BY <2>1, <3>1, <3>2
    <2>3. GoodGroups(groups, started + 1)
      <3>1. started + 1 \in Nat /\ started <= started + 1 BY <1>1
      <3>2. QED BY <1>1, <2>2, <3>1, GroupsLater
    <2> DEFINE op == [name |-> "saveGroups", ids |-> ids, groups |-> groups]
    <2>4. op.name = "saveGroups" /\ op.groups = groups /\ PageStarts(t, op) BY <2>1
    <2> HIDE DEF op
    <2>5. OpOK(op, started + 1) BY <2>3, <2>4 DEF OpOK
    <2>6. QED BY <1>3, <2>1, <2>4, <2>5
  <1>16. QED BY <1>4, <1>6, <1>7, <1>8, <1>9, <1>10, <1>11, <1>12, <1>13, <1>14, <1>15 DEF StoreOp

(* A step of a call that starts or goes on without anything else.          *)
LEMMA CallGoesOn ==
  ASSUME DataInv, NEW t \in Task, started' \in {started, started + 1}, NEW c,
         task' = [task EXCEPT ![t] = c], CallOK(c, started),
         GoodProfile(stored', started), GoodProfile(view', started)
  PROVE  DataInv'
  <1>1. started \in Nat BY DEF DataInv
  <1>2. started' \in Nat /\ started <= started' BY <1>1
  <1>3. CallOK(c, started') BY <1>1, <1>2, CallsLater
  <1>4. GoodProfile(stored', started') /\ GoodProfile(view', started')
    BY <1>1, <1>2, ProfilesLater
  <1>5. QED BY <1>2, <1>3, <1>4, OneCallMoves

LEMMA IdleOK == \A n : CallOK(Idle, n)
  BY DEF CallOK, Idle

(* An update of a group saves what it asked for.                           *)
LEMMA BeginOK ==
  ASSUME DataInv, NEW t \in Task, NEW op, Begin(t, op), OpOK(op, started),
         op.name # "addManualNode", op.name = "saveNodes" => BatchesOK(op.batch, started),
         UNCHANGED <<stored, view, started>>
  PROVE  DataInv'
  <1>1. PICK copy \in Load :
           task' = [task EXCEPT ![t] = [pc |-> "loaded", op |-> op, copy |-> copy]]
    BY DEF Begin
  <1> DEFINE c == [pc |-> "loaded", op |-> op, copy |-> copy]
  <1>2. c.pc = "loaded" /\ c.op = op /\ c.copy = copy /\ task' = [task EXCEPT ![t] = c] BY <1>1
  <1>3. GoodProfile(copy, started) BY LoadGood
  <1> HIDE DEF c
  <1>4. CallOK(c, started) BY <1>2, <1>3 DEF CallOK
  <1>5. GoodProfile(stored', started) /\ GoodProfile(view', started) /\ started' = started
    BY DEF DataInv
  <1>6. QED BY <1>2, <1>4, <1>5, CallGoesOn

LEMMA ContinuedOK ==
  ASSUME NEW n, NEW b, BatchOK(b, n), NEW p, GoodProfile(p, n)
  PROVE  CallOK(Continued(b, p), n)
  <1> DEFINE c == Continued(b, p)
  <1>1. DOMAIN c = BatchFields /\ c.pc = "looping" /\ c.profile \in {b.profile, p}
    BY DEF BatchOK, BatchFields, Continued
  <1> HIDE DEF c
  <1>2. CallOK(c, n) BY <1>1 DEF BatchOK, CallOK
  <1>3. QED BY <1>2 DEF c

LEMMA UpdateOpKeeps ==
  ASSUME DataInv, NEW t \in Task, UpdateOp(t)
  PROVE  DataInv'
  <1>1. /\ started \in Nat /\ DOMAIN task = Task /\ CallOK(task[t], started)
        /\ GoodProfile(stored, started) /\ GoodProfile(view, started)
    BY DEF DataInv
  <1>2. \A p \in Load : GoodProfile(p, started) BY LoadGood
  <1>3. CASE Update(t)
    <2>1. PICK url, id, selected :
            /\ url \in Url
            /\ task' = [task EXCEPT ![t] = [pc |-> "resolved", id |-> id, url |-> url,
                                            selected |-> selected]]
            /\ started' = started + 1 /\ UNCHANGED <<stored, view>>
      BY <1>3 DEF Update, CanStart
    <2> DEFINE c == [pc |-> "resolved", id |-> id, url |-> url, selected |-> selected]
    <2>2. c.pc = "resolved" /\ c.url = url /\ url \in Url BY <2>1
    <2>3. task' = [task EXCEPT ![t] = c] BY <2>1
    <2> HIDE DEF c
    <2>4. CallOK(c, started) BY <2>2 DEF CallOK
    <2>5. QED BY <1>1, <2>1, <2>3, <2>4, CallGoesOn
  <1>4. CASE SaveUrl(t)
    <2> DEFINE op == [name |-> "saveUrl", id |-> task[t].id, url |-> task[t].url,
                      selected |-> task[t].selected]
    <2>1. Begin(t, op) /\ UNCHANGED <<stored, view, started>> /\ task[t].url \in Url
      BY <1>1, <1>4 DEF SaveUrl, CallOK
    <2>2. op.name = "saveUrl" /\ op.url \in Url BY <2>1
    <2> HIDE DEF op
    <2>3. OpOK(op, started) BY <2>2 DEF OpOK
    <2>4. QED BY <2>1, <2>2, <2>3, BeginOK
  <1>5. CASE AskSource(t)
    <2>1. PICK id, selected :
            task' = [task EXCEPT ![t] = [pc |-> "fetching", url |-> task[t].op.url,
                                         selected |-> selected, id |-> id, batch |-> <<>>]]
      BY <1>5 DEF AskSource
    <2>2. task[t].op.url \in Url
      <3>1. task[t].pc = "saved" /\ task[t].op.name = "saveUrl" BY <1>5 DEF AskSource
      <3>2. QED BY <1>1, <3>1 DEF CallOK, OpOK
    <2> DEFINE c == [pc |-> "fetching", url |-> task[t].op.url,
                     selected |-> selected, id |-> id, batch |-> <<>>]
    <2>3. c.pc = "fetching" /\ c.url = task[t].op.url /\ c.batch = <<>> OBVIOUS
    <2>4. task' = [task EXCEPT ![t] = c] /\ UNCHANGED <<stored, view, started>>
      BY <1>5, <2>1 DEF AskSource
    <2> HIDE DEF c
    <2>5. CallOK(c, started) BY <2>2, <2>3 DEF CallOK, BatchesOK
    <2>6. QED BY <1>1, <2>4, <2>5, CallGoesOn
  <1>6. ASSUME NEW i, NEW all, NEW loops, NEW p \in Load,
               task' = [task EXCEPT ![t] = [pc |-> "looping", profile |-> p, index |-> i,
                                            all |-> all, loops |-> loops]],
               CanStart(t), UNCHANGED <<stored, view>>
        PROVE  DataInv'
    <2> DEFINE c == [pc |-> "looping", profile |-> p, index |-> i, all |-> all, loops |-> loops]
    <2>1. c.pc = "looping" /\ c.profile = p /\ DOMAIN c = BatchFields BY DEF BatchFields
    <2>2. task' = [task EXCEPT ![t] = c] /\ started' = started + 1 BY <1>6 DEF CanStart
    <2> HIDE DEF c
    <2>3. CallOK(c, started) BY <1>2, <2>1 DEF CallOK, BatchOK
    <2>4. QED BY <1>1, <1>6, <2>2, <2>3, CallGoesOn
  <1>7. CASE UpdateAll(t) \/ UpdateDue(t)
    <2>1. PICK all : Batch(t, all) BY <1>7 DEF UpdateAll, UpdateDue
    <2>2. QED BY <1>6, <2>1 DEF Batch
  <1>8. CASE UpdateDueGroup(t)
    BY <1>6, <1>8 DEF UpdateDueGroup
  <1>9. CASE NextGroup(t)
    <2> DEFINE b == task[t]
    <2>1. PICK i \in DOMAIN b.profile.groups :
            /\ Updatable(b.profile.groups[i])
            /\ task' = [task EXCEPT ![t] =
                 [pc |-> "fetching", id |-> b.profile.groups[i].id, url |-> b.profile.groups[i].url,
                  selected |-> b.profile.groups[i].selectedNodeId,
                  batch |-> <<[b EXCEPT !.index = i + 1]>>]]
      BY <1>9 DEF NextGroup
    <2>2. b.pc = "looping" /\ UNCHANGED <<stored, view, started>> BY <1>9 DEF NextGroup
    <2>3. BatchOK(b, started) BY <1>1, <2>2 DEF CallOK
    <2>4. b.profile.groups[i].url \in Url
      <3>1. GoodGroup(b.profile.groups[i], started)
        BY <2>1, <2>3 DEF BatchOK, GoodProfile, GoodGroups
      <3>2. QED BY <2>1, <3>1 DEF Updatable, GoodGroup, Urls
    <2> DEFINE next == [b EXCEPT !.index = i + 1]
    <2>5. BatchOK(next, started)
      <3>1. DOMAIN next = DOMAIN b /\ next.pc = b.pc /\ next.profile = b.profile
        BY <2>3 DEF BatchOK, BatchFields
      <3> HIDE DEF next
      <3>2. QED BY <2>3, <3>1 DEF BatchOK
    <2> HIDE DEF next
    <2> DEFINE c == [pc |-> "fetching", id |-> b.profile.groups[i].id,
                     url |-> b.profile.groups[i].url,
                     selected |-> b.profile.groups[i].selectedNodeId, batch |-> <<next>>]
    <2>6. c.pc = "fetching" /\ c.url = b.profile.groups[i].url /\ c.batch[1] = next OBVIOUS
    <2>7. task' = [task EXCEPT ![t] = c] BY <2>1 DEF next
    <2> HIDE DEF c
    <2>8. CallOK(c, started) BY <2>4, <2>5, <2>6 DEF CallOK, BatchesOK
    <2>9. QED BY <1>1, <2>2, <2>7, <2>8, CallGoesOn
  <1>10. CASE EndBatch(t)
    <2>1. /\ task[t].pc = "looping" /\ task' = [task EXCEPT ![t] = Idle]
          /\ UNCHANGED <<stored, started>>
          /\ view' \in {view, task[t].profile} \cup Load
      BY <1>10 DEF EndBatch
    <2>2. GoodProfile(task[t].profile, started) BY <1>1, <2>1 DEF CallOK, BatchOK
    <2>3. GoodProfile(view', started) BY <1>1, <1>2, <2>1, <2>2
    <2>4. QED BY <1>1, <2>1, <2>3, IdleOK, CallGoesOn
  <1>11. CASE Deliver(t)
    <2>1. task[t].url \in Url /\ BatchesOK(task[t].batch, started)
      <3>1. task[t].pc = "fetching" BY <1>11 DEF Deliver
      <3>2. QED BY <1>1, <3>1 DEF CallOK
    <2>2. PICK nodes, makeActive :
            /\ nodes \in Fetched[task[t].url]
            /\ Begin(t, [name |-> "saveNodes", id |-> task[t].id, url |-> task[t].url,
                         nodes |-> nodes, selected |-> task[t].selected,
                         makeActive |-> makeActive, batch |-> task[t].batch])
            /\ UNCHANGED <<stored, view, started>>
      BY <1>11 DEF Deliver
    <2>3. AnyNodes(nodes, started)
      <3>1. nodes \in SourceLists BY <2>1, <2>2 DEF SourceLists
      <3>2. 0 \in Nat /\ 0 <= started BY <1>1
      <3>3. QED BY <1>1, <3>1, <3>2, SourcesAreAny, NodesLater DEF AnyNodes
    <2> DEFINE op == [name |-> "saveNodes", id |-> task[t].id, url |-> task[t].url,
                      nodes |-> nodes, selected |-> task[t].selected,
                      makeActive |-> makeActive, batch |-> task[t].batch]
    <2>4. /\ op.name = "saveNodes" /\ op.url = task[t].url /\ op.nodes = nodes
          /\ op.batch = task[t].batch /\ Begin(t, op)
      BY <2>2
    <2> HIDE DEF op
    <2>5. OpOK(op, started) BY <2>1, <2>3, <2>4 DEF OpOK
    <2>6. QED BY <2>1, <2>2, <2>4, <2>5, BeginOK
  <1>12. CASE FetchFails(t)
    <2>1. PICK p \in Load :
            \/ view' = p /\ task' = [task EXCEPT ![t] = Idle]
            \/ /\ task[t].batch # <<>> /\ UNCHANGED view
               /\ task' = [task EXCEPT ![t] = Continued(task[t].batch[1], p)]
      BY <1>12 DEF FetchFails
    <2>2. task[t].pc = "fetching" /\ UNCHANGED <<stored, started>> BY <1>12 DEF FetchFails
    <2>3. CASE view' = p /\ task' = [task EXCEPT ![t] = Idle]
      BY <1>1, <1>2, <2>2, <2>3, IdleOK, CallGoesOn
    <2>4. ASSUME task[t].batch # <<>>, UNCHANGED view,
                 task' = [task EXCEPT ![t] = Continued(task[t].batch[1], p)]
          PROVE  DataInv'
      <3>1. BatchOK(task[t].batch[1], started) BY <1>1, <2>2, <2>4 DEF CallOK, BatchesOK
      <3>2. CallOK(Continued(task[t].batch[1], p), started) BY <1>2, <3>1, ContinuedOK
      <3>3. QED BY <1>1, <2>2, <2>4, <3>2, CallGoesOn
    <2>5. QED BY <2>1, <2>3, <2>4
  <1>13. CASE FinishUpdate(t)
    <2>1. /\ view' \in Load /\ task' = [task EXCEPT ![t] = Idle] /\ UNCHANGED <<stored, started>>
      BY <1>13 DEF FinishUpdate
    <2>2. QED BY <1>1, <1>2, <2>1, IdleOK, CallGoesOn
  <1>14. CASE ContinueBatch(t)
    <2>1. PICK p \in Load : task' = [task EXCEPT ![t] = Continued(task[t].op.batch[1], p)]
      BY <1>14 DEF ContinueBatch
    <2>2. /\ task[t].pc = "saved" /\ task[t].op.name = "saveNodes" /\ task[t].op.batch # <<>>
          /\ UNCHANGED <<stored, view, started>>
      BY <1>14 DEF ContinueBatch
    <2>3. BatchOK(task[t].op.batch[1], started) BY <1>1, <2>2 DEF CallOK, BatchesOK
    <2>4. CallOK(Continued(task[t].op.batch[1], p), started) BY <1>2, <2>3, ContinuedOK
    <2>5. QED BY <1>1, <2>1, <2>2, <2>4, CallGoesOn
  <1>15. QED BY <1>3, <1>4, <1>5, <1>7, <1>8, <1>9, <1>10, <1>11, <1>12, <1>13, <1>14 DEF UpdateOp

LEMMA SaveKeeps ==
  ASSUME DataInv, NEW t \in Task, Save(t)
  PROVE  DataInv'
  <1> DEFINE op == task[t].op
             p == task[t].copy
             c == [pc |-> "saved", op |-> op]
  <1>1. /\ started \in Nat /\ CallOK(task[t], started)
        /\ GoodProfile(stored, started) /\ GoodProfile(view, started)
    BY DEF DataInv
  <1>2. /\ task[t].pc = "loaded" /\ task' = [task EXCEPT ![t] = c]
        /\ UNCHANGED <<view, started>>
    BY DEF Save
  <1>3. stored' \in Saved(Edited(op, p)) \cup {stored} BY DEF Save
  <1>4. /\ OpOK(op, started) /\ GoodProfile(p, started)
        /\ op.name = "saveNodes" => BatchesOK(op.batch, started)
        /\ op.name = "addManualNode" => op.id \notin NodeIdsOf(p.groups)
    BY <1>1, <1>2 DEF CallOK
  <1>5. c.pc = "saved" /\ c.op = op OBVIOUS
  <1> HIDE DEF op, p, c
  <1>6. AnyProfile(Edited(op, p), started) BY <1>1, <1>4, EditedIsAny
  <1>7. GoodProfile(Normalize(Edited(op, p)), started) BY <1>1, <1>6, NormalizedProfile
  <1>8. GoodProfile(stored', started) BY <1>1, <1>3, <1>7 DEF Saved
  <1>9. CallOK(c, started) BY <1>4, <1>5 DEF CallOK
  <1>10. QED BY <1>1, <1>2, <1>8, <1>9, CallGoesOn

(* The invariant: every list that is stored, shown or loaded holds nodes   *)
(* with distinct ids, none of them one a manual node is still to draw.     *)
LEMMA DataHolds == Spec => []DataInv
  <1>1. Init => DataInv
    <2> SUFFICES ASSUME Init PROVE DataInv OBVIOUS
    <2>1. PICK p \in InitialProfiles : stored = Normalize(p) BY DEF Init
    <2>2. view = Normalize(stored) /\ task = [t \in Task |-> Idle] /\ started = 0 BY DEF Init
    <2>3. GoodProfile(stored, 0)
      <3>1. p \in InitialProfiles \cup Backups /\ 0 \in Nat OBVIOUS
      <3>2. QED BY <2>1, <3>1, OldIsAny, NormalizedProfile
    <2>4. GoodProfile(view, 0)
      <3>1. 0 \in Nat OBVIOUS
      <3>2. QED BY <2>2, <2>3, <3>1, GoodIsAny, NormalizedProfile
    <2>5. \A t \in Task : CallOK(task[t], 0) BY <2>2, IdleOK
    <2>6. QED BY <2>2, <2>3, <2>4, <2>5 DEF DataInv
  <1>2. DataInv /\ [Next]_vars => DataInv'
    <2> SUFFICES ASSUME DataInv, [Next]_vars PROVE DataInv' OBVIOUS
    <2>1. ASSUME NEW t \in Task, Return(t)
          PROVE  DataInv'
      <3>1. /\ view' \in Load /\ task' = [task EXCEPT ![t] = Idle] /\ UNCHANGED <<stored, started>>
            /\ GoodProfile(stored, started)
        BY <2>1 DEF Return, DataInv
      <3>2. GoodProfile(view', started) BY <3>1, LoadGood
      <3>3. QED BY <3>1, <3>2, IdleOK, CallGoesOn
    <2>2. CASE ShowPage
      <3>1. view' \in Load /\ UNCHANGED <<stored, task, started>> BY <2>2 DEF ShowPage
      <3>2. GoodProfile(view', started) BY <3>1, LoadGood
      <3>3. QED BY <3>1, <3>2 DEF DataInv
    <2>3. CASE UNCHANGED vars BY <2>3 DEF vars, DataInv
    <2>4. QED BY <2>1, <2>2, <2>3, StoreOpKeeps, UpdateOpKeeps, SaveKeeps DEF Next
  <1>3. QED BY <1>1, <1>2, PTL DEF Spec

(* Whatever tasks interleave, whatever the sources deliver and whichever   *)
(* reads and writes fail, a load gives every stored node the id it was     *)
(* stored under: uniqueNodeId, run at every load and every save, renames   *)
(* a repeated id once and leaves it alone afterwards, because no id it     *)
(* makes is an id a source delivers or a manual node draws, and a list     *)
(* that a backup holds is either unnumbered or has been numbered whole.    *)
THEOREM LoadsKeepNodeIds == Spec => []LoadKeepsNodeIds
  <1>1. DataInv /\ Settled(stored) => LoadKeepsNodeIds
    BY LoadKeeps DEF DataInv, LoadKeepsNodeIds
  <1>2. QED BY <1>1, DataHolds, StoreIsSettled, PTL

-----------------------------------------------------------------------------
(* The ids of the groups.                                                  *)

LEMMA RemovedDistinct ==
  ASSUME NEW n, NEW groups, GoodGroups(groups, n), DistinctIds(groups), NEW ids
  PROVE  DistinctIds(WithoutNodes(groups, ids))
  <1> DEFINE r == WithoutNodes(groups, ids)
             left(i) == Kept(groups[i].nodes,
                             {j \in DOMAIN groups[i].nodes : groups[i].nodes[j].id \notin ids})
  <1>1. /\ DOMAIN r = DOMAIN groups
        /\ \A i \in DOMAIN groups : \E id :
             r[i] = [groups[i] EXCEPT !.nodes = left(i), !.selectedNodeId = id]
    BY DEF WithoutNodes
  <1> HIDE DEF r, left
  <1>2. \A i \in DOMAIN groups : DOMAIN groups[i] = GroupFields BY DEF GoodGroups, GoodGroup
  <1>3. \A i \in DOMAIN groups : r[i].id = groups[i].id BY <1>1, <1>2 DEF GroupFields
  <1>4. DistinctIds(r) BY <1>1, <1>3, SameIdsDistinct
  <1>5. QED BY <1>4 DEF r

(* Whatever is normalized keeps the ids of its groups.                     *)
LEMMA NormalizedIds ==
  ASSUME NEW raw, DistinctIds(raw.groups)
  PROVE  /\ DistinctIds(Normalize(raw).groups)
         /\ Settled(raw) => GroupIdsOf(Normalize(raw).groups) = GroupIdsOf(raw.groups)
  <1>1. Normalize(raw).groups = NormalizedGroups(raw) BY DEF Normalize
  <1>2. CASE DOMAIN raw.groups = {} /\ (raw.url # NoUrl \/ DOMAIN raw.nodes # {})
    <2>1. NormalizedGroups(raw) = <<LegacyGroup(raw)>> /\ ~Settled(raw)
      BY <1>2 DEF NormalizedGroups, Settled
    <2>2. DOMAIN <<LegacyGroup(raw)>> = {1} OBVIOUS
    <2>3. QED BY <1>1, <2>1, <2>2 DEF DistinctIds
  <1>3. CASE ~(DOMAIN raw.groups = {} /\ (raw.url # NoUrl \/ DOMAIN raw.nodes # {}))
    <2> DEFINE r == NormalizedGroups(raw)
    <2>1. r = [i \in DOMAIN raw.groups |-> NormalizeGroup(raw.groups[i])]
      BY <1>3 DEF NormalizedGroups
    <2>2. \A g : NormalizeGroup(g).id = g.id BY DEF NormalizeGroup
    <2>3. DOMAIN r = DOMAIN raw.groups /\ \A i \in DOMAIN raw.groups : r[i].id = raw.groups[i].id
      BY <2>1, <2>2
    <2> HIDE DEF r
    <2>4. DistinctIds(r) /\ GroupIdsOf(r) = GroupIdsOf(raw.groups)
      BY <2>3, SameIdsDistinct DEF GroupIdsOf
    <2>5. QED BY <1>1, <2>4 DEF r
  <1>4. QED BY <1>2, <1>3

(* What an operation brings along for the groups.                          *)
GroupsOK(op, p) ==
  /\ op.name = "addGroup" => op.id \notin GroupIdsOf(p.groups)
  /\ op.name = "saveGroups" => DistinctIds(op.groups)
  /\ op.name = "restoreProfile" => DistinctIds(op.profile.groups)

LEMMA SavedUrlDistinct ==
  ASSUME NEW n \in Nat, NEW p, GoodProfile(p, n), DistinctIds(p.groups), NEW id, NEW url,
         NEW fresh, fresh \notin GroupIdsOf(p.groups)
  PROVE  DistinctIds(WithUrl(p, id, url, fresh).groups)
  <1>1. GoodGroups(p.groups, n) /\ DOMAIN p = ProfileFields BY DEF GoodProfile
  <1> DEFINE at == Group(p.groups, ActiveOr(p, id))
             g == [p.groups[at] EXCEPT !.url = url]
             r == [p.groups EXCEPT ![at] = g]
             all == Append(p.groups, NewGroup(fresh, url))
  <1>2. \/ WithUrl(p, id, url, fresh) = [p EXCEPT !.groups[at].url = url]
        \/ WithUrl(p, id, url, fresh) = [p EXCEPT !.groups = all, !.selectedGroupId = fresh]
    BY DEF WithUrl
  <1>3. WithUrl(p, id, url, fresh).groups \in {r, all}
    <2> HIDE DEF at, all
    <2>1. QED BY <1>1, <1>2 DEF ProfileFields
  <1>4. DistinctIds(r)
    <2> HIDE DEF at
    <2>1. at \in DOMAIN p.groups => g.id = p.groups[at].id
      BY <1>1 DEF GoodGroups, GoodGroup, GroupFields
    <2> HIDE DEF g
    <2>2. QED BY <2>1, ExceptDistinct
  <1>5. DistinctIds(all)
    <2>1. NewGroup(fresh, url).id = fresh BY DEF NewGroup
    <2>2. IsSeq(p.groups) BY <1>1 DEF GoodGroups
    <2>3. QED BY <2>1, <2>2, AppendDistinct
  <1> HIDE DEF r, all
  <1>6. QED BY <1>3, <1>4, <1>5

LEMMA SavedNodesDistinct ==
  ASSUME NEW n \in Nat, NEW p, GoodProfile(p, n), DistinctIds(p.groups), NEW id, NEW url \in Url,
         NEW nodes, NEW selected, NEW makeActive, NEW fresh, fresh \notin GroupIdsOf(p.groups)
  PROVE  DistinctIds(WithNodes(p, id, url, nodes, selected, makeActive, fresh).groups)
  <1>1. GoodGroups(p.groups, n) /\ DOMAIN p = ProfileFields BY DEF GoodProfile
  <1> DEFINE found == TargetGroup(p, id, url) \in GroupIdsOf(p.groups)
             p2 == IF found THEN p ELSE [p EXCEPT !.groups = Append(@, NewGroup(fresh, url))]
             r == WithNodes(p, id, url, nodes, selected, makeActive, fresh)
  <1>2. DOMAIN p2 = ProfileFields /\ GoodGroups(p2.groups, n) /\ DistinctIds(p2.groups)
    <2>1. CASE found BY <1>1, <2>1
    <2>2. CASE ~found
      <3> DEFINE all == Append(p.groups, NewGroup(fresh, url))
      <3>1. GoodGroup(NewGroup(fresh, url), n) BY NewGroupGood DEF Urls
      <3>2. GoodGroups(all, n) BY <1>1, <3>1, GroupAdded
      <3>3. DistinctIds(all)
        <4>1. NewGroup(fresh, url).id = fresh BY DEF NewGroup
        <4>2. IsSeq(p.groups) BY <1>1 DEF GoodGroups
        <4>3. QED BY <4>1, <4>2, AppendDistinct
      <3>4. p2 = [p EXCEPT !.groups = all] BY <2>2
      <3> HIDE DEF all, p2
      <3>5. QED BY <1>1, <3>2, <3>3, <3>4 DEF ProfileFields
    <2>3. QED BY <2>1, <2>2
  <1>3. \E at, kept, current, browsed :
          r = [p2 EXCEPT !.groups[at].url = url, !.groups[at].nodes = nodes,
                         !.groups[at].selectedNodeId = kept,
                         !.selectedNodeId = current, !.selectedGroupId = browsed]
    BY DEF WithNodes
  <1>4. PICK at, kept, current, browsed :
          r = [p2 EXCEPT !.groups[at].url = url, !.groups[at].nodes = nodes,
                         !.groups[at].selectedNodeId = kept,
                         !.selectedNodeId = current, !.selectedGroupId = browsed]
    BY <1>3
  <1> HIDE DEF p2, r
  <1> DEFINE g == [p2.groups[at] EXCEPT !.url = url, !.nodes = nodes, !.selectedNodeId = kept]
  <1>5. r.groups = [p2.groups EXCEPT ![at] = g] BY <1>2, <1>4 DEF ProfileFields
  <1>6. at \in DOMAIN p2.groups => g.id = p2.groups[at].id
    BY <1>2 DEF GoodGroups, GoodGroup, GroupFields
  <1> HIDE DEF g
  <1>7. DistinctIds(r.groups) BY <1>2, <1>5, <1>6, ExceptDistinct
  <1>8. QED BY <1>7 DEF r

LEMMA ManualDistinct ==
  ASSUME NEW n \in Nat, NEW p, GoodProfile(p, n), DistinctIds(p.groups), NEW id, NEW content
  PROVE  DistinctIds(WithManualNode(p, id, content).groups)
  <1>1. GoodGroups(p.groups, n) /\ DOMAIN p = ProfileFields BY DEF GoodProfile
  <1> DEFINE found == Local \in GroupIdsOf(p.groups)
             p2 == IF found THEN p ELSE [p EXCEPT !.groups = Append(@, NewGroup(Local, NoUrl))]
             r == WithManualNode(p, id, content)
  <1>2. DOMAIN p2 = ProfileFields /\ GoodGroups(p2.groups, n) /\ DistinctIds(p2.groups)
    <2>1. CASE found BY <1>1, <2>1
    <2>2. CASE ~found
      <3> DEFINE all == Append(p.groups, NewGroup(Local, NoUrl))
      <3>1. GoodGroup(NewGroup(Local, NoUrl), n) BY NewGroupGood DEF Urls
      <3>2. GoodGroups(all, n) BY <1>1, <3>1, GroupAdded
      <3>3. DistinctIds(all)
        <4>1. NewGroup(Local, NoUrl).id = Local BY DEF NewGroup
        <4>2. IsSeq(p.groups) BY <1>1 DEF GoodGroups
        <4>3. QED BY <2>2, <4>1, <4>2, AppendDistinct
      <3>4. p2 = [p EXCEPT !.groups = all] BY <2>2
      <3> HIDE DEF all, p2
      <3>5. QED BY <1>1, <3>2, <3>3, <3>4 DEF ProfileFields
    <2>3. QED BY <2>1, <2>2
  <1> DEFINE at == Group(p2.groups, Local)
  <1>3. r = [p2 EXCEPT !.groups[at].nodes = Append(@, [id |-> id, content |-> content]),
                       !.groups[at].selectedNodeId = id,
                       !.selectedGroupId = Local, !.selectedNodeId = id]
    BY DEF WithManualNode
  <1> HIDE DEF p2, r, at
  <1> DEFINE g == [p2.groups[at] EXCEPT !.nodes = Append(@, [id |-> id, content |-> content]),
                                        !.selectedNodeId = id]
  <1>4. r.groups = [p2.groups EXCEPT ![at] = g] BY <1>2, <1>3 DEF ProfileFields
  <1>5. at \in DOMAIN p2.groups => g.id = p2.groups[at].id
    BY <1>2 DEF GoodGroups, GoodGroup, GroupFields
  <1> HIDE DEF g
  <1>6. DistinctIds(r.groups) BY <1>2, <1>4, <1>5, ExceptDistinct
  <1>7. QED BY <1>6 DEF r

(* No operation gives two groups one id, if none it draws is in use.       *)
LEMMA EditedDistinct ==
  ASSUME NEW n \in Nat, NEW p, GoodProfile(p, n), DistinctIds(p.groups), NEW op, OpOK(op, n),
         GroupsOK(op, p), FreshId \notin GroupIdsOf(p.groups)
  PROVE  DistinctIds(Edited(op, p).groups)
  <1>0. /\ GoodGroups(p.groups, n) /\ IsSeq(p.groups) /\ DOMAIN p = ProfileFields
        /\ \A i \in DOMAIN p.groups : DOMAIN p.groups[i] = GroupFields
    BY DEF GoodProfile, GoodGroups, GoodGroup
  <1>1. CASE op.name = "selectNode"
    <2> DEFINE at == First({i \in DOMAIN p.groups : op.id \in Ids(p.groups[i].nodes)})
               g == [p.groups[at] EXCEPT !.selectedNodeId = op.id]
               r == [p.groups EXCEPT ![at] = g]
    <2>1. \/ Edited(op, p) = [p EXCEPT !.selectedNodeId = op.id]
          \/ Edited(op, p) = [p EXCEPT !.groups[at].selectedNodeId = op.id,
                                       !.selectedGroupId = p.groups[at].id,
                                       !.selectedNodeId = op.id]
      BY <1>1 DEF Edited, WithSelectedNode
    <2> HIDE DEF at
    <2>2. Edited(op, p).groups \in {p.groups, r} BY <1>0, <2>1 DEF ProfileFields
    <2>3. at \in DOMAIN p.groups => g.id = p.groups[at].id BY <1>0 DEF GroupFields
    <2> HIDE DEF g
    <2>4. DistinctIds(r) BY <2>3, ExceptDistinct
    <2> HIDE DEF r
    <2>5. QED BY <2>2, <2>4
  <1>2. CASE op.name = "selectGroup"
    <2>1. Edited(op, p) = [p EXCEPT !.selectedGroupId = op.id] BY <1>2 DEF Edited
    <2>2. Edited(op, p).groups = p.groups BY <1>0, <2>1 DEF ProfileFields
    <2>3. QED BY <2>2
  <1>3. CASE op.name = "toggleGroup"
    <2> DEFINE at == Group(p.groups, op.id)
               g == [p.groups[at] EXCEPT !.enabled = ~@]
    <2>1. Edited(op, p) = [p EXCEPT !.groups[at].enabled = ~@] BY <1>3 DEF Edited
    <2> HIDE DEF at
    <2>2. Edited(op, p).groups = [p.groups EXCEPT ![at] = g] BY <1>0, <2>1 DEF ProfileFields
    <2>3. at \in DOMAIN p.groups => g.id = p.groups[at].id BY <1>0 DEF GroupFields
    <2> HIDE DEF g
    <2>4. QED BY <2>2, <2>3, ExceptDistinct
  <1>4. CASE op.name = "removeGroup"
    <2> DEFINE groups == Kept(p.groups, {i \in DOMAIN p.groups : p.groups[i].id # op.id})
    <2>1. DistinctIds(groups) BY <1>0, KeptDistinct
    <2>2. PICK id : Edited(op, p) = [p EXCEPT !.groups = groups, !.selectedGroupId = id]
      BY <1>4 DEF Edited, WithoutGroup
    <2> HIDE DEF groups
    <2>3. Edited(op, p).groups = groups BY <1>0, <2>2 DEF ProfileFields
    <2>4. QED BY <2>1, <2>3
  <1>5. CASE op.name = "moveGroup"
    <2> DEFINE at == Group(p.groups, op.id)
               groups == Swapped(p.groups, at, Beside(p, op))
    <2>1. \/ Edited(op, p) = p
          \/ /\ op.id \in GroupIdsOf(p.groups) /\ Beside(p, op) \in DOMAIN p.groups
             /\ Edited(op, p) = [p EXCEPT !.groups = groups]
      BY <1>5 DEF Edited
    <2>2. op.id \in GroupIdsOf(p.groups) => at \in DOMAIN p.groups BY <1>0, GroupThere
    <2> HIDE DEF at
    <2>3. op.id \in GroupIdsOf(p.groups) /\ Beside(p, op) \in DOMAIN p.groups => DistinctIds(groups)
      BY <1>0, <2>2, SwappedDistinct
    <2> HIDE DEF groups
    <2>4. Edited(op, p).groups = p.groups \/ (Edited(op, p).groups = groups /\ DistinctIds(groups))
      BY <1>0, <2>1, <2>3 DEF ProfileFields
    <2>5. QED BY <2>4
  <1>6. CASE op.name = "addGroup"
    <2> DEFINE groups == Append(p.groups, NewGroup(op.id, op.url))
    <2>1. NewGroup(op.id, op.url).id = op.id /\ op.id \notin GroupIdsOf(p.groups)
      BY <1>6 DEF NewGroup, GroupsOK
    <2>2. DistinctIds(groups) BY <1>0, <2>1, AppendDistinct
    <2>3. Edited(op, p) = [p EXCEPT !.groups = groups, !.selectedGroupId = op.id]
      BY <1>6 DEF Edited
    <2> HIDE DEF groups
    <2>4. Edited(op, p).groups = groups BY <1>0, <2>3 DEF ProfileFields
    <2>5. QED BY <2>2, <2>4
  <1>7. CASE op.name = "updateGroup"
    <2> DEFINE at == Group(p.groups, op.id)
               g == [p.groups[at] EXCEPT !.url = op.url]
    <2>1. Edited(op, p) = [p EXCEPT !.groups[at].url = op.url] BY <1>7 DEF Edited
    <2> HIDE DEF at
    <2>2. Edited(op, p).groups = [p.groups EXCEPT ![at] = g] BY <1>0, <2>1 DEF ProfileFields
    <2>3. at \in DOMAIN p.groups => g.id = p.groups[at].id BY <1>0 DEF GroupFields
    <2> HIDE DEF g
    <2>4. QED BY <2>2, <2>3, ExceptDistinct
  <1>8. CASE op.name = "removeNode"
    <2> DEFINE groups == WithoutNodes(p.groups, {op.id})
    <2>1. DistinctIds(groups) BY <1>0, RemovedDistinct
    <2>2. Edited(op, p) = [p EXCEPT !.groups = groups] BY <1>8 DEF Edited
    <2> HIDE DEF groups
    <2>3. Edited(op, p).groups = groups BY <1>0, <2>2 DEF ProfileFields
    <2>4. QED BY <2>1, <2>3
  <1>9. CASE op.name = "addManualNode"
    <2>1. Edited(op, p) = WithManualNode(p, op.id, op.content) BY <1>9 DEF Edited
    <2>2. QED BY <2>1, ManualDistinct
  <1>10. CASE op.name = "updateManualNode"
    <2> DEFINE at == First({i \in DOMAIN p.groups : op.id \in Ids(p.groups[i].nodes)})
               k == Node(p.groups[at].nodes, op.id)
               g == [p.groups[at] EXCEPT !.nodes[k].content = op.content]
    <2>1. Edited(op, p) = [p EXCEPT !.groups[at].nodes[k].content = op.content]
      BY <1>10 DEF Edited, WithContent
    <2> HIDE DEF at, k
    <2>2. Edited(op, p).groups = [p.groups EXCEPT ![at] = g] BY <1>0, <2>1 DEF ProfileFields
    <2>3. at \in DOMAIN p.groups => g.id = p.groups[at].id BY <1>0 DEF GroupFields
    <2> HIDE DEF g
    <2>4. QED BY <2>2, <2>3, ExceptDistinct
  <1>11. CASE op.name = "saveGroups"
    <2>1. Edited(op, p) = [p EXCEPT !.groups = op.groups] BY <1>11 DEF Edited
    <2>2. Edited(op, p).groups = op.groups BY <1>0, <2>1 DEF ProfileFields
    <2>3. QED BY <1>11, <2>2 DEF GroupsOK
  <1>12. CASE op.name = "restoreProfile"
    <2>1. Edited(op, p) = op.profile BY <1>12 DEF Edited
    <2>2. QED BY <1>12, <2>1 DEF GroupsOK
  <1>13. CASE op.name = "saveUrl"
    <2>1. Edited(op, p) = WithUrl(p, op.id, op.url, FreshId) BY <1>13 DEF Edited
    <2>2. QED BY <2>1, SavedUrlDistinct
  <1>14. CASE op.name = "saveNodes"
    <2>1. Edited(op, p) = WithNodes(p, op.id, op.url, op.nodes, op.selected, op.makeActive, FreshId)
      BY <1>14 DEF Edited
    <2>2. op.url \in Url BY <1>14 DEF OpOK
    <2>3. QED BY <2>1, <2>2, SavedNodesDistinct
  <1>15. CASE op.name \notin {"selectNode", "selectGroup", "toggleGroup", "removeGroup", "moveGroup",
                "addGroup", "updateGroup", "removeNode", "addManualNode", "updateManualNode",
                "saveGroups", "restoreProfile", "saveUrl", "saveNodes"}
    <2>1. Edited(op, p) = p BY <1>15 DEF Edited
    <2>2. QED BY <2>1
  <1>16. QED BY <1>1, <1>2, <1>3, <1>4, <1>5, <1>6, <1>7, <1>8, <1>9, <1>10, <1>11, <1>12, <1>13,
                <1>14, <1>15

BatchDistinct(batch) == batch # <<>> => DistinctIds(batch[1].profile.groups)

CallDistinct(c) ==
  /\ c.pc = "loaded" => DistinctIds(c.copy.groups) /\ GroupsOK(c.op, c.copy)
  /\ c.pc \in {"loaded", "saved"} => (c.op.name = "saveNodes" => BatchDistinct(c.op.batch))
  /\ c.pc = "fetching" => BatchDistinct(c.batch)
  /\ c.pc = "looping" => DistinctIds(c.profile.groups)

(* In no profile that is stored, shown, loaded, restored or gone on with   *)
(* have two groups the same id.                                            *)
GroupsInv ==
  /\ DistinctIds(stored.groups) /\ DistinctIds(view.groups)
  /\ \A t \in Task : CallDistinct(task[t])

GroupsState == DataInv /\ Settled(stored) /\ GroupsInv

LEMMA FreshIdFree ==
  ASSUME FreshIds # {}
  PROVE  /\ FreshId \notin GroupIdsOf(stored.groups)
         /\ \A t \in Task : task[t].pc = "loaded" => FreshId \notin GroupIdsOf(task[t].copy.groups)
  <1>1. FreshIds \subseteq FreshGroup /\ \A id \in FreshIds : id \notin UsedGroups BY DEF FreshIds
  <1>2. \E id \in FreshGroup : FreshIds # {} => id \in FreshIds BY <1>1
  <1>3. FreshId \in FreshIds BY <1>2 DEF FreshId
  <1>4. GroupIdsOf(stored.groups) \subseteq UsedGroups BY DEF UsedGroups
  <1>5. ASSUME NEW t \in Task, task[t].pc = "loaded"
        PROVE  GroupIdsOf(task[t].copy.groups) \subseteq UsedGroups
    BY <1>5 DEF UsedGroups
  <1>6. QED BY <1>1, <1>3, <1>4, <1>5

LEMMA LoadDistinct ==
  ASSUME GroupsState, NEW p \in Load
  PROVE  DistinctIds(p.groups) /\ GroupIdsOf(p.groups) \subseteq GroupIdsOf(stored.groups)
  <1>1. DistinctIds(stored.groups) /\ Settled(stored) BY DEF GroupsState, GroupsInv
  <1>2. CASE p = Normalize(stored) BY <1>1, <1>2, NormalizedIds
  <1>3. CASE p = Empty
    <2>1. p.groups = <<>> /\ DOMAIN <<>> = {} BY <1>3 DEF Empty
    <2>2. QED BY <2>1 DEF DistinctIds, GroupIdsOf
  <1>4. QED BY <1>2, <1>3 DEF Load

LEMMA CallMoves ==
  ASSUME GroupsState, NEW t \in Task, NEW c, task' = [task EXCEPT ![t] = c], CallDistinct(c),
         DistinctIds(stored'.groups), DistinctIds(view'.groups)
  PROVE  GroupsInv'
  <1>1. DOMAIN task = Task /\ \A u \in Task : CallDistinct(task[u])
    BY DEF GroupsState, DataInv, GroupsInv
  <1>2. task'[t] = c /\ \A u \in Task : u # t => task'[u] = task[u] BY <1>1
  <1>3. \A u \in Task : CallDistinct(task'[u]) BY <1>1, <1>2
  <1>4. QED BY <1>3 DEF GroupsInv

LEMMA BeginDistinct ==
  ASSUME GroupsState, NEW t \in Task, NEW op, Begin(t, op), UNCHANGED stored,
         DistinctIds(view'.groups),
         \A copy \in Load : GroupsOK(op, copy),
         op.name = "saveNodes" => BatchDistinct(op.batch)
  PROVE  GroupsInv'
  <1>1. PICK copy \in Load :
           task' = [task EXCEPT ![t] = [pc |-> "loaded", op |-> op, copy |-> copy]]
    BY DEF Begin
  <1> DEFINE c == [pc |-> "loaded", op |-> op, copy |-> copy]
  <1>2. c.pc = "loaded" /\ c.op = op /\ c.copy = copy /\ task' = [task EXCEPT ![t] = c] BY <1>1
  <1>3. DistinctIds(copy.groups) /\ GroupsOK(op, copy) BY LoadDistinct
  <1> HIDE DEF c
  <1>4. CallDistinct(c) BY <1>2, <1>3 DEF CallDistinct
  <1>5. DistinctIds(stored'.groups) BY DEF GroupsState, GroupsInv
  <1>6. QED BY <1>2, <1>4, <1>5, CallMoves

LEMMA IdleDistinct == CallDistinct(Idle)
  BY DEF CallDistinct, Idle

LEMMA ContinuedDistinct ==
  ASSUME NEW n, NEW b, BatchOK(b, n), DistinctIds(b.profile.groups), NEW p, DistinctIds(p.groups)
  PROVE  CallDistinct(Continued(b, p))
  <1> DEFINE c == Continued(b, p)
  <1>1. c.pc = "looping" /\ c.profile \in {b.profile, p}
    BY DEF BatchOK, BatchFields, Continued
  <1> HIDE DEF c
  <1>2. CallDistinct(c) BY <1>1 DEF CallDistinct
  <1>3. QED BY <1>2 DEF c

LEMMA StoreOpDistinct ==
  ASSUME GroupsState, FreshIds # {}, NEW t \in Task, StoreOp(t)
  PROVE  GroupsInv'
  <1>1. /\ DistinctIds(view.groups) /\ GoodProfile(view, started)
        /\ GoodGroups(view.groups, started)
    BY DEF GroupsState, GroupsInv, DataInv, GoodProfile
  <1>2. ASSUME NEW op, PageStarts(t, op), op.name # "saveNodes", DistinctIds(view'.groups),
               \A copy \in Load : GroupsOK(op, copy)
        PROVE  GroupsInv'
    BY <1>2, BeginDistinct DEF PageStarts
  <1>3. ASSUME NEW op, PageStarts(t, op), DistinctIds(view'.groups),
               op.name \notin {"saveNodes", "addGroup", "saveGroups", "restoreProfile"}
        PROVE  GroupsInv'
    <2>1. \A copy : GroupsOK(op, copy) BY <1>3 DEF GroupsOK
    <2>2. QED BY <1>2, <1>3, <2>1
  <1>4. CASE SelectNode(t)
    <2>1. PICK i, j :
            /\ PageStarts(t, [name |-> "selectNode", id |-> view.groups[i].nodes[j].id])
            /\ view' = [view EXCEPT !.selectedNodeId = view.groups[i].nodes[j].id]
      BY <1>4 DEF SelectNode
    <2>2. view'.groups = view.groups BY <1>1, <2>1 DEF GoodProfile, ProfileFields
    <2> DEFINE op == [name |-> "selectNode", id |-> view.groups[i].nodes[j].id]
    <2>3. op.name = "selectNode" /\ PageStarts(t, op) BY <2>1
    <2> HIDE DEF op
    <2>4. QED BY <1>1, <1>3, <2>2, <2>3
  <1>5. CASE SelectGroup(t) \/ ToggleGroup(t) \/ RemoveGroup(t)
    <2>1. PICK name \in {"selectGroup", "toggleGroup", "removeGroup"}, id \in Shown :
            PageStarts(t, [name |-> name, id |-> id]) /\ UNCHANGED view
      BY <1>5 DEF SelectGroup, ToggleGroup, RemoveGroup, OnGroup
    <2> DEFINE op == [name |-> name, id |-> id]
    <2>2. op.name = name /\ PageStarts(t, op) /\ view' = view BY <2>1
    <2> HIDE DEF op
    <2>3. QED BY <1>1, <1>3, <2>2
  <1>6. CASE MoveGroup(t)
    <2>1. PICK id, up : /\ PageStarts(t, [name |-> "moveGroup", id |-> id, up |-> up])
                        /\ UNCHANGED view
      BY <1>6 DEF MoveGroup
    <2> DEFINE op == [name |-> "moveGroup", id |-> id, up |-> up]
    <2>2. op.name = "moveGroup" /\ PageStarts(t, op) /\ view' = view BY <2>1
    <2> HIDE DEF op
    <2>3. QED BY <1>1, <1>3, <2>2
  <1>7. CASE AddGroup(t)
    <2>1. PICK url : /\ PageStarts(t, [name |-> "addGroup", id |-> FreshId, url |-> url])
                     /\ UNCHANGED view
      BY <1>7 DEF AddGroup
    <2> DEFINE op == [name |-> "addGroup", id |-> FreshId, url |-> url]
    <2>2. op.name = "addGroup" /\ op.id = FreshId /\ PageStarts(t, op) /\ view' = view BY <2>1
    <2> HIDE DEF op
    <2>3. \A copy \in Load : GroupsOK(op, copy)
      <3> TAKE copy \in Load
      <3>1. FreshId \notin GroupIdsOf(copy.groups) BY FreshIdFree, LoadDistinct
      <3>2. QED BY <2>2, <3>1 DEF GroupsOK
    <2>4. QED BY <1>1, <1>2, <2>2, <2>3
  <1>8. CASE UpdateGroup(t)
    <2>1. PICK url, id : /\ PageStarts(t, [name |-> "updateGroup", id |-> id, url |-> url])
                         /\ UNCHANGED view
      BY <1>8 DEF UpdateGroup
    <2> DEFINE op == [name |-> "updateGroup", id |-> id, url |-> url]
    <2>2. op.name = "updateGroup" /\ PageStarts(t, op) /\ view' = view BY <2>1
    <2> HIDE DEF op
    <2>3. QED BY <1>1, <1>3, <2>2
  <1>9. CASE RemoveNode(t)
    <2>1. PICK id : PageStarts(t, [name |-> "removeNode", id |-> id]) /\ UNCHANGED view
      BY <1>9 DEF RemoveNode
    <2> DEFINE op == [name |-> "removeNode", id |-> id]
    <2>2. op.name = "removeNode" /\ PageStarts(t, op) /\ view' = view BY <2>1
    <2> HIDE DEF op
    <2>3. QED BY <1>1, <1>3, <2>2
  <1>10. CASE AddManualNode(t)
    <2>1. PICK id, content :
            /\ PageStarts(t, [name |-> "addManualNode", id |-> id, content |-> content])
            /\ UNCHANGED view
      BY <1>10 DEF AddManualNode
    <2> DEFINE op == [name |-> "addManualNode", id |-> id, content |-> content]
    <2>2. op.name = "addManualNode" /\ PageStarts(t, op) /\ view' = view BY <2>1
    <2> HIDE DEF op
    <2>3. QED BY <1>1, <1>3, <2>2
  <1>11. CASE UpdateManualNode(t)
    <2>1. PICK id, content :
            /\ PageStarts(t, [name |-> "updateManualNode", id |-> id, content |-> content])
            /\ UNCHANGED view
      BY <1>11 DEF UpdateManualNode
    <2> DEFINE op == [name |-> "updateManualNode", id |-> id, content |-> content]
    <2>2. op.name = "updateManualNode" /\ PageStarts(t, op) /\ view' = view BY <2>1
    <2> HIDE DEF op
    <2>3. QED BY <1>1, <1>3, <2>2
  <1>12. CASE SaveDelays(t)
    <2> DEFINE op == [name |-> "saveDelays"]
    <2>1. op.name = "saveDelays" /\ PageStarts(t, op) /\ view' = view BY <1>12 DEF SaveDelays
    <2> HIDE DEF op
    <2>2. QED BY <1>1, <1>3, <2>1
  <1>13. CASE RestoreProfile(t)
    <2>1. PICK p \in Backups :
            PageStarts(t, [name |-> "restoreProfile", profile |-> p]) /\ UNCHANGED view
      BY <1>13 DEF RestoreProfile
    <2>2. DistinctIds(p.groups) BY SourceAssumption DEF IsProfile, DistinctIds
    <2> DEFINE op == [name |-> "restoreProfile", profile |-> p]
    <2>3. op.name = "restoreProfile" /\ op.profile = p /\ PageStarts(t, op) /\ view' = view BY <2>1
    <2> HIDE DEF op
    <2>4. \A copy : GroupsOK(op, copy) BY <2>2, <2>3 DEF GroupsOK
    <2>5. QED BY <1>1, <1>2, <2>3, <2>4
  <1>14. CASE EditNodes(t)
    <2>1. PICK ids, groups :
            /\ PageStarts(t, [name |-> "saveGroups", ids |-> ids, groups |-> groups])
            /\ UNCHANGED view
            /\ \/ groups = WithoutNodes(view.groups, ids)
               \/ \E i \in DOMAIN view.groups : \E nodes :
                    groups = [view.groups EXCEPT ![i].nodes = nodes]
      BY <1>14 DEF EditNodes
    <2>2. DistinctIds(groups)
      <3>1. CASE groups = WithoutNodes(view.groups, ids) BY <1>1, <3>1, RemovedDistinct
      <3>2. ASSUME NEW i \in DOMAIN view.groups, NEW nodes,
                   groups = [view.groups EXCEPT ![i].nodes = nodes]
            PROVE  DistinctIds(groups)
        <4> DEFINE g == [view.groups[i] EXCEPT !.nodes = nodes]
        <4>1. g.id = view.groups[i].id BY <1>1 DEF GoodGroups, GoodGroup, GroupFields
        <4>2. groups = [view.groups EXCEPT ![i] = g] BY <3>2
        <4> HIDE DEF g
        <4>3. QED BY <1>1, <4>1, <4>2, ExceptDistinct
      <3>3. QED BY <2>1, <3>1, <3>2
    <2> DEFINE op == [name |-> "saveGroups", ids |-> ids, groups |-> groups]
    <2>3. op.name = "saveGroups" /\ op.groups = groups /\ PageStarts(t, op) /\ view' = view BY <2>1
    <2> HIDE DEF op
    <2>4. \A copy : GroupsOK(op, copy) BY <2>2, <2>3 DEF GroupsOK
    <2>5. QED BY <1>1, <1>2, <2>3, <2>4
  <1>15. QED BY <1>4, <1>5, <1>6, <1>7, <1>8, <1>9, <1>10, <1>11, <1>12, <1>13, <1>14 DEF StoreOp

LEMMA UpdateOpDistinct ==
  ASSUME GroupsState, NEW t \in Task, UpdateOp(t)
  PROVE  GroupsInv'
  <1>1. /\ DistinctIds(view.groups) /\ DistinctIds(stored.groups) /\ CallDistinct(task[t])
        /\ CallOK(task[t], started)
    BY DEF GroupsState, GroupsInv, DataInv
  <1>2. \A p \in Load : DistinctIds(p.groups) BY LoadDistinct
  <1>3. CASE Update(t)
    <2>1. PICK url, id, selected :
            /\ task' = [task EXCEPT ![t] = [pc |-> "resolved", id |-> id, url |-> url,
                                            selected |-> selected]]
            /\ UNCHANGED <<stored, view>>
      BY <1>3 DEF Update
    <2> DEFINE c == [pc |-> "resolved", id |-> id, url |-> url, selected |-> selected]
    <2>2. c.pc = "resolved" OBVIOUS
    <2>3. task' = [task EXCEPT ![t] = c] BY <2>1
    <2> HIDE DEF c
    <2>4. CallDistinct(c) BY <2>2 DEF CallDistinct
    <2>5. QED BY <1>1, <2>1, <2>3, <2>4, CallMoves
  <1>4. CASE SaveUrl(t)
    <2> DEFINE op == [name |-> "saveUrl", id |-> task[t].id, url |-> task[t].url,
                      selected |-> task[t].selected]
    <2>1. Begin(t, op) /\ UNCHANGED <<stored, view>> /\ op.name = "saveUrl" BY <1>4 DEF SaveUrl
    <2> HIDE DEF op
    <2>2. \A copy : GroupsOK(op, copy) BY <2>1 DEF GroupsOK
    <2>3. DistinctIds(view'.groups) BY <1>1, <2>1
    <2>4. QED BY <2>1, <2>2, <2>3, BeginDistinct
  <1>5. CASE AskSource(t)
    <2>1. PICK id, selected :
            task' = [task EXCEPT ![t] = [pc |-> "fetching", url |-> task[t].op.url,
                                         selected |-> selected, id |-> id, batch |-> <<>>]]
      BY <1>5 DEF AskSource
    <2> DEFINE c == [pc |-> "fetching", url |-> task[t].op.url, selected |-> selected,
                     id |-> id, batch |-> <<>>]
    <2>2. c.pc = "fetching" /\ c.batch = <<>> OBVIOUS
    <2>3. task' = [task EXCEPT ![t] = c] /\ UNCHANGED <<stored, view>>
      BY <1>5, <2>1 DEF AskSource
    <2> HIDE DEF c
    <2>4. CallDistinct(c) BY <2>2 DEF CallDistinct, BatchDistinct
    <2>5. QED BY <1>1, <2>3, <2>4, CallMoves
  <1>6. ASSUME NEW i, NEW all, NEW loops, NEW p \in Load,
               task' = [task EXCEPT ![t] = [pc |-> "looping", profile |-> p, index |-> i,
                                            all |-> all, loops |-> loops]],
               UNCHANGED <<stored, view>>
        PROVE  GroupsInv'
    <2> DEFINE c == [pc |-> "looping", profile |-> p, index |-> i, all |-> all, loops |-> loops]
    <2>1. c.pc = "looping" /\ c.profile = p /\ task' = [task EXCEPT ![t] = c] BY <1>6
    <2> HIDE DEF c
    <2>2. CallDistinct(c) BY <1>2, <2>1 DEF CallDistinct
    <2>3. QED BY <1>1, <1>6, <2>1, <2>2, CallMoves
  <1>7. CASE UpdateAll(t) \/ UpdateDue(t)
    <2>1. PICK all : Batch(t, all) BY <1>7 DEF UpdateAll, UpdateDue
    <2>2. QED BY <1>6, <2>1 DEF Batch
  <1>8. CASE UpdateDueGroup(t)
    BY <1>6, <1>8 DEF UpdateDueGroup
  <1>9. CASE NextGroup(t)
    <2> DEFINE b == task[t]
    <2>1. PICK i \in DOMAIN b.profile.groups :
            task' = [task EXCEPT ![t] =
              [pc |-> "fetching", id |-> b.profile.groups[i].id, url |-> b.profile.groups[i].url,
               selected |-> b.profile.groups[i].selectedNodeId,
               batch |-> <<[b EXCEPT !.index = i + 1]>>]]
      BY <1>9 DEF NextGroup
    <2>2. b.pc = "looping" /\ UNCHANGED <<stored, view>> BY <1>9 DEF NextGroup
    <2>3. BatchOK(b, started) /\ DistinctIds(b.profile.groups)
      BY <1>1, <2>2 DEF CallOK, CallDistinct
    <2> DEFINE next == [b EXCEPT !.index = i + 1]
    <2>4. next.profile = b.profile BY <2>3 DEF BatchOK, BatchFields
    <2> HIDE DEF next
    <2> DEFINE c == [pc |-> "fetching", id |-> b.profile.groups[i].id,
                     url |-> b.profile.groups[i].url,
                     selected |-> b.profile.groups[i].selectedNodeId, batch |-> <<next>>]
    <2>5. c.pc = "fetching" /\ c.batch[1] = next OBVIOUS
    <2>6. task' = [task EXCEPT ![t] = c] BY <2>1 DEF next
    <2> HIDE DEF c
    <2>7. CallDistinct(c) BY <2>3, <2>4, <2>5 DEF CallDistinct, BatchDistinct
    <2>8. QED BY <1>1, <2>2, <2>6, <2>7, CallMoves
  <1>10. CASE EndBatch(t)
    <2>1. /\ task[t].pc = "looping" /\ task' = [task EXCEPT ![t] = Idle]
          /\ UNCHANGED stored
          /\ view' \in {view, task[t].profile} \cup Load
      BY <1>10 DEF EndBatch
    <2>2. DistinctIds(task[t].profile.groups) BY <1>1, <2>1 DEF CallDistinct
    <2>3. DistinctIds(view'.groups) BY <1>1, <1>2, <2>1, <2>2
    <2>4. QED BY <1>1, <2>1, <2>3, IdleDistinct, CallMoves
  <1>11. CASE Deliver(t)
    <2>1. BatchDistinct(task[t].batch)
      <3>1. task[t].pc = "fetching" BY <1>11 DEF Deliver
      <3>2. QED BY <1>1, <3>1 DEF CallDistinct
    <2>2. PICK nodes, makeActive :
            /\ Begin(t, [name |-> "saveNodes", id |-> task[t].id, url |-> task[t].url,
                         nodes |-> nodes, selected |-> task[t].selected,
                         makeActive |-> makeActive, batch |-> task[t].batch])
            /\ UNCHANGED <<stored, view>>
      BY <1>11 DEF Deliver
    <2> DEFINE op == [name |-> "saveNodes", id |-> task[t].id, url |-> task[t].url,
                      nodes |-> nodes, selected |-> task[t].selected,
                      makeActive |-> makeActive, batch |-> task[t].batch]
    <2>3. op.name = "saveNodes" /\ op.batch = task[t].batch /\ Begin(t, op) BY <2>2
    <2> HIDE DEF op
    <2>4. \A copy : GroupsOK(op, copy) BY <2>3 DEF GroupsOK
    <2>5. DistinctIds(view'.groups) BY <1>1, <2>2
    <2>6. QED BY <2>1, <2>2, <2>3, <2>4, <2>5, BeginDistinct
  <1>12. CASE FetchFails(t)
    <2>1. PICK p \in Load :
            \/ view' = p /\ task' = [task EXCEPT ![t] = Idle]
            \/ /\ task[t].batch # <<>> /\ UNCHANGED view
               /\ task' = [task EXCEPT ![t] = Continued(task[t].batch[1], p)]
      BY <1>12 DEF FetchFails
    <2>2. task[t].pc = "fetching" /\ UNCHANGED stored BY <1>12 DEF FetchFails
    <2>3. CASE view' = p /\ task' = [task EXCEPT ![t] = Idle]
      BY <1>1, <1>2, <2>2, <2>3, IdleDistinct, CallMoves
    <2>4. ASSUME task[t].batch # <<>>, UNCHANGED view,
                 task' = [task EXCEPT ![t] = Continued(task[t].batch[1], p)]
          PROVE  GroupsInv'
      <3>1. BatchOK(task[t].batch[1], started) /\ DistinctIds(task[t].batch[1].profile.groups)
        BY <1>1, <2>2, <2>4 DEF CallOK, BatchesOK, CallDistinct, BatchDistinct
      <3>2. CallDistinct(Continued(task[t].batch[1], p)) BY <1>2, <3>1, ContinuedDistinct
      <3>3. QED BY <1>1, <2>2, <2>4, <3>2, CallMoves
    <2>5. QED BY <2>1, <2>3, <2>4
  <1>13. CASE FinishUpdate(t)
    <2>1. /\ view' \in Load /\ task' = [task EXCEPT ![t] = Idle] /\ UNCHANGED stored
      BY <1>13 DEF FinishUpdate
    <2>2. QED BY <1>1, <1>2, <2>1, IdleDistinct, CallMoves
  <1>14. CASE ContinueBatch(t)
    <2>1. PICK p \in Load : task' = [task EXCEPT ![t] = Continued(task[t].op.batch[1], p)]
      BY <1>14 DEF ContinueBatch
    <2>2. /\ task[t].pc = "saved" /\ task[t].op.name = "saveNodes" /\ task[t].op.batch # <<>>
          /\ UNCHANGED <<stored, view>>
      BY <1>14 DEF ContinueBatch
    <2>3. BatchOK(task[t].op.batch[1], started) /\ DistinctIds(task[t].op.batch[1].profile.groups)
      BY <1>1, <2>2 DEF CallOK, BatchesOK, CallDistinct, BatchDistinct
    <2>4. CallDistinct(Continued(task[t].op.batch[1], p)) BY <1>2, <2>3, ContinuedDistinct
    <2>5. QED BY <1>1, <2>1, <2>2, <2>4, CallMoves
  <1>15. QED BY <1>3, <1>4, <1>5, <1>7, <1>8, <1>9, <1>10, <1>11, <1>12, <1>13, <1>14 DEF UpdateOp

LEMMA SaveDistinct ==
  ASSUME GroupsState, FreshIds # {}, NEW t \in Task, Save(t)
  PROVE  GroupsInv'
  <1> DEFINE op == task[t].op
             p == task[t].copy
             c == [pc |-> "saved", op |-> op]
  <1>1. /\ started \in Nat /\ CallOK(task[t], started) /\ CallDistinct(task[t])
        /\ DistinctIds(stored.groups) /\ DistinctIds(view.groups)
    BY DEF GroupsState, DataInv, GroupsInv
  <1>2. /\ task[t].pc = "loaded" /\ task' = [task EXCEPT ![t] = c] /\ UNCHANGED view
    BY DEF Save
  <1>3. stored' \in Saved(Edited(op, p)) \cup {stored} BY DEF Save
  <1>4. /\ OpOK(op, started) /\ GoodProfile(p, started) BY <1>1, <1>2 DEF CallOK
  <1>5. /\ DistinctIds(p.groups) /\ GroupsOK(op, p)
        /\ op.name = "saveNodes" => BatchDistinct(op.batch)
    BY <1>1, <1>2 DEF CallDistinct
  <1>6. FreshId \notin GroupIdsOf(p.groups) BY <1>2, FreshIdFree
  <1>7. c.pc = "saved" /\ c.op = op OBVIOUS
  <1> HIDE DEF op, p, c
  <1>8. DistinctIds(Edited(op, p).groups) BY <1>1, <1>4, <1>5, <1>6, EditedDistinct
  <1>9. DistinctIds(stored'.groups) BY <1>1, <1>3, <1>8, NormalizedIds DEF Saved
  <1>10. CallDistinct(c) BY <1>5, <1>7 DEF CallDistinct
  <1>11. QED BY <1>1, <1>2, <1>9, <1>10, CallMoves

LEMMA GroupsHold == Spec /\ [](FreshIds # {}) => []GroupsInv
  <1>1. Init => GroupsInv
    <2> SUFFICES ASSUME Init PROVE GroupsInv OBVIOUS
    <2>1. PICK p \in InitialProfiles : stored = Normalize(p) BY DEF Init
    <2>2. view = Normalize(stored) /\ task = [t \in Task |-> Idle] BY DEF Init
    <2>3. DistinctIds(p.groups) BY SourceAssumption DEF IsProfile, DistinctIds
    <2>4. DistinctIds(stored.groups) BY <2>1, <2>3, NormalizedIds
    <2>5. DistinctIds(view.groups) BY <2>2, <2>4, NormalizedIds
    <2>6. QED BY <2>2, <2>4, <2>5, IdleDistinct DEF GroupsInv
  <1>2. DataInv /\ Settled(stored) /\ FreshIds # {} /\ GroupsInv /\ [Next]_vars => GroupsInv'
    <2> SUFFICES ASSUME GroupsState, FreshIds # {}, [Next]_vars PROVE GroupsInv'
      BY DEF GroupsState
    <2>1. GroupsInv BY DEF GroupsState
    <2>2. ASSUME NEW t \in Task, Return(t)
          PROVE  GroupsInv'
      <3>1. view' \in Load /\ task' = [task EXCEPT ![t] = Idle] /\ UNCHANGED stored
        BY <2>2 DEF Return
      <3>2. DistinctIds(view'.groups) /\ DistinctIds(stored'.groups)
        BY <2>1, <3>1, LoadDistinct DEF GroupsInv
      <3>3. QED BY <3>1, <3>2, IdleDistinct, CallMoves
    <2>3. CASE ShowPage
      <3>1. view' \in Load /\ UNCHANGED <<stored, task>> BY <2>3 DEF ShowPage
      <3>2. DistinctIds(view'.groups) BY <3>1, LoadDistinct
      <3>3. QED BY <2>1, <3>1, <3>2 DEF GroupsInv
    <2>4. CASE UNCHANGED vars BY <2>1, <2>4 DEF vars, GroupsInv
    <2>5. QED BY <2>2, <2>3, <2>4, StoreOpDistinct, UpdateOpDistinct, SaveDistinct DEF Next
  <1>3. QED BY <1>1, <1>2, DataHolds, StoreIsSettled, PTL DEF Spec

LEMMA StartedBounded == Spec => [](started \in 0 .. MaxTasks)
  <1>1. Init => started \in 0 .. MaxTasks BY TaskAssumption DEF Init
  <1>2. started \in 0 .. MaxTasks /\ [Next]_vars => (started \in 0 .. MaxTasks)'
    <2> SUFFICES ASSUME started \in 0 .. MaxTasks, [Next]_vars PROVE started' \in 0 .. MaxTasks
      OBVIOUS
    <2>1. started' = started \/ (started < MaxTasks /\ started' = started + 1)
      <3>1. ASSUME NEW t \in Task, CanStart(t) \/ started' = started
            PROVE  started' = started \/ (started < MaxTasks /\ started' = started + 1)
        BY <3>1 DEF CanStart
      <3>2. ASSUME NEW t \in Task, StoreOp(t) PROVE CanStart(t)
        BY <3>2 DEF StoreOp, SelectNode, SelectGroup, ToggleGroup, RemoveGroup, MoveGroup,
           AddGroup, UpdateGroup, RemoveNode, AddManualNode, UpdateManualNode, SaveDelays,
           RestoreProfile, EditNodes, OnGroup, PageStarts
      <3>3. ASSUME NEW t \in Task, UpdateOp(t) PROVE CanStart(t) \/ started' = started
        BY <3>3 DEF UpdateOp, Update, SaveUrl, AskSource, UpdateAll, UpdateDue, UpdateDueGroup,
           Batch, NextGroup, EndBatch, Deliver, FetchFails, FinishUpdate, ContinueBatch
      <3>4. ASSUME NEW t \in Task, Save(t) \/ Return(t) PROVE started' = started
        BY <3>4 DEF Save, Return
      <3>5. CASE ShowPage BY <3>5 DEF ShowPage
      <3>6. CASE UNCHANGED vars BY <3>6 DEF vars
      <3>7. QED BY <3>1, <3>2, <3>3, <3>4, <3>5, <3>6 DEF Next
    <2>2. QED BY <2>1, TaskAssumption
  <1>3. QED BY <1>1, <1>2, PTL DEF Spec

LEMMA TypesFollow == DataInv /\ GroupsInv /\ started \in 0 .. MaxTasks => TypeOK
  <1>1. ASSUME NEW n, NEW p, GoodProfile(p, n), DistinctIds(p.groups)
        PROVE  ProfileTypeOK(p)
    <2>1. ASSUME NEW i \in DOMAIN p.groups
          PROVE  GroupTypeOK(p.groups[i])
      <3>1. GoodGroup(p.groups[i], n) BY <1>1 DEF GoodProfile, GoodGroups
      <3>2. \A j \in DOMAIN p.groups[i].nodes : p.groups[i].nodes[j].content \in Content
        BY <3>1, GoodSeq DEF GoodGroup, Nodes
      <3>3. QED BY <3>1, <3>2 DEF GroupTypeOK, GoodGroup, Urls
    <2>2. QED BY <1>1, <2>1 DEF ProfileTypeOK, GoodProfile, DistinctIds, Urls
  <1>2. QED BY <1>1 DEF DataInv, GroupsInv, TypeOK

(* As long as createGroup finds an id no group has, the types hold and no  *)
(* two groups of what is stored or shown get the same id, in whatever      *)
(* order the calls load and save.                                          *)
THEOREM TypesWhileFresh == Spec /\ [](FreshIds # {}) => []TypeOK
  BY TypesFollow, DataHolds, GroupsHold, StartedBounded, PTL

(* The groups in use are finitely many.                                    *)
LEMMA FreshThere ==
  ASSUME ~IsFiniteSet(FreshGroup), IsFiniteSet(Task), DataInv
  PROVE  FreshIds # {}
  <1>1. ASSUME NEW p, GoodProfile(p, started)
        PROVE  IsFiniteSet(GroupIdsOf(p.groups))
    <2>1. PICK k \in Nat : DOMAIN p.groups = 1 .. k
      BY <1>1 DEF GoodProfile, GoodGroups, IsSeq
    <2>2. IsFiniteSet(1 .. k) BY <2>1, FS_Interval
    <2>3. IsFiniteSet({p.groups[i].id : i \in 1 .. k})
      <3> DEFINE S == {p.groups[i].id : i \in 1 .. k}
                 f == [i \in 1 .. k |-> p.groups[i].id]
      <3>1. f \in [1 .. k -> S] /\ \A x \in S : \E i \in 1 .. k : f[i] = x OBVIOUS
      <3>2. f \in Surjection(1 .. k, S) BY <3>1 DEF Surjection
      <3>3. QED BY <2>2, <3>2, FS_Surjection
    <2>4. QED BY <2>1, <2>3 DEF GroupIdsOf
  <1> DEFINE loaded == {u \in Task : task[u].pc = "loaded"}
             copies == {task[t].copy : t \in loaded}
             profiles == {stored, view} \cup copies
             used == {GroupIdsOf(p.groups) : p \in profiles}
  <1>2. IsFiniteSet(loaded) BY FS_Subset
  <1>3. IsFiniteSet(copies)
    <2> DEFINE f == [t \in loaded |-> task[t].copy]
    <2> HIDE DEF loaded
    <2>1. f \in Surjection(loaded, copies) BY DEF Surjection
    <2>2. QED BY <1>2, <2>1, FS_Surjection
  <1>4. IsFiniteSet(profiles)
    <2>1. IsFiniteSet({stored, view})
      <3>1. IsFiniteSet({stored}) /\ IsFiniteSet({view}) BY FS_Singleton
      <3>2. IsFiniteSet({stored} \cup {view}) BY <3>1, FS_Union
      <3>3. {stored} \cup {view} = {stored, view} OBVIOUS
      <3>4. QED BY <3>2, <3>3
    <2> HIDE DEF copies
    <2>2. QED BY <1>3, <2>1, FS_Union
  <1>5. \A p \in profiles : GoodProfile(p, started)
    <2>1. \A t \in loaded : GoodProfile(task[t].copy, started) BY DEF DataInv, CallOK
    <2>2. GoodProfile(stored, started) /\ GoodProfile(view, started) BY DEF DataInv
    <2> HIDE DEF loaded
    <2>3. QED BY <2>1, <2>2
  <1> HIDE DEF profiles
  <1>6. IsFiniteSet(used)
    <2> DEFINE f == [p \in profiles |-> GroupIdsOf(p.groups)]
    <2>1. f \in Surjection(profiles, used) BY DEF Surjection
    <2>2. QED BY <1>4, <2>1, FS_Surjection
  <1>7. \A ids \in used : IsFiniteSet(ids) BY <1>1, <1>5
  <1>8. IsFiniteSet(UNION used)
    <2> HIDE DEF used
    <2>1. QED BY <1>6, <1>7, FS_UNION
  <1>9. UsedGroups = UNION used BY DEF UsedGroups, profiles
  <1>10. SUFFICES ASSUME FreshIds = {} PROVE FALSE OBVIOUS
  <1>11. FreshGroup \subseteq UsedGroups BY <1>10 DEF FreshIds
  <1>12. QED BY <1>8, <1>9, <1>11, FS_Subset

(* In particular when the ids createGroup may draw do not run out.         *)
THEOREM SubscriptionTypes ==
  ASSUME ~IsFiniteSet(FreshGroup), IsFiniteSet(Task)
  PROVE  Spec => []TypeOK
  <1>1. DataInv => FreshIds # {} BY FreshThere
  <1>2. QED BY <1>1, DataHolds, TypesWhileFresh, PTL

-----------------------------------------------------------------------------
(* Browsing, while no call loads between the load and the save of another. *)

(* At most one call holds a copy it will save, and the copy is what is     *)
(* stored (or empty, when it could not be read).                           *)
CopyInv ==
  \A u \in Task : task[u].pc = "loaded" =>
    task[u].copy \in Load /\ \A v \in Task \ {u} : task[v].pc # "loaded"

CurrentThere == stored.selectedNodeId \in NodeIdsOf(stored.groups) \cup {NoNode}

LEMMA CurrentHolds == Spec => []CurrentThere
  <1>1. \A raw : Normalize(raw).selectedNodeId \in NodeIdsOf(Normalize(raw).groups) \cup {NoNode}
    BY GlobalIsThere DEF Normalize
  <1>2. Init => CurrentThere
    BY <1>1 DEF Init, CurrentThere
  <1>3. CurrentThere /\ [Next]_vars => CurrentThere'
    <2>1. CASE Next
      BY <1>1, <2>1, StoredIsNormalized DEF CurrentThere
    <2>2. CASE UNCHANGED vars
      BY <2>2 DEF vars, CurrentThere
    <2>3. QED BY <2>1, <2>2
  <1>4. QED BY <1>2, <1>3, PTL DEF Spec

(* A step of a call that does not load leaves no copy behind.              *)
LEMMA NoCopyLeft ==
  ASSUME CopyInv, DOMAIN task = Task, NEW t \in Task, NEW c, c.pc # "loaded",
         task' = [task EXCEPT ![t] = c],
         task[t].pc = "loaded" \/ UNCHANGED stored
  PROVE  CopyInv'
  <1>1. task'[t] = c /\ \A u \in Task : u # t => task'[u] = task[u] OBVIOUS
  <1>2. SUFFICES ASSUME NEW u \in Task, task'[u].pc = "loaded"
                 PROVE  task'[u].copy \in Load' /\ \A v \in Task \ {u} : task'[v].pc # "loaded"
    BY DEF CopyInv
  <1>3. u # t /\ task[u].pc = "loaded" /\ task'[u] = task[u] BY <1>1, <1>2
  <1>4. task[u].copy \in Load /\ \A v \in Task \ {u} : task[v].pc # "loaded" BY <1>3 DEF CopyInv
  <1>5. UNCHANGED stored BY <1>3, <1>4
  <1>6. Load' = Load BY <1>5 DEF Load
  <1>7. QED BY <1>1, <1>3, <1>4, <1>6

LEMMA CopyTaken ==
  ASSUME Overlap # "any", DOMAIN task = Task, NEW t \in Task, NEW op, Begin(t, op), UNCHANGED stored
  PROVE  CopyInv'
  <1>1. PICK copy \in Load :
           task' = [task EXCEPT ![t] = [pc |-> "loaded", op |-> op, copy |-> copy]]
    BY DEF Begin
  <1>2. \A u \in Task \ {t} : task[u].pc # "loaded" BY DEF Begin, CanLoad
  <1>3. /\ task'[t].copy = copy /\ \A u \in Task \ {t} : task'[u] = task[u]
    BY <1>1
  <1>4. Load' = Load BY DEF Load
  <1>5. QED BY <1>2, <1>3, <1>4 DEF CopyInv

LEMMA CopiesHold ==
  ASSUME Overlap # "any"
  PROVE  Spec => []CopyInv
  <1>1. Init => CopyInv BY DEF Init, CopyInv, Idle
  <1>2. DataInv /\ CopyInv /\ [Next]_vars => CopyInv'
    <2> SUFFICES ASSUME DataInv, CopyInv, [Next]_vars PROVE CopyInv' OBVIOUS
    <2>1. DOMAIN task = Task BY DEF DataInv
    <2>2. ASSUME NEW t \in Task, StoreOp(t)
          PROVE  \E op : Begin(t, op) /\ UNCHANGED stored
      BY <2>2 DEF StoreOp, SelectNode, SelectGroup, ToggleGroup, RemoveGroup, MoveGroup,
         AddGroup, UpdateGroup, RemoveNode, AddManualNode, UpdateManualNode, SaveDelays,
         RestoreProfile, EditNodes, OnGroup, PageStarts
    <2>3. ASSUME NEW t \in Task, SaveUrl(t) \/ Deliver(t)
          PROVE  \E op : Begin(t, op) /\ UNCHANGED stored
      BY <2>3 DEF SaveUrl, Deliver
    <2>4. ASSUME NEW t \in Task, NEW c, c.pc # "loaded", task' = [task EXCEPT ![t] = c],
                 task[t].pc = "loaded" \/ UNCHANGED stored
          PROVE  CopyInv'
      BY <2>1, <2>4, NoCopyLeft
    <2>5. ASSUME NEW t \in Task, Update(t) \/ AskSource(t)
          PROVE  CopyInv'
      <3>1. \E c : c.pc # "loaded" /\ task' = [task EXCEPT ![t] = c] /\ UNCHANGED stored
        <4>1. CASE Update(t)
          <5>1. PICK id, url, selected :
                  task' = [task EXCEPT ![t] = [pc |-> "resolved", id |-> id, url |-> url,
                                               selected |-> selected]] /\ UNCHANGED stored
            BY <4>1 DEF Update
          <5> DEFINE c == [pc |-> "resolved", id |-> id, url |-> url, selected |-> selected]
          <5>2. c.pc = "resolved" /\ task' = [task EXCEPT ![t] = c] BY <5>1
          <5> HIDE DEF c
          <5>3. c.pc # "loaded" BY <5>2
          <5>4. QED BY <5>1, <5>2, <5>3
        <4>2. CASE AskSource(t)
          <5>1. PICK id, selected :
                  task' = [task EXCEPT ![t] = [pc |-> "fetching", url |-> task[t].op.url,
                                               selected |-> selected, id |-> id, batch |-> <<>>]]
            BY <4>2 DEF AskSource
          <5> DEFINE c == [pc |-> "fetching", url |-> task[t].op.url, selected |-> selected,
                           id |-> id, batch |-> <<>>]
          <5>2. c.pc = "fetching" /\ task' = [task EXCEPT ![t] = c] /\ UNCHANGED stored
            BY <4>2, <5>1 DEF AskSource
          <5> HIDE DEF c
          <5>3. c.pc # "loaded" BY <5>2
          <5>4. QED BY <5>2, <5>3
        <4>3. QED BY <2>5, <4>1, <4>2
      <3>2. QED BY <2>4, <3>1
    <2>6. ASSUME NEW t \in Task, UpdateAll(t) \/ UpdateDue(t) \/ UpdateDueGroup(t)
          PROVE  CopyInv'
      <3>1. PICK p, i, all, loops :
              task' = [task EXCEPT ![t] = [pc |-> "looping", profile |-> p, index |-> i,
                                           all |-> all, loops |-> loops]] /\ UNCHANGED stored
        BY <2>6 DEF UpdateAll, UpdateDue, UpdateDueGroup, Batch
      <3> DEFINE c == [pc |-> "looping", profile |-> p, index |-> i, all |-> all, loops |-> loops]
      <3>2. c.pc = "looping" /\ task' = [task EXCEPT ![t] = c] BY <3>1
      <3> HIDE DEF c
      <3>3. c.pc # "loaded" BY <3>2
      <3>4. QED BY <2>4, <3>1, <3>2, <3>3
    <2>7. ASSUME NEW t \in Task, NextGroup(t)
          PROVE  CopyInv'
      <3> DEFINE b == task[t]
      <3>1. PICK i \in DOMAIN b.profile.groups :
              task' = [task EXCEPT ![t] =
                [pc |-> "fetching", id |-> b.profile.groups[i].id, url |-> b.profile.groups[i].url,
                 selected |-> b.profile.groups[i].selectedNodeId,
                 batch |-> <<[b EXCEPT !.index = i + 1]>>]]
        BY <2>7 DEF NextGroup
      <3> DEFINE c == [pc |-> "fetching", id |-> b.profile.groups[i].id,
                       url |-> b.profile.groups[i].url,
                       selected |-> b.profile.groups[i].selectedNodeId,
                       batch |-> <<[b EXCEPT !.index = i + 1]>>]
      <3>2. c.pc = "fetching" /\ task' = [task EXCEPT ![t] = c] /\ UNCHANGED stored
        BY <2>7, <3>1 DEF NextGroup
      <3> HIDE DEF c
      <3>3. c.pc # "loaded" BY <3>2
      <3>4. QED BY <2>4, <3>2, <3>3
    <2>8. ASSUME NEW t \in Task, EndBatch(t) \/ FinishUpdate(t) \/ Return(t)
          PROVE  CopyInv'
      <3>1. task' = [task EXCEPT ![t] = Idle] /\ UNCHANGED stored
        BY <2>8 DEF EndBatch, FinishUpdate, Return
      <3>2. Idle.pc # "loaded" BY DEF Idle
      <3>3. QED BY <2>4, <3>1, <3>2
    <2>9. ASSUME NEW t \in Task, NEW b, NEW p, BatchOK(b, started),
                 task' = [task EXCEPT ![t] = Continued(b, p)], UNCHANGED stored
          PROVE  CopyInv'
      <3>1. Continued(b, p).pc = "looping" BY <2>9 DEF BatchOK, BatchFields, Continued
      <3> DEFINE c == Continued(b, p)
      <3> HIDE DEF c
      <3>2. c.pc # "loaded" /\ task' = [task EXCEPT ![t] = c] BY <2>9, <3>1 DEF c
      <3>3. QED BY <2>4, <2>9, <3>2
    <2>10. ASSUME NEW t \in Task, FetchFails(t)
           PROVE  CopyInv'
      <3>1. PICK p \in Load :
              \/ task' = [task EXCEPT ![t] = Idle]
              \/ (task[t].batch # <<>>
                  /\ task' = [task EXCEPT ![t] = Continued(task[t].batch[1], p)])
        BY <2>10 DEF FetchFails
      <3>2. task[t].pc = "fetching" /\ UNCHANGED stored /\ CallOK(task[t], started)
        BY <2>10 DEF FetchFails, DataInv
      <3>3. CASE task' = [task EXCEPT ![t] = Idle]
        <4>1. Idle.pc # "loaded" BY DEF Idle
        <4>2. QED BY <2>4, <3>2, <3>3, <4>1
      <3>4. CASE task[t].batch # <<>> /\ task' = [task EXCEPT ![t] = Continued(task[t].batch[1], p)]
        <4>1. BatchOK(task[t].batch[1], started) BY <3>2, <3>4 DEF CallOK, BatchesOK
        <4>2. QED BY <2>9, <3>2, <3>4, <4>1
      <3>5. QED BY <3>1, <3>3, <3>4
    <2>11. ASSUME NEW t \in Task, ContinueBatch(t)
           PROVE  CopyInv'
      <3>1. PICK p \in Load : task' = [task EXCEPT ![t] = Continued(task[t].op.batch[1], p)]
        BY <2>11 DEF ContinueBatch
      <3>2. /\ task[t].pc = "saved" /\ task[t].op.name = "saveNodes" /\ task[t].op.batch # <<>>
            /\ UNCHANGED stored /\ CallOK(task[t], started)
        BY <2>11 DEF ContinueBatch, DataInv
      <3>3. BatchOK(task[t].op.batch[1], started) BY <3>2 DEF CallOK, BatchesOK
      <3>4. QED BY <2>9, <3>1, <3>2, <3>3
    <2>12. ASSUME NEW t \in Task, Save(t)
           PROVE  CopyInv'
      <3> DEFINE c == [pc |-> "saved", op |-> task[t].op]
      <3>1. c.pc # "loaded" /\ task' = [task EXCEPT ![t] = c] /\ task[t].pc = "loaded"
        BY <2>12 DEF Save
      <3> HIDE DEF c
      <3>2. QED BY <2>4, <3>1
    <2>13. CASE ShowPage \/ UNCHANGED vars
      BY <2>13 DEF ShowPage, vars, CopyInv, Load
    <2>14. QED BY <2>1, <2>2, <2>3, <2>5, <2>6, <2>7, <2>8, <2>10, <2>11, <2>12, <2>13, CopyTaken
           DEF Next, UpdateOp
  <1>3. QED BY <1>1, <1>2, DataHolds, PTL DEF Spec

(* A load finds the current node that was stored.                          *)
LEMMA LoadKeepsCurrent ==
  ASSUME NEW n \in Nat, NEW p, GoodProfile(p, n), Settled(p),
         p.selectedNodeId \in NodeIdsOf(p.groups), p.selectedNodeId # NoNode
  PROVE  /\ Normalize(p).selectedNodeId = p.selectedNodeId
         /\ NodeIdsOf(Normalize(p).groups) = NodeIdsOf(p.groups)
  <1>1. /\ DOMAIN Normalize(p).groups = DOMAIN p.groups
        /\ \A i \in DOMAIN p.groups : Normalize(p).groups[i].nodes = p.groups[i].nodes
    BY LoadKeeps
  <1>2. NodeIdsOf(Normalize(p).groups) = NodeIdsOf(p.groups) BY <1>1 DEF NodeIdsOf
  <1> DEFINE groups == NormalizedGroups(p)
  <1>3. Normalize(p).groups = groups BY DEF Normalize
  <1>4. \E browsed : Normalize(p).selectedNodeId
                       = ResolveGlobalSelectedNodeId(groups, p.selectedNodeId, browsed)
    BY DEF Normalize
  <1> HIDE DEF groups
  <1>5. p.selectedNodeId \in NodeIdsOf(groups) BY <1>2, <1>3
  <1>6. QED BY <1>2, <1>4, <1>5 DEF ResolveGlobalSelectedNodeId

(* Browsing another group leaves the current node alone, even when reads   *)
(* and writes of the store fail: the copy is what is stored, its groups    *)
(* and nodes are normalized already, and the group browsed to is one of    *)
(* them.  With calls that load between the load and the save of others it  *)
(* does not hold: the copy may be older than the current node.             *)
THEOREM BrowsingKeepsTheNode ==
  ASSUME Overlap # "any"
  PROVE  Spec => BrowsingKeepsNode
  <1>1. DataInv /\ Settled(stored) /\ CurrentThere /\ CopyInv /\ [Next]_vars
        => [\A t \in Task : Completes(t, "selectGroup") /\ stored.selectedNodeId # NoNode
                              => stored'.selectedNodeId = stored.selectedNodeId]_vars
    <2> SUFFICES ASSUME DataInv, Settled(stored), CurrentThere, CopyInv, Next, NEW t \in Task,
                        Completes(t, "selectGroup"), stored.selectedNodeId # NoNode
                 PROVE  stored'.selectedNodeId = stored.selectedNodeId
      BY DEF vars
    <2>1. task[t].pc = "loaded" /\ task[t].op.name = "selectGroup" /\ task'[t].pc = "saved"
      BY DEF Completes
    <2>2. started \in Nat /\ DOMAIN task = Task /\ GoodProfile(stored, started) BY DEF DataInv
    <2>3. stored' = stored \/ Save(t)
      <3>1. CASE ShowPage BY <3>1 DEF ShowPage
      <3>2. ASSUME NEW u \in Task, StoreOp(u)
            PROVE  stored' = stored
        BY <3>2 DEF StoreOp, SelectNode, SelectGroup, ToggleGroup, RemoveGroup, MoveGroup,
           AddGroup, UpdateGroup, RemoveNode, AddManualNode, UpdateManualNode, SaveDelays,
           RestoreProfile, EditNodes, OnGroup, PageStarts
      <3>3. ASSUME NEW u \in Task, UpdateOp(u)
            PROVE  stored' = stored
        BY <3>3 DEF UpdateOp, Update, SaveUrl, AskSource, UpdateAll, UpdateDue, UpdateDueGroup,
           Batch, NextGroup, EndBatch, Deliver, FetchFails, FinishUpdate, ContinueBatch
      <3>4. ASSUME NEW u \in Task, Return(u)
            PROVE  stored' = stored
        BY <3>4 DEF Return
      <3>5. ASSUME NEW u \in Task, Save(u), u # t
            PROVE  FALSE
        <4>1. task' = [task EXCEPT ![u] = [pc |-> "saved", op |-> task[u].op]] BY <3>5 DEF Save
        <4>2. task'[t] = task[t] BY <2>2, <3>5, <4>1
        <4>3. QED BY <2>1, <4>2
      <3>6. QED BY <3>1, <3>2, <3>3, <3>4, <3>5 DEF Next
    <2>4. SUFFICES ASSUME Save(t), stored' # stored
                   PROVE  stored'.selectedNodeId = stored.selectedNodeId
      BY <2>3
    <2> DEFINE op == task[t].op
               p == task[t].copy
               q == [p EXCEPT !.selectedGroupId = op.id]
    <2>5. stored' = Normalize(q) /\ op.id \in GroupIdsOf(p.groups)
      <3>1. Edited(op, p) = q /\ (Saves(op, p) => op.id \in GroupIdsOf(p.groups))
        BY <2>1 DEF Edited, Saves
      <3>2. stored' \in (IF Saves(op, p) THEN Saved(Edited(op, p)) ELSE {stored})
        BY <2>4 DEF Save
      <3> HIDE DEF op, p, q
      <3>3. QED BY <2>4, <3>1, <3>2 DEF Saved
    <2>6. p = Normalize(stored)
      <3>1. p \in Load BY <2>1 DEF CopyInv
      <3>2. p # Empty
        <4>1. DOMAIN Empty.groups = {} BY DEF Empty
        <4>2. GroupIdsOf(Empty.groups) = {} BY <4>1 DEF GroupIdsOf
        <4>3. QED BY <2>5, <4>2
      <3>3. QED BY <3>1, <3>2 DEF Load
    <2> HIDE DEF op
    <2>7. stored.selectedNodeId \in NodeIdsOf(stored.groups) BY DEF CurrentThere
    <2>8. /\ p.selectedNodeId = stored.selectedNodeId
          /\ NodeIdsOf(p.groups) = NodeIdsOf(stored.groups)
          /\ Settled(p) /\ GoodProfile(p, started)
      BY <2>2, <2>6, <2>7, LoadKeepsCurrent, NormalizeSettles, GoodIsAny, NormalizedProfile
    <2> HIDE DEF p
    <2>9. /\ DOMAIN q = DOMAIN p /\ q.url = p.url /\ q.nodes = p.nodes /\ q.groups = p.groups
          /\ q.selectedNodeId = p.selectedNodeId
      BY <2>8 DEF GoodProfile, ProfileFields
    <2> HIDE DEF q
    <2>10. GoodProfile(q, started) /\ Settled(q)
      BY <2>8, <2>9 DEF GoodProfile, Settled
    <2>11. Normalize(q).selectedNodeId = q.selectedNodeId
      BY <2>2, <2>7, <2>8, <2>9, <2>10, LoadKeepsCurrent
    <2>12. QED BY <2>5, <2>8, <2>9, <2>11
  <1>2. QED BY <1>1, DataHolds, StoreIsSettled, CurrentHolds, CopiesHold, PTL
        DEF Spec, BrowsingKeepsNode
=============================================================================
