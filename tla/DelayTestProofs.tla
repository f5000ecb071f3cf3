-------------------------- MODULE DelayTestProofs --------------------------
(***************************************************************************)
(* Proofs about the delay tests, for every set of nodes, slots, threads    *)
(* and ports, every threshold of the saves and every number of acts.       *)
(***************************************************************************)
EXTENDS DelayTests, TLAPS

-----------------------------------------------------------------------------
(* Types.                                                                  *)

Entry == [node : Node, row : Row]

Batch == [testing : BOOLEAN, next : Nat \ {0}, flushing : BOOLEAN, pending : Seq(Entry),
          slot : [Slot -> {"measuring", "flushing", "ending", "done"}],
          saving : [Slot -> Seq(Entry)], loaded : [Slot -> [Node -> StoredRow]],
          lost : SUBSET Node]

Runtime == [status : {"IDLE", "RUNNING", "ERROR"}, session : Nat, testing : BOOLEAN,
            delayOf : Nat, busy : {"no", "start", "stop"}, profile : Config \cup {NoConfig}]

Result == [owner : {"slot", "session"}, id : Nat, config : Config, ok : BOOLEAN,
           seen : Config \cup {NoConfig}]

(* A connection that runs or starts has a profile, and none starts while   *)
(* one runs.                                                               *)
ProfileChosen ==
  /\ runtime.status = "RUNNING" \/ runtime.busy = "start" => runtime.profile \in Config
  /\ runtime.busy = "start" => runtime.status # "RUNNING"

(* A thread in a call has its task, and the call is the one of its task.   *)
PingOfTask == \A t \in Worker :
  IF ping[t].pc = "idle" THEN task[t] = NoTask
  ELSE /\ task[t] \in Task
       /\ task[t].owner = "slot" => task[t].id \in Slot
       /\ ping[t].port = PortOf(task[t]) /\ ping[t].config = task[t].config

TypeInv ==
  /\ TypeOK
  /\ batch \in Batch /\ answers \subseteq Result
  /\ \A i \in DOMAIN tasks : tasks[i].owner = "slot" => tasks[i].id \in Slot
  /\ ProfileChosen /\ PingOfTask

-----------------------------------------------------------------------------
(* Who works for a slot.                                                   *)

Asked(a) == Ask(a.owner, a.id, a.config)

Queued(i, s)   == i \in DOMAIN tasks /\ tasks[i].owner = "slot" /\ tasks[i].id = s
Running(t, s)  == t \in Worker /\ task[t].owner = "slot" /\ task[t].id = s
Answered(a, s) == a \in answers /\ a.owner = "slot" /\ a.id = s

(* A slot has at most one node in measurement, wherever its task is.       *)
OneTask == \A s \in Slot :
  /\ \A i, j \in DOMAIN tasks : Queued(i, s) /\ Queued(j, s) => i = j
  /\ \A t, u \in Worker : Running(t, s) /\ Running(u, s) => t = u
  /\ \A a, b \in answers : Answered(a, s) /\ Answered(b, s) => a = b
  /\ \A i \in DOMAIN tasks, t \in Worker : ~(Queued(i, s) /\ Running(t, s))
  /\ \A i \in DOMAIN tasks, a \in answers : ~(Queued(i, s) /\ Answered(a, s))
  /\ \A t \in Worker, a \in answers : ~(Running(t, s) /\ Answered(a, s))

(* The nodes in measurement for the slots.                                 *)
Work == {tasks[i] : i \in DOMAIN tasks} \cup {task[t] : t \in Worker} \cup {Asked(a) : a \in answers}

Held == {k \in Work \ {NoTask} : k.owner = "slot"}

HeldBySlot == \A k \in Held :
  k.id \in Slot /\ batch.slot[k.id] = "measuring" /\ k.config \in Node

(* The slots of a batch: the order of its phases.                          *)
SlotsOfBatch ==
  /\ ~batch.testing => /\ \A s \in Slot : batch.slot[s] = "done"
                       /\ batch.pending = <<>>
  /\ batch.testing => \A s \in Slot : batch.slot[s] \in {"done", "ending"} => batch.next > Len(Targets)
  /\ \A s \in Slot : batch.slot[s] = "ending" =>
       s = 1 /\ batch.pending = <<>> /\ \A r \in Slot \ {1} : batch.slot[r] = "done"

(* What a call of a slot reads and returns is its own node.                *)
OwnFile == \A t \in Worker : task[t].owner = "slot" =>
  /\ ping[t].pc = "written" => file[ping[t].port] = ping[t].config
  /\ ping[t].seen \in {ping[t].config, NoConfig}

OwnAnswer == \A a \in answers : a.owner = "slot" => a.seen \in {a.config, NoConfig}

OwnRows == \A n \in Node : shown[n] \in {"none", "testing", "failed", n, NoConfig}

OwnInv == OneTask /\ HeldBySlot /\ SlotsOfBatch /\ OwnFile /\ OwnAnswer /\ OwnRows

-----------------------------------------------------------------------------
(* The saves.                                                              *)

EntriesOf(b) == {b.pending[i] : i \in DOMAIN b.pending} \cup
                UNION {{b.saving[s][i] : i \in DOMAIN b.saving[s]} : s \in Slot}

Entries == EntriesOf(batch)

(* Results wait to be saved only where a save is under way, and one save   *)
(* is under way at a time, so that what it loaded stays true (or is the    *)
(* answer of a read that failed).                                          *)
OneSave ==
  /\ \A s \in Slot : batch.slot[s] \notin {"flushing", "ending"} => batch.saving[s] = <<>>
  /\ \A s \in Slot : batch.slot[s] = "flushing" =>
       batch.flushing /\ \A r \in Slot : batch.slot[r] = "flushing" => r = s
  /\ \A s \in Slot : batch.slot[s] \in {"flushing", "ending"} => batch.loaded[s] \in Loads

(* A node has a result to save only after its measurement.                 *)
EachNodeOnce == \A i, j \in DOMAIN Targets : Targets[i] = Targets[j] => i = j

Comes(n) == batch.testing /\ \E i \in DOMAIN Targets : i >= batch.next /\ Targets[i] = n

MeasuredOnce ==
  /\ \A k, l \in Held : k.config = l.config => k = l
  /\ \A k \in Held : ~Comes(k.config)
  /\ \A e \in Entries : ~Comes(e.node) /\ \A k \in Held : k.config # e.node

EntriesShown == \A e \in Entries : shown[e.node] = e.row

(* The preferences have the row, unless they lost the node or its result.  *)
Kept(n) == stored[n] \in {shown[n], "absent"} \/ n \in batch.lost

(* No row is forgotten: its node is still to be measured, its result still *)
(* to be saved, or the preferences have it.                                *)
NoneForgotten == \A n \in Node :
  \/ Comes(n) \/ (\E k \in Held : k.config = n) \/ (\E e \in Entries : e.node = n)
  \/ Kept(n)

SaveInv == OneSave /\ MeasuredOnce /\ EntriesShown /\ NoneForgotten

-----------------------------------------------------------------------------
(* Facts about the data of the model.                                      *)

LEMMA NodesAreConfigs == /\ Targets \in Seq(Config) /\ Node \subseteq Config
                         /\ \A i \in DOMAIN Targets : Targets[i] \in Node
  BY DelayAssumption DEF Node

LEMMA RowsDiffer == \A n \in Config : n \notin {"none", "testing", "failed", NoConfig}
  BY RowAssumption

LEMMA AskType ==
  ASSUME NEW owner \in {"slot", "session"}, NEW id \in Nat, NEW config \in Config
  PROVE  /\ Ask(owner, id, config) \in Task
         /\ Ask(owner, id, config).owner = owner /\ Ask(owner, id, config).id = id
         /\ Ask(owner, id, config).config = config
  BY DEF Ask, Task

LEMMA NoTaskIsNone == NoTask \notin Task /\ NoTask.id = 0 /\ NoTask.owner = "slot"
  BY RowsDiffer DEF NoTask, Task

(* An answer carries its task.                                             *)
LEMMA AnswerType ==
  ASSUME NEW k \in Task, NEW ok \in BOOLEAN, NEW seen \in Config \cup {NoConfig}
  PROVE  /\ Answer(k, ok, seen) \in Result
         /\ Asked(Answer(k, ok, seen)) = k
         /\ Answer(k, ok, seen).owner = k.owner /\ Answer(k, ok, seen).id = k.id
         /\ Answer(k, ok, seen).config = k.config
         /\ Answer(k, ok, seen).seen \in {seen, NoConfig}
  BY DEF Answer, Result, Task, Asked, Ask

LEMMA AskedType ==
  ASSUME NEW a \in Result
  PROVE  /\ Asked(a) \in Task /\ Asked(a).owner = a.owner
         /\ Asked(a).id = a.id /\ Asked(a).config = a.config
  BY DEF Result, Asked, Ask, Task

LEMMA RowType ==
  ASSUME NEW a \in Result
  PROVE  RowOf(a) \in Row /\ RowOf(a) \in {a.seen, "failed"}
  BY DEF Result, RowOf, Row

(* The tasks with which a batch begins: one for each slot that has a node. *)
FirstTasks == [s \in Slot \cap DOMAIN Targets |-> Ask("slot", s, Targets[s])]

LEMMA FirstTasksType ==
  /\ FirstTasks \in Seq(Task)
  /\ DOMAIN FirstTasks = Slot \cap DOMAIN Targets
  /\ \A s \in DOMAIN FirstTasks : FirstTasks[s] = Ask("slot", s, Targets[s])
  <1>1. Targets \in Seq(Config) /\ Slots \in Nat
    BY DelayAssumption
  <1>2. \A s \in Slot \cap DOMAIN Targets : Ask("slot", s, Targets[s]) \in Task
    BY <1>1, AskType DEF Slot
  <1>3. PICK m \in Nat : Slot \cap DOMAIN Targets = 1..m
    <2>1. DOMAIN Targets = 1..Len(Targets) /\ Len(Targets) \in Nat
      BY <1>1
    <2>2. CASE Slots <= Len(Targets)
      <3>1. Slot \cap DOMAIN Targets = 1..Slots
        BY <1>1, <2>1, <2>2 DEF Slot
      <3>2. QED BY <1>1, <3>1
    <2>3. CASE ~(Slots <= Len(Targets))
      <3>1. Slot \cap DOMAIN Targets = 1..Len(Targets)
        BY <1>1, <2>1, <2>3 DEF Slot
      <3>2. QED BY <2>1, <3>1
    <2>4. QED BY <2>2, <2>3
  <1>4. FirstTasks \in [1..m -> Task] /\ DOMAIN FirstTasks = Slot \cap DOMAIN Targets
    BY <1>2, <1>3 DEF FirstTasks
  <1>5. FirstTasks \in Seq(Task)
    BY <1>4
  <1>6. QED BY <1>4, <1>5 DEF FirstTasks

(* r is the queue q after its i-th task was taken out.                     *)
Taken(q, i, r) ==
  /\ i \in DOMAIN q /\ r \in Seq(Task)
  /\ \E f \in [DOMAIN r -> DOMAIN q \ {i}] :
       /\ \A j \in DOMAIN r : r[j] = q[f[j]]
       /\ \A j, l \in DOMAIN r : f[j] = f[l] => j = l
       /\ \A h \in DOMAIN q \ {i} : \E j \in DOMAIN r : f[j] = h

LEMMA TakenFrom ==
  ASSUME NEW q \in Seq(Task), NEW i \in DOMAIN q, NEW r \in Seq(Task), Len(r) = Len(q) - 1,
         \A j \in DOMAIN r : r[j] = q[IF j < i THEN j ELSE j + 1]
  PROVE  Taken(q, i, r)
  <1> DEFINE f == [j \in DOMAIN r |-> IF j < i THEN j ELSE j + 1]
  <1>1. /\ DOMAIN q = 1..Len(q) /\ DOMAIN r = 1..(Len(q) - 1)
        /\ Len(q) \in Nat /\ i \in 1..Len(q)
    OBVIOUS
  <1>2. f \in [DOMAIN r -> DOMAIN q \ {i}]
    BY <1>1
  <1>3. \A j \in DOMAIN r : r[j] = q[f[j]]
    OBVIOUS
  <1>4. \A j, l \in DOMAIN r : f[j] = f[l] => j = l
    BY <1>1
  <1>5. ASSUME NEW h \in DOMAIN q \ {i}
        PROVE  \E j \in DOMAIN r : f[j] = h
    <2>1. CASE h < i
      BY <1>1, <2>1
    <2>2. CASE h > i
      <3>1. h - 1 \in DOMAIN r /\ f[h - 1] = h
        BY <1>1, <2>2
      <3>2. QED BY <3>1
    <2>3. QED BY <1>1, <2>1, <2>2
  <1> HIDE DEF f
  <1>6. QED BY <1>2, <1>3, <1>4, <1>5 DEF Taken

LEMMA TakenItems ==
  ASSUME NEW q, NEW i, NEW r, Taken(q, i, r), NEW k
  PROVE  (\E h \in DOMAIN q : k = q[h]) <=> k = q[i] \/ \E j \in DOMAIN r : k = r[j]
  <1>1. i \in DOMAIN q
    BY DEF Taken
  <1>2. PICK f \in [DOMAIN r -> DOMAIN q \ {i}] :
          /\ \A j \in DOMAIN r : r[j] = q[f[j]]
          /\ \A h \in DOMAIN q \ {i} : \E j \in DOMAIN r : f[j] = h
    BY DEF Taken
  <1>3. ASSUME NEW h \in DOMAIN q, k = q[h], k # q[i]
        PROVE  \E j \in DOMAIN r : k = r[j]
    <2>1. PICK j \in DOMAIN r : f[j] = h
      BY <1>2, <1>3
    <2>2. QED BY <1>2, <1>3, <2>1
  <1>4. ASSUME NEW j \in DOMAIN r, k = r[j]
        PROVE  \E h \in DOMAIN q : k = q[h]
    <2>1. f[j] \in DOMAIN q /\ k = q[f[j]]
      BY <1>2, <1>4
    <2>2. QED BY <2>1
  <1>5. QED BY <1>1, <1>3, <1>4

LEMMA TailTakes ==
  ASSUME NEW q \in Seq(Task), q # <<>>
  PROVE  Taken(q, 1, Tail(q)) /\ Head(q) = q[1] /\ 1 \in DOMAIN q
  <1>1. Tail(q) \in Seq(Task) /\ Len(Tail(q)) = Len(q) - 1 /\ 1 \in DOMAIN q /\ Head(q) = q[1]
    OBVIOUS
  <1>2. \A j \in DOMAIN Tail(q) : Tail(q)[j] = q[IF j < 1 THEN j ELSE j + 1]
    BY <1>1
  <1>3. QED BY <1>1, <1>2, TakenFrom

LEMMA RemoveTakes ==
  ASSUME NEW q \in Seq(Task), NEW i \in DOMAIN q
  PROVE  Taken(q, i, RemoveAt(q, i))
  <1> DEFINE u == SubSeq(q, 1, i - 1)
             v == SubSeq(q, i + 1, Len(q))
  <1>1. i \in 1..Len(q) /\ Len(q) \in Nat
    OBVIOUS
  <1>2. u \in Seq(Task) /\ Len(u) = i - 1 /\ \A j \in 1..(i - 1) : u[j] = q[j]
    BY <1>1
  <1>3. v \in Seq(Task) /\ Len(v) = Len(q) - i /\ \A j \in 1..(Len(q) - i) : v[j] = q[i + j]
    BY <1>1
  <1> HIDE DEF u, v
  <1>4. u \o v \in Seq(Task) /\ Len(u \o v) = Len(q) - 1
    BY <1>1, <1>2, <1>3
  <1>5. ASSUME NEW j \in DOMAIN (u \o v)
        PROVE  (u \o v)[j] = q[IF j < i THEN j ELSE j + 1]
    <2>1. j \in 1..(Len(q) - 1)
      BY <1>4
    <2>2. CASE j < i
      BY <1>1, <1>2, <1>3, <2>1, <2>2
    <2>3. CASE ~(j < i)
      <3>1. (u \o v)[j] = v[j - (i - 1)] /\ j - (i - 1) \in 1..(Len(q) - i)
        BY <1>1, <1>2, <1>3, <2>1, <2>3
      <3>2. i + (j - (i - 1)) = j + 1
        BY <1>1, <2>1
      <3>3. v[j - (i - 1)] = q[j + 1]
        BY <1>3, <3>1, <3>2
      <3>4. QED BY <2>3, <3>1, <3>3
    <2>4. QED BY <2>2, <2>3
  <1>6. RemoveAt(q, i) = u \o v
    BY DEF RemoveAt, u, v
  <1>7. QED BY <1>4, <1>5, <1>6, TakenFrom

-----------------------------------------------------------------------------
(* Every step keeps the types.                                             *)

LEMMA TypeFacts ==
  ASSUME TypeInv
  PROVE  /\ file \in [Port -> Config \cup {NoConfig}] /\ ping \in [Worker -> Ping]
         /\ batch \in Batch /\ runtime \in Runtime /\ acts \in Nat
         /\ shown \in [Node -> Row] /\ stored \in [Node -> StoredRow]
         /\ tasks \in Seq(Task) /\ task \in [Worker -> Task \cup {NoTask}]
         /\ answers \subseteq Result
  BY DEF TypeInv, TypeOK, Runtime

(* The parts of the types, as the actions change them.                     *)
BatchTypes ==
  /\ batch \in Batch /\ acts \in Nat
  /\ shown \in [Node -> Row] /\ stored \in [Node -> StoredRow]

QueueTypes ==
  /\ tasks \in Seq(Task)
  /\ \A i \in DOMAIN tasks : tasks[i].owner = "slot" => tasks[i].id \in Slot

RuntimeTypes == runtime \in Runtime /\ ProfileChosen

PoolTypes ==
  /\ file \in [Port -> Config \cup {NoConfig}] /\ ping \in [Worker -> Ping]
  /\ task \in [Worker -> Task \cup {NoTask}] /\ PingOfTask

LEMMA TypeParts == TypeInv <=>
  BatchTypes /\ QueueTypes /\ RuntimeTypes /\ PoolTypes /\ answers \subseteq Result
  <1>1. ASSUME BatchTypes, QueueTypes, RuntimeTypes, PoolTypes, answers \subseteq Result
        PROVE  TypeInv
    <2>1. \A a \in answers : Ask(a.owner, a.id, a.config) \in Task
      BY <1>1, AskedType DEF Asked
    <2>2. /\ batch.testing \in BOOLEAN /\ batch.flushing \in BOOLEAN /\ batch.next \in Nat
          /\ batch.pending \in Seq([node : Node, row : Row])
          /\ batch.slot \in [Slot -> {"measuring", "flushing", "ending", "done"}]
          /\ batch.saving \in [Slot -> Seq([node : Node, row : Row])]
          /\ batch.loaded \in [Slot -> [Node -> StoredRow]] /\ batch.lost \subseteq Node
      BY <1>1 DEF BatchTypes, Batch, Entry
    <2>3. QED BY <1>1, <2>1, <2>2
                 DEF TypeInv, TypeOK, BatchTypes, QueueTypes, RuntimeTypes, PoolTypes, Runtime
  <1>2. TypeInv => BatchTypes /\ QueueTypes /\ RuntimeTypes /\ PoolTypes /\ answers \subseteq Result
    BY DEF TypeInv, TypeOK, BatchTypes, QueueTypes, RuntimeTypes, PoolTypes, Runtime
  <1>3. QED BY <1>1, <1>2

LEMMA TypesKept ==
  ASSUME BatchTypes', QueueTypes', RuntimeTypes', PoolTypes', (answers \subseteq Result)'
  PROVE  TypeInv'
  <1>1. \A a \in answers' : Ask(a.owner, a.id, a.config) \in Task
    BY AskedType DEF Asked
  <1>2. /\ batch'.testing \in BOOLEAN /\ batch'.flushing \in BOOLEAN /\ batch'.next \in Nat
        /\ batch'.pending \in Seq([node : Node, row : Row])
        /\ batch'.slot \in [Slot -> {"measuring", "flushing", "ending", "done"}]
        /\ batch'.saving \in [Slot -> Seq([node : Node, row : Row])]
        /\ batch'.loaded \in [Slot -> [Node -> StoredRow]] /\ batch'.lost \subseteq Node
    BY DEF BatchTypes, Batch, Entry
  <1>3. QED BY <1>1, <1>2
               DEF TypeInv, TypeOK, BatchTypes, QueueTypes, RuntimeTypes, PoolTypes, Runtime

LEMMA InitTypes == Init => TypeInv
  <1> SUFFICES ASSUME Init PROVE TypeInv
    OBVIOUS
  <1> USE DEF Init
  <1>1. Unloaded \in [Node -> Row] /\ Unloaded \in [Node -> StoredRow]
    BY DEF Unloaded, Row, StoredRow
  <1>2. BatchTypes
    BY <1>1 DEF BatchTypes, Batch
  <1>3. QueueTypes
    BY DEF QueueTypes
  <1>4. RuntimeTypes
    BY DEF RuntimeTypes, Runtime, ProfileChosen
  <1>5. PoolTypes
    BY DEF PoolTypes, PingInit, PingOfTask, Ping, NoPing
  <1>6. QED BY <1>2, <1>3, <1>4, <1>5, TypeParts

(* The next node of a slot.                                                *)
LEMMA NextTarget ==
  ASSUME NEW b \in Batch, ~(b.next > Len(Targets))
  PROVE  b.next \in DOMAIN Targets /\ Targets[b.next] \in Config /\ Targets[b.next] \in Node
  BY DelayAssumption DEF Batch, Node

LEMMA ProceedTypes ==
  ASSUME NEW b \in Batch, NEW s \in Slot, QueueTypes, Proceed(s, b)
  PROVE  batch' \in Batch /\ QueueTypes'
  <1>1. b.next + 1 \in Nat \ {0}
    BY DEF Batch
  <1>2. /\ [b.slot EXCEPT ![s] = "done"] \in [Slot -> {"measuring", "flushing", "ending", "done"}]
        /\ [b.slot EXCEPT ![s] = "measuring"] \in [Slot -> {"measuring", "flushing", "ending", "done"}]
    BY DEF Batch
  <1>3. CASE b.next > Len(Targets)
    <2>1. batch' = [b EXCEPT !.slot = [b.slot EXCEPT ![s] = "done"], !.next = b.next + 1]
      BY <1>3 DEF Proceed, Batch
    <2>2. batch' \in Batch
      BY <1>1, <1>2, <2>1 DEF Batch
    <2>3. QED BY <1>3, <2>2 DEF Proceed, QueueTypes
  <1>4. CASE ~(b.next > Len(Targets))
    <2> DEFINE k == Ask("slot", s, Targets[b.next])
    <2>1. batch' = [b EXCEPT !.slot = [b.slot EXCEPT ![s] = "measuring"], !.next = b.next + 1]
      BY <1>4 DEF Proceed, Batch
    <2>2. batch' \in Batch
      BY <1>1, <1>2, <2>1 DEF Batch
    <2>3. s \in Nat
      BY DelayAssumption DEF Slot
    <2>4. k \in Task /\ k.id = s
      BY <1>4, <2>3, NextTarget, AskType
    <2>5. tasks' = Append(tasks, k)
      BY <1>4 DEF Proceed
    <2> HIDE DEF k
    <2>6. QED BY <2>2, <2>3, <2>4, <2>5 DEF QueueTypes
  <1>5. QED BY <1>3, <1>4

LEMMA LoadsType ==
  ASSUME stored \in [Node -> StoredRow], NEW l \in Loads
  PROVE  l \in [Node -> StoredRow]
  BY DEF Loads, Emptied, StoredRow

LEMMA TakeTypes ==
  ASSUME NEW b \in Batch, NEW s \in Slot, NEW l \in [Node -> StoredRow]
  PROVE  TakePending(b, s, l) \in Batch
  <1>1. /\ [b.saving EXCEPT ![s] = b.pending] \in [Slot -> Seq(Entry)]
        /\ [b.loaded EXCEPT ![s] = l] \in [Slot -> [Node -> StoredRow]]
    BY DEF Batch
  <1>2. TakePending(b, s, l) =
          [b EXCEPT !.pending = <<>>, !.saving = [b.saving EXCEPT ![s] = b.pending],
                    !.loaded = [b.loaded EXCEPT ![s] = l]]
    BY DEF TakePending, Batch
  <1>3. <<>> \in Seq(Entry)
    OBVIOUS
  <1>4. QED BY <1>1, <1>2, <1>3 DEF Batch

(* What a save adds to the results that are lost.                          *)
LostAfter(b, s, written) == IF written THEN b.lost ELSE b.lost \cup SavedNodes(s)

LEMMA AfterTypes ==
  ASSUME batch \in Batch, NEW b \in Batch, NEW s \in Slot, NEW written \in BOOLEAN
  PROVE  /\ AfterSave(b, s, written) \in Batch
         /\ AfterSave(b, s, written) =
              [b EXCEPT !.saving = [b.saving EXCEPT ![s] = <<>>],
                        !.loaded = [b.loaded EXCEPT ![s] = Unloaded],
                        !.lost = LostAfter(b, s, written)]
  <1>1. Unloaded \in [Node -> StoredRow]
    BY DEF Unloaded, Row, StoredRow
  <1>2. /\ [b.saving EXCEPT ![s] = <<>>] \in [Slot -> Seq(Entry)]
        /\ [b.loaded EXCEPT ![s] = Unloaded] \in [Slot -> [Node -> StoredRow]]
    BY <1>1 DEF Batch
  <1>3. SavedNodes(s) \subseteq Node
    <2>1. batch.saving[s] \in Seq(Entry)
      BY DEF Batch
    <2>2. \A i \in DOMAIN batch.saving[s] : batch.saving[s][i] \in Entry
      BY <2>1
    <2>3. QED BY <2>2 DEF SavedNodes, Entry
  <1>4. LostAfter(b, s, written) \in SUBSET Node
    BY <1>3 DEF LostAfter, Batch
  <1>5. AfterSave(b, s, written) =
          [b EXCEPT !.saving = [b.saving EXCEPT ![s] = <<>>],
                    !.loaded = [b.loaded EXCEPT ![s] = Unloaded],
                    !.lost = LostAfter(b, s, written)]
    BY DEF AfterSave, Batch, LostAfter
  <1>6. QED BY <1>2, <1>4, <1>5 DEF Batch

LEMMA SavedType ==
  ASSUME batch \in Batch, NEW s \in Slot
  PROVE  Saved(s) \in [Node -> StoredRow]
  <1> SUFFICES ASSUME NEW n \in Node PROVE Saved(s)[n] \in StoredRow
    BY DEF Saved
  <1> DEFINE rs == {batch.saving[s][i] : i \in DOMAIN batch.saving[s]}
  <1>1. batch.saving[s] \in Seq(Entry) /\ batch.loaded[s][n] \in StoredRow
    BY DEF Batch
  <1>2. \A r \in rs : r \in Entry
    BY <1>1
  <1>3. CASE n \in SavedNodes(s) /\ batch.loaded[s][n] # "absent"
    <2>1. (CHOOSE r \in rs : r.node = n) \in rs
      BY <1>3 DEF SavedNodes
    <2>2. QED BY <1>2, <1>3, <2>1 DEF Saved, Entry, StoredRow
  <1>4. CASE ~(n \in SavedNodes(s) /\ batch.loaded[s][n] # "absent")
    BY <1>1, <1>4 DEF Saved
  <1>5. QED BY <1>3, <1>4

(* A step of the core or of a call, between asking and returning.          *)
LEMMA PingStepTypes ==
  ASSUME TypeInv, NEW t \in Worker, PingStep(t), UNCHANGED delayVars
  PROVE  TypeInv'
  <1> USE TypeFacts DEF PoolTypes, Ping
  <1>1. ping[t].pc # "idle" /\ UNCHANGED delayVars
    BY DEF PingStep, WritePingConfig, CoreReadsFile, PingReturns
  <1>2. ping[t].port \in Port /\ ping[t].config \in Config /\ task[t] \in Task
    <2>1. /\ task[t] \in Task /\ ping[t].port = PortOf(task[t]) /\ ping[t].config = task[t].config
          /\ task[t].owner = "slot" => task[t].id \in Slot
      BY <1>1 DEF TypeInv, PingOfTask
    <2>2. PortOf(task[t]) \in Port
      BY <2>1, DelayAssumption DEF PortOf, Slot
    <2>3. QED BY <2>1, <2>2 DEF Task
  <1>3. /\ file' \in [Port -> Config \cup {NoConfig}] /\ ping' \in [Worker -> Ping]
        /\ ping'[t].pc # "idle" /\ ping'[t].port = ping[t].port /\ ping'[t].config = ping[t].config
        /\ \A u \in Worker \ {t} : ping'[u] = ping[u]
    <2>1. CASE WritePingConfig(t)
      BY <1>2, <2>1 DEF WritePingConfig
    <2>2. CASE CoreReadsFile(t)
      <3>1. file[ping[t].port] \in Config \cup {NoConfig}
        BY <1>2
      <3>2. QED BY <2>2, <3>1 DEF CoreReadsFile
    <2>3. CASE PingReturns(t)
      <3>1. PICK ok \in BOOLEAN : ping' = [ping EXCEPT ![t] = [ping[t] EXCEPT !.pc = "returned", !.ok = ok]]
        BY <2>3 DEF PingReturns
      <3>2. file' = file
        BY <2>3 DEF PingReturns
      <3>3. [ping[t] EXCEPT !.pc = "returned", !.ok = ok] \in Ping
        BY DEF Ping
      <3>4. QED BY <3>1, <3>2, <3>3
    <2>4. QED BY <2>1, <2>2, <2>3 DEF PingStep
  <1>4. task' = task
    BY DEF delayVars
  <1>5. PingOfTask'
    <2> SUFFICES ASSUME NEW u \in Worker
                 PROVE  (IF ping[u].pc = "idle" THEN task[u] = NoTask
                         ELSE /\ task[u] \in Task
                              /\ task[u].owner = "slot" => task[u].id \in Slot
                              /\ ping[u].port = PortOf(task[u]) /\ ping[u].config = task[u].config)'
      BY DEF PingOfTask
    <2>1. IF ping[u].pc = "idle" THEN task[u] = NoTask
                         ELSE /\ task[u] \in Task
                              /\ task[u].owner = "slot" => task[u].id \in Slot
                              /\ ping[u].port = PortOf(task[u]) /\ ping[u].config = task[u].config
      BY DEF TypeInv, PingOfTask
    <2>2. PortOf(task[u])' = PortOf(task[u])
      BY <1>4 DEF PortOf
    <2>3. CASE u = t
      BY <1>1, <1>3, <1>4, <2>1, <2>2, <2>3
    <2>4. CASE u # t
      BY <1>3, <1>4, <2>1, <2>2, <2>4
    <2>5. QED BY <2>3, <2>4
  <1>6. PoolTypes'
    BY <1>3, <1>4, <1>5
  <1>7. (BatchTypes /\ QueueTypes /\ RuntimeTypes /\ answers \subseteq Result)'
    BY TypeParts DEF delayVars, BatchTypes, QueueTypes, RuntimeTypes, ProfileChosen
  <1>8. QED BY <1>6, <1>7, TypesKept

LEMMA TakenTypes ==
  ASSUME QueueTypes, NEW i \in DOMAIN tasks, Taken(tasks, i, tasks')
  PROVE  QueueTypes' /\ tasks[i] \in Task /\ (tasks[i].owner = "slot" => tasks[i].id \in Slot)
  <1>1. PICK f \in [DOMAIN tasks' -> DOMAIN tasks \ {i}] : \A j \in DOMAIN tasks' : tasks'[j] = tasks[f[j]]
    BY DEF Taken
  <1>2. QED BY <1>1 DEF Taken, QueueTypes

LEMMA RunTypes ==
  ASSUME TypeInv, NEW t \in Worker, RunNativeDelayTest(t)
  PROVE  TypeInv'
  <1> DEFINE k == tasks[1]
  <1>1. Taken(tasks, 1, tasks') /\ Head(tasks) = k /\ 1 \in DOMAIN tasks
    BY TailTakes, TypeFacts DEF RunNativeDelayTest
  <1>2. QueueTypes' /\ k \in Task /\ (k.owner = "slot" => k.id \in Slot)
    BY <1>1, TakenTypes, TypeParts
  <1>3. /\ ping[t].pc = "idle" /\ file' = file /\ task' = [task EXCEPT ![t] = k]
        /\ ping' = [ping EXCEPT ![t] = [NoPing EXCEPT !.pc = "asked", !.port = PortOf(k), !.config = k.config]]
    BY <1>1 DEF RunNativeDelayTest, PingOutbound
  <1>4. PortOf(k) \in Port /\ k.config \in Config
    BY <1>2, DelayAssumption DEF PortOf, Slot, Task
  <1> HIDE DEF k
  <1>5. /\ ping' \in [Worker -> Ping] /\ task' \in [Worker -> Task \cup {NoTask}]
        /\ ping'[t].pc = "asked" /\ ping'[t].port = PortOf(k) /\ ping'[t].config = k.config
        /\ task'[t] = k /\ \A u \in Worker \ {t} : ping'[u] = ping[u] /\ task'[u] = task[u]
    BY <1>2, <1>3, <1>4, TypeFacts DEF NoPing, Ping
  <1>6. PingOfTask'
    BY <1>2, <1>5 DEF TypeInv, PingOfTask, PortOf
  <1>7. PoolTypes'
    BY <1>3, <1>5, <1>6, TypeFacts DEF PoolTypes
  <1>8. (BatchTypes /\ RuntimeTypes /\ answers \subseteq Result)'
    BY TypeParts DEF RunNativeDelayTest, BatchTypes, RuntimeTypes, ProfileChosen
  <1>9. QED BY <1>2, <1>7, <1>8, TypesKept

LEMMA OtherwiseTypes ==
  ASSUME TypeInv, MeasureOtherwise
  PROVE  TypeInv'
  <1>1. PICK i \in DOMAIN tasks, ok \in BOOLEAN :
          /\ answers' = answers \cup {Answer(tasks[i], ok, tasks[i].config)}
          /\ tasks' = RemoveAt(tasks, i)
          /\ UNCHANGED <<pingVars, batch, shown, stored, runtime, acts, task>>
    BY DEF MeasureOtherwise
  <1>2. QueueTypes' /\ tasks[i] \in Task
    BY <1>1, RemoveTakes, TakenTypes, TypeParts, TypeFacts
  <1>3. tasks[i].config \in Config
    BY <1>2 DEF Task
  <1>4. Answer(tasks[i], ok, tasks[i].config) \in Result
    BY <1>2, <1>3, AnswerType
  <1>5. (answers \subseteq Result)'
    BY <1>1, <1>4, TypeFacts
  <1>6. (BatchTypes /\ RuntimeTypes)'
    BY <1>1, TypeParts DEF BatchTypes, RuntimeTypes, ProfileChosen
  <1>7. PoolTypes'
    BY <1>1, TypeParts DEF PoolTypes, PingOfTask, PortOf, pingVars
  <1>8. QED BY <1>2, <1>5, <1>6, <1>7, TypesKept

LEMMA MeasuredTypes ==
  ASSUME TypeInv, NEW t \in Worker, Measured(t)
  PROVE  TypeInv'
  <1>1. PICK direct \in BOOLEAN :
          answers' = answers \cup
            {Answer(task[t], ping[t].ok \/ direct, IF direct THEN NoConfig ELSE ping[t].seen)}
    BY DEF Measured
  <1>2. /\ ping[t].pc = "returned" /\ ping' = [ping EXCEPT ![t] = NoPing] /\ file' = file
        /\ task' = [task EXCEPT ![t] = NoTask]
        /\ UNCHANGED <<batch, shown, stored, runtime, acts, tasks>>
    BY DEF Measured, Leave
  <1>3. task[t] \in Task /\ ping[t].seen \in Config \cup {NoConfig}
    BY <1>2, TypeFacts DEF TypeInv, PingOfTask, Ping
  <1>4. (answers \subseteq Result)'
    <2> DEFINE seen == IF direct THEN NoConfig ELSE ping[t].seen
               ok == ping[t].ok \/ direct
    <2>1. seen \in Config \cup {NoConfig} /\ ok \in BOOLEAN
      BY <1>3
    <2> HIDE DEF seen, ok
    <2>2. Answer(task[t], ok, seen) \in Result
      BY <1>3, <2>1, AnswerType
    <2>3. answers' = answers \cup {Answer(task[t], ok, seen)}
      BY <1>1 DEF ok, seen
    <2>4. QED BY <2>2, <2>3, TypeFacts
  <1>5. NoPing \in Ping /\ NoPing.pc = "idle"
    BY DEF NoPing, Ping
  <1>6. /\ ping' \in [Worker -> Ping] /\ task' \in [Worker -> Task \cup {NoTask}]
        /\ ping'[t].pc = "idle" /\ task'[t] = NoTask
        /\ \A u \in Worker \ {t} : ping'[u] = ping[u] /\ task'[u] = task[u]
    BY <1>2, <1>5, TypeFacts
  <1>7. PingOfTask'
    BY <1>6 DEF TypeInv, PingOfTask, PortOf
  <1>8. PoolTypes'
    BY <1>2, <1>6, <1>7, TypeFacts DEF PoolTypes
  <1>9. (BatchTypes /\ QueueTypes /\ RuntimeTypes)'
    BY <1>2, TypeParts DEF BatchTypes, QueueTypes, RuntimeTypes, ProfileChosen
  <1>10. QED BY <1>4, <1>8, <1>9, TypesKept

LEMMA StartBatchTypes == TypeInv /\ StartBatch => TypeInv'
  <1> SUFFICES ASSUME TypeInv, StartBatch PROVE TypeInv'
    OBVIOUS
  <1>1. [s \in Slot |-> IF s <= Len(Targets) THEN "measuring" ELSE "done"]
          \in [Slot -> {"measuring", "flushing", "ending", "done"}]
    OBVIOUS
  <1>2. Slots + 1 \in Nat \ {0}
    BY DelayAssumption
  <1>3. batch' \in Batch
    BY <1>1, <1>2, TypeFacts DEF StartBatch, Batch
  <1>4. BatchTypes'
    BY <1>3, TypeFacts DEF StartBatch, Act, BatchTypes, Row
  <1>5. tasks' = tasks \o FirstTasks
    BY DEF StartBatch, FirstTasks
  <1>6. QueueTypes'
    <2>1. tasks' \in Seq(Task) /\ Len(tasks') = Len(tasks) + Len(FirstTasks)
      BY <1>5, FirstTasksType, TypeFacts
    <2>2. ASSUME NEW i \in DOMAIN tasks', tasks'[i].owner = "slot"
          PROVE  tasks'[i].id \in Slot
      <3>1. CASE i <= Len(tasks)
        <4>1. i \in DOMAIN tasks /\ tasks'[i] = tasks[i]
          BY <1>5, <2>1, <3>1, FirstTasksType, TypeFacts
        <4>2. QED BY <2>2, <4>1 DEF TypeInv
      <3>2. CASE ~(i <= Len(tasks))
        <4>1. FirstTasks \in Seq(Task) /\ tasks \in Seq(Task)
          BY FirstTasksType, TypeFacts
        <4>2. i \in Len(tasks) + 1 .. Len(tasks) + Len(FirstTasks)
          BY <2>1, <3>2, <4>1
        <4>3. i - Len(tasks) \in DOMAIN FirstTasks /\ tasks'[i] = FirstTasks[i - Len(tasks)]
          BY <1>5, <4>1, <4>2
        <4>4. QED BY <2>2, <4>3, FirstTasksType DEF Ask
      <3>3. QED BY <3>1, <3>2
    <2>3. QED BY <2>1, <2>2 DEF QueueTypes
  <1>7. (RuntimeTypes /\ PoolTypes /\ answers \subseteq Result)'
    BY TypeParts DEF StartBatch, RuntimeTypes, ProfileChosen, PoolTypes, PingOfTask, PortOf, pingVars
  <1>8. QED BY <1>4, <1>6, <1>7, TypesKept

(* The batch with the new result, before its slot goes on.                 *)
WithResult(a) == [batch EXCEPT !.pending = Append(@, [node |-> a.config, row |-> RowOf(a)])]

(* The step of a slot whose node was measured, in two cases.               *)
Resumed(s, a) ==
  /\ a \in answers /\ a.owner = "slot" /\ a.id = s
  /\ shown' = [shown EXCEPT ![a.config] = RowOf(a)]
  /\ \/ /\ MayFlush(WithResult(a))
        /\ \E l \in Loads :
             /\ batch' = [TakePending(WithResult(a), s, l) EXCEPT !.flushing = TRUE, !.slot[s] = "flushing"]
             /\ Fails(l # stored)
        /\ UNCHANGED tasks
     \/ ~MayFlush(WithResult(a)) /\ Proceed(s, WithResult(a)) /\ UNCHANGED acts
  /\ answers' = answers \ {a}
  /\ UNCHANGED <<pingVars, stored, runtime, task>>

LEMMA ResumeSlotIsResumed ==
  ASSUME NEW s, ResumeSlot(s)
  PROVE  \E a \in answers : Resumed(s, a)
  BY DEF ResumeSlot, Resumed, WithResult

LEMMA OfRest ==
  ASSUME TypeInv, UNCHANGED <<pingVars, runtime, task>>, (answers \subseteq Result)',
         BatchTypes', QueueTypes'
  PROVE  TypeInv'
  <1>1. (RuntimeTypes /\ PoolTypes)'
    BY TypeParts DEF RuntimeTypes, ProfileChosen, PoolTypes, PingOfTask, PortOf, pingVars
  <1>2. QED BY <1>1, TypesKept

LEMMA WithResultType ==
  ASSUME TypeInv, NEW a \in answers, a.config \in Node
  PROVE  /\ WithResult(a) \in Batch
         /\ [node |-> a.config, row |-> RowOf(a)] \in Entry
  <1>1. [node |-> a.config, row |-> RowOf(a)] \in Entry
    BY RowType, TypeFacts DEF Entry
  <1>2. Append(batch.pending, [node |-> a.config, row |-> RowOf(a)]) \in Seq(Entry)
    BY <1>1, TypeFacts DEF Batch
  <1>3. QED BY <1>1, <1>2, TypeFacts DEF WithResult, Batch

(* Failures of the store are counted.                                      *)
LEMMA FailsType ==
  ASSUME TypeInv, NEW failed, Fails(failed)
  PROVE  acts' \in Nat
  BY TypeFacts DEF Fails, Act

LEMMA ResumeTypes ==
  ASSUME TypeInv, NEW s \in Slot, NEW a \in answers, a.config \in Node, Resumed(s, a)
  PROVE  TypeInv'
  <1> DEFINE b == WithResult(a)
  <1>1. b \in Batch /\ RowOf(a) \in Row
    BY WithResultType, RowType, TypeFacts
  <1>2. /\ shown' = [shown EXCEPT ![a.config] = RowOf(a)]
        /\ answers' = answers \ {a}
        /\ acts' \in Nat /\ UNCHANGED <<pingVars, stored, runtime, task>>
        /\ \/ /\ \E l \in Loads :
                   batch' = [TakePending(b, s, l) EXCEPT !.flushing = TRUE, !.slot[s] = "flushing"]
              /\ UNCHANGED tasks
           \/ Proceed(s, b)
    BY FailsType, TypeFacts DEF Resumed
  <1> HIDE DEF b
  <1>3. batch' \in Batch /\ QueueTypes'
    <2>1. ASSUME NEW l \in Loads, UNCHANGED tasks,
                 batch' = [TakePending(b, s, l) EXCEPT !.flushing = TRUE, !.slot[s] = "flushing"]
          PROVE  batch' \in Batch /\ QueueTypes'
      <3> DEFINE c == TakePending(b, s, l)
      <3>1. c \in Batch
        BY <1>1, TakeTypes, LoadsType, TypeFacts
      <3>2. batch' = [c EXCEPT !.flushing = TRUE, !.slot = [c.slot EXCEPT ![s] = "flushing"]]
        BY <2>1, <3>1 DEF Batch
      <3> HIDE DEF c
      <3>3. [c.slot EXCEPT ![s] = "flushing"] \in [Slot -> {"measuring", "flushing", "ending", "done"}]
        BY <3>1 DEF Batch
      <3>4. batch' \in Batch
        BY <3>1, <3>2, <3>3 DEF Batch
      <3>5. QED BY <2>1, <3>4, TypeParts DEF QueueTypes
    <2>2. CASE Proceed(s, b)
      BY <1>1, <2>2, ProceedTypes, TypeParts
    <2>3. QED BY <1>2, <2>1, <2>2
  <1>4. BatchTypes'
    BY <1>1, <1>2, <1>3, TypeFacts DEF BatchTypes
  <1>5. (answers \subseteq Result)'
    BY <1>2, TypeFacts
  <1>6. QED BY <1>2, <1>3, <1>4, <1>5, OfRest

LEMMA FlushEndsTypes ==
  ASSUME TypeInv, NEW s \in Slot, FlushEnds(s)
  PROVE  TypeInv'
  <1>0. PICK written \in BOOLEAN :
          /\ stored' = IF written THEN Saved(s) ELSE stored
          /\ Proceed(s, [AfterSave(batch, s, written) EXCEPT !.flushing = FALSE])
          /\ Fails(~written)
    BY DEF FlushEnds
  <1> DEFINE b == [AfterSave(batch, s, written) EXCEPT !.flushing = FALSE]
  <1>1. AfterSave(batch, s, written) \in Batch
    BY AfterTypes, TypeFacts
  <1>2. b \in Batch
    BY <1>1 DEF Batch
  <1>3. /\ stored' \in {Saved(s), stored} /\ Proceed(s, b)
        /\ acts' \in Nat /\ UNCHANGED <<pingVars, shown, runtime, task, answers>>
    BY <1>0, FailsType DEF FlushEnds
  <1> HIDE DEF b
  <1>4. batch' \in Batch /\ QueueTypes'
    BY <1>2, <1>3, ProceedTypes, TypeParts
  <1>5. BatchTypes'
    BY <1>3, <1>4, SavedType, TypeFacts DEF BatchTypes
  <1>6. QED BY <1>3, <1>4, <1>5, OfRest, TypeFacts

LEMMA FinalSaveTypes ==
  ASSUME TypeInv, FinalSave
  PROVE  TypeInv'
  <1>1. 1 \in Slot
    BY DelayAssumption DEF Slot
  <1>3. \/ batch' = [batch EXCEPT !.testing = FALSE]
        \/ \E l \in Loads :
             batch' = [TakePending(batch, 1, l) EXCEPT !.flushing = FALSE, !.slot[1] = "ending"]
    BY DEF FinalSave
  <1>4. batch' \in Batch
    <2>1. CASE batch' = [batch EXCEPT !.testing = FALSE]
      BY <2>1, TypeFacts DEF Batch
    <2>2. ASSUME NEW l \in Loads,
                 batch' = [TakePending(batch, 1, l) EXCEPT !.flushing = FALSE, !.slot[1] = "ending"]
          PROVE  batch' \in Batch
      <3> DEFINE c == TakePending(batch, 1, l)
      <3>1. c \in Batch
        BY <1>1, TakeTypes, LoadsType, TypeFacts
      <3>2. batch' = [c EXCEPT !.flushing = FALSE, !.slot = [c.slot EXCEPT ![1] = "ending"]]
        BY <2>2, <3>1 DEF Batch
      <3> HIDE DEF c
      <3>3. [c.slot EXCEPT ![1] = "ending"] \in [Slot -> {"measuring", "flushing", "ending", "done"}]
        BY <3>1 DEF Batch
      <3>4. QED BY <3>1, <3>2, <3>3 DEF Batch
    <2>3. QED BY <1>3, <2>1, <2>2
  <1>a. acts' \in Nat
    BY FailsType, TypeFacts DEF FinalSave
  <1>5. BatchTypes' /\ QueueTypes' /\ (answers \subseteq Result)'
    BY <1>4, <1>a, TypeParts, TypeFacts DEF FinalSave, BatchTypes, QueueTypes
  <1>6. QED BY <1>5, OfRest DEF FinalSave

LEMMA EndBatchTypes ==
  ASSUME TypeInv, EndBatch
  PROVE  TypeInv'
  <1>0. PICK written \in BOOLEAN :
          /\ stored' = IF written THEN Saved(1) ELSE stored
          /\ batch' = [AfterSave(batch, 1, written) EXCEPT !.testing = FALSE, !.slot[1] = "done"]
    BY DEF EndBatch
  <1> DEFINE c == AfterSave(batch, 1, written)
  <1>1. 1 \in Slot
    BY DelayAssumption DEF Slot
  <1>2. c \in Batch
    BY <1>1, AfterTypes, TypeFacts
  <1>3. batch' = [c EXCEPT !.testing = FALSE, !.slot[1] = "done"] /\ stored' \in {Saved(1), stored}
    BY <1>0
  <1> HIDE DEF c
  <1>4. batch' \in Batch
    <2>1. batch' = [c EXCEPT !.testing = FALSE, !.slot = [c.slot EXCEPT ![1] = "done"]]
      BY <1>3, <1>2 DEF Batch
    <2>2. [c.slot EXCEPT ![1] = "done"] \in [Slot -> {"measuring", "flushing", "ending", "done"}]
      BY <1>2 DEF Batch
    <2>3. QED BY <1>2, <2>1, <2>2 DEF Batch
  <1>5. stored' \in [Node -> StoredRow]
    BY <1>1, <1>3, SavedType, TypeFacts
  <1>a. acts' \in Nat
    BY FailsType DEF EndBatch
  <1>6. BatchTypes' /\ QueueTypes' /\ (answers \subseteq Result)'
    BY <1>4, <1>5, <1>a, TypeParts, TypeFacts DEF EndBatch, BatchTypes, QueueTypes
  <1>7. QED BY <1>6, OfRest DEF EndBatch

SessionActs == \/ \E config \in Config : BeginStart(config)
               \/ EndStart \/ BeginStop \/ EndStop \/ ReconcileStopped
               \/ MeasureCurrentConnectionDelay \/ ResumeSession

(* What the steps of a connection do to the queue of the pool: nothing, or *)
(* a task that no slot owns is appended.                                   *)
AsksForSession == tasks' = tasks \/ \E k \in Task : k.owner = "session" /\ tasks' = Append(tasks, k)

LEMMA SessionEffect ==
  ASSUME TypeInv, SessionActs
  PROVE  /\ RuntimeTypes' /\ AsksForSession /\ acts' \in Nat
         /\ UNCHANGED <<pingVars, batch, shown, stored, task>>
         /\ answers' = answers \/ \E a \in answers : a.owner = "session" /\ answers' = answers \ {a}
  <1> USE DEF RuntimeStep
  <1>1. /\ runtime \in Runtime /\ acts \in Nat /\ answers \subseteq Result
        /\ runtime.status = "RUNNING" \/ runtime.busy = "start" => runtime.profile \in Config
        /\ runtime.busy = "start" => runtime.status # "RUNNING"
    BY TypeFacts DEF TypeInv, ProfileChosen
  <1>2. UNCHANGED <<pingVars, batch, shown, stored, task>>
    BY DEF SessionActs, BeginStart, EndStart, BeginStop, EndStop, ReconcileStopped,
           MeasureCurrentConnectionDelay, ResumeSession
  <1>3. ASSUME NEW r \in Runtime, r.profile \in Config
        PROVE  \E k \in Task : k.owner = "session" /\ AskSession(r) = Append(tasks, k)
    <2>1. Ask("session", r.session, r.profile) \in Task
      BY <1>3, AskType DEF Runtime
    <2>2. Ask("session", r.session, r.profile).owner = "session"
      BY DEF Ask
    <2>3. QED BY <2>1, <2>2 DEF AskSession
  <1>4. CASE \E config \in Config : BeginStart(config)
    <2>1. PICK config \in Config : BeginStart(config)
      BY <1>4
    <2>2. runtime' = [runtime EXCEPT !.testing = FALSE, !.delayOf = 0, !.busy = "start", !.profile = config]
      BY <1>1, <2>1 DEF BeginStart, Reset, Runtime
    <2>a. runtime.status # "RUNNING" /\ runtime.busy = "no"
      BY <2>1 DEF BeginStart
    <2>b. runtime' \in Runtime /\ runtime'.profile = config /\ runtime'.status = runtime.status
      BY <1>1, <2>2 DEF Runtime
    <2>3. RuntimeTypes'
      BY <2>a, <2>b DEF RuntimeTypes, ProfileChosen
    <2>4. QED BY <1>1, <1>2, <2>1, <2>3 DEF BeginStart, AsksForSession
  <1>5. CASE EndStart
    <2>1. CASE /\ runtime' = [runtime EXCEPT !.busy = "no", !.status = "RUNNING",
                                            !.session = @ + 1, !.testing = TRUE]
               /\ tasks' = AskSession(runtime') /\ Act
      <3>1. runtime.session + 1 \in Nat /\ runtime.profile \in Config
        BY <1>1, <1>5 DEF Runtime, EndStart
      <3>2. runtime' = [runtime EXCEPT !.busy = "no", !.status = "RUNNING",
                                       !.session = runtime.session + 1, !.testing = TRUE]
        BY <1>1, <2>1 DEF Runtime
      <3>3. runtime' \in Runtime /\ runtime'.profile \in Config
        BY <1>1, <3>1, <3>2 DEF Runtime
      <3>4. AsksForSession
        BY <1>3, <2>1, <3>3 DEF AsksForSession
      <3>5. QED BY <1>1, <1>2, <1>5, <2>1, <3>3, <3>4 DEF RuntimeTypes, ProfileChosen, Act, EndStart
    <2>2. CASE /\ runtime' = [runtime EXCEPT !.busy = "no", !.status = "ERROR"]
               /\ UNCHANGED <<acts, tasks>>
      BY <1>1, <1>2, <1>5, <2>2 DEF RuntimeTypes, ProfileChosen, Runtime, EndStart, AsksForSession
    <2>3. QED BY <1>5, <2>1, <2>2 DEF EndStart
  <1>6. CASE BeginStop
    <2>1. runtime' = [runtime EXCEPT !.testing = FALSE, !.delayOf = 0, !.busy = "stop"]
      BY <1>1, <1>6 DEF BeginStop, Reset, Runtime
    <2>2. UNCHANGED <<acts, tasks, answers>> /\ runtime.status = "RUNNING"
      BY <1>6 DEF BeginStop
    <2>3. RuntimeTypes'
      BY <1>1, <2>1, <2>2 DEF RuntimeTypes, ProfileChosen, Runtime
    <2>4. QED BY <1>1, <1>2, <2>2, <2>3 DEF AsksForSession
  <1>7. CASE EndStop
    <2>1. PICK status \in {"IDLE", "ERROR"} :
            runtime' = [runtime EXCEPT !.busy = "no", !.status = status,
                                       !.profile = IF status = "IDLE" THEN NoConfig ELSE runtime.profile]
      BY <1>1, <1>7 DEF EndStop, Runtime
    <2>2. QED BY <1>1, <1>2, <1>7, <2>1 DEF EndStop, RuntimeTypes, ProfileChosen, Runtime, AsksForSession
  <1>8. CASE ReconcileStopped
    <2>1. runtime' = [runtime EXCEPT !.testing = FALSE, !.delayOf = 0, !.status = "IDLE",
                                     !.profile = NoConfig]
      BY <1>1, <1>8 DEF ReconcileStopped, Reset, Runtime
    <2>2. UNCHANGED <<acts, tasks, answers>> /\ runtime.status = "RUNNING"
      BY <1>8 DEF ReconcileStopped
    <2>3. RuntimeTypes'
      BY <1>1, <2>1, <2>2 DEF RuntimeTypes, ProfileChosen, Runtime
    <2>4. QED BY <1>1, <1>2, <2>2, <2>3 DEF AsksForSession
  <1>9. CASE MeasureCurrentConnectionDelay
    <2>1. runtime' = [runtime EXCEPT !.testing = TRUE] /\ tasks' = AskSession(runtime)
          /\ runtime.profile \in Config /\ Act /\ UNCHANGED answers
      BY <1>1, <1>9 DEF MeasureCurrentConnectionDelay
    <2>2. AsksForSession
      BY <1>1, <1>3, <2>1 DEF AsksForSession
    <2>3. RuntimeTypes'
      BY <1>1, <2>1 DEF RuntimeTypes, ProfileChosen, Runtime
    <2>4. acts' \in Nat
      BY <1>1, <2>1 DEF Act
    <2>5. QED BY <1>2, <2>1, <2>2, <2>3, <2>4
  <1>10. CASE ResumeSession
    <2>1. PICK a \in answers :
            /\ a.owner = "session"
            /\ runtime' = IF SameSession(a)
                          THEN [runtime EXCEPT !.testing = FALSE, !.delayOf = IF a.ok THEN a.id ELSE 0]
                          ELSE runtime
            /\ answers' = answers \ {a} /\ UNCHANGED acts /\ UNCHANGED tasks
      BY <1>10 DEF ResumeSession
    <2> DEFINE delay == IF a.ok THEN a.id ELSE 0
    <2>2. delay \in Nat
      BY <1>1 DEF Result
    <2> HIDE DEF delay
    <2>3. runtime' = runtime \/ runtime' = [runtime EXCEPT !.testing = FALSE, !.delayOf = delay]
      BY <2>1 DEF delay
    <2>4. RuntimeTypes'
      BY <1>1, <2>2, <2>3 DEF RuntimeTypes, ProfileChosen, Runtime
    <2>5. QED BY <1>1, <1>2, <2>1, <2>4 DEF AsksForSession
  <1>11. QED BY <1>4, <1>5, <1>6, <1>7, <1>8, <1>9, <1>10 DEF SessionActs

LEMMA SessionTypes ==
  ASSUME TypeInv, SessionActs
  PROVE  TypeInv'
  <1>1. QueueTypes'
    <2>1. CASE tasks' = tasks
      BY <2>1, TypeParts DEF QueueTypes
    <2>2. CASE \E k \in Task : k.owner = "session" /\ tasks' = Append(tasks, k)
      BY <2>2, TypeParts DEF QueueTypes
    <2>3. QED BY <2>1, <2>2, SessionEffect DEF AsksForSession
  <1>2. UNCHANGED <<pingVars, batch, shown, stored, task>> /\ acts' \in Nat /\ RuntimeTypes'
    BY SessionEffect
  <1>3. BatchTypes'
    BY <1>2, TypeFacts DEF BatchTypes
  <1>4. (answers \subseteq Result)'
    BY SessionEffect, TypeFacts
  <1>5. PoolTypes'
    BY <1>2, TypeParts DEF PoolTypes, PingOfTask, PortOf, pingVars
  <1>6. QED BY <1>1, <1>2, <1>3, <1>4, <1>5, TypesKept

-----------------------------------------------------------------------------
(* Where the tasks of the slots are: a task moves from the queue to a      *)
(* thread and to its answer, and only a batch adds or ends one.            *)

SlotTasks == OneTask /\ HeldBySlot

LEMMA HeldPlaces ==
  ASSUME TypeInv
  PROVE  /\ \A k : k \in Held <=>
              /\ k # NoTask /\ k.owner = "slot"
              /\ \/ \E i \in DOMAIN tasks : k = tasks[i]
                 \/ \E t \in Worker : k = task[t]
                 \/ \E a \in answers : k = Asked(a)
         /\ \A i \in DOMAIN tasks : tasks[i].owner = "slot" => tasks[i] \in Held
         /\ \A t \in Worker : task[t] # NoTask /\ task[t].owner = "slot" => task[t] \in Held
         /\ \A a \in answers : a.owner = "slot" => Asked(a) \in Held
         /\ \A k \in Held : k \in Task
  <1>1. \A k : k \in Held <=>
              /\ k # NoTask /\ k.owner = "slot"
              /\ \/ \E i \in DOMAIN tasks : k = tasks[i]
                 \/ \E t \in Worker : k = task[t]
                 \/ \E a \in answers : k = Asked(a)
    BY Zenon DEF Held, Work
  <1>2. \A i \in DOMAIN tasks : tasks[i] \in Task
    BY TypeFacts
  <1>3. \A t \in Worker : task[t] # NoTask => task[t] \in Task
    BY TypeFacts
  <1>4. \A a \in answers : Asked(a) \in Task /\ Asked(a).owner = a.owner
    BY TypeFacts, AskedType
  <1>5. QED BY <1>1, <1>2, <1>3, <1>4, NoTaskIsNone

(* The same of the next state.                                             *)
LEMMA HeldPlacesNext ==
  ASSUME TypeInv'
  PROVE  /\ \A k : k \in Held' <=>
              /\ k # NoTask /\ k.owner = "slot"
              /\ \/ \E i \in DOMAIN tasks' : k = tasks'[i]
                 \/ \E t \in Worker : k = task'[t]
                 \/ \E a \in answers' : k = Asked(a)
         /\ \A k \in Held' : k \in Task
  <1>1. /\ tasks' \in Seq(Task) /\ task' \in [Worker -> Task \cup {NoTask}]
        /\ answers' \subseteq Result
    <2>1. /\ tasks' \in Seq(Task) /\ task' \in [Worker -> Task \cup {NoTask}]
      BY DEF TypeInv, TypeOK
    <2>2. QED BY <2>1 DEF TypeInv
  <1>2. \A k : k \in Held' <=>
              /\ k # NoTask /\ k.owner = "slot"
              /\ \/ \E i \in DOMAIN tasks' : k = tasks'[i]
                 \/ \E t \in Worker : k = task'[t]
                 \/ \E a \in answers' : k = Asked(a)
    BY Zenon DEF Held, Work, Asked
  <1>3. \A i \in DOMAIN tasks' : tasks'[i] \in Task
    BY <1>1
  <1>4. \A t \in Worker : task'[t] # NoTask => task'[t] \in Task
    BY <1>1
  <1>5. \A a \in answers' : Asked(a) \in Task
    BY <1>1, AskedType
  <1>6. QED BY <1>2, <1>3, <1>4, <1>5

LEMMA RunMoves ==
  ASSUME TypeInv, OneTask, NEW t \in Worker, RunNativeDelayTest(t)
  PROVE  OneTask' /\ Held' = Held
  <1>1. /\ Taken(tasks, 1, tasks') /\ Head(tasks) = tasks[1] /\ 1 \in DOMAIN tasks
    BY TailTakes, TypeFacts DEF RunNativeDelayTest
  <1>2. PICK f \in [DOMAIN tasks' -> DOMAIN tasks \ {1}] :
          /\ \A j \in DOMAIN tasks' : tasks'[j] = tasks[f[j]]
          /\ \A j, l \in DOMAIN tasks' : f[j] = f[l] => j = l
          /\ \A h \in DOMAIN tasks \ {1} : \E j \in DOMAIN tasks' : f[j] = h
    BY <1>1 DEF Taken
  <1>3. /\ task[t] = NoTask /\ answers' = answers
        /\ task' = [task EXCEPT ![t] = tasks[1]]
    BY <1>1 DEF RunNativeDelayTest, PingOutbound, TypeInv, PingOfTask
  <1>4. /\ task'[t] = tasks[1] /\ \A u \in Worker \ {t} : task'[u] = task[u]
    BY <1>3, TypeFacts
  <1>5. ASSUME NEW s \in Slot
        PROVE  /\ \A j, l \in DOMAIN tasks' : (Queued(j, s) /\ Queued(l, s))' => j = l
               /\ \A u, v \in Worker : (Running(u, s) /\ Running(v, s))' => u = v
               /\ \A a, b \in answers' : (Answered(a, s) /\ Answered(b, s))' => a = b
               /\ \A j \in DOMAIN tasks', u \in Worker : ~(Queued(j, s) /\ Running(u, s))'
               /\ \A j \in DOMAIN tasks', a \in answers' : ~(Queued(j, s) /\ Answered(a, s))'
               /\ \A u \in Worker, a \in answers' : ~(Running(u, s) /\ Answered(a, s))'
    <2>1. \A j \in DOMAIN tasks' : Queued(j, s)' => Queued(f[j], s) /\ f[j] \in DOMAIN tasks
      BY <1>2 DEF Queued
    <2>2. \A u \in Worker : Running(u, s)' => IF u = t THEN Queued(1, s) ELSE Running(u, s)
      BY <1>1, <1>4 DEF Running, Queued
    <2>3. \A a \in answers' : Answered(a, s)' => Answered(a, s) /\ a \in answers
      BY <1>3 DEF Answered
    <2>4. \A i, j \in DOMAIN tasks : Queued(i, s) /\ Queued(j, s) => i = j
      BY DEF OneTask
    <2>5. \A i, j \in DOMAIN tasks, u \in Worker : Queued(i, s) => ~Running(u, s)
      BY DEF OneTask
    <2>6. QED BY <1>1, <1>2, <2>1, <2>2, <2>3, <2>4, <2>5 DEF OneTask
  <1>6. OneTask'
    BY <1>5 DEF OneTask
  <1>7. ASSUME NEW k
        PROVE  k \in Held' <=> k \in Held
    <2>1. (\E h \in DOMAIN tasks : k = tasks[h]) <=>
            k = tasks[1] \/ \E j \in DOMAIN tasks' : k = tasks'[j]
      BY <1>1, TakenItems
    <2>2. k # NoTask =>
            ((\E u \in Worker : k = task'[u]) <=> k = tasks[1] \/ \E u \in Worker : k = task[u])
      BY <1>3, <1>4
    <2>3. TypeInv'
      BY RunTypes
    <2>4. QED BY <1>3, <2>1, <2>2, <2>3, HeldPlaces, HeldPlacesNext
  <1>8. QED BY <1>6, <1>7

LEMMA OtherwiseMoves ==
  ASSUME TypeInv, OneTask, MeasureOtherwise
  PROVE  OneTask' /\ Held' = Held
  <1>1. PICK i \in DOMAIN tasks, ok \in BOOLEAN :
          /\ answers' = answers \cup {Answer(tasks[i], ok, tasks[i].config)}
          /\ tasks' = RemoveAt(tasks, i)
          /\ task' = task
    BY DEF MeasureOtherwise
  <1> DEFINE c == Answer(tasks[i], ok, tasks[i].config)
  <1>2. Taken(tasks, i, tasks') /\ tasks[i] \in Task
    BY <1>1, RemoveTakes, TypeFacts
  <1>3. Asked(c) = tasks[i] /\ c.owner = tasks[i].owner /\ c.id = tasks[i].id
    <2>1. tasks[i].config \in Config
      BY <1>2 DEF Task
    <2>2. QED BY <1>2, <2>1, AnswerType
  <1>4. answers' = answers \cup {c}
    BY <1>1
  <1> HIDE DEF c
  <1>5. PICK f \in [DOMAIN tasks' -> DOMAIN tasks \ {i}] :
          /\ \A j \in DOMAIN tasks' : tasks'[j] = tasks[f[j]]
          /\ \A j, l \in DOMAIN tasks' : f[j] = f[l] => j = l
    BY <1>2 DEF Taken
  <1>6. ASSUME NEW s \in Slot
        PROVE  /\ \A j, l \in DOMAIN tasks' : (Queued(j, s) /\ Queued(l, s))' => j = l
               /\ \A u, v \in Worker : (Running(u, s) /\ Running(v, s))' => u = v
               /\ \A a, b \in answers' : (Answered(a, s) /\ Answered(b, s))' => a = b
               /\ \A j \in DOMAIN tasks', u \in Worker : ~(Queued(j, s) /\ Running(u, s))'
               /\ \A j \in DOMAIN tasks', a \in answers' : ~(Queued(j, s) /\ Answered(a, s))'
               /\ \A u \in Worker, a \in answers' : ~(Running(u, s) /\ Answered(a, s))'
    <2>1. \A j \in DOMAIN tasks' : Queued(j, s)' => Queued(f[j], s) /\ f[j] \in DOMAIN tasks
      BY <1>5 DEF Queued
    <2>2. \A u \in Worker : Running(u, s)' => Running(u, s)
      BY <1>1 DEF Running
    <2>3. \A a \in answers' : Answered(a, s)' =>
            (a = c /\ Queued(i, s)) \/ (Answered(a, s) /\ a \in answers)
      BY <1>3, <1>4 DEF Answered, Queued
    <2>4. \A g, j \in DOMAIN tasks : Queued(g, s) /\ Queued(j, s) => g = j
      BY DEF OneTask
    <2>5. \A g \in DOMAIN tasks, a \in answers : Queued(g, s) => ~Answered(a, s)
      BY DEF OneTask
    <2>6. QED BY <1>5, <2>1, <2>2, <2>3, <2>4, <2>5 DEF OneTask
  <1>7. OneTask'
    BY <1>6 DEF OneTask
  <1>8. ASSUME NEW k
        PROVE  k \in Held' <=> k \in Held
    <2>1. (\E h \in DOMAIN tasks : k = tasks[h]) <=>
            k = tasks[i] \/ \E j \in DOMAIN tasks' : k = tasks'[j]
      BY <1>2, TakenItems
    <2>2. (\E a \in answers' : k = Asked(a)) <=> k = tasks[i] \/ \E a \in answers : k = Asked(a)
      BY <1>3, <1>4
    <2>3. TypeInv'
      BY OtherwiseTypes
    <2>4. QED BY <1>1, <2>1, <2>2, <2>3, HeldPlaces, HeldPlacesNext
  <1>9. QED BY <1>7, <1>8

LEMMA MeasuredMoves ==
  ASSUME TypeInv, OneTask, NEW t \in Worker, Measured(t)
  PROVE  OneTask' /\ Held' = Held
  <1>1. PICK direct \in BOOLEAN :
          answers' = answers \cup
            {Answer(task[t], ping[t].ok \/ direct, IF direct THEN NoConfig ELSE ping[t].seen)}
    BY DEF Measured
  <1> DEFINE seen == IF direct THEN NoConfig ELSE ping[t].seen
             ok == ping[t].ok \/ direct
             c == Answer(task[t], ok, seen)
  <1>2. /\ ping[t].pc = "returned" /\ tasks' = tasks /\ task' = [task EXCEPT ![t] = NoTask]
    BY DEF Measured, Leave
  <1>3. task[t] \in Task /\ ping[t].seen \in Config \cup {NoConfig} /\ ping[t].ok \in BOOLEAN
    BY <1>2, TypeFacts DEF TypeInv, PingOfTask, Ping
  <1>4. Asked(c) = task[t] /\ c.owner = task[t].owner /\ c.id = task[t].id
    <2>1. seen \in Config \cup {NoConfig} /\ ok \in BOOLEAN
      BY <1>3
    <2> HIDE DEF seen, ok
    <2>2. QED BY <1>3, <2>1, AnswerType
  <1>5. answers' = answers \cup {c}
    BY <1>1
  <1> HIDE DEF c
  <1>6. task'[t] = NoTask /\ \A u \in Worker \ {t} : task'[u] = task[u]
    BY <1>2, TypeFacts
  <1>7. ASSUME NEW s \in Slot
        PROVE  /\ \A j, l \in DOMAIN tasks' : (Queued(j, s) /\ Queued(l, s))' => j = l
               /\ \A u, v \in Worker : (Running(u, s) /\ Running(v, s))' => u = v
               /\ \A a, b \in answers' : (Answered(a, s) /\ Answered(b, s))' => a = b
               /\ \A j \in DOMAIN tasks', u \in Worker : ~(Queued(j, s) /\ Running(u, s))'
               /\ \A j \in DOMAIN tasks', a \in answers' : ~(Queued(j, s) /\ Answered(a, s))'
               /\ \A u \in Worker, a \in answers' : ~(Running(u, s) /\ Answered(a, s))'
    <2>1. \A j \in DOMAIN tasks' : Queued(j, s)' => Queued(j, s) /\ j \in DOMAIN tasks
      BY <1>2 DEF Queued
    <2>2. \A u \in Worker : Running(u, s)' => Running(u, s) /\ u # t
      <3>1. s # 0
        BY DelayAssumption DEF Slot
      <3>2. QED BY <1>6, <3>1, NoTaskIsNone DEF Running
    <2>3. \A a \in answers' : Answered(a, s)' =>
            (a = c /\ Running(t, s)) \/ (Answered(a, s) /\ a \in answers)
      BY <1>4, <1>5 DEF Answered, Running
    <2>4. QED BY <2>1, <2>2, <2>3 DEF OneTask
  <1>8. OneTask'
    BY <1>7 DEF OneTask
  <1>9. ASSUME NEW k
        PROVE  k \in Held' <=> k \in Held
    <2>1. k # NoTask =>
            ((\E u \in Worker : k = task[u]) <=> k = task[t] \/ \E u \in Worker : k = task'[u])
      BY <1>6
    <2>2. (\E a \in answers' : k = Asked(a)) <=> k = task[t] \/ \E a \in answers : k = Asked(a)
      BY <1>4, <1>5
    <2>3. TypeInv'
      BY MeasuredTypes
    <2>4. QED BY <1>2, <2>1, <2>2, <2>3, HeldPlaces, HeldPlacesNext
  <1>10. QED BY <1>8, <1>9

(* Neither a call under way nor a connection touches the tasks of a slot.  *)
LEMMA PingStepMoves ==
  ASSUME TypeInv, OneTask, UNCHANGED <<tasks, task, answers>>
  PROVE  OneTask' /\ Held' = Held
  BY DEF OneTask, Queued, Running, Answered, Held, Work, Asked

LEMMA SessionMoves ==
  ASSUME TypeInv, OneTask, SessionActs
  PROVE  OneTask' /\ Held' = Held
  <1>1. task' = task /\ TypeInv'
    BY SessionEffect, SessionTypes
  <1>2. \A a : a.owner = "slot" => (a \in answers' <=> a \in answers)
    BY SessionEffect
  <1>3. \A k : k.owner = "slot" =>
          ((\E j \in DOMAIN tasks' : k = tasks'[j]) <=> \E j \in DOMAIN tasks : k = tasks[j])
    <2>1. CASE tasks' = tasks
      BY <2>1
    <2>2. CASE \E q \in Task : q.owner = "session" /\ tasks' = Append(tasks, q)
      <3>1. PICK q \in Task : q.owner = "session" /\ tasks' = Append(tasks, q)
        BY <2>2
      <3>2. /\ \A j \in DOMAIN tasks : j \in DOMAIN tasks' /\ tasks'[j] = tasks[j]
            /\ \A j \in DOMAIN tasks' : j \in DOMAIN tasks \/ tasks'[j] = q
        BY <3>1, TypeFacts
      <3>3. QED BY <3>1, <3>2
    <2>3. QED BY <2>1, <2>2, SessionEffect DEF AsksForSession
  <1>4. \A j \in DOMAIN tasks', s \in Slot : Queued(j, s)' => Queued(j, s) /\ j \in DOMAIN tasks
    <2>1. CASE tasks' = tasks
      BY <2>1 DEF Queued
    <2>2. CASE \E q \in Task : q.owner = "session" /\ tasks' = Append(tasks, q)
      BY <2>2, TypeFacts DEF Queued
    <2>3. QED BY <2>1, <2>2, SessionEffect DEF AsksForSession
  <1>5. \A a \in answers', s \in Slot : Answered(a, s)' => Answered(a, s) /\ a \in answers
    BY <1>2 DEF Answered
  <1>6. \A u \in Worker, s \in Slot : Running(u, s)' => Running(u, s)
    BY <1>1 DEF Running
  <1>7. OneTask'
    BY <1>4, <1>5, <1>6 DEF OneTask
  <1>8. ASSUME NEW k
        PROVE  k \in Held' <=> k \in Held
    <2>1. k.owner = "slot" => ((\E a \in answers' : k = Asked(a)) <=> \E a \in answers : k = Asked(a))
      <3>1. answers' \subseteq Result /\ answers \subseteq Result
        BY <1>1, TypeFacts DEF TypeInv
      <3>2. \A a \in answers \cup answers' : Asked(a).owner = a.owner
        BY <3>1, AskedType
      <3>3. QED BY <1>2, <3>2
    <2>2. QED BY <1>1, <1>3, <2>1, HeldPlaces, HeldPlacesNext
  <1>9. QED BY <1>7, <1>8

(* The slot s goes on: its answer is taken, and it may have a next task.   *)
NothingFor(s) ==
  /\ \A i \in DOMAIN tasks : ~Queued(i, s)
  /\ \A t \in Worker : ~Running(t, s)

LEMMA OnlyAnswered ==
  ASSUME TypeInv, OneTask, NEW s \in Slot, NEW a \in answers, Answered(a, s)
  PROVE  NothingFor(s) /\ answers \ {a} = {b \in answers : ~Answered(b, s)}
  BY DEF OneTask, NothingFor

LEMMA SlotRests ==
  ASSUME TypeInv, TypeInv', OneTask, NEW s \in Slot, NothingFor(s),
         answers' = {b \in answers : ~Answered(b, s)}, task' = task, tasks' = tasks
  PROVE  OneTask' /\ Held' = {k \in Held : k.id # s}
  <1>1. OneTask'
    BY DEF OneTask, Queued, Running, Answered
  <1>2. ASSUME NEW k
        PROVE  k \in Held' <=> k \in Held /\ k.id # s
    <2>1. \A b \in answers : Asked(b).owner = b.owner /\ Asked(b).id = b.id
      BY TypeFacts, AskedType
    <2>2. k.owner = "slot" =>
            ((\E b \in answers' : k = Asked(b)) <=> k.id # s /\ \E b \in answers : k = Asked(b))
      BY <2>1 DEF Answered
    <2>3. k.owner = "slot" /\ (\E i \in DOMAIN tasks : k = tasks[i]) => k.id # s
      BY DEF NothingFor, Queued
    <2>4. k.owner = "slot" /\ (\E t \in Worker : k = task[t]) => k.id # s
      BY DEF NothingFor, Running
    <2>5. QED BY <2>2, <2>3, <2>4, HeldPlaces, HeldPlacesNext
  <1>3. QED BY <1>1, <1>2

LEMMA SlotAsks ==
  ASSUME TypeInv, TypeInv', OneTask, NEW s \in Slot, NothingFor(s),
         answers' = {b \in answers : ~Answered(b, s)}, task' = task,
         NEW q \in Task, q.owner = "slot", q.id = s, tasks' = Append(tasks, q)
  PROVE  OneTask' /\ Held' = {k \in Held : k.id # s} \cup {q}
  <1>1. /\ \A j \in DOMAIN tasks : j \in DOMAIN tasks' /\ tasks'[j] = tasks[j]
        /\ \A j \in DOMAIN tasks' : j \in DOMAIN tasks \/ (tasks'[j] = q /\ j = Len(tasks) + 1)
        /\ Len(tasks) + 1 \in DOMAIN tasks' /\ tasks'[Len(tasks) + 1] = q
    BY TypeFacts
  <1>2. OneTask'
    <2> SUFFICES ASSUME NEW r \in Slot
        PROVE  /\ \A j, l \in DOMAIN tasks' : (Queued(j, r) /\ Queued(l, r))' => j = l
               /\ \A u, v \in Worker : (Running(u, r) /\ Running(v, r))' => u = v
               /\ \A a, b \in answers' : (Answered(a, r) /\ Answered(b, r))' => a = b
               /\ \A j \in DOMAIN tasks', u \in Worker : ~(Queued(j, r) /\ Running(u, r))'
               /\ \A j \in DOMAIN tasks', a \in answers' : ~(Queued(j, r) /\ Answered(a, r))'
               /\ \A u \in Worker, a \in answers' : ~(Running(u, r) /\ Answered(a, r))'
      BY DEF OneTask
    <2>1. \A j \in DOMAIN tasks' : Queued(j, r)' =>
            (j \in DOMAIN tasks /\ Queued(j, r)) \/ (r = s /\ j = Len(tasks) + 1)
      BY <1>1 DEF Queued
    <2>2. \A u \in Worker : Running(u, r)' => Running(u, r)
      BY DEF Running
    <2>3. \A a \in answers' : Answered(a, r)' => Answered(a, r) /\ a \in answers /\ r # s
      BY DEF Answered
    <2>4. QED BY <2>1, <2>2, <2>3 DEF OneTask, NothingFor
  <1>3. ASSUME NEW k
        PROVE  k \in Held' <=> (k \in Held /\ k.id # s) \/ k = q
    <2>1. \A b \in answers : Asked(b).owner = b.owner /\ Asked(b).id = b.id
      BY TypeFacts, AskedType
    <2>2. k.owner = "slot" =>
            ((\E b \in answers' : k = Asked(b)) <=> k.id # s /\ \E b \in answers : k = Asked(b))
      BY <2>1 DEF Answered
    <2>3. k.owner = "slot" /\ (\E i \in DOMAIN tasks : k = tasks[i]) => k.id # s
      BY DEF NothingFor, Queued
    <2>4. k.owner = "slot" /\ (\E t \in Worker : k = task[t]) => k.id # s
      BY DEF NothingFor, Running
    <2>5. (\E i \in DOMAIN tasks' : k = tasks'[i]) <=> k = q \/ \E i \in DOMAIN tasks : k = tasks[i]
      BY <1>1
    <2>6. q # NoTask
      BY NoTaskIsNone
    <2>7. QED BY <2>2, <2>3, <2>4, <2>5, <2>6, HeldPlaces, HeldPlacesNext
  <1>4. QED BY <1>2, <1>3

LEMMA BatchAsks ==
  ASSUME TypeInv, TypeInv', Held = {}, tasks' = tasks \o FirstTasks, UNCHANGED <<task, answers>>
  PROVE  OneTask' /\ Held' = {Ask("slot", s, Targets[s]) : s \in Slot \cap DOMAIN Targets}
  <1> DEFINE n == Len(tasks)
  <1>1. /\ n \in Nat /\ DOMAIN tasks = 1..n
        /\ tasks \in Seq(Task) /\ FirstTasks \in Seq(Task)
    BY TypeFacts, FirstTasksType
  <1> HIDE DEF n
  <1>2. \A j \in DOMAIN tasks : j \in DOMAIN tasks' /\ tasks'[j] = tasks[j]
    BY <1>1 DEF n
  <1>3. \A j \in DOMAIN tasks' :
          j \in DOMAIN tasks \/ (j - n \in DOMAIN FirstTasks /\ tasks'[j] = FirstTasks[j - n] /\ j \in Int)
    BY <1>1 DEF n
  <1>4. \A s \in DOMAIN FirstTasks : n + s \in DOMAIN tasks' /\ tasks'[n + s] = FirstTasks[s]
    BY <1>1 DEF n
  <1>5. \A s \in DOMAIN FirstTasks :
          /\ FirstTasks[s] = Ask("slot", s, Targets[s])
          /\ FirstTasks[s].owner = "slot" /\ FirstTasks[s].id = s /\ FirstTasks[s] # NoTask
    <2> SUFFICES ASSUME NEW s \in DOMAIN FirstTasks
        PROVE  /\ FirstTasks[s] = Ask("slot", s, Targets[s])
               /\ FirstTasks[s].owner = "slot" /\ FirstTasks[s].id = s /\ FirstTasks[s] # NoTask
      OBVIOUS
    <2>1. FirstTasks[s] = Ask("slot", s, Targets[s])
      BY FirstTasksType
    <2>2. FirstTasks[s] \in Task
      BY <1>1
    <2>3. QED BY <2>1, <2>2, NoTaskIsNone DEF Ask
  <1>6. /\ \A i \in DOMAIN tasks, s \in Slot : ~Queued(i, s)
        /\ \A t \in Worker, s \in Slot : ~Running(t, s)
        /\ \A a \in answers, s \in Slot : ~Answered(a, s)
    <2>1. \A s \in Slot : s # 0
      BY DelayAssumption DEF Slot
    <2>2. QED BY <2>1, HeldPlaces, NoTaskIsNone DEF Queued, Running, Answered
  <1>7. OneTask'
    <2> SUFFICES ASSUME NEW r \in Slot
        PROVE  /\ \A j, l \in DOMAIN tasks' : (Queued(j, r) /\ Queued(l, r))' => j = l
               /\ \A u, v \in Worker : (Running(u, r) /\ Running(v, r))' => u = v
               /\ \A a, b \in answers' : (Answered(a, r) /\ Answered(b, r))' => a = b
               /\ \A j \in DOMAIN tasks', u \in Worker : ~(Queued(j, r) /\ Running(u, r))'
               /\ \A j \in DOMAIN tasks', a \in answers' : ~(Queued(j, r) /\ Answered(a, r))'
               /\ \A u \in Worker, a \in answers' : ~(Running(u, r) /\ Answered(a, r))'
      BY DEF OneTask
    <2>1. ASSUME NEW j \in DOMAIN tasks', Queued(j, r)'
          PROVE  j = n + r
      <3>1. tasks'[j].owner = "slot" /\ tasks'[j].id = r
        BY <2>1 DEF Queued
      <3>2. j \notin DOMAIN tasks
        BY <1>2, <1>6, <3>1 DEF Queued
      <3>3. j - n = r
        BY <1>3, <1>5, <3>1, <3>2
      <3>4. QED BY <1>1, <1>3, <3>2, <3>3
    <2>2. \A u \in Worker : ~Running(u, r)'
      BY <1>6 DEF Running
    <2>3. \A a \in answers' : ~Answered(a, r)'
      BY <1>6 DEF Answered
    <2>4. QED BY <2>1, <2>2, <2>3
  <1>8. ASSUME NEW k
        PROVE  k \in Held' <=> \E s \in DOMAIN FirstTasks : k = FirstTasks[s]
    <2>1. (\E j \in DOMAIN tasks' : k = tasks'[j]) <=>
             (\E j \in DOMAIN tasks : k = tasks[j]) \/ \E s \in DOMAIN FirstTasks : k = FirstTasks[s]
      <3>1. ASSUME NEW s \in DOMAIN FirstTasks, k = FirstTasks[s]
            PROVE  \E j \in DOMAIN tasks' : k = tasks'[j]
        BY <1>4, <3>1
      <3>2. ASSUME NEW j \in DOMAIN tasks, k = tasks[j]
            PROVE  \E h \in DOMAIN tasks' : k = tasks'[h]
        BY <1>2, <3>2
      <3>3. ASSUME NEW j \in DOMAIN tasks', k = tasks'[j], j \notin DOMAIN tasks
            PROVE  \E s \in DOMAIN FirstTasks : k = FirstTasks[s]
        BY <1>3, <3>3
      <3>4. ASSUME NEW j \in DOMAIN tasks', k = tasks'[j], j \in DOMAIN tasks
            PROVE  \E h \in DOMAIN tasks : k = tasks[h]
        BY <1>2, <3>4
      <3>5. QED BY <3>1, <3>2, <3>3, <3>4
    <2>2. k \notin Held
      OBVIOUS
    <2>3. QED BY <1>5, <2>1, <2>2, HeldPlaces, HeldPlacesNext
  <1>9. QED BY <1>5, <1>7, <1>8, FirstTasksType

LEMMA HeldUnique ==
  ASSUME TypeInv, OneTask, NEW k \in Held, NEW l \in Held, k.id \in Slot, k.id = l.id
  PROVE  k = l
  <1> DEFINE s == k.id
  <1>1. \A b \in answers : Asked(b).owner = b.owner /\ Asked(b).id = b.id
    BY TypeFacts, AskedType
  <1>2. ASSUME NEW m \in Held, m.id = s
        PROVE  \/ \E i \in DOMAIN tasks : m = tasks[i] /\ Queued(i, s)
               \/ \E t \in Worker : m = task[t] /\ Running(t, s)
               \/ \E a \in answers : m = Asked(a) /\ Answered(a, s)
    BY <1>1, <1>2, HeldPlaces DEF Queued, Running, Answered
  <1>3. s \in Slot
    OBVIOUS
  <1>4. /\ \/ \E i \in DOMAIN tasks : k = tasks[i] /\ Queued(i, s)
           \/ \E t \in Worker : k = task[t] /\ Running(t, s)
           \/ \E a \in answers : k = Asked(a) /\ Answered(a, s)
        /\ \/ \E i \in DOMAIN tasks : l = tasks[i] /\ Queued(i, s)
           \/ \E t \in Worker : l = task[t] /\ Running(t, s)
           \/ \E a \in answers : l = Asked(a) /\ Answered(a, s)
    BY <1>2
  <1> HIDE DEF s
  <1>5. QED BY <1>3, <1>4 DEF OneTask

-----------------------------------------------------------------------------
(* Rows show their own node.                                               *)

(* What calls and answers hold, apart from the batch.                      *)
Own == OwnFile /\ OwnAnswer

LEMMA InitOwn == Init => OwnInv
  <1> SUFFICES ASSUME Init PROVE OwnInv
    OBVIOUS
  <1>1. /\ tasks = <<>> /\ task = [t \in Worker |-> NoTask] /\ answers = {}
        /\ ping = [t \in Worker |-> NoPing] /\ shown = Unloaded
        /\ ~batch.testing /\ batch.pending = <<>> /\ batch.slot = [s \in Slot |-> "done"]
    BY DEF Init, PingInit
  <1>2. \A s \in Slot : s # 0
    BY DelayAssumption DEF Slot
  <1>3. OneTask
    BY <1>1, <1>2, NoTaskIsNone DEF OneTask, Queued, Running, Answered
  <1>4. Held = {}
    BY <1>1 DEF Held, Work
  <1>5. HeldBySlot /\ SlotsOfBatch
    BY <1>1, <1>4 DEF HeldBySlot, SlotsOfBatch
  <1>6. OwnFile /\ OwnAnswer
    BY <1>1 DEF OwnFile, OwnAnswer, NoPing
  <1>7. OwnRows
    BY <1>1 DEF OwnRows, Unloaded
  <1>8. QED BY <1>3, <1>5, <1>6, <1>7 DEF OwnInv

(* The ports of two calls that run at once differ, unless neither is of a  *)
(* slot.                                                                   *)
LEMMA PortsDiffer ==
  ASSUME TypeInv, OneTask, NEW t \in Worker, NEW u \in Worker, t # u,
         ping[t].pc # "idle", ping[u].pc # "idle", task[u].owner = "slot"
  PROVE  ping[t].port # ping[u].port
  <1>1. /\ task[u].id \in Slot /\ ping[u].port = BatchPort[task[u].id]
        /\ ping[t].port = PortOf(task[t])
        /\ task[t].owner = "slot" => task[t].id \in Slot
    BY DEF TypeInv, PingOfTask, PortOf
  <1>2. CASE task[t].owner = "slot"
    <2>1. task[t].id # task[u].id
      BY <1>1, <1>2 DEF OneTask, Running
    <2>2. QED BY <1>1, <1>2, <2>1, PortAssumption DEF PortOf, Slot
  <1>3. CASE task[t].owner # "slot"
    BY <1>1, <1>3, PortAssumption DEF PortOf, Slot
  <1>4. QED BY <1>2, <1>3

LEMMA PingStepOwn ==
  ASSUME TypeInv, OneTask, Own, NEW t \in Worker, PingStep(t), UNCHANGED delayVars
  PROVE  Own'
  <1>1. UNCHANGED <<task, answers>> /\ ping[t].pc # "idle"
    BY DEF delayVars, PingStep, WritePingConfig, CoreReadsFile, PingReturns
  <1>2. file \in [Port -> Config \cup {NoConfig}] /\ ping \in [Worker -> Ping]
    BY TypeFacts
  <1>3. ASSUME NEW v \in Worker, ping[v].pc # "idle"
        PROVE  ping[v].port \in Port
    <2>1. task[v] \in Task /\ ping[v].port = PortOf(task[v]) /\ (task[v].owner = "slot" => task[v].id \in Slot)
      BY <1>3 DEF TypeInv, PingOfTask
    <2>2. QED BY <2>1, DelayAssumption DEF PortOf, Slot
  <1>4. ASSUME NEW u \in Worker, task[u].owner = "slot"
        PROVE  /\ ping'[u].pc = "written" => file'[ping'[u].port] = ping'[u].config
               /\ ping'[u].seen \in {ping'[u].config, NoConfig}
    <2>1. /\ ping[u].pc = "written" => file[ping[u].port] = ping[u].config
          /\ ping[u].seen \in {ping[u].config, NoConfig}
      BY <1>4 DEF Own, OwnFile
    <2>2. CASE WritePingConfig(t)
      <3>1. /\ file' = [file EXCEPT ![ping[t].port] = ping[t].config]
            /\ ping' = [ping EXCEPT ![t].pc = "written"]
        BY <2>2 DEF WritePingConfig
      <3>2. CASE u = t
        BY <1>1, <1>2, <1>3, <2>1, <3>1, <3>2 DEF Ping
      <3>3. CASE u # t
        <4>1. ping'[u] = ping[u]
          BY <1>2, <3>1, <3>3
        <4>2. ASSUME ping[u].pc = "written"
              PROVE  ping[t].port # ping[u].port
          <5>1. ping[u].pc # "idle"
            BY <4>2
          <5>2. QED BY <1>1, <1>4, <3>3, <5>1, PortsDiffer
        <4>3. ASSUME ping[u].pc = "written"
              PROVE  file'[ping[u].port] = ping[u].config
          <5>1. ping[u].port \in Port
            BY <1>3, <4>3
          <5>2. file'[ping[u].port] = file[ping[u].port]
            BY <1>2, <3>1, <4>2, <4>3, <5>1
          <5>3. QED BY <2>1, <4>3, <5>2
        <4>4. QED BY <2>1, <4>1, <4>3
      <3>4. QED BY <3>2, <3>3
    <2>3. CASE CoreReadsFile(t)
      <3>1. /\ file' = file /\ ping[t].pc = "written"
            /\ ping' = [ping EXCEPT ![t] = [ping[t] EXCEPT !.pc = "reading", !.seen = file[ping[t].port]]]
        BY <2>3 DEF CoreReadsFile
      <3>2. CASE u = t
        <4>1. /\ ping'[u].pc = "reading" /\ ping'[u].seen = file[ping[t].port]
              /\ ping'[u].config = ping[u].config
          BY <1>2, <3>1, <3>2 DEF Ping
        <4>2. QED BY <2>1, <3>1, <3>2, <4>1
      <3>3. CASE u # t
        BY <1>2, <2>1, <3>1, <3>3
      <3>4. QED BY <3>2, <3>3
    <2>4. CASE PingReturns(t)
      <3>1. PICK ok \in BOOLEAN : ping' = [ping EXCEPT ![t] = [ping[t] EXCEPT !.pc = "returned", !.ok = ok]]
        BY <2>4 DEF PingReturns
      <3>2. file' = file
        BY <2>4 DEF PingReturns
      <3>3. CASE u = t
        <4>1. /\ ping'[u].pc = "returned" /\ ping'[u].seen = ping[u].seen
              /\ ping'[u].config = ping[u].config
          BY <1>2, <3>1, <3>3 DEF Ping
        <4>2. QED BY <2>1, <4>1
      <3>4. CASE u # t
        BY <1>2, <2>1, <3>1, <3>2, <3>4
      <3>5. QED BY <3>3, <3>4
    <2>5. QED BY <2>2, <2>3, <2>4 DEF PingStep
  <1>5. QED BY <1>1, <1>4 DEF Own, OwnFile, OwnAnswer

LEMMA RunOwn ==
  ASSUME TypeInv, Own, NEW t \in Worker, RunNativeDelayTest(t)
  PROVE  Own'
  <1>1. /\ answers' = answers /\ file' = file
        /\ task' = [task EXCEPT ![t] = Head(tasks)]
        /\ ping' = [ping EXCEPT ![t] = [NoPing EXCEPT !.pc = "asked", !.port = PortOf(Head(tasks)),
                                                      !.config = Head(tasks).config]]
    BY DEF RunNativeDelayTest, PingOutbound
  <1>2. /\ ping'[t].pc = "asked" /\ ping'[t].seen = NoConfig
        /\ \A u \in Worker \ {t} : ping'[u] = ping[u] /\ task'[u] = task[u]
    BY <1>1, TypeFacts DEF NoPing
  <1>3. OwnFile'
    BY <1>1, <1>2 DEF Own, OwnFile
  <1>4. QED BY <1>1, <1>3 DEF Own, OwnAnswer

LEMMA OtherwiseOwn ==
  ASSUME TypeInv, Own, MeasureOtherwise
  PROVE  Own'
  <1>1. PICK i \in DOMAIN tasks, ok \in BOOLEAN :
          answers' = answers \cup {Answer(tasks[i], ok, tasks[i].config)}
    BY DEF MeasureOtherwise
  <1> DEFINE c == Answer(tasks[i], ok, tasks[i].config)
  <1>2. c.seen \in {c.config, NoConfig}
    <2>1. tasks[i] \in Task
      BY TypeFacts
    <2>2. tasks[i].config \in Config
      BY <2>1 DEF Task
    <2>3. QED BY <2>1, <2>2, AnswerType
  <1>3. answers' = answers \cup {c} /\ UNCHANGED <<file, ping, task>>
    BY <1>1 DEF MeasureOtherwise, pingVars
  <1> HIDE DEF c
  <1>4. QED BY <1>2, <1>3 DEF Own, OwnFile, OwnAnswer

LEMMA MeasuredOwn ==
  ASSUME TypeInv, Own, NEW t \in Worker, Measured(t)
  PROVE  Own'
  <1>1. PICK direct \in BOOLEAN :
          answers' = answers \cup
            {Answer(task[t], ping[t].ok \/ direct, IF direct THEN NoConfig ELSE ping[t].seen)}
    BY DEF Measured
  <1> DEFINE seen == IF direct THEN NoConfig ELSE ping[t].seen
             ok == ping[t].ok \/ direct
             c == Answer(task[t], ok, seen)
  <1>2. /\ ping[t].pc = "returned" /\ ping' = [ping EXCEPT ![t] = NoPing]
        /\ file' = file /\ task' = [task EXCEPT ![t] = NoTask]
    BY DEF Measured, Leave
  <1>3. /\ task[t] \in Task /\ ping[t].seen \in Config \cup {NoConfig} /\ ping[t].ok \in BOOLEAN
        /\ ping[t].config = task[t].config
    BY <1>2, TypeFacts DEF TypeInv, PingOfTask, Ping
  <1>4. task[t].owner = "slot" => seen \in {task[t].config, NoConfig}
    BY <1>3 DEF Own, OwnFile
  <1>5. seen \in Config \cup {NoConfig} /\ ok \in BOOLEAN
    BY <1>3
  <1>6. answers' = answers \cup {c}
    BY <1>1
  <1> HIDE DEF seen, ok
  <1>7. c.owner = "slot" => c.seen \in {c.config, NoConfig}
    BY <1>3, <1>4, <1>5, AnswerType
  <1> HIDE DEF c
  <1>8. OwnAnswer'
    BY <1>6, <1>7 DEF Own, OwnAnswer
  <1>9. /\ ping'[t].pc = "idle" /\ ping'[t].seen = NoConfig
        /\ \A u \in Worker \ {t} : ping'[u] = ping[u] /\ task'[u] = task[u]
    BY <1>2, TypeFacts DEF NoPing
  <1>10. OwnFile'
    BY <1>2, <1>9 DEF Own, OwnFile
  <1>11. QED BY <1>8, <1>10 DEF Own

LEMMA CallKeepsOwn ==
  ASSUME TypeInv, OwnInv, PoolStep \/ SessionActs
  PROVE  OwnInv' /\ Held' = Held
  <1>1. OneTask /\ HeldBySlot /\ SlotsOfBatch /\ Own /\ OwnRows
    BY DEF OwnInv, Own
  <1>2. OneTask' /\ Own' /\ Held' = Held /\ UNCHANGED <<batch, shown>>
    <2>1. CASE MeasureOtherwise
      BY <1>1, <2>1, OtherwiseMoves, OtherwiseOwn DEF MeasureOtherwise
    <2>2. ASSUME NEW t \in Worker, RunNativeDelayTest(t)
          PROVE  OneTask' /\ Own' /\ Held' = Held /\ UNCHANGED <<batch, shown>>
      BY <1>1, <2>2, RunMoves, RunOwn DEF RunNativeDelayTest
    <2>3. ASSUME NEW t \in Worker, Measured(t)
          PROVE  OneTask' /\ Own' /\ Held' = Held /\ UNCHANGED <<batch, shown>>
      BY <1>1, <2>3, MeasuredMoves, MeasuredOwn DEF Measured
    <2>4. ASSUME NEW t \in Worker, PingStep(t), UNCHANGED delayVars
          PROVE  OneTask' /\ Own' /\ Held' = Held /\ UNCHANGED <<batch, shown>>
      <3>1. UNCHANGED <<batch, shown, tasks, task, answers>>
        BY <2>4 DEF delayVars
      <3>2. QED BY <1>1, <2>4, <3>1, PingStepMoves, PingStepOwn
    <2>5. CASE SessionActs
      <3>1. /\ UNCHANGED <<file, ping, batch, shown, task>>
            /\ \A a \in answers' : a \in answers
        BY <2>5, SessionEffect DEF pingVars
      <3>2. Own'
        BY <1>1, <3>1 DEF Own, OwnFile, OwnAnswer
      <3>3. QED BY <1>1, <2>5, <3>1, <3>2, SessionMoves
    <2>6. QED BY <2>1, <2>2, <2>3, <2>4, <2>5 DEF PoolStep
  <1>3. HeldBySlot' /\ SlotsOfBatch' /\ OwnRows'
    BY <1>1, <1>2 DEF HeldBySlot, SlotsOfBatch, OwnRows
  <1>4. QED BY <1>2, <1>3 DEF OwnInv, Own

(* A slot goes on with its next node, or is done.                          *)
GoesOn(s) ==
  /\ batch'.next = batch.next + 1
  /\ \/ batch.next > Len(Targets) /\ batch'.slot[s] = "done" /\ tasks' = tasks
     \/ /\ batch.next \in DOMAIN Targets /\ batch'.slot[s] = "measuring"
        /\ tasks' = Append(tasks, Ask("slot", s, Targets[batch.next]))

OtherSlots(s) == \A r \in Slot \ {s} :
  /\ batch'.slot[r] = batch.slot[r] /\ batch'.saving[r] = batch.saving[r]
  /\ batch'.loaded[r] = batch.loaded[r]

(* A save writes, or its results are lost.                                 *)
Written(s) ==
  \/ stored' = Saved(s) /\ batch'.lost = batch.lost
  \/ stored' = stored /\ batch'.lost = batch.lost \cup SavedNodes(s)

LEMMA ProceedEffect ==
  ASSUME NEW b \in Batch, b.next = batch.next, NEW s \in Slot, Proceed(s, b)
  PROVE  /\ GoesOn(s) /\ batch'.testing = b.testing /\ batch'.flushing = b.flushing
         /\ batch'.pending = b.pending /\ batch'.saving = b.saving /\ batch'.loaded = b.loaded
         /\ batch'.lost = b.lost
         /\ \A r \in Slot \ {s} : batch'.slot[r] = b.slot[r]
  <1>1. CASE b.next > Len(Targets)
    <2>1. batch' = [b EXCEPT !.slot = [b.slot EXCEPT ![s] = "done"], !.next = b.next + 1] /\ tasks' = tasks
      BY <1>1 DEF Proceed, Batch
    <2>2. QED BY <1>1, <2>1 DEF Batch, GoesOn
  <1>2. CASE ~(b.next > Len(Targets))
    <2>1. /\ batch' = [b EXCEPT !.slot = [b.slot EXCEPT ![s] = "measuring"], !.next = b.next + 1]
          /\ tasks' = Append(tasks, Ask("slot", s, Targets[b.next]))
      BY <1>2 DEF Proceed, Batch
    <2>2. b.next \in DOMAIN Targets
      BY <1>2, NextTarget
    <2>3. QED BY <1>2, <2>1, <2>2 DEF Batch, GoesOn
  <1>3. QED BY <1>1, <1>2

ResultOf(a) == [node |-> a.config, row |-> RowOf(a)]

LEMMA ResumeEffect ==
  ASSUME TypeInv, NEW s \in Slot, NEW a \in answers, a.config \in Node, Resumed(s, a)
  PROVE  /\ batch'.testing = batch.testing /\ OtherSlots(s) /\ batch'.lost = batch.lost
         /\ \/ /\ ~batch.flushing /\ batch'.flushing /\ batch'.next = batch.next /\ tasks' = tasks
               /\ batch'.slot[s] = "flushing" /\ batch'.pending = <<>>
               /\ batch'.saving[s] = Append(batch.pending, ResultOf(a)) /\ batch'.loaded[s] \in Loads
            \/ /\ GoesOn(s) /\ batch'.flushing = batch.flushing
               /\ batch'.pending = Append(batch.pending, ResultOf(a))
               /\ batch'.saving[s] = batch.saving[s] /\ batch'.loaded[s] = batch.loaded[s]
  <1> DEFINE b == WithResult(a)
  <1>1. b \in Batch
    BY WithResultType
  <1>2. /\ b.testing = batch.testing /\ b.next = batch.next /\ b.flushing = batch.flushing
        /\ b.pending = Append(batch.pending, ResultOf(a))
        /\ b.slot = batch.slot /\ b.saving = batch.saving /\ b.loaded = batch.loaded
        /\ b.lost = batch.lost
    BY TypeFacts DEF WithResult, ResultOf, Batch
  <1>3. \/ /\ MayFlush(b)
           /\ \E l \in Loads :
                batch' = [TakePending(b, s, l) EXCEPT !.flushing = TRUE, !.slot[s] = "flushing"]
           /\ UNCHANGED tasks
        \/ Proceed(s, b)
    BY DEF Resumed
  <1> HIDE DEF b
  <1>4. CASE /\ MayFlush(b)
             /\ \E l \in Loads :
                  batch' = [TakePending(b, s, l) EXCEPT !.flushing = TRUE, !.slot[s] = "flushing"]
             /\ UNCHANGED tasks
    <2>0. PICK l \in Loads :
            batch' = [TakePending(b, s, l) EXCEPT !.flushing = TRUE, !.slot[s] = "flushing"]
      BY <1>4
    <2> DEFINE c == TakePending(b, s, l)
    <2>1. /\ c \in Batch
          /\ c.testing = b.testing /\ c.next = b.next /\ c.slot = b.slot /\ c.pending = <<>>
          /\ c.saving = [b.saving EXCEPT ![s] = b.pending]
          /\ c.loaded = [b.loaded EXCEPT ![s] = l] /\ c.lost = b.lost
      BY <1>1, TakeTypes, LoadsType, TypeFacts DEF TakePending, Batch
    <2>2. batch' = [c EXCEPT !.flushing = TRUE, !.slot = [c.slot EXCEPT ![s] = "flushing"]]
      BY <2>0, <2>1 DEF Batch
    <2> HIDE DEF c
    <2>3. /\ batch'.testing = c.testing /\ batch'.next = c.next /\ batch'.flushing = TRUE
          /\ batch'.pending = c.pending /\ batch'.saving = c.saving /\ batch'.loaded = c.loaded
          /\ batch'.slot = [c.slot EXCEPT ![s] = "flushing"] /\ batch'.lost = c.lost
      BY <2>1, <2>2 DEF Batch
    <2>4. /\ b.slot \in [Slot -> {"measuring", "flushing", "ending", "done"}]
          /\ b.saving \in [Slot -> Seq(Entry)] /\ b.loaded \in [Slot -> [Node -> StoredRow]]
      BY <1>1 DEF Batch
    <2>5. ~batch.flushing
      BY <1>2, <1>4 DEF MayFlush
    <2>6. OtherSlots(s)
      BY <1>2, <2>1, <2>3, <2>4 DEF OtherSlots
    <2>7. batch'.saving[s] = b.pending /\ batch'.loaded[s] \in Loads /\ batch'.slot[s] = "flushing"
      BY <1>2, <2>1, <2>3, <2>4
    <2>8. /\ batch'.testing = batch.testing /\ batch'.flushing /\ batch'.next = batch.next
          /\ tasks' = tasks /\ batch'.pending = <<>> /\ batch'.lost = batch.lost
      BY <1>2, <1>4, <2>1, <2>3
    <2>9. QED BY <1>2, <2>5, <2>6, <2>7, <2>8
  <1>5. CASE Proceed(s, b)
    BY <1>1, <1>2, <1>5, ProceedEffect DEF OtherSlots
  <1>6. QED BY <1>3, <1>4, <1>5

LEMMA FlushEffect ==
  ASSUME TypeInv, NEW s \in Slot, FlushEnds(s)
  PROVE  /\ batch'.testing = batch.testing /\ OtherSlots(s) /\ GoesOn(s)
         /\ batch'.flushing = FALSE /\ batch'.pending = batch.pending
         /\ batch'.saving[s] = <<>> /\ Written(s)
         /\ UNCHANGED <<pingVars, shown, runtime, task, answers>>
  <1>0. PICK written \in BOOLEAN :
          /\ stored' = IF written THEN Saved(s) ELSE stored
          /\ Proceed(s, [AfterSave(batch, s, written) EXCEPT !.flushing = FALSE])
    BY DEF FlushEnds
  <1> DEFINE c == AfterSave(batch, s, written)
             b == [c EXCEPT !.flushing = FALSE]
  <1>1. /\ c \in Batch
        /\ c.testing = batch.testing /\ c.next = batch.next /\ c.slot = batch.slot
        /\ c.pending = batch.pending
        /\ c.saving = [batch.saving EXCEPT ![s] = <<>>]
        /\ c.loaded = [batch.loaded EXCEPT ![s] = Unloaded]
        /\ c.lost = LostAfter(batch, s, written)
    <2>1. /\ c \in Batch
          /\ c = [batch EXCEPT !.saving = [batch.saving EXCEPT ![s] = <<>>],
                               !.loaded = [batch.loaded EXCEPT ![s] = Unloaded],
                               !.lost = LostAfter(batch, s, written)]
      BY AfterTypes, TypeFacts
    <2> HIDE DEF c
    <2>2. QED BY <2>1, TypeFacts DEF Batch
  <1>2. /\ Proceed(s, b)
        /\ UNCHANGED <<pingVars, shown, runtime, task, answers>>
    BY <1>0 DEF FlushEnds
  <1> HIDE DEF c
  <1>3. /\ b \in Batch
        /\ b.testing = c.testing /\ b.next = c.next /\ b.slot = c.slot /\ b.pending = c.pending
        /\ b.flushing = FALSE /\ b.saving = c.saving /\ b.loaded = c.loaded /\ b.lost = c.lost
    BY <1>1 DEF Batch
  <1> HIDE DEF b
  <1>4. /\ batch.saving \in [Slot -> Seq(Entry)] /\ batch.loaded \in [Slot -> [Node -> StoredRow]]
    BY TypeFacts DEF Batch
  <1>5. /\ GoesOn(s) /\ batch'.testing = b.testing /\ batch'.flushing = b.flushing
        /\ batch'.pending = b.pending /\ batch'.saving = b.saving /\ batch'.loaded = b.loaded
        /\ batch'.lost = b.lost
        /\ \A r \in Slot \ {s} : batch'.slot[r] = b.slot[r]
    BY <1>1, <1>2, <1>3, ProceedEffect
  <1>6. Written(s)
    BY <1>0, <1>1, <1>3, <1>5 DEF Written, LostAfter
  <1>7. OtherSlots(s)
    BY <1>1, <1>3, <1>4, <1>5 DEF OtherSlots
  <1>8. QED BY <1>1, <1>2, <1>3, <1>4, <1>5, <1>6, <1>7

LEMMA FinalEffect ==
  ASSUME TypeInv, FinalSave
  PROVE  /\ batch.testing /\ \A s \in Slot : batch.slot[s] = "done"
         /\ batch'.next = batch.next /\ OtherSlots(1) /\ 1 \in Slot /\ batch'.lost = batch.lost
         /\ UNCHANGED <<pingVars, shown, stored, runtime, tasks, task, answers>>
         /\ \/ /\ batch.pending = <<>> /\ batch'.pending = <<>> /\ ~batch'.testing
               /\ batch'.flushing = batch.flushing
               /\ batch'.slot[1] = "done" /\ batch'.saving[1] = batch.saving[1]
            \/ /\ batch'.testing /\ ~batch'.flushing /\ batch'.pending = <<>>
               /\ batch'.slot[1] = "ending" /\ batch'.saving[1] = batch.pending
               /\ batch'.loaded[1] \in Loads
  <1>1. 1 \in Slot
    BY DelayAssumption DEF Slot
  <1>2. /\ batch.slot \in [Slot -> {"measuring", "flushing", "ending", "done"}]
        /\ batch.saving \in [Slot -> Seq(Entry)] /\ batch.loaded \in [Slot -> [Node -> StoredRow]]
    BY TypeFacts DEF Batch
  <1>4. /\ batch.testing /\ \A s \in Slot : batch.slot[s] = "done"
        /\ UNCHANGED <<pingVars, shown, stored, runtime, tasks, task, answers>>
        /\ \/ batch.pending = <<>> /\ batch' = [batch EXCEPT !.testing = FALSE]
           \/ \E l \in Loads :
                batch' = [TakePending(batch, 1, l) EXCEPT !.flushing = FALSE, !.slot[1] = "ending"]
    BY DEF FinalSave
  <1>5. CASE batch.pending = <<>> /\ batch' = [batch EXCEPT !.testing = FALSE]
    <2>1. /\ batch'.next = batch.next /\ batch'.slot = batch.slot /\ batch'.saving = batch.saving
          /\ batch'.loaded = batch.loaded /\ batch'.pending = <<>> /\ ~batch'.testing
          /\ batch'.flushing = batch.flushing /\ batch'.lost = batch.lost
      BY <1>5, TypeFacts DEF Batch
    <2>2. QED BY <1>1, <1>4, <1>5, <2>1 DEF OtherSlots
  <1>6. CASE \E l \in Loads :
               batch' = [TakePending(batch, 1, l) EXCEPT !.flushing = FALSE, !.slot[1] = "ending"]
    <2>0. PICK l \in Loads :
            batch' = [TakePending(batch, 1, l) EXCEPT !.flushing = FALSE, !.slot[1] = "ending"]
      BY <1>6
    <2> DEFINE c == TakePending(batch, 1, l)
    <2>c. /\ c \in Batch
          /\ c.testing = batch.testing /\ c.next = batch.next /\ c.slot = batch.slot /\ c.pending = <<>>
          /\ c.saving = [batch.saving EXCEPT ![1] = batch.pending]
          /\ c.loaded = [batch.loaded EXCEPT ![1] = l] /\ c.lost = batch.lost
      BY <1>1, TakeTypes, LoadsType, TypeFacts DEF TakePending, Batch
    <2>1. batch' = [c EXCEPT !.flushing = FALSE, !.slot = [c.slot EXCEPT ![1] = "ending"]]
      BY <2>0, <2>c DEF Batch
    <2> HIDE DEF c
    <2>2. /\ batch'.testing = c.testing /\ batch'.next = c.next /\ batch'.flushing = FALSE
          /\ batch'.pending = c.pending /\ batch'.saving = c.saving /\ batch'.loaded = c.loaded
          /\ batch'.slot = [c.slot EXCEPT ![1] = "ending"] /\ batch'.lost = c.lost
      BY <2>c, <2>1 DEF Batch
    <2>3. OtherSlots(1)
      BY <1>1, <1>2, <2>c, <2>2 DEF OtherSlots
    <2>4. batch'.slot[1] = "ending" /\ batch'.saving[1] = batch.pending /\ batch'.loaded[1] \in Loads
      BY <1>1, <1>2, <2>c, <2>2
    <2>5. QED BY <1>1, <2>c, <1>4, <2>2, <2>3, <2>4
  <1>7. QED BY <1>4, <1>5, <1>6

LEMMA EndEffect ==
  ASSUME TypeInv, EndBatch
  PROVE  /\ batch.slot[1] = "ending" /\ ~batch'.testing /\ batch'.slot[1] = "done"
         /\ OtherSlots(1) /\ 1 \in Slot /\ batch'.saving[1] = <<>> /\ batch'.pending = batch.pending
         /\ batch'.next = batch.next /\ Written(1)
         /\ UNCHANGED <<pingVars, shown, runtime, tasks, task, answers>>
  <1>0. PICK written \in BOOLEAN :
          /\ stored' = IF written THEN Saved(1) ELSE stored
          /\ batch' = [AfterSave(batch, 1, written) EXCEPT !.testing = FALSE, !.slot[1] = "done"]
    BY DEF EndBatch
  <1> DEFINE c == AfterSave(batch, 1, written)
  <1>1. 1 \in Slot
    BY DelayAssumption DEF Slot
  <1>2. /\ batch.slot \in [Slot -> {"measuring", "flushing", "ending", "done"}]
        /\ batch.saving \in [Slot -> Seq(Entry)] /\ batch.loaded \in [Slot -> [Node -> StoredRow]]
    BY TypeFacts DEF Batch
  <1>3. /\ c \in Batch /\ c.next = batch.next /\ c.slot = batch.slot /\ c.pending = batch.pending
        /\ c.saving = [batch.saving EXCEPT ![1] = <<>>]
        /\ c.loaded = [batch.loaded EXCEPT ![1] = Unloaded]
        /\ c.lost = LostAfter(batch, 1, written)
    <2>1. /\ c \in Batch
          /\ c = [batch EXCEPT !.saving = [batch.saving EXCEPT ![1] = <<>>],
                               !.loaded = [batch.loaded EXCEPT ![1] = Unloaded],
                               !.lost = LostAfter(batch, 1, written)]
      BY <1>1, AfterTypes, TypeFacts
    <2> HIDE DEF c
    <2>2. QED BY <2>1, TypeFacts DEF Batch
  <1>4. /\ batch.slot[1] = "ending"
        /\ batch' = [c EXCEPT !.testing = FALSE, !.slot[1] = "done"]
        /\ UNCHANGED <<pingVars, shown, runtime, tasks, task, answers>>
    BY <1>0 DEF EndBatch
  <1> HIDE DEF c
  <1>5. batch' = [c EXCEPT !.testing = FALSE, !.slot = [c.slot EXCEPT ![1] = "done"]]
    BY <1>3, <1>4 DEF Batch
  <1>6. /\ batch'.testing = FALSE /\ batch'.next = c.next /\ batch'.pending = c.pending
        /\ batch'.saving = c.saving /\ batch'.loaded = c.loaded
        /\ batch'.slot = [c.slot EXCEPT ![1] = "done"] /\ batch'.lost = c.lost
    BY <1>3, <1>5 DEF Batch
  <1>7. OtherSlots(1)
    BY <1>1, <1>2, <1>3, <1>6 DEF OtherSlots
  <1>8. batch'.slot[1] = "done" /\ batch'.saving[1] = <<>>
    BY <1>1, <1>2, <1>3, <1>6
  <1>9. Written(1)
    BY <1>0, <1>3, <1>6 DEF Written, LostAfter
  <1>10. QED BY <1>1, <1>3, <1>4, <1>6, <1>7, <1>8, <1>9

LEMMA StartEffect ==
  ASSUME TypeInv, StartBatch
  PROVE  /\ ~batch.testing /\ batch'.testing /\ batch'.next = Slots + 1
         /\ batch'.pending = batch.pending /\ batch'.saving = batch.saving
         /\ batch'.loaded = batch.loaded /\ batch'.flushing = FALSE
         /\ \A s \in Slot : batch'.slot[s] = IF s <= Len(Targets) THEN "measuring" ELSE "done"
         /\ shown' = [n \in Node |-> "testing"] /\ tasks' = tasks \o FirstTasks
         /\ UNCHANGED <<pingVars, stored, runtime, task, answers>>
  <1>1. batch' = [batch EXCEPT !.testing = TRUE, !.next = Slots + 1, !.flushing = FALSE, !.lost = {},
                    !.slot = [s \in Slot |-> IF s <= Len(Targets) THEN "measuring" ELSE "done"]]
    BY DEF StartBatch
  <1>2. /\ batch'.testing = TRUE /\ batch'.next = Slots + 1 /\ batch'.flushing = FALSE
        /\ batch'.slot = [s \in Slot |-> IF s <= Len(Targets) THEN "measuring" ELSE "done"]
        /\ batch'.pending = batch.pending /\ batch'.saving = batch.saving /\ batch'.loaded = batch.loaded
    BY <1>1, TypeFacts DEF Batch
  <1>3. QED BY <1>2 DEF StartBatch, FirstTasks

NextTask(s) == Ask("slot", s, Targets[batch.next])

LEMMA GoesOnHeld ==
  ASSUME TypeInv, TypeInv', OneTask, NEW s \in Slot, NothingFor(s), GoesOn(s),
         answers' = {b \in answers : ~Answered(b, s)}, task' = task
  PROVE  /\ OneTask'
         /\ \/ Held' = {k \in Held : k.id # s} /\ batch.next > Len(Targets) /\ batch'.slot[s] = "done"
            \/ /\ Held' = {k \in Held : k.id # s} \cup {NextTask(s)}
               /\ batch.next \in DOMAIN Targets /\ Targets[batch.next] \in Node
               /\ NextTask(s).id = s /\ NextTask(s).config = Targets[batch.next]
               /\ batch'.slot[s] = "measuring"
  <1>1. CASE batch.next > Len(Targets) /\ batch'.slot[s] = "done" /\ tasks' = tasks
    BY <1>1, SlotRests
  <1>2. CASE /\ batch.next \in DOMAIN Targets /\ batch'.slot[s] = "measuring"
             /\ tasks' = Append(tasks, NextTask(s))
    <2>1. Targets[batch.next] \in Config /\ Targets[batch.next] \in Node
      BY <1>2, NodesAreConfigs
    <2>2. s \in Nat
      BY DelayAssumption DEF Slot
    <2>3. /\ NextTask(s) \in Task /\ NextTask(s).owner = "slot" /\ NextTask(s).id = s
          /\ NextTask(s).config = Targets[batch.next]
      <3> DEFINE config == Targets[batch.next]
      <3>1. config \in Config
        BY <2>1
      <3> HIDE DEF config
      <3>2. /\ Ask("slot", s, config) \in Task /\ Ask("slot", s, config).owner = "slot"
            /\ Ask("slot", s, config).id = s /\ Ask("slot", s, config).config = config
        BY <2>2, <3>1, AskType
      <3>3. QED BY <3>2 DEF NextTask, config
    <2>4. QED BY <1>2, <2>1, <2>3, SlotAsks
  <1>3. QED BY <1>1, <1>2 DEF GoesOn, NextTask

(* The node and the slot of an answer.                                     *)
LEMMA AnswerOfSlot ==
  ASSUME TypeInv, OwnInv, NEW s \in Slot, NEW a \in answers, a.owner = "slot", a.id = s
  PROVE  /\ Asked(a) \in Held /\ Asked(a).id = s /\ Asked(a).config = a.config
         /\ a.config \in Node /\ batch.slot[s] = "measuring" /\ batch.testing
         /\ NothingFor(s) /\ answers \ {a} = {b \in answers : ~Answered(b, s)}
  <1>1. Asked(a) \in Held /\ Asked(a).id = s /\ Asked(a).config = a.config
    BY HeldPlaces, AskedType, TypeFacts
  <1>2. a.config \in Node /\ batch.slot[s] = "measuring"
    BY <1>1 DEF OwnInv, HeldBySlot
  <1>3. batch.testing
    BY <1>2 DEF OwnInv, SlotsOfBatch
  <1>4. QED BY <1>1, <1>2, <1>3, OnlyAnswered DEF OwnInv, Answered

LEMMA OwnOfRest ==
  ASSUME Own, UNCHANGED <<file, ping, task>>, \A a \in answers' : a \in answers
  PROVE  Own'
  BY DEF Own, OwnFile, OwnAnswer

LEMMA ResumeHeld ==
  ASSUME TypeInv, OwnInv, NEW s \in Slot, NEW a \in answers, Resumed(s, a)
  PROVE  /\ TypeInv'
         /\ OneTask'
         /\ \/ Held' = {k \in Held : k.id # s} /\ batch'.next = batch.next /\ batch'.slot[s] = "flushing"
            \/ /\ Held' = {k \in Held : k.id # s} /\ batch.next > Len(Targets)
               /\ batch'.slot[s] = "done" /\ batch'.next = batch.next + 1
            \/ /\ Held' = {k \in Held : k.id # s} \cup {NextTask(s)} /\ batch'.next = batch.next + 1
               /\ batch.next \in DOMAIN Targets /\ Targets[batch.next] \in Node
               /\ NextTask(s).id = s /\ NextTask(s).config = Targets[batch.next]
               /\ batch'.slot[s] = "measuring"
  <1>1. /\ Asked(a) \in Held /\ Asked(a).id = s /\ Asked(a).config = a.config
        /\ a.config \in Node /\ batch.slot[s] = "measuring" /\ batch.testing
        /\ NothingFor(s) /\ answers \ {a} = {b \in answers : ~Answered(b, s)}
    BY AnswerOfSlot DEF Resumed
  <1>2. TypeInv'
    BY <1>1, ResumeTypes
  <1>3. /\ answers' = {b \in answers : ~Answered(b, s)} /\ task' = task
        /\ UNCHANGED <<file, ping>> /\ shown' = [shown EXCEPT ![a.config] = RowOf(a)]
        /\ a.owner = "slot"
    BY <1>1 DEF Resumed, pingVars
  <1>4. /\ batch'.testing = batch.testing /\ OtherSlots(s)
        /\ \/ /\ tasks' = tasks /\ batch'.slot[s] = "flushing" /\ batch'.next = batch.next
           \/ GoesOn(s)
    BY <1>1, ResumeEffect
  <1>5. OneTask /\ HeldBySlot /\ SlotsOfBatch /\ Own /\ OwnRows
    BY DEF OwnInv, Own
  <1>6. /\ OneTask'
        /\ \/ Held' = {k \in Held : k.id # s} /\ batch'.next = batch.next /\ batch'.slot[s] = "flushing"
           \/ /\ Held' = {k \in Held : k.id # s} /\ batch.next > Len(Targets)
              /\ batch'.slot[s] = "done" /\ batch'.next = batch.next + 1
           \/ /\ Held' = {k \in Held : k.id # s} \cup {NextTask(s)} /\ batch'.next = batch.next + 1
              /\ batch.next \in DOMAIN Targets /\ Targets[batch.next] \in Node
              /\ NextTask(s).id = s /\ NextTask(s).config = Targets[batch.next]
              /\ batch'.slot[s] = "measuring"
    <2>1. CASE tasks' = tasks /\ batch'.slot[s] = "flushing" /\ batch'.next = batch.next
      BY <1>1, <1>2, <1>3, <1>5, <2>1, SlotRests
    <2>2. CASE GoesOn(s)
      <3>1. batch'.next = batch.next + 1
        BY <2>2 DEF GoesOn
      <3>2. QED BY <1>1, <1>2, <1>3, <1>5, <2>2, <3>1, GoesOnHeld
    <2>3. QED BY <1>4, <2>1, <2>2
  <1>7. QED BY <1>2, <1>6

LEMMA ResumeKeepsOwn ==
  ASSUME TypeInv, OwnInv, NEW s \in Slot, NEW a \in answers, Resumed(s, a)
  PROVE  TypeInv' /\ OwnInv'
  <1>1. /\ Asked(a) \in Held /\ Asked(a).id = s /\ Asked(a).config = a.config
        /\ a.config \in Node /\ batch.slot[s] = "measuring" /\ batch.testing
        /\ NothingFor(s) /\ answers \ {a} = {b \in answers : ~Answered(b, s)}
    BY AnswerOfSlot DEF Resumed
  <1>2. TypeInv'
    BY ResumeHeld
  <1>3. /\ answers' = {b \in answers : ~Answered(b, s)} /\ task' = task
        /\ UNCHANGED <<file, ping>> /\ shown' = [shown EXCEPT ![a.config] = RowOf(a)]
        /\ a.owner = "slot"
    BY <1>1 DEF Resumed, pingVars
  <1>4. /\ batch'.testing = batch.testing /\ OtherSlots(s)
        /\ \/ /\ tasks' = tasks /\ batch'.slot[s] = "flushing" /\ batch'.next = batch.next
           \/ GoesOn(s)
    BY <1>1, ResumeEffect
  <1>5. OneTask /\ HeldBySlot /\ SlotsOfBatch /\ Own /\ OwnRows
    BY DEF OwnInv, Own
  <1>6. /\ OneTask'
        /\ \/ Held' = {k \in Held : k.id # s} /\ batch'.next = batch.next /\ batch'.slot[s] = "flushing"
           \/ /\ Held' = {k \in Held : k.id # s} /\ batch.next > Len(Targets)
              /\ batch'.slot[s] = "done" /\ batch'.next = batch.next + 1
           \/ /\ Held' = {k \in Held : k.id # s} \cup {NextTask(s)} /\ batch'.next = batch.next + 1
              /\ batch.next \in DOMAIN Targets /\ Targets[batch.next] \in Node
              /\ NextTask(s).id = s /\ NextTask(s).config = Targets[batch.next]
              /\ batch'.slot[s] = "measuring"
    BY ResumeHeld
  <1>7. HeldBySlot'
    BY <1>4, <1>5, <1>6 DEF HeldBySlot, OtherSlots
  <1>8. SlotsOfBatch'
    <2>1. \A r \in Slot : batch.slot[r] # "ending"
      BY <1>1, <1>5 DEF SlotsOfBatch
    <2>2. \A r \in Slot : batch'.slot[r] # "ending"
      BY <1>4, <1>6, <2>1 DEF OtherSlots
    <2>3. batch.next \in Nat /\ Len(Targets) \in Nat
      BY TypeFacts, DelayAssumption DEF Batch
    <2>4. \A r \in Slot : batch'.slot[r] = "done" => batch'.next > Len(Targets)
      BY <1>1, <1>4, <1>5, <1>6, <2>3 DEF SlotsOfBatch, OtherSlots
    <2>5. QED BY <1>1, <1>4, <2>2, <2>4 DEF SlotsOfBatch
  <1>9. OwnRows'
    <2>1. RowOf(a) \in {a.config, NoConfig, "failed"}
      BY <1>3, <1>5, RowType, TypeFacts DEF Own, OwnAnswer
    <2>2. QED BY <1>3, <1>5, <2>1, TypeFacts DEF OwnRows
  <1>10. Own'
    BY <1>3, <1>5, OwnOfRest
  <1>11. QED BY <1>2, <1>6, <1>7, <1>8, <1>9, <1>10 DEF OwnInv, Own

LEMMA FlushKeepsOwn ==
  ASSUME TypeInv, OwnInv, NEW s \in Slot, FlushEnds(s)
  PROVE  /\ TypeInv' /\ OwnInv'
         /\ \/ Held' = Held /\ batch.next > Len(Targets) /\ batch'.slot[s] = "done"
            \/ /\ Held' = Held \cup {NextTask(s)} /\ batch.next \in DOMAIN Targets
               /\ NextTask(s).id = s /\ NextTask(s).config = Targets[batch.next]
  <1>1. batch.slot[s] = "flushing"
    BY DEF FlushEnds
  <1>2. OneTask /\ HeldBySlot /\ SlotsOfBatch /\ Own /\ OwnRows
    BY DEF OwnInv, Own
  <1>3. \A k \in Held : k.id # s
    BY <1>1, <1>2 DEF HeldBySlot
  <1>4. NothingFor(s) /\ answers = {b \in answers : ~Answered(b, s)}
    <2>1. s # 0
      BY DelayAssumption DEF Slot
    <2>2. \A b \in answers : b.owner = "slot" => b.id # s
      BY <1>3, HeldPlaces, AskedType, TypeFacts
    <2>3. QED BY <1>3, <2>1, <2>2, HeldPlaces, NoTaskIsNone DEF NothingFor, Queued, Running, Answered
  <1>5. TypeInv'
    BY FlushEndsTypes
  <1>6. /\ batch'.testing = batch.testing /\ OtherSlots(s) /\ GoesOn(s)
        /\ UNCHANGED <<file, ping, shown, task, answers>>
    BY FlushEffect DEF pingVars
  <1>7. batch'.next = batch.next + 1 /\ {k \in Held : k.id # s} = Held
    BY <1>3, <1>6 DEF GoesOn
  <1>8. /\ OneTask'
        /\ \/ Held' = Held /\ batch.next > Len(Targets) /\ batch'.slot[s] = "done"
           \/ /\ Held' = Held \cup {NextTask(s)}
              /\ batch.next \in DOMAIN Targets /\ Targets[batch.next] \in Node
              /\ NextTask(s).id = s /\ NextTask(s).config = Targets[batch.next]
              /\ batch'.slot[s] = "measuring"
    <2>1. answers' = {b \in answers : ~Answered(b, s)} /\ task' = task
      BY <1>4, <1>6
    <2>2. /\ OneTask'
          /\ \/ Held' = {k \in Held : k.id # s} /\ batch.next > Len(Targets) /\ batch'.slot[s] = "done"
             \/ /\ Held' = {k \in Held : k.id # s} \cup {NextTask(s)}
                /\ batch.next \in DOMAIN Targets /\ Targets[batch.next] \in Node
                /\ NextTask(s).id = s /\ NextTask(s).config = Targets[batch.next]
                /\ batch'.slot[s] = "measuring"
      BY <1>2, <1>4, <1>5, <1>6, <2>1, GoesOnHeld
    <2>3. QED BY <1>7, <2>2
  <1>9. HeldBySlot'
    BY <1>2, <1>3, <1>6, <1>8 DEF HeldBySlot, OtherSlots
  <1>10. batch.testing
    BY <1>1, <1>2 DEF SlotsOfBatch
  <1>11. SlotsOfBatch'
    <2>1. \A r \in Slot : batch.slot[r] # "ending"
      <3>1. \A r \in Slot : batch.slot[r] = "ending" => s = 1 /\ r = 1
        BY <1>1, <1>2 DEF SlotsOfBatch
      <3>2. QED BY <1>1, <3>1
    <2>2. \A r \in Slot : batch'.slot[r] # "ending"
      BY <1>6, <1>8, <2>1 DEF OtherSlots
    <2>3. batch.next \in Nat /\ Len(Targets) \in Nat
      BY TypeFacts, DelayAssumption DEF Batch
    <2>4. \A r \in Slot : batch'.slot[r] = "done" => batch'.next > Len(Targets)
      BY <1>2, <1>6, <1>7, <1>8, <1>10, <2>3 DEF SlotsOfBatch, OtherSlots
    <2>5. QED BY <1>6, <1>10, <2>2, <2>4 DEF SlotsOfBatch
  <1>12. OwnRows' /\ Own'
    BY <1>2, <1>6, OwnOfRest DEF OwnRows
  <1>13. QED BY <1>5, <1>8, <1>9, <1>11, <1>12 DEF OwnInv, Own

LEMMA SavesKeepOwn ==
  ASSUME TypeInv, OwnInv, FinalSave \/ EndBatch
  PROVE  TypeInv' /\ OwnInv' /\ Held' = {} /\ Held = {}
  <1>1. OneTask /\ HeldBySlot /\ SlotsOfBatch /\ Own /\ OwnRows
    BY DEF OwnInv, Own
  <1>2. UNCHANGED <<file, ping, shown, tasks, task, answers>> /\ OtherSlots(1) /\ 1 \in Slot
    BY FinalEffect, EndEffect DEF pingVars
  <1>3. \A s \in Slot : batch.slot[s] # "measuring"
    <2>1. CASE FinalSave
      BY <2>1, FinalEffect
    <2>2. CASE EndBatch
      BY <1>1, <2>2, EndEffect DEF SlotsOfBatch
    <2>3. QED BY <2>1, <2>2
  <1>4. Held = {}
    BY <1>1, <1>3 DEF HeldBySlot
  <1>5. OneTask' /\ Held' = {}
    BY <1>1, <1>2, <1>4, PingStepMoves
  <1>6. HeldBySlot'
    BY <1>5 DEF HeldBySlot
  <1>7. SlotsOfBatch'
    <2>1. CASE FinalSave
      <3>1. /\ batch.testing /\ \A s \in Slot : batch.slot[s] = "done"
            /\ batch'.next = batch.next /\ batch'.pending = <<>>
            /\ (~batch'.testing /\ batch'.slot[1] = "done") \/ (batch'.testing /\ batch'.slot[1] = "ending")
        BY <2>1, FinalEffect
      <3>2. batch'.next > Len(Targets)
        BY <1>1, <1>2, <3>1 DEF SlotsOfBatch
      <3>3. QED BY <1>2, <3>1, <3>2 DEF SlotsOfBatch, OtherSlots
    <2>2. CASE EndBatch
      BY <1>1, <1>2, <2>2, EndEffect DEF SlotsOfBatch, OtherSlots
    <2>3. QED BY <2>1, <2>2
  <1>8. OwnRows' /\ Own'
    BY <1>1, <1>2, OwnOfRest DEF OwnRows
  <1>9. TypeInv'
    BY FinalSaveTypes, EndBatchTypes
  <1>10. QED BY <1>4, <1>5, <1>6, <1>7, <1>8, <1>9 DEF OwnInv, Own

LEMMA StartKeepsOwn ==
  ASSUME TypeInv, OwnInv, StartBatch
  PROVE  /\ TypeInv' /\ OwnInv'
         /\ Held' = {Ask("slot", s, Targets[s]) : s \in Slot \cap DOMAIN Targets}
  <1>1. OneTask /\ HeldBySlot /\ SlotsOfBatch /\ Own /\ OwnRows
    BY DEF OwnInv, Own
  <1>2. /\ ~batch.testing /\ batch'.testing /\ batch'.next = Slots + 1
        /\ batch'.pending = batch.pending
        /\ \A s \in Slot : batch'.slot[s] = IF s <= Len(Targets) THEN "measuring" ELSE "done"
        /\ shown' = [n \in Node |-> "testing"] /\ tasks' = tasks \o FirstTasks
        /\ UNCHANGED <<file, ping, task, answers>>
    BY StartEffect DEF pingVars
  <1>3. Held = {}
    BY <1>1, <1>2 DEF HeldBySlot, SlotsOfBatch
  <1>4. TypeInv'
    BY StartBatchTypes
  <1>5. OneTask' /\ Held' = {Ask("slot", s, Targets[s]) : s \in Slot \cap DOMAIN Targets}
    BY <1>2, <1>3, <1>4, BatchAsks
  <1>6. HeldBySlot'
    <2> SUFFICES ASSUME NEW k \in Held'
                 PROVE  k.id \in Slot /\ batch'.slot[k.id] = "measuring" /\ k.config \in Node
      BY DEF HeldBySlot
    <2>1. PICK s \in Slot \cap DOMAIN Targets : k = Ask("slot", s, Targets[s])
      BY <1>5
    <2>2. k.id = s /\ k.config = Targets[s] /\ Targets[s] \in Node
      BY <2>1, NodesAreConfigs DEF Ask
    <2>3. s <= Len(Targets)
      BY DelayAssumption
    <2>4. QED BY <1>2, <2>1, <2>2, <2>3
  <1>7. SlotsOfBatch'
    <2>1. \A s \in Slot : batch'.slot[s] # "ending"
      BY <1>2
    <2>2. Slots \in Nat /\ Len(Targets) \in Nat /\ \A s \in Slot : s <= Slots /\ s \in Nat
      BY DelayAssumption DEF Slot
    <2>3. \A s \in Slot : batch'.slot[s] = "done" => batch'.next > Len(Targets)
      BY <1>2, <2>2
    <2>4. QED BY <1>2, <2>1, <2>3 DEF SlotsOfBatch
  <1>8. OwnRows' /\ Own'
    BY <1>1, <1>2, OwnOfRest DEF OwnRows
  <1>9. QED BY <1>4, <1>5, <1>6, <1>7, <1>8 DEF OwnInv, Own

LEMMA StepKeepsOwn ==
  ASSUME TypeInv, OwnInv, [Next]_vars
  PROVE  TypeInv' /\ OwnInv'
  <1>1. CASE PoolStep
    <2>1. TypeInv'
      BY <1>1, OtherwiseTypes, RunTypes, MeasuredTypes, PingStepTypes DEF PoolStep
    <2>2. QED BY <1>1, <2>1, CallKeepsOwn
  <1>2. CASE StartBatch
    BY <1>2, StartKeepsOwn
  <1>3. CASE FinalSave \/ EndBatch
    BY <1>3, SavesKeepOwn
  <1>4. ASSUME NEW s \in Slot, ResumeSlot(s)
        PROVE  TypeInv' /\ OwnInv'
    BY <1>4, ResumeSlotIsResumed, ResumeKeepsOwn
  <1>5. ASSUME NEW s \in Slot, FlushEnds(s)
        PROVE  TypeInv' /\ OwnInv'
    BY <1>5, FlushKeepsOwn
  <1>6. CASE SessionStep
    <2>1. SessionActs
      BY <1>6 DEF SessionStep, SessionActs
    <2>2. QED BY <2>1, SessionTypes, CallKeepsOwn
  <1>7. CASE UNCHANGED vars
    <2>1. UNCHANGED <<file, ping, batch, shown, stored, runtime, acts, tasks, task, answers>>
      BY <1>7 DEF vars
    <2>2. (BatchTypes /\ QueueTypes /\ RuntimeTypes /\ PoolTypes /\ answers \subseteq Result)'
      BY <2>1, TypeParts DEF BatchTypes, QueueTypes, RuntimeTypes, ProfileChosen, PoolTypes, PingOfTask, PortOf
    <2>3. TypeInv'
      BY <2>2, TypesKept
    <2>4. OneTask /\ HeldBySlot /\ SlotsOfBatch /\ Own /\ OwnRows
      BY DEF OwnInv, Own
    <2>5. OneTask' /\ Held' = Held
      BY <2>1, <2>4, PingStepMoves
    <2>6. HeldBySlot' /\ SlotsOfBatch' /\ OwnRows' /\ Own'
      BY <2>1, <2>4, <2>5 DEF HeldBySlot, SlotsOfBatch, OwnRows, Own, OwnFile, OwnAnswer
    <2>7. QED BY <2>3, <2>5, <2>6 DEF OwnInv, Own
  <1>8. QED BY <1>1, <1>2, <1>3, <1>4, <1>5, <1>6, <1>7 DEF Next, BatchStep

(* In every reachable state each slot has at most one node in measurement  *)
(* (its loop asks for the next one after the answer), a call reads what it *)
(* wrote because no other call has its port, and answers and rows belong   *)
(* to the node that was asked for (runSlot, pingOutbound).                 *)
THEOREM MeasuringInvariant == Spec => [](TypeInv /\ OwnInv)
  <1>1. Init => TypeInv /\ OwnInv
    BY InitTypes, InitOwn
  <1>2. TypeInv /\ OwnInv /\ [Next]_vars => (TypeInv /\ OwnInv)'
    BY StepKeepsOwn
  <1>3. QED BY <1>1, <1>2, PTL DEF Spec

(* The state of the delay tests has its types.                             *)
THEOREM DelayTestTypes == Spec => []TypeOK
  BY MeasuringInvariant, PTL DEF TypeInv

(* A row never shows the delay of another node, for every number of slots, *)
(* threads and nodes, whatever the order of the calls (runRealDelayBatch). *)
THEOREM OwnNodeShown == Spec => []RowsShowOwnNode
  <1>1. OwnInv => RowsShowOwnNode
    BY NodesAreConfigs, RowsDiffer DEF OwnInv, OwnRows, RowsShowOwnNode
  <1>2. QED BY <1>1, MeasuringInvariant, PTL

-----------------------------------------------------------------------------
(* The delay of a connection belongs to its session.                       *)

(* While a connection starts, no delay is known and none can be set.       *)
SessionInv ==
  /\ DelayOfSession
  /\ runtime.busy = "start" => runtime.status # "RUNNING" /\ runtime.delayOf = 0

LEMMA SessionKept ==
  ASSUME TypeInv, SessionInv, [Next]_vars
  PROVE  SessionInv'
  <1>1. runtime \in Runtime /\ answers \subseteq Result
    BY TypeFacts
  <1> USE DEF SessionInv, DelayOfSession
  <1>2. CASE runtime' = runtime
    BY <1>2
  <1>3. ASSUME NEW config \in Config, BeginStart(config)
        PROVE  SessionInv'
    <2>1. runtime' = [runtime EXCEPT !.testing = FALSE, !.delayOf = 0, !.busy = "start", !.profile = config]
      BY <1>1, <1>3 DEF BeginStart, Reset, Runtime
    <2>2. runtime'.status = runtime.status /\ runtime'.delayOf = 0 /\ runtime'.busy = "start"
      BY <1>1, <2>1 DEF Runtime
    <2>3. QED BY <1>3, <2>2 DEF BeginStart
  <1>4. CASE EndStart
    <2>1. CASE runtime' = [runtime EXCEPT !.busy = "no", !.status = "RUNNING",
                                         !.session = @ + 1, !.testing = TRUE]
      <3>1. runtime'.delayOf = runtime.delayOf /\ runtime'.busy = "no"
        BY <1>1, <2>1 DEF Runtime
      <3>2. QED BY <1>4, <3>1 DEF EndStart
    <2>2. CASE runtime' = [runtime EXCEPT !.busy = "no", !.status = "ERROR"]
      BY <1>1, <2>2 DEF Runtime
    <2>3. QED BY <1>4, <2>1, <2>2 DEF EndStart
  <1>5. CASE BeginStop
    <2>1. runtime' = [runtime EXCEPT !.testing = FALSE, !.delayOf = 0, !.busy = "stop"]
      BY <1>1, <1>5 DEF BeginStop, Reset, Runtime
    <2>2. QED BY <1>1, <2>1 DEF Runtime
  <1>6. CASE EndStop
    BY <1>1, <1>6 DEF EndStop, Runtime
  <1>7. CASE ReconcileStopped
    <2>1. runtime' = [runtime EXCEPT !.testing = FALSE, !.delayOf = 0, !.status = "IDLE",
                                     !.profile = NoConfig]
      BY <1>1, <1>7 DEF ReconcileStopped, Reset, Runtime
    <2>2. runtime'.status = "IDLE" /\ runtime'.delayOf = 0
      BY <1>1, <2>1 DEF Runtime
    <2>3. QED BY <2>2
  <1>8. CASE MeasureCurrentConnectionDelay
    BY <1>1, <1>8 DEF MeasureCurrentConnectionDelay, Runtime
  <1>9. CASE ResumeSession
    <2>1. PICK a \in answers :
            runtime' = IF SameSession(a)
                       THEN [runtime EXCEPT !.testing = FALSE, !.delayOf = IF a.ok THEN a.id ELSE 0]
                       ELSE runtime
      BY <1>9 DEF ResumeSession
    <2>2. CASE SameSession(a)
      <3> DEFINE delay == IF a.ok THEN a.id ELSE 0
      <3>1. delay \in {0, runtime.session} /\ runtime.status = "RUNNING"
        BY <2>2 DEF SameSession
      <3>2. runtime' = [runtime EXCEPT !.testing = FALSE, !.delayOf = delay]
        BY <2>1, <2>2
      <3> HIDE DEF delay
      <3>3. /\ runtime'.delayOf = delay /\ runtime'.session = runtime.session
            /\ runtime'.status = runtime.status /\ runtime'.busy = runtime.busy
        BY <1>1, <3>2 DEF Runtime
      <3>4. QED BY <3>1, <3>3
    <2>3. CASE ~SameSession(a)
      BY <2>1, <2>3
    <2>4. QED BY <2>2, <2>3
  <1>10. CASE PoolStep \/ BatchStep \/ UNCHANGED vars
    <2>1. runtime' = runtime
      BY <1>10 DEF PoolStep, BatchStep, MeasureOtherwise, RunNativeDelayTest, Measured, delayVars, vars,
                   StartBatch, FinalSave, EndBatch, ResumeSlot, FlushEnds
    <2>2. QED BY <1>2, <2>1
  <1>11. QED BY <1>3, <1>4, <1>5, <1>6, <1>7, <1>8, <1>9, <1>10 DEF Next, SessionStep

(* The delay shown for a running connection is of its own session: a       *)
(* result that comes late is not taken for a later session                 *)
(* (measureConnectionDelayInternal, resetConnectionDelay).                 *)
THEOREM DelayIsOfSession == Spec => []DelayOfSession
  <1>1. Init => SessionInv
    BY DEF Init, SessionInv, DelayOfSession
  <1>2. SessionInv => DelayOfSession
    BY DEF SessionInv
  <1>3. TypeInv /\ SessionInv /\ [Next]_vars => SessionInv'
    BY SessionKept
  <1>4. QED BY <1>1, <1>2, <1>3, MeasuringInvariant, PTL DEF Spec

-----------------------------------------------------------------------------
(* The preferences hold the rows.                                          *)

LEMMA EntryPlaces ==
  ASSUME NEW b, NEW e
  PROVE  e \in EntriesOf(b) <=>
           \/ \E i \in DOMAIN b.pending : e = b.pending[i]
           \/ \E s \in Slot : \E i \in DOMAIN b.saving[s] : e = b.saving[s][i]
  <1>1. e \in EntriesOf(b) <=>
           \/ \E i \in DOMAIN b.pending : e = b.pending[i]
           \/ \E w \in {{b.saving[s][i] : i \in DOMAIN b.saving[s]} : s \in Slot} : e \in w
    BY Zenon DEF EntriesOf
  <1>2. (\E w \in {{b.saving[s][i] : i \in DOMAIN b.saving[s]} : s \in Slot} : e \in w) <=>
           \E s \in Slot : e \in {b.saving[s][i] : i \in DOMAIN b.saving[s]}
    OBVIOUS
  <1>3. QED BY <1>1, <1>2

LEMMA AppendItems ==
  ASSUME NEW p \in Seq(Entry), NEW e \in Entry, NEW q, q = Append(p, e), NEW x
  PROVE  (\E i \in DOMAIN q : x = q[i]) <=> x = e \/ \E i \in DOMAIN p : x = p[i]
  <1>1. /\ \A i \in DOMAIN p : i \in DOMAIN q /\ q[i] = p[i]
        /\ \A i \in DOMAIN q : i \in DOMAIN p \/ q[i] = e
        /\ Len(p) + 1 \in DOMAIN q /\ q[Len(p) + 1] = e
    OBVIOUS
  <1>2. QED BY <1>1

LEMMA EmptyItems == ~\E i \in DOMAIN <<>> : TRUE
  OBVIOUS

LEMMA EntriesType ==
  ASSUME TypeInv, NEW e \in Entries
  PROVE  e \in Entry /\ e.node \in Node
  <1>1. batch.pending \in Seq(Entry) /\ \A s \in Slot : batch.saving[s] \in Seq(Entry)
    BY TypeFacts DEF Batch
  <1>2. e \in Entry
    BY <1>1, EntryPlaces DEF Entries
  <1>3. QED BY <1>2 DEF Entry

(* A save keeps what the preferences have, and its results are kept.       *)
LEMMA SavedRows ==
  ASSUME TypeInv, NEW s \in Slot, EntriesShown, batch.loaded[s] \in Loads,
         Written(s), shown' = shown, NEW n \in Node
  PROVE  /\ n \in SavedNodes(s) => Kept(n)'
         /\ Kept(n) => Kept(n)'
  <1> DEFINE rs == {batch.saving[s][i] : i \in DOMAIN batch.saving[s]}
  <1>1. \A r \in rs : r \in Entries
    BY EntryPlaces DEF Entries
  <1>2. CASE stored' = stored /\ batch'.lost = batch.lost \cup SavedNodes(s)
    BY <1>2 DEF Kept
  <1>3. CASE stored' = Saved(s) /\ batch'.lost = batch.lost
    <2>1. batch.loaded[s][n] \in {stored[n], "absent"}
      BY DEF Loads, Emptied
    <2>2. CASE n \in SavedNodes(s) /\ batch.loaded[s][n] # "absent"
      <3> DEFINE r == CHOOSE r \in rs : r.node = n
      <3>1. r \in rs /\ r.node = n
        BY <2>2 DEF SavedNodes
      <3>2. Saved(s)[n] = r.row
        BY <2>2 DEF Saved
      <3> HIDE DEF r
      <3>3. QED BY <1>1, <1>3, <3>1, <3>2 DEF EntriesShown, Kept
    <2>3. CASE ~(n \in SavedNodes(s) /\ batch.loaded[s][n] # "absent")
      <3>1. Saved(s)[n] = batch.loaded[s][n]
        BY <2>3 DEF Saved
      <3>2. QED BY <1>3, <2>1, <2>3, <3>1 DEF Kept
    <2>4. QED BY <2>2, <2>3
  <1>4. QED BY <1>2, <1>3 DEF Written

SavedInv == SaveInv /\ RowsStored

LEMMA InitSaved == Init => SavedInv
  <1> SUFFICES ASSUME Init PROVE SavedInv
    OBVIOUS
  <1>1. /\ tasks = <<>> /\ task = [t \in Worker |-> NoTask] /\ answers = {}
        /\ shown = Unloaded /\ stored = Unloaded /\ ~batch.testing /\ batch.pending = <<>>
        /\ batch.slot = [s \in Slot |-> "done"] /\ batch.saving = [s \in Slot |-> <<>>]
    BY DEF Init
  <1>2. Held = {}
    BY <1>1 DEF Held, Work
  <1>3. Entries = {}
    BY <1>1, EntryPlaces, EmptyItems DEF Entries
  <1>4. OneSave
    BY <1>1 DEF OneSave
  <1>5. QED BY <1>1, <1>2, <1>3, <1>4
            DEF SavedInv, SaveInv, MeasuredOnce, EntriesShown, NoneForgotten, Kept, RowsStored

LEMMA StillSaved ==
  ASSUME SavedInv, UNCHANGED <<batch, shown, stored>>, Held' = Held
  PROVE  SavedInv'
  <1>1. Entries' = Entries
    BY DEF Entries
  <1>2. \A n : Comes(n)' <=> Comes(n)
    BY DEF Comes
  <1>3. QED BY <1>1, <1>2
            DEF SavedInv, SaveInv, OneSave, Loads, MeasuredOnce, EntriesShown, NoneForgotten, Kept, RowsStored

LEMMA StartSaves ==
  ASSUME TypeInv, OwnInv, SavedInv, EachNodeOnce, StartBatch
  PROVE  SavedInv'
  <1>1. /\ ~batch.testing /\ batch'.testing /\ batch'.next = Slots + 1
        /\ batch'.pending = batch.pending /\ batch'.saving = batch.saving
        /\ batch'.loaded = batch.loaded
        /\ \A s \in Slot : batch'.slot[s] = IF s <= Len(Targets) THEN "measuring" ELSE "done"
    BY StartEffect
  <1>2. batch.pending = <<>> /\ \A s \in Slot : batch.saving[s] = <<>>
    BY <1>1 DEF OwnInv, SlotsOfBatch, SavedInv, SaveInv, OneSave
  <1>3. Entries' = {}
    BY <1>1, <1>2, EntryPlaces, EmptyItems DEF Entries
  <1>4. Held' = {Ask("slot", s, Targets[s]) : s \in Slot \cap DOMAIN Targets}
    BY StartKeepsOwn
  <1>5. OneSave'
    BY <1>1, <1>2 DEF OneSave
  <1>6. /\ Slots \in Nat /\ DOMAIN Targets = 1..Len(Targets) /\ Len(Targets) \in Nat
        /\ Slot = 1..Slots
    BY DelayAssumption DEF Slot
  <1>7. \A n : Comes(n)' <=> \E i \in DOMAIN Targets : i >= Slots + 1 /\ Targets[i] = n
    BY <1>1 DEF Comes
  <1>8. \A s : Ask("slot", s, Targets[s]).config = Targets[s]
    BY DEF Ask
  <1>9. MeasuredOnce'
    <2>1. ASSUME NEW k \in Held', NEW l \in Held', k.config = l.config
          PROVE  k = l
      <3>1. PICK s \in Slot \cap DOMAIN Targets : k = Ask("slot", s, Targets[s])
        BY <1>4
      <3>2. PICK r \in Slot \cap DOMAIN Targets : l = Ask("slot", r, Targets[r])
        BY <1>4
      <3>3. s = r
        BY <1>8, <2>1, <3>1, <3>2 DEF EachNodeOnce
      <3>4. QED BY <3>1, <3>2, <3>3
    <2>2. ASSUME NEW k \in Held'
          PROVE  ~Comes(k.config)'
      <3>1. PICK s \in Slot \cap DOMAIN Targets : k = Ask("slot", s, Targets[s])
        BY <1>4
      <3>2. ASSUME NEW i \in DOMAIN Targets, i >= Slots + 1, Targets[i] = k.config
            PROVE  FALSE
        <4>1. i = s
          BY <1>8, <3>1, <3>2 DEF EachNodeOnce
        <4>2. QED BY <1>6, <3>2, <4>1
      <3>3. QED BY <1>7, <3>2
    <2>3. QED BY <1>3, <2>1, <2>2 DEF MeasuredOnce
  <1>10. NoneForgotten'
    <2> SUFFICES ASSUME NEW n \in Node
                 PROVE  Comes(n)' \/ \E k \in Held' : k.config = n
      BY DEF NoneForgotten
    <2>1. PICK i \in DOMAIN Targets : Targets[i] = n
      BY DEF Node
    <2>2. CASE i \in Slot
      BY <1>4, <1>8, <2>1, <2>2
    <2>3. CASE i \notin Slot
      <3>1. i >= Slots + 1
        BY <1>6, <2>3
      <3>2. QED BY <1>7, <2>1, <3>1
    <2>4. QED BY <2>2, <2>3
  <1>11. QED BY <1>1, <1>3, <1>5, <1>9, <1>10 DEF SavedInv, SaveInv, EntriesShown, RowsStored

(* A slot that goes on asks for a node that was not asked for.             *)
LEMMA AskedOnce ==
  ASSUME TypeInv, MeasuredOnce, EachNodeOnce, batch.testing, NEW s,
         \/ Held' \subseteq Held /\ (batch'.next = batch.next \/ batch'.next = batch.next + 1)
         \/ /\ Held' \subseteq Held \cup {NextTask(s)} /\ batch'.next = batch.next + 1
            /\ batch.next \in DOMAIN Targets /\ NextTask(s).config = Targets[batch.next],
         \A e \in Entries' : ~Comes(e.node) /\ \A k \in Held \cap Held' : k.config # e.node
  PROVE  MeasuredOnce'
  <1>1. batch.next \in Nat /\ \A i \in DOMAIN Targets : i \in Nat
    BY TypeFacts, DelayAssumption DEF Batch
  <1>2. \A n : Comes(n)' => Comes(n)
    BY <1>1 DEF Comes
  <1>3. CASE Held' \subseteq Held
    BY <1>2, <1>3 DEF MeasuredOnce
  <1>4. CASE /\ Held' \subseteq Held \cup {NextTask(s)} /\ batch'.next = batch.next + 1
             /\ batch.next \in DOMAIN Targets /\ NextTask(s).config = Targets[batch.next]
    <2>0. PICK n : n = Targets[batch.next]
      OBVIOUS
    <2>1. Comes(n)
      BY <1>1, <1>4, <2>0 DEF Comes
    <2>2. ~Comes(n)'
      <3>1. ASSUME NEW i \in DOMAIN Targets, i >= batch.next + 1, Targets[i] = n
            PROVE  FALSE
        <4>1. i = batch.next
          BY <1>4, <2>0, <3>1 DEF EachNodeOnce
        <4>2. QED BY <1>1, <3>1, <4>1
      <3>2. QED BY <1>4, <3>1 DEF Comes
    <2>3. \A k \in Held' : k \in Held \/ (k = NextTask(s) /\ k.config = n)
      BY <1>4, <2>0
    <2>4. \A k \in Held : k.config # n
      BY <2>1 DEF MeasuredOnce
    <2>5. \A k, l \in Held' : k.config = l.config => k = l
      BY <2>3, <2>4 DEF MeasuredOnce
    <2>6. \A k \in Held' : ~Comes(k.config)'
      BY <1>2, <2>2, <2>3 DEF MeasuredOnce
    <2>7. \A e \in Entries' : ~Comes(e.node)' /\ \A k \in Held' : k.config # e.node
      BY <1>2, <2>1, <2>3
    <2>8. QED BY <2>5, <2>6, <2>7 DEF MeasuredOnce
  <1>5. QED BY <1>3, <1>4

LEMMA ResumeSaves ==
  ASSUME TypeInv, OwnInv, SavedInv, EachNodeOnce,
         NEW s \in Slot, NEW a \in answers, Resumed(s, a)
  PROVE  SavedInv'
  <1> DEFINE e == ResultOf(a)
  <1>1. /\ Asked(a) \in Held /\ Asked(a).id = s /\ Asked(a).config = a.config
        /\ a.config \in Node /\ batch.slot[s] = "measuring" /\ batch.testing
    BY AnswerOfSlot DEF Resumed
  <1>2. /\ \/ Held' = {k \in Held : k.id # s} /\ batch'.next = batch.next /\ batch'.slot[s] = "flushing"
           \/ /\ Held' = {k \in Held : k.id # s} /\ batch.next > Len(Targets)
              /\ batch'.slot[s] = "done" /\ batch'.next = batch.next + 1
           \/ /\ Held' = {k \in Held : k.id # s} \cup {NextTask(s)} /\ batch'.next = batch.next + 1
              /\ batch.next \in DOMAIN Targets /\ Targets[batch.next] \in Node
              /\ NextTask(s).id = s /\ NextTask(s).config = Targets[batch.next]
              /\ batch'.slot[s] = "measuring"
    BY ResumeHeld
  <1>3. /\ batch'.testing = batch.testing /\ OtherSlots(s) /\ batch'.lost = batch.lost
        /\ \/ /\ ~batch.flushing /\ batch'.flushing
              /\ batch'.slot[s] = "flushing" /\ batch'.pending = <<>>
              /\ batch'.saving[s] = Append(batch.pending, e) /\ batch'.loaded[s] \in Loads
           \/ /\ batch'.slot[s] \in {"done", "measuring"} /\ batch'.flushing = batch.flushing
              /\ batch'.pending = Append(batch.pending, e) /\ batch'.saving[s] = batch.saving[s]
    BY <1>1, ResumeEffect DEF GoesOn
  <1>4. stored' = stored /\ shown' = [shown EXCEPT ![a.config] = RowOf(a)]
    BY DEF Resumed
  <1>5. /\ OneSave /\ MeasuredOnce /\ EntriesShown /\ NoneForgotten
        /\ \A r \in Slot : batch.slot[r] # "ending"
    BY <1>1 DEF SavedInv, SaveInv, OwnInv, SlotsOfBatch
  <1>6. e \in Entry /\ e.node = a.config /\ e.row = RowOf(a) /\ batch.pending \in Seq(Entry)
    BY <1>1, WithResultType, TypeFacts DEF ResultOf, Batch
  <1>7. batch.saving[s] = <<>>
    BY <1>1, <1>5 DEF OneSave
  <1> HIDE DEF e
  <1>8. ASSUME NEW x
        PROVE  x \in Entries' <=> x \in Entries \/ x = e
    <2> DEFINE q == Append(batch.pending, e)
    <2>1. (\E i \in DOMAIN q : x = q[i]) <=> x = e \/ \E i \in DOMAIN batch.pending : x = batch.pending[i]
      <3>1. q = Append(batch.pending, e)
        OBVIOUS
      <3> HIDE DEF q
      <3>2. QED BY <1>6, <3>1, AppendItems
    <2>0. q = Append(batch.pending, e)
      OBVIOUS
    <2> HIDE DEF q
    <2>2. ~\E i \in DOMAIN batch.saving[s] : x = batch.saving[s][i]
      BY <1>7, EmptyItems
    <2>3. \A r \in Slot \ {s} : batch'.saving[r] = batch.saving[r]
      BY <1>3 DEF OtherSlots
    <2>4. x \in EntriesOf(batch) <=>
            \/ \E i \in DOMAIN batch.pending : x = batch.pending[i]
            \/ \E r \in Slot \ {s} : \E i \in DOMAIN batch.saving[r] : x = batch.saving[r][i]
      BY <2>2, EntryPlaces
    <2>5. x \in EntriesOf(batch') <=>
            \/ \E i \in DOMAIN batch'.pending : x = batch'.pending[i]
            \/ \E i \in DOMAIN batch'.saving[s] : x = batch'.saving[s][i]
            \/ \E r \in Slot \ {s} : \E i \in DOMAIN batch.saving[r] : x = batch.saving[r][i]
      BY <2>3, EntryPlaces
    <2>6. CASE batch'.pending = <<>> /\ batch'.saving[s] = q
      BY <2>1, <2>4, <2>5, <2>6, EmptyItems DEF Entries
    <2>7. CASE batch'.pending = q /\ batch'.saving[s] = batch.saving[s]
      BY <2>1, <2>2, <2>4, <2>5, <2>7 DEF Entries
    <2>8. QED BY <1>3, <2>0, <2>6, <2>7
  <1>9. OneSave'
    <2>1. \A r \in Slot \ {s} : /\ batch'.slot[r] = batch.slot[r] /\ batch'.saving[r] = batch.saving[r]
                                /\ batch'.loaded[r] = batch.loaded[r]
      BY <1>3 DEF OtherSlots
    <2>2. CASE batch'.slot[s] = "flushing" /\ ~batch.flushing /\ batch'.flushing
               /\ batch'.loaded[s] \in Loads
      <3>1. \A r \in Slot : batch.slot[r] # "flushing"
        BY <1>5, <2>2 DEF OneSave, Loads
      <3>2. QED BY <1>4, <1>5, <2>1, <2>2, <3>1 DEF OneSave, Loads
    <2>3. CASE /\ batch'.slot[s] \in {"done", "measuring"} /\ batch'.flushing = batch.flushing
               /\ batch'.saving[s] = batch.saving[s]
      BY <1>4, <1>5, <1>7, <2>1, <2>3 DEF OneSave, Loads
    <2>4. QED BY <1>3, <2>2, <2>3
  <1>10. \A k \in Held : k.id # s => k.config # a.config
    BY <1>1, <1>5 DEF MeasuredOnce
  <1>11. \A k \in Held : k.id = s => k.config = a.config
    <2>1. \A k \in Held : k.id = s => k = Asked(a)
      BY <1>1, HeldUnique DEF OwnInv
    <2>2. QED BY <1>1, <2>1
  <1>12. MeasuredOnce'
    <2>1. \/ Held' \subseteq Held /\ (batch'.next = batch.next \/ batch'.next = batch.next + 1)
          \/ /\ Held' \subseteq Held \cup {NextTask(s)} /\ batch'.next = batch.next + 1
             /\ batch.next \in DOMAIN Targets /\ NextTask(s).config = Targets[batch.next]
      BY <1>2
    <2>2. \A k \in Held \cap Held' : k.id # s
      <3>1. \A k \in Held : k.config = a.config => ~Comes(k.config)
        BY <1>5 DEF MeasuredOnce
      <3>2. CASE Held' = {k \in Held : k.id # s}
        BY <3>2
      <3>3. CASE /\ Held' = {k \in Held : k.id # s} \cup {NextTask(s)}
                 /\ batch.next \in DOMAIN Targets /\ NextTask(s).config = Targets[batch.next]
        <4>1. Comes(NextTask(s).config)
          BY <1>1, <3>3, TypeFacts, DelayAssumption DEF Comes, Batch
        <4>2. NextTask(s) \notin Held
          BY <1>5, <4>1 DEF MeasuredOnce
        <4>3. QED BY <3>3, <4>2
      <3>4. QED BY <1>2, <3>2, <3>3
    <2>3. ~Comes(a.config)
      BY <1>1, <1>5 DEF MeasuredOnce
    <2>4. \A x \in Entries' : ~Comes(x.node) /\ \A k \in Held \cap Held' : k.config # x.node
      BY <1>5, <1>6, <1>8, <1>10, <2>2, <2>3 DEF MeasuredOnce
    <2>5. QED BY <1>1, <1>5, <2>1, <2>4, AskedOnce
  <1>13. EntriesShown'
    <2>1. \A x \in Entries : x.node # a.config /\ x.node \in Node
      BY <1>1, <1>5, EntriesType DEF MeasuredOnce
    <2>2. QED BY <1>1, <1>4, <1>5, <1>6, <1>8, <2>1, TypeFacts DEF EntriesShown
  <1>14. NoneForgotten'
    <2> SUFFICES ASSUME NEW n \in Node
                 PROVE  \/ Comes(n)' \/ (\E k \in Held' : k.config = n)
                        \/ (\E x \in Entries' : x.node = n) \/ Kept(n)'
      BY DEF NoneForgotten
    <2>1. CASE n = a.config
      BY <1>6, <1>8, <2>1
    <2>2. CASE n # a.config /\ Comes(n)
      <3>1. PICK i \in DOMAIN Targets : i >= batch.next /\ Targets[i] = n
        BY <2>2 DEF Comes
      <3>2. batch.next \in Nat /\ i \in 1..Len(Targets) /\ Len(Targets) \in Nat
        BY TypeFacts, DelayAssumption DEF Batch
      <3>3. CASE batch'.next = batch.next
        BY <1>1, <1>3, <3>1, <3>3 DEF Comes
      <3>4. CASE /\ Held' = {k \in Held : k.id # s} \cup {NextTask(s)} /\ batch'.next = batch.next + 1
                 /\ NextTask(s).config = Targets[batch.next]
        <4>1. CASE i = batch.next
          BY <3>1, <3>4, <4>1
        <4>2. CASE i >= batch.next + 1
          BY <1>1, <1>3, <3>1, <3>4, <4>2 DEF Comes
        <4>3. QED BY <3>1, <3>2, <4>1, <4>2
      <3>5. QED BY <1>2, <3>1, <3>2, <3>3, <3>4
    <2>3. CASE n # a.config /\ \E k \in Held : k.config = n
      BY <1>2, <1>11, <2>3
    <2>4. CASE n # a.config /\ ((\E x \in Entries : x.node = n) \/ Kept(n))
      BY <1>3, <1>4, <1>8, <2>4, TypeFacts DEF Kept
    <2>5. QED BY <1>5, <2>1, <2>2, <2>3, <2>4 DEF NoneForgotten
  <1>15. QED BY <1>1, <1>3, <1>9, <1>12, <1>13, <1>14 DEF SavedInv, SaveInv, RowsStored

LEMMA FlushSaves ==
  ASSUME TypeInv, OwnInv, SavedInv, EachNodeOnce, NEW s \in Slot, FlushEnds(s)
  PROVE  SavedInv'
  <1>1. batch.slot[s] = "flushing"
    BY DEF FlushEnds
  <1>2. /\ OneSave /\ MeasuredOnce /\ EntriesShown /\ NoneForgotten /\ HeldBySlot /\ batch.testing
        /\ \A r \in Slot : batch.slot[r] # "ending"
    <2>1. \A r \in Slot : batch.slot[r] = "ending" => s = 1 /\ r = 1
      BY <1>1 DEF OwnInv, SlotsOfBatch
    <2>2. QED BY <1>1, <2>1 DEF SavedInv, SaveInv, OwnInv, SlotsOfBatch
  <1>3. /\ batch'.testing = batch.testing /\ OtherSlots(s) /\ GoesOn(s)
        /\ batch'.pending = batch.pending /\ batch'.saving[s] = <<>>
        /\ Written(s) /\ shown' = shown
    BY FlushEffect
  <1>4. /\ batch'.next = batch.next + 1 /\ batch'.slot[s] \in {"done", "measuring"}
        /\ \A r \in Slot \ {s} : /\ batch'.slot[r] = batch.slot[r] /\ batch'.saving[r] = batch.saving[r]
                                 /\ batch'.loaded[r] = batch.loaded[r]
    BY <1>3 DEF GoesOn, OtherSlots
  <1>5. \/ Held' = Held /\ batch.next > Len(Targets) /\ batch'.slot[s] = "done"
        \/ /\ Held' = Held \cup {NextTask(s)} /\ batch.next \in DOMAIN Targets
           /\ NextTask(s).id = s /\ NextTask(s).config = Targets[batch.next]
    BY FlushKeepsOwn
  <1>6. ASSUME NEW x
        PROVE  x \in Entries <=> x \in Entries' \/ \E i \in DOMAIN batch.saving[s] : x = batch.saving[s][i]
    <2>1. x \in EntriesOf(batch) <=>
            \/ \E i \in DOMAIN batch.pending : x = batch.pending[i]
            \/ \E i \in DOMAIN batch.saving[s] : x = batch.saving[s][i]
            \/ \E r \in Slot \ {s} : \E i \in DOMAIN batch.saving[r] : x = batch.saving[r][i]
      BY EntryPlaces
    <2>2. x \in EntriesOf(batch') <=>
            \/ \E i \in DOMAIN batch.pending : x = batch.pending[i]
            \/ \E r \in Slot \ {s} : \E i \in DOMAIN batch.saving[r] : x = batch.saving[r][i]
      <3>1. x \in EntriesOf(batch') <=>
              \/ \E i \in DOMAIN batch'.pending : x = batch'.pending[i]
              \/ \E i \in DOMAIN batch'.saving[s] : x = batch'.saving[s][i]
              \/ \E r \in Slot \ {s} : \E i \in DOMAIN batch.saving[r] : x = batch.saving[r][i]
        BY <1>4, EntryPlaces
      <3>2. QED BY <1>3, <3>1, EmptyItems
    <2>3. QED BY <2>1, <2>2 DEF Entries
  <1>7. \A n \in Node :
          /\ (\E i \in DOMAIN batch.saving[s] : batch.saving[s][i].node = n) => Kept(n)'
          /\ Kept(n) => Kept(n)'
    <2>1. batch.loaded[s] \in Loads
      BY <1>1, <1>2 DEF OneSave
    <2>2. QED BY <1>2, <1>3, <2>1, SavedRows DEF SavedNodes
  <1>8. OneSave'
    <2>1. \A r \in Slot \ {s} : batch.slot[r] \notin {"flushing", "ending"}
      BY <1>1, <1>2 DEF OneSave
    <2>2. QED BY <1>2, <1>3, <1>4, <2>1 DEF OneSave
  <1>9. MeasuredOnce'
    <2>1. \A x \in Entries' : ~Comes(x.node) /\ \A k \in Held \cap Held' : k.config # x.node
      BY <1>2, <1>6 DEF MeasuredOnce
    <2>2. \/ Held' \subseteq Held /\ (batch'.next = batch.next \/ batch'.next = batch.next + 1)
          \/ /\ Held' \subseteq Held \cup {NextTask(s)} /\ batch'.next = batch.next + 1
             /\ batch.next \in DOMAIN Targets /\ NextTask(s).config = Targets[batch.next]
      BY <1>4, <1>5
    <2>3. QED BY <1>2, <2>1, <2>2, AskedOnce
  <1>10. EntriesShown'
    BY <1>2, <1>3, <1>6 DEF EntriesShown
  <1>11. NoneForgotten'
    <2> SUFFICES ASSUME NEW n \in Node
                 PROVE  \/ Comes(n)' \/ (\E k \in Held' : k.config = n)
                        \/ (\E x \in Entries' : x.node = n) \/ Kept(n)'
      BY DEF NoneForgotten
    <2>1. CASE Comes(n)
      <3>1. PICK i \in DOMAIN Targets : i >= batch.next /\ Targets[i] = n
        BY <2>1 DEF Comes
      <3>2. batch.next \in Nat /\ i \in 1..Len(Targets) /\ Len(Targets) \in Nat
        BY TypeFacts, DelayAssumption DEF Batch
      <3>3. CASE i = batch.next
        BY <1>5, <3>1, <3>2, <3>3
      <3>4. CASE i >= batch.next + 1
        BY <1>2, <1>3, <1>4, <3>1, <3>4 DEF Comes
      <3>5. QED BY <3>1, <3>2, <3>3, <3>4
    <2>2. CASE \E k \in Held : k.config = n
      BY <1>5, <2>2
    <2>3. CASE \E x \in Entries : x.node = n
      BY <1>3, <1>6, <1>7, <2>3
    <2>4. CASE Kept(n)
      BY <1>7, <2>4
    <2>5. QED BY <1>2, <2>1, <2>2, <2>3, <2>4 DEF NoneForgotten
  <1>12. QED BY <1>2, <1>3, <1>8, <1>9, <1>10, <1>11 DEF SavedInv, SaveInv, RowsStored

(* When no node is in measurement and none is to come, what is not to be   *)
(* saved is in the preferences.                                            *)
LEMMA AllMeasured ==
  ASSUME TypeInv, OwnInv, SavedInv, batch.testing,
         \A s \in Slot : batch.slot[s] \in {"done", "ending"}
  PROVE  /\ \A n : ~Comes(n)
         /\ \A n \in Node : (\E e \in Entries : e.node = n) \/ Kept(n)
  <1>1. 1 \in Slot
    BY DelayAssumption DEF Slot
  <1>2. batch.next > Len(Targets)
    BY <1>1 DEF OwnInv, SlotsOfBatch
  <1>3. ASSUME NEW n, Comes(n)
        PROVE  FALSE
    <2>1. PICK i \in DOMAIN Targets : i >= batch.next
      BY <1>3 DEF Comes
    <2>2. batch.next \in Nat /\ i \in 1..Len(Targets) /\ Len(Targets) \in Nat
      BY TypeFacts, DelayAssumption DEF Batch
    <2>3. QED BY <1>2, <2>1, <2>2
  <1>4. Held = {}
    BY DEF OwnInv, HeldBySlot
  <1>5. QED BY <1>3, <1>4 DEF SavedInv, SaveInv, NoneForgotten

LEMMA FinalSaves ==
  ASSUME TypeInv, OwnInv, SavedInv, FinalSave
  PROVE  SavedInv'
  <1>1. /\ batch.testing /\ \A s \in Slot : batch.slot[s] = "done"
        /\ batch'.next = batch.next /\ OtherSlots(1) /\ 1 \in Slot
        /\ stored' = stored /\ shown' = shown /\ batch'.lost = batch.lost
        /\ \/ /\ batch.pending = <<>> /\ batch'.pending = <<>> /\ ~batch'.testing
              /\ batch'.slot[1] = "done" /\ batch'.saving[1] = batch.saving[1]
           \/ /\ batch'.testing /\ batch'.pending = <<>>
              /\ batch'.slot[1] = "ending" /\ batch'.saving[1] = batch.pending
              /\ batch'.loaded[1] \in Loads
    BY FinalEffect
  <1>2. /\ \A n : ~Comes(n)
        /\ \A n \in Node : (\E e \in Entries : e.node = n) \/ Kept(n)
    BY <1>1, AllMeasured
  <1>3. OneSave /\ EntriesShown /\ \A s \in Slot : batch.saving[s] = <<>>
    BY <1>1 DEF SavedInv, SaveInv, OneSave
  <1>4. \A r \in Slot \ {1} : /\ batch'.slot[r] = batch.slot[r] /\ batch'.saving[r] = batch.saving[r]
                              /\ batch'.loaded[r] = batch.loaded[r]
    BY <1>1 DEF OtherSlots
  <1>5. ASSUME NEW x
        PROVE  x \in Entries' <=> x \in Entries
    <2>1. x \in EntriesOf(batch) <=> \E i \in DOMAIN batch.pending : x = batch.pending[i]
      BY <1>3, EntryPlaces, EmptyItems
    <2>2. x \in EntriesOf(batch') <=> \E i \in DOMAIN batch.pending : x = batch.pending[i]
      <3>1. x \in EntriesOf(batch') <=>
              \/ \E i \in DOMAIN batch'.pending : x = batch'.pending[i]
              \/ \E i \in DOMAIN batch'.saving[1] : x = batch'.saving[1][i]
        BY <1>1, <1>3, <1>4, EntryPlaces, EmptyItems
      <3>2. QED BY <1>1, <1>3, <3>1, EmptyItems
    <2>3. QED BY <2>1, <2>2 DEF Entries
  <1>6. OneSave'
    BY <1>1, <1>3, <1>4 DEF OneSave, Loads
  <1>7. Held' = {} /\ \A n : ~Comes(n)'
    <2>1. \A n : ~Comes(n)'
      BY <1>1, <1>2 DEF Comes
    <2>2. QED BY <2>1, SavesKeepOwn
  <1>8. MeasuredOnce' /\ EntriesShown' /\ NoneForgotten'
    BY <1>1, <1>2, <1>3, <1>5, <1>7 DEF MeasuredOnce, EntriesShown, NoneForgotten, Kept
  <1>9. RowsStored'
    <2>1. CASE batch.pending = <<>>
      <3>1. ~\E e \in Entries : TRUE
        BY <1>3, <2>1, EntryPlaces, EmptyItems DEF Entries
      <3>2. QED BY <1>1, <1>2, <3>1 DEF RowsStored, Kept
    <2>2. CASE batch.pending # <<>>
      BY <1>1, <2>2 DEF RowsStored
    <2>3. QED BY <2>1, <2>2
  <1>10. QED BY <1>6, <1>8, <1>9 DEF SavedInv, SaveInv

LEMMA EndSaves ==
  ASSUME TypeInv, OwnInv, SavedInv, EndBatch
  PROVE  SavedInv'
  <1>1. /\ batch.slot[1] = "ending" /\ ~batch'.testing /\ batch'.slot[1] = "done"
        /\ OtherSlots(1) /\ 1 \in Slot /\ batch'.saving[1] = <<>> /\ batch'.pending = batch.pending
        /\ Written(1) /\ shown' = shown
    BY EndEffect
  <1>2. /\ batch.pending = <<>> /\ batch.testing
        /\ \A r \in Slot \ {1} : batch.slot[r] = "done"
    BY <1>1 DEF OwnInv, SlotsOfBatch
  <1>3. OneSave /\ EntriesShown /\ \A r \in Slot \ {1} : batch.saving[r] = <<>>
    BY <1>2 DEF SavedInv, SaveInv, OneSave
  <1>4. \A n \in Node : (\E e \in Entries : e.node = n) \/ Kept(n)
    <2>1. \A s \in Slot : batch.slot[s] \in {"done", "ending"}
      BY <1>1, <1>2
    <2>2. QED BY <1>2, <2>1, AllMeasured
  <1>5. \A e \in Entries : \E i \in DOMAIN batch.saving[1] : e = batch.saving[1][i]
    BY <1>2, <1>3, EntryPlaces, EmptyItems DEF Entries
  <1>7. \A n \in Node : Kept(n)'
    <2>1. batch.loaded[1] \in Loads
      BY <1>1, <1>3 DEF OneSave
    <2>2. \A n \in Node : n \in SavedNodes(1) \/ Kept(n)
      BY <1>4, <1>5 DEF SavedNodes
    <2>3. QED BY <1>1, <1>3, <2>1, <2>2, SavedRows
  <1>8. \A r \in Slot \ {1} : batch'.slot[r] = "done" /\ batch'.saving[r] = <<>>
    BY <1>1, <1>2, <1>3 DEF OtherSlots
  <1>9. OneSave'
    BY <1>1, <1>8 DEF OneSave
  <1>10. ~\E e \in Entries' : TRUE
    <2>1. \A r \in Slot : batch'.saving[r] = <<>>
      BY <1>1, <1>8
    <2>2. QED BY <1>1, <1>2, <2>1, EntryPlaces, EmptyItems DEF Entries
  <1>11. Held' = {} /\ \A n : ~Comes(n)'
    BY <1>1, SavesKeepOwn DEF Comes
  <1>12. QED BY <1>7, <1>9, <1>10, <1>11
             DEF SavedInv, SaveInv, MeasuredOnce, EntriesShown, NoneForgotten, Kept, RowsStored

LEMMA StepKeepsSaved ==
  ASSUME TypeInv, OwnInv, SavedInv, EachNodeOnce, [Next]_vars
  PROVE  SavedInv'
  <1>1. CASE PoolStep
    <2>1. UNCHANGED <<batch, shown, stored>>
      BY <1>1 DEF PoolStep, MeasureOtherwise, RunNativeDelayTest, Measured, delayVars
    <2>2. QED BY <1>1, <2>1, CallKeepsOwn, StillSaved
  <1>2. CASE SessionStep
    <2>1. SessionActs
      BY <1>2 DEF SessionStep, SessionActs
    <2>2. UNCHANGED <<batch, shown, stored>>
      BY <2>1, SessionEffect
    <2>3. QED BY <2>1, <2>2, CallKeepsOwn, StillSaved
  <1>3. CASE StartBatch
    BY <1>3, StartSaves
  <1>4. CASE FinalSave
    BY <1>4, FinalSaves
  <1>5. CASE EndBatch
    BY <1>5, EndSaves
  <1>6. ASSUME NEW s \in Slot, ResumeSlot(s)
        PROVE  SavedInv'
    BY <1>6, ResumeSlotIsResumed, ResumeSaves
  <1>7. ASSUME NEW s \in Slot, FlushEnds(s)
        PROVE  SavedInv'
    BY <1>7, FlushSaves
  <1>8. CASE UNCHANGED vars
    <2>1. UNCHANGED <<batch, shown, stored, tasks, task, answers>>
      BY <1>8 DEF vars
    <2>2. Held' = Held
      BY <2>1, PingStepMoves DEF OwnInv
    <2>3. QED BY <2>1, <2>2, StillSaved
  <1>9. QED BY <1>1, <1>2, <1>3, <1>4, <1>5, <1>6, <1>7, <1>8 DEF Next, BatchStep

(* After a batch the preferences hold what the rows show, but for the      *)
(* nodes they lost and the results of writes that failed, for every number *)
(* of slots and every threshold of the saves: a save loads and writes      *)
(* alone, because a slot that finds another in it leaves its result for    *)
(* later, and the last save takes what is left (flush, runRealDelayBatch). *)
(* A batch lists a node once.                                              *)
THEOREM BatchStored ==
  ASSUME EachNodeOnce
  PROVE  Spec => []RowsStored
  <1>1. Init => SavedInv
    BY InitSaved
  <1>2. TypeInv /\ OwnInv /\ SavedInv /\ [Next]_vars => SavedInv'
    BY EachNodeOnce, StepKeepsSaved
  <1>3. SavedInv => RowsStored
    BY DEF SavedInv
  <1>4. QED BY <1>1, <1>2, <1>3, MeasuringInvariant, PTL DEF Spec

=============================================================================
