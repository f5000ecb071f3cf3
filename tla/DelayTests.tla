----------------------------- MODULE DelayTests -----------------------------
(***************************************************************************)
(* The delay tests of the main process: the batch of the node list         *)
(* (Index.runRealDelayBatch), with its slots, its rows and its saves, and  *)
(* the delay of the current connection (RuntimeController).  Both hand     *)
(* their pings to the task pool, whose threads call PingService.  The      *)
(* ArkTS thread runs one continuation at a time.                           *)
(***************************************************************************)
EXTENDS PingService, Integers, SequencesExt

CONSTANTS Targets,      \* the nodes of a batch, by their configurations
          Slots,        \* number of slots of a batch
          BatchPort,    \* the port of each slot
          DefaultPort,  \* the port of a connection's measurement
          FlushAt,      \* results that are pending before a save
          MaxActs       \* bound: batches, sessions, tests of a connection
                        \* and failures of the store

ASSUME DelayAssumption ==
  /\ Targets \in Seq(Config) /\ Slots \in Nat \ {0}
  /\ BatchPort \in [1..Slots -> Port] /\ DefaultPort \in Port
  /\ FlushAt \in Nat \ {0} /\ MaxActs \in Nat

(* Slot w has the port 18100 + w, a measurement outside a batch 18085.     *)
ASSUME PortAssumption ==
  \A s \in 1..Slots : BatchPort[s] # DefaultPort /\ \A r \in 1..Slots \ {s} : BatchPort[r] # BatchPort[s]

(* No node is one of the other things a row can show.                      *)
ASSUME RowAssumption == Config \cap {"none", "testing", "failed", "absent", NoConfig} = {}

VARIABLES batch,    \* the running batch and its slots
          shown,    \* the delay each row shows
          stored,   \* the delays in the preferences
          runtime,  \* fields of RuntimeController
          acts,     \* number of those acts
          tasks,    \* queue of the task pool
          task,     \* the task each thread runs
          answers   \* results whose caller has not resumed

delayVars == <<batch, shown, stored, runtime, acts, tasks, task, answers>>
vars == <<file, ping, batch, shown, stored, runtime, acts, tasks, task, answers>>

Slot == 1..Slots
Node == {Targets[i] : i \in DOMAIN Targets}

(* What a row shows: nothing yet, a test under way, a failure, or a delay  *)
(* that was measured on a configuration (on none: the direct request that  *)
(* replaces a core that is unavailable).                                   *)
Row == {"none", "testing", "failed"} \cup Config \cup {NoConfig}

(* The preferences may have lost a node.                                   *)
StoredRow == Row \cup {"absent"}

Task == [owner : {"slot", "session"}, id : Nat, config : Config]
NoTask == [owner |-> "slot", id |-> 0, config |-> NoConfig]

RowOf(answer) == IF answer.ok THEN answer.seen ELSE "failed"

Ask(owner, id, config) == [owner |-> owner, id |-> id, config |-> config]

Answer(k, ok, seen) == [owner |-> k.owner, id |-> k.id, config |-> k.config,
                        ok |-> ok, seen |-> IF ok THEN seen ELSE NoConfig]

-----------------------------------------------------------------------------
(* The task pool.                                                          *)

(* Mutant: all measurements use the default port.                          *)
SharedPort(k) == DefaultPort

PortOf(k) == IF k.owner = "slot" THEN BatchPort[k.id] ELSE DefaultPort

RunNativeDelayTest(t) ==
  /\ tasks # <<>>
  /\ PingOutbound(t, PortOf(Head(tasks)), Head(tasks).config)
  /\ task' = [task EXCEPT ![t] = Head(tasks)]
  /\ tasks' = Tail(tasks)
  /\ UNCHANGED <<batch, shown, stored, runtime, acts, answers>>

(* A node that is measured by a TCP handshake, or whose configuration      *)
(* cannot be built, needs no native call.                                  *)
MeasureOtherwise == \E i \in DOMAIN tasks, ok \in BOOLEAN :
  /\ answers' = answers \cup {Answer(tasks[i], ok, tasks[i].config)}
  /\ tasks' = RemoveAt(tasks, i)
  /\ UNCHANGED <<pingVars, batch, shown, stored, runtime, acts, task>>

(* A failed ping of a core that is unavailable is replaced by a request    *)
(* that does not use the node.                                             *)
Measured(t) ==
  /\ Leave(t)
  /\ \E direct \in BOOLEAN :
       /\ direct => ~ping[t].ok
       /\ answers' = answers \cup
            {Answer(task[t], ping[t].ok \/ direct, IF direct THEN NoConfig ELSE ping[t].seen)}
  /\ task' = [task EXCEPT ![t] = NoTask]
  /\ UNCHANGED <<batch, shown, stored, runtime, acts, tasks>>

-----------------------------------------------------------------------------
(* The batch.  slot : where each of its loops waits; saving : the results  *)
(* a slot took out to save them; loaded : the delays it read for that.     *)
(* History: lost, the nodes of writes that failed in this batch.           *)

Act == acts < MaxActs /\ acts' = acts + 1

(* A read or a write of the store may fail.                                *)
Fails(failed) == IF failed THEN Act ELSE UNCHANGED acts

StartBatch ==
  /\ ~batch.testing /\ Act
  /\ batch' = [batch EXCEPT !.testing = TRUE, !.next = Slots + 1, !.flushing = FALSE, !.lost = {},
                 !.slot = [s \in Slot |-> IF s <= Len(Targets) THEN "measuring" ELSE "done"]]
  /\ shown' = [n \in Node |-> "testing"]
  /\ tasks' = tasks \o [s \in Slot \cap DOMAIN Targets |-> Ask("slot", s, Targets[s])]
  /\ UNCHANGED <<pingVars, stored, runtime, task, answers>>

(* Mutant: the slot is not done when no node is left.                      *)
ProceedUnended(s, b) ==
  IF b.next > Len(Targets) THEN batch' = b /\ UNCHANGED tasks
  ELSE /\ batch' = [b EXCEPT !.slot[s] = "measuring", !.next = @ + 1]
       /\ tasks' = Append(tasks, Ask("slot", s, Targets[b.next]))

(* The slot asks for its next node, or is done.                            *)
Proceed(s, b) ==
  IF b.next > Len(Targets)
  THEN /\ batch' = [b EXCEPT !.slot[s] = "done", !.next = @ + 1]
       /\ UNCHANGED tasks
  ELSE /\ batch' = [b EXCEPT !.slot[s] = "measuring", !.next = @ + 1]
       /\ tasks' = Append(tasks, Ask("slot", s, Targets[b.next]))

(* Mutant: a save begins while another is under way.                       *)
MayFlushAlways(b) == Len(b.pending) >= FlushAt

MayFlush(b) == Len(b.pending) >= FlushAt /\ ~b.flushing

(* saveNodeDelays loads the profile before it writes it; a read that fails *)
(* answers a profile without nodes.                                        *)
Emptied == [n \in Node |-> "absent"]

Loads == {stored, Emptied}

TakePending(b, s, l) ==
  [b EXCEPT !.pending = <<>>, !.saving[s] = b.pending, !.loaded[s] = l]

(* A slot whose node was measured.                                         *)
ResumeSlot(s) == \E a \in answers :
  /\ a.owner = "slot" /\ a.id = s
  /\ shown' = [shown EXCEPT ![a.config] = RowOf(a)]
  /\ LET b == [batch EXCEPT !.pending = Append(@, [node |-> a.config, row |-> RowOf(a)])] IN
     IF MayFlush(b)
     THEN /\ \E l \in Loads :
               /\ batch' = [TakePending(b, s, l) EXCEPT !.flushing = TRUE, !.slot[s] = "flushing"]
               /\ Fails(l # stored)
          /\ UNCHANGED tasks
     ELSE Proceed(s, b) /\ UNCHANGED acts
  /\ answers' = answers \ {a}
  /\ UNCHANGED <<pingVars, stored, runtime, task>>

SavedNodes(s) == {batch.saving[s][i].node : i \in DOMAIN batch.saving[s]}

(* The delays of a save: the rows of its results over what it loaded.      *)
Saved(s) ==
  [n \in Node |-> IF n \in SavedNodes(s) /\ batch.loaded[s][n] # "absent"
                  THEN (CHOOSE r \in {batch.saving[s][i] : i \in DOMAIN batch.saving[s]} : r.node = n).row
                  ELSE batch.loaded[s][n]]

Unloaded == [n \in Node |-> "none"]

(* A write that fails is ignored, and its results were taken out.          *)
AfterSave(b, s, written) ==
  [b EXCEPT !.saving[s] = <<>>, !.loaded[s] = Unloaded,
            !.lost = IF written THEN @ ELSE @ \cup SavedNodes(s)]

FlushEnds(s) ==
  /\ batch.slot[s] = "flushing"
  /\ \E written \in BOOLEAN :
       /\ stored' = IF written THEN Saved(s) ELSE stored
       /\ Proceed(s, [AfterSave(batch, s, written) EXCEPT !.flushing = FALSE])
       /\ Fails(~written)
  /\ UNCHANGED <<pingVars, shown, runtime, task, answers>>

(* All slots are done: what is left is saved.                              *)
FinalSave ==
  /\ batch.testing /\ \A s \in Slot : batch.slot[s] = "done"
  /\ IF batch.pending = <<>>
     THEN batch' = [batch EXCEPT !.testing = FALSE] /\ UNCHANGED acts
     ELSE \E l \in Loads :
            /\ batch' = [TakePending(batch, 1, l) EXCEPT !.flushing = FALSE, !.slot[1] = "ending"]
            /\ Fails(l # stored)
  /\ UNCHANGED <<pingVars, shown, stored, runtime, tasks, task, answers>>

EndBatch ==
  /\ batch.slot[1] = "ending"
  /\ \E written \in BOOLEAN :
       /\ stored' = IF written THEN Saved(1) ELSE stored
       /\ batch' = [AfterSave(batch, 1, written) EXCEPT !.testing = FALSE, !.slot[1] = "done"]
       /\ Fails(~written)
  /\ UNCHANGED <<pingVars, shown, runtime, tasks, task, answers>>

-----------------------------------------------------------------------------
(* The delay of the current connection.  session : startedAt, here the     *)
(* number of the start; delayOf : the session whose measurement set        *)
(* connectionDelayMs, 0 when it is -1; busy : start or stop is waiting.    *)

(* Mutant: the delay is unknown as -1.                                     *)
ResetToMinusOne(r) == [r EXCEPT !.testing = FALSE, !.delayOf = -1]

Reset(r) == [r EXCEPT !.testing = FALSE, !.delayOf = 0]

RuntimeStep == UNCHANGED <<pingVars, batch, shown, stored, task>>

BeginStart(config) ==
  /\ runtime.busy = "no" /\ runtime.status # "RUNNING"
  /\ runtime' = [Reset(runtime) EXCEPT !.busy = "start", !.profile = config]
  /\ RuntimeStep /\ UNCHANGED acts /\ UNCHANGED <<tasks, answers>>

AskSession(r) == Append(tasks, Ask("session", r.session, r.profile))

(* A start that succeeds measures at once.                                 *)
EndStart ==
  /\ runtime.busy = "start"
  /\ \/ /\ runtime' = [runtime EXCEPT !.busy = "no", !.status = "RUNNING",
                                       !.session = @ + 1, !.testing = TRUE]
        /\ tasks' = AskSession(runtime') /\ Act
     \/ runtime' = [runtime EXCEPT !.busy = "no", !.status = "ERROR"] /\ UNCHANGED <<acts, tasks>>
  /\ RuntimeStep /\ UNCHANGED answers

(* The mirrored status stays RUNNING while the controller stops.           *)
BeginStop ==
  /\ runtime.busy = "no" /\ runtime.status = "RUNNING"
  /\ runtime' = [Reset(runtime) EXCEPT !.busy = "stop"]
  /\ RuntimeStep /\ UNCHANGED acts /\ UNCHANGED <<tasks, answers>>

EndStop ==
  /\ runtime.busy = "stop"
  /\ \E status \in {"IDLE", "ERROR"} :
       runtime' = [runtime EXCEPT !.busy = "no", !.status = status,
                                   !.profile = IF status = "IDLE" THEN NoConfig ELSE @]
  /\ RuntimeStep /\ UNCHANGED acts /\ UNCHANGED <<tasks, answers>>

ReconcileStopped ==
  /\ runtime.status = "RUNNING"
  /\ runtime' = [Reset(runtime) EXCEPT !.status = "IDLE", !.profile = NoConfig]
  /\ RuntimeStep /\ UNCHANGED acts /\ UNCHANGED <<tasks, answers>>

(* Also while the tunnel is being stopped.                                 *)
MeasureCurrentConnectionDelay ==
  /\ runtime.status = "RUNNING" /\ ~runtime.testing /\ runtime.profile # NoConfig
  /\ runtime' = [runtime EXCEPT !.testing = TRUE]
  /\ tasks' = AskSession(runtime)
  /\ Act /\ RuntimeStep /\ UNCHANGED answers

(* Mutant: the result is taken as long as some session runs.               *)
AnySessionRuns(a) == runtime.status = "RUNNING"

(* Mutant: a test that failed changes nothing.                             *)
SameSessionAnswered(a) == runtime.status = "RUNNING" /\ runtime.session = a.id /\ a.ok

SameSession(a) == runtime.status = "RUNNING" /\ runtime.session = a.id

ResumeSession == \E a \in answers :
  /\ a.owner = "session"
  /\ runtime' = IF SameSession(a)
                THEN [runtime EXCEPT !.testing = FALSE, !.delayOf = IF a.ok THEN a.id ELSE 0]
                ELSE runtime
  /\ answers' = answers \ {a}
  /\ RuntimeStep /\ UNCHANGED acts /\ UNCHANGED tasks

-----------------------------------------------------------------------------
Init ==
  /\ PingInit
  /\ batch = [testing |-> FALSE, next |-> 1, flushing |-> FALSE, pending |-> <<>>,
              slot |-> [s \in Slot |-> "done"], saving |-> [s \in Slot |-> <<>>],
              loaded |-> [s \in Slot |-> Unloaded], lost |-> {}]
  /\ shown = Unloaded
  /\ stored = Unloaded
  /\ runtime = [status |-> "IDLE", session |-> 0, testing |-> FALSE, delayOf |-> 0,
                busy |-> "no", profile |-> NoConfig]
  /\ acts = 0
  /\ tasks = <<>>
  /\ task = [t \in Worker |-> NoTask]
  /\ answers = {}

PoolStep ==
  \/ MeasureOtherwise
  \/ \E t \in Worker : RunNativeDelayTest(t) \/ Measured(t) \/ (PingStep(t) /\ UNCHANGED delayVars)

BatchStep ==
  \/ StartBatch \/ FinalSave \/ EndBatch
  \/ \E s \in Slot : ResumeSlot(s) \/ FlushEnds(s)

SessionStep ==
  \/ \E config \in Config : BeginStart(config)
  \/ EndStart \/ BeginStop \/ EndStop \/ ReconcileStopped
  \/ MeasureCurrentConnectionDelay \/ ResumeSession

Next == PoolStep \/ BatchStep \/ SessionStep

Spec == Init /\ [][Next]_vars

(* Threads run, a ping ends by its timeout, saves and snapshots come back. *)
FairSpec ==
  /\ Spec
  /\ \A t \in Worker : /\ WF_vars(RunNativeDelayTest(t)) /\ WF_vars(Measured(t))
                       /\ WF_vars(PingStep(t) /\ UNCHANGED delayVars)
  /\ \A s \in Slot : WF_vars(ResumeSlot(s)) /\ WF_vars(FlushEnds(s))
  /\ WF_vars(FinalSave) /\ WF_vars(EndBatch) /\ WF_vars(ResumeSession)

-----------------------------------------------------------------------------
TypeOK ==
  /\ file \in [Port -> Config \cup {NoConfig}] /\ ping \in [Worker -> Ping]
  /\ acts \in Nat /\ batch.testing \in BOOLEAN /\ batch.flushing \in BOOLEAN /\ batch.next \in Nat
  /\ batch.pending \in Seq([node : Node, row : Row])
  /\ batch.slot \in [Slot -> {"measuring", "flushing", "ending", "done"}]
  /\ batch.saving \in [Slot -> Seq([node : Node, row : Row])]
  /\ batch.loaded \in [Slot -> [Node -> StoredRow]] /\ batch.lost \subseteq Node
  /\ shown \in [Node -> Row] /\ stored \in [Node -> StoredRow]
  /\ runtime \in [status : {"IDLE", "RUNNING", "ERROR"}, session : Nat, testing : BOOLEAN,
                   delayOf : Nat, busy : {"no", "start", "stop"}, profile : Config \cup {NoConfig}]
  /\ tasks \in Seq(Task)
  /\ task \in [Worker -> Task \cup {NoTask}]
  /\ \A a \in answers : Ask(a.owner, a.id, a.config) \in Task

(* A row never shows the delay of another node: the pings of a batch run   *)
(* at once, each from the file of its slot's port (PingOutbound,           *)
(* runRealDelayBatch).                                                     *)
RowsShowOwnNode == \A n \in Node : shown[n] \notin Config \ {n}

(* When a batch is over the preferences hold what the rows show, however   *)
(* the results and the saves of the slots were interleaved (flush), but    *)
(* for the nodes they have lost and for the results of writes that failed. *)
RowsStored == ~batch.testing =>
  \A n \in Node : stored[n] \in {shown[n], "absent"} \/ n \in batch.lost

(* "The next flush or the end tries again" (runRealDelayBatch): the last   *)
(* save of a batch has the results of the writes that failed before it.    *)
(* It has not (README, section 7).                                         *)
LostRetried == batch.slot[1] = "ending" => batch.lost \subseteq SavedNodes(1)

(* The delay shown for a running connection was measured in its session,   *)
(* not by a measurement left over from an earlier one                      *)
(* (measureConnectionDelayInternal).                                       *)
DelayOfSession ==
  runtime.status = "RUNNING" /\ runtime.busy # "start" => runtime.delayOf \in {0, runtime.session}

(* A batch ends, so that the next one can be asked for (delayTesting).     *)
BatchEnds == batch.testing ~> ~batch.testing

(* The test of a running connection ends, also when sessions change under  *)
(* it; one begun during a stop leaves the flag until the next start        *)
(* (connectionDelayTesting).                                               *)
MeasuringEnds ==
  runtime.testing /\ runtime.status = "RUNNING" ~> ~(runtime.testing /\ runtime.status = "RUNNING")
=============================================================================
