----------------------------- MODULE Connection -----------------------------
(***************************************************************************)
(* The connection pipelines of the main process.  ConnectionController     *)
(* turns a request into a Want and then polls the diagnostic log for the   *)
(* answer; RuntimeController mirrors its status; the page (Index.ets)      *)
(* holds a lock over its own pipeline; NetworkSceneManager runs one of its *)
(* own, without that lock.  The extension is VpnSession.                   *)
(***************************************************************************)
EXTENDS VpnSession, FiniteSets

CONSTANTS MaxAsks,    \* bound: the user acts while fewer Wants were sent
          Prompts     \* the question of the core may stay open on the page

ASSUME ConnectionAssumption ==
  MaxAsks \in Nat /\ Prompts \in BOOLEAN

VARIABLES ctl,      \* fields of ConnectionController
          mirror,   \* RuntimeController.status
          page,     \* Index.status
          prompt,   \* confirmCoreSwitchAndConnect has asked, not started
          op,       \* the pipeline each caller is in
          wants,    \* Wants on their way to the extension
          asks,     \* number of Wants sent
          local,    \* configuration of an Xray in the main process
          gaveUp    \* history: a timer has fired while the answer could
                    \* still come, or a stop was refused

pageVars == <<page, prompt>>
mainVars == <<ctl, mirror, page, prompt, op, wants, asks, local, gaveUp>>
vars == <<session, carried, log, stopFlag,
          ctl, mirror, page, prompt, op, wants, asks, local, gaveUp>>

Status == {"IDLE", "STARTING", "RUNNING", "STOPPING", "ERROR"}
Mode == {"vpn", "proxy-only"}
Caller == {"page", "scene"}

(* since : length of the log at requestedAt; again : start after the stop. *)
Op == [pc : {"idle", "saving", "preparing", "start asked", "starting",
             "stop asked", "stopping", "closing", "refreshing", "probing"},
       since : Nat, id : Nat, config : Config \cup {NoConfig}, again : BOOLEAN]

(* Mutant: the record of a pipeline at rest forgets a field.               *)
IdleUntyped == [pc |-> "idle", since |-> 0, id |-> 0, config |-> NoConfig]

Idle == [pc |-> "idle", since |-> 0, id |-> 0, config |-> NoConfig, again |-> FALSE]

Want == [kind : {"start", "stop"}, id : Nat, config : Config \cup {NoConfig}]

Init ==
  /\ SessionInit
  /\ ctl = [status |-> "IDLE", config |-> NoConfig, mode |-> "vpn"]
  /\ mirror = "IDLE"
  /\ page = "IDLE"
  /\ prompt = FALSE
  /\ op = [c \in Caller |-> Idle]
  /\ wants = {}
  /\ asks = 0
  /\ local = NoConfig
  /\ gaveUp = FALSE

At(c, pc) == op[c].pc = pc

Goto(c, pc) == op' = [op EXCEPT ![c].pc = pc]

Send(kind, config) ==
  /\ asks' = asks + 1
  /\ wants' = wants \cup {[kind |-> kind, id |-> asks + 1, config |-> config]}

Delivered(c) == \A w \in wants : w.id # op[c].id

Withdrawn(c) == {w \in wants : w.id # op[c].id}

(* findDiagnosticEvent: the newest event since requestedAt of these kinds. *)
Found(c, kinds) == {k \in op[c].since + 1 .. Len(log) : log[k].kind \in kinds}

Newest(c, kinds) ==
  log[CHOOSE k \in Found(c, kinds) : \A m \in Found(c, kinds) : m <= k]

(* The extension may yet write the answer the controller is waiting for.   *)
StartOwed == \E i \in Session : Hosted(i) /\ session[i].starting
StopOwed == \E i \in Session : Hosted(i) /\ session[i].cleaning

-----------------------------------------------------------------------------
(* RuntimeController: what start and stop do with the returned snapshot.   *)

(* applySnapshot, then NetSceneStopFlag.clear, whatever the outcome.       *)
StartReturns(c, status) ==
  /\ ctl' = [ctl EXCEPT !.status = status]
  /\ mirror' = status
  /\ stopFlag' = FALSE
  /\ Goto(c, "refreshing")

StopReturns(c, status) ==
  /\ ctl' = [ctl EXCEPT !.status = status]
  /\ mirror' = status
  /\ Goto(c, "refreshing")

-----------------------------------------------------------------------------
(* ConnectionController.start, called by the page.                         *)

SendsNothing == UNCHANGED <<wants, asks>>
ExtensionStays == UNCHANGED <<session, carried, log>>

BeginStart(c) ==
  /\ At(c, "saving")
  /\ page' = "STARTING"
  /\ \/ /\ ctl.status \in {"STARTING", "RUNNING"}
        /\ StartReturns(c, ctl.status)
     \/ /\ ctl.status \notin {"STARTING", "RUNNING"}
        /\ ctl' = [ctl EXCEPT !.status = "STARTING"]
        /\ Goto(c, "preparing")
        /\ UNCHANGED <<mirror, stopFlag>>
  /\ ExtensionStays /\ SendsNothing
  /\ UNCHANGED <<prompt, local, gaveUp>>

(* The profile could not be saved, or is not valid.                        *)
SaveFails(c) ==
  /\ At(c, "saving")
  /\ op' = [op EXCEPT ![c] = Idle]
  /\ UNCHANGED <<sessionVars, ctl, mirror, pageVars, wants, asks, local, gaveUp>>

(* Mutant: the configuration built for an earlier request is sent again.   *)
RequestVpnCached(c) ==
  LET config == IF ctl.config = NoConfig THEN op[c].config ELSE ctl.config
  IN  /\ At(c, "preparing")
      /\ ctl' = [ctl EXCEPT !.config = op[c].config, !.mode = "vpn"]
      /\ Send("start", config)
      /\ op' = [op EXCEPT ![c] = [@ EXCEPT !.pc = "start asked",
                                           !.since = Len(log), !.id = asks + 1]]
      /\ UNCHANGED <<sessionVars, mirror, pageVars, local, gaveUp>>

(* The settings are resolved, the configuration is built and requested.    *)
RequestVpn(c) ==
  /\ At(c, "preparing")
  /\ ctl' = [ctl EXCEPT !.config = op[c].config, !.mode = "vpn"]
  /\ Send("start", op[c].config)
  /\ op' = [op EXCEPT ![c] = [@ EXCEPT !.pc = "start asked",
                                       !.since = Len(log), !.id = asks + 1]]
  /\ UNCHANGED <<sessionVars, mirror, pageVars, local, gaveUp>>

(* sing-box refuses the mode or the configuration before it asks.          *)
RefuseSingbox(c) ==
  /\ At(c, "preparing")
  /\ StartReturns(c, "ERROR")
  /\ ExtensionStays /\ SendsNothing
  /\ UNCHANGED <<pageVars, local, gaveUp>>

(* startProxyOnly: the bridge of the main process runs Xray, and a running *)
(* one reports success.                                                    *)
RunProxyOnly(c, preflight, lib) ==
  LET ok == preflight /\ (local # NoConfig \/ lib)
  IN  /\ At(c, "preparing")
      /\ local' = IF ok /\ local = NoConfig THEN op[c].config ELSE local
      /\ ctl' = [status |-> IF ok THEN "RUNNING" ELSE "ERROR",
                 config |-> op[c].config, mode |-> "proxy-only"]
      /\ mirror' = ctl'.status
      /\ stopFlag' = FALSE
      /\ Goto(c, "refreshing")
      /\ ExtensionStays /\ SendsNothing
      /\ UNCHANGED <<pageVars, gaveUp>>

StartAccepted(c) ==
  /\ At(c, "start asked") /\ Delivered(c)
  /\ Goto(c, "starting")
  /\ UNCHANGED <<sessionVars, ctl, mirror, pageVars, wants, asks, local, gaveUp>>

StartRejected(c) ==
  /\ At(c, "start asked") /\ ~Delivered(c)
  /\ StartReturns(c, "ERROR")
  /\ wants' = Withdrawn(c)
  /\ ExtensionStays
  /\ UNCHANGED <<pageVars, asks, local, gaveUp>>

(* The timer wins; the Want stays with the system.                         *)
StartTimesOut(c) ==
  /\ At(c, "start asked")
  /\ StartReturns(c, "ERROR")
  /\ gaveUp' = TRUE
  /\ ExtensionStays /\ SendsNothing
  /\ UNCHANGED <<pageVars, local>>

StartAnswered(c) ==
  /\ At(c, "starting")
  /\ Found(c, {"started", "failed"}) # {}
  /\ StartReturns(c, IF Newest(c, {"started", "failed"}).kind = "started"
                     THEN "RUNNING" ELSE "ERROR")
  /\ ExtensionStays /\ SendsNothing
  /\ UNCHANGED <<pageVars, local, gaveUp>>

(* Mutant: the loop over the log has no deadline.                          *)
StartUnansweredNever(c) == FALSE /\ At(c, "starting")

(* The last look at the log after the deadline finds nothing either.       *)
StartUnanswered(c) ==
  /\ At(c, "starting")
  /\ Found(c, {"started", "failed"}) = {}
  /\ StartReturns(c, "ERROR")
  /\ gaveUp' = (gaveUp \/ StartOwed)
  /\ ExtensionStays /\ SendsNothing
  /\ UNCHANGED <<pageVars, local>>

-----------------------------------------------------------------------------
(* ConnectionController.stop, called by the page or by the scene manager.  *)

(* "o" is the pipeline record of the caller; "cs" the controller and "m"   *)
(* the mirror as the caller leaves them.                                   *)
CallStop(c, o, cs, m) ==
  \/ /\ cs.status \in {"IDLE", "STOPPING"}
     /\ ctl' = cs
     /\ mirror' = cs.status
     /\ op' = [op EXCEPT ![c] = [o EXCEPT !.pc = "refreshing"]]
     /\ SendsNothing
     /\ UNCHANGED local
  \/ /\ cs.status \notin {"IDLE", "STOPPING"} /\ cs.mode = "proxy-only"
     /\ op' = [op EXCEPT ![c] = [o EXCEPT !.pc = "refreshing"]]
     /\ \E lib \in BOOLEAN :
          LET ok == local = NoConfig \/ lib
          IN  /\ local' = IF ok THEN NoConfig ELSE local
              /\ ctl' = IF ok THEN [cs EXCEPT !.status = "IDLE", !.mode = "vpn"]
                              ELSE [cs EXCEPT !.status = "ERROR"]
     /\ mirror' = ctl'.status
     /\ SendsNothing
  \/ /\ cs.status \notin {"IDLE", "STOPPING"} /\ cs.mode = "vpn"
     /\ ctl' = [cs EXCEPT !.status = "STOPPING"]
     /\ mirror' = m
     /\ Send("stop", NoConfig)
     /\ op' = [op EXCEPT ![c] = [o EXCEPT !.pc = "stop asked",
                                          !.since = Len(log), !.id = asks + 1]]
     /\ UNCHANGED local

StopAccepted(c) ==
  /\ At(c, "stop asked") /\ Delivered(c)
  /\ Goto(c, "stopping")
  /\ UNCHANGED <<sessionVars, ctl, mirror, pageVars, wants, asks, local, gaveUp>>

StopRejected(c) ==
  /\ At(c, "stop asked") /\ ~Delivered(c)
  /\ StopReturns(c, "ERROR")
  /\ wants' = Withdrawn(c)
  /\ gaveUp' = TRUE
  /\ UNCHANGED <<sessionVars, pageVars, asks, local>>

StopTimesOut(c) ==
  /\ At(c, "stop asked")
  /\ StopReturns(c, "ERROR")
  /\ gaveUp' = TRUE
  /\ SendsNothing
  /\ UNCHANGED <<sessionVars, pageVars, local>>

StopAnswered(c) ==
  /\ At(c, "stopping")
  /\ Found(c, {"cleanup"}) # {}
  /\ Goto(c, "closing")
  /\ UNCHANGED <<sessionVars, ctl, mirror, pageVars, wants, asks, local, gaveUp>>

StopUnanswered(c) ==
  /\ At(c, "stopping")
  /\ Found(c, {"cleanup"}) = {}
  /\ StopReturns(c, "ERROR")
  /\ gaveUp' = (gaveUp \/ StopOwed)
  /\ SendsNothing
  /\ UNCHANGED <<sessionVars, pageVars, local>>

(* stopVpnExtensionAbility: once it resolves, the instance is destroyed.   *)
Closed(c) ==
  /\ At(c, "closing")
  /\ \A i \in Session : ~Live(i)
  /\ StopReturns(c, "IDLE")
  /\ SendsNothing
  /\ UNCHANGED <<sessionVars, pageVars, local, gaveUp>>

CloseRejected(c) ==
  /\ At(c, "closing")
  /\ StopReturns(c, "ERROR")
  /\ SendsNothing
  /\ UNCHANGED <<sessionVars, pageVars, local, gaveUp>>

-----------------------------------------------------------------------------
(* The page.                                                               *)

(* Mutant: the page looks at its status and takes no lock.                 *)
FreeUnlocked == page \notin {"STARTING", "STOPPING"}

Free == At("page", "idle") /\ page \notin {"STARTING", "STOPPING"}

StartConnection(config) ==
  /\ Free /\ asks < MaxAsks
  /\ op' = [op EXCEPT !["page"] = [Idle EXCEPT !.pc = "saving", !.config = config]]
  /\ UNCHANGED <<sessionVars, ctl, mirror, page, wants, asks, local, gaveUp>>

TapConnect(config) ==
  /\ page # "RUNNING"
  /\ StartConnection(config)
  /\ UNCHANGED prompt

(* The tap asks for another core first; the answer looks at isBusy only.   *)
AskCore ==
  /\ Prompts /\ ~prompt
  /\ Free /\ page # "RUNNING"
  /\ prompt' = TRUE
  /\ UNCHANGED <<sessionVars, ctl, mirror, page, op, wants, asks, local, gaveUp>>

ConfirmCore(config) ==
  /\ prompt
  /\ prompt' = FALSE
  /\ StartConnection(config)

DismissCore ==
  /\ prompt
  /\ prompt' = FALSE
  /\ UNCHANGED <<sessionVars, ctl, mirror, page, op, wants, asks, local, gaveUp>>

TapDisconnect ==
  /\ Free /\ page = "RUNNING" /\ asks < MaxAsks
  /\ page' = "STOPPING"
  /\ CallStop("page", Idle, ctl, mirror)
  /\ UNCHANGED <<sessionVars, prompt, gaveUp>>

(* selectNode, reconnectService and the restart after a settings change.   *)
TapSwitch(config) ==
  /\ Free /\ page = "RUNNING" /\ asks < MaxAsks
  /\ page' = "STOPPING"
  /\ CallStop("page", [Idle EXCEPT !.config = config, !.again = TRUE], ctl, mirror)
  /\ UNCHANGED <<sessionVars, prompt, gaveUp>>

(* RuntimeController.refresh returns, and the pipeline of the page ends or *)
(* goes on with the start of a switch.                                     *)
PageReturns ==
  /\ At("page", "refreshing")
  /\ page' = mirror
  /\ op' = [op EXCEPT !["page"] =
               IF op["page"].again /\ mirror = "IDLE"
               THEN [Idle EXCEPT !.pc = "saving", !.config = op["page"].config]
               ELSE Idle]
  /\ UNCHANGED <<sessionVars, ctl, mirror, prompt, wants, asks, local, gaveUp>>

(* The timer of the page: refreshRuntime every second.                     *)
PageRefreshes ==
  /\ page # mirror
  /\ page' = mirror
  /\ UNCHANGED <<sessionVars, ctl, mirror, prompt, op, wants, asks, local, gaveUp>>

-----------------------------------------------------------------------------
(* NetworkSceneManager.evaluate.                                           *)

(* The settings are loaded, the network is being read.                     *)
SceneProbes ==
  /\ At("scene", "idle")
  /\ mirror \notin {"STARTING", "STOPPING"}
  /\ Goto("scene", "probing")
  /\ UNCHANGED <<sessionVars, ctl, mirror, pageVars, wants, asks, local, gaveUp>>

(* The network cannot be read, or it is the one handled last.              *)
SceneSkips ==
  /\ At("scene", "probing")
  /\ Goto("scene", "idle")
  /\ UNCHANGED <<sessionVars, ctl, mirror, pageVars, wants, asks, local, gaveUp>>

(* Mutant: the controller is reset whatever the flag says.                 *)
ReconciledAlways(stopped) ==
  IF stopped \in BOOLEAN /\ ctl.status \in {"RUNNING", "STARTING"}
  THEN [ctl EXCEPT !.status = "IDLE", !.mode = "vpn"] ELSE ctl

(* reconcileStopped of ConnectionController, when RuntimeController says so*)
Reconciled(stopped) ==
  IF stopped /\ ctl.status \in {"RUNNING", "STARTING"}
  THEN [ctl EXCEPT !.status = "IDLE", !.mode = "vpn"] ELSE ctl

SceneDecides(trusted) ==
  LET stopped == mirror = "RUNNING" /\ stopFlag
      m == IF stopped THEN "IDLE" ELSE mirror
      cs == Reconciled(stopped)
  IN  /\ At("scene", "probing")
      /\ \/ /\ trusted /\ m = "RUNNING"
            /\ CallStop("scene", Idle, cs, m)
         \/ /\ ~(trusted /\ m = "RUNNING")
            /\ ctl' = cs
            /\ mirror' = m
            /\ Goto("scene", "idle")
            /\ SendsNothing
            /\ UNCHANGED local
      /\ UNCHANGED <<sessionVars, pageVars, gaveUp>>

SceneReturns ==
  /\ At("scene", "refreshing")
  /\ op' = [op EXCEPT !["scene"] = Idle]
  /\ UNCHANGED <<sessionVars, ctl, mirror, pageVars, wants, asks, local, gaveUp>>

-----------------------------------------------------------------------------
(* The system: it hands a Want to the live instance or creates one, ends   *)
(* instances and their processes.  Unused sessions are alike.              *)

Fresh == CHOOSE i \in Session : session[i].life = "none"

MainStays == UNCHANGED <<ctl, mirror, pageVars, op, asks, local, gaveUp>>

DeliverStart(w) ==
  /\ w.kind = "start"
  /\ wants' = wants \ {w}
  /\ \/ /\ \E i \in Session : Live(i)
        /\ UNCHANGED sessionVars
     \/ /\ \E i \in Session : session[i].life = "none"
        /\ Open(Fresh, w.config)
  /\ MainStays

DeliverStop(w) ==
  /\ w.kind = "stop"
  /\ wants' = wants \ {w}
  /\ \/ \E i \in Session : StopRequest(i)
     \/ /\ \E i \in Session : session[i].life = "none"
        /\ OpenForStop(Fresh)
  /\ MainStays

ExtensionWorks == (\E i \in Session : Work(i)) /\ UNCHANGED mainVars

SystemDestroys == (\E i \in Session : Destroy(i)) /\ UNCHANGED mainVars

ProcessEnds == (\E i \in Session : Exit(i)) /\ UNCHANGED mainVars

Deliver == \E w \in wants : DeliverStart(w) \/ DeliverStop(w)

-----------------------------------------------------------------------------
(* What the pipeline of a caller does next once it is under way.           *)
Pipeline(c) ==
  \/ BeginStart(c) \/ SaveFails(c)
  \/ RequestVpn(c) \/ RefuseSingbox(c)
  \/ \E preflight, lib \in BOOLEAN : RunProxyOnly(c, preflight, lib)
  \/ StartAccepted(c) \/ StartRejected(c) \/ StartTimesOut(c)
  \/ StartAnswered(c) \/ StartUnanswered(c)
  \/ StopAccepted(c) \/ StopRejected(c) \/ StopTimesOut(c)
  \/ StopAnswered(c) \/ StopUnanswered(c)
  \/ Closed(c) \/ CloseRejected(c)

User ==
  \/ \E config \in Config :
       TapConnect(config) \/ TapSwitch(config) \/ ConfirmCore(config)
  \/ TapDisconnect \/ AskCore \/ DismissCore

Scene ==
  \/ SceneProbes \/ SceneSkips \/ SceneReturns
  \/ \E trusted \in BOOLEAN : SceneDecides(trusted)

Next ==
  \/ User
  \/ Pipeline("page") \/ PageReturns \/ PageRefreshes
  \/ Pipeline("scene") \/ Scene
  \/ Deliver \/ ExtensionWorks \/ SystemDestroys \/ ProcessEnds

Spec == Init /\ [][Next]_vars

(* Timers fire, files are read and stopVpnExtensionAbility settles.  The   *)
(* extension and the system may be as slow as they like.                   *)
Fairness ==
  /\ \A c \in Caller : WF_vars(Pipeline(c))
  /\ WF_vars(PageReturns) /\ WF_vars(PageRefreshes)
  /\ WF_vars(SceneSkips) /\ WF_vars(SceneReturns)

FairSpec == Spec /\ Fairness

-----------------------------------------------------------------------------
(* Properties.                                                             *)

(* Every field of the pipelines stays in its range.                        *)
TypeOK ==
  /\ session \in [Session -> SessionState]
  /\ carried \in Config \cup {NoConfig}
  /\ log \in Seq(SessionEvent)
  /\ stopFlag \in BOOLEAN
  /\ ctl \in [status : Status, config : Config \cup {NoConfig}, mode : Mode]
  /\ mirror \in Status /\ page \in Status /\ prompt \in BOOLEAN
  /\ op \in [Caller -> Op]
  /\ wants \subseteq Want
  /\ asks \in Nat
  /\ local \in Config \cup {NoConfig}
  /\ gaveUp \in BOOLEAN

(* The application offers to stop a tunnel only from RUNNING: until the    *)
(* controller has given up on an answer that could still come, or on a     *)
(* stop, whenever the data plane of a live instance is up, the controller  *)
(* knows of it, or the extension itself is about to take it down.          *)
Stoppable ==
  \A i \in Session :
    ~gaveUp /\ Live(i) /\ carried # NoConfig =>
      \/ ctl.status \in {"STARTING", "RUNNING", "STOPPING"}
      \/ session[i].marked

(* Until then the configuration of a connection shown as running is the    *)
(* one that is carried: a switch never leaves the old node behind the new  *)
(* name.                                                                   *)
ShownConfigCarried ==
  ~gaveUp /\ mirror = "RUNNING" /\ ctl.mode = "vpn" /\ carried # NoConfig
    => carried = ctl.config

(* No start overtakes a stop: ConnectionController.start does not look for *)
(* STOPPING, the lock of the page and the mirror have to keep it out even  *)
(* while the scene manager stops without that lock.                        *)
NoStartWhileStopping ==
  [][ctl.status = "STOPPING" => ctl'.status # "STARTING"]_vars

(* An automatic disconnect of the connection shown as running is on file   *)
(* until the main process reads it.                                        *)
AutoStopRecorded ==
  mirror = "RUNNING" /\ ctl.mode = "vpn" =>
    \A k, m \in DOMAIN log :
      (/\ log[k].kind = "started" /\ log[m].kind = "auto"
       /\ log[k].by = log[m].by /\ k < m
       /\ \A n \in k + 1 .. Len(log) : log[n].kind # "started")
      => stopFlag

(* However late or silent the extension is, the page takes input again.    *)
PageUsable == ~Free ~> Free
=============================================================================
