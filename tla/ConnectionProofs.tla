--------------------------- MODULE ConnectionProofs ---------------------------
(***************************************************************************)
(* Proofs about the connection pipelines, for every set of sessions and    *)
(* configurations and every bound on the requests.                         *)
(***************************************************************************)
EXTENDS Connection, TLAPS, WellFoundedInduction

-----------------------------------------------------------------------------
(* Types.                                                                  *)

SessionTypeOK ==
  /\ session \in [Session -> SessionState]
  /\ carried \in Config \cup {NoConfig}
  /\ log \in Seq(SessionEvent)
  /\ stopFlag \in BOOLEAN

Controller == [status : Status, config : Config \cup {NoConfig}, mode : Mode]

MainTypeOK ==
  /\ ctl \in Controller
  /\ mirror \in Status /\ page \in Status /\ prompt \in BOOLEAN
  /\ op \in [Caller -> Op]
  /\ wants \subseteq Want
  /\ asks \in Nat
  /\ local \in Config \cup {NoConfig}
  /\ gaveUp \in BOOLEAN

LEMMA RecordType ==
  ASSUME NEW l \in Seq(SessionEvent), NEW i \in Session,
         NEW kind \in {"started", "failed", "cleanup", "auto"}
  PROVE  Record(l, kind, i) \in Seq(SessionEvent)
  BY DEF Record, SessionEvent

LEMMA NewSessionType == NewSession \in SessionState
  BY DEF NewSession, SessionState

LEMMA CloseTypes ==
  ASSUME SessionTypeOK, NEW i \in Session, NEW s \in SessionState, NEW l \in Seq(SessionEvent),
         Close(i, s, l)
  PROVE  /\ session' \in [Session -> SessionState]
         /\ carried' \in Config \cup {NoConfig}
         /\ log' \in Seq(SessionEvent)
  <1>1. [s EXCEPT !.cleaning = TRUE] \in SessionState
    BY DEF SessionState
  <1>2. Record(l, "cleanup", i) \in Seq(SessionEvent)
    BY RecordType
  <1>3. QED BY <1>1, <1>2 DEF Close, SessionTypeOK

(* Every step of the extension keeps the types of what it shares.          *)
LEMMA SessionStepTypes ==
  ASSUME SessionTypeOK, NEW i \in Session,
         \/ \E c \in Config : Open(i, c)
         \/ OpenForStop(i) \/ StopRequest(i) \/ Work(i) \/ Destroy(i) \/ Exit(i)
  PROVE  SessionTypeOK'
  <1>1. session[i] \in SessionState /\ log \in Seq(SessionEvent)
    BY DEF SessionTypeOK
  <1>2. \A s \in SessionState : /\ [s EXCEPT !.starting = FALSE] \in SessionState
                                /\ [s EXCEPT !.cleaning = FALSE] \in SessionState
                                /\ [s EXCEPT !.marked = TRUE] \in SessionState
                                /\ [s EXCEPT !.marked = FALSE] \in SessionState
                                /\ [s EXCEPT !.life = "live"] \in SessionState
                                /\ [s EXCEPT !.life = "destroyed"] \in SessionState
                                /\ [s EXCEPT !.life = "dead"] \in SessionState
                                /\ s.config \in Config \cup {NoConfig}
    BY DEF SessionState
  <1>3. \A kind \in {"started", "failed", "cleanup", "auto"} :
          Record(log, kind, i) \in Seq(SessionEvent)
    BY <1>1, RecordType
  <1>4. ASSUME NEW c \in Config, Open(i, c) PROVE SessionTypeOK'
    <2>1. [NewSession EXCEPT !.life = "live", !.config = c, !.starting = TRUE] \in SessionState
      BY DEF NewSession, SessionState
    <2>2. QED BY <1>4, <2>1 DEF Open, SessionTypeOK
  <1>5. CASE OpenForStop(i)
    BY <1>1, <1>2, <1>3, <1>5 DEF OpenForStop, SessionTypeOK
  <1>6. CASE StopRequest(i)
    BY <1>1, <1>6, CloseTypes DEF StopRequest, SessionTypeOK
  <1>7. CASE Started(i)
    BY <1>1, <1>2, <1>3, <1>7 DEF Started, SessionTypeOK
  <1>8. CASE Failed(i)
    BY <1>1, <1>2, <1>3, <1>8, CloseTypes DEF Failed, SessionTypeOK
  <1>9. CASE Cleaned(i)
    BY <1>1, <1>2, <1>3, <1>9 DEF Cleaned, SessionTypeOK
  <1>10. CASE Disconnect(i)
    BY <1>1, <1>2, <1>10, CloseTypes DEF Disconnect, SessionTypeOK
  <1>11. CASE Mark(i)
    BY <1>1, <1>2, <1>3, <1>11 DEF Mark, SessionTypeOK
  <1>12. CASE Destroy(i)
    BY <1>1, <1>2, <1>12, CloseTypes DEF Destroy, SessionTypeOK
  <1>13. CASE Exit(i)
    BY <1>2, <1>13, NewSessionType DEF Exit, SessionTypeOK
  <1>14. QED
    BY <1>4, <1>5, <1>6, <1>7, <1>8, <1>9, <1>10, <1>11, <1>12, <1>13 DEF Work, Answer

Pc == {"idle", "saving", "preparing", "start asked", "starting",
       "stop asked", "stopping", "closing", "refreshing", "probing"}

LEMMA OpTypes ==
  ASSUME NEW o \in Op
  PROVE  /\ \A pc \in Pc : [o EXCEPT !.pc = pc] \in Op
         /\ \A pc \in Pc, n \in Nat, k \in Nat :
              [o EXCEPT !.pc = pc, !.since = n, !.id = k] \in Op
         /\ o.config \in Config \cup {NoConfig}
         /\ Idle \in Op
         /\ \A config \in Config \cup {NoConfig} :
              /\ [Idle EXCEPT !.pc = "saving", !.config = config] \in Op
              /\ [Idle EXCEPT !.config = config, !.again = TRUE] \in Op
  BY DEF Op, Pc, Idle

LEMMA GotoTypes ==
  ASSUME op \in [Caller -> Op], NEW c \in Caller, NEW pc \in Pc, Goto(c, pc)
  PROVE  op' \in [Caller -> Op]
  BY OpTypes DEF Goto

LEMMA SendTypes ==
  ASSUME MainTypeOK, NEW kind \in {"start", "stop"}, NEW config \in Config \cup {NoConfig},
         Send(kind, config)
  PROVE  asks' \in Nat /\ wants' \subseteq Want
  BY DEF Send, MainTypeOK, Want

LEMMA CtlTypes ==
  ASSUME NEW cs \in Controller
  PROVE  /\ cs.status \in Status /\ cs.mode \in Mode /\ cs.config \in Config \cup {NoConfig}
         /\ \A s \in Status : [cs EXCEPT !.status = s] \in Controller
         /\ \A s \in Status, m \in Mode : [cs EXCEPT !.status = s, !.mode = m] \in Controller
         /\ \A d \in Config \cup {NoConfig}, m \in Mode :
              [cs EXCEPT !.config = d, !.mode = m] \in Controller
  BY DEF Controller

LEMMA ReturnTypes ==
  ASSUME MainTypeOK, NEW c \in Caller, NEW status \in Status,
         StartReturns(c, status) \/ StopReturns(c, status)
  PROVE  /\ ctl' \in Controller
         /\ mirror' \in Status
         /\ op' \in [Caller -> Op]
  BY CtlTypes, GotoTypes DEF StartReturns, StopReturns, MainTypeOK, Pc

LEMMA CallStopTypes ==
  ASSUME SessionTypeOK, MainTypeOK, NEW c \in Caller, NEW o \in Op, NEW m \in Status,
         NEW cs \in Controller, CallStop(c, o, cs, m)
  PROVE  /\ ctl' \in Controller /\ mirror' \in Status /\ op' \in [Caller -> Op]
         /\ wants' \subseteq Want /\ asks' \in Nat
         /\ local' \in Config \cup {NoConfig}
  <1>1. Len(log) \in Nat /\ asks + 1 \in Nat
    BY DEF SessionTypeOK, MainTypeOK
  <1>2. /\ [o EXCEPT !.pc = "refreshing"] \in Op
        /\ [o EXCEPT !.pc = "stop asked", !.since = Len(log), !.id = asks + 1] \in Op
    BY <1>1, OpTypes DEF Pc
  <1>3. cs.status \in Status /\ cs.mode \in Mode
    BY CtlTypes
  <1>4. CASE cs.status \in {"IDLE", "STOPPING"}
    <2>1. /\ ctl' = cs /\ mirror' = cs.status
          /\ op' = [op EXCEPT ![c] = [o EXCEPT !.pc = "refreshing"]]
          /\ UNCHANGED <<wants, asks, local>>
      BY <1>4 DEF CallStop, SendsNothing
    <2>2. QED BY <1>2, <1>3, <2>1 DEF MainTypeOK
  <1>5. CASE cs.status \notin {"IDLE", "STOPPING"} /\ cs.mode = "proxy-only"
    <2>1. /\ \/ ctl' = [cs EXCEPT !.status = "IDLE", !.mode = "vpn"]
             \/ ctl' = [cs EXCEPT !.status = "ERROR"]
          /\ mirror' = ctl'.status /\ local' \in {NoConfig, local}
          /\ op' = [op EXCEPT ![c] = [o EXCEPT !.pc = "refreshing"]]
          /\ UNCHANGED <<wants, asks>>
      BY <1>5 DEF CallStop, SendsNothing
    <2>2. ctl' \in Controller
      BY <2>1, CtlTypes DEF Status, Mode
    <2>3. mirror' \in Status
      BY <2>1, <2>2, CtlTypes
    <2>4. QED BY <1>2, <2>1, <2>2, <2>3 DEF MainTypeOK
  <1>6. CASE cs.status \notin {"IDLE", "STOPPING"} /\ cs.mode = "vpn"
    <2>1. /\ ctl' = [cs EXCEPT !.status = "STOPPING"] /\ mirror' = m /\ Send("stop", NoConfig)
          /\ op' = [op EXCEPT ![c] = [o EXCEPT !.pc = "stop asked",
                                               !.since = Len(log), !.id = asks + 1]]
          /\ local' = local
      BY <1>6 DEF CallStop
    <2>2. ctl' \in Controller
      BY <2>1, CtlTypes DEF Status
    <2>3. asks' \in Nat /\ wants' \subseteq Want
      BY <2>1, SendTypes
    <2>4. QED BY <1>2, <2>1, <2>2, <2>3 DEF MainTypeOK
  <1>7. QED BY <1>3, <1>4, <1>5, <1>6 DEF Mode

(* What the pipeline of a caller does keeps the types.                     *)
LEMMA StartTypes ==
  ASSUME TypeOK, NEW c \in Caller,
         \/ BeginStart(c) \/ SaveFails(c) \/ RequestVpn(c) \/ RefuseSingbox(c)
         \/ \E preflight, lib \in BOOLEAN : RunProxyOnly(c, preflight, lib)
         \/ StartAccepted(c) \/ StartRejected(c) \/ StartTimesOut(c)
         \/ StartAnswered(c) \/ StartUnanswered(c)
  PROVE  TypeOK'
  <1>0. SessionTypeOK /\ MainTypeOK
    BY DEF TypeOK, SessionTypeOK, MainTypeOK, Controller
  <1>1. SUFFICES SessionTypeOK' /\ MainTypeOK'
    BY DEF TypeOK, SessionTypeOK, MainTypeOK, Controller
  <1>2. op[c] \in Op /\ ctl \in Controller /\ ctl.status \in Status
    BY <1>0, CtlTypes DEF MainTypeOK
  <1>3. CASE BeginStart(c)
    <2>1. ctl' \in Controller /\ mirror' \in Status /\ op' \in [Caller -> Op] /\ page' \in Status
      BY <1>0, <1>2, <1>3, ReturnTypes, CtlTypes, GotoTypes DEF BeginStart, Status, Pc, MainTypeOK
    <2>2. UNCHANGED <<session, carried, log, wants, asks, prompt, local, gaveUp>> /\ stopFlag' \in BOOLEAN
      BY <1>0, <1>3 DEF BeginStart, StartReturns, ExtensionStays, SendsNothing, SessionTypeOK
    <2>3. QED BY <1>0, <2>1, <2>2 DEF SessionTypeOK, MainTypeOK
  <1>4. CASE SaveFails(c)
    BY <1>0, <1>2, <1>4, OpTypes
    DEF SaveFails, SessionTypeOK, MainTypeOK, sessionVars, pageVars
  <1>5. CASE RequestVpn(c)
    <2>1. Len(log) \in Nat /\ asks + 1 \in Nat
      BY <1>0 DEF SessionTypeOK, MainTypeOK
    <2>2. [op[c] EXCEPT !.pc = "start asked", !.since = Len(log), !.id = asks + 1] \in Op
      BY <1>2, <2>1, OpTypes DEF Pc
    <2>3. ctl' \in Controller
      BY <1>2, <1>5, CtlTypes, OpTypes DEF RequestVpn, Mode
    <2>4. asks' \in Nat /\ wants' \subseteq Want
      BY <1>0, <1>2, <1>5, SendTypes, OpTypes DEF RequestVpn
    <2>5. QED
      BY <1>0, <1>5, <2>2, <2>3, <2>4
      DEF RequestVpn, SessionTypeOK, MainTypeOK, sessionVars, pageVars
  <1>6. ASSUME NEW status \in Status, StartReturns(c, status), ExtensionStays,
               wants' \subseteq Want, gaveUp' \in BOOLEAN, UNCHANGED <<page, prompt, asks, local>>
        PROVE  SessionTypeOK' /\ MainTypeOK'
    <2>1. ctl' \in Controller /\ mirror' \in Status /\ op' \in [Caller -> Op]
      BY <1>0, <1>6, ReturnTypes
    <2>2. QED
      BY <1>0, <1>6, <2>1 DEF StartReturns, ExtensionStays, SessionTypeOK, MainTypeOK
  <1>7. CASE \/ RefuseSingbox(c) \/ StartRejected(c) \/ StartTimesOut(c)
             \/ StartAnswered(c) \/ StartUnanswered(c)
    BY <1>0, <1>6, <1>7
    DEF RefuseSingbox, StartRejected, StartTimesOut, StartAnswered, StartUnanswered, Status,
        pageVars, SendsNothing, Withdrawn, MainTypeOK
  <1>8. ASSUME NEW preflight \in BOOLEAN, NEW lib \in BOOLEAN, RunProxyOnly(c, preflight, lib)
        PROVE  SessionTypeOK' /\ MainTypeOK'
    <2>1. PICK s \in Status : ctl' = [status |-> s, config |-> op[c].config, mode |-> "proxy-only"]
      BY <1>8 DEF RunProxyOnly, Status
    <2>2. ctl' \in Controller
      BY <1>2, <2>1, OpTypes DEF Controller, Mode
    <2>3. mirror' \in Status /\ local' \in Config \cup {NoConfig}
      <3>1. mirror' = ctl'.status /\ local' \in {op[c].config, local}
        BY <1>8 DEF RunProxyOnly
      <3>2. op[c].config \in Config \cup {NoConfig} /\ local \in Config \cup {NoConfig}
        BY <1>0, <1>2, OpTypes DEF MainTypeOK
      <3>3. mirror' \in Status
        BY <2>2, <3>1, CtlTypes
      <3>4. QED BY <3>1, <3>2, <3>3
    <2>4. op' \in [Caller -> Op]
      BY <1>0, <1>8, GotoTypes DEF RunProxyOnly, MainTypeOK, Pc
    <2>5. QED
      BY <1>0, <1>8, <2>2, <2>3, <2>4
      DEF RunProxyOnly, ExtensionStays, SendsNothing, pageVars, SessionTypeOK, MainTypeOK
  <1>9. CASE StartAccepted(c)
    BY <1>0, <1>9, GotoTypes
    DEF StartAccepted, SessionTypeOK, MainTypeOK, sessionVars, pageVars, Pc
  <1>10. QED
    BY <1>3, <1>4, <1>5, <1>7, <1>8, <1>9

LEMMA StopTypes ==
  ASSUME TypeOK, NEW c \in Caller,
         \/ StopAccepted(c) \/ StopRejected(c) \/ StopTimesOut(c)
         \/ StopAnswered(c) \/ StopUnanswered(c) \/ Closed(c) \/ CloseRejected(c)
  PROVE  TypeOK'
  <1>0. SessionTypeOK /\ MainTypeOK
    BY DEF TypeOK, SessionTypeOK, MainTypeOK, Controller
  <1>1. SUFFICES SessionTypeOK' /\ MainTypeOK'
    BY DEF TypeOK, SessionTypeOK, MainTypeOK, Controller
  <1>2. ASSUME NEW status \in Status, StopReturns(c, status), wants' \subseteq Want,
               gaveUp' \in BOOLEAN, UNCHANGED <<sessionVars, page, prompt, asks, local>>
        PROVE  SessionTypeOK' /\ MainTypeOK'
    <2>1. ctl' \in Controller /\ mirror' \in Status /\ op' \in [Caller -> Op]
      BY <1>0, <1>2, ReturnTypes
    <2>2. QED
      BY <1>0, <1>2, <2>1 DEF sessionVars, SessionTypeOK, MainTypeOK
  <1>3. CASE StopAccepted(c) \/ StopAnswered(c)
    BY <1>0, <1>3, GotoTypes
    DEF StopAccepted, StopAnswered, SessionTypeOK, MainTypeOK, sessionVars, pageVars, Pc
  <1>4. CASE StopRejected(c) \/ StopTimesOut(c) \/ StopUnanswered(c) \/ Closed(c) \/ CloseRejected(c)
    BY <1>0, <1>2, <1>4
    DEF StopRejected, StopTimesOut, StopUnanswered, Closed, CloseRejected, Status,
        pageVars, SendsNothing, Withdrawn, MainTypeOK
  <1>5. QED BY <1>3, <1>4

LEMMA UserTypes == ASSUME TypeOK, User \/ PageReturns \/ PageRefreshes PROVE TypeOK'
  <1>0. SessionTypeOK /\ MainTypeOK
    BY DEF TypeOK, SessionTypeOK, MainTypeOK, Controller
  <1>1. SUFFICES SessionTypeOK' /\ MainTypeOK'
    BY DEF TypeOK, SessionTypeOK, MainTypeOK, Controller
  <1>2. "page" \in Caller /\ op["page"] \in Op /\ Idle \in Op
    BY <1>0, OpTypes DEF Caller, MainTypeOK
  <1>3. ASSUME NEW config \in Config, StartConnection(config), prompt' \in BOOLEAN
        PROVE  SessionTypeOK' /\ MainTypeOK'
    BY <1>0, <1>2, <1>3, OpTypes DEF StartConnection, SessionTypeOK, MainTypeOK, sessionVars
  <1>4. ASSUME NEW config \in Config, TapConnect(config) \/ ConfirmCore(config)
        PROVE  SessionTypeOK' /\ MainTypeOK'
    BY <1>0, <1>3, <1>4 DEF TapConnect, ConfirmCore, MainTypeOK
  <1>5. CASE AskCore \/ DismissCore
    BY <1>0, <1>5 DEF AskCore, DismissCore, SessionTypeOK, MainTypeOK, sessionVars
  <1>6. ASSUME NEW o \in Op, CallStop("page", o, ctl, mirror), page' = "STOPPING",
               UNCHANGED <<sessionVars, prompt, gaveUp>>
        PROVE  SessionTypeOK' /\ MainTypeOK'
    <2>1. ctl \in Controller /\ mirror \in Status
      BY <1>0 DEF MainTypeOK
    <2>2. /\ ctl' \in Controller /\ mirror' \in Status /\ op' \in [Caller -> Op]
          /\ wants' \subseteq Want /\ asks' \in Nat /\ local' \in Config \cup {NoConfig}
      BY <1>0, <1>2, <1>6, <2>1, CallStopTypes
    <2>3. QED BY <1>0, <1>6, <2>2 DEF SessionTypeOK, MainTypeOK, sessionVars, Status
  <1>7. CASE TapDisconnect \/ \E config \in Config : TapSwitch(config)
    BY <1>2, <1>6, <1>7, OpTypes DEF TapDisconnect, TapSwitch
  <1>8. CASE PageReturns
    <2>1. [Idle EXCEPT !.pc = "saving", !.config = op["page"].config] \in Op
      BY <1>2, OpTypes
    <2>2. QED
      BY <1>0, <1>2, <1>8, <2>1 DEF PageReturns, SessionTypeOK, MainTypeOK, sessionVars
  <1>9. CASE PageRefreshes
    BY <1>0, <1>9 DEF PageRefreshes, SessionTypeOK, MainTypeOK, sessionVars
  <1>10. QED BY <1>1, <1>4, <1>5, <1>7, <1>8, <1>9 DEF User

LEMMA SceneTypes == ASSUME TypeOK, Scene PROVE TypeOK'
  <1>0. SessionTypeOK /\ MainTypeOK
    BY DEF TypeOK, SessionTypeOK, MainTypeOK, Controller
  <1>1. SUFFICES SessionTypeOK' /\ MainTypeOK'
    BY DEF TypeOK, SessionTypeOK, MainTypeOK, Controller
  <1>2. "scene" \in Caller /\ op["scene"] \in Op /\ Idle \in Op
    BY <1>0, OpTypes DEF Caller, MainTypeOK
  <1>3. CASE SceneProbes \/ SceneSkips \/ SceneReturns
    BY <1>0, <1>2, <1>3, GotoTypes
    DEF SceneProbes, SceneSkips, SceneReturns, SessionTypeOK, MainTypeOK, sessionVars, pageVars, Pc
  <1>4. ASSUME NEW trusted \in BOOLEAN, SceneDecides(trusted)
        PROVE  SessionTypeOK' /\ MainTypeOK'
    <2> DEFINE stopped == mirror = "RUNNING" /\ stopFlag
               m == IF stopped THEN "IDLE" ELSE mirror
               cs == Reconciled(stopped)
    <2>1. cs \in Controller /\ m \in Status
      BY <1>0, CtlTypes DEF Reconciled, MainTypeOK, Status, Mode
    <2>2. /\ \/ CallStop("scene", Idle, cs, m)
             \/ ctl' = cs /\ mirror' = m /\ Goto("scene", "idle") /\ SendsNothing /\ local' = local
          /\ UNCHANGED <<sessionVars, pageVars, gaveUp>>
      BY <1>4 DEF SceneDecides
    <2> HIDE DEF cs, m
    <2>3. /\ ctl' \in Controller /\ mirror' \in Status /\ op' \in [Caller -> Op]
          /\ wants' \subseteq Want /\ asks' \in Nat /\ local' \in Config \cup {NoConfig}
      BY <1>0, <1>2, <2>1, <2>2, CallStopTypes, GotoTypes DEF SendsNothing, MainTypeOK, Pc
    <2>4. QED BY <1>0, <2>2, <2>3 DEF SessionTypeOK, MainTypeOK, sessionVars, pageVars
  <1>5. QED BY <1>1, <1>3, <1>4 DEF Scene

(* The extension and the system.                                           *)
LEMMA FreshIsSession ==
  ASSUME \E i \in Session : session[i].life = "none"
  PROVE  Fresh \in Session /\ session[Fresh].life = "none"
  BY DEF Fresh

LEMMA SystemTypes ==
  ASSUME TypeOK, Deliver \/ ExtensionWorks \/ SystemDestroys \/ ProcessEnds PROVE TypeOK'
  <1>0. SessionTypeOK /\ MainTypeOK
    BY DEF TypeOK, SessionTypeOK, MainTypeOK, Controller
  <1>1. SUFFICES SessionTypeOK' /\ MainTypeOK'
    BY DEF TypeOK, SessionTypeOK, MainTypeOK, Controller
  <1>2. CASE ExtensionWorks \/ SystemDestroys \/ ProcessEnds
    <2>1. SessionTypeOK'
      BY <1>0, <1>2, SessionStepTypes DEF ExtensionWorks, SystemDestroys, ProcessEnds
    <2>2. UNCHANGED mainVars
      BY <1>2 DEF ExtensionWorks, SystemDestroys, ProcessEnds
    <2>3. QED BY <1>0, <2>1, <2>2 DEF MainTypeOK, mainVars
  <1>3. ASSUME NEW w \in wants, DeliverStart(w) \/ DeliverStop(w)
        PROVE  SessionTypeOK' /\ MainTypeOK'
    <2>1. /\ wants' = wants \ {w} /\ MainStays
          /\ \/ UNCHANGED sessionVars
             \/ /\ \E i \in Session : session[i].life = "none"
                /\ Open(Fresh, w.config) /\ w.kind = "start"
             \/ \E i \in Session : StopRequest(i)
             \/ /\ \E i \in Session : session[i].life = "none"
                /\ OpenForStop(Fresh)
      BY <1>3 DEF DeliverStart, DeliverStop
    <2>2. w.config \in Config \cup {NoConfig}
      BY <1>0 DEF MainTypeOK, Want
    <2>3. MainTypeOK'
      BY <1>0, <2>1 DEF MainTypeOK, MainStays, pageVars
    <2>4. CASE Open(Fresh, w.config)
      <3>1. [NewSession EXCEPT !.life = "live", !.config = w.config, !.starting = TRUE]
              \in SessionState
        BY <2>2 DEF NewSession, SessionState
      <3>2. SessionTypeOK'
        BY <1>0, <2>4, <3>1 DEF Open, SessionTypeOK
      <3>3. QED BY <2>3, <3>2
    <2>5. SessionTypeOK'
      BY <1>0, <2>1, <2>4, SessionStepTypes, FreshIsSession DEF SessionTypeOK, sessionVars
    <2>6. QED BY <2>3, <2>5
  <1>4. QED BY <1>1, <1>2, <1>3 DEF Deliver

LEMMA InitTypes == Init => TypeOK
  <1> SUFFICES ASSUME Init PROVE TypeOK OBVIOUS
  <1>1. SessionTypeOK
    <2>1. session \in [Session -> SessionState]
      BY NewSessionType DEF Init, SessionInit
    <2>2. log \in Seq(SessionEvent)
      BY DEF Init, SessionInit
    <2>3. QED BY <2>1, <2>2 DEF Init, SessionInit, SessionTypeOK
  <1>2. Idle \in Op
    BY DEF Idle, Op
  <1>3. MainTypeOK
    BY <1>2 DEF Init, MainTypeOK, Controller, Status, Mode
  <1>4. QED BY <1>1, <1>3 DEF TypeOK, SessionTypeOK, MainTypeOK, Controller

LEMMA NextTypes == ASSUME TypeOK, [Next]_vars PROVE TypeOK'
  <1>1. CASE UNCHANGED vars
    BY <1>1 DEF vars, TypeOK
  <1>2. ASSUME NEW c \in Caller, Pipeline(c) PROVE TypeOK'
    BY <1>2, StartTypes, StopTypes DEF Pipeline
  <1>3. QED
    BY <1>1, <1>2, UserTypes, SceneTypes, SystemTypes DEF Next, Caller

(* Every field of the pipelines stays in its range.                        *)
THEOREM ConnectionTypes == Spec => []TypeOK
  <1>1. TypeOK /\ [Next]_vars => TypeOK'
    BY NextTypes
  <1>2. QED BY <1>1, InitTypes, PTL DEF Spec

-----------------------------------------------------------------------------
(* Who may start and who may stop: the lock of the page and the mirror keep*)
(* the two pipelines apart, as long as the question of the core does not   *)
(* stay open on the page.                                                  *)

StartPcs == {"preparing", "start asked", "starting"}
StopPcs == {"stop asked", "stopping", "closing"}

(* p, s : where the page and the scene manager are; st : the controller;   *)
(* m : the mirror; pg : the status the page shows.                         *)
Lock(p, s, st, m, pg) ==
  /\ s \in {"idle", "probing", "refreshing"} \cup StopPcs
  /\ st = "STARTING" <=> p \in StartPcs
  /\ st = "STOPPING" <=> p \in StopPcs \/ s \in StopPcs
  /\ ~(p \in StopPcs /\ s \in StopPcs)
  /\ m = "RUNNING" => p \in StopPcs \cup {"refreshing"} \/ (p = "idle" /\ pg = "RUNNING")
  /\ s \in StopPcs => /\ m \in {"RUNNING", "STOPPING"} /\ p # "saving"
                      /\ p = "idle" => pg \in {"RUNNING", "STOPPING"}

LockInv == ~prompt /\ Lock(op["page"].pc, op["scene"].pc, ctl.status, mirror, page)

(* What a step must keep for NoStartWhileStopping.                         *)
KeepsLock == LockInv' /\ (ctl.status = "STOPPING" => ctl'.status # "STARTING")

LEMMA GotoPc ==
  ASSUME op \in [Caller -> Op], NEW c \in Caller, NEW pc, Goto(c, pc)
  PROVE  op'[c].pc = pc /\ \A d \in Caller : d # c => op'[d] = op[d]
  BY DEF Goto, Op

LEMMA CallStopEffect ==
  ASSUME MainTypeOK, NEW c \in Caller, NEW o \in Op, NEW cs \in Controller, NEW m,
         CallStop(c, o, cs, m)
  PROVE  /\ \A d \in Caller : d # c => op'[d] = op[d]
         /\ op'[c].since \in {o.since, Len(log)}
         /\ cs.status \in {"IDLE", "STOPPING"} =>
              /\ ctl' = cs /\ mirror' = cs.status /\ op'[c].pc = "refreshing"
              /\ UNCHANGED <<wants, asks>>
         /\ cs.status \notin {"IDLE", "STOPPING"} /\ cs.mode = "proxy-only" =>
              /\ ctl'.status \in {"IDLE", "ERROR"} /\ ctl'.config = cs.config
              /\ mirror' = ctl'.status /\ op'[c].pc = "refreshing"
              /\ UNCHANGED <<wants, asks>>
         /\ cs.status \notin {"IDLE", "STOPPING"} /\ cs.mode = "vpn" =>
              /\ ctl'.status = "STOPPING" /\ ctl'.config = cs.config /\ ctl'.mode = "vpn"
              /\ mirror' = m /\ op'[c].pc = "stop asked"
  <1>1. op \in [Caller -> Op]
    BY DEF MainTypeOK
  <1>2. CASE cs.status \in {"IDLE", "STOPPING"}
    <2>1. /\ ctl' = cs /\ mirror' = cs.status /\ UNCHANGED <<wants, asks>>
          /\ op' = [op EXCEPT ![c] = [o EXCEPT !.pc = "refreshing"]]
      BY <1>2 DEF CallStop, SendsNothing
    <2>2. /\ op'[c].pc = "refreshing" /\ op'[c].since = o.since
          /\ \A d \in Caller : d # c => op'[d] = op[d]
      BY <1>1, <2>1 DEF Op
    <2>3. QED BY <1>2, <2>1, <2>2
  <1>3. CASE cs.status \notin {"IDLE", "STOPPING"} /\ cs.mode = "proxy-only"
    <2>1. /\ \/ ctl' = [cs EXCEPT !.status = "IDLE", !.mode = "vpn"]
             \/ ctl' = [cs EXCEPT !.status = "ERROR"]
          /\ mirror' = ctl'.status /\ UNCHANGED <<wants, asks>>
          /\ op' = [op EXCEPT ![c] = [o EXCEPT !.pc = "refreshing"]]
      BY <1>3 DEF CallStop, SendsNothing
    <2>2. ctl'.status \in {"IDLE", "ERROR"} /\ ctl'.config = cs.config
      BY <2>1 DEF Controller
    <2>3. /\ op'[c].pc = "refreshing" /\ op'[c].since = o.since
          /\ \A d \in Caller : d # c => op'[d] = op[d]
      BY <1>1, <2>1 DEF Op
    <2>4. QED BY <1>3, <2>1, <2>2, <2>3
  <1>4. CASE cs.status \notin {"IDLE", "STOPPING"} /\ cs.mode = "vpn"
    <2>1. /\ ctl' = [cs EXCEPT !.status = "STOPPING"] /\ mirror' = m /\ Send("stop", NoConfig)
          /\ op' = [op EXCEPT ![c] = [o EXCEPT !.pc = "stop asked",
                                               !.since = Len(log), !.id = asks + 1]]
      BY <1>4 DEF CallStop
    <2>2. ctl'.status = "STOPPING" /\ ctl'.config = cs.config /\ ctl'.mode = "vpn"
      BY <1>4, <2>1 DEF Controller
    <2>3. /\ op'[c].pc = "stop asked" /\ \A d \in Caller : d # c => op'[d] = op[d]
      BY <1>1, <2>1 DEF Op
    <2>4. op'[c].since = Len(log) BY <1>1, <2>1 DEF Op
    <2>5. QED BY <1>4, <2>1, <2>2, <2>3, <2>4
  <1>5. QED BY <1>2, <1>3, <1>4 DEF Controller, Mode

LEMMA CallStopAsks ==
  ASSUME MainTypeOK, NEW c \in Caller, NEW o \in Op, NEW cs \in Controller, NEW m,
         CallStop(c, o, cs, m), cs.status \notin {"IDLE", "STOPPING"}, cs.mode = "vpn"
  PROVE  Send("stop", NoConfig) /\ op'[c].id = asks + 1
  <1>1. /\ Send("stop", NoConfig)
        /\ op' = [op EXCEPT ![c] = [o EXCEPT !.pc = "stop asked",
                                             !.since = Len(log), !.id = asks + 1]]
    BY DEF CallStop
  <1>2. QED BY <1>1 DEF MainTypeOK, Op

LEMMA CallStopStatus ==
  ASSUME MainTypeOK, NEW c \in Caller, NEW o \in Op, NEW cs \in Controller, NEW m,
         CallStop(c, o, cs, m)
  PROVE  \/ /\ cs.status \in {"IDLE", "STOPPING"} /\ ctl'.status = cs.status
            /\ mirror' = cs.status /\ op'[c].pc = "refreshing"
         \/ /\ cs.status \notin {"IDLE", "STOPPING"}
            /\ ctl'.status \in {"IDLE", "ERROR"} /\ mirror' = ctl'.status
            /\ op'[c].pc = "refreshing"
         \/ /\ cs.status \notin {"IDLE", "STOPPING"}
            /\ ctl'.status = "STOPPING" /\ mirror' = m /\ op'[c].pc = "stop asked"
  <1>1. CASE cs.status \in {"IDLE", "STOPPING"}
    BY <1>1, CallStopEffect
  <1>2. CASE cs.status \notin {"IDLE", "STOPPING"} /\ cs.mode = "proxy-only"
    BY <1>2, CallStopEffect
  <1>3. CASE cs.status \notin {"IDLE", "STOPPING"} /\ cs.mode = "vpn"
    BY <1>3, CallStopEffect
  <1>4. QED BY <1>1, <1>2, <1>3, CtlTypes DEF Mode

LEMMA ReturnEffect ==
  ASSUME MainTypeOK, NEW c \in Caller, NEW status,
         StartReturns(c, status) \/ StopReturns(c, status)
  PROVE  /\ ctl' = [ctl EXCEPT !.status = status] /\ ctl'.status = status
         /\ ctl'.config = ctl.config /\ ctl'.mode = ctl.mode /\ mirror' = status
         /\ op'[c].pc = "refreshing"
         /\ \A d \in Caller : d # c => op'[d] = op[d]
  <1>1. ctl' = [ctl EXCEPT !.status = status] /\ mirror' = status /\ Goto(c, "refreshing")
    BY DEF StartReturns, StopReturns
  <1>2. /\ op'[c].pc = "refreshing"
        /\ \A d \in Caller : d # c => op'[d] = op[d]
    BY <1>1, GotoPc DEF MainTypeOK
  <1>3. ctl'.status = status /\ ctl'.config = ctl.config /\ ctl'.mode = ctl.mode
    BY <1>1 DEF MainTypeOK, Controller
  <1>4. QED BY <1>1, <1>2, <1>3

(* A caller in a start is the page.                                        *)
LEMMA StarterIsPage ==
  ASSUME LockInv, NEW c \in Caller, op[c].pc \in StartPcs \cup {"saving"}
  PROVE  c = "page"
  BY DEF LockInv, Lock, Caller, StartPcs, StopPcs

LEMMA PipelineLock ==
  ASSUME TypeOK, LockInv, NEW c \in Caller, Pipeline(c) PROVE KeepsLock
  <1>0. MainTypeOK /\ "page" \in Caller /\ "scene" \in Caller
    BY DEF TypeOK, MainTypeOK, Controller, Caller
  <1>1. c = "page" \/ c = "scene"
    BY DEF Caller
  <1>2. CASE BeginStart(c)
    <2>1. c = "page" /\ ctl.status # "STOPPING"
      BY <1>2, StarterIsPage DEF BeginStart, At, LockInv, Lock, StartPcs, StopPcs
    <2>2. CASE ctl.status \in {"STARTING", "RUNNING"}
      <3>1. /\ StartReturns("page", ctl.status) /\ prompt' = prompt
            /\ op["page"].pc = "saving"
        BY <1>2, <2>1, <2>2 DEF BeginStart, At
      <3>2. /\ ctl'.status = ctl.status /\ mirror' = ctl.status /\ op'["page"].pc = "refreshing"
            /\ op'["scene"] = op["scene"]
        BY <1>0, <3>1, ReturnEffect
      <3>3. QED
        BY <2>1, <2>2, <3>1, <3>2 DEF KeepsLock, LockInv, Lock, StartPcs, StopPcs
    <2>3. CASE ctl.status \notin {"STARTING", "RUNNING"}
      <3>1. /\ ctl' = [ctl EXCEPT !.status = "STARTING"] /\ Goto("page", "preparing")
            /\ mirror' = mirror /\ prompt' = prompt /\ op["page"].pc = "saving"
        BY <1>2, <2>1, <2>3 DEF BeginStart, At
      <3>2. ctl'.status = "STARTING" /\ op'["page"].pc = "preparing" /\ op'["scene"] = op["scene"]
        BY <1>0, <3>1, GotoPc DEF MainTypeOK, Controller
      <3>3. QED
        BY <2>1, <3>1, <3>2 DEF KeepsLock, LockInv, Lock, StartPcs, StopPcs
    <2>4. QED BY <2>2, <2>3
  <1>3. CASE SaveFails(c)
    <2>1. /\ c = "page" /\ op["page"].pc = "saving" /\ op' = [op EXCEPT !["page"] = Idle]
          /\ UNCHANGED <<ctl, mirror, page, prompt>>
      BY <1>3, StarterIsPage DEF SaveFails, At, pageVars
    <2>2. op'["page"].pc = "idle" /\ op'["scene"] = op["scene"]
      BY <1>0, <2>1 DEF MainTypeOK, Idle
    <2>3. QED BY <2>1, <2>2 DEF KeepsLock, LockInv, Lock, StartPcs, StopPcs
  <1>4. CASE RequestVpn(c)
    <2>1. /\ c = "page" /\ op["page"].pc = "preparing"
          /\ ctl' = [ctl EXCEPT !.config = op[c].config, !.mode = "vpn"]
          /\ op' = [op EXCEPT !["page"] = [@ EXCEPT !.pc = "start asked",
                                             !.since = Len(log), !.id = asks + 1]]
          /\ UNCHANGED <<mirror, page, prompt>>
      BY <1>4, StarterIsPage DEF RequestVpn, At, pageVars, StartPcs
    <2>2. op'["page"].pc = "start asked" /\ op'["scene"] = op["scene"] /\ ctl'.status = ctl.status
      BY <1>0, <2>1 DEF MainTypeOK, Op, Controller
    <2>3. QED BY <2>1, <2>2 DEF KeepsLock, LockInv, Lock, StartPcs, StopPcs
  <1>5. ASSUME c = "page", op["page"].pc \in StartPcs, op'["page"].pc = "refreshing",
               op'["scene"] = op["scene"],
               ctl'.status \in {"RUNNING", "ERROR"}, mirror' = ctl'.status,
               UNCHANGED <<page, prompt>>
        PROVE  KeepsLock
    BY <1>5 DEF KeepsLock, LockInv, Lock, StartPcs, StopPcs
  <1>6. CASE \/ RefuseSingbox(c) \/ StartRejected(c) \/ StartTimesOut(c)
             \/ StartAnswered(c) \/ StartUnanswered(c)
    <2>1. op[c].pc \in StartPcs /\ UNCHANGED <<page, prompt>>
      BY <1>6 DEF RefuseSingbox, StartRejected, StartTimesOut, StartAnswered, StartUnanswered,
                  At, StartPcs, pageVars
    <2>2. \E status \in {"RUNNING", "ERROR"} : StartReturns(c, status)
      BY <1>6 DEF RefuseSingbox, StartRejected, StartTimesOut, StartAnswered, StartUnanswered
    <2>3. QED BY <1>0, <1>5, <2>1, <2>2, StarterIsPage, ReturnEffect
  <1>7. CASE \E preflight, lib \in BOOLEAN : RunProxyOnly(c, preflight, lib)
    <2>1. /\ op[c].pc = "preparing" /\ UNCHANGED <<page, prompt>> /\ Goto(c, "refreshing")
          /\ ctl'.status \in {"RUNNING", "ERROR"} /\ mirror' = ctl'.status
      BY <1>7 DEF RunProxyOnly, At, pageVars
    <2>2. c = "page" BY <2>1, StarterIsPage DEF StartPcs
    <2>3. op'["page"].pc = "refreshing" /\ op'["scene"] = op["scene"]
      BY <1>0, <2>1, <2>2, GotoPc DEF MainTypeOK
    <2>4. QED BY <1>5, <2>1, <2>2, <2>3 DEF StartPcs
  <1>8. CASE StartAccepted(c)
    <2>1. /\ c = "page" /\ op["page"].pc = "start asked" /\ Goto("page", "starting")
          /\ UNCHANGED <<ctl, mirror, page, prompt>>
      BY <1>8, StarterIsPage DEF StartAccepted, At, pageVars, StartPcs
    <2>2. op'["page"].pc = "starting" /\ op'["scene"] = op["scene"]
      BY <1>0, <2>1, GotoPc DEF MainTypeOK
    <2>3. QED BY <2>1, <2>2 DEF KeepsLock, LockInv, Lock, StartPcs, StopPcs
  <1>9. ASSUME NEW pc \in StopPcs, op[c].pc \in StopPcs, Goto(c, pc),
               UNCHANGED <<ctl, mirror, page, prompt>>
        PROVE  KeepsLock
    <2>1. op'[c].pc = pc /\ \A d \in Caller : d # c => op'[d] = op[d]
      BY <1>0, <1>9, GotoPc DEF MainTypeOK
    <2>2. CASE c = "page"
      <3>1. op'["page"].pc = pc /\ op'["scene"] = op["scene"]
        BY <1>0, <2>1, <2>2
      <3>2. QED BY <1>9, <2>2, <3>1 DEF KeepsLock, LockInv, Lock, StartPcs, StopPcs
    <2>3. CASE c = "scene"
      <3>1. op'["scene"].pc = pc /\ op'["page"] = op["page"]
        BY <1>0, <2>1, <2>3
      <3>2. QED BY <1>9, <2>3, <3>1 DEF KeepsLock, LockInv, Lock, StartPcs, StopPcs
    <2>4. QED BY <1>1, <2>2, <2>3
  <1>10. CASE StopAccepted(c) \/ StopAnswered(c)
    BY <1>9, <1>10 DEF StopAccepted, StopAnswered, At, StopPcs, pageVars
  <1>11. CASE StopRejected(c) \/ StopTimesOut(c) \/ StopUnanswered(c) \/ Closed(c) \/ CloseRejected(c)
    <2>1. op[c].pc \in StopPcs /\ UNCHANGED <<page, prompt>>
      BY <1>11 DEF StopRejected, StopTimesOut, StopUnanswered, Closed, CloseRejected,
                   At, StopPcs, pageVars
    <2>2. PICK status \in {"IDLE", "ERROR"} : StopReturns(c, status)
      BY <1>11 DEF StopRejected, StopTimesOut, StopUnanswered, Closed, CloseRejected
    <2>3. /\ ctl'.status = status /\ mirror' = status /\ op'[c].pc = "refreshing"
          /\ \A d \in Caller : d # c => op'[d] = op[d]
      BY <1>0, <2>2, ReturnEffect
    <2>4. CASE c = "page"
      <3>1. op'["page"].pc = "refreshing" /\ op'["scene"] = op["scene"]
        BY <1>0, <2>3, <2>4
      <3>2. QED BY <2>1, <2>3, <2>4, <3>1 DEF KeepsLock, LockInv, Lock, StartPcs, StopPcs
    <2>5. CASE c = "scene"
      <3>1. op'["scene"].pc = "refreshing" /\ op'["page"] = op["page"]
        BY <1>0, <2>3, <2>5
      <3>2. QED BY <2>1, <2>3, <2>5, <3>1 DEF KeepsLock, LockInv, Lock, StartPcs, StopPcs
    <2>6. QED BY <1>1, <2>4, <2>5
  <1>12. QED
    BY <1>2, <1>3, <1>4, <1>6, <1>7, <1>8, <1>10, <1>11 DEF Pipeline

LEMMA UserLock ==
  ASSUME ~Prompts, TypeOK, LockInv, User \/ PageReturns \/ PageRefreshes PROVE KeepsLock
  <1>0. MainTypeOK /\ "page" \in Caller /\ "scene" \in Caller /\ Idle \in Op
    BY OpTypes DEF TypeOK, MainTypeOK, Controller, Caller
  <1>1. ASSUME NEW config \in Config, TapConnect(config) \/ ConfirmCore(config) PROVE KeepsLock
    <2>1. TapConnect(config)
      BY <1>1 DEF ConfirmCore, LockInv
    <2>2. /\ Free /\ page # "RUNNING" /\ UNCHANGED <<ctl, mirror, page, prompt>>
          /\ op' = [op EXCEPT !["page"] = [Idle EXCEPT !.pc = "saving", !.config = config]]
      BY <2>1 DEF TapConnect, StartConnection
    <2>3. op'["page"].pc = "saving" /\ op'["scene"] = op["scene"]
      BY <1>0, <2>2 DEF MainTypeOK, Idle
    <2>4. QED
      BY <2>2, <2>3 DEF Free, At, KeepsLock, LockInv, Lock, StartPcs, StopPcs
  <1>2. CASE AskCore \/ DismissCore
    BY <1>2 DEF AskCore, DismissCore, LockInv
  <1>3. ASSUME NEW o \in Op, Free, page = "RUNNING", page' = "STOPPING", prompt' = prompt,
               CallStop("page", o, ctl, mirror)
        PROVE  KeepsLock
    <2>0. op["page"].pc = "idle" /\ ctl \in Controller /\ \A d \in Caller : d # "page" => op'[d] = op[d]
      BY <1>0, <1>3, CallStopEffect DEF Free, At, MainTypeOK
    <2>1. /\ op'["scene"] = op["scene"] /\ op["page"].pc = "idle"
          /\ \/ /\ ctl.status \in {"IDLE", "STOPPING"} /\ ctl'.status = ctl.status
                /\ mirror' = ctl.status /\ op'["page"].pc = "refreshing"
             \/ /\ ctl.status \notin {"IDLE", "STOPPING"}
                /\ ctl'.status \in {"IDLE", "ERROR"} /\ mirror' = ctl'.status
                /\ op'["page"].pc = "refreshing"
             \/ /\ ctl.status \notin {"IDLE", "STOPPING"}
                /\ ctl'.status = "STOPPING" /\ mirror' = mirror /\ op'["page"].pc = "stop asked"
      <3>1. \/ /\ ctl.status \in {"IDLE", "STOPPING"} /\ ctl'.status = ctl.status
               /\ mirror' = ctl.status /\ op'["page"].pc = "refreshing"
            \/ /\ ctl.status \notin {"IDLE", "STOPPING"}
               /\ ctl'.status \in {"IDLE", "ERROR"} /\ mirror' = ctl'.status
               /\ op'["page"].pc = "refreshing"
            \/ /\ ctl.status \notin {"IDLE", "STOPPING"}
               /\ ctl'.status = "STOPPING" /\ mirror' = mirror /\ op'["page"].pc = "stop asked"
        BY <1>0, <1>3, <2>0, CallStopStatus
      <3>2. op'["scene"] = op["scene"] BY <1>0, <2>0
      <3>3. QED BY <2>0, <3>1, <3>2
    <2>2. QED BY <1>3, <2>1 DEF KeepsLock, LockInv, Lock, StartPcs, StopPcs
  <1>4. CASE TapDisconnect \/ \E config \in Config : TapSwitch(config)
    BY <1>0, <1>3, <1>4, OpTypes DEF TapDisconnect, TapSwitch
  <1>5. CASE PageReturns
    <2>1. /\ op["page"].pc = "refreshing" /\ page' = mirror /\ UNCHANGED <<ctl, mirror, prompt>>
          /\ op'["scene"] = op["scene"]
          /\ op'["page"].pc = "idle" \/ (op'["page"].pc = "saving" /\ mirror = "IDLE")
      BY <1>0, <1>5 DEF PageReturns, At, MainTypeOK, Idle
    <2>2. QED BY <2>1 DEF KeepsLock, LockInv, Lock, StartPcs, StopPcs
  <1>6. CASE PageRefreshes
    BY <1>6 DEF PageRefreshes, KeepsLock, LockInv, Lock, StartPcs, StopPcs
  <1>7. QED
    BY <1>1, <1>2, <1>4, <1>5, <1>6 DEF User

LEMMA SceneLock == ASSUME TypeOK, LockInv, Scene PROVE KeepsLock
  <1>0. MainTypeOK /\ "page" \in Caller /\ "scene" \in Caller /\ Idle \in Op
    BY OpTypes DEF TypeOK, MainTypeOK, Controller, Caller
  <1>1. CASE SceneProbes \/ SceneSkips \/ SceneReturns
    <2>1. /\ op["scene"].pc \in {"idle", "probing", "refreshing"} /\ UNCHANGED <<ctl, mirror, page, prompt>>
          /\ op'["page"] = op["page"] /\ op'["scene"].pc \in {"idle", "probing"}
      BY <1>0, <1>1 DEF SceneProbes, SceneSkips, SceneReturns, At, Goto, MainTypeOK, Idle, pageVars, Op
    <2>2. QED BY <2>1 DEF KeepsLock, LockInv, Lock, StartPcs, StopPcs
  <1>2. ASSUME NEW trusted \in BOOLEAN, SceneDecides(trusted) PROVE KeepsLock
    <2> DEFINE stopped == mirror = "RUNNING" /\ stopFlag
               m == IF stopped THEN "IDLE" ELSE mirror
               cs == Reconciled(stopped)
    <2>1. /\ cs \in Controller /\ m \in {mirror, "IDLE"}
          /\ \/ cs.status = ctl.status
             \/ ctl.status \in {"RUNNING", "STARTING"} /\ cs.status = "IDLE" /\ mirror = "RUNNING"
      <3>1. ctl \in Controller BY <1>0 DEF MainTypeOK
      <3>2. CASE cs = ctl BY <3>1, <3>2
      <3>3. CASE cs # ctl
        <4>1. /\ stopped /\ ctl.status \in {"RUNNING", "STARTING"}
              /\ cs = [ctl EXCEPT !.status = "IDLE", !.mode = "vpn"]
          BY <3>3 DEF Reconciled
        <4>2. cs \in Controller BY <3>1, <4>1, CtlTypes DEF Status, Mode
        <4>3. cs.status = "IDLE" BY <3>1, <4>1 DEF Controller
        <4>4. QED BY <4>1, <4>2, <4>3
      <3>4. QED BY <3>2, <3>3
    <2>2. /\ op["scene"].pc = "probing" /\ UNCHANGED <<page, prompt>>
          /\ \/ m = "RUNNING" /\ CallStop("scene", Idle, cs, m)
             \/ ctl' = cs /\ mirror' = m /\ Goto("scene", "idle")
      BY <1>2 DEF SceneDecides, At, pageVars
    <2> HIDE DEF cs, m
    <2>3. CASE m = "RUNNING" /\ CallStop("scene", Idle, cs, m)
      <3>1. \A d \in Caller : d # "scene" => op'[d] = op[d]
        BY <1>0, <2>1, <2>3, CallStopEffect
      <3>2. \/ /\ cs.status \in {"IDLE", "STOPPING"} /\ ctl'.status = cs.status
               /\ mirror' = cs.status /\ op'["scene"].pc = "refreshing"
            \/ /\ cs.status \notin {"IDLE", "STOPPING"}
               /\ ctl'.status \in {"IDLE", "ERROR"} /\ mirror' = ctl'.status
               /\ op'["scene"].pc = "refreshing"
            \/ /\ cs.status \notin {"IDLE", "STOPPING"}
               /\ ctl'.status = "STOPPING" /\ mirror' = m /\ op'["scene"].pc = "stop asked"
        BY <1>0, <2>1, <2>3, CallStopStatus
      <3>3. op'["page"] = op["page"]
        BY <1>0, <3>1
      <3>4. QED BY <2>1, <2>2, <2>3, <3>2, <3>3 DEF KeepsLock, LockInv, Lock, StartPcs, StopPcs
    <2>4. CASE ctl' = cs /\ mirror' = m /\ Goto("scene", "idle")
      <3>1. op'["scene"].pc = "idle" /\ op'["page"] = op["page"]
        BY <1>0, <2>4, GotoPc DEF MainTypeOK
      <3>2. QED BY <2>1, <2>2, <2>4, <3>1 DEF KeepsLock, LockInv, Lock, StartPcs, StopPcs
    <2>5. QED BY <2>2, <2>3, <2>4
  <1>3. QED BY <1>1, <1>2 DEF Scene

LEMMA NextLock == ASSUME ~Prompts, TypeOK, LockInv, [Next]_vars PROVE KeepsLock
  <1>1. CASE \/ Deliver \/ ExtensionWorks \/ SystemDestroys \/ ProcessEnds \/ UNCHANGED vars
    <2>1. UNCHANGED <<ctl, mirror, page, prompt, op>>
      BY <1>1 DEF Deliver, DeliverStart, DeliverStop, MainStays, ExtensionWorks, SystemDestroys,
                  ProcessEnds, mainVars, pageVars, vars
    <2>2. QED BY <2>1 DEF KeepsLock, LockInv, Lock, StartPcs, StopPcs
  <1>2. QED
    BY <1>1, PipelineLock, UserLock, SceneLock DEF Next, Caller

LEMMA InitLock == Init => LockInv
  <1> SUFFICES ASSUME Init PROVE LockInv OBVIOUS
  <1>1. op["page"].pc = "idle" /\ op["scene"].pc = "idle"
    BY DEF Init, Idle, Caller
  <1>2. ctl.status = "IDLE" BY DEF Init
  <1>3. QED BY <1>1, <1>2 DEF Init, LockInv, Lock, StartPcs, StopPcs

(* At most one of the two pipelines works on the connection at a time.     *)
THEOREM LockInvariant == ASSUME ~Prompts PROVE Spec => []LockInv
  <1>1. TypeOK /\ LockInv /\ [Next]_vars => LockInv'
    BY NextLock DEF KeepsLock
  <1>2. QED BY <1>1, InitLock, ConnectionTypes, PTL DEF Spec

(* No start overtakes a stop, although ConnectionController.start does not *)
(* look for STOPPING.                                                      *)
THEOREM StopNotOvertaken == ASSUME ~Prompts PROVE Spec => NoStartWhileStopping
  <1>1. TypeOK /\ LockInv /\ [Next]_vars => [ctl.status = "STOPPING" => ctl'.status # "STARTING"]_vars
    BY NextLock DEF KeepsLock
  <1>2. QED BY <1>1, ConnectionTypes, LockInvariant, PTL DEF Spec, NoStartWhileStopping

-----------------------------------------------------------------------------
(* Stopping and showing, until the controller has given up on the          *)
(* extension (gaveUp): from then on a data plane may be up that nobody in  *)
(* the main process knows of.                                              *)

Waiting == op["page"].pc \in {"start asked", "starting"}

Wrote(kind, i) == \E k \in DOMAIN log : log[k] = [kind |-> kind, by |-> i]

(* The page has an answer to its start, or a refusal.                      *)
Since(kind) == \E k \in DOMAIN log : op["page"].since < k /\ log[k].kind = kind
Refused == Since("failed")
Answered == Since("started") \/ Refused

(* A data plane that nothing is about to take down.                        *)
Up(i) == Live(i) /\ carried # NoConfig /\ ~session[i].marked

(* The extension: one process at a time; a start that is not yet answered  *)
(* carries nothing, and nor does an instance that is cleaning up.          *)
OneHosted == \A i, j \in Session : Hosted(i) /\ Hosted(j) => i = j

UnusedIsNew ==
  \A i \in Session : session[i].life = "none" =>
    /\ session[i] = NewSession
    /\ \A k \in DOMAIN log : log[k].by # i

CarrierIsHosted == carried # NoConfig => \E i \in Session : Hosted(i)

CleaningIsDown == \A i \in Session : Live(i) /\ session[i].cleaning => carried = NoConfig

StartingIsClean ==
  \A i \in Session : Hosted(i) /\ session[i].starting =>
    /\ carried = NoConfig
    /\ ~session[i].marked
    /\ Live(i) => ~session[i].cleaning
    /\ ~Wrote("started", i)

ExtensionInv ==
  /\ OneHosted /\ UnusedIsNew /\ CarrierIsHosted /\ CleaningIsDown /\ StartingIsClean

(* The Wants: at most one is on its way, and its caller still waits for it.*)
Asks(c, w) ==
  /\ w.id = op[c].id
  /\ \/ w.kind = "stop" /\ op[c].pc = "stop asked"
     \/ w.kind = "start" /\ op[c].pc = "start asked" /\ c = "page" /\ w.config = ctl.config

AskedInv ==
  \A w \in wants :
    /\ \A v \in wants : v = w
    /\ \E c \in Caller : Asks(c, w)

(* The start under way in the extension is the one the page waits for.     *)
StartingIsAwaited ==
  \A i \in Session : Hosted(i) /\ session[i].starting =>
    /\ Waiting /\ Delivered("page") /\ ~Answered
    /\ session[i].config = ctl.config

WaitingInv ==
  Waiting =>
    /\ ctl.mode = "vpn"
    /\ Answered => Delivered("page") /\ carried \in {ctl.config, NoConfig}
    /\ Refused => carried = NoConfig

(* A stop that was delivered has taken the data plane down.                *)
StoppedIsDown ==
  \A c \in Caller :
    \/ op[c].pc \in {"stopping", "closing"}
    \/ op[c].pc = "stop asked" /\ Delivered(c)
    => carried = NoConfig

RunningInv ==
  ctl.mode = "vpn" /\ "RUNNING" \in {mirror, ctl.status}
    => carried \in {ctl.config, NoConfig}

(* A data plane that is up is known to the controller, and while the flag  *)
(* of the automatic stop is up the page is still in the start.             *)
UpInv ==
  \A i \in Session : Up(i) =>
    /\ ctl.mode = "vpn"
    /\ ctl.status \in {"STARTING", "RUNNING", "STOPPING"}
    /\ op["page"].pc \in StartPcs => Waiting /\ Answered
    /\ stopFlag => op["page"].pc \in StartPcs

MainInv ==
  /\ op["page"].since <= Len(log)
  /\ AskedInv /\ StartingIsAwaited /\ WaitingInv /\ StoppedIsDown /\ RunningInv /\ UpInv

StopInv == ExtensionInv /\ MainInv

(* The extension writes these events of instance "i", and nothing else.    *)
Writes(i, kinds) ==
  /\ Len(log) <= Len(log')
  /\ \A k \in DOMAIN log : k \in DOMAIN log' /\ log'[k] = log[k]
  /\ \A k \in DOMAIN log' \ DOMAIN log :
       log'[k].by = i /\ log'[k].kind \in kinds
  /\ \A kind \in kinds : \E k \in DOMAIN log' \ DOMAIN log : log'[k].kind = kind

LEMMA WritesNothing ==
  ASSUME SessionTypeOK, NEW i \in Session, log' = log PROVE Writes(i, {})
  BY DEF Writes, SessionTypeOK

LEMMA WritesOne ==
  ASSUME SessionTypeOK, NEW i \in Session, NEW kind \in {"started", "failed", "cleanup", "auto"},
         log' = Record(log, kind, i)
  PROVE  Writes(i, {kind})
  <1>1. /\ log \in Seq(SessionEvent) /\ Len(log) \in Nat
        /\ DOMAIN log = 1 .. Len(log)
    BY DEF SessionTypeOK
  <1>2. /\ Len(log') = Len(log) + 1 /\ DOMAIN log' = DOMAIN log \cup {Len(log) + 1}
        /\ \A k \in DOMAIN log : log'[k] = log[k]
        /\ log'[Len(log) + 1] = [kind |-> kind, by |-> i]
    BY <1>1 DEF Record
  <1>3. Len(log) + 1 \notin DOMAIN log BY <1>1
  <1>4. QED BY <1>1, <1>2, <1>3 DEF Writes

LEMMA WritesTwo ==
  ASSUME SessionTypeOK, NEW i \in Session,
         NEW kind \in {"started", "failed", "cleanup", "auto"},
         NEW next \in {"started", "failed", "cleanup", "auto"},
         log' = Record(Record(log, kind, i), next, i)
  PROVE  Writes(i, {kind, next})
  <1> DEFINE l == Record(log, kind, i)
  <1>1. /\ log \in Seq(SessionEvent) /\ Len(log) \in Nat
        /\ DOMAIN log = 1 .. Len(log)
    BY DEF SessionTypeOK
  <1>0. l \in Seq(SessionEvent)
    BY <1>1, RecordType
  <1>2. /\ Len(l) = Len(log) + 1 /\ DOMAIN l = DOMAIN log \cup {Len(log) + 1}
        /\ \A k \in DOMAIN log : l[k] = log[k]
        /\ l[Len(log) + 1] = [kind |-> kind, by |-> i]
    BY <1>1 DEF Record
  <1> HIDE DEF l
  <1>3. log' = Record(l, next, i) BY DEF l
  <1>4. /\ Len(log') = Len(l) + 1 /\ DOMAIN log' = DOMAIN l \cup {Len(l) + 1}
        /\ \A k \in DOMAIN l : log'[k] = l[k]
        /\ log'[Len(l) + 1] = [kind |-> next, by |-> i]
    BY <1>0, <1>3 DEF Record
  <1>5. Len(log) + 1 \notin DOMAIN log /\ Len(log) + 2 \notin DOMAIN log BY <1>1
  <1>6. /\ DOMAIN log' = DOMAIN log \cup {Len(log) + 1, Len(log) + 2}
        /\ Len(log') = Len(log) + 2
        /\ \A k \in DOMAIN log : log'[k] = log[k]
        /\ log'[Len(log) + 1] = [kind |-> kind, by |-> i]
        /\ log'[Len(log) + 2] = [kind |-> next, by |-> i]
    BY <1>1, <1>2, <1>4
  <1>7. QED BY <1>1, <1>5, <1>6 DEF Writes

(* What a step that writes means to a caller that looks for answers.       *)
LEMMA WritesAnswers ==
  ASSUME TypeOK, TypeOK', NEW i \in Session,
         NEW kinds \in SUBSET {"started", "failed", "cleanup", "auto"}, Writes(i, kinds),
         op'["page"].since = op["page"].since, op["page"].since <= Len(log)
  PROVE  /\ op'["page"].since <= Len(log')
         /\ \A kind \in {"started", "failed"} : Since(kind)' <=> Since(kind) \/ kind \in kinds
         /\ \A j \in Session :
              /\ Wrote("started", j)' => Wrote("started", j) \/ (j = i /\ "started" \in kinds)
              /\ (\A k \in DOMAIN log : log[k].by # j) /\ j # i
                   => \A k \in DOMAIN log' : log'[k].by # j
  <1>1. /\ log \in Seq(SessionEvent) /\ Len(log) \in Nat /\ DOMAIN log = 1 .. Len(log)
        /\ "page" \in Caller /\ op["page"] \in Op
    BY DEF TypeOK, Caller
  <1>2. \A k \in DOMAIN log' \ DOMAIN log : k \in Nat /\ k > Len(log)
    <2>1. log' \in Seq(SessionEvent) /\ DOMAIN log' = 1 .. Len(log') /\ Len(log') \in Nat
      BY DEF TypeOK
    <2>2. QED BY <1>1, <2>1
  <1>3. op["page"].since \in Nat
    BY <1>1 DEF Op
  <1>4. ASSUME NEW kind \in {"started", "failed"}
        PROVE  Since(kind)' <=> Since(kind) \/ kind \in kinds
    BY <1>1, <1>2, <1>3 DEF Writes, Since
  <1>5. ASSUME NEW j \in Session
        PROVE  /\ Wrote("started", j)' => Wrote("started", j) \/ (j = i /\ "started" \in kinds)
               /\ (\A k \in DOMAIN log : log[k].by # j) /\ j # i
                    => \A k \in DOMAIN log' : log'[k].by # j
    BY DEF Writes, Wrote
  <1>6. op'["page"].since <= Len(log')
    BY <1>1, <1>3 DEF Writes
  <1>7. QED BY <1>4, <1>5, <1>6

Kind == {"started", "failed", "cleanup", "auto"}

(* What a step of the hosted instance "i" may do: it turns its record into *)
(* "s" and writes these events.                                            *)
HostedEffect(i, s, kinds) ==
  /\ session' = [session EXCEPT ![i] = s] /\ s.life # "none"
  /\ Writes(i, kinds)
  /\ s.starting => /\ session[i].starting /\ s.config = session[i].config /\ carried' = NoConfig
                   /\ ~s.marked /\ (s.life = "live" => ~s.cleaning)
                   /\ kinds \subseteq {"cleanup"}
  /\ s.life = "live" /\ s.cleaning => carried' = NoConfig
  /\ carried' # NoConfig => s.life \in {"live", "destroyed"}
  /\ \/ carried' \in {carried, NoConfig}
     \/ session[i].starting /\ carried' = session[i].config
  /\ kinds \cap {"started", "failed"} # {} => session[i].starting
  /\ "failed" \in kinds => carried' = NoConfig
  /\ s.life = "live" /\ ~s.marked /\ carried' # NoConfig =>
       /\ stopFlag' = stopFlag
       /\ Up(i) \/ "started" \in kinds

LEMMA StartingFacts ==
  ASSUME LockInv, StopInv, NEW i \in Session, Hosted(i), session[i].starting
  PROVE  /\ Waiting /\ Delivered("page") /\ ~Answered /\ ~Refused /\ session[i].config = ctl.config
         /\ carried = NoConfig /\ ~session[i].marked /\ (Live(i) => ~session[i].cleaning)
         /\ ~Wrote("started", i)
         /\ ctl.mode = "vpn" /\ ctl.status = "STARTING" /\ op["page"].pc \in StartPcs
         /\ \A c \in Caller : op[c].pc \notin StopPcs
  <1>1. /\ Waiting /\ Delivered("page") /\ ~Answered /\ ~Refused /\ session[i].config = ctl.config
        /\ carried = NoConfig /\ ~session[i].marked /\ (Live(i) => ~session[i].cleaning)
        /\ ~Wrote("started", i)
    BY DEF StopInv, ExtensionInv, MainInv, StartingIsClean, StartingIsAwaited, Answered
  <1>2. ctl.mode = "vpn"
    BY <1>1 DEF StopInv, MainInv, WaitingInv
  <1>3. op["page"].pc \in StartPcs
    BY <1>1 DEF Waiting, StartPcs
  <1>4. ctl.status = "STARTING" /\ op["page"].pc \notin StopPcs /\ op["scene"].pc \notin StopPcs
    BY <1>3 DEF LockInv, Lock, StartPcs, StopPcs
  <1>5. QED BY <1>1, <1>2, <1>3, <1>4 DEF Caller

LEMMA HostedStep ==
  ASSUME TypeOK, TypeOK', LockInv, StopInv, NEW i \in Session, Hosted(i),
         NEW s \in SessionState, NEW kinds \in SUBSET Kind, HostedEffect(i, s, kinds),
         UNCHANGED <<op, ctl, mirror>>, wants' \subseteq wants,
         wants' # wants => carried' = NoConfig
  PROVE  StopInv'
  <1>1. /\ session'[i] = s /\ \A j \in Session : j # i => session'[j] = session[j]
        /\ \A j \in Session : Hosted(j) => j = i
    BY DEF HostedEffect, TypeOK, StopInv, ExtensionInv, OneHosted
  <1>2. /\ op["page"].since <= Len(log)
        /\ op'["page"].since <= Len(log')
        /\ \A kind \in {"started", "failed"} : Since(kind)' <=> Since(kind) \/ kind \in kinds
        /\ \A j \in Session :
              /\ Wrote("started", j)' => Wrote("started", j) \/ (j = i /\ "started" \in kinds)
              /\ (\A k \in DOMAIN log : log[k].by # j) /\ j # i
                   => \A k \in DOMAIN log' : log'[k].by # j
    <2>1. Writes(i, kinds) /\ op["page"].since <= Len(log) /\ op'["page"].since = op["page"].since
      BY DEF HostedEffect, StopInv, MainInv
    <2>2. QED BY <2>1, WritesAnswers DEF Kind
  <1>3. /\ Refused' <=> Refused \/ "failed" \in kinds
        /\ Answered' <=> Answered \/ "started" \in kinds \/ "failed" \in kinds
    BY <1>2 DEF Refused, Answered
  <1>4. session[i].starting =>
         /\ Waiting /\ Delivered("page") /\ ~Answered /\ ~Refused /\ session[i].config = ctl.config
         /\ carried = NoConfig /\ ~Wrote("started", i)
         /\ ctl.mode = "vpn" /\ ctl.status = "STARTING" /\ op["page"].pc \in StartPcs
         /\ \A c \in Caller : op[c].pc \notin StopPcs
    BY StartingFacts
  <1>5. Waiting' <=> Waiting
    BY DEF Waiting
  <1>6. \A c \in Caller : Delivered(c) => Delivered(c)'
    BY DEF Delivered
  <1>7. \A j \in Session : Hosted(j)' => j = i
    BY <1>1 DEF Hosted
  <1>8. ExtensionInv'
    <2>1. OneHosted' BY <1>7 DEF OneHosted
    <2>2. UnusedIsNew'
      BY <1>1, <1>2 DEF HostedEffect, UnusedIsNew, StopInv, ExtensionInv
    <2>3. CarrierIsHosted'
      BY <1>1 DEF HostedEffect, CarrierIsHosted, Hosted
    <2>4. CleaningIsDown'
      BY <1>1, <1>7 DEF HostedEffect, CleaningIsDown, Hosted, Live
    <2>5. StartingIsClean'
      BY <1>1, <1>2, <1>4, <1>7 DEF HostedEffect, StartingIsClean, Live
    <2>6. QED BY <2>1, <2>2, <2>3, <2>4, <2>5 DEF ExtensionInv
  <1>9. MainInv'
    <2>1. AskedInv'
      BY DEF StopInv, MainInv, AskedInv, Asks
    <2>2. StartingIsAwaited'
      <3>1. "page" \in Caller BY DEF Caller
      <3>2. QED BY <1>1, <1>3, <1>4, <1>5, <1>6, <1>7, <3>1 DEF HostedEffect, StartingIsAwaited
    <2>3. WaitingInv'
      <3>1. "page" \in Caller BY DEF Caller
      <3>2. QED BY <1>3, <1>4, <1>5, <1>6, <3>1 DEF HostedEffect, StopInv, MainInv, WaitingInv
    <2>4. StoppedIsDown'
      <3>1. CASE carried' = NoConfig BY <3>1 DEF StoppedIsDown
      <3>2. CASE carried' # NoConfig /\ carried' = carried
        BY <3>2 DEF StopInv, MainInv, StoppedIsDown, Delivered
      <3>3. CASE session[i].starting
        BY <1>4, <3>3 DEF StoppedIsDown, StopPcs
      <3>4. QED BY <3>1, <3>2, <3>3 DEF HostedEffect
    <2>5. RunningInv'
      BY <1>4 DEF HostedEffect, StopInv, MainInv, RunningInv
    <2>6. UpInv'
      <3>1. ASSUME Up(i)'
            PROVE  /\ ctl.mode = "vpn"
                   /\ ctl.status \in {"STARTING", "RUNNING", "STOPPING"}
                   /\ op["page"].pc \in StartPcs => Waiting /\ Answered'
                   /\ stopFlag' => op["page"].pc \in StartPcs
        <4>1. stopFlag' = stopFlag /\ (Up(i) \/ "started" \in kinds)
          BY <1>1, <3>1 DEF HostedEffect, Up, Live
        <4>2. CASE Up(i)
          BY <1>3, <4>1, <4>2 DEF StopInv, MainInv, UpInv
        <4>3. CASE "started" \in kinds
          BY <1>3, <1>4, <4>1, <4>3 DEF HostedEffect
        <4>4. QED BY <4>1, <4>2, <4>3
      <3>2. QED BY <1>5, <1>7, <3>1 DEF UpInv, Up, Hosted, Live
    <2>7. QED BY <1>2, <2>1, <2>2, <2>3, <2>4, <2>5, <2>6 DEF MainInv
  <1>10. QED BY <1>8, <1>9 DEF StopInv

LEMMA CloseEffect ==
  ASSUME NEW i \in Session, NEW s \in SessionState, NEW l, Close(i, s, l)
  PROVE  \E t \in SessionState :
           /\ session' = [session EXCEPT ![i] = t]
           /\ t.life = s.life /\ t.config = s.config
           /\ t.starting = s.starting /\ t.marked = s.marked
           /\ log' \in {l, Record(l, "cleanup", i)}
           /\ carried' = NoConfig \/ (s.cleaning /\ carried' = carried)
  <1>1. CASE s.cleaning
    BY <1>1 DEF Close
  <1>2. CASE ~s.cleaning
    <2>1. [s EXCEPT !.cleaning = TRUE] \in SessionState
      BY DEF SessionState
    <2>2. CASE session' = [session EXCEPT ![i] = [s EXCEPT !.cleaning = TRUE]] /\ log' = l
      BY <1>2, <2>1, <2>2 DEF Close, SessionState
    <2>3. CASE session' = [session EXCEPT ![i] = s] /\ log' = Record(l, "cleanup", i)
      BY <1>2, <2>3 DEF Close
    <2>4. QED BY <1>2, <2>2, <2>3 DEF Close
  <1>3. QED BY <1>1, <1>2

LEMMA StartedEffect ==
  ASSUME TypeOK, LockInv, StopInv, NEW i \in Session, Started(i)
  PROVE  \E s \in SessionState : HostedEffect(i, s, {"started"})
  <1> DEFINE s == [session[i] EXCEPT !.starting = FALSE]
  <1>1. Hosted(i) /\ session[i].starting /\ session[i] \in SessionState /\ SessionTypeOK
    BY DEF Started, TypeOK, SessionTypeOK
  <1>2. /\ s \in SessionState /\ ~s.starting /\ s.life = session[i].life
        /\ s.cleaning = session[i].cleaning
    BY <1>1 DEF SessionState
  <1>3. Writes(i, {"started"})
    BY <1>1, WritesOne DEF Started
  <1>4. /\ session' = [session EXCEPT ![i] = s] /\ carried' = session[i].config
        /\ stopFlag' = stopFlag
    BY DEF Started
  <1> HIDE DEF s
  <1>5. Live(i) => ~session[i].cleaning
    BY <1>1, StartingFacts
  <1>6. HostedEffect(i, s, {"started"})
    BY <1>1, <1>2, <1>3, <1>4, <1>5 DEF HostedEffect, Hosted, Live
  <1>7. QED BY <1>2, <1>6

LEMMA FailedEffect ==
  ASSUME TypeOK, LockInv, StopInv, NEW i \in Session, Failed(i)
  PROVE  \E s \in SessionState, kinds \in SUBSET Kind : HostedEffect(i, s, kinds)
  <1> DEFINE s == [session[i] EXCEPT !.starting = FALSE]
             l == Record(log, "failed", i)
  <1>1. /\ Hosted(i) /\ session[i].starting /\ session[i] \in SessionState /\ SessionTypeOK
        /\ stopFlag' = stopFlag
    BY DEF Failed, TypeOK, SessionTypeOK
  <1>2. /\ s \in SessionState /\ ~s.starting /\ s.life = session[i].life
        /\ s.cleaning = session[i].cleaning
    BY <1>1 DEF SessionState
  <1>3. Close(i, s, l)
    BY DEF Failed
  <1>4. \A t \in {l, Record(l, "cleanup", i)} :
          log' = t => \E kinds \in SUBSET Kind :
             Writes(i, kinds) /\ kinds \cap {"started", "failed"} # {}
    BY <1>1, WritesOne, WritesTwo DEF Kind
  <1> HIDE DEF s, l
  <1>5. PICK t \in SessionState :
           /\ session' = [session EXCEPT ![i] = t]
           /\ t.life = s.life /\ ~t.starting
           /\ log' \in {l, Record(l, "cleanup", i)}
           /\ carried' = NoConfig \/ (s.cleaning /\ carried' = carried)
    BY <1>2, <1>3, CloseEffect
  <1>6. carried' = NoConfig
    BY <1>1, <1>5, StartingFacts
  <1>7. PICK kinds \in SUBSET Kind : Writes(i, kinds)
    BY <1>4, <1>5
  <1>8. HostedEffect(i, t, kinds)
    BY <1>1, <1>2, <1>5, <1>6, <1>7 DEF HostedEffect, Hosted
  <1>9. QED BY <1>8

LEMMA CleanedEffect ==
  ASSUME TypeOK, LockInv, StopInv, NEW i \in Session, Cleaned(i)
  PROVE  \E s \in SessionState : HostedEffect(i, s, {"cleanup"})
  <1> DEFINE s == [session[i] EXCEPT !.cleaning = FALSE]
  <1>1. Hosted(i) /\ session[i].cleaning /\ session[i] \in SessionState /\ SessionTypeOK
    BY DEF Cleaned, TypeOK, SessionTypeOK
  <1>2. /\ s \in SessionState /\ ~s.cleaning /\ s.life = session[i].life
        /\ s.config = session[i].config
        /\ s.starting = session[i].starting /\ s.marked = session[i].marked
    BY <1>1 DEF SessionState
  <1>3. Writes(i, {"cleanup"})
    BY <1>1, WritesOne DEF Cleaned
  <1>4. session' = [session EXCEPT ![i] = s] /\ carried' = carried /\ stopFlag' = stopFlag
    BY DEF Cleaned
  <1> HIDE DEF s
  <1>5. session[i].starting => carried = NoConfig /\ ~session[i].marked
    BY <1>1, StartingFacts
  <1>6. HostedEffect(i, s, {"cleanup"})
    BY <1>1, <1>2, <1>3, <1>4, <1>5 DEF HostedEffect, Hosted, Live, Up
  <1>7. QED BY <1>2, <1>6

LEMMA MarkEffect ==
  ASSUME TypeOK, LockInv, StopInv, NEW i \in Session, Mark(i)
  PROVE  \E s \in SessionState : HostedEffect(i, s, {"auto"})
  <1> DEFINE s == [session[i] EXCEPT !.marked = TRUE]
  <1>1. Hosted(i) /\ session[i] \in SessionState /\ SessionTypeOK /\ Wrote("started", i)
    BY DEF Mark, TypeOK, SessionTypeOK, Wrote
  <1>2. /\ s \in SessionState /\ s.marked /\ s.life = session[i].life
        /\ s.starting = session[i].starting /\ s.cleaning = session[i].cleaning
    BY <1>1 DEF SessionState
  <1>3. Writes(i, {"auto"})
    BY <1>1, WritesOne DEF Mark
  <1>4. session' = [session EXCEPT ![i] = s] /\ carried' = carried
    BY DEF Mark
  <1> HIDE DEF s
  <1>5. ~session[i].starting
    BY <1>1, StartingFacts
  <1>6. s.life = "live" /\ s.cleaning => carried = NoConfig
    BY <1>2 DEF StopInv, ExtensionInv, CleaningIsDown, Live
  <1>7. HostedEffect(i, s, {"auto"})
    BY <1>1, <1>2, <1>3, <1>4, <1>5, <1>6 DEF HostedEffect, Hosted
  <1>8. QED BY <1>2, <1>7

(* A cleanup that is called, of an instance that is not starting or whose  *)
(* process the system is ending.                                           *)
LEMMA CloseIsEffect ==
  ASSUME TypeOK, LockInv, StopInv, NEW i \in Session, Hosted(i),
         NEW s \in SessionState, Close(i, s, log), stopFlag' = stopFlag,
         s.starting = session[i].starting, s.config = session[i].config,
         s.cleaning = session[i].cleaning, s.marked => session[i].marked,
         \/ s.life = session[i].life /\ (Live(i) => ~session[i].starting)
         \/ s.life = "destroyed" /\ Live(i)
  PROVE  /\ Live(i) => carried' = NoConfig
         /\ \E t \in SessionState, kinds \in SUBSET Kind : HostedEffect(i, t, kinds)
  <1>1. PICK t \in SessionState :
           /\ session' = [session EXCEPT ![i] = t]
           /\ t.life = s.life /\ t.config = s.config
           /\ t.starting = s.starting /\ t.marked = s.marked
           /\ log' \in {log, Record(log, "cleanup", i)}
           /\ carried' = NoConfig \/ (s.cleaning /\ carried' = carried)
    BY CloseEffect
  <1>2. Live(i) => carried' = NoConfig
    BY <1>1 DEF StopInv, ExtensionInv, CleaningIsDown
  <1>3. PICK kinds \in SUBSET {"cleanup"} : Writes(i, kinds)
    <2>1. SessionTypeOK BY DEF TypeOK, SessionTypeOK
    <2>2. QED BY <1>1, <2>1, WritesOne, WritesNothing
  <1>4. session[i].starting => carried = NoConfig /\ ~session[i].marked
    BY StartingFacts
  <1>5. session[i].starting => t.life = "destroyed"
    BY <1>1 DEF Hosted, Live
  <1>6. t.life = "live" => Live(i)
    BY <1>1 DEF Live
  <1>7. HostedEffect(i, t, kinds)
    BY <1>1, <1>2, <1>3, <1>4, <1>5, <1>6 DEF HostedEffect, Hosted
  <1>8. kinds \in SUBSET Kind BY <1>3 DEF Kind
  <1>9. QED BY <1>2, <1>7, <1>8

LEMMA DisconnectEffect ==
  ASSUME TypeOK, LockInv, StopInv, NEW i \in Session, Disconnect(i)
  PROVE  \E s \in SessionState, kinds \in SUBSET Kind : HostedEffect(i, s, kinds)
  <1> DEFINE s == [session[i] EXCEPT !.marked = FALSE]
  <1>1. /\ Hosted(i) /\ session[i].marked /\ session[i] \in SessionState
        /\ Close(i, s, log) /\ stopFlag' = stopFlag
    BY DEF Disconnect, TypeOK
  <1>2. /\ s \in SessionState /\ ~s.marked /\ s.life = session[i].life
        /\ s.config = session[i].config
        /\ s.starting = session[i].starting /\ s.cleaning = session[i].cleaning
    BY <1>1 DEF SessionState
  <1> HIDE DEF s
  <1>3. ~session[i].starting
    BY <1>1, StartingFacts
  <1>4. QED BY <1>1, <1>2, <1>3, CloseIsEffect

LEMMA DestroyEffect ==
  ASSUME TypeOK, LockInv, StopInv, NEW i \in Session, Destroy(i)
  PROVE  \E s \in SessionState, kinds \in SUBSET Kind : HostedEffect(i, s, kinds)
  <1> DEFINE s == [session[i] EXCEPT !.life = "destroyed"]
  <1>1. /\ Live(i) /\ Hosted(i) /\ session[i] \in SessionState /\ stopFlag' = stopFlag
        /\ SessionTypeOK
    BY DEF Destroy, TypeOK, SessionTypeOK, Live, Hosted
  <1>2. /\ s \in SessionState /\ s.life = "destroyed" /\ s.config = session[i].config
        /\ s.starting = session[i].starting /\ s.cleaning = session[i].cleaning
        /\ s.marked = session[i].marked
    BY <1>1 DEF SessionState
  <1>3. \/ Close(i, s, log)
        \/ session' = [session EXCEPT ![i] = s] /\ UNCHANGED <<carried, log>>
    BY DEF Destroy
  <1> HIDE DEF s
  <1>4. CASE Close(i, s, log)
    BY <1>1, <1>2, <1>4, CloseIsEffect
  <1>5. CASE session' = [session EXCEPT ![i] = s] /\ UNCHANGED <<carried, log>>
    <2>1. Writes(i, {})
      BY <1>1, <1>5, WritesNothing
    <2>2. session[i].starting => carried = NoConfig /\ ~session[i].marked
      BY <1>1, StartingFacts
    <2>3. HostedEffect(i, s, {})
      BY <1>1, <1>2, <1>5, <2>1, <2>2 DEF HostedEffect
    <2>4. QED BY <1>2, <2>3
  <1>6. QED BY <1>3, <1>4, <1>5

LEMMA ExitEffect ==
  ASSUME TypeOK, NEW i \in Session, Exit(i)
  PROVE  \E s \in SessionState : HostedEffect(i, s, {})
  <1> DEFINE s == [NewSession EXCEPT !.life = "dead"]
  <1>1. SessionTypeOK
    BY DEF TypeOK, SessionTypeOK
  <1>2. s \in SessionState /\ s.life = "dead" /\ ~s.starting
    BY DEF NewSession, SessionState
  <1>3. session' = [session EXCEPT ![i] = s] /\ carried' = NoConfig /\ log' = log
    BY DEF Exit
  <1> HIDE DEF s
  <1>4. Writes(i, {})
    BY <1>1, <1>3, WritesNothing
  <1>5. QED BY <1>2, <1>3, <1>4 DEF HostedEffect

(* The steps of the extension that no request of the main process causes.  *)
LEMMA ExtensionStep ==
  ASSUME TypeOK, TypeOK', LockInv, StopInv, ExtensionWorks \/ SystemDestroys \/ ProcessEnds
  PROVE  StopInv'
  <1>1. PICK i \in Session : Work(i) \/ Destroy(i) \/ Exit(i)
    BY DEF ExtensionWorks, SystemDestroys, ProcessEnds
  <1>2. UNCHANGED <<op, ctl, mirror, wants>>
    BY DEF ExtensionWorks, SystemDestroys, ProcessEnds, mainVars
  <1>3. Hosted(i)
    BY <1>1 DEF Work, Answer, Started, Failed, Cleaned, Disconnect, Mark, Destroy, Exit, Hosted, Live
  <1>4. {"started"} \in SUBSET Kind /\ {"cleanup"} \in SUBSET Kind /\ {"auto"} \in SUBSET Kind
        /\ {} \in SUBSET Kind
    BY DEF Kind
  <1>5. \E s \in SessionState, kinds \in SUBSET Kind : HostedEffect(i, s, kinds)
    BY <1>1, <1>4, StartedEffect, FailedEffect, CleanedEffect, DisconnectEffect, MarkEffect,
       DestroyEffect, ExitEffect
    DEF Work, Answer
  <1>6. QED BY <1>2, <1>3, <1>5, HostedStep

(* The system creates an instance for a request.                           *)
LEMMA OpenStep ==
  ASSUME TypeOK, TypeOK', LockInv, StopInv,
         NEW i \in Session, session[i].life = "none", \A j \in Session : ~Hosted(j),
         NEW s \in SessionState, session' = [session EXCEPT ![i] = s],
         s.life = "live", ~s.marked, ~s.cleaning,
         s.starting => /\ Waiting /\ Delivered("page")' /\ ~Answered /\ s.config = ctl.config,
         carried' = carried, NEW kinds \in SUBSET {"cleanup"}, Writes(i, kinds),
         UNCHANGED <<op, ctl, mirror>>, wants' \subseteq wants
  PROVE  StopInv'
  <1>1. /\ session'[i] = s /\ \A j \in Session : j # i => session'[j] = session[j]
        /\ \A j \in Session : Hosted(j)' => j = i
    BY DEF TypeOK, Hosted
  <1>2. carried = NoConfig
    BY DEF StopInv, ExtensionInv, CarrierIsHosted
  <1>3. /\ op'["page"].since <= Len(log')
        /\ \A kind \in {"started", "failed"} : Since(kind)' <=> Since(kind) \/ kind \in kinds
        /\ \A j \in Session :
              /\ Wrote("started", j)' => Wrote("started", j) \/ (j = i /\ "started" \in kinds)
              /\ (\A k \in DOMAIN log : log[k].by # j) /\ j # i
                   => \A k \in DOMAIN log' : log'[k].by # j
    <2>1. op["page"].since <= Len(log) /\ op'["page"].since = op["page"].since
      BY DEF StopInv, MainInv
    <2>2. QED BY <2>1, WritesAnswers
  <1>4. (Refused' <=> Refused) /\ (Answered' <=> Answered)
    BY <1>3 DEF Refused, Answered
  <1>5. ~Wrote("started", i)'
    <2>1. ~Wrote("started", i)
      BY DEF StopInv, ExtensionInv, UnusedIsNew, Wrote
    <2>2. QED BY <1>3, <2>1
  <1>6. Waiting' <=> Waiting
    BY DEF Waiting
  <1>7. \A c \in Caller : Delivered(c) => Delivered(c)'
    BY DEF Delivered
  <1>8. "page" \in Caller BY DEF Caller
  <1>9. ExtensionInv'
    <2>1. OneHosted' BY <1>1 DEF OneHosted
    <2>2. UnusedIsNew' BY <1>1, <1>3 DEF UnusedIsNew, StopInv, ExtensionInv
    <2>3. CarrierIsHosted' /\ CleaningIsDown'
      BY <1>2 DEF CarrierIsHosted, CleaningIsDown
    <2>4. StartingIsClean' BY <1>1, <1>2, <1>5 DEF StartingIsClean
    <2>5. QED BY <2>1, <2>2, <2>3, <2>4 DEF ExtensionInv
  <1>10. MainInv'
    <2>1. AskedInv' BY DEF StopInv, MainInv, AskedInv, Asks
    <2>2. StartingIsAwaited' BY <1>1, <1>4, <1>6 DEF StartingIsAwaited
    <2>3. WaitingInv' BY <1>2, <1>4, <1>6, <1>7, <1>8 DEF StopInv, MainInv, WaitingInv
    <2>4. StoppedIsDown' /\ RunningInv' BY <1>2 DEF StoppedIsDown, RunningInv
    <2>5. UpInv' BY <1>2 DEF UpInv, Up
    <2>6. QED BY <1>3, <2>1, <2>2, <2>3, <2>4, <2>5 DEF MainInv
  <1>11. QED BY <1>9, <1>10 DEF StopInv

(* A start on its way: its caller is the page, and nothing has answered.   *)
LEMMA StartOnItsWay ==
  ASSUME LockInv, StopInv, NEW w \in wants, w.kind = "start"
  PROVE  /\ Waiting /\ ~Delivered("page") /\ ~Answered /\ w.config = ctl.config
         /\ w.id = op["page"].id
         /\ \A v \in wants : v = w
         /\ \A c \in Caller : op[c].pc \notin StopPcs
  <1>1. /\ w.id = op["page"].id /\ op["page"].pc = "start asked" /\ w.config = ctl.config
        /\ \A v \in wants : v = w
    BY DEF StopInv, MainInv, AskedInv, Asks
  <1>2. Waiting /\ ~Delivered("page")
    BY <1>1 DEF Waiting, Delivered
  <1>3. ~Answered
    BY <1>2 DEF StopInv, MainInv, WaitingInv
  <1>4. \A c \in Caller : op[c].pc \notin StopPcs
    BY <1>1 DEF LockInv, Lock, Caller, StartPcs, StopPcs
  <1>5. QED BY <1>1, <1>2, <1>3, <1>4

LEMMA StopOnItsWay ==
  ASSUME LockInv, StopInv, NEW w \in wants, w.kind = "stop"
  PROVE  ~Waiting
  <1>1. PICK c \in Caller : op[c].pc = "stop asked"
    BY DEF StopInv, MainInv, AskedInv, Asks
  <1>2. QED BY <1>1 DEF LockInv, Lock, Caller, StartPcs, StopPcs, Waiting

LEMMA DeliverStep ==
  ASSUME TypeOK, TypeOK', LockInv, StopInv, Deliver PROVE StopInv'
  <1>0. SessionTypeOK
    BY DEF TypeOK, SessionTypeOK
  <1>1. PICK w \in wants : DeliverStart(w) \/ DeliverStop(w)
    BY DEF Deliver
  <1>2. UNCHANGED <<op, ctl, mirror>> /\ wants' = wants \ {w}
    BY <1>1 DEF DeliverStart, DeliverStop, MainStays
  <1>3. CASE DeliverStart(w)
    <2>1. /\ Waiting /\ ~Delivered("page") /\ ~Answered /\ w.config = ctl.config
          /\ w.id = op["page"].id
          /\ \A v \in wants : v = w
          /\ \A c \in Caller : op[c].pc \notin StopPcs
      BY <1>3, StartOnItsWay DEF DeliverStart
    <2>2. Delivered("page")'
      BY <1>2, <2>1 DEF Delivered
    <2>3. CASE UNCHANGED sessionVars
      <3>1. UNCHANGED <<session, carried, log, stopFlag>>
        BY <2>3 DEF sessionVars
      <3>2. \A i \in Session : ~(Hosted(i) /\ session[i].starting)
        BY <2>1 DEF StopInv, MainInv, StartingIsAwaited
      <3>3. ExtensionInv'
        BY <3>1 DEF StopInv, ExtensionInv, OneHosted, UnusedIsNew, CarrierIsHosted,
                    CleaningIsDown, StartingIsClean, Hosted, Live, Wrote
      <3>4. AskedInv' BY <1>2 DEF StopInv, MainInv, AskedInv, Asks
      <3>5. StartingIsAwaited' BY <3>1, <3>2 DEF StartingIsAwaited, Hosted
      <3>6. WaitingInv'
        BY <1>2, <2>1, <3>1 DEF StopInv, MainInv, WaitingInv, Waiting, Answered, Refused, Since
      <3>7. StoppedIsDown' BY <1>2, <2>1 DEF StoppedIsDown, StopPcs
      <3>8. RunningInv' BY <1>2, <3>1 DEF StopInv, MainInv, RunningInv
      <3>9. UpInv'
        BY <1>2, <3>1 DEF StopInv, MainInv, UpInv, Up, Live, Waiting, Answered, Refused, Since
      <3>10. op'["page"].since <= Len(log') BY <1>2, <3>1 DEF StopInv, MainInv
      <3>11. QED
        BY <3>3, <3>4, <3>5, <3>6, <3>7, <3>8, <3>9, <3>10 DEF StopInv, MainInv
    <2>4. CASE /\ \E i \in Session : session[i].life = "none"
               /\ Open(Fresh, w.config)
      <3> DEFINE s == [NewSession EXCEPT !.life = "live", !.config = w.config, !.starting = TRUE]
      <3>1. Fresh \in Session /\ session[Fresh].life = "none"
        BY <2>4, FreshIsSession
      <3>2. /\ \A j \in Session : ~Hosted(j)
            /\ session' = [session EXCEPT ![Fresh] = s] /\ log' = log /\ carried' = carried
        BY <2>4 DEF Open
      <3>3. w.config \in Config \cup {NoConfig}
        BY DEF TypeOK, Want
      <3>4. /\ s \in SessionState /\ s.life = "live" /\ ~s.marked /\ ~s.cleaning
            /\ s.config = w.config
        BY <3>3 DEF NewSession, SessionState
      <3> HIDE DEF s
      <3>5. Writes(Fresh, {})
        BY <1>0, <3>1, <3>2, WritesNothing
      <3>6. QED BY <1>2, <2>1, <2>2, <3>1, <3>2, <3>4, <3>5, OpenStep
    <2>5. QED BY <1>3, <2>3, <2>4 DEF DeliverStart
  <1>4. CASE DeliverStop(w)
    <2>1. ~Waiting
      BY <1>4, StopOnItsWay DEF DeliverStop
    <2>2. ASSUME NEW i \in Session, StopRequest(i) PROVE StopInv'
      <3>1. /\ Live(i) /\ Hosted(i) /\ session[i] \in SessionState
            /\ Close(i, session[i], log) /\ stopFlag' = stopFlag
        BY <2>2 DEF StopRequest, Live, Hosted, TypeOK
      <3>2. ~session[i].starting
        BY <2>1, <3>1, StartingFacts
      <3>3. /\ carried' = NoConfig
            /\ \E s \in SessionState, kinds \in SUBSET Kind : HostedEffect(i, s, kinds)
        BY <3>1, <3>2, CloseIsEffect
      <3>4. QED BY <1>2, <3>1, <3>3, HostedStep
    <2>3. CASE /\ \E i \in Session : session[i].life = "none"
               /\ OpenForStop(Fresh)
      <3> DEFINE s == [session[Fresh] EXCEPT !.life = "live"]
      <3>1. Fresh \in Session /\ session[Fresh].life = "none"
        BY <2>3, FreshIsSession
      <3>2. /\ \A j \in Session : ~Hosted(j)
            /\ session' = [session EXCEPT ![Fresh] = s] /\ carried' = carried
            /\ log' = Record(log, "cleanup", Fresh)
        BY <2>3 DEF OpenForStop
      <3>3. session[Fresh] = NewSession
        BY <3>1 DEF StopInv, ExtensionInv, UnusedIsNew
      <3>4. s \in SessionState /\ s.life = "live" /\ ~s.marked /\ ~s.cleaning /\ ~s.starting
        <4> DEFINE n == session[Fresh]
        <4>1. n \in SessionState
          BY <3>1 DEF TypeOK
        <4>2. ~n.marked /\ ~n.cleaning /\ ~n.starting
          BY <3>3 DEF NewSession
        <4> HIDE DEF n
        <4>3. /\ [n EXCEPT !.life = "live"] \in SessionState
              /\ [n EXCEPT !.life = "live"].life = "live"
              /\ [n EXCEPT !.life = "live"].marked = n.marked
              /\ [n EXCEPT !.life = "live"].cleaning = n.cleaning
              /\ [n EXCEPT !.life = "live"].starting = n.starting
          BY <4>1 DEF SessionState
        <4>4. QED BY <4>2, <4>3 DEF n
      <3> HIDE DEF s
      <3>5. Writes(Fresh, {"cleanup"})
        BY <1>0, <3>1, <3>2, WritesOne
      <3>6. QED BY <1>2, <3>1, <3>2, <3>4, <3>5, OpenStep
    <2>4. QED BY <1>4, <2>2, <2>3 DEF DeliverStop
  <1>5. QED BY <1>1, <1>3, <1>4

(* A set of places in the log that is not empty has a last one.            *)
LEMMA Largest ==
  ASSUME NEW n \in Nat, NEW T \in SUBSET (1 .. n), T # {}
  PROVE  \E k \in T : \A m \in T : m <= k
  <1> DEFINE L == {n - k : k \in T}
             R == {ss \in Nat \X Nat : ss[1] < ss[2]}
  <1>1. L \subseteq Nat /\ L # {}
    <2>1. \A k \in T : n - k \in Nat OBVIOUS
    <2>2. PICK k \in T : TRUE OBVIOUS
    <2>3. n - k \in L OBVIOUS
    <2>4. QED BY <2>1, <2>3
  <1>2. \A x, y \in Nat : x < y => <<x, y>> \in R
    OBVIOUS
  <1>3. IsWellFoundedOn(R, Nat)
    BY NatLessThanWellFounded DEF OpToRel
  <1> HIDE DEF R, L
  <1>4. PICK x \in L : \A y \in L : ~ (<<y, x>> \in R)
    BY <1>1, <1>3, WFMin
  <1>5. \A y \in L : ~(y < x)
    BY <1>1, <1>2, <1>4
  <1>6. PICK k \in T : x = n - k BY DEF L
  <1>7. \A m \in T : n - m \in L BY DEF L
  <1>8. QED BY <1>1, <1>5, <1>6, <1>7

LEMMA LogTypes ==
  ASSUME TypeOK, NEW c \in Caller
  PROVE  /\ op[c] \in Op /\ op[c].since \in Nat /\ op[c].id \in Nat
         /\ Len(log) \in Nat /\ DOMAIN log = 1 .. Len(log)
  <1>1. op[c] \in Op /\ log \in Seq(SessionEvent)
    BY DEF TypeOK
  <1>2. op[c].since \in Nat /\ op[c].id \in Nat
    BY <1>1 DEF Op
  <1>3. QED BY <1>1, <1>2

LEMMA NewestIsLast ==
  ASSUME TypeOK, NEW c \in Caller, NEW kinds, Found(c, kinds) # {}
  PROVE  \E k \in Found(c, kinds) :
           /\ Newest(c, kinds) = log[k]
           /\ k \in DOMAIN log /\ op[c].since < k /\ log[k].kind \in kinds
  <1>1. /\ op[c].since \in Nat /\ Len(log) \in Nat /\ DOMAIN log = 1 .. Len(log)
    BY LogTypes
  <1>2. Found(c, kinds) \in SUBSET (1 .. Len(log))
    BY <1>1 DEF Found
  <1> DEFINE k == CHOOSE k \in Found(c, kinds) : \A m \in Found(c, kinds) : m <= k
  <1>3. \E j \in Found(c, kinds) : \A m \in Found(c, kinds) : m <= j
    BY <1>1, <1>2, Largest
  <1>4. k \in Found(c, kinds)
    BY <1>3
  <1> HIDE DEF k
  <1>5. Newest(c, kinds) = log[k]
    BY DEF Newest, k
  <1>6. k \in DOMAIN log /\ op[c].since < k /\ log[k].kind \in kinds
    BY <1>1, <1>4 DEF Found
  <1>7. QED BY <1>4, <1>5, <1>6

LEMMA FoundIsAnswered ==
  ASSUME TypeOK
  PROVE  Found("page", {"started", "failed"}) # {} <=> Answered
  <1>1. "page" \in Caller BY DEF Caller
  <1>2. /\ op["page"].since \in Nat /\ Len(log) \in Nat /\ DOMAIN log = 1 .. Len(log)
    BY <1>1, LogTypes
  <1>3. \A k : k \in Found("page", {"started", "failed"}) <=>
               /\ k \in DOMAIN log /\ op["page"].since < k
               /\ log[k].kind \in {"started", "failed"}
    BY <1>2 DEF Found
  <1>4. QED BY <1>3 DEF Answered, Refused, Since

(* The steps of the main process leave the extension alone.                *)
LEMMA MainFrame ==
  ASSUME StopInv, UNCHANGED <<session, carried, log>> PROVE ExtensionInv'
  BY DEF StopInv, ExtensionInv, OneHosted, UnusedIsNew, CarrierIsHosted,
         CleaningIsDown, StartingIsClean, Hosted, Live, Wrote

(* A caller at rest may move, the page may show another status.            *)
Rest == {"idle", "saving", "refreshing", "probing"}

LEMMA QuietStep ==
  ASSUME TypeOK, StopInv, UNCHANGED <<session, carried, log, stopFlag, ctl, mirror, wants>>,
         \A c \in Caller : \/ op'[c] = op[c]
                           \/ /\ op[c].pc \in Rest /\ op'[c].pc \in Rest
                              /\ c = "page" => op'[c].since <= Len(log)
  PROVE  StopInv'
  <1>1. ExtensionInv' BY MainFrame
  <1>2. "page" \in Caller BY DEF Caller
  <1>3. /\ \A c \in Caller : op'[c].pc \notin Rest \/ op[c].pc \notin Rest => op'[c] = op[c]
        /\ Waiting' <=> Waiting
        /\ Waiting => op'["page"] = op["page"]
    BY <1>2 DEF Waiting, Rest
  <1>4. Waiting => /\ Answered' <=> Answered
                   /\ Refused' <=> Refused
                   /\ Delivered("page")' <=> Delivered("page")
    BY <1>3 DEF Answered, Refused, Since, Delivered
  <1>5. op'["page"].since <= Len(log')
    BY <1>2 DEF StopInv, MainInv
  <1>6. AskedInv'
    <2>1. ASSUME NEW w \in wants
          PROVE  (\A v \in wants : v = w) /\ \E d \in Caller : Asks(d, w)'
      <3>1. PICK d \in Caller : Asks(d, w)
        BY DEF StopInv, MainInv, AskedInv
      <3>2. op[d].pc \notin Rest BY <3>1 DEF Asks, Rest
      <3>3. op'[d] = op[d] BY <1>3, <3>2
      <3>4. Asks(d, w)' BY <3>1, <3>3 DEF Asks
      <3>5. QED BY <3>4 DEF StopInv, MainInv, AskedInv
    <2>2. QED BY <2>1 DEF AskedInv
  <1>7. StartingIsAwaited'
    BY <1>3, <1>4 DEF StopInv, MainInv, StartingIsAwaited, Hosted
  <1>8. WaitingInv'
    BY <1>3, <1>4 DEF StopInv, MainInv, WaitingInv
  <1>9. StoppedIsDown'
    BY <1>3 DEF StopInv, MainInv, StoppedIsDown, Delivered, Rest
  <1>10. RunningInv'
    BY DEF StopInv, MainInv, RunningInv
  <1>11. UpInv'
    <2>1. op'["page"].pc \in StartPcs <=> op["page"].pc \in StartPcs
      BY <1>2 DEF Rest, StartPcs
    <2>2. ASSUME NEW i \in Session, Up(i)'
          PROVE  /\ ctl.mode = "vpn"
                 /\ ctl.status \in {"STARTING", "RUNNING", "STOPPING"}
                 /\ op'["page"].pc \in StartPcs => Waiting' /\ Answered'
                 /\ stopFlag => op'["page"].pc \in StartPcs
      <3>1. Up(i) BY <2>2 DEF Up, Live
      <3>2. QED BY <1>3, <1>4, <2>1, <3>1 DEF StopInv, MainInv, UpInv
    <2>3. QED BY <2>2 DEF UpInv
  <1>12. QED
    BY <1>1, <1>5, <1>6, <1>7, <1>8, <1>9, <1>10, <1>11 DEF StopInv, MainInv

LEMMA NoneStarting ==
  ASSUME StopInv, ~Waiting \/ ~Delivered("page") \/ Answered, NEW i \in Session
  PROVE  ~(Hosted(i) /\ session[i].starting)
  BY DEF StopInv, MainInv, StartingIsAwaited

LEMMA UpInStart ==
  ASSUME StopInv, op["page"].pc \in StartPcs, NEW i \in Session, Up(i)
  PROVE  Waiting /\ Answered
  BY DEF StopInv, MainInv, UpInv

LEMMA NoWants ==
  ASSUME LockInv, StopInv, op["page"].pc \in StartPcs, NEW W \in SUBSET wants,
         op["page"].pc = "start asked" => \A w \in W : w.id # op["page"].id
  PROVE  W = {}
  <1>1. op["page"].pc \notin StopPcs /\ op["scene"].pc \notin StopPcs
    BY DEF LockInv, Lock, StartPcs, StopPcs
  <1>2. ASSUME NEW w \in W PROVE FALSE
    <2>1. PICK c \in Caller : Asks(c, w)
      BY DEF StopInv, MainInv, AskedInv
    <2>2. QED BY <1>1, <2>1 DEF Asks, Caller, StopPcs
  <1>3. QED BY <1>2

(* A start of the page ends: by an error, because the data plane is down,  *)
(* or as running, with the configuration of the page or not on the VPN.    *)
LEMMA StartEnds ==
  ASSUME TypeOK, LockInv, StopInv, op["page"].pc \in StartPcs \cup {"saving"},
         UNCHANGED <<session, carried, log>>,
         ctl'.mode # ctl.mode => ctl'.mode = "proxy-only",
         mirror' = ctl'.status, ctl'.mode = "vpn" => ctl'.config = ctl.config,
         op'["page"].pc = "refreshing", op'["page"].since = op["page"].since,
         op'["scene"] = op["scene"], stopFlag' = FALSE,
         wants' = {} \/ (UNCHANGED <<wants, ctl>> /\ op["page"].pc = "saving"),
         \A i \in Session : ~(Hosted(i) /\ session[i].starting),
         ctl'.status = "RUNNING" /\ ctl'.mode = "vpn" => carried \in {ctl.config, NoConfig},
         ctl'.status # "RUNNING" \/ ctl'.mode # "vpn" => \A i \in Session : ~Up(i)
  PROVE  StopInv'
  <1>1. ExtensionInv' BY MainFrame
  <1>2. ~Waiting' BY DEF Waiting
  <1>3. op'["page"].since <= Len(log')
    BY DEF StopInv, MainInv
  <1>4. AskedInv'
    <2>1. CASE wants' = {} BY <2>1 DEF AskedInv
    <2>2. CASE UNCHANGED <<wants, ctl>> /\ op["page"].pc = "saving"
      <3>1. ASSUME NEW w \in wants
            PROVE  (\A v \in wants : v = w) /\ \E c \in Caller : Asks(c, w)'
        <4>1. (\A v \in wants : v = w) /\ Asks("scene", w)
          BY <2>2 DEF StopInv, MainInv, AskedInv, Asks, Caller
        <4>2. Asks("scene", w)'
          BY <2>2, <4>1 DEF Asks
        <4>3. QED BY <4>1, <4>2 DEF Caller
      <3>2. QED BY <2>2, <3>1 DEF AskedInv
    <2>3. QED BY <2>1, <2>2
  <1>5. StartingIsAwaited'
    BY DEF StartingIsAwaited, Hosted
  <1>6. WaitingInv' BY <1>2 DEF WaitingInv
  <1>7. StoppedIsDown'
    <2>1. CASE op["page"].pc = "saving"
      BY <2>1 DEF LockInv, Lock, StoppedIsDown, Caller, StopPcs
    <2>2. CASE op["page"].pc \in StartPcs
      BY <2>2 DEF LockInv, Lock, StoppedIsDown, Caller, StartPcs, StopPcs
    <2>3. QED BY <2>1, <2>2
  <1>8. RunningInv'
    BY DEF RunningInv
  <1>9. UpInv'
    <2>1. ASSUME NEW i \in Session, Up(i)'
          PROVE  ctl'.mode = "vpn" /\ ctl'.status = "RUNNING"
      <3>1. Up(i) BY <2>1 DEF Up, Live
      <3>2. QED BY <3>1
    <2>2. QED BY <2>1 DEF UpInv, StartPcs
  <1>10. QED
    BY <1>1, <1>3, <1>4, <1>5, <1>6, <1>7, <1>8, <1>9 DEF StopInv, MainInv

LEMMA BeginStartStep ==
  ASSUME TypeOK, TypeOK', LockInv, StopInv, BeginStart("page") PROVE StopInv'
  <1>0. MainTypeOK /\ "page" \in Caller /\ "scene" \in Caller
    BY DEF TypeOK, MainTypeOK, Controller, Caller
  <1>1. /\ op["page"].pc = "saving" /\ UNCHANGED <<session, carried, log, wants>>
    BY DEF BeginStart, At, ExtensionStays, SendsNothing
  <1>2. ~Waiting BY <1>1 DEF Waiting
  <1>3. CASE ctl.status \in {"STARTING", "RUNNING"}
    <2>1. ctl.status = "RUNNING"
      BY <1>1, <1>3 DEF LockInv, Lock, StartPcs
    <2>2. StartReturns("page", ctl.status)
      BY <1>3 DEF BeginStart
    <2>3. /\ ctl' = [ctl EXCEPT !.status = "RUNNING"] /\ stopFlag' = FALSE
          /\ mirror' = "RUNNING" /\ Goto("page", "refreshing")
      BY <2>1, <2>2 DEF StartReturns
    <2>4. ctl' = ctl
      BY <1>0, <2>1, <2>3 DEF MainTypeOK, Controller
    <2>5. /\ op'["page"].pc = "refreshing" /\ op'["page"].since = op["page"].since
          /\ op'["scene"] = op["scene"]
      BY <1>0, <2>3 DEF MainTypeOK, Goto, Op
    <2>6. \A i \in Session : ~(Hosted(i) /\ session[i].starting)
      BY <1>2, NoneStarting
    <2>7. ctl.mode = "vpn" => carried \in {ctl.config, NoConfig}
      BY <2>1 DEF StopInv, MainInv, RunningInv
    <2>8. ctl.mode # "vpn" => \A i \in Session : ~Up(i)
      BY DEF StopInv, MainInv, UpInv
    <2>9. QED
      BY <1>1, <2>1, <2>3, <2>4, <2>5, <2>6, <2>7, <2>8, StartEnds
  <1>4. CASE ctl.status \notin {"STARTING", "RUNNING"}
    <2>1. /\ ctl' = [ctl EXCEPT !.status = "STARTING"] /\ Goto("page", "preparing")
          /\ UNCHANGED <<mirror, stopFlag>>
      BY <1>4 DEF BeginStart
    <2>2. /\ op'["page"].pc = "preparing" /\ op'["page"].since = op["page"].since
          /\ op'["scene"] = op["scene"]
      BY <1>0, <2>1 DEF MainTypeOK, Goto, Op
    <2>3. ctl'.status = "STARTING" /\ ctl'.mode = ctl.mode /\ ctl'.config = ctl.config
      BY <1>0, <2>1 DEF MainTypeOK, Controller
    <2>4. ctl.status # "STOPPING" /\ op["scene"].pc \notin StopPcs /\ mirror # "RUNNING"
      BY <1>1 DEF LockInv, Lock, StopPcs
    <2>5. \A i \in Session : ~Up(i)
      BY <1>4, <2>4 DEF StopInv, MainInv, UpInv
    <2>6. ExtensionInv' BY <1>1, MainFrame
    <2>7. op'["page"].since <= Len(log')
      BY <1>1, <2>2 DEF StopInv, MainInv
    <2>8. wants = {}
      <3>1. ASSUME NEW w \in wants PROVE FALSE
        <4>1. PICK c \in Caller : Asks(c, w)
          BY DEF StopInv, MainInv, AskedInv
        <4>2. QED BY <1>1, <2>4, <4>1 DEF Asks, Caller, StopPcs
      <3>2. QED BY <3>1
    <2>9. AskedInv' /\ WaitingInv'
      BY <1>1, <2>2, <2>8 DEF AskedInv, WaitingInv, Waiting
    <2>10. StartingIsAwaited'
      BY <1>1, <1>2, NoneStarting DEF StartingIsAwaited, Hosted
    <2>11. StoppedIsDown'
      BY <2>2, <2>4 DEF StoppedIsDown, Caller, StopPcs
    <2>12. RunningInv'
      BY <2>1, <2>3, <2>4 DEF RunningInv
    <2>13. UpInv'
      BY <1>1, <2>5 DEF UpInv, Up, Live
    <2>14. QED
      BY <2>6, <2>7, <2>9, <2>10, <2>11, <2>12, <2>13 DEF StopInv, MainInv
  <1>5. QED BY <1>3, <1>4

LEMMA RequestVpnStep ==
  ASSUME TypeOK, TypeOK', LockInv, StopInv, RequestVpn("page") PROVE StopInv'
  <1>0. MainTypeOK /\ "page" \in Caller /\ "scene" \in Caller
    BY DEF TypeOK, MainTypeOK, Controller, Caller
  <1>1. /\ op["page"].pc = "preparing" /\ UNCHANGED <<session, carried, log, stopFlag, mirror>>
        /\ Send("start", op["page"].config)
    BY DEF RequestVpn, At, sessionVars
  <1>2. /\ ctl' = [ctl EXCEPT !.config = op["page"].config, !.mode = "vpn"]
        /\ op' = [op EXCEPT !["page"] = [@ EXCEPT !.pc = "start asked",
                                             !.since = Len(log), !.id = asks + 1]]
    BY DEF RequestVpn, At, sessionVars
  <1> DEFINE n == Len(log)
             id == asks + 1
  <1>3. n \in Nat /\ id \in Nat /\ DOMAIN log = 1 .. n
    BY <1>0, LogTypes DEF MainTypeOK
  <1> HIDE DEF n, id
  <1>4. op'["page"].pc = "start asked" /\ op'["scene"] = op["scene"]
    BY <1>0, <1>2 DEF MainTypeOK, Op
  <1>5. op'["page"].since = n
    BY <1>0, <1>2 DEF MainTypeOK, Op, n
  <1>6. op'["page"].id = id
    BY <1>0, <1>2 DEF MainTypeOK, Op, id
  <1>7. ctl'.status = ctl.status /\ ctl'.config = op["page"].config /\ ctl'.mode = "vpn"
    BY <1>0, <1>2 DEF MainTypeOK, Controller
  <1>8. /\ ctl.status = "STARTING" /\ mirror # "RUNNING" /\ ~Waiting
        /\ op["scene"].pc \notin StopPcs /\ op["page"].pc \in StartPcs
    BY <1>1 DEF LockInv, Lock, StartPcs, StopPcs, Waiting
  <1>9. wants' = {[kind |-> "start", id |-> id, config |-> op["page"].config]}
    <2>1. wants = {}
      BY <1>1, <1>8, NoWants
    <2>2. QED BY <1>1, <2>1 DEF Send, id
  <1>10. ~Answered'
    BY <1>1, <1>5, <1>3 DEF Answered, Refused, Since
  <1>11. \A i \in Session : ~Up(i)
    BY <1>8, UpInStart
  <1>12. ExtensionInv' BY <1>1, MainFrame
  <1>13. op'["page"].since <= Len(log')
    <2>1. op'["page"].since <= n BY <1>3, <1>5
    <2>2. QED BY <1>1, <2>1 DEF n
  <1>14. AskedInv'
    <2>1. ASSUME NEW w \in wants' PROVE Asks("page", w)'
      <3>1. w.kind = "start" /\ w.id = id /\ w.config = op["page"].config
        BY <1>9, <2>1
      <3>2. w.config = ctl'.config /\ w.id = op'["page"].id
        BY <1>7, <1>6, <3>1
      <3>3. QED BY <1>4, <3>1, <3>2 DEF Asks
    <2>2. \A v, w \in wants' : v = w
      BY <1>9
    <2>3. QED BY <1>0, <2>1, <2>2 DEF AskedInv
  <1>15. StartingIsAwaited'
    BY <1>1, <1>8, NoneStarting DEF StartingIsAwaited, Hosted
  <1>16. WaitingInv'
    BY <1>7, <1>10 DEF WaitingInv, Answered
  <1>17. StoppedIsDown'
    BY <1>4, <1>8 DEF StoppedIsDown, Caller, StopPcs
  <1>18. RunningInv'
    BY <1>1, <1>7, <1>8 DEF RunningInv
  <1>19. UpInv'
    BY <1>1, <1>11 DEF UpInv, Up, Live
  <1>20. QED
    BY <1>12, <1>13, <1>14, <1>15, <1>16, <1>17, <1>18, <1>19 DEF StopInv, MainInv

(* The answers to a start, each with the reason why a data plane that the  *)
(* controller gives up is down.                                            *)
LEMMA AnswerStep ==
  ASSUME ~gaveUp', TypeOK, LockInv, StopInv,
         \/ RefuseSingbox("page") \/ StartRejected("page") \/ StartTimesOut("page")
         \/ StartAnswered("page") \/ StartUnanswered("page")
  PROVE  StopInv'
  <1>0. MainTypeOK /\ "page" \in Caller /\ "scene" \in Caller
    BY DEF TypeOK, MainTypeOK, Controller, Caller
  <1>1. ASSUME NEW status, StartReturns("page", status), op["page"].pc \in StartPcs,
               UNCHANGED <<session, carried, log>>, wants' = {},
               ~Waiting \/ ~Delivered("page") \/ Answered \/ ~StartOwed,
               status = "RUNNING" => Waiting /\ Answered,
               status # "RUNNING" => \A i \in Session : ~Up(i)
        PROVE  StopInv'
    <2>1. /\ ctl'.status = status /\ ctl'.config = ctl.config /\ ctl'.mode = ctl.mode
          /\ mirror' = status /\ op'["page"].pc = "refreshing" /\ op'["scene"] = op["scene"]
      BY <1>0, <1>1, ReturnEffect
    <2>2. op'["page"].since = op["page"].since /\ stopFlag' = FALSE
      BY <1>0, <1>1 DEF StartReturns, Goto, MainTypeOK, Op
    <2>3. \A i \in Session : ~(Hosted(i) /\ session[i].starting)
      BY <1>1, NoneStarting DEF StartOwed
    <2>4. status = "RUNNING" => ctl.mode = "vpn" /\ carried \in {ctl.config, NoConfig}
      BY <1>1 DEF StopInv, MainInv, WaitingInv
    <2>5. QED
      BY <1>1, <2>1, <2>2, <2>3, <2>4, StartEnds
  <1>2. CASE RefuseSingbox("page")
    <2>1. /\ op["page"].pc = "preparing" /\ StartReturns("page", "ERROR")
          /\ UNCHANGED <<session, carried, log, wants>>
      BY <1>2 DEF RefuseSingbox, At, ExtensionStays, SendsNothing
    <2>2. op["page"].pc \in StartPcs /\ ~Waiting
      BY <2>1 DEF StartPcs, Waiting
    <2>3. wants' = {} BY <2>1, <2>2, NoWants
    <2>4. \A i \in Session : ~Up(i) BY <2>2, UpInStart
    <2>5. QED BY <1>1, <2>1, <2>2, <2>3, <2>4
  <1>3. CASE StartRejected("page")
    <2>1. /\ op["page"].pc = "start asked" /\ StartReturns("page", "ERROR") /\ ~Delivered("page")
          /\ UNCHANGED <<session, carried, log>> /\ wants' = Withdrawn("page")
      BY <1>3 DEF StartRejected, At, ExtensionStays
    <2>2. op["page"].pc \in StartPcs /\ Waiting
      BY <2>1 DEF StartPcs, Waiting
    <2>3. wants' = {} BY <2>1, <2>2, NoWants DEF Withdrawn
    <2>4. \A i \in Session : ~Up(i)
      <3>1. ~Answered BY <2>1, <2>2 DEF StopInv, MainInv, WaitingInv
      <3>2. QED BY <2>2, <3>1, UpInStart
    <2>5. QED BY <1>1, <2>1, <2>2, <2>3, <2>4
  <1>4. CASE StartTimesOut("page")
    BY <1>4 DEF StartTimesOut
  <1>5. CASE StartAnswered("page")
    <2>1. /\ op["page"].pc = "starting" /\ Found("page", {"started", "failed"}) # {}
          /\ UNCHANGED <<session, carried, log, wants>>
      BY <1>5 DEF StartAnswered, At, ExtensionStays, SendsNothing
    <2>2. op["page"].pc \in StartPcs /\ Waiting /\ Answered
      BY <2>1, FoundIsAnswered DEF StartPcs, Waiting
    <2>3. wants' = {} BY <2>1, <2>2, NoWants
    <2>4. PICK k \in Found("page", {"started", "failed"}) :
            /\ Newest("page", {"started", "failed"}) = log[k]
            /\ k \in DOMAIN log /\ op["page"].since < k /\ log[k].kind \in {"started", "failed"}
      BY <1>0, <2>1, NewestIsLast
    <2>5. CASE log[k].kind = "started"
      <3>1. StartReturns("page", "RUNNING")
        BY <1>5, <2>4, <2>5 DEF StartAnswered
      <3>2. QED BY <1>1, <2>1, <2>2, <2>3, <3>1
    <2>6. CASE log[k].kind = "failed"
      <3>1. StartReturns("page", "ERROR")
        BY <1>5, <2>4, <2>6 DEF StartAnswered
      <3>2. Refused BY <2>4, <2>6 DEF Refused, Since
      <3>3. \A i \in Session : ~Up(i)
        BY <2>2, <3>2 DEF StopInv, MainInv, WaitingInv, Up
      <3>4. QED BY <1>1, <2>1, <2>2, <2>3, <3>1, <3>3
    <2>7. QED BY <2>4, <2>5, <2>6
  <1>6. CASE StartUnanswered("page")
    <2>1. /\ op["page"].pc = "starting" /\ Found("page", {"started", "failed"}) = {}
          /\ StartReturns("page", "ERROR") /\ ~StartOwed
          /\ UNCHANGED <<session, carried, log, wants>>
      BY <1>6 DEF StartUnanswered, At, ExtensionStays, SendsNothing
    <2>2. op["page"].pc \in StartPcs /\ Waiting /\ ~Answered
      BY <2>1, FoundIsAnswered DEF StartPcs, Waiting
    <2>3. wants' = {} BY <2>1, <2>2, NoWants
    <2>4. \A i \in Session : ~Up(i) BY <2>2, UpInStart
    <2>5. QED BY <1>1, <2>1, <2>2, <2>3, <2>4
  <1>7. QED BY <1>2, <1>3, <1>4, <1>5, <1>6

LEMMA RunProxyOnlyStep ==
  ASSUME TypeOK, LockInv, StopInv, NEW preflight \in BOOLEAN, NEW lib \in BOOLEAN,
         RunProxyOnly("page", preflight, lib)
  PROVE  StopInv'
  <1>0. MainTypeOK /\ "page" \in Caller /\ "scene" \in Caller
    BY DEF TypeOK, MainTypeOK, Controller, Caller
  <1>1. /\ op["page"].pc = "preparing" /\ stopFlag' = FALSE /\ mirror' = ctl'.status
        /\ Goto("page", "refreshing") /\ UNCHANGED <<session, carried, log, wants>>
    BY DEF RunProxyOnly, At, ExtensionStays, SendsNothing
  <1>2. ctl'.mode = "proxy-only"
    BY DEF RunProxyOnly
  <1>3. op["page"].pc \in StartPcs /\ ~Waiting
    BY <1>1 DEF StartPcs, Waiting
  <1>4. wants' = {} BY <1>1, <1>3, NoWants
  <1>5. /\ \A i \in Session : ~Up(i)
        /\ \A i \in Session : ~(Hosted(i) /\ session[i].starting)
    BY <1>3, UpInStart, NoneStarting
  <1>6. /\ op'["page"].pc = "refreshing" /\ op'["page"].since = op["page"].since
        /\ op'["scene"] = op["scene"]
    BY <1>0, <1>1 DEF MainTypeOK, Goto, Op
  <1>7. QED BY <1>1, <1>2, <1>3, <1>4, <1>5, <1>6, StartEnds

LEMMA StartAcceptedStep ==
  ASSUME TypeOK, LockInv, StopInv, StartAccepted("page") PROVE StopInv'
  <1>0. MainTypeOK /\ "page" \in Caller /\ "scene" \in Caller
    BY DEF TypeOK, MainTypeOK, Controller, Caller
  <1>1. /\ op["page"].pc = "start asked" /\ Delivered("page") /\ Goto("page", "starting")
        /\ UNCHANGED <<session, carried, log, stopFlag, ctl, mirror, wants>>
    BY DEF StartAccepted, At, sessionVars
  <1>2. /\ op'["page"].pc = "starting" /\ op'["page"].since = op["page"].since
        /\ op'["page"].id = op["page"].id /\ op'["scene"] = op["scene"]
    BY <1>0, <1>1 DEF MainTypeOK, Goto, Op
  <1>3. op["page"].pc \in StartPcs /\ op["scene"].pc \notin StopPcs /\ Waiting /\ Waiting'
    BY <1>1, <1>2 DEF LockInv, Lock, StartPcs, StopPcs, Waiting
  <1>4. wants = {}
    BY <1>1, <1>3, NoWants DEF Delivered
  <1>5. /\ Answered' <=> Answered
        /\ Refused' <=> Refused
        /\ Delivered("page")'
    BY <1>1, <1>2 DEF Answered, Refused, Since, Delivered
  <1>6. ExtensionInv' BY <1>1, MainFrame
  <1>7. op'["page"].since <= Len(log') /\ AskedInv'
    BY <1>1, <1>2, <1>4 DEF StopInv, MainInv, AskedInv
  <1>8. StartingIsAwaited'
    BY <1>1, <1>3, <1>5 DEF StopInv, MainInv, StartingIsAwaited, Hosted
  <1>9. WaitingInv'
    BY <1>1, <1>3, <1>5 DEF StopInv, MainInv, WaitingInv
  <1>10. StoppedIsDown'
    BY <1>2, <1>3 DEF StoppedIsDown, Caller, StopPcs
  <1>11. RunningInv'
    BY <1>1 DEF StopInv, MainInv, RunningInv
  <1>12. UpInv'
    <2>1. op'["page"].pc \in StartPcs BY <1>2 DEF StartPcs
    <2>2. QED BY <1>1, <1>3, <1>5, <2>1 DEF StopInv, MainInv, UpInv, Up, Live
  <1>13. QED
    BY <1>6, <1>7, <1>8, <1>9, <1>10, <1>11, <1>12 DEF StopInv, MainInv

LEMMA StartStep ==
  ASSUME ~gaveUp', TypeOK, TypeOK', LockInv, StopInv, NEW c \in Caller,
         \/ BeginStart(c) \/ SaveFails(c) \/ RequestVpn(c) \/ RefuseSingbox(c)
         \/ \E preflight, lib \in BOOLEAN : RunProxyOnly(c, preflight, lib)
         \/ StartAccepted(c) \/ StartRejected(c) \/ StartTimesOut(c)
         \/ StartAnswered(c) \/ StartUnanswered(c)
  PROVE  StopInv'
  <1>1. op[c].pc \in StartPcs \cup {"saving"}
    BY DEF BeginStart, SaveFails, RequestVpn, RefuseSingbox, RunProxyOnly, StartAccepted,
           StartRejected, StartTimesOut, StartAnswered, StartUnanswered, At, StartPcs
  <1>2. c = "page" BY <1>1, StarterIsPage
  <1>3. CASE SaveFails("page")
    <2>1. /\ op["page"].pc = "saving" /\ op' = [op EXCEPT !["page"] = Idle]
          /\ UNCHANGED <<session, carried, log, stopFlag, ctl, mirror, wants>>
      BY <1>3 DEF SaveFails, At, sessionVars
    <2>2. Idle.pc = "idle" /\ Idle.since = 0 /\ 0 <= Len(log)
      BY LogTypes, <1>2 DEF Idle
    <2>3. op \in [Caller -> Op] BY DEF TypeOK
    <2>4. \A d \in Caller : \/ op'[d] = op[d]
                            \/ /\ op[d].pc \in Rest /\ op'[d].pc \in Rest
                               /\ op'[d].since <= Len(log)
      BY <2>1, <2>2, <2>3 DEF Rest
    <2>5. QED BY <2>1, <2>4, QuietStep
  <1>4. QED
    BY <1>2, <1>3, BeginStartStep, RequestVpnStep, AnswerStep, RunProxyOnlyStep, StartAcceptedStep

(* A step that finds and leaves the page outside a start.                  *)
LEMMA CalmStep ==
  ASSUME StopInv, op["page"].pc \notin StartPcs, op'["page"].pc \notin StartPcs,
         UNCHANGED <<session, carried, log>>, op'["page"].since <= Len(log),
         AskedInv', StoppedIsDown', RunningInv',
         \A i \in Session : Up(i) => /\ ctl'.mode = "vpn" /\ ~stopFlag'
                                     /\ ctl'.status \in {"RUNNING", "STOPPING"}
  PROVE  StopInv'
  <1>1. ~Waiting /\ ~Waiting'
    BY DEF Waiting, StartPcs
  <1>2. ExtensionInv' BY MainFrame
  <1>3. StartingIsAwaited'
    BY <1>1, NoneStarting DEF StartingIsAwaited, Hosted
  <1>4. WaitingInv'
    BY <1>1 DEF WaitingInv
  <1>5. UpInv'
    BY DEF UpInv, Up, Live
  <1>6. QED BY <1>2, <1>3, <1>4, <1>5 DEF StopInv, MainInv

LEMMA AskedFrame ==
  ASSUME StopInv, ctl'.config = ctl.config, wants' = wants, NEW c \in Caller,
         \A d \in Caller : d # c => op'[d] = op[d],
         \A w \in wants : ~Asks(c, w)
  PROVE  AskedInv'
  <1>1. ASSUME NEW w \in wants
        PROVE  (\A v \in wants : v = w) /\ \E d \in Caller : Asks(d, w)'
    <2>1. PICK d \in Caller : Asks(d, w)
      BY DEF StopInv, MainInv, AskedInv
    <2>2. d # c BY <2>1
    <2>3. Asks(d, w)'
      BY <2>1, <2>2 DEF Asks
    <2>4. QED BY <2>3 DEF StopInv, MainInv, AskedInv
  <1>2. QED BY <1>1 DEF AskedInv

(* Without a start and without a stop no Want is on its way.               *)
LEMMA NobodyAsks ==
  ASSUME StopInv, \A c \in Caller : op[c].pc \notin StartPcs \cup StopPcs
  PROVE  wants = {}
  <1>1. ASSUME NEW w \in wants PROVE FALSE
    <2>1. PICK c \in Caller : Asks(c, w)
      BY DEF StopInv, MainInv, AskedInv
    <2>2. QED BY <2>1 DEF Asks, StartPcs, StopPcs
  <1>2. QED BY <1>1

LEMMA StopStep ==
  ASSUME ~gaveUp', TypeOK, LockInv, StopInv, NEW c \in Caller,
         \/ StopAccepted(c) \/ StopRejected(c) \/ StopTimesOut(c)
         \/ StopAnswered(c) \/ StopUnanswered(c) \/ Closed(c) \/ CloseRejected(c)
  PROVE  StopInv'
  <1>0. MainTypeOK /\ "page" \in Caller /\ "scene" \in Caller
    BY DEF TypeOK, MainTypeOK, Controller, Caller
  <1>1. /\ op[c].pc \in StopPcs
        /\ op[c].pc = "stop asked" => Delivered(c)
        /\ UNCHANGED <<session, carried, log, stopFlag, wants>>
    BY DEF StopAccepted, StopRejected, StopTimesOut, StopAnswered, StopUnanswered, Closed,
           CloseRejected, At, StopPcs, sessionVars, SendsNothing
  <1>2. carried = NoConfig
    BY <1>1 DEF StopInv, MainInv, StoppedIsDown, StopPcs
  <1>3. op["page"].pc \notin StartPcs
    BY <1>1 DEF LockInv, Lock, Caller, StartPcs, StopPcs
  <1>4. \A w \in wants : ~Asks(c, w)
    BY <1>1 DEF Asks, Delivered, StopPcs
  <1>5. /\ op'[c].pc \in {"stopping", "closing", "refreshing"}
        /\ op'[c].since = op[c].since
        /\ ctl'.config = ctl.config
        /\ \A d \in Caller : d # c => op'[d] = op[d]
    <2>1. ASSUME NEW pc, Goto(c, pc)
          PROVE  /\ op'[c].pc = pc /\ op'[c].since = op[c].since
                 /\ \A d \in Caller : d # c => op'[d] = op[d]
      BY <1>0, <2>1 DEF Goto, MainTypeOK, Op
    <2>2. ASSUME NEW status, StopReturns(c, status)
          PROVE  Goto(c, "refreshing") /\ ctl'.config = ctl.config
      BY <1>0, <2>2 DEF StopReturns, MainTypeOK, Controller
    <2>3. /\ \E pc \in {"stopping", "closing", "refreshing"} : Goto(c, pc)
          /\ ctl'.config = ctl.config
      BY <2>2 DEF StopAccepted, StopRejected, StopTimesOut, StopAnswered, StopUnanswered, Closed,
                  CloseRejected
    <2>4. QED BY <2>1, <2>3
  <1>6. op'["page"].pc \notin StartPcs
    BY <1>0, <1>3, <1>5 DEF StartPcs
  <1>7. op'["page"].since <= Len(log)
    BY <1>0, <1>5 DEF StopInv, MainInv
  <1>8. AskedInv'
    BY <1>1, <1>4, <1>5, AskedFrame
  <1>9. StoppedIsDown' /\ RunningInv'
    BY <1>1, <1>2 DEF StoppedIsDown, RunningInv
  <1>10. \A i \in Session : ~Up(i)
    BY <1>2 DEF Up
  <1>11. QED BY <1>1, <1>3, <1>6, <1>7, <1>8, <1>9, <1>10, CalmStep

(* A stop is called, from the page or from the scene manager.              *)
LEMMA CallStopStep ==
  ASSUME TypeOK, LockInv, StopInv, NEW c \in Caller, NEW o \in Op,
         CallStop(c, o, ctl, mirror), op["page"].pc \notin StartPcs,
         op[c].pc \notin StopPcs, o.since = 0,
         UNCHANGED <<session, carried, log, stopFlag>>
  PROVE  StopInv'
  <1>0. MainTypeOK /\ "page" \in Caller /\ "scene" \in Caller /\ ctl \in Controller
    BY DEF TypeOK, MainTypeOK, Controller, Caller
  <1>1. /\ \A d \in Caller : d # c => op'[d] = op[d]
        /\ op'[c].since \in {0, Len(log)}
    BY <1>0, CallStopEffect
  <1>2. op'["page"].since <= Len(log)
    <2>1. Len(log) \in Nat /\ op["page"].since <= Len(log)
      BY <1>0, LogTypes DEF StopInv, MainInv
    <2>2. QED BY <1>0, <1>1, <2>1
  <1>3. \A w \in wants : ~Asks(c, w)
    BY DEF Asks, StartPcs, StopPcs
  <1>4. \A i \in Session : Up(i) => /\ ctl.mode = "vpn" /\ ~stopFlag
                                    /\ ctl.status \in {"STARTING", "RUNNING", "STOPPING"}
    BY DEF StopInv, MainInv, UpInv
  <1>5. ctl.status # "STARTING"
    BY DEF LockInv, Lock
  <1>6. CASE ctl.status \in {"IDLE", "STOPPING"}
    <2>1. /\ ctl' = ctl /\ mirror' = ctl.status /\ op'[c].pc = "refreshing" /\ wants' = wants
      BY <1>0, <1>6, CallStopEffect
    <2>2. op'["page"].pc \notin StartPcs
      BY <1>0, <1>1, <2>1 DEF StartPcs
    <2>3. AskedInv' BY <1>1, <1>3, <2>1, AskedFrame
    <2>4. StoppedIsDown'
      BY <1>1, <2>1 DEF StopInv, MainInv, StoppedIsDown, Delivered
    <2>5. RunningInv' BY <1>6, <2>1 DEF RunningInv
    <2>6. QED BY <1>2, <1>4, <1>5, <2>1, <2>2, <2>3, <2>4, <2>5, CalmStep
  <1>7. CASE ctl.status \notin {"IDLE", "STOPPING"} /\ ctl.mode = "proxy-only"
    <2>1. /\ ctl'.status \in {"IDLE", "ERROR"} /\ ctl'.config = ctl.config
          /\ mirror' = ctl'.status /\ op'[c].pc = "refreshing" /\ wants' = wants
      BY <1>0, <1>7, CallStopEffect
    <2>2. op'["page"].pc \notin StartPcs
      BY <1>0, <1>1, <2>1 DEF StartPcs
    <2>3. AskedInv' BY <1>1, <1>3, <2>1, AskedFrame
    <2>4. StoppedIsDown'
      BY <1>1, <2>1 DEF StopInv, MainInv, StoppedIsDown, Delivered
    <2>5. RunningInv' BY <2>1 DEF RunningInv
    <2>6. \A i \in Session : ~Up(i) BY <1>4, <1>7
    <2>7. QED BY <1>2, <2>2, <2>3, <2>4, <2>5, <2>6, CalmStep
  <1>8. CASE ctl.status \notin {"IDLE", "STOPPING"} /\ ctl.mode = "vpn"
    <2>1. /\ ctl'.status = "STOPPING" /\ ctl'.config = ctl.config /\ ctl'.mode = "vpn"
          /\ mirror' = mirror /\ op'[c].pc = "stop asked"
      BY <1>0, <1>8, CallStopEffect
    <2>2. Send("stop", NoConfig) /\ op'[c].id = asks + 1
      BY <1>0, <1>8, CallStopAsks
    <2>3. op["page"].pc \notin StopPcs /\ op["scene"].pc \notin StopPcs
      BY <1>8 DEF LockInv, Lock
    <2>4. wants = {}
      <3>1. op["scene"].pc \notin StartPcs BY StarterIsPage, <1>0
      <3>2. QED BY <2>3, <3>1, NobodyAsks DEF Caller
    <2>5. wants' = {[kind |-> "stop", id |-> asks + 1, config |-> NoConfig]}
      BY <2>2, <2>4 DEF Send
    <2>6. op'["page"].pc \notin StartPcs
      BY <1>0, <1>1, <2>1 DEF StartPcs
    <2>7. \A w \in wants' : w.kind = "stop" /\ w.id = op'[c].id
      BY <2>2, <2>5
    <2>8. AskedInv'
      <3>1. \A w \in wants' : Asks(c, w)'
        BY <2>1, <2>7 DEF Asks
      <3>2. \A v, w \in wants' : v = w BY <2>5
      <3>3. QED BY <3>1, <3>2 DEF AskedInv
    <2>9. ~Delivered(c)'
      <3>1. wants' # {} BY <2>5
      <3>2. QED BY <2>7, <3>1 DEF Delivered
    <2>10. StoppedIsDown'
      <3>1. \A d \in Caller : d # c => op'[d].pc \notin StopPcs
        BY <1>1, <2>3 DEF Caller
      <3>2. QED BY <2>1, <2>9, <3>1 DEF StoppedIsDown, StopPcs
    <2>11. RunningInv'
      BY <1>5, <2>1, <1>8 DEF StopInv, MainInv, RunningInv
    <2>12. QED BY <1>2, <1>4, <2>1, <2>6, <2>8, <2>10, <2>11, CalmStep
  <1>9. QED BY <1>0, <1>6, <1>7, <1>8, CtlTypes DEF Mode

LEMMA UserStep ==
  ASSUME ~Prompts, TypeOK, TypeOK', LockInv, StopInv, User \/ PageReturns \/ PageRefreshes
  PROVE  StopInv'
  <1>0. /\ "page" \in Caller /\ op \in [Caller -> Op] /\ Idle \in Op
        /\ Len(log) \in Nat /\ Idle.pc = "idle" /\ Idle.since = 0
    <2>1. "page" \in Caller /\ op \in [Caller -> Op] BY DEF TypeOK, Caller
    <2>2. Idle \in Op BY <2>1, OpTypes
    <2>3. QED BY <2>1, <2>2, LogTypes DEF Idle
  <1>1. ASSUME UNCHANGED <<session, carried, log, stopFlag, ctl, mirror, wants>>,
               \/ op' = op
               \/ /\ op["page"].pc \in Rest
                  /\ \E o : o.pc \in Rest /\ o.since = 0 /\ op' = [op EXCEPT !["page"] = o]
        PROVE  StopInv'
    <2>1. \A d \in Caller : \/ op'[d] = op[d]
                            \/ /\ op[d].pc \in Rest /\ op'[d].pc \in Rest
                               /\ op'[d].since <= Len(log)
      BY <1>0, <1>1
    <2>2. QED BY <1>1, <2>1, QuietStep
  <1>2. ASSUME NEW config \in Config \cup {NoConfig}
        PROVE  LET o == [Idle EXCEPT !.pc = "saving", !.config = config]
               IN  o.pc \in Rest /\ o.since = 0
    BY DEF Idle, Rest
  <1>3. ASSUME NEW config \in Config, TapConnect(config) \/ ConfirmCore(config) PROVE StopInv'
    <2>1. StartConnection(config)
      BY <1>3 DEF TapConnect, ConfirmCore
    <2>2. /\ op["page"].pc \in Rest
          /\ op' = [op EXCEPT !["page"] = [Idle EXCEPT !.pc = "saving", !.config = config]]
          /\ UNCHANGED <<session, carried, log, stopFlag, ctl, mirror, wants>>
      BY <2>1 DEF StartConnection, Free, At, Rest, sessionVars
    <2>3. QED BY <1>1, <1>2, <2>2
  <1>4. CASE AskCore \/ DismissCore
    BY <1>1, <1>4 DEF AskCore, DismissCore, sessionVars
  <1>5. ASSUME NEW o \in Op, CallStop("page", o, ctl, mirror), o.since = 0, Free,
               UNCHANGED <<session, carried, log, stopFlag>>
        PROVE  StopInv'
    <2>1. op["page"].pc \notin StartPcs \cup StopPcs
      BY <1>5 DEF Free, At, StartPcs, StopPcs
    <2>2. QED BY <1>0, <1>5, <2>1, CallStopStep
  <1>6. CASE TapDisconnect
    BY <1>0, <1>5, <1>6 DEF TapDisconnect, sessionVars
  <1>7. ASSUME NEW config \in Config, TapSwitch(config) PROVE StopInv'
    <2> DEFINE o == [Idle EXCEPT !.config = config, !.again = TRUE]
    <2>1. o \in Op BY <1>0, OpTypes
    <2>2. o.since = 0 BY DEF Idle
    <2>3. CallStop("page", o, ctl, mirror) /\ Free /\ UNCHANGED <<session, carried, log, stopFlag>>
      BY <1>7 DEF TapSwitch, sessionVars
    <2> HIDE DEF o
    <2>4. QED BY <1>5, <2>1, <2>2, <2>3
  <1>8. CASE PageReturns
    <2>1. /\ op["page"].pc \in Rest
          /\ UNCHANGED <<session, carried, log, stopFlag, ctl, mirror, wants>>
          /\ \/ op' = [op EXCEPT !["page"] = [Idle EXCEPT !.pc = "saving", !.config = op["page"].config]]
             \/ op' = [op EXCEPT !["page"] = Idle]
      BY <1>8 DEF PageReturns, At, Rest, sessionVars
    <2>2. op["page"].config \in Config \cup {NoConfig}
      BY <1>0, OpTypes
    <2>3. Idle.pc \in Rest BY <1>0 DEF Rest
    <2>4. QED BY <1>0, <1>1, <1>2, <2>1, <2>2, <2>3
  <1>9. CASE PageRefreshes
    BY <1>1, <1>9 DEF PageRefreshes, sessionVars
  <1>10. QED BY <1>3, <1>4, <1>6, <1>7, <1>8, <1>9 DEF User

LEMMA SceneStep ==
  ASSUME TypeOK, TypeOK', LockInv, StopInv, Scene PROVE StopInv'
  <1>0. /\ "scene" \in Caller /\ "page" \in Caller /\ op \in [Caller -> Op] /\ Idle \in Op
        /\ Len(log) \in Nat /\ Idle.pc = "idle" /\ Idle.since = 0
    <2>1. "scene" \in Caller /\ "page" \in Caller /\ op \in [Caller -> Op] BY DEF TypeOK, Caller
    <2>2. Idle \in Op BY <2>1, OpTypes
    <2>3. QED BY <2>1, <2>2, LogTypes DEF Idle
  <1>1. CASE SceneProbes \/ SceneSkips \/ SceneReturns
    <2>1. /\ op["scene"].pc \in Rest
          /\ UNCHANGED <<session, carried, log, stopFlag, ctl, mirror, wants>>
      BY <1>1 DEF SceneProbes, SceneSkips, SceneReturns, At, Rest, sessionVars
    <2>2. op'["scene"].pc \in Rest /\ op'["page"] = op["page"]
      <3>1. CASE SceneProbes \/ SceneSkips
        <4>1. Goto("scene", "probing") \/ Goto("scene", "idle")
          BY <3>1 DEF SceneProbes, SceneSkips
        <4>2. QED BY <1>0, <4>1, GotoPc DEF Rest
      <3>2. CASE SceneReturns
        BY <1>0, <3>2 DEF SceneReturns, Rest
      <3>3. QED BY <1>1, <3>1, <3>2
    <2>3. QED BY <2>1, <2>2, QuietStep DEF Caller
  <1>2. ASSUME NEW trusted \in BOOLEAN, SceneDecides(trusted) PROVE StopInv'
    <2> DEFINE stopped == mirror = "RUNNING" /\ stopFlag
               m == IF stopped THEN "IDLE" ELSE mirror
               cs == Reconciled(stopped)
    <2>1. /\ op["scene"].pc = "probing" /\ UNCHANGED <<session, carried, log, stopFlag>>
          /\ \/ m = "RUNNING" /\ CallStop("scene", Idle, cs, m)
             \/ /\ ctl' = cs /\ mirror' = m /\ Goto("scene", "idle")
                /\ wants' = wants
      BY <1>2 DEF SceneDecides, At, sessionVars, SendsNothing
    <2>2. op["scene"].pc \in Rest /\ op["scene"].pc \notin StopPcs \cup StartPcs
      BY <2>1 DEF Rest, StartPcs, StopPcs
    <2>3. mirror = "RUNNING" => op["page"].pc \notin StartPcs
      BY DEF LockInv, Lock, StartPcs, StopPcs
    <2>4. CASE m = "RUNNING" /\ CallStop("scene", Idle, cs, m)
      <3>1. ~stopped /\ m = mirror /\ mirror = "RUNNING" BY <2>4
      <3>2. cs = ctl BY <3>1 DEF Reconciled
      <3>3. CallStop("scene", Idle, ctl, mirror) BY <2>4, <3>1, <3>2
      <3>4. QED BY <1>0, <2>1, <2>2, <2>3, <3>1, <3>3, CallStopStep
    <2>5. CASE /\ ctl' = cs /\ mirror' = m /\ Goto("scene", "idle")
               /\ wants' = wants
      <3>1. op'["scene"].pc = "idle" /\ op'["page"] = op["page"]
        BY <1>0, <2>5 DEF Goto, Op
      <3>2. CASE ~stopped
        <4>1. ctl' = ctl /\ mirror' = mirror
          BY <2>5, <3>2 DEF Reconciled
        <4>2. QED BY <2>1, <2>2, <2>5, <3>1, <4>1, QuietStep DEF Caller, Rest
      <3>3. CASE stopped
        <4>1. op["page"].pc \notin StartPcs /\ op'["page"].pc \notin StartPcs
          BY <2>3, <3>1, <3>3
        <4>2. \A i \in Session : ~Up(i)
          BY <3>3, <4>1 DEF StopInv, MainInv, UpInv
        <4>3. ctl'.config = ctl.config
          <5>1. ctl \in Controller BY DEF TypeOK, Controller
          <5>2. QED BY <2>5, <5>1 DEF Reconciled, Controller
        <4>4. /\ mirror' = "IDLE"
              /\ ctl'.status # "RUNNING"
          <5>1. ctl \in Controller BY DEF TypeOK, Controller
          <5>2. QED BY <2>5, <3>3, <5>1 DEF Reconciled, Controller
        <4>5. AskedInv'
          <5>1. \A w \in wants : ~Asks("scene", w)
            BY <2>1 DEF Asks
          <5>2. QED BY <1>0, <2>5, <3>1, <4>3, <5>1, AskedFrame DEF Caller
        <4>6. StoppedIsDown'
          BY <2>1, <2>5, <3>1 DEF StopInv, MainInv, StoppedIsDown, Delivered, Caller
        <4>7. RunningInv' BY <4>4 DEF RunningInv
        <4>8. op'["page"].since <= Len(log)
          BY <3>1 DEF StopInv, MainInv
        <4>9. QED BY <2>1, <4>1, <4>2, <4>5, <4>6, <4>7, <4>8, CalmStep
      <3>4. QED BY <3>2, <3>3
    <2>6. QED BY <2>1, <2>4, <2>5
  <1>3. QED BY <1>1, <1>2 DEF Scene

LEMMA NextStop ==
  ASSUME ~gaveUp', ~Prompts, TypeOK, TypeOK', LockInv, StopInv, [Next]_vars
  PROVE  StopInv'
  <1>1. CASE UNCHANGED vars
    <2>1. UNCHANGED <<session, carried, log, stopFlag, ctl, mirror, wants, op>>
      BY <1>1 DEF vars
    <2>2. QED BY <2>1, QuietStep
  <1>2. ASSUME NEW c \in Caller, Pipeline(c) PROVE StopInv'
    BY <1>2, StartStep, StopStep DEF Pipeline
  <1>3. QED
    BY <1>1, <1>2, UserStep, SceneStep, DeliverStep, ExtensionStep DEF Next, Caller

LEMMA InitStop == Init => StopInv
  <1> SUFFICES ASSUME Init PROVE StopInv OBVIOUS
  <1>1. /\ op["page"] = Idle /\ op["scene"] = Idle /\ wants = {} /\ carried = NoConfig
        /\ log = <<>>
        /\ \A i \in Session : session[i] = NewSession
    BY DEF Init, SessionInit, Caller
  <1>2. \A i \in Session : session[i].life = "none" /\ ~session[i].starting
    <2>1. NewSession.life = "none" /\ ~NewSession.starting BY DEF NewSession
    <2>2. QED BY <1>1, <2>1
  <1>3. op["page"].pc = "idle" /\ op["scene"].pc = "idle" /\ op["page"].since = 0
    BY <1>1 DEF Idle
  <1>4. ExtensionInv
    BY <1>1, <1>2 DEF ExtensionInv, OneHosted, UnusedIsNew, CarrierIsHosted, CleaningIsDown,
                      StartingIsClean, Hosted, Live
  <1>5. MainInv
    BY <1>1, <1>2, <1>3 DEF MainInv, AskedInv, StartingIsAwaited, WaitingInv, Waiting,
                            StoppedIsDown, RunningInv, UpInv, Up, Hosted, Live
  <1>6. QED BY <1>4, <1>5 DEF StopInv

(* What was given up stays so.                                             *)
LEMMA StaysGivenUp == ASSUME gaveUp, [Next]_vars PROVE gaveUp'
  <1>1. ASSUME NEW c \in Caller, Pipeline(c) PROVE gaveUp'
    <2>1. CASE \/ BeginStart(c) \/ SaveFails(c) \/ RequestVpn(c) \/ RefuseSingbox(c)
               \/ \E preflight, lib \in BOOLEAN : RunProxyOnly(c, preflight, lib)
               \/ StartAccepted(c) \/ StartRejected(c)
      BY <2>1 DEF BeginStart, SaveFails, RequestVpn, RefuseSingbox, RunProxyOnly, StartAccepted,
                  StartRejected
    <2>2. CASE StartTimesOut(c) \/ StartAnswered(c) \/ StartUnanswered(c)
      BY <2>2 DEF StartTimesOut, StartAnswered, StartUnanswered
    <2>3. CASE \/ StopAccepted(c) \/ StopRejected(c) \/ StopTimesOut(c)
               \/ StopAnswered(c) \/ StopUnanswered(c) \/ Closed(c) \/ CloseRejected(c)
      BY <2>3 DEF StopAccepted, StopRejected, StopTimesOut, StopAnswered, StopUnanswered,
                  Closed, CloseRejected
    <2>4. QED BY <1>1, <2>1, <2>2, <2>3 DEF Pipeline
  <1>2. CASE User
    BY <1>2 DEF User, TapConnect, TapSwitch, ConfirmCore, StartConnection, TapDisconnect,
                AskCore, DismissCore
  <1>3. CASE Scene \/ PageReturns \/ PageRefreshes
    BY <1>3 DEF Scene, SceneProbes, SceneSkips, SceneReturns, SceneDecides, PageReturns,
                PageRefreshes
  <1>4. CASE Deliver \/ ExtensionWorks \/ SystemDestroys \/ ProcessEnds
    BY <1>4 DEF Deliver, DeliverStart, DeliverStop, MainStays, ExtensionWorks, SystemDestroys,
                ProcessEnds, mainVars
  <1>5. CASE UNCHANGED vars BY <1>5 DEF vars
  <1>6. QED BY <1>1, <1>2, <1>3, <1>4, <1>5 DEF Next, Caller

(* Until the controller has given up on an answer that could still come,   *)
(* or on a stop, what the extension carries, what is on its way and what   *)
(* the page waits for agree (ConnectionController.start, stop;             *)
(* HeyVpnAbility).                                                         *)
THEOREM StopInvariant == ASSUME ~Prompts PROVE Spec => [](~gaveUp => StopInv)
  <1>1. /\ TypeOK /\ TypeOK' /\ LockInv /\ (~gaveUp => StopInv) /\ [Next]_vars
        => (~gaveUp => StopInv)'
    <2> SUFFICES ASSUME TypeOK, TypeOK', LockInv, ~gaveUp => StopInv, [Next]_vars, ~gaveUp'
                 PROVE  StopInv'
      OBVIOUS
    <2>1. StopInv BY StaysGivenUp
    <2>2. QED BY <2>1, NextStop
  <1>2. QED BY <1>1, InitStop, ConnectionTypes, LockInvariant, PTL DEF Spec

(* Until then whatever is up can be stopped: the application offers it     *)
(* only for a connection its controller knows of.                          *)
THEOREM UpIsStoppable == ASSUME ~Prompts PROVE Spec => []Stoppable
  <1>1. (~gaveUp => StopInv) => Stoppable
    BY DEF StopInv, MainInv, UpInv, Up, Stoppable
  <1>2. QED BY <1>1, StopInvariant, PTL

(* Until then the configuration shown as running is the one that is        *)
(* carried (RuntimeController.start, NetworkSceneManager.evaluate).        *)
THEOREM ShownIsCarried == ASSUME ~Prompts PROVE Spec => []ShownConfigCarried
  <1>1. (~gaveUp => StopInv) => ShownConfigCarried
    BY DEF StopInv, MainInv, RunningInv, ShownConfigCarried
  <1>2. QED BY <1>1, StopInvariant, PTL
=============================================================================
