---------------------------- MODULE VpnExtension ----------------------------
(***************************************************************************)
(* The VPN extension process (HeyVpnAbility.ets) on top of NativeBridge.   *)
(* An ability instance is one ArkTS object: its async methods run on one   *)
(* thread and interleave only at an await, so every action below is the    *)
(* code between two awaits.  An instance calls VpnConnection.create at     *)
(* most once, hence the descriptor it gets names the instance: Fd is the   *)
(* set of instances.                                                       *)
(***************************************************************************)
EXTENDS NativeBridge, Sequences

CONSTANTS Net,           \* network signatures (kind|ssid)
          Trusted,       \* the ones the user listed
          NoNet,         \* the empty signature, and the one of a failed reading
          MaxLog,        \* bound on the diagnostic events of interest
          ReuseProcess   \* may the system host two instances in one process

ASSUME ExtensionAssumption ==
  /\ Trusted \subseteq Net /\ NoNet \notin Net
  /\ MaxLog \in Nat /\ ReuseProcess \in BOOLEAN

VARIABLES ability,   \* per instance: the fields of HeyVpnAbility
          bridge,    \* native globals of the extension process
          up,        \* the extension process exists
          tuns,      \* instances whose TUN interface the system holds
          log,       \* lifecycle events in the shared diagnostic log
          stopFlag,  \* the file written by NetSceneStopFlag
          net,       \* current network
          roamed,    \* history: the network changed since the last onCreate
          misread    \* history: a poll misread the network since then

extVars == <<ability, bridge, up, tuns, log, stopFlag, net, roamed, misread>>

Core == {"xray", "singbox"}

(* starting : the await startVpn is suspended at                           *)
(* poll     : the await the pending pollNetScene is suspended at           *)
Ability == [life : {"none", "live", "destroyed", "dead"},
            core : Core, config : Config \cup {NoConfig},
            conn : BOOLEAN, tunFd : BOOLEAN,
            starting : {"no", "settings", "create"},
            cleaningUp : BOOLEAN,
            pollTimer : BOOLEAN, poll : {"no", "settings", "net", "marked"},
            sig : Net \cup {NoNet},
            seeded : BOOLEAN, signature : Net \cup {NoNet}]

NewAbility == [life |-> "none", core |-> "xray", config |-> NoConfig,
               conn |-> FALSE, tunFd |-> FALSE, starting |-> "no",
               cleaningUp |-> FALSE, pollTimer |-> FALSE, poll |-> "no",
               sig |-> NoNet, seeded |-> FALSE, signature |-> NoNet]

Event == [kind : {"started", "failed", "cleanup", "auto"}, by : Fd]

Emit(l, kind, i) == Append(l, [kind |-> kind, by |-> i])

ExtInit ==
  /\ ability = [i \in Fd |-> NewAbility]
  /\ bridge = FreshBridge
  /\ up = FALSE
  /\ tuns = {}
  /\ log = <<>>
  /\ stopFlag = FALSE
  /\ net \in Net
  /\ roamed = FALSE
  /\ misread = FALSE

Suspended(i) == ability[i].life \in {"live", "destroyed"}

-----------------------------------------------------------------------------
(* The order the comment in cleanup() rules out: cores before the engine.  *)
StopNativeCoresFirst(b, xrayLib, boxLib) ==
  StopTun2Socks(SingboxStop(StopXray(b, xrayLib), boxLib))

(* cleanup(): the engine first, then both cores; results are only logged.  *)
StopNative(b, xrayLib, boxLib) ==
  SingboxStop(StopXray(StopTun2Socks(b), xrayLib), boxLib)

(* cleanup() up to its only await.  "a", "b" and "l" are the ability, the  *)
(* bridge and the log as the caller leaves them.                           *)
Cleanup(i, a, b, l) ==
  \/ /\ a.cleaningUp
     /\ ability' = [ability EXCEPT ![i] = a]
     /\ bridge' = b
     /\ log' = l
  \/ /\ ~a.cleaningUp
     /\ \E xrayLib, boxLib \in BOOLEAN : bridge' = StopNative(b, xrayLib, boxLib)
     /\ \/ /\ a.conn
           /\ ability' = [ability EXCEPT ![i] =
                            [a EXCEPT !.cleaningUp = TRUE, !.pollTimer = FALSE]]
           /\ log' = l
        \/ /\ ~a.conn
           /\ ability' = [ability EXCEPT ![i] =
                            [a EXCEPT !.pollTimer = FALSE, !.tunFd = FALSE]]
           /\ log' = Emit(l, "cleanup", i)

(* The continuation of cleanup() after destroy() resolved or rejected.     *)
CleanupFinish(i, destroyed) ==
  /\ Suspended(i) /\ ability[i].cleaningUp
  /\ tuns' = IF destroyed THEN tuns \ {i} ELSE tuns
  /\ ability' = [ability EXCEPT ![i] =
                   [@ EXCEPT !.conn = FALSE, !.tunFd = FALSE, !.cleaningUp = FALSE]]
  /\ log' = Emit(log, "cleanup", i)
  /\ UNCHANGED <<bridge, up, stopFlag, net, roamed, misread>>

-----------------------------------------------------------------------------
(* Requests of the system.                                                 *)

(* onCreate with a start Want: startVpn up to its first await.             *)
OnCreateStart(i, core, config) ==
  /\ ability[i].life = "none"
  /\ \A j \in Fd : ability[j].life # "live"
  /\ up => ReuseProcess
  /\ ability' = [ability EXCEPT ![i] =
                   [NewAbility EXCEPT !.life = "live", !.core = core,
                                      !.config = config, !.conn = TRUE,
                                      !.starting = "settings"]]
  /\ up' = TRUE
  /\ roamed' = FALSE
  /\ misread' = FALSE
  /\ UNCHANGED <<bridge, tuns, log, stopFlag, net>>

(* onCreate with the stop command: there is nothing to destroy.            *)
OnCreateStop(i) ==
  /\ ability[i].life = "none"
  /\ \A j \in Fd : ability[j].life # "live"
  /\ up => ReuseProcess
  /\ Cleanup(i, [NewAbility EXCEPT !.life = "live"], bridge, log)
  /\ up' = TRUE
  /\ roamed' = FALSE
  /\ misread' = FALSE
  /\ UNCHANGED <<tuns, stopFlag, net>>

OnRequestStop(i) ==
  /\ ability[i].life = "live"
  /\ Len(log) < MaxLog
  /\ Cleanup(i, ability[i], bridge, log)
  /\ UNCHANGED <<up, tuns, stopFlag, net, roamed, misread>>

(* Any other request to a live instance is ignored.                        *)
OnRequestIgnored(i) ==
  /\ ability[i].life = "live"
  /\ UNCHANGED extVars

OnDestroy(i) ==
  /\ ability[i].life = "live"
  /\ LET a == [ability[i] EXCEPT !.life = "destroyed"]
     IN  \/ /\ a.conn \/ a.tunFd
            /\ Cleanup(i, a, bridge, log)
         \/ /\ ~(a.conn \/ a.tunFd)
            /\ ability' = [ability EXCEPT ![i] = a]
            /\ UNCHANGED <<bridge, log>>
  /\ UNCHANGED <<up, tuns, stopFlag, net, roamed, misread>>

(* The process ends, by itself or by a crash; the system reclaims the TUN. *)
ProcessExit ==
  /\ up
  /\ up' = FALSE
  /\ ability' = [i \in Fd |-> IF ability[i].life = "none" THEN ability[i]
                              ELSE [NewAbility EXCEPT !.life = "dead"]]
  /\ bridge' = FreshBridge
  /\ tuns' = {}
  /\ UNCHANGED <<log, stopFlag, net, roamed, misread>>

-----------------------------------------------------------------------------
(* startVpn() between its awaits.                                          *)

StartFailsSilently(i, a, b) == Cleanup(i, [a EXCEPT !.starting = "no"], b, log)

StartFails(i, a, b) == Cleanup(i, [a EXCEPT !.starting = "no"], b, Emit(log, "failed", i))

(* Settings are loaded; create() is called on the connection of the field, *)
(* which a cleanup may have set to null meanwhile.                         *)
SettingsLoaded(i) ==
  /\ Suspended(i) /\ ability[i].starting = "settings"
  /\ ability[i].conn
  /\ ability' = [ability EXCEPT ![i].starting = "create"]
  /\ UNCHANGED <<bridge, up, tuns, log, stopFlag, net, roamed, misread>>

SettingsFailed(i) ==
  /\ Suspended(i) /\ ability[i].starting = "settings"
  /\ StartFails(i, ability[i], bridge)
  /\ UNCHANGED <<up, tuns, stopFlag, net, roamed, misread>>

CreateRejected(i) ==
  /\ Suspended(i) /\ ability[i].starting = "create"
  /\ StartFails(i, ability[i], bridge)
  /\ UNCHANGED <<up, tuns, stopFlag, net, roamed, misread>>

StartCore(b, a, lib) ==
  IF a.core = "singbox" THEN SingboxStart(b, a.config, lib)
                        ELSE StartXray(b, a.config, lib)

StartCoreUnchecked(b, a, lib) == TRUE

StartCoreOk(b, a, lib) ==
  IF a.core = "singbox" THEN SingboxStartOk(b, lib) ELSE StartXrayOk(b, lib)

StartDataPlane(b, i, hev, lib) ==
  IF hev THEN StartHevTun(b, i, lib) ELSE StartTun2Socks(b, i, lib)

(* create() resolved: the core, the data plane and the poll start in one   *)
(* turn; cleaningUp is not looked at again.                                *)
CreateResolved(i, hev, coreLib, tunLib) ==
  LET a == [ability[i] EXCEPT !.tunFd = TRUE]
      cored == StartCore(bridge, a, coreLib)
      tunned == StartDataPlane(cored, i, hev, tunLib)
  IN  /\ Suspended(i) /\ a.starting = "create"
      /\ tuns' = tuns \cup {i}
      /\ \/ /\ ~StartCoreOk(bridge, a, coreLib)
            /\ StartFails(i, a, cored)
         \/ /\ StartCoreOk(bridge, a, coreLib)
            /\ hev /\ tunLib => ~HevJoinBlocks(cored)
            /\ ~StartTunOk(cored, tunLib)
            /\ StartFails(i, a, tunned)
         \/ /\ StartCoreOk(bridge, a, coreLib)
            /\ hev /\ tunLib => ~HevJoinBlocks(cored)
            /\ StartTunOk(cored, tunLib)
            /\ bridge' = tunned
            /\ ability' = [ability EXCEPT ![i] =
                             [a EXCEPT !.starting = "no", !.pollTimer = TRUE,
                                       !.seeded = FALSE, !.signature = NoNet]]
            /\ log' = Emit(log, "started", i)
      /\ UNCHANGED <<up, stopFlag, net, roamed, misread>>

-----------------------------------------------------------------------------
(* pollNetScene() between its awaits; a tick finds the last poll finished. *)

PollTick(i) ==
  /\ Suspended(i) /\ ability[i].pollTimer /\ ability[i].poll = "no"
  /\ ~ability[i].cleaningUp
  /\ ability' = [ability EXCEPT ![i].poll = "settings"]
  /\ UNCHANGED <<bridge, up, tuns, log, stopFlag, net, roamed, misread>>

(* Automation may be off, and loading the settings may fail.               *)
PollGivesUp(i) ==
  /\ Suspended(i) /\ ability[i].poll = "settings"
  /\ ability' = [ability EXCEPT ![i].poll = "no"]
  /\ UNCHANGED <<bridge, up, tuns, log, stopFlag, net, roamed, misread>>

(* readCurrentNetContext() never throws: a reading that fails answers a    *)
(* network without a name or none at all, which is never trusted (NoNet).  *)
PollReadsNet(i) ==
  /\ Suspended(i) /\ ability[i].poll = "settings"
  /\ \/ /\ ability' = [ability EXCEPT ![i] = [@ EXCEPT !.poll = "net", !.sig = net]]
        /\ misread' = misread
     \/ /\ ability' = [ability EXCEPT ![i] = [@ EXCEPT !.poll = "net", !.sig = NoNet]]
        /\ misread' = TRUE
  /\ UNCHANGED <<bridge, up, tuns, log, stopFlag, net, roamed>>

(* A poll that acts on the network it finds first.                         *)
PollDecidesUnseeded(i) ==
  LET a == ability[i]
      acts == a.sig # a.signature /\ a.sig \in Trusted
  IN  /\ Suspended(i) /\ a.poll = "net"
      /\ ability' = [ability EXCEPT ![i] =
                       [a EXCEPT !.seeded = TRUE, !.signature = a.sig, !.sig = NoNet,
                                 !.poll = IF acts THEN "marked" ELSE "no"]]
      /\ stopFlag' = (stopFlag \/ acts)
      /\ log' = IF acts THEN Emit(log, "auto", i) ELSE log
      /\ UNCHANGED <<bridge, up, tuns, net, roamed, misread>>

(* The first poll only seeds the signature; a later one acts on a change.  *)
PollDecides(i) ==
  LET a == ability[i]
      acts == a.seeded /\ a.sig # a.signature /\ a.sig \in Trusted
  IN  /\ Suspended(i) /\ a.poll = "net"
      /\ ability' = [ability EXCEPT ![i] =
                       [a EXCEPT !.seeded = TRUE, !.signature = a.sig, !.sig = NoNet,
                                 !.poll = IF acts THEN "marked" ELSE "no"]]
      /\ stopFlag' = (stopFlag \/ acts)
      /\ log' = IF acts THEN Emit(log, "auto", i) ELSE log
      /\ UNCHANGED <<bridge, up, tuns, net, roamed, misread>>

PollDisconnects(i) ==
  /\ Suspended(i) /\ ability[i].poll = "marked"
  /\ Cleanup(i, [ability[i] EXCEPT !.poll = "no"], bridge, log)
  /\ UNCHANGED <<up, tuns, stopFlag, net, roamed, misread>>

-----------------------------------------------------------------------------
(* Threads of the native side, and the network.                            *)

StopThreadSwaps ==
  /\ bridge.stopping > 0
  /\ bridge' = AdapterSwap(bridge)
  /\ UNCHANGED <<ability, up, tuns, log, stopFlag, net, roamed, misread>>

StopThreadStopsUnswapped ==
  /\ up
  /\ bridge' = EngineStop(bridge)
  /\ UNCHANGED <<ability, up, tuns, log, stopFlag, net, roamed, misread>>

StopThreadStops ==
  /\ bridge.swapped > 0
  /\ bridge' = EngineStop(bridge)
  /\ UNCHANGED <<ability, up, tuns, log, stopFlag, net, roamed, misread>>

HevLoopExits ==
  /\ bridge.hev # NoFd
  /\ bridge' = HevExits(bridge)
  /\ UNCHANGED <<ability, up, tuns, log, stopFlag, net, roamed, misread>>

NetChanges ==
  /\ \E n \in Net \ {net} : net' = n
  /\ roamed' = TRUE
  /\ UNCHANGED <<ability, bridge, up, tuns, log, stopFlag, misread>>

-----------------------------------------------------------------------------
(* The instance's own continuations, everything the event loop will run.   *)
Continue(i) ==
  \/ \E d \in BOOLEAN : CleanupFinish(i, d)
  \/ SettingsLoaded(i)
  \/ SettingsFailed(i)
  \/ CreateRejected(i)
  \/ \E hev, coreLib, tunLib \in BOOLEAN : CreateResolved(i, hev, coreLib, tunLib)

Poll(i) ==
  \/ PollTick(i)
  \/ PollGivesUp(i)
  \/ PollReadsNet(i)
  \/ PollDecides(i)
  \/ PollDisconnects(i)

NativeThreads == StopThreadSwaps \/ StopThreadStops \/ HevLoopExits

ExtRuns == (\E i \in Fd : Continue(i) \/ Poll(i)) \/ NativeThreads \/ NetChanges \/ ProcessExit

System ==
  \E i \in Fd :
    \/ \E core \in Core, config \in Config : OnCreateStart(i, core, config)
    \/ OnCreateStop(i)
    \/ OnRequestStop(i)
    \/ OnRequestIgnored(i)
    \/ OnDestroy(i)

ExtNext == ExtRuns \/ System

ExtSpec == ExtInit /\ [][ExtNext]_extVars

(* Awaited calls settle, and detached threads are scheduled.               *)
ExtFairness ==
  /\ \A i \in Fd : WF_extVars(Continue(i))
  /\ WF_extVars(StopThreadSwaps)
  /\ WF_extVars(StopThreadStops)

FairExtSpec == ExtSpec /\ ExtFairness

-----------------------------------------------------------------------------
(* Properties.                                                             *)

(* Every field of the ability and of the bridge stays in its range.        *)
TypeOK ==
  /\ ability \in [Fd -> Ability]
  /\ bridge \in Bridge
  /\ up \in BOOLEAN
  /\ tuns \subseteq Fd
  /\ log \in Seq(Event)
  /\ stopFlag \in BOOLEAN
  /\ net \in Net
  /\ roamed \in BOOLEAN
  /\ misread \in BOOLEAN

(* Traffic of the TUN is forwarded only while a core is really there to    *)
(* take it: the data plane flag is never up over a core that has gone, in  *)
(* whatever order starts, failures and cleanups interleave.                *)
CoreUnderTun ==
  bridge.tunRunning => bridge.xray # NoConfig \/ bridge.box # NoConfig

(* One of stopNativeTun2Socks and the pending stop threads can still reach *)
(* every engine that runs: no data plane outlives all means to stop it.    *)
EnginesReachable ==
  LiveEngines(bridge) # {} =>
    \/ bridge.tunRunning /\ bridge.hev # NoFd /\ bridge.tunEngine = "hev"
    \/ bridge.tunRunning /\ bridge.adapter /\ bridge.tunEngine = "gvisor"
    \/ bridge.stopping > 0 /\ bridge.adapter
    \/ bridge.swapped > 0 /\ bridge.current \in bridge.stacks

(* StartHevTun never waits in join() for a hev loop nobody told to quit:   *)
(* that would freeze the ArkTS thread of the extension for good.           *)
HevJoinNeverBlocks == ~HevJoinBlocks(bridge)

(* A VPN the user opened on a trusted network and has not left is not torn *)
(* down as long as the network is read right: the poll marks an automatic  *)
(* disconnect only after a change, or after a reading that failed.         *)
NoDisconnectInPlace ==
  [][~stopFlag /\ stopFlag' => roamed \/ misread]_extVars

(* What the comment in pollNetScene() says without that condition: only a  *)
(* change of the network after the first poll counts.  A reading that      *)
(* fails between two good ones looks like such a change (README, 7).       *)
NoDisconnectBeforeRoaming ==
  [][~stopFlag /\ stopFlag' => roamed]_extVars

(* Every started instance reports "started" or "failed" unless its process *)
(* dies: ConnectionController.start has nothing else to wait for.          *)
StartReported ==
  \A i \in Fd :
    ability[i].starting # "no" ~>
      \/ ability[i].life = "dead"
      \/ \E k \in DOMAIN log : log[k].by = i /\ log[k].kind \in {"started", "failed"}

(* What getNativeStats reports becomes true: once the bridge says that the *)
(* data plane is down, the engines it left to a detached thread do stop.   *)
ReportedDownIsDown == ~bridge.tunRunning ~> LiveEngines(bridge) = {}
=============================================================================
