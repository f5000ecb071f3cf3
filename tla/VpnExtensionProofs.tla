------------------------- MODULE VpnExtensionProofs -------------------------
(***************************************************************************)
(* Proofs about the extension process, for every set of instances, every   *)
(* network and log bound.  The types and the hev loop are proved for both  *)
(* values of ReuseProcess, the data plane and the poll for a process that  *)
(* serves one instance.                                                    *)
(***************************************************************************)
EXTENDS VpnExtension, TLAPS

(* A hev loop runs only while the bridge says that hev is its data plane.  *)
HevTracked(b) == b.hev # NoFd => b.tunRunning /\ b.tunEngine = "hev"

ExtInv == TypeOK /\ HevTracked(bridge)

(* The calls of the bridge preserve its type.                              *)
LEMMA FreshBridgeType == FreshBridge \in Bridge /\ HevTracked(FreshBridge)
  BY DEF FreshBridge, Bridge, Engine, HevTracked

LEMMA StartCallsKeep ==
  ASSUME NEW b \in Bridge, HevTracked(b), NEW i \in Fd, NEW c \in Config \cup {NoConfig},
         NEW lib \in BOOLEAN
  PROVE  /\ StartXray(b, c, lib) \in Bridge /\ HevTracked(StartXray(b, c, lib))
         /\ SingboxStart(b, c, lib) \in Bridge /\ HevTracked(SingboxStart(b, c, lib))
         /\ StartTun2Socks(b, i, lib) \in Bridge /\ HevTracked(StartTun2Socks(b, i, lib))
         /\ StartHevTun(b, i, lib) \in Bridge /\ HevTracked(StartHevTun(b, i, lib))
  <1>1. StartXray(b, c, lib) \in Bridge /\ HevTracked(StartXray(b, c, lib))
    BY DEF StartXray, Bridge, HevTracked
  <1>2. SingboxStart(b, c, lib) \in Bridge /\ HevTracked(SingboxStart(b, c, lib))
    BY DEF SingboxStart, BoxStart, Bridge, HevTracked
  <1>3. StartTun2Socks(b, i, lib) \in Bridge /\ HevTracked(StartTun2Socks(b, i, lib))
    BY DEF StartTun2Socks, AdapterStart, Bridge, Engine, HevTracked
  <1>4. StartHevTun(b, i, lib) \in Bridge /\ HevTracked(StartHevTun(b, i, lib))
    BY DEF StartHevTun, Bridge, Engine, HevTracked
  <1>5. QED BY <1>1, <1>2, <1>3, <1>4

(* cleanup() leaves no hev loop: the engine is stopped before the cores    *)
(* clear the data plane flag.                                              *)
LEMMA StopNativeKeeps ==
  ASSUME NEW b \in Bridge, HevTracked(b), NEW x \in BOOLEAN, NEW s \in BOOLEAN
  PROVE  StopNative(b, x, s) \in Bridge /\ HevTracked(StopNative(b, x, s))
  <1>1. StopTun2Socks(b) \in Bridge /\ StopTun2Socks(b).hev = NoFd
    <2>1. CASE ~b.tunRunning
      BY <2>1 DEF StopTun2Socks, HevTracked
    <2>2. CASE b.tunRunning /\ b.tunEngine = "hev"
      BY <2>2 DEF StopTun2Socks, Bridge, Engine
    <2>3. CASE b.tunRunning /\ b.tunEngine # "hev"
      <3>1. b.hev = NoFd BY <2>3 DEF HevTracked
      <3>2. b.stopping \in Nat /\ b.stopping + 1 \in Nat BY DEF Bridge
      <3> DEFINE c == [b EXCEPT !.tunRunning = FALSE, !.tunEngine = "none",
                                  !.stopping = b.stopping + 1]
      <3>4. StopTun2Socks(b) = c BY <2>3 DEF StopTun2Socks
      <3>5. c \in Bridge BY <3>2 DEF Bridge, Engine
      <3>6. c.hev = NoFd BY <3>1 DEF Bridge
      <3>7. QED BY <3>4, <3>5, <3>6
    <2>4. QED BY <2>1, <2>2, <2>3
  <1>2. ASSUME NEW c \in Bridge, c.hev = NoFd
        PROVE  StopXray(c, x) \in Bridge /\ StopXray(c, x).hev = NoFd
    BY <1>2 DEF StopXray, Bridge
  <1>3. ASSUME NEW c \in Bridge, c.hev = NoFd
        PROVE  SingboxStop(c, s) \in Bridge /\ SingboxStop(c, s).hev = NoFd
    BY <1>3 DEF SingboxStop, Bridge
  <1>4. QED BY <1>1, <1>2, <1>3 DEF StopNative, HevTracked

LEMMA EmitType ==
  ASSUME NEW l \in Seq(Event), NEW i \in Fd,
         NEW k \in {"started", "failed", "cleanup"}
  PROVE  Emit(l, k, i) \in Seq(Event)
  BY DEF Emit, Event

LEMMA NewAbilityType == NewAbility \in Ability
  BY DEF NewAbility, Ability, Core

(* Wherever cleanup() is called from, with whatever the caller has already *)
(* changed, its synchronous part keeps the invariant.                      *)
LEMMA CleanupKeeps ==
  ASSUME TypeOK, NEW i \in Fd, NEW a \in Ability, NEW b \in Bridge, HevTracked(b),
         NEW l \in Seq(Event), Cleanup(i, a, b, l)
  PROVE  /\ ability' \in [Fd -> Ability]
         /\ bridge' \in Bridge /\ HevTracked(bridge')
         /\ log' \in Seq(Event)
  <1>1. CASE a.cleaningUp
    BY <1>1 DEF Cleanup, TypeOK
  <1>2. CASE ~a.cleaningUp
    <2>1. bridge' \in Bridge /\ HevTracked(bridge')
      BY <1>2, StopNativeKeeps DEF Cleanup
    <2>2. log' \in Seq(Event)
      BY <1>2, EmitType DEF Cleanup
    <2>3. /\ [a EXCEPT !.cleaningUp = TRUE, !.pollTimer = FALSE] \in Ability
          /\ [a EXCEPT !.pollTimer = FALSE, !.tunFd = FALSE] \in Ability
      BY DEF Ability
    <2>4. ability' \in [Fd -> Ability]
      BY <1>2, <2>3 DEF Cleanup, TypeOK
    <2>5. QED BY <2>1, <2>2, <2>4
  <1>3. QED BY <1>1, <1>2

LEMMA InitInv == ExtInit => ExtInv
  <1> SUFFICES ASSUME ExtInit PROVE ExtInv
    OBVIOUS
  <1>1. bridge \in Bridge /\ HevTracked(bridge)
    BY FreshBridgeType DEF ExtInit
  <1>2. ability \in [Fd -> Ability]
    BY NewAbilityType DEF ExtInit
  <1>3. log \in Seq(Event)
    BY DEF ExtInit
  <1>4. tuns \subseteq Fd /\ up \in BOOLEAN /\ stopFlag \in BOOLEAN
        /\ net \in Net /\ roamed \in BOOLEAN /\ misread \in BOOLEAN
    BY DEF ExtInit
  <1>5. QED BY <1>1, <1>2, <1>3, <1>4 DEF ExtInv, TypeOK

LEMMA SystemKeeps == ExtInv /\ System => ExtInv'
  <1> SUFFICES ASSUME ExtInv, NEW i \in Fd,
                      \/ \E core \in Core, config \in Config : OnCreateStart(i, core, config)
                      \/ OnCreateStop(i) \/ OnRequestStop(i)
                      \/ OnRequestIgnored(i) \/ OnDestroy(i)
               PROVE  ExtInv'
    BY DEF System
  <1> USE DEF ExtInv
  <1>1. ASSUME NEW core \in Core, NEW config \in Config, OnCreateStart(i, core, config)
        PROVE  ExtInv'
    <2>1. [NewAbility EXCEPT !.life = "live", !.core = core, !.config = config,
                             !.conn = TRUE, !.starting = "settings"] \in Ability
      BY NewAbilityType DEF Ability
    <2>2. QED BY <1>1, <2>1 DEF OnCreateStart, TypeOK
  <1>2. CASE OnCreateStop(i)
    <2>1. [NewAbility EXCEPT !.life = "live"] \in Ability
      BY NewAbilityType DEF Ability
    <2>2. QED BY <1>2, <2>1, CleanupKeeps DEF OnCreateStop, TypeOK
  <1>3. CASE OnRequestStop(i)
    BY <1>3, CleanupKeeps DEF OnRequestStop, TypeOK
  <1>4. CASE OnRequestIgnored(i)
    BY <1>4 DEF OnRequestIgnored, extVars, TypeOK
  <1>5. CASE OnDestroy(i)
    <2>1. [ability[i] EXCEPT !.life = "destroyed"] \in Ability
      BY DEF TypeOK, Ability
    <2>2. QED BY <1>5, <2>1, CleanupKeeps DEF OnDestroy, TypeOK
  <1>6. QED BY <1>1, <1>2, <1>3, <1>4, <1>5

LEMMA StartFailsKeeps ==
  ASSUME TypeOK, NEW i \in Fd, NEW a \in Ability, NEW b \in Bridge, HevTracked(b),
         StartFails(i, a, b)
  PROVE  /\ ability' \in [Fd -> Ability]
         /\ bridge' \in Bridge /\ HevTracked(bridge')
         /\ log' \in Seq(Event)
  <1>1. [a EXCEPT !.starting = "no"] \in Ability
    BY DEF Ability
  <1>2. Emit(log, "failed", i) \in Seq(Event)
    BY EmitType DEF TypeOK
  <1>3. QED BY <1>1, <1>2, CleanupKeeps DEF StartFails

LEMMA CreateResolvedKeeps ==
  ASSUME ExtInv, NEW i \in Fd, NEW hev \in BOOLEAN, NEW coreLib \in BOOLEAN,
         NEW tunLib \in BOOLEAN, CreateResolved(i, hev, coreLib, tunLib)
  PROVE  ExtInv'
  <1> DEFINE a == [ability[i] EXCEPT !.tunFd = TRUE]
             cored == StartCore(bridge, a, coreLib)
             tunned == StartDataPlane(cored, i, hev, tunLib)
  <1>1. a \in Ability /\ a.config \in Config \cup {NoConfig}
    <2>1. ability[i] \in Ability BY DEF ExtInv, TypeOK
    <2>2. QED BY <2>1 DEF Ability
  <1>2. cored \in Bridge /\ HevTracked(cored)
    BY <1>1, StartCallsKeep DEF StartCore, ExtInv, TypeOK
  <1>3. tunned \in Bridge /\ HevTracked(tunned)
    BY <1>2, StartCallsKeep DEF StartDataPlane
  <1>4. tuns' \subseteq Fd /\ UNCHANGED <<up, stopFlag, net, roamed, misread>>
    BY DEF CreateResolved, ExtInv, TypeOK
  <1>5. CASE StartFails(i, a, cored)
    BY <1>1, <1>2, <1>4, <1>5, StartFailsKeeps DEF ExtInv, TypeOK
  <1>6. CASE StartFails(i, a, tunned)
    BY <1>1, <1>3, <1>4, <1>6, StartFailsKeeps DEF ExtInv, TypeOK
  <1>7. CASE /\ bridge' = tunned
             /\ ability' = [ability EXCEPT ![i] =
                              [a EXCEPT !.starting = "no", !.pollTimer = TRUE,
                                        !.seeded = FALSE, !.signature = NoNet]]
             /\ log' = Emit(log, "started", i)
    <2>1. [a EXCEPT !.starting = "no", !.pollTimer = TRUE,
                    !.seeded = FALSE, !.signature = NoNet] \in Ability
      BY <1>1 DEF Ability
    <2>2. log' \in Seq(Event)
      BY <1>7, EmitType DEF ExtInv, TypeOK
    <2>3. QED BY <1>3, <1>4, <1>7, <2>1, <2>2 DEF ExtInv, TypeOK
  <1>8. QED BY <1>5, <1>6, <1>7 DEF CreateResolved

LEMMA ContinueKeeps == ASSUME ExtInv, NEW i \in Fd, Continue(i) PROVE ExtInv'
  <1>1. ASSUME NEW d \in BOOLEAN, CleanupFinish(i, d) PROVE ExtInv'
    <2>1. [ability[i] EXCEPT !.conn = FALSE, !.tunFd = FALSE,
                             !.cleaningUp = FALSE] \in Ability
      <3>1. ability[i] \in Ability BY DEF ExtInv, TypeOK
      <3>2. QED BY <3>1 DEF Ability
    <2>2. log' \in Seq(Event)
      BY <1>1, EmitType DEF CleanupFinish, ExtInv, TypeOK
    <2>3. QED BY <1>1, <2>1, <2>2 DEF CleanupFinish, ExtInv, TypeOK
  <1>2. CASE SettingsLoaded(i)
    <2>1. [ability EXCEPT ![i].starting = "create"] \in [Fd -> Ability]
      BY DEF ExtInv, TypeOK, Ability
    <2>2. QED BY <1>2, <2>1 DEF SettingsLoaded, ExtInv, TypeOK
  <1>3. CASE SettingsFailed(i)
    BY <1>3, StartFailsKeeps DEF SettingsFailed, ExtInv, TypeOK
  <1>4. CASE CreateRejected(i)
    BY <1>4, StartFailsKeeps DEF CreateRejected, ExtInv, TypeOK
  <1>5. QED BY <1>1, <1>2, <1>3, <1>4, CreateResolvedKeeps DEF Continue

LEMMA PollKeeps == ASSUME ExtInv, NEW i \in Fd, Poll(i) PROVE ExtInv'
  <1> USE DEF ExtInv
  <1>0. ability[i] \in Ability
    BY DEF TypeOK
  <1>1. CASE PollTick(i)
    <2>1. [ability EXCEPT ![i].poll = "settings"] \in [Fd -> Ability]
      BY DEF TypeOK, Ability
    <2>2. QED BY <1>1, <2>1 DEF PollTick, TypeOK
  <1>2. CASE PollGivesUp(i)
    <2>1. [ability EXCEPT ![i].poll = "no"] \in [Fd -> Ability]
      BY DEF TypeOK, Ability
    <2>2. QED BY <1>2, <2>1 DEF PollGivesUp, TypeOK
  <1>3. CASE PollReadsNet(i)
    <2>1. \A n \in {net, NoNet} : [ability[i] EXCEPT !.poll = "net", !.sig = n] \in Ability
      BY <1>0 DEF TypeOK, Ability
    <2>2. QED BY <1>3, <2>1 DEF PollReadsNet, TypeOK
  <1>4. CASE PollDecides(i)
    <2>1. ASSUME NEW p \in {"marked", "no"}
          PROVE  [ability[i] EXCEPT !.seeded = TRUE, !.signature = ability[i].sig,
                                    !.sig = NoNet, !.poll = p] \in Ability
      BY <1>0 DEF Ability
    <2>2. Emit(log, "auto", i) \in Seq(Event)
      BY DEF TypeOK, Emit, Event
    <2>3. QED BY <1>4, <2>1, <2>2 DEF PollDecides, TypeOK
  <1>5. CASE PollDisconnects(i)
    <2>1. [ability[i] EXCEPT !.poll = "no"] \in Ability
      BY <1>0 DEF Ability
    <2>2. QED BY <1>5, <2>1, CleanupKeeps DEF PollDisconnects, TypeOK
  <1>6. QED BY <1>1, <1>2, <1>3, <1>4, <1>5 DEF Poll

LEMMA ThreadsKeep ==
  ASSUME ExtInv, NativeThreads \/ NetChanges \/ ProcessExit PROVE ExtInv'
  <1> USE DEF ExtInv
  <1>1. CASE StopThreadSwaps
    <2>1. AdapterSwap(bridge) \in Bridge /\ HevTracked(AdapterSwap(bridge))
      <3>1. /\ bridge \in Bridge
            /\ bridge.stopping - 1 \in Nat
            /\ (IF bridge.adapter THEN bridge.swapped + 1 ELSE bridge.swapped) \in Nat
        BY <1>1 DEF StopThreadSwaps, TypeOK, Bridge
      <3>2. AdapterSwap(bridge) \in Bridge
        BY <3>1 DEF AdapterSwap, Bridge
      <3>3. HevTracked(AdapterSwap(bridge))
        BY <3>1 DEF AdapterSwap, HevTracked, Bridge
      <3>4. QED BY <3>2, <3>3
    <2>2. QED BY <1>1, <2>1 DEF StopThreadSwaps, TypeOK
  <1>2. CASE StopThreadStops
    <2>1. EngineStop(bridge) \in Bridge /\ HevTracked(EngineStop(bridge))
      <3>1. /\ bridge \in Bridge
            /\ bridge.swapped - 1 \in Nat
            /\ bridge.stacks \ {bridge.current} \subseteq Fd
        BY <1>2 DEF StopThreadStops, TypeOK, Bridge
      <3>2. EngineStop(bridge) \in Bridge
        BY <3>1 DEF EngineStop, Bridge
      <3>3. HevTracked(EngineStop(bridge))
        BY <3>1 DEF EngineStop, HevTracked, Bridge
      <3>4. QED BY <3>2, <3>3
    <2>2. QED BY <1>2, <2>1 DEF StopThreadStops, TypeOK
  <1>3. CASE HevLoopExits
    <2>1. HevExits(bridge) \in Bridge /\ HevTracked(HevExits(bridge))
      BY DEF HevExits, HevTracked, TypeOK, Bridge
    <2>2. QED BY <1>3, <2>1 DEF HevLoopExits, TypeOK
  <1>4. CASE NetChanges
    BY <1>4 DEF NetChanges, TypeOK
  <1>5. CASE ProcessExit
    <2>1. [NewAbility EXCEPT !.life = "dead"] \in Ability
      BY NewAbilityType DEF Ability
    <2>2. QED BY <1>5, <2>1, FreshBridgeType DEF ProcessExit, TypeOK
  <1>6. QED BY <1>1, <1>2, <1>3, <1>4, <1>5 DEF NativeThreads

(* The extension process keeps ExtInv in every step.                       *)
THEOREM ExtInvariant == ExtSpec => []ExtInv
  <1>1. ExtInv /\ [ExtNext]_extVars => ExtInv'
    <2> SUFFICES ASSUME ExtInv, [ExtNext]_extVars PROVE ExtInv'
      OBVIOUS
    <2>1. CASE UNCHANGED extVars
      BY <2>1 DEF extVars, ExtInv, TypeOK
    <2>2. QED BY <2>1, SystemKeeps, ContinueKeeps, PollKeeps, ThreadsKeep DEF ExtNext, ExtRuns
  <1>2. QED BY <1>1, InitInv, PTL DEF ExtSpec

(* Every field keeps its type.                                             *)
THEOREM ExtensionTypes == ExtSpec => []TypeOK
  <1>1. ExtInv => TypeOK BY DEF ExtInv
  <1>2. QED BY <1>1, ExtInvariant, PTL

(* The ArkTS thread never waits for a hev loop that nobody told to quit.   *)
THEOREM HevJoinSafe == ExtSpec => []HevJoinNeverBlocks
  <1>1. ExtInv => HevJoinNeverBlocks
    BY DEF ExtInv, HevTracked, HevJoinNeverBlocks, HevJoinBlocks
  <1>2. QED BY <1>1, ExtInvariant, PTL

-----------------------------------------------------------------------------
(***************************************************************************)
(* An extension that has its process for itself (~ReuseProcess).  Then     *)
(* every start finds a fresh bridge, and the data plane goes through its   *)
(* stages once.                                                            *)
(***************************************************************************)

(* gvisor runs, hev runs, the adapter is to be swapped, its engine is to   *)
(* stop, nothing runs.                                                     *)
PlaneStage(b) ==
  \/ /\ b.tunRunning /\ b.tunEngine = "gvisor" /\ b.adapter
     /\ b.hev = NoFd /\ b.stopping = 0 /\ b.swapped = 0
  \/ /\ b.tunRunning /\ b.tunEngine = "hev" /\ ~b.adapter
     /\ b.stacks = {} /\ b.stopping = 0 /\ b.swapped = 0
  \/ /\ ~b.tunRunning /\ b.adapter
     /\ b.hev = NoFd /\ b.stopping = 1 /\ b.swapped = 0
  \/ /\ ~b.tunRunning /\ ~b.adapter
     /\ b.hev = NoFd /\ b.stopping = 0 /\ b.swapped = 1
  \/ /\ ~b.tunRunning /\ ~b.adapter
     /\ b.hev = NoFd /\ b.stopping = 0 /\ b.swapped = 0 /\ b.stacks = {}

(* The engine points at the only stack there may be, and no data plane is  *)
(* up without a core.                                                      *)
PlaneInv(b) ==
  /\ PlaneStage(b)
  /\ b.stacks \subseteq {b.current}
  /\ b.tunRunning => b.xray # NoConfig \/ b.box # NoConfig

(* The process exists for one instance, and it is new for it.              *)
Alone ==
  /\ \A i, j \in Fd : Suspended(i) /\ Suspended(j) => i = j
  /\ up <=> \E i \in Fd : Suspended(i)
  /\ ~up => bridge = FreshBridge

(* What is left of an instance that has ended, and what a start may rely   *)
(* on: nobody has used the bridge, and no poll runs.                       *)
Placed(a) ==
  /\ a.life = "none" => a = NewAbility
  /\ a.life = "dead" => a = [NewAbility EXCEPT !.life = "dead"]
  /\ a.starting # "no" => /\ bridge = FreshBridge /\ a.config \in Config
                          /\ a.poll = "no" /\ ~a.pollTimer /\ ~a.seeded
  /\ a.cleaningUp /\ a.poll # "no" => ~a.pollTimer

AloneInv == Alone /\ PlaneInv(bridge) /\ \A i \in Fd : Placed(ability[i])

(* ---- the bridge ---- *)

LEMMA FreshPlane == PlaneInv(FreshBridge)
  BY DEF PlaneInv, PlaneStage, FreshBridge

(* A cleanup has nothing to do on a bridge nobody has used.                *)
LEMMA StopNativeFresh ==
  ASSUME NEW x \in BOOLEAN, NEW s \in BOOLEAN
  PROVE  StopNative(FreshBridge, x, s) = FreshBridge
  BY DEF StopNative, StopTun2Socks, StopXray, SingboxStop, FreshBridge

(* After cleanup() the bridge reports no data plane, and what it left to   *)
(* the detached thread is at the first stage of its stop.                  *)
LEMMA StopNativePlane ==
  ASSUME NEW b \in Bridge, PlaneInv(b), NEW x \in BOOLEAN, NEW s \in BOOLEAN
  PROVE  PlaneInv(StopNative(b, x, s)) /\ ~StopNative(b, x, s).tunRunning
  <1> DEFINE c == StopTun2Socks(b)
             Down(d) == PlaneInv(d) /\ ~d.tunRunning /\ d \in Bridge
  <1>1. Down(c)
    <2>1. CASE ~b.tunRunning
      BY <2>1 DEF StopTun2Socks
    <2>2. CASE b.tunRunning /\ b.tunEngine = "hev"
      BY <2>2 DEF StopTun2Socks, Bridge, Engine, PlaneInv, PlaneStage
    <2>3. CASE b.tunRunning /\ b.tunEngine # "hev"
      <3>1. b.stopping = 0 /\ b.adapter /\ b.swapped = 0 /\ b.hev = NoFd
        BY <2>3 DEF PlaneInv, PlaneStage
      <3>2. c = [b EXCEPT !.tunRunning = FALSE, !.tunEngine = "none", !.stopping = 1]
        BY <2>3, <3>1 DEF StopTun2Socks
      <3> HIDE DEF c
      <3>3. c \in Bridge
        BY <3>2 DEF Bridge, Engine
      <3>4. /\ ~c.tunRunning /\ c.adapter /\ c.hev = NoFd /\ c.stopping = 1 /\ c.swapped = 0
            /\ c.stacks = b.stacks /\ c.current = b.current
        BY <3>1, <3>2 DEF Bridge
      <3>5. QED BY <3>3, <3>4 DEF PlaneInv, PlaneStage
    <2>4. QED BY <2>1, <2>2, <2>3
  <1> HIDE DEF c
  <1>2. ASSUME NEW d, Down(d) PROVE Down(StopXray(d, x))
    BY <1>2 DEF StopXray, Bridge, PlaneInv, PlaneStage
  <1>3. ASSUME NEW d, Down(d) PROVE Down(SingboxStop(d, s))
    BY <1>3 DEF SingboxStop, Bridge, PlaneInv, PlaneStage
  <1>4. QED BY <1>1, <1>2, <1>3 DEF StopNative, c

(* The core of a start on a fresh bridge.                                  *)
LEMMA FreshCore ==
  ASSUME NEW a \in Ability, a.config \in Config, NEW lib \in BOOLEAN
  PROVE  LET b == StartCore(FreshBridge, a, lib)
         IN  /\ b \in Bridge /\ PlaneInv(b) /\ ~b.tunRunning
             /\ ~b.adapter /\ b.stacks = {} /\ b.stopping = 0 /\ b.swapped = 0 /\ b.hev = NoFd
             /\ StartCoreOk(FreshBridge, a, lib)
                  => (IF b.box # NoConfig THEN b.box ELSE b.xray) = a.config
             /\ ~StartCoreOk(FreshBridge, a, lib) => b = FreshBridge
  BY NoneAssumption
  DEF StartCore, StartCoreOk, StartXray, StartXrayOk, SingboxStart, SingboxStartOk, BoxStart,
      FreshBridge, Bridge, Engine, PlaneInv, PlaneStage

(* The data plane over that core.                                          *)
LEMMA FreshDataPlane ==
  ASSUME NEW a \in Ability, a.config \in Config, NEW coreLib \in BOOLEAN,
         NEW i \in Fd, NEW hev \in BOOLEAN, NEW tunLib \in BOOLEAN,
         StartCoreOk(FreshBridge, a, coreLib)
  PROVE  LET b == StartCore(FreshBridge, a, coreLib)
             c == StartDataPlane(b, i, hev, tunLib)
         IN  /\ c \in Bridge /\ PlaneInv(c)
             /\ StartTunOk(b, tunLib)
                  => c.tunRunning /\ (IF c.box # NoConfig THEN c.box ELSE c.xray) = a.config
             /\ ~StartTunOk(b, tunLib) => c = b
  <1> DEFINE b == StartCore(FreshBridge, a, coreLib)
             c == StartDataPlane(b, i, hev, tunLib)
  <1>0. SUFFICES /\ c \in Bridge /\ PlaneInv(c)
                 /\ StartTunOk(b, tunLib)
                      => c.tunRunning /\ (IF c.box # NoConfig THEN c.box ELSE c.xray) = a.config
                 /\ ~StartTunOk(b, tunLib) => c = b
    OBVIOUS
  <1>1. /\ b \in Bridge /\ PlaneInv(b) /\ ~b.tunRunning
        /\ ~b.adapter /\ b.stacks = {} /\ b.stopping = 0 /\ b.swapped = 0 /\ b.hev = NoFd
        /\ (IF b.box # NoConfig THEN b.box ELSE b.xray) = a.config
    BY FreshCore
  <1>2. b.box # NoConfig \/ b.xray # NoConfig
    BY <1>1, NoneAssumption
  <1> HIDE DEF b
  <1>3. CASE ~tunLib
    BY <1>1, <1>3 DEF StartDataPlane, StartHevTun, StartTun2Socks, StartTunOk
  <1>4. CASE tunLib /\ hev
    BY <1>1, <1>2, <1>4
    DEF StartDataPlane, StartHevTun, StartTunOk, Bridge, Engine, PlaneInv, PlaneStage
  <1>5. CASE tunLib /\ ~hev
    BY <1>1, <1>2, <1>5
    DEF StartDataPlane, StartTun2Socks, AdapterStart, StartTunOk, Bridge, Engine, PlaneInv, PlaneStage
  <1>6. QED BY <1>3, <1>4, <1>5

(* ---- the steps ---- *)

(* What the synchronous part of cleanup() does to the instance: it may set *)
(* cleaningUp, clear tunFd and stop the poll, and nothing else.            *)
Cleared(a, c) ==
  /\ c.life = a.life /\ c.config = a.config /\ c.starting = a.starting
  /\ c.poll = a.poll /\ c.sig = a.sig /\ c.seeded = a.seeded /\ c.signature = a.signature
  /\ a.cleaningUp => c = a
  /\ ~a.cleaningUp => ~c.pollTimer /\ c.cleaningUp = a.conn

LEMMA CleanupEffect ==
  ASSUME NEW i \in Fd, NEW a \in Ability, NEW b, NEW l, Cleanup(i, a, b, l)
  PROVE  /\ \E c \in Ability : ability' = [ability EXCEPT ![i] = c] /\ Cleared(a, c)
         /\ \/ a.cleaningUp /\ bridge' = b /\ log' = l
            \/ /\ ~a.cleaningUp
               /\ \E x, s \in BOOLEAN : bridge' = StopNative(b, x, s)
               /\ log' = IF a.conn THEN l ELSE Emit(l, "cleanup", i)
  <1>1. CASE a.cleaningUp
    BY <1>1 DEF Cleanup, Cleared
  <1>2. CASE ~a.cleaningUp /\ a.conn
    <2> DEFINE c == [a EXCEPT !.cleaningUp = TRUE, !.pollTimer = FALSE]
    <2>1. c \in Ability /\ Cleared(a, c) BY <1>2 DEF Ability, Cleared
    <2>2. QED BY <1>2, <2>1 DEF Cleanup
  <1>3. CASE ~a.cleaningUp /\ ~a.conn
    <2> DEFINE c == [a EXCEPT !.pollTimer = FALSE, !.tunFd = FALSE]
    <2>1. c \in Ability /\ Cleared(a, c) BY <1>3 DEF Ability, Cleared
    <2>2. QED BY <1>3, <2>1 DEF Cleanup
  <1>4. QED BY <1>1, <1>2, <1>3

(* A step of an instance that exists: its fields and the bridge change.    *)
LEMMA InstanceStep ==
  ASSUME AloneInv, TypeOK, NEW i \in Fd, NEW c \in Ability, up' = up,
         Suspended(i), ability' = [ability EXCEPT ![i] = c],
         c.life \in {"live", "destroyed"},
         c.starting # "no" => /\ bridge' = FreshBridge /\ c.config \in Config
                              /\ c.poll = "no" /\ ~c.pollTimer /\ ~c.seeded,
         c.cleaningUp /\ c.poll # "no" => ~c.pollTimer,
         PlaneInv(bridge')
  PROVE  AloneInv'
  <1>1. up /\ \A j \in Fd : Suspended(j) <=> j = i
    BY DEF AloneInv, Alone
  <1>2. \A j \in Fd : j # i => ability'[j] = ability[j]
    BY DEF TypeOK
  <1>3. ability'[i] = c
    BY DEF TypeOK
  <1>4. \A j \in Fd : Suspended(j)' <=> j = i
    BY <1>1, <1>2, <1>3 DEF Suspended
  <1>5. Alone'
    BY <1>1, <1>4 DEF Alone
  <1>6. \A j \in Fd : Placed(ability[j])'
    <2> TAKE j \in Fd
    <2>1. CASE j = i
      BY <1>3, <2>1 DEF Placed
    <2>2. CASE j # i
      <3>1. ability[j].life \in {"none", "dead"} /\ Placed(ability[j]) /\ ability[j] \in Ability
        BY <1>1, <2>2 DEF Suspended, AloneInv, TypeOK, Ability
      <3>2. ability[j].starting = "no" /\ ~ability[j].cleaningUp
        BY <3>1 DEF Placed, NewAbility
      <3>3. QED BY <1>2, <2>2, <3>1, <3>2 DEF Placed
    <2>3. QED BY <2>1, <2>2
  <1>7. QED BY <1>5, <1>6 DEF AloneInv

(* cleanup() called by an instance that exists.                            *)
LEMMA CleanupAlone ==
  ASSUME AloneInv, TypeOK, NEW i \in Fd, Suspended(i), up' = up,
         NEW a \in Ability, a.life \in {"live", "destroyed"},
         NEW b \in Bridge, PlaneInv(b), NEW l, Cleanup(i, a, b, l),
         a.starting # "no" => /\ b = FreshBridge /\ a.config \in Config
                              /\ a.poll = "no" /\ ~a.pollTimer /\ ~a.seeded,
         a.cleaningUp /\ a.poll # "no" => ~a.pollTimer
  PROVE  AloneInv'
  <1>1. PICK c \in Ability : ability' = [ability EXCEPT ![i] = c] /\ Cleared(a, c)
    BY CleanupEffect
  <1>2. bridge' = b \/ \E x, s \in BOOLEAN : bridge' = StopNative(b, x, s)
    BY CleanupEffect
  <1>3. PlaneInv(bridge')
    BY <1>2, StopNativePlane
  <1>4. b = FreshBridge => bridge' = FreshBridge
    BY <1>2, StopNativeFresh
  <1>5. /\ c.life \in {"live", "destroyed"}
        /\ c.starting # "no" => /\ bridge' = FreshBridge /\ c.config \in Config
                                /\ c.poll = "no" /\ ~c.pollTimer /\ ~c.seeded
        /\ c.cleaningUp /\ c.poll # "no" => ~c.pollTimer
    BY <1>1, <1>4 DEF Cleared
  <1>6. QED BY <1>1, <1>3, <1>5, InstanceStep

(* onCreate finds a fresh bridge, because its process is new.              *)
LEMMA CreateAlone ==
  ASSUME AloneInv, TypeOK, ~up, up', NEW i \in Fd, NEW c \in Ability,
         ability' = [ability EXCEPT ![i] = c], bridge' = bridge, c.life = "live",
         c.starting # "no" => c.config \in Config /\ c.poll = "no" /\ ~c.pollTimer /\ ~c.seeded,
         c.cleaningUp /\ c.poll # "no" => ~c.pollTimer
  PROVE  AloneInv'
  <1>1. bridge = FreshBridge /\ \A j \in Fd : ~Suspended(j)
    BY DEF AloneInv, Alone
  <1>2. /\ ability'[i] = c
        /\ \A j \in Fd : j # i => ability'[j] = ability[j]
    BY DEF TypeOK
  <1>3. \A j \in Fd : Suspended(j)' <=> j = i
    BY <1>1, <1>2 DEF Suspended
  <1>4. \A j \in Fd : Placed(ability[j])'
    BY <1>1, <1>2 DEF AloneInv, Placed
  <1>5. QED BY <1>1, <1>3, <1>4 DEF AloneInv, Alone

(* What the invariant says of an instance that exists.                     *)
LEMMA SuspendedPlaced ==
  ASSUME AloneInv, TypeOK, NEW i \in Fd, Suspended(i)
  PROVE  /\ ability[i] \in Ability /\ ability[i].life \in {"live", "destroyed"}
         /\ ability[i].starting # "no" =>
              /\ bridge = FreshBridge /\ ability[i].config \in Config
              /\ ability[i].poll = "no" /\ ~ability[i].pollTimer /\ ~ability[i].seeded
         /\ ability[i].cleaningUp /\ ability[i].poll # "no" => ~ability[i].pollTimer
         /\ bridge \in Bridge /\ PlaneInv(bridge)
  BY DEF AloneInv, Placed, TypeOK, Suspended

LEMMA SystemAlone == ASSUME ~ReuseProcess, AloneInv, TypeOK, System PROVE AloneInv'
  <1> SUFFICES ASSUME NEW i \in Fd,
                      \/ \E core \in Core, config \in Config : OnCreateStart(i, core, config)
                      \/ OnCreateStop(i) \/ OnRequestStop(i)
                      \/ OnRequestIgnored(i) \/ OnDestroy(i)
               PROVE  AloneInv'
    BY DEF System
  <1>1. ASSUME NEW core \in Core, NEW config \in Config, OnCreateStart(i, core, config)
        PROVE  AloneInv'
    <2> DEFINE c == [NewAbility EXCEPT !.life = "live", !.core = core, !.config = config,
                                       !.conn = TRUE, !.starting = "settings"]
    <2>1. /\ c \in Ability /\ c.life = "live" /\ c.config = config
          /\ c.poll = "no" /\ ~c.pollTimer /\ ~c.seeded
      BY NewAbilityType DEF NewAbility, Ability
    <2>2. ~up /\ up' /\ bridge' = bridge /\ ability' = [ability EXCEPT ![i] = c]
      BY <1>1 DEF OnCreateStart
    <2> HIDE DEF c
    <2>3. QED BY <2>1, <2>2, CreateAlone
  <1>2. CASE OnCreateStop(i)
    <2> DEFINE a == [NewAbility EXCEPT !.life = "live"]
    <2>1. /\ a \in Ability /\ a.life = "live" /\ a.poll = "no"
          /\ a.starting = "no" /\ ~a.cleaningUp
      BY NewAbilityType DEF NewAbility, Ability
    <2>2. ~up /\ up' /\ Cleanup(i, a, bridge, log)
      BY <1>2 DEF OnCreateStop
    <2> HIDE DEF a
    <2>3. PICK c \in Ability : ability' = [ability EXCEPT ![i] = c] /\ Cleared(a, c)
      BY <2>1, <2>2, CleanupEffect
    <2>4. bridge' = bridge
      <3>1. \E x, s \in BOOLEAN : bridge' = StopNative(bridge, x, s)
        BY <2>1, <2>2, CleanupEffect
      <3>2. bridge = FreshBridge
        BY <2>2 DEF AloneInv, Alone
      <3>3. QED BY <3>1, <3>2, StopNativeFresh
    <2>5. QED BY <2>1, <2>2, <2>3, <2>4, CreateAlone DEF Cleared
  <1>3. CASE OnRequestStop(i)
    <2>1. Suspended(i) BY <1>3 DEF OnRequestStop, Suspended
    <2>2. QED BY <1>3, <2>1, SuspendedPlaced, CleanupAlone DEF OnRequestStop
  <1>4. CASE OnRequestIgnored(i)
    BY <1>4 DEF OnRequestIgnored, extVars, AloneInv, Alone, Placed, Suspended
  <1>5. CASE OnDestroy(i)
    <2> DEFINE a == [ability[i] EXCEPT !.life = "destroyed"]
    <2>1. Suspended(i) /\ up' = up
      BY <1>5 DEF OnDestroy, Suspended
    <2>2. /\ a \in Ability /\ a.life = "destroyed" /\ a.starting = ability[i].starting
          /\ a.config = ability[i].config /\ a.poll = ability[i].poll
          /\ a.pollTimer = ability[i].pollTimer /\ a.seeded = ability[i].seeded
          /\ a.cleaningUp = ability[i].cleaningUp
      BY DEF TypeOK, Ability
    <2>3. Cleanup(i, a, bridge, log) \/ (ability' = [ability EXCEPT ![i] = a] /\ bridge' = bridge)
      BY <1>5 DEF OnDestroy
    <2> HIDE DEF a
    <2>4. CASE Cleanup(i, a, bridge, log)
      BY <2>1, <2>2, <2>4, SuspendedPlaced, CleanupAlone
    <2>5. CASE ability' = [ability EXCEPT ![i] = a] /\ bridge' = bridge
      BY <2>1, <2>2, <2>5, SuspendedPlaced, InstanceStep
    <2>6. QED BY <2>3, <2>4, <2>5
  <1>6. QED BY <1>1, <1>2, <1>3, <1>4, <1>5

(* A start that fails calls cleanup() with the bridge as it has made it.   *)
LEMMA StartFailsAlone ==
  ASSUME AloneInv, TypeOK, NEW i \in Fd, Suspended(i), up' = up,
         ability[i].starting # "no",
         NEW a \in Ability, a.life = ability[i].life, a.poll = ability[i].poll,
         NEW b \in Bridge, PlaneInv(b), StartFails(i, a, b)
  PROVE  AloneInv'
  <1> DEFINE c == [a EXCEPT !.starting = "no"]
  <1>1. c \in Ability /\ c.life = a.life /\ c.poll = a.poll /\ c.starting = "no"
    BY DEF Ability
  <1>2. Cleanup(i, c, b, Emit(log, "failed", i))
    BY DEF StartFails
  <1> HIDE DEF c
  <1>3. QED BY <1>1, <1>2, SuspendedPlaced, CleanupAlone

LEMMA CreateResolvedAlone ==
  ASSUME AloneInv, TypeOK, NEW i \in Fd, NEW hev \in BOOLEAN, NEW coreLib \in BOOLEAN,
         NEW tunLib \in BOOLEAN, CreateResolved(i, hev, coreLib, tunLib)
  PROVE  AloneInv'
  <1> DEFINE a == [ability[i] EXCEPT !.tunFd = TRUE]
             cored == StartCore(bridge, a, coreLib)
             tunned == StartDataPlane(cored, i, hev, tunLib)
             c == [a EXCEPT !.starting = "no", !.pollTimer = TRUE,
                            !.seeded = FALSE, !.signature = NoNet]
  <1>1. /\ Suspended(i) /\ up' = up /\ a.starting = "create"
        /\ \/ ~StartCoreOk(bridge, a, coreLib) /\ StartFails(i, a, cored)
           \/ StartCoreOk(bridge, a, coreLib) /\ StartFails(i, a, tunned)
           \/ /\ StartCoreOk(bridge, a, coreLib) /\ bridge' = tunned
              /\ ability' = [ability EXCEPT ![i] = c]
    BY DEF CreateResolved
  <1>2. /\ a \in Ability /\ a.life = ability[i].life /\ a.poll = ability[i].poll
        /\ a.starting = ability[i].starting /\ a.config = ability[i].config
    BY DEF TypeOK, Ability
  <1> HIDE DEF a
  <1>3. bridge = FreshBridge /\ a.config \in Config /\ a.poll = "no"
        /\ a.life \in {"live", "destroyed"}
    BY <1>1, <1>2, SuspendedPlaced
  <1>4. cored \in Bridge /\ PlaneInv(cored)
    BY <1>2, <1>3, FreshCore
  <1>5. StartCoreOk(bridge, a, coreLib) => tunned \in Bridge /\ PlaneInv(tunned)
    BY <1>2, <1>3, FreshDataPlane
  <1>6. c \in Ability /\ c.life = a.life /\ c.poll = a.poll /\ c.starting = "no"
    BY <1>2 DEF Ability
  <1> HIDE DEF cored, tunned, c
  <1>7. QED BY <1>1, <1>2, <1>3, <1>4, <1>5, <1>6, StartFailsAlone, InstanceStep

LEMMA ContinueAlone == ASSUME AloneInv, TypeOK, NEW i \in Fd, Continue(i) PROVE AloneInv'
  <1>1. ASSUME NEW d \in BOOLEAN, CleanupFinish(i, d) PROVE AloneInv'
    <2> DEFINE c == [ability[i] EXCEPT !.conn = FALSE, !.tunFd = FALSE, !.cleaningUp = FALSE]
    <2>1. Suspended(i) /\ up' = up /\ bridge' = bridge /\ ability' = [ability EXCEPT ![i] = c]
      BY <1>1 DEF CleanupFinish
    <2>2. /\ c \in Ability /\ c.life = ability[i].life /\ c.starting = ability[i].starting
          /\ c.config = ability[i].config /\ c.poll = ability[i].poll
          /\ c.pollTimer = ability[i].pollTimer /\ c.seeded = ability[i].seeded
          /\ ~c.cleaningUp
      <3>1. ability[i] \in Ability BY DEF TypeOK
      <3>2. QED BY <3>1 DEF Ability
    <2> HIDE DEF c
    <2>3. QED BY <2>1, <2>2, SuspendedPlaced, InstanceStep
  <1>2. CASE SettingsLoaded(i)
    <2> DEFINE c == [ability[i] EXCEPT !.starting = "create"]
    <2>1. /\ Suspended(i) /\ up' = up /\ bridge' = bridge /\ ability[i].starting = "settings"
          /\ ability' = [ability EXCEPT ![i] = c]
      BY <1>2 DEF SettingsLoaded
    <2>2. /\ c \in Ability /\ c.life = ability[i].life
          /\ c.config = ability[i].config /\ c.poll = ability[i].poll
          /\ c.pollTimer = ability[i].pollTimer /\ c.seeded = ability[i].seeded
      BY DEF TypeOK, Ability
    <2> HIDE DEF c
    <2>3. QED BY <2>1, <2>2, SuspendedPlaced, InstanceStep
  <1>3. CASE SettingsFailed(i)
    BY <1>3, SuspendedPlaced, StartFailsAlone DEF SettingsFailed
  <1>4. CASE CreateRejected(i)
    BY <1>4, SuspendedPlaced, StartFailsAlone DEF CreateRejected
  <1>5. QED BY <1>1, <1>2, <1>3, <1>4, CreateResolvedAlone DEF Continue

(* A poll moves on while nothing else of its instance changes.             *)
LEMMA PollAlone == ASSUME AloneInv, TypeOK, NEW i \in Fd, Poll(i) PROVE AloneInv'
  <1>0. Suspended(i) /\ up' = up
    BY DEF Poll, PollTick, PollGivesUp, PollReadsNet, PollDecides, PollDisconnects
  <1>1. ASSUME NEW c \in Ability, ability' = [ability EXCEPT ![i] = c], bridge' = bridge,
               c.life = ability[i].life, c.starting = ability[i].starting,
               ability[i].starting = "no",
               c.pollTimer = ability[i].pollTimer, c.cleaningUp = ability[i].cleaningUp,
               ability[i].poll # "no" \/ ~c.cleaningUp
        PROVE  AloneInv'
    BY <1>0, <1>1, SuspendedPlaced, InstanceStep
  <1>2. ability[i] \in Ability
    BY DEF TypeOK
  <1>3. CASE PollTick(i)
    <2> DEFINE c == [ability[i] EXCEPT !.poll = "settings"]
    <2>1. /\ c \in Ability /\ c.life = ability[i].life /\ c.starting = ability[i].starting
          /\ c.pollTimer = ability[i].pollTimer /\ c.cleaningUp = ability[i].cleaningUp
      BY <1>2 DEF Ability
    <2>2. /\ ability' = [ability EXCEPT ![i] = c] /\ bridge' = bridge
          /\ ability[i].pollTimer /\ ~ability[i].cleaningUp
      BY <1>3 DEF PollTick
    <2> HIDE DEF c
    <2>3. QED BY <1>0, <1>1, <2>1, <2>2, SuspendedPlaced
  <1>4. CASE PollGivesUp(i)
    <2> DEFINE c == [ability[i] EXCEPT !.poll = "no"]
    <2>1. /\ c \in Ability /\ c.life = ability[i].life /\ c.starting = ability[i].starting
          /\ c.pollTimer = ability[i].pollTimer /\ c.cleaningUp = ability[i].cleaningUp
      BY <1>2 DEF Ability
    <2>2. ability' = [ability EXCEPT ![i] = c] /\ bridge' = bridge /\ ability[i].poll = "settings"
      BY <1>4 DEF PollGivesUp
    <2> HIDE DEF c
    <2>3. QED BY <1>0, <1>1, <2>1, <2>2, SuspendedPlaced
  <1>5. CASE PollReadsNet(i)
    <2>0. PICK n \in {net, NoNet} : ability' = [ability EXCEPT ![i] =
                                             [ability[i] EXCEPT !.poll = "net", !.sig = n]]
      BY <1>5 DEF PollReadsNet
    <2> DEFINE c == [ability[i] EXCEPT !.poll = "net", !.sig = n]
    <2>1. /\ c \in Ability /\ c.life = ability[i].life /\ c.starting = ability[i].starting
          /\ c.pollTimer = ability[i].pollTimer /\ c.cleaningUp = ability[i].cleaningUp
      BY <1>2 DEF Ability, TypeOK
    <2>2. ability' = [ability EXCEPT ![i] = c] /\ bridge' = bridge /\ ability[i].poll = "settings"
      BY <1>5, <2>0 DEF PollReadsNet
    <2> HIDE DEF c
    <2>3. QED BY <1>0, <1>1, <2>1, <2>2, SuspendedPlaced
  <1>6. CASE PollDecides(i)
    <2>1. PICK p \in {"marked", "no"} :
            ability' = [ability EXCEPT ![i] =
                          [ability[i] EXCEPT !.seeded = TRUE, !.signature = ability[i].sig,
                                             !.sig = NoNet, !.poll = p]]
      BY <1>6 DEF PollDecides
    <2> DEFINE c == [ability[i] EXCEPT !.seeded = TRUE, !.signature = ability[i].sig,
                                       !.sig = NoNet, !.poll = p]
    <2>2. /\ c \in Ability /\ c.life = ability[i].life /\ c.starting = ability[i].starting
          /\ c.pollTimer = ability[i].pollTimer /\ c.cleaningUp = ability[i].cleaningUp
      BY <1>2 DEF Ability
    <2>3. ability' = [ability EXCEPT ![i] = c] /\ bridge' = bridge /\ ability[i].poll = "net"
      BY <1>6, <2>1 DEF PollDecides
    <2> HIDE DEF c
    <2>4. QED BY <1>0, <1>1, <2>2, <2>3, SuspendedPlaced
  <1>7. CASE PollDisconnects(i)
    <2> DEFINE c == [ability[i] EXCEPT !.poll = "no"]
    <2>1. /\ c \in Ability /\ c.life = ability[i].life /\ c.starting = ability[i].starting
          /\ c.poll = "no"
      BY <1>2 DEF Ability
    <2>2. Cleanup(i, c, bridge, log) /\ ability[i].poll = "marked"
      BY <1>7 DEF PollDisconnects
    <2> HIDE DEF c
    <2>3. QED BY <1>0, <2>1, <2>2, SuspendedPlaced, CleanupAlone
  <1>8. QED BY <1>3, <1>4, <1>5, <1>6, <1>7 DEF Poll

(* A step of the native threads is possible only once the bridge was used, *)
(* and moves the data plane to its next stage.                             *)
LEMMA ThreadsAlone == ASSUME AloneInv, TypeOK, NativeThreads PROVE AloneInv'
  <1>1. /\ bridge' \in {AdapterSwap(bridge), EngineStop(bridge), HevExits(bridge)}
        /\ ability' = ability /\ up' = up
        /\ bridge.stopping > 0 \/ bridge.swapped > 0 \/ bridge.hev # NoFd
    BY DEF NativeThreads, StopThreadSwaps, StopThreadStops, HevLoopExits
  <1>2. bridge # FreshBridge
    BY <1>1 DEF FreshBridge
  <1>3. PlaneInv(bridge')
    <2>1. bridge \in Bridge /\ PlaneInv(bridge)
      BY DEF AloneInv, TypeOK
    <2>2. CASE StopThreadSwaps
      <3>1. /\ ~bridge.tunRunning /\ bridge.adapter /\ bridge.hev = NoFd
            /\ bridge.stopping = 1 /\ bridge.swapped = 0
        BY <2>1, <2>2 DEF StopThreadSwaps, PlaneInv, PlaneStage
      <3>2. /\ bridge'.stopping = 0 /\ ~bridge'.adapter /\ bridge'.swapped = 1
            /\ ~bridge'.tunRunning /\ bridge'.hev = NoFd
            /\ bridge'.stacks = bridge.stacks /\ bridge'.current = bridge.current
        BY <2>1, <2>2, <3>1 DEF StopThreadSwaps, AdapterSwap, Bridge
      <3>3. QED BY <2>1, <3>2 DEF PlaneInv, PlaneStage
    <2>3. CASE StopThreadStops
      <3>1. /\ ~bridge.tunRunning /\ ~bridge.adapter /\ bridge.hev = NoFd
            /\ bridge.stopping = 0 /\ bridge.swapped = 1 /\ bridge.stacks \subseteq {bridge.current}
        BY <2>1, <2>3 DEF StopThreadStops, PlaneInv, PlaneStage
      <3>2. /\ bridge'.stopping = 0 /\ ~bridge'.adapter /\ bridge'.swapped = 0
            /\ ~bridge'.tunRunning /\ bridge'.hev = NoFd
            /\ bridge'.stacks = {}
        BY <2>1, <2>3, <3>1 DEF StopThreadStops, EngineStop, Bridge
      <3>3. QED BY <3>2 DEF PlaneInv, PlaneStage
    <2>4. CASE HevLoopExits
      <3>1. /\ bridge.tunRunning /\ bridge.tunEngine = "hev" /\ ~bridge.adapter
            /\ bridge.stacks = {} /\ bridge.stopping = 0 /\ bridge.swapped = 0
        BY <2>1, <2>4 DEF HevLoopExits, PlaneInv, PlaneStage
      <3>2. bridge' = [bridge EXCEPT !.hev = NoFd]
        BY <2>4 DEF HevLoopExits, HevExits
      <3>3. QED BY <2>1, <3>1, <3>2 DEF PlaneInv, PlaneStage, Bridge
    <2>5. QED BY <2>2, <2>3, <2>4 DEF NativeThreads
  <1>4. Alone'
    BY <1>1, <1>2 DEF AloneInv, Alone, Suspended
  <1>5. \A i \in Fd : Placed(ability[i])'
    <2> TAKE i \in Fd
    <2>1. Placed(ability[i]) /\ ability[i].starting = "no"
      BY <1>2 DEF AloneInv, Placed
    <2>2. QED BY <1>1, <2>1 DEF Placed
  <1>6. QED BY <1>3, <1>4, <1>5 DEF AloneInv

LEMMA ExitAlone == ASSUME AloneInv, TypeOK, ProcessExit PROVE AloneInv'
  <1>1. ~up' /\ bridge' = FreshBridge
    BY DEF ProcessExit
  <1> DEFINE dead == [NewAbility EXCEPT !.life = "dead"]
  <1>2. dead.life = "dead" /\ dead.starting = "no" /\ ~dead.cleaningUp
    BY DEF NewAbility
  <1>3. \A i \in Fd : \/ ability'[i] = NewAbility /\ ability[i].life = "none"
                      \/ ability'[i] = dead
    BY DEF ProcessExit, AloneInv, Placed
  <1>4. \A i \in Fd : ~Suspended(i)' /\ Placed(ability[i])'
    <2> TAKE i \in Fd
    <2>1. CASE ability'[i] = NewAbility
      BY <2>1 DEF Suspended, Placed, NewAbility
    <2>2. CASE ability'[i] = dead
      <3> HIDE DEF dead
      <3>1. ~Suspended(i)' BY <1>2, <2>2 DEF Suspended
      <3>2. ability'[i].life = "dead" /\ ability'[i].starting = "no" /\ ~ability'[i].cleaningUp
        BY <1>2, <2>2
      <3>3. QED BY <2>2, <3>1, <3>2 DEF Placed, dead
    <2>3. QED BY <1>3, <2>1, <2>2
  <1>5. QED BY <1>1, <1>4, FreshPlane DEF AloneInv, Alone

LEMMA InitAlone == ExtInit => AloneInv
  <1> SUFFICES ASSUME ExtInit PROVE AloneInv OBVIOUS
  <1>1. \A i \in Fd : ability[i] = NewAbility
    BY DEF ExtInit
  <1>2. /\ NewAbility.life = "none" /\ NewAbility.starting = "no" /\ ~NewAbility.cleaningUp
        /\ NewAbility.poll = "no"
    BY DEF NewAbility
  <1>3. \A i \in Fd : ~Suspended(i) /\ Placed(ability[i])
    BY <1>1, <1>2 DEF Suspended, Placed
  <1>4. QED BY <1>3, FreshPlane DEF ExtInit, AloneInv, Alone

LEMMA NextAlone ==
  ASSUME ~ReuseProcess, TypeOK, AloneInv, [ExtNext]_extVars PROVE AloneInv'
  <1>1. CASE UNCHANGED extVars
    BY <1>1 DEF extVars, AloneInv, Alone, Placed, Suspended
  <1>2. CASE NetChanges
    BY <1>2 DEF NetChanges, AloneInv, Alone, Placed, Suspended
  <1>3. QED
    BY <1>1, <1>2, SystemAlone, ContinueAlone, PollAlone, ThreadsAlone, ExitAlone
    DEF ExtNext, ExtRuns

(* An extension with its process for itself keeps AloneInv.                *)
THEOREM AloneInvariant == ASSUME ~ReuseProcess PROVE ExtSpec => []AloneInv
  <1>1. TypeOK /\ AloneInv /\ [ExtNext]_extVars => AloneInv'
    BY NextAlone
  <1>2. QED BY <1>1, InitAlone, ExtensionTypes, PTL DEF ExtSpec

(* The data plane flag is never up over a core that has gone.              *)
THEOREM CoreUnderDataPlane == ASSUME ~ReuseProcess PROVE ExtSpec => []CoreUnderTun
  <1>1. AloneInv => CoreUnderTun
    BY DEF AloneInv, PlaneInv, CoreUnderTun
  <1>2. QED BY <1>1, AloneInvariant, PTL

(* Every engine that runs can still be stopped, by a call of the bridge or *)
(* by a thread that is already on its way.                                 *)
THEOREM RunningEnginesReachable == ASSUME ~ReuseProcess PROVE ExtSpec => []EnginesReachable
  <1>1. AloneInv => EnginesReachable
    BY DEF AloneInv, PlaneInv, PlaneStage, EnginesReachable, LiveEngines
  <1>2. QED BY <1>1, AloneInvariant, PTL

-----------------------------------------------------------------------------
(* The automatic disconnect.                                               *)

(* As long as the user has not moved and no reading has failed, what a     *)
(* poll has read and what it has kept is the network the user is on.       *)
NetSeen ==
  ~roamed /\ ~misread =>
    \A i \in Fd : /\ ability[i].seeded => ability[i].signature = net
                  /\ ability[i].poll = "net" => ability[i].sig = net

(* A step of one instance that takes over the signature it had, or reads   *)
(* the network, or forgets what it had.                                    *)
LEMMA NetSeenStep ==
  ASSUME NetSeen, TypeOK, NEW i \in Fd, NEW c, ability' = [ability EXCEPT ![i] = c],
         roamed' = roamed, misread' = misread, net' = net,
         c.seeded => \/ ability[i].seeded /\ c.signature = ability[i].signature
                     \/ ability[i].poll = "net" /\ c.signature = ability[i].sig,
         c.poll = "net" => c.sig = net \/ (ability[i].poll = "net" /\ c.sig = ability[i].sig)
  PROVE  NetSeen'
  <1> SUFFICES ASSUME ~roamed, ~misread, NEW j \in Fd
               PROVE  /\ ability'[j].seeded => ability'[j].signature = net
                      /\ ability'[j].poll = "net" => ability'[j].sig = net
    BY DEF NetSeen
  <1>1. /\ ability[j].seeded => ability[j].signature = net
        /\ ability[j].poll = "net" => ability[j].sig = net
    BY DEF NetSeen
  <1>2. /\ ability[i].seeded => ability[i].signature = net
        /\ ability[i].poll = "net" => ability[i].sig = net
    BY DEF NetSeen
  <1>3. ability'[j] = IF j = i THEN c ELSE ability[j]
    BY DEF TypeOK
  <1>4. QED BY <1>1, <1>2, <1>3

(* The same when the step is the synchronous part of cleanup().            *)
LEMMA NetSeenCleanup ==
  ASSUME NetSeen, TypeOK, NEW i \in Fd, NEW a \in Ability, NEW b, NEW l, Cleanup(i, a, b, l),
         roamed' = roamed, misread' = misread, net' = net,
         a.seeded = ability[i].seeded, a.signature = ability[i].signature,
         a.sig = ability[i].sig, a.poll \in {ability[i].poll, "no"}
  PROVE  NetSeen'
  <1>1. PICK c : ability' = [ability EXCEPT ![i] = c] /\ Cleared(a, c)
    BY CleanupEffect
  <1>2. /\ c.seeded = ability[i].seeded /\ c.signature = ability[i].signature
        /\ c.sig = ability[i].sig /\ c.poll \in {ability[i].poll, "no"}
    BY <1>1 DEF Cleared
  <1>3. QED BY <1>1, <1>2, NetSeenStep

LEMMA NetSeenNext ==
  ASSUME ~ReuseProcess, TypeOK, AloneInv, NetSeen, [ExtNext]_extVars PROVE NetSeen'
  <1>0. \A i \in Fd : ability[i] \in Ability
    BY DEF TypeOK
  <1>1. CASE UNCHANGED extVars
    BY <1>1 DEF extVars, NetSeen
  <1>2. ASSUME NEW i \in Fd, \/ \E core \in Core, config \in Config : OnCreateStart(i, core, config)
                             \/ OnCreateStop(i)
        PROVE  NetSeen'
    <2> DEFINE a == [NewAbility EXCEPT !.life = "live"]
               Unseen(c) == ~c.seeded /\ c.poll = "no"
    <2>1. \A j \in Fd : Unseen(ability[j])
      <3> TAKE j \in Fd
      <3>1. ~up
        BY <1>2 DEF OnCreateStart, OnCreateStop
      <3>2. ability[j].life \in {"none", "dead"}
        BY <1>0, <3>1 DEF AloneInv, Alone, Suspended, Ability
      <3>3. ability[j] = NewAbility \/ ability[j] = [NewAbility EXCEPT !.life = "dead"]
        BY <3>2 DEF AloneInv, Placed
      <3>4. QED BY <3>3 DEF NewAbility
    <2>2. \E c : ability' = [ability EXCEPT ![i] = c] /\ Unseen(c)
      <3>1. CASE \E core \in Core, config \in Config : OnCreateStart(i, core, config)
        <4>1. PICK core \in Core, config \in Config : OnCreateStart(i, core, config)
          BY <3>1
        <4> DEFINE c == [NewAbility EXCEPT !.life = "live", !.core = core, !.config = config,
                                           !.conn = TRUE, !.starting = "settings"]
        <4>2. Unseen(c) BY DEF NewAbility
        <4>3. QED BY <4>1, <4>2 DEF OnCreateStart
      <3>2. CASE OnCreateStop(i)
        <4>1. a \in Ability /\ Unseen(a)
          BY NewAbilityType DEF NewAbility, Ability
        <4>2. Cleanup(i, a, bridge, log)
          BY <3>2 DEF OnCreateStop
        <4> HIDE DEF a
        <4>3. PICK c \in Ability : ability' = [ability EXCEPT ![i] = c] /\ Cleared(a, c)
          BY <4>1, <4>2, CleanupEffect
        <4>4. QED BY <4>1, <4>3 DEF Cleared
      <3>3. QED BY <1>2, <3>1, <3>2
    <2>3. \A j \in Fd : Unseen(ability[j])'
      BY <2>1, <2>2 DEF TypeOK
    <2>4. QED BY <2>3 DEF NetSeen
  <1>3. ASSUME NEW i \in Fd, OnRequestStop(i) PROVE NetSeen'
    BY <1>0, <1>3, NetSeenCleanup DEF OnRequestStop
  <1>4. ASSUME NEW i \in Fd, OnRequestIgnored(i) PROVE NetSeen'
    BY <1>4 DEF OnRequestIgnored, extVars, NetSeen
  <1>5. ASSUME NEW i \in Fd, OnDestroy(i) PROVE NetSeen'
    <2> DEFINE a == [ability[i] EXCEPT !.life = "destroyed"]
    <2>1. /\ a \in Ability /\ a.seeded = ability[i].seeded /\ a.signature = ability[i].signature
          /\ a.sig = ability[i].sig /\ a.poll = ability[i].poll
      BY <1>0 DEF Ability
    <2>2. /\ Cleanup(i, a, bridge, log) \/ ability' = [ability EXCEPT ![i] = a]
          /\ roamed' = roamed /\ misread' = misread /\ net' = net
      BY <1>5 DEF OnDestroy
    <2> HIDE DEF a
    <2>3. QED BY <2>1, <2>2, NetSeenCleanup, NetSeenStep
  <1>6. ASSUME NEW i \in Fd, NEW d \in BOOLEAN, CleanupFinish(i, d) PROVE NetSeen'
    <2> DEFINE c == [ability[i] EXCEPT !.conn = FALSE, !.tunFd = FALSE, !.cleaningUp = FALSE]
    <2>1. /\ c.seeded = ability[i].seeded /\ c.signature = ability[i].signature
          /\ c.sig = ability[i].sig /\ c.poll = ability[i].poll
      BY <1>0 DEF Ability
    <2>2. ability' = [ability EXCEPT ![i] = c] /\ roamed' = roamed /\ misread' = misread /\ net' = net
      BY <1>6 DEF CleanupFinish
    <2> HIDE DEF c
    <2>3. QED BY <2>1, <2>2, NetSeenStep
  <1>7. ASSUME NEW i \in Fd, SettingsLoaded(i) PROVE NetSeen'
    <2> DEFINE c == [ability[i] EXCEPT !.starting = "create"]
    <2>1. /\ c.seeded = ability[i].seeded /\ c.signature = ability[i].signature
          /\ c.sig = ability[i].sig /\ c.poll = ability[i].poll
      BY <1>0 DEF Ability
    <2>2. ability' = [ability EXCEPT ![i] = c] /\ roamed' = roamed /\ misread' = misread /\ net' = net
      BY <1>7 DEF SettingsLoaded
    <2> HIDE DEF c
    <2>3. QED BY <2>1, <2>2, NetSeenStep
  <1>8. ASSUME NEW i \in Fd, NEW a \in Ability, NEW b, StartFails(i, a, b),
               roamed' = roamed, misread' = misread, net' = net,
               a.seeded = ability[i].seeded, a.signature = ability[i].signature,
               a.sig = ability[i].sig, a.poll = ability[i].poll
        PROVE  NetSeen'
    <2> DEFINE c == [a EXCEPT !.starting = "no"]
    <2>1. /\ c \in Ability /\ c.seeded = a.seeded /\ c.signature = a.signature
          /\ c.sig = a.sig /\ c.poll = a.poll
      BY DEF Ability
    <2>2. Cleanup(i, c, b, Emit(log, "failed", i))
      BY <1>8 DEF StartFails
    <2> HIDE DEF c
    <2>3. QED BY <1>8, <2>1, <2>2, NetSeenCleanup
  <1>9. ASSUME NEW i \in Fd, SettingsFailed(i) \/ CreateRejected(i) PROVE NetSeen'
    BY <1>0, <1>8, <1>9 DEF SettingsFailed, CreateRejected
  <1>10. ASSUME NEW i \in Fd, NEW hev \in BOOLEAN, NEW coreLib \in BOOLEAN, NEW tunLib \in BOOLEAN,
                CreateResolved(i, hev, coreLib, tunLib)
         PROVE  NetSeen'
    <2> DEFINE a == [ability[i] EXCEPT !.tunFd = TRUE]
               c == [a EXCEPT !.starting = "no", !.pollTimer = TRUE,
                              !.seeded = FALSE, !.signature = NoNet]
    <2>1. /\ roamed' = roamed /\ misread' = misread /\ net' = net
          /\ (\E b : StartFails(i, a, b)) \/ ability' = [ability EXCEPT ![i] = c]
      BY <1>10 DEF CreateResolved
    <2>2. /\ a \in Ability /\ a.seeded = ability[i].seeded /\ a.signature = ability[i].signature
          /\ a.sig = ability[i].sig /\ a.poll = ability[i].poll
          /\ ~c.seeded /\ c.sig = a.sig /\ c.poll = a.poll
      BY <1>0 DEF Ability
    <2> HIDE DEF a, c
    <2>3. QED BY <1>8, <2>1, <2>2, NetSeenStep
  <1>11. ASSUME NEW i \in Fd, Poll(i) PROVE NetSeen'
    <2> SUFFICES ASSUME ~misread' PROVE NetSeen'
      BY DEF NetSeen
    <2>0. roamed' = roamed /\ misread' = misread /\ net' = net
      BY <1>11 DEF Poll, PollTick, PollGivesUp, PollReadsNet, PollDecides, PollDisconnects, TypeOK
    <2>1. ASSUME NEW p \in {"settings", "no"}, ability' = [ability EXCEPT ![i].poll = p]
          PROVE  NetSeen'
      <3> DEFINE c == [ability[i] EXCEPT !.poll = p]
      <3>1. /\ c.seeded = ability[i].seeded /\ c.signature = ability[i].signature /\ c.poll = p
        BY <1>0 DEF Ability
      <3>2. ability' = [ability EXCEPT ![i] = c]
        BY <2>1
      <3> HIDE DEF c
      <3>3. QED BY <2>0, <3>1, <3>2, NetSeenStep
    <2>2. CASE PollTick(i) \/ PollGivesUp(i)
      BY <2>1, <2>2 DEF PollTick, PollGivesUp
    <2>3. CASE PollReadsNet(i)
      <3> DEFINE c == [ability[i] EXCEPT !.poll = "net", !.sig = net]
      <3>1. /\ c.seeded = ability[i].seeded /\ c.signature = ability[i].signature /\ c.sig = net
        BY <1>0 DEF Ability
      <3>2. ability' = [ability EXCEPT ![i] = c]
        BY <2>3 DEF PollReadsNet
      <3> HIDE DEF c
      <3>3. QED BY <2>0, <3>1, <3>2, NetSeenStep
    <2>4. CASE PollDecides(i)
      <3>1. PICK p \in {"marked", "no"} :
              ability' = [ability EXCEPT ![i] =
                            [ability[i] EXCEPT !.seeded = TRUE, !.signature = ability[i].sig,
                                               !.sig = NoNet, !.poll = p]]
        BY <2>4 DEF PollDecides
      <3> DEFINE c == [ability[i] EXCEPT !.seeded = TRUE, !.signature = ability[i].sig,
                                         !.sig = NoNet, !.poll = p]
      <3>2. c.signature = ability[i].sig /\ c.poll = p
        BY <1>0 DEF Ability
      <3>3. ability' = [ability EXCEPT ![i] = c] /\ ability[i].poll = "net"
        BY <2>4, <3>1 DEF PollDecides
      <3> HIDE DEF c
      <3>4. QED BY <2>0, <3>2, <3>3, NetSeenStep
    <2>5. CASE PollDisconnects(i)
      <3> DEFINE c == [ability[i] EXCEPT !.poll = "no"]
      <3>1. /\ c \in Ability /\ c.seeded = ability[i].seeded /\ c.signature = ability[i].signature
            /\ c.sig = ability[i].sig /\ c.poll = "no"
        BY <1>0 DEF Ability
      <3>2. Cleanup(i, c, bridge, log)
        BY <2>5 DEF PollDisconnects
      <3> HIDE DEF c
      <3>3. QED BY <2>0, <3>1, <3>2, NetSeenCleanup
    <2>6. QED BY <1>11, <2>2, <2>3, <2>4, <2>5 DEF Poll
  <1>12. CASE NativeThreads
    BY <1>12 DEF NativeThreads, StopThreadSwaps, StopThreadStops, HevLoopExits, NetSeen
  <1>13. CASE NetChanges
    BY <1>13 DEF NetChanges, NetSeen
  <1>14. CASE ProcessExit
    <2>1. \A i \in Fd : ability'[i] = NewAbility \/ ability'[i] = [NewAbility EXCEPT !.life = "dead"]
      BY <1>14 DEF ProcessExit, AloneInv, Placed
    <2>2. \A i \in Fd : ~ability'[i].seeded /\ ability'[i].poll = "no"
      BY <2>1 DEF NewAbility
    <2>3. QED BY <2>2 DEF NetSeen
  <1>15. QED
    BY <1>1, <1>2, <1>3, <1>4, <1>5, <1>6, <1>7, <1>9, <1>10, <1>11, <1>12, <1>13, <1>14
    DEF ExtNext, ExtRuns, System, Continue

(* A poll that acts has seen two networks, so the user has moved or one of *)
(* the two readings has failed.                                            *)
LEMMA DisconnectAfterRoaming ==
  ASSUME TypeOK, NetSeen, [ExtNext]_extVars, ~stopFlag, stopFlag'
  PROVE  roamed \/ misread
  <1>1. stopFlag' = stopFlag \/ \E i \in Fd : PollDecides(i)
    <2>1. CASE UNCHANGED extVars
      BY <2>1 DEF extVars
    <2>2. CASE System
      BY <2>2 DEF System, OnCreateStart, OnCreateStop, OnRequestStop, OnRequestIgnored, OnDestroy,
                  extVars
    <2>3. ASSUME NEW i \in Fd, Continue(i) PROVE stopFlag' = stopFlag
      BY <2>3 DEF Continue, CleanupFinish, SettingsLoaded, SettingsFailed, CreateRejected,
                  CreateResolved
    <2>4. ASSUME NEW i \in Fd, Poll(i) PROVE stopFlag' = stopFlag \/ PollDecides(i)
      BY <2>4 DEF Poll, PollTick, PollGivesUp, PollReadsNet, PollDisconnects
    <2>5. CASE NativeThreads \/ NetChanges \/ ProcessExit
      BY <2>5 DEF NativeThreads, StopThreadSwaps, StopThreadStops, HevLoopExits, NetChanges,
                  ProcessExit
    <2>6. QED BY <2>1, <2>2, <2>3, <2>4, <2>5 DEF ExtNext, ExtRuns
  <1>2. PICK i \in Fd : PollDecides(i)
    BY <1>1
  <1>3. ability[i].poll = "net" /\ ability[i].seeded /\ ability[i].sig # ability[i].signature
    BY <1>2 DEF PollDecides
  <1>4. ~roamed /\ ~misread => ability[i].sig = net /\ ability[i].signature = net
    BY <1>3 DEF NetSeen
  <1>5. QED BY <1>3, <1>4

(* A VPN is not disconnected automatically before the user has moved or    *)
(* the poll has misread the network.                                       *)
THEOREM ChangeBeforeDisconnect ==
  ASSUME ~ReuseProcess PROVE ExtSpec => NoDisconnectInPlace
  <1>1. ExtInit => NetSeen
    BY DEF ExtInit, NetSeen, NewAbility
  <1>2. TypeOK /\ AloneInv /\ NetSeen /\ [ExtNext]_extVars => NetSeen'
    BY NetSeenNext
  <1>3. TypeOK /\ NetSeen /\ [ExtNext]_extVars =>
        [~stopFlag /\ stopFlag' => roamed \/ misread]_extVars
    BY DisconnectAfterRoaming
  <1>4. QED
    BY <1>1, <1>2, <1>3, ExtensionTypes, AloneInvariant, PTL DEF ExtSpec, NoDisconnectInPlace
=============================================================================
