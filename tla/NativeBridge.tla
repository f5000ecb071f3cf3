---------------------------- MODULE NativeBridge ----------------------------
(***************************************************************************)
(* The C++ N-API bridge (napi_init.cpp), the Go tun2socks adapter and the  *)
(* Go sing-box wrapper it loads.  A bridge state is one record holding the *)
(* globals of a process; every exported call is a function from a bridge   *)
(* state (and the outcome of the library calls it makes) to the next one,  *)
(* because the calls run to completion on the ArkTS thread and a caller    *)
(* makes several of them in one turn of its event loop.  Only the stop     *)
(* thread that StopTun2Socks detaches runs concurrently with the caller:   *)
(* AdapterSwap and EngineStop are its two steps.                           *)
(***************************************************************************)
EXTENDS Naturals

CONSTANTS Config,      \* core configurations
          Fd,          \* TUN file descriptors
          NoConfig,    \* no core is running
          NoFd         \* no engine reads a descriptor

ASSUME NoneAssumption == NoConfig \notin Config /\ NoFd \notin Fd

Engine == {"none", "gvisor", "hev"}

(* xray, box          : the configuration the core really runs             *)
(* xrayRunning, ...   : the atomic flags of the bridge                     *)
(* adapter            : "running" in the Go adapter                        *)
(* stacks, current    : live tun2socks stacks, and the engine's default one*)
(* hev, joinable      : descriptor read by the hev loop; g_hevThread state *)
(* stopping, swapped  : detached stop threads before and after the swap    *)
Bridge == [xray : Config \cup {NoConfig}, xrayRunning : BOOLEAN,
           box : Config \cup {NoConfig}, singboxRunning : BOOLEAN,
           tunRunning : BOOLEAN, tunEngine : Engine,
           adapter : BOOLEAN, stacks : SUBSET Fd, current : Fd \cup {NoFd},
           hev : Fd \cup {NoFd}, joinable : BOOLEAN,
           stopping : Nat, swapped : Nat]

FreshBridge == [xray |-> NoConfig, xrayRunning |-> FALSE,
                box |-> NoConfig, singboxRunning |-> FALSE,
                tunRunning |-> FALSE, tunEngine |-> "none",
                adapter |-> FALSE, stacks |-> {}, current |-> NoFd,
                hev |-> NoFd, joinable |-> FALSE,
                stopping |-> 0, swapped |-> 0]

-----------------------------------------------------------------------------
(* Cores.  "lib" is the outcome of loading and calling the library.        *)

StartXray(b, config, lib) ==
  IF b.xrayRunning \/ ~lib THEN b
  ELSE [b EXCEPT !.xrayRunning = TRUE, !.xray = config]

StartXrayOk(b, lib) == b.xrayRunning \/ lib

StopXray(b, lib) ==
  IF ~b.xrayRunning THEN [b EXCEPT !.tunRunning = FALSE]
  ELSE IF ~lib THEN b
  ELSE [b EXCEPT !.xrayRunning = FALSE, !.xray = NoConfig, !.tunRunning = FALSE]

(* libsingbox: a second start while a service exists reports success.      *)
BoxStart(box, config) == IF box # NoConfig THEN box ELSE config

SingboxStart(b, config, lib) ==
  IF b.singboxRunning \/ ~lib THEN b
  ELSE [b EXCEPT !.singboxRunning = TRUE, !.box = BoxStart(b.box, config)]

SingboxStartOk(b, lib) == b.singboxRunning \/ lib

(* The wrapper forgets the service even when Close fails; the bridge then  *)
(* reports the failure and keeps its flag.                                 *)
SingboxStop(b, lib) ==
  IF ~b.singboxRunning THEN [b EXCEPT !.tunRunning = FALSE]
  ELSE IF ~lib THEN [b EXCEPT !.box = NoConfig]
  ELSE [b EXCEPT !.singboxRunning = FALSE, !.box = NoConfig, !.tunRunning = FALSE]

-----------------------------------------------------------------------------
(* Data plane.                                                             *)

(* The adapter keeps its stack when it already runs.                       *)
AdapterStart(b, fd) ==
  IF b.adapter THEN b
  ELSE [b EXCEPT !.adapter = TRUE, !.stacks = @ \cup {fd}, !.current = fd]

StartTun2Socks(b, fd, lib) ==
  IF b.tunRunning \/ ~lib THEN b
  ELSE [AdapterStart(b, fd) EXCEPT !.tunRunning = TRUE, !.tunEngine = "gvisor"]

(* StartHevTun joins the previous thread before it starts the next one.    *)
HevJoinBlocks(b) == ~b.tunRunning /\ b.joinable /\ b.hev # NoFd

StartHevTun(b, fd, lib) ==
  IF b.tunRunning \/ ~lib THEN b
  ELSE [b EXCEPT !.hev = fd, !.joinable = TRUE,
                 !.tunRunning = TRUE, !.tunEngine = "hev"]

StartTunOk(b, lib) == b.tunRunning \/ lib

(* A stop that only clears the flags and leaves the adapter alone.         *)
StopTun2SocksFlagsOnly(b) == [b EXCEPT !.tunRunning = FALSE, !.tunEngine = "none"]

StopTun2Socks(b) ==
  IF ~b.tunRunning THEN b
  ELSE IF b.tunEngine = "hev"
  THEN [b EXCEPT !.tunRunning = FALSE, !.tunEngine = "none",
                 !.hev = NoFd, !.joinable = FALSE]
  ELSE [b EXCEPT !.tunRunning = FALSE, !.tunEngine = "none", !.stopping = @ + 1]

(* The hev loop returns by itself when it rejects its configuration.       *)
HevExits(b) == [b EXCEPT !.hev = NoFd]

(* stopTun2Socks in the adapter: swap the flag, then stop the engine.      *)
AdapterSwap(b) ==
  [b EXCEPT !.stopping = @ - 1, !.adapter = FALSE,
            !.swapped = IF b.adapter THEN @ + 1 ELSE @]

(* engine.Stop closes the stack the engine package currently points at.    *)
EngineStop(b) ==
  [b EXCEPT !.swapped = @ - 1, !.stacks = @ \ {b.current}]

(* Whatever forwards packets of a TUN at the moment.                       *)
LiveEngines(b) == b.stacks \cup ({b.hev} \ {NoFd})
=============================================================================
