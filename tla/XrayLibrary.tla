---------------------------- MODULE XrayLibrary ----------------------------
(***************************************************************************)
(* How the main process loads libxray.so and calls it from several threads *)
(* (napi_init.cpp).  The ArkTS thread starts and stops a proxy-only Xray   *)
(* and calls the optional functions; worker threads of the task pool ping. *)
(* The globals of the bridge are shared; only PrepareXrayAssetDir takes a  *)
(* lock.  Each store of the loader is a step of its own.                   *)
(***************************************************************************)
EXTENDS Integers

CONSTANTS Worker,        \* threads of the task pool
          Ui,            \* the ArkTS thread
          NoThread,
          Config, NoConfig,
          Port,          \* local SOCKS ports that pings are given
          Optional,      \* optional functions the ArkTS thread calls
          Exported       \* symbols that libxray.so exports

Thread == Worker \cup {Ui}
Required == {"CGoInvoke", "CGoFree"}
Tested == "testXrayConfig"
Symbol == Required \cup Optional

(* A ping and the pre-connect test write files of their own.               *)
File == Port \cup {Tested}

ASSUME LibraryAssumption ==
  /\ Ui \notin Worker /\ NoThread \notin Thread /\ NoConfig \notin Config /\ Tested \notin Port
  /\ Optional \cap (Required \cup {"pingOutbound", "startXray", "stopXray"}) = {}

VARIABLES environ,      \* XRAY_LOCATION_ASSET is in the C environment
          assetEnvSet,  \* g_xrayAssetEnvSet
          mutex,        \* holder of g_xrayAssetEnvMutex
          handle,       \* g_xrayHandle is not null
          ptr,          \* the function pointers that are not null
          go,           \* the Go runtime of the library
          file,         \* what the configuration files hold
          xrayRunning,  \* g_xrayRunning
          call          \* what each thread is doing

loaderVars == <<environ, assetEnvSet, mutex, handle, ptr, go>>
libraryVars == <<environ, assetEnvSet, mutex, handle, ptr, go,
                 file, xrayRunning, call>>

Function == Optional \cup {"pingOutbound", "startXray", "stopXray"}

(* seen : the configuration a ping measured; ok : what the call returns.   *)
Call == [pc : {"idle", "prepare", "setenv", "write", "load", "open", "invoke",
               "free", "handle", "loaded", "core", "reading", "returned"},
         fn : Function, file : File, config : Config \cup {NoConfig},
         seen : Config \cup {NoConfig}, ok : BOOLEAN]

(* Where the Go runtime got to, whether the environment it copied when the *)
(* library was opened names the asset directory, and (history) the         *)
(* function whose call opened it.                                          *)
Runtime == [state : {"absent", "starting", "ready"}, asset : BOOLEAN,
            opener : Function \cup {"none"}]

IdleCall == [pc |-> "idle", fn |-> "pingOutbound", file |-> Tested, config |-> NoConfig,
             seen |-> NoConfig, ok |-> FALSE]

At(t, pc) == call[t].pc = pc

Step(t, pc) == call' = [call EXCEPT ![t].pc = pc]

Return(t, ok) == call' = [call EXCEPT ![t].pc = "returned", ![t].ok = ok]

Begin(t, pc, fn, f, config) ==
  /\ At(t, "idle")
  /\ call' = [call EXCEPT ![t] = [IdleCall EXCEPT !.pc = pc, !.fn = fn, !.file = f,
                                                 !.config = config]]

-----------------------------------------------------------------------------
(* The exported functions, up to their first access to the library.        *)

(* Mutant: the asset directory is not prepared.                            *)
PingOutboundUnprepared(t, port, config) ==
  /\ Begin(t, "write", "pingOutbound", port, config)
  /\ UNCHANGED <<loaderVars, file, xrayRunning>>

(* The callers pass a configuration, a directory and a port.               *)
PingOutbound(t, port, config) ==
  /\ Begin(t, "prepare", "pingOutbound", port, config)
  /\ UNCHANGED <<loaderVars, file, xrayRunning>>

(* A start while Xray runs, and a stop while it does not, change nothing   *)
(* here (tunRunning and what Xray runs are NativeBridge's).                *)
StartXray ==
  /\ ~xrayRunning
  /\ Begin(Ui, "prepare", "startXray", Tested, NoConfig)
  /\ UNCHANGED <<loaderVars, file, xrayRunning>>

StopXray ==
  /\ xrayRunning
  /\ Begin(Ui, "load", "stopXray", Tested, NoConfig)
  /\ UNCHANGED <<loaderVars, file, xrayRunning>>

(* A function whose symbol was found before does not load again.           *)
CallOptional(fn, config) ==
  /\ Begin(Ui, IF fn \in ptr THEN "loaded" ELSE "load", fn, Tested, config)
  /\ UNCHANGED <<loaderVars, file, xrayRunning>>

(* TestXrayConfig is given a configuration; GetFreePorts, QueryStats and   *)
(* ConvertShareLinksToXrayJson have nothing that matters here.             *)
Argument(fn) == IF fn = Tested THEN Config ELSE {NoConfig}

-----------------------------------------------------------------------------
(* The environment.                                                        *)

(* Mutant: the check and the setenv are not under the lock.                *)
UnlockedMutex == TRUE

MutexFree == mutex = NoThread

AfterPrepare(t) == IF call[t].fn = "pingOutbound" THEN "write" ELSE "load"

PrepareXrayAssetDir(t) ==
  /\ At(t, "prepare") /\ MutexFree
  /\ IF assetEnvSet \/ handle
     THEN Step(t, AfterPrepare(t)) /\ UNCHANGED mutex
     ELSE Step(t, "setenv") /\ mutex' = t
  /\ UNCHANGED <<environ, assetEnvSet, handle, ptr, go, file, xrayRunning>>

Setenv(t) ==
  /\ At(t, "setenv")
  /\ environ' = TRUE
  /\ assetEnvSet' = TRUE
  /\ mutex' = NoThread
  /\ Step(t, AfterPrepare(t))
  /\ UNCHANGED <<handle, ptr, go, file, xrayRunning>>

-----------------------------------------------------------------------------
(* LoadXrayCore.                                                           *)

(* Mutant: the library counts as loaded once its entry point is known.     *)
EntryPointKnown == "CGoInvoke" \in ptr

CoreLoaded == handle /\ Required \subseteq ptr

(* Mutant: a failed load is tried again.                                   *)
GiveUpRetries(t) == Step(t, "retry")

(* What a call makes of a core that cannot be loaded, or of a symbol that  *)
(* is missing: only the pre-connect test passes.                           *)
GiveUp(t) == Return(t, call[t].fn = Tested)

LoadXrayCore(t) ==
  /\ At(t, "load")
  /\ Step(t, IF CoreLoaded THEN "loaded" ELSE "open")
  /\ UNCHANGED <<loaderVars, file, xrayRunning>>

(* The first dlopen starts the Go runtime on a thread of its own, with the *)
(* environment of this moment.                                             *)
Dlopen(t) ==
  /\ At(t, "open")
  /\ \/ GiveUp(t) /\ UNCHANGED go
     \/ /\ Step(t, "invoke")
        /\ go' = IF go.state = "absent"
                 THEN [state |-> "starting", asset |-> environ, opener |-> call[t].fn] ELSE go
  /\ UNCHANGED <<environ, assetEnvSet, mutex, handle, ptr, file, xrayRunning>>

RuntimeStarts ==
  /\ go.state = "starting"
  /\ go' = [go EXCEPT !.state = "ready"]
  /\ UNCHANGED <<environ, assetEnvSet, mutex, handle, ptr, file, xrayRunning, call>>

StoreInvoke(t) ==
  /\ At(t, "invoke")
  /\ ptr' = ptr \cup ({"CGoInvoke"} \cap Exported)
  /\ Step(t, "free")
  /\ UNCHANGED <<environ, assetEnvSet, mutex, handle, go, file, xrayRunning>>

StoreFree(t) ==
  /\ At(t, "free")
  /\ ptr' = ptr \cup ({"CGoFree"} \cap Exported)
  /\ Step(t, "handle")
  /\ UNCHANGED <<environ, assetEnvSet, mutex, handle, go, file, xrayRunning>>

StoreHandle(t) ==
  /\ At(t, "handle")
  /\ IF Required \subseteq ptr
     THEN Step(t, "loaded") /\ handle' = TRUE
     ELSE GiveUp(t) /\ UNCHANGED handle
  /\ UNCHANGED <<environ, assetEnvSet, mutex, ptr, go, file, xrayRunning>>

-----------------------------------------------------------------------------
(* Calls into the library.                                                 *)

(* Mutant: all pings share one file, as they once did.                     *)
SharedFile(t) == CHOOSE f \in Port : TRUE

ConfigFile(t) == call[t].file

(* WriteTextFile may fail; then the ping is not made.                      *)
WritePingConfig(t) ==
  /\ At(t, "write")
  /\ \/ Return(t, FALSE) /\ UNCHANGED file
     \/ Step(t, "load") /\ file' = [file EXCEPT ![ConfigFile(t)] = call[t].config]
  /\ UNCHANGED <<loaderVars, xrayRunning>>

(* The library is asked for the symbol each time until it is found.        *)
LoadOptionalSymbol(t) ==
  /\ At(t, "loaded") /\ call[t].fn \in Optional \ ptr
  /\ IF call[t].fn \in Exported
     THEN ptr' = ptr \cup {call[t].fn} /\ UNCHANGED call
     ELSE GiveUp(t) /\ UNCHANGED ptr
  /\ UNCHANGED <<environ, assetEnvSet, mutex, handle, go, file, xrayRunning>>

(* The test writes its file before the call, the only one to use it.       *)
CallSymbol(t) ==
  /\ At(t, "loaded") /\ call[t].fn \in Optional \cap ptr
  /\ \/ call[t].fn = Tested /\ Return(t, FALSE) /\ UNCHANGED file
     \/ /\ Step(t, "core")
        /\ file' = IF call[t].fn = Tested THEN [file EXCEPT ![Tested] = call[t].config] ELSE file
  /\ UNCHANGED <<loaderVars, xrayRunning>>

InvokeXray(t) ==
  /\ At(t, "loaded") /\ call[t].fn \notin Optional
  /\ Step(t, "core")
  /\ UNCHANGED <<loaderVars, file, xrayRunning>>

(* A call enters Go when its runtime is ready.  A ping runs the            *)
(* configuration of its file in an instance of its own.                    *)
CoreReadsFile(t) ==
  /\ At(t, "core") /\ go.state = "ready" /\ call[t].fn = "pingOutbound"
  /\ call' = [call EXCEPT ![t].pc = "reading", ![t].seen = file[ConfigFile(t)]]
  /\ UNCHANGED <<loaderVars, file, xrayRunning>>

(* The delay of a ping that failed or timed out is 10000 or 11000, and -1  *)
(* stands for an answer without one.                                       *)
ValidDelay(delay) == delay >= 0 /\ delay < 10000

PingAnswer == [success : BOOLEAN, delay : {-1, 0, 9999, 10000, 11000}]

PingReturns(t) ==
  /\ At(t, "reading")
  /\ \E a \in PingAnswer : Return(t, a.success /\ ValidDelay(a.delay))
  /\ UNCHANGED <<loaderVars, file, xrayRunning>>

CoreReturns(t) ==
  /\ At(t, "core") /\ go.state = "ready" /\ call[t].fn # "pingOutbound"
  /\ \/ Return(t, FALSE) /\ UNCHANGED xrayRunning
     \/ /\ Return(t, TRUE)
        /\ xrayRunning' = (call[t].fn = "startXray" \/ (call[t].fn # "stopXray" /\ xrayRunning))
  /\ UNCHANGED <<loaderVars, file>>

(* The caller has the result.                                              *)
Leave(t) ==
  /\ At(t, "returned")
  /\ call' = [call EXCEPT ![t] = IdleCall]
  /\ UNCHANGED <<loaderVars, file, xrayRunning>>

-----------------------------------------------------------------------------
LibraryInit ==
  /\ environ = FALSE
  /\ assetEnvSet = FALSE
  /\ mutex = NoThread
  /\ handle = FALSE
  /\ ptr = {}
  /\ go = [state |-> "absent", asset |-> FALSE, opener |-> "none"]
  /\ file = [f \in File |-> NoConfig]
  /\ xrayRunning = FALSE
  /\ call = [t \in Thread |-> IdleCall]

ThreadStep(t) ==
  \/ PrepareXrayAssetDir(t) \/ Setenv(t)
  \/ LoadXrayCore(t) \/ Dlopen(t) \/ StoreInvoke(t) \/ StoreFree(t) \/ StoreHandle(t)
  \/ WritePingConfig(t) \/ InvokeXray(t) \/ CoreReadsFile(t) \/ PingReturns(t)
  \/ LoadOptionalSymbol(t) \/ CallSymbol(t) \/ CoreReturns(t)

UiCall ==
  \/ StartXray \/ StopXray \/ Leave(Ui)
  \/ \E fn \in Optional : \E config \in Argument(fn) : CallOptional(fn, config)

LibraryNext ==
  \/ \E t \in Thread : ThreadStep(t)
  \/ \E t \in Worker : Leave(t) \/ \E port \in Port, config \in Config : PingOutbound(t, port, config)
  \/ UiCall
  \/ RuntimeStarts

LibrarySpec == LibraryInit /\ [][LibraryNext]_libraryVars

-----------------------------------------------------------------------------
(* The call of a worker as the delay tests see it.                         *)

PingPc(pc) ==
  IF pc \in {"prepare", "setenv", "write"} THEN "asked"
  ELSE IF pc \in {"load", "open", "invoke", "free", "handle", "loaded", "core"} THEN "written"
  ELSE pc

PingOf(c) == [pc |-> PingPc(c.pc), port |-> IF c.pc = "idle" THEN NoConfig ELSE c.file,
              config |-> c.config, seen |-> c.seen, ok |-> c.ok]

Service == INSTANCE PingService WITH
  file <- [p \in Port |-> file[p]],
  ping <- [t \in Worker |-> PingOf(call[t])]

-----------------------------------------------------------------------------
LibraryTypeOK ==
  /\ environ \in BOOLEAN /\ assetEnvSet \in BOOLEAN /\ handle \in BOOLEAN
  /\ mutex \in Thread \cup {NoThread}
  /\ ptr \subseteq Symbol
  /\ go \in Runtime
  /\ file \in [File -> Config \cup {NoConfig}]
  /\ xrayRunning \in BOOLEAN
  /\ call \in [Thread -> Call]

(* No thread enters the library through a null pointer, although the       *)
(* loader stores the pointers without a lock while others test them        *)
(* (LoadXrayCore, InvokeXray, the Load... functions).                      *)
NoNullCall ==
  \A t \in Thread : call[t].pc \in {"core", "reading"} =>
    (IF call[t].fn \in Optional THEN {call[t].fn} ELSE Required) \subseteq ptr

(* The environment is never changed once a library with a Go runtime is    *)
(* open (the comment above PrepareXrayAssetDir: setenv moves the array its *)
(* runtime reads).                                                         *)
NoSetenvAfterLoad == \A t \in Thread : At(t, "setenv") => go.state = "absent"

(* That holds whenever a ping or a start opened the library, or an         *)
(* optional function did after one of them had prepared the directory: the *)
(* lock keeps the check and the setenv together, and the loaders that have *)
(* prepared come after it.                                                 *)
NoSetenvAfterPreparedLoad ==
  \A t \in Thread :
    At(t, "setenv") => go.state = "absent" \/ (go.opener \in Optional /\ ~go.asset)

(* An Xray that is started or pinged through finds the asset directory:    *)
(* the environment named it when the library was first opened (not when an *)
(* optional function opened it: README, section 7).                        *)
CoreFindsAssets ==
  \A t \in Thread : At(t, "core") /\ call[t].fn \in {"pingOutbound", "startXray"} => go.asset

(* That holds unless an optional function, which does not prepare it, was  *)
(* the one to open the library.                                            *)
PreparedCoreFindsAssets ==
  \A t \in Thread :
    At(t, "core") /\ call[t].fn \in {"pingOutbound", "startXray"}
      => go.asset \/ go.opener \in Optional

(* The library, however often it is loaded and by whom, gives each ping    *)
(* what the delay tests rely on: PingOutbound implements PingService.      *)
ImplementsPingService == Service!PingSpec
=============================================================================
