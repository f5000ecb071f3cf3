------------------------- MODULE XrayLibraryProofs -------------------------
(***************************************************************************)
(* Proofs about XrayLibrary, for any number of threads, configurations and *)
(* ports, and for any library.                                             *)
(***************************************************************************)
EXTENDS XrayLibrary, TLAPS

USE DEF Thread, Required, Tested, Symbol, File

(* The actions of LibraryNext, one by one.                                 *)
LEMMA NextCases ==
  ASSUME LibraryNext, NEW P,
         \A t \in Thread : PrepareXrayAssetDir(t) => P,
         \A t \in Thread : Setenv(t) => P,
         \A t \in Thread : LoadXrayCore(t) => P,
         \A t \in Thread : Dlopen(t) => P,
         \A t \in Thread : StoreInvoke(t) => P,
         \A t \in Thread : StoreFree(t) => P,
         \A t \in Thread : StoreHandle(t) => P,
         \A t \in Thread : WritePingConfig(t) => P,
         \A t \in Thread : InvokeXray(t) => P,
         \A t \in Thread : CoreReadsFile(t) => P,
         \A t \in Thread : PingReturns(t) => P,
         \A t \in Thread : LoadOptionalSymbol(t) => P,
         \A t \in Thread : CallSymbol(t) => P,
         \A t \in Thread : CoreReturns(t) => P,
         \A t \in Thread : Leave(t) => P,
         \A t \in Worker, port \in Port, config \in Config : PingOutbound(t, port, config) => P,
         StartXray => P,
         StopXray => P,
         \A fn \in Optional, config \in Config \cup {NoConfig} : CallOptional(fn, config) => P,
         RuntimeStarts => P
  PROVE  P
  BY DEF LibraryNext, ThreadStep, UiCall, Argument

-----------------------------------------------------------------------------
(* Types.                                                                  *)

LEMMA TypesInit == ASSUME LibraryAssumption, LibraryInit PROVE LibraryTypeOK
  BY DEF LibraryAssumption, LibraryInit, LibraryTypeOK, Call, IdleCall, Runtime, Function

(* A call that changes where a thread is, or what it returns, is a call.   *)
LEMMA StepTypes ==
  ASSUME LibraryTypeOK, NEW t \in Thread,
         NEW pc \in {"prepare", "setenv", "write", "load", "open", "invoke", "free", "handle",
                     "loaded", "core", "reading"},
         Step(t, pc)
  PROVE  call' \in [Thread -> Call]
  BY DEF LibraryTypeOK, Step, Call

LEMMA ReturnTypes ==
  ASSUME LibraryTypeOK, NEW t \in Thread, NEW ok \in BOOLEAN, Return(t, ok)
  PROVE  call' \in [Thread -> Call]
  BY DEF LibraryTypeOK, Return, Call

LEMMA BeginTypes ==
  ASSUME LibraryTypeOK, NEW t \in Thread, NEW pc \in {"prepare", "load", "loaded"},
         NEW fn \in Function, NEW f \in File, NEW config \in Config \cup {NoConfig},
         Begin(t, pc, fn, f, config)
  PROVE  call' \in [Thread -> Call]
  BY DEF LibraryTypeOK, Begin, IdleCall, Call

LEMMA TypesNext ==
  ASSUME LibraryTypeOK, [LibraryNext]_libraryVars PROVE LibraryTypeOK'
<1>1. CASE UNCHANGED libraryVars
  BY <1>1 DEF libraryVars, LibraryTypeOK
<1>2. CASE LibraryNext
  <2> USE DEF loaderVars
  <2>1. ASSUME NEW t \in Thread, PrepareXrayAssetDir(t) PROVE LibraryTypeOK'
    <3>1. AfterPrepare(t) \in {"write", "load"}
      BY DEF AfterPrepare
    <3>2. call' \in [Thread -> Call]
      BY <2>1, <3>1, StepTypes DEF PrepareXrayAssetDir
    <3> QED BY <2>1, <3>2 DEF PrepareXrayAssetDir, LibraryTypeOK
  <2>2. ASSUME NEW t \in Thread, Setenv(t) PROVE LibraryTypeOK'
    <3>1. AfterPrepare(t) \in {"write", "load"}
      BY DEF AfterPrepare
    <3>2. call' \in [Thread -> Call]
      BY <2>2, <3>1, StepTypes DEF Setenv
    <3> QED BY <2>2, <3>2 DEF Setenv, LibraryTypeOK
  <2>3. ASSUME NEW t \in Thread, LoadXrayCore(t) PROVE LibraryTypeOK'
    BY <2>3, StepTypes DEF LoadXrayCore, LibraryTypeOK
  <2>4. ASSUME NEW t \in Thread, Dlopen(t) PROVE LibraryTypeOK'
    <3>1. call' \in [Thread -> Call]
      BY <2>4, StepTypes, ReturnTypes DEF Dlopen, GiveUp
    <3>2. go' \in Runtime
      <4>1. call[t].fn \in Function /\ environ \in BOOLEAN /\ go \in Runtime
        BY DEF LibraryTypeOK, Call
      <4>2. [state |-> "starting", asset |-> environ, opener |-> call[t].fn] \in Runtime
        BY <4>1 DEF Runtime
      <4>3. go' \in {go, [state |-> "starting", asset |-> environ, opener |-> call[t].fn]}
        BY <2>4 DEF Dlopen
      <4> QED BY <4>1, <4>2, <4>3
    <3> QED BY <2>4, <3>1, <3>2 DEF Dlopen, LibraryTypeOK
  <2>5. ASSUME NEW t \in Thread, StoreInvoke(t) PROVE LibraryTypeOK'
    BY <2>5, StepTypes DEF StoreInvoke, LibraryTypeOK
  <2>6. ASSUME NEW t \in Thread, StoreFree(t) PROVE LibraryTypeOK'
    BY <2>6, StepTypes DEF StoreFree, LibraryTypeOK
  <2>7. ASSUME NEW t \in Thread, StoreHandle(t) PROVE LibraryTypeOK'
    BY <2>7, StepTypes, ReturnTypes DEF StoreHandle, GiveUp, LibraryTypeOK
  <2>8. ASSUME NEW t \in Thread, WritePingConfig(t) PROVE LibraryTypeOK'
    <3>1. call' \in [Thread -> Call]
      BY <2>8, StepTypes, ReturnTypes DEF WritePingConfig
    <3>2. call[t].config \in Config \cup {NoConfig}
      BY DEF LibraryTypeOK, Call
    <3>3. file' \in [File -> Config \cup {NoConfig}]
      BY <2>8, <3>2 DEF WritePingConfig, LibraryTypeOK
    <3> QED BY <2>8, <3>1, <3>3 DEF WritePingConfig, LibraryTypeOK
  <2>9. ASSUME NEW t \in Thread, InvokeXray(t) PROVE LibraryTypeOK'
    BY <2>9, StepTypes DEF InvokeXray, LibraryTypeOK
  <2>10. ASSUME NEW t \in Thread, CoreReadsFile(t) PROVE LibraryTypeOK'
    <3>1. file[ConfigFile(t)] \in Config \cup {NoConfig}
      BY DEF LibraryTypeOK, Call, ConfigFile
    <3>2. call' \in [Thread -> Call]
      BY <2>10, <3>1 DEF CoreReadsFile, LibraryTypeOK, Call
    <3> QED BY <2>10, <3>2 DEF CoreReadsFile, LibraryTypeOK
  <2>11. ASSUME NEW t \in Thread, PingReturns(t) PROVE LibraryTypeOK'
    <3>1. PICK a \in PingAnswer : Return(t, a.success /\ ValidDelay(a.delay))
      BY <2>11 DEF PingReturns
    <3>2. call' \in [Thread -> Call]
      BY <3>1, ReturnTypes
    <3> QED BY <2>11, <3>2 DEF PingReturns, LibraryTypeOK
  <2>12. ASSUME NEW t \in Thread, LoadOptionalSymbol(t) PROVE LibraryTypeOK'
    <3>1. call' \in [Thread -> Call]
      BY <2>12, ReturnTypes DEF LoadOptionalSymbol, GiveUp, LibraryTypeOK
    <3>2. ptr' \subseteq Symbol
      BY <2>12 DEF LoadOptionalSymbol, LibraryTypeOK
    <3> QED BY <2>12, <3>1, <3>2 DEF LoadOptionalSymbol, LibraryTypeOK
  <2>13. ASSUME NEW t \in Thread, CallSymbol(t) PROVE LibraryTypeOK'
    <3>1. call' \in [Thread -> Call]
      BY <2>13, StepTypes, ReturnTypes DEF CallSymbol
    <3>2. call[t].config \in Config \cup {NoConfig}
      BY DEF LibraryTypeOK, Call
    <3>3. file' \in [File -> Config \cup {NoConfig}]
      BY <2>13, <3>2 DEF CallSymbol, LibraryTypeOK
    <3> QED BY <2>13, <3>1, <3>3 DEF CallSymbol, LibraryTypeOK
  <2>14. ASSUME NEW t \in Thread, CoreReturns(t) PROVE LibraryTypeOK'
    BY <2>14, ReturnTypes DEF CoreReturns, LibraryTypeOK
  <2>15. ASSUME NEW t \in Thread, Leave(t) PROVE LibraryTypeOK'
    BY <2>15 DEF Leave, LibraryTypeOK, IdleCall, Call, Function
  <2>16. ASSUME NEW t \in Worker, NEW port \in Port, NEW config \in Config,
                PingOutbound(t, port, config)
         PROVE  LibraryTypeOK'
    <3>1. call' \in [Thread -> Call]
      BY <2>16, BeginTypes DEF PingOutbound, Function
    <3> QED BY <2>16, <3>1 DEF PingOutbound, LibraryTypeOK
  <2>17. ASSUME StartXray PROVE LibraryTypeOK'
    <3>1. call' \in [Thread -> Call]
      BY <2>17, BeginTypes DEF StartXray, Function
    <3> QED BY <2>17, <3>1 DEF StartXray, LibraryTypeOK
  <2>18. ASSUME StopXray PROVE LibraryTypeOK'
    <3>1. call' \in [Thread -> Call]
      BY <2>18, BeginTypes DEF StopXray, Function
    <3> QED BY <2>18, <3>1 DEF StopXray, LibraryTypeOK
  <2>19. ASSUME NEW fn \in Optional, NEW config \in Config \cup {NoConfig}, CallOptional(fn, config)
         PROVE  LibraryTypeOK'
    <3>1. call' \in [Thread -> Call]
      BY <2>19, BeginTypes DEF CallOptional, Function
    <3> QED BY <2>19, <3>1 DEF CallOptional, LibraryTypeOK
  <2>20. ASSUME RuntimeStarts PROVE LibraryTypeOK'
    BY <2>20 DEF RuntimeStarts, LibraryTypeOK, Runtime
  <2> QED
    BY <1>2, <2>1, <2>2, <2>3, <2>4, <2>5, <2>6, <2>7, <2>8, <2>9, <2>10, <2>11, <2>12, <2>13,
       <2>14, <2>15, <2>16, <2>17, <2>18, <2>19, <2>20, NextCases
<1> QED BY <1>1, <1>2

(* The type invariant, whatever the library exports and whoever loads it.  *)
THEOREM LibraryTypes == ASSUME LibraryAssumption PROVE LibrarySpec => []LibraryTypeOK
<1>1. LibraryInit => LibraryTypeOK
  BY TypesInit
<1>2. LibraryTypeOK /\ [LibraryNext]_libraryVars => LibraryTypeOK'
  BY TypesNext
<1> QED BY <1>1, <1>2, PTL DEF LibrarySpec

-----------------------------------------------------------------------------
(* Pointers.  They are never taken back; a thread past LoadXrayCore saw    *)
(* both required ones, or found its own symbol.                            *)
PointersInv ==
  /\ handle => Required \subseteq ptr
  /\ \A t \in Thread :
       /\ call[t].pc \in {"loaded", "core", "reading"} /\ call[t].fn \notin Optional
            => Required \subseteq ptr
       /\ call[t].pc \in {"core", "reading"} /\ call[t].fn \in Optional => call[t].fn \in ptr

(* Every step keeps them. *)
LEMMA PointersNext ==
  ASSUME LibraryAssumption, LibraryTypeOK, PointersInv, [LibraryNext]_libraryVars PROVE PointersInv'
<1>1. CASE UNCHANGED libraryVars
  BY <1>1 DEF libraryVars, PointersInv, At
<1>2. CASE LibraryNext
  <2> USE DEF loaderVars, LibraryTypeOK, Call, PointersInv
  <2>1. ASSUME NEW t \in Thread, PrepareXrayAssetDir(t) PROVE PointersInv'
    BY <2>1 DEF PrepareXrayAssetDir, AfterPrepare, Step, At
  <2>2. ASSUME NEW t \in Thread, Setenv(t) PROVE PointersInv'
    BY <2>2 DEF Setenv, AfterPrepare, Step, At
  <2>3. ASSUME NEW t \in Thread, LoadXrayCore(t) PROVE PointersInv'
    BY <2>3 DEF LoadXrayCore, CoreLoaded, Step, At
  <2>4. ASSUME NEW t \in Thread, Dlopen(t) PROVE PointersInv'
    BY <2>4 DEF Dlopen, GiveUp, Return, Step, At
  <2>5. ASSUME NEW t \in Thread, StoreInvoke(t) PROVE PointersInv'
    BY <2>5 DEF StoreInvoke, Step, At
  <2>6. ASSUME NEW t \in Thread, StoreFree(t) PROVE PointersInv'
    BY <2>6 DEF StoreFree, Step, At
  <2>7. ASSUME NEW t \in Thread, StoreHandle(t) PROVE PointersInv'
    BY <2>7 DEF StoreHandle, GiveUp, Return, Step, At
  <2>8. ASSUME NEW t \in Thread, WritePingConfig(t) PROVE PointersInv'
    BY <2>8 DEF WritePingConfig, Return, Step, At
  <2>9. ASSUME NEW t \in Thread, InvokeXray(t) PROVE PointersInv'
    BY <2>9 DEF InvokeXray, Step, At
  <2>10. ASSUME NEW t \in Thread, CoreReadsFile(t) PROVE PointersInv'
    BY <2>10 DEF CoreReadsFile, At
  <2>11. ASSUME NEW t \in Thread, PingReturns(t) PROVE PointersInv'
    BY <2>11 DEF PingReturns, Return, At
  <2>12. ASSUME NEW t \in Thread, LoadOptionalSymbol(t) PROVE PointersInv'
    BY <2>12 DEF LoadOptionalSymbol, GiveUp, Return, At
  <2>13. ASSUME NEW t \in Thread, CallSymbol(t) PROVE PointersInv'
    BY <2>13 DEF CallSymbol, Return, Step, At
  <2>14. ASSUME NEW t \in Thread, CoreReturns(t) PROVE PointersInv'
    BY <2>14 DEF CoreReturns, Return, At
  <2>15. ASSUME NEW t \in Thread, Leave(t) PROVE PointersInv'
    BY <2>15 DEF Leave, At, IdleCall
  <2>16. ASSUME NEW t \in Worker, NEW port \in Port, NEW config \in Config,
                PingOutbound(t, port, config)
         PROVE  PointersInv'
    BY <2>16 DEF PingOutbound, Begin, At, IdleCall
  <2>17. ASSUME StartXray PROVE PointersInv'
    BY <2>17 DEF StartXray, Begin, At, IdleCall
  <2>18. ASSUME StopXray PROVE PointersInv'
    BY <2>18 DEF StopXray, Begin, At, IdleCall
  <2>19. ASSUME NEW fn \in Optional, NEW config \in Config \cup {NoConfig},
                CallOptional(fn, config)
         PROVE  PointersInv'
    BY <2>19 DEF CallOptional, Begin, At, IdleCall
  <2>20. ASSUME RuntimeStarts PROVE PointersInv'
    BY <2>20 DEF RuntimeStarts
  <2> QED
    BY <1>2, <2>1, <2>2, <2>3, <2>4, <2>5, <2>6, <2>7, <2>8, <2>9, <2>10, <2>11, <2>12, <2>13,
       <2>14, <2>15, <2>16, <2>17, <2>18, <2>19, <2>20, NextCases
<1> QED BY <1>1, <1>2

(* No thread calls through a null pointer, however many load the library   *)
(* at once and whichever symbols it has.                                   *)
THEOREM NoNullCalls == ASSUME LibraryAssumption PROVE LibrarySpec => []NoNullCall
<1>1. LibraryInit => PointersInv
  BY DEF LibraryInit, PointersInv, IdleCall
<1>2. LibraryTypeOK /\ PointersInv /\ [LibraryNext]_libraryVars => PointersInv'
  BY PointersNext
<1>3. PointersInv => NoNullCall
  BY DEF PointersInv, NoNullCall
<1> QED BY <1>1, <1>2, <1>3, LibraryTypes, PTL DEF LibrarySpec

-----------------------------------------------------------------------------
(* The environment and the first to open the library.  A thread between    *)
(* the check and the setenv holds the mutex and the directory is not set,  *)
(* so no ping or start can have prepared and opened the library.           *)
LoaderInv ==
  /\ assetEnvSet <=> environ
  /\ go.asset => assetEnvSet
  /\ go.state # "absent" => go.asset \/ go.opener \in Optional
  /\ handle \/ xrayRunning \/ ptr # {} => go.state # "absent"
  /\ \A t \in Thread :
       /\ At(t, "setenv") => mutex = t /\ ~assetEnvSet
       /\ call[t].pc \in {"write", "load", "open"} /\ call[t].fn \notin Optional
            => assetEnvSet \/ go.state # "absent"
       /\ call[t].pc \in {"invoke", "free", "handle", "loaded", "core"} => go.state # "absent"

(* Every step keeps it. *)
LEMMA LoaderNext ==
  ASSUME LibraryAssumption, LibraryTypeOK, LoaderInv, [LibraryNext]_libraryVars PROVE LoaderInv'
<1>1. CASE UNCHANGED libraryVars
  BY <1>1 DEF libraryVars, LoaderInv, At
<1>2. CASE LibraryNext
  <2> USE DEF loaderVars, LibraryTypeOK, Call, Runtime, LoaderInv, At
  <2>1. ASSUME NEW t \in Thread, PrepareXrayAssetDir(t) PROVE LoaderInv'
    BY <2>1 DEF PrepareXrayAssetDir, MutexFree, AfterPrepare, Step, LibraryAssumption
  <2>2. ASSUME NEW t \in Thread, Setenv(t) PROVE LoaderInv'
    BY <2>2 DEF Setenv, AfterPrepare, Step
  <2>3. ASSUME NEW t \in Thread, LoadXrayCore(t) PROVE LoaderInv'
    BY <2>3 DEF LoadXrayCore, CoreLoaded, Step
  <2>4. ASSUME NEW t \in Thread, Dlopen(t) PROVE LoaderInv'
    <3>1. CASE GiveUp(t) /\ UNCHANGED go
      BY <2>4, <3>1 DEF Dlopen, GiveUp, Return
    <3>2. CASE /\ Step(t, "invoke")
               /\ go' = IF go.state = "absent"
                        THEN [state |-> "starting", asset |-> environ, opener |-> call[t].fn] ELSE go
      <4>1. \/ go.state # "absent" /\ go' = go
            \/ /\ go.state = "absent"
               /\ go' = [state |-> "starting", asset |-> environ, opener |-> call[t].fn]
        BY <3>2
      <4>2. /\ go'.state # "absent"
            /\ go'.asset \/ go'.opener \in Optional
            /\ go'.asset => assetEnvSet
        BY <2>4, <4>1 DEF Dlopen
      <4> QED BY <2>4, <3>2, <4>2 DEF Dlopen, Step
    <3> QED BY <2>4, <3>1, <3>2 DEF Dlopen
  <2>5. ASSUME NEW t \in Thread, StoreInvoke(t) PROVE LoaderInv'
    BY <2>5 DEF StoreInvoke, Step
  <2>6. ASSUME NEW t \in Thread, StoreFree(t) PROVE LoaderInv'
    BY <2>6 DEF StoreFree, Step
  <2>7. ASSUME NEW t \in Thread, StoreHandle(t) PROVE LoaderInv'
    BY <2>7 DEF StoreHandle, GiveUp, Return, Step
  <2>8. ASSUME NEW t \in Thread, WritePingConfig(t) PROVE LoaderInv'
    BY <2>8 DEF WritePingConfig, Return, Step
  <2>9. ASSUME NEW t \in Thread, InvokeXray(t) PROVE LoaderInv'
    BY <2>9 DEF InvokeXray, Step
  <2>10. ASSUME NEW t \in Thread, CoreReadsFile(t) PROVE LoaderInv'
    BY <2>10 DEF CoreReadsFile
  <2>11. ASSUME NEW t \in Thread, PingReturns(t) PROVE LoaderInv'
    BY <2>11 DEF PingReturns, Return
  <2>12. ASSUME NEW t \in Thread, LoadOptionalSymbol(t) PROVE LoaderInv'
    BY <2>12 DEF LoadOptionalSymbol, GiveUp, Return
  <2>13. ASSUME NEW t \in Thread, CallSymbol(t) PROVE LoaderInv'
    BY <2>13 DEF CallSymbol, Return, Step
  <2>14. ASSUME NEW t \in Thread, CoreReturns(t) PROVE LoaderInv'
    BY <2>14 DEF CoreReturns, Return
  <2>15. ASSUME NEW t \in Thread, Leave(t) PROVE LoaderInv'
    BY <2>15 DEF Leave, At, IdleCall
  <2>16. ASSUME NEW t \in Worker, NEW port \in Port, NEW config \in Config,
                PingOutbound(t, port, config)
         PROVE  LoaderInv'
    BY <2>16 DEF PingOutbound, Begin, At, IdleCall
  <2>17. ASSUME StartXray PROVE LoaderInv'
    BY <2>17 DEF StartXray, Begin, At, IdleCall
  <2>18. ASSUME StopXray PROVE LoaderInv'
    BY <2>18 DEF StopXray, Begin, At, IdleCall
  <2>19. ASSUME NEW fn \in Optional, NEW config \in Config \cup {NoConfig},
                CallOptional(fn, config)
         PROVE  LoaderInv'
    BY <2>19 DEF CallOptional, Begin, At, IdleCall
  <2>20. ASSUME RuntimeStarts PROVE LoaderInv'
    BY <2>20 DEF RuntimeStarts
  <2> QED
    BY <1>2, <2>1, <2>2, <2>3, <2>4, <2>5, <2>6, <2>7, <2>8, <2>9, <2>10, <2>11, <2>12, <2>13,
       <2>14, <2>15, <2>16, <2>17, <2>18, <2>19, <2>20, NextCases
<1> QED BY <1>1, <1>2

LEMMA LoaderAlways == ASSUME LibraryAssumption PROVE LibrarySpec => []LoaderInv
<1>1. LibraryInit => LoaderInv
  BY DEF LibraryInit, LoaderInv, IdleCall, At
<1>2. LibraryTypeOK /\ LoaderInv /\ [LibraryNext]_libraryVars => LoaderInv'
  BY LoaderNext
<1> QED BY <1>1, <1>2, LibraryTypes, PTL DEF LibrarySpec

(* The environment is left alone once a Go runtime may read it, unless an  *)
(* optional function opened the library before the directory was prepared. *)
THEOREM NoLateSetenv ==
  ASSUME LibraryAssumption PROVE LibrarySpec => []NoSetenvAfterPreparedLoad
<1>1. LoaderInv => NoSetenvAfterPreparedLoad
  BY DEF LoaderInv, NoSetenvAfterPreparedLoad
<1> QED BY <1>1, LoaderAlways, PTL

(* Every start and every ping of Xray finds the asset directory, unless an *)
(* optional function opened the library.                                   *)
THEOREM CoresFindAssets ==
  ASSUME LibraryAssumption PROVE LibrarySpec => []PreparedCoreFindsAssets
<1>1. LoaderInv => PreparedCoreFindsAssets
  BY DEF LoaderInv, PreparedCoreFindsAssets, At
<1> QED BY <1>1, LoaderAlways, PTL

-----------------------------------------------------------------------------
(* The pings.  Workers only ping, and they ping through a port.            *)
PingsInv ==
  /\ \A t \in Worker : call[t].fn = "pingOutbound" /\ (call[t].pc # "idle" => call[t].file \in Port)
  /\ call[Ui].pc # "idle" => call[Ui].fn # "pingOutbound"
  /\ \A t \in Thread : call[t].pc \in {"write", "reading"} => call[t].fn = "pingOutbound"

(* Every step keeps it. *)
LEMMA PingsNext ==
  ASSUME LibraryAssumption, LibraryTypeOK, PingsInv, [LibraryNext]_libraryVars PROVE PingsInv'
<1>1. CASE UNCHANGED libraryVars
  BY <1>1 DEF libraryVars, PingsInv
<1>2. CASE LibraryNext
  <2> USE DEF loaderVars, LibraryTypeOK, Call, PingsInv, At, LibraryAssumption
  <2>1. ASSUME NEW t \in Thread, PrepareXrayAssetDir(t) PROVE PingsInv'
    BY <2>1 DEF PrepareXrayAssetDir, AfterPrepare, Step
  <2>2. ASSUME NEW t \in Thread, Setenv(t) PROVE PingsInv'
    BY <2>2 DEF Setenv, AfterPrepare, Step
  <2>3. ASSUME NEW t \in Thread, LoadXrayCore(t) PROVE PingsInv'
    BY <2>3 DEF LoadXrayCore, Step
  <2>4. ASSUME NEW t \in Thread, Dlopen(t) PROVE PingsInv'
    BY <2>4 DEF Dlopen, GiveUp, Return, Step
  <2>5. ASSUME NEW t \in Thread, StoreInvoke(t) PROVE PingsInv'
    BY <2>5 DEF StoreInvoke, Step
  <2>6. ASSUME NEW t \in Thread, StoreFree(t) PROVE PingsInv'
    BY <2>6 DEF StoreFree, Step
  <2>7. ASSUME NEW t \in Thread, StoreHandle(t) PROVE PingsInv'
    BY <2>7 DEF StoreHandle, GiveUp, Return, Step
  <2>8. ASSUME NEW t \in Thread, WritePingConfig(t) PROVE PingsInv'
    BY <2>8 DEF WritePingConfig, Return, Step
  <2>9. ASSUME NEW t \in Thread, InvokeXray(t) PROVE PingsInv'
    BY <2>9 DEF InvokeXray, Step
  <2>10. ASSUME NEW t \in Thread, CoreReadsFile(t) PROVE PingsInv'
    BY <2>10 DEF CoreReadsFile
  <2>11. ASSUME NEW t \in Thread, PingReturns(t) PROVE PingsInv'
    BY <2>11 DEF PingReturns, Return
  <2>12. ASSUME NEW t \in Thread, LoadOptionalSymbol(t) PROVE PingsInv'
    BY <2>12 DEF LoadOptionalSymbol, GiveUp, Return
  <2>13. ASSUME NEW t \in Thread, CallSymbol(t) PROVE PingsInv'
    BY <2>13 DEF CallSymbol, Return, Step
  <2>14. ASSUME NEW t \in Thread, CoreReturns(t) PROVE PingsInv'
    BY <2>14 DEF CoreReturns, Return
  <2>15. ASSUME NEW t \in Thread, Leave(t) PROVE PingsInv'
    BY <2>15 DEF Leave, IdleCall
  <2>16. ASSUME NEW t \in Worker, NEW port \in Port, NEW config \in Config,
                PingOutbound(t, port, config)
         PROVE  PingsInv'
    BY <2>16 DEF PingOutbound, Begin, IdleCall
  <2>17. ASSUME StartXray PROVE PingsInv'
    BY <2>17 DEF StartXray, Begin, IdleCall
  <2>18. ASSUME StopXray PROVE PingsInv'
    BY <2>18 DEF StopXray, Begin, IdleCall
  <2>19. ASSUME NEW fn \in Optional, NEW config \in Config \cup {NoConfig},
                CallOptional(fn, config)
         PROVE  PingsInv'
    BY <2>19 DEF CallOptional, Begin, IdleCall
  <2>20. ASSUME RuntimeStarts PROVE PingsInv'
    BY <2>20 DEF RuntimeStarts
  <2> QED
    BY <1>2, <2>1, <2>2, <2>3, <2>4, <2>5, <2>6, <2>7, <2>8, <2>9, <2>10, <2>11, <2>12, <2>13,
       <2>14, <2>15, <2>16, <2>17, <2>18, <2>19, <2>20, NextCases
<1> QED BY <1>1, <1>2

PingBar == [t \in Worker |-> PingOf(call[t])]

FileBar == [p \in Port |-> file[p]]

(* A step of a thread changes the ping of that thread at most.             *)
LEMMA PingOfThread ==
  ASSUME LibraryAssumption, NEW t \in Thread, NEW c, call' = [call EXCEPT ![t] = c],
         call \in [Thread -> Call]
  PROVE  /\ t \in Worker => PingBar' = [PingBar EXCEPT ![t] = PingOf(c)]
         /\ t = Ui => PingBar' = PingBar
  BY DEF PingBar, LibraryAssumption

(* While a worker stays in the same part of a ping, nothing is seen of it. *)
LEMMA WorkerStep ==
  ASSUME LibraryAssumption, LibraryTypeOK, NEW t \in Worker, NEW pc, Step(t, pc),
         call[t].pc # "idle", pc # "idle", PingPc(pc) = PingPc(call[t].pc)
  PROVE  PingBar' = PingBar
<1>1. PingOf([call[t] EXCEPT !.pc = pc]) = PingOf(call[t])
  BY DEF PingOf, LibraryTypeOK, Call
<1>2. PingBar' = [PingBar EXCEPT ![t] = PingOf([call[t] EXCEPT !.pc = pc])]
  BY PingOfThread DEF LibraryTypeOK, Step
<1> QED BY <1>1, <1>2 DEF PingBar

LEMMA ReturnedPing ==
  ASSUME NEW a, NEW b, NEW c, NEW d, NEW e, NEW ok, NEW p, NEW q,
         p = [pc |-> a, port |-> b, config |-> c, seen |-> d, ok |-> e],
         q = [p EXCEPT !.pc = "returned", !.ok = ok]
  PROVE  q = [pc |-> "returned", port |-> b, config |-> c, seen |-> d, ok |-> ok]
  OBVIOUS

(* A call of a worker that returns is a ping that returns.                 *)
LEMMA WorkerReturn ==
  ASSUME LibraryAssumption, LibraryTypeOK, NEW t \in Worker, NEW ok \in BOOLEAN, Return(t, ok),
         call[t].pc \notin {"idle", "returned"}, ok => call[t].pc = "reading", file' = file
  PROVE  Service!PingReturns(t)
<1> DEFINE c == [call[t] EXCEPT !.pc = "returned", !.ok = ok]
<1>1. /\ call[t] \in Call
      /\ PingBar[t] = PingOf(call[t])
  BY DEF LibraryTypeOK, PingBar
<1>2. PingOf(call[t]).pc \in {"asked", "written", "reading"} /\ (ok => PingOf(call[t]).pc = "reading")
  BY <1>1 DEF PingOf, PingPc, Call
<1>3. PingOf(c) = [PingOf(call[t]) EXCEPT !.pc = "returned", !.ok = ok]
  <2>1. /\ c.pc = "returned" /\ c.ok = ok
        /\ c.file = call[t].file /\ c.config = call[t].config /\ c.seen = call[t].seen
    BY <1>1 DEF Call
  <2>2. PingPc("returned") = "returned"
    BY DEF PingPc
  <2>3. PingOf(c) = [pc |-> "returned", port |-> call[t].file, config |-> call[t].config,
                     seen |-> call[t].seen, ok |-> ok]
    BY <2>1, <2>2, Zenon DEF PingOf
  <2>4. PICK p : p = PingOf(call[t])
    OBVIOUS
  <2>5. p = [pc |-> PingPc(call[t].pc), port |-> call[t].file, config |-> call[t].config,
             seen |-> call[t].seen, ok |-> call[t].ok]
    BY <2>4 DEF PingOf
  <2>6. PICK q : q = [p EXCEPT !.pc = "returned", !.ok = ok]
    OBVIOUS
  <2>7. q = [pc |-> "returned", port |-> call[t].file, config |-> call[t].config,
             seen |-> call[t].seen, ok |-> ok]
    BY <2>5, <2>6, ReturnedPing, Zenon
  <2> HIDE DEF c
  <2>8. q = PingOf(c)
    BY <2>3, <2>7, Zenon
  <2>9. q = [PingOf(call[t]) EXCEPT !.pc = "returned", !.ok = ok]
    BY <2>4, <2>6, Zenon
  <2> QED BY <2>8, <2>9, Zenon
<1>4. PingBar' = [PingBar EXCEPT ![t] = PingOf(c)]
  BY PingOfThread DEF LibraryTypeOK, Return
<1>5. PingBar' = [PingBar EXCEPT ![t].pc = "returned", ![t].ok = ok]
  BY <1>1, <1>3, <1>4 DEF PingBar
<1>6. FileBar' = FileBar
  BY DEF FileBar
<1> QED BY <1>1, <1>2, <1>5, <1>6 DEF Service!PingReturns, PingBar, FileBar

LEMMA ReadingPing ==
  ASSUME NEW a, NEW b, NEW c, NEW d, NEW e, NEW seen, NEW p, NEW q,
         p = [pc |-> a, port |-> b, config |-> c, seen |-> d, ok |-> e],
         q = [p EXCEPT !.pc = "reading", !.seen = seen]
  PROVE  q = [pc |-> "reading", port |-> b, config |-> c, seen |-> seen, ok |-> e]
  OBVIOUS

(* The core reads the file of the port.                                    *)
LEMMA WorkerReads ==
  ASSUME LibraryAssumption, LibraryTypeOK, PingsInv, NEW t \in Worker, CoreReadsFile(t)
  PROVE  Service!CoreReadsFile(t)
<1> DEFINE seen == file[call[t].file]
           c == [call[t] EXCEPT !.pc = "reading", !.seen = seen]
<1>1. /\ call[t] \in Call
      /\ call[t].pc = "core" /\ call[t].file \in Port
      /\ PingBar[t] = PingOf(call[t])
  BY DEF LibraryTypeOK, PingBar, PingsInv, CoreReadsFile, At
<1>2. PingOf(call[t]).pc = "written" /\ PingOf(call[t]).port = call[t].file
  BY <1>1 DEF PingOf, PingPc
<1>3. PingOf(c) = [PingOf(call[t]) EXCEPT !.pc = "reading", !.seen = seen]
  <2>1. /\ c.pc = "reading" /\ c.seen = seen
        /\ c.file = call[t].file /\ c.config = call[t].config /\ c.ok = call[t].ok
    BY <1>1 DEF Call
  <2>2. PingPc("reading") = "reading"
    BY DEF PingPc
  <2>3. PingOf(c) = [pc |-> "reading", port |-> call[t].file, config |-> call[t].config,
                     seen |-> seen, ok |-> call[t].ok]
    BY <2>1, <2>2, Zenon DEF PingOf
  <2>4. PICK p : p = PingOf(call[t])
    OBVIOUS
  <2>5. p = [pc |-> PingPc(call[t].pc), port |-> call[t].file, config |-> call[t].config,
             seen |-> call[t].seen, ok |-> call[t].ok]
    BY <1>1, <2>4 DEF PingOf
  <2>6. PICK q : q = [p EXCEPT !.pc = "reading", !.seen = seen]
    OBVIOUS
  <2>7. q = [pc |-> "reading", port |-> call[t].file, config |-> call[t].config,
             seen |-> seen, ok |-> call[t].ok]
    BY <2>5, <2>6, ReadingPing, Zenon
  <2> HIDE DEF c
  <2>8. q = PingOf(c)
    BY <2>3, <2>7, Zenon
  <2>9. q = [PingOf(call[t]) EXCEPT !.pc = "reading", !.seen = seen]
    BY <2>4, <2>6, Zenon
  <2> QED BY <2>8, <2>9, Zenon
<1>4. PingBar' = [PingBar EXCEPT ![t] = PingOf(c)]
  BY PingOfThread DEF LibraryTypeOK, CoreReadsFile, ConfigFile
<1>5. PingBar' = [PingBar EXCEPT ![t].pc = "reading", ![t].seen = seen]
  BY <1>1, <1>3, <1>4 DEF PingBar
<1>6. FileBar' = FileBar /\ FileBar[call[t].file] = seen
  BY <1>1 DEF FileBar, CoreReadsFile
<1>7. FileBar[PingBar[t].port] = seen
  BY <1>1, <1>2, <1>6
<1> HIDE DEF seen
<1> QED BY <1>1, <1>2, <1>5, <1>6, <1>7 DEF Service!CoreReadsFile, PingBar, FileBar

LEMMA AskedPing ==
  ASSUME NEW port, NEW config, NEW p, NEW q, p = Service!NoPing,
         q = [p EXCEPT !.pc = "asked", !.port = port, !.config = config]
  PROVE  q = [pc |-> "asked", port |-> port, config |-> config, seen |-> NoConfig, ok |-> FALSE]
  BY DEF Service!NoPing

LEMMA BegunCall ==
  ASSUME NEW port, NEW config, NEW p, NEW q, p = IdleCall,
         q = [p EXCEPT !.pc = "prepare", !.fn = "pingOutbound", !.file = port, !.config = config]
  PROVE  q = [pc |-> "prepare", fn |-> "pingOutbound", file |-> port, config |-> config,
              seen |-> NoConfig, ok |-> FALSE]
  BY DEF IdleCall

(* A worker begins a ping, writes its configuration, and leaves.           *)
LEMMA WorkerBegins ==
  ASSUME LibraryAssumption, LibraryTypeOK, NEW t \in Worker, NEW port \in Port, NEW config \in Config,
         PingOutbound(t, port, config)
  PROVE  Service!PingOutbound(t, port, config)
<1> DEFINE c == [pc |-> "prepare", fn |-> "pingOutbound", file |-> port, config |-> config,
                 seen |-> NoConfig, ok |-> FALSE]
           p == [pc |-> "asked", port |-> port, config |-> config, seen |-> NoConfig, ok |-> FALSE]
<1>1. call' = [call EXCEPT ![t] = c]
  <2>1. PICK p0 : p0 = IdleCall
    OBVIOUS
  <2>2. PICK q0 : q0 = [p0 EXCEPT !.pc = "prepare", !.fn = "pingOutbound", !.file = port,
                                  !.config = config]
    OBVIOUS
  <2>3. q0 = c
    BY <2>1, <2>2, BegunCall, Zenon
  <2>4. call' = [call EXCEPT ![t] = q0]
    BY <2>1, <2>2, Zenon DEF PingOutbound, Begin
  <2> QED BY <2>3, <2>4, Zenon
<1>2. PingBar' = [PingBar EXCEPT ![t] = PingOf(c)]
  BY <1>1, PingOfThread DEF LibraryTypeOK
<1>3. PingOf(c) = p
  BY DEF PingOf, PingPc
<1>4. p = [Service!NoPing EXCEPT !.pc = "asked", !.port = port, !.config = config]
  <2>1. PICK p0 : p0 = Service!NoPing
    OBVIOUS
  <2>2. PICK q0 : q0 = [p0 EXCEPT !.pc = "asked", !.port = port, !.config = config]
    OBVIOUS
  <2>3. q0 = p
    BY <2>1, <2>2, AskedPing, Zenon
  <2> QED BY <2>1, <2>2, <2>3, Zenon
<1>5. PingBar[t].pc = "idle"
  BY DEF PingOutbound, Begin, At, PingBar, PingOf, PingPc
<1>6. FileBar' = FileBar
  BY DEF PingOutbound, FileBar
<1> HIDE DEF c, p
<1> QED BY <1>2, <1>3, <1>4, <1>5, <1>6 DEF Service!PingOutbound, PingBar, FileBar

LEMMA WorkerWrites ==
  ASSUME LibraryAssumption, LibraryTypeOK, PingsInv, NEW t \in Worker, WritePingConfig(t)
  PROVE  Service!PingReturns(t) \/ Service!WritePingConfig(t)
<1>1. CASE Return(t, FALSE) /\ UNCHANGED file
  BY <1>1, WorkerReturn DEF WritePingConfig, At
<1>2. CASE Step(t, "load") /\ file' = [file EXCEPT ![ConfigFile(t)] = call[t].config]
  <2>1. /\ call[t] \in Call /\ call[t].pc = "write" /\ call[t].file \in Port
        /\ PingBar[t] = PingOf(call[t])
    BY DEF LibraryTypeOK, PingsInv, WritePingConfig, At, PingBar
  <2>2. /\ PingOf(call[t]).pc = "asked" /\ PingOf(call[t]).port = call[t].file
        /\ PingOf(call[t]).config = call[t].config
    BY <2>1 DEF PingOf, PingPc
  <2>3. PingOf([call[t] EXCEPT !.pc = "load"]) = [PingOf(call[t]) EXCEPT !.pc = "written"]
    BY <2>1 DEF PingOf, PingPc, Call
  <2>4. PingBar' = [PingBar EXCEPT ![t] = PingOf([call[t] EXCEPT !.pc = "load"])]
    BY <1>2, PingOfThread DEF LibraryTypeOK, Step
  <2>5. PingBar' = [PingBar EXCEPT ![t].pc = "written"]
    BY <2>1, <2>3, <2>4 DEF PingBar
  <2>6. FileBar' = [FileBar EXCEPT ![call[t].file] = call[t].config]
    BY <1>2, <2>1 DEF FileBar, ConfigFile, LibraryTypeOK
  <2> QED BY <2>1, <2>2, <2>5, <2>6 DEF Service!WritePingConfig, PingBar, FileBar
<1> QED BY <1>1, <1>2 DEF WritePingConfig

LEMMA WorkerLeaves ==
  ASSUME LibraryAssumption, LibraryTypeOK, NEW t \in Worker, Leave(t)
  PROVE  Service!Leave(t)
<1>1. PingBar' = [PingBar EXCEPT ![t] = PingOf(IdleCall)]
  BY PingOfThread DEF LibraryTypeOK, Leave
<1>2. PingOf(IdleCall) = Service!NoPing
  BY DEF PingOf, PingPc, IdleCall, Service!NoPing
<1>3. PingBar[t].pc = "returned"
  BY DEF Leave, At, PingBar, PingOf, PingPc
<1>4. FileBar' = FileBar
  BY DEF Leave, FileBar
<1> QED BY <1>1, <1>2, <1>3, <1>4 DEF Service!Leave, PingBar, FileBar

(* The ArkTS thread never shows, and it writes to the file of the test.    *)
LEMMA UiHidden ==
  ASSUME LibraryAssumption, LibraryTypeOK, NEW c, call' = [call EXCEPT ![Ui] = c],
         file' = file \/ \E v : file' = [file EXCEPT ![Tested] = v]
  PROVE  PingBar' = PingBar /\ FileBar' = FileBar
<1>1. PingBar' = PingBar
  BY PingOfThread DEF LibraryTypeOK
<1>2. FileBar' = FileBar
  BY DEF FileBar, LibraryTypeOK, LibraryAssumption
<1> QED BY <1>1, <1>2

(* Every step of the library is a step of the ping service, or none.       *)
LEMMA PingSimulation ==
  ASSUME LibraryAssumption, LibraryTypeOK, PingsInv, [LibraryNext]_libraryVars
  PROVE  [Service!PingNext]_(Service!pingVars)
<1> DEFINE Hidden == PingBar' = PingBar /\ FileBar' = FileBar
           Goal == [Service!PingNext]_(Service!pingVars)
<1>1. Hidden => Goal
  BY DEF Service!pingVars, PingBar, FileBar
<1>2. ASSUME NEW t \in Worker, Service!PingStep(t) \/ Service!Leave(t) PROVE Goal
  BY <1>2 DEF Service!PingNext
<1>3. file' = file => FileBar' = FileBar
  BY DEF FileBar
<1>4. \A t \in Worker : /\ call[t].fn = "pingOutbound" /\ call[t].fn \notin Optional
                         /\ call[t].fn # Tested
  BY DEF PingsInv, LibraryAssumption
<1>5. CASE UNCHANGED libraryVars
  BY <1>1, <1>3, <1>5 DEF libraryVars, PingBar
<1>6. CASE LibraryNext
  <2>1. ASSUME NEW t \in Worker, ThreadStep(t) PROVE Goal
    <3> USE <1>1, <1>3, <1>4, <2>1, WorkerStep DEF At, PingPc
    <3>1. CASE PrepareXrayAssetDir(t)
      BY <3>1 DEF PrepareXrayAssetDir, AfterPrepare
    <3>2. CASE Setenv(t)
      BY <3>2 DEF Setenv, AfterPrepare
    <3>3. CASE LoadXrayCore(t)
      BY <3>3 DEF LoadXrayCore
    <3>4. CASE StoreInvoke(t)
      BY <3>4 DEF StoreInvoke
    <3>5. CASE StoreFree(t)
      BY <3>5 DEF StoreFree
    <3>6. CASE InvokeXray(t)
      BY <3>6 DEF InvokeXray
    <3>7. CASE Dlopen(t)
      <4>1. Return(t, FALSE) => Goal
        BY <3>7, <1>2, WorkerReturn DEF Dlopen, Service!PingStep
      <4>2. Step(t, "invoke") => Goal
        BY <3>7 DEF Dlopen
      <4> QED BY <3>7, <4>1, <4>2 DEF Dlopen, GiveUp
    <3>8. CASE StoreHandle(t)
      <4>1. Return(t, FALSE) => Goal
        BY <3>8, <1>2, WorkerReturn DEF StoreHandle, Service!PingStep
      <4>2. Step(t, "loaded") => Goal
        BY <3>8 DEF StoreHandle
      <4> QED BY <3>8, <4>1, <4>2 DEF StoreHandle, GiveUp
    <3>9. CASE WritePingConfig(t)
      BY <3>9, <1>2, WorkerWrites DEF Service!PingStep
    <3>10. CASE CoreReadsFile(t)
      BY <3>10, <1>2, WorkerReads DEF Service!PingStep
    <3>11. CASE PingReturns(t)
      <4>1. PICK a \in PingAnswer : Return(t, a.success /\ ValidDelay(a.delay))
        BY <3>11 DEF PingReturns
      <4>2. Service!PingReturns(t)
        BY <3>11, <4>1, WorkerReturn DEF PingReturns
      <4> QED BY <4>2, <1>2 DEF Service!PingStep
    <3>12. ~LoadOptionalSymbol(t) /\ ~CallSymbol(t) /\ ~CoreReturns(t)
      BY DEF LoadOptionalSymbol, CallSymbol, CoreReturns
    <3> QED
      BY <2>1, <3>1, <3>2, <3>3, <3>4, <3>5, <3>6, <3>7, <3>8, <3>9, <3>10, <3>11, <3>12
      DEF ThreadStep
  <2>2. ASSUME NEW t \in Worker, Leave(t) PROVE Goal
    BY <1>2, <2>2, WorkerLeaves
  <2>3. ASSUME NEW t \in Worker, NEW port \in Port, NEW config \in Config,
               PingOutbound(t, port, config)
        PROVE  Goal
    BY <2>3, WorkerBegins DEF Service!PingNext
  <2>4. ASSUME ThreadStep(Ui) PROVE Hidden
    <3> USE DEF At, GiveUp
    <3>1. ~WritePingConfig(Ui) /\ ~CoreReadsFile(Ui)
      BY DEF WritePingConfig, CoreReadsFile, PingsInv
    <3>2. file' = file \/ \E v : file' = [file EXCEPT ![Tested] = v]
      BY <2>4, <3>1 DEF ThreadStep, PrepareXrayAssetDir, Setenv, LoadXrayCore, Dlopen, StoreInvoke,
         StoreFree, StoreHandle, InvokeXray, PingReturns, LoadOptionalSymbol, CallSymbol, CoreReturns,
         loaderVars
    <3>3. call' = call \/ \E c : call' = [call EXCEPT ![Ui] = c]
      <4>1. \A pc : Step(Ui, pc) => \E c : call' = [call EXCEPT ![Ui] = c]
        BY DEF Step
      <4>2. \A ok : Return(Ui, ok) => \E c : call' = [call EXCEPT ![Ui] = c]
        BY DEF Return
      <4>3. call' = call \/ \E pc, ok : Step(Ui, pc) \/ Return(Ui, ok)
        <5>1. CASE PrepareXrayAssetDir(Ui) \/ Setenv(Ui) \/ LoadXrayCore(Ui)
          BY <5>1, Zenon DEF PrepareXrayAssetDir, Setenv, LoadXrayCore
        <5>2. CASE Dlopen(Ui) \/ StoreInvoke(Ui) \/ StoreFree(Ui) \/ StoreHandle(Ui)
          BY <5>2, Zenon DEF Dlopen, StoreInvoke, StoreFree, StoreHandle
        <5>3. CASE InvokeXray(Ui) \/ CoreReturns(Ui)
          BY <5>3, Zenon DEF InvokeXray, CoreReturns
        <5>4. CASE PingReturns(Ui)
          BY <5>4, Zenon DEF PingReturns
        <5>5. CASE LoadOptionalSymbol(Ui)
          BY <5>5, Zenon DEF LoadOptionalSymbol
        <5>6. CASE CallSymbol(Ui)
          BY <5>6, Zenon DEF CallSymbol
        <5> QED BY <2>4, <3>1, <5>1, <5>2, <5>3, <5>4, <5>5, <5>6 DEF ThreadStep
      <4> QED BY <4>1, <4>2, <4>3
    <3>4. CASE call' = call
      <4>1. PingBar' = PingBar
        BY <3>4 DEF PingBar
      <4>2. FileBar' = FileBar
        BY <3>2 DEF FileBar, LibraryTypeOK, LibraryAssumption
      <4> QED BY <4>1, <4>2
    <3>5. CASE \E c : call' = [call EXCEPT ![Ui] = c]
      BY <3>2, <3>5, UiHidden
    <3> QED BY <3>3, <3>4, <3>5
  <2>5. ASSUME UiCall PROVE Hidden
    <3>1. file' = file
      BY <2>5 DEF UiCall, StartXray, CallOptional, StopXray, Leave
    <3>2. \E c : call' = [call EXCEPT ![Ui] = c]
      <4>1. \A pc, fn, f, config : Begin(Ui, pc, fn, f, config) => \E c : call' = [call EXCEPT ![Ui] = c]
        BY DEF Begin
      <4> QED
        BY <2>5, <4>1 DEF UiCall, StartXray, CallOptional, StopXray, Leave
    <3> QED BY <3>1, <3>2, UiHidden
  <2>6. ASSUME RuntimeStarts PROVE Hidden
    BY <2>6 DEF RuntimeStarts, PingBar, FileBar
  <2> QED
    BY <1>1, <1>6, <2>1, <2>2, <2>3, <2>4, <2>5, <2>6 DEF LibraryNext, Thread
<1> QED BY <1>5, <1>6

(* The library gives every ping what the delay tests rely on: its steps    *)
(* are those of PingService, whoever else loads and calls it meanwhile.    *)
THEOREM PingsAreServed == ASSUME LibraryAssumption PROVE LibrarySpec => ImplementsPingService
<1>1. LibraryInit => PingsInv
  BY DEF LibraryInit, PingsInv, IdleCall
<1>2. LibraryTypeOK /\ PingsInv /\ [LibraryNext]_libraryVars => PingsInv'
  BY PingsNext
<1>3. LibraryInit => Service!PingInit
  BY DEF LibraryInit, Service!PingInit, PingOf, PingPc, IdleCall, Service!NoPing
<1>4. LibraryTypeOK /\ PingsInv /\ [LibraryNext]_libraryVars
        => [Service!PingNext]_(Service!pingVars)
  BY PingSimulation
<1> QED
  BY <1>1, <1>2, <1>3, <1>4, LibraryTypes, PTL
  DEF LibrarySpec, ImplementsPingService, Service!PingSpec
=============================================================================
