---------------------------- MODULE PingService ----------------------------
(***************************************************************************)
(* What the delay tests rely on when they call pingOutbound from several   *)
(* threads: each call writes its configuration to the file of its port,    *)
(* the core reads that file some time later, and the call returns.         *)
(* XrayLibrary implements it.                                              *)
(***************************************************************************)
CONSTANTS Worker,     \* threads of the task pool
          Port,       \* local SOCKS ports that pings are given
          Config, NoConfig

VARIABLES file,  \* what the configuration files hold
          ping   \* the call each thread is in

pingVars == <<file, ping>>

(* seen : the configuration the core measures; ok : what the call returns. *)
Ping == [pc : {"idle", "asked", "written", "reading", "returned"}, port : Port \cup {NoConfig},
         config : Config \cup {NoConfig}, seen : Config \cup {NoConfig}, ok : BOOLEAN]

NoPing == [pc |-> "idle", port |-> NoConfig, config |-> NoConfig, seen |-> NoConfig, ok |-> FALSE]

PingOutbound(t, port, config) ==
  /\ ping[t].pc = "idle"
  /\ ping' = [ping EXCEPT ![t] = [NoPing EXCEPT !.pc = "asked", !.port = port, !.config = config]]
  /\ UNCHANGED file

WritePingConfig(t) ==
  /\ ping[t].pc = "asked"
  /\ file' = [file EXCEPT ![ping[t].port] = ping[t].config]
  /\ ping' = [ping EXCEPT ![t].pc = "written"]

CoreReadsFile(t) ==
  /\ ping[t].pc = "written"
  /\ ping' = [ping EXCEPT ![t].pc = "reading", ![t].seen = file[ping[t].port]]
  /\ UNCHANGED file

(* A call that cannot write its file, or has no core, fails early.         *)
PingReturns(t) ==
  /\ ping[t].pc \in {"asked", "written", "reading"}
  /\ \E ok \in BOOLEAN :
       /\ ok => ping[t].pc = "reading"
       /\ ping' = [ping EXCEPT ![t].pc = "returned", ![t].ok = ok]
  /\ UNCHANGED file

Leave(t) ==
  /\ ping[t].pc = "returned"
  /\ ping' = [ping EXCEPT ![t] = NoPing]
  /\ UNCHANGED file

PingInit == file = [p \in Port |-> NoConfig] /\ ping = [t \in Worker |-> NoPing]

PingStep(t) == WritePingConfig(t) \/ CoreReadsFile(t) \/ PingReturns(t)

PingNext == \E t \in Worker :
  PingStep(t) \/ Leave(t) \/ \E port \in Port, config \in Config : PingOutbound(t, port, config)

PingSpec == PingInit /\ [][PingNext]_pingVars
=============================================================================
