------------------------ MODULE VpnExtensionPromise ------------------------
(* VpnExtension keeps the promise of VpnSession: the refinement mapping. *)
EXTENDS VpnExtension

(* The configuration behind a data plane that the bridge reports up.       *)
CarriedConfig ==
  IF ~bridge.tunRunning THEN NoConfig
  ELSE IF bridge.box # NoConfig THEN bridge.box ELSE bridge.xray

AbstractSession(a) ==
  [life |-> a.life, config |-> a.config, starting |-> a.starting # "no",
   cleaning |-> a.cleaningUp, marked |-> a.poll = "marked"]

Promise == INSTANCE VpnSession WITH
  Session <- Fd,
  session <- [i \in Fd |-> AbstractSession(ability[i])],
  carried <- CarriedConfig

(* An extension that has its process for itself does, step by step, what   *)
(* VpnSession says: the data plane and the events in the log change        *)
(* together in every interleaving of starts, cleanups, polls and threads.  *)
(* And it answers: each start and each cleanup ends, or the process dies.  *)
KeepsPromiseFairly == Promise!FairSessionSpec
=============================================================================
