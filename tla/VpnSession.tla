----------------------------- MODULE VpnSession -----------------------------
(***************************************************************************)
(* What the VPN extension promises to the main process, without the bridge *)
(* and the awaits of HeyVpnAbility: which configuration its data plane     *)
(* carries, what it writes to the diagnostic log, and the flag of          *)
(* NetSceneStopFlag.  One session is one ability instance, and a session   *)
(* has its process for itself.  VpnExtension implements this specification *)
(* (module VpnExtensionPromise); Connection is built on it.                *)
(***************************************************************************)
EXTENDS Naturals, Sequences

CONSTANTS Session, Config, NoConfig

ASSUME SessionAssumption == NoConfig \notin Config

VARIABLES session,   \* per instance: how far it is
          carried,   \* configuration whose data plane is up
          log,       \* lifecycle events in the shared diagnostic log
          stopFlag   \* an automatic disconnect was marked

sessionVars == <<session, carried, log, stopFlag>>

SessionState == [life : {"none", "live", "destroyed", "dead"},
                 config : Config \cup {NoConfig},
                 starting : BOOLEAN, cleaning : BOOLEAN, marked : BOOLEAN]

NewSession == [life |-> "none", config |-> NoConfig,
               starting |-> FALSE, cleaning |-> FALSE, marked |-> FALSE]

SessionEvent == [kind : {"started", "failed", "cleanup", "auto"}, by : Session]

Record(l, kind, i) == Append(l, [kind |-> kind, by |-> i])

SessionInit ==
  /\ session = [i \in Session |-> NewSession]
  /\ carried = NoConfig
  /\ log = <<>>
  /\ stopFlag = FALSE

Hosted(i) == session[i].life \in {"live", "destroyed"}

Live(i) == session[i].life = "live"

(* The data plane goes down at once; the answer comes with it or follows.  *)
(* A cleanup that is under way already will answer.                        *)
Close(i, s, l) ==
  \/ /\ s.cleaning
     /\ session' = [session EXCEPT ![i] = s]
     /\ log' = l
     /\ UNCHANGED carried
  \/ /\ ~s.cleaning
     /\ carried' = NoConfig
     /\ \/ /\ session' = [session EXCEPT ![i] = [s EXCEPT !.cleaning = TRUE]]
           /\ log' = l
        \/ /\ session' = [session EXCEPT ![i] = s]
           /\ log' = Record(l, "cleanup", i)

(* A request finds no instance, and no process of a former one.            *)
Open(i, config) ==
  /\ session[i].life = "none"
  /\ \A j \in Session : ~Hosted(j)
  /\ session' = [session EXCEPT ![i] = [NewSession EXCEPT !.life = "live",
                                          !.config = config, !.starting = TRUE]]
  /\ UNCHANGED <<carried, log, stopFlag>>

OpenForStop(i) ==
  /\ session[i].life = "none"
  /\ \A j \in Session : ~Hosted(j)
  /\ session' = [session EXCEPT ![i].life = "live"]
  /\ log' = Record(log, "cleanup", i)
  /\ UNCHANGED <<carried, stopFlag>>

StopRequest(i) ==
  /\ Live(i)
  /\ Close(i, session[i], log)
  /\ UNCHANGED stopFlag

Started(i) ==
  /\ Hosted(i) /\ session[i].starting
  /\ session' = [session EXCEPT ![i].starting = FALSE]
  /\ carried' = session[i].config
  /\ log' = Record(log, "started", i)
  /\ UNCHANGED stopFlag

Failed(i) ==
  /\ Hosted(i) /\ session[i].starting
  /\ Close(i, [session[i] EXCEPT !.starting = FALSE], Record(log, "failed", i))
  /\ UNCHANGED stopFlag

Cleaned(i) ==
  /\ Hosted(i) /\ session[i].cleaning
  /\ session' = [session EXCEPT ![i].cleaning = FALSE]
  /\ log' = Record(log, "cleanup", i)
  /\ UNCHANGED <<carried, stopFlag>>

(* The poll of the network marks a disconnect of a session that was up, at *)
(* most once: the cleanup that follows ends the poll.                      *)
Mark(i) ==
  /\ Hosted(i)
  /\ \E k \in DOMAIN log : log[k] = [kind |-> "started", by |-> i]
  /\ \A k \in DOMAIN log : log[k] # [kind |-> "auto", by |-> i]
  /\ session' = [session EXCEPT ![i].marked = TRUE]
  /\ stopFlag' = TRUE
  /\ log' = Record(log, "auto", i)
  /\ UNCHANGED carried

Disconnect(i) ==
  /\ Hosted(i) /\ session[i].marked
  /\ Close(i, [session[i] EXCEPT !.marked = FALSE], log)
  /\ UNCHANGED stopFlag

Destroy(i) ==
  /\ Live(i)
  /\ LET s == [session[i] EXCEPT !.life = "destroyed"]
     IN  \/ Close(i, s, log)
         \/ session' = [session EXCEPT ![i] = s] /\ UNCHANGED <<carried, log>>
  /\ UNCHANGED stopFlag

Exit(i) ==
  /\ Hosted(i)
  /\ session' = [session EXCEPT ![i] = [NewSession EXCEPT !.life = "dead"]]
  /\ carried' = NoConfig
  /\ UNCHANGED <<log, stopFlag>>

Answer(i) == Started(i) \/ Failed(i) \/ Cleaned(i) \/ Disconnect(i)

Work(i) == Answer(i) \/ Mark(i)

SessionNext ==
  \E i \in Session :
    \/ \E c \in Config : Open(i, c)
    \/ OpenForStop(i)
    \/ StopRequest(i)
    \/ Work(i)
    \/ Destroy(i)
    \/ Exit(i)

SessionSpec == SessionInit /\ [][SessionNext]_sessionVars

(* An instance answers every start and ends every cleanup, or dies.        *)
FairSessionSpec ==
  /\ SessionSpec
  /\ \A i \in Session : WF_sessionVars(Started(i) \/ Failed(i) \/ Cleaned(i))
=============================================================================
