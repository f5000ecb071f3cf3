--------------------------- MODULE VpnPromiseProofs ---------------------------
(***************************************************************************)
(* An extension that has its process for itself implements VpnSession, for *)
(* every set of instances, configurations and networks: each of its steps  *)
(* is a step of the session of its instance, or is not seen of it.         *)
(***************************************************************************)
EXTENDS VpnExtensionPromise, VpnExtensionProofs

-----------------------------------------------------------------------------
(* The log, and what a poll has reported.                                  *)

Has(l, kind, i) == \E k \in DOMAIN l : l[k] = [kind |-> kind, by |-> i]

LEMMA HasEmit ==
  ASSUME NEW l \in Seq(Event), NEW k, NEW j \in Fd, NEW m, NEW i \in Fd,
         k \in {"started", "failed", "cleanup", "auto"}
  PROVE  /\ Emit(l, k, j) \in Seq(Event)
         /\ Has(Emit(l, k, j), m, i) <=> Has(l, m, i) \/ (k = m /\ j = i)
  <1> DEFINE e == [kind |-> k, by |-> j]
             n == Append(l, e)
  <1>1. e \in Event BY DEF Event
  <1>2. /\ n \in Seq(Event) /\ DOMAIN n = 1 .. Len(l) + 1 /\ DOMAIN l = 1 .. Len(l)
        /\ Len(l) \in Nat /\ n[Len(l) + 1] = e /\ \A x \in 1 .. Len(l) : n[x] = l[x]
    BY <1>1
  <1>3. [kind |-> m, by |-> i] = e <=> k = m /\ j = i
    OBVIOUS
  <1> HIDE DEF e
  <1>4. Emit(l, k, j) = n BY DEF Emit, e
  <1> HIDE DEF n
  <1>5. QED BY <1>2, <1>3, <1>4 DEF Has

(* A poll runs only in a session that was up, and after it has marked an   *)
(* automatic disconnect it ends.                                           *)
PollReports(i) ==
  /\ ability[i].pollTimer \/ ability[i].poll # "no" => Has(log, "started", i)
  /\ Has(log, "auto", i) =>
       /\ ability[i].life # "none" /\ ability[i].starting = "no"
       /\ ability[i].poll = "marked" \/ (ability[i].poll = "no" /\ ~ability[i].pollTimer)

PollInv == \A i \in Fd : PollReports(i)

LEMMA PollInvStep ==
  ASSUME PollInv, TypeOK, NEW i \in Fd, NEW c, ability' = [ability EXCEPT ![i] = c],
         \A j \in Fd : Has(log, "started", j) => Has(log', "started", j),
         \A j \in Fd : j # i /\ Has(log', "auto", j) => Has(log, "auto", j),
         c.pollTimer \/ c.poll # "no" => Has(log', "started", i),
         Has(log', "auto", i) => /\ c.life # "none" /\ c.starting = "no"
                                 /\ c.poll = "marked" \/ (c.poll = "no" /\ ~c.pollTimer)
  PROVE  PollInv'
  BY DEF PollInv, PollReports, TypeOK

(* A step of an instance that exists and reports nothing about its poll.   *)
LEMMA PollInvQuiet ==
  ASSUME PollInv, TypeOK, NEW i \in Fd, Suspended(i), NEW c, ability' = [ability EXCEPT ![i] = c],
         c.life \in {"live", "destroyed"}, c.starting \in {ability[i].starting, "no"},
         c.poll = ability[i].poll, c.pollTimer => ability[i].pollTimer,
         log' = log \/ \E k \in {"failed", "cleanup"} : log' = Emit(log, k, i)
  PROVE  PollInv'
  <1>1. log \in Seq(Event) BY DEF TypeOK
  <1>2. \A j \in Fd : /\ Has(log', "started", j) <=> Has(log, "started", j)
                      /\ Has(log', "auto", j) <=> Has(log, "auto", j)
    BY <1>1, HasEmit
  <1>3. QED BY <1>2, PollInvStep DEF PollInv, PollReports

(* The synchronous part of cleanup(), called by an instance that exists.   *)
LEMMA PollInvCleanup ==
  ASSUME PollInv, AloneInv, TypeOK, NEW i \in Fd, Suspended(i), NEW a \in Ability, NEW b, NEW l,
         Cleanup(i, a, b, l), l = log \/ l = Emit(log, "failed", i),
         a.life \in {"live", "destroyed"}, a.starting \in {ability[i].starting, "no"},
         a.cleaningUp = ability[i].cleaningUp, a.pollTimer = ability[i].pollTimer,
         a.poll = ability[i].poll \/ (a.poll = "no" /\ ability[i].poll = "marked")
  PROVE  PollInv'
  <1>1. PICK c \in Ability : ability' = [ability EXCEPT ![i] = c] /\ Cleared(a, c)
    BY CleanupEffect
  <1>2. log' = l \/ log' = Emit(l, "cleanup", i)
    BY CleanupEffect
  <1>0. log \in Seq(Event)
    BY DEF TypeOK
  <1>3. /\ l \in Seq(Event)
        /\ \A j \in Fd : /\ Has(l, "started", j) <=> Has(log, "started", j)
                         /\ Has(l, "auto", j) <=> Has(log, "auto", j)
    <2>1. CASE l = log
      BY <1>0, <2>1
    <2>2. CASE l = Emit(log, "failed", i)
      <3>1. l \in Seq(Event)
        BY <1>0, <2>2, HasEmit
      <3>2. ASSUME NEW j \in Fd PROVE Has(l, "started", j) <=> Has(log, "started", j)
        BY <1>0, <2>2, HasEmit
      <3>3. ASSUME NEW j \in Fd PROVE Has(l, "auto", j) <=> Has(log, "auto", j)
        BY <1>0, <2>2, HasEmit
      <3>4. QED BY <3>1, <3>2, <3>3
    <2>3. QED BY <2>1, <2>2
  <1>4. \A j \in Fd : /\ Has(log', "started", j) <=> Has(log, "started", j)
                      /\ Has(log', "auto", j) <=> Has(log, "auto", j)
    <2>1. CASE log' = l
      BY <1>3, <2>1
    <2>2. CASE log' = Emit(l, "cleanup", i)
      BY <1>3, <2>2, HasEmit
    <2>3. QED BY <1>2, <2>1, <2>2
  <1>5. /\ c.life = a.life /\ c.starting = a.starting /\ c.poll = a.poll
        /\ c.pollTimer => a.pollTimer /\ a.cleaningUp
    BY <1>1 DEF Cleared
  <1>6. ability[i].cleaningUp /\ ability[i].poll # "no" => ~ability[i].pollTimer
    BY SuspendedPlaced
  <1>7. PollReports(i)
    BY DEF PollInv
  <1>8. QED BY <1>1, <1>4, <1>5, <1>6, <1>7, PollInvStep DEF PollReports

LEMMA PollInvNext ==
  ASSUME ~ReuseProcess, TypeOK, AloneInv, PollInv, [ExtNext]_extVars PROVE PollInv'
  <1>0. /\ log \in Seq(Event)
        /\ \A i \in Fd : ability[i] \in Ability /\ PollReports(i)
    BY DEF TypeOK, PollInv
  <1>1. CASE ability' = ability /\ log' = log
    BY <1>1 DEF PollInv, PollReports, Has
  <1>2. ASSUME NEW i \in Fd, \/ \E core \in Core, config \in Config : OnCreateStart(i, core, config)
                             \/ OnCreateStop(i)
        PROVE  PollInv'
    <2>1. ~Has(log, "auto", i)
      BY <1>0, <1>2 DEF OnCreateStart, OnCreateStop, PollReports
    <2>2. \E c : /\ ability' = [ability EXCEPT ![i] = c] /\ c.poll = "no" /\ ~c.pollTimer
                 /\ log' = log \/ log' = Emit(log, "cleanup", i)
      <3>1. CASE OnCreateStop(i)
        <4> DEFINE a == [NewAbility EXCEPT !.life = "live"]
        <4>1. a \in Ability /\ a.poll = "no" /\ ~a.pollTimer /\ ~a.cleaningUp /\ ~a.conn
          BY NewAbilityType DEF NewAbility, Ability
        <4>2. Cleanup(i, a, bridge, log)
          BY <3>1 DEF OnCreateStop
        <4> HIDE DEF a
        <4>3. PICK c \in Ability : ability' = [ability EXCEPT ![i] = c] /\ Cleared(a, c)
          BY <4>1, <4>2, CleanupEffect
        <4>4. log' = Emit(log, "cleanup", i)
          BY <4>1, <4>2, CleanupEffect
        <4>5. QED BY <4>1, <4>3, <4>4 DEF Cleared
      <3>2. ASSUME NEW core \in Core, NEW config \in Config, OnCreateStart(i, core, config)
            PROVE  \E c : /\ ability' = [ability EXCEPT ![i] = c] /\ c.poll = "no" /\ ~c.pollTimer
                          /\ log' = log
        <4> DEFINE c == [NewAbility EXCEPT !.life = "live", !.core = core, !.config = config,
                                           !.conn = TRUE, !.starting = "settings"]
        <4>1. c.poll = "no" /\ ~c.pollTimer BY DEF NewAbility
        <4>2. QED BY <3>2, <4>1 DEF OnCreateStart
      <3>3. QED BY <1>2, <3>1, <3>2
    <2>3. \A j \in Fd : /\ Has(log', "started", j) <=> Has(log, "started", j)
                        /\ Has(log', "auto", j) <=> Has(log, "auto", j)
      BY <1>0, <2>2, HasEmit
    <2>4. QED BY <2>1, <2>2, <2>3, PollInvStep
  <1>3. ASSUME NEW i \in Fd, OnRequestStop(i) PROVE PollInv'
    <2>1. Suspended(i) BY <1>3 DEF OnRequestStop, Suspended
    <2>2. QED BY <1>0, <1>3, <2>1, SuspendedPlaced, PollInvCleanup DEF OnRequestStop
  <1>4. ASSUME NEW i \in Fd, OnDestroy(i) PROVE PollInv'
    <2> DEFINE a == [ability[i] EXCEPT !.life = "destroyed"]
    <2>1. /\ a \in Ability /\ a.life = "destroyed" /\ a.starting = ability[i].starting
          /\ a.poll = ability[i].poll /\ a.pollTimer = ability[i].pollTimer
          /\ a.cleaningUp = ability[i].cleaningUp
      BY <1>0 DEF Ability
    <2>2. /\ Suspended(i)
          /\ \/ Cleanup(i, a, bridge, log)
             \/ ability' = [ability EXCEPT ![i] = a] /\ log' = log
      BY <1>4 DEF OnDestroy, Suspended
    <2> HIDE DEF a
    <2>3. QED BY <2>1, <2>2, PollInvCleanup, PollInvQuiet
  <1>5. ASSUME NEW i \in Fd, NEW d \in BOOLEAN, CleanupFinish(i, d) PROVE PollInv'
    <2> DEFINE c == [ability[i] EXCEPT !.conn = FALSE, !.tunFd = FALSE, !.cleaningUp = FALSE]
    <2>1. /\ c.life = ability[i].life /\ c.starting = ability[i].starting
          /\ c.poll = ability[i].poll /\ c.pollTimer = ability[i].pollTimer
      BY <1>0 DEF Ability
    <2>2. Suspended(i) /\ ability' = [ability EXCEPT ![i] = c] /\ log' = Emit(log, "cleanup", i)
      BY <1>5 DEF CleanupFinish
    <2> HIDE DEF c
    <2>3. QED BY <2>1, <2>2, PollInvQuiet DEF Suspended
  <1>6. ASSUME NEW i \in Fd, SettingsLoaded(i) PROVE PollInv'
    <2> DEFINE c == [ability[i] EXCEPT !.starting = "create"]
    <2>1. c.poll = ability[i].poll /\ c.pollTimer = ability[i].pollTimer
      BY <1>0 DEF Ability
    <2>2. /\ Suspended(i) /\ ability[i].starting # "no" /\ log' = log
          /\ ability' = [ability EXCEPT ![i] = c]
      BY <1>6 DEF SettingsLoaded
    <2> HIDE DEF c
    <2>3. ~Has(log, "auto", i) BY <1>0, <2>2 DEF PollReports
    <2>4. QED BY <2>1, <2>2, <2>3, SuspendedPlaced, PollInvStep
  <1>7. ASSUME NEW i \in Fd, NEW a \in Ability, NEW b, StartFails(i, a, b), Suspended(i),
               a.life = ability[i].life, a.cleaningUp = ability[i].cleaningUp,
               a.pollTimer = ability[i].pollTimer, a.poll = ability[i].poll
        PROVE  PollInv'
    <2> DEFINE c == [a EXCEPT !.starting = "no"]
    <2>1. /\ c \in Ability /\ c.life = a.life /\ c.starting = "no" /\ c.poll = a.poll
          /\ c.pollTimer = a.pollTimer /\ c.cleaningUp = a.cleaningUp
      BY DEF Ability
    <2>2. Cleanup(i, c, b, Emit(log, "failed", i))
      BY <1>7 DEF StartFails
    <2> HIDE DEF c
    <2>3. QED BY <1>7, <2>1, <2>2, PollInvCleanup DEF Suspended
  <1>8. ASSUME NEW i \in Fd, SettingsFailed(i) \/ CreateRejected(i) PROVE PollInv'
    BY <1>0, <1>7, <1>8 DEF SettingsFailed, CreateRejected
  <1>9. ASSUME NEW i \in Fd, NEW hev \in BOOLEAN, NEW coreLib \in BOOLEAN, NEW tunLib \in BOOLEAN,
               CreateResolved(i, hev, coreLib, tunLib)
        PROVE  PollInv'
    <2> DEFINE a == [ability[i] EXCEPT !.tunFd = TRUE]
               c == [a EXCEPT !.starting = "no", !.pollTimer = TRUE,
                              !.seeded = FALSE, !.signature = NoNet]
    <2>1. /\ Suspended(i) /\ ability[i].starting # "no"
          /\ \/ \E b : StartFails(i, a, b)
             \/ ability' = [ability EXCEPT ![i] = c] /\ log' = Emit(log, "started", i)
      BY <1>9 DEF CreateResolved
    <2>2. /\ a \in Ability /\ a.life = ability[i].life /\ a.cleaningUp = ability[i].cleaningUp
          /\ a.pollTimer = ability[i].pollTimer /\ a.poll = ability[i].poll
      BY <1>0 DEF Ability
    <2> HIDE DEF a, c
    <2>3. CASE \E b : StartFails(i, a, b)
      BY <1>7, <2>1, <2>2, <2>3
    <2>4. CASE ability' = [ability EXCEPT ![i] = c] /\ log' = Emit(log, "started", i)
      <3>1. ~Has(log, "auto", i) BY <1>0, <2>1 DEF PollReports
      <3>2. /\ Has(log', "started", i)
            /\ \A j \in Fd : /\ Has(log, "started", j) => Has(log', "started", j)
                             /\ Has(log', "auto", j) <=> Has(log, "auto", j)
        BY <1>0, <2>4, HasEmit
      <3>3. QED BY <2>4, <3>1, <3>2, PollInvStep
    <2>5. QED BY <2>1, <2>3, <2>4
  <1>10. ASSUME NEW i \in Fd, PollTick(i) \/ PollGivesUp(i) \/ PollReadsNet(i) PROVE PollInv'
    <2>1. /\ log' = log
          /\ ability[i].poll = "settings" \/ (ability[i].poll = "no" /\ ability[i].pollTimer)
      BY <1>10 DEF PollTick, PollGivesUp, PollReadsNet
    <2>2. \E c : ability' = [ability EXCEPT ![i] = c]
      BY <1>10 DEF PollTick, PollGivesUp, PollReadsNet
    <2>3. Has(log, "started", i) /\ ~Has(log, "auto", i)
      BY <1>0, <2>1 DEF PollReports
    <2>4. QED BY <2>1, <2>2, <2>3, PollInvStep
  <1>11. ASSUME NEW i \in Fd, PollDecides(i) PROVE PollInv'
    <2>1. PICK p \in {"marked", "no"} :
            /\ ability' = [ability EXCEPT ![i] =
                             [ability[i] EXCEPT !.seeded = TRUE, !.signature = ability[i].sig,
                                                !.sig = NoNet, !.poll = p]]
            /\ log' = IF p = "marked" THEN Emit(log, "auto", i) ELSE log
      BY <1>11 DEF PollDecides
    <2> DEFINE c == [ability[i] EXCEPT !.seeded = TRUE, !.signature = ability[i].sig,
                                       !.sig = NoNet, !.poll = p]
    <2>2. c.poll = p /\ c.life = ability[i].life /\ c.starting = ability[i].starting
      BY <1>0 DEF Ability
    <2>3. ability' = [ability EXCEPT ![i] = c] /\ Suspended(i) /\ ability[i].poll = "net"
      BY <1>11, <2>1 DEF PollDecides
    <2> HIDE DEF c
    <2>4. Has(log, "started", i) /\ ~Has(log, "auto", i)
      BY <1>0, <2>3 DEF PollReports
    <2>5. /\ \A j \in Fd : Has(log', "started", j) <=> Has(log, "started", j)
          /\ \A j \in Fd : Has(log', "auto", j) <=> Has(log, "auto", j) \/ (p = "marked" /\ j = i)
      <3>1. CASE p = "marked"
        BY <1>0, <2>1, <3>1, HasEmit
      <3>2. CASE p # "marked"
        BY <2>1, <3>2
      <3>3. QED BY <3>1, <3>2
    <2>6. ability[i].starting = "no" /\ ability[i].life # "none"
      BY <2>3, SuspendedPlaced DEF Suspended
    <2>7. QED BY <2>2, <2>3, <2>4, <2>5, <2>6, PollInvStep
  <1>12. ASSUME NEW i \in Fd, PollDisconnects(i) PROVE PollInv'
    <2> DEFINE c == [ability[i] EXCEPT !.poll = "no"]
    <2>1. /\ c \in Ability /\ c.life = ability[i].life /\ c.starting = ability[i].starting
          /\ c.poll = "no" /\ c.pollTimer = ability[i].pollTimer
          /\ c.cleaningUp = ability[i].cleaningUp
      BY <1>0 DEF Ability
    <2>2. Suspended(i) /\ Cleanup(i, c, bridge, log) /\ ability[i].poll = "marked"
      BY <1>12 DEF PollDisconnects
    <2> HIDE DEF c
    <2>3. QED BY <2>1, <2>2, PollInvCleanup DEF Suspended
  <1>13. CASE ProcessExit
    <2> DEFINE dead == [NewAbility EXCEPT !.life = "dead"]
    <2>1. dead.life # "none" /\ dead.starting = "no" /\ dead.poll = "no" /\ ~dead.pollTimer
      BY DEF NewAbility
    <2>2. /\ log' = log
          /\ \A i \in Fd : ability'[i] = ability[i] \/ ability'[i] = dead
      BY <1>13 DEF ProcessExit
    <2> HIDE DEF dead
    <2>3. QED BY <1>0, <2>1, <2>2 DEF PollInv, PollReports
  <1>14. CASE NativeThreads \/ NetChanges \/ UNCHANGED extVars
               \/ \E i \in Fd : OnRequestIgnored(i)
    BY <1>1, <1>14 DEF NativeThreads, StopThreadSwaps, StopThreadStops, HevLoopExits, NetChanges,
                       OnRequestIgnored, extVars
  <1>15. QED
    BY <1>2, <1>3, <1>4, <1>5, <1>6, <1>8, <1>9, <1>10, <1>11, <1>12, <1>13, <1>14
    DEF ExtNext, ExtRuns, System, Continue, Poll

-----------------------------------------------------------------------------
(* The refinement mapping, step by step.                                   *)

SessionBar == [i \in Fd |-> AbstractSession(ability[i])]

CarriedOf(b) ==
  IF ~b.tunRunning THEN NoConfig ELSE IF b.box # NoConfig THEN b.box ELSE b.xray

LEMMA CarriedNow == CarriedConfig = CarriedOf(bridge) /\ CarriedConfig' = CarriedOf(bridge')
  BY DEF CarriedConfig, CarriedOf

(* A step of one instance is a step of its session alone.                  *)
LEMMA BarStep ==
  ASSUME TypeOK, NEW i \in Fd, NEW c, ability' = [ability EXCEPT ![i] = c]
  PROVE  /\ SessionBar[i] = AbstractSession(ability[i])
         /\ SessionBar' = [SessionBar EXCEPT ![i] = AbstractSession(c)]
  <1>1. ability \in [Fd -> Ability]
    BY DEF TypeOK
  <1>2. ability'[i] = c /\ \A j \in Fd : j # i => ability'[j] = ability[j]
    BY <1>1
  <1>3. SessionBar' = [j \in Fd |-> AbstractSession(ability'[j])]
    BY DEF SessionBar
  <1>4. SessionBar = [j \in Fd |-> AbstractSession(ability[j])]
    BY DEF SessionBar
  <1>5. \A j \in Fd : j # i => AbstractSession(ability'[j]) = AbstractSession(ability[j])
    BY <1>2
  <1>6. QED BY <1>2, <1>3, <1>4, <1>5

(* What a session shows of two instances that differ in one field.         *)
Shown(a, c) == /\ c.life = a.life /\ c.config = a.config
               /\ (c.starting # "no") = (a.starting # "no")
               /\ c.cleaningUp = a.cleaningUp /\ (c.poll = "marked") = (a.poll = "marked")

LEMMA SameSession ==
  ASSUME NEW a, NEW c, Shown(a, c) PROVE AbstractSession(c) = AbstractSession(a)
  BY DEF Shown, AbstractSession

LEMMA SessionRecord ==
  ASSUME NEW a, NEW s, NEW c, NEW m,
         (a.starting # "no") = s, a.cleaningUp = c, (a.poll = "marked") = m
  PROVE  AbstractSession(a) = [life |-> a.life, config |-> a.config,
                               starting |-> s, cleaning |-> c, marked |-> m]
  BY DEF AbstractSession

LEMMA WithLife ==
  ASSUME NEW a, NEW c, NEW y, c.life = y,
         c.config = a.config, c.starting = a.starting, c.cleaningUp = a.cleaningUp,
         c.poll = a.poll
  PROVE  AbstractSession(c) = [AbstractSession(a) EXCEPT !.life = y]
  BY DEF AbstractSession

LEMMA WithStarting ==
  ASSUME NEW a, NEW c, c.starting = "no", c.life = a.life,
         c.config = a.config, c.cleaningUp = a.cleaningUp, c.poll = a.poll
  PROVE  AbstractSession(c) = [AbstractSession(a) EXCEPT !.starting = FALSE]
  <1>1. ASSUME NEW y, (c.starting # "no") = y
        PROVE  AbstractSession(c) = [AbstractSession(a) EXCEPT !.starting = y]
    BY <1>1 DEF AbstractSession
  <1>2. QED BY <1>1

LEMMA WithCleaning ==
  ASSUME NEW a, NEW c, NEW y, c.cleaningUp = y, c.life = a.life,
         c.config = a.config, c.starting = a.starting, c.poll = a.poll
  PROVE  AbstractSession(c) = [AbstractSession(a) EXCEPT !.cleaning = y]
  BY DEF AbstractSession

LEMMA WithMarked ==
  ASSUME NEW a, NEW c, c.life = a.life, c.config = a.config, c.starting = a.starting,
         c.cleaningUp = a.cleaningUp
  PROVE  /\ c.poll = "marked" => AbstractSession(c) = [AbstractSession(a) EXCEPT !.marked = TRUE]
         /\ c.poll = "no" => AbstractSession(c) = [AbstractSession(a) EXCEPT !.marked = FALSE]
  <1>1. ASSUME NEW y, (c.poll = "marked") = y
        PROVE  AbstractSession(c) = [AbstractSession(a) EXCEPT !.marked = y]
    BY <1>1 DEF AbstractSession
  <1>2. QED BY <1>1

LEMMA FreshSession ==
  ASSUME NEW x
  PROVE  /\ AbstractSession(NewAbility) = Promise!NewSession
         /\ AbstractSession([NewAbility EXCEPT !.life = x]) = [Promise!NewSession EXCEPT !.life = x]
  <1> DEFINE a == [NewAbility EXCEPT !.life = x]
  <1>1. /\ NewAbility.starting = "no" /\ NewAbility.cleaningUp = FALSE /\ NewAbility.poll = "no"
        /\ NewAbility.life = "none" /\ NewAbility.config = NoConfig
    BY DEF NewAbility
  <1>2. /\ a.starting = NewAbility.starting /\ a.cleaningUp = NewAbility.cleaningUp
        /\ a.poll = NewAbility.poll /\ a.life = x /\ a.config = NewAbility.config
    BY DEF NewAbility
  <1> HIDE DEF a
  <1>3. AbstractSession(NewAbility) = Promise!NewSession
    BY <1>1, SessionRecord DEF Promise!NewSession
  <1>4. AbstractSession(a) = [Promise!NewSession EXCEPT !.life = x]
    BY <1>2, <1>3, WithLife
  <1>5. QED BY <1>3, <1>4 DEF a

LEMMA OpenedSession ==
  ASSUME NEW c, NEW y, c.life = "live", c.config = y, c.starting = "settings",
         c.cleaningUp = NewAbility.cleaningUp, c.poll = NewAbility.poll
  PROVE  AbstractSession(c) =
           [Promise!NewSession EXCEPT !.life = "live", !.config = y, !.starting = TRUE]
  <1> DEFINE Rec(l, d, t) == [life |-> l, config |-> d, starting |-> t,
                              cleaning |-> NewAbility.cleaningUp,
                              marked |-> NewAbility.poll = "marked"]
             n == AbstractSession(NewAbility)
  <1>1. PICK z : z = TRUE
    OBVIOUS
  <1>2. AbstractSession(c) = Rec("live", y, z)
    BY <1>1 DEF AbstractSession
  <1>3. PICK t : n = Rec(NewAbility.life, NewAbility.config, t)
    BY DEF AbstractSession
  <1>4. ASSUME NEW l, NEW d, NEW v
        PROVE  /\ [Rec(l, d, v) EXCEPT !.life = "live"] = Rec("live", d, v)
               /\ [Rec(l, d, v) EXCEPT !.config = y] = Rec(l, y, v)
               /\ [Rec(l, d, v) EXCEPT !.starting = z] = Rec(l, d, z)
    OBVIOUS
  <1> HIDE DEF Rec, n
  <1>5. [n EXCEPT !.life = "live", !.config = y, !.starting = z]
          = [[[n EXCEPT !.life = "live"] EXCEPT !.config = y] EXCEPT !.starting = z]
    OBVIOUS
  <1>6. /\ [n EXCEPT !.life = "live"] = Rec("live", NewAbility.config, t)
        /\ [Rec("live", NewAbility.config, t) EXCEPT !.config = y] = Rec("live", y, t)
        /\ [Rec("live", y, t) EXCEPT !.starting = z] = Rec("live", y, z)
    BY <1>3, <1>4
  <1>7. [n EXCEPT !.life = "live", !.config = y, !.starting = z] = AbstractSession(c)
    BY <1>2, <1>5, <1>6
  <1>8. n = Promise!NewSession
    BY FreshSession DEF n
  <1>9. QED BY <1>1, <1>7, <1>8

(* The synchronous part of cleanup() takes the data plane down, if nobody  *)
(* has before, and answers at once if there is nothing to destroy.         *)
LEMMA CloseStep ==
  ASSUME TypeOK, NEW i \in Fd, NEW a \in Ability, NEW b \in Bridge, PlaneInv(b), NEW l,
         CarriedOf(b) = CarriedConfig, Cleanup(i, a, b, l)
  PROVE  Promise!Close(i, AbstractSession(a), l)
  <1> DEFINE s == AbstractSession(a)
  <1>1. CASE a.cleaningUp
    <2>1. ability' = [ability EXCEPT ![i] = a] /\ bridge' = b /\ log' = l
      BY <1>1 DEF Cleanup
    <2>2. SessionBar' = [SessionBar EXCEPT ![i] = s]
      BY <2>1, BarStep
    <2>3. CarriedConfig' = CarriedConfig
      BY <2>1, CarriedNow
    <2>4. s.cleaning BY <1>1 DEF AbstractSession
    <2> HIDE DEF s
    <2>5. QED BY <2>1, <2>2, <2>3, <2>4 DEF Promise!Close, SessionBar, s
  <1>2. CASE ~a.cleaningUp
    <2>1. CarriedConfig' = NoConfig
      <3>1. \E x, t \in BOOLEAN : bridge' = StopNative(b, x, t)
        BY <1>2 DEF Cleanup
      <3>2. ~bridge'.tunRunning
        BY <3>1, StopNativePlane
      <3>3. QED BY <3>2, CarriedNow DEF CarriedOf
    <2>2. ~s.cleaning BY <1>2 DEF AbstractSession
    <2>3. CASE a.conn
      <3> DEFINE c == [a EXCEPT !.cleaningUp = TRUE, !.pollTimer = FALSE]
      <3>1. ability' = [ability EXCEPT ![i] = c] /\ log' = l
        BY <1>2, <2>3 DEF Cleanup
      <3>2. /\ c.life = a.life /\ c.config = a.config /\ c.starting = a.starting
            /\ c.poll = a.poll /\ c.cleaningUp = TRUE
        BY DEF Ability
      <3> HIDE DEF c
      <3>5. AbstractSession(c) = [s EXCEPT !.cleaning = TRUE]
        BY <3>2, WithCleaning
      <3> HIDE DEF s
      <3>3. SessionBar' = [SessionBar EXCEPT ![i] = [s EXCEPT !.cleaning = TRUE]]
        BY <3>1, <3>5, BarStep
      <3>4. QED BY <2>1, <2>2, <3>1, <3>3 DEF Promise!Close, SessionBar, s
    <2>4. CASE ~a.conn
      <3> DEFINE c == [a EXCEPT !.pollTimer = FALSE, !.tunFd = FALSE]
      <3>1. ability' = [ability EXCEPT ![i] = c] /\ log' = Emit(l, "cleanup", i)
        BY <1>2, <2>4 DEF Cleanup
      <3>2. AbstractSession(c) = s
        BY DEF AbstractSession, Ability
      <3> HIDE DEF c, s
      <3>3. SessionBar' = [SessionBar EXCEPT ![i] = s]
        BY <3>1, <3>2, BarStep
      <3>4. QED BY <2>1, <2>2, <3>1, <3>3 DEF Promise!Close, Promise!Record, Emit, SessionBar, s
    <2>5. QED BY <2>3, <2>4
  <1>3. QED BY <1>1, <1>2

(* A request of the system.                                                *)
LEMMA SystemImplements ==
  ASSUME ~ReuseProcess, TypeOK, AloneInv, System
  PROVE  Promise!SessionNext \/ UNCHANGED Promise!sessionVars
  <1> SUFFICES ASSUME NEW i \in Fd,
                      \/ \E core \in Core, config \in Config : OnCreateStart(i, core, config)
                      \/ OnCreateStop(i) \/ OnRequestStop(i)
                      \/ OnRequestIgnored(i) \/ OnDestroy(i)
               PROVE  Promise!SessionNext \/ UNCHANGED Promise!sessionVars
    BY DEF System
  <1>0. ability[i] \in Ability /\ bridge \in Bridge /\ PlaneInv(bridge)
        /\ SessionBar[i] = AbstractSession(ability[i])
        /\ CarriedOf(bridge) = CarriedConfig
    BY CarriedNow DEF TypeOK, AloneInv, SessionBar
  <1>1. ~up => \A j \in Fd : ~Promise!Hosted(j)
    BY DEF AloneInv, Alone, Suspended, Promise!Hosted, AbstractSession
  <1>2. ability[i].life = "none" => AbstractSession(ability[i]) = Promise!NewSession
    BY FreshSession DEF AloneInv, Placed
  <1>3. ASSUME NEW core \in Core, NEW config \in Config, OnCreateStart(i, core, config)
        PROVE  Promise!Open(i, config)
    <2> DEFINE c == [NewAbility EXCEPT !.life = "live", !.core = core, !.config = config,
                                       !.conn = TRUE, !.starting = "settings"]
               s == [Promise!NewSession EXCEPT !.life = "live", !.config = config, !.starting = TRUE]
    <2>1. AbstractSession(c) = s
      <3>1. /\ c.starting = "settings" /\ c.cleaningUp = NewAbility.cleaningUp
            /\ c.poll = NewAbility.poll /\ c.life = "live" /\ c.config = config
        BY DEF NewAbility
      <3> HIDE DEF c
      <3>2. QED BY <3>1, OpenedSession
    <2>2. /\ ability[i].life = "none" /\ ~up /\ ability' = [ability EXCEPT ![i] = c]
          /\ bridge' = bridge /\ log' = log /\ stopFlag' = stopFlag
      BY <1>3 DEF OnCreateStart
    <2> HIDE DEF c
    <2>3. SessionBar' = [SessionBar EXCEPT ![i] = s]
      BY <2>1, <2>2, BarStep
    <2>4. SessionBar[i].life = "none" /\ CarriedConfig' = CarriedConfig
      BY <1>0, <2>2, CarriedNow DEF AbstractSession
    <2>5. QED BY <1>1, <2>2, <2>3, <2>4 DEF Promise!Open, SessionBar
  <1>4. ASSUME OnCreateStop(i) PROVE Promise!OpenForStop(i)
    <2> DEFINE a == [NewAbility EXCEPT !.life = "live"]
    <2>1. /\ a \in Ability /\ ~a.cleaningUp /\ ~a.conn /\ a.life = "live"
          /\ AbstractSession(a) = [Promise!NewSession EXCEPT !.life = "live"]
      BY NewAbilityType, FreshSession DEF NewAbility, Ability
    <2>2. /\ ability[i].life = "none" /\ ~up /\ Cleanup(i, a, bridge, log) /\ stopFlag' = stopFlag
      BY <1>4 DEF OnCreateStop
    <2> HIDE DEF a
    <2>3. PICK c \in Ability : ability' = [ability EXCEPT ![i] = c] /\ Cleared(a, c)
      BY <2>1, <2>2, CleanupEffect
    <2>4. log' = Emit(log, "cleanup", i) /\ \E x, t \in BOOLEAN : bridge' = StopNative(bridge, x, t)
      BY <2>1, <2>2, CleanupEffect
    <2>5. bridge' = bridge
      BY <2>2, <2>4, StopNativeFresh DEF AloneInv, Alone
    <2>6. AbstractSession(c) = [SessionBar[i] EXCEPT !.life = "live"]
      <3>1. AbstractSession(c) = AbstractSession(a)
        BY <2>1, <2>3, SameSession DEF Cleared, Shown, Ability
      <3>2. QED BY <1>0, <1>2, <2>1, <2>2, <3>1
    <2>7. SessionBar' = [SessionBar EXCEPT ![i].life = "live"]
      BY <2>3, <2>6, BarStep
    <2>8. SessionBar[i].life = "none" /\ CarriedConfig' = CarriedConfig
      BY <1>0, <2>2, <2>5, CarriedNow DEF AbstractSession
    <2>9. QED BY <1>1, <2>2, <2>4, <2>7, <2>8
              DEF Promise!OpenForStop, Promise!Record, Emit, SessionBar
  <1>5. ASSUME OnRequestStop(i) PROVE Promise!StopRequest(i)
    <2>1. ability[i].life = "live" /\ Cleanup(i, ability[i], bridge, log) /\ stopFlag' = stopFlag
      BY <1>5 DEF OnRequestStop
    <2>2. Promise!Close(i, SessionBar[i], log)
      BY <1>0, <2>1, CloseStep
    <2>3. SessionBar[i].life = "live"
      BY <1>0, <2>1 DEF AbstractSession
    <2>4. QED BY <2>1, <2>2, <2>3 DEF Promise!StopRequest, Promise!Live, SessionBar
  <1>6. ASSUME OnRequestIgnored(i) PROVE UNCHANGED Promise!sessionVars
    BY <1>6 DEF OnRequestIgnored, extVars, Promise!sessionVars, CarriedConfig
  <1>7. ASSUME OnDestroy(i) PROVE Promise!Destroy(i)
    <2> DEFINE a == [ability[i] EXCEPT !.life = "destroyed"]
               s == [SessionBar[i] EXCEPT !.life = "destroyed"]
    <2>1. /\ a \in Ability /\ a.life = "destroyed" /\ a.config = ability[i].config
          /\ a.starting = ability[i].starting /\ a.cleaningUp = ability[i].cleaningUp
          /\ a.poll = ability[i].poll
      BY <1>0 DEF Ability
    <2>2. /\ ability[i].life = "live" /\ stopFlag' = stopFlag
          /\ \/ Cleanup(i, a, bridge, log)
             \/ ability' = [ability EXCEPT ![i] = a] /\ bridge' = bridge /\ log' = log
      BY <1>7 DEF OnDestroy
    <2> HIDE DEF a
    <2>3. AbstractSession(a) = s /\ SessionBar[i].life = "live"
      BY <1>0, <2>1, <2>2, WithLife DEF AbstractSession
    <2> HIDE DEF s
    <2>4. \/ Promise!Close(i, s, log)
          \/ SessionBar' = [SessionBar EXCEPT ![i] = s] /\ CarriedConfig' = CarriedConfig /\ log' = log
      BY <1>0, <2>1, <2>2, <2>3, CloseStep, BarStep, CarriedNow
    <2>5. QED BY <2>2, <2>3, <2>4 DEF Promise!Destroy, Promise!Live, SessionBar, s
  <1>8. QED
    BY <1>3, <1>4, <1>5, <1>6, <1>7 DEF Promise!SessionNext

(* A start that fails calls cleanup() on a bridge that carries nothing     *)
(* more than before.                                                       *)
LEMMA FailureImplements ==
  ASSUME TypeOK, NEW i \in Fd, Suspended(i), ability[i].starting # "no", stopFlag' = stopFlag,
         NEW a \in Ability, a.life = ability[i].life, a.config = ability[i].config,
         a.cleaningUp = ability[i].cleaningUp, a.poll = ability[i].poll,
         NEW b \in Bridge, PlaneInv(b), CarriedOf(b) = CarriedConfig, StartFails(i, a, b)
  PROVE  Promise!Failed(i)
  <1> DEFINE c == [a EXCEPT !.starting = "no"]
             s == [SessionBar[i] EXCEPT !.starting = FALSE]
  <1>0. SessionBar[i] = AbstractSession(ability[i])
    BY DEF SessionBar
  <1>1. /\ c \in Ability /\ c.life = a.life /\ c.starting = "no" /\ c.poll = a.poll
        /\ c.config = a.config /\ c.cleaningUp = a.cleaningUp
    BY DEF Ability
  <1>2. Cleanup(i, c, b, Emit(log, "failed", i))
    BY DEF StartFails
  <1> HIDE DEF c
  <1>3. AbstractSession(c) = s
    BY <1>0, <1>1, WithStarting
  <1> HIDE DEF s
  <1>4. Promise!Close(i, s, Promise!Record(log, "failed", i))
    BY <1>1, <1>2, <1>3, CloseStep DEF Promise!Record, Emit
  <1>5. Promise!Hosted(i) /\ SessionBar[i].starting
    BY <1>0 DEF SessionBar, AbstractSession, Promise!Hosted, Suspended
  <1>6. QED BY <1>4, <1>5 DEF Promise!Failed, SessionBar, s

(* The core and the data plane of a start carry its configuration, or what *)
(* the bridge carried before.                                              *)
LEMMA CreateImplements ==
  ASSUME TypeOK, AloneInv, NEW i \in Fd, NEW hev \in BOOLEAN, NEW coreLib \in BOOLEAN,
         NEW tunLib \in BOOLEAN, CreateResolved(i, hev, coreLib, tunLib)
  PROVE  Promise!Failed(i) \/ Promise!Started(i)
  <1> DEFINE a == [ability[i] EXCEPT !.tunFd = TRUE]
             cored == StartCore(bridge, a, coreLib)
             tunned == StartDataPlane(cored, i, hev, tunLib)
             c == [a EXCEPT !.starting = "no", !.pollTimer = TRUE,
                            !.seeded = FALSE, !.signature = NoNet]
  <1>0. SessionBar[i] = AbstractSession(ability[i])
    BY DEF SessionBar
  <1>1. /\ Suspended(i) /\ ability[i].starting # "no" /\ stopFlag' = stopFlag
        /\ \/ ~StartCoreOk(bridge, a, coreLib) /\ StartFails(i, a, cored)
           \/ /\ StartCoreOk(bridge, a, coreLib) /\ ~StartTunOk(cored, tunLib)
              /\ StartFails(i, a, tunned)
           \/ /\ StartCoreOk(bridge, a, coreLib) /\ StartTunOk(cored, tunLib)
              /\ bridge' = tunned /\ ability' = [ability EXCEPT ![i] = c]
              /\ log' = Emit(log, "started", i)
    BY DEF CreateResolved
  <1>2. /\ a \in Ability /\ a.life = ability[i].life /\ a.poll = ability[i].poll
        /\ a.config = ability[i].config /\ a.cleaningUp = ability[i].cleaningUp
    BY DEF TypeOK, Ability
  <1> HIDE DEF a
  <1>2a. /\ c.life = ability[i].life /\ c.poll = ability[i].poll /\ c.config = ability[i].config
         /\ c.cleaningUp = ability[i].cleaningUp /\ c.starting = "no"
    BY <1>2 DEF Ability
  <1> HIDE DEF c
  <1>3. bridge = FreshBridge /\ a.config \in Config
    BY <1>1, <1>2, SuspendedPlaced
  <1>4. /\ cored \in Bridge /\ PlaneInv(cored) /\ ~cored.tunRunning
        /\ ~StartCoreOk(bridge, a, coreLib) => cored = bridge
    BY <1>2, <1>3, FreshCore
  <1>5. StartCoreOk(bridge, a, coreLib) =>
          /\ tunned \in Bridge /\ PlaneInv(tunned)
          /\ StartTunOk(cored, tunLib) => CarriedOf(tunned) = a.config
          /\ ~StartTunOk(cored, tunLib) => tunned = cored
    BY <1>2, <1>3, FreshDataPlane DEF CarriedOf
  <1> HIDE DEF cored, tunned
  <1>6. CarriedConfig = NoConfig /\ CarriedOf(cored) = NoConfig
    BY <1>3, <1>4, CarriedNow DEF CarriedOf, FreshBridge
  <1>7. CASE ~StartCoreOk(bridge, a, coreLib) /\ StartFails(i, a, cored)
    BY <1>1, <1>2, <1>4, <1>6, <1>7, FailureImplements
  <1>8. CASE StartCoreOk(bridge, a, coreLib) /\ ~StartTunOk(cored, tunLib) /\ StartFails(i, a, tunned)
    BY <1>1, <1>2, <1>5, <1>6, <1>8, FailureImplements
  <1>9. CASE /\ StartCoreOk(bridge, a, coreLib) /\ StartTunOk(cored, tunLib)
             /\ bridge' = tunned /\ ability' = [ability EXCEPT ![i] = c]
             /\ log' = Emit(log, "started", i)
    <2>1. AbstractSession(c) = [SessionBar[i] EXCEPT !.starting = FALSE]
      BY <1>0, <1>2a, WithStarting
    <2>2. SessionBar' = [SessionBar EXCEPT ![i].starting = FALSE]
      BY <1>9, <2>1, BarStep
    <2>3. Promise!Hosted(i) /\ SessionBar[i].starting /\ SessionBar[i].config = a.config
      BY <1>0, <1>1, <1>2 DEF SessionBar, AbstractSession, Promise!Hosted, Suspended
    <2>4. CarriedConfig' = a.config
      BY <1>5, <1>9, CarriedNow
    <2>5. QED
      BY <1>1, <1>9, <2>2, <2>3, <2>4 DEF Promise!Started, Promise!Record, Emit, SessionBar
  <1>10. QED BY <1>1, <1>7, <1>8, <1>9

LEMMA ContinueImplements ==
  ASSUME TypeOK, AloneInv, NEW i \in Fd, Continue(i)
  PROVE  Promise!Work(i) \/ UNCHANGED Promise!sessionVars
  <1>0. /\ ability[i] \in Ability /\ bridge \in Bridge /\ PlaneInv(bridge)
        /\ SessionBar[i] = AbstractSession(ability[i]) /\ CarriedOf(bridge) = CarriedConfig
    BY CarriedNow DEF TypeOK, AloneInv, SessionBar
  <1>1. ASSUME NEW d \in BOOLEAN, CleanupFinish(i, d) PROVE Promise!Cleaned(i)
    <2> DEFINE c == [ability[i] EXCEPT !.conn = FALSE, !.tunFd = FALSE, !.cleaningUp = FALSE]
    <2>1. /\ c.life = ability[i].life /\ c.starting = ability[i].starting
          /\ c.config = ability[i].config /\ c.poll = ability[i].poll /\ c.cleaningUp = FALSE
      BY <1>0 DEF Ability
    <2>2. /\ Suspended(i) /\ ability[i].cleaningUp /\ stopFlag' = stopFlag /\ bridge' = bridge
          /\ ability' = [ability EXCEPT ![i] = c] /\ log' = Emit(log, "cleanup", i)
      BY <1>1 DEF CleanupFinish
    <2> HIDE DEF c
    <2>3. AbstractSession(c) = [SessionBar[i] EXCEPT !.cleaning = FALSE]
      BY <1>0, <2>1, WithCleaning
    <2>4. SessionBar' = [SessionBar EXCEPT ![i].cleaning = FALSE]
      BY <2>2, <2>3, BarStep
    <2>5. Promise!Hosted(i) /\ SessionBar[i].cleaning /\ CarriedConfig' = CarriedConfig
      BY <1>0, <2>2, CarriedNow DEF SessionBar, AbstractSession, Promise!Hosted, Suspended
    <2>6. QED BY <2>2, <2>4, <2>5 DEF Promise!Cleaned, Promise!Record, Emit, SessionBar
  <1>2. ASSUME SettingsLoaded(i) PROVE UNCHANGED Promise!sessionVars
    <2> DEFINE c == [ability[i] EXCEPT !.starting = "create"]
    <2>1. /\ c.life = ability[i].life /\ c.starting = "create" /\ c.config = ability[i].config
          /\ c.poll = ability[i].poll /\ c.cleaningUp = ability[i].cleaningUp
      BY <1>0 DEF Ability
    <2>2. /\ ability[i].starting = "settings" /\ ability' = [ability EXCEPT ![i] = c]
          /\ stopFlag' = stopFlag /\ bridge' = bridge /\ log' = log
      BY <1>2 DEF SettingsLoaded
    <2> HIDE DEF c
    <2>3. AbstractSession(c) = SessionBar[i]
      BY <1>0, <2>1, <2>2, SameSession DEF Shown
    <2>4. SessionBar' = SessionBar /\ CarriedConfig' = CarriedConfig
      BY <2>2, <2>3, BarStep, CarriedNow DEF SessionBar
    <2>5. QED BY <2>2, <2>4 DEF Promise!sessionVars, SessionBar
  <1>3. ASSUME SettingsFailed(i) \/ CreateRejected(i) PROVE Promise!Failed(i)
    BY <1>0, <1>3, FailureImplements DEF SettingsFailed, CreateRejected
  <1>4. QED
    BY <1>1, <1>2, <1>3, CreateImplements DEF Continue, Promise!Work, Promise!Answer

LEMMA PollImplements ==
  ASSUME TypeOK, AloneInv, PollInv, NEW i \in Fd, Poll(i)
  PROVE  Promise!Work(i) \/ UNCHANGED Promise!sessionVars
  <1>0. /\ ability[i] \in Ability /\ bridge \in Bridge /\ PlaneInv(bridge)
        /\ SessionBar[i] = AbstractSession(ability[i]) /\ CarriedOf(bridge) = CarriedConfig
    BY CarriedNow DEF TypeOK, AloneInv, SessionBar
  <1>1. ASSUME NEW c, ability' = [ability EXCEPT ![i] = c], bridge' = bridge, log' = log,
               stopFlag' = stopFlag, Shown(ability[i], c)
        PROVE  UNCHANGED Promise!sessionVars
    <2>1. AbstractSession(c) = SessionBar[i]
      BY <1>0, <1>1, SameSession
    <2>2. SessionBar' = SessionBar /\ CarriedConfig' = CarriedConfig
      BY <1>1, <2>1, BarStep, CarriedNow DEF SessionBar
    <2>3. QED BY <1>1, <2>2 DEF Promise!sessionVars, SessionBar
  <1>2. CASE PollTick(i) \/ PollGivesUp(i) \/ PollReadsNet(i)
    <2>1. /\ ability[i].poll # "marked" /\ bridge' = bridge /\ log' = log /\ stopFlag' = stopFlag
      BY <1>2 DEF PollTick, PollGivesUp, PollReadsNet
    <2>2. \E c : /\ ability' = [ability EXCEPT ![i] = c] /\ c.poll # "marked"
                 /\ c.life = ability[i].life /\ c.starting = ability[i].starting
                 /\ c.config = ability[i].config /\ c.cleaningUp = ability[i].cleaningUp
      <3>1. CASE PollReadsNet(i)
        <4>0. PICK n \in {net, NoNet} : ability' = [ability EXCEPT ![i] =
                                             [ability[i] EXCEPT !.poll = "net", !.sig = n]]
          BY <3>1 DEF PollReadsNet
        <4> DEFINE c == [ability[i] EXCEPT !.poll = "net", !.sig = n]
        <4>1. /\ c.poll # "marked" /\ c.life = ability[i].life /\ c.starting = ability[i].starting
              /\ c.config = ability[i].config /\ c.cleaningUp = ability[i].cleaningUp
          BY <1>0 DEF Ability
        <4>2. ability' = [ability EXCEPT ![i] = c]
          BY <4>0
        <4> HIDE DEF c
        <4>3. QED BY <4>1, <4>2
      <3>2. ASSUME NEW q \in {"settings", "no"}, ability' = [ability EXCEPT ![i].poll = q]
            PROVE  \E c : /\ ability' = [ability EXCEPT ![i] = c] /\ c.poll # "marked"
                          /\ c.life = ability[i].life /\ c.starting = ability[i].starting
                          /\ c.config = ability[i].config /\ c.cleaningUp = ability[i].cleaningUp
        <4> DEFINE c == [ability[i] EXCEPT !.poll = q]
        <4>1. /\ c.poll # "marked" /\ c.life = ability[i].life /\ c.starting = ability[i].starting
              /\ c.config = ability[i].config /\ c.cleaningUp = ability[i].cleaningUp
          BY <1>0 DEF Ability
        <4>2. ability' = [ability EXCEPT ![i] = c]
          BY <3>2
        <4> HIDE DEF c
        <4>3. QED BY <4>1, <4>2
      <3>3. QED BY <1>2, <3>1, <3>2 DEF PollTick, PollGivesUp
    <2>3. QED BY <1>1, <2>1, <2>2 DEF Shown
  <1>3. CASE PollDecides(i)
    <2>1. PICK p \in {"marked", "no"} :
            /\ ability' = [ability EXCEPT ![i] =
                             [ability[i] EXCEPT !.seeded = TRUE, !.signature = ability[i].sig,
                                                !.sig = NoNet, !.poll = p]]
            /\ log' = IF p = "marked" THEN Emit(log, "auto", i) ELSE log
            /\ stopFlag' = (stopFlag \/ p = "marked")
      BY <1>3 DEF PollDecides
    <2> DEFINE c == [ability[i] EXCEPT !.seeded = TRUE, !.signature = ability[i].sig,
                                       !.sig = NoNet, !.poll = p]
    <2>2. /\ c.poll = p /\ c.life = ability[i].life /\ c.starting = ability[i].starting
          /\ c.config = ability[i].config /\ c.cleaningUp = ability[i].cleaningUp
      BY <1>0 DEF Ability
    <2>3. /\ ability' = [ability EXCEPT ![i] = c] /\ Suspended(i) /\ ability[i].poll = "net"
          /\ bridge' = bridge
      BY <1>3, <2>1 DEF PollDecides
    <2> HIDE DEF c
    <2>4. CASE p = "marked"
      <3>1. AbstractSession(c) = [SessionBar[i] EXCEPT !.marked = TRUE]
        BY <1>0, <2>2, <2>4, WithMarked
      <3>2. SessionBar' = [SessionBar EXCEPT ![i].marked = TRUE]
        BY <2>3, <3>1, BarStep
      <3>3. Has(log, "started", i) /\ ~Has(log, "auto", i)
        BY <2>3 DEF PollInv, PollReports
      <3>4. Promise!Hosted(i) /\ CarriedConfig' = CarriedConfig
        BY <2>3, CarriedNow DEF AbstractSession, Promise!Hosted, Suspended
      <3>5. stopFlag' = TRUE /\ log' = Emit(log, "auto", i)
        BY <2>1, <2>4
      <3>6. Promise!Mark(i)
        BY <3>2, <3>3, <3>4, <3>5 DEF Promise!Mark, Promise!Record, Emit, Has, SessionBar
      <3>7. QED BY <3>6 DEF Promise!Work
    <2>5. CASE p # "marked"
      <3>1. stopFlag' = stopFlag /\ log' = log
        BY <2>1, <2>5 DEF TypeOK
      <3>2. QED BY <1>1, <2>2, <2>3, <2>5, <3>1 DEF Shown
    <2>6. QED BY <2>4, <2>5
  <1>4. CASE PollDisconnects(i)
    <2> DEFINE c == [ability[i] EXCEPT !.poll = "no"]
               s == [SessionBar[i] EXCEPT !.marked = FALSE]
    <2>1. /\ c \in Ability /\ c.life = ability[i].life /\ c.starting = ability[i].starting
          /\ c.config = ability[i].config /\ c.cleaningUp = ability[i].cleaningUp /\ c.poll = "no"
      BY <1>0 DEF Ability
    <2>2. /\ Suspended(i) /\ Cleanup(i, c, bridge, log) /\ ability[i].poll = "marked"
          /\ stopFlag' = stopFlag
      BY <1>4 DEF PollDisconnects
    <2> HIDE DEF c
    <2>3. AbstractSession(c) = s
      BY <1>0, <2>1, WithMarked
    <2> HIDE DEF s
    <2>4. Promise!Close(i, s, log)
      BY <1>0, <2>1, <2>2, <2>3, CloseStep
    <2>5. Promise!Hosted(i) /\ SessionBar[i].marked
      BY <1>0, <2>2 DEF SessionBar, AbstractSession, Promise!Hosted, Suspended
    <2>6. Promise!Disconnect(i)
      BY <2>2, <2>4, <2>5 DEF Promise!Disconnect, SessionBar, s
    <2>7. QED BY <2>6 DEF Promise!Work, Promise!Answer
  <1>5. QED BY <1>2, <1>3, <1>4 DEF Poll

(* The process of the one instance ends; its session is the only one that  *)
(* changes.                                                                *)
LEMMA ExitImplements ==
  ASSUME TypeOK, AloneInv, ProcessExit PROVE \E i \in Fd : Promise!Exit(i)
  <1>1. PICK i \in Fd : Suspended(i)
    BY DEF ProcessExit, AloneInv, Alone
  <1> DEFINE dead == [NewAbility EXCEPT !.life = "dead"]
  <1>2. ability' = [ability EXCEPT ![i] = dead]
    <2>1. ability \in [Fd -> Ability] /\ ability'[i] = dead
      BY <1>1 DEF TypeOK, ProcessExit, Suspended
    <2>2. ASSUME NEW j \in Fd, j # i PROVE ability'[j] = ability[j]
      <3>1. ability[j].life \in {"none", "dead"}
        BY <1>1, <2>1, <2>2 DEF AloneInv, Alone, Suspended, Ability
      <3>2. QED BY <3>1 DEF ProcessExit, AloneInv, Placed
    <2>3. ability' = [j \in Fd |-> ability'[j]]
      BY DEF ProcessExit
    <2>4. QED BY <2>1, <2>2, <2>3
  <1>3. AbstractSession(dead) = [Promise!NewSession EXCEPT !.life = "dead"]
    BY FreshSession
  <1> HIDE DEF dead
  <1>4. SessionBar' = [SessionBar EXCEPT ![i] = [Promise!NewSession EXCEPT !.life = "dead"]]
    BY <1>2, <1>3, BarStep
  <1>5. Promise!Hosted(i)
    BY <1>1 DEF AbstractSession, Promise!Hosted, Suspended
  <1>6. CarriedConfig' = NoConfig /\ log' = log /\ stopFlag' = stopFlag
    BY DEF ProcessExit, CarriedConfig, FreshBridge
  <1>7. QED BY <1>4, <1>5, <1>6 DEF Promise!Exit, SessionBar

(* What the stop threads and the hev loop do is not seen of a session: the *)
(* bridge has reported the data plane down already.                        *)
LEMMA ThreadsImplement ==
  ASSUME TypeOK, NativeThreads \/ NetChanges \/ UNCHANGED extVars
  PROVE  UNCHANGED Promise!sessionVars
  <1>1. ability' = ability /\ log' = log /\ stopFlag' = stopFlag
    BY DEF NativeThreads, StopThreadSwaps, StopThreadStops, HevLoopExits, NetChanges, extVars
  <1>2. bridge' \in {bridge, AdapterSwap(bridge), EngineStop(bridge), HevExits(bridge)}
    BY DEF NativeThreads, StopThreadSwaps, StopThreadStops, HevLoopExits, NetChanges, extVars
  <1>3. /\ bridge'.tunRunning = bridge.tunRunning /\ bridge'.box = bridge.box
        /\ bridge'.xray = bridge.xray
    BY <1>2 DEF TypeOK, Bridge, AdapterSwap, EngineStop, HevExits
  <1>4. CarriedConfig' = CarriedConfig
    BY <1>3 DEF CarriedConfig
  <1>5. QED BY <1>1, <1>4 DEF Promise!sessionVars

LEMMA InitImplements == ExtInit => Promise!SessionInit
  <1> SUFFICES ASSUME ExtInit PROVE Promise!SessionInit OBVIOUS
  <1>1. \A i \in Fd : AbstractSession(ability[i]) = Promise!NewSession
    BY FreshSession DEF ExtInit
  <1>2. CarriedConfig = NoConfig
    BY DEF ExtInit, CarriedConfig, FreshBridge
  <1>3. QED BY <1>1, <1>2 DEF ExtInit, Promise!SessionInit

(* An extension that has its process for itself implements VpnSession.     *)
THEOREM ImplementsSession == ASSUME ~ReuseProcess PROVE ExtSpec => Promise!SessionSpec
  <1>1. ExtInit => PollInv
    BY DEF ExtInit, PollInv, PollReports, Has, NewAbility
  <1>2. TypeOK /\ AloneInv /\ PollInv /\ [ExtNext]_extVars => PollInv'
    BY PollInvNext
  <1>3. TypeOK /\ AloneInv /\ PollInv /\ [ExtNext]_extVars
          => [Promise!SessionNext]_(Promise!sessionVars)
    BY SystemImplements, ContinueImplements, PollImplements, ExitImplements, ThreadsImplement
    DEF ExtNext, ExtRuns, Promise!SessionNext
  <1>4. QED
    BY <1>1, <1>2, <1>3, InitImplements, ExtensionTypes, AloneInvariant, PTL
    DEF ExtSpec, Promise!SessionSpec
=============================================================================
