--------------------------- MODULE TrafficTotals ---------------------------
(***************************************************************************)
(* The bytes that a tunnel carries, from the counter of the data plane to  *)
(* the lifetime total: the extension writes the counter to the log, every  *)
(* refresh of RuntimeController reads it back, the page adds what is new   *)
(* to its total (Index.accumulateTraffic) and saves the total now and      *)
(* then.  Upload and download are counted alike; there is one counter      *)
(* here.                                                                   *)
(***************************************************************************)
EXTENDS Integers, Sequences

CONSTANTS PageRefresh,   \* refreshes the page waits for (timer, first load)
          OtherRefresh,  \* refreshes of the log page
          MaxBytes,      \* bound: bytes of all sessions together
          MaxSaves,      \* bound: saves under way
          MaxActs        \* bound: acts (sessions, ends of the page or its process,
                         \* clears and rotations, counters that are overwritten)

Refresh == PageRefresh \cup OtherRefresh

ASSUME TrafficAssumption ==
  PageRefresh \cap OtherRefresh = {} /\ MaxBytes \in Nat /\ MaxSaves \in Nat /\ MaxActs \in Nat

VARIABLES tunnel,      \* the counter of the data plane
          log,         \* the newest statistics in the log
          stats,       \* RuntimeController.stats
          refreshing,  \* diagnosticRefreshing
          refresh,     \* the calls of RuntimeController.refresh
          page,        \* the totals of the page
          saves,       \* totals on their way to the preferences
          stored,      \* totals in the preferences
          acts,        \* number of those acts
          undisturbed  \* history: no empty statistics replaced a counter of
                       \* the page, and no load of the totals failed

trafficVars == <<tunnel, log, stats, refreshing, refresh, page, saves, stored, acts, undisturbed>>

(* value : what the counter says.  past : the bytes of the sessions before *)
(* this counter began at zero; the code does not know it, the properties   *)
(* do.  A sample without a session is empty.                               *)
Sample == [past : Nat, value : Nat]

(* Mutant: statistics that are missing have a counter of -1.               *)
EmptyMissing == [past |-> -1, value |-> -1]

Empty == [past |-> -1, value |-> 0]

Totals == [total : Nat, last : Nat, past : Nat]

NoTotals == [total |-> 0, last |-> 0, past |-> 0]

IdleRefresh == [pc |-> "idle", shown |-> FALSE, seen |-> Empty]

Act == acts < MaxActs /\ acts' = acts + 1

-----------------------------------------------------------------------------
(* The extension.                                                          *)

Now == [past |-> tunnel.past, value |-> tunnel.value]

(* GetStats asks the data plane of its own process, which only the         *)
(* extension has.                                                          *)
GetStats(running) == IF running THEN Now ELSE Empty

Carry ==
  /\ tunnel.up /\ tunnel.past + tunnel.value < MaxBytes
  /\ tunnel' = [tunnel EXCEPT !.value = @ + 1]
  /\ UNCHANGED <<log, stats, refreshing, refresh, page, saves, stored, acts, undisturbed>>

(* queryNativeTraffic gives nothing: XrayLibrary's core has no CGoQueryStats. *)
RecordStats ==
  /\ tunnel.up
  /\ log' = GetStats(tunnel.up)
  /\ UNCHANGED <<tunnel, stats, refreshing, refresh, page, saves, stored, acts, undisturbed>>

(* A data plane in a new process, or another one, counts from zero; the    *)
(* Go adapter of a process that is used again counts on.  The timer of the *)
(* statistics starts with a record.                                        *)
StartTunnel ==
  /\ ~tunnel.up /\ Act
  /\ \E countsOn \in BOOLEAN :
       tunnel' = IF countsOn THEN [tunnel EXCEPT !.up = TRUE]
                 ELSE [up |-> TRUE, past |-> tunnel.past + tunnel.value, value |-> 0]
  /\ log' = [past |-> tunnel'.past, value |-> tunnel'.value]
  /\ UNCHANGED <<stats, refreshing, refresh, page, saves, stored, undisturbed>>

StopTunnel ==
  /\ tunnel.up
  /\ tunnel' = [tunnel EXCEPT !.up = FALSE]
  /\ UNCHANGED <<log, stats, refreshing, refresh, page, saves, stored, acts, undisturbed>>

-----------------------------------------------------------------------------
(* The page.                                                               *)

(* Mutant: a counter that has not moved counts as a new session.           *)
DeltaOfEqual(current, last) == IF current > last THEN current - last ELSE current

Delta(current, last) == IF current >= last THEN current - last ELSE current

Accumulate(p, s) ==
  [p EXCEPT !.total = @ + Delta(s.value, p.last), !.last = s.value,
            !.past = IF s = Empty THEN @ ELSE s.past]

(* Mutant: the last counter is not saved with the total.                   *)
TotalsAlone(p) == [total |-> p.total, last |-> 0, past |-> p.past]

TotalsOf(p) == [total |-> p.total, last |-> p.last, past |-> p.past]

Overwrites(s) == page.loaded /\ s = Empty /\ page.last > 0

MayOverwrite(s) == Overwrites(s) => acts < MaxActs

(* applyRuntimeState; a save follows when ten seconds have passed since    *)
(* the last one.                                                           *)
ApplyRuntimeState(s) ==
  /\ undisturbed' = (undisturbed /\ ~Overwrites(s))
  /\ acts' = IF Overwrites(s) THEN acts + 1 ELSE acts
  /\ IF page.loaded
     THEN /\ page' = Accumulate(page, s)
          /\ \/ UNCHANGED saves
             \/ /\ Delta(s.value, page.last) > 0 /\ Len(saves) < MaxSaves
                /\ saves' = Append(saves, TotalsOf(page'))
     ELSE UNCHANGED <<page, saves>>

(* A snapshot that a connect, a disconnect or a delay test returns.        *)
Snapshot ==
  /\ MayOverwrite(stats)
  /\ ApplyRuntimeState(stats)
  /\ UNCHANGED <<tunnel, log, stats, refreshing, refresh, stored>>

(* onPageHide saves the totals; aboutToDisappear ends the page as well.    *)
PersistTotals ==
  /\ page.loaded /\ Len(saves) < MaxSaves
  /\ saves' = Append(saves, TotalsOf(page))

PageHide ==
  /\ PersistTotals
  /\ UNCHANGED <<tunnel, log, stats, refreshing, refresh, page, stored, acts, undisturbed>>

NoPage == [loaded |-> FALSE, total |-> 0, last |-> 0, past |-> 0]

AboutToDisappear ==
  /\ PersistTotals /\ Act
  /\ page' = NoPage
  /\ refresh' = [r \in Refresh |-> [refresh[r] EXCEPT !.shown = FALSE]]
  /\ UNCHANGED <<tunnel, log, stats, refreshing, stored, undisturbed>>

(* The preferences serve the calls in their order.                         *)
LoadTrafficTotals ==
  /\ ~page.loaded /\ saves = <<>>
  /\ \/ /\ page' = [loaded |-> TRUE, total |-> stored.total, last |-> stored.last,
                    past |-> stored.past]
        /\ UNCHANGED undisturbed
     \/ page' = [NoPage EXCEPT !.loaded = TRUE] /\ undisturbed' = FALSE
  /\ UNCHANGED <<tunnel, log, stats, refreshing, refresh, saves, stored, acts>>

(* A save that fails is given up.                                          *)
SaveEnds ==
  /\ saves # <<>>
  /\ stored' \in {stored, Head(saves)}
  /\ saves' = Tail(saves)
  /\ UNCHANGED <<tunnel, log, stats, refreshing, refresh, page, acts, undisturbed>>

-----------------------------------------------------------------------------
(* RuntimeController.refresh.                                              *)

(* Mutant: the flag stays up.                                              *)
KeptFlag == TRUE

ReleasedFlag == FALSE

ShowTo(shown, s) ==
  IF shown THEN ApplyRuntimeState(s) ELSE UNCHANGED <<page, saves, undisturbed, acts>>

(* refreshDiagnostics, up to reading the file.  While another refresh      *)
(* reads it, the caller is given the statistics as they are.               *)
RefreshDiagnostics(r, shown, s) ==
  IF refreshing
  THEN /\ ShowTo(shown, s) /\ (shown => MayOverwrite(s))
       /\ refresh' = [refresh EXCEPT ![r] = IdleRefresh]
       /\ UNCHANGED refreshing
  ELSE /\ refreshing' = TRUE
       /\ refresh' = [refresh EXCEPT ![r] = [pc |-> "reading", shown |-> shown, seen |-> Empty]]
       /\ UNCHANGED <<page, saves, undisturbed, acts>>

LoadCoreSetting(r) ==
  /\ refresh' = [refresh EXCEPT ![r] = [pc |-> "core", shown |-> r \in PageRefresh,
                                          seen |-> Empty]]
  /\ UNCHANGED <<refreshing, page, saves, undisturbed, acts>>

(* The statistics of the process itself come first.  While the controller  *)
(* knows of no connection, which need not be so of the tunnel, the setting *)
(* of the core is loaded next.                                             *)
BeginRefresh(r) ==
  /\ refresh[r].pc = "idle"
  /\ stats' = GetStats(FALSE)
  /\ RefreshDiagnostics(r, r \in PageRefresh, Empty) \/ LoadCoreSetting(r)
  /\ UNCHANGED <<tunnel, log, stored>>

CoreIsLoaded(r) ==
  /\ refresh[r].pc = "core"
  /\ RefreshDiagnostics(r, refresh[r].shown, stats)
  /\ UNCHANGED <<tunnel, log, stats, stored>>

(* The file is empty for a moment while the extension rotates it.          *)
ReadText(r) ==
  /\ refresh[r].pc = "reading"
  /\ \E seen \in {log, Empty} :
       /\ IF seen = log THEN UNCHANGED acts ELSE Act
       /\ refresh' = [refresh EXCEPT ![r].pc = "read", ![r].seen = seen]
  /\ UNCHANGED <<tunnel, log, stats, refreshing, page, saves, stored, undisturbed>>

(* Without statistics in the log those of the process stay.                *)
ApplyDiagnosticStats(seen) == IF seen = Empty THEN stats ELSE seen

ResumeRefresh(r) ==
  /\ refresh[r].pc = "read"
  /\ stats' = ApplyDiagnosticStats(refresh[r].seen)
  /\ refreshing' = ReleasedFlag
  /\ refresh' = [refresh EXCEPT ![r] = IdleRefresh]
  /\ ShowTo(refresh[r].shown, stats')
  /\ UNCHANGED <<tunnel, log, stored>>

(* The log page empties the file.                                          *)
ClearLogs ==
  /\ Act
  /\ log' = Empty
  /\ UNCHANGED <<tunnel, stats, refreshing, refresh, page, saves, stored, undisturbed>>

(* The main process ends; the tunnel stays.                                *)
ProcessDies ==
  /\ Act
  /\ stats' = Empty
  /\ refreshing' = FALSE
  /\ refresh' = [r \in Refresh |-> IdleRefresh]
  /\ page' = NoPage
  /\ saves' = <<>>
  /\ UNCHANGED <<tunnel, log, stored, undisturbed>>

-----------------------------------------------------------------------------
TrafficInit ==
  /\ tunnel = [up |-> FALSE, past |-> 0, value |-> 0]
  /\ log = Empty
  /\ stats = Empty
  /\ refreshing = FALSE
  /\ refresh = [r \in Refresh |-> IdleRefresh]
  /\ page = NoPage
  /\ saves = <<>>
  /\ stored = NoTotals
  /\ acts = 0
  /\ undisturbed = TRUE

RefreshStep(r) == BeginRefresh(r) \/ CoreIsLoaded(r) \/ ReadText(r) \/ ResumeRefresh(r)

TunnelStep == Carry \/ RecordStats \/ StartTunnel \/ StopTunnel

PageStep == Snapshot \/ PageHide \/ AboutToDisappear \/ LoadTrafficTotals \/ SaveEnds

TrafficNext ==
  \/ \E r \in Refresh : RefreshStep(r)
  \/ TunnelStep \/ PageStep \/ ClearLogs \/ ProcessDies

TrafficSpec == TrafficInit /\ [][TrafficNext]_trafficVars

(* The timer of the page ticks, and what a refresh waits for comes.        *)
FairTrafficSpec ==
  /\ TrafficSpec
  /\ \A r \in Refresh :
       WF_trafficVars(CoreIsLoaded(r)) /\ WF_trafficVars(ReadText(r)) /\ WF_trafficVars(ResumeRefresh(r))
  /\ \A r \in PageRefresh : WF_trafficVars(BeginRefresh(r))

-----------------------------------------------------------------------------
TrafficTypeOK ==
  /\ tunnel \in [up : BOOLEAN, past : Nat, value : Nat]
  /\ log \in Sample \cup {Empty} /\ stats \in Sample \cup {Empty}
  /\ refreshing \in BOOLEAN
  /\ refresh \in [Refresh -> [pc : {"idle", "core", "reading", "read"}, shown : BOOLEAN,
                              seen : Sample \cup {Empty}]]
  /\ page \in [loaded : BOOLEAN, total : Nat, last : Nat, past : Nat]
  /\ saves \in Seq(Totals) /\ stored \in Totals
  /\ acts \in Nat /\ undisturbed \in BOOLEAN

(* The lifetime total counts no byte twice, through sessions, kills and    *)
(* loads (accumulateTraffic), as long as no empty statistics replaced a    *)
(* counter the page had and no load of the totals failed (undisturbed).    *)
Carried == tunnel.past + tunnel.value

NoByteTwice == undisturbed => stored.total <= Carried /\ (page.loaded => page.total <= Carried)

(* Without that condition: what the comment of accumulateTraffic says.     *)
NeverTwice == page.loaded => page.total <= Carried

Agree(a, b) == a.past = b.past => a.total - a.last = b.total - b.last

(* Wherever in a session the totals are read back, by a new page or after  *)
(* a kill, the next sample brings them to where they would have been: the  *)
(* totals of one session differ by what their counters differ (the four    *)
(* values of TrafficTotals are saved together); undisturbed as above.       *)
SessionResumes ==
  undisturbed =>
    /\ page.loaded => Agree(page, stored)
    /\ \A i \in DOMAIN saves : Agree(saves[i], stored) /\ (page.loaded => Agree(saves[i], page))

(* Once the log page is left, the page catches up with the log again and   *)
(* again, while there is a page and the log has statistics                 *)
(* (refreshDiagnostics gives its flag back whatever happens).              *)
CaughtUp == page.loaded => log = Empty \/ page.last = log.value

LogPageLeft == \A r \in OtherRefresh : refresh[r].pc = "idle"

TotalsCatchUp == <>[]LogPageLeft => []<>CaughtUp
=============================================================================
