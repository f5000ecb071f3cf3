---------------------------- MODULE TrafficProofs ----------------------------
(***************************************************************************)
(* Proofs about TrafficTotals, for any refreshes and any bounds: the       *)
(* lifetime total counts no byte twice, and a session resumes wherever its *)
(* totals are read back.                                                   *)
(***************************************************************************)
EXTENDS TrafficTotals, TLAPS

(* The actions of TrafficNext, one by one.                                 *)
LEMMA NextCases ==
  ASSUME TrafficNext, NEW P,
         \A r \in Refresh : BeginRefresh(r) => P,
         \A r \in Refresh : CoreIsLoaded(r) => P,
         \A r \in Refresh : ReadText(r) => P,
         \A r \in Refresh : ResumeRefresh(r) => P,
         Carry => P, RecordStats => P, StartTunnel => P, StopTunnel => P,
         Snapshot => P, PageHide => P, AboutToDisappear => P, LoadTrafficTotals => P,
         SaveEnds => P, ClearLogs => P, ProcessDies => P
  PROVE  P
  BY DEF TrafficNext, RefreshStep, TunnelStep, PageStep

LEMMA EmptyIsNoSample == Empty \notin Sample /\ \A s \in Sample : s # Empty /\ s.past \in Nat /\ s.value \in Nat
  BY DEF Empty, Sample

-----------------------------------------------------------------------------
(* Types.                                                                  *)

Page == [loaded : BOOLEAN, total : Nat, last : Nat, past : Nat]

LEMMA DeltaType == ASSUME NEW a \in Nat, NEW b \in Nat PROVE Delta(a, b) \in Nat /\ Delta(a, b) <= a
  BY DEF Delta

LEMMA UpdatedPage ==
  ASSUME NEW l, NEW t, NEW n, NEW o, NEW p, NEW q, NEW total, NEW last, NEW past,
         p = [loaded |-> l, total |-> t, last |-> n, past |-> o],
         q = [p EXCEPT !.total = total, !.last = last, !.past = past]
  PROVE  q = [loaded |-> l, total |-> total, last |-> last, past |-> past]
  OBVIOUS

LEMMA AccumulateIs ==
  ASSUME NEW p \in Page, NEW s
  PROVE  Accumulate(p, s) = [loaded |-> p.loaded, total |-> p.total + Delta(s.value, p.last),
                             last |-> s.value, past |-> IF s = Empty THEN p.past ELSE s.past]
<1>1. PICK p0 : p0 = p
  OBVIOUS
<1>2. p0 = [loaded |-> p.loaded, total |-> p.total, last |-> p.last, past |-> p.past]
  BY <1>1 DEF Page
<1>3. PICK q0 : q0 = [p0 EXCEPT !.total = p.total + Delta(s.value, p.last), !.last = s.value,
                                !.past = IF s = Empty THEN p.past ELSE s.past]
  OBVIOUS
<1>4. q0 = [loaded |-> p.loaded, total |-> p.total + Delta(s.value, p.last),
            last |-> s.value, past |-> IF s = Empty THEN p.past ELSE s.past]
  BY <1>2, <1>3, UpdatedPage, Zenon
<1>5. Accumulate(p, s) = q0
  BY <1>1, <1>3, Zenon DEF Accumulate
<1> QED BY <1>4, <1>5, Zenon

LEMMA AccumulateType ==
  ASSUME NEW p \in Page, NEW s \in Sample \cup {Empty}
  PROVE  /\ Accumulate(p, s) \in Page
         /\ Accumulate(p, s).loaded = p.loaded
         /\ Accumulate(p, s).total = p.total + Delta(s.value, p.last)
         /\ Accumulate(p, s).last = s.value
         /\ Accumulate(p, s).past = IF s = Empty THEN p.past ELSE s.past
<1>1. s.value \in Nat /\ (s # Empty => s.past \in Nat)
  BY DEF Empty, Sample
<1>2. Delta(s.value, p.last) \in Nat
  BY <1>1, DeltaType DEF Page
<1>3. PICK q : q = [loaded |-> p.loaded, total |-> p.total + Delta(s.value, p.last),
                    last |-> s.value, past |-> IF s = Empty THEN p.past ELSE s.past]
  OBVIOUS
<1>4. Accumulate(p, s) = q
  BY <1>3, AccumulateIs, Zenon
<1>5. q \in Page
  BY <1>1, <1>2, <1>3 DEF Page
<1> QED BY <1>3, <1>4, <1>5

LEMMA TotalsOfType == ASSUME NEW p \in Page PROVE TotalsOf(p) \in Totals
  BY DEF TotalsOf, Totals, Page

RefreshCall == [pc : {"idle", "core", "reading", "read"}, shown : BOOLEAN,
                seen : Sample \cup {Empty}]

LEMMA RefreshCalls ==
  /\ IdleRefresh \in RefreshCall
  /\ \A pc \in {"core", "reading"}, shown \in BOOLEAN :
       [pc |-> pc, shown |-> shown, seen |-> Empty] \in RefreshCall
  /\ \A c \in RefreshCall : [c EXCEPT !.shown = FALSE] \in RefreshCall
  /\ \A c \in RefreshCall, seen \in Sample \cup {Empty} :
       [c EXCEPT !.pc = "read", !.seen = seen] \in RefreshCall
<1>1. IdleRefresh \in RefreshCall
  BY DEF RefreshCall, IdleRefresh
<1>2. ASSUME NEW pc \in {"core", "reading"}, NEW shown \in BOOLEAN
      PROVE  [pc |-> pc, shown |-> shown, seen |-> Empty] \in RefreshCall
  BY DEF RefreshCall
<1>3. ASSUME NEW c \in RefreshCall PROVE [c EXCEPT !.shown = FALSE] \in RefreshCall
  BY DEF RefreshCall
<1>4. ASSUME NEW c \in RefreshCall, NEW seen \in Sample \cup {Empty}
      PROVE  [c EXCEPT !.pc = "read", !.seen = seen] \in RefreshCall
  BY DEF RefreshCall
<1> QED BY <1>1, <1>2, <1>3, <1>4, Zenon

LEMMA TypesInit == ASSUME TrafficInit PROVE TrafficTypeOK
<1>1. NoPage \in Page /\ NoTotals \in Totals /\ <<>> \in Seq(Totals)
  BY DEF NoPage, NoTotals, Page, Totals
<1>2. refresh \in [Refresh -> RefreshCall]
  BY RefreshCalls DEF TrafficInit
<1> QED BY <1>1, <1>2 DEF TrafficInit, TrafficTypeOK, Page, RefreshCall

LEMMA ApplyTypes ==
  ASSUME TrafficTypeOK, NEW s \in Sample \cup {Empty}, ApplyRuntimeState(s)
  PROVE  page' \in Page /\ saves' \in Seq(Totals) /\ acts' \in Nat /\ undisturbed' \in BOOLEAN
<1>1. page \in Page /\ saves \in Seq(Totals) /\ acts \in Nat
  BY DEF TrafficTypeOK, Page
<1>2. page' \in Page
  BY <1>1, AccumulateType DEF ApplyRuntimeState
<1>3. TotalsOf(page') \in Totals
  BY <1>2, TotalsOfType
<1>4. saves' \in Seq(Totals)
  BY <1>1, <1>3 DEF ApplyRuntimeState
<1>5. acts' \in Nat /\ undisturbed' \in BOOLEAN
  BY <1>1 DEF ApplyRuntimeState
<1> QED BY <1>2, <1>4, <1>5

LEMMA RefreshTypes ==
  ASSUME TrafficTypeOK, NEW r \in Refresh, NEW shown \in BOOLEAN, NEW s \in Sample \cup {Empty},
         RefreshDiagnostics(r, shown, s)
  PROVE  /\ refresh' \in [Refresh -> RefreshCall]
         /\ refreshing' \in BOOLEAN
         /\ page' \in Page /\ saves' \in Seq(Totals) /\ acts' \in Nat /\ undisturbed' \in BOOLEAN
<1>1. page' \in Page /\ saves' \in Seq(Totals) /\ acts' \in Nat /\ undisturbed' \in BOOLEAN
  BY ApplyTypes DEF RefreshDiagnostics, ShowTo, TrafficTypeOK, Page
<1>2. refresh \in [Refresh -> RefreshCall]
  BY DEF TrafficTypeOK, RefreshCall
<1>3. [pc |-> "reading", shown |-> shown, seen |-> Empty] \in RefreshCall /\ IdleRefresh \in RefreshCall
  BY RefreshCalls
<1>4. refresh' \in [Refresh -> RefreshCall] /\ refreshing' \in BOOLEAN
  BY <1>2, <1>3 DEF RefreshDiagnostics, TrafficTypeOK
<1> QED BY <1>1, <1>4

LEMMA TypesNext ==
  ASSUME TrafficTypeOK, [TrafficNext]_trafficVars PROVE TrafficTypeOK'
<1>1. CASE UNCHANGED trafficVars
  BY <1>1 DEF trafficVars, TrafficTypeOK
<1>2. CASE TrafficNext
  <2>0. refresh \in [Refresh -> RefreshCall]
    BY DEF TrafficTypeOK, RefreshCall
  <2>1. ASSUME NEW r \in Refresh, BeginRefresh(r) PROVE TrafficTypeOK'
    <3>1. stats' = Empty
      BY <2>1 DEF BeginRefresh, GetStats
    <3>2. CASE RefreshDiagnostics(r, r \in PageRefresh, Empty)
      <4>0. (r \in PageRefresh) \in BOOLEAN
        OBVIOUS
      <4>1. PICK shown \in BOOLEAN : shown = (r \in PageRefresh)
        BY <4>0, Zenon
      <4>2. RefreshDiagnostics(r, shown, Empty)
        BY <2>1, <3>2, <4>1, Zenon DEF BeginRefresh
      <4> QED BY <2>1, <3>1, <4>2, RefreshTypes DEF BeginRefresh, TrafficTypeOK, Page, RefreshCall
    <3>3. CASE LoadCoreSetting(r)
      <4>1. [pc |-> "core", shown |-> r \in PageRefresh, seen |-> Empty] \in RefreshCall
        <5>0. (r \in PageRefresh) \in BOOLEAN
          OBVIOUS
        <5>1. PICK shown \in BOOLEAN : shown = (r \in PageRefresh)
          BY <5>0, Zenon
        <5>2. [pc |-> "core", shown |-> shown, seen |-> Empty] \in RefreshCall
          BY RefreshCalls
        <5> QED BY <5>1, <5>2, Zenon
      <4>2. refresh' \in [Refresh -> RefreshCall]
        BY <2>0, <2>1, <3>3, <4>1 DEF BeginRefresh, LoadCoreSetting
      <4> QED BY <2>1, <3>1, <3>3, <4>2 DEF BeginRefresh, LoadCoreSetting, TrafficTypeOK, RefreshCall
    <3> QED BY <2>1, <3>2, <3>3, Zenon DEF BeginRefresh
  <2>2. ASSUME NEW r \in Refresh, CoreIsLoaded(r) PROVE TrafficTypeOK'
    <3>1. refresh[r].shown \in BOOLEAN /\ stats \in Sample \cup {Empty}
      BY DEF TrafficTypeOK
    <3> QED BY <2>2, <3>1, RefreshTypes DEF CoreIsLoaded, TrafficTypeOK, Page, RefreshCall
  <2>3. ASSUME NEW r \in Refresh, ReadText(r) PROVE TrafficTypeOK'
    <3>1. PICK seen \in {log, Empty} :
            refresh' = [refresh EXCEPT ![r] = [refresh[r] EXCEPT !.pc = "read", !.seen = seen]]
      BY <2>3 DEF ReadText
    <3>2. [refresh[r] EXCEPT !.pc = "read", !.seen = seen] \in RefreshCall
      BY <2>0, RefreshCalls DEF TrafficTypeOK
    <3>3. refresh' \in [Refresh -> RefreshCall]
      BY <2>0, <3>1, <3>2
    <3>4. acts' \in Nat
      BY <2>3 DEF ReadText, Act, TrafficTypeOK
    <3> QED BY <2>3, <3>3, <3>4 DEF ReadText, TrafficTypeOK, RefreshCall
  <2>4. ASSUME NEW r \in Refresh, ResumeRefresh(r) PROVE TrafficTypeOK'
    <3>1. stats' \in Sample \cup {Empty}
      BY <2>4 DEF ResumeRefresh, ApplyDiagnosticStats, TrafficTypeOK
    <3>2. page' \in Page /\ saves' \in Seq(Totals) /\ acts' \in Nat /\ undisturbed' \in BOOLEAN
      BY <2>4, <3>1, ApplyTypes DEF ResumeRefresh, ShowTo, TrafficTypeOK, Page
    <3>3. refresh' \in [Refresh -> RefreshCall]
      BY <2>0, <2>4, RefreshCalls DEF ResumeRefresh
    <3> QED BY <2>4, <3>1, <3>2, <3>3 DEF ResumeRefresh, ReleasedFlag, TrafficTypeOK, Page, RefreshCall
  <2>5. ASSUME Carry PROVE TrafficTypeOK'
    BY <2>5 DEF Carry, TrafficTypeOK
  <2>6. ASSUME RecordStats PROVE TrafficTypeOK'
    BY <2>6 DEF RecordStats, GetStats, Now, Sample, TrafficTypeOK
  <2>7. ASSUME StartTunnel PROVE TrafficTypeOK'
    <3>1. tunnel' \in [up : BOOLEAN, past : Nat, value : Nat]
      <4>1. tunnel.past + tunnel.value \in Nat
        BY DEF TrafficTypeOK
      <4>2. [tunnel EXCEPT !.up = TRUE] \in [up : BOOLEAN, past : Nat, value : Nat]
        BY DEF TrafficTypeOK
      <4>3. [up |-> TRUE, past |-> tunnel.past + tunnel.value, value |-> 0]
              \in [up : BOOLEAN, past : Nat, value : Nat]
        BY <4>1
      <4> QED BY <2>7, <4>2, <4>3 DEF StartTunnel
    <3>2. log' \in Sample
      BY <2>7, <3>1 DEF StartTunnel, Sample
    <3> QED BY <2>7, <3>1, <3>2 DEF StartTunnel, Act, TrafficTypeOK
  <2>8. ASSUME StopTunnel PROVE TrafficTypeOK'
    BY <2>8 DEF StopTunnel, TrafficTypeOK
  <2>9. ASSUME Snapshot PROVE TrafficTypeOK'
    BY <2>9, ApplyTypes DEF Snapshot, TrafficTypeOK, Page
  <2>10. ASSUME PageHide PROVE TrafficTypeOK'
    <3>1. saves' \in Seq(Totals)
      BY <2>10, TotalsOfType DEF PageHide, PersistTotals, TrafficTypeOK, Page
    <3> QED BY <2>10, <3>1 DEF PageHide, TrafficTypeOK
  <2>11. ASSUME AboutToDisappear PROVE TrafficTypeOK'
    <3>1. saves' \in Seq(Totals)
      BY <2>11, TotalsOfType DEF AboutToDisappear, PersistTotals, TrafficTypeOK, Page
    <3>2. refresh' \in [Refresh -> RefreshCall]
      BY <2>0, <2>11, RefreshCalls DEF AboutToDisappear
    <3>3. NoPage \in Page
      BY DEF NoPage, Page
    <3> QED BY <2>11, <3>1, <3>2, <3>3 DEF AboutToDisappear, Act, TrafficTypeOK, RefreshCall, Page
  <2>12. ASSUME LoadTrafficTotals PROVE TrafficTypeOK'
    <3>1. [NoPage EXCEPT !.loaded = TRUE] \in Page
      BY DEF NoPage, Page
    <3>2. [loaded |-> TRUE, total |-> stored.total, last |-> stored.last, past |-> stored.past] \in Page
      BY DEF TrafficTypeOK, Totals, Page
    <3> QED BY <2>12, <3>1, <3>2 DEF LoadTrafficTotals, TrafficTypeOK, Page
  <2>13. ASSUME SaveEnds PROVE TrafficTypeOK'
    <3>1. saves # <<>> /\ saves \in Seq(Totals)
      BY <2>13 DEF SaveEnds, TrafficTypeOK
    <3>2. Head(saves) \in Totals /\ Tail(saves) \in Seq(Totals)
      BY <3>1
    <3> QED BY <2>13, <3>2 DEF SaveEnds, TrafficTypeOK
  <2>14. ASSUME ClearLogs PROVE TrafficTypeOK'
    BY <2>14 DEF ClearLogs, Act, TrafficTypeOK
  <2>15. ASSUME ProcessDies PROVE TrafficTypeOK'
    <3>1. refresh' \in [Refresh -> RefreshCall]
      BY <2>15, RefreshCalls DEF ProcessDies
    <3>2. NoPage \in Page /\ <<>> \in Seq(Totals)
      BY DEF NoPage, Page
    <3>3. stats' = Empty /\ refreshing' = FALSE /\ page' = NoPage /\ saves' = <<>> /\ acts' = acts + 1
          /\ UNCHANGED <<tunnel, log, stored, undisturbed>>
      BY <2>15 DEF ProcessDies, Act
    <3>4. page' \in Page /\ saves' \in Seq(Totals) /\ acts' \in Nat
      BY <3>2, <3>3 DEF TrafficTypeOK
    <3> QED BY <3>1, <3>3, <3>4 DEF TrafficTypeOK, RefreshCall, Page
  <2> QED
    BY <1>2, <2>1, <2>2, <2>3, <2>4, <2>5, <2>6, <2>7, <2>8, <2>9, <2>10, <2>11, <2>12, <2>13,
       <2>14, <2>15, NextCases
<1> QED BY <1>1, <1>2

(* The type invariant, for any refreshes and any bounds.                   *)
THEOREM TrafficTypes == TrafficSpec => []TrafficTypeOK
<1>1. TrafficInit => TrafficTypeOK
  BY TypesInit
<1>2. TrafficTypeOK /\ [TrafficNext]_trafficVars => TrafficTypeOK'
  BY TypesNext
<1> QED BY <1>1, <1>2, PTL DEF TrafficSpec

-----------------------------------------------------------------------------
(* The order of samples.  A sample comes before another one of the same    *)
(* count with a larger value, or of a count that began later.              *)
Before(a, b) == (a.past = b.past /\ a.value <= b.value) \/ a.past + a.value <= b.past

(* One refresh at most reads the log.  What it read comes after the        *)
(* statistics there are, before the log and before the counter.            *)
SamplesInv ==
  /\ \A r \in Refresh :
       /\ refresh[r].pc \in {"reading", "read"} => refreshing
       /\ refresh[r].seen # Empty => refresh[r].pc = "read"
       /\ \A q \in Refresh :
            refresh[r].pc \in {"reading", "read"} /\ refresh[q].pc \in {"reading", "read"} => r = q
  /\ log # Empty => Before(log, Now)
  /\ stats # Empty => Before(stats, Now) /\ (log # Empty => Before(stats, log))
  /\ \A r \in Refresh : refresh[r].seen # Empty =>
       /\ Before(refresh[r].seen, Now)
       /\ log # Empty => Before(refresh[r].seen, log)
       /\ stats # Empty => Before(stats, refresh[r].seen)

(* The samples that totals may still be brought to.                        *)
Ahead == ({Now, log, stats} \cup {refresh[r].seen : r \in Refresh}) \ {Empty}

(* Totals at a sample; totals that count every byte once; totals of which  *)
(* the second may have come from the first.                                *)
Reached(q, s) == (q.past = s.past /\ q.last <= s.value) \/ q.past + q.last <= s.past

Counted(q) == q.total <= q.past + q.last

Follows(a, b) ==
  /\ (a.past = b.past /\ a.last <= b.last) \/ a.past + a.last <= b.past
  /\ Agree(a, b)

TotalsInv ==
  /\ \A s \in Ahead :
       /\ Reached(stored, s)
       /\ \A i \in DOMAIN saves : Reached(saves[i], s)
       /\ page.loaded => Reached(page, s)
  /\ Counted(stored)
  /\ \A i \in DOMAIN saves : Counted(saves[i])
  /\ page.loaded => Counted(page) /\ Follows(stored, page)
  /\ \A i \in DOMAIN saves :
       /\ Follows(stored, saves[i])
       /\ page.loaded => Follows(saves[i], page)
       /\ \A j \in DOMAIN saves : i <= j => Follows(saves[i], saves[j])

LEMMA NowIsSample == ASSUME TrafficTypeOK PROVE Now \in Sample
  BY DEF TrafficTypeOK, Now, Sample

LEMMA BeforeTransitive ==
  ASSUME NEW a \in Sample, NEW b \in Sample, NEW c \in Sample, Before(a, b), Before(b, c)
  PROVE  Before(a, c)
  BY DEF Before, Sample

LEMMA BeforeReflexive == ASSUME NEW a \in Sample PROVE Before(a, a)
  BY DEF Before, Sample

(* The counter only grows, and a new count begins after the last one.      *)
LEMMA CounterGrows ==
  ASSUME TrafficTypeOK, NEW a \in Sample, Before(a, Now), Carry \/ StartTunnel \/ StopTunnel
  PROVE  Before(a, Now')
<1>1. /\ tunnel.past \in Nat /\ tunnel.value \in Nat /\ a.past \in Nat /\ a.value \in Nat
      /\ Now.past = tunnel.past /\ Now.value = tunnel.value
      /\ Now'.past = tunnel'.past /\ Now'.value = tunnel'.value
  BY DEF TrafficTypeOK, Now, Sample
<1>2. \/ tunnel'.past = tunnel.past /\ tunnel'.value \in {tunnel.value, tunnel.value + 1}
      \/ tunnel'.past = tunnel.past + tunnel.value /\ tunnel'.value = 0
  BY DEF TrafficTypeOK, Carry, StartTunnel, StopTunnel
<1> QED BY <1>1, <1>2 DEF Before

LEMMA SamplesRefresh ==
  ASSUME TrafficTypeOK, SamplesInv, NEW r \in Refresh, NEW shown \in BOOLEAN, NEW s,
         RefreshDiagnostics(r, shown, s), refresh[r].pc \in {"idle", "core"},
         UNCHANGED <<tunnel, log>>, stats' \in {stats, Empty}
  PROVE  SamplesInv'
<1>1. refresh[r].seen = Empty
  BY DEF SamplesInv
<1>2. \A q \in Refresh : refresh'[q].seen = refresh[q].seen
  BY <1>1 DEF RefreshDiagnostics, TrafficTypeOK, IdleRefresh
<1>3. Now' = Now
  BY DEF Now
<1>4. CASE refreshing
  BY <1>1, <1>2, <1>3, <1>4 DEF RefreshDiagnostics, SamplesInv, IdleRefresh, TrafficTypeOK
<1>5. CASE ~refreshing
  BY <1>1, <1>2, <1>3, <1>5 DEF RefreshDiagnostics, SamplesInv, TrafficTypeOK
<1> QED BY <1>4, <1>5 DEF TrafficTypeOK

LEMMA SamplesNext ==
  ASSUME TrafficTypeOK, SamplesInv, [TrafficNext]_trafficVars PROVE SamplesInv'
<1>1. CASE UNCHANGED trafficVars
  BY <1>1 DEF trafficVars, SamplesInv, Now
<1>2. CASE TrafficNext
  <2>a. /\ \A r \in Refresh : refresh[r].seen # Empty => refresh[r].seen \in Sample
        /\ log # Empty => log \in Sample
        /\ stats # Empty => stats \in Sample
        /\ Now \in Sample
    BY NowIsSample DEF TrafficTypeOK
  <2>1. ASSUME NEW r \in Refresh, BeginRefresh(r) PROVE SamplesInv'
    <3>1. CASE RefreshDiagnostics(r, r \in PageRefresh, Empty)
      <4>0. (r \in PageRefresh) \in BOOLEAN
        OBVIOUS
      <4>1. PICK shown \in BOOLEAN : shown = (r \in PageRefresh)
        BY <4>0, Zenon
      <4>2. RefreshDiagnostics(r, shown, Empty)
        BY <2>1, <3>1, <4>1, Zenon DEF BeginRefresh
      <4> QED BY <2>1, <4>2, SamplesRefresh DEF BeginRefresh, GetStats
    <3>2. CASE LoadCoreSetting(r)
      <4>1. /\ refresh[r].pc = "idle" /\ refresh'[r].pc = "core" /\ refresh'[r].seen = Empty
            /\ \A q \in Refresh \ {r} : refresh'[q] = refresh[q]
        BY <2>1, <3>2 DEF BeginRefresh, LoadCoreSetting, TrafficTypeOK
      <4>2. stats' = Empty /\ Now' = Now /\ UNCHANGED <<log, refreshing>>
        BY <2>1, <3>2 DEF BeginRefresh, LoadCoreSetting, GetStats, Now
      <4> QED BY <4>1, <4>2 DEF SamplesInv
    <3> QED BY <2>1, <3>1, <3>2, Zenon DEF BeginRefresh
  <2>2. ASSUME NEW r \in Refresh, CoreIsLoaded(r) PROVE SamplesInv'
    BY <2>2, SamplesRefresh DEF CoreIsLoaded, TrafficTypeOK
  <2>3. ASSUME NEW r \in Refresh, ReadText(r) PROVE SamplesInv'
    <3>1. PICK seen \in {log, Empty} :
            refresh' = [refresh EXCEPT ![r] = [refresh[r] EXCEPT !.pc = "read", !.seen = seen]]
      BY <2>3 DEF ReadText
    <3>2. /\ refresh'[r].pc = "read" /\ refresh'[r].seen = seen
          /\ \A q \in Refresh \ {r} : refresh'[q] = refresh[q]
      BY <3>1 DEF TrafficTypeOK
    <3>3. Now' = Now /\ UNCHANGED <<log, stats, refreshing>> /\ refresh[r].pc = "reading"
      BY <2>3 DEF ReadText, Now
    <3>4. log # Empty => Before(log, log)
      BY <2>a, BeforeReflexive
    <3> QED BY <3>2, <3>3, <3>4 DEF SamplesInv
  <2>4. ASSUME NEW r \in Refresh, ResumeRefresh(r) PROVE SamplesInv'
    <3>1. /\ refresh'[r] = IdleRefresh
          /\ \A q \in Refresh \ {r} : refresh'[q] = refresh[q]
      BY <2>4 DEF ResumeRefresh, TrafficTypeOK
    <3>2. \A q \in Refresh : refresh'[q].pc \notin {"reading", "read"} /\ refresh'[q].seen = Empty
      BY <2>4, <3>1 DEF ResumeRefresh, SamplesInv, IdleRefresh
    <3>3. stats' = (IF refresh[r].seen = Empty THEN stats ELSE refresh[r].seen)
          /\ Now' = Now /\ UNCHANGED log
      BY <2>4 DEF ResumeRefresh, ApplyDiagnosticStats, Now
    <3> QED BY <3>2, <3>3 DEF SamplesInv
  <2>5. ASSUME Carry \/ StopTunnel PROVE SamplesInv'
    BY <2>a, <2>5, CounterGrows DEF Carry, StopTunnel, SamplesInv
  <2>6. ASSUME RecordStats PROVE SamplesInv'
    <3>1. log' = Now /\ Now' = Now /\ UNCHANGED <<stats, refreshing, refresh>>
      BY <2>6 DEF RecordStats, GetStats, Now
    <3> QED BY <2>a, <3>1, BeforeReflexive DEF SamplesInv
  <2>7. ASSUME StartTunnel PROVE SamplesInv'
    <3>1. log' = Now' /\ UNCHANGED <<stats, refreshing, refresh>>
      BY <2>7 DEF StartTunnel, Now
    <3>2. Now' \in Sample
      BY <2>7, NowIsSample DEF StartTunnel, TrafficTypeOK, Now, Sample
    <3> QED BY <2>a, <2>7, <3>1, <3>2, BeforeReflexive, CounterGrows DEF SamplesInv
  <2>8. ASSUME Snapshot \/ PageHide \/ LoadTrafficTotals \/ SaveEnds PROVE SamplesInv'
    BY <2>8 DEF Snapshot, PageHide, LoadTrafficTotals, SaveEnds, SamplesInv, Now
  <2>9. ASSUME AboutToDisappear PROVE SamplesInv'
    <3>1. \A r \in Refresh : refresh'[r].pc = refresh[r].pc /\ refresh'[r].seen = refresh[r].seen
      BY <2>9 DEF AboutToDisappear, TrafficTypeOK
    <3> QED BY <2>9, <3>1 DEF AboutToDisappear, SamplesInv, Now
  <2>10. ASSUME ClearLogs PROVE SamplesInv'
    BY <2>10 DEF ClearLogs, SamplesInv, Now
  <2>11. ASSUME ProcessDies PROVE SamplesInv'
    BY <2>11 DEF ProcessDies, SamplesInv, IdleRefresh, Now
  <2> QED
    BY <1>2, <2>1, <2>2, <2>3, <2>4, <2>5, <2>6, <2>7, <2>8, <2>9, <2>10, <2>11, NextCases
<1> QED BY <1>1, <1>2

-----------------------------------------------------------------------------
(* The arithmetic of the totals.                                           *)

LEMMA ReachedLater ==
  ASSUME NEW q \in Totals \cup Page, NEW a \in Sample, NEW b \in Sample, Reached(q, a), Before(a, b)
  PROVE  Reached(q, b)
  BY DEF Reached, Before, Totals, Page, Sample

LEMMA FollowsTransitive ==
  ASSUME NEW a \in Totals \cup Page, NEW b \in Totals \cup Page, NEW c \in Totals \cup Page,
         Follows(a, b), Follows(b, c)
  PROVE  Follows(a, c)
  BY DEF Follows, Agree, Totals, Page

(* Totals brought to a sample they can be brought to.                      *)
LEMMA Accumulated ==
  ASSUME NEW p \in Page, NEW s \in Sample, Reached(p, s), Counted(p)
  PROVE  /\ Counted(Accumulate(p, s))
         /\ \A a \in Sample : Before(s, a) => Reached(Accumulate(p, s), a)
         /\ \A q \in Totals \cup Page :
              Follows(q, p) /\ Reached(q, s) => Follows(q, Accumulate(p, s))
<1>1. PICK n : n = Accumulate(p, s)
  OBVIOUS
<1>2. /\ n.total = p.total + Delta(s.value, p.last) /\ n.last = s.value /\ n.past = s.past
      /\ n.total \in Nat /\ n.last \in Nat /\ n.past \in Nat
      /\ p.total \in Nat /\ p.last \in Nat /\ p.past \in Nat
  BY <1>1, EmptyIsNoSample, AccumulateType DEF Page
<1>3. Counted(n)
  BY <1>2 DEF Counted, Reached, Delta, Sample
<1>4. ASSUME NEW a \in Sample, Before(s, a) PROVE Reached(n, a)
  BY <1>2, <1>4 DEF Before, Reached, Sample
<1>5. ASSUME NEW q \in Totals \cup Page, Follows(q, p), Reached(q, s) PROVE Follows(q, n)
  <2>1. q.total \in Nat /\ q.last \in Nat /\ q.past \in Nat /\ s.past \in Nat /\ s.value \in Nat
    BY DEF Totals, Page, Sample
  <2>2. CASE q.past = s.past
    <3>1. p.past = s.past /\ p.last <= s.value
      BY <1>2, <1>5, <2>1, <2>2 DEF Follows, Reached
    <3>2. Delta(s.value, p.last) = s.value - p.last
      BY <1>2, <2>1, <3>1 DEF Delta
    <3>3. q.total - q.last = p.total - p.last
      BY <1>5, <2>2, <3>1 DEF Follows, Agree
    <3>4. n.total - n.last = q.total - q.last
      BY <1>2, <2>1, <3>2, <3>3
    <3> QED BY <1>2, <1>5, <2>1, <2>2, <3>4 DEF Follows, Agree, Reached
  <2>3. CASE q.past # s.past
    BY <1>2, <1>5, <2>1, <2>3 DEF Follows, Agree, Reached
  <2> QED BY <2>2, <2>3
<1> QED BY <1>1, <1>3, <1>4, <1>5

(* Nothing moves when empty statistics find a counter at zero.             *)
LEMMA EmptyAccumulated ==
  ASSUME NEW p \in Page, p.last = 0
  PROVE  Accumulate(p, Empty) = p
<1>1. Empty.value = 0 /\ Delta(0, 0) = 0
  BY DEF Empty, Delta
<1>2. Accumulate(p, Empty) = [loaded |-> p.loaded, total |-> p.total + Delta(Empty.value, p.last),
                             last |-> Empty.value, past |-> IF Empty = Empty THEN p.past ELSE Empty.past]
  BY AccumulateIs
<1>3. p = [loaded |-> p.loaded, total |-> p.total, last |-> p.last, past |-> p.past] /\ p.total \in Nat
  BY DEF Page
<1>4. p.total + 0 = p.total
  BY <1>3
<1>5. Accumulate(p, Empty) = [loaded |-> p.loaded, total |-> p.total, last |-> p.last, past |-> p.past]
  BY <1>1, <1>2, <1>4, Zenon
<1> QED BY <1>3, <1>5, Zenon

(* A save of the page stands where the page stands.                        *)
LEMMA SavedPage ==
  ASSUME NEW p \in Page
  PROVE  /\ \A s : Reached(p, s) => Reached(TotalsOf(p), s)
         /\ Counted(p) => Counted(TotalsOf(p))
         /\ \A q \in Totals \cup Page : Follows(q, p) => Follows(q, TotalsOf(p))
         /\ Follows(TotalsOf(p), p) /\ Follows(TotalsOf(p), TotalsOf(p))
<1>1. TotalsOf(p).total = p.total /\ TotalsOf(p).last = p.last /\ TotalsOf(p).past = p.past
  BY DEF TotalsOf
<1>2. Follows(TotalsOf(p), p) /\ Follows(TotalsOf(p), TotalsOf(p))
  BY <1>1 DEF Follows, Agree, Page
<1> QED BY <1>1, <1>2 DEF Reached, Counted, Follows, Agree

-----------------------------------------------------------------------------
(* The totals.                                                             *)

LEMMA AheadTypes == ASSUME TrafficTypeOK PROVE Ahead \subseteq Sample /\ Now \in Ahead
  BY NowIsSample, EmptyIsNoSample DEF Ahead, TrafficTypeOK

LEMMA AheadSamples ==
  ASSUME TrafficTypeOK, TrafficTypeOK' PROVE Ahead \subseteq Sample /\ Ahead' \subseteq Sample
<1>1. Ahead \subseteq Sample
  BY AheadTypes
<1>2. \A r \in Refresh : refresh'[r].seen \in Sample \cup {Empty}
  BY DEF TrafficTypeOK
<1>3. Now' \in Sample
  BY DEF TrafficTypeOK, Now, Sample
<1>4. stats' \in Sample \cup {Empty} /\ log' \in Sample \cup {Empty}
  BY DEF TrafficTypeOK
<1>5. Ahead' \subseteq Sample
  BY <1>2, <1>3, <1>4 DEF Ahead
<1> QED BY <1>1, <1>5

(* What totals may be brought to after a step, they might have been        *)
(* brought near before it.                                                 *)
LEMMA AheadGrows ==
  ASSUME TrafficTypeOK, TrafficNext
  PROVE  \A s \in Ahead' : \E a \in Ahead : Before(a, s)
<1> DEFINE Goal == \A s \in Ahead' : \E a \in Ahead : Before(a, s)
<1>1. /\ Ahead \subseteq Sample /\ Now \in Ahead
      /\ \A a \in Ahead : Before(a, a)
  BY AheadTypes, BeforeReflexive
<1>2. Ahead' \subseteq Ahead => Goal
  BY <1>1
<1>3. ASSUME Before(Now, Now'), Ahead' \subseteq Ahead \cup {Now'} PROVE Goal
  BY <1>1, <1>3
<1>4. ASSUME NEW r \in Refresh, NEW shown, NEW s, RefreshDiagnostics(r, shown, s),
             stats' \in {stats, Empty}, UNCHANGED <<tunnel, log>>
      PROVE  Goal
  <2>1. \A q \in Refresh : refresh'[q].seen \in {Empty, refresh[q].seen}
    BY <1>4 DEF RefreshDiagnostics, IdleRefresh, TrafficTypeOK
  <2> QED BY <1>2, <1>4, <2>1 DEF Ahead, Now
<1>5. ASSUME NEW r \in Refresh, BeginRefresh(r) PROVE Goal
  <2>1. CASE RefreshDiagnostics(r, r \in PageRefresh, Empty)
    BY <1>4, <1>5, <2>1 DEF BeginRefresh, GetStats
  <2>2. CASE LoadCoreSetting(r)
    <3>1. \A q \in Refresh : refresh'[q].seen \in {Empty, refresh[q].seen}
      BY <1>5, <2>2 DEF BeginRefresh, LoadCoreSetting, TrafficTypeOK
    <3>2. stats' = Empty /\ log' = log /\ Now' = Now
      BY <1>5, <2>2 DEF BeginRefresh, LoadCoreSetting, GetStats, Now
    <3> QED BY <1>2, <3>1, <3>2 DEF Ahead
  <2> QED BY <1>5, <2>1, <2>2, Zenon DEF BeginRefresh
<1>6. ASSUME NEW r \in Refresh, CoreIsLoaded(r) PROVE Goal
  BY <1>4, <1>6 DEF CoreIsLoaded
<1>7. ASSUME NEW r \in Refresh, ReadText(r) PROVE Goal
  <2>1. \A q \in Refresh : refresh'[q].seen \in {Empty, log, refresh[q].seen}
    BY <1>7 DEF ReadText, TrafficTypeOK
  <2> QED BY <1>2, <1>7, <2>1 DEF ReadText, Ahead, Now
<1>8. ASSUME NEW r \in Refresh, ResumeRefresh(r) PROVE Goal
  <2>1. \A q \in Refresh : refresh'[q].seen \in {Empty, refresh[q].seen}
    BY <1>8 DEF ResumeRefresh, IdleRefresh, TrafficTypeOK
  <2>2. stats' \in {stats, refresh[r].seen}
    BY <1>8 DEF ResumeRefresh, ApplyDiagnosticStats
  <2> QED BY <1>2, <1>8, <2>1, <2>2 DEF ResumeRefresh, Ahead, Now
<1>9. ASSUME Carry \/ StopTunnel \/ StartTunnel PROVE Goal
  <2>1. Before(Now, Now')
    BY <1>1, <1>9, CounterGrows
  <2>2. UNCHANGED <<stats, refresh>> /\ log' \in {log, Now'}
    BY <1>9 DEF Carry, StopTunnel, StartTunnel, Now
  <2>3. Ahead' \subseteq Ahead \cup {Now'}
    BY <2>2 DEF Ahead
  <2> QED BY <1>3, <2>1, <2>3
<1>10. ASSUME RecordStats PROVE Goal
  BY <1>2, <1>10 DEF RecordStats, GetStats, Ahead, Now
<1>11. ASSUME Snapshot \/ PageHide \/ LoadTrafficTotals \/ SaveEnds \/ ClearLogs PROVE Goal
  <2>1. UNCHANGED <<stats, refresh>> /\ Now' = Now /\ log' \in {log, Empty}
    BY <1>11 DEF Snapshot, PageHide, LoadTrafficTotals, SaveEnds, ClearLogs, Now
  <2> QED BY <1>2, <2>1 DEF Ahead
<1>12. ASSUME AboutToDisappear PROVE Goal
  <2>1. \A r \in Refresh : refresh'[r].seen = refresh[r].seen
    BY <1>12 DEF AboutToDisappear, TrafficTypeOK
  <2> QED BY <1>2, <1>12, <2>1 DEF AboutToDisappear, Ahead, Now
<1>13. ASSUME ProcessDies PROVE Goal
  BY <1>2, <1>13 DEF ProcessDies, IdleRefresh, Ahead, Now
<1> HIDE DEF Goal
<1>14. Goal
  BY <1>5, <1>6, <1>7, <1>8, <1>9, <1>10, <1>11, <1>12, <1>13, NextCases
<1> QED BY <1>14 DEF Goal

(* The statistics there are come before everything else that is ahead.     *)
LEMMA StatsFirst ==
  ASSUME TrafficTypeOK', SamplesInv', stats' # Empty
  PROVE  \A s \in Ahead' : Before(stats', s)
<1>1. stats' \in Sample
  BY DEF TrafficTypeOK
<1>2. Before(stats', stats')
  BY <1>1, BeforeReflexive
<1> QED BY <1>2 DEF SamplesInv, Ahead

LEMMA TotalsKept ==
  ASSUME TrafficTypeOK, TrafficTypeOK', TotalsInv, UNCHANGED <<page, saves, stored>>,
         \A s \in Ahead' : \E a \in Ahead : Before(a, s)
  PROVE  TotalsInv'
<1>1. Ahead \subseteq Sample /\ Ahead' \subseteq Sample
  BY AheadSamples
<1>2. /\ stored \in Totals \cup Page /\ page \in Totals \cup Page
      /\ \A i \in DOMAIN saves : saves[i] \in Totals \cup Page
  BY DEF TrafficTypeOK, Page
<1>3. ASSUME NEW s \in Ahead'
      PROVE  /\ Reached(stored, s)
             /\ \A i \in DOMAIN saves : Reached(saves[i], s)
             /\ page.loaded => Reached(page, s)
  <2>1. PICK a \in Ahead : Before(a, s)
    OBVIOUS
  <2>2. /\ Reached(stored, a)
        /\ \A i \in DOMAIN saves : Reached(saves[i], a)
        /\ page.loaded => Reached(page, a)
    BY DEF TotalsInv
  <2> QED BY <1>1, <1>2, <2>1, <2>2, ReachedLater
<1> QED BY <1>3 DEF TotalsInv

(* The page moves on to n, is saved perhaps, and ends perhaps.             *)
LEMMA TotalsMoved ==
  ASSUME TrafficTypeOK, TrafficTypeOK', TotalsInv, NEW n \in Page, n.loaded,
         Counted(n), Follows(stored, n), \A i \in DOMAIN saves : Follows(saves[i], n),
         \A s \in Ahead' : Reached(n, s),
         \A s \in Ahead' : \E a \in Ahead : Before(a, s),
         page' \in {n, NoPage}, saves' \in {saves, Append(saves, TotalsOf(n))}, stored' = stored
  PROVE  TotalsInv'
<1>1. Ahead \subseteq Sample /\ Ahead' \subseteq Sample
  BY AheadSamples
<1>2. /\ stored \in Totals \cup Page /\ saves \in Seq(Totals) /\ TotalsOf(n) \in Totals
      /\ \A i \in DOMAIN saves : saves[i] \in Totals \cup Page
  BY TotalsOfType DEF TrafficTypeOK, Page
<1>3. ASSUME NEW s \in Ahead'
      PROVE  Reached(stored, s) /\ \A i \in DOMAIN saves : Reached(saves[i], s)
  <2>1. PICK a \in Ahead : Before(a, s)
    OBVIOUS
  <2>2. Reached(stored, a) /\ \A i \in DOMAIN saves : Reached(saves[i], a)
    BY DEF TotalsInv
  <2> QED BY <1>1, <1>2, <2>1, <2>2, ReachedLater
<1>4. /\ \A s \in Ahead' : Reached(TotalsOf(n), s)
      /\ Counted(TotalsOf(n))
      /\ Follows(stored, TotalsOf(n)) /\ \A i \in DOMAIN saves : Follows(saves[i], TotalsOf(n))
      /\ Follows(TotalsOf(n), n) /\ Follows(TotalsOf(n), TotalsOf(n))
  <2>1. /\ \A x : Reached(n, x) => Reached(TotalsOf(n), x)
        /\ Counted(n) => Counted(TotalsOf(n))
        /\ \A q \in Totals \cup Page : Follows(q, n) => Follows(q, TotalsOf(n))
        /\ Follows(TotalsOf(n), n) /\ Follows(TotalsOf(n), TotalsOf(n))
    BY SavedPage, Zenon
  <2> QED BY <1>2, <2>1
<1>5. page'.loaded => page' = n
  BY DEF NoPage
<1>6. CASE saves' = saves
  BY <1>3, <1>5, <1>6 DEF TotalsInv
<1>7. CASE saves' = Append(saves, TotalsOf(n))
  <2>1. /\ DOMAIN saves' = 1 .. Len(saves) + 1 /\ DOMAIN saves = 1 .. Len(saves) /\ Len(saves) \in Nat
        /\ \A i \in DOMAIN saves : saves'[i] = saves[i]
        /\ saves'[Len(saves) + 1] = TotalsOf(n)
    BY <1>2, <1>7
  <2>2. \A i \in DOMAIN saves' : i \in DOMAIN saves \/ i = Len(saves) + 1
    BY <2>1
  <2>3. \A i \in DOMAIN saves' :
          /\ Counted(saves'[i]) /\ Follows(stored, saves'[i]) /\ Follows(saves'[i], n)
          /\ \A s \in Ahead' : Reached(saves'[i], s)
    BY <1>3, <1>4, <2>1, <2>2 DEF TotalsInv
  <2>4. ASSUME NEW i \in DOMAIN saves', NEW j \in DOMAIN saves', i <= j
        PROVE  Follows(saves'[i], saves'[j])
    <3>1. CASE j \in DOMAIN saves
      <4>1. i \in DOMAIN saves
        BY <2>1, <2>4, <3>1
      <4> QED BY <2>1, <2>4, <3>1, <4>1 DEF TotalsInv
    <3>2. CASE j = Len(saves) + 1
      BY <1>4, <2>1, <2>2, <3>2
    <3> QED BY <2>2, <3>1, <3>2
  <2> QED BY <1>3, <1>5, <2>3, <2>4 DEF TotalsInv
<1> QED BY <1>6, <1>7

LEMMA TotalsApplied ==
  ASSUME TrafficTypeOK, TrafficTypeOK', TotalsInv, NEW s \in Sample \cup {Empty},
         ApplyRuntimeState(s), undisturbed', stored' = stored,
         \A x \in Ahead' : \E a \in Ahead : Before(a, x),
         s # Empty => s \in Ahead /\ \A x \in Ahead' : Before(s, x)
  PROVE  TotalsInv'
<1>1. CASE ~page.loaded
  BY <1>1, TotalsKept DEF ApplyRuntimeState
<1>2. CASE page.loaded
  <2> DEFINE n == Accumulate(page, s)
  <2>1. /\ page \in Page /\ page' = n
        /\ saves' \in {saves, Append(saves, TotalsOf(n))}
    BY <1>2 DEF ApplyRuntimeState, TrafficTypeOK, Page
  <2>2. n \in Page /\ n.loaded
    BY <1>2, <2>1, AccumulateType
  <2>3. /\ stored \in Totals \cup Page
        /\ \A i \in DOMAIN saves : saves[i] \in Totals \cup Page
        /\ Ahead \subseteq Sample /\ Ahead' \subseteq Sample
    BY AheadSamples DEF TrafficTypeOK
  <2>4. /\ Counted(n) /\ Follows(stored, n) /\ \A i \in DOMAIN saves : Follows(saves[i], n)
        /\ \A x \in Ahead' : Reached(n, x)
    <3>1. CASE s = Empty
      <4>1. page.last = 0
        <5>1. ~Overwrites(s)
          BY Zenon DEF ApplyRuntimeState
        <5>2. ~(page.last > 0) /\ page.last \in Nat
          BY <1>2, <2>1, <3>1, <5>1 DEF Overwrites, Page
        <5> QED BY <5>2
      <4>2. n = page
        BY <2>1, <3>1, <4>1, EmptyAccumulated
      <4>3. ASSUME NEW x \in Ahead' PROVE Reached(page, x)
        <5>1. PICK a \in Ahead : Before(a, x)
          OBVIOUS
        <5> QED BY <1>2, <2>1, <2>3, <5>1, ReachedLater DEF TotalsInv
      <4> QED BY <1>2, <4>2, <4>3 DEF TotalsInv
    <3>2. CASE s # Empty
      <4>1. /\ s \in Sample /\ s \in Ahead /\ Reached(page, s) /\ Counted(page)
            /\ Follows(stored, page) /\ Reached(stored, s)
            /\ \A i \in DOMAIN saves : Follows(saves[i], page) /\ Reached(saves[i], s)
        BY <1>2, <3>2 DEF TotalsInv
      <4> QED BY <2>1, <2>3, <3>2, <4>1, Accumulated
    <3> QED BY <3>1, <3>2
  <2> HIDE DEF n
  <2> QED BY <2>1, <2>2, <2>4, TotalsMoved
<1> QED BY <1>1, <1>2

LEMMA TotalsNext ==
  ASSUME TrafficTypeOK, TrafficTypeOK', SamplesInv, SamplesInv', undisturbed => TotalsInv,
         [TrafficNext]_trafficVars
  PROVE  (undisturbed => TotalsInv)'
<1>1. CASE UNCHANGED trafficVars
  BY <1>1 DEF trafficVars, TotalsInv, Ahead, Now
<1>2. CASE TrafficNext
  <2> SUFFICES ASSUME undisturbed' PROVE TotalsInv'
    OBVIOUS
  <2>a. \A s \in Ahead' : \E a \in Ahead : Before(a, s)
    BY <1>2, AheadGrows
  <2>b. stats' # Empty => \A s \in Ahead' : Before(stats', s)
    BY StatsFirst
  <2>c. stats \in Sample \cup {Empty} /\ stats' \in Sample \cup {Empty}
    BY DEF TrafficTypeOK
  <2>1. ASSUME NEW r \in Refresh, NEW shown, NEW s \in {stats, Empty}, RefreshDiagnostics(r, shown, s),
               stats' \in {s, Empty}, s = stats => stats' = stats, stored' = stored
        PROVE  TotalsInv'
    <3>1. CASE UNCHANGED <<page, saves, undisturbed>>
      BY <2>a, <3>1, <2>1, TotalsKept
    <3>2. CASE ApplyRuntimeState(s)
      <4>1. undisturbed
        BY <3>2, Zenon DEF ApplyRuntimeState
      <4>2. s # Empty => s \in Ahead /\ \A x \in Ahead' : Before(s, x)
        BY <2>1, <2>b DEF Ahead
      <4> QED BY <2>1, <2>a, <2>c, <3>2, <4>1, <4>2, TotalsApplied
    <3> QED BY <2>1, <3>1, <3>2, Zenon DEF RefreshDiagnostics, ShowTo
  <2>2. ASSUME NEW r \in Refresh, BeginRefresh(r) PROVE TotalsInv'
    <3>1. CASE RefreshDiagnostics(r, r \in PageRefresh, Empty)
      <4>1. RefreshDiagnostics(r, r \in PageRefresh, Empty)
        BY <2>2, <3>1, Zenon DEF BeginRefresh
      <4>2. stats' = Empty /\ stored' = stored
        BY <2>2 DEF BeginRefresh, GetStats
      <4>3. PICK shown : shown = (r \in PageRefresh)
        BY Zenon
      <4>4. RefreshDiagnostics(r, shown, Empty)
        BY <4>1, <4>3, Zenon
      <4> QED BY <2>1, <4>2, <4>4
    <3>2. CASE LoadCoreSetting(r)
      BY <2>2, <2>a, <3>2, TotalsKept DEF BeginRefresh, LoadCoreSetting
    <3> QED BY <2>2, <3>1, <3>2, Zenon DEF BeginRefresh
  <2>3. ASSUME NEW r \in Refresh, CoreIsLoaded(r) PROVE TotalsInv'
    <3>1. RefreshDiagnostics(r, refresh[r].shown, stats) /\ stats' = stats /\ stored' = stored
      BY <2>3 DEF CoreIsLoaded
    <3> QED BY <2>1, <3>1
  <2>4. ASSUME NEW r \in Refresh, ResumeRefresh(r) PROVE TotalsInv'
    <3>1. CASE UNCHANGED <<page, saves, undisturbed>>
      BY <2>4, <2>a, <3>1, TotalsKept DEF ResumeRefresh
    <3>2. CASE ApplyRuntimeState(stats')
      <4>1. undisturbed
        BY <3>2, Zenon DEF ApplyRuntimeState
      <4>2. stats' # Empty => stats' \in Ahead
        BY <2>4 DEF ResumeRefresh, ApplyDiagnosticStats, Ahead
      <4>3. PICK s \in Sample \cup {Empty} : s = stats'
        BY <2>c
      <4>4. ApplyRuntimeState(s)
        BY <3>2, <4>3 DEF ApplyRuntimeState, Overwrites, Accumulate
      <4> QED BY <2>4, <2>a, <2>b, <4>1, <4>2, <4>3, <4>4, TotalsApplied DEF ResumeRefresh
    <3> QED BY <2>4, <3>1, <3>2, Zenon DEF ResumeRefresh, ShowTo
  <2>5. ASSUME Carry \/ RecordStats \/ StartTunnel \/ StopTunnel \/ ClearLogs PROVE TotalsInv'
    BY <2>5, <2>a, TotalsKept DEF Carry, RecordStats, StartTunnel, StopTunnel, ClearLogs
  <2>6. ASSUME Snapshot PROVE TotalsInv'
    <3>1. undisturbed
      BY <2>6, Zenon DEF Snapshot, ApplyRuntimeState
    <3>2. ApplyRuntimeState(stats) /\ stats' = stats /\ stored' = stored
      BY <2>6 DEF Snapshot
    <3>3. stats # Empty => stats \in Ahead
      BY DEF Ahead
    <3> QED BY <2>a, <2>b, <2>c, <3>1, <3>2, <3>3, TotalsApplied
  <2>7. ASSUME PageHide \/ AboutToDisappear PROVE TotalsInv'
    <3>1. /\ page \in Page /\ page.loaded /\ undisturbed /\ stored' = stored
          /\ page' \in {page, NoPage} /\ saves' = Append(saves, TotalsOf(page))
      BY <2>7 DEF PageHide, AboutToDisappear, PersistTotals, TrafficTypeOK, Page
    <3>2. /\ Counted(page) /\ Follows(stored, page)
          /\ \A i \in DOMAIN saves : Follows(saves[i], page)
      BY <3>1 DEF TotalsInv
    <3>3. Ahead \subseteq Sample /\ Ahead' \subseteq Sample
      BY AheadSamples DEF TrafficTypeOK
    <3>4. ASSUME NEW x \in Ahead' PROVE Reached(page, x)
      <4>1. PICK a \in Ahead : Before(a, x)
        BY <2>a
      <4> QED BY <3>1, <3>3, <4>1, ReachedLater DEF TotalsInv
    <3> QED BY <2>a, <3>1, <3>2, <3>4, TotalsMoved
  <2>8. ASSUME LoadTrafficTotals PROVE TotalsInv'
    <3>1. /\ undisturbed /\ saves = <<>> /\ UNCHANGED <<saves, stored>>
          /\ page' = [loaded |-> TRUE, total |-> stored.total, last |-> stored.last,
                      past |-> stored.past]
      BY <2>8 DEF LoadTrafficTotals
    <3>2. /\ stored \in Totals /\ page'.loaded /\ page'.total = stored.total
          /\ page'.last = stored.last /\ page'.past = stored.past
      BY <3>1 DEF TrafficTypeOK
    <3>3. Ahead \subseteq Sample /\ Ahead' \subseteq Sample
      BY AheadSamples DEF TrafficTypeOK
    <3>4. ASSUME NEW x \in Ahead' PROVE Reached(stored, x) /\ Reached(page', x)
      <4>1. PICK a \in Ahead : Before(a, x)
        BY <2>a
      <4>2. Reached(stored, x)
        BY <3>1, <3>2, <3>3, <4>1, ReachedLater DEF TotalsInv
      <4> QED BY <3>2, <4>2 DEF Reached
    <3>5. Counted(stored) /\ Counted(page') /\ Follows(stored, page')
      BY <3>1, <3>2 DEF TotalsInv, Counted, Follows, Agree, Totals
    <3>6. stored' = stored /\ DOMAIN saves' = {}
      BY <3>1
    <3> QED BY <3>4, <3>5, <3>6 DEF TotalsInv
  <2>9. ASSUME SaveEnds PROVE TotalsInv'
    <3>1. /\ undisturbed /\ saves # <<>> /\ saves \in Seq(Totals) /\ page' = page
          /\ stored' \in {stored, Head(saves)} /\ saves' = Tail(saves)
      BY <2>9 DEF SaveEnds, TrafficTypeOK
    <3>2. /\ Len(saves) \in Nat /\ Len(saves) >= 1 /\ DOMAIN saves = 1 .. Len(saves)
          /\ Head(saves) = saves[1]
          /\ DOMAIN saves' = 1 .. Len(saves) - 1
          /\ \A i \in 1 .. Len(saves) - 1 : saves'[i] = saves[i + 1]
      BY <3>1
    <3>3. \A i \in DOMAIN saves' : i + 1 \in DOMAIN saves /\ i \in Int /\ saves'[i] = saves[i + 1]
      BY <3>2
    <3>4. 1 \in DOMAIN saves /\ \A i \in DOMAIN saves : 1 <= i
      BY <3>2
    <3>5. stored' = stored \/ stored' = saves[1]
      BY <3>1, <3>2
    <3>6. Ahead \subseteq Sample /\ Ahead' \subseteq Sample
      BY AheadSamples DEF TrafficTypeOK
    <3>7. Ahead' = Ahead
      BY <2>9 DEF SaveEnds, Ahead, Now
    <3>8. /\ Counted(stored') /\ \A x \in Ahead' : Reached(stored', x)
          /\ page.loaded => Follows(stored', page)
          /\ \A i \in DOMAIN saves : Follows(stored', saves[i])
      BY <3>1, <3>4, <3>5, <3>7 DEF TotalsInv
    <3>9. \A i \in DOMAIN saves' :
            /\ Counted(saves'[i]) /\ \A x \in Ahead' : Reached(saves'[i], x)
            /\ page.loaded => Follows(saves'[i], page)
            /\ Follows(stored', saves'[i])
      BY <3>1, <3>3, <3>7, <3>8 DEF TotalsInv
    <3>10. ASSUME NEW i \in DOMAIN saves', NEW j \in DOMAIN saves', i <= j
           PROVE  Follows(saves'[i], saves'[j])
      <4>1. i + 1 <= j + 1
        BY <3>3, <3>10
      <4> QED BY <3>1, <3>3, <4>1 DEF TotalsInv
    <3> QED BY <3>1, <3>7, <3>8, <3>9, <3>10 DEF TotalsInv
  <2>10. ASSUME NEW r \in Refresh, ReadText(r) PROVE TotalsInv'
    BY <2>10, <2>a, TotalsKept DEF ReadText
  <2>11. ASSUME ProcessDies PROVE TotalsInv'
    <3>1. /\ undisturbed /\ ~page'.loaded /\ DOMAIN saves' = {} /\ stored' = stored
      BY <2>11 DEF ProcessDies, NoPage
    <3>2. Ahead \subseteq Sample /\ Ahead' \subseteq Sample /\ stored \in Totals
      BY AheadSamples DEF TrafficTypeOK
    <3>3. ASSUME NEW x \in Ahead' PROVE Reached(stored, x)
      <4>1. PICK a \in Ahead : Before(a, x)
        BY <2>a
      <4> QED BY <3>1, <3>2, <4>1, ReachedLater DEF TotalsInv
    <3> QED BY <3>1, <3>3 DEF TotalsInv
  <2> HIDE <2>1
  <2> QED
    BY <1>2, <2>2, <2>3, <2>4, <2>5, <2>6, <2>7, <2>8, <2>9, <2>10, <2>11, NextCases
<1> QED BY <1>1, <1>2

LEMMA TotalsAlways == TrafficSpec => [](TrafficTypeOK /\ (undisturbed => TotalsInv))
<1>1. TrafficInit => SamplesInv
  BY DEF TrafficInit, SamplesInv, IdleRefresh
<1>2. TrafficInit => TotalsInv
  BY DEF TrafficInit, TotalsInv, IdleRefresh, Ahead, Now, Empty, NoPage, NoTotals, Counted, Reached
<1>3. TrafficTypeOK /\ SamplesInv /\ [TrafficNext]_trafficVars => SamplesInv'
  BY SamplesNext
<1>4. /\ TrafficTypeOK /\ TrafficTypeOK' /\ SamplesInv /\ SamplesInv'
      /\ (undisturbed => TotalsInv) /\ [TrafficNext]_trafficVars
      => (undisturbed => TotalsInv)'
  BY TotalsNext
<1> QED BY <1>1, <1>2, <1>3, <1>4, TrafficTypes, PTL DEF TrafficSpec

(* The lifetime total never exceeds what was carried.                      *)
THEOREM EveryByteOnce == TrafficSpec => []NoByteTwice
<1>1. TrafficTypeOK /\ (undisturbed => TotalsInv) => NoByteTwice
  <2> SUFFICES ASSUME TrafficTypeOK, undisturbed, TotalsInv
               PROVE  stored.total <= Carried /\ (page.loaded => page.total <= Carried)
    BY DEF NoByteTwice
  <2>1. Now \in Ahead /\ Now.past = tunnel.past /\ Now.value = tunnel.value
    BY AheadTypes DEF Now
  <2>2. /\ Reached(stored, Now) /\ Counted(stored)
        /\ page.loaded => Reached(page, Now) /\ Counted(page)
    BY <2>1 DEF TotalsInv
  <2> QED BY <2>1, <2>2 DEF TrafficTypeOK, Reached, Counted, Carried, Totals
<1> QED BY <1>1, TotalsAlways, PTL

(* Whatever was saved of a session lets the page take it up again.         *)
THEOREM SessionsResume == TrafficSpec => []SessionResumes
<1>1. TrafficTypeOK /\ (undisturbed => TotalsInv) => SessionResumes
  BY DEF TotalsInv, SessionResumes, Follows, Agree
<1> QED BY <1>1, TotalsAlways, PTL
=============================================================================
