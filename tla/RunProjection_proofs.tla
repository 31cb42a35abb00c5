------------------------ MODULE RunProjection_proofs ------------------------
(***************************************************************************)
(* Proofs about RunProjection, for a selection of any length: whatever part *)
(* of the stream reaches the database, what it says of the run is true.     *)
(***************************************************************************)
EXTENDS RunProjection, SequenceTheorems, TLAPS

Result == [status : Verdicts, cleanup : {"PASS", "CLEANUP_FAILED"}]
StreamEvent ==
    [type : Runner!EventTypes, case : Nat,
     status : Runner!CaseStatus \cup {"", "FINISHED"}, stats : [Runner!Counters -> Nat]]

(***************************************************************************)
(* The harness.                                                            *)
(***************************************************************************)
HarnessTypes ==
    /\ phase \in {"start", "loop", "begin", "body", "cleanup", "hung", "done", "killed"}
    /\ cur \in 0 .. NumCases
    /\ verdict \in Verdicts
    /\ dirty \in BOOLEAN
    /\ stats \in [Runner!Counters -> Nat]
    /\ results \in Seq(Result)
    /\ events \in Seq(StreamEvent)

\* A case has its result when it is over.
CountInv ==
    /\ phase = "start" => cur = 0
    /\ phase \in {"start", "loop", "begin"} => Len(results) = cur
    /\ phase = "begin" => cur < NumCases
    /\ phase \in {"body", "cleanup"} => Len(results) + 1 = cur
    /\ Len(results) <= cur

\* A result has been counted, except a cancelled one, which has no counter.
CountedInv ==
    /\ stats["total"] = Len(results)
    /\ \A i \in 1 .. Len(results) :
          /\ results[i].status # "CANCELLED" => stats[Runner!CounterOf[results[i].status]] >= 1
          /\ results[i].cleanup = "CLEANUP_FAILED" => stats["cleanup_failed"] >= 1

(***************************************************************************)
(* The stream: run_started, then three events for each case, of which the   *)
(* last case may still owe two, then run_finished.                          *)
(***************************************************************************)
LengthInv ==
    /\ phase = "start" => Len(events) = 0
    /\ phase \in {"loop", "begin"} => Len(events) = 3 * Len(results) + 1
    /\ phase \in {"body", "cleanup", "done"} => Len(events) = 3 * Len(results) + 2
    /\ Len(events) <= 3 * Len(results) + 2

InPlace(e, k) ==
    \/ e.type = "run_started" /\ k = 1 /\ e.stats["total"] = NumCases
    \/ e.type = "case_started" /\ e.case \in 1 .. cur /\ k = 3 * e.case - 1
    \/ /\ e.type = "case_finished" /\ e.case \in 1 .. Len(results) /\ k = 3 * e.case
       /\ e.status = results[e.case].status
    \/ /\ e.type = "cleanup_finished" /\ e.case \in 1 .. Len(results) /\ k = 3 * e.case + 1
       /\ e.status = results[e.case].cleanup
    \/ /\ e.type = "run_finished" /\ phase = "done" /\ k = 3 * Len(results) + 2 /\ k = Len(events)
       /\ e.status = Runner!OverallStatus(stats, results) /\ e.stats = stats
StreamInv == LengthInv /\ \A k \in 1 .. Len(events) : InPlace(events[k], k)

HInv == HarnessTypes /\ CountInv /\ CountedInv /\ StreamInv

\* What a step of the harness leaves the reader: it only adds.
Extends(s, t) == Len(s) <= Len(t) /\ \A i \in 1 .. Len(s) : t[i] = s[i]
Grows ==
    /\ Extends(results, results')
    /\ Len(events) <= Len(events')
    /\ \A c \in Runner!Counters : stats[c] <= stats'[c]
    /\ phase \in {"done", "killed"} => UNCHANGED <<phase, stats, results, events>>

LEMMA AppendFacts ==
    ASSUME NEW S, NEW s \in Seq(S), NEW x \in S
    PROVE  /\ Append(s, x) \in Seq(S)
           /\ Len(Append(s, x)) = Len(s) + 1
           /\ \A i \in 1 .. Len(s) : Append(s, x)[i] = s[i]
           /\ Append(s, x)[Len(s) + 1] = x
           /\ Len(s) \in Nat
           /\ Extends(s, Append(s, x))
<1>1. PICK n \in Nat : n = Len(s)
  BY LenProperties
<1>2. /\ Append(s, x) \in Seq(S) /\ Len(Append(s, x)) = n + 1
      /\ (\A i \in 1 .. n : Append(s, x)[i] = s[i]) /\ Append(s, x)[n + 1] = x
  BY <1>1, AppendProperties
<1> QED
  BY <1>1, <1>2 DEF Extends

LEMMA PairFacts ==
    ASSUME NEW S, NEW s \in Seq(S), NEW x \in S, NEW y \in S, NEW n \in Nat, Len(s) = n
    PROVE  /\ s \o <<x, y>> \in Seq(S)
           /\ Len(s \o <<x, y>>) = n + 2
           /\ \A k \in 1 .. n : (s \o <<x, y>>)[k] = s[k]
           /\ (s \o <<x, y>>)[n + 1] = x /\ (s \o <<x, y>>)[n + 2] = y
<1> DEFINE p == <<x, y>>
<1>1. p \in Seq(S) /\ Len(p) = 2 /\ p[1] = x /\ p[2] = y
  OBVIOUS
<1> HIDE DEF p
<1>2. /\ s \o p \in Seq(S) /\ Len(s \o p) = Len(s) + Len(p)
      /\ \A k \in 1 .. Len(s) + Len(p) : (s \o p)[k] = IF k <= Len(s) THEN s[k] ELSE p[k - Len(s)]
  BY ONLY <1>1, s \in Seq(S), ConcatProperties
<1>2a. /\ Len(s \o p) = n + 2
       /\ \A k \in 1 .. n + 2 : (s \o p)[k] = IF k <= n THEN s[k] ELSE p[k - n]
  BY <1>1, <1>2
<1>3. /\ n + 1 \in 1 .. n + 2 /\ ~(n + 1 <= n) /\ (n + 1) - n = 1
      /\ n + 2 \in 1 .. n + 2 /\ ~(n + 2 <= n) /\ (n + 2) - n = 2
      /\ \A k \in 1 .. n : k \in 1 .. n + 2 /\ k <= n
  OBVIOUS
<1> QED
  BY <1>1, <1>2, <1>2a, <1>3 DEF p

LEMMA AddFacts ==
    ASSUME NEW s \in [Runner!Counters -> Nat], NEW v \in Verdicts, NEW b \in BOOLEAN
    PROVE  /\ Runner!Add(s, v, b) \in [Runner!Counters -> Nat]
           /\ \A c \in Runner!Counters : Runner!Add(s, v, b)[c] >= s[c]
           /\ v # "CANCELLED" => /\ Runner!CounterOf[v] \in Runner!Counters
                                 /\ Runner!Add(s, v, b)[Runner!CounterOf[v]] >= 1
           /\ b => Runner!Add(s, v, b)["cleanup_failed"] >= 1
           /\ Runner!Add(s, v, b)["total"] = s["total"] + 1
<1> DEFINE own(c)   == IF c = "total" \/ c = Runner!CounterOf[v] THEN 1 ELSE 0
           extra(c) == IF c = "cleanup_failed" /\ b THEN 1 ELSE 0
<1>1. \A c : own(c) \in {0, 1} /\ extra(c) \in {0, 1}
  OBVIOUS
<1>2. /\ own("total") = 1 /\ extra("total") = 0
      /\ own(Runner!CounterOf[v]) = 1
      /\ b => extra("cleanup_failed") = 1
  OBVIOUS
<1>3. Runner!Add(s, v, b) = [c \in Runner!Counters |-> s[c] + own(c) + extra(c)]
  BY DEF Runner!Add
<1> HIDE DEF own, extra
<1>4. \A c \in Runner!Counters :
         Runner!Add(s, v, b)[c] = s[c] + own(c) + extra(c) /\ s[c] \in Nat
  BY <1>3
<1>5. Runner!Add(s, v, b) \in [Runner!Counters -> Nat]
  BY <1>1, <1>3
<1>6. {"total", "cleanup_failed"} \subseteq Runner!Counters
  BY DEF Runner!Counters
<1>7. v # "CANCELLED" => Runner!CounterOf[v] \in Runner!Counters
  BY RunnerAssumption DEF Runner!CaseStatus, Runner!CounterOf, Runner!Counters
<1> QED
  BY <1>1, <1>2, <1>4, <1>5, <1>6, <1>7

LEMMA HarnessInit == Runner!Init => HInv
<1> SUFFICES ASSUME Runner!Init PROVE HInv
  OBVIOUS
<1>1. results = <<>> /\ events = <<>> /\ phase = "start" /\ cur = 0 /\ verdict = "ERROR"
      /\ dirty = FALSE /\ stats = [c \in Runner!Counters |-> 0]
  BY DEF Runner!Init, Runner!ZeroStats
<1>2. /\ results \in Seq(Result) /\ Len(results) = 0
      /\ events \in Seq(StreamEvent) /\ Len(events) = 0
      /\ stats \in [Runner!Counters -> Nat] /\ stats["total"] = 0
  BY <1>1 DEF Runner!Counters
<1>3. HarnessTypes
  <2>1. cur \in 0 .. NumCases /\ verdict \in Verdicts
    BY <1>1, RunnerAssumption
  <2> QED
    BY <1>1, <1>2, <2>1 DEF HarnessTypes
<1>4. CountInv /\ CountedInv
  BY <1>1, <1>2 DEF CountInv, CountedInv
<1>5. StreamInv
  BY <1>1, <1>2 DEF StreamInv, LengthInv
<1> QED
  BY <1>3, <1>4, <1>5 DEF HInv

\* A step that prints nothing.
LEMMA QuietHarness ==
    ASSUME HInv, UNCHANGED <<cur, stats, results, events>>,
           verdict' \in Verdicts, dirty' \in BOOLEAN,
           \/ phase' = phase
           \/ phase = "loop" /\ phase' = "begin" /\ cur < NumCases
           \/ phase = "body" /\ phase' = "cleanup"
           \/ phase \notin {"done", "killed"} /\ phase' \in {"hung", "killed"}
    PROVE  HInv' /\ Grows
<1>1. phase \in {"done", "killed"} => phase' = phase
  OBVIOUS
<1>2. HarnessTypes'
  BY DEF HInv, HarnessTypes
<1>3. CountInv' /\ CountedInv'
  BY DEF HInv, CountInv, CountedInv
<1>4. LengthInv'
  BY DEF HInv, StreamInv, LengthInv
<1>5. StreamInv'
  BY <1>1, <1>4 DEF HInv, StreamInv, InPlace
<1>6. Grows
  <2>1. \A c \in Runner!Counters : stats[c] \in Nat
    BY DEF HInv, HarnessTypes
  <2>2. Len(results) \in Nat /\ Len(events) \in Nat
    BY LenProperties DEF HInv, HarnessTypes
  <2> QED
    BY <2>1, <2>2, <1>1 DEF Grows, Extends
<1> QED
  BY <1>2, <1>3, <1>5, <1>6 DEF HInv

\* The four steps that print.
LEMMA StartRunHolds == HInv /\ Runner!StartRun => HInv' /\ Grows
<1> SUFFICES ASSUME HInv, Runner!StartRun PROVE HInv' /\ Grows
  OBVIOUS
<1> DEFINE e == Runner!Event("run_started", 0, "", [Runner!ZeroStats EXCEPT !["total"] = NumCases])
<1>1. /\ phase = "start" /\ phase' = "loop" /\ events' = Append(events, e)
      /\ UNCHANGED <<cur, verdict, dirty, stats, results>>
  BY DEF Runner!StartRun, Runner!bodyVars
<1>2. e \in StreamEvent /\ e.type = "run_started" /\ e.stats["total"] = NumCases
  BY RunnerAssumption DEF StreamEvent, Runner!Event, Runner!EventTypes, Runner!ZeroStats, Runner!Counters
<1> HIDE DEF e
<1>3. /\ events' \in Seq(StreamEvent) /\ Len(events') = Len(events) + 1
      /\ events'[Len(events) + 1] = e /\ Len(events) \in Nat
  BY <1>1, <1>2, AppendFacts DEF HInv, HarnessTypes
<1>4. Len(events) = 0 /\ cur = 0 /\ Len(results) = 0
  BY <1>1 DEF HInv, StreamInv, LengthInv, CountInv
<1>5. HarnessTypes' /\ CountInv' /\ CountedInv'
  BY <1>1, <1>3, <1>4 DEF HInv, HarnessTypes, CountInv, CountedInv
<1>6. Len(events') = 1 /\ events'[1] = e
  BY <1>3, <1>4
<1>7. StreamInv'
  <2>1. LengthInv'
    BY <1>1, <1>4, <1>6 DEF LengthInv
  <2>2. \A k \in 1 .. Len(events') : k = 1
    BY <1>6
  <2>3. InPlace(e, 1)'
    BY <1>2 DEF InPlace
  <2> QED
    BY <1>2, <1>6, <2>1, <2>2 DEF StreamInv, InPlace
<1>8. Grows
  <2>1. \A c \in Runner!Counters : stats[c] \in Nat
    BY DEF HInv, HarnessTypes
  <2> QED
    BY <1>1, <1>3, <1>4, <2>1 DEF Grows, Extends
<1> QED
  BY <1>5, <1>7, <1>8 DEF HInv

LEMMA BeginCaseHolds == HInv /\ Runner!BeginCase => HInv' /\ Grows
<1> SUFFICES ASSUME HInv, Runner!BeginCase PROVE HInv' /\ Grows
  OBVIOUS
<1> DEFINE e == Runner!Event("case_started", cur + 1, "", Runner!ZeroStats)
<1>1. /\ phase = "begin" /\ phase' = "body" /\ cur' = cur + 1
      /\ dirty' = FALSE /\ events' = Append(events, e)
      /\ UNCHANGED <<verdict, stats, results>>
  BY DEF Runner!BeginCase
<1>2. PICK n \in Nat : n = Len(results) /\ n = cur /\ n < NumCases
  BY <1>1, RunnerAssumption, LenProperties DEF HInv, HarnessTypes, CountInv
<1>3. e \in StreamEvent /\ e.type = "case_started" /\ e.case = n + 1
  BY <1>2 DEF StreamEvent, Runner!Event, Runner!EventTypes, Runner!ZeroStats
<1> HIDE DEF e
<1>4. /\ events' \in Seq(StreamEvent) /\ Len(events') = Len(events) + 1
      /\ \A k \in 1 .. Len(events) : events'[k] = events[k]
      /\ events'[Len(events) + 1] = e
  BY <1>1, <1>3, AppendFacts DEF HInv, HarnessTypes
<1>5. Len(events) = 3 * n + 1
  BY <1>1, <1>2 DEF HInv, StreamInv, LengthInv
<1>6. HarnessTypes' /\ CountInv' /\ CountedInv'
  <2>1. cur' \in 0 .. NumCases
    BY <1>1, <1>2, RunnerAssumption
  <2>2. HarnessTypes'
    BY <1>1, <1>4, <2>1 DEF HInv, HarnessTypes
  <2> QED
    BY <1>1, <1>2, <2>2 DEF HInv, CountInv, CountedInv
<1>7. StreamInv'
  <2>1. LengthInv'
    BY <1>1, <1>2, <1>4, <1>5 DEF LengthInv
  <2>2. \A k \in 1 .. 3 * n + 1 : InPlace(events[k], k)
    BY <1>5 DEF HInv, StreamInv
  <2>3. \A k \in 1 .. 3 * n + 1 : InPlace(events[k], k)'
    BY <1>1, <1>2, <1>4, <1>5, <2>2 DEF InPlace
  <2>4. InPlace(events[3 * n + 2], 3 * n + 2)'
    BY <1>1, <1>2, <1>3, <1>4, <1>5 DEF InPlace
  <2>5. \A k \in 1 .. Len(events') : k \in 1 .. 3 * n + 1 \/ k = 3 * n + 2
    BY <1>4, <1>5
  <2> QED
    BY <2>1, <2>3, <2>4, <2>5 DEF StreamInv
<1>8. Grows
  <2>1. \A c \in Runner!Counters : stats[c] \in Nat
    BY DEF HInv, HarnessTypes
  <2> QED
    BY <1>1, <1>2, <1>4, <1>5, <2>1 DEF Grows, Extends
<1> QED
  BY <1>6, <1>7, <1>8 DEF HInv

LEMMA CloseCaseHolds == HInv /\ Runner!CloseCase => HInv' /\ Grows
<1> SUFFICES ASSUME HInv, Runner!CloseCase PROVE HInv' /\ Grows
  OBVIOUS
<1> DEFINE c  == IF dirty THEN "CLEANUP_FAILED" ELSE "PASS"
           r  == [status |-> verdict, cleanup |-> c]
           e1 == Runner!Event("case_finished", cur, verdict, Runner!ZeroStats)
           e2 == Runner!Event("cleanup_finished", cur, c, Runner!ZeroStats)
<1>1. /\ phase = "cleanup" /\ phase' = "loop"
      /\ stats' = Runner!Add(stats, verdict, dirty)
      /\ results' = Append(results, r)
      /\ events' = events \o <<e1, e2>>
      /\ UNCHANGED <<cur, verdict, dirty>>
  BY DEF Runner!CloseCase, Runner!bodyVars
<1>2. /\ cur \in 0 .. NumCases /\ verdict \in Verdicts /\ dirty \in BOOLEAN
      /\ stats \in [Runner!Counters -> Nat] /\ results \in Seq(Result)
      /\ events \in Seq(StreamEvent)
  BY DEF HInv, HarnessTypes
<1>3. PICK n \in Nat : n = Len(results) /\ n + 1 = cur /\ n < NumCases
  BY <1>1, <1>2, RunnerAssumption, LenProperties DEF HInv, CountInv
<1>4. r \in Result /\ r.status = verdict /\ r.cleanup = c /\ (c = "CLEANUP_FAILED" => dirty)
  BY <1>2 DEF Result
<1>5. /\ e1 \in StreamEvent /\ e1.type = "case_finished" /\ e1.case = n + 1 /\ e1.status = verdict
      /\ e2 \in StreamEvent /\ e2.type = "cleanup_finished" /\ e2.case = n + 1 /\ e2.status = c
  <2>1. {verdict, c} \subseteq Runner!CaseStatus
    BY <1>2, RunnerAssumption DEF Runner!CaseStatus
  <2>2. Runner!ZeroStats \in [Runner!Counters -> Nat] /\ cur = n + 1 /\ cur \in Nat
    BY <1>3 DEF Runner!ZeroStats
  <2>3. ASSUME NEW t \in Runner!EventTypes, NEW v \in Runner!CaseStatus
        PROVE  LET e == Runner!Event(t, cur, v, Runner!ZeroStats)
               IN  e \in StreamEvent /\ e.type = t /\ e.case = n + 1 /\ e.status = v
    BY <2>2 DEF StreamEvent, Runner!Event
  <2>4. {"case_finished", "cleanup_finished"} \subseteq Runner!EventTypes
    BY DEF Runner!EventTypes
  <2> HIDE DEF c
  <2>5. /\ e1 \in StreamEvent /\ e1.type = "case_finished" /\ e1.case = n + 1 /\ e1.status = verdict
    BY <2>1, <2>3, <2>4
  <2>6. /\ e2 \in StreamEvent /\ e2.type = "cleanup_finished" /\ e2.case = n + 1 /\ e2.status = c
    BY <2>1, <2>3, <2>4
  <2> QED
    BY <2>5, <2>6
<1> HIDE DEF c, r, e1, e2
<1>6. /\ results' \in Seq(Result) /\ Len(results') = n + 1
      /\ \A i \in 1 .. n : results'[i] = results[i]
      /\ results'[n + 1] = r
  BY <1>1, <1>2, <1>3, <1>4, AppendFacts
<1>7. Len(events) = 3 * n + 2
  BY <1>1, <1>3 DEF HInv, StreamInv, LengthInv
<1>8. /\ events' \in Seq(StreamEvent) /\ Len(events') = 3 * n + 4
      /\ \A k \in 1 .. 3 * n + 2 : events'[k] = events[k]
      /\ events'[3 * n + 3] = e1 /\ events'[3 * n + 4] = e2
  <2>1. PICK m \in Nat : m = 3 * n + 2
    OBVIOUS
  <2>2. Len(events) = m
    BY <1>7, <2>1
  <2>3. /\ events \o <<e1, e2>> \in Seq(StreamEvent)
        /\ Len(events \o <<e1, e2>>) = m + 2
        /\ \A k \in 1 .. m : (events \o <<e1, e2>>)[k] = events[k]
        /\ (events \o <<e1, e2>>)[m + 1] = e1 /\ (events \o <<e1, e2>>)[m + 2] = e2
    <3>1. events \in Seq(StreamEvent) /\ e1 \in StreamEvent /\ e2 \in StreamEvent
      BY <1>2, <1>5
    <3> QED
      BY <2>2, <3>1, PairFacts
  <2>4. 1 .. m = 1 .. 3 * n + 2 /\ m + 2 = 3 * n + 4 /\ m + 1 = 3 * n + 3
    BY <2>1
  <2> QED
    BY <1>1, <2>3, <2>4
<1>9. /\ stats' \in [Runner!Counters -> Nat]
      /\ \A x \in Runner!Counters : stats'[x] >= stats[x]
      /\ verdict # "CANCELLED" => stats'[Runner!CounterOf[verdict]] >= 1
      /\ dirty => stats'["cleanup_failed"] >= 1
      /\ stats'["total"] = stats["total"] + 1
  BY <1>1, <1>2, AddFacts
<1>10. HarnessTypes'
  BY <1>1, <1>2, <1>6, <1>8, <1>9 DEF HarnessTypes
<1>11. CountInv'
  BY <1>1, <1>3, <1>6 DEF CountInv
<1>12. CountedInv'
  <2>1. stats'["total"] = Len(results')
    BY <1>3, <1>6, <1>9 DEF HInv, CountedInv
  <2>2. SUFFICES ASSUME NEW i \in 1 .. n + 1
                 PROVE  /\ results'[i].status # "CANCELLED"
                             => stats'[Runner!CounterOf[results'[i].status]] >= 1
                        /\ results'[i].cleanup = "CLEANUP_FAILED" => stats'["cleanup_failed"] >= 1
    BY <1>6, <2>1 DEF CountedInv, Runner!CounterOf
  <2>3. CASE i \in 1 .. n
    <3>0. results[i] \in Result
      BY <1>2, <1>3, <2>3, ElementOfSeq
    <3>1. /\ results[i].status # "CANCELLED" => stats[Runner!CounterOf[results[i].status]] >= 1
          /\ results[i].cleanup = "CLEANUP_FAILED" => stats["cleanup_failed"] >= 1
          /\ results[i].status \in Verdicts
      BY <1>3, <2>3, <3>0 DEF HInv, CountedInv, Result
    <3>2. /\ results[i].status # "CANCELLED" => Runner!CounterOf[results[i].status] \in Runner!Counters
          /\ "cleanup_failed" \in Runner!Counters
      BY <1>2, <3>1, AddFacts DEF Runner!Counters
    <3>3. \A x \in Runner!Counters : stats[x] >= 1 => stats'[x] >= 1
      BY <1>2, <1>9
    <3> QED
      BY <1>6, <2>3, <3>1, <3>2, <3>3
  <2>4. CASE i = n + 1
    BY <1>4, <1>6, <1>9, <2>4
  <2> QED
    BY <2>3, <2>4
<1>13. StreamInv'
  <2>1. LengthInv'
    BY <1>1, <1>6, <1>8 DEF LengthInv
  <2>2. \A k \in 1 .. 3 * n + 2 : InPlace(events[k], k)
    BY <1>7 DEF HInv, StreamInv
  <2>3. ASSUME NEW k \in 1 .. 3 * n + 2 PROVE InPlace(events[k], k)'
    <3>1. events'[k] = events[k] /\ InPlace(events[k], k)
      BY <1>8, <2>2
    <3>2. phase # "done" /\ 1 .. Len(results) = 1 .. n /\ 1 .. Len(results') = 1 .. n + 1
      BY <1>1, <1>3, <1>6
    <3>3. \A i \in 1 .. n : i \in 1 .. n + 1 /\ results'[i] = results[i]
      BY <1>6
    <3> QED
      BY <1>1, <3>1, <3>2, <3>3 DEF InPlace
  <2>4. InPlace(events[3 * n + 3], 3 * n + 3)'
    <3>1. n + 1 \in 1 .. Len(results') /\ 3 * n + 3 = 3 * (n + 1)
      BY <1>6
    <3>2. results'[n + 1].status = verdict
      BY <1>4, <1>6
    <3> QED
      BY <1>5, <1>8, <3>1, <3>2 DEF InPlace
  <2>5. InPlace(events[3 * n + 4], 3 * n + 4)'
    <3>1. n + 1 \in 1 .. Len(results') /\ 3 * n + 4 = 3 * (n + 1) + 1
      BY <1>6
    <3>2. results'[n + 1].cleanup = c
      BY <1>4, <1>6
    <3> QED
      BY <1>5, <1>8, <3>1, <3>2 DEF InPlace
  <2>6. \A k \in 1 .. Len(events') : k \in 1 .. 3 * n + 2 \/ k = 3 * n + 3 \/ k = 3 * n + 4
    BY <1>8
  <2> QED
    BY <2>1, <2>3, <2>4, <2>5, <2>6 DEF StreamInv
<1>14. Grows
  BY <1>1, <1>3, <1>6, <1>7, <1>8, <1>9 DEF Grows, Extends
<1> QED
  BY <1>10, <1>11, <1>12, <1>13, <1>14 DEF HInv

LEMMA FinishRunHolds == HInv /\ Runner!FinishRun => HInv' /\ Grows
<1> SUFFICES ASSUME HInv, Runner!FinishRun PROVE HInv' /\ Grows
  OBVIOUS
<1> DEFINE e == Runner!Event("run_finished", 0, Runner!OverallStatus(stats, results), stats)
<1>1. /\ phase = "loop" /\ phase' = "done" /\ events' = Append(events, e)
      /\ UNCHANGED <<cur, verdict, dirty, stats, results>>
  BY DEF Runner!FinishRun, Runner!bodyVars
<1>2. PICK n \in Nat : n = Len(results) /\ n = cur
  BY <1>1, LenProperties DEF HInv, HarnessTypes, CountInv
<1>3. /\ e \in StreamEvent /\ e.type = "run_finished" /\ e.stats = stats
      /\ e.status = Runner!OverallStatus(stats, results)
  <2>1. stats \in [Runner!Counters -> Nat]
    BY DEF HInv, HarnessTypes
  <2>2. Runner!OverallStatus(stats, results) \in {"FAIL", "CLEANUP_FAILED", "CANCELLED", "FINISHED"}
    BY DEF Runner!OverallStatus
  <2> QED
    BY <2>1, <2>2 DEF StreamEvent, Runner!Event, Runner!EventTypes, Runner!CaseStatus
<1> HIDE DEF e
<1>4. /\ events' \in Seq(StreamEvent) /\ Len(events') = Len(events) + 1
      /\ \A k \in 1 .. Len(events) : events'[k] = events[k]
      /\ events'[Len(events) + 1] = e
  BY <1>1, <1>3, AppendFacts DEF HInv, HarnessTypes
<1>5. Len(events) = 3 * n + 1
  BY <1>1, <1>2 DEF HInv, StreamInv, LengthInv
<1>6. HarnessTypes' /\ CountInv' /\ CountedInv'
  BY <1>1, <1>4 DEF HInv, HarnessTypes, CountInv, CountedInv
<1>7. StreamInv'
  <2>1. LengthInv'
    BY <1>1, <1>2, <1>4, <1>5 DEF LengthInv
  <2>2. \A k \in 1 .. 3 * n + 1 : InPlace(events[k], k)
    BY <1>5 DEF HInv, StreamInv
  <2>3. \A k \in 1 .. 3 * n + 1 : InPlace(events[k], k)'
    BY <1>1, <1>2, <1>4, <1>5, <2>2 DEF InPlace
  <2>4. InPlace(events[3 * n + 2], 3 * n + 2)'
    BY <1>1, <1>2, <1>3, <1>4, <1>5 DEF InPlace, Runner!OverallStatus
  <2>5. \A k \in 1 .. Len(events') : k \in 1 .. 3 * n + 1 \/ k = 3 * n + 2
    BY <1>4, <1>5
  <2> QED
    BY <2>1, <2>3, <2>4, <2>5 DEF StreamInv
<1>8. Grows
  <2>1. \A c \in Runner!Counters : stats[c] \in Nat
    BY DEF HInv, HarnessTypes
  <2> QED
    BY <1>1, <1>2, <1>4, <1>5, <2>1 DEF Grows, Extends
<1> QED
  BY <1>6, <1>7, <1>8 DEF HInv

LEMMA HarnessGoesOn == HInv /\ Runner!Next => HInv' /\ Grows
<1> SUFFICES ASSUME HInv, Runner!Next PROVE HInv' /\ Grows
  OBVIOUS
<1>1. verdict \in Verdicts /\ dirty \in BOOLEAN
  BY DEF HInv, HarnessTypes
<1>8. CASE Runner!NextCase
  BY <1>1, <1>8, QuietHarness DEF Runner!NextCase, Runner!bodyVars, Runner!outVars
<1>2. CASE \E v \in Verdicts : Runner!EndBody(v)
  BY <1>1, <1>2, QuietHarness DEF Runner!EndBody, Runner!outVars
<1>3. CASE \E x \in Resources : Runner!Create(x) \/ Runner!ReleaseEarly(x) \/ Runner!ReleaseRaises(x)
  BY <1>1, <1>3, QuietHarness DEF Runner!Create, Runner!ReleaseEarly, Runner!ReleaseRaises, Runner!outVars
<1>4. CASE \E x \in Resources : Runner!CreateRaises(x)
  <2>1. /\ UNCHANGED <<cur, stats, results, events, dirty>> /\ verdict' \in {"FAIL", "ERROR"}
        /\ phase = "body" /\ phase' = "cleanup"
    BY <1>4 DEF Runner!CreateRaises, Runner!outVars
  <2> QED
    BY <1>1, <2>1, RunnerAssumption, QuietHarness
<1>5. CASE Runner!CleanupNext
  BY <1>1, <1>5, QuietHarness DEF Runner!CleanupNext, Runner!outVars
<1>6. CASE Runner!Signal \/ Runner!SignalInEmit \/ Runner!Killed
  BY <1>1, <1>6, QuietHarness
  DEF Runner!Signal, Runner!SignalInEmit, Runner!Killed, Runner!Running, Runner!bodyVars, Runner!outVars
<1>7. CASE Runner!Terminated
  BY <1>1, <1>7, QuietHarness
  DEF Runner!Terminated, Runner!vars, Runner!bodyVars, Runner!outVars
<1> QED
  BY <1>2, <1>3, <1>4, <1>5, <1>6, <1>7, <1>8, StartRunHolds, BeginCaseHolds, CloseCaseHolds, FinishRunHolds
  DEF Runner!Next

(***************************************************************************)
(* The reader.                                                             *)
(***************************************************************************)
RowType ==
    [status : RowStatus,
     total : 0 .. NumCases, progress : Nat, case : 0 .. NumCases, n : [RowCounters -> Nat]]
CaseRowType == [status : Verdicts \cup {"absent", ""},
                cleanup : {"absent", "", "PASS", "CLEANUP_FAILED"}]

\* What the two upserts of a case write.
Judged(i)  == [status |-> results[i].status, cleanup |-> ""]
Cleaned(i) == [status |-> "", cleanup |-> results[i].cleanup]

ReaderInv ==
    /\ reader \in {"on", "closed", "crashed"}
    /\ read \in 0 .. Len(events)
    /\ halfway \in BOOLEAN
    /\ halfway => read < Len(events)

\* A start that failed had no child to print anything.
CallInv ==
    /\ due \subseteq {"CANCELLED", "ERROR"}
    /\ refused \in 0 .. MaxRefused
    /\ unstored \subseteq Cases
    /\ untold \in BOOLEAN
    /\ "ERROR" \in due => phase = "killed" /\ Len(events) = 0

\* A case row is that of one of its two events, and once the second has been
\* handled it is the second's, or the store has refused that one.
CaseInv ==
    /\ caseRow \in [Cases -> CaseRowType]
    /\ \A i \in Cases : caseRow[i] # NoCaseRow =>
          i <= Len(results) /\ caseRow[i] \in {Judged(i), Cleaned(i)}
    /\ \A i \in Cases : 3 * i + 1 <= (IF halfway THEN read + 1 ELSE read) =>
          i \in unstored \/ caseRow[i] = Cleaned(i)

\* The row never says more than the run, and says it all once it looks finished.
RowInv ==
    /\ row \in RowType
    /\ \A c \in RowCounters : row.n[c] <= stats[c]
    /\ row.status \in EndStatus =>
          /\ phase = "done"
          /\ row.status = Runner!OverallStatus(stats, results)
          /\ \A c \in RowCounters : row.n[c] = stats[c]
          /\ row.total = stats["total"]
          /\ read = Len(events)

IInv == HInv /\ ReaderInv /\ CallInv /\ CaseInv /\ RowInv

LEMMA Lengths ==
    ASSUME HInv
    PROVE  /\ Len(results) \in Nat /\ Len(events) \in Nat /\ cur \in Nat
           /\ Len(results) <= NumCases /\ NumCases \in Nat
           /\ Len(events) <= 3 * Len(results) + 2
<1>1. Len(results) \in Nat /\ Len(events) \in Nat /\ cur \in 0 .. NumCases
  BY LenProperties DEF HInv, HarnessTypes
<1>2. Len(results) <= cur /\ Len(events) <= 3 * Len(results) + 2
  BY DEF HInv, CountInv, StreamInv, LengthInv
<1> QED
  BY <1>1, <1>2, RunnerAssumption

\* The image stays true while the harness goes on, whoever else is told of it.
LEMMA ImageStays ==
    ASSUME IInv, HInv', Grows, UNCHANGED <<read, halfway, row, caseRow, unstored>>,
           reader' \in {"on", "closed", "crashed"}
    PROVE  ReaderInv' /\ CaseInv' /\ RowInv'
<1>2. PICK n \in Nat, l \in Nat : n = Len(results) /\ l = Len(events) /\ l <= 3 * n + 2 /\ n <= NumCases
  BY Lengths DEF IInv
<1>3. PICK m \in Nat, q \in Nat : m = Len(events') /\ l <= m /\ q = Len(results') /\ n <= q
  BY <1>2, LenProperties DEF Grows, Extends, HInv, HarnessTypes
<1>4. \A i \in 1 .. n : results'[i] = results[i]
  BY <1>2 DEF Grows, Extends
<1>5. ReaderInv'
  BY <1>2, <1>3 DEF IInv, ReaderInv
<1>6. CaseInv'
  <2>1. \A i \in Cases : i <= n => Judged(i)' = Judged(i) /\ Cleaned(i)' = Cleaned(i)
    <3> SUFFICES ASSUME NEW i \in Cases, i <= n
                 PROVE  Judged(i)' = Judged(i) /\ Cleaned(i)' = Cleaned(i)
      OBVIOUS
    <3>1. results'[i] = results[i]
      BY <1>4, RunnerAssumption DEF Cases
    <3> QED
      BY <3>1 DEF Judged, Cleaned
  <2>2. \A i \in Cases : caseRow[i] # NoCaseRow => i <= n /\ caseRow[i] \in {Judged(i), Cleaned(i)}
    BY <1>2 DEF IInv, CaseInv
  <2>3. ASSUME NEW i \in Cases, caseRow[i] # NoCaseRow
        PROVE  i <= q /\ caseRow[i] \in {Judged(i)', Cleaned(i)'}
    <3>1. i <= n /\ i \in Nat
      BY <2>2, <2>3, RunnerAssumption DEF Cases
    <3> QED
      BY <1>3, <2>1, <2>2, <2>3, <3>1
  <2>4. ASSUME NEW i \in Cases, 3 * i + 1 <= (IF halfway THEN read + 1 ELSE read)
        PROVE  i \in unstored \/ caseRow[i] = Cleaned(i)'
    <3>1. i \in Nat /\ 3 * i + 1 <= l
      BY <1>2, <2>4, RunnerAssumption DEF IInv, ReaderInv, Cases
    <3>2. i <= n
      BY <1>2, <3>1
    <3>3. i \in unstored \/ caseRow[i] = Cleaned(i)
      BY <2>4 DEF IInv, CaseInv
    <3> QED
      BY <2>1, <3>2, <3>3
  <2> QED
    BY <1>3, <2>3, <2>4 DEF IInv, CaseInv
<1>7. RowInv'
  <2>1. RowCounters \subseteq Runner!Counters
    BY DEF RowCounters
  <2>2. \A c \in RowCounters : row.n[c] \in Nat /\ stats[c] \in Nat /\ stats'[c] \in Nat
    BY <2>1 DEF IInv, RowInv, RowType, HInv, HarnessTypes
  <2>3. \A c \in RowCounters : row.n[c] <= stats'[c]
    <3> TAKE c \in RowCounters
    <3>1. row.n[c] <= stats[c] /\ stats[c] <= stats'[c]
      BY <2>1 DEF IInv, RowInv, Grows
    <3> QED
      BY <2>2, <3>1
  <2>4. phase = "done" => phase' = "done" /\ stats' = stats /\ events' = events /\ results' = results
    BY DEF Grows
  <2> QED
    BY <2>3, <2>4 DEF IInv, RowInv, RowType, Runner!OverallStatus
<1> QED
  BY <1>5, <1>6, <1>7

\* A harness that goes on keeps the promise of a failed start: it had no child.
LEMMA CallsStay ==
    ASSUME CallInv, Grows, UNCHANGED <<due, refused, unstored, untold>>
    PROVE  CallInv'
  BY DEF CallInv, Grows

\* A step of the reader leaves the harness as it is.
LEMMA ReaderAlone == HInv /\ UNCHANGED harnessVars => HInv' /\ Grows
<1> SUFFICES ASSUME HInv, UNCHANGED harnessVars PROVE HInv' /\ Grows
  OBVIOUS
<1>1. UNCHANGED <<cur, stats, results, events, phase, verdict, dirty>>
  BY DEF harnessVars
<1>2. verdict' \in Verdicts /\ dirty' \in BOOLEAN
  BY <1>1 DEF HInv, HarnessTypes
<1> QED
  BY <1>1, <1>2, QuietHarness

\* The case tables take one event, or refuse it.
LEMMA StoreCaseHolds == IInv /\ StoreCase => IInv'
<1> SUFFICES ASSUME IInv, StoreCase PROVE IInv'
  OBVIOUS
<1>1. /\ reader = "on" /\ ~halfway /\ read < Len(events) /\ halfway' = TRUE
      /\ UNCHANGED <<harnessVars, reader, read, row, due, untold>>
  BY DEF StoreCase
<1>2. UNCHANGED <<stats, results, events, phase>>
  BY <1>1 DEF harnessVars
<1>3. HInv'
  BY <1>1, ReaderAlone DEF IInv
<1>4. PICK n \in Nat, l \in Nat : n = Len(results) /\ l = Len(events) /\ l <= 3 * n + 2 /\ n <= NumCases
  BY Lengths DEF IInv
<1>5. PICK k \in Nat : k = read + 1 /\ k \in 1 .. l
  BY <1>1, <1>4 DEF IInv, ReaderInv
<1>6. ReaderInv'
  BY <1>1, <1>2 DEF IInv, ReaderInv
<1>7. RowInv'
  BY <1>1, <1>2 DEF IInv, RowInv, Runner!OverallStatus
<1> DEFINE e == events[k]
<1>8. InPlace(e, k)
  BY <1>4, <1>5 DEF IInv, HInv, StreamInv
<1>9. \A i \in Cases : i \in Nat /\ i >= 1
  BY RunnerAssumption DEF Cases
<1>10. /\ caseRow \in [Cases -> CaseRowType] /\ unstored \subseteq Cases /\ refused \in 0 .. MaxRefused
       /\ MaxRefused \in Nat
       /\ \A i \in Cases : caseRow[i] # NoCaseRow => i <= n /\ caseRow[i] \in {Judged(i), Cleaned(i)}
       /\ \A i \in Cases : 3 * i + 1 <= k - 1 => i \in unstored \/ caseRow[i] = Cleaned(i)
  BY <1>1, <1>4, <1>5, MaxRefusedAssumption DEF IInv, CaseInv, CallInv, ReaderInv
<1>11. \A i \in 1 .. n : i \in Cases /\ results[i] \in Result
  BY <1>4, ElementOfSeq, RunnerAssumption DEF IInv, HInv, HarnessTypes, Cases
<1>12. \/ caseRow' = CaseRowsAfter(e) /\ UNCHANGED <<refused, unstored>>
       \/ /\ refused < MaxRefused /\ refused' = refused + 1 /\ caseRow' = caseRow
          /\ unstored' = IF e.type = "cleanup_finished" THEN unstored \cup {e.case} ELSE unstored
  BY <1>5 DEF StoreCase
<1>13. \A i \in Cases : Judged(i)' = Judged(i) /\ Cleaned(i)' = Cleaned(i)
  BY <1>2 DEF Judged, Cleaned
<1> HIDE DEF e
\* What the tables must be after event k.
<1> DEFINE Stored(rows, un) ==
             /\ rows \in [Cases -> CaseRowType] /\ un \subseteq Cases
             /\ \A i \in Cases : rows[i] # NoCaseRow => i <= n /\ rows[i] \in {Judged(i), Cleaned(i)}
             /\ \A i \in Cases : 3 * i + 1 <= k => i \in un \/ rows[i] = Cleaned(i)
<1>14. Stored(caseRow', unstored') /\ refused' \in 0 .. MaxRefused
  <2>0. refused' \in 0 .. MaxRefused
    BY <1>10, <1>12
  <2>1. CASE e.type = "case_finished"
    <3>1. e.case \in 1 .. n /\ k = 3 * e.case /\ e.status = results[e.case].status
      BY <1>4, <1>8, <2>1 DEF InPlace
    <3>2. PICK j \in 1 .. n : j = e.case /\ k = 3 * j
      BY <3>1
    <3>3. \A i \in Cases : 3 * i + 1 <= k => 3 * i + 1 <= k - 1 /\ i # j
      BY <1>9, <3>2
    <3>4. CASE caseRow' = CaseRowsAfter(e) /\ UNCHANGED <<refused, unstored>>
      <4>1. caseRow' = [caseRow EXCEPT ![j] = Judged(j)]
        BY <2>1, <3>1, <3>2, <3>4 DEF CaseRowsAfter, Judged
      <4>2. Judged(j) \in CaseRowType /\ j \in Cases
        BY <1>11 DEF Result, CaseRowType, Judged
      <4> QED
        BY <1>10, <2>0, <3>3, <3>4, <4>1, <4>2
    <3>5. CASE caseRow' = caseRow /\ unstored' = unstored
      BY <1>10, <2>0, <3>3, <3>5
    <3> QED
      BY <1>12, <2>1, <3>4, <3>5
  <2>2. CASE e.type = "cleanup_finished"
    <3>1. e.case \in 1 .. n /\ k = 3 * e.case + 1 /\ e.status = results[e.case].cleanup
      BY <1>4, <1>8, <2>2 DEF InPlace
    <3>2. PICK j \in 1 .. n : j = e.case /\ k = 3 * j + 1
      BY <3>1
    <3>3. \A i \in Cases : 3 * i + 1 <= k => 3 * i + 1 <= k - 1 \/ i = j
      BY <1>9, <3>2
    <3>4. CASE caseRow' = CaseRowsAfter(e) /\ UNCHANGED <<refused, unstored>>
      <4>1. caseRow' = [caseRow EXCEPT ![j] = Cleaned(j)]
        BY <2>2, <3>1, <3>2, <3>4 DEF CaseRowsAfter, Cleaned
      <4>2. Cleaned(j) \in CaseRowType /\ j \in Cases
        BY <1>11 DEF Result, CaseRowType, Cleaned
      <4> QED
        BY <1>10, <2>0, <3>3, <3>4, <4>1, <4>2
    <3>5. CASE caseRow' = caseRow /\ unstored' = unstored \cup {j}
      BY <1>10, <1>11, <2>0, <3>3, <3>5
    <3> QED
      BY <1>12, <2>2, <3>2, <3>4, <3>5
  <2>3. CASE e.type \notin {"case_finished", "cleanup_finished"}
    <3>1. caseRow' = caseRow /\ unstored' = unstored
      BY <1>12, <2>3 DEF CaseRowsAfter
    <3>2. k = 1 \/ \E j \in Nat : k = 3 * j + 2
      <4>1. CASE e.type = "case_started"
        <5>1. e.case \in 1 .. cur /\ k = 3 * e.case - 1 /\ cur \in Nat
          BY <1>8, <4>1, Lengths DEF InPlace, IInv
        <5>2. PICK c \in 1 .. cur : c = e.case
          BY <5>1
        <5>3. c - 1 \in Nat /\ k = 3 * (c - 1) + 2
          BY <5>1, <5>2
        <5> QED
          BY <5>3
      <4>2. CASE e.type # "case_started"
        BY <1>4, <1>8, <2>3, <4>2 DEF InPlace
      <4> QED
        BY <4>1, <4>2
    <3>3. \A i \in Cases : 3 * i + 1 <= k => 3 * i + 1 <= k - 1
      BY <1>9, <3>2
    <3> QED
      BY <1>10, <2>0, <3>1, <3>3
  <2> HIDE DEF Stored
  <2> QED
    BY <2>0, <2>1, <2>2, <2>3
<1>15. CaseInv'
  <2>1. k = (IF halfway THEN read + 1 ELSE read)' /\ n = Len(results')
    BY <1>1, <1>2, <1>4, <1>5
  <2> QED
    BY <1>13, <1>14, <2>1 DEF CaseInv
<1>16. CallInv'
  BY <1>1, <1>2, <1>14 DEF IInv, CallInv
<1> QED
  BY <1>3, <1>6, <1>7, <1>15, <1>16 DEF IInv

\* What an event makes of a row that does not look finished.
LEMMA RowAfterFacts ==
    ASSUME HInv, RowInv, row.status \notin EndStatus, NEW k \in 1 .. Len(events)
    PROVE  LET r == RowAfter(events[k])
           IN  /\ r \in RowType
               /\ \A c \in RowCounters : r.n[c] <= stats[c]
               /\ \/ r.status \notin EndStatus
                  \/ /\ phase = "done" /\ k = Len(events)
                     /\ r.status = Runner!OverallStatus(stats, results)
                     /\ \A c \in RowCounters : r.n[c] = stats[c]
                     /\ r.total = stats["total"]
               /\ r.status = row.status \/ k = 1 \/ phase = "done"
<1>4. PICK n \in Nat, l \in Nat : n = Len(results) /\ l = Len(events) /\ l <= 3 * n + 2 /\ n <= NumCases
  BY Lengths
<1> DEFINE e == events[k]
           r == RowAfter(e)
<1>8. InPlace(e, k) /\ e \in StreamEvent
  BY <1>4, ElementOfSeq DEF HInv, StreamInv, HarnessTypes
<1>9. r = RowAfter(e)
  OBVIOUS
<1>10. row \in RowType /\ \A c \in RowCounters : row.n[c] <= stats[c]
  BY DEF RowInv
<1>12. stats \in [Runner!Counters -> Nat] /\ stats["total"] = n
  BY <1>4 DEF HInv, HarnessTypes, CountedInv
<1>13. \A c \in RowCounters : c \in Runner!Counters /\ stats[c] \in Nat /\ row.n[c] \in Nat
  BY <1>10, <1>12 DEF RowCounters, RowType
<1> HIDE DEF e, r
<1>14. ASSUME NEW s \in Runner!CaseStatus,
              Runner!CounterOf[s] \in RowCounters => stats[Runner!CounterOf[s]] >= 1
       PROVE  /\ Bumped(s) \in RowType
              /\ \A c \in RowCounters : Bumped(s).n[c] <= stats[c]
              /\ Bumped(s).status = row.status
  <2>1. Bumped(s).n = [c \in RowCounters |-> IF c = Runner!CounterOf[s] THEN 1 ELSE row.n[c]]
    BY <1>10 DEF Bumped, RowType
  <2>2. Bumped(s).n \in [RowCounters -> Nat] /\ \A c \in RowCounters : Bumped(s).n[c] <= stats[c]
    BY <1>10, <1>13, <1>14, <2>1
  <2> DEFINE m == [c \in RowCounters |-> IF c = Runner!CounterOf[s] THEN 1 ELSE row.n[c]]
  <2>3. Bumped(s) = [status |-> row.status, total |-> row.total, progress |-> 1,
                     case |-> row.case, n |-> m]
    <3>1. Bumped(s).n = m
      BY <2>1
    <3> HIDE DEF m
    <3>2. /\ DOMAIN Bumped(s) = {"status", "total", "progress", "case", "n"}
          /\ Bumped(s).status = row.status /\ Bumped(s).total = row.total
          /\ Bumped(s).progress = 1 /\ Bumped(s).case = row.case
          /\ Bumped(s) = [f \in DOMAIN Bumped(s) |-> Bumped(s)[f]]
      BY <1>10 DEF Bumped, RowType
    <3> QED
      BY <3>1, <3>2
  <2>4. m \in [RowCounters -> Nat]
    BY <2>1, <2>2
  <2> HIDE DEF m
  <2>5. Bumped(s) \in RowType /\ Bumped(s).status = row.status
    BY <1>10, <2>3, <2>4 DEF RowType
  <2> QED
    BY <2>2, <2>5
\* An event that leaves the status alone.
<1> DEFINE Same == /\ r \in RowType /\ r.status = row.status
                   /\ \A c \in RowCounters : r.n[c] <= stats[c]
<1>1. CASE e.type = "run_started"
  <2>1. r = [row EXCEPT !.status = "RUNNING", !.total = NumCases, !.progress = 0] /\ k = 1
    BY <1>8, <1>9, <1>1 DEF RowAfter, InPlace
  <2>2. r = [status |-> "RUNNING", total |-> NumCases, progress |-> 0,
             case |-> row.case, n |-> row.n]
    BY <1>10, <2>1 DEF RowType
  <2>3. NumCases \in 0 .. NumCases /\ "RUNNING" \in RowStatus \ EndStatus
    BY RunnerAssumption DEF RowStatus, EndStatus
  <2>4. r \in RowType /\ r.status = "RUNNING" /\ r.n = row.n
    BY <1>10, <2>2, <2>3 DEF RowType
  <2> QED
    BY <1>10, <2>1, <2>3, <2>4 DEF r, e
<1>2. CASE e.type = "case_started"
  <2>1. r = [row EXCEPT !.case = e.case]
    BY <1>9, <1>2 DEF RowAfter
  <2>2. e.case \in 0 .. NumCases
    BY <1>8, <1>2, RunnerAssumption DEF InPlace, HInv, HarnessTypes
  <2>3. Same
    BY <1>10, <2>1, <2>2 DEF RowType
  <2> QED
    BY <2>3 DEF r, e
<1>3. CASE e.type = "case_finished"
  <2>1. r = Bumped(e.status)
    BY <1>9, <1>3 DEF RowAfter
  <2>2. PICK j \in 1 .. n : e.status = results[j].status
    BY <1>4, <1>8, <1>3 DEF InPlace
  <2>3. results[j] \in Result
    BY <1>4, ElementOfSeq DEF HInv, HarnessTypes
  <2>4. e.status \in Runner!CaseStatus
    BY <2>2, <2>3, RunnerAssumption DEF Result
  <2>5. e.status # "CANCELLED" => stats[Runner!CounterOf[e.status]] >= 1
    BY <1>4, <2>2 DEF HInv, CountedInv
  <2>6. Runner!CounterOf["CANCELLED"] \notin RowCounters
    BY DEF Runner!CounterOf, RowCounters, Runner!Counters
  <2>7. Same
    BY <1>14, <2>1, <2>4, <2>5, <2>6
  <2> QED
    BY <2>7 DEF r, e
<1>5. CASE e.type = "cleanup_finished"
  <2>1. PICK j \in 1 .. n : e.status = results[j].cleanup
    BY <1>4, <1>8, <1>5 DEF InPlace
  <2>2. CASE e.status = "CLEANUP_FAILED"
    <3>1. r = Bumped("CLEANUP_FAILED")
      BY <1>9, <1>5, <2>2 DEF RowAfter
    <3>2. Runner!CounterOf["CLEANUP_FAILED"] = "cleanup_failed" /\ "CLEANUP_FAILED" \in Runner!CaseStatus
      BY DEF Runner!CounterOf, Runner!CaseStatus
    <3>3. stats["cleanup_failed"] >= 1
      BY <1>4, <2>1, <2>2 DEF HInv, CountedInv
    <3>4. Same
      BY <1>14, <3>1, <3>2, <3>3
    <3> QED
      BY <3>4 DEF r, e
  <2>3. CASE e.status # "CLEANUP_FAILED"
    <3>1. r = row
      BY <1>9, <1>5, <2>3 DEF RowAfter
    <3> QED
      BY <1>10, <3>1 DEF r, e
  <2> QED
    BY <2>2, <2>3
<1>6. CASE e.type = "run_finished"
  <2>1. /\ phase = "done" /\ k = l /\ e.stats = stats /\ e.status = Runner!OverallStatus(stats, results)
    BY <1>4, <1>8, <1>6 DEF InPlace
  <2>2. r = Final(e)
    BY <1>9, <1>6 DEF RowAfter
  <2> DEFINE p == stats["passed"] + stats["failed"] + stats["errors"] + stats["skipped"]
                  + stats["observed"] + stats["measured"] + stats["cleanup_failed"]
  <2>3. r = [row EXCEPT !.status = Runner!OverallStatus(stats, results), !.total = n,
                        !.n = [c \in RowCounters |-> stats[c]], !.progress = p]
    BY <1>12, <2>1, <2>2 DEF Final
  <2>4. p \in Nat
    BY <1>12 DEF Runner!Counters
  <2> HIDE DEF p
  <2>5. Runner!OverallStatus(stats, results) \in RowStatus
    BY DEF Runner!OverallStatus, RowStatus, EndStatus
  <2>6. n \in 0 .. NumCases /\ [c \in RowCounters |-> stats[c]] \in [RowCounters -> Nat]
    BY <1>4, <1>13, RunnerAssumption
  <2>7. r \in RowType
    BY <1>10, <2>3, <2>4, <2>5, <2>6 DEF RowType
  <2>8. /\ r.status = Runner!OverallStatus(stats, results) /\ r.total = n
        /\ r.n = [c \in RowCounters |-> stats[c]]
    BY <1>10, <2>3 DEF RowType
  <2>9. \A c \in RowCounters : r.n[c] = stats[c] /\ r.n[c] <= stats[c]
    BY <1>13, <2>8
  <2> QED
    BY <1>4, <1>12, <2>1, <2>7, <2>8, <2>9 DEF r, e
<1> QED
  BY <1>8, <1>1, <1>2, <1>3, <1>5, <1>6 DEF StreamEvent, Runner!EventTypes

\* The run's row takes one event, or refuses it.
LEMMA PatchRunHolds == IInv /\ PatchRun => IInv'
<1> SUFFICES ASSUME IInv, PatchRun PROVE IInv'
  OBVIOUS
<1>1. /\ reader # "crashed" /\ halfway /\ halfway' = FALSE /\ read' = read + 1
      /\ UNCHANGED <<harnessVars, reader, caseRow, due, unstored>>
  BY Zenon DEF PatchRun
<1>10. \/ row' = RowAfter(events[read + 1]) /\ refused' = refused
       \/ row' = row /\ refused < MaxRefused /\ refused' = refused + 1
  BY DEF PatchRun
<1>2. UNCHANGED <<stats, results, events, phase>>
  BY <1>1 DEF harnessVars
<1>3. HInv'
  BY <1>1, ReaderAlone DEF IInv
<1>4. PICK n \in Nat, l \in Nat : n = Len(results) /\ l = Len(events) /\ l <= 3 * n + 2 /\ n <= NumCases
  BY Lengths DEF IInv
<1>5. PICK k \in Nat : k = read + 1 /\ k \in 1 .. l
  BY <1>1, <1>4 DEF IInv, ReaderInv
<1>6. ReaderInv'
  <2>1. read' \in 0 .. Len(events')
    BY <1>1, <1>2, <1>4, <1>5
  <2> QED
    BY <1>1, <2>1 DEF IInv, ReaderInv
<1>7. CaseInv'
  <2>1. \A i \in Cases : Judged(i)' = Judged(i) /\ Cleaned(i)' = Cleaned(i)
    BY <1>2 DEF Judged, Cleaned
  <2>2. (IF halfway THEN read + 1 ELSE read)' = (IF halfway THEN read + 1 ELSE read)
    BY <1>1
  <2> QED
    BY <1>1, <1>2, <2>1, <2>2 DEF IInv, CaseInv
<1>8. CallInv'
  <2>1. untold \in BOOLEAN /\ (untold' = untold \/ untold' = (untold \/ events[read + 1].type = "run_finished"))
    BY DEF PatchRun, IInv, CallInv
  <2>2. untold' \in BOOLEAN
    BY <2>1, Zenon
  <2> QED
    BY <1>1, <1>2, <1>10, <2>2, MaxRefusedAssumption DEF IInv, CallInv
<1>9. RowInv'
  <2>1. read' = k /\ Len(events') = l /\ read # l
    BY <1>1, <1>2, <1>4, <1>5 DEF IInv, ReaderInv
  <2>2. row.status \notin EndStatus
    BY <1>4, <2>1 DEF IInv, RowInv
  <2>3. CASE row' = row
    BY <1>2, <2>2, <2>3 DEF IInv, RowInv
  <2>4. CASE row' = RowAfter(events[k])
    BY <1>2, <1>4, <1>5, <2>1, <2>2, <2>4, RowAfterFacts DEF IInv, RowInv, Runner!OverallStatus
  <2> QED
    BY <1>5, <1>10, <2>3, <2>4
<1> QED
  BY <1>3, <1>6, <1>7, <1>8, <1>9 DEF IInv

\* The reader is cut off, or dies.
LEMMA CutOffHolds == IInv /\ (PipeCloses \/ AppCrashes) => IInv'
<1> SUFFICES ASSUME IInv, PipeCloses \/ AppCrashes PROVE IInv'
  OBVIOUS
<1>1. /\ UNCHANGED <<harnessVars, read, row, caseRow, refused, unstored, untold>>
      /\ reader' \in {"closed", "crashed"} /\ due' \subseteq due
  BY DEF PipeCloses, AppCrashes, tables, told
<1>7. halfway' = halfway \/ halfway' = FALSE
  BY DEF PipeCloses, AppCrashes
<1>2. UNCHANGED <<stats, results, events, phase>>
  BY <1>1 DEF harnessVars
<1>3. HInv'
  BY <1>1, ReaderAlone DEF IInv
<1>4. ReaderInv' /\ CallInv'
  <2>1. halfway' \in BOOLEAN /\ (halfway' => halfway)
    <3>1. halfway \in BOOLEAN
      BY DEF IInv, ReaderInv
    <3>2. CASE halfway' = halfway
      BY <3>1, <3>2
    <3>3. CASE halfway' = FALSE
      BY <3>3, Zenon
    <3> QED
      BY <1>7, <3>2, <3>3
  <2>2. ReaderInv'
    BY <1>1, <1>2, <2>1 DEF IInv, ReaderInv
  <2>3. CallInv'
    <3>1. UNCHANGED <<refused, unstored, untold, phase, events>> /\ due' \subseteq due
      BY <1>1, <1>2
    <3>2. CallInv
      BY DEF IInv
    <3>3. untold' \in BOOLEAN
      BY <3>1, <3>2, Zenon DEF CallInv
    <3>4. "ERROR" \in due' => phase' = "killed" /\ Len(events') = 0
      BY <3>1, <3>2 DEF CallInv
    <3> QED
      BY <3>1, <3>2, <3>3, <3>4 DEF CallInv
  <2> QED
    BY <2>2, <2>3
<1>5. CaseInv'
  <2>1. \A i \in Cases : Judged(i)' = Judged(i) /\ Cleaned(i)' = Cleaned(i)
    BY <1>2 DEF Judged, Cleaned
  <2>2. \A i \in Cases : 3 * i + 1 <= (IF halfway THEN read + 1 ELSE read)'
                            => 3 * i + 1 <= (IF halfway THEN read + 1 ELSE read)
    BY <1>1, <1>7, RunnerAssumption DEF IInv, ReaderInv, Cases
  <2> QED
    BY <1>1, <1>2, <2>1, <2>2 DEF IInv, CaseInv
<1>6. RowInv'
  BY <1>1, <1>2 DEF IInv, RowInv, Runner!OverallStatus
<1> QED
  BY <1>3, <1>4, <1>5, <1>6 DEF IInv

\* A start fails, or a stop kills the child or finds none.
LEMMA CallHolds == IInv /\ (StartFails \/ StopRow) => IInv'
<1> SUFFICES ASSUME IInv, StartFails \/ StopRow PROVE IInv'
  OBVIOUS
<1>1. Runner!Killed \/ UNCHANGED harnessVars
  BY DEF StartFails, StopRow
<1>2. HInv' /\ Grows
  BY <1>1, ReaderAlone, HarnessGoesOn DEF IInv, Runner!Next
<1>3. /\ UNCHANGED <<read, halfway, row, caseRow, refused, unstored, untold>>
      /\ reader' \in {"on", "closed", "crashed"}
  BY DEF StartFails, StopRow, tables, told, IInv, ReaderInv
<1>4. CallInv'
  <2>1. CASE StartFails
    <3>1. phase = "start" /\ phase' = "killed" /\ due' = due \cup {"ERROR"} /\ events' = events
      BY <2>1 DEF StartFails, Runner!Killed, Runner!outVars
    <3>2. Len(events) = 0
      BY <3>1 DEF IInv, HInv, StreamInv, LengthInv
    <3> QED
      BY <1>3, <3>1, <3>2 DEF IInv, CallInv
  <2>2. CASE StopRow
    <3>1. due' = due \cup {"CANCELLED"}
      BY <2>2 DEF StopRow
    <3> QED
      BY <1>2, <1>3, <3>1 DEF IInv, CallInv, Grows
  <2> QED
    BY <2>1, <2>2
<1> QED
  BY <1>2, <1>3, <1>4, ImageStays DEF IInv

\* A call writes its status, or the next start its INTERRUPTED.
LEMMA StatusHolds == IInv /\ ((\E s \in {"CANCELLED", "ERROR"} : RecordStatus(s)) \/ Recover) => IInv'
<1> SUFFICES ASSUME IInv, (\E s \in {"CANCELLED", "ERROR"} : RecordStatus(s)) \/ Recover PROVE IInv'
  OBVIOUS
<1>1. PICK s \in {"CANCELLED", "ERROR", "INTERRUPTED"} : row' \in {[row EXCEPT !.status = s], row}
  BY DEF RecordStatus, Recover
<1>2. /\ UNCHANGED <<harnessVars, reader, read, halfway, caseRow, refused, unstored, untold>>
      /\ due' \subseteq due
  BY DEF RecordStatus, Recover, told
<1>3. UNCHANGED <<stats, results, events, phase>>
  BY <1>2 DEF harnessVars
<1>4. HInv'
  BY <1>2, ReaderAlone DEF IInv
<1>5. ReaderInv' /\ CallInv' /\ CaseInv'
  BY <1>2, <1>3 DEF IInv, ReaderInv, CallInv, CaseInv, Judged, Cleaned
<1>6. RowInv'
  <2>1. s \in RowStatus \ EndStatus
    BY DEF RowStatus, EndStatus
  <2>2. CASE row' = row
    BY <1>2, <1>3, <2>2 DEF IInv, RowInv, Runner!OverallStatus
  <2>3. CASE row' = [row EXCEPT !.status = s]
    <3>1. row' \in RowType /\ row'.status = s /\ row'.n = row.n
      BY <2>1, <2>3 DEF IInv, RowInv, RowType
    <3> QED
      BY <1>3, <2>1, <3>1 DEF IInv, RowInv
  <2> QED
    BY <1>1, <2>2, <2>3
<1> QED
  BY <1>4, <1>5, <1>6 DEF IInv

LEMMA InitHolds == Init => IInv
<1> SUFFICES ASSUME Init PROVE IInv
  OBVIOUS
<1>1. HInv
  BY HarnessInit DEF Init
<1>2. Len(events) = 0
  BY <1>1 DEF Init, Runner!Init, HInv, StreamInv, LengthInv
<1>3. ReaderInv /\ CallInv
  <2>1. /\ reader = "on" /\ read = 0 /\ halfway \in BOOLEAN /\ ~halfway
        /\ due = {} /\ refused = 0 /\ unstored = {} /\ untold \in BOOLEAN
    BY DEF Init
  <2> QED
    BY <1>2, <2>1, MaxRefusedAssumption DEF ReaderInv, CallInv
<1>4. CaseInv
  <2>1. caseRow \in [Cases -> CaseRowType] /\ \A i \in Cases : caseRow[i] = NoCaseRow
    BY DEF Init, NoCaseRow, CaseRowType
  <2>2. \A i \in Cases : ~(3 * i + 1 <= 0)
    BY RunnerAssumption DEF Cases
  <2>3. read = 0 /\ halfway = FALSE
    BY DEF Init
  <2> QED
    BY <2>1, <2>2, <2>3 DEF CaseInv
<1>5. RowInv
  <2>1. PICK s \in {"PENDING", "RUNNING"} :
           row = [status |-> s, total |-> NumCases, progress |-> 0, case |-> 0,
                  n |-> [c \in RowCounters |-> 0]]
    BY DEF Init
  <2>2. \A c \in RowCounters : stats[c] = 0
    BY DEF Init, Runner!Init, Runner!ZeroStats, RowCounters
  <2>3. NumCases \in 0 .. NumCases /\ 0 \in 0 .. NumCases /\ s \in RowStatus \ EndStatus
    BY RunnerAssumption DEF RowStatus, EndStatus
  <2>4. row \in RowType
    BY <2>1, <2>3 DEF RowType
  <2> QED
    BY <2>1, <2>2, <2>3, <2>4 DEF RowInv
<1> QED
  BY <1>1, <1>3, <1>4, <1>5 DEF IInv

LEMMA InvariantHolds == Spec => []IInv
<1>1. IInv /\ [Next]_vars => IInv'
  <2> SUFFICES ASSUME IInv, [Next]_vars PROVE IInv'
    OBVIOUS
  <2>1. CASE HarnessStep
    <3>1. HInv' /\ Grows
      BY <2>1, HarnessGoesOn DEF IInv, HarnessStep
    <3>2. UNCHANGED <<reader, read, halfway, row, caseRow, due, refused, unstored, untold>>
      BY <2>1 DEF HarnessStep, dbVars, tables, told
    <3>3. CallInv'
      BY <3>1, <3>2, CallsStay DEF IInv
    <3> QED
      BY <3>1, <3>2, <3>3, ImageStays DEF IInv, ReaderInv
  <2>2. CASE StoreCase
    BY <2>2, StoreCaseHolds
  <2>3. CASE PatchRun
    BY <2>3, PatchRunHolds
  <2>4. CASE PipeCloses \/ AppCrashes
    BY <2>4, CutOffHolds
  <2>5. CASE StartFails \/ StopRow
    BY <2>5, CallHolds
  <2>6. CASE (\E s \in {"CANCELLED", "ERROR"} : RecordStatus(s)) \/ Recover
    BY <2>6, StatusHolds
  <2>7. CASE UNCHANGED vars
    <3>1. UNCHANGED <<harnessVars, reader, read, halfway, row, caseRow, due, refused, unstored, untold>>
      BY <2>7 DEF vars, dbVars, tables, told
    <3>2. HInv' /\ Grows
      BY <3>1, ReaderAlone DEF IInv
    <3>3. CallInv'
      BY <3>1, <3>2, CallsStay DEF IInv
    <3> QED
      BY <3>1, <3>2, <3>3, ImageStays DEF IInv, ReaderInv
  <2> QED
    BY <2>1, <2>2, <2>3, <2>4, <2>5, <2>6, <2>7 DEF Next
<1> QED
  BY <1>1, InitHolds, PTL DEF Spec

(***************************************************************************)
(* The theorems.                                                           *)
(***************************************************************************)

\* The image in the database keeps its type, whatever the stream brings.
THEOREM TypeCorrect == Spec => []TypeOK
<1>1. IInv => TypeOK
  BY DEF IInv, ReaderInv, CallInv, CaseInv, RowInv, RowType, CaseRowType, TypeOK
<1> QED
  BY <1>1, InvariantHolds, PTL

\* A row with a status that only run_finished brings: onEvent has handled that
\* event, the last one, and with it every one before.  However many UPDATEs and
\* upserts were refused on the way, and whoever wrote CANCELLED, ERROR or
\* INTERRUPTED over the row in between, its counters are those of the run, and the
\* cases whose upsert was not refused have the row of their cleanup.
THEOREM FinishedHolds == Spec => []FinishedRowExact
<1>1. IInv => FinishedRowExact
  <2> SUFFICES ASSUME IInv, row.status \in EndStatus
               PROVE  /\ phase = "done"
                      /\ row.status = Runner!OverallStatus(stats, results)
                      /\ \A c \in RowCounters : row.n[c] = stats[c]
                      /\ \A i \in 1 .. Len(results) :
                            i \in unstored \/ caseRow[i].cleanup = results[i].cleanup
    BY DEF FinishedRowExact
  <2>1. /\ phase = "done" /\ row.status = Runner!OverallStatus(stats, results) /\ read = Len(events)
        /\ \A c \in RowCounters : row.n[c] = stats[c]
    BY DEF IInv, RowInv
  <2>2. PICK n \in Nat, l \in Nat : n = Len(results) /\ l = Len(events) /\ n <= NumCases
    BY Lengths DEF IInv
  <2>3. l = 3 * n + 2 /\ ~halfway
    BY <2>1, <2>2 DEF IInv, HInv, StreamInv, LengthInv, ReaderInv
  <2>4. ASSUME NEW i \in 1 .. n PROVE i \in unstored \/ caseRow[i].cleanup = results[i].cleanup
    <3>1. i \in Cases /\ 3 * i + 1 <= read
      BY <2>1, <2>2, <2>3, RunnerAssumption DEF Cases
    <3>2. i \in unstored \/ caseRow[i] = Cleaned(i)
      BY <2>3, <3>1 DEF IInv, CaseInv
    <3>3. Cleaned(i).cleanup = results[i].cleanup
      BY DEF Cleaned
    <3> QED
      BY <3>2, <3>3
  <2> QED
    BY <2>1, <2>2, <2>4
<1> QED
  BY <1>1, InvariantHolds, PTL

\* No counter of the row is ever ahead of the run.
THEOREM RowHolds == Spec => []RowNeverOverstates
<1>1. IInv => RowNeverOverstates
  BY DEF IInv, RowInv, RowNeverOverstates
<1> QED
  BY <1>1, InvariantHolds, PTL

\* A case row exists only for a case that is over, and repeats its result or is
\* blank: the upserts of the stream's prefix never mix two cases up.
THEOREM CaseRowsHold == Spec => []RowsFollowResults
<1>1. IInv => RowsFollowResults
  <2> SUFFICES ASSUME IInv, NEW i \in Cases, caseRow[i] # NoCaseRow
               PROVE  /\ i <= Len(results)
                      /\ caseRow[i].status \in {"", results[i].status}
                      /\ caseRow[i].cleanup \in {"", results[i].cleanup}
    BY DEF RowsFollowResults
  <2>1. i <= Len(results) /\ caseRow[i] \in {Judged(i), Cleaned(i)}
    BY DEF IInv, CaseInv
  <2>2. /\ Judged(i).status = results[i].status /\ Judged(i).cleanup = ""
        /\ Cleaned(i).status = "" /\ Cleaned(i).cleanup = results[i].cleanup
    BY DEF Judged, Cleaned
  <2> QED
    BY <2>1, <2>2
<1> QED
  BY <1>1, InvariantHolds, PTL

\* What StopTestRun has written, no line of a killed harness takes back: the only
\* lines that touch the status are the first one and that of a run that ended by
\* itself, and a start that failed had no child to send any.
THEOREM CancelHolds == Spec => CancelStands
<1>1. IInv /\ [Next]_vars =>
        (row.status = "CANCELLED" /\ row'.status # "CANCELLED" => read = 0 \/ phase = "done")
  <2> SUFFICES ASSUME IInv, [Next]_vars, row.status = "CANCELLED", row'.status # "CANCELLED"
               PROVE  read = 0 \/ phase = "done"
    OBVIOUS
  <2>1. CASE PatchRun
    <3>1. PICK k \in 1 .. Len(events) : k = read + 1
      BY <2>1, LenProperties DEF PatchRun, IInv, HInv, HarnessTypes, ReaderInv
    <3>2. row' = RowAfter(events[k])
      BY <2>1, <3>1 DEF PatchRun
    <3>3. row.status \notin EndStatus
      BY DEF EndStatus
    <3>4. row'.status = row.status \/ k = 1 \/ phase = "done"
      BY <3>2, <3>3, RowAfterFacts DEF IInv
    <3> QED
      BY <3>1, <3>4 DEF IInv, ReaderInv
  <2>2. CASE \E s \in {"CANCELLED", "ERROR"} : RecordStatus(s)
    <3>1. PICK s \in due : row' \in {[row EXCEPT !.status = s], row}
      BY <2>2 DEF RecordStatus
    <3>2. [row EXCEPT !.status = s].status = s
      BY DEF IInv, RowInv, RowType
    <3>3. s = "ERROR"
      BY <3>1, <3>2 DEF IInv, CallInv
    <3> QED
      BY <3>1, <3>3 DEF IInv, CallInv, ReaderInv
  <2>3. CASE Recover
    BY <2>3 DEF Recover
  <2>4. CASE UNCHANGED row
    BY <2>4
  <2> QED
    BY <2>1, <2>2, <2>3, <2>4
    DEF Next, HarnessStep, StoreCase, PipeCloses, StartFails, StopRow, AppCrashes, vars, dbVars, tables
<1> QED
  BY <1>1, InvariantHolds, PTL DEF Spec, CancelStands

(***************************************************************************)
(* The harness inside.  With a reader beside it the harness does only what  *)
(* it does alone, so what HarnessRunner_proofs says of it holds here.       *)
(***************************************************************************)
HP == INSTANCE HarnessRunner_proofs

LEMMA SameHarness ==
    /\ Runner!Init => HP!Init
    /\ Runner!Next => HP!Next
<1>1. Runner!Init => HP!Init
  BY DEF Runner!Init, HP!Init, Runner!ZeroStats, HP!ZeroStats, Runner!Counters, HP!Counters
<1>2. Runner!StartRun => HP!StartRun
  BY DEF Runner!StartRun, HP!StartRun, Runner!bodyVars, HP!bodyVars, Runner!Event, HP!Event,
         Runner!ZeroStats, HP!ZeroStats, Runner!Counters, HP!Counters
<1>14. Runner!NextCase => HP!NextCase
  BY DEF Runner!NextCase, HP!NextCase, Runner!bodyVars, HP!bodyVars, Runner!outVars, HP!outVars
<1>3. Runner!BeginCase => HP!BeginCase
  BY DEF Runner!BeginCase, HP!BeginCase, Runner!bodyVars, HP!bodyVars, Runner!Event, HP!Event,
         Runner!ZeroStats, HP!ZeroStats, Runner!Counters, HP!Counters
<1>4. Runner!CloseCase => HP!CloseCase
  BY DEF Runner!CloseCase, HP!CloseCase, Runner!bodyVars, HP!bodyVars, Runner!Event, HP!Event,
         Runner!ZeroStats, HP!ZeroStats, Runner!Counters, HP!Counters, Runner!Add, HP!Add,
         Runner!CounterOf, HP!CounterOf
<1>5. Runner!FinishRun => HP!FinishRun
  BY DEF Runner!FinishRun, HP!FinishRun, Runner!bodyVars, HP!bodyVars, Runner!Event, HP!Event,
         Runner!OverallStatus, HP!OverallStatus, Runner!ExitCode, HP!ExitCode
<1>6. \A v \in Verdicts : Runner!EndBody(v) => HP!EndBody(v)
  BY DEF Runner!EndBody, HP!EndBody, Runner!outVars, HP!outVars
<1>7. \A x \in Resources : Runner!Create(x) => HP!Create(x)
  BY DEF Runner!Create, HP!Create, Runner!outVars, HP!outVars, Runner!Registered, HP!Registered,
         Runner!ToSet, HP!ToSet
<1>8. \A x \in Resources : Runner!CreateRaises(x) => HP!CreateRaises(x)
  BY DEF Runner!CreateRaises, HP!CreateRaises, Runner!outVars, HP!outVars, Runner!Registered,
         HP!Registered, Runner!ToSet, HP!ToSet
<1>9. \A x \in Resources : Runner!ReleaseEarly(x) => HP!ReleaseEarly(x)
  BY DEF Runner!ReleaseEarly, HP!ReleaseEarly, Runner!outVars, HP!outVars, Runner!RemoveAt,
         HP!RemoveAt
<1>10. \A x \in Resources : Runner!ReleaseRaises(x) => HP!ReleaseRaises(x)
  BY DEF Runner!ReleaseRaises, HP!ReleaseRaises, Runner!outVars, HP!outVars, Runner!Registered,
         HP!Registered, Runner!ToSet, HP!ToSet
<1>11. Runner!CleanupNext => HP!CleanupNext
  BY DEF Runner!CleanupNext, HP!CleanupNext, Runner!outVars, HP!outVars, Runner!AfterCleanup,
         HP!AfterCleanup, Runner!Front, HP!Front, Runner!Last, HP!Last
<1>12. Runner!Signal \/ Runner!SignalInEmit \/ Runner!Killed => HP!Signal \/ HP!SignalInEmit \/ HP!Killed
  BY DEF Runner!Signal, HP!Signal, Runner!SignalInEmit, HP!SignalInEmit, Runner!Killed, HP!Killed,
         Runner!Running, HP!Running, Runner!bodyVars, HP!bodyVars, Runner!outVars, HP!outVars
<1>13. Runner!Terminated => HP!Terminated
  BY DEF Runner!Terminated, HP!Terminated, Runner!Running, HP!Running, Runner!vars, HP!vars,
         Runner!bodyVars, HP!bodyVars, Runner!outVars, HP!outVars
<1> QED
  BY <1>1, <1>2, <1>3, <1>4, <1>5, <1>6, <1>7, <1>8, <1>9, <1>10, <1>11, <1>12, <1>13, <1>14
     DEF Runner!Next, HP!Next

LEMMA HarnessInside == Spec => HP!Spec
<1>1. Init => HP!Init
  BY SameHarness DEF Init
<1>2. [Next]_vars => [HP!Next]_HP!vars
  <2>1. UNCHANGED harnessVars => UNCHANGED HP!vars
    BY DEF harnessVars, HP!vars, HP!bodyVars, HP!outVars
  <2>2. [Next]_vars => Runner!Next \/ UNCHANGED harnessVars
    BY DEF Next, vars, HarnessStep, StoreCase, PatchRun, PipeCloses, StartFails, StopRow,
           RecordStatus, AppCrashes, Recover, Runner!Next
  <2> QED
    BY <2>1, <2>2, SameHarness
<1> QED
  BY <1>1, <1>2, PTL DEF Spec, HP!Spec

LEMMA HarnessKeepsItsWord ==
    Spec => [](HP!StatsMatchResults /\ HP!NoSilentLeak /\ HP!ExitZeroIsClean)
<1>1. HP!Spec => [](HP!StatsMatchResults /\ HP!NoSilentLeak /\ HP!ExitZeroIsClean)
  <2>1. Verdicts \subseteq HP!CaseStatus
    BY RunnerAssumption DEF HP!CaseStatus, Runner!CaseStatus
  <2>2. NumCases \in Nat /\ DataSources \subseteq Resources /\ {"FAIL", "ERROR"} \subseteq Verdicts
    BY RunnerAssumption
  <2>3. HP!Spec => []HP!StatsMatchResults
    BY <2>1, <2>2, HP!StatsHold
  <2>4. HP!Spec => []HP!NoSilentLeak
    BY <2>1, <2>2, HP!NoLeakHolds
  <2>5. HP!Spec => []HP!ExitZeroIsClean
    BY <2>1, <2>2, HP!ExitHolds
  <2> QED
    BY <2>3, <2>4, <2>5, PTL
<1> QED
  BY <1>1, HarnessInside, PTL

\* Only a stop signal ends a run before its last case; the exit code is that of
\* the statistics the last event carries.
EndInv ==
    phase = "done" =>
        /\ Len(results) = NumCases \/ token
        /\ Runner!OverallStatus(stats, results) = "FINISHED" => rc = 0

LEMMA EndInvHolds == Spec => []EndInv
<1>1. Init => EndInv
  BY DEF Init, Runner!Init, EndInv
<1>2. IInv /\ EndInv /\ [Next]_vars => EndInv'
  <2> SUFFICES ASSUME IInv, EndInv, [Next]_vars PROVE EndInv'
    OBVIOUS
  <2>1. CASE Runner!Next
    <3>1. CASE Runner!FinishRun
      BY <3>1 DEF Runner!FinishRun, Runner!ExitCode, Runner!OverallStatus, Runner!bodyVars,
                  EndInv, IInv, HInv, CountInv
    <3>2. CASE phase' # "done"
      BY <3>2 DEF EndInv
    <3>3. CASE Runner!Terminated
      BY <3>3 DEF Runner!Terminated, Runner!vars, Runner!outVars, Runner!OverallStatus, EndInv
    <3>4. phase' # "done" \/ Runner!FinishRun \/ Runner!Terminated
      BY <2>1
         DEF Runner!Next, Runner!StartRun, Runner!NextCase, Runner!BeginCase, Runner!CloseCase, Runner!EndBody,
             Runner!Create, Runner!CreateRaises, Runner!ReleaseEarly, Runner!ReleaseRaises,
             Runner!CleanupNext, Runner!Signal, Runner!SignalInEmit, Runner!Killed,
             Runner!Running
    <3> QED
      BY <3>1, <3>2, <3>3, <3>4
  <2>2. CASE UNCHANGED harnessVars
    BY <2>2 DEF harnessVars, Runner!OverallStatus, EndInv
  <2> QED
    BY <2>1, <2>2
    DEF Next, vars, HarnessStep, StoreCase, PatchRun, PipeCloses, StartFails, StopRow,
        RecordStatus, AppCrashes, Recover, Runner!Next
<1> QED
  BY <1>1, <1>2, InvariantHolds, PTL DEF Spec

\* A row with a status that only run_finished brings is true of the cases
\* themselves, for any selection and verdicts: they have all run unless a signal
\* stopped the run, the counters are the numbers of cases that ended each way, and
\* FINISHED hides no failed case, no failed cleanup and no data source a cleanup
\* left behind.
THEOREM EndedHolds == Spec => []EndedRowTellsCases
<1>1. IInv /\ EndInv /\ HP!StatsMatchResults /\ HP!NoSilentLeak /\ HP!ExitZeroIsClean
        => EndedRowTellsCases
  <2> SUFFICES ASSUME IInv, EndInv, HP!StatsMatchResults, HP!NoSilentLeak, HP!ExitZeroIsClean,
                      row.status \in EndStatus
               PROVE  /\ Len(results) = NumCases \/ token
                      /\ row.total = Len(results)
                      /\ \A v \in Verdicts \ {"CLEANUP_FAILED", "TIMEOUT", "CANCELLED"} :
                            row.n[Runner!CounterOf[v]]
                                = Cardinality({i \in DOMAIN results : results[i].status = v})
                      /\ row.status = "FINISHED" => \A i \in 1 .. Len(results) :
                            results[i].status \notin {"FAIL", "ERROR"} /\ results[i].cleanup = "PASS"
                      /\ row.status = "FINISHED" => env \cap DataSources \subseteq lost
    BY DEF EndedRowTellsCases
  <2>1. /\ phase = "done" /\ row.status = Runner!OverallStatus(stats, results)
        /\ row.total = stats["total"] /\ \A c \in RowCounters : row.n[c] = stats[c]
    BY DEF IInv, RowInv
  <2>2. stats["total"] = Len(results) /\ stats \in [Runner!Counters -> Nat]
    BY DEF IInv, HInv, CountedInv, HarnessTypes
  <2>3. ASSUME NEW v \in Verdicts \ {"CLEANUP_FAILED", "TIMEOUT", "CANCELLED"}
        PROVE  row.n[Runner!CounterOf[v]]
                   = Cardinality({i \in DOMAIN results : results[i].status = v})
    <3>1. v \in Runner!CaseStatus \ {"CANCELLED", "CLEANUP_FAILED", "TIMEOUT"}
      BY RunnerAssumption
    <3>2. Runner!CounterOf[v] \in RowCounters /\ Runner!CounterOf[v] = HP!CounterOf[v]
      BY <3>1 DEF Runner!CaseStatus, Runner!CounterOf, HP!CounterOf, RowCounters, Runner!Counters
    <3>3. stats[HP!CounterOf[v]] = Cardinality(HP!WithVerdict(v))
      <4>1. stats[HP!CounterOf[v]] = HP!Cardinality(HP!WithVerdict(v))
        BY DEF HP!StatsMatchResults
      <4>2. \A S : HP!Cardinality(S) = Cardinality(S)
        BY DEF HP!Cardinality, Cardinality
      <4> QED
        BY <4>1, <4>2
    <3>4. HP!WithVerdict(v) = {i \in DOMAIN results : results[i].status = v}
      BY DEF HP!WithVerdict
    <3>5. row.n[Runner!CounterOf[v]] = stats[Runner!CounterOf[v]]
      BY <2>1, <3>2
    <3> QED
      BY <3>2, <3>3, <3>4, <3>5
  <2>4. ASSUME row.status = "FINISHED", NEW i \in 1 .. Len(results)
        PROVE  results[i].status \notin {"FAIL", "ERROR"} /\ results[i].cleanup = "PASS"
    <3>1. ~(stats["failed"] > 0) /\ ~(stats["errors"] > 0) /\ ~(stats["cleanup_failed"] > 0)
      BY <2>1, <2>4 DEF Runner!OverallStatus
    <3>2. /\ stats["failed"] \in Nat /\ stats["errors"] \in Nat /\ stats["cleanup_failed"] \in Nat
      BY <2>2 DEF Runner!Counters
    <3>3. /\ results[i].status # "CANCELLED" => stats[Runner!CounterOf[results[i].status]] >= 1
          /\ results[i].cleanup = "CLEANUP_FAILED" => stats["cleanup_failed"] >= 1
      BY DEF IInv, HInv, CountedInv
    <3>4. Runner!CounterOf["FAIL"] = "failed" /\ Runner!CounterOf["ERROR"] = "errors"
      BY DEF Runner!CounterOf
    <3>5. results[i] \in Result
      BY ElementOfSeq DEF IInv, HInv, HarnessTypes
    <3> QED
      BY <3>1, <3>2, <3>3, <3>4, <3>5 DEF Result
  <2>5. ASSUME row.status = "FINISHED"
        PROVE  env \cap DataSources \subseteq lost
    <3>1. rc = 0
      BY <2>1, <2>5 DEF EndInv
    <3>2. stuck = {}
      BY <3>1 DEF HP!ExitZeroIsClean
    <3> QED
      BY <2>1, <3>2 DEF HP!NoSilentLeak
  <2> QED
    BY <2>1, <2>2, <2>3, <2>4, <2>5 DEF EndInv
<1> QED
  BY <1>1, InvariantHolds, EndInvHolds, HarnessKeepsItsWord, PTL
=============================================================================
