------------------------ MODULE HarnessRunner_proofs ------------------------
(***************************************************************************)
(* Proofs about HarnessRunner, for any selection, resources and verdicts.   *)
(***************************************************************************)
EXTENDS HarnessRunner, SequenceTheorems, FiniteSetTheorems, TLAPS

(***************************************************************************)
(* Sequences.                                                              *)
(***************************************************************************)
LEMMA FrontFacts ==
    ASSUME NEW S, NEW s \in Seq(S), s # <<>>
    PROVE  /\ Front(s) \in Seq(S)
           /\ Len(Front(s)) = Len(s) - 1
           /\ \A i \in 1..Len(s) - 1 : Front(s)[i] = s[i]
           /\ Len(s) \in 1..Len(s) /\ Last(s) = s[Len(s)] /\ Last(s) \in S
<1>1. PICK n \in Nat : n = Len(s) /\ n >= 1
  BY EmptySeq
<1>2. \A i \in 1..n : s[i] \in S
  BY <1>1, ElementOfSeq
<1> DEFINE f == SubSeq(s, 1, n - 1)
<1>3. f \in Seq(S) /\ Len(f) = n - 1 /\ \A i \in 1..n - 1 : f[i] = s[i]
  BY <1>1, <1>2, SubSeqProperties
<1> HIDE DEF f
<1>4. Front(s) = f /\ Last(s) = s[n]
  BY <1>1 DEF f, Front, Last
<1> QED
  BY <1>1, <1>2, <1>3, <1>4

LEMMA RemoveAtFacts ==
    ASSUME NEW S, NEW s \in Seq(S), NEW i \in 1..Len(s)
    PROVE  /\ RemoveAt(s, i) \in Seq(S)
           /\ Len(RemoveAt(s, i)) = Len(s) - 1
           /\ \A j \in 1..Len(s) - 1 :
                 RemoveAt(s, i)[j] = IF j < i THEN s[j] ELSE s[j + 1]
<1> DEFINE a == SubSeq(s, 1, i - 1)
           b == SubSeq(s, i + 1, Len(s))
<1>1. Len(s) \in Nat /\ \A j \in 1..Len(s) : s[j] \in S
  BY LenProperties, ElementOfSeq
<1>2. a \in Seq(S) /\ Len(a) = i - 1 /\ \A j \in 1..i - 1 : a[j] = s[j]
  BY <1>1, SubSeqProperties
<1>3. b \in Seq(S) /\ Len(b) = Len(s) - i /\ \A j \in 1..Len(s) - i : b[j] = s[i + j]
  BY <1>1, SubSeqProperties
<1> HIDE DEF a, b
<1>4. /\ a \o b \in Seq(S) /\ Len(a \o b) = Len(a) + Len(b)
      /\ \A j \in 1..Len(a) + Len(b) :
            (a \o b)[j] = IF j <= Len(a) THEN a[j] ELSE b[j - Len(a)]
  BY <1>2, <1>3, ConcatProperties
<1>5. \A j \in 1..Len(s) - 1 : (a \o b)[j] = IF j < i THEN s[j] ELSE s[j + 1]
  <2> TAKE j \in 1..Len(s) - 1
  <2>1. CASE j < i
    BY <1>1, <1>2, <1>3, <1>4, <2>1
  <2>2. CASE ~(j < i)
    <3>1. j - (i - 1) \in 1..Len(s) - i /\ i + (j - (i - 1)) = j + 1
      BY <1>1, <2>2
    <3>2. j \in 1..Len(a) + Len(b) /\ ~(j <= Len(a))
      BY <1>1, <1>2, <1>3, <2>2
    <3>3. (a \o b)[j] = b[j - (i - 1)]
      BY <1>2, <1>4, <3>2
    <3> QED
      BY <1>3, <2>2, <3>1, <3>3
  <2> QED
    BY <2>1, <2>2
<1>6. RemoveAt(s, i) = a \o b
  BY DEF a, b, RemoveAt
<1> QED
  BY <1>1, <1>2, <1>3, <1>4, <1>5, <1>6

\* The registry holds an entry once.
Distinct(s) == \A i, j \in 1..Len(s) : s[i] = s[j] => i = j

LEMMA AppendElements ==
    ASSUME NEW S, NEW s \in Seq(S), NEW x \in S
    PROVE  /\ ToSet(Append(s, x)) = ToSet(s) \cup {x}
           /\ Distinct(s) /\ x \notin ToSet(s) => Distinct(Append(s, x))
<1> DEFINE t == Append(s, x)
<1>1. PICK n \in Nat : n = Len(s)
  BY LenProperties
<1>2. Len(t) = n + 1 /\ (\A i \in 1..n : t[i] = s[i]) /\ t[n + 1] = x /\ t \in Seq(S)
  BY <1>1, AppendProperties
<1> HIDE DEF t
<1>3. DOMAIN s = 1..n /\ DOMAIN t = 1..n + 1
  BY <1>1, <1>2, LenProperties
<1>4. ToSet(t) = ToSet(s) \cup {x}
  BY <1>2, <1>3 DEF ToSet
<1>5. ASSUME Distinct(s), x \notin ToSet(s) PROVE Distinct(t)
  <2>1. \A i \in 1..n : s[i] # x
    BY <1>3, <1>5 DEF ToSet
  <2>2. \A i \in 1..n + 1 : i \in 1..n \/ i = n + 1
    BY <1>1
  <2> QED
    BY <1>1, <1>2, <1>5, <2>1, <2>2 DEF Distinct
<1> QED
  BY <1>4, <1>5 DEF t

LEMMA FrontElements ==
    ASSUME NEW S, NEW s \in Seq(S), s # <<>>
    PROVE  /\ ToSet(Front(s)) \subseteq ToSet(s)
           /\ ToSet(s) \subseteq ToSet(Front(s)) \cup {Last(s)}
           /\ Last(s) \in ToSet(s)
           /\ Distinct(s) => Distinct(Front(s)) /\ Last(s) \notin ToSet(Front(s))
<1> DEFINE f == Front(s)
<1>1. PICK n \in Nat : n = Len(s) /\ n >= 1
  BY EmptySeq
<1>2. f \in Seq(S) /\ Len(f) = n - 1 /\ (\A i \in 1..n - 1 : f[i] = s[i]) /\ Last(s) = s[n]
  BY <1>1, FrontFacts
<1>3. DOMAIN s = 1..n /\ DOMAIN f = 1..n - 1
  BY <1>1, <1>2, LenProperties
<1>4. \A i \in 1..n : i \in 1..n - 1 \/ i = n
  BY <1>1
<1> HIDE DEF f
<1>5. ToSet(f) \subseteq ToSet(s) /\ ToSet(s) \subseteq ToSet(f) \cup {Last(s)} /\ Last(s) \in ToSet(s)
  <2>1. ToSet(f) \subseteq ToSet(s)
    <3>1. \A i \in 1..n - 1 : i \in 1..n
      BY <1>1
    <3> QED
      BY <1>2, <1>3, <3>1 DEF ToSet
  <2>2. ToSet(s) \subseteq ToSet(f) \cup {Last(s)}
    BY <1>2, <1>3, <1>4 DEF ToSet
  <2>3. Last(s) \in ToSet(s)
    BY <1>1, <1>2, <1>3 DEF ToSet
  <2> QED
    BY <2>1, <2>2, <2>3
<1>6. Distinct(s) => Distinct(f) /\ Last(s) \notin ToSet(f)
  BY <1>1, <1>2, <1>3 DEF Distinct, ToSet
<1> QED
  BY <1>5, <1>6 DEF f

LEMMA RemoveAtElements ==
    ASSUME NEW S, NEW s \in Seq(S), NEW i \in 1..Len(s)
    PROVE  /\ ToSet(RemoveAt(s, i)) \subseteq ToSet(s)
           /\ ToSet(s) \subseteq ToSet(RemoveAt(s, i)) \cup {s[i]}
           /\ Distinct(s) => Distinct(RemoveAt(s, i)) /\ s[i] \notin ToSet(RemoveAt(s, i))
<1> DEFINE t == RemoveAt(s, i)
           at(j) == IF j < i THEN j ELSE j + 1
<1>1. PICK n \in Nat : n = Len(s)
  BY LenProperties
<1>2. /\ t \in Seq(S) /\ Len(t) = n - 1
      /\ \A j \in 1..n - 1 : t[j] = IF j < i THEN s[j] ELSE s[j + 1]
  BY <1>1, RemoveAtFacts
<1>3. DOMAIN s = 1..n /\ DOMAIN t = 1..n - 1
  BY <1>1, <1>2, LenProperties
<1> HIDE DEF t
<1>4. \A j \in 1..n - 1 : at(j) \in 1..n /\ at(j) # i /\ t[j] = s[at(j)]
  BY <1>1, <1>2
<1>5. \A j, k \in 1..n - 1 : at(j) = at(k) => j = k
  BY <1>1
<1>6. \A k \in 1..n : k # i => \E j \in 1..n - 1 : at(j) = k
  <2> SUFFICES ASSUME NEW k \in 1..n, k # i PROVE \E j \in 1..n - 1 : at(j) = k
    OBVIOUS
  <2>1. CASE k < i
    <3>1. k \in 1..n - 1 /\ at(k) = k
      BY <1>1, <2>1
    <3> QED
      BY <3>1
  <2>2. CASE k > i
    <3>1. k - 1 \in 1..n - 1 /\ at(k - 1) = k
      BY <1>1, <2>2
    <3> QED
      BY <3>1
  <2> QED
    BY <1>1, <2>1, <2>2
<1> HIDE DEF at
<1>7. ToSet(t) \subseteq ToSet(s)
  BY <1>3, <1>4 DEF ToSet
<1>8. ToSet(s) \subseteq ToSet(t) \cup {s[i]}
  <2> SUFFICES ASSUME NEW k \in 1..n, k # i PROVE s[k] \in ToSet(t)
    BY <1>3 DEF ToSet
  <2>1. PICK j \in 1..n - 1 : at(j) = k
    BY <1>6
  <2>2. t[j] = s[k]
    BY <1>4, <2>1
  <2> QED
    BY <1>3, <2>2 DEF ToSet
<1>9. ASSUME Distinct(s) PROVE Distinct(t) /\ s[i] \notin ToSet(t)
  <2>1. \A j, k \in 1..n : s[j] = s[k] => j = k
    BY <1>1, <1>9 DEF Distinct
  <2>2. \A j, k \in 1..n - 1 : t[j] = t[k] => j = k
    BY <1>4, <1>5, <2>1
  <2>3. i \in 1..n /\ \A j \in 1..n - 1 : t[j] # s[i]
    BY <1>1, <1>4, <2>1
  <2> QED
    BY <1>2, <1>3, <2>2, <2>3 DEF Distinct, ToSet
<1> QED
  BY <1>7, <1>8, <1>9 DEF t

(***************************************************************************)
(* The statistics only grow, and a verdict that fails a run is counted.     *)
(***************************************************************************)
LEMMA AddFacts ==
    ASSUME NEW s \in [Counters -> Nat], NEW v \in Verdicts, NEW b \in BOOLEAN
    PROVE  /\ Add(s, v, b) \in [Counters -> Nat]
           /\ \A c \in Counters : Add(s, v, b)[c] >= s[c]
           /\ v = "FAIL" => Add(s, v, b)["failed"] > 0
           /\ v = "ERROR" => Add(s, v, b)["errors"] > 0
           /\ b => Add(s, v, b)["cleanup_failed"] > 0
<1> DEFINE own(c)   == IF c = "total" \/ c = CounterOf[v] THEN 1 ELSE 0
           extra(c) == IF c = "cleanup_failed" /\ b THEN 1 ELSE 0
<1>1. \A c : own(c) \in {0, 1} /\ extra(c) \in {0, 1}
  OBVIOUS
<1>2. /\ v = "FAIL" => own("failed") = 1
      /\ v = "ERROR" => own("errors") = 1
      /\ b => extra("cleanup_failed") = 1
  BY DEF CounterOf
<1>3. Add(s, v, b) = [c \in Counters |-> s[c] + own(c) + extra(c)]
  BY DEF Add
<1> HIDE DEF own, extra
<1>4. \A c \in Counters : Add(s, v, b)[c] = s[c] + own(c) + extra(c) /\ s[c] \in Nat
  BY <1>3
<1>5. Add(s, v, b) \in [Counters -> Nat]
  BY <1>1, <1>3
<1>6. {"failed", "errors", "cleanup_failed"} \subseteq Counters
  BY DEF Counters
<1> QED
  BY <1>1, <1>2, <1>4, <1>5, <1>6

(***************************************************************************)
(* The inductive invariant.                                                *)
(***************************************************************************)
Result == [status : Verdicts, cleanup : {"PASS", "CLEANUP_FAILED"}]

\* Outside a case the registry is empty; it never holds an entry twice.
StackInv ==
    /\ Distinct(stack)
    /\ phase \in {"start", "loop", "begin", "done"} => stack = <<>>
\* A data source that exists is registered, or was lost, or its cleanup raised.
LeakInv == env \cap DataSources \subseteq lost \cup stuck \cup Registered
\* A case has its result when it is over.
CountInv ==
    /\ phase \in {"start", "loop", "begin", "done"} => Len(results) = cur
    /\ phase \in {"body", "cleanup"} => Len(results) + 1 = cur
    /\ phase \in {"hung", "killed"} => Len(results) <= cur
    /\ phase = "begin" => cur < NumCases
\* Once the token is set, the case that may still begin is the chosen one.
SigInv == token => cur + (IF phase = "begin" THEN 1 ELSE 0) <= chosen
\* What must keep the exit code from being 0 is in the statistics, or is about
\* to be.
ErrInv ==
    \A i \in DOMAIN results :
        /\ results[i].status = "FAIL" => stats["failed"] > 0
        /\ results[i].status = "ERROR" => stats["errors"] > 0
StuckInv ==
    stuck # {} => \/ stats["cleanup_failed"] > 0
                  \/ dirty /\ phase \in {"cleanup", "hung", "killed"}
RcInv == rc = 0 => phase = "done" /\ OverallStatus(stats, results) = "FINISHED"

IInv == TypeOK /\ StackInv /\ LeakInv /\ ErrInv /\ StuckInv /\ RcInv /\ CountInv /\ SigInv

LEMMA InitHolds == Init => IInv
<1> SUFFICES ASSUME Init PROVE IInv
  OBVIOUS
<1>1. stack \in Seq(Resources) /\ Len(stack) = 0 /\ results \in Seq(Result) /\ Len(results) = 0
      /\ DOMAIN results = {}
  BY DEF Init
<1>2. TypeOK
  <2>1. cur \in 0 .. NumCases /\ chosen \in 0 .. NumCases
    BY NumCasesAssumption DEF Init
  <2>2. stats \in [Counters -> Nat]
    BY DEF Init, ZeroStats
  <2>3. verdict \in Verdicts
    BY ErrorsAssumption DEF Init
  <2> QED
    BY <1>1, <2>1, <2>2, <2>3 DEF Init, TypeOK, Result
<1>3. StackInv /\ LeakInv
  BY <1>1 DEF Init, StackInv, LeakInv, Distinct
<1>4. ErrInv /\ StuckInv /\ RcInv /\ CountInv /\ SigInv
  BY <1>1 DEF Init, ErrInv, StuckInv, RcInv, CountInv, SigInv
<1> QED
  BY <1>2, <1>3, <1>4 DEF IInv

\* Steps that leave registry, hub and statistics alone.
LEMMA OutsideHolds ==
    ASSUME IInv,
           \/ StartRun
           \/ NextCase
           \/ BeginCase
           \/ FinishRun
           \/ \E v \in Verdicts : EndBody(v)
           \/ Signal \/ SignalInEmit \/ Killed
           \/ UNCHANGED vars
    PROVE  IInv'
<1>1. CASE StartRun
  BY <1>1 DEF StartRun, IInv, TypeOK, StackInv, LeakInv, CountInv, ErrInv, StuckInv, RcInv, SigInv,
              bodyVars, Registered
<1>2. CASE BeginCase
  <2>1. /\ phase = "begin" /\ phase' = "body" /\ cur < NumCases /\ cur' = cur + 1
        /\ stack' = <<>> /\ dirty' = FALSE
        /\ UNCHANGED <<signalled, token, chosen, env, lost, stuck, verdict, stats, results, rc>>
    BY <1>2 DEF BeginCase, IInv, CountInv
  <2>2. PICK n \in Nat : n = cur /\ n <= NumCases
    BY NumCasesAssumption DEF IInv, TypeOK
  <2>3. cur' \in 0 .. NumCases /\ Len(results) = n /\ n + 1 = cur'
    BY <2>1, <2>2, NumCasesAssumption DEF IInv, CountInv
  <2>4. stack' \in Seq(Resources) /\ Len(stack') = 0 /\ ToSet(stack') = ToSet(stack)
    <3>1. stack = <<>>
      BY <2>1 DEF IInv, StackInv
    <3> QED
      BY <2>1, <3>1
  <2>5. TypeOK'
    BY <2>1, <2>3, <2>4 DEF IInv, TypeOK
  <2>6. StackInv' /\ LeakInv'
    BY <2>1, <2>4 DEF IInv, StackInv, LeakInv, Registered, Distinct
  <2>7. ErrInv' /\ StuckInv' /\ RcInv'
    BY <2>1 DEF IInv, ErrInv, StuckInv, RcInv
  <2>8. CountInv'
    BY <2>1, <2>2, <2>3 DEF CountInv
  <2>9. SigInv'
    BY <2>1, <2>2 DEF IInv, SigInv
  <2> QED
    BY <2>5, <2>6, <2>7, <2>8, <2>9 DEF IInv
<1>3. CASE FinishRun
  <2>1. rc' \in {0, 1, 130} /\ (rc' = 0 => OverallStatus(stats, results) = "FINISHED")
    <3>1. rc' = ExitCode(OverallStatus(stats, results))
      BY <1>3 DEF FinishRun
    <3>2. OverallStatus(stats, results) \in {"FAIL", "CLEANUP_FAILED", "CANCELLED", "FINISHED"}
      BY DEF OverallStatus
    <3> QED
      BY <3>1, <3>2 DEF ExitCode
  <2>2. UNCHANGED <<cur, signalled, token, chosen, bodyVars, stats, results>> /\ phase = "loop" /\ phase' = "done"
    BY <1>3 DEF FinishRun
  <2> QED
    BY <2>1, <2>2 DEF IInv, TypeOK, StackInv, LeakInv, CountInv, ErrInv, StuckInv, RcInv,
                      SigInv, bodyVars, Registered, OverallStatus
<1>4. CASE \E v \in Verdicts : EndBody(v)
  BY <1>4 DEF EndBody, IInv, TypeOK, StackInv, LeakInv, CountInv, ErrInv, StuckInv, RcInv, SigInv,
              outVars, Registered
<1>5. CASE Signal
  BY <1>5, NumCasesAssumption DEF Signal, IInv, TypeOK, StackInv, LeakInv, CountInv, ErrInv, StuckInv, RcInv, SigInv,
              bodyVars, outVars, Registered
<1>6. CASE SignalInEmit
  BY <1>6 DEF SignalInEmit, Running, IInv, TypeOK, StackInv, LeakInv, CountInv, ErrInv, StuckInv,
              RcInv, SigInv, bodyVars, outVars, Registered
<1>7. CASE Killed
  BY <1>7 DEF Killed, Running, IInv, TypeOK, StackInv, LeakInv, CountInv, ErrInv, StuckInv,
              RcInv, SigInv, bodyVars, outVars, Registered
<1>8. CASE UNCHANGED vars
  BY <1>8 DEF vars, IInv, TypeOK, StackInv, LeakInv, CountInv, ErrInv, StuckInv, RcInv, SigInv,
              bodyVars, outVars, Registered
<1>9. CASE NextCase
  BY <1>9 DEF NextCase, IInv, TypeOK, StackInv, LeakInv, CountInv, ErrInv, StuckInv, RcInv, SigInv,
              bodyVars, outVars, Registered
<1> QED
  BY <1>1, <1>2, <1>3, <1>4, <1>5, <1>6, <1>7, <1>8, <1>9

\* What a case does with its resources, and their cleanup: the output stands
\* still, and the registry and the hub change together.
LEMMA BodyHolds ==
    ASSUME IInv,
           \/ \E x \in Resources :
                 Create(x) \/ CreateRaises(x) \/ ReleaseEarly(x) \/ ReleaseRaises(x)
           \/ CleanupNext
    PROVE  IInv'
<1>1. CASE \E x \in Resources : Create(x)
  <2> PICK x \in Resources : Create(x)
    BY <1>1
  <2>1. /\ phase = "body" /\ x \notin Registered
        /\ env' = env \cup {x} /\ stack' = Append(stack, x)
        /\ UNCHANGED <<phase, cur, signalled, token, chosen, lost, stuck, verdict, dirty, stats, results, rc>>
    BY DEF Create, outVars
  <2>2. stack \in Seq(Resources) /\ Distinct(stack)
    BY DEF IInv, TypeOK, StackInv
  <2>3. stack' \in Seq(Resources)
    BY <2>1, <2>2, AppendProperties
  <2>4. Registered' = Registered \cup {x} /\ Distinct(stack')
    BY <2>1, <2>2, AppendElements DEF Registered
  <2>5. TypeOK'
    BY <2>1, <2>3 DEF IInv, TypeOK
  <2>6. StackInv' /\ LeakInv'
    BY <2>1, <2>4 DEF IInv, StackInv, LeakInv
  <2>7. ErrInv' /\ StuckInv' /\ RcInv' /\ CountInv' /\ SigInv'
    BY <2>1 DEF IInv, ErrInv, StuckInv, RcInv, CountInv, SigInv
  <2> QED
    BY <2>5, <2>6, <2>7 DEF IInv
<1>2. CASE \E x \in Resources : CreateRaises(x)
  <2> PICK x \in Resources : CreateRaises(x)
    BY <1>2
  <2>1. /\ phase = "body" /\ phase' = "cleanup"
        /\ UNCHANGED <<cur, signalled, token, chosen, stack, stuck, dirty, stats, results, rc>>
    BY DEF CreateRaises, outVars
  <2>2. verdict' \in Verdicts
    BY ErrorsAssumption DEF CreateRaises
  <2>3. PICK done \in SUBSET {x} : env' = env \cup done /\ lost' = lost \cup done
    BY DEF CreateRaises
  <2>4. TypeOK'
    BY <2>1, <2>2, <2>3 DEF IInv, TypeOK
  <2>5. StackInv' /\ LeakInv'
    BY <2>1, <2>3 DEF IInv, StackInv, LeakInv, Registered
  <2>6. ErrInv' /\ StuckInv' /\ RcInv' /\ CountInv' /\ SigInv'
    BY <2>1 DEF IInv, ErrInv, StuckInv, RcInv, CountInv, SigInv
  <2> QED
    BY <2>4, <2>5, <2>6 DEF IInv
<1>3. CASE \E x \in Resources : ReleaseEarly(x)
  <2> PICK x \in Resources : ReleaseEarly(x)
    BY <1>3
  <2>1. /\ phase = "body"
        /\ UNCHANGED <<phase, cur, signalled, token, chosen, stuck, verdict, dirty, stats, results, rc>>
    BY DEF ReleaseEarly, outVars
  <2>2. stack \in Seq(Resources) /\ Distinct(stack)
    BY DEF IInv, TypeOK, StackInv
  <2>3. PICK i \in 1..Len(stack) : stack[i] = x /\ stack' = RemoveAt(stack, i)
    <3>1. DOMAIN stack = 1..Len(stack)
      BY <2>2, LenProperties
    <3> QED
      BY <3>1 DEF ReleaseEarly
  <2>4. stack' \in Seq(Resources)
    BY <2>2, <2>3, RemoveAtFacts
  <2>5. Registered \subseteq Registered' \cup {x} /\ Distinct(stack')
    BY <2>2, <2>3, RemoveAtElements DEF Registered
  <2>6. \/ env' = env \ {x} /\ lost' = lost
        \/ env' = env /\ lost' = lost \cup {x}
    BY DEF ReleaseEarly
  <2>7. TypeOK'
    BY <2>1, <2>4, <2>6 DEF IInv, TypeOK
  <2>8. StackInv' /\ LeakInv'
    BY <2>1, <2>5, <2>6 DEF IInv, StackInv, LeakInv
  <2>9. ErrInv' /\ StuckInv' /\ RcInv' /\ CountInv' /\ SigInv'
    BY <2>1 DEF IInv, ErrInv, StuckInv, RcInv, CountInv, SigInv
  <2> QED
    BY <2>7, <2>8, <2>9 DEF IInv
<1>4. CASE \E x \in Resources : ReleaseRaises(x)
  <2> PICK x \in Resources : ReleaseRaises(x)
    BY <1>4
  <2>1. /\ env' \subseteq env
        /\ UNCHANGED <<phase, cur, signalled, token, chosen, stack, lost, stuck, verdict, dirty, stats,
                       results, rc>>
    BY DEF ReleaseRaises, outVars
  <2> QED
    BY <2>1 DEF IInv, TypeOK, StackInv, LeakInv, CountInv, ErrInv, StuckInv, RcInv, SigInv, Registered
<1>5. CASE CleanupNext
  <2>1. /\ phase = "cleanup" /\ stack # <<>> /\ stack' = Front(stack)
        /\ UNCHANGED <<phase, cur, signalled, token, chosen, lost, verdict, stats, results, rc>>
    BY <1>5 DEF CleanupNext, outVars
  <2>2. stack \in Seq(Resources) /\ Distinct(stack)
    BY DEF IInv, TypeOK, StackInv
  <2>3. stack' \in Seq(Resources) /\ Last(stack) \in Resources
    BY <2>1, <2>2, FrontFacts
  <2>4. Registered \subseteq Registered' \cup {Last(stack)} /\ Distinct(stack')
    BY <2>1, <2>2, FrontElements DEF Registered
  <2>5. \/ /\ env' \subseteq env
           /\ Last(stack) \in DataSources => Last(stack) \notin env'
           /\ dirty' = dirty /\ stuck' = stuck
        \/ /\ env' \subseteq env
           /\ dirty' = TRUE /\ stuck' = stuck \cup {Last(stack)}
    BY <1>5 DEF CleanupNext, AfterCleanup
  <2>6. TypeOK'
    BY <2>1, <2>3, <2>5 DEF IInv, TypeOK
  <2>7. StackInv' /\ LeakInv'
    BY <2>1, <2>4, <2>5 DEF IInv, StackInv, LeakInv
  <2>8. ErrInv' /\ StuckInv' /\ RcInv' /\ CountInv' /\ SigInv'
    BY <2>1, <2>5 DEF IInv, ErrInv, StuckInv, RcInv, CountInv, SigInv
  <2> QED
    BY <2>6, <2>7, <2>8 DEF IInv
<1> QED
  BY <1>1, <1>2, <1>3, <1>4, <1>5

\* A closed case is counted for what its verdict and its cleanup were.
LEMMA CloseHolds == ASSUME IInv, CloseCase PROVE IInv'
<1> DEFINE r == [status |-> verdict, cleanup |-> IF dirty THEN "CLEANUP_FAILED" ELSE "PASS"]
<1>1. /\ phase = "cleanup" /\ stack = <<>> /\ phase' = "loop"
      /\ stats' = Add(stats, verdict, dirty)
      /\ results' = Append(results, r)
      /\ UNCHANGED <<cur, signalled, token, chosen, stack, env, lost, stuck, verdict, dirty, rc>>
  BY DEF CloseCase, bodyVars
<1>2. /\ stats \in [Counters -> Nat] /\ verdict \in Verdicts /\ dirty \in BOOLEAN
      /\ results \in Seq(Result)
  BY DEF IInv, TypeOK, Result
<1>3. r \in Result /\ r.status = verdict
  BY <1>2 DEF Result
<1> HIDE DEF r
<1>4. PICK n \in Nat : n = Len(results)
  BY <1>2, LenProperties
<1>5. /\ results' \in Seq(Result) /\ Len(results') = n + 1
      /\ \A i \in 1..n : results'[i] = results[i]
      /\ results'[n + 1] = r
      /\ DOMAIN results = 1..n /\ DOMAIN results' = 1..n + 1
  <2>1. results' \in Seq(Result)
    BY <1>1, <1>2, <1>3, AppendProperties
  <2> QED
    BY <2>1, <1>1, <1>2, <1>3, <1>4, AppendProperties, LenProperties
<1>6. /\ stats' \in [Counters -> Nat]
      /\ \A c \in Counters : stats'[c] >= stats[c]
      /\ verdict = "FAIL" => stats'["failed"] > 0
      /\ verdict = "ERROR" => stats'["errors"] > 0
      /\ dirty => stats'["cleanup_failed"] > 0
  BY <1>1, <1>2, AddFacts
<1>7. \A c \in {"failed", "errors", "cleanup_failed"} : stats[c] > 0 => stats'[c] > 0
  <2> SUFFICES ASSUME NEW c \in {"failed", "errors", "cleanup_failed"}, stats[c] > 0
               PROVE  stats'[c] > 0
    OBVIOUS
  <2>1. c \in Counters
    BY DEF Counters
  <2>2. stats[c] \in Nat /\ stats'[c] \in Nat /\ stats'[c] >= stats[c]
    BY <1>2, <1>6, <2>1
  <2> QED
    BY <2>2
<1>8. TypeOK'
  BY <1>1, <1>5, <1>6 DEF IInv, TypeOK, Result
<1>9. StackInv' /\ LeakInv'
  BY <1>1 DEF IInv, StackInv, LeakInv, Registered
<1>10. ErrInv'
  <2> SUFFICES ASSUME NEW i \in 1..n + 1
               PROVE  /\ results'[i].status = "FAIL" => stats'["failed"] > 0
                      /\ results'[i].status = "ERROR" => stats'["errors"] > 0
    BY <1>5 DEF ErrInv
  <2>1. CASE i \in 1..n
    <3>1. /\ results'[i].status = "FAIL" => stats["failed"] > 0
          /\ results'[i].status = "ERROR" => stats["errors"] > 0
      BY <1>5, <2>1 DEF IInv, ErrInv
    <3> QED
      BY <3>1, <1>7
  <2>2. CASE i = n + 1
    BY <1>3, <1>5, <1>6, <2>2
  <2> QED
    BY <1>4, <2>1, <2>2
<1>11. StuckInv'
  BY <1>1, <1>2, <1>6, <1>7 DEF IInv, StuckInv
<1>12. RcInv'
  BY <1>1 DEF IInv, RcInv
<1>13. CountInv'
  <2>1. n + 1 = cur
    BY <1>1, <1>4 DEF IInv, CountInv
  <2> QED
    BY <1>1, <1>5, <2>1 DEF CountInv
<1>14. SigInv'
  BY <1>1 DEF IInv, SigInv
<1> QED
  BY <1>8, <1>9, <1>10, <1>11, <1>12, <1>13, <1>14 DEF IInv

LEMMA StepHolds == IInv /\ [Next]_vars => IInv'
<1> SUFFICES ASSUME IInv, [Next]_vars PROVE IInv'
  OBVIOUS
<1>1. CASE StartRun \/ NextCase \/ BeginCase \/ FinishRun \/ (\E v \in Verdicts : EndBody(v))
           \/ Signal \/ SignalInEmit \/ Killed \/ UNCHANGED vars
  BY <1>1, OutsideHolds
<1>2. CASE \/ \E x \in Resources :
                 Create(x) \/ CreateRaises(x) \/ ReleaseEarly(x) \/ ReleaseRaises(x)
           \/ CleanupNext
  BY <1>2, BodyHolds
<1>3. CASE CloseCase
  BY <1>3, CloseHolds
<1>4. CASE Terminated
  BY <1>4, OutsideHolds DEF Terminated
<1> QED
  BY <1>1, <1>2, <1>3, <1>4 DEF Next

LEMMA InvariantHolds == Spec => []IInv
<1> QED
  BY InitHolds, StepHolds, PTL DEF Spec

(***************************************************************************)
(* The theorems.                                                           *)
(***************************************************************************)

\* Every variable of the runner keeps its type: the results are results, and
\* the registry holds resources.
THEOREM TypeCorrect == Spec => []TypeOK
<1>1. IInv => TypeOK
  BY DEF IInv
<1> QED
  BY <1>1, InvariantHolds, PTL

\* However the cases create, lose and release data sources, and whatever the
\* hub does with requests whose answer is lost, none is left behind between two
\* cases unnoticed: _run_one has emptied the registry, and each entry left it by
\* a cleanup that saw the data source gone, that raised, or in the case's hands.
THEOREM NoLeakHolds == Spec => []NoSilentLeak
<1>1. IInv => NoSilentLeak
  <2> SUFFICES ASSUME IInv, phase \in {"loop", "done"}
               PROVE  env \cap DataSources \subseteq lost \cup stuck
    BY DEF NoSilentLeak
  <2>1. stack = <<>>
    BY DEF IInv, StackInv
  <2>2. Registered = {}
    BY <2>1 DEF Registered, ToSet
  <2> QED
    BY <2>2 DEF IInv, LeakInv
<1> QED
  BY <1>1, InvariantHolds, PTL

\* Exit code 0 hides nothing, however many cases the selection has: what fails
\* is counted, the counters only grow, and _overall_status looks at all three.
THEOREM ExitHolds == Spec => []ExitZeroIsClean
<1>1. IInv => ExitZeroIsClean
  <2> SUFFICES ASSUME IInv, rc = 0
               PROVE  /\ stuck = {}
                      /\ \A i \in DOMAIN results : results[i].status \notin {"FAIL", "ERROR"}
    BY DEF ExitZeroIsClean
  <2>1. /\ phase = "done"
        /\ ~(stats["failed"] > 0) /\ ~(stats["errors"] > 0) /\ ~(stats["cleanup_failed"] > 0)
    BY DEF IInv, RcInv, OverallStatus
  <2> QED
    BY <2>1 DEF IInv, StuckInv, ErrInv
<1> QED
  BY <1>1, InvariantHolds, PTL

\* Once the handler of a signal has set the token, the loop chooses no further
\* case: only one it had looked at the token for just before can still begin.
THEOREM SignalHolds == Spec => []OnlyChosenCaseBegins
<1>1. IInv => OnlyChosenCaseBegins
  <2>1. IInv => cur \in Nat /\ chosen \in Nat
    BY NumCasesAssumption DEF IInv, TypeOK
  <2> QED
    BY <2>1 DEF IInv, SigInv, OnlyChosenCaseBegins
<1> QED
  BY <1>1, InvariantHolds, PTL

(***************************************************************************)
(* The statistics are those of the results.                                *)
(***************************************************************************)

\* The counters tell the verdicts apart: none is shared by two of them, none is
\* the total, and only CLEANUP_FAILED has the counter of failed cleanups.
LEMMA CounterFacts ==
    /\ \A v \in Verdicts : CounterOf[v] # "total"
    /\ \A v \in Verdicts \ {"CANCELLED"} : CounterOf[v] \in Counters
    /\ \A v \in Verdicts : CounterOf[v] = "cleanup_failed" <=> v = "CLEANUP_FAILED"
    /\ \A v, w \in Verdicts : CounterOf[v] = CounterOf[w] => v = w
    /\ {"total", "cleanup_failed"} \subseteq Counters
<1> DEFINE Counted == CaseStatus
<1>1. Verdicts \subseteq Counted
  BY VerdictsAssumption
<1>2. \A v \in Counted : /\ CounterOf[v] # "total"
                         /\ v # "CANCELLED" => CounterOf[v] \in Counters
  BY DEF CaseStatus, CounterOf, Counters
<1>3. \A v \in Counted : CounterOf[v] = "cleanup_failed" <=> v = "CLEANUP_FAILED"
  BY DEF CaseStatus, CounterOf
<1>4. \A v, w \in Counted : CounterOf[v] = CounterOf[w] => v = w
  BY DEF CaseStatus, CounterOf
<1> HIDE DEF Counted
<1> QED
  BY <1>1, <1>2, <1>3, <1>4 DEF Counters

\* What a closed case adds to each counter.
LEMMA AddSum ==
    ASSUME NEW s \in [Counters -> Nat], NEW v \in Verdicts, NEW b \in BOOLEAN
    PROVE  /\ Add(s, v, b)["total"] = s["total"] + 1
           /\ \A w \in Verdicts \ {"CLEANUP_FAILED", "CANCELLED"} :
                 Add(s, v, b)[CounterOf[w]] = s[CounterOf[w]] + (IF v = w THEN 1 ELSE 0)
           /\ Add(s, v, b)["cleanup_failed"]
                 = s["cleanup_failed"] + (IF b THEN 1 ELSE 0)
                   + (IF v = "CLEANUP_FAILED" THEN 1 ELSE 0)
<1> DEFINE own(c)   == IF c = "total" \/ c = CounterOf[v] THEN 1 ELSE 0
           extra(c) == IF c = "cleanup_failed" /\ b THEN 1 ELSE 0
<1>1. Add(s, v, b) = [c \in Counters |-> s[c] + own(c) + extra(c)]
  BY DEF Add
<1>2. own("total") = 1 /\ extra("total") = 0
  OBVIOUS
<1>3. /\ own("cleanup_failed") = IF v = "CLEANUP_FAILED" THEN 1 ELSE 0
      /\ extra("cleanup_failed") = IF b THEN 1 ELSE 0
  BY CounterFacts
<1>4. ASSUME NEW w \in Verdicts \ {"CLEANUP_FAILED", "CANCELLED"}
      PROVE  own(CounterOf[w]) = (IF v = w THEN 1 ELSE 0) /\ extra(CounterOf[w]) = 0
  <2>1. CounterOf[w] # "total" /\ CounterOf[w] # "cleanup_failed"
        /\ (CounterOf[w] = CounterOf[v] <=> v = w)
    BY CounterFacts
  <2> QED
    BY <2>1
<1> HIDE DEF own, extra
<1>5. \A c \in Counters : Add(s, v, b)[c] = s[c] + own(c) + extra(c) /\ s[c] \in Nat
  BY <1>1
<1>6. Add(s, v, b)["total"] = s["total"] + 1
  BY <1>2, <1>5, CounterFacts
<1>7. ASSUME NEW w \in Verdicts \ {"CLEANUP_FAILED", "CANCELLED"}
      PROVE  Add(s, v, b)[CounterOf[w]] = s[CounterOf[w]] + (IF v = w THEN 1 ELSE 0)
  <2>1. CounterOf[w] \in Counters
    BY CounterFacts
  <2>2. /\ Add(s, v, b)[CounterOf[w]] = s[CounterOf[w]] + own(CounterOf[w]) + extra(CounterOf[w])
        /\ s[CounterOf[w]] \in Nat
    BY <1>5, <2>1
  <2> QED
    BY <1>4, <2>2
<1>8. Add(s, v, b)["cleanup_failed"]
        = s["cleanup_failed"] + (IF b THEN 1 ELSE 0) + (IF v = "CLEANUP_FAILED" THEN 1 ELSE 0)
  BY <1>3, <1>5, CounterFacts
<1> QED
  BY <1>6, <1>7, <1>8

\* A set of positions of a sequence, counted when the sequence is one longer.
LEMMA CountOneMore ==
    ASSUME NEW n \in Nat, NEW A, A \subseteq 1..n, NEW B, NEW q \in BOOLEAN,
           B = (IF q THEN A \cup {n + 1} ELSE A)
    PROVE  /\ Cardinality(A) \in Nat
           /\ Cardinality(B) = Cardinality(A) + (IF q THEN 1 ELSE 0)
<1>1. IsFiniteSet(1..n)
  BY FS_Interval
<1>2. IsFiniteSet(A) /\ Cardinality(A) \in Nat
  BY <1>1, FS_Subset, FS_CardinalityType
<1>3. n + 1 \notin A
  OBVIOUS
<1>4. Cardinality(A \cup {n + 1}) = IF n + 1 \in A THEN Cardinality(A) ELSE Cardinality(A) + 1
  BY <1>2, FS_AddElement
<1>5. Cardinality(A \cup {n + 1}) = Cardinality(A) + 1
  BY <1>3, <1>4
<1> QED
  BY <1>2, <1>5

LEMMA StatsStep ==
    ASSUME IInv, StatsMatchResults, [Next]_vars
    PROVE  StatsMatchResults'
<1>1. CASE UNCHANGED <<stats, results>>
  BY <1>1 DEF StatsMatchResults, WithVerdict, Uncleaned
<1>2. CASE CloseCase
  <2> DEFINE r == [status |-> verdict, cleanup |-> IF dirty THEN "CLEANUP_FAILED" ELSE "PASS"]
  <2>1. stats' = Add(stats, verdict, dirty) /\ results' = Append(results, r)
    BY <1>2 DEF CloseCase
  <2>2. /\ stats \in [Counters -> Nat] /\ verdict \in Verdicts /\ dirty \in BOOLEAN
        /\ results \in Seq(Result)
    BY DEF IInv, TypeOK, Result
  <2>3. r.status = verdict /\ (r.cleanup = "CLEANUP_FAILED" <=> dirty) /\ r \in Result
    BY <2>2 DEF Result
  <2> HIDE DEF r
  <2>4. PICK n \in Nat : n = Len(results)
    BY <2>2, LenProperties
  <2>5. /\ Len(results') = n + 1
        /\ \A i \in 1..n : results'[i] = results[i]
        /\ results'[n + 1] = r
        /\ DOMAIN results = 1..n /\ DOMAIN results' = 1..n + 1
    <3>1. results' \in Seq(Result)
      BY <2>1, <2>2, <2>3, AppendProperties
    <3> QED
      BY <3>1, <2>1, <2>2, <2>3, <2>4, AppendProperties, LenProperties
  <2>6. \A i : i \in 1..n + 1 <=> i \in 1..n \/ i = n + 1
    BY <2>4
  <2>7. ASSUME NEW v
        PROVE  /\ Cardinality(WithVerdict(v)) \in Nat
               /\ Cardinality(WithVerdict(v)')
                    = Cardinality(WithVerdict(v)) + (IF verdict = v THEN 1 ELSE 0)
    <3>1. WithVerdict(v) \subseteq 1..n
      BY <2>5 DEF WithVerdict
    <3>2. WithVerdict(v)' = IF verdict = v THEN WithVerdict(v) \cup {n + 1} ELSE WithVerdict(v)
      BY <2>3, <2>5, <2>6 DEF WithVerdict
    <3> DEFINE A == WithVerdict(v)
               B == WithVerdict(v)'
               q == (verdict = v)
    <3>3. A \subseteq 1..n /\ B = (IF q THEN A \cup {n + 1} ELSE A) /\ q \in BOOLEAN
      BY <3>1, <3>2
    <3> HIDE DEF A, B, q
    <3>4. /\ Cardinality(A) \in Nat
          /\ Cardinality(B) = Cardinality(A) + (IF q THEN 1 ELSE 0)
      BY <2>4, <3>3, CountOneMore
    <3> QED
      BY <3>4 DEF A, B, q
  <2>8. /\ Cardinality(Uncleaned) \in Nat
        /\ Cardinality(Uncleaned') = Cardinality(Uncleaned) + (IF dirty THEN 1 ELSE 0)
    <3>1. Uncleaned \subseteq 1..n
      BY <2>5 DEF Uncleaned
    <3>2. Uncleaned' = IF dirty THEN Uncleaned \cup {n + 1} ELSE Uncleaned
      BY <2>3, <2>5, <2>6 DEF Uncleaned
    <3> QED
      BY <2>2, <2>4, <3>1, <3>2, CountOneMore
  <2>9. /\ stats'["total"] = stats["total"] + 1
        /\ \A w \in Verdicts \ {"CLEANUP_FAILED", "CANCELLED"} :
              stats'[CounterOf[w]] = stats[CounterOf[w]] + (IF verdict = w THEN 1 ELSE 0)
        /\ stats'["cleanup_failed"]
             = stats["cleanup_failed"] + (IF dirty THEN 1 ELSE 0)
               + (IF verdict = "CLEANUP_FAILED" THEN 1 ELSE 0)
    BY <2>1, <2>2, AddSum
  <2>10. stats'["total"] = Len(results')
    BY <2>4, <2>5, <2>9 DEF StatsMatchResults
  <2>11. ASSUME NEW v \in Verdicts \ {"CLEANUP_FAILED", "CANCELLED"}
         PROVE  stats'[CounterOf[v]] = Cardinality(WithVerdict(v)')
    BY <2>7, <2>9 DEF StatsMatchResults
  <2>12. stats'["cleanup_failed"]
           = Cardinality(Uncleaned') + Cardinality(WithVerdict("CLEANUP_FAILED")')
    BY <2>7, <2>8, <2>9 DEF StatsMatchResults
  <2> QED
    BY <2>10, <2>11, <2>12 DEF StatsMatchResults
<1>3. CASE Next /\ ~CloseCase
  BY <1>1, <1>3 DEF Next, StartRun, NextCase, BeginCase, FinishRun, EndBody, Create, CreateRaises,
           ReleaseEarly, ReleaseRaises, CleanupNext, Signal, SignalInEmit, Killed, Terminated,
           vars, outVars
<1> QED
  BY <1>1, <1>2, <1>3 DEF vars, outVars

\* The counters that the harness reports are those of the results it reports, for
\* a selection of any length and whatever its cases end with: every case counts
\* once in the total and once for its verdict, and once more when its cleanup
\* failed, wherever the run is interrupted.
THEOREM StatsHold == Spec => []StatsMatchResults
<1>1. Init => StatsMatchResults
  <2> SUFFICES ASSUME Init PROVE StatsMatchResults
    OBVIOUS
  <2>1. Len(results) = 0 /\ DOMAIN results = {}
    BY DEF Init
  <2>2. Uncleaned = {} /\ \A v : WithVerdict(v) = {}
    BY <2>1 DEF Uncleaned, WithVerdict
  <2>3. \A c \in Counters : stats[c] = 0
    BY DEF Init, ZeroStats
  <2>4. Cardinality(Uncleaned) = 0 /\ \A v : Cardinality(WithVerdict(v)) = 0
    BY <2>2, FS_EmptySet
  <2>5. stats["total"] = 0 /\ stats["cleanup_failed"] = 0
    BY <2>3, CounterFacts
  <2>6. \A v \in Verdicts \ {"CANCELLED"} : stats[CounterOf[v]] = 0
    BY <2>3, CounterFacts
  <2> QED
    BY <2>1, <2>4, <2>5, <2>6 DEF StatsMatchResults
<1>2. IInv /\ StatsMatchResults /\ [Next]_vars => StatsMatchResults'
  BY StatsStep
<1> QED
  BY <1>1, <1>2, InvariantHolds, PTL DEF Spec

(***************************************************************************)
(* The runner implements CaseCustody.                                      *)
(***************************************************************************)

\* The values the contract sees.
CaseOpen == phase \in {"body", "cleanup"}
            \/ (phase \in {"hung", "killed"} /\ Len(results) < cur)
Ledger == [i \in DOMAIN results |-> results[i].cleanup = "PASS"]

LEMMA ContractStep ==
    ASSUME \/ /\ ~CaseOpen /\ CaseOpen' /\ ~dirty'
              /\ Registered' = Registered /\ Ledger' = Ledger
           \/ /\ CaseOpen /\ CaseOpen' = CaseOpen /\ dirty' = dirty /\ Ledger' = Ledger
              /\ \E x \in Resources : x \notin Registered /\ Registered' = Registered \cup {x}
           \/ /\ CaseOpen /\ CaseOpen' = CaseOpen /\ Ledger' = Ledger
              /\ \E x \in Resources, fails \in BOOLEAN :
                    /\ x \in Registered /\ Registered' = Registered \ {x}
                    /\ dirty' = (dirty \/ fails)
           \/ /\ CaseOpen /\ ~CaseOpen' /\ Registered = {} /\ Registered' = Registered
              /\ dirty' = dirty /\ Ledger' = Append(Ledger, ~dirty)
           \/ /\ CaseOpen' = CaseOpen /\ Registered' = Registered
              /\ dirty' = dirty /\ Ledger' = Ledger,
           CaseOpen \in BOOLEAN, CaseOpen' \in BOOLEAN, Registered \subseteq Resources
    PROVE  [Contract!Next]_Contract!vars
<1>1. CASE /\ ~CaseOpen /\ CaseOpen' /\ ~dirty'
           /\ Registered' = Registered /\ Ledger' = Ledger
  BY <1>1 DEF CaseOpen, Ledger, Contract!Next, Contract!Open
<1>2. CASE /\ CaseOpen /\ CaseOpen' = CaseOpen /\ dirty' = dirty /\ Ledger' = Ledger
           /\ \E x \in Resources : x \notin Registered /\ Registered' = Registered \cup {x}
  BY <1>2 DEF CaseOpen, Ledger, Contract!Next, Contract!Take
<1>3. ASSUME CaseOpen, CaseOpen' = CaseOpen, Ledger' = Ledger,
             NEW x \in Resources, NEW fails \in BOOLEAN,
             x \in Registered, Registered' = Registered \ {x}, dirty' = (dirty \/ fails)
      PROVE  Contract!Next
  <2>1. Contract!Release(fails)
    BY <1>3 DEF CaseOpen, Ledger, Contract!Release
  <2> QED
    BY <2>1 DEF Contract!Next
<1>4. CASE /\ CaseOpen /\ ~CaseOpen' /\ Registered = {} /\ Registered' = Registered
           /\ dirty' = dirty /\ Ledger' = Append(Ledger, ~dirty)
  BY <1>4 DEF CaseOpen, Ledger, Contract!Next, Contract!Close
<1>5. CASE /\ CaseOpen' = CaseOpen /\ Registered' = Registered
           /\ dirty' = dirty /\ Ledger' = Ledger
  BY <1>5 DEF CaseOpen, Ledger, Contract!vars
<1> QED
  BY <1>1, <1>2, <1>3, <1>4, <1>5

\* The ledger of a closed case gets one entry, which is true for a clean cleanup.
LEMMA LedgerAppend == ASSUME IInv, CloseCase PROVE Ledger' = Append(Ledger, ~dirty)
<1> DEFINE r == [status |-> verdict, cleanup |-> IF dirty THEN "CLEANUP_FAILED" ELSE "PASS"]
<1>1. results \in Seq(Result) /\ dirty \in BOOLEAN /\ verdict \in Verdicts
  BY DEF IInv, TypeOK, Result
<1>2. results' = Append(results, r)
  BY DEF CloseCase
<1>3. r \in Result /\ (r.cleanup = "PASS") = ~dirty
  BY <1>1 DEF Result
<1> HIDE DEF r
<1>4. PICK n \in Nat : n = Len(results)
  BY <1>1, LenProperties
<1>5. /\ DOMAIN results = 1..n /\ DOMAIN results' = 1..n + 1
      /\ \A i \in 1..n : results'[i] = results[i]
      /\ results'[n + 1] = r
  <2>1. Append(results, r) \in Seq(Result) /\ Len(Append(results, r)) = n + 1
    BY <1>1, <1>3, <1>4, AppendProperties
  <2> QED
    BY <2>1, <1>1, <1>2, <1>3, <1>4, AppendProperties, LenProperties
<1> DEFINE a == Append(Ledger, ~dirty)
<1>6. Ledger = [i \in 1..n |-> results[i].cleanup = "PASS"]
  BY <1>5 DEF Ledger
<1>7. Ledger \in [1..n -> BOOLEAN] /\ \A i \in 1..n : Ledger[i] = (results[i].cleanup = "PASS")
  BY <1>6, Zenon
<1>8. Ledger \in Seq(BOOLEAN) /\ Len(Ledger) = n
  <2>1. Ledger \in Seq(BOOLEAN)
    BY <1>7, IsASeq
  <2>2. DOMAIN Ledger = 1..n
    BY <1>7
  <2> QED
    BY <2>1, <2>2, LenProperties
<1>9. /\ a \in Seq(BOOLEAN) /\ Len(a) = n + 1
      /\ \A i \in 1..n : a[i] = Ledger[i]
      /\ a[n + 1] = ~dirty
  BY <1>8, AppendProperties
<1> HIDE DEF a
<1>10. a = [i \in 1..n + 1 |-> a[i]]
  BY <1>9, LenProperties
<1>11. \A i \in 1..n + 1 : a[i] = (results'[i].cleanup = "PASS")
  <2> SUFFICES ASSUME NEW i \in 1..n + 1 PROVE a[i] = (results'[i].cleanup = "PASS")
    OBVIOUS
  <2>1. CASE i \in 1..n
    BY <2>1, <1>5, <1>7, <1>9, Zenon
  <2>2. CASE i = n + 1
    BY <2>2, <1>3, <1>5, <1>9, Zenon
  <2> QED
    BY <1>4, <2>1, <2>2
<1>12. Ledger' = [i \in 1..n + 1 |-> results'[i].cleanup = "PASS"]
  BY <1>5 DEF Ledger
<1>13. [i \in 1..n + 1 |-> a[i]] = [i \in 1..n + 1 |-> results'[i].cleanup = "PASS"]
  BY <1>11, Zenon
<1> QED
  BY <1>10, <1>12, <1>13 DEF a

\* Every step of the runner is a step of the contract, or none it sees.
LEMMA StepMaps == IInv /\ IInv' /\ [Next]_vars => [Contract!Next]_Contract!vars
<1> SUFFICES ASSUME IInv, IInv', [Next]_vars PROVE [Contract!Next]_Contract!vars
  OBVIOUS
<1>1. CaseOpen \in BOOLEAN /\ CaseOpen' \in BOOLEAN /\ Registered \subseteq Resources
  BY LenProperties DEF CaseOpen, IInv, TypeOK, Registered, ToSet
<1>2. /\ phase \in {"start", "loop", "begin", "done"} => stack = <<>> /\ Len(results) = cur
      /\ phase \in {"body", "cleanup"} => Len(results) + 1 = cur
      /\ cur \in Nat /\ Len(results) \in Nat
      /\ stack \in Seq(Resources) /\ Distinct(stack)
      /\ dirty \in BOOLEAN
  BY NumCasesAssumption, LenProperties DEF IInv, TypeOK, StackInv, CountInv
<1>3. /\ phase \in {"start", "loop", "begin", "done"} => ~CaseOpen
      /\ phase \in {"body", "cleanup"} => CaseOpen
      /\ phase \in {"body", "cleanup"} => Len(results) < cur
  BY <1>2 DEF CaseOpen
<1>4. ASSUME UNCHANGED <<stack, dirty, results>>, CaseOpen' = CaseOpen
      PROVE  [Contract!Next]_Contract!vars
  BY <1>1, <1>4, ContractStep DEF Registered, Ledger
<1>5. CASE StartRun \/ NextCase \/ FinishRun
  <2>1. UNCHANGED <<stack, dirty, results>> /\ CaseOpen' = CaseOpen
    BY <1>5, <1>3 DEF StartRun, NextCase, FinishRun, bodyVars, outVars, CaseOpen
  <2> QED
    BY <1>4, <2>1
<1>6. CASE \E v \in Verdicts : EndBody(v)
  <2>1. UNCHANGED <<stack, dirty, results>> /\ CaseOpen' = CaseOpen
    BY <1>6 DEF EndBody, outVars, CaseOpen
  <2> QED
    BY <1>4, <2>1
<1>7. CASE Signal \/ UNCHANGED vars \/ Terminated
  <2>1. UNCHANGED <<stack, dirty, results>> /\ CaseOpen' = CaseOpen
    BY <1>7 DEF Signal, Terminated, vars, bodyVars, outVars, CaseOpen
  <2> QED
    BY <1>4, <2>1
<1>8. CASE SignalInEmit \/ Killed
  <2>1. /\ UNCHANGED <<stack, dirty, results, cur>> /\ phase' \in {"hung", "killed"}
        /\ phase \in {"start", "loop", "begin", "body", "cleanup", "hung"}
    BY <1>8 DEF SignalInEmit, Killed, Running, bodyVars, outVars, IInv, TypeOK
  <2>2. CaseOpen' = (Len(results) < cur)
    BY <2>1 DEF CaseOpen
  <2>3. CaseOpen = (Len(results) < cur)
    BY <2>1, <1>2 DEF CaseOpen
  <2> QED
    BY <1>4, <2>1, <2>2, <2>3
<1>9. CASE BeginCase
  <2>1. /\ phase = "begin" /\ phase' = "body" /\ stack' = <<>> /\ ~dirty' /\ results' = results
    BY <1>9 DEF BeginCase
  <2>2. stack' = stack /\ ~CaseOpen /\ CaseOpen'
    BY <2>1, <1>2, <1>3 DEF CaseOpen
  <2> QED
    BY <1>1, <2>1, <2>2, ContractStep DEF Registered, Ledger
<1>10. CASE CloseCase
  <2>1. /\ phase = "cleanup" /\ phase' = "loop" /\ stack = <<>> /\ stack' = stack /\ dirty' = dirty
    BY <1>10 DEF CloseCase, bodyVars
  <2>2. Registered = {} /\ Registered' = Registered /\ CaseOpen /\ ~CaseOpen'
    BY <2>1, <1>3 DEF Registered, ToSet, CaseOpen
  <2> QED
    BY <1>1, <1>10, <2>1, <2>2, LedgerAppend, ContractStep
<1>11. CASE \E x \in Resources : Create(x)
  <2> PICK x \in Resources : Create(x)
    BY <1>11
  <2>1. /\ phase = "body" /\ phase' = phase /\ x \notin Registered /\ stack' = Append(stack, x)
        /\ dirty' = dirty /\ results' = results /\ cur' = cur
    BY DEF Create, outVars
  <2>2. Registered' = Registered \cup {x}
    BY <2>1, <1>2, AppendElements DEF Registered
  <2>3. CaseOpen /\ CaseOpen' = CaseOpen /\ Ledger' = Ledger
    BY <2>1, <1>3 DEF CaseOpen, Ledger
  <2> QED
    BY <1>1, <2>1, <2>2, <2>3, ContractStep
<1>12. CASE \E x \in Resources : CreateRaises(x) \/ ReleaseRaises(x)
  <2>1. UNCHANGED <<stack, dirty, results>> /\ CaseOpen' = CaseOpen
    BY <1>12 DEF CreateRaises, ReleaseRaises, outVars, CaseOpen
  <2> QED
    BY <1>4, <2>1
<1>13. CASE \E x \in Resources : ReleaseEarly(x)
  <2> PICK x \in Resources : ReleaseEarly(x)
    BY <1>13
  <2>1. /\ phase = "body" /\ phase' = phase /\ dirty' = dirty /\ results' = results /\ cur' = cur
    BY DEF ReleaseEarly, outVars
  <2>2. PICK i \in 1..Len(stack) : stack[i] = x /\ stack' = RemoveAt(stack, i)
    <3>1. DOMAIN stack = 1..Len(stack)
      BY <1>2, LenProperties
    <3> QED
      BY <3>1 DEF ReleaseEarly
  <2>3. x \in Registered
    <3>1. i \in DOMAIN stack
      BY <1>2, <2>2, LenProperties
    <3> QED
      BY <2>2, <3>1 DEF Registered, ToSet
  <2>4. Registered' = Registered \ {x}
    BY <1>2, <2>2, RemoveAtElements DEF Registered
  <2>5. CaseOpen /\ CaseOpen' = CaseOpen /\ Ledger' = Ledger
    BY <2>1, <1>3 DEF CaseOpen, Ledger
  <2>6. dirty' = (dirty \/ FALSE)
    BY <1>2, <2>1
  <2> QED
    BY <1>1, <2>3, <2>4, <2>5, <2>6, ContractStep
<1>14. CASE CleanupNext
  <2>1. /\ phase = "cleanup" /\ stack # <<>> /\ stack' = Front(stack)
        /\ phase' = phase /\ results' = results /\ cur' = cur
    BY <1>14 DEF CleanupNext, outVars
  <2>2. /\ Last(stack) \in Resources /\ Last(stack) \in Registered
        /\ Registered' = Registered \ {Last(stack)}
    BY <1>2, <2>1, FrontFacts, FrontElements DEF Registered
  <2>3. \E fails \in BOOLEAN : dirty' = (dirty \/ fails)
    <3>1. dirty' = (dirty \/ FALSE) \/ dirty' = (dirty \/ TRUE)
      BY <1>2, <1>14 DEF CleanupNext
    <3> QED
      BY <3>1
  <2>4. CaseOpen /\ CaseOpen' = CaseOpen /\ Ledger' = Ledger
    BY <2>1, <1>3 DEF CaseOpen, Ledger
  <2> QED
    BY <1>1, <2>2, <2>3, <2>4, ContractStep
<1> QED
  BY <1>5, <1>6, <1>7, <1>8, <1>9, <1>10, <1>11, <1>12, <1>13, <1>14 DEF Next

\* The runner keeps the contract of CaseCustody: what a case takes into custody
\* leaves it before the case closes, and a case is written down as clean exactly
\* when none of its releases failed, wherever the run is killed.
THEOREM CustodyHolds == Spec => KeepsCustody
<1>1. Init => Contract!Init
  <2> SUFFICES ASSUME Init PROVE Contract!Init
    OBVIOUS
  <2>1. Registered = {} /\ ~CaseOpen /\ ~dirty
    BY DEF Init, Registered, ToSet, CaseOpen
  <2>2. Ledger = <<>>
    BY DEF Init, Ledger
  <2> QED
    BY <2>1, <2>2 DEF Contract!Init, CaseOpen, Ledger, Registered
<1> QED
  BY <1>1, InvariantHolds, StepMaps, PTL DEF Spec, KeepsCustody, Contract!Spec
=============================================================================
