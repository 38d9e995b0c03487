-------------------------- MODULE Supervisor_proofs --------------------------
(***************************************************************************)
(* What the supervisor recomputes from the window of a session is what an  *)
(* observer of every event would remember: all of it while the session fits*)
(* in the window, and never more than it afterwards.                       *)
(***************************************************************************)
EXTENDS Supervisor, Guard_proofs

-----------------------------------------------------------------------------
(* Streaks of failing results and of repeated calls                         *)

Failed(e, print) == e.outcome = "failure" /\ Fingerprint(e) = print

\* The identical failures at the end of h, and the identical calls, of the
\* call with the given fingerprint.
FailingRun(h, print) ==
  {i \in ToolResults(h) : \A j \in ToolResults(h) :
     j >= i => Failed(h[j], print)}
RepeatingRun(h, print) ==
  {i \in Calls(h) : \A j \in Calls(h) : j >= i => Fingerprint(h[j]) = print}

\* The youngest result, if it failed, is of the call that is failing.
LastFailure(h, print) ==
  \A i \in ToolResults(h) :
    (\A j \in ToolResults(h) : j <= i) /\ h[i].outcome = "failure" => Fingerprint(h[i]) = print
LastCall(h, print) ==
  \A i \in Calls(h) : (\A j \in Calls(h) : j <= i) => Fingerprint(h[i]) = print

\* A window never shows more than the observer remembers ...
Tracks(h, w) ==
  /\ w.failures \in Nat
  /\ Cardinality(FailingRun(h, w.failing)) <= w.failures
  /\ LastFailure(h, w.failing)
  /\ ValidationState(h) \in {"clean", w.status}

\* ... and shows all of it while nothing fell out.
Exact(h, w) ==
  /\ w.repeats \in Nat
  /\ Cardinality(FailingRun(h, w.failing)) = w.failures
  /\ Cardinality(RepeatingRun(h, w.repeating)) = w.repeats
  /\ LastCall(h, w.repeating)
  /\ ValidationState(h) = w.status

\* Runs of failures and of repetitions can be counted.
LEMMA RunsAreFinite ==
  ASSUME NEW h, NEW n, Placed(h, n), NEW print
  PROVE  /\ IsFiniteSet(FailingRun(h, print)) /\ Cardinality(FailingRun(h, print)) \in Nat
         /\ IsFiniteSet(RepeatingRun(h, print)) /\ Cardinality(RepeatingRun(h, print)) \in Nat
<1>1. FailingRun(h, print) \in SUBSET DOMAIN h /\ RepeatingRun(h, print) \in SUBSET DOMAIN h
  BY DEF FailingRun, RepeatingRun, ToolResults, Calls
<1> QED BY <1>1, Counted

(* A set of positions that is not empty has a youngest one.                 *)
LEMMA YoungestOf ==
  ASSUME NEW h, NEW n, Placed(h, n), NEW I \in SUBSET DOMAIN h, NEW i \in I
  PROVE  \E y \in I : y >= i /\ \A j \in I : j <= y
<1>1. I \subseteq 0..n /\ I # {} /\ n \in Nat
  BY DEF Placed
<1>2. Max(I) \in I /\ \A j \in I : j <= Max(I)
  BY <1>1, LargestOf
<1>3. i <= Max(I) /\ i \in Nat /\ Max(I) \in Nat
  BY <1>1, <1>2
<1> QED BY <1>2, <1>3

(* A run of another call is empty: its youngest member would be the last.   *)
LEMMA OtherRunsAreEmpty ==
  ASSUME NEW h, NEW n, Placed(h, n), NEW last_, NEW print, print # last_
  PROVE  /\ LastFailure(h, last_) => FailingRun(h, print) = {}
         /\ LastCall(h, last_) => RepeatingRun(h, print) = {}
<1>1. ToolResults(h) \in SUBSET DOMAIN h /\ Calls(h) \in SUBSET DOMAIN h
  BY DEF ToolResults, Calls
<1>2. ASSUME LastFailure(h, last_), NEW i \in FailingRun(h, print) PROVE FALSE
  <2>1. i \in ToolResults(h)
    BY <1>2 DEF FailingRun
  <2>2. PICK y \in ToolResults(h) : y >= i /\ \A j \in ToolResults(h) : j <= y
    BY <1>1, <2>1, YoungestOf
  <2>3. h[y].outcome = "failure" /\ Fingerprint(h[y]) = print
    BY <1>2, <2>2 DEF FailingRun, Failed
  <2> QED BY <1>2, <2>2, <2>3 DEF LastFailure
<1>3. ASSUME LastCall(h, last_), NEW i \in RepeatingRun(h, print) PROVE FALSE
  <2>1. i \in Calls(h)
    BY <1>3 DEF RepeatingRun
  <2>2. PICK y \in Calls(h) : y >= i /\ \A j \in Calls(h) : j <= y
    BY <1>1, <2>1, YoungestOf
  <2>3. Fingerprint(h[y]) = print
    BY <1>3, <2>2 DEF RepeatingRun
  <2> QED BY <1>3, <2>2, <2>3 DEF LastCall
<1> QED BY <1>2, <1>3

(* A new event extends the runs it belongs to and breaks the others.        *)
LEMMA RunsFollow ==
  ASSUME NEW h, NEW n, Placed(h, n), NEW k \in Nat, NEW e, NEW h2, Extended(h, k, e, h2),
         NEW print
  PROVE  /\ FailingRun(h2, print) =
              CASE e.type \notin ResultTypes -> FailingRun(h, print)
                [] e.type \in ResultTypes /\ Failed(e, print) -> FailingRun(h, print) \cup {k}
                [] OTHER -> {}
         /\ RepeatingRun(h2, print) =
              CASE e.type # "tool.before" -> RepeatingRun(h, print)
                [] e.type = "tool.before" /\ Fingerprint(e) = print
                     -> RepeatingRun(h, print) \cup {k}
                [] OTHER -> {}
         /\ k \notin FailingRun(h, print) /\ k \notin RepeatingRun(h, print)
<1>1. /\ DOMAIN h2 = DOMAIN h \cup {k} /\ h2[k] = e /\ k \notin DOMAIN h
      /\ \A i \in DOMAIN h : i < k /\ ~(i >= k) /\ k >= i /\ h2[i] = h[i] /\ i \in Nat
  BY DEF Extended, Placed
<1>2. /\ ToolResults(h2) = IF e.type \in ResultTypes THEN ToolResults(h) \cup {k} ELSE ToolResults(h)
      /\ Calls(h2) = IF e.type = "tool.before" THEN Calls(h) \cup {k} ELSE Calls(h)
      /\ ToolResults(h) \subseteq DOMAIN h /\ Calls(h) \subseteq DOMAIN h
  BY <1>1 DEF ToolResults, Calls
<1>3. k >= k
  OBVIOUS
<1>4. ASSUME e.type \notin ResultTypes PROVE FailingRun(h2, print) = FailingRun(h, print)
  BY <1>1, <1>2, <1>4 DEF FailingRun
<1>5. ASSUME e.type \in ResultTypes, Failed(e, print)
      PROVE  FailingRun(h2, print) = FailingRun(h, print) \cup {k}
  BY <1>1, <1>2, <1>3, <1>5 DEF FailingRun
<1>6. ASSUME e.type \in ResultTypes, ~Failed(e, print) PROVE FailingRun(h2, print) = {}
  BY <1>1, <1>2, <1>3, <1>6 DEF FailingRun
<1>7. RepeatingRun(h2, print) =
        CASE e.type # "tool.before" -> RepeatingRun(h, print)
          [] e.type = "tool.before" /\ Fingerprint(e) = print -> RepeatingRun(h, print) \cup {k}
          [] OTHER -> {}
  BY <1>1, <1>2, <1>3 DEF RepeatingRun
<1>8. k \notin FailingRun(h, print) /\ k \notin RepeatingRun(h, print)
  BY <1>1, <1>2 DEF FailingRun, RepeatingRun
<1> QED BY <1>4, <1>5, <1>6, <1>7, <1>8

\* How the last result and the last call change with a new event.
LEMMA LastFollow ==
  ASSUME NEW h, NEW n, Placed(h, n), NEW k \in Nat, NEW e, NEW h2, Extended(h, k, e, h2),
         NEW print
  PROVE  /\ e.type \notin ResultTypes /\ LastFailure(h, print) => LastFailure(h2, print)
         /\ e.type \in ResultTypes /\ (e.outcome = "failure" => Fingerprint(e) = print)
              => LastFailure(h2, print)
         /\ e.type # "tool.before" /\ LastCall(h, print) => LastCall(h2, print)
         /\ e.type = "tool.before" /\ Fingerprint(e) = print => LastCall(h2, print)
<1>1. /\ DOMAIN h2 = DOMAIN h \cup {k} /\ h2[k] = e /\ k \notin DOMAIN h
      /\ \A i \in DOMAIN h : ~(k <= i) /\ h2[i] = h[i]
  BY DEF Extended, Placed
<1>2. /\ ToolResults(h2) = IF e.type \in ResultTypes THEN ToolResults(h) \cup {k} ELSE ToolResults(h)
      /\ Calls(h2) = IF e.type = "tool.before" THEN Calls(h) \cup {k} ELSE Calls(h)
      /\ ToolResults(h) \subseteq DOMAIN h /\ Calls(h) \subseteq DOMAIN h
  BY <1>1 DEF ToolResults, Calls
<1> QED BY <1>1, <1>2 DEF LastFailure, LastCall

(* The detectors count the run that the new event ends.                     *)
LEMMA RunsAreCounted ==
  ASSUME NEW h, NEW n, Placed(h, n), NEW k \in Nat, NEW e, NEW h2, Extended(h, k, e, h2)
  PROVE  /\ e.type \in ResultTypes /\ e.outcome = "failure" =>
              FailureRun(e, h) = Cardinality(FailingRun(h2, Fingerprint(e)))
         /\ e.type = "tool.before" =>
              RepeatRun(e, h) = Cardinality(RepeatingRun(h2, Fingerprint(e)))
<1> DEFINE print == Fingerprint(e)
           F == FailingRun(h, print)
           G == RepeatingRun(h, print)
<1>1. FailureRun(e, h) = 1 + Cardinality(F)
  <2> DEFINE Same(i) == h[i].outcome = "failure" /\ Fingerprint(h[i]) = Fingerprint(e)
  <2>1. F = {i \in ToolResults(h) : \A j \in ToolResults(h) : j >= i => Same(j)}
    BY DEF FailingRun, Failed
  <2> HIDE DEF F
  <2> QED BY <2>1 DEF FailureRun
<1>2. RepeatRun(e, h) = 1 + Cardinality(G)
  <2> DEFINE Same(i) == Fingerprint(h[i]) = Fingerprint(e)
  <2>1. G = {i \in Calls(h) : \A j \in Calls(h) : j >= i => Same(j)}
    BY DEF RepeatingRun
  <2> HIDE DEF G
  <2> QED BY <2>1 DEF RepeatRun
<1>3. /\ IsFiniteSet(F) /\ Cardinality(F) \in Nat /\ k \notin F
      /\ IsFiniteSet(G) /\ Cardinality(G) \in Nat /\ k \notin G
  BY RunsAreFinite, RunsFollow
<1>4. Cardinality(F \cup {k}) = Cardinality(F) + 1 /\ Cardinality(G \cup {k}) = Cardinality(G) + 1
  BY <1>3, FS_AddElement
<1>5. e.type \in ResultTypes /\ e.outcome = "failure" => FailingRun(h2, print) = F \cup {k}
  BY RunsFollow DEF Failed
<1>6. e.type = "tool.before" => RepeatingRun(h2, print) = G \cup {k}
  BY RunsFollow
<1> HIDE DEF F, G
<1> QED BY <1>1, <1>2, <1>3, <1>4, <1>5, <1>6

(* The window keeps up with the observer when an event is added.            *)
LEMMA ObserverFollows ==
  ASSUME NEW h, NEW n, Placed(h, n), NEW k \in Nat, NEW e, NEW h2, NEW n2, Placed(h2, n2),
         Extended(h, k, e, h2), NEW w, Tracks(h, w)
  PROVE  /\ Tracks(h2, Observe(w, e))
         /\ Exact(h, w) => Exact(h2, Observe(w, e))
<1> DEFINE w2 == Observe(w, e)
           print == Fingerprint(e)
<1>1. /\ w2.status = NextStatus(w.status, e)
      /\ e.type \notin ResultTypes => w2.failing = w.failing /\ w2.failures = w.failures
      /\ e.type \in ResultTypes /\ e.outcome = "failure" =>
           w2.failing = print /\ w2.failures = 1 + IF w.failing = print THEN w.failures ELSE 0
      /\ e.type \in ResultTypes /\ e.outcome # "failure" => w2.failures = 0
      /\ e.type # "tool.before" => w2.repeating = w.repeating /\ w2.repeats = w.repeats
      /\ e.type = "tool.before" =>
           w2.repeating = print /\ w2.repeats = 1 + IF w.repeating = print THEN w.repeats ELSE 0
  BY DEF Observe
<1> HIDE DEF w2
<1>2. ValidationState(h2) = NextStatus(ValidationState(h), e)
  BY StateFollows
<1>3. /\ ValidationState(h2) \in {"clean", w2.status}
      /\ ValidationState(h) = w.status => ValidationState(h2) = w2.status
  <2>1. ~(IsWrite(e) /\ IsValidation(e))
    BY DEF IsWrite, IsValidation, ResultTypes
  <2>2. ValidationState(h) \in {"clean", w.status}
    BY DEF Tracks
  <2>3. NextStatus("clean", e) = IF IsWrite(e) THEN "missing" ELSE "clean"
    BY <2>1 DEF NextStatus
  <2>4. IsWrite(e) => NextStatus(w.status, e) = "missing"
    BY <2>1 DEF NextStatus
  <2> QED BY <1>1, <1>2, <2>2, <2>3, <2>4
<1>4. /\ w2.failures \in Nat /\ LastFailure(h2, w2.failing)
      /\ Cardinality(FailingRun(h2, w2.failing)) <= w2.failures
      /\ Cardinality(FailingRun(h, w.failing)) = w.failures =>
           Cardinality(FailingRun(h2, w2.failing)) = w2.failures
  <2>1. CASE e.type \notin ResultTypes
    BY <1>1, <2>1, RunsFollow, LastFollow DEF Tracks
  <2>2. CASE e.type \in ResultTypes /\ e.outcome # "failure"
    <3>1. FailingRun(h2, w2.failing) = {} /\ LastFailure(h2, w2.failing)
      BY <2>2, RunsFollow, LastFollow DEF Failed
    <3> QED BY <1>1, <2>2, <3>1, FS_EmptySet
  <2>3. CASE e.type \in ResultTypes /\ e.outcome = "failure"
    <3> DEFINE F == FailingRun(h, print)
    <3>1. /\ IsFiniteSet(F) /\ Cardinality(F) \in Nat /\ k \notin F
          /\ FailingRun(h2, print) = F \cup {k} /\ LastFailure(h2, print)
      BY <2>3, RunsAreFinite, RunsFollow, LastFollow DEF Failed
    <3>2. print # w.failing => F = {}
      BY OtherRunsAreEmpty DEF Tracks
    <3> HIDE DEF F
    <3>3. Cardinality(F \cup {k}) = Cardinality(F) + 1
      BY <3>1, FS_AddElement
    <3>4. CASE print = w.failing
      BY <1>1, <2>3, <3>1, <3>3, <3>4 DEF Tracks, F
    <3>5. CASE print # w.failing
      <4>1. Cardinality(F) = 0
        BY <3>2, <3>5, FS_EmptySet
      <4>2. w2.failing = print /\ w2.failures = 1
        BY <1>1, <2>3, <3>5
      <4>3. Cardinality(FailingRun(h2, print)) = 1
        BY <3>1, <3>3, <4>1
      <4> HIDE DEF print
      <4> QED BY <3>1, <4>2, <4>3
    <3> QED BY <3>4, <3>5
  <2> QED BY <2>1, <2>2, <2>3
<1>5. ASSUME Exact(h, w)
      PROVE  /\ w2.repeats \in Nat /\ LastCall(h2, w2.repeating)
             /\ Cardinality(RepeatingRun(h2, w2.repeating)) = w2.repeats
  <2>1. CASE e.type # "tool.before"
    BY <1>1, <1>5, <2>1, RunsFollow, LastFollow DEF Exact
  <2>2. CASE e.type = "tool.before"
    <3> DEFINE G == RepeatingRun(h, print)
    <3>1. /\ IsFiniteSet(G) /\ Cardinality(G) \in Nat /\ k \notin G
          /\ RepeatingRun(h2, print) = G \cup {k} /\ LastCall(h2, print)
      BY <2>2, RunsAreFinite, RunsFollow, LastFollow
    <3>2. print # w.repeating => G = {}
      BY <1>5, OtherRunsAreEmpty DEF Exact
    <3> HIDE DEF G
    <3>3. Cardinality(G \cup {k}) = Cardinality(G) + 1
      BY <3>1, FS_AddElement
    <3>4. CASE print = w.repeating
      BY <1>1, <1>5, <2>2, <3>1, <3>3, <3>4 DEF Exact, G
    <3>5. CASE print # w.repeating
      <4>1. Cardinality(G) = 0
        BY <3>2, <3>5, FS_EmptySet
      <4> QED BY <1>1, <2>2, <3>1, <3>3, <3>5, <4>1
    <3> QED BY <3>4, <3>5
  <2> QED BY <2>1, <2>2
<1>6. Tracks(h2, w2)
  BY <1>3, <1>4 DEF Tracks
<1>7. Exact(h, w) => Exact(h2, w2)
  BY <1>3, <1>4, <1>5 DEF Exact
<1> QED BY <1>6, <1>7 DEF w2

(* What falls out of the window can only shorten what it shows.             *)
LEMMA WindowForgets ==
  ASSUME NEW h, NEW n, Placed(h, n), NEW h2, NEW n2, Placed(h2, n2), Shifted(h, h2),
         NEW w, Tracks(h, w)
  PROVE  Tracks(h2, w)
<1> DEFINE print == w.failing
           F == FailingRun(h, print)
           F2 == FailingRun(h2, print)
<1>1. /\ \A i \in DOMAIN h2 : i \in Nat /\ i # 0 /\ i + 1 \in DOMAIN h /\ h2[i] = h[i + 1]
      /\ \A i \in DOMAIN h : i # 1 => i \in Nat /\ i # 0 /\ i - 1 \in DOMAIN h2
  BY DEF Shifted, Placed
<1>2. \A i \in ToolResults(h2) :
        i \in Nat /\ i # 0 /\ i + 1 \in ToolResults(h) /\ h2[i] = h[i + 1]
  BY <1>1 DEF ToolResults
<1>3. \A j \in ToolResults(h) :
        j \in Nat /\ (j # 1 => j - 1 \in ToolResults(h2) /\ h2[j - 1] = h[j])
  <2>1. ASSUME NEW j \in DOMAIN h, j # 1 PROVE j - 1 \in DOMAIN h2 /\ h2[j - 1] = h[j]
    BY <1>1, <2>1
  <2>2. \A j \in DOMAIN h : j \in Nat
    BY DEF Placed
  <2> QED BY <2>1, <2>2 DEF ToolResults
<1>4. ASSUME NEW i \in F2 PROVE i + 1 \in F
  <2>1. i \in ToolResults(h2) /\ \A j \in ToolResults(h2) : j >= i => Failed(h2[j], print)
    BY DEF FailingRun
  <2>2. i \in Nat /\ i # 0 /\ i + 1 \in ToolResults(h)
    BY <1>2, <2>1
  <2>3. ASSUME NEW j \in ToolResults(h), j >= i + 1 PROVE Failed(h[j], print)
    <3>1. j # 1 /\ j \in Nat /\ j - 1 >= i
      BY <1>3, <2>2, <2>3
    <3>2. j - 1 \in ToolResults(h2) /\ h2[j - 1] = h[j]
      BY <1>3, <3>1
    <3> QED BY <2>1, <3>1, <3>2
  <2> QED BY <2>2, <2>3 DEF FailingRun
<1>5. LastFailure(h2, print)
  <2> SUFFICES ASSUME NEW i \in ToolResults(h2), \A j \in ToolResults(h2) : j <= i,
                      h2[i].outcome = "failure"
               PROVE  Fingerprint(h2[i]) = print
    BY DEF LastFailure
  <2>1. i \in Nat /\ i # 0 /\ i + 1 \in ToolResults(h) /\ h2[i] = h[i + 1]
    BY <1>2
  <2>2. ASSUME NEW j \in ToolResults(h) PROVE j <= i + 1
    <3>1. j \in Nat /\ (j # 1 => j - 1 <= i)
      BY <1>3
    <3> QED BY <2>1, <3>1
  <2> QED BY <2>1, <2>2 DEF Tracks, LastFailure
<1>6. Cardinality(F2) <= Cardinality(F)
  <2> DEFINE f == [i \in F2 |-> i + 1]
  <2>1. \A i \in F2 : i \in Nat
    BY <1>2 DEF FailingRun
  <2> HIDE DEF F, F2
  <2>2. f \in Injection(F2, F)
    BY <1>4, <2>1 DEF Injection, IsInjective
  <2> HIDE DEF f
  <2>3. IsFiniteSet(F)
    BY RunsAreFinite DEF F
  <2> QED BY <2>2, <2>3, FS_Injection
<1>7. Cardinality(F2) \in Nat /\ Cardinality(F) \in Nat
  BY RunsAreFinite
<1>8. ValidationState(h2) \in {"clean", ValidationState(h)}
  BY StateForgets
<1> HIDE DEF F, F2
<1>9. Cardinality(F) <= w.failures /\ w.failures \in Nat
  BY DEF Tracks, F
<1>10. Cardinality(F2) <= w.failures
  BY <1>6, <1>7, <1>9
<1> QED BY <1>5, <1>8, <1>10 DEF Tracks, F2

-----------------------------------------------------------------------------
(* What is found and decided                                                *)

Has(found, detector) == \E i \in 1..Len(found) : found[i].detector = detector

\* A report is in a concatenation when it is in a part of it.
LEMMA HasConcat ==
  ASSUME NEW left \in Seq(Items), NEW right \in Seq(Items), NEW detector
  PROVE  /\ left \o right \in Seq(Items)
         /\ Has(left \o right, detector) <=> Has(left, detector) \/ Has(right, detector)
<1> DEFINE both == left \o right
<1>1. /\ both \in Seq(Items) /\ Len(both) = Len(left) + Len(right)
      /\ \A i \in 1..Len(left) : both[i] = left[i]
      /\ \A i \in 1..Len(right) : both[Len(left) + i] = right[i]
      /\ Len(left) \in Nat /\ Len(right) \in Nat /\ Len(both) \in Nat
  BY ConcatProperties
<1> HIDE DEF both
<1>2. ASSUME NEW i \in 1..Len(left), left[i].detector = detector PROVE Has(both, detector)
  <2>1. i \in 1..Len(both) /\ both[i] = left[i]
    BY <1>1
  <2> QED BY <1>2, <2>1 DEF Has
<1>3. ASSUME NEW i \in 1..Len(right), right[i].detector = detector PROVE Has(both, detector)
  <2>1. Len(left) + i \in 1..Len(both) /\ both[Len(left) + i] = right[i]
    BY <1>1
  <2> QED BY <1>3, <2>1 DEF Has
<1>4. ASSUME NEW i \in 1..Len(both), both[i].detector = detector
      PROVE  Has(left, detector) \/ Has(right, detector)
  <2>1. CASE i <= Len(left)
    <3>1. i \in 1..Len(left) /\ both[i] = left[i]
      BY <1>1, <2>1
    <3> QED BY <1>4, <3>1 DEF Has
  <2>2. CASE i > Len(left)
    <3>1. i - Len(left) \in 1..Len(right) /\ i = Len(left) + (i - Len(left))
      BY <1>1, <2>2
    <3>2. both[i] = right[i - Len(left)]
      BY <1>1, <3>1
    <3> QED BY <1>4, <3>1, <3>2 DEF Has
  <2> QED BY <1>1, <2>1, <2>2
<1> QED BY <1>1, <1>2, <1>3, <1>4 DEF Has, both

\* A single item is its detector's report.
LEMMA HasOne ==
  ASSUME NEW detector
  PROVE  /\ ~Has(<<>>, detector)
         /\ \A item : Has(<<item>>, detector) <=> item.detector = detector
<1>1. ~Has(<<>>, detector)
  BY DEF Has
<1>2. ASSUME NEW item PROVE Has(<<item>>, detector) <=> item.detector = detector
  <2>1. Len(<<item>>) = 1 /\ <<item>>[1] = item /\ 1..1 = {1}
    OBVIOUS
  <2> QED BY <2>1 DEF Has
<1> QED BY <1>1, <1>2

(* Only the loop detector reports loops.                                    *)
LEMMA LoopIsReported ==
  ASSUME NEW e, NEW history_, Len(history_) \in Nat
  PROVE  Has(Detect(e, history_), "loop") <=> LoopDetector(e, DetectionHistory(e, history_)) # <<>>
<1> DEFINE h == DetectionHistory(e, history_)
<1>1. Placed(h, Len(history_))
  BY DEF Placed, DetectionHistory
<1> HIDE DEF h
<1>0. \A detector, drift, severity, score :
        detector # "loop" => ~Has(<<Evidence(detector, drift, severity, score)>>, "loop")
  <2>1. \A detector, drift, severity, score :
          Evidence(detector, drift, severity, score).detector = detector
    BY DEF Evidence
  <2> QED BY <2>1, HasOne
<1>2. PICK c \in Seq(Items) : c = ConstraintDetector(e) /\ ~Has(c, "loop")
  <2>1. ConstraintDetector(e) \in Seq(Items)
    BY <1>1, Findings, AtMostOneIsSeq
  <2>2. ~Has(ConstraintDetector(e), "loop")
    BY HasOne DEF ConstraintDetector, Evidence
  <2> QED BY <2>1, <2>2
<1>3. PICK s \in Seq(Items) : s = ScopeDetector(e) /\ ~Has(s, "loop")
  <2>1. ScopeDetector(e) \in Seq(Items)
    BY <1>1, Findings, AtMostOneIsSeq
  <2>2. ScopeDetector(e) \in {<<>>, <<Evidence("scope", "scope_drift", "high", 95)>>}
    BY DEF ScopeDetector
  <2>3. ~Has(ScopeDetector(e), "loop")
    BY <1>0, <2>2, HasOne
  <2> QED BY <2>1, <2>3
<1>4. PICK v \in Seq(Items) : v = ValidationDetector(e, h) /\ ~Has(v, "loop")
  <2>1. ValidationDetector(e, h) \in Seq(Items)
    BY <1>1, Findings, AtMostOneIsSeq
  <2>2. ValidationDetector(e, h) \in {<<>>,
                   <<Evidence("validation", "validation_drift", "high", 95)>>,
                   <<Evidence("validation", "validation_drift", "medium", 75)>>}
    BY DEF ValidationDetector
  <2>3. ~Has(ValidationDetector(e, h), "loop")
    BY <1>0, <2>2, HasOne
  <2> QED BY <2>1, <2>3
<1>5. PICK t \in Seq(Items) : t = StateDetector(e, h) /\ ~Has(t, "loop")
  <2>1. StateDetector(e, h) \in Seq(Items)
    BY <1>1, Findings, AtMostOneIsSeq
  <2>2. StateDetector(e, h) \in {<<>>, <<Evidence("state", "state_drift", "high", 98)>>}
    BY DEF StateDetector
  <2>3. ~Has(StateDetector(e, h), "loop")
    BY <1>0, <2>2, HasOne
  <2> QED BY <2>1, <2>3
<1>6. PICK l \in Seq(Items) : l = LoopDetector(e, h) /\ (Has(l, "loop") <=> l # <<>>)
  <2>1. LoopDetector(e, h) \in Seq(Items)
    BY <1>1, Findings, AtMostOneIsSeq
  <2>2. LoopDetector(e, h) \in {<<>>, LoopEvidence(75 + 4 * FailureRun(e, h)),
                                LoopEvidence(70 + 5 * RepeatRun(e, h)), LoopEvidence(90)}
    BY DEF LoopDetector
  <2>3. \A score : Has(LoopEvidence(score), "loop") /\ LoopEvidence(score) # <<>>
    BY HasOne DEF LoopEvidence, Evidence
  <2> QED BY <2>1, <2>2, <2>3, HasOne
<1>7. Detect(e, history_) = c \o s \o l \o v \o t
  BY <1>2, <1>3, <1>4, <1>5, <1>6 DEF Detect, DetectIn, h
<1>8. Has(c \o s \o l \o v \o t, "loop") <=> Has(l, "loop")
  <2>1. c \o s \in Seq(Items) /\ ~Has(c \o s, "loop")
    BY <1>2, <1>3, HasConcat
  <2>2. c \o s \o l \in Seq(Items) /\ (Has(c \o s \o l, "loop") <=> Has(l, "loop"))
    BY <1>6, <2>1, HasConcat
  <2>3. /\ c \o s \o l \o v \in Seq(Items)
        /\ Has(c \o s \o l \o v, "loop") <=> Has(l, "loop")
    BY <1>4, <2>2, HasConcat
  <2> QED BY <1>5, <2>3, HasConcat
<1> QED BY <1>6, <1>7, <1>8 DEF h

(* The verdict on a stop agrees with the observer.                          *)
LEMMA StopVerdict ==
  ASSUME NEW e, NEW history_, Len(history_) \in Nat, e.type \in StopTypes,
         NEW w, Tracks(DetectionHistory(e, history_), w)
  PROVE  LET action == Decide(e, Detect(e, history_)).action
             validated == Observe(w, e).status \in {"clean", "success"}
         IN  /\ action = "continue" => ~validated
             /\ Exact(DetectionHistory(e, history_), w) => (action = "allow" <=> validated)
<1> DEFINE state == ValidationState(DetectionHistory(e, history_))
           found == Detect(e, history_)
           action == Decide(e, found).action
<1>1. Observe(w, e).status = w.status
  <2>1. ~IsWrite(e) /\ ~IsValidation(e)
    BY DEF IsWrite, IsValidation, ResultTypes, StopTypes
  <2> QED BY <2>1 DEF Observe, NextStatus
<1>2. /\ state \in {"clean", "success"} => found = <<>>
      /\ state \notin {"clean", "success"} => action = "continue"
  BY StopsFollowTheState
<1>3. found = <<>> => action = "allow"
  BY DEF Decide
<1>4. state \in {"clean", w.status} /\ (Exact(DetectionHistory(e, history_), w) => state = w.status)
  BY DEF Tracks, Exact
<1> HIDE DEF state, found, action
<1>5. /\ action = "continue" => w.status \notin {"clean", "success"}
      /\ state = w.status => (action = "allow" <=> w.status \in {"clean", "success"})
  BY <1>2, <1>3, <1>4
<1> QED BY <1>1, <1>4, <1>5 DEF state, found, action

(* The loop detector agrees with the observer.                              *)
LEMMA LoopVerdict ==
  ASSUME NEW e, NEW h, NEW n, Placed(h, n), NEW k \in Nat, NEW h2, NEW n2, Placed(h2, n2),
         Extended(h, k, e, h2), NEW w, Tracks(h, w)
  PROVE  LET w2 == Observe(w, e)
             result == e.type \in ResultTypes
             failing == result /\ w2.failures >= FailureThreshold
             repeating == e.type = "tool.before" /\ w2.repeats >= RepeatThreshold
             reported == LoopDetector(e, h) # <<>>
         IN  /\ result /\ reported => failing
             /\ Exact(h, w) /\ (failing \/ repeating) => reported
<1> DEFINE w2 == Observe(w, e)
<1>1. Tracks(h2, w2) /\ (Exact(h, w) => Exact(h2, w2))
  BY ObserverFollows
<1>2. /\ e.type \in ResultTypes /\ e.outcome = "failure" => w2.failing = Fingerprint(e)
      /\ e.type \in ResultTypes /\ e.outcome # "failure" => w2.failures = 0
      /\ e.type = "tool.before" => w2.repeating = Fingerprint(e)
  BY DEF Observe
<1> HIDE DEF w2
<1>3. /\ FailureThreshold \in Nat /\ FailureThreshold >= 2 /\ RepeatThreshold \in Nat
      /\ \A score : LoopEvidence(score) # <<>>
  BY GuardAssumption DEF LoopEvidence
<1>4. ASSUME e.type \in ResultTypes
      PROVE  LoopDetector(e, h) # <<>> <=>
               e.outcome = "failure" /\ FailureRun(e, h) >= FailureThreshold
  BY <1>3, <1>4 DEF LoopDetector, ResultTypes
<1>5. ASSUME e.type = "tool.before", RepeatRun(e, h) >= RepeatThreshold
      PROVE  LoopDetector(e, h) # <<>>
  BY <1>3, <1>5 DEF LoopDetector, ResultTypes
<1>6. ASSUME e.type \in ResultTypes, e.outcome = "failure"
      PROVE  /\ FailureRun(e, h) \in Nat /\ FailureRun(e, h) <= w2.failures /\ w2.failures \in Nat
             /\ Exact(h, w) => FailureRun(e, h) = w2.failures
  <2>1. FailureRun(e, h) = Cardinality(FailingRun(h2, w2.failing))
    BY <1>2, <1>6, RunsAreCounted
  <2>2. Cardinality(FailingRun(h2, w2.failing)) \in Nat
    BY RunsAreFinite
  <2> QED BY <1>1, <2>1, <2>2 DEF Tracks, Exact
<1>7. ASSUME e.type = "tool.before", Exact(h, w) PROVE RepeatRun(e, h) = w2.repeats
  <2>1. RepeatRun(e, h) = Cardinality(RepeatingRun(h2, w2.repeating))
    BY <1>2, <1>7, RunsAreCounted
  <2> QED BY <1>1, <1>7, <2>1 DEF Exact
<1>8. ASSUME e.type \in ResultTypes, LoopDetector(e, h) # <<>>
      PROVE  w2.failures >= FailureThreshold
  BY <1>3, <1>4, <1>6, <1>8
<1>9. ASSUME e.type \in ResultTypes, Exact(h, w), w2.failures >= FailureThreshold
      PROVE  LoopDetector(e, h) # <<>>
  BY <1>2, <1>3, <1>4, <1>6, <1>9
<1>10. ASSUME e.type = "tool.before", Exact(h, w), w2.repeats >= RepeatThreshold
       PROVE  LoopDetector(e, h) # <<>>
  BY <1>5, <1>7, <1>10
<1> QED BY <1>8, <1>9, <1>10 DEF w2

-----------------------------------------------------------------------------
(* The supervisor                                                           *)

Events == {Stamp(b, q) : b \in Bodies, q \in Nat}

\* What the detectors see of the history of one actor.
Own(a, h) == DetectionHistory([actor |-> a], h)

Types ==
  /\ TypeOK
  /\ history \in [Sessions -> Seq(Events)]
  /\ watch = [s \in Sessions |-> [a \in Actors |-> watch[s][a]]]

Watched(s, a) ==
  /\ Tracks(Own(a, history[s]), watch[s][a])
  /\ Len(history[s]) < HistoryLimit => Exact(Own(a, history[s]), watch[s][a])

SupervisorInv ==
  /\ Types
  /\ \A s \in Sessions, a \in Actors : Watched(s, a)

\* Stamping sets the sequence and leaves the rest.
LEMMA StampedEvent ==
  ASSUME NEW b \in Bodies, NEW q
  PROVE  /\ Stamp(b, q).sequence = q
         /\ Stamp(b, q).actor = b.actor /\ Stamp(b, q).actor \in Actors
         /\ Stamp(b, q).type = b.type
<1>1. "sequence" \notin Fields /\ "actor" \in Fields /\ "type" \in Fields
  BY DEF Fields
<1>2. /\ Stamp(b, q).sequence = q /\ Stamp(b, q).actor = b.actor /\ Stamp(b, q).type = b.type
  BY <1>1 DEF Stamp
<1> QED BY <1>2 DEF Actors

\* The next sequence is a number.
LEMMA NextSequenceType ==
  ASSUME sequences \in [Sessions -> Nat], NEW s \in Sessions, NEW q \in Nat
  PROVE  NextSequence(s, q) \in Nat
<1> DEFINE S == {sequences[s], q + 1}
<1>1. S \subseteq 0..(sequences[s] + q + 1) /\ S # {} /\ sequences[s] + q + 1 \in Nat
  OBVIOUS
<1>2. Max(S) \in S
  BY <1>1, LargestOf
<1> QED BY <1>2 DEF NextSequence

(* The window after an event, and what it still shows.                      *)
LEMMA WindowAfter ==
  ASSUME NEW window \in Seq(Events), Len(window) <= HistoryLimit, NEW e \in Events
  PROVE  /\ Remember(window, e) \in Seq(Events) /\ Len(Remember(window, e)) <= HistoryLimit
         /\ \A i \in 1..Len(Remember(window, e)) : Remember(window, e)[i] \in Events
         /\ Len(Remember(window, e)) < HistoryLimit =>
              Len(window) < HistoryLimit /\ Remember(window, e) = Append(window, e)
         /\ Remember(window, e) \in {Append(window, e), Tail(Append(window, e))}
<1>1. /\ Append(window, e) \in Seq(Events) /\ Len(Append(window, e)) = Len(window) + 1
      /\ Len(window) \in Nat /\ HistoryLimit \in Nat /\ HistoryLimit >= 1
  BY GuardAssumption
<1> DEFINE longer == Append(window, e)
<1>2. longer \in Seq(Events) /\ Len(longer) = Len(window) + 1
  BY <1>1
<1>3. Remember(window, e) = IF Len(longer) > HistoryLimit THEN Tail(longer) ELSE longer
  BY DEF Remember
<1> HIDE DEF longer
<1>4. longer # <<>> /\ Tail(longer) \in Seq(Events) /\ Len(Tail(longer)) = Len(window)
  BY <1>1, <1>2
<1>5. PICK w \in Seq(Events) : w = Remember(window, e)
  BY <1>2, <1>3, <1>4
<1>6. \A i \in 1..Len(w) : w[i] \in Events
  OBVIOUS
<1>7. /\ Len(Remember(window, e)) <= HistoryLimit
      /\ Len(Remember(window, e)) < HistoryLimit =>
           Len(window) < HistoryLimit /\ Remember(window, e) = longer
  BY <1>1, <1>2, <1>3, <1>4
<1> QED BY <1>3, <1>5, <1>6, <1>7 DEF longer

\* The window agrees with the observer after an event as before it.
LEMMA WatchedWindow ==
  ASSUME NEW window \in Seq(Events), Len(window) <= HistoryLimit, NEW e \in Events, NEW a,
         NEW w, Tracks(Own(a, window), w),
         Len(window) < HistoryLimit => Exact(Own(a, window), w),
         NEW w2, w2 = IF e.actor = a THEN Observe(w, e) ELSE w
  PROVE  LET left == Remember(window, e)
         IN  /\ Tracks(Own(a, left), w2)
             /\ Len(left) < HistoryLimit => Exact(Own(a, left), w2)
<1> DEFINE next == Append(window, e)
           h == Own(a, window)
           longer == Own(a, next)
<1>1. /\ next \in Seq(Events) /\ next # <<>> /\ Len(next) \in Nat /\ Len(window) \in Nat
      /\ Len(window) + 1 \in Nat /\ Len(Tail(next)) \in Nat
  OBVIOUS
<1>2. Placed(h, Len(window)) /\ Placed(longer, Len(next))
  BY <1>1, OwnPlaced DEF Own
<1>3. /\ e.actor = a => Extended(h, Len(window) + 1, e, longer)
      /\ e.actor # a => longer = h
  <2>1. [actor |-> a].actor = a
    OBVIOUS
  <2> QED BY <2>1, OwnAppended DEF Own
<1>4. Tracks(longer, w2) /\ (Exact(h, w) => Exact(longer, w2))
  <2>1. CASE e.actor = a
    <3> HIDE DEF h, longer, next
    <3>1. Extended(h, Len(window) + 1, e, longer) /\ w2 = Observe(w, e)
      BY <1>3, <2>1
    <3>2. Tracks(h, w)
      BY DEF h
    <3> QED BY <1>1, <1>2, <3>1, <3>2, ObserverFollows
  <2>2. CASE e.actor # a
    BY <1>3, <2>2
  <2> QED BY <2>1, <2>2
<1>5. Tracks(Own(a, Tail(next)), w2)
  <2>1. Shifted(longer, Own(a, Tail(next)))
    BY <1>1, OwnCut DEF Own
  <2>2. Placed(Own(a, Tail(next)), Len(Tail(next)))
    BY <1>1, OwnPlaced DEF Own
  <2> HIDE DEF longer
  <2> QED BY <1>2, <1>4, <2>1, <2>2, WindowForgets
<1>6. /\ Remember(window, e) \in {next, Tail(next)}
      /\ Len(Remember(window, e)) < HistoryLimit =>
           Len(window) < HistoryLimit /\ Remember(window, e) = next
  BY WindowAfter
<1> HIDE DEF next
<1> QED BY <1>4, <1>5, <1>6

\* What a step does: one event of one session is judged and remembered.
LEMMA StepEffect ==
  ASSUME Types, Next
  PROVE  \E s \in Sessions, b \in Bodies, q \in Nat :
           LET e == Stamp(b, q)
           IN  /\ processed < MaxEvents /\ processed' = processed + 1
               /\ sequences' = [sequences EXCEPT ![s] = NextSequence(s, q)]
               /\ last' = [session |-> s, event |-> e, evidence |-> Detect(e, history[s]),
                           decision |-> Decide(e, Detect(e, history[s]))]
               /\ history' = [history EXCEPT ![s] = Remember(history[s], e)]
               /\ watch' = [watch EXCEPT ![s][e.actor] = Observe(watch[s][e.actor], e)]
<1>1. PICK s \in Sessions, b \in Bodies, r \in {None} \cup ExplicitSequences : Process(s, b, r)
  BY DEF Next
<1>2. PICK q \in Nat : q = IF r = None THEN sequences[s] ELSE r
  BY <1>1, SupervisorAssumption DEF Types, TypeOK
<1>3. /\ processed < MaxEvents /\ processed' = processed + 1
      /\ sequences' = [sequences EXCEPT ![s] = NextSequence(s, q)]
      /\ last' = [session |-> s, event |-> Stamp(b, q), evidence |-> Detect(Stamp(b, q), history[s]),
                  decision |-> Decide(Stamp(b, q), Detect(Stamp(b, q), history[s]))]
      /\ history' = [history EXCEPT ![s] = Remember(history[s], Stamp(b, q))]
      /\ watch' = [watch EXCEPT ![s][Stamp(b, q).actor] =
                     Observe(watch[s][Stamp(b, q).actor], Stamp(b, q))]
  BY <1>1, <1>2 DEF Process, Types
<1> QED BY <1>3

\* The invariant holds of no sessions.
LEMMA InitSupervisor ==
  Init => SupervisorInv
<1> SUFFICES ASSUME Init PROVE SupervisorInv
  OBVIOUS
<1>1. Len(<<>>) = 0 /\ HistoryLimit \in Nat /\ MaxEvents \in Nat /\ <<>> \in Seq(Events)
  BY GuardAssumption, SupervisorAssumption
<1>2. /\ \A s \in Sessions : history[s] = <<>>
      /\ \A s \in Sessions, a \in Actors : watch[s][a] = Unwatched
  BY DEF Init
<1>3. TypeOK
  <2>1. sequences \in [Sessions -> Nat] /\ processed \in 0..MaxEvents
    BY <1>1 DEF Init
  <2> QED BY <1>1, <1>2, <2>1 DEF TypeOK
<1>4. Types
  BY <1>1, <1>3 DEF Types, Init
<1>5. ASSUME NEW a PROVE Tracks(Own(a, <<>>), Unwatched) /\ Exact(Own(a, <<>>), Unwatched)
  <2> DEFINE h == Own(a, <<>>)
  <2>1. DOMAIN h = {}
    BY <1>1 DEF Own, DetectionHistory
  <2>2. Placed(h, 0) /\ Untouched(h)
    BY <2>1 DEF Placed, Untouched
  <2>3. ValidationState(h) = "clean"
    BY <2>2, StateOfValidations
  <2> HIDE DEF h
  <2>4. ToolResults(h) = {} /\ Calls(h) = {}
    BY <2>1 DEF ToolResults, Calls
  <2>5. \A print : FailingRun(h, print) = {} /\ RepeatingRun(h, print) = {}
    BY <2>4 DEF FailingRun, RepeatingRun
  <2>6. \A print : LastFailure(h, print) /\ LastCall(h, print)
    BY <2>4 DEF LastFailure, LastCall
  <2>7. Unwatched.failures = 0 /\ Unwatched.repeats = 0 /\ Unwatched.status = "clean"
    BY DEF Unwatched
  <2>8. Tracks(h, Unwatched) /\ Exact(h, Unwatched)
    BY <2>3, <2>5, <2>6, <2>7, FS_EmptySet DEF Tracks, Exact
  <2> QED BY <2>8 DEF h
<1>6. \A s \in Sessions, a \in Actors : Watched(s, a)
  BY <1>2, <1>5 DEF Watched
<1> QED BY <1>4, <1>6 DEF SupervisorInv

\* The invariant is inductive.
LEMMA NextSupervisor ==
  ASSUME SupervisorInv, [Next]_vars
  PROVE  SupervisorInv'
<1>1. CASE UNCHANGED vars
  BY <1>1 DEF vars, SupervisorInv, Types, TypeOK, Watched
<1>2. CASE Next
  <2>0. Types
    BY DEF SupervisorInv
  <2>1. PICK s \in Sessions, b \in Bodies, q \in Nat :
          LET e == Stamp(b, q)
          IN  /\ processed < MaxEvents /\ processed' = processed + 1
              /\ sequences' = [sequences EXCEPT ![s] = NextSequence(s, q)]
              /\ history' = [history EXCEPT ![s] = Remember(history[s], e)]
              /\ watch' = [watch EXCEPT ![s][e.actor] = Observe(watch[s][e.actor], e)]
    BY <1>2, <2>0, StepEffect
  <2>2. PICK e \in Events : e = Stamp(b, q)
    BY DEF Events
  <2>3. e.actor \in Actors
    BY <2>2, StampedEvent
  <2>4. /\ history[s] \in Seq(Events) /\ Len(history[s]) <= HistoryLimit
        /\ history \in [Sessions -> Seq(Events)]
    BY <2>0 DEF Types, TypeOK
  <2>5. /\ history' \in [Sessions -> Seq(Events)] /\ history'[s] = Remember(history[s], e)
        /\ \A t \in Sessions \ {s} : history'[t] = history[t]
        /\ Len(history'[s]) <= HistoryLimit
        /\ \A i \in 1..Len(history'[s]) : history'[s][i] \in Events
    BY <2>1, <2>2, <2>4, WindowAfter
  <2>6. /\ watch' = [t \in Sessions |-> [a \in Actors |-> watch'[t][a]]]
        /\ \A t \in Sessions, a \in Actors :
             watch'[t][a] = IF t = s /\ e.actor = a THEN Observe(watch[t][a], e) ELSE watch[t][a]
    <3>1. /\ watch = [t \in Sessions |-> [a \in Actors |-> watch[t][a]]]
          /\ watch' = [watch EXCEPT ![s][e.actor] = Observe(watch[s][e.actor], e)]
      BY <2>0, <2>1, <2>2 DEF Types
    <3> QED BY <2>3, <3>1
  <2>7. sequences' \in [Sessions -> Nat] /\ processed' \in 0..MaxEvents
    <3>1. sequences \in [Sessions -> Nat] /\ processed \in 0..MaxEvents /\ MaxEvents \in Nat
      BY <2>0, SupervisorAssumption DEF Types, TypeOK
    <3>2. NextSequence(s, q) \in Nat
      BY <3>1, NextSequenceType
    <3> QED BY <2>1, <3>1, <3>2
  <2>8. \A x \in Events : x.sequence \in Nat /\ \E y \in Bodies : x = Stamp(y, x.sequence)
    BY StampedEvent DEF Events
  <2>9. TypeOK'
    <3>1. ASSUME NEW t \in Sessions
          PROVE  Len(history'[t]) <= HistoryLimit /\
                 \A i \in 1..Len(history'[t]) :
                   /\ history'[t][i].sequence \in Nat
                   /\ \E y \in Bodies : history'[t][i] = Stamp(y, history'[t][i].sequence)
      <4>1. CASE t = s
        BY <2>5, <2>8, <4>1
      <4>2. CASE t # s
        BY <2>0, <2>5, <4>2 DEF Types, TypeOK
      <4> QED BY <4>1, <4>2
    <3> QED BY <2>7, <3>1 DEF TypeOK
  <2>10. Types'
    BY <2>5, <2>6, <2>9 DEF Types
  <2>11. ASSUME NEW t \in Sessions, NEW a \in Actors PROVE Watched(t, a)'
    <3>1. Watched(t, a)
      BY DEF SupervisorInv
    <3>2. CASE t # s
      BY <2>5, <2>6, <3>1, <3>2 DEF Watched
    <3>3. CASE t = s
      <4> DEFINE w == watch[s][a]
                 w2 == watch'[s][a]
      <4>1. /\ w2 = IF e.actor = a THEN Observe(w, e) ELSE w
            /\ Tracks(Own(a, history[s]), w)
            /\ Len(history[s]) < HistoryLimit => Exact(Own(a, history[s]), w)
        BY <2>6, <3>1, <3>3 DEF Watched
      <4> HIDE DEF w, w2
      <4>2. /\ Tracks(Own(a, Remember(history[s], e)), w2)
            /\ Len(Remember(history[s], e)) < HistoryLimit =>
                 Exact(Own(a, Remember(history[s], e)), w2)
        BY <2>4, <4>1, WatchedWindow
      <4> QED BY <2>5, <3>3, <4>2 DEF Watched, w2
    <3> QED BY <3>2, <3>3
  <2> QED BY <2>10, <2>11 DEF SupervisorInv
<1> QED BY <1>1, <1>2

(* The verdict a step returns is the one the observer would give.           *)
LEMMA StepIsJudgedRight ==
  ASSUME SupervisorInv, StopsAreJudgedRight, LoopsAreReal, [Next]_vars
  PROVE  StopsAreJudgedRight' /\ LoopsAreReal'
<1>1. CASE UNCHANGED vars
  BY <1>1 DEF vars, StopsAreJudgedRight, LoopsAreReal
<1>2. CASE Next
  <2>0. Types
    BY DEF SupervisorInv
  <2>1. PICK s \in Sessions, b \in Bodies, q \in Nat :
          LET e == Stamp(b, q)
          IN  /\ last' = [session |-> s, event |-> e, evidence |-> Detect(e, history[s]),
                          decision |-> Decide(e, Detect(e, history[s]))]
              /\ history' = [history EXCEPT ![s] = Remember(history[s], e)]
              /\ watch' = [watch EXCEPT ![s][e.actor] = Observe(watch[s][e.actor], e)]
    BY <1>2, <2>0, StepEffect
  <2>2. PICK e \in Events : e = Stamp(b, q)
    BY DEF Events
  <2>3. PICK window \in Seq(Events) : window = history[s]
    BY <2>0 DEF Types
  <2>4. Len(window) <= HistoryLimit /\ Len(window) \in Nat /\ Len(window) + 1 \in Nat
    BY <2>0, <2>3 DEF Types, TypeOK
  <2>5. e.actor \in Actors
    BY <2>2, StampedEvent
  <2> DEFINE w == watch[s][e.actor]
             h == DetectionHistory(e, window)
             next == Append(window, e)
             found == Detect(e, window)
  <2>6. Tracks(h, w) /\ (Len(window) < HistoryLimit => Exact(h, w))
    <3>1. Watched(s, e.actor)
      BY <2>5 DEF SupervisorInv
    <3>2. Own(e.actor, window) = h
      BY DEF Own, DetectionHistory
    <3> QED BY <2>3, <3>1, <3>2 DEF Watched
  <2>7. /\ last'.session = s /\ last'.event = e /\ last'.evidence = found
        /\ last'.decision = Decide(e, found)
    BY <2>1, <2>2, <2>3
  <2>8. watch'[s][e.actor] = Observe(w, e)
    <3>1. /\ watch = [t \in Sessions |-> [a \in Actors |-> watch[t][a]]]
          /\ watch' = [watch EXCEPT ![s][e.actor] = Observe(watch[s][e.actor], e)]
      BY <2>0, <2>1, <2>2 DEF Types
    <3> QED BY <2>5, <3>1
  <2>9. Len(history'[s]) < HistoryLimit => Len(window) < HistoryLimit
    <3>1. history'[s] = Remember(window, e)
      BY <2>0, <2>1, <2>2, <2>3 DEF Types
    <3> QED BY <2>4, <3>1, WindowAfter
  <2>10. Len(history'[s]) < HistoryLimit \/ Len(history'[s]) >= HistoryLimit
    <3>1. PICK left \in Seq(Events) : left = Remember(window, e)
      BY <2>4, WindowAfter
    <3>2. history'[s] = left
      BY <2>0, <2>1, <2>2, <2>3, <3>1 DEF Types
    <3> QED BY <3>2, GuardAssumption
  <2> HIDE DEF w
  <2>11. StopsAreJudgedRight'
    <3> SUFFICES ASSUME e.type \in StopTypes
                 PROVE  LET validated == Observe(w, e).status \in {"clean", "success"}
                            action == Decide(e, found).action
                        IN  /\ action = "continue" => ~validated
                            /\ Len(history'[s]) < HistoryLimit => (action = "allow" <=> validated)
      BY <2>7, <2>8 DEF StopsAreJudgedRight
    <3> HIDE DEF h, found
    <3>1. /\ Decide(e, found).action = "continue" =>
               Observe(w, e).status \notin {"clean", "success"}
          /\ Exact(h, w) => (Decide(e, found).action = "allow"
                               <=> Observe(w, e).status \in {"clean", "success"})
      BY <2>4, <2>6, StopVerdict DEF h, found
    <3> QED BY <2>6, <2>9, <3>1
  <2>12. LoopsAreReal'
    <3> DEFINE w2 == Observe(w, e)
               result == e.type \in ResultTypes
               failing == result /\ w2.failures >= FailureThreshold
               repeating == e.type = "tool.before" /\ w2.repeats >= RepeatThreshold
               reported == Has(found, "loop")
    <3>1. reported <=> LoopDetector(e, h) # <<>>
      BY <2>4, LoopIsReported
    <3>2. /\ Extended(h, Len(window) + 1, e, DetectionHistory(e, next))
          /\ Placed(h, Len(window)) /\ Placed(DetectionHistory(e, next), Len(next))
      <4>1. Len(next) = Len(window) + 1
        OBVIOUS
      <4>2. Len(next) \in Nat
        BY <2>4, <4>1
      <4>3. Extended(h, Len(window) + 1, e, DetectionHistory(e, next))
        BY OwnAppended
      <4> HIDE DEF next
      <4> QED BY <2>4, <4>2, <4>3, OwnPlaced
    <3>3. /\ result /\ LoopDetector(e, h) # <<>> => failing
          /\ Exact(h, w) /\ (failing \/ repeating) => LoopDetector(e, h) # <<>>
      <4> HIDE DEF h, next
      <4> QED BY <2>4, <2>6, <3>2, LoopVerdict
    <3>4. /\ result /\ reported => failing
          /\ failing \/ repeating => reported \/ Len(history'[s]) >= HistoryLimit
      <4> HIDE DEF h, w2, result, failing, repeating, reported
      <4> QED BY <2>6, <2>9, <2>10, <3>1, <3>3
    <3> HIDE DEF found
    <3> QED BY <2>7, <2>8, <3>4 DEF LoopsAreReal, Has
  <2> QED BY <2>11, <2>12
<1> QED BY <1>1, <1>2

\* The supervisor's verdicts and the observer agree in every behaviour.
LEMMA SupervisorAgrees ==
  Spec => [](SupervisorInv /\ StopsAreJudgedRight /\ LoopsAreReal)
<1>1. Init => SupervisorInv /\ StopsAreJudgedRight /\ LoopsAreReal
  BY InitSupervisor DEF Init, StopsAreJudgedRight, LoopsAreReal
<1>2. (SupervisorInv /\ StopsAreJudgedRight /\ LoopsAreReal) /\ [Next]_vars
        => (SupervisorInv /\ StopsAreJudgedRight /\ LoopsAreReal)'
  BY NextSupervisor, StepIsJudgedRight
<1> QED BY <1>1, <1>2, PTL DEF Spec

(* Every session keeps at most HistoryLimit events, each of them one that   *)
(* was submitted, with a number (supervisor.py:96-106).                     *)
THEOREM SupervisorTypes ==
  Spec => []TypeOK
<1>1. SupervisorInv => TypeOK
  BY DEF SupervisorInv, Types
<1> QED BY <1>1, SupervisorAgrees, PTL

(* The bounded history holds no stop that an observer of the whole session  *)
(* would let through, and misses none while the session fits in it, for any *)
(* number of sessions and actors (validation.py:17-61, helpers.py:97-107).  *)
THEOREM StopsAreRight ==
  Spec => []StopsAreJudgedRight
BY SupervisorAgrees, PTL

(* A reported failure loop is a real streak of FailureThreshold identical   *)
(* failures, and no streak or repetition of a session that fits in the      *)
(* window goes unreported (loop.py:41-93).                                  *)
THEOREM LoopsAreRight ==
  Spec => []LoopsAreReal
BY SupervisorAgrees, PTL
=============================================================================
