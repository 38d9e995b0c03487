----------------------------- MODULE Guard_proofs -----------------------------
(***************************************************************************)
(* What the detectors compute, said without Max and without a window: how  *)
(* the state of the validations changes when an event is added and when the*)
(* oldest one is dropped, and what evidence the policy makes decisive.     *)
(***************************************************************************)
EXTENDS GuardWatch, FiniteSetTheorems, SequenceTheorems, TLAPS

(* Every set of numbers with an upper bound has a largest one.              *)
LEMMA LargestOf ==
  ASSUME NEW n \in Nat, NEW S, S \subseteq 0..n, S # {}
  PROVE  Max(S) \in S /\ \A j \in S : j <= Max(S)
<1> DEFINE R == StrictSubsetOrdering(Nat)
           T == {i..n : i \in S}
<1>1. T \subseteq FiniteSubsetsOf(Nat) /\ T # {}
  <2>1. ASSUME NEW i \in S PROVE i..n \in SUBSET Nat /\ IsFiniteSet(i..n)
    BY FS_Interval
  <2>2. \A t \in T : t \in SUBSET Nat /\ IsFiniteSet(t)
    BY <2>1
  <2> HIDE DEF T
  <2>3. T \subseteq FiniteSubsetsOf(Nat)
    BY <2>2 DEF FiniteSubsetsOf
  <2>4. T # {}
    BY DEF T
  <2> QED BY <2>3, <2>4
<1>2. PICK t \in T : \A u \in T : ~(<<u, t>> \in R)
  <2>1. IsWellFoundedOn(R, FiniteSubsetsOf(Nat))
    BY FS_StrictSubsetOrderingWellFounded
  <2> HIDE DEF R, T
  <2>3. T \subseteq FiniteSubsetsOf(Nat) /\ T # {}
    BY <1>1
  <2> QED BY <2>1, <2>3, WFMin
<1>3. PICK i \in S : t = i..n
  OBVIOUS
<1>4. ASSUME NEW j \in S, j > i PROVE FALSE
  <2>1. /\ j..n \in T /\ j..n \in SUBSET Nat /\ i..n \in SUBSET Nat
        /\ j..n \subseteq i..n /\ i \in i..n /\ i \notin j..n
    BY <1>4
  <2> QED BY <1>2, <1>3, <2>1 DEF StrictSubsetOrdering
<1>5. \A j \in S : i >= j
  BY <1>4
<1> HIDE DEF T, R
<1>6. \E x \in S : \A y \in S : x >= y
  BY <1>5
<1>7. Max(S) \in S /\ \A y \in S : Max(S) >= y
  BY <1>6 DEF Max
<1> QED BY <1>7

(* And every such set has a smallest one.                                   *)
LEMMA SmallestOf ==
  ASSUME NEW n \in Nat, NEW S, S \subseteq 0..n, S # {}
  PROVE  Min(S) \in S /\ \A j \in S : Min(S) <= j
<1> DEFINE T == {n - i : i \in S}
<1>1. T \subseteq 0..n /\ T # {}
  <2>1. \A i \in S : n - i \in 0..n
    OBVIOUS
  <2> QED BY <2>1
<1>2. \A i \in S : n - i \in T
  OBVIOUS
<1>3. \A t \in T : \E i \in S : t = n - i
  OBVIOUS
<1> HIDE DEF T
<1>4. PICK t \in T : \A u \in T : u <= t
  BY <1>1, LargestOf
<1>5. PICK i \in S : t = n - i
  BY <1>3
<1>6. ASSUME NEW j \in S PROVE i <= j
  <2>1. n - j <= n - i /\ i \in 0..n /\ j \in 0..n
    BY <1>2, <1>4, <1>5
  <2> QED BY <2>1
<1>7. \E x \in S : \A y \in S : x <= y
  BY <1>6
<1> QED BY <1>7 DEF Min

-----------------------------------------------------------------------------
(* The state of the validations                                             *)

\* The events of h are at positions 1 to n at most.
Placed(h, n) == n \in Nat /\ DOMAIN h \subseteq 1..n

Shown(outcome) == IF outcome \in {"success", "failure"} THEN outcome ELSE "unknown"

\* The write at w is the last one.
LastWrite(h, w) ==
  w \in DOMAIN h /\ IsWrite(h[w]) /\ \A i \in DOMAIN h : i > w => ~IsWrite(h[i])

\* The validation at r is the last one after w.
LastValidation(h, w, r) ==
  /\ r \in DOMAIN h /\ r > w /\ IsValidation(h[r])
  /\ \A i \in DOMAIN h : i > r => ~IsValidation(h[i])

Untouched(h) == \A i \in DOMAIN h : ~IsWrite(h[i])

Unvalidated(h) ==
  \E w \in DOMAIN h : LastWrite(h, w) /\ \A i \in DOMAIN h : i > w => ~IsValidation(h[i])

ValidatedWith(h, v) ==
  \E w, r \in DOMAIN h : LastWrite(h, w) /\ LastValidation(h, w, r) /\ v = Shown(h[r].outcome)

\* LatestWrite finds the last write, or that there is none.
LEMMA LatestWriteIsLast ==
  ASSUME NEW h, NEW n, Placed(h, n)
  PROVE  \/ LatestWrite(h) = 0 /\ Untouched(h)
         \/ LatestWrite(h) # 0 /\ LastWrite(h, LatestWrite(h))
<1> DEFINE S == {0} \cup {i \in DOMAIN h : IsWrite(h[i])}
<1>1. S \subseteq 0..n /\ S # {} /\ n \in Nat
  BY DEF Placed
<1>2. LatestWrite(h) = Max(S)
  BY DEF LatestWrite
<1>3. \A i \in DOMAIN h : i \in Nat /\ i # 0
  BY DEF Placed
<1> HIDE DEF S
<1>4. Max(S) \in S /\ \A j \in S : j <= Max(S)
  BY <1>1, LargestOf
<1> USE DEF S
<1>5. \A i \in DOMAIN h : IsWrite(h[i]) => i <= Max(S)
  BY <1>4
<1>6. Max(S) \in Nat
  BY <1>1, <1>4
<1> HIDE DEF S
<1>7. CASE Max(S) = 0
  BY <1>2, <1>3, <1>5, <1>7 DEF Untouched
<1>8. CASE Max(S) # 0
  <2>1. Max(S) \in DOMAIN h /\ IsWrite(h[Max(S)])
    BY <1>4, <1>8 DEF S
  <2> QED BY <1>2, <1>3, <1>5, <1>6, <1>8, <2>1 DEF LastWrite
<1> QED BY <1>7, <1>8

(* The state is one of three, and decided by the last write and by the last *)
(* validation after it.                                                     *)
LEMMA StateOfValidations ==
  ASSUME NEW h, NEW n, Placed(h, n)
  PROVE  /\ Untouched(h) => ValidationState(h) = "clean"
         /\ Unvalidated(h) => ValidationState(h) = "missing"
         /\ \A v : ValidatedWith(h, v) => ValidationState(h) = v
         /\ Untouched(h) \/ Unvalidated(h) \/ ValidatedWith(h, ValidationState(h))
<1> DEFINE w == LatestWrite(h)
           runs == ValidationsAfter(h, w)
<1>1. \A i \in DOMAIN h : i \in Nat /\ i # 0 /\ i <= n
  BY DEF Placed
<1>2. \/ w = 0 /\ Untouched(h)
      \/ w # 0 /\ LastWrite(h, w)
  BY LatestWriteIsLast
<1>3. \A x, y \in DOMAIN h : LastWrite(h, x) /\ LastWrite(h, y) => x = y
  BY <1>1 DEF LastWrite
<1>4. runs = {i \in DOMAIN h : i > w /\ IsValidation(h[i])}
  BY DEF ValidationsAfter
<1>5. ValidationState(h) = CASE w = 0 -> "clean"
                             [] w # 0 /\ runs = {} -> "missing"
                             [] OTHER -> Shown(h[Max(runs)].outcome)
  BY DEF ValidationState, Shown
<1> HIDE DEF w, runs
<1>6. CASE w = 0
  BY <1>2, <1>5, <1>6 DEF Untouched, Unvalidated, ValidatedWith, LastWrite
<1>7. CASE w # 0 /\ runs = {}
  <2>1. LastWrite(h, w) /\ w \in DOMAIN h /\ ~Untouched(h)
    BY <1>2, <1>7 DEF LastWrite, Untouched
  <2>2. Unvalidated(h)
    BY <1>4, <1>7, <2>1 DEF Unvalidated
  <2>3. ~ \E v : ValidatedWith(h, v)
    BY <1>3, <1>4, <1>7, <2>1 DEF ValidatedWith, LastValidation
  <2> QED BY <1>5, <1>7, <2>1, <2>2, <2>3
<1>8. CASE w # 0 /\ runs # {}
  <2>1. LastWrite(h, w) /\ w \in DOMAIN h /\ ~Untouched(h)
    BY <1>2, <1>8 DEF LastWrite, Untouched
  <2>2. runs \subseteq 0..n /\ n \in Nat
    BY <1>1, <1>4 DEF Placed
  <2>3. Max(runs) \in runs /\ \A j \in runs : j <= Max(runs)
    BY <1>8, <2>2, LargestOf
  <2>4. LastValidation(h, w, Max(runs)) /\ Max(runs) \in DOMAIN h
    BY <1>1, <1>4, <2>1, <2>3 DEF LastValidation
  <2>5. \A r \in DOMAIN h : LastValidation(h, w, r) => r = Max(runs)
    BY <1>1, <2>4 DEF LastValidation
  <2>6. ~Unvalidated(h)
    BY <1>3, <2>1, <2>4 DEF Unvalidated, LastValidation
  <2>7. ValidationState(h) = Shown(h[Max(runs)].outcome)
    BY <1>5, <1>8
  <2>8. ValidatedWith(h, ValidationState(h))
    BY <2>1, <2>4, <2>7 DEF ValidatedWith
  <2>9. ASSUME NEW v, ValidatedWith(h, v) PROVE ValidationState(h) = v
    BY <1>3, <2>1, <2>5, <2>7, <2>9 DEF ValidatedWith
  <2> QED BY <2>1, <2>6, <2>8, <2>9
<1> QED BY <1>6, <1>7, <1>8

-----------------------------------------------------------------------------
(* Adding the newest event and dropping the oldest position                 *)

\* h2 is h with e behind it, at position k.
Extended(h, k, e, h2) ==
  /\ DOMAIN h2 = DOMAIN h \cup {k} /\ h2[k] = e
  /\ \A i \in DOMAIN h : i < k /\ h2[i] = h[i]

\* h2 is h without position 1, the others moved up.
Shifted(h, h2) ==
  /\ \A i \in DOMAIN h2 : i \in Nat \ {0} /\ i + 1 \in DOMAIN h /\ h2[i] = h[i + 1]
  /\ \A i \in DOMAIN h : i # 1 => i - 1 \in DOMAIN h2

(* A window recomputes what an observer would have remembered: one more     *)
(* event changes the state as NextStatus says.                              *)
LEMMA StateFollows ==
  ASSUME NEW h, NEW n, Placed(h, n), NEW k \in Nat, NEW e, NEW h2, NEW n2, Placed(h2, n2),
         Extended(h, k, e, h2)
  PROVE  ValidationState(h2) = NextStatus(ValidationState(h), e)
<1>1. /\ DOMAIN h2 = DOMAIN h \cup {k} /\ h2[k] = e /\ k \notin DOMAIN h
      /\ \A i \in DOMAIN h : i < k /\ h2[i] = h[i] /\ i \in Nat
  BY DEF Extended, Placed
<1>2. ~(IsWrite(e) /\ IsValidation(e))
  BY DEF IsWrite, IsValidation, ResultTypes
<1>3. \A v : Shown(v) # "clean"
  BY DEF Shown
<1>4. ValidationState(h) = "clean" <=> Untouched(h)
  BY <1>3, StateOfValidations DEF ValidatedWith
<1>5. CASE IsWrite(e)
  <2>1. LastWrite(h2, k) /\ \A i \in DOMAIN h2 : i > k => ~IsValidation(h2[i])
    BY <1>1, <1>5 DEF LastWrite
  <2>2. Unvalidated(h2)
    BY <1>1, <2>1 DEF Unvalidated
  <2>3. ValidationState(h2) = "missing"
    BY <2>2, StateOfValidations
  <2> QED BY <1>2, <1>5, <2>3 DEF NextStatus
<1>6. CASE ~IsWrite(e)
  <2>1. \A w \in DOMAIN h : LastWrite(h, w) => LastWrite(h2, w)
    BY <1>1, <1>6 DEF LastWrite
  <2>2. CASE Untouched(h)
    <3>1. Untouched(h2)
      BY <1>1, <1>6, <2>2 DEF Untouched
    <3> QED BY <1>6, <2>2, <3>1, StateOfValidations DEF NextStatus
  <2>3. CASE ~Untouched(h) /\ IsValidation(e)
    <3>1. PICK w \in DOMAIN h : LastWrite(h, w)
      BY <2>3, StateOfValidations DEF Unvalidated, ValidatedWith
    <3>2. LastValidation(h2, w, k)
      BY <1>1, <2>3, <3>1 DEF LastValidation
    <3>3. ValidatedWith(h2, Shown(e.outcome))
      BY <1>1, <2>1, <3>1, <3>2 DEF ValidatedWith
    <3>4. ValidationState(h2) = Shown(e.outcome)
      BY <3>3, StateOfValidations
    <3> QED BY <1>4, <1>6, <2>3, <3>4 DEF NextStatus, Shown
  <2>4. CASE ~Untouched(h) /\ ~IsValidation(e)
    <3>1. NextStatus(ValidationState(h), e) = ValidationState(h)
      BY <1>6, <2>4 DEF NextStatus
    <3>2. CASE Unvalidated(h)
      <4>1. Unvalidated(h2)
        BY <1>1, <2>1, <2>4, <3>2 DEF Unvalidated
      <4> QED BY <3>1, <3>2, <4>1, StateOfValidations
    <3>3. CASE ValidatedWith(h, ValidationState(h))
      <4>1. \A w, r \in DOMAIN h : LastValidation(h, w, r) => LastValidation(h2, w, r)
        BY <1>1, <2>4 DEF LastValidation
      <4>2. ValidatedWith(h2, ValidationState(h))
        BY <1>1, <2>1, <3>3, <4>1 DEF ValidatedWith
      <4> QED BY <3>1, <4>2, StateOfValidations
    <3> QED BY <2>4, <3>2, <3>3, StateOfValidations
  <2> QED BY <2>2, <2>3, <2>4
<1> QED BY <1>5, <1>6

(* What falls out of the window can only make the state clean, by taking    *)
(* the last write with it.                                                  *)
LEMMA StateForgets ==
  ASSUME NEW h, NEW n, Placed(h, n), NEW h2, NEW n2, Placed(h2, n2), Shifted(h, h2)
  PROVE  ValidationState(h2) \in {"clean", ValidationState(h)}
<1>1. /\ \A i \in DOMAIN h2 : i \in Nat /\ i # 0 /\ i + 1 \in DOMAIN h /\ h2[i] = h[i + 1]
      /\ \A i \in DOMAIN h : i # 1 => i \in Nat /\ i # 0 /\ i - 1 \in DOMAIN h2
  BY DEF Shifted, Placed
<1>2. ASSUME NEW w \in DOMAIN h, w # 1, LastWrite(h, w)
      PROVE  LastWrite(h2, w - 1) /\ w - 1 \in DOMAIN h2
  <2>1. /\ w - 1 \in DOMAIN h2 /\ IsWrite(h[w]) /\ w \in Nat /\ h2[w - 1] = h[w]
        /\ \A i \in DOMAIN h : i > w => ~IsWrite(h[i])
    BY <1>1, <1>2 DEF LastWrite
  <2>2. ASSUME NEW i \in DOMAIN h2, i > w - 1 PROVE ~IsWrite(h2[i])
    BY <1>1, <2>1, <2>2
  <2> QED BY <2>1, <2>2 DEF LastWrite
<1>3. CASE Untouched(h) \/ LastWrite(h, 1)
  <2>1. ASSUME NEW i \in DOMAIN h2 PROVE ~IsWrite(h2[i])
    BY <1>1, <1>3 DEF Untouched, LastWrite
  <2>2. Untouched(h2)
    BY <2>1 DEF Untouched
  <2> QED BY <2>2, StateOfValidations
<1>4. CASE ~LastWrite(h, 1) /\ Unvalidated(h)
  <2>1. PICK w \in DOMAIN h : LastWrite(h, w) /\ \A i \in DOMAIN h : i > w => ~IsValidation(h[i])
    BY <1>4 DEF Unvalidated
  <2>2. LastWrite(h2, w - 1) /\ w - 1 \in DOMAIN h2 /\ w \in Nat
    BY <1>1, <1>2, <1>4, <2>1
  <2>3. ASSUME NEW i \in DOMAIN h2, i > w - 1 PROVE ~IsValidation(h2[i])
    BY <1>1, <2>1, <2>2, <2>3
  <2>4. Unvalidated(h2)
    BY <2>2, <2>3 DEF Unvalidated
  <2> QED BY <1>4, <2>4, StateOfValidations
<1>5. CASE ~LastWrite(h, 1) /\ ValidatedWith(h, ValidationState(h))
  <2>1. PICK w, r \in DOMAIN h : LastWrite(h, w) /\ LastValidation(h, w, r)
                                /\ ValidationState(h) = Shown(h[r].outcome)
    BY <1>5 DEF ValidatedWith
  <2>2. LastWrite(h2, w - 1) /\ w - 1 \in DOMAIN h2 /\ w \in Nat
    BY <1>1, <1>2, <1>5, <2>1
  <2>3. /\ r > w /\ r \in Nat /\ r - 1 \in DOMAIN h2 /\ h2[r - 1] = h[r] /\ IsValidation(h[r])
        /\ \A i \in DOMAIN h : i > r => ~IsValidation(h[i])
    BY <1>1, <2>1, <2>2 DEF LastValidation, Placed
  <2>4. ASSUME NEW i \in DOMAIN h2, i > r - 1 PROVE ~IsValidation(h2[i])
    BY <1>1, <2>3, <2>4
  <2>5. LastValidation(h2, w - 1, r - 1)
    BY <2>2, <2>3, <2>4 DEF LastValidation
  <2>6. ValidatedWith(h2, ValidationState(h))
    BY <2>1, <2>2, <2>3, <2>5 DEF ValidatedWith
  <2> QED BY <2>6, StateOfValidations
<1> QED BY <1>3, <1>4, <1>5, StateOfValidations

-----------------------------------------------------------------------------
(* The evidence and what the policy makes of it                             *)

Detectors == {"constraint", "scope", "loop", "validation", "state"}
DriftTypes == {"constraint_drift", "scope_drift", "loop_drift", "validation_drift", "state_drift"}
Severities == {"info", "low", "medium", "high", "critical"}

Items ==
  [detector : Detectors, drift_type : DriftTypes, severity : Severities, score : 0..100]

\* What one detector may report.
AtMostOne == {<<>>} \cup {<<item>> : item \in Items}

\* A detector's report is an item of evidence.
LEMMA AnItem ==
  ASSUME NEW detector \in Detectors, NEW drift \in DriftTypes, NEW score \in 0..100,
         NEW severity \in Severities
  PROVE  /\ Evidence(detector, drift, severity, score) \in Items
         /\ <<Evidence(detector, drift, severity, score)>> \in AtMostOne
<1>1. Evidence(detector, drift, severity, score) \in Items
  BY DEF Evidence, Items
<1> QED BY <1>1, Zenon DEF AtMostOne

\* The reports with fixed scores are items of evidence.
LEMMA Reports ==
  /\ Evidence("constraint", "constraint_drift", "critical", 100) \in Items
  /\ <<Evidence("constraint", "constraint_drift", "critical", 100)>> \in AtMostOne
  /\ <<Evidence("scope", "scope_drift", "high", 95)>> \in AtMostOne
  /\ <<Evidence("validation", "validation_drift", "high", 95)>> \in AtMostOne
  /\ <<Evidence("validation", "validation_drift", "medium", 75)>> \in AtMostOne
  /\ <<Evidence("state", "state_drift", "high", 98)>> \in AtMostOne
<1>1. /\ 100 \in 0..100 /\ 98 \in 0..100 /\ 95 \in 0..100 /\ 75 \in 0..100
      /\ {"constraint", "scope", "validation", "state"} \subseteq Detectors
      /\ {"constraint_drift", "scope_drift", "validation_drift", "state_drift"} \subseteq DriftTypes
      /\ {"critical", "high", "medium"} \subseteq Severities
  BY DEF Detectors, DriftTypes, Severities
<1> QED BY <1>1, AnItem, Zenon

\* Nothing or one item is a sequence of items.
LEMMA AtMostOneIsSeq ==
  ASSUME NEW found \in AtMostOne
  PROVE  found \in Seq(Items) /\ <<>> \in AtMostOne
<1>1. CASE found = <<>>
  BY <1>1 DEF AtMostOne
<1>2. ASSUME NEW item \in Items, found = <<item>> PROVE found \in Seq(Items)
  BY <1>2
<1> QED BY <1>1, <1>2 DEF AtMostOne

\* The positions of a history can be counted.
LEMMA Counted ==
  ASSUME NEW h, NEW n, Placed(h, n), NEW S \in SUBSET DOMAIN h
  PROVE  IsFiniteSet(S) /\ Cardinality(S) \in Nat
<1>1. IsFiniteSet(1..n) /\ S \in SUBSET (1..n)
  BY FS_Interval DEF Placed
<1> QED BY <1>1, FS_Subset, FS_CardinalityType

(* Every detector reports at most one item, with a score of at most 100.    *)
LEMMA Findings ==
  ASSUME NEW e, NEW h, NEW n, Placed(h, n)
  PROVE  {ConstraintDetector(e), ScopeDetector(e), LoopDetector(e, h),
          ValidationDetector(e, h), StateDetector(e, h)} \subseteq AtMostOne
<1>1. /\ FailureRun(e, h) \in Nat
      /\ RepeatRun(e, h) \in Nat
  <2> DEFINE Failed(i) == h[i].outcome = "failure" /\ Fingerprint(h[i]) = Fingerprint(e)
             Same(i) == Fingerprint(h[i]) = Fingerprint(e)
             F == {i \in ToolResults(h) : \A j \in ToolResults(h) : j >= i => Failed(j)}
             G == {i \in Calls(h) : \A j \in Calls(h) : j >= i => Same(j)}
  <2>1. F \in SUBSET DOMAIN h /\ G \in SUBSET DOMAIN h
    BY DEF ToolResults, Calls
  <2>2. FailureRun(e, h) = 1 + Cardinality(F) /\ RepeatRun(e, h) = 1 + Cardinality(G)
    BY DEF FailureRun, RepeatRun
  <2> HIDE DEF F, G
  <2>3. Cardinality(F) \in Nat /\ Cardinality(G) \in Nat
    BY <2>1, Counted
  <2> QED BY <2>2, <2>3
<1>2. \A score \in Nat : LoopEvidence(score) \in AtMostOne
  <2> SUFFICES ASSUME NEW score \in Nat
               PROVE  LoopEvidence(score) \in AtMostOne
    OBVIOUS
  <2>1. PICK x \in 0..100 : x = Min({100, score})
    BY DEF Min
  <2>2. <<Evidence("loop", "loop_drift", "high", x)>> \in AtMostOne
    BY AnItem DEF Detectors, DriftTypes, Severities
  <2> QED BY <2>1, <2>2 DEF LoopEvidence
<1>3. LoopDetector(e, h) \in AtMostOne
  <2>1. /\ 75 + 4 * FailureRun(e, h) \in Nat
        /\ 70 + 5 * RepeatRun(e, h) \in Nat
        /\ 90 \in Nat
    BY <1>1
  <2>2. LoopDetector(e, h) \in {<<>>, LoopEvidence(75 + 4 * FailureRun(e, h)),
                                LoopEvidence(70 + 5 * RepeatRun(e, h)), LoopEvidence(90)}
    BY DEF LoopDetector
  <2>3. <<>> \in AtMostOne
    BY DEF AtMostOne
  <2> QED BY <1>2, <2>1, <2>2, <2>3
<1>4. <<>> \in AtMostOne
  BY DEF AtMostOne
<1>5. ConstraintDetector(e) \in AtMostOne /\ ScopeDetector(e) \in AtMostOne
  BY <1>4, Reports DEF ConstraintDetector, ScopeDetector
<1>6. ValidationDetector(e, h) \in AtMostOne /\ StateDetector(e, h) \in AtMostOne
  BY <1>4, Reports DEF ValidationDetector, StateDetector
<1> QED BY <1>3, <1>5, <1>6

Forbidden(e) ==
  e.type \in PreTypes /\ (e.tool \in ForbiddenTools \/ e.command \in ForbiddenCommands)

\* The severities in their order.
LEMMA Ranks ==
  /\ Rank["info"] = 0 /\ Rank["low"] = 1 /\ Rank["medium"] = 2 /\ Rank["high"] = 3
  /\ Rank["critical"] = 4
BY DEF Rank

\* No item is stronger than a critical one with the full score.
LEMMA NothingStronger ==
  ASSUME NEW first \in Items, first.severity = "critical", first.score = 100, NEW item \in Items
  PROVE  ~Weaker(first, item)
<1>1. PICK r \in 0..4 : r = Rank[item.severity]
  BY Ranks DEF Items, Severities
<1>2. PICK score \in 0..100 : score = item.score
  BY DEF Items
<1>3. ~(4 < r) /\ ~(100 < score)
  OBVIOUS
<1> QED BY <1>1, <1>2, <1>3, Ranks, Zenon DEF Weaker

(* Nothing is stronger than a critical item with the full score, and the    *)
(* first of the strongest is decisive.                                      *)
LEMMA CriticalIsPrimary ==
  ASSUME NEW found \in Seq(Items), found # <<>>,
         found[1].severity = "critical", found[1].score = 100
  PROVE  Primary(found) = found[1]
<1> DEFINE Best == {i \in 1..Len(found) :
                      \A j \in 1..Len(found) : ~Weaker(found[i], found[j])}
<1>1. Len(found) \in Nat /\ Len(found) >= 1
  OBVIOUS
<1>2. ASSUME NEW j \in 1..Len(found) PROVE ~Weaker(found[1], found[j])
  BY <1>1, NothingStronger
<1>3. 1 \in Best /\ Best \subseteq Nat /\ \A i \in Best : 1 <= i
  BY <1>1, <1>2
<1>4. Primary(found) = found[Min(Best)]
  BY DEF Primary
<1> HIDE DEF Best
<1>5. \E x \in Best : \A y \in Best : x <= y
  BY <1>3
<1>6. Min(Best) \in Best /\ \A y \in Best : Min(Best) <= y
  BY <1>5 DEF Min
<1>7. PICK m \in Best : m = Min(Best) /\ m <= 1
  BY <1>3, <1>6
<1>8. m = 1
  BY <1>3, <1>7
<1> QED BY <1>4, <1>7, <1>8

\* Before a call, evidence of a high severity blocks.
LEMMA BlockAction ==
  ASSUME NEW e, e.type \in PreTypes, NEW item, item.severity \in {"high", "critical"}
  PROVE  Action(e, item) = "block"
BY DEF Action, PreTypes, StopTypes

(* A forbidden call is blocked, whatever else there is against it.          *)
LEMMA ForbiddenIsBlocked ==
  ASSUME NEW e, NEW history, Len(history) \in Nat, Forbidden(e)
  PROVE  LET decision == Decide(e, Detect(e, history))
         IN  decision.action = "block" /\ decision.fallback = "warn"
<1> DEFINE h == DetectionHistory(e, history)
           first == Evidence("constraint", "constraint_drift", "critical", 100)
           found == Detect(e, history)
<1>1. Placed(h, Len(history))
  BY DEF Placed, DetectionHistory
<1> HIDE DEF h
<1>2. PICK s2, s3, s4, s5 \in Seq(Items) : found = <<first>> \o s2 \o s3 \o s4 \o s5
  <2>1. ConstraintDetector(e) = <<first>>
    BY DEF ConstraintDetector, Forbidden
  <2>2. /\ ScopeDetector(e) \in Seq(Items) /\ LoopDetector(e, h) \in Seq(Items)
        /\ ValidationDetector(e, h) \in Seq(Items) /\ StateDetector(e, h) \in Seq(Items)
    BY <1>1, Findings, AtMostOneIsSeq
  <2> QED BY <2>1, <2>2 DEF Detect, DetectIn, h
<1>3. first \in Items /\ first.severity = "critical" /\ first.score = 100
  <2>1. first \in Items
    BY Reports
  <2> QED BY <2>1 DEF Evidence
<1> HIDE DEF found, first
<1>4. found \in Seq(Items) /\ found # <<>> /\ found[1] = first /\ Len(found) \in Nat /\ Len(found) >= 1
  BY <1>2, <1>3
<1>5. Primary(found) = first
  BY <1>3, <1>4, CriticalIsPrimary
<1>6. Action(e, first) = "block"
  BY <1>3, BlockAction DEF Forbidden
<1> QED BY <1>4, <1>5, <1>6 DEF Decide, found

\* At a stop, evidence of a medium or high severity continues.
LEMMA ContinueAction ==
  ASSUME NEW e, e.type \in StopTypes, NEW item, item.severity \in {"medium", "high"}
  PROVE  Action(e, item) = "continue"
BY DEF Action, PreTypes, StopTypes

\* What the validation detector and the state detector report about a stop.
AgainstStop(v, s) ==
  /\ v.severity \in {"medium", "high"} /\ v.score \in {75, 95}
  /\ s.severity = "high" /\ s.score = 98

(* The primary item of what is found against a stop is never a low one.     *)
LEMMA StopPrimary ==
  ASSUME NEW v, NEW s, AgainstStop(v, s), NEW found, found = <<v>> \/ found = <<v, s>>
  PROVE  Primary(found).severity \in {"medium", "high"}
<1> DEFINE Best == {i \in 1..Len(found) :
                      \A j \in 1..Len(found) : ~Weaker(found[i], found[j])}
<1>1. Primary(found) = found[Min(Best)]
  BY DEF Primary
<1>2. ~Weaker(v, v) /\ ~Weaker(s, s) /\ ~Weaker(s, v)
  BY Ranks DEF Weaker, AgainstStop
<1>3. \E i \in {1, 2} : i \in Best /\ \A j \in Best : i <= j /\ j \in {1, 2}
  <2>1. CASE found = <<v>>
    <3>1. Best = {1}
      BY <1>2, <2>1
    <3> HIDE DEF Best
    <3> QED BY <3>1
  <2>2. CASE found = <<v, s>>
    <3>1. Best \in {{1, 2}, {2}}
      <4>1. found[1] = v /\ found[2] = s /\ 1..Len(found) = {1, 2}
        BY <2>2
      <4> QED BY <1>2, <4>1
    <3> HIDE DEF Best
    <3> QED BY <3>1
  <2> QED BY <2>1, <2>2
<1> HIDE DEF Best
<1>4. \E x \in Best : \A y \in Best : x <= y
  BY <1>3
<1>5. Min(Best) \in Best
  BY <1>4 DEF Min
<1>6. Min(Best) \in {1, 2}
  BY <1>3, <1>5
<1>7. Min(Best) \in 1..Len(found)
  BY <1>5 DEF Best
<1>8. \A i \in 1..Len(found) : found[i].severity \in {"medium", "high"}
  BY DEF AgainstStop
<1> QED BY <1>1, <1>7, <1>8

\* A report followed by no second one, or by one.
LEMMA OneOrTwo ==
  ASSUME NEW v, NEW s
  PROVE  /\ <<v>> \o <<>> = <<v>> /\ <<v>> \o <<s>> = <<v, s>>
         /\ <<v>> # <<>> /\ <<v, s>> # <<>>
<1>1. <<v>> \in Seq({v, s}) /\ <<s>> \in Seq({v, s}) /\ <<v, s>> \in Seq({v, s})
  OBVIOUS
<1>2. <<v>> \o <<s>> = <<v, s>>
  <2>1. PICK c \in Seq({v, s}) : c = <<v>> \o <<s>>
    BY <1>1, ConcatProperties
  <2>2. Len(c) = 2 /\ c[1] = v /\ c[2] = s
    BY <1>1, <2>1, ConcatProperties
  <2>3. c = <<v, s>>
    BY <2>2
  <2> QED BY <2>1, <2>3
<1>3. <<v>> \o <<>> = <<v>>
  BY <1>1
<1> QED BY <1>2, <1>3

(* A stop is let through exactly when nothing was written or the last       *)
(* validation after the last write succeeded; otherwise the agent has to go *)
(* on.                                                                      *)
LEMMA StopsFollowTheState ==
  ASSUME NEW e, e.type \in StopTypes, NEW history, Len(history) \in Nat
  PROVE  LET state == ValidationState(DetectionHistory(e, history))
             found == Detect(e, history)
         IN  /\ state \in {"clean", "success"} => found = <<>>
             /\ state \notin {"clean", "success"} =>
                  found # <<>> /\ Decide(e, found).action = "continue"
<1> DEFINE h == DetectionHistory(e, history)
           state == ValidationState(h)
           found == Detect(e, history)
<1> HIDE DEF h
<1>1. ConstraintDetector(e) = <<>> /\ ScopeDetector(e) = <<>> /\ LoopDetector(e, h) = <<>>
  BY DEF ConstraintDetector, ScopeDetector, LoopDetector, PreTypes, StopTypes, ResultTypes
<1>2. found = ValidationDetector(e, h) \o StateDetector(e, h)
  <2>1. found = <<>> \o <<>> \o <<>> \o ValidationDetector(e, h) \o StateDetector(e, h)
    BY <1>1 DEF Detect, DetectIn, h
  <2>2. ValidationDetector(e, h) \in Seq(Items) /\ StateDetector(e, h) \in Seq(Items)
    <3>1. Placed(h, Len(history))
      BY DEF Placed, DetectionHistory, h
    <3> QED BY <3>1, Findings, AtMostOneIsSeq
  <2> QED BY <2>1, <2>2
<1> HIDE DEF found, state
<1>3. ASSUME state \in {"clean", "success"} PROVE found = <<>>
  <2>1. ValidationDetector(e, h) = <<>> /\ StateDetector(e, h) = <<>>
    BY <1>3 DEF ValidationDetector, StateDetector, state
  <2> QED BY <1>2, <2>1
<1>4. ASSUME state \notin {"clean", "success"}
      PROVE  found # <<>> /\ Decide(e, found).action = "continue"
  <2> DEFINE s == Evidence("state", "state_drift", "high", 98)
  <2>1. PICK v : /\ ValidationDetector(e, h) = <<v>>
                 /\ v.severity \in {"medium", "high"} /\ v.score \in {75, 95}
    BY <1>4 DEF ValidationDetector, Evidence, state
  <2>2. StateDetector(e, h) \in {<<>>, <<s>>}
    BY DEF StateDetector
  <2>3. s.severity = "high" /\ s.score = 98
    BY DEF Evidence
  <2> HIDE DEF s
  <2>4. found \in {<<v>>, <<v, s>>} /\ found # <<>>
    <3>1. CASE StateDetector(e, h) = <<>>
      BY <1>2, <2>1, <3>1, OneOrTwo
    <3>2. CASE StateDetector(e, h) = <<s>>
      BY <1>2, <2>1, <3>2, OneOrTwo
    <3> QED BY <2>2, <3>1, <3>2
  <2>5. Primary(found).severity \in {"medium", "high"}
    BY <2>1, <2>3, <2>4, StopPrimary DEF AgainstStop
  <2>6. Action(e, Primary(found)) = "continue"
    BY <2>5, ContinueAction
  <2> QED BY <2>4, <2>6 DEF Decide
<1> QED BY <1>3, <1>4 DEF found, state, h

-----------------------------------------------------------------------------
(* The actor's part of a window that grows and is cut                       *)

\* The filtered history keeps the places of the window.
LEMMA OwnPlaced ==
  ASSUME NEW e, NEW window, Len(window) \in Nat
  PROVE  Placed(DetectionHistory(e, window), Len(window))
BY DEF Placed, DetectionHistory

(* An event of the same actor is added to what the detectors see; an event  *)
(* of another one changes nothing.                                          *)
LEMMA OwnAppended ==
  ASSUME NEW S, NEW window \in Seq(S), NEW x \in S, NEW e
  PROVE  LET h == DetectionHistory(e, window)
             longer == DetectionHistory(e, Append(window, x))
         IN  /\ x.actor = e.actor => Extended(h, Len(window) + 1, x, longer)
             /\ x.actor # e.actor => longer = h
<1> DEFINE h == DetectionHistory(e, window)
           next == Append(window, x)
           longer == DetectionHistory(e, next)
<1>1. /\ Len(window) \in Nat /\ next \in Seq(S) /\ Len(next) = Len(window) + 1
      /\ next[Len(window) + 1] = x
      /\ \A i \in 1..Len(window) : next[i] = window[i]
  OBVIOUS
<1> HIDE DEF next
<1>2. h = [i \in {i \in 1..Len(window) : window[i].actor = e.actor} |-> window[i]]
  BY DEF DetectionHistory
<1>3. longer = [i \in {i \in 1..Len(next) : next[i].actor = e.actor} |-> next[i]]
  BY DEF DetectionHistory
<1> HIDE DEF h, longer
<1>4. \A i : i \in DOMAIN h <=> i \in 1..Len(window) /\ window[i].actor = e.actor
  BY <1>2
<1>5. \A i : i \in DOMAIN longer <=> i \in 1..(Len(window) + 1) /\ next[i].actor = e.actor
  BY <1>1, <1>3
<1>6. \A i : i \in 1..(Len(window) + 1) <=> i \in 1..Len(window) \/ i = Len(window) + 1
  BY <1>1
<1>7. ASSUME x.actor = e.actor PROVE Extended(h, Len(window) + 1, x, longer)
  <2>1. \A i : i \in DOMAIN longer <=> i \in DOMAIN h \/ i = Len(window) + 1
    BY <1>1, <1>4, <1>5, <1>6, <1>7
  <2>2. DOMAIN longer = DOMAIN h \cup {Len(window) + 1}
    BY <2>1
  <2>3. longer[Len(window) + 1] = x
    BY <1>1, <1>3, <1>7
  <2>4. ASSUME NEW i \in DOMAIN h PROVE i < Len(window) + 1 /\ longer[i] = h[i]
    <3>1. i \in 1..Len(window) /\ h[i] = window[i] /\ window[i].actor = e.actor
      BY <1>2
    <3>2. longer[i] = next[i]
      BY <1>3, <2>2
    <3> QED BY <1>1, <3>1, <3>2
  <2> QED BY <2>2, <2>3, <2>4 DEF Extended
<1>8. ASSUME x.actor # e.actor PROVE longer = h
  <2>1. {i \in 1..Len(next) : next[i].actor = e.actor}
          = {i \in 1..Len(window) : window[i].actor = e.actor}
    BY <1>1, <1>8
  <2>2. \A i \in {i \in 1..Len(window) : window[i].actor = e.actor} : next[i] = window[i]
    BY <1>1
  <2> QED BY <1>2, <1>3, <2>1, <2>2
<1> QED BY <1>7, <1>8 DEF h, longer, next

(* Cutting the oldest event shifts what is left of the actor's events.      *)
LEMMA OwnCut ==
  ASSUME NEW S, NEW window \in Seq(S), window # <<>>, NEW e
  PROVE  Shifted(DetectionHistory(e, window), DetectionHistory(e, Tail(window)))
<1> DEFINE h == DetectionHistory(e, window)
           rest == Tail(window)
           left == DetectionHistory(e, rest)
<1>1. /\ Len(window) \in Nat /\ rest \in Seq(S) /\ Len(rest) = Len(window) - 1
      /\ \A i \in 1..Len(rest) : rest[i] = window[i + 1]
  OBVIOUS
<1> HIDE DEF rest
<1>2. h = [i \in {i \in 1..Len(window) : window[i].actor = e.actor} |-> window[i]]
  BY DEF DetectionHistory
<1>3. left = [i \in {i \in 1..Len(rest) : rest[i].actor = e.actor} |-> rest[i]]
  BY DEF DetectionHistory
<1> HIDE DEF h, left
<1>4. ASSUME NEW i \in DOMAIN left
      PROVE  i \in Nat \ {0} /\ i + 1 \in DOMAIN h /\ left[i] = h[i + 1]
  <2>1. i \in 1..Len(rest) /\ rest[i].actor = e.actor /\ left[i] = rest[i]
    BY <1>3
  <2>2. i + 1 \in 1..Len(window) /\ window[i + 1] = rest[i]
    BY <1>1, <2>1
  <2> QED BY <1>2, <2>1, <2>2
<1>5. ASSUME NEW i \in DOMAIN h, i # 1 PROVE i - 1 \in DOMAIN left
  <2>1. i \in 1..Len(window) /\ window[i].actor = e.actor
    BY <1>2
  <2>2. i - 1 \in 1..Len(rest) /\ rest[i - 1] = window[i]
    BY <1>1, <1>5, <2>1
  <2> QED BY <1>3, <2>1, <2>2
<1> QED BY <1>4, <1>5 DEF Shifted, h, left, rest

(* The same for the state of the validations.                               *)
LEMMA StateOfWindow ==
  ASSUME NEW S, NEW window \in Seq(S), NEW x \in S, NEW e
  PROVE  LET State(w) == ValidationState(DetectionHistory(e, w))
         IN  /\ State(Append(window, x)) =
                  IF x.actor = e.actor THEN NextStatus(State(window), x) ELSE State(window)
             /\ window # <<>> => State(Tail(window)) \in {"clean", State(window)}
<1> DEFINE State(w) == ValidationState(DetectionHistory(e, w))
<1>1. /\ Len(window) \in Nat /\ Len(Append(window, x)) \in Nat
      /\ window # <<>> => Len(Tail(window)) \in Nat
  OBVIOUS
<1>2. Len(window) + 1 \in Nat
  BY <1>1
<1>3. ASSUME x.actor = e.actor PROVE State(Append(window, x)) = NextStatus(State(window), x)
  BY <1>1, <1>2, <1>3, OwnPlaced, OwnAppended, StateFollows
<1>4. ASSUME x.actor # e.actor PROVE State(Append(window, x)) = State(window)
  BY <1>4, OwnAppended
<1>5. ASSUME window # <<>> PROVE State(Tail(window)) \in {"clean", State(window)}
  BY <1>1, <1>5, OwnPlaced, OwnCut, StateForgets
<1> QED BY <1>3, <1>4, <1>5
=============================================================================
