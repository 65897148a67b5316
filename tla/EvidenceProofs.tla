---------------------------- MODULE EvidenceProofs ----------------------------
(*****************************************************************************)
(* Proofs about what judges the work of a task.                              *)
(*                                                                           *)
(* ValidationRun, for every number of kinds, configuration and number of     *)
(* files: a validation that passes has run what it had to run, and, where    *)
(* the diff is not cut off, has changed no file.                             *)
(*                                                                           *)
(* TaskEvidence, for every set of files, every budget and every answer of    *)
(* the model: what a context and a review's evidence hold of what they were  *)
(* made from, and what a review that passes has been shown.                  *)
(*****************************************************************************)
EXTENDS ValidationRun, TaskEvidence, FiniteSetTheorems, SequenceTheorems, TLAPS

----------------------------------------------------------------------------
\* The inductive invariant of ValidationRun.

FailFast == Skipped("fail_fast")

\* What the result of a step that ran can be.
Ran ==
  Errors \union {[status |-> "passed", code |-> "none"], [status |-> "failed", code |-> "none"],
                 [status |-> "errored", code |-> "validation_workspace_changed"]}

\* Each step so far has the result it had to have: a step with nothing to run is
\* missing, and one with a command has run, or was skipped by fail-fast.
Due(done) ==
  \A k \in DOMAIN done :
    /\ Attempted(k)  => done[k] \in Ran \union {FailFast}
    /\ ~Attempted(k) => done[k] = Missing(k)

\* Fail-fast follows a step that invalidates the run.
StopIsEarned(done, stop) ==
  stop \/ (\E k \in DOMAIN done : done[k] = FailFast) => Invalid(done) # {}

Errored(done) == \E k \in DOMAIN done : done[k].status = "errored"

ResultPart ==
  /\ Due(results) /\ StopIsEarned(results, shouldStop)
  /\ at \in {"discovery", "evidence"} => results = << >> /\ ~shouldStop
  /\ at \in {"before", "command", "after"} =>
       Len(results) < Kinds /\ Attempted(Len(results) + 1)
  /\ at = "after" => command \in Ran

VerdictPart ==
  /\ at # "returned" => verdict = NoVerdict
  /\ at \in {"evidence", "before", "command", "after"} => \E k \in Steps : Attempted(k)
  /\ verdict.status = "passed" =>
       /\ Len(results) = Kinds /\ verdict = Verdict(results)
       /\ \E k \in Steps : Attempted(k)

\* A snapshot of a workspace that is no repository is never compared with, but
\* in a run that has erred; and a step that disturbed the files has erred.
FilesPart ==
  /\ at \in {"before", "command"} /\ ~work.repository => Errored(results)
  /\ at \in {"command", "after"} => before = SnapshotOf(origin) \/ Errored(results)
  /\ disturbed # {} => Errored(results)

IInv == TypeOK /\ ResultPart /\ VerdictPart

----------------------------------------------------------------------------
\* Lemmas about the steps and their results.

\* A nonempty set of steps has a first one: the sets of the steps up to each of
\* them have a least member.
LEMMA FirstStep ==
  ASSUME NEW n \in Nat, NEW S \in SUBSET (1 .. n), S # {}
  PROVE  \E k \in S : \A m \in S : k <= m
<1> DEFINE UpTo(k) == {m \in S : m <= k}
           F == {UpTo(k) : k \in S}
<1>1. IsFiniteSet(S)
  <2>1. IsFiniteSet(1 .. n)
    BY FS_Interval
  <2> QED
    BY <2>1, FS_Subset
<1>2. F \in SUBSET SUBSET S /\ F # {}
  OBVIOUS
<1> HIDE DEF F
<1>3. F \subseteq FiniteSubsetsOf(S)
  BY <1>1, <1>2, FS_FiniteSubsetsOfFinite
<1>4. \E R \in F : \A T \in F : <<T, R>> \notin StrictSubsetOrdering(S)
  BY <1>2, <1>3, FS_StrictSubsetOrderingWellFounded, WFMin
<1>5. PICK k \in S : \A m \in S : <<UpTo(m), UpTo(k)>> \notin StrictSubsetOrdering(S)
  BY <1>4 DEF F
<1>6. ASSUME NEW m \in S, m < k PROVE FALSE
  <2> m \in Nat /\ k \in Nat /\ S \subseteq Nat
    OBVIOUS
  <2>1. k \in UpTo(k) /\ k \notin UpTo(m) /\ UpTo(m) \subseteq UpTo(k)
    <3>1. k <= k /\ ~(k <= m) /\ \A j \in S : j <= m => j <= k
      BY <1>6
    <3> QED
      BY <3>1
  <2>2. UpTo(m) \in SUBSET S /\ UpTo(k) \in SUBSET S
    OBVIOUS
  <2> HIDE DEF UpTo
  <2> QED
    BY <1>5, <2>1, <2>2 DEF StrictSubsetOrdering
<1>7. \A m \in S : m \in Nat /\ k \in Nat
  OBVIOUS
<1> QED
  BY <1>6, <1>7

\* The results of steps that ran or were missing are results, and a fail-fast
\* skip is none of them.
LEMMA ResultFacts ==
  /\ Ran \subseteq Results /\ FailFast \in Results /\ FailFast \notin Ran
  /\ \A k : Missing(k) \in Results /\ Missing(k) # FailFast
  /\ \A k : Missing(k).status = "skipped" /\ Missing(k).code # "fail_fast"
  /\ \A r \in Ran : r.code # "fail_fast" /\ r.status # "skipped"
  BY DEF Ran, Errors, FailFast, Missing, Skipped, Results, Codes

\* A required step without a command invalidates the run.
LEMMA MissingInvalidates ==
  ASSUME NEW k, ~Attempted(k), Required(k)
  PROVE  Invalidates(k, Missing(k))
  BY ResultFacts DEF Invalidates

\* The loop from its top: the results so far are kept, every step it passes
\* over gets the result it has to have, and it stops at a step to run or at the
\* end.
LEMMA ProceedFacts ==
  ASSUME ValidationAssumption, NEW done \in Seq(Results), Len(done) <= Kinds,
         NEW stop \in BOOLEAN, Due(done), StopIsEarned(done, stop), Proceed(done, stop)
  PROVE  /\ results' \in Seq(Results) /\ Len(results') <= Kinds
         /\ shouldStop' \in BOOLEAN
         /\ \A k \in DOMAIN done : k \in DOMAIN results' /\ results'[k] = done[k]
         /\ Due(results') /\ StopIsEarned(results', shouldStop')
         /\ \/ /\ at' = "before" /\ UNCHANGED verdict
               /\ Len(results') < Kinds /\ Attempted(Len(results') + 1)
            \/ /\ at' = "returned" /\ verdict' = Verdict(results')
               /\ Len(results') = Kinds
<1> DEFINE open == {k \in Len(done) + 1 .. Kinds : Attempted(k) /\ ~StopsBefore(stop, done, k)}
           next == IF open = {} THEN Kinds + 1 ELSE CHOOSE k \in open : \A m \in open : k <= m
           skipped == [i \in 1 .. next - 1 - Len(done) |->
                         IF Attempted(Len(done) + i) THEN Skipped("fail_fast")
                         ELSE Missing(Len(done) + i)]
<1>1. Kinds \in Nat /\ Len(done) \in Nat /\ DOMAIN done = 1 .. Len(done)
  BY DEF ValidationAssumption
<1>2. /\ results' = done \o skipped /\ shouldStop' = StopsBefore(stop, done, next)
      /\ IF open = {} THEN at' = "returned" /\ verdict' = Verdict(done \o skipped)
         ELSE at' = "before" /\ UNCHANGED verdict
  BY DEF Proceed
<1>3. \A k : k \in open <=> /\ k \in Len(done) + 1 .. Kinds
                            /\ Attempted(k) /\ ~StopsBefore(stop, done, k)
  OBVIOUS
<1> HIDE DEF open
<1>4. /\ next \in Len(done) + 1 .. Kinds + 1
      /\ \A m \in open : next <= m
      /\ open # {} => Attempted(next) /\ next <= Kinds
      /\ open = {} => next = Kinds + 1
  <2>1. CASE open = {}
    BY <1>1, <2>1
  <2>2. CASE open # {}
    <3>1. open \in SUBSET (1 .. Kinds)
      BY <1>1, <1>3
    <3>2. \E k \in open : \A m \in open : k <= m
      BY <1>1, <2>2, <3>1, FirstStep
    <3>3. next \in open /\ \A m \in open : next <= m
      BY <2>2, <3>2
    <3> HIDE DEF next
    <3> QED
      BY <1>1, <1>3, <2>2, <3>3
  <2> QED
    BY <2>1, <2>2
<1> HIDE DEF next
\* What is passed over is missing, or follows a stop.
<1>5. ASSUME NEW k \in Len(done) + 1 .. next - 1, Attempted(k)
      PROVE  StopsBefore(stop, done, k)
  <2>1. k \in Len(done) + 1 .. Kinds /\ k < next
    BY <1>1, <1>4
  <2>2. k \notin open
    BY <1>1, <1>4, <2>1
  <2> QED
    BY <1>3, <1>5, <2>1, <2>2
<1>6. /\ next - 1 - Len(done) \in Nat
      /\ \A k \in Len(done) + 1 .. next - 1 :
           k - Len(done) \in 1 .. next - 1 - Len(done) /\ Len(done) + (k - Len(done)) = k
  BY <1>1, <1>4
<1>7. skipped \in Seq(Results) /\ Len(skipped) = next - 1 - Len(done)
  <2>1. \A i \in 1 .. next - 1 - Len(done) : skipped[i] \in Results
    BY ResultFacts DEF FailFast
  <2>2. skipped \in [1 .. next - 1 - Len(done) -> Results]
    BY <2>1
  <2> HIDE DEF skipped
  <2> QED
    BY <1>6, <2>2
<1>8. /\ results' \in Seq(Results) /\ Len(results') = next - 1
      /\ DOMAIN results' = 1 .. next - 1
      /\ \A k \in 1 .. Len(done) : results'[k] = done[k]
      /\ \A k \in Len(done) + 1 .. next - 1 : results'[k] = skipped[k - Len(done)]
  <2> HIDE DEF skipped
  <2>1. results' = done \o skipped
    BY <1>2
  <2>2. results' \in Seq(Results) /\ Len(results') = Len(done) + Len(skipped)
    <3>1. done \in Seq(Results) /\ skipped \in Seq(Results)
      BY <1>7
    <3>2. done \o skipped \in Seq(Results) /\ Len(done \o skipped) = Len(done) + Len(skipped)
      BY <3>1
    <3> QED
      BY <2>1, <3>2
  <2>3. \A k \in 1 .. Len(done) + Len(skipped) :
          results'[k] = IF k <= Len(done) THEN done[k] ELSE skipped[k - Len(done)]
    BY <1>7, <2>1
  <2> QED
    BY <1>1, <1>4, <1>7, <2>2, <2>3
<1>9. \A k \in Len(done) + 1 .. next - 1 :
        results'[k] = IF Attempted(k) THEN FailFast ELSE Missing(k)
  BY <1>6, <1>8 DEF FailFast
<1> HIDE DEF skipped
<1>10. \A k \in DOMAIN results' : k \in DOMAIN done \/ k \in Len(done) + 1 .. next - 1
  BY <1>1, <1>4, <1>8
<1>11. \A k \in DOMAIN done : k \in DOMAIN results' /\ results'[k] = done[k]
  BY <1>1, <1>4, <1>8
<1>12. Due(results')
  <2> SUFFICES ASSUME NEW k \in DOMAIN results'
               PROVE  /\ Attempted(k)  => results'[k] \in Ran \union {FailFast}
                      /\ ~Attempted(k) => results'[k] = Missing(k)
    BY DEF Due
  <2> QED
    BY <1>9, <1>10, <1>11 DEF Due
<1>13. Invalid(done) \subseteq Invalid(results')
  BY <1>11 DEF Invalid
<1>14. ASSUME NEW k \in Len(done) + 1 .. next, StopsBefore(stop, done, k)
       PROVE  Invalid(results') # {}
  <2>1. CASE stop
    BY <1>13, <2>1 DEF StopIsEarned
  <2>2. CASE \E m \in Len(done) + 1 .. k - 1 : ~Attempted(m) /\ Required(m)
    <3>1. PICK m \in Len(done) + 1 .. k - 1 : ~Attempted(m) /\ Required(m)
      BY <2>2
    <3>2. m \in Len(done) + 1 .. next - 1
      BY <1>1, <1>4
    <3>3. m \in DOMAIN results' /\ results'[m] = Missing(m)
      BY <1>1, <1>8, <1>9, <3>1, <3>2
    <3>4. Invalidates(m, results'[m])
      BY <3>1, <3>3, MissingInvalidates
    <3> QED
      BY <3>3, <3>4 DEF Invalid
  <2> QED
    BY <1>14, <2>1, <2>2 DEF StopsBefore
<1>15. StopIsEarned(results', shouldStop')
  <2>1. CASE shouldStop'
    <3>1. next \in Len(done) + 1 .. next
      BY <1>1, <1>4
    <3> QED
      BY <1>2, <1>14, <2>1, <3>1 DEF StopIsEarned
  <2>2. ASSUME NEW k \in DOMAIN results', results'[k] = FailFast
        PROVE  Invalid(results') # {}
    <3>1. CASE k \in DOMAIN done
      <4>1. done[k] = FailFast
        BY <1>11, <2>2, <3>1
      <4> QED
        BY <1>13, <3>1, <4>1 DEF StopIsEarned
    <3>2. CASE k \in Len(done) + 1 .. next - 1
      <4>1. Attempted(k)
        BY <1>9, <2>2, <3>2, ResultFacts
      <4>2. k \in Len(done) + 1 .. next
        BY <1>1, <1>4, <3>2
      <4> QED
        BY <1>5, <1>14, <3>2, <4>1, <4>2
    <3> QED
      BY <1>10, <3>1, <3>2
  <2> QED
    BY <2>1, <2>2 DEF StopIsEarned
<1>16. shouldStop' \in BOOLEAN
  BY <1>2 DEF StopsBefore
<1>17. \/ /\ at' = "before" /\ UNCHANGED verdict
          /\ Len(results') < Kinds /\ Attempted(Len(results') + 1)
       \/ /\ at' = "returned" /\ verdict' = Verdict(results')
          /\ Len(results') = Kinds
  <2>1. CASE open = {}
    BY <1>1, <1>2, <1>4, <1>8, <2>1
  <2>2. CASE open # {}
    <3>1. Len(results') < Kinds /\ Len(results') + 1 = next
      BY <1>1, <1>4, <1>8, <2>2
    <3> QED
      BY <1>2, <1>4, <2>2, <3>1
  <2> QED
    BY <2>1, <2>2
<1>18. Len(results') <= Kinds
  BY <1>1, <1>4, <1>8
<1> QED
  BY <1>8, <1>11, <1>12, <1>15, <1>16, <1>17, <1>18

\* The verdict is passed where no step invalidates, and names a code otherwise.
LEMMA VerdictFacts ==
  ASSUME NEW done \in Seq(Results)
  PROVE  /\ Verdict(done) \in {[status |-> "passed", code |-> "none"]}
                                \union [status: {"failed"}, code: Codes \ {"none", "fail_fast"}]
         /\ Verdict(done).status = "passed" <=> Invalid(done) = {}
<1>1. CASE Invalid(done) = {}
  BY <1>1 DEF Verdict
<1>2. CASE Invalid(done) # {}
  <2> DEFINE first == CHOOSE k \in Invalid(done) : \A other \in Invalid(done) : k <= other
  <2>1. Invalid(done) \in SUBSET (1 .. Len(done)) /\ Len(done) \in Nat
    BY DEF Invalid
  <2>2. \E k \in Invalid(done) : \A m \in Invalid(done) : k <= m
    BY <1>2, <2>1, FirstStep
  <2>3. first \in Invalid(done)
    BY <2>2
  <2>4. FirstFailureCode(done) =
          IF done[first].code = "none" THEN "validation_error" ELSE done[first].code
    BY DEF FirstFailureCode
  <2> HIDE DEF first
  <2>5. done[first] \in Results /\ done[first].code # "fail_fast"
    BY <2>1, <2>3 DEF Invalid, Invalidates
  <2>6. FirstFailureCode(done) \in Codes \ {"none", "fail_fast"}
    BY <2>4, <2>5 DEF Results, Codes
  <2> QED
    BY <1>2, <2>6 DEF Verdict
<1> QED
  BY <1>1, <1>2

\* The configuration is fixed: what is said of the steps is said of the next
\* state as well.
LEMMA RequestFixed ==
  ASSUME UNCHANGED request
  PROVE  /\ \A k : Attempted(k)' <=> Attempted(k)
         /\ Due(results)' <=> Due(results')
         /\ StopIsEarned(results, shouldStop)' <=> StopIsEarned(results', shouldStop')
         /\ Verdict(results)' = Verdict(results')
<1>1. /\ \A k : Attempted(k)' <=> Attempted(k)
      /\ \A k : Required(k)' <=> Required(k)
  BY DEF Attempted, Required, HasCommand, Discovered
<1>2. /\ \A k : Missing(k)' = Missing(k)
      /\ \A k, r : Invalidates(k, r)' <=> Invalidates(k, r)
  BY <1>1 DEF Missing, Invalidates
<1>4. Due(results)' <=> Due(results')
  BY <1>1, <1>2 DEF Due
<1>5. Invalid(results)' = Invalid(results')
  BY <1>2 DEF Invalid
<1>6. StopIsEarned(results, shouldStop)' <=> StopIsEarned(results', shouldStop')
  BY <1>5 DEF StopIsEarned
<1>7. Verdict(results)' = Verdict(results')
  BY <1>5 DEF Verdict, FirstFailureCode
<1> QED
  BY <1>1, <1>4, <1>6, <1>7

----------------------------------------------------------------------------
\* Every step keeps the invariant.

\* The loop goes on, from the results so far.
LEMMA ProceedStep ==
  ASSUME IInv, NEW done \in Seq(Results), Len(done) <= Kinds, NEW stop \in BOOLEAN,
         Due(done), StopIsEarned(done, stop), Proceed(done, stop),
         \E k \in Steps : Attempted(k), verdict = NoVerdict,
         UNCHANGED request
  PROVE  /\ ResultPart' /\ VerdictPart'
         /\ results' \in Seq(Results) /\ Len(results') <= Kinds /\ shouldStop' \in BOOLEAN
         /\ at' \in Points
         /\ verdict' \in {NoVerdict, [status |-> "passed", code |-> "none"]}
                           \union [status: {"failed"}, code: Codes \ {"none", "fail_fast"}]
<1>1. /\ results' \in Seq(Results) /\ Len(results') <= Kinds
      /\ shouldStop' \in BOOLEAN
      /\ Due(results') /\ StopIsEarned(results', shouldStop')
      /\ \/ /\ at' = "before" /\ UNCHANGED verdict
            /\ Len(results') < Kinds /\ Attempted(Len(results') + 1)
         \/ /\ at' = "returned" /\ verdict' = Verdict(results')
            /\ Len(results') = Kinds
  BY ProceedFacts, ValidationAssumption
<1>2. /\ \A k : Attempted(k)' <=> Attempted(k)
      /\ Due(results)' /\ StopIsEarned(results, shouldStop)'
      /\ Verdict(results)' = Verdict(results')
  BY <1>1, RequestFixed
<1>3. ResultPart'
  BY <1>1, <1>2 DEF ResultPart
<1>4. VerdictPart'
  BY <1>1, <1>2 DEF VerdictPart, NoVerdict
<1> QED
  BY <1>1, <1>3, <1>4, VerdictFacts DEF Points

\* A step that leaves the configuration, the results and the verdict alone.
LEMMA QuietStep ==
  ASSUME IInv, UNCHANGED <<request, results, shouldStop, verdict>>,
         \/ at' = at /\ UNCHANGED command
         \/ at' = "thrown" /\ at # "returned"
         \/ at = "discovery" /\ at' = "evidence" /\ \E k \in Steps : Attempted(k)
         \/ at = "before" /\ at' = "command"
         \/ at = "command" /\ at' = "after" /\ command' \in Ran
  PROVE  ResultPart' /\ VerdictPart'
<1>1. /\ \A k : Attempted(k)' <=> Attempted(k)
      /\ Due(results)' <=> Due(results)
      /\ StopIsEarned(results, shouldStop)' <=> StopIsEarned(results, shouldStop)
      /\ Verdict(results)' = Verdict(results)
  BY RequestFixed
<1>2. /\ ResultPart /\ VerdictPart
  BY DEF IInv
<1>3. ResultPart'
  BY <1>1, <1>2 DEF ResultPart
<1>4. VerdictPart'
  BY <1>1, <1>2 DEF VerdictPart, NoVerdict
<1> QED
  BY <1>3, <1>4

\* The result of the step that ran is appended; where it invalidates, fail-fast
\* may stop what follows.
LEMMA AppendFacts ==
  ASSUME IInv, at = "after", NEW outcome \in Ran
  PROVE  LET done == Append(results, outcome)
             stop == shouldStop \/ (request.failFast /\ Invalidates(Len(results) + 1, outcome))
         IN /\ done \in Seq(Results) /\ Len(done) <= Kinds /\ stop \in BOOLEAN
            /\ Due(done) /\ StopIsEarned(done, stop)
            /\ \A k \in DOMAIN results : k \in DOMAIN done /\ done[k] = results[k]
            /\ Len(results) + 1 \in DOMAIN done /\ done[Len(results) + 1] = outcome
<1> DEFINE n == Len(results) + 1
           done == Append(results, outcome)
           stop == shouldStop \/ (request.failFast /\ Invalidates(n, outcome))
<1>1. /\ results \in Seq(Results) /\ Len(results) < Kinds /\ Attempted(n)
      /\ Due(results) /\ StopIsEarned(results, shouldStop) /\ Kinds \in Nat
      /\ shouldStop \in BOOLEAN /\ request.failFast \in BOOLEAN
  BY ValidationAssumption DEF IInv, ResultPart, TypeOK, ValidationAssumption
<1>2. outcome \in Results /\ outcome # FailFast
  BY ResultFacts
<1>3. /\ done \in Seq(Results) /\ Len(done) = n /\ DOMAIN done = 1 .. n
      /\ DOMAIN results = 1 .. Len(results) /\ Len(results) \in Nat
      /\ \A k \in 1 .. Len(results) : done[k] = results[k]
      /\ done[n] = outcome
  BY <1>1, <1>2
<1>4. /\ \A k \in DOMAIN results : k \in DOMAIN done /\ done[k] = results[k]
      /\ n \in DOMAIN done /\ \A k \in DOMAIN done : k \in DOMAIN results \/ k = n
      /\ Len(done) <= Kinds
  BY <1>1, <1>3
<1> HIDE DEF done, n
<1>5. Due(done)
  BY <1>1, <1>3, <1>4 DEF Due
<1>6. Invalid(results) \subseteq Invalid(done)
  BY <1>4 DEF Invalid
<1>7. stop => Invalid(done) # {}
  <2>1. CASE shouldStop
    BY <1>1, <1>6, <2>1 DEF StopIsEarned
  <2>2. CASE Invalidates(n, outcome)
    <3>1. n \in Invalid(done)
      BY <1>3, <1>4, <2>2 DEF Invalid
    <3> QED
      BY <3>1
  <2> QED
    BY <2>1, <2>2
<1>8. (\E k \in DOMAIN done : done[k] = FailFast) => Invalid(done) # {}
  BY <1>1, <1>2, <1>3, <1>4, <1>6 DEF StopIsEarned
<1>9. StopIsEarned(done, stop)
  BY <1>7, <1>8 DEF StopIsEarned
<1>10. stop \in BOOLEAN
  BY <1>1 DEF Invalidates
<1> QED
  BY <1>3, <1>4, <1>5, <1>9, <1>10 DEF done, n

\* What a step that ran is judged by is how its command ended, or that the
\* workspace changed.
LEMMA JudgedFacts ==
  ASSUME IInv, at = "after", NEW after
  PROVE  Judged(after) \in Ran
  BY DEF IInv, ResultPart, Judged, Ran

\* Every step of the engine, the caller and whoever edits files.
LEMMA Inductive == IInv /\ [Next]_vars => IInv'
<1> SUFFICES ASSUME IInv, [Next]_vars PROVE IInv'
  OBVIOUS
<1>1. TypeOK /\ ResultPart /\ VerdictPart /\ ValidationAssumption
  BY ValidationAssumption DEF IInv
<1>2. CASE Throws
  BY <1>1, <1>2, QuietStep DEF Throws, IInv, TypeOK, Points
<1>3. CASE Discover
  <2>1. CASE \E k \in Steps : Attempted(k)
    BY <1>1, <1>3, <2>1, QuietStep DEF Discover, IInv, TypeOK, Points
  <2>2. CASE ~\E k \in Steps : Attempted(k)
    <3>1. /\ at' = "returned" /\ results' = [k \in Steps |-> Missing(k)]
          /\ verdict' \in [status: {"failed"}, code: Codes \ {"none", "fail_fast"}]
          /\ UNCHANGED <<request, work, aborted, shouldStop, before, command, origin, disturbed>>
      BY <1>3, <2>2 DEF Discover, Codes
    <3>2. /\ results' \in Seq(Results) /\ Len(results') = Kinds /\ DOMAIN results' = Steps
          /\ \A k \in Steps : results'[k] = Missing(k)
      <4>1. results' \in [1 .. Kinds -> Results]
        BY <3>1, ResultFacts DEF Steps
      <4>2. Kinds \in Nat
        BY <1>1 DEF ValidationAssumption
      <4> QED
        BY <3>1, <4>1, <4>2 DEF Steps
    <3>3. Due(results') /\ StopIsEarned(results', shouldStop')
      BY <1>1, <1>3, <2>2, <3>1, <3>2, ResultFacts
         DEF Due, StopIsEarned, Discover, ResultPart
    <3>4. Due(results)' /\ StopIsEarned(results, shouldStop)'
      BY <3>1, <3>3, RequestFixed
    <3>5. ResultPart' /\ VerdictPart'
      BY <3>1, <3>4 DEF ResultPart, VerdictPart
    <3>6. Kinds \in Nat
      BY <1>1 DEF ValidationAssumption
    <3> QED
      BY <1>1, <3>1, <3>2, <3>5, <3>6 DEF IInv, TypeOK, Points
  <2> QED
    BY <2>1, <2>2
<1>4. CASE RequireGitEvidence
  <2>1. CASE work.repository
    <3>1. Proceed(<< >>, FALSE) /\ at = "evidence"
      BY <1>4, <2>1 DEF RequireGitEvidence
    <3>2. /\ << >> \in Seq(Results) /\ Len(<< >>) <= Kinds
          /\ Due(<< >>) /\ StopIsEarned(<< >>, FALSE)
      BY <1>1 DEF Due, StopIsEarned, ValidationAssumption
    <3>3. /\ (\E k \in Steps : Attempted(k)) /\ verdict = NoVerdict
          /\ UNCHANGED <<request, work, aborted, before, command, origin, disturbed>>
      BY <1>1, <1>4 DEF VerdictPart, RequireGitEvidence
    <3> DEFINE done == << >>
               stop == FALSE
    <3>4. /\ done \in Seq(Results) /\ Len(done) <= Kinds /\ stop \in BOOLEAN
          /\ Due(done) /\ StopIsEarned(done, stop) /\ Proceed(done, stop)
      BY <3>1, <3>2
    <3> HIDE DEF done, stop
    <3>5. /\ ResultPart' /\ VerdictPart'
          /\ results' \in Seq(Results) /\ Len(results') <= Kinds /\ shouldStop' \in BOOLEAN
          /\ at' \in Points
          /\ verdict' \in {NoVerdict, [status |-> "passed", code |-> "none"]}
                            \union [status: {"failed"}, code: Codes \ {"none", "fail_fast"}]
      BY <3>3, <3>4, ProceedStep
    <3> QED
      BY <1>1, <3>3, <3>5 DEF IInv, TypeOK
  <2>2. CASE ~work.repository
    BY <1>1, <1>4, <2>2, QuietStep DEF RequireGitEvidence, IInv, TypeOK, Points
  <2> QED
    BY <2>1, <2>2
<1>5. CASE SnapshotBefore
  <2>1. /\ ResultPart' /\ VerdictPart'
    BY <1>5, QuietStep DEF SnapshotBefore
  <2>2. DOMAIN Snapshot.status = 1 .. Files /\ DOMAIN Snapshot.diff \subseteq 1 .. Files
    BY DEF Snapshot, SnapshotOf, NoSnapshot, Unstaged, Shown
  <2> QED
    BY <1>1, <1>5, <2>1, <2>2 DEF SnapshotBefore, IInv, TypeOK, Points
<1>6. ASSUME NEW ending \in Endings, NEW repository \in BOOLEAN,
             CommandEnds(ending, repository)
      PROVE  IInv'
  <2>1. ending \in Ran
    BY DEF Endings, Ran
  <2>2. /\ ResultPart' /\ VerdictPart'
    BY <1>6, <2>1, QuietStep DEF CommandEnds
  <2> QED
    BY <1>1, <1>6, <2>1, <2>2, ResultFacts DEF CommandEnds, IInv, TypeOK, Points
<1>7. CASE SnapshotAfter
  <2> DEFINE outcome == Judged(Snapshot)
             done == Append(results, outcome)
             stop == shouldStop \/ (request.failFast /\ Invalidates(Len(results) + 1, outcome))
  <2>1. /\ at = "after" /\ Proceed(done, stop)
        /\ disturbed' \in {disturbed, disturbed \union {Len(results) + 1}}
        /\ before' = NoSnapshot /\ command' = NoVerdict /\ origin' = Clean
        /\ UNCHANGED <<request, work, aborted>>
    BY <1>7 DEF SnapshotAfter
  <2>2. outcome \in Ran
    BY <2>1, JudgedFacts
  <2>3. /\ done \in Seq(Results) /\ Len(done) <= Kinds /\ stop \in BOOLEAN
        /\ Due(done) /\ StopIsEarned(done, stop)
    <3> HIDE DEF outcome
    <3> QED
      BY <2>1, <2>2, AppendFacts
  <2>4. /\ (\E k \in Steps : Attempted(k)) /\ verdict = NoVerdict
    BY <1>1, <2>1 DEF VerdictPart
  <2> HIDE DEF done, stop
  <2>5. /\ ResultPart' /\ VerdictPart'
        /\ results' \in Seq(Results) /\ Len(results') <= Kinds /\ shouldStop' \in BOOLEAN
        /\ at' \in Points
        /\ verdict' \in {NoVerdict, [status |-> "passed", code |-> "none"]}
                          \union [status: {"failed"}, code: Codes \ {"none", "fail_fast"}]
    BY <2>1, <2>3, <2>4, ProceedStep
  <2>6. disturbed' \subseteq Steps
    BY <1>1, <2>1 DEF TypeOK, Steps, ResultPart, ValidationAssumption
  <2>7. origin' \in FileStates
    BY <1>1, <2>1 DEF ValidationAssumption, Clean, FileStates
  <2> QED
    BY <1>1, <2>1, <2>5, <2>6, <2>7 DEF IInv, TypeOK, NoSnapshot
<1>8. CASE Abort
  BY <1>1, <1>8, QuietStep DEF Abort, IInv, TypeOK
<1>9. ASSUME NEW f \in 1 .. Files, NEW copies \in Copies[f], Edit(f, copies) PROVE IInv'
  <2>1. work' \in [repository: BOOLEAN, files: FileStates]
    <3>1. work'.repository = work.repository /\ work'.files = [work.files EXCEPT ![f] = copies]
          /\ work' = [repository |-> work'.repository, files |-> work'.files]
      BY <1>1, <1>9 DEF Edit, TypeOK
    <3>2. [work.files EXCEPT ![f] = copies] \in FileStates
      BY <1>1 DEF TypeOK, FileStates
    <3> QED
      BY <1>1, <3>1, <3>2 DEF TypeOK
  <2> QED
    BY <1>1, <1>9, <2>1, QuietStep DEF Edit, IInv, TypeOK
<1>10. CASE UNCHANGED vars
  BY <1>1, <1>10, QuietStep DEF vars, IInv, TypeOK
<1> QED
  BY <1>2, <1>3, <1>4, <1>5, <1>6, <1>7, <1>8, <1>9, <1>10 DEF Next, Engine

\* A validation that is asked for satisfies the invariant.
LEMMA Initial == Init => IInv
<1> SUFFICES ASSUME Init PROVE IInv
  OBVIOUS
<1>1. TypeOK
  <2>1. DOMAIN before.status = 1 .. Files /\ DOMAIN before.diff \subseteq 1 .. Files
    BY DEF Init, NoSnapshot
  <2>2. origin \in FileStates
    BY ValidationAssumption DEF Init, ValidationAssumption, Clean, FileStates
  <2>3. /\ results \in Seq(Results) /\ Len(results) <= Kinds
    BY ValidationAssumption DEF Init, ValidationAssumption
  <2> QED
    BY <2>1, <2>2, <2>3 DEF Init, TypeOK, Points
<1>2. ResultPart /\ VerdictPart
  BY DEF Init, ResultPart, VerdictPart, Due, StopIsEarned, NoVerdict
<1> QED
  BY <1>1, <1>2 DEF IInv

\* The invariant holds throughout every validation.
THEOREM Invariance == Spec => []IInv
  BY Initial, Inductive, PTL DEF Spec

\* The engine's state stays well typed; in particular a verdict that is not
\* passed always names a code, and never fail-fast.
THEOREM TypeCorrect == Spec => []TypeOK
<1>1. IInv => TypeOK
  BY DEF IInv
<1> QED
  BY <1>1, Invariance, PTL

\* ValidationEngine.run returns passed only when it attempted every step it
\* could and every required one passed, whatever is configured or discovered
\* and wherever fail-fast stopped it.
THEOREM EarnedVerdicts == Spec => []PassedIsEarned
<1>1. IInv => PassedIsEarned
  <2> SUFFICES ASSUME IInv, verdict.status = "passed"
               PROVE  /\ \E k \in Steps : Attempted(k)
                      /\ \A k \in Steps :
                           /\ Required(k) => Attempted(k) /\ results[k].status = "passed"
                           /\ Attempted(k) => results[k].status \in {"passed", "failed"}
    BY DEF PassedIsEarned
  <2>1. /\ results \in Seq(Results) /\ Len(results) = Kinds /\ Due(results)
        /\ StopIsEarned(results, shouldStop)
        /\ verdict = Verdict(results) /\ \E k \in Steps : Attempted(k)
    BY DEF IInv, TypeOK, ResultPart, VerdictPart
  <2>2. DOMAIN results = Steps /\ Invalid(results) = {}
    BY <2>1, VerdictFacts DEF Steps
  <2>3. ASSUME NEW k \in Steps
        PROVE  /\ Required(k) => Attempted(k) /\ results[k].status = "passed"
               /\ Attempted(k) => results[k].status \in {"passed", "failed"}
    <3>1. ~Invalidates(k, results[k]) /\ results[k] # FailFast
      BY <2>1, <2>2 DEF Invalid, StopIsEarned
    <3>2. CASE Attempted(k)
      <4>1. results[k] \in Ran
        BY <2>1, <2>2, <3>1, <3>2 DEF Due
      <4> QED
        BY <3>1, <3>2, <4>1 DEF Ran, Errors, Invalidates
    <3>3. CASE ~Attempted(k)
      BY <2>1, <2>2, <3>1, <3>3, MissingInvalidates DEF Due
    <3> QED
      BY <3>2, <3>3
  <2> QED
    BY <2>1, <2>3
<1> QED
  BY <1>1, Invariance, PTL

----------------------------------------------------------------------------
\* The files.

\* What two snapshots that are alike can hide: a file that changed was behind the limit
\* both times, or was staged anew under the same letters.
LEMMA SnapshotsTell ==
  ASSUME NEW a \in FileStates, NEW b \in FileStates, Changed(SnapshotOf(a), SnapshotOf(b)) = {}
  PROVE  ~Disturbs(a, b)
<1> SUFFICES ASSUME NEW f \in 1 .. Files, b[f].tree # a[f].tree
             PROVE  f \in Behind(a, b) \union Restaged(a, b)
  BY DEF Disturbs
<1>1. StatusOf(a[f]) = StatusOf(b[f]) /\ SameDiff(SnapshotOf(a), SnapshotOf(b), f)
  BY DEF Changed, SnapshotOf
<1>2. CASE b[f].index = a[f].index
  <2>1. f \in Unstaged(a) /\ f \in Unstaged(b)
    BY <1>1, <1>2 DEF StatusOf, Unstaged
  <2>2. f \in Shown(a) <=> f \in Shown(b)
    BY <1>1 DEF SameDiff, SnapshotOf
  <2>3. f \notin Shown(a)
    <3> SUFFICES ASSUME f \in Shown(a) PROVE FALSE
      OBVIOUS
    <3>1. SnapshotOf(a).diff[f] = SnapshotOf(b).diff[f]
      BY <1>1 DEF SameDiff, SnapshotOf
    <3>2. /\ SnapshotOf(a).diff[f].tree = a[f].tree
          /\ SnapshotOf(b).diff[f].tree = b[f].tree
      BY <2>2 DEF SnapshotOf
    <3> QED
      BY <3>1, <3>2
  <2> QED
    BY <2>1, <2>2, <2>3 DEF Behind
<1>3. CASE b[f].index # a[f].index
  BY <1>1, <1>3 DEF StatusOf, Restaged
<1> QED
  BY <1>2, <1>3

\* Every step keeps what is said of the files.
LEMMA FilesStep ==
  ASSUME IInv, IInv', FilesPart, [Next]_vars
  PROVE  FilesPart'
<1>1. TypeOK /\ ResultPart /\ VerdictPart /\ ValidationAssumption
  BY ValidationAssumption DEF IInv
<1>quiet. ASSUME UNCHANGED <<results, disturbed>>,
                 \/ at' \notin {"before", "command", "after"}
                 \/ UNCHANGED <<at, before, origin, work>>
                 \/ UNCHANGED <<at, before, origin>> /\ work'.repository = work.repository
          PROVE  FilesPart'
  <2>1. Errored(results)' = Errored(results)
    BY <1>quiet DEF Errored
  <2>2. SnapshotOf(origin)' = SnapshotOf(origin')
    BY DEF SnapshotOf, StatusOf, Shown, Unstaged
  <2> QED
    BY <1>quiet, <2>1, <2>2 DEF FilesPart
<1>2. CASE Throws
  BY <1>2, <1>quiet DEF Throws
<1>3. CASE Discover
  <2>1. /\ at' \in {"evidence", "returned"} /\ UNCHANGED disturbed
        /\ results = << >>
    BY <1>1, <1>3 DEF Discover, ResultPart
  <2>2. ~Errored(results)
    BY <2>1 DEF Errored
  <2> QED
    BY <2>1, <2>2 DEF FilesPart
<1>4. CASE RequireGitEvidence
  <2>1. /\ at' \in {"before", "returned", "thrown"} /\ UNCHANGED <<disturbed, work>>
        /\ at' = "before" => work.repository
        /\ results = << >>
    BY <1>1, <1>4 DEF RequireGitEvidence, Proceed, ResultPart
  <2>2. ~Errored(results)
    BY <2>1 DEF Errored
  <2> QED
    BY <2>1, <2>2 DEF FilesPart
<1>5. CASE SnapshotBefore
  <2>1. /\ at = "before" /\ at' = "command" /\ before' = Snapshot /\ origin' = work.files
        /\ UNCHANGED <<work, results, disturbed>>
    BY <1>5 DEF SnapshotBefore
  <2>2. Errored(results)' = Errored(results)
    BY <2>1 DEF Errored
  <2>3. work.repository => before' = SnapshotOf(origin)'
    BY <2>1 DEF Snapshot, SnapshotOf, StatusOf, Shown, Unstaged
  <2> QED
    BY <1>1, <2>1, <2>2, <2>3 DEF FilesPart, TypeOK
<1>6. ASSUME NEW ending \in Endings, NEW repository \in BOOLEAN,
             CommandEnds(ending, repository)
      PROVE  FilesPart'
  <2>1. /\ at = "command" /\ at' = "after"
        /\ UNCHANGED <<before, origin, results, disturbed>>
    BY <1>6 DEF CommandEnds
  <2>2. Errored(results)' = Errored(results)
    BY <2>1 DEF Errored
  <2>3. SnapshotOf(origin)' = SnapshotOf(origin)
    BY <2>1 DEF SnapshotOf, StatusOf, Shown, Unstaged
  <2> QED
    BY <2>1, <2>2, <2>3 DEF FilesPart
<1>7. CASE SnapshotAfter
  <2> DEFINE outcome == Judged(Snapshot)
             done == Append(results, outcome)
             stop == shouldStop \/ (request.failFast /\ Invalidates(Len(results) + 1, outcome))
  <2>1. /\ at = "after" /\ Proceed(done, stop) /\ at' \in {"before", "returned"}
        /\ disturbed' = IF work.repository /\ ~Disturbs(origin, work.files) THEN disturbed
                        ELSE disturbed \union {Len(results) + 1}
        /\ UNCHANGED work
    BY <1>7 DEF SnapshotAfter, Proceed
  <2>2. outcome \in Ran
    BY <2>1, JudgedFacts
  <2>3. /\ done \in Seq(Results) /\ Len(done) <= Kinds /\ stop \in BOOLEAN
        /\ Due(done) /\ StopIsEarned(done, stop)
        /\ \A k \in DOMAIN results : k \in DOMAIN done /\ done[k] = results[k]
        /\ Len(results) + 1 \in DOMAIN done /\ done[Len(results) + 1] = outcome
    <3> HIDE DEF outcome
    <3> QED
      BY <2>1, <2>2, AppendFacts
  <2> HIDE DEF done, stop
  <2>4. \A k \in DOMAIN done : k \in DOMAIN results' /\ results'[k] = done[k]
    BY <1>1, <2>1, <2>3, ProceedFacts
  <2>5. /\ Errored(results) => Errored(results)'
        /\ outcome.status = "errored" => Errored(results)'
    BY <2>3, <2>4 DEF Errored
\* A disturbance is seen, or the run had erred before.
  <2>6. ASSUME ~(work.repository /\ ~Disturbs(origin, work.files))
        PROVE  outcome.status = "errored" \/ Errored(results)
    <3>1. CASE ~work.repository
      BY <3>1 DEF Judged, Snapshot, NoSnapshot
    <3>2. CASE work.repository /\ before = SnapshotOf(origin)
      <4>1. Snapshot = SnapshotOf(work.files)
        BY <3>2 DEF Snapshot
      <4>2. work.files \in FileStates /\ origin \in FileStates /\ Disturbs(origin, work.files)
        BY <1>1, <2>6, <3>2 DEF TypeOK
      <4>3. Changed(SnapshotOf(origin), SnapshotOf(work.files)) # {}
        BY <1>1, <4>2, SnapshotsTell
      <4> QED
        BY <3>2, <4>1, <4>3 DEF Judged
    <3>3. before = SnapshotOf(origin) \/ Errored(results)
      BY <2>1 DEF FilesPart
    <3> QED
      BY <3>1, <3>2, <3>3
  <2>7. disturbed' # {} => Errored(results)'
    BY <2>1, <2>5, <2>6 DEF FilesPart
  <2>8. ~work.repository => Errored(results)'
    BY <2>5, <2>6
  <2> QED
    BY <2>1, <2>7, <2>8 DEF FilesPart
<1>8. CASE Abort \/ (\E f \in 1 .. Files : \E copies \in Copies[f] : Edit(f, copies))
  <2>1. work'.repository = work.repository
    BY <1>1, <1>8 DEF Abort, Edit, TypeOK
  <2> QED
    BY <1>8, <1>quiet, <2>1 DEF Abort, Edit
<1>9. CASE UNCHANGED vars
  BY <1>9, <1>quiet DEF vars
<1> QED
  BY <1>2, <1>3, <1>4, <1>5, <1>6, <1>7, <1>8, <1>9 DEF Next, Engine

\* A validation that passed left every tracked file as it was before each of its commands,
\* whoever else edited files meanwhile, but for what git status and the first
\* VALIDATION_DIFF_MAX_BYTES of git diff cannot tell (detectTrackedChanges).
THEOREM FilesAreKept == Spec => []PassedKeepsFiles
<1>1. Init => FilesPart
  BY DEF Init, FilesPart
<1>2. IInv /\ IInv' /\ FilesPart /\ [Next]_vars => FilesPart'
  BY FilesStep
<1>3. IInv /\ FilesPart => PassedKeepsFiles
  <2> SUFFICES ASSUME IInv, FilesPart, verdict.status = "passed", disturbed # {}
               PROVE  FALSE
    BY DEF PassedKeepsFiles
  <2>1. /\ results \in Seq(Results) /\ Due(results) /\ verdict = Verdict(results)
    BY DEF IInv, TypeOK, ResultPart, VerdictPart
  <2>2. PICK k \in DOMAIN results : results[k].status = "errored"
    BY DEF FilesPart, Errored
  <2>3. results[k] \in Ran
    BY <2>1, <2>2, ResultFacts DEF Due, FailFast, Skipped
  <2>4. k \in Invalid(results)
    BY <2>2, <2>3, ResultFacts DEF Invalid, Invalidates
  <2> QED
    BY <2>1, <2>4, VerdictFacts
<1> QED
  BY <1>1, <1>2, <1>3, Invariance, PTL DEF Spec

----------------------------------------------------------------------------
\* Numbers and sequences.

\* Of the numbers up to n with some property, one is the least.
LEMMA LeastNumber ==
  ASSUME NEW n \in Nat, NEW K \in SUBSET (0 .. n), K # {}
  PROVE  \E k \in K : \A j \in K : k <= j
<1> DEFINE F == {0 .. k : k \in K}
<1>1. IsFiniteSet(0 .. n)
  BY FS_Interval
<1>2. F \subseteq FiniteSubsetsOf(0 .. n)
  <2>1. F \subseteq SUBSET (0 .. n)
    OBVIOUS
  <2> QED
    BY <1>1, <2>1, FS_FiniteSubsetsOfFinite
<1>3. F # {}
  OBVIOUS
<1> HIDE DEF F
<1>4. \E R \in F : \A T \in F : <<T, R>> \notin StrictSubsetOrdering(0 .. n)
  BY <1>1, <1>2, <1>3, FS_StrictSubsetOrderingWellFounded, WFMin
<1>5. PICK R \in F : \A T \in F : <<T, R>> \notin StrictSubsetOrdering(0 .. n)
  BY <1>4
<1>6. PICK k \in K : R = 0 .. k
  BY <1>5 DEF F
<1>7. ASSUME NEW j \in K, j < k PROVE FALSE
  <2>1. 0 .. j \in F /\ 0 .. j \subseteq 0 .. k /\ 0 .. j # 0 .. k
    <3>1. k \in 0 .. k /\ k \notin 0 .. j
      BY <1>7
    <3>2. 0 .. j \in F
      BY DEF F
    <3> QED
      BY <1>7, <3>1, <3>2
  <2>2. <<0 .. j, 0 .. k>> \in StrictSubsetOrdering(0 .. n)
    BY <2>1 DEF StrictSubsetOrdering
  <2> QED
    BY <1>5, <1>6, <2>1, <2>2
<1>8. k \in Int /\ \A j \in K : j \in Int
  OBVIOUS
<1> QED
  BY <1>7, <1>8

\* What holds of 0, and of a number when it holds of the one before, holds up to n.
LEMMA UpTo ==
  ASSUME NEW n \in Nat, NEW P, 0 \in P, \A m \in 1 .. n : m - 1 \in P => m \in P
  PROVE  0 .. n \subseteq P
<1> DEFINE Bad == (0 .. n) \ P
<1> SUFFICES ASSUME Bad # {} PROVE FALSE
  OBVIOUS
<1>1. Bad \in SUBSET (0 .. n)
  OBVIOUS
<1>2. PICK m \in Bad : \A j \in Bad : m <= j
  <2> HIDE DEF Bad
  <2> QED
    BY <1>1, LeastNumber
<1>3. m \in 1 .. n /\ m - 1 \in 0 .. n /\ ~(m <= m - 1)
  BY <1>2
<1> QED
  BY <1>2, <1>3

\* A function on 0 .. m whose values, in V, each follow from the one before.
Stepped(f, m, V, base, step) ==
  /\ f \in [0 .. m -> V]
  /\ f[0] = base
  /\ \A j \in 1 .. m : f[j] = step[j][f[j - 1]]

LEMMA StepByStep ==
  ASSUME NEW m \in Nat, NEW V, NEW base, NEW step,
         base \in V, \A n \in 1 .. m : step[n] \in [V -> V]
  PROVE  \E f : Stepped(f, m, V, base, step)
<1> USE DEF Stepped
<1> DEFINE Good(n, f) == Stepped(f, n, V, base, step)
           P == {n \in 0 .. m : \E f : Good(n, f)}
<1>1. 0 \in P
  <2> DEFINE g == [n \in 0 .. 0 |-> base]
  <2>1. Good(0, g)
    OBVIOUS
  <2>2. 0 \in 0 .. m
    OBVIOUS
  <2> HIDE DEF Good
  <2> QED
    BY <2>1, <2>2
<1>2. ASSUME NEW n \in 1 .. m, n - 1 \in P PROVE n \in P
  <2>1. PICK f : Good(n - 1, f)
    BY <1>2
  <2> DEFINE v == step[n][f[n - 1]]
             g == [j \in 0 .. n |-> IF j = n THEN v ELSE f[j]]
  <2>2. n - 1 \in 0 .. n - 1 /\ f[n - 1] \in V
    BY <2>1
  <2>3. v \in V
    BY <2>2
  <2> HIDE DEF v
  <2>4. g \in [0 .. n -> V] /\ g[0] = base
    BY <2>1, <2>3
  <2>5. ASSUME NEW j \in 1 .. n PROVE g[j] = step[j][g[j - 1]]
    <3>1. g[j - 1] = f[j - 1]
      OBVIOUS
    <3>2. CASE j = n
      BY <3>1, <3>2 DEF v
    <3>3. CASE j # n
      <4>1. j \in 1 .. n - 1
        BY <3>3
      <4>2. g[j] = f[j] /\ f[j] = step[j][f[j - 1]]
        BY <2>1, <3>3, <4>1
      <4> QED
        BY <3>1, <4>2
    <3> QED
      BY <3>2, <3>3
  <2>6. Good(n, g)
    BY <2>4, <2>5
  <2>7. n \in 0 .. m
    OBVIOUS
  <2> HIDE DEF Good
  <2> QED
    BY <2>6, <2>7
<1> HIDE DEF P
<1>3. 0 .. m \subseteq P
  BY <1>1, <1>2, UpTo
<1>4. m \in P
  BY <1>3
<1> QED
  BY <1>4 DEF P

LEMMA MinOfTwo ==
  ASSUME NEW a \in Int, NEW b \in Int
  PROVE  Min({a, b}) = IF a <= b THEN a ELSE b
BY DEF Min

----------------------------------------------------------------------------
\* What entries hold.

Entry ==
  [path : Paths, size : Nat, cut : BOOLEAN, version : Nat, targeted : BOOLEAN]

\* The functions that Sizes is defined by, of the first m files.
SizesUpTo(f, files) ==
  f = [n \in 0 .. Len(files) |-> IF n = 0 THEN 0 ELSE f[n - 1] + files[n].size]

LEMMA SizesFacts ==
  ASSUME NEW files \in Seq(Entry)
  PROVE  /\ Sizes(files) \in [0 .. Len(files) -> Nat]
         /\ Sizes(files)[0] = 0
         /\ \A n \in 1 .. Len(files) :
              /\ files[n].size \in Nat
              /\ Sizes(files)[n] = Sizes(files)[n - 1] + files[n].size
         /\ TotalSize(files) = Sizes(files)[Len(files)]
<1> DEFINE L == Len(files)
           F == CHOOSE g : SizesUpTo(g, files)
           step == [n \in 1 .. L |-> [v \in Nat |-> v + files[n].size]]
<1>1. L \in Nat /\ \A n \in 1 .. L : files[n].size \in Nat
  <2>1. \A n \in 1 .. L : files[n] \in Entry
    OBVIOUS
  <2> QED
    BY <2>1 DEF Entry
<1>2. \A n \in 1 .. L : step[n] \in [Nat -> Nat]
  BY <1>1
<1>3. PICK f : Stepped(f, L, Nat, 0, step)
  <2>1. L \in Nat /\ 0 \in Nat
    BY <1>1
  <2> HIDE DEF step, L
  <2> QED
    BY <1>2, <2>1, StepByStep
<1>4. ASSUME NEW n \in 1 .. L PROVE f[n] = f[n - 1] + files[n].size
  <2>1. f[n - 1] \in Nat
    BY <1>1, <1>3 DEF Stepped
  <2> QED
    BY <1>3, <2>1 DEF Stepped
<1> HIDE DEF step
<1>5. SizesUpTo(f, files)
  BY <1>1, <1>3, <1>4 DEF SizesUpTo, Stepped
<1>6. SizesUpTo(F, files)
  BY <1>5
<1>7. Sizes(files) = F
  BY DEF Sizes, SizesUpTo
<1> HIDE DEF F
<1>8. F[0] = 0 /\ \A n \in 1 .. L : F[n] = F[n - 1] + files[n].size
  BY <1>1, <1>6 DEF SizesUpTo
<1> DEFINE P == {n \in 0 .. L : F[n] \in Nat}
<1>9. 0 .. L \subseteq P
  <2>1. 0 \in P
    BY <1>1, <1>8
  <2>2. ASSUME NEW n \in 1 .. L, n - 1 \in P PROVE n \in P
    <3>1. n \in 0 .. L /\ files[n].size \in Nat
      BY <1>1
    <3>2. F[n] = F[n - 1] + files[n].size /\ F[n - 1] \in Nat
      BY <1>8, <2>2
    <3> HIDE DEF L
    <3> QED
      BY <3>1, <3>2
  <2> HIDE DEF P, L
  <2> QED
    BY <1>1, <2>1, <2>2, UpTo
<1>10. F \in [0 .. L -> Nat]
  BY <1>6, <1>9 DEF SizesUpTo
<1> QED
  BY <1>1, <1>7, <1>8, <1>10 DEF TotalSize

----------------------------------------------------------------------------
\* Sorting.

LEMMA InsertedFacts ==
  ASSUME NEW S, NEW s \in Seq(S), NEW x \in S, NEW after
  PROVE  /\ Inserted(s, x, after) \in Seq(S)
         /\ ToSet(Inserted(s, x, after)) = ToSet(s) \union {x}
<1> DEFINE L == Len(s)
           K == {i \in DOMAIN s : s[i] \in after[x]} \union {L + 1}
           place == Min(K)
           t == [i \in 1 .. L + 1 |->
                   IF i < place THEN s[i] ELSE IF i = place THEN x ELSE s[i - 1]]
<1>1. L \in Nat /\ DOMAIN s = 1 .. L /\ \A i \in 1 .. L : s[i] \in S
  OBVIOUS
<1>2. Inserted(s, x, after) = t
  BY DEF Inserted
<1>3. K \subseteq 1 .. L + 1 /\ K \in SUBSET (0 .. L + 1) /\ K # {}
  BY <1>1
<1> HIDE DEF L
<1>4. place \in 1 .. L + 1
  <2> HIDE DEF K
  <2>1. \E k \in K : \A j \in K : k <= j
    <3>1. L + 1 \in Nat
      BY <1>1
    <3> QED
      BY <1>3, <3>1, LeastNumber
  <2>2. place \in K
    BY <2>1 DEF Min
  <2> QED
    BY <1>3, <2>2
<1> HIDE DEF place
<1>5. ASSUME NEW i \in 1 .. L + 1
      PROVE  /\ i < place => i \in 1 .. L /\ t[i] = s[i]
             /\ i = place => t[i] = x
             /\ i > place => i - 1 \in 1 .. L /\ t[i] = s[i - 1]
  BY <1>1, <1>4
<1>6. t \in [1 .. L + 1 -> S]
  BY <1>1, <1>4, <1>5
<1>7. t \in Seq(S) /\ DOMAIN t = 1 .. L + 1
  <2>1. L + 1 \in Nat /\ DOMAIN t = 1 .. L + 1
    BY <1>1
  <2> HIDE DEF t
  <2> QED
    BY <1>6, <2>1
<1>8. ToSet(t) \subseteq ToSet(s) \union {x}
  <2> SUFFICES ASSUME NEW i \in 1 .. L + 1 PROVE t[i] \in ToSet(s) \union {x}
    BY <1>7 DEF ToSet
  <2>1. i < place \/ i = place \/ i > place
    BY <1>4
  <2> QED
    BY <1>1, <1>5, <2>1 DEF ToSet
<1>9. ASSUME NEW i \in 1 .. L PROVE s[i] \in ToSet(t)
  <2>1. CASE i < place
    <3>1. i \in 1 .. L + 1
      BY <1>1
    <3>2. t[i] = s[i]
      BY <1>5, <2>1, <3>1
    <3> HIDE DEF t
    <3> QED
      BY <1>7, <3>1, <3>2 DEF ToSet
  <2>2. CASE ~(i < place)
    <3>1. i + 1 \in 1 .. L + 1 /\ i + 1 > place /\ (i + 1) - 1 = i
      BY <1>1, <1>4, <2>2
    <3>2. t[i + 1] = s[i]
      BY <1>5, <3>1
    <3> HIDE DEF t
    <3> QED
      BY <1>7, <3>1, <3>2 DEF ToSet
  <2> QED
    BY <2>1, <2>2
<1>10. x \in ToSet(t)
  <2>1. t[place] = x
    BY <1>4, <1>5
  <2> HIDE DEF t
  <2> QED
    BY <1>4, <1>7, <2>1 DEF ToSet
<1>11. ToSet(t) = ToSet(s) \union {x}
  <2>1. ToSet(s) \subseteq ToSet(t)
    BY <1>1, <1>9 DEF ToSet
  <2> HIDE DEF t
  <2> QED
    BY <1>8, <1>10, <2>1
<1> QED
  BY <1>2, <1>7, <1>11

\* The functions that Sorted is defined by.
SortedUpTo(f, s, after) ==
  f = [n \in 0 .. Len(s) |-> IF n = 0 THEN << >> ELSE Inserted(f[n - 1], s[n], after)]

\* The first n of s in order, for each n.
SortedRun(f, S, s, after) ==
  /\ f[0] = << >>
  /\ \A n \in 1 .. Len(s) : f[n] = Inserted(f[n - 1], s[n], after)
  /\ \A n \in 0 .. Len(s) : f[n] \in Seq(S)
  /\ Sorted(s, after) = f[Len(s)]

\* What is sorted is what there was.
LEMMA SortedFacts ==
  ASSUME NEW S, NEW s \in Seq(S), NEW after
  PROVE  /\ Sorted(s, after) \in Seq(S) /\ ToSet(Sorted(s, after)) = ToSet(s)
         /\ \E f : SortedRun(f, S, s, after)
<1> DEFINE L == Len(s)
           F == CHOOSE g : SortedUpTo(g, s, after)
           step == [n \in 1 .. L |-> [t \in Seq(S) |-> Inserted(t, s[n], after)]]
<1>1. L \in Nat /\ DOMAIN s = 1 .. L /\ \A n \in 1 .. L : s[n] \in S
  OBVIOUS
<1>2. \A n \in 1 .. L : step[n] \in [Seq(S) -> Seq(S)]
  <2>1. \A n \in 1 .. L, t \in Seq(S) : Inserted(t, s[n], after) \in Seq(S)
    BY <1>1, InsertedFacts
  <2> QED
    BY <2>1
<1>3. PICK f : Stepped(f, L, Seq(S), << >>, step)
  <2>1. L \in Nat /\ << >> \in Seq(S)
    BY <1>1
  <2> HIDE DEF step, L
  <2> QED
    BY <1>2, <2>1, StepByStep
<1>4. ASSUME NEW n \in 1 .. L PROVE f[n] = Inserted(f[n - 1], s[n], after)
  <2>1. f[n - 1] \in Seq(S)
    BY <1>1, <1>3 DEF Stepped
  <2> QED
    BY <1>3, <2>1 DEF Stepped
<1> HIDE DEF step
<1>5. SortedUpTo(f, s, after)
  BY <1>1, <1>3, <1>4 DEF SortedUpTo, Stepped
<1>6. SortedUpTo(F, s, after)
  BY <1>5
<1>7. Sorted(s, after) = F[L]
  BY DEF Sorted, SortedUpTo
<1> HIDE DEF F
<1>8. F[0] = << >> /\ \A n \in 1 .. L : F[n] = Inserted(F[n - 1], s[n], after)
  BY <1>1, <1>6 DEF SortedUpTo
<1> HIDE DEF L
<1> DEFINE P == {n \in 0 .. L : F[n] \in Seq(S) /\ ToSet(F[n]) = {s[i] : i \in 1 .. n}}
<1>9. 0 \in P
  <2>1. << >> \in Seq(S) /\ ToSet(<< >>) = {}
    BY DEF ToSet
  <2>2. {s[i] : i \in 1 .. 0} = {} /\ 0 \in 0 .. L
    BY <1>1
  <2> QED
    BY <1>8, <2>1, <2>2
<1>10. ASSUME NEW n \in 1 .. L, n - 1 \in P PROVE n \in P
  <2>1. F[n - 1] \in Seq(S) /\ ToSet(F[n - 1]) = {s[i] : i \in 1 .. n - 1}
    BY <1>10
  <2>2. F[n] \in Seq(S) /\ ToSet(F[n]) = ToSet(F[n - 1]) \union {s[n]}
    <3>1. s[n] \in S
      BY <1>1
    <3>2. F[n] = Inserted(F[n - 1], s[n], after)
      BY <1>8
    <3> QED
      BY <2>1, <3>1, <3>2, InsertedFacts
  <2>3. {s[i] : i \in 1 .. n} = {s[i] : i \in 1 .. n - 1} \union {s[n]}
    <3>1. 1 .. n = (1 .. n - 1) \union {n}
      BY <1>1
    <3> QED
      BY <3>1
  <2>4. n \in 0 .. L
    BY <1>1
  <2> QED
    BY <2>1, <2>2, <2>3, <2>4
<1>11. 0 .. L \subseteq P
  <2> HIDE DEF P
  <2> QED
    BY <1>1, <1>9, <1>10, UpTo
<1>12. L \in P /\ \A n \in 0 .. L : F[n] \in Seq(S)
  <2>1. \A n \in 0 .. L : n \in P
    BY <1>11
  <2>2. L \in 0 .. L
    BY <1>1
  <2> QED
    BY <2>1, <2>2
<1>13. ToSet(s) = {s[i] : i \in 1 .. L}
  BY <1>1 DEF ToSet
<1>14. SortedRun(F, S, s, after)
  BY <1>7, <1>8, <1>12 DEF SortedRun, L
<1> QED
  BY <1>7, <1>12, <1>13, <1>14

\* A finite set as a sequence.
LEMMA InOrderFacts ==
  ASSUME NEW S \in SUBSET Paths, NEW score
  PROVE  InOrder(S, score) \in Seq(S) /\ ToSet(InOrder(S, score)) = S
<1> DEFINE s == SetToSeq(S)
<1>1. IsFiniteSet(S)
  BY EvidenceAssumption, FS_Subset
<1>2. Cardinality(S) \in Nat
  BY <1>1, FS_CardinalityType
<1>3. s \in Injection(1 .. Cardinality(S), S)
  <2>1. Bijection(1 .. Cardinality(S), S) # {}
    BY <1>1, FS_CardinalityType DEF ExistsBijection
  <2>2. \E f \in [1 .. Cardinality(S) -> S] : IsInjective(f)
    BY <2>1 DEF Bijection, Injection
  <2> QED
    BY <2>2 DEF SetToSeq, Injection
<1> DEFINE n == Cardinality(S)
<1>4. s \in [1 .. n -> S]
  BY <1>3 DEF Injection
<1>5. s \in Surjection(1 .. n, S)
  <2>1. Cardinality(1 .. n) = n
    BY <1>2, FS_Interval
  <2> HIDE DEF s
  <2> QED
    BY <1>1, <1>3, <2>1, FS_Injection
<1> HIDE DEF s, n
<1>6. s \in Seq(S)
  BY <1>2, <1>4 DEF n
<1>7. ToSet(s) = S
  BY <1>4, <1>5 DEF ToSet, Surjection
<1> DEFINE after == [p \in S |->
                       {q \in S : \/ score[p] > score[q]
                                  \/ score[p] = score[q] /\ Order[p] < Order[q]}]
<1>8. InOrder(S, score) = Sorted(s, after)
  BY DEF InOrder, s
<1> HIDE DEF after
<1> QED
  BY <1>6, <1>7, <1>8, SortedFacts

----------------------------------------------------------------------------
\* What a budget takes.

Taken == [files : Seq(Entry), total : Nat, cut : BOOLEAN, full : BOOLEAN]

IsBudget(budget) == {budget.files, budget.bytes, budget.perFile} \subseteq Nat \ {0}

\* What is held of an entry has its path, its version and some of its size.
IsOf(held, entry) ==
  /\ held.path = entry.path /\ held.version = entry.version /\ held.targeted = entry.targeted
  /\ held.size <= entry.size

PassedOver(t, u, entry) == u = t /\ (entry.size = 0 \/ entry.path \in PathsOf(t.files))

NoRoom(budget, t) == Len(t.files) >= budget.files \/ t.total >= budget.bytes

OutOfRoom(budget, t, u) ==
  /\ t.full \/ NoRoom(budget, t)
  /\ u.files = t.files /\ u.total = t.total /\ u.full /\ u.cut

Holds(budget, t, u, entry, held) ==
  /\ ~t.full /\ ~NoRoom(budget, t) /\ entry.path \notin PathsOf(t.files)
  /\ IsOf(held, entry)
  /\ held.size \in 1 .. budget.perFile /\ t.total + held.size <= budget.bytes
  /\ entry.size <= budget.perFile /\ t.total + entry.size <= budget.bytes => held = entry
  /\ entry.size <= budget.perFile => held = entry \/ t.total + held.size = budget.bytes
  /\ u.files = Append(t.files, held) /\ u.total = t.total + held.size
  /\ ~u.full /\ (u.cut <=> t.cut \/ held.cut)

LEMMA BoundedFacts ==
  ASSUME NEW e \in Entry, NEW room \in Nat
  PROVE  /\ Bounded(e, room) \in Entry
         /\ IsOf(Bounded(e, room), e)
         /\ Bounded(e, room).size = IF e.size <= room THEN e.size ELSE room
         /\ e.size <= room => Bounded(e, room) = e
<1> DEFINE b == Bounded(e, room)
<1>1. /\ e.path \in Paths /\ e.size \in Nat /\ e.cut \in BOOLEAN /\ e.version \in Nat
      /\ e.targeted \in BOOLEAN
  BY DEF Entry
<1>2. e = [path |-> e.path, size |-> e.size, cut |-> e.cut, version |-> e.version,
           targeted |-> e.targeted]
  BY DEF Entry
<1>3. Min({e.size, room}) = IF e.size <= room THEN e.size ELSE room
  BY <1>1, MinOfTwo
<1>4. b = [e EXCEPT !.size = IF e.size <= room THEN e.size ELSE room,
                    !.cut = e.cut \/ e.size > room]
  BY <1>3 DEF Bounded
<1>5. /\ b.path = e.path /\ b.version = e.version /\ b.targeted = e.targeted
      /\ b.size = IF e.size <= room THEN e.size ELSE room
  BY <1>2, <1>4
<1>6. b \in Entry
  BY <1>1, <1>4 DEF Entry
<1>7. ASSUME e.size <= room PROVE b = e
  <2>1. b = [e EXCEPT !.size = e.size, !.cut = e.cut \/ e.size > room]
    BY <1>4, <1>7
  <2>2. (e.cut \/ e.size > room) = e.cut
    BY <1>1, <1>7
  <2>3. b = [e EXCEPT !.size = e.size, !.cut = e.cut]
    BY <2>1, <2>2
  <2> QED
    BY <1>2, <2>3
<1> HIDE DEF b
<1>8. IsOf(b, e)
  BY <1>1, <1>5 DEF IsOf
<1> QED
  BY <1>5, <1>6, <1>7, <1>8 DEF b

LEMMA TakeFacts ==
  ASSUME NEW budget, IsBudget(budget), NEW t \in Taken, NEW e \in Entry, NEW heldFirst \in BOOLEAN
  PROVE  LET u == Take(budget, t, e, heldFirst)
         IN /\ u \in Taken
            /\ \/ PassedOver(t, u, e)
               \/ OutOfRoom(budget, t, u)
               \/ \E held \in Entry : Holds(budget, t, u, e, held)
<1> DEFINE u == Take(budget, t, e, heldFirst)
<1>1. /\ t.files \in Seq(Entry) /\ t.total \in Nat /\ t.cut \in BOOLEAN /\ t.full \in BOOLEAN
      /\ Len(t.files) \in Nat
  BY DEF Taken
<1>2. t = [files |-> t.files, total |-> t.total, cut |-> t.cut, full |-> t.full]
  BY DEF Taken
<1>3. budget.files \in Nat \ {0} /\ budget.bytes \in Nat \ {0} /\ budget.perFile \in Nat \ {0}
  BY DEF IsBudget
<1>4. e.size \in Nat
  BY DEF Entry
<1>5. CASE u = t /\ (e.size = 0 \/ e.path \in PathsOf(t.files))
  BY <1>5 DEF PassedOver
<1>6. CASE (t.full \/ NoRoom(budget, t)) /\ u = [t EXCEPT !.full = TRUE, !.cut = TRUE]
  <2>1. /\ u.files = t.files /\ u.total = t.total /\ u.full = TRUE /\ u.cut = TRUE
        /\ u = [files |-> t.files, total |-> t.total, cut |-> TRUE, full |-> TRUE]
    BY <1>2, <1>6
  <2> HIDE DEF u
  <2>2. u \in Taken
    BY <1>1, <2>1 DEF Taken
  <2>3. OutOfRoom(budget, t, u)
    BY <1>6, <2>1 DEF OutOfRoom
  <2> QED
    BY <2>2, <2>3 DEF u
<1> DEFINE room == Room(budget, t)
           held == Bounded(e, room)
           wide == [t EXCEPT !.files = Append(@, held), !.total = @ + held.size,
                             !.cut = @ \/ held.cut]
<1>7. CASE ~t.full /\ ~NoRoom(budget, t) /\ e.size # 0 /\ e.path \notin PathsOf(t.files)
           /\ u = wide
  <2>1. t.total < budget.bytes
    BY <1>1, <1>3, <1>7 DEF NoRoom
  <2>2. budget.bytes - t.total \in Nat \ {0}
    BY <1>1, <1>3, <2>1
  <2>3. /\ room \in Nat \ {0} /\ room <= budget.perFile /\ room <= budget.bytes - t.total
        /\ room = budget.perFile \/ room = budget.bytes - t.total
    BY <1>3, <2>2, MinOfTwo DEF Room
  <2> HIDE DEF room
  <2>4. /\ held \in Entry /\ IsOf(held, e) /\ held.size = IF e.size <= room THEN e.size ELSE room
        /\ e.size <= room => held = e
    BY <2>3, BoundedFacts
  <2> HIDE DEF held
  <2>5. held.size \in 1 .. budget.perFile /\ t.total + held.size <= budget.bytes
    BY <1>1, <1>3, <1>4, <1>7, <2>2, <2>3, <2>4
  <2>6. e.size <= budget.perFile /\ t.total + e.size <= budget.bytes => held = e
    BY <1>1, <1>3, <1>4, <2>3, <2>4
  <2>7. held.size \in Nat /\ held.cut \in BOOLEAN
    BY <2>4 DEF Entry
  <2>12. e.size <= budget.perFile => held = e \/ t.total + held.size = budget.bytes
    BY <1>1, <1>3, <1>4, <2>2, <2>3, <2>4
  <2>8. /\ wide.files = Append(t.files, held) /\ wide.total = t.total + held.size
        /\ wide.cut = (t.cut \/ held.cut) /\ wide.full = t.full
    <3> DEFINE longer == Append(t.files, held)
               sum == t.total + held.size
               either == t.cut \/ held.cut
    <3>1. wide = [t EXCEPT !.files = longer, !.total = sum, !.cut = either]
      OBVIOUS
    <3>2. either \in BOOLEAN
      OBVIOUS
    <3> HIDE DEF wide, longer, sum, either
    <3>3. /\ wide.files = longer /\ wide.total = sum /\ wide.cut = either /\ wide.full = t.full
      BY <1>1, <1>2, <3>1, <3>2
    <3> QED
      BY <3>3 DEF longer, sum, either
  <2>9. Append(t.files, held) \in Seq(Entry) /\ t.total + held.size \in Nat
    BY <1>1, <2>4, <2>7
  <2> HIDE DEF wide, u
  <2>10. u \in Taken
    <3> DEFINE any == t.cut \/ held.cut
    <3>1. any \in BOOLEAN
      OBVIOUS
    <3> HIDE DEF any
    <3>2. u = [t EXCEPT !.files = Append(t.files, held), !.total = t.total + held.size,
                        !.cut = any]
      BY <1>7 DEF wide, any
    <3> QED
      BY <2>9, <3>1, <3>2 DEF Taken
  <2>11. Holds(budget, t, u, e, held)
    <3>1. u.files = Append(t.files, held) /\ u.total = t.total + held.size
      BY <1>7, <2>8
    <3>2. ~u.full /\ (u.cut <=> t.cut \/ held.cut)
      BY <1>1, <1>7, <2>7, <2>8
    <3> QED
      BY <1>7, <2>4, <2>5, <2>6, <2>12, <3>1, <3>2 DEF Holds
  <2> QED
    BY <2>4, <2>10, <2>11 DEF u
<1>8. \/ u = t /\ (e.size = 0 \/ e.path \in PathsOf(t.files))
      \/ (t.full \/ NoRoom(budget, t)) /\ u = [t EXCEPT !.full = TRUE, !.cut = TRUE]
      \/ ~t.full /\ ~NoRoom(budget, t) /\ e.size # 0 /\ e.path \notin PathsOf(t.files)
         /\ u = wide
  BY DEF Take, NoRoom
<1> QED
  BY <1>5, <1>6, <1>7, <1>8

\* The first m of two sequences of files hold as much when they are the same.
LEMMA SizesAgree ==
  ASSUME NEW files \in Seq(Entry), NEW more \in Seq(Entry), NEW m \in Nat,
         m <= Len(files), m <= Len(more), \A i \in 1 .. m : files[i] = more[i]
  PROVE  Sizes(files)[m] = Sizes(more)[m]
<1> DEFINE P == {n \in 0 .. m : Sizes(files)[n] = Sizes(more)[n]}
<1>1. Len(files) \in Nat /\ Len(more) \in Nat
  OBVIOUS
<1>2. 0 \in P
  BY SizesFacts
<1>3. ASSUME NEW n \in 1 .. m, n - 1 \in P PROVE n \in P
  <2>1. n \in 1 .. Len(files) /\ n \in 1 .. Len(more) /\ files[n] = more[n]
    BY <1>1
  <2>2. Sizes(files)[n] = Sizes(files)[n - 1] + files[n].size
    BY <2>1, SizesFacts
  <2>3. Sizes(more)[n] = Sizes(more)[n - 1] + more[n].size
    BY <2>1, SizesFacts
  <2> QED
    BY <1>3, <2>1, <2>2, <2>3
<1>4. m \in P
  <2>1. m \in 0 .. m
    OBVIOUS
  <2> HIDE DEF P
  <2> QED
    BY <1>2, <1>3, <2>1, UpTo
<1> QED
  BY <1>4

LEMMA TotalIsNatural ==
  ASSUME NEW files \in Seq(Entry)
  PROVE  TotalSize(files) \in Nat
<1>1. Len(files) \in 0 .. Len(files)
  OBVIOUS
<1> QED
  BY <1>1, SizesFacts

LEMMA SizesGrow ==
  ASSUME NEW files \in Seq(Entry), NEW m \in 0 .. Len(files)
  PROVE  Sizes(files)[m] <= TotalSize(files)
<1> DEFINE L == Len(files)
           P == {k \in 0 .. L - m : Sizes(files)[m] <= Sizes(files)[m + k]}
<1>1. L \in Nat
  OBVIOUS
<1>2. \A n \in 0 .. L : Sizes(files)[n] \in Nat
  BY SizesFacts
<1>3. 0 \in P
  BY <1>1, <1>2
<1>4. ASSUME NEW k \in 1 .. L - m, k - 1 \in P PROVE k \in P
  <2>1. m + k \in 1 .. L /\ (m + k) - 1 = m + (k - 1) /\ m + k \in 0 .. L /\ m + (k - 1) \in 0 .. L
    BY <1>1
  <2>2. Sizes(files)[m + k] = Sizes(files)[m + (k - 1)] + files[m + k].size
    BY <2>1, SizesFacts
  <2>3. files[m + k].size \in Nat
    BY <2>1, SizesFacts
  <2>4. Sizes(files)[m] <= Sizes(files)[m + (k - 1)]
    BY <1>4
  <2>5. k \in 0 .. L - m
    BY <1>1
  <2>6. /\ Sizes(files)[m] \in Nat /\ Sizes(files)[m + k] \in Nat
        /\ Sizes(files)[m + (k - 1)] \in Nat
    BY <1>2, <2>1
  <2> QED
    BY <2>2, <2>3, <2>4, <2>5, <2>6
<1>5. L - m \in P
  <2>1. L - m \in Nat /\ L - m \in 0 .. L - m
    BY <1>1
  <2> HIDE DEF P, L
  <2> QED
    BY <1>3, <1>4, <2>1, UpTo
<1>6. m + (L - m) = L
  BY <1>1
<1> HIDE DEF L
<1>7. Sizes(files)[m] <= Sizes(files)[L]
  BY <1>5, <1>6
<1> QED
  BY <1>7, SizesFacts DEF L

LEMMA OneMore ==
  ASSUME NEW files \in Seq(Entry), NEW held \in Entry
  PROVE  LET more == Append(files, held)
         IN /\ more \in Seq(Entry)
            /\ Len(more) = Len(files) + 1 /\ DOMAIN more = 1 .. Len(files) + 1
            /\ DOMAIN files = 1 .. Len(files)
            /\ more[Len(files) + 1] = held
            /\ \A i \in 1 .. Len(files) : more[i] = files[i]
            /\ PathsOf(more) = PathsOf(files) \union {held.path}
            /\ TotalSize(more) = TotalSize(files) + held.size
<1> DEFINE more == Append(files, held)
           L == Len(files)
<1>1. /\ more \in Seq(Entry)
      /\ Len(more) = L + 1 /\ DOMAIN more = 1 .. L + 1 /\ DOMAIN files = 1 .. L
      /\ more[L + 1] = held
      /\ \A i \in 1 .. L : more[i] = files[i]
      /\ L \in Nat
  OBVIOUS
<1> HIDE DEF more, L
<1>2. PathsOf(more) = PathsOf(files) \union {held.path}
  <2>1. 1 .. L + 1 = (1 .. L) \union {L + 1}
    BY <1>1
  <2> QED
    BY <1>1, <2>1 DEF PathsOf
<1>3. TotalSize(more) = TotalSize(files) + held.size
  <2>1. Sizes(more)[L] = Sizes(files)[L]
    BY <1>1, SizesAgree DEF L
  <2>2. TotalSize(more) = Sizes(more)[L + 1]
    BY <1>1, SizesFacts
  <2>3. L + 1 \in 1 .. Len(more) /\ (L + 1) - 1 = L
    BY <1>1
  <2>4. Sizes(more)[L + 1] = Sizes(more)[L] + held.size
    BY <1>1, <2>3, SizesFacts
  <2>5. TotalSize(files) = Sizes(files)[L]
    BY SizesFacts DEF L
  <2> QED
    BY <2>1, <2>2, <2>4, <2>5
<1> QED
  BY <1>1, <1>2, <1>3 DEF more, L

\* What has been taken when the first n entries have been gone through.
WithinBudget(budget, diff, t) ==
  /\ Len(t.files) <= budget.files
  /\ t.total = diff.size + TotalSize(t.files)
  /\ diff.size <= budget.bytes => t.total <= budget.bytes
  /\ t.full => t.cut /\ NoRoom(budget, t)

SoundFiles(budget, t) ==
  /\ \A i \in DOMAIN t.files : t.files[i].size \in 1 .. budget.perFile
  /\ \A i, j \in DOMAIN t.files : t.files[i].path = t.files[j].path => i = j
  /\ ~t.cut => \A i \in DOMAIN t.files : ~t.files[i].cut

FromEntries(entries, n, t) ==
  /\ ~t.full => \A k \in 1 .. n : entries[k].size # 0 => entries[k].path \in PathsOf(t.files)
  /\ \A i \in DOMAIN t.files : \E k \in 1 .. n : IsOf(t.files[i], entries[k])

Gathered(budget, diff, entries, n, t) ==
  WithinBudget(budget, diff, t) /\ SoundFiles(budget, t) /\ FromEntries(entries, n, t)

LEMMA GatheredStep ==
  ASSUME NEW budget, IsBudget(budget), NEW diff, diff.size \in Nat,
         NEW entries \in Seq(Entry), NEW n \in 1 .. Len(entries), NEW heldFirst \in BOOLEAN,
         NEW t \in Taken, Gathered(budget, diff, entries, n - 1, t)
  PROVE  Gathered(budget, diff, entries, n, Take(budget, t, entries[n], heldFirst))
<1> DEFINE u == Take(budget, t, entries[n], heldFirst)
           e == entries[n]
<1>1. e \in Entry /\ n \in Nat /\ 1 .. n = (1 .. n - 1) \union {n}
  OBVIOUS
<1>2. /\ t.files \in Seq(Entry) /\ t.total \in Nat /\ t.cut \in BOOLEAN /\ t.full \in BOOLEAN
      /\ Len(t.files) \in Nat
  BY DEF Taken
<1>3. budget.files \in Nat \ {0} /\ budget.bytes \in Nat \ {0} /\ budget.perFile \in Nat \ {0}
  BY DEF IsBudget
<1>4. /\ u \in Taken
      /\ \/ PassedOver(t, u, e)
         \/ OutOfRoom(budget, t, u)
         \/ \E held \in Entry : Holds(budget, t, u, e, held)
  BY <1>1, TakeFacts
<1> HIDE DEF u, e
<1>5. CASE PassedOver(t, u, e)
  <2>1. u = t /\ (e.size = 0 \/ e.path \in PathsOf(t.files))
    BY <1>5 DEF PassedOver
  <2>2. FromEntries(entries, n, t)
    BY <1>1, <2>1 DEF FromEntries, Gathered, e
  <2> QED
    BY <2>1, <2>2 DEF Gathered, u
<1>6. CASE OutOfRoom(budget, t, u)
  <2>1. /\ NoRoom(budget, t)
        /\ u.files = t.files /\ u.total = t.total /\ u.full /\ u.cut
    BY <1>6 DEF OutOfRoom, Gathered, WithinBudget
  <2>2. WithinBudget(budget, diff, u)
    BY <2>1 DEF Gathered, WithinBudget, NoRoom
  <2>3. SoundFiles(budget, u)
    BY <2>1 DEF Gathered, SoundFiles
  <2>4. FromEntries(entries, n, u)
    BY <1>1, <2>1 DEF Gathered, FromEntries
  <2> QED
    BY <2>2, <2>3, <2>4 DEF Gathered, u
<1>7. ASSUME NEW held \in Entry, Holds(budget, t, u, e, held)
      PROVE  Gathered(budget, diff, entries, n, u)
  <2> DEFINE L == Len(t.files)
  <2>1. /\ ~t.full /\ ~NoRoom(budget, t) /\ e.path \notin PathsOf(t.files)
        /\ IsOf(held, e)
        /\ held.size \in 1 .. budget.perFile /\ t.total + held.size <= budget.bytes
        /\ u.files = Append(t.files, held) /\ u.total = t.total + held.size
        /\ ~u.full /\ (u.cut <=> t.cut \/ held.cut)
    BY <1>7 DEF Holds
  <2>2. /\ Len(u.files) = L + 1 /\ DOMAIN u.files = 1 .. L + 1
        /\ DOMAIN t.files = 1 .. L
        /\ u.files[L + 1] = held
        /\ \A i \in 1 .. L : u.files[i] = t.files[i]
        /\ PathsOf(u.files) = PathsOf(t.files) \union {held.path}
        /\ TotalSize(u.files) = TotalSize(t.files) + held.size
    BY <1>2, <2>1, OneMore
  <2>3. TotalSize(t.files) \in Nat /\ held.size \in Nat /\ held.path = e.path
    <3>1. TotalSize(t.files) \in Nat
      BY <1>2, TotalIsNatural
    <3>2. held.size \in Nat
      BY DEF Entry
    <3> QED
      BY <2>1, <3>1, <3>2 DEF IsOf
  <2> HIDE DEF L
  <2>4. L \in Nat
    BY <1>2 DEF L
  <2>5. 1 .. L + 1 = (1 .. L) \union {L + 1}
    BY <2>4
  <2>6. WithinBudget(budget, diff, u)
    <3>1. L < budget.files
      BY <1>2, <1>3, <2>1 DEF NoRoom, L
    <3>2. Len(u.files) <= budget.files
      BY <1>3, <2>2, <2>4, <3>1
    <3>3. u.total = diff.size + TotalSize(u.files)
      BY <1>2, <2>1, <2>2, <2>3 DEF Gathered, WithinBudget
    <3> QED
      BY <2>1, <3>2, <3>3 DEF WithinBudget
  <2>7. SoundFiles(budget, u)
    <3>1. \A i \in 1 .. L + 1 : u.files[i].size \in 1 .. budget.perFile
      BY <2>1, <2>2, <2>5 DEF Gathered, SoundFiles
    <3>2. \A i \in 1 .. L : u.files[i].path # held.path
      BY <2>1, <2>2, <2>3 DEF PathsOf
    <3>3. \A i, j \in 1 .. L + 1 : u.files[i].path = u.files[j].path => i = j
      BY <2>2, <2>5, <3>2 DEF Gathered, SoundFiles
    <3>4. ~u.cut => \A i \in 1 .. L + 1 : ~u.files[i].cut
      BY <2>1, <2>2, <2>5 DEF Gathered, SoundFiles
    <3> QED
      BY <2>2, <3>1, <3>3, <3>4 DEF SoundFiles
  <2>8. FromEntries(entries, n, u)
    <3>1. \A k \in 1 .. n : entries[k].size # 0 => entries[k].path \in PathsOf(u.files)
      BY <1>1, <2>1, <2>2, <2>3 DEF Gathered, FromEntries, e
    <3>2. \A i \in 1 .. L + 1 : \E k \in 1 .. n : IsOf(u.files[i], entries[k])
      <4> TAKE i \in 1 .. L + 1
      <4>1. CASE i = L + 1
        BY <1>1, <2>1, <2>2, <4>1 DEF e
      <4>2. CASE i \in 1 .. L
        <5>1. PICK k \in 1 .. n - 1 : IsOf(t.files[i], entries[k])
          BY <2>2, <4>2 DEF Gathered, FromEntries
        <5> QED
          BY <1>1, <2>2, <4>2, <5>1
      <4> QED
        BY <2>5, <4>1, <4>2
    <3> QED
      BY <2>2, <3>1, <3>2 DEF FromEntries
  <2> QED
    BY <2>6, <2>7, <2>8 DEF Gathered
<1> QED
  BY <1>4, <1>5, <1>6, <1>7 DEF u

\* The functions that Gather is defined by.
GatherUpTo(f, entries, budget, diff, heldFirst) ==
  f = [n \in 0 .. Len(entries) |->
         IF n = 0 THEN [files |-> << >>, total |-> diff.size, cut |-> diff.cut, full |-> FALSE]
         ELSE Take(budget, f[n - 1], entries[n], heldFirst)]

\* What is taken of the first n entries, for each n.
GatherRun(f, entries, budget, diff, heldFirst) ==
  /\ \A n \in 0 .. Len(entries) :
       f[n] \in Taken /\ Gathered(budget, diff, entries, n, f[n])
  /\ f[0] = [files |-> << >>, total |-> diff.size, cut |-> diff.cut, full |-> FALSE]
  /\ \A n \in 1 .. Len(entries) : f[n] = Take(budget, f[n - 1], entries[n], heldFirst)
  /\ Gather(entries, budget, diff, heldFirst) = f[Len(entries)]

LEMMA GatherFacts ==
  ASSUME NEW budget, IsBudget(budget), NEW diff, diff.size \in Nat, diff.cut \in BOOLEAN,
         NEW entries \in Seq(Entry), NEW heldFirst \in BOOLEAN
  PROVE  \E f : GatherRun(f, entries, budget, diff, heldFirst)
<1> DEFINE L == Len(entries)
           start == [files |-> << >>, total |-> diff.size, cut |-> diff.cut, full |-> FALSE]
           F == CHOOSE g : GatherUpTo(g, entries, budget, diff, heldFirst)
           step == [n \in 1 .. L |-> [t \in Taken |-> Take(budget, t, entries[n], heldFirst)]]
<1>1. L \in Nat /\ \A n \in 1 .. L : entries[n] \in Entry
  OBVIOUS
<1>2. start \in Taken
  BY DEF Taken
<1>3. \A n \in 1 .. L, t \in Taken : Take(budget, t, entries[n], heldFirst) \in Taken
  BY <1>1, TakeFacts
<1>4. \A n \in 1 .. L : step[n] \in [Taken -> Taken]
  BY <1>3
<1>5. PICK f : Stepped(f, L, Taken, start, step)
  <2> HIDE DEF step, L, start
  <2> QED
    BY <1>1, <1>2, <1>4, StepByStep
<1>6. ASSUME NEW n \in 1 .. L PROVE f[n] = Take(budget, f[n - 1], entries[n], heldFirst)
  <2>1. f[n - 1] \in Taken
    BY <1>1, <1>5 DEF Stepped
  <2> HIDE DEF start
  <2> QED
    BY <1>5, <2>1 DEF Stepped
<1> HIDE DEF step
<1>7. GatherUpTo(f, entries, budget, diff, heldFirst)
  BY <1>1, <1>5, <1>6 DEF GatherUpTo, Stepped
<1>8. GatherUpTo(F, entries, budget, diff, heldFirst)
  BY <1>7
<1>9. Gather(entries, budget, diff, heldFirst) = F[L]
  BY DEF Gather, GatherUpTo
<1> HIDE DEF F
<1>10. F[0] = start /\ \A n \in 1 .. L : F[n] = Take(budget, F[n - 1], entries[n], heldFirst)
  <2>1. F = [n \in 0 .. L |-> IF n = 0 THEN start
                              ELSE Take(budget, F[n - 1], entries[n], heldFirst)]
    BY <1>8 DEF GatherUpTo
  <2>2. 0 \in 0 .. L /\ \A n \in 1 .. L : n \in 0 .. L /\ n # 0
    BY <1>1
  <2> HIDE DEF start, L
  <2> QED
    BY <2>1, <2>2
<1> DEFINE P == {n \in 0 .. L : F[n] \in Taken /\ Gathered(budget, diff, entries, n, F[n])}
<1>11. 0 \in P
  <2>1. << >> \in Seq(Entry) /\ Len(<< >>) = 0
    OBVIOUS
  <2>2. TotalSize(<< >>) = 0
    BY <2>1, SizesFacts
  <2>3. /\ start.files = << >> /\ start.total = diff.size /\ start.full = FALSE
        /\ DOMAIN start.files = {} /\ 0 \in 0 .. L
    BY <1>1
  <2>4. 1 .. 0 = {}
    OBVIOUS
  <2>5. budget.files \in Nat
    BY DEF IsBudget
  <2> HIDE DEF start
  <2>6. Gathered(budget, diff, entries, 0, start)
    <3>1. WithinBudget(budget, diff, start)
      BY <2>1, <2>2, <2>3, <2>5 DEF WithinBudget
    <3>2. SoundFiles(budget, start)
      BY <2>3 DEF SoundFiles
    <3>3. FromEntries(entries, 0, start)
      BY <2>3, <2>4 DEF FromEntries
    <3> QED
      BY <3>1, <3>2, <3>3 DEF Gathered
  <2> QED
    BY <1>2, <1>10, <2>3, <2>6
<1>12. ASSUME NEW n \in 1 .. L, n - 1 \in P PROVE n \in P
  <2>1. F[n - 1] \in Taken /\ Gathered(budget, diff, entries, n - 1, F[n - 1])
    BY <1>12
  <2>2. F[n] \in Taken
    BY <1>3, <1>10, <2>1
  <2>3. Gathered(budget, diff, entries, n, F[n])
    BY <1>10, <2>1, GatheredStep
  <2>4. n \in 0 .. L
    BY <1>1
  <2> QED
    BY <2>2, <2>3, <2>4
<1>13. 0 .. L \subseteq P
  <2> HIDE DEF P, L
  <2> QED
    BY <1>1, <1>11, <1>12, UpTo
<1>14. \A n \in 0 .. L : F[n] \in Taken /\ Gathered(budget, diff, entries, n, F[n])
  BY <1>13
<1> HIDE DEF P
<1>15. GatherRun(F, entries, budget, diff, heldFirst)
  BY <1>9, <1>10, <1>14 DEF GatherRun
<1> QED
  BY <1>15

\* What is taken keeps to the budget, and says of what it leaves out.
LEMMA GatherIsSound ==
  ASSUME NEW budget, IsBudget(budget), NEW diff, diff.size \in Nat, diff.cut \in BOOLEAN,
         NEW entries \in Seq(Entry), NEW heldFirst \in BOOLEAN
  PROVE  LET t == Gather(entries, budget, diff, heldFirst)
         IN t \in Taken /\ Gathered(budget, diff, entries, Len(entries), t)
<1>1. Len(entries) \in 0 .. Len(entries)
  OBVIOUS
<1>2. PICK f : GatherRun(f, entries, budget, diff, heldFirst)
  BY GatherFacts
<1> QED
  BY <1>1, <1>2 DEF GatherRun

LEMMA NoDiffFacts == NoDiff.size = 0 /\ NoDiff.size \in Nat /\ NoDiff.cut \in BOOLEAN
BY DEF NoDiff

\* What a budget has once taken it takes again, from the front of the queue and first.
LEMMA TakenAgain ==
  ASSUME NEW budget, IsBudget(budget), NEW t \in Taken, NEW entries, NEW m,
         Gathered(budget, NoDiff, entries, m, t), NEW more \in Seq(Entry)
  PROVE  LET u == ContextEvidence(t.files \o more, budget)
         IN /\ Len(u.files) >= Len(t.files)
            /\ \A i \in DOMAIN t.files : u.files[i] = t.files[i]
            /\ NoRoom(budget, t) => u.files = t.files
<1> DEFINE K == Len(t.files)
           M == Len(more)
           A == t.files \o more
<1>1. /\ t.files \in Seq(Entry) /\ t.total \in Nat /\ K \in Nat /\ M \in Nat
      /\ DOMAIN t.files = 1 .. K
  BY DEF Taken
<1>2. A \in Seq(Entry) /\ Len(A) = K + M /\ \A i \in 1 .. K : A[i] = t.files[i]
  BY <1>1
<1> HIDE DEF A
<1>3. budget.files \in Nat \ {0} /\ budget.bytes \in Nat \ {0} /\ budget.perFile \in Nat \ {0}
  BY DEF IsBudget
<1>4. PICK f : GatherRun(f, A, budget, NoDiff, TRUE)
  BY <1>2, GatherFacts, NoDiffFacts
<1>5. ContextEvidence(A, budget) = f[K + M]
  BY <1>2, <1>4 DEF ContextEvidence, GatherRun
<1>6. \A i \in 1 .. K : t.files[i] \in Entry /\ t.files[i].size \in 1 .. budget.perFile
  BY <1>1 DEF Gathered, SoundFiles
<1>7. \A i, j \in 1 .. K : t.files[i].path = t.files[j].path => i = j
  BY <1>1 DEF Gathered, SoundFiles
<1>8. /\ K <= budget.files
      /\ t.total = TotalSize(t.files) /\ t.total <= budget.bytes
  <2>1. TotalSize(t.files) \in Nat
    BY <1>1, TotalIsNatural
  <2> QED
    BY <1>1, <1>3, <2>1, NoDiffFacts DEF Gathered, WithinBudget
<1>9. ASSUME NEW n \in 0 .. K + M
      PROVE  /\ f[n] \in Taken /\ f[n].files \in Seq(Entry) /\ f[n].total \in Nat
             /\ f[n].full \in BOOLEAN /\ Len(f[n].files) \in Nat
             /\ DOMAIN f[n].files = 1 .. Len(f[n].files)
             /\ f[n].total = TotalSize(f[n].files)
  <2>1. f[n] \in Taken /\ Gathered(budget, NoDiff, A, n, f[n])
    BY <1>2, <1>4 DEF GatherRun
  <2>2. f[n].files \in Seq(Entry) /\ f[n].total \in Nat /\ f[n].full \in BOOLEAN
    BY <2>1 DEF Taken
  <2>3. TotalSize(f[n].files) \in Nat
    BY <2>2, TotalIsNatural
  <2>4. f[n].total = TotalSize(f[n].files)
    BY <2>1, <2>3, NoDiffFacts DEF Gathered, WithinBudget
  <2> QED
    BY <2>1, <2>2, <2>4
<1>10. ASSUME NEW n \in 1 .. K + M
       PROVE  /\ A[n] \in Entry /\ n - 1 \in 0 .. K + M
              /\ \/ PassedOver(f[n - 1], f[n], A[n])
                 \/ OutOfRoom(budget, f[n - 1], f[n])
                 \/ \E held \in Entry : Holds(budget, f[n - 1], f[n], A[n], held)
  <2>1. A[n] \in Entry /\ n - 1 \in 0 .. K + M
    BY <1>1, <1>2
  <2>2. f[n] = Take(budget, f[n - 1], A[n], TRUE)
    BY <1>2, <1>4 DEF GatherRun
  <2>3. f[n - 1] \in Taken
    BY <1>9, <2>1
  <2> QED
    BY <2>1, <2>2, <2>3, TakeFacts
<1> DEFINE Copied(n) == /\ ~f[n].full /\ Len(f[n].files) = n
                        /\ \A i \in 1 .. n : f[n].files[i] = t.files[i]
           P == {n \in 0 .. K : Copied(n)}
<1>11. 0 \in P
  <2>1. f[0].files = << >> /\ f[0].full = FALSE
    BY <1>4 DEF GatherRun
  <2> QED
    BY <1>1, <2>1
<1>12. ASSUME NEW n \in 1 .. K, n - 1 \in P PROVE n \in P
  <2> DEFINE s == f[n - 1]
             e == t.files[n]
  <2>1. Copied(n - 1)
    BY <1>12
  <2>2. n \in 1 .. K + M /\ n - 1 \in 0 .. K + M /\ A[n] = e /\ n \in Nat
    BY <1>1, <1>2
  <2>3. e \in Entry /\ e.size \in 1 .. budget.perFile
    BY <1>6
  <2>4. /\ s.files \in Seq(Entry) /\ s.total \in Nat /\ s.total = TotalSize(s.files)
        /\ DOMAIN s.files = 1 .. n - 1 /\ Len(s.files) = n - 1
    BY <1>9, <2>1, <2>2
  <2>5. \A i \in 1 .. n - 1 : s.files[i] = t.files[i]
    BY <2>1
  <2> HIDE DEF Copied
  <2>6. e.path \notin PathsOf(s.files)
    <3>1. ASSUME NEW i \in 1 .. n - 1, s.files[i].path = e.path PROVE FALSE
      <4>1. i \in 1 .. K /\ i # n
        BY <1>1
      <4>2. t.files[i].path = t.files[n].path
        BY <2>5, <3>1
      <4> QED
        BY <1>7, <4>1, <4>2
    <3> QED
      BY <2>4, <3>1 DEF PathsOf
  <2>7. s.total + e.size <= budget.bytes
    <3>1. Sizes(s.files)[n - 1] = Sizes(t.files)[n - 1]
      <4>1. n - 1 \in Nat /\ n - 1 <= Len(s.files) /\ n - 1 <= Len(t.files)
        BY <1>1, <2>4
      <4> HIDE DEF s
      <4> QED
        BY <1>1, <2>4, <2>5, <4>1, SizesAgree
    <3>2. s.total = Sizes(s.files)[n - 1]
      BY <2>4, SizesFacts
    <3>3. n \in 1 .. Len(t.files) /\ n \in 0 .. Len(t.files)
      BY <1>1
    <3>4. Sizes(t.files)[n] = Sizes(t.files)[n - 1] + e.size
      BY <1>1, <3>3, SizesFacts
    <3>5. Sizes(t.files)[n] <= TotalSize(t.files)
      BY <1>1, <3>3, SizesGrow
    <3>6. Sizes(t.files)[n] = s.total + e.size
      BY <3>1, <3>2, <3>4
    <3>7. s.total + e.size \in Nat
      BY <1>3, <2>3, <2>4
    <3> QED
      BY <1>1, <1>3, <1>8, <3>5, <3>6, <3>7
  <2>8. ~NoRoom(budget, s) /\ e.size # 0 /\ e.size <= budget.perFile
    BY <1>1, <1>3, <1>8, <2>3, <2>4, <2>7 DEF NoRoom
  <2>9. PICK held \in Entry : Holds(budget, s, f[n], e, held)
    <3>1. ~s.full
      BY <2>1 DEF Copied
    <3> QED
      BY <1>10, <2>2, <2>6, <2>8, <3>1 DEF PassedOver, OutOfRoom
  <2>10. f[n].files = Append(s.files, e) /\ ~f[n].full
    BY <2>7, <2>8, <2>9 DEF Holds
  <2> HIDE DEF s, e
  <2>11. /\ Len(f[n].files) = n
         /\ f[n].files[n] = e /\ \A i \in 1 .. n - 1 : f[n].files[i] = s.files[i]
    BY <2>2, <2>3, <2>4, <2>10
  <2>12. \A i \in 1 .. n : f[n].files[i] = t.files[i]
    <3>1. 1 .. n = (1 .. n - 1) \union {n}
      BY <2>2
    <3> QED
      BY <2>5, <2>11, <3>1 DEF e
  <2>13. n \in 0 .. K
    BY <1>1
  <2> QED
    BY <2>10, <2>11, <2>12, <2>13 DEF Copied
<1>13. Copied(K)
  <2> HIDE DEF P, K
  <2>1. 0 .. K \subseteq P
    BY <1>1, <1>11, <1>12, UpTo
  <2>2. K \in P
    BY <1>1, <2>1
  <2> QED
    BY <2>2 DEF P
<1>14. f[K].files = t.files
  <2>1. K \in 0 .. K + M
    BY <1>1
  <2>2. DOMAIN f[K].files = 1 .. K /\ f[K].files \in Seq(Entry)
    BY <1>9, <1>13, <2>1
  <2> HIDE DEF K
  <2> QED
    BY <1>1, <1>13, <2>2
<1> HIDE DEF Copied, P
<1> DEFINE Ahead(u) == /\ Len(u.files) >= K
                       /\ \A i \in 1 .. K : u.files[i] = t.files[i]
                       /\ NoRoom(budget, t) => u.files = t.files
           Q == {k \in 0 .. M : Ahead(f[K + k])}
<1>15. 0 \in Q
  <2>1. K + 0 = K /\ 0 \in 0 .. M
    BY <1>1
  <2> QED
    BY <1>1, <1>14, <2>1
<1>16. ASSUME NEW k \in 1 .. M, k - 1 \in Q PROVE k \in Q
  <2> DEFINE n == K + k
             s == f[n - 1]
  <2>1. n \in 1 .. K + M /\ n - 1 = K + (k - 1) /\ k \in 0 .. M /\ n - 1 \in 0 .. K + M
    BY <1>1
  <2>2. Ahead(s)
    BY <1>16, <2>1
  <2>3. /\ s.files \in Seq(Entry) /\ s.total = TotalSize(s.files) /\ Len(s.files) \in Nat
    BY <1>9, <2>1
  <2>4. \/ PassedOver(s, f[n], A[n])
        \/ OutOfRoom(budget, s, f[n])
        \/ \E held \in Entry : Holds(budget, s, f[n], A[n], held)
    BY <1>10, <2>1
  <2> HIDE DEF s, n
  <2>5. CASE f[n].files = s.files
    BY <2>1, <2>2, <2>5 DEF n
  <2>6. ASSUME NEW held \in Entry, Holds(budget, s, f[n], A[n], held) PROVE Ahead(f[n])
    <3>1. ~NoRoom(budget, s) /\ f[n].files = Append(s.files, held)
      BY <2>6 DEF Holds
    <3>2. ~NoRoom(budget, t)
      BY <1>8, <2>2, <2>3, <3>1 DEF NoRoom
    <3>3. /\ Len(f[n].files) = Len(s.files) + 1
          /\ \A i \in 1 .. Len(s.files) : f[n].files[i] = s.files[i]
      BY <2>3, <3>1
    <3>4. \A i \in 1 .. K : i \in 1 .. Len(s.files)
      BY <1>1, <2>2, <2>3
    <3> QED
      BY <1>1, <2>2, <2>3, <3>2, <3>3, <3>4
  <2>7. Ahead(f[n])
    BY <2>2, <2>4, <2>5, <2>6 DEF PassedOver, OutOfRoom
  <2> QED
    BY <2>1, <2>7 DEF n
<1>17. Ahead(f[K + M])
  <2> HIDE DEF Q, M
  <2>1. 0 .. M \subseteq Q
    BY <1>1, <1>15, <1>16, UpTo
  <2>2. M \in Q
    BY <1>1, <2>1
  <2> QED
    BY <2>2 DEF Q
<1> QED
  BY <1>1, <1>5, <1>17 DEF A

----------------------------------------------------------------------------
\* The four ways files become context.

LEMMA ReadAllFacts ==
  ASSUME NEW paths \in Seq(Paths), NEW ver \in [Paths -> Nat], NEW targeted \in BOOLEAN
  PROVE  /\ ReadAll(paths, ver, targeted) \in Seq(Entry)
         /\ Len(ReadAll(paths, ver, targeted)) = Len(paths)
         /\ \A i \in 1 .. Len(paths) :
              ReadAll(paths, ver, targeted)[i] = Read(paths[i], ver, targeted)
<1> DEFINE L == Len(paths)
           s == ReadAll(paths, ver, targeted)
<1>1. L \in Nat /\ DOMAIN paths = 1 .. L /\ \A i \in 1 .. L : paths[i] \in Paths
  OBVIOUS
<1>2. ASSUME NEW p \in Paths PROVE Read(p, ver, targeted) \in Entry
  <2>1. Size[p] \in Nat /\ ver[p] \in Nat
    BY EvidenceAssumption
  <2> QED
    BY <2>1 DEF Read, Entry
<1>3. s = [i \in 1 .. L |-> Read(paths[i], ver, targeted)]
  BY <1>1 DEF ReadAll
<1> HIDE DEF s, L
<1>4. s \in [1 .. L -> Entry]
  BY <1>1, <1>2, <1>3
<1>5. s \in Seq(Entry) /\ Len(s) = L
  BY <1>1, <1>4
<1> QED
  BY <1>3, <1>5 DEF s, L

LEMMA ConcatSet ==
  ASSUME NEW S, NEW r \in Seq(S), NEW q \in Seq(S)
  PROVE  ToSet(r \o q) = ToSet(r) \union ToSet(q)
<1> DEFINE a == Len(r)
           b == Len(q)
           c == r \o q
<1>1. /\ a \in Nat /\ b \in Nat /\ DOMAIN r = 1 .. a /\ DOMAIN q = 1 .. b
      /\ DOMAIN c = 1 .. a + b
      /\ \A i \in 1 .. a : c[i] = r[i]
      /\ \A i \in 1 .. b : c[a + i] = q[i]
  OBVIOUS
<1> HIDE DEF a, b, c
<1>2. \A i \in 1 .. a + b : i \in 1 .. a \/ (i - a \in 1 .. b /\ i = a + (i - a))
  BY <1>1
<1>3. \A i \in 1 .. a : i \in 1 .. a + b
  BY <1>1
<1>4. \A i \in 1 .. b : a + i \in 1 .. a + b
  BY <1>1
<1>5. ToSet(c) \subseteq ToSet(r) \union ToSet(q)
  <2> SUFFICES ASSUME NEW i \in 1 .. a + b PROVE c[i] \in ToSet(r) \union ToSet(q)
    BY <1>1 DEF ToSet
  <2>1. CASE i \in 1 .. a
    BY <1>1, <2>1 DEF ToSet
  <2>2. CASE i - a \in 1 .. b /\ i = a + (i - a)
    <3>1. c[i] = q[i - a]
      BY <1>1, <2>2
    <3> QED
      BY <1>1, <2>2, <3>1 DEF ToSet
  <2> QED
    BY <1>2, <2>1, <2>2
<1>6. ToSet(r) \subseteq ToSet(c)
  BY <1>1, <1>3 DEF ToSet
<1>7. ToSet(q) \subseteq ToSet(c)
  BY <1>1, <1>4 DEF ToSet
<1> QED
  BY <1>5, <1>6, <1>7 DEF c

LEMMA CandidatesFacts ==
  ASSUME NEW paths \in SUBSET Paths, NEW symbols \in SUBSET Symbols
  PROVE  /\ Candidates(paths, symbols) \in Seq(Paths)
         /\ ToSet(Candidates(paths, symbols)) = paths \union UNION {Matches[s] : s \in symbols}
<1> DEFINE all == UNION {Matches[s] : s \in symbols}
           found == all \ paths
           same == [p \in Paths |-> 0]
           r == InOrder(paths, same)
           q == InOrder(found, same)
<1>1. found \in SUBSET Paths
  <2>1. \A s \in symbols : Matches[s] \subseteq Paths
    BY EvidenceAssumption
  <2>2. all \subseteq Paths
    BY <2>1
  <2> HIDE DEF all
  <2> QED
    BY <2>2
<1>2. Candidates(paths, symbols) = r \o q
  BY DEF Candidates
<1>3. r \in Seq(paths) /\ q \in Seq(found) /\ ToSet(r) = paths /\ ToSet(q) = found
  <2> HIDE DEF found, same
  <2>1. r \in Seq(paths) /\ ToSet(r) = paths
    BY InOrderFacts
  <2>2. q \in Seq(found) /\ ToSet(q) = found
    BY <1>1, InOrderFacts
  <2> QED
    BY <2>1, <2>2
<1>4. paths \union found = paths \union all
  <2> HIDE DEF all
  <2> QED
    OBVIOUS
<1> HIDE DEF found, r, q
<1>5. r \in Seq(Paths) /\ q \in Seq(Paths)
  BY <1>1, <1>3
<1>6. r \o q \in Seq(Paths)
  BY <1>5
<1>7. ToSet(r \o q) = ToSet(r) \union ToSet(q)
  BY <1>5, ConcatSet
<1> QED
  BY <1>2, <1>3, <1>4, <1>6, <1>7

\* The files that paths and symbols stand for.
Asked(paths, symbols) ==
  {p \in paths : Size[p] > 0} \union UNION {Matches[s] : s \in symbols}

Expansion(paths, symbols, ver, budget) ==
  Gather(ReadAll(Candidates(paths, symbols), ver, TRUE), budget, NoDiff, FALSE)

\* An expansion holds files that are asked for, as they are now, and all of them unless
\* it runs out of room.
LEMMA ExpansionFacts ==
  ASSUME NEW paths \in SUBSET Paths, NEW symbols \in SUBSET Symbols, NEW ver \in [Paths -> Nat],
         NEW budget, IsBudget(budget)
  PROVE  LET t == Expansion(paths, symbols, ver, budget)
         IN /\ ExpandTargeted(paths, symbols, ver, budget).files = t.files
            /\ t \in Taken
            /\ \E entries, m : Gathered(budget, NoDiff, entries, m, t)
            /\ \A i \in DOMAIN t.files :
                 /\ t.files[i].path \in Asked(paths, symbols)
                 /\ t.files[i].version = ver[t.files[i].path]
            /\ t.full \/ Asked(paths, symbols) \subseteq PathsOf(t.files)
<1> DEFINE c == Candidates(paths, symbols)
           entries == ReadAll(c, ver, TRUE)
           t == Expansion(paths, symbols, ver, budget)
           L == Len(c)
<1>1. c \in Seq(Paths) /\ ToSet(c) = paths \union UNION {Matches[s] : s \in symbols}
  BY CandidatesFacts
<1>2. ExpandTargeted(paths, symbols, ver, budget).files = t.files
  BY DEF ExpandTargeted, Expansion
<1> HIDE DEF c
<1>3. entries \in Seq(Entry) /\ Len(entries) = L
      /\ \A i \in 1 .. L : entries[i] = Read(c[i], ver, TRUE)
  BY <1>1, ReadAllFacts
<1>4. L \in Nat /\ DOMAIN c = 1 .. L /\ \A i \in 1 .. L : c[i] \in Paths
  BY <1>1
<1>5. t = Gather(entries, budget, NoDiff, FALSE)
  BY DEF Expansion, c
<1> HIDE DEF entries, t
<1>6. t \in Taken /\ Gathered(budget, NoDiff, entries, L, t)
  BY <1>3, <1>5, GatherIsSound, NoDiffFacts
<1> HIDE DEF L
<1>7. \A i \in 1 .. L : /\ entries[i].path = c[i] /\ entries[i].version = ver[c[i]]
                        /\ entries[i].size = Size[c[i]]
  BY <1>3 DEF Read
<1>8. ASSUME NEW i \in DOMAIN t.files
      PROVE  /\ t.files[i].path \in Asked(paths, symbols)
             /\ t.files[i].version = ver[t.files[i].path]
  <2>1. PICK k \in 1 .. L : IsOf(t.files[i], entries[k])
    BY <1>6 DEF Gathered, FromEntries
  <2>2. t.files[i].size \in 1 .. budget.perFile /\ budget.perFile \in Nat
    BY <1>6 DEF Gathered, SoundFiles, IsBudget
  <2>3. /\ t.files[i].path = c[k] /\ t.files[i].version = ver[c[k]]
        /\ t.files[i].size <= Size[c[k]]
    BY <1>7, <2>1 DEF IsOf
  <2>4. Size[c[k]] \in Nat /\ c[k] \in ToSet(c)
    BY <1>4, EvidenceAssumption DEF ToSet
  <2>5. Size[c[k]] > 0
    BY <2>2, <2>3, <2>4
  <2> QED
    BY <1>1, <2>3, <2>4, <2>5 DEF Asked
<1>9. ASSUME ~t.full, NEW p \in Asked(paths, symbols) PROVE p \in PathsOf(t.files)
  <2>1. p \in ToSet(c)
    BY <1>1 DEF Asked
  <2>2. PICK k \in 1 .. L : c[k] = p
    BY <1>4, <2>1 DEF ToSet
  <2>3. Size[p] # 0
    <3>1. p \in Paths /\ Size[p] > 0
      BY EvidenceAssumption DEF Asked
    <3> QED
      BY <3>1, EvidenceAssumption
  <2>4. entries[k].size # 0 /\ entries[k].path = p
    BY <1>7, <2>2, <2>3
  <2> QED
    BY <1>6, <1>9, <2>4 DEF Gathered, FromEntries
<1>10. t.full \/ Asked(paths, symbols) \subseteq PathsOf(t.files)
  BY <1>9
<1> QED
  BY <1>2, <1>6, <1>8, <1>10 DEF t

\* The diff's part of the context.
LEMMA BoundedDiffFacts ==
  ASSUME NEW n \in Nat, NEW cut \in BOOLEAN, NEW budget, IsBudget(budget)
  PROVE  BoundedDiff(n, cut, budget).size \in Nat /\ BoundedDiff(n, cut, budget).cut \in BOOLEAN
<1> DEFINE room == Max({1, budget.bytes \div 4})
<1>1. budget.bytes \div 4 \in Nat
  BY DEF IsBudget
<1>2. room \in Nat
  <2> DEFINE q == budget.bytes \div 4
  <2> HIDE DEF q
  <2>1. Max({1, q}) \in Nat
    BY <1>1 DEF Max, q
  <2> QED
    BY <2>1 DEF q
<1> HIDE DEF room
<1>3. Min({n, room}) \in Nat
  BY <1>2, MinOfTwo
<1>4. BoundedDiff(n, cut, budget) = [size |-> Min({n, room}), cut |-> cut \/ n > room]
  BY DEF BoundedDiff, room
<1>5. /\ BoundedDiff(n, cut, budget).size = Min({n, room})
      /\ BoundedDiff(n, cut, budget).cut = (cut \/ n > room)
  BY <1>4
<1> QED
  BY <1>3, <1>5

\* Files that a context may keep: some of each is held.
Contexts == {files \in Seq(Entry) : \A i \in DOMAIN files : files[i].size >= 1}

LEMMA GatherIsContext ==
  ASSUME NEW budget, IsBudget(budget), NEW diff, diff.size \in Nat, diff.cut \in BOOLEAN,
         NEW entries \in Seq(Entry), NEW heldFirst \in BOOLEAN
  PROVE  Gather(entries, budget, diff, heldFirst).files \in Contexts
<1> DEFINE t == Gather(entries, budget, diff, heldFirst)
<1>1. t \in Taken /\ Gathered(budget, diff, entries, Len(entries), t)
  BY GatherIsSound
<1> HIDE DEF t
<1>2. t.files \in Seq(Entry) /\ \A i \in DOMAIN t.files : t.files[i].size \in 1 .. budget.perFile
  BY <1>1 DEF Taken, Gathered, SoundFiles
<1>3. budget.perFile \in Nat
  BY DEF IsBudget
<1>4. \A i \in DOMAIN t.files : t.files[i].size >= 1
  BY <1>2, <1>3
<1> QED
  BY <1>2, <1>4 DEF Contexts, t

\* A context that is built holds files that nothing asked for.
LEMMA BuildFacts ==
  ASSUME NEW focus, NEW hits, NEW n \in Nat, NEW ver \in [Paths -> Nat], NEW budget,
         IsBudget(budget)
  PROVE  LET files == Build(focus, hits, n, ver, budget).files
         IN files \in Contexts /\ \A i \in DOMAIN files : ~files[i].targeted
<1> DEFINE score == [p \in Paths |-> Score(p, focus, hits)]
           ranked == Ranked(score)
           entries == ReadAll(ranked, ver, FALSE)
           diff == IF focus.exclusive THEN NoDiff ELSE BoundedDiff(n, FALSE, budget)
           t == Gather(entries, budget, diff, FALSE)
<1>1. Build(focus, hits, n, ver, budget) = t
  BY DEF Build
<1> HIDE DEF score
<1>2. ranked \in Seq(Paths)
  <2> DEFINE S == {p \in Paths : score[p] > 0}
  <2>1. S \in SUBSET Paths /\ ranked = InOrder(S, score)
    BY DEF Ranked
  <2> HIDE DEF S, ranked
  <2>2. ranked \in Seq(S)
    BY <2>1, InOrderFacts
  <2> QED
    BY <2>1, <2>2
<1> HIDE DEF ranked
<1>3. /\ entries \in Seq(Entry) /\ Len(entries) = Len(ranked)
      /\ \A i \in 1 .. Len(ranked) : entries[i] = Read(ranked[i], ver, FALSE)
  BY <1>2, ReadAllFacts
<1>4. diff.size \in Nat /\ diff.cut \in BOOLEAN
  BY BoundedDiffFacts, NoDiffFacts
<1> HIDE DEF entries, diff
<1>5. t.files \in Contexts
  BY <1>3, <1>4, GatherIsContext
<1>6. t = Gather(entries, budget, diff, FALSE) /\ FALSE \in BOOLEAN
  OBVIOUS
<1>7. ASSUME NEW i \in 1 .. Len(entries) PROVE entries[i].targeted = FALSE
  <2>1. entries[i] = Read(ranked[i], ver, FALSE)
    BY <1>3
  <2> QED
    BY <2>1 DEF Read
<1> HIDE DEF t
<1>8. Gathered(budget, diff, entries, Len(entries), t)
  BY <1>3, <1>4, <1>6, GatherIsSound
<1>9. ASSUME NEW i \in DOMAIN t.files PROVE ~t.files[i].targeted
  <2>1. PICK k \in 1 .. Len(entries) : IsOf(t.files[i], entries[k])
    BY <1>8 DEF Gathered, FromEntries
  <2> QED
    BY <1>7, <2>1 DEF IsOf
<1> QED
  BY <1>1, <1>5, <1>9 DEF t

LEMMA SelectFacts ==
  ASSUME NEW files \in Seq(Entry), NEW diff, diff.size \in Nat, diff.cut \in BOOLEAN,
         NEW relevant, NEW budget, IsBudget(budget)
  PROVE  SelectTask([files |-> files, diff |-> diff], relevant, budget).files \in Contexts
<1> DEFINE s == ByRelevance(files, relevant)
           d == BoundedDiff(diff.size, diff.cut, budget)
<1>1. SelectTask([files |-> files, diff |-> diff], relevant, budget) = Gather(s, budget, d, FALSE)
  BY DEF SelectTask
<1>2. s \in Seq(Entry)
  <2> DEFINE after == [e \in ToSet(files) |->
                         {f \in ToSet(files) :
                            \/ TaskScore(e, relevant) > TaskScore(f, relevant)
                            \/ /\ TaskScore(e, relevant) = TaskScore(f, relevant)
                               /\ Order[e.path] < Order[f.path]}]
  <2>1. s = Sorted(files, after)
    BY DEF ByRelevance
  <2> HIDE DEF after, s
  <2> QED
    BY <2>1, SortedFacts
<1>3. d.size \in Nat /\ d.cut \in BOOLEAN
  BY BoundedDiffFacts
<1> HIDE DEF s, d
<1> QED
  BY <1>1, <1>2, <1>3, GatherIsContext

----------------------------------------------------------------------------
\* The inductive invariant of TaskEvidence.

EvidenceTypes ==
  /\ version \in [Paths -> Nat]
  /\ planner.files \in Contexts /\ planner.diff.size \in Nat /\ planner.diff.cut \in BOOLEAN
  /\ target \in Targeting /\ missing \in Targeting /\ wanted \in Targeting
  /\ context.files \in Contexts
  /\ evidence \in [files : Contexts, cut : BOOLEAN, diff : SUBSET Paths]

\* A review that has not ended has no result, and judges a result that validation can have.
ReviewIsOpen ==
  /\ stage # "ended" => result.status = "none"
  /\ stage \in {"asking", "expanding"} => validation \in Validations

EvidenceInv == EvidenceTypes /\ ReviewIsOpen /\ PassIsDeserved /\ OmissionsAreReported

LEMMA Budgets ==
  /\ IsBudget(PlannerBudget) /\ IsBudget(TaskBudget)
  /\ IsBudget(ExpansionBudget) /\ IsBudget(ReviewBudget)
BY EvidenceAssumption DEF IsBudget

LEMMA EmptyFacts ==
  /\ Nothing \in Targeting
  /\ << >> \in Contexts
  /\ NoContext.files = << >>
  /\ NoEvidence \in [files : Contexts, cut : BOOLEAN, diff : SUBSET Paths]
  /\ NoPlanner.files = << >> /\ NoPlanner.diff.size \in Nat /\ NoPlanner.diff.cut \in BOOLEAN
<1>1. << >> \in Contexts
  BY DEF Contexts
<1>2. Nothing \in Targeting
  BY DEF Nothing, Targeting
<1>3. NoEvidence \in [files : Contexts, cut : BOOLEAN, diff : SUBSET Paths]
  BY <1>1 DEF NoEvidence
<1>4. NoPlanner.files = << >> /\ NoPlanner.diff = NoDiff /\ NoContext.files = << >>
  BY DEF NoPlanner, NoContext
<1> QED
  BY <1>1, <1>2, <1>3, <1>4, NoDiffFacts

LEMMA PlannerContextFacts ==
  ASSUME NEW focus, NEW hits \in SUBSET Paths
  PROVE  LET p == PlannerContext(focus, hits, Cardinality(hits))
         IN /\ p.files \in Contexts /\ p.diff.size \in Nat /\ p.diff.cut \in BOOLEAN
            /\ \A i \in DOMAIN p.files : ~p.files[i].targeted
<1> DEFINE n == Cardinality(hits)
           ver == [p \in Paths |-> 0]
           built == Build(focus, hits, n, ver, PlannerBudget)
           d == IF focus.exclusive THEN NoDiff ELSE BoundedDiff(n, FALSE, PlannerBudget)
           p == PlannerContext(focus, hits, n)
<1>1. n \in Nat
  <2>1. IsFiniteSet(hits)
    BY EvidenceAssumption, FS_Subset
  <2> QED
    BY <2>1, FS_CardinalityType
<1> HIDE DEF n
<1>2. ver \in [Paths -> Nat]
  OBVIOUS
<1>3. p = [kept |-> TRUE, files |-> built.files, diff |-> d]
  BY DEF PlannerContext
<1> HIDE DEF ver
<1>4. built.files \in Contexts /\ \A i \in DOMAIN built.files : ~built.files[i].targeted
  BY <1>1, <1>2, Budgets, BuildFacts
<1>5. d.size \in Nat /\ d.cut \in BOOLEAN
  BY <1>1, Budgets, BoundedDiffFacts, NoDiffFacts
<1> HIDE DEF d, built, p
<1>6. p.files = built.files /\ p.diff = d
  BY <1>3
<1> QED
  BY <1>4, <1>5, <1>6 DEF p, n

LEMMA EvidenceStart == EvidenceInit => EvidenceInv
<1> SUFFICES ASSUME EvidenceInit PROVE EvidenceInv
  OBVIOUS
<1> USE DEF EvidenceInit
<1>1. planner.files \in Contexts /\ planner.diff.size \in Nat /\ planner.diff.cut \in BOOLEAN
  <2>1. CASE planner = NoPlanner
    BY <2>1, EmptyFacts
  <2>2. ASSUME NEW focus, NEW hits \in SUBSET Paths,
               planner = PlannerContext(focus, hits, Cardinality(hits))
        PROVE  planner.files \in Contexts /\ planner.diff.size \in Nat
               /\ planner.diff.cut \in BOOLEAN
    BY <2>2, PlannerContextFacts
  <2> QED
    BY <2>1, <2>2
<1>2. target \in Targeting
  BY EvidenceAssumption
<1>3. version \in [Paths -> Nat]
  OBVIOUS
<1>4. EvidenceTypes
  BY <1>1, <1>2, <1>3, EmptyFacts DEF EvidenceTypes
<1>5. ReviewIsOpen /\ PassIsDeserved /\ OmissionsAreReported
  BY DEF ReviewIsOpen, PassIsDeserved, OmissionsAreReported, NoResult
<1> QED
  BY <1>4, <1>5 DEF EvidenceInv

\* The context of a review, when it is built and when it is expanded.
LEMMA ContextEvidenceFacts ==
  ASSUME NEW files \in Contexts, NEW more \in Contexts
  PROVE  LET u == ContextEvidence(more \o files, ReviewBudget)
         IN /\ u \in Taken /\ u.files \in Contexts
            /\ Len(u.files) <= ReviewBudget.files /\ TotalSize(u.files) <= ReviewBudget.bytes
            /\ \A i, j \in DOMAIN u.files : u.files[i].path = u.files[j].path => i = j
            /\ ~u.cut => /\ PathsOf(files) \subseteq PathsOf(u.files)
                         /\ \A i \in DOMAIN u.files : ~u.files[i].cut
<1> DEFINE all == more \o files
           u == ContextEvidence(all, ReviewBudget)
           a == Len(more)
           b == Len(files)
<1>1. files \in Seq(Entry) /\ more \in Seq(Entry) /\ \A i \in DOMAIN files : files[i].size >= 1
  BY DEF Contexts
<1>2. all \in Seq(Entry) /\ Len(all) = a + b /\ a \in Nat /\ b \in Nat /\ DOMAIN files = 1 .. b
      /\ \A i \in 1 .. b : all[a + i] = files[i]
  BY <1>1
<1> HIDE DEF all
<1>3. u = Gather(all, ReviewBudget, NoDiff, TRUE)
  BY DEF ContextEvidence
<1>4. u \in Taken /\ Gathered(ReviewBudget, NoDiff, all, a + b, u) /\ u.files \in Contexts
  <2> HIDE DEF u
  <2> QED
    BY <1>2, <1>3, Budgets, GatherIsSound, GatherIsContext, NoDiffFacts
<1> HIDE DEF u, a, b
<1>5. u.files \in Seq(Entry) /\ u.full \in BOOLEAN /\ u.cut \in BOOLEAN
  BY <1>4 DEF Taken
<1>6. Len(u.files) <= ReviewBudget.files /\ TotalSize(u.files) <= ReviewBudget.bytes
  <2>1. TotalSize(u.files) \in Nat /\ ReviewBudget.bytes \in Nat
    BY <1>5, TotalIsNatural, Budgets DEF IsBudget
  <2> QED
    BY <1>4, <2>1, NoDiffFacts DEF Gathered, WithinBudget
<1>7. ASSUME ~u.cut PROVE PathsOf(files) \subseteq PathsOf(u.files)
  <2>1. ~u.full
    BY <1>4, <1>7 DEF Gathered, WithinBudget
  <2>2. ASSUME NEW i \in 1 .. b PROVE files[i].path \in PathsOf(u.files)
    <3>1. a + i \in 1 .. a + b /\ all[a + i] = files[i]
      BY <1>2
    <3>2. files[i].size # 0
      <4>1. files[i] \in Entry /\ files[i].size >= 1
        <5>1. i \in DOMAIN files
          BY <1>2
        <5> QED
          BY <1>1, <5>1
      <4>2. files[i].size \in Nat
        BY <4>1 DEF Entry
      <4> QED
        BY <4>1, <4>2
    <3> QED
      BY <1>4, <2>1, <3>1, <3>2 DEF Gathered, FromEntries
  <2> QED
    BY <1>2, <2>2 DEF PathsOf
<1> QED
  BY <1>4, <1>6, <1>7 DEF Gathered, SoundFiles, u, all

\* Fields that a context and a diff are passed in.
LEMMA SelectedFacts ==
  ASSUME EvidenceTypes, NEW files \in Contexts
  PROVE  Selected(files, planner.diff).files \in Contexts
<1>1. files \in Seq(Entry)
  BY DEF Contexts
<1> QED
  BY <1>1, Budgets, SelectFacts DEF EvidenceTypes, Selected

LEMMA ConcatContexts ==
  ASSUME NEW files \in Contexts, NEW more \in Contexts
  PROVE  files \o more \in Contexts
<1> DEFINE c == files \o more
           a == Len(files)
           b == Len(more)
<1>1. /\ files \in Seq(Entry) /\ more \in Seq(Entry)
      /\ \A i \in DOMAIN files : files[i].size >= 1
      /\ \A i \in DOMAIN more : more[i].size >= 1
  BY DEF Contexts
<1>2. /\ c \in Seq(Entry) /\ a \in Nat /\ b \in Nat /\ DOMAIN c = 1 .. a + b
      /\ DOMAIN files = 1 .. a /\ DOMAIN more = 1 .. b
      /\ \A i \in 1 .. a : c[i] = files[i]
      /\ \A i \in a + 1 .. a + b : c[i] = more[i - a]
  BY <1>1
<1> HIDE DEF a, b, c
<1>3. \A i \in 1 .. a + b : i \in 1 .. a \/ (i \in a + 1 .. a + b /\ i - a \in 1 .. b)
  BY <1>2
<1>4. \A i \in 1 .. a + b : c[i].size >= 1
  <2> TAKE i \in 1 .. a + b
  <2>1. CASE i \in 1 .. a
    BY <1>1, <1>2, <2>1
  <2>2. CASE i \in a + 1 .. a + b /\ i - a \in 1 .. b
    BY <1>1, <1>2, <2>2
  <2> QED
    BY <1>3, <2>1, <2>2
<1> QED
  BY <1>2, <1>4 DEF Contexts, c

LEMMA ReadIsContext ==
  ASSUME NEW paths \in SUBSET Paths, NEW symbols \in SUBSET Symbols, NEW ver \in [Paths -> Nat],
         NEW budget, IsBudget(budget)
  PROVE  ExpandTargeted(paths, symbols, ver, budget).files \in Contexts
<1> DEFINE c == Candidates(paths, symbols)
           entries == ReadAll(c, ver, TRUE)
<1>1. ExpandTargeted(paths, symbols, ver, budget).files
        = Gather(entries, budget, NoDiff, FALSE).files
  BY DEF ExpandTargeted
<1>2. c \in Seq(Paths)
  BY CandidatesFacts
<1> HIDE DEF c
<1>3. entries \in Seq(Entry)
  BY <1>2, ReadAllFacts
<1> HIDE DEF entries
<1> QED
  BY <1>1, <1>3, GatherIsContext, NoDiffFacts

LEMMA TypesStep == EvidenceTypes /\ [EvidenceNext]_evidenceVars => EvidenceTypes'
<1> SUFFICES ASSUME EvidenceTypes, [EvidenceNext]_evidenceVars PROVE EvidenceTypes'
  OBVIOUS
<1>1. /\ version \in [Paths -> Nat]
      /\ planner.files \in Contexts /\ planner.diff.size \in Nat /\ planner.diff.cut \in BOOLEAN
      /\ target \in Targeting /\ missing \in Targeting /\ wanted \in Targeting
      /\ context.files \in Contexts
      /\ evidence \in [files : Contexts, cut : BOOLEAN, diff : SUBSET Paths]
  BY DEF EvidenceTypes
<1>2. CASE Resolve
  <2>1. UNCHANGED <<version, planner, target, wanted, evidence>>
    BY <1>2 DEF Resolve, taskVars
  <2>2. CASE ~planner.kept
    <3>1. UNCHANGED <<missing, source, context>>
      BY <1>2, <2>2 DEF Resolve
    <3> QED
      BY <1>1, <2>1, <3>1 DEF EvidenceTypes
  <2>3. CASE planner.kept
    <3> DEFINE chosen == Selected(planner.files, planner.diff)
               paths == MissingPaths(chosen, target.paths)
    <3>1. PICK symbols \in SUBSET {s \in target.symbols : MayMiss(chosen, s)} :
            IF paths = {} /\ symbols = {}
            THEN context' = [files |-> chosen.files, cut |-> chosen.cut, issues |-> {}]
                 /\ UNCHANGED missing
            ELSE missing' = [paths |-> paths, symbols |-> symbols] /\ UNCHANGED context
      BY <1>2, <2>3 DEF Resolve
    <3>2. target.paths \in SUBSET Paths /\ target.symbols \in SUBSET Symbols
      BY <1>1 DEF Targeting
    <3>3. paths \in SUBSET Paths
      BY <3>2 DEF MissingPaths
    <3>4. symbols \in SUBSET Symbols
      BY <3>2
    <3>5. chosen.files \in Contexts
      BY <1>1, SelectedFacts
    <3> HIDE DEF chosen, paths
    <3>6. [paths |-> paths, symbols |-> symbols] \in Targeting
      BY <3>3, <3>4 DEF Targeting
    <3>7. missing' \in Targeting /\ context'.files \in Contexts
      BY <1>1, <3>1, <3>5, <3>6
    <3> QED
      BY <1>1, <2>1, <3>7 DEF EvidenceTypes
  <2> QED
    BY <2>2, <2>3
<1>3. CASE Widen
  <2>1. UNCHANGED <<version, planner, target, wanted, evidence>> /\ missing' = Nothing
    BY <1>3 DEF Widen, taskVars
  <2> DEFINE expanded == ExpandTargeted(missing.paths, missing.symbols, version, ExpansionBudget)
             chosen == Selected(expanded.files \o planner.files, planner.diff)
  <2>2. context' = [files |-> chosen.files, cut |-> chosen.cut, issues |-> expanded.issues]
    BY <1>3 DEF Widen
  <2>3. missing.paths \in SUBSET Paths /\ missing.symbols \in SUBSET Symbols
    BY <1>1 DEF Targeting
  <2>4. expanded.files \in Contexts
    BY <1>1, <2>3, Budgets, ReadIsContext
  <2> HIDE DEF expanded
  <2>5. chosen.files \in Contexts
    <3>1. expanded.files \o planner.files \in Contexts
      BY <1>1, <2>4, ConcatContexts
    <3> QED
      BY <3>1, SelectedFacts
  <2> HIDE DEF chosen
  <2>6. context'.files \in Contexts
    BY <2>2, <2>5
  <2> QED
    BY <1>1, <2>1, <2>6, EmptyFacts DEF EvidenceTypes
<1>4. CASE BuildContext
  <2>1. UNCHANGED <<version, planner, target, missing, wanted, evidence>>
    BY <1>4 DEF BuildContext, taskVars
  <2> DEFINE focus == [paths |-> {}, symbols |-> {}, exclusive |-> FALSE]
             built == Build(focus, {}, 0, version, ExpansionBudget)
  <2>2. context' = [files |-> built.files, cut |-> built.cut, issues |-> {}]
    BY <1>4 DEF BuildContext
  <2> HIDE DEF focus
  <2>3. built.files \in Contexts
    BY <1>1, Budgets, BuildFacts
  <2> HIDE DEF built
  <2>4. context'.files \in Contexts
    BY <2>2, <2>3
  <2> QED
    BY <1>1, <2>1, <2>4 DEF EvidenceTypes
<1>5. ASSUME NEW paths \in SUBSET Paths, Execute(paths) PROVE EvidenceTypes'
  <2>1. /\ version' = [p \in Paths |-> version[p] + IF p \in paths THEN 1 ELSE 0]
        /\ planner' = NoPlanner /\ target' = Nothing
        /\ UNCHANGED <<missing, context, evidence, wanted>>
    BY <1>5 DEF Execute
  <2>2. version' \in [Paths -> Nat]
    BY <1>1, <2>1
  <2> QED
    BY <1>1, <2>1, <2>2, EmptyFacts DEF EvidenceTypes
<1>6. ASSUME NEW shown \in SUBSET Paths, NEW found \in Validations, StartReview(shown, found)
      PROVE  EvidenceTypes'
  <2> DEFINE taken == ContextEvidence(context.files, ReviewBudget)
             whole == ~DiffIsWhole(shown) \/ ~ValidationFits(found.steps) \/ taken.cut
  <2>1. /\ evidence' = [files |-> taken.files, diff |-> shown, cut |-> whole]
        /\ UNCHANGED <<version, planner, target, missing, context, wanted>>
    BY <1>6 DEF StartReview
  <2>2. taken.files \in Contexts
    <3>1. context.files \in Seq(Entry)
      BY <1>1 DEF Contexts
    <3> QED
      BY <3>1, Budgets, GatherIsContext, NoDiffFacts DEF ContextEvidence
  <2>3. whole \in BOOLEAN
    OBVIOUS
  <2> HIDE DEF taken, whole
  <2>4. evidence' \in [files : Contexts, cut : BOOLEAN, diff : SUBSET Paths]
    BY <2>1, <2>2, <2>3
  <2> QED
    BY <1>1, <2>1, <2>4 DEF EvidenceTypes
<1>7. ASSUME NEW outcome, Finish(outcome) PROVE EvidenceTypes'
  <2>1. /\ evidence' = NoEvidence /\ context' = NoContext /\ missing' = Nothing
        /\ planner' = NoPlanner /\ target' = Nothing /\ wanted' = Nothing /\ version' = version
    BY <1>7 DEF Finish
  <2> QED
    BY <1>1, <2>1, EmptyFacts DEF EvidenceTypes
<1>8. CASE Fails \/ Stopped
  BY <1>7, <1>8 DEF Fails, Stopped, Throw
<1>9. ASSUME NEW draft \in Drafts, Answer(draft) PROVE EvidenceTypes'
  <2>1. \/ \E outcome : Finish(outcome)
        \/ /\ wanted' = [paths |-> draft.request.paths, symbols |-> draft.request.symbols]
           /\ UNCHANGED <<version, planner, target, missing, context, evidence>>
    BY <1>9 DEF Answer, Throw
  <2>2. [paths |-> draft.request.paths, symbols |-> draft.request.symbols] \in Targeting
    BY EvidenceAssumption
  <2>3. ASSUME wanted' = [paths |-> draft.request.paths, symbols |-> draft.request.symbols],
               UNCHANGED <<version, planner, target, missing, context, evidence>>
        PROVE  EvidenceTypes'
    <3>1. wanted' \in Targeting
      BY <2>2, <2>3
    <3> QED
      BY <1>1, <2>3, <3>1 DEF EvidenceTypes
  <2> QED
    BY <1>7, <2>1, <2>3
<1>10. CASE ExpandContext
  <2> DEFINE read == ExpandTargeted(wanted.paths, wanted.symbols, version, ReviewBudget)
             taken == ContextEvidence(read.files \o evidence.files, ReviewBudget)
             either == evidence.cut \/ taken.cut
  <2>1. /\ evidence' = [evidence EXCEPT !.files = taken.files, !.cut = either]
        /\ wanted' = Nothing
        /\ UNCHANGED <<version, planner, target, missing, context>>
    BY <1>10 DEF ExpandContext, Expand
  <2>2. taken.files \in Contexts
    <3>1. evidence.files \in Contexts
      BY <1>1
    <3>2. read.files \in Contexts
      <4>1. wanted.paths \in SUBSET Paths /\ wanted.symbols \in SUBSET Symbols
        BY <1>1 DEF Targeting
      <4> QED
        BY <1>1, <4>1, Budgets, ReadIsContext
    <3> HIDE DEF read
    <3> QED
      BY <3>1, <3>2, ContextEvidenceFacts
  <2>3. either \in BOOLEAN
    OBVIOUS
  <2> HIDE DEF taken, either
  <2>4. evidence' \in [files : Contexts, cut : BOOLEAN, diff : SUBSET Paths]
    BY <1>1, <2>1, <2>2, <2>3
  <2> QED
    BY <1>1, <2>1, <2>4, EmptyFacts DEF EvidenceTypes
<1>11. CASE CancelTask
  BY <1>1, <1>11 DEF CancelTask, EvidenceTypes
<1>12. ASSUME NEW path \in Paths, EditFile(path) PROVE EvidenceTypes'
  <2>1. version' = [version EXCEPT ![path] = @ + 1]
    BY <1>12 DEF EditFile
  <2>2. version' \in [Paths -> Nat]
    BY <1>1, <2>1
  <2> QED
    BY <1>1, <1>12, <2>2 DEF EditFile, EvidenceTypes
<1>13. CASE UNCHANGED evidenceVars
  BY <1>1, <1>13 DEF evidenceVars, EvidenceTypes
<1> QED
  BY <1>2, <1>3, <1>4, <1>5, <1>6, <1>8, <1>9, <1>10, <1>11, <1>12, <1>13 DEF EvidenceNext

\* What follows when the review of a draft passes.
LEMMA PassedDraft ==
  ASSUME NEW draft \in Drafts, NEW found \in Validations, Reviewed(draft, found) = "passed"
  PROVE  /\ found.status = "passed"
         /\ \A i \in DOMAIN found.steps :
              /\ found.steps[i].required => found.steps[i].status = "passed"
              /\ found.steps[i].status \notin {"errored", "timed_out"}
         /\ \A i \in DOMAIN draft.criteria : draft.criteria[i].status = "satisfied"
         /\ \A f \in Findings(draft) : f.severity \notin Severe
         /\ \A i \in DOMAIN draft.rules :
              Severity[draft.rules[i].rule] = "error" =>
                draft.rules[i].status \in {"satisfied", "not_applicable"}
<1>1. /\ ~DeterministicFailure(found)
      /\ draft.status = "passed" /\ ~SaysOtherwise(draft)
      /\ \A r \in Doubtful(draft) : Severity[r] # "error"
  BY DEF Reviewed
<1>2. found.status # "failed"
  BY <1>1 DEF DeterministicFailure
<1>3. \A i \in DOMAIN found.steps :
        /\ ~(found.steps[i].required /\ found.steps[i].status # "passed")
        /\ found.steps[i].status \notin {"errored", "timed_out"}
  BY <1>1 DEF DeterministicFailure
<1>4. found.status \in {"passed", "failed"}
  BY EvidenceAssumption
<1>5. /\ \A i \in DOMAIN draft.criteria : draft.criteria[i].status = "satisfied"
      /\ \A f \in Findings(draft) : f.severity \notin Severe
  BY <1>1 DEF SaysOtherwise
<1>6. ASSUME NEW i \in DOMAIN draft.rules, Severity[draft.rules[i].rule] = "error"
      PROVE  draft.rules[i].status \in {"satisfied", "not_applicable"}
  <2>1. draft.rules[i].status \in {"satisfied", "violated", "not_applicable", "uncertain"}
    BY EvidenceAssumption
  <2>2. draft.rules[i].rule \notin Doubtful(draft)
    BY <1>1, <1>6
  <2>3. draft.rules[i].status \notin {"violated", "uncertain"}
    BY <2>2 DEF Doubtful
  <2> QED
    BY <2>1, <2>3
<1> QED
  BY <1>2, <1>3, <1>4, <1>5, <1>6

\* The review ends with the answer to it, which is judged by what validation found.
LEMMA ReviewStep ==
  ASSUME ReviewIsOpen, PassIsDeserved, [EvidenceNext]_evidenceVars
  PROVE  ReviewIsOpen' /\ PassIsDeserved'
<1> DEFINE Both == ReviewIsOpen' /\ PassIsDeserved'
<1> SUFFICES Both
  OBVIOUS
<1> HIDE DEF Both
<1>1. /\ stage # "ended" => result.status = "none"
      /\ stage \in {"asking", "expanding"} => validation \in Validations
  BY DEF ReviewIsOpen
<1>2. ASSUME UNCHANGED <<result, validation>>, stage # "ended",
             stage' \in {"asking", "expanding"} => stage \in {"asking", "expanding"}
      PROVE  Both
  BY <1>1, <1>2 DEF ReviewIsOpen, PassIsDeserved, Both
<1>3. CASE Resolve \/ Widen \/ BuildContext
  <2>1. /\ UNCHANGED <<result, validation>> /\ stage \in {"resolving", "widening", "building"}
        /\ stage' \in {"building", "executing", "widening"}
    BY <1>3 DEF Resolve, Widen, BuildContext, taskVars
  <2> QED
    BY <1>2, <2>1
<1>4. ASSUME NEW paths \in SUBSET Paths, Execute(paths) PROVE Both
  <2>1. UNCHANGED <<result, validation>> /\ stage = "executing" /\ stage' = "executed"
    BY <1>4 DEF Execute
  <2> QED
    BY <1>2, <2>1
<1>5. ASSUME NEW shown \in SUBSET Paths, NEW found \in Validations, StartReview(shown, found)
      PROVE  Both
  <2>1. UNCHANGED result /\ stage = "executed" /\ validation' = found
    BY <1>5 DEF StartReview
  <2>2. result'.status = "none"
    BY <1>1, <2>1
  <2> QED
    BY <2>1, <2>2 DEF ReviewIsOpen, PassIsDeserved, Both
<1>6. ASSUME Throw PROVE Both
  <2>1. stage' = "ended" /\ result'.status = "thrown"
    BY <1>6 DEF Throw, Finish, NoResult
  <2> QED
    BY <2>1 DEF ReviewIsOpen, PassIsDeserved, Both
<1>7. CASE Fails \/ Stopped
  <2> QED
    BY <1>6, <1>7 DEF Fails, Stopped
<1>8. ASSUME NEW draft \in Drafts, Answer(draft) PROVE Both
  <2> DEFINE status == Reviewed(draft, validation)
             outcome == [status |-> status, criteria |-> draft.criteria,
                         findings |-> Findings(draft), rules |-> draft.rules]
  <2>1. stage = "asking" /\ validation \in Validations
    BY <1>1, <1>8 DEF Answer
  <2>2. \/ Throw
        \/ Finish(outcome)
        \/ stage' = "expanding" /\ UNCHANGED <<validation, result>>
    BY <1>8 DEF Answer
  <2>3. CASE Throw
    <3> QED
      BY <1>6, <2>3
  <2>4. CASE Finish(outcome)
    <3>1. stage' = "ended" /\ result' = outcome /\ validation' = validation
      BY <2>4 DEF Finish
    <3>2. /\ outcome.status = status /\ outcome.criteria = draft.criteria
          /\ outcome.findings = Findings(draft) /\ outcome.rules = draft.rules
      OBVIOUS
    <3> HIDE DEF outcome
    <3>3. ASSUME status = "passed" PROVE PassIsDeserved'
      <4>1. /\ validation.status = "passed"
            /\ \A i \in DOMAIN validation.steps :
                 /\ validation.steps[i].required => validation.steps[i].status = "passed"
                 /\ validation.steps[i].status \notin {"errored", "timed_out"}
            /\ \A i \in DOMAIN draft.criteria : draft.criteria[i].status = "satisfied"
            /\ \A f \in Findings(draft) : f.severity \notin Severe
            /\ \A i \in DOMAIN draft.rules :
                 Severity[draft.rules[i].rule] = "error" =>
                   draft.rules[i].status \in {"satisfied", "not_applicable"}
        BY <2>1, <3>3, PassedDraft
      <4> QED
        BY <3>1, <3>2, <4>1 DEF PassIsDeserved
    <3>4. CASE status # "passed"
      BY <3>1, <3>2, <3>4 DEF ReviewIsOpen, PassIsDeserved, Both
    <3> QED
      BY <3>1, <3>3, <3>4 DEF ReviewIsOpen, Both
  <2>5. CASE stage' = "expanding" /\ UNCHANGED <<validation, result>>
    <3> QED
      BY <1>2, <2>1, <2>5
  <2> HIDE DEF outcome
  <2> QED
    BY <2>2, <2>3, <2>4, <2>5
<1>9. CASE ExpandContext
  <2>1. UNCHANGED <<result, validation>> /\ stage = "expanding"
    BY <1>9 DEF ExpandContext
  <2> QED
    BY <1>2, <2>1
<1>10. CASE UNCHANGED <<stage, result, validation>>
  BY <1>10 DEF ReviewIsOpen, PassIsDeserved, Both
<1>11. CASE CancelTask \/ (\E path \in Paths : EditFile(path)) \/ UNCHANGED evidenceVars
  <2>1. UNCHANGED <<stage, result, validation>>
    BY <1>11 DEF CancelTask, EditFile, evidenceVars
  <2> QED
    BY <1>10, <2>1
<1> QED
  BY <1>3, <1>4, <1>5, <1>7, <1>8, <1>9, <1>11 DEF EvidenceNext

\* The evidence is whole, or says that it is not, when it is built, and when an expansion
\* replaces it.
LEMMA OmissionsStep ==
  ASSUME EvidenceTypes, OmissionsAreReported, [EvidenceNext]_evidenceVars
  PROVE  OmissionsAreReported'
<1>1. /\ context.files \in Contexts
      /\ evidence \in [files : Contexts, cut : BOOLEAN, diff : SUBSET Paths]
      /\ version \in [Paths -> Nat]
      /\ wanted.paths \in SUBSET Paths /\ wanted.symbols \in SUBSET Symbols
  BY DEF EvidenceTypes, Targeting
<1>2. CASE stage' \notin {"asking", "expanding"}
  BY <1>2 DEF OmissionsAreReported
<1>3. CASE UNCHANGED <<context, evidence, changed>> /\ stage \in {"asking", "expanding"}
  BY <1>3 DEF OmissionsAreReported
<1>4. CASE Resolve \/ Widen \/ BuildContext \/ Fails \/ Stopped
           \/ \E paths \in SUBSET Paths : Execute(paths)
  <2>1. stage' \in {"building", "executing", "widening", "executed", "ended"}
    BY <1>4 DEF Resolve, Widen, BuildContext, Execute, Fails, Stopped, Throw, Finish
  <2> QED
    BY <1>2, <2>1
<1>5. ASSUME NEW shown \in SUBSET Paths, NEW found \in Validations, StartReview(shown, found)
      PROVE  OmissionsAreReported'
  <2> DEFINE taken == ContextEvidence(context.files, ReviewBudget)
             whole == ~DiffIsWhole(shown) \/ ~ValidationFits(found.steps) \/ taken.cut
  <2>1. /\ evidence' = [files |-> taken.files, diff |-> shown, cut |-> whole]
        /\ UNCHANGED <<context, changed>>
    BY <1>5 DEF StartReview
  <2>2. /\ Len(taken.files) <= ReviewBudget.files /\ TotalSize(taken.files) <= ReviewBudget.bytes
        /\ ~taken.cut => /\ PathsOf(context.files) \subseteq PathsOf(taken.files)
                         /\ \A i \in DOMAIN taken.files : ~taken.files[i].cut
    <3>1. << >> \o context.files = context.files
      BY <1>1 DEF Contexts
    <3> HIDE DEF taken
    <3> QED
      BY <1>1, <3>1, EmptyFacts, ContextEvidenceFacts DEF taken
  <2>3. ~whole => ~taken.cut /\ shown = changed
    BY DEF DiffIsWhole
  <2> HIDE DEF taken, whole
  <2>4. evidence'.files = taken.files /\ evidence'.diff = shown /\ evidence'.cut = whole
    BY <2>1
  <2> QED
    BY <2>1, <2>2, <2>3, <2>4 DEF OmissionsAreReported
<1>6. ASSUME NEW draft \in Drafts, Answer(draft) PROVE OmissionsAreReported'
  <2>1. \/ stage' = "ended"
        \/ stage = "asking" /\ UNCHANGED <<context, evidence, changed>>
    BY <1>6 DEF Answer, Throw, Finish
  <2> QED
    BY <1>2, <1>3, <2>1
<1>7. CASE ExpandContext
  <2> DEFINE read == ExpandTargeted(wanted.paths, wanted.symbols, version, ReviewBudget)
             taken == ContextEvidence(read.files \o evidence.files, ReviewBudget)
             either == evidence.cut \/ taken.cut
  <2>1. /\ stage = "expanding"
        /\ evidence' = [evidence EXCEPT !.files = taken.files, !.cut = either]
        /\ UNCHANGED <<context, changed>>
    BY <1>7 DEF ExpandContext, Expand
  <2>2. ~either => ~evidence.cut /\ ~taken.cut
    OBVIOUS
  <2>3. read.files \in Contexts
    BY <1>1, Budgets, ReadIsContext
  <2>4. evidence.files \in Contexts
    BY <1>1
  <2> HIDE DEF read
  <2>5. /\ Len(taken.files) <= ReviewBudget.files /\ TotalSize(taken.files) <= ReviewBudget.bytes
        /\ ~taken.cut => /\ PathsOf(evidence.files) \subseteq PathsOf(taken.files)
                         /\ \A i \in DOMAIN taken.files : ~taken.files[i].cut
    BY <2>3, <2>4, ContextEvidenceFacts
  <2> HIDE DEF taken, either
  <2>6. evidence'.files = taken.files /\ evidence'.diff = evidence.diff /\ evidence'.cut = either
    BY <1>1, <2>1
  <2>7. ~evidence.cut => PathsOf(context.files) \subseteq PathsOf(evidence.files)
                         /\ evidence.diff = changed
    BY <2>1 DEF OmissionsAreReported
  <2> QED
    BY <2>1, <2>2, <2>5, <2>6, <2>7 DEF OmissionsAreReported
<1>8. CASE CancelTask \/ (\E path \in Paths : EditFile(path)) \/ UNCHANGED evidenceVars
  <2>1. UNCHANGED <<stage, context, evidence, changed>>
    BY <1>8 DEF CancelTask, EditFile, evidenceVars
  <2> QED
    BY <1>2, <1>3, <2>1
<1> QED
  BY <1>4, <1>5, <1>6, <1>7, <1>8 DEF EvidenceNext

LEMMA EvidenceStep == EvidenceInv /\ [EvidenceNext]_evidenceVars => EvidenceInv'
BY TypesStep, ReviewStep, OmissionsStep DEF EvidenceInv

\* What holds of the context of a task, of its evidence and of its review, at every step.
THEOREM EvidenceInvariance == EvidenceSpec => []EvidenceInv
<1>1. EvidenceInit => EvidenceInv
  BY EvidenceStart
<1>2. EvidenceInv /\ [EvidenceNext]_evidenceVars => EvidenceInv'
  BY EvidenceStep
<1> QED
  BY <1>1, <1>2, PTL DEF EvidenceSpec

\* A review passes only what deserves it, whatever the model writes
\* (ReviewValidator.validate).
THEOREM PassesAreDeserved == EvidenceSpec => []PassIsDeserved
<1>1. EvidenceInv => PassIsDeserved
  BY DEF EvidenceInv
<1> QED
  BY <1>1, EvidenceInvariance, PTL

\* The evidence keeps to its budget and is whole unless it says that it is not, for every
\* budget, file size and number of expansions (ReviewEvidenceBuilder).
THEOREM NothingIsLeftOutSilently == EvidenceSpec => []OmissionsAreReported
<1>1. EvidenceInv => OmissionsAreReported
  BY DEF EvidenceInv
<1> QED
  BY <1>1, EvidenceInvariance, PTL

\* What an expansion reads.
LEMMA AskedStep ==
  ASSUME EvidenceInv, ExpandContext
  PROVE  LET asked == {p \in wanted.paths : Size[p] > 0}
                        \union UNION {Matches[s] : s \in wanted.symbols}
             shown == {i \in DOMAIN evidence'.files : evidence'.files[i].path \in asked}
         IN /\ \A i \in shown : evidence'.files[i].version = version[evidence'.files[i].path]
            /\ \/ asked \subseteq PathsOf(evidence'.files)
               \/ PathsOf(evidence'.files) \subseteq asked
<1> DEFINE asked == Asked(wanted.paths, wanted.symbols)
           t == Expansion(wanted.paths, wanted.symbols, version, ReviewBudget)
           read == ExpandTargeted(wanted.paths, wanted.symbols, version, ReviewBudget)
           u == ContextEvidence(t.files \o evidence.files, ReviewBudget)
<1>1. /\ evidence \in [files : Contexts, cut : BOOLEAN, diff : SUBSET Paths]
      /\ version \in [Paths -> Nat]
      /\ wanted.paths \in SUBSET Paths /\ wanted.symbols \in SUBSET Symbols
  BY DEF EvidenceInv, EvidenceTypes, Targeting
<1>2. /\ read.files = t.files
      /\ t \in Taken
      /\ \E entries, m : Gathered(ReviewBudget, NoDiff, entries, m, t)
      /\ \A i \in DOMAIN t.files :
           t.files[i].path \in asked /\ t.files[i].version = version[t.files[i].path]
      /\ t.full \/ asked \subseteq PathsOf(t.files)
  BY <1>1, Budgets, ExpansionFacts
<1>3. evidence'.files = u.files
  <2> DEFINE w == ContextEvidence(read.files \o evidence.files, ReviewBudget)
             either == evidence.cut \/ w.cut
  <2>1. evidence' = [evidence EXCEPT !.files = w.files, !.cut = either]
    BY DEF ExpandContext, Expand
  <2> HIDE DEF w, either
  <2>2. evidence'.files = w.files
    BY <1>1, <2>1
  <2> QED
    BY <1>2, <2>2 DEF w
<1>4. PICK entries, m : Gathered(ReviewBudget, NoDiff, entries, m, t)
  BY <1>2
<1>5. evidence.files \in Contexts /\ evidence.files \in Seq(Entry)
  BY <1>1 DEF Contexts
<1> HIDE DEF read, t, asked
<1>6. t.files \in Seq(Entry) /\ t.full \in BOOLEAN
  BY <1>2 DEF Taken
<1>7. t.files \in Contexts
  <2>1. \A i \in DOMAIN t.files : t.files[i].size \in 1 .. ReviewBudget.perFile
    BY <1>4 DEF Gathered, SoundFiles
  <2>2. ReviewBudget.perFile \in Nat
    BY Budgets DEF IsBudget
  <2>3. \A i \in DOMAIN t.files : t.files[i].size >= 1
    BY <2>1, <2>2
  <2> QED
    BY <1>6, <2>3 DEF Contexts
<1>8. /\ Len(u.files) >= Len(t.files)
      /\ \A i \in DOMAIN t.files : u.files[i] = t.files[i]
      /\ NoRoom(ReviewBudget, t) => u.files = t.files
  BY <1>2, <1>4, <1>5, Budgets, TakenAgain
<1>9. /\ u.files \in Seq(Entry)
      /\ \A i, j \in DOMAIN u.files : u.files[i].path = u.files[j].path => i = j
  BY <1>5, <1>7, ContextEvidenceFacts DEF Contexts
<1> HIDE DEF u
<1>10. \A i \in DOMAIN t.files : i \in DOMAIN u.files
  <2>1. DOMAIN t.files = 1 .. Len(t.files) /\ DOMAIN u.files = 1 .. Len(u.files)
        /\ Len(t.files) \in Nat /\ Len(u.files) \in Nat
    BY <1>6, <1>9
  <2> QED
    BY <1>8, <2>1
<1>11. CASE NoRoom(ReviewBudget, t)
  <2>1. u.files = t.files
    BY <1>8, <1>11
  <2>2. PathsOf(u.files) \subseteq asked
    BY <1>2, <2>1 DEF PathsOf
  <2> QED
    BY <1>2, <1>3, <2>1, <2>2 DEF asked, Asked
<1>12. CASE ~NoRoom(ReviewBudget, t)
  <2>1. ~t.full
    BY <1>4, <1>12 DEF Gathered, WithinBudget
  <2>2. asked \subseteq PathsOf(t.files)
    BY <1>2, <2>1
  <2>3. PathsOf(t.files) \subseteq PathsOf(u.files)
    BY <1>8, <1>10 DEF PathsOf
  <2>4. ASSUME NEW i \in DOMAIN u.files, u.files[i].path \in asked
        PROVE  u.files[i].version = version[u.files[i].path]
    <3>1. PICK j \in DOMAIN t.files : t.files[j].path = u.files[i].path
      BY <2>2, <2>4 DEF PathsOf
    <3>2. j \in DOMAIN u.files /\ u.files[j] = t.files[j]
      BY <1>8, <1>10
    <3>3. i = j
      BY <1>9, <3>1, <3>2
    <3> QED
      BY <1>2, <3>2, <3>3
  <2>5. asked \subseteq PathsOf(u.files)
    BY <2>2, <2>3
  <2> QED
    BY <1>3, <2>4, <2>5 DEF asked, Asked
<1> QED
  BY <1>11, <1>12

\* What the reviewer asks for is in its next evidence as it is now, unless the evidence is
\* filled with what was asked for (ReviewEvidenceBuilder.expand).
THEOREM RequestsAreServed == EvidenceSpec => AskedIsShown
<1> DEFINE Served ==
      stage = "expanding" /\ stage' = "asking" =>
      LET asked == {p \in wanted.paths : Size[p] > 0}
                     \union UNION {Matches[s] : s \in wanted.symbols}
          shown == {i \in DOMAIN evidence'.files : evidence'.files[i].path \in asked}
      IN /\ \A i \in shown : evidence'.files[i].version = version[evidence'.files[i].path]
         /\ \/ asked \subseteq PathsOf(evidence'.files)
            \/ PathsOf(evidence'.files) \subseteq asked
<1>1. EvidenceInv /\ [EvidenceNext]_evidenceVars => [Served]_evidenceVars
  <2> SUFFICES ASSUME EvidenceInv, EvidenceNext, stage = "expanding", stage' = "asking"
               PROVE  Served
    OBVIOUS
  <2>1. ExpandContext
    BY DEF EvidenceNext, Resolve, Widen, BuildContext, Execute, StartReview, Fails, Throw,
           Finish, Answer, Stopped, CancelTask, EditFile
  <2> QED
    BY <2>1, AskedStep
<1> QED
  BY <1>1, EvidenceInvariance, PTL DEF EvidenceSpec, AskedIsShown

----------------------------------------------------------------------------
\* What the task names comes first.

\* The scores of s do not rise.
Falling(s, score) == \A i, j \in DOMAIN s : i < j => score[s[i]] >= score[s[j]]

\* after tells what has a lower score, and nothing that has a higher one.
Lowers(S, after, score) ==
  \A x, y \in S : /\ y \in after[x] => score[x] >= score[y]
                  /\ y \notin after[x] => score[y] >= score[x]

LEMMA InsertedFalls ==
  ASSUME NEW S, NEW s \in Seq(S), NEW x \in S, NEW after, NEW score \in [S -> Int],
         Lowers(S, after, score), Falling(s, score)
  PROVE  Falling(Inserted(s, x, after), score)
<1> DEFINE L == Len(s)
           K == {i \in DOMAIN s : s[i] \in after[x]} \union {L + 1}
           place == Min(K)
           t == [i \in 1 .. L + 1 |->
                   IF i < place THEN s[i] ELSE IF i = place THEN x ELSE s[i - 1]]
<1>1. L \in Nat /\ DOMAIN s = 1 .. L /\ \A i \in 1 .. L : s[i] \in S
  OBVIOUS
<1>2. Inserted(s, x, after) = t
  BY DEF Inserted
<1>3. K \subseteq 1 .. L + 1 /\ K \in SUBSET (0 .. L + 1) /\ K # {} /\ K \subseteq Int
  BY <1>1
<1>4. place \in K /\ \A k \in K : place <= k
  <2> HIDE DEF K
  <2>1. \E k \in K : \A j \in K : k <= j
    <3>1. L + 1 \in Nat
      BY <1>1
    <3> QED
      BY <1>3, <3>1, LeastNumber
  <2> QED
    BY <2>1 DEF Min
<1>5. place \in 1 .. L + 1
  BY <1>3, <1>4
<1>6. \A i \in 1 .. L : i < place => s[i] \notin after[x]
  <2> SUFFICES ASSUME NEW i \in 1 .. L, i < place, s[i] \in after[x] PROVE FALSE
    OBVIOUS
  <2>1. i \in K
    BY <1>1
  <2> HIDE DEF K
  <2>2. place <= i
    BY <1>4, <2>1
  <2> HIDE DEF place
  <2> QED
    BY <1>5, <2>2
<1>7. place = L + 1 \/ (place \in 1 .. L /\ s[place] \in after[x])
  BY <1>1, <1>4
<1> HIDE DEF place, K, L
<1>8. \A i \in 1 .. L : score[s[i]] \in Int /\ score[x] \in Int
  BY <1>1
<1>9. \A i \in 1 .. L : i < place => score[s[i]] >= score[x]
  BY <1>1, <1>6 DEF Lowers
<1>10. \A i, j \in 1 .. L : i < j => score[s[i]] >= score[s[j]]
  BY <1>1 DEF Falling
<1>11. \A i \in 1 .. L : i >= place => score[x] >= score[s[i]]
  <2> SUFFICES ASSUME NEW i \in 1 .. L, i >= place PROVE score[x] >= score[s[i]]
    OBVIOUS
  <2>1. place \in 1 .. L /\ s[place] \in after[x]
    BY <1>1, <1>5, <1>7
  <2>2. score[x] >= score[s[place]]
    BY <1>1, <2>1 DEF Lowers
  <2>3. i = place \/ place < i
    BY <1>5
  <2>4. score[s[place]] >= score[s[i]]
    BY <1>8, <1>10, <2>1, <2>3
  <2> QED
    BY <1>8, <2>1, <2>2, <2>4
<1>12. ASSUME NEW i \in 1 .. L + 1
       PROVE  /\ i < place => i \in 1 .. L /\ t[i] = s[i]
              /\ i = place => t[i] = x
              /\ i > place => i - 1 \in 1 .. L /\ i - 1 >= place /\ t[i] = s[i - 1]
  BY <1>1, <1>5
<1>13. DOMAIN t = 1 .. L + 1
  OBVIOUS
<1> HIDE DEF t
<1>14. ASSUME NEW i \in 1 .. L + 1, NEW j \in 1 .. L + 1, i < j
       PROVE  score[t[i]] >= score[t[j]]
  <2>1. CASE j < place
    <3>1. i < place /\ j # place
      BY <1>1, <1>5, <1>14, <2>1
    <3> QED
      BY <1>10, <1>12, <1>14, <2>1, <3>1
  <2>2. CASE j = place
    <3>1. i < place
      BY <1>14, <2>2
    <3> QED
      BY <1>9, <1>12, <2>2, <3>1
  <2>3. CASE j > place /\ i < place
    <3>1. score[t[i]] >= score[x] /\ score[x] >= score[t[j]]
      BY <1>9, <1>11, <1>12, <2>3
    <3>2. t[i] = s[i] /\ i \in 1 .. L /\ t[j] = s[j - 1] /\ j - 1 \in 1 .. L
      BY <1>12, <2>3
    <3> QED
      BY <1>8, <3>1, <3>2
  <2>4. CASE j > place /\ i = place
    BY <1>11, <1>12, <2>4
  <2>5. CASE j > place /\ i > place
    <3>1. i - 1 < j - 1
      BY <1>14
    <3> QED
      BY <1>10, <1>12, <2>5, <3>1
  <2>6. j < place \/ j = place \/ j > place
    BY <1>5
  <2>7. i < place \/ i = place \/ i > place
    BY <1>5
  <2> QED
    BY <2>1, <2>2, <2>3, <2>4, <2>5, <2>6, <2>7
<1> QED
  BY <1>2, <1>13, <1>14 DEF Falling

LEMMA SortedFalls ==
  ASSUME NEW S, NEW s \in Seq(S), NEW after, NEW score \in [S -> Int],
         Lowers(S, after, score)
  PROVE  Falling(Sorted(s, after), score)
<1> DEFINE L == Len(s)
           P(f) == {n \in 0 .. L : Falling(f[n], score)}
<1>1. PICK f : SortedRun(f, S, s, after)
  BY SortedFacts
<1>2. L \in Nat /\ \A n \in 1 .. L : s[n] \in S
  OBVIOUS
<1>3. 0 \in P(f)
  <2>1. f[0] = << >>
    BY <1>1 DEF SortedRun
  <2>2. Falling(<< >>, score)
    BY DEF Falling
  <2> QED
    BY <1>2, <2>1, <2>2
<1>4. ASSUME NEW n \in 1 .. L, n - 1 \in P(f) PROVE n \in P(f)
  <2>1. f[n] = Inserted(f[n - 1], s[n], after) /\ f[n - 1] \in Seq(S)
    <3>1. n - 1 \in 0 .. L
      BY <1>2
    <3> QED
      BY <1>1, <3>1 DEF SortedRun
  <2>2. Falling(f[n - 1], score) /\ s[n] \in S
    BY <1>2, <1>4
  <2>3. Falling(f[n], score)
    BY <2>1, <2>2, InsertedFalls
  <2>4. n \in 0 .. L
    BY <1>2
  <2> QED
    BY <2>3, <2>4
<1>5. L \in P(f)
  <2> DEFINE Q == P(f)
  <2> HIDE DEF P, L
  <2>1. 0 \in Q /\ \A n \in 1 .. L : n - 1 \in Q => n \in Q
    BY <1>3, <1>4
  <2> HIDE DEF Q
  <2>2. 0 .. L \subseteq Q
    BY <1>2, <2>1, UpTo
  <2>3. L \in Q
    BY <1>2, <2>2
  <2> QED
    BY <2>3 DEF Q
<1> QED
  BY <1>1, <1>5 DEF SortedRun

\* One step of a run.
LEMMA RunStep ==
  ASSUME NEW budget, IsBudget(budget), NEW diff, NEW entries \in Seq(Entry),
         NEW heldFirst \in BOOLEAN, NEW f, GatherRun(f, entries, budget, diff, heldFirst),
         NEW n \in 1 .. Len(entries)
  PROVE  /\ entries[n] \in Entry /\ f[n - 1] \in Taken /\ f[n] \in Taken
         /\ Gathered(budget, diff, entries, n - 1, f[n - 1])
         /\ Gathered(budget, diff, entries, n, f[n])
         /\ \/ PassedOver(f[n - 1], f[n], entries[n])
            \/ OutOfRoom(budget, f[n - 1], f[n])
            \/ \E held \in Entry : Holds(budget, f[n - 1], f[n], entries[n], held)
<1>1. Len(entries) \in Nat /\ entries[n] \in Entry
  OBVIOUS
<1>2. n - 1 \in 0 .. Len(entries) /\ n \in 0 .. Len(entries)
  BY <1>1
<1>3. /\ f[n - 1] \in Taken /\ f[n] \in Taken
      /\ Gathered(budget, diff, entries, n - 1, f[n - 1])
      /\ Gathered(budget, diff, entries, n, f[n])
      /\ f[n] = Take(budget, f[n - 1], entries[n], heldFirst)
  BY <1>2 DEF GatherRun
<1> QED
  BY <1>1, <1>3, TakeFacts

\* What is held stays held, and out of room stays out of room.
Grows(t, u) ==
  /\ PathsOf(t.files) \subseteq PathsOf(u.files)
  /\ t.full => u.full /\ u.files = t.files

LEMMA RunGrows ==
  ASSUME NEW budget, IsBudget(budget), NEW diff, NEW entries \in Seq(Entry),
         NEW heldFirst \in BOOLEAN, NEW f, GatherRun(f, entries, budget, diff, heldFirst),
         NEW n \in 0 .. Len(entries), NEW m \in n .. Len(entries)
  PROVE  Grows(f[n], f[m])
<1> DEFINE P == {k \in 0 .. m - n : Grows(f[n], f[n + k])}
<1>1. Len(entries) \in Nat /\ n \in Nat /\ m \in Nat /\ n <= m
  OBVIOUS
<1>2. 0 \in P
  <2>1. n + 0 = n /\ 0 \in 0 .. m - n
    BY <1>1
  <2> QED
    BY <2>1 DEF Grows
<1>3. ASSUME NEW k \in 1 .. m - n, k - 1 \in P PROVE k \in P
  <2>1. n + k \in 1 .. Len(entries) /\ (n + k) - 1 = n + (k - 1) /\ k \in 0 .. m - n
    BY <1>1
  <2> DEFINE s == f[n + (k - 1)]
             u == f[n + k]
             e == entries[n + k]
  <2>2. /\ s \in Taken
        /\ \/ PassedOver(s, u, e)
           \/ OutOfRoom(budget, s, u)
           \/ \E held \in Entry : Holds(budget, s, u, e, held)
    BY <2>1, RunStep
  <2>3. Grows(f[n], s)
    BY <1>3
  <2> HIDE DEF s, u, e
  <2>4. Grows(s, u)
    <3>1. CASE PassedOver(s, u, e)
      BY <3>1 DEF PassedOver, Grows
    <3>2. CASE OutOfRoom(budget, s, u)
      BY <3>2 DEF OutOfRoom, Grows
    <3>3. ASSUME NEW held \in Entry, Holds(budget, s, u, e, held)
          PROVE  Grows(s, u)
      <4>1. s.files \in Seq(Entry)
        BY <2>2 DEF Taken
      <4>2. u.files = Append(s.files, held) /\ ~s.full
        BY <3>3 DEF Holds
      <4> QED
        BY <4>1, <4>2, OneMore DEF Grows
    <3> QED
      BY <2>2, <3>1, <3>2, <3>3
  <2>5. Grows(f[n], u)
    BY <2>3, <2>4 DEF Grows
  <2> QED
    BY <2>1, <2>5 DEF u
<1>4. Grows(f[n], f[n + (m - n)])
  <2>1. m - n \in Nat
    BY <1>1
  <2> HIDE DEF P
  <2>2. 0 .. m - n \subseteq P
    BY <1>2, <1>3, <2>1, UpTo
  <2>3. m - n \in P
    BY <2>1, <2>2
  <2> QED
    BY <2>3 DEF P
<1>5. n + (m - n) = m
  BY <1>1
<1> QED
  BY <1>4, <1>5

\* Each file that is held was taken at some step.
LEMMA HeldAt ==
  ASSUME NEW budget, IsBudget(budget), NEW diff, NEW entries \in Seq(Entry),
         NEW heldFirst \in BOOLEAN, NEW f, GatherRun(f, entries, budget, diff, heldFirst),
         NEW i \in DOMAIN f[Len(entries)].files
  PROVE  \E n \in 1 .. Len(entries) :
           Holds(budget, f[n - 1], f[n], entries[n], f[Len(entries)].files[i])
<1> DEFINE L == Len(entries)
           At(n, h) == \E m \in 1 .. n : Holds(budget, f[m - 1], f[m], entries[m], h)
           P == {n \in 0 .. L : \A j \in DOMAIN f[n].files : At(n, f[n].files[j])}
<1>1. L \in Nat
  OBVIOUS
<1>2. 0 \in P
  <2>1. f[0].files = << >>
    BY DEF GatherRun
  <2> QED
    BY <1>1, <2>1
<1>3. ASSUME NEW n \in 1 .. L, n - 1 \in P PROVE n \in P
  <2> DEFINE s == f[n - 1]
             u == f[n]
             e == entries[n]
  <2>1. /\ s \in Taken
        /\ \/ PassedOver(s, u, e)
           \/ OutOfRoom(budget, s, u)
           \/ \E held \in Entry : Holds(budget, s, u, e, held)
    BY RunStep
  <2>2. n \in 0 .. L /\ \A m \in 1 .. n - 1 : m \in 1 .. n
    BY <1>1
  <2>3. \A j \in DOMAIN s.files : At(n, s.files[j])
    BY <1>3, <2>2
  <2>4. ASSUME NEW held \in Entry, Holds(budget, s, u, e, held), NEW j \in DOMAIN u.files
        PROVE  At(n, u.files[j])
    <3>1. s.files \in Seq(Entry) /\ u.files = Append(s.files, held)
      BY <2>1, <2>4 DEF Taken, Holds
    <3>2. /\ DOMAIN u.files = 1 .. Len(s.files) + 1 /\ DOMAIN s.files = 1 .. Len(s.files)
          /\ u.files[Len(s.files) + 1] = held
          /\ \A k \in 1 .. Len(s.files) : u.files[k] = s.files[k]
      BY <3>1, OneMore
    <3>3. j \in 1 .. Len(s.files) \/ j = Len(s.files) + 1
      BY <3>1, <3>2
    <3>4. CASE j \in 1 .. Len(s.files)
      BY <2>3, <3>2, <3>4
    <3>5. CASE j = Len(s.files) + 1
      <4>1. u.files[j] = held /\ n \in 1 .. n
        BY <2>2, <3>2, <3>5
      <4> QED
        BY <2>4, <4>1
    <3> QED
      BY <3>3, <3>4, <3>5
  <2>5. \A j \in DOMAIN u.files : At(n, u.files[j])
    <3>1. CASE u.files = s.files
      BY <2>3, <3>1
    <3> HIDE DEF At, s, u
    <3> QED
      BY <2>1, <2>4, <3>1 DEF PassedOver, OutOfRoom
  <2> QED
    BY <2>2, <2>5
<1>4. L \in P
  <2> HIDE DEF P, L
  <2>1. 0 .. L \subseteq P
    BY <1>1, <1>2, <1>3, UpTo
  <2> QED
    BY <1>1, <2>1
<1> QED
  BY <1>4

\* What is left out is left out for want of room, and only what comes before it is held.
LEMMA LeftOut ==
  ASSUME NEW budget, IsBudget(budget), NEW diff, NEW entries \in Seq(Entry),
         NEW heldFirst \in BOOLEAN, NEW f, GatherRun(f, entries, budget, diff, heldFirst),
         NEW k \in 1 .. Len(entries), entries[k].size # 0,
         entries[k].path \notin PathsOf(f[Len(entries)].files)
  PROVE  /\ NoRoom(budget, f[Len(entries)])
         /\ \A i \in DOMAIN f[Len(entries)].files :
              \E j \in 1 .. k - 1 : IsOf(f[Len(entries)].files[i], entries[j])
<1> DEFINE L == Len(entries)
           t == f[L]
           p == entries[k].path
<1>1. /\ L \in Nat /\ L \in 0 .. L /\ k - 1 \in 0 .. L /\ L \in k - 1 .. L
      /\ k \in 0 .. L /\ L \in k .. L
  OBVIOUS
<1>2. /\ PathsOf(f[k - 1].files) \subseteq PathsOf(t.files)
      /\ PathsOf(f[k].files) \subseteq PathsOf(t.files)
      /\ f[k].full => t.full /\ t.files = f[k].files
  <2>1. Grows(f[k - 1], t) /\ Grows(f[k], t)
    BY <1>1, RunGrows
  <2> QED
    BY <2>1 DEF Grows
<1>3. /\ f[k - 1] \in Taken /\ Gathered(budget, diff, entries, k - 1, f[k - 1])
      /\ \/ PassedOver(f[k - 1], f[k], entries[k])
         \/ OutOfRoom(budget, f[k - 1], f[k])
         \/ \E held \in Entry : Holds(budget, f[k - 1], f[k], entries[k], held)
  BY RunStep
<1>4. ~PassedOver(f[k - 1], f[k], entries[k])
  BY <1>2 DEF PassedOver
<1>5. ASSUME NEW held \in Entry PROVE ~Holds(budget, f[k - 1], f[k], entries[k], held)
  <2> SUFFICES ASSUME Holds(budget, f[k - 1], f[k], entries[k], held) PROVE FALSE
    OBVIOUS
  <2>1. f[k - 1].files \in Seq(Entry)
    BY <1>3 DEF Taken
  <2>2. f[k].files = Append(f[k - 1].files, held) /\ held.path = p
    BY DEF Holds, IsOf
  <2>3. p \in PathsOf(f[k].files)
    BY <2>1, <2>2, OneMore
  <2> QED
    BY <1>2, <2>3
<1>6. OutOfRoom(budget, f[k - 1], f[k])
  BY <1>3, <1>4, <1>5
<1>7. t.full /\ t.files = f[k - 1].files
  BY <1>2, <1>6 DEF OutOfRoom
<1>8. NoRoom(budget, t)
  <2>1. Gathered(budget, diff, entries, L, t)
    BY <1>1 DEF GatherRun
  <2> HIDE DEF t
  <2> QED
    BY <1>7, <2>1 DEF Gathered, WithinBudget
<1>9. \A i \in DOMAIN f[k - 1].files : \E j \in 1 .. k - 1 : IsOf(f[k - 1].files[i], entries[j])
  BY <1>3 DEF Gathered, FromEntries
<1> QED
  BY <1>7, <1>8, <1>9

\* Of some files, those whose path is in P, the others with nothing of them.
HeldIn(files, P) ==
  [i \in DOMAIN files |->
     IF files[i].path \in P THEN files[i] ELSE [files[i] EXCEPT !.size = 0]]

LEMMA HeldInFacts ==
  ASSUME NEW files \in Seq(Entry), NEW P
  PROVE  /\ HeldIn(files, P) \in Seq(Entry) /\ Len(HeldIn(files, P)) = Len(files)
         /\ \A i \in 1 .. Len(files) :
              /\ files[i].size \in Nat
              /\ HeldIn(files, P)[i].size = IF files[i].path \in P THEN files[i].size ELSE 0
         /\ PathsOf(files) \subseteq P => HeldIn(files, P) = files
<1> DEFINE L == Len(files)
           s == HeldIn(files, P)
<1>1. L \in Nat /\ DOMAIN files = 1 .. L /\ files \in [1 .. L -> Entry]
      /\ \A i \in 1 .. L : files[i] \in Entry
  OBVIOUS
<1>2. s = [i \in 1 .. L |->
             IF files[i].path \in P THEN files[i] ELSE [files[i] EXCEPT !.size = 0]]
  BY <1>1 DEF HeldIn
<1> HIDE DEF s, L
<1>3. ASSUME NEW i \in 1 .. L
      PROVE  /\ files[i].size \in Nat
             /\ [files[i] EXCEPT !.size = 0] \in Entry /\ [files[i] EXCEPT !.size = 0].size = 0
  <2> DEFINE e == files[i]
  <2>1. e \in Entry
    BY <1>1
  <2> HIDE DEF e
  <2>2. e.size \in Nat /\ [e EXCEPT !.size = 0] \in Entry /\ [e EXCEPT !.size = 0].size = 0
    BY <2>1 DEF Entry
  <2> QED
    BY <2>2 DEF e
<1>4. ASSUME NEW i \in 1 .. L
      PROVE  s[i] \in Entry /\ s[i].size = IF files[i].path \in P THEN files[i].size ELSE 0
  BY <1>1, <1>2, <1>3
<1>5. s \in [1 .. L -> Entry]
  BY <1>2, <1>4
<1>6. s \in Seq(Entry) /\ Len(s) = L
  BY <1>1, <1>5
<1>7. ASSUME PathsOf(files) \subseteq P PROVE s = files
  <2>1. \A i \in 1 .. L : files[i].path \in P
    BY <1>1, <1>7 DEF PathsOf
  <2>2. s = [i \in 1 .. L |-> files[i]]
    BY <1>2, <2>1
  <2> QED
    BY <1>1, <2>2
<1> QED
  BY <1>3, <1>4, <1>6, <1>7 DEF s, L

\* No path, nothing held.
LEMMA NothingHeld ==
  ASSUME NEW files \in Seq(Entry)
  PROVE  TotalSize(HeldIn(files, {})) = 0
<1> DEFINE s == HeldIn(files, {})
           L == Len(files)
           P == {n \in 0 .. L : Sizes(s)[n] = 0}
<1>1. L \in Nat /\ s \in Seq(Entry) /\ Len(s) = L /\ \A i \in 1 .. L : s[i].size = 0
  BY HeldInFacts
<1> HIDE DEF s, L
<1>2. 0 \in P
  BY <1>1, SizesFacts
<1>3. ASSUME NEW n \in 1 .. L, n - 1 \in P PROVE n \in P
  <2>1. Sizes(s)[n] = Sizes(s)[n - 1] + s[n].size
    BY <1>1, SizesFacts
  <2>2. n \in 0 .. L
    BY <1>1
  <2> QED
    BY <1>1, <1>3, <2>1, <2>2
<1>4. Sizes(s)[L] = 0
  <2> HIDE DEF P
  <2>1. 0 .. L \subseteq P
    BY <1>1, <1>2, <1>3, UpTo
  <2>2. L \in P
    BY <1>1, <2>1
  <2> QED
    BY <2>2 DEF P
<1> QED
  BY <1>1, <1>4, SizesFacts DEF s, L

\* No two files have the same path.
Distinct(files) == \A i, j \in DOMAIN files : files[i].path = files[j].path => i = j

\* One more path adds at most the size of its file more.
LEMMA OneMoreHeld ==
  ASSUME NEW files \in Seq(Entry), Distinct(files), NEW P, NEW k \in 1 .. Len(files)
  PROVE  TotalSize(HeldIn(files, P \union {files[k].path}))
           <= TotalSize(HeldIn(files, P)) + files[k].size
<1> DEFINE L == Len(files)
           a == HeldIn(files, P)
           b == HeldIn(files, P \union {files[k].path})
           extra(n) == IF k <= n THEN files[k].size ELSE 0
           Q == {n \in 0 .. L : Sizes(b)[n] <= Sizes(a)[n] + extra(n)}
<1>1. L \in Nat /\ DOMAIN files = 1 .. L
  OBVIOUS
<1>2. /\ a \in Seq(Entry) /\ Len(a) = L /\ b \in Seq(Entry) /\ Len(b) = L
      /\ \A i \in 1 .. L :
           /\ files[i].size \in Nat
           /\ a[i].size = IF files[i].path \in P THEN files[i].size ELSE 0
           /\ b[i].size = IF files[i].path \in P \union {files[k].path}
                          THEN files[i].size ELSE 0
  BY HeldInFacts
<1>3. \A i \in 1 .. L : files[i].path = files[k].path => i = k
  BY <1>1 DEF Distinct
<1> HIDE DEF a, b
<1>4. /\ Sizes(a) \in [0 .. L -> Nat] /\ Sizes(a)[0] = 0
      /\ \A n \in 1 .. L : Sizes(a)[n] = Sizes(a)[n - 1] + a[n].size
      /\ TotalSize(a) = Sizes(a)[L]
  BY <1>2, SizesFacts
<1>5. /\ Sizes(b) \in [0 .. L -> Nat] /\ Sizes(b)[0] = 0
      /\ \A n \in 1 .. L : Sizes(b)[n] = Sizes(b)[n - 1] + b[n].size
      /\ TotalSize(b) = Sizes(b)[L]
  BY <1>2, SizesFacts
<1> HIDE DEF L
<1>6. k \in 1 .. L /\ files[k].size \in Nat
  BY <1>2 DEF L
<1>7. 0 \in Q
  BY <1>1, <1>4, <1>5, <1>6
<1>8. ASSUME NEW n \in 1 .. L, n - 1 \in Q PROVE n \in Q
  <2>1. Sizes(b)[n - 1] <= Sizes(a)[n - 1] + extra(n - 1)
    BY <1>8
  <2>2. /\ Sizes(a)[n - 1] \in Nat /\ Sizes(b)[n - 1] \in Nat /\ files[n].size \in Nat
        /\ n \in 0 .. L
    BY <1>1, <1>2, <1>4, <1>5
  <2>3. /\ Sizes(a)[n] = Sizes(a)[n - 1] + a[n].size
        /\ Sizes(b)[n] = Sizes(b)[n - 1] + b[n].size
    BY <1>4, <1>5
  <2>4. CASE n = k
    <3>1. extra(n - 1) = 0 /\ extra(n) = files[k].size /\ a[n].size \in Nat
          /\ b[n].size = files[k].size
      BY <1>2, <1>6, <2>4
    <3> HIDE DEF extra
    <3>2. Sizes(b)[n] <= Sizes(a)[n] + extra(n)
      BY <1>6, <2>1, <2>2, <2>3, <3>1
    <3> QED
      BY <2>2, <3>2
  <2>5. CASE n # k
    <3>1. files[n].path # files[k].path
      BY <1>3, <2>5
    <3>2. a[n].size = b[n].size /\ a[n].size \in Nat
      BY <1>2, <3>1
    <3>3. extra(n - 1) = extra(n) /\ extra(n) \in Nat
      BY <1>1, <1>6, <2>5
    <3> HIDE DEF extra
    <3>4. Sizes(b)[n] <= Sizes(a)[n] + extra(n)
      BY <2>1, <2>2, <2>3, <3>2, <3>3
    <3> QED
      BY <2>2, <3>4
  <2> QED
    BY <2>4, <2>5
<1>9. Sizes(b)[L] <= Sizes(a)[L] + extra(L)
  <2> HIDE DEF Q
  <2>1. 0 .. L \subseteq Q
    BY <1>1, <1>7, <1>8, UpTo
  <2>2. L \in Q
    BY <1>1, <2>1
  <2> QED
    BY <2>2 DEF Q
<1>10. extra(L) = files[k].size
  BY <1>1, <1>6
<1> QED
  BY <1>4, <1>5, <1>9, <1>10 DEF a, b

\* Files with different paths are as many as their paths.
LEMMA CountPaths ==
  ASSUME NEW files \in Seq(Entry), Distinct(files), NEW more \in Seq(Entry),
         PathsOf(files) \subseteq PathsOf(more)
  PROVE  Len(files) <= Len(more)
<1> DEFINE a == Len(files)
           b == Len(more)
           g == [i \in 1 .. a |-> CHOOSE j \in 1 .. b : more[j].path = files[i].path]
<1>1. a \in Nat /\ b \in Nat /\ DOMAIN files = 1 .. a /\ DOMAIN more = 1 .. b
  OBVIOUS
<1> HIDE DEF a, b
<1>2. \A i \in 1 .. a : \E j \in 1 .. b : more[j].path = files[i].path
  BY <1>1 DEF PathsOf
<1>3. \A i \in 1 .. a : g[i] \in 1 .. b /\ more[g[i]].path = files[i].path
  BY <1>2
<1>4. g \in [1 .. a -> 1 .. b]
  BY <1>3
<1> HIDE DEF g
<1>5. \A i, j \in 1 .. a : g[i] = g[j] => i = j
  BY <1>1, <1>3 DEF Distinct
<1>6. g \in Injection(1 .. a, 1 .. b)
  BY <1>4, <1>5 DEF Injection, IsInjective
<1>7. IsFiniteSet(1 .. b) /\ Cardinality(1 .. b) = b /\ Cardinality(1 .. a) = a
  BY <1>1, FS_Interval
<1>8. Cardinality(1 .. a) <= Cardinality(1 .. b)
  BY <1>6, <1>7, FS_Injection
<1> QED
  BY <1>7, <1>8 DEF a, b

\* files come whole before c, and before other entries of the same path.
ComeBefore(files, entries, c, budget) ==
  /\ \A j \in DOMAIN files :
       files[j].size \in 1 .. budget.perFile /\ \E k \in 1 .. c - 1 : entries[k] = files[j]
  /\ \A n \in DOMAIN entries, j \in DOMAIN files :
       entries[n].path = files[j].path =>
         entries[n] = files[j] \/ \E k \in 1 .. n - 1 : entries[k] = files[j]

\* Files that all come before step c of a run that is not out of room then do not fill the
\* budget.
LEMMA FilledFirst ==
  ASSUME NEW budget, IsBudget(budget), NEW diff, diff.size \in Nat,
         NEW entries \in Seq(Entry),
         NEW heldFirst \in BOOLEAN, NEW f, GatherRun(f, entries, budget, diff, heldFirst),
         NEW c \in 1 .. Len(entries), ~f[c - 1].full, ~NoRoom(budget, f[c - 1]),
         NEW files \in Seq(Entry), Distinct(files),
         ComeBefore(files, entries, c, budget)
  PROVE  Len(files) < budget.files /\ TotalSize(files) < budget.bytes
<1> DEFINE L == Len(entries)
           M == Len(files)
           Sum(n) == TotalSize(HeldIn(files, PathsOf(f[n].files)))
           Q == {n \in 0 .. c - 1 : NoRoom(budget, f[n]) \/ f[n].total >= Sum(n)}
<1>1. L \in Nat /\ M \in Nat /\ DOMAIN files = 1 .. M /\ DOMAIN entries = 1 .. L
      /\ c - 1 \in 0 .. L /\ c - 1 \in Nat
  OBVIOUS
<1>2. budget.files \in Nat \ {0} /\ budget.bytes \in Nat \ {0} /\ budget.perFile \in Nat \ {0}
  BY DEF IsBudget
<1>3. ASSUME NEW n \in 0 .. c - 1
      PROVE  /\ f[n] \in Taken /\ Gathered(budget, diff, entries, n, f[n])
             /\ f[n].files \in Seq(Entry) /\ f[n].total \in Nat /\ ~f[n].full
             /\ Len(f[n].files) \in Nat
  <2>1. n \in 0 .. L /\ c - 1 \in n .. L
    BY <1>1
  <2>2. f[n] \in Taken /\ Gathered(budget, diff, entries, n, f[n])
    BY <2>1 DEF GatherRun
  <2>3. Grows(f[n], f[c - 1])
    BY <2>1, RunGrows
  <2> QED
    BY <2>2, <2>3 DEF Taken, Grows
<1>4. \A P : HeldIn(files, P) \in Seq(Entry) /\ TotalSize(HeldIn(files, P)) \in Nat
  BY HeldInFacts, TotalIsNatural
<1> HIDE DEF L, M
<1>5. /\ \A j \in 1 .. M :
           files[j].size \in 1 .. budget.perFile /\ \E k \in 1 .. c - 1 : entries[k] = files[j]
      /\ \A n \in 1 .. L, j \in 1 .. M :
           entries[n].path = files[j].path =>
             entries[n] = files[j] \/ \E k \in 1 .. n - 1 : entries[k] = files[j]
  BY <1>1 DEF ComeBefore
<1>6. 0 \in Q
  <2>1. f[0].files = << >> /\ f[0].total = diff.size
    BY DEF GatherRun
  <2>2. PathsOf(<< >>) = {}
    BY DEF PathsOf
  <2>3. Sum(0) = 0
    BY <2>1, <2>2, NothingHeld
  <2> QED
    BY <1>1, <2>1, <2>3
<1>7. ASSUME NEW n \in 1 .. c - 1, n - 1 \in Q PROVE n \in Q
  <2> DEFINE s == f[n - 1]
             u == f[n]
             e == entries[n]
  <2>1. n - 1 \in 0 .. c - 1 /\ n \in 0 .. c - 1 /\ n \in 1 .. L
    BY <1>1
  <2>2. /\ e \in Entry
        /\ \/ PassedOver(s, u, e)
           \/ OutOfRoom(budget, s, u)
           \/ \E held \in Entry : Holds(budget, s, u, e, held)
    BY <2>1, RunStep DEF L
  <2>3. /\ Gathered(budget, diff, entries, n - 1, s)
        /\ s.files \in Seq(Entry) /\ s.total \in Nat /\ ~s.full /\ Len(s.files) \in Nat
        /\ u.files \in Seq(Entry) /\ u.total \in Nat /\ Len(u.files) \in Nat
    BY <1>3, <2>1
  <2>4. NoRoom(budget, s) \/ s.total >= Sum(n - 1)
    BY <1>7
  <2>5. CASE u.files = s.files /\ u.total = s.total
    <3>1. NoRoom(budget, s) => NoRoom(budget, u)
      BY <2>5 DEF NoRoom
    <3>2. Sum(n) = Sum(n - 1)
      BY <2>5
    <3> HIDE DEF Sum
    <3> QED
      BY <2>1, <2>4, <2>5, <3>1, <3>2
  <2>6. ASSUME NEW held \in Entry, Holds(budget, s, u, e, held) PROVE n \in Q
    <3>1. /\ ~NoRoom(budget, s) /\ e.path \notin PathsOf(s.files)
          /\ held.path = e.path /\ held.size \in Nat
          /\ (e.size <= budget.perFile => held = e \/ s.total + held.size = budget.bytes)
          /\ u.files = Append(s.files, held) /\ u.total = s.total + held.size
      BY <2>6 DEF Holds, IsOf, Entry
    <3>2. s.total >= TotalSize(HeldIn(files, PathsOf(s.files)))
      BY <2>4, <3>1
    <3>3. PathsOf(u.files) = PathsOf(s.files) \union {e.path}
      BY <2>3, <3>1, OneMore
    <3>4. CASE e.path \notin PathsOf(files)
      <4>1. HeldIn(files, PathsOf(u.files)) = HeldIn(files, PathsOf(s.files))
        <5>1. \A i \in DOMAIN files : files[i].path # e.path
          BY <3>4 DEF PathsOf
        <5> QED
          BY <3>3, <5>1 DEF HeldIn
      <4>2. u.total >= s.total /\ s.total \in Nat /\ u.total \in Nat
        BY <2>3, <3>1
      <4>3. TotalSize(HeldIn(files, PathsOf(s.files))) \in Nat
        BY <1>4
      <4>4. u.total >= TotalSize(HeldIn(files, PathsOf(u.files)))
        BY <3>2, <4>1, <4>2, <4>3
      <4> QED
        BY <2>1, <4>4
    <3>5. CASE e.path \in PathsOf(files)
      <4>1. PICK j \in 1 .. M : files[j].path = e.path
        BY <1>1, <3>5 DEF PathsOf
      <4>2. files[j].size \in 1 .. budget.perFile
        BY <1>5
      <4>3. e = files[j]
        <5>1. ASSUME NEW k \in 1 .. n - 1, entries[k] = files[j] PROVE FALSE
          <6>1. entries[k].size # 0 /\ entries[k].path = e.path
            BY <1>2, <4>1, <4>2, <5>1
          <6>2. entries[k].path \in PathsOf(s.files)
            BY <2>3, <6>1 DEF Gathered, FromEntries
          <6> QED
            BY <3>1, <6>1, <6>2
        <5>2. entries[n] = files[j] \/ \E k \in 1 .. n - 1 : entries[k] = files[j]
          BY <1>5, <2>1, <4>1
        <5> QED
          BY <5>1, <5>2
      <4>4. e.size \in Nat /\ e.size <= budget.perFile
        BY <1>2, <4>2, <4>3
      <4>5. CASE held = e
        <5> DEFINE P == PathsOf(s.files)
        <5>1. TotalSize(HeldIn(files, P \union {files[j].path}))
                <= TotalSize(HeldIn(files, P)) + files[j].size
          BY OneMoreHeld DEF M
        <5>2. PathsOf(u.files) = P \union {files[j].path}
          BY <3>3, <4>1
        <5> DEFINE a == TotalSize(HeldIn(files, P))
                   b == TotalSize(HeldIn(files, P \union {files[j].path}))
                   size == files[j].size
        <5>3. a \in Nat /\ b \in Nat /\ b <= a + size /\ s.total >= a
          BY <1>4, <3>2, <5>1
        <5>4. u.total = s.total + size /\ size \in Nat
          BY <3>1, <4>3, <4>5
        <5>5. Sum(n) = b
          BY <5>2
        <5> HIDE DEF a, b, size, P
        <5>6. u.total >= b
          BY <2>3, <5>3, <5>4
        <5> QED
          BY <2>1, <5>5, <5>6
      <4>6. CASE s.total + held.size = budget.bytes
        <5>1. NoRoom(budget, u)
          BY <1>2, <3>1, <4>6 DEF NoRoom
        <5> QED
          BY <2>1, <5>1
      <4> QED
        BY <3>1, <4>4, <4>5, <4>6
    <3> QED
      BY <3>4, <3>5
  <2> HIDE DEF s, u, e, Q
  <2> QED
    BY <2>2, <2>5, <2>6 DEF PassedOver, OutOfRoom
<1>8. c - 1 \in Q
  <2> HIDE DEF Q
  <2>1. 0 .. c - 1 \subseteq Q
    BY <1>1, <1>6, <1>7, UpTo
  <2>2. c - 1 \in 0 .. c - 1
    BY <1>1
  <2> QED
    BY <2>1, <2>2
<1> DEFINE t == f[c - 1]
<1>9. t.total >= Sum(c - 1)
  BY <1>8
<1>10. /\ Gathered(budget, diff, entries, c - 1, t) /\ ~t.full
      /\ t.files \in Seq(Entry) /\ t.total \in Nat /\ Len(t.files) \in Nat
  <2>1. c - 1 \in 0 .. c - 1
    BY <1>1
  <2> QED
    BY <1>3, <2>1
<1>11. PathsOf(files) \subseteq PathsOf(t.files)
  <2>1. ASSUME NEW j \in 1 .. M PROVE files[j].path \in PathsOf(t.files)
    <3>1. PICK k \in 1 .. c - 1 : entries[k] = files[j]
      BY <1>5
    <3>2. files[j].size # 0
      BY <1>2, <1>5
    <3> QED
      BY <1>10, <3>1, <3>2 DEF Gathered, FromEntries
  <2> QED
    BY <1>1, <2>1 DEF PathsOf
<1>12. Sum(c - 1) = TotalSize(files)
  BY <1>11, HeldInFacts
<1>13. Len(files) <= Len(t.files)
  BY <1>10, <1>11, CountPaths
<1>14. Len(t.files) < budget.files /\ t.total < budget.bytes
  BY <1>2, <1>10 DEF NoRoom
<1>15. TotalSize(files) \in Nat /\ Len(files) \in Nat
  BY TotalIsNatural
<1> HIDE DEF t, Sum
<1> QED
  BY <1>2, <1>9, <1>10, <1>12, <1>13, <1>14, <1>15

\* The paths of an expansion come before the files of its symbols.
LEMMA PathsComeFirst ==
  ASSUME NEW paths \in SUBSET Paths, NEW symbols \in SUBSET Symbols, NEW p \in paths
  PROVE  LET c == Candidates(paths, symbols)
         IN \E k \in 1 .. Len(c) : c[k] = p /\ \A j \in 1 .. k : c[j] \in paths
<1> DEFINE found == (UNION {Matches[s] : s \in symbols}) \ paths
           same == [x \in Paths |-> 0]
           r == InOrder(paths, same)
           q == InOrder(found, same)
           c == Candidates(paths, symbols)
<1>1. c = r \o q
  BY DEF Candidates
<1>2. found \in SUBSET Paths
  BY EvidenceAssumption
<1> HIDE DEF found, same
<1>3. r \in Seq(paths) /\ ToSet(r) = paths /\ q \in Seq(found)
  BY <1>2, InOrderFacts
<1> HIDE DEF r, q, c
<1>4. /\ DOMAIN r = 1 .. Len(r) /\ Len(r) \in Nat /\ Len(q) \in Nat
      /\ \A i \in 1 .. Len(r) : r[i] \in paths
  BY <1>3
<1>5. Len(c) = Len(r) + Len(q) /\ \A i \in 1 .. Len(r) : c[i] = r[i]
  BY <1>1, <1>3
<1>6. PICK k \in 1 .. Len(r) : r[k] = p
  BY <1>3, <1>4 DEF ToSet
<1>7. k \in 1 .. Len(c) /\ c[k] = p /\ \A j \in 1 .. k : c[j] \in paths
  BY <1>4, <1>5, <1>6
<1> QED
  BY <1>7 DEF c

\* An expansion holds only paths that it is asked for while one of them is left out.
LEMMA ExpansionLeavesOut ==
  ASSUME NEW paths \in SUBSET Paths, NEW symbols \in SUBSET Symbols, NEW ver \in [Paths -> Nat],
         NEW budget, IsBudget(budget)
  PROVE  LET x == Expansion(paths, symbols, ver, budget)
         IN /\ \A i \in DOMAIN x.files : x.files[i].targeted
            /\ \A p \in paths :
                 Size[p] > 0 /\ p \notin PathsOf(x.files) =>
                   NoRoom(budget, x) /\ PathsOf(x.files) \subseteq paths
<1> DEFINE c == Candidates(paths, symbols)
           entries == ReadAll(c, ver, TRUE)
           x == Expansion(paths, symbols, ver, budget)
<1>1. c \in Seq(Paths) /\ TRUE \in BOOLEAN /\ FALSE \in BOOLEAN
  BY CandidatesFacts
<1> HIDE DEF c
<1>2. /\ entries \in Seq(Entry) /\ Len(entries) = Len(c) /\ Len(c) \in Nat
      /\ \A i \in 1 .. Len(c) : c[i] \in Paths /\ entries[i] = Read(c[i], ver, TRUE)
  <2>1. Len(c) \in Nat /\ \A i \in 1 .. Len(c) : c[i] \in Paths
    BY <1>1
  <2>2. /\ entries \in Seq(Entry) /\ Len(entries) = Len(c)
        /\ \A i \in 1 .. Len(c) : entries[i] = Read(c[i], ver, TRUE)
    BY <1>1, ReadAllFacts
  <2> HIDE DEF entries
  <2> QED
    BY <2>1, <2>2
<1>3. x = Gather(entries, budget, NoDiff, FALSE)
  BY DEF Expansion, c
<1> HIDE DEF entries, x
<1>4. ASSUME NEW i \in 1 .. Len(c)
      PROVE  /\ entries[i].path = c[i] /\ entries[i].size = Size[c[i]]
             /\ entries[i].targeted = TRUE
  <2>1. entries[i] = Read(c[i], ver, TRUE)
    BY <1>2
  <2> QED
    BY <2>1 DEF Read
<1>5. PICK f : GatherRun(f, entries, budget, NoDiff, FALSE)
  BY <1>1, <1>2, GatherFacts, NoDiffFacts
<1>6. x = f[Len(entries)]
  BY <1>3, <1>5 DEF GatherRun
<1>7. Gathered(budget, NoDiff, entries, Len(entries), x)
  BY <1>1, <1>2, <1>3, GatherIsSound, NoDiffFacts
<1>8. ASSUME NEW i \in DOMAIN x.files PROVE x.files[i].targeted
  <2>1. PICK k \in 1 .. Len(entries) : IsOf(x.files[i], entries[k])
    BY <1>7 DEF Gathered, FromEntries
  <2> QED
    BY <1>2, <1>4, <2>1 DEF IsOf
<1>9. ASSUME NEW p \in paths, Size[p] > 0, p \notin PathsOf(x.files)
      PROVE  NoRoom(budget, x) /\ PathsOf(x.files) \subseteq paths
  <2>1. PICK k \in 1 .. Len(c) : c[k] = p /\ \A j \in 1 .. k : c[j] \in paths
    BY PathsComeFirst DEF c
  <2>2. k \in 1 .. Len(entries) /\ entries[k].path = p /\ entries[k].size # 0
    <3>1. Size[p] \in Nat
      BY EvidenceAssumption
    <3>2. k \in 1 .. Len(entries)
      BY <1>2, <2>1
    <3>3. entries[k].path = p /\ entries[k].size = Size[p]
      BY <1>4, <2>1
    <3> QED
      BY <1>9, <3>1, <3>2, <3>3
  <2>3. /\ NoRoom(budget, x)
        /\ \A i \in DOMAIN x.files : \E j \in 1 .. k - 1 : IsOf(x.files[i], entries[j])
    BY <1>1, <1>2, <1>5, <1>6, <1>9, <2>2, LeftOut
  <2>4. ASSUME NEW i \in DOMAIN x.files PROVE x.files[i].path \in paths
    <3>1. PICK j \in 1 .. k - 1 : IsOf(x.files[i], entries[j])
      BY <2>3
    <3>2. j \in 1 .. k /\ j \in 1 .. Len(c)
      BY <1>2, <2>1
    <3> QED
      BY <1>4, <2>1, <3>1, <3>2 DEF IsOf
  <2> QED
    BY <2>3, <2>4 DEF PathsOf
<1> QED
  BY <1>8, <1>9 DEF x

\* The score of an entry is what is named of it and what its words hit.
Scored(e, relevant) ==
  LET score == TaskScore(e, relevant)
      hits == TaskHits[e.path]
  IN /\ score \in Int /\ hits \in 0 .. 80
     /\ e.path \in relevant => score >= 100
     /\ e.path \in relevant /\ e.targeted => score = 180 + hits
     /\ e.path \in relevant /\ ~e.targeted => score = 100 + hits
     /\ e.path \notin relevant /\ ~e.targeted => score = hits

LEMMA ScoreFacts ==
  ASSUME NEW e \in Entry, NEW relevant
  PROVE  Scored(e, relevant)
<1> DEFINE score == TaskScore(e, relevant)
           hits == TaskHits[e.path]
           named == IF e.path \in relevant THEN 100 ELSE 0
           read == IF e.targeted THEN 80 ELSE 0
<1>1. e.path \in Paths /\ e.targeted \in BOOLEAN
  BY DEF Entry
<1>2. hits \in 0 .. 80
  BY <1>1, EvidenceAssumption
<1>3. score = named + read + hits
  BY DEF TaskScore
<1>4. /\ e.path \in relevant => named = 100
      /\ e.path \notin relevant => named = 0
  OBVIOUS
<1>5. /\ e.targeted => read = 80
      /\ ~e.targeted => read = 0
  OBVIOUS
<1> HIDE DEF named, read, score, hits
<1>6. e.targeted \/ ~e.targeted
  OBVIOUS
<1>7. named \in {0, 100} /\ read \in {0, 80}
  BY <1>4, <1>5, <1>6
<1>8. /\ score \in Int
      /\ named = 100 => score >= 100
      /\ named = 100 /\ read = 80 => score = 180 + hits
      /\ named = 100 /\ read = 0 => score = 100 + hits
      /\ named = 0 /\ read = 0 => score = hits
  BY <1>2, <1>3, <1>7
<1> QED
  BY <1>2, <1>4, <1>5, <1>8, Zenon DEF Scored, score, hits

LEMMA ByRelevanceFacts ==
  ASSUME NEW files \in Seq(Entry), NEW relevant
  PROVE  LET s == ByRelevance(files, relevant)
         IN /\ s \in Seq(Entry) /\ ToSet(s) = ToSet(files)
            /\ \A i, j \in DOMAIN s :
                 i < j => TaskScore(s[i], relevant) >= TaskScore(s[j], relevant)
<1> DEFINE S == ToSet(files)
           score == [e \in S |-> TaskScore(e, relevant)]
           after == [e \in S |->
                       {f \in S : \/ TaskScore(e, relevant) > TaskScore(f, relevant)
                                  \/ /\ TaskScore(e, relevant) = TaskScore(f, relevant)
                                     /\ Order[e.path] < Order[f.path]}]
           s == Sorted(files, after)
<1>1. ByRelevance(files, relevant) = s
  BY DEF ByRelevance
<1>2. files \in Seq(S) /\ S \subseteq Entry
  <2>1. /\ DOMAIN files = 1 .. Len(files) /\ Len(files) \in Nat
        /\ \A i \in 1 .. Len(files) : files[i] \in Entry
    OBVIOUS
  <2>2. \A i \in 1 .. Len(files) : files[i] \in S
    BY <2>1 DEF ToSet
  <2>3. files \in [1 .. Len(files) -> S]
    BY <2>1, <2>2
  <2>4. S \subseteq Entry
    BY <2>1 DEF ToSet
  <2> HIDE DEF S
  <2> QED
    BY <2>1, <2>3, <2>4
<1> HIDE DEF S
<1>3. \A e \in S : TaskScore(e, relevant) \in Int
  BY <1>2, ScoreFacts DEF Scored
<1>4. score \in [S -> Int]
  BY <1>3
<1>5. Lowers(S, after, score)
  <2> SUFFICES ASSUME NEW e \in S, NEW f \in S
               PROVE  /\ f \in after[e] => score[e] >= score[f]
                      /\ f \notin after[e] => score[f] >= score[e]
    BY DEF Lowers
  <2> DEFINE n == TaskScore(e, relevant)
             m == TaskScore(f, relevant)
  <2>1. /\ n \in Int /\ m \in Int /\ score[e] = n /\ score[f] = m
        /\ f \in after[e] <=> (n > m \/ (n = m /\ Order[e.path] < Order[f.path]))
    BY <1>3
  <2> HIDE DEF n, m, score, after
  <2> QED
    BY <2>1
<1>6. s \in Seq(S) /\ ToSet(s) = ToSet(files)
  <2> HIDE DEF after
  <2> QED
    BY <1>2, SortedFacts
<1>7. Falling(s, score)
  <2> HIDE DEF after, score
  <2> QED
    BY <1>2, <1>4, <1>5, SortedFalls
<1> HIDE DEF s
<1>8. s \in Seq(Entry) /\ DOMAIN s = 1 .. Len(s) /\ \A i \in 1 .. Len(s) : s[i] \in S
  BY <1>2, <1>6
<1>9. ASSUME NEW i \in DOMAIN s, NEW j \in DOMAIN s, i < j
      PROVE  TaskScore(s[i], relevant) >= TaskScore(s[j], relevant)
  <2>1. score[s[i]] >= score[s[j]]
    BY <1>7, <1>9 DEF Falling
  <2> QED
    BY <1>8, <2>1
<1> QED
  BY <1>1, <1>6, <1>8, <1>9

\* The words of a task score less than a path it names.
LEMMA AboveEighty ==
  ASSUME NEW x \in Int, x >= 100, NEW y \in 0 .. 80
  PROVE  x # y
OBVIOUS

\* A selection keeps nothing that nothing names while an entry that is named is left out.
LEMMA SelectionNames ==
  ASSUME NEW files \in Contexts, NEW diff, diff.size \in Nat, diff.cut \in BOOLEAN,
         NEW relevant, NEW budget, IsBudget(budget), NEW p \in relevant, p \in PathsOf(files),
         p \notin PathsOf(SelectTask([files |-> files, diff |-> diff], relevant, budget).files)
  PROVE  LET t == SelectTask([files |-> files, diff |-> diff], relevant, budget)
         IN \A i \in DOMAIN t.files :
              \E e \in ToSet(files) :
                t.files[i].path = e.path /\ (e.path \in relevant \/ e.targeted)
<1> DEFINE s == ByRelevance(files, relevant)
           d == BoundedDiff(diff.size, diff.cut, budget)
           t == SelectTask([files |-> files, diff |-> diff], relevant, budget)
<1>1. t = Gather(s, budget, d, FALSE) /\ FALSE \in BOOLEAN
  BY DEF SelectTask
<1>2. d.size \in Nat /\ d.cut \in BOOLEAN
  BY BoundedDiffFacts
<1>3. files \in Seq(Entry) /\ \A i \in DOMAIN files : files[i].size >= 1
  BY DEF Contexts
<1>4. /\ s \in Seq(Entry) /\ ToSet(s) = ToSet(files)
      /\ \A i, j \in DOMAIN s :
           i < j => TaskScore(s[i], relevant) >= TaskScore(s[j], relevant)
  BY <1>3, ByRelevanceFacts
<1>5. p \notin PathsOf(t.files)
  OBVIOUS
<1> HIDE DEF s, d, t
<1>6. DOMAIN s = 1 .. Len(s) /\ Len(s) \in Nat /\ \A k \in 1 .. Len(s) : s[k] \in Entry
  BY <1>4
<1>7. PICK f : GatherRun(f, s, budget, d, FALSE)
  BY <1>1, <1>2, <1>4, GatherFacts
<1>8. t = f[Len(s)]
  BY <1>1, <1>7 DEF GatherRun
<1>9. PICK k \in 1 .. Len(s) : s[k].path = p /\ s[k].size # 0
  <2>1. PICK n \in DOMAIN files : files[n].path = p
    BY DEF PathsOf
  <2>2. files[n] \in ToSet(s)
    BY <1>4 DEF ToSet
  <2>3. PICK k \in 1 .. Len(s) : s[k] = files[n]
    BY <1>6, <2>2 DEF ToSet
  <2>4. s[k].size >= 1 /\ s[k].size \in Nat
    BY <1>3, <1>6, <2>3 DEF Entry
  <2>5. s[k].size # 0
    BY <2>4
  <2> QED
    BY <2>1, <2>3, <2>5
<1>10. \A i \in DOMAIN t.files : \E j \in 1 .. k - 1 : IsOf(t.files[i], s[j])
  BY <1>1, <1>4, <1>5, <1>7, <1>8, <1>9, LeftOut
<1>11. ASSUME NEW i \in DOMAIN t.files
       PROVE  \E e \in ToSet(files) :
                t.files[i].path = e.path /\ (e.path \in relevant \/ e.targeted)
  <2>1. PICK j \in 1 .. k - 1 : IsOf(t.files[i], s[j])
    BY <1>10
  <2>2. j \in 1 .. Len(s) /\ j < k
    BY <1>6, <1>9
  <2>3. TaskScore(s[j], relevant) >= TaskScore(s[k], relevant)
    BY <1>4, <1>6, <1>9, <2>2
  <2>4. s[j] \in Entry /\ s[k] \in Entry /\ s[k].path \in relevant
    BY <1>6, <1>9, <2>2
  <2>5. TaskScore(s[j], relevant) >= 100
    <3>1. /\ TaskScore(s[k], relevant) \in Int /\ TaskScore(s[k], relevant) >= 100
          /\ TaskScore(s[j], relevant) \in Int
      BY <2>4, ScoreFacts DEF Scored
    <3> QED
      BY <2>3, <3>1
  <2>6. s[j].path \in relevant \/ s[j].targeted
    <3> DEFINE e == s[j]
    <3>1. Scored(e, relevant) /\ TaskScore(e, relevant) >= 100
      BY <2>4, <2>5, ScoreFacts
    <3> HIDE DEF e
    <3>2. ASSUME e.path \notin relevant, ~e.targeted
          PROVE  TaskScore(e, relevant) = TaskHits[e.path] /\ TaskHits[e.path] \in 0 .. 80
      BY <3>1, <3>2 DEF Scored
    <3>3. e.path \in relevant \/ e.targeted
      <4>1. TaskScore(e, relevant) \in Int
        BY <3>1 DEF Scored
      <4>2. \A h \in 0 .. 80 : TaskScore(e, relevant) # h
        BY <3>1, <4>1, AboveEighty
      <4> QED
        BY <3>2, <4>2, Zenon
    <3> QED
      BY <3>3 DEF e
  <2>7. s[j] \in ToSet(files) /\ t.files[i].path = s[j].path
    BY <1>4, <1>6, <2>1, <2>2 DEF ToSet, IsOf
  <2> QED
    BY <2>6, <2>7
<1> QED
  BY <1>11 DEF t

\* When a selection keeps a file that the task does not name, what was read for the task
\* has left room in the budget.
LEMMA SelectionFilled ==
  ASSUME NEW files \in Seq(Entry), NEW more \in Seq(Entry),
         NEW diff, diff.size \in Nat, diff.cut \in BOOLEAN,
         NEW relevant, NEW budget, IsBudget(budget), Distinct(files),
         \A j \in DOMAIN files :
           files[j].size \in 1 .. budget.perFile /\ files[j].path \in relevant /\ files[j].targeted,
         \A j \in DOMAIN more : ~more[j].targeted,
         NEW i \in
           DOMAIN SelectTask([files |-> files \o more, diff |-> diff], relevant, budget).files,
         SelectTask([files |-> files \o more, diff |-> diff], relevant, budget).files[i].path
           \notin relevant
  PROVE  Len(files) < budget.files /\ TotalSize(files) < budget.bytes
<1> DEFINE all == files \o more
           s == ByRelevance(all, relevant)
           d == BoundedDiff(diff.size, diff.cut, budget)
           t == SelectTask([files |-> all, diff |-> diff], relevant, budget)
           score(e) == TaskScore(e, relevant)
<1>1. t = Gather(s, budget, d, FALSE) /\ FALSE \in BOOLEAN
  BY DEF SelectTask
<1>2. d.size \in Nat /\ d.cut \in BOOLEAN
  BY BoundedDiffFacts
<1>3. all \in Seq(Entry) /\ ToSet(all) = ToSet(files) \union ToSet(more)
  BY ConcatSet
<1>4. i \in DOMAIN t.files /\ t.files[i].path \notin relevant
  OBVIOUS
<1> HIDE DEF all
<1>5. /\ s \in Seq(Entry) /\ ToSet(s) = ToSet(all)
      /\ \A n, m \in DOMAIN s : n < m => score(s[n]) >= score(s[m])
  BY <1>3, ByRelevanceFacts
<1> HIDE DEF s, d, t
<1>6. DOMAIN s = 1 .. Len(s) /\ Len(s) \in Nat /\ \A n \in 1 .. Len(s) : s[n] \in Entry
  BY <1>5
<1>7. PICK f : GatherRun(f, s, budget, d, FALSE)
  BY <1>1, <1>2, <1>5, GatherFacts
<1>8. t = f[Len(s)]
  BY <1>1, <1>7 DEF GatherRun
<1>9. PICK c \in 1 .. Len(s) : Holds(budget, f[c - 1], f[c], s[c], t.files[i])
  BY <1>1, <1>4, <1>5, <1>7, <1>8, HeldAt
<1>10. ~f[c - 1].full /\ ~NoRoom(budget, f[c - 1]) /\ s[c].path \notin relevant
  BY <1>4, <1>9 DEF Holds, IsOf
<1>11. ASSUME NEW n \in 1 .. Len(s)
       PROVE  s[n].targeted => \E j \in DOMAIN files : s[n] = files[j]
  <2>1. s[n] \in ToSet(files) \union ToSet(more)
    BY <1>3, <1>5, <1>6 DEF ToSet
  <2> QED
    BY <2>1 DEF ToSet
<1>12. ASSUME NEW n \in 1 .. Len(s), NEW k \in 1 .. Len(s), score(s[k]) > score(s[n])
       PROVE  k \in 1 .. n - 1
  <2>1. score(s[k]) \in Int /\ score(s[n]) \in Int
    BY <1>6, ScoreFacts DEF Scored
  <2>2. n < k => score(s[n]) >= score(s[k])
    BY <1>5, <1>6
  <2> HIDE DEF score
  <2>3. n # k
    BY <1>12, <2>1
  <2>4. ~(n < k)
    BY <1>12, <2>1, <2>2
  <2> QED
    BY <1>6, <2>3, <2>4
<1>13. ASSUME NEW j \in DOMAIN files
       PROVE  \E k \in 1 .. Len(s) :
                s[k] = files[j] /\ score(s[k]) = 180 + TaskHits[files[j].path]
                /\ TaskHits[files[j].path] \in 0 .. 80
  <2>1. files[j] \in ToSet(s)
    BY <1>3, <1>5 DEF ToSet
  <2>2. PICK k \in 1 .. Len(s) : s[k] = files[j]
    BY <1>6, <2>1 DEF ToSet
  <2>3. s[k] \in Entry /\ s[k].path \in relevant /\ s[k].targeted
    BY <1>6, <2>2
  <2>4. score(s[k]) = 180 + TaskHits[s[k].path] /\ TaskHits[s[k].path] \in 0 .. 80
    BY <2>3, ScoreFacts DEF Scored
  <2> QED
    BY <2>2, <2>4
<1>14. ASSUME NEW j \in DOMAIN files PROVE \E k \in 1 .. c - 1 : s[k] = files[j]
  <2>1. PICK k \in 1 .. Len(s) :
          s[k] = files[j] /\ score(s[k]) = 180 + TaskHits[files[j].path]
          /\ TaskHits[files[j].path] \in 0 .. 80
    BY <1>13
  <2>2. ~s[c].targeted
    <3> SUFFICES ASSUME s[c].targeted PROVE FALSE
      OBVIOUS
    <3>1. PICK m \in DOMAIN files : s[c] = files[m]
      BY <1>11
    <3> QED
      BY <1>10, <3>1
  <2>3. score(s[c]) = TaskHits[s[c].path] /\ TaskHits[s[c].path] \in 0 .. 80
    <3> DEFINE e == s[c]
    <3>1. Scored(e, relevant) /\ e.path \notin relevant /\ ~e.targeted
      BY <1>6, <1>10, <2>2, ScoreFacts
    <3> HIDE DEF e
    <3>2. TaskScore(e, relevant) = TaskHits[e.path] /\ TaskHits[e.path] \in 0 .. 80
      BY <3>1 DEF Scored
    <3> QED
      BY <3>2 DEF e
  <2>4. score(s[k]) > score(s[c])
    <3> DEFINE m == score(s[k])
               n == score(s[c])
               hits == TaskHits[files[j].path]
               less == TaskHits[s[c].path]
    <3>1. m = 180 + hits /\ hits \in 0 .. 80 /\ n = less /\ less \in 0 .. 80
      BY <2>1, <2>3
    <3> HIDE DEF m, n, hits, less
    <3>2. m > n
      BY <3>1
    <3> QED
      BY <3>2 DEF m, n
  <2> HIDE DEF score
  <2> QED
    BY <1>12, <2>1, <2>4
<1>15. ASSUME NEW n \in 1 .. Len(s), NEW j \in DOMAIN files, s[n].path = files[j].path
       PROVE  s[n] = files[j] \/ \E k \in 1 .. n - 1 : s[k] = files[j]
  <2>1. CASE s[n].targeted
    <3>1. PICK m \in DOMAIN files : s[n] = files[m]
      BY <1>11, <2>1
    <3>2. m = j
      BY <1>15, <3>1 DEF Distinct
    <3> QED
      BY <3>1, <3>2
  <2>2. CASE ~s[n].targeted
    <3>1. PICK k \in 1 .. Len(s) :
            s[k] = files[j] /\ score(s[k]) = 180 + TaskHits[files[j].path]
            /\ TaskHits[files[j].path] \in 0 .. 80
      BY <1>13
    <3>2. score(s[n]) = 100 + TaskHits[files[j].path]
      <4> DEFINE e == s[n]
      <4>1. Scored(e, relevant) /\ e.path \in relevant /\ ~e.targeted
        BY <1>6, <1>15, <2>2, ScoreFacts
      <4> HIDE DEF e
      <4>2. TaskScore(e, relevant) = 100 + TaskHits[e.path]
        BY <4>1 DEF Scored
      <4> QED
        BY <1>15, <4>2 DEF e
    <3>3. score(s[k]) > score(s[n])
      <4> DEFINE first == score(s[k])
                 less == score(s[n])
                 hits == TaskHits[files[j].path]
      <4>1. first = 180 + hits /\ hits \in 0 .. 80 /\ less = 100 + hits
        BY <3>1, <3>2
      <4> HIDE DEF first, less, hits
      <4>2. first > less
        BY <4>1
      <4> QED
        BY <4>2 DEF first, less
    <3> HIDE DEF score
    <3> QED
      BY <1>12, <3>1, <3>3
  <2> QED
    BY <2>1, <2>2
<1> HIDE DEF score
<1>16. \A n \in DOMAIN s, j \in DOMAIN files :
         s[n].path = files[j].path =>
           s[n] = files[j] \/ \E k \in 1 .. n - 1 : s[k] = files[j]
  BY <1>6, <1>15
<1>17. ComeBefore(files, s, c, budget)
  BY <1>14, <1>16 DEF ComeBefore
<1> QED
  BY <1>1, <1>2, <1>5, <1>7, <1>9, <1>10, <1>17, FilledFirst

LEMMA PathsOfSet ==
  ASSUME NEW files \in Seq(Entry), NEW p
  PROVE  p \in PathsOf(files) <=> \E e \in ToSet(files) : e.path = p
BY DEF PathsOf, ToSet

LEMMA SelectionPaths ==
  ASSUME NEW files \in Seq(Entry), NEW diff, diff.size \in Nat, diff.cut \in BOOLEAN,
         NEW relevant, NEW budget, IsBudget(budget)
  PROVE  PathsOf(SelectTask([files |-> files, diff |-> diff], relevant, budget).files)
           \subseteq PathsOf(files)
<1> DEFINE s == ByRelevance(files, relevant)
           d == BoundedDiff(diff.size, diff.cut, budget)
           t == SelectTask([files |-> files, diff |-> diff], relevant, budget)
<1>1. t = Gather(s, budget, d, FALSE) /\ FALSE \in BOOLEAN
  BY DEF SelectTask
<1>2. d.size \in Nat /\ d.cut \in BOOLEAN
  BY BoundedDiffFacts
<1>3. s \in Seq(Entry) /\ ToSet(s) = ToSet(files)
  BY ByRelevanceFacts
<1> HIDE DEF s, d, t
<1>4. Gathered(budget, d, s, Len(s), t)
  BY <1>1, <1>2, <1>3, GatherIsSound
<1>5. ASSUME NEW i \in DOMAIN t.files PROVE t.files[i].path \in PathsOf(files)
  <2>1. PICK k \in 1 .. Len(s) : IsOf(t.files[i], s[k])
    BY <1>4 DEF Gathered, FromEntries
  <2>2. s[k] \in ToSet(files) /\ s[k].path = t.files[i].path
    <3>1. DOMAIN s = 1 .. Len(s)
      BY <1>3
    <3>2. s[k] \in ToSet(s)
      BY <3>1 DEF ToSet
    <3> QED
      BY <1>3, <2>1, <3>2 DEF IsOf
  <2> QED
    BY <2>2, PathsOfSet
<1>6. PathsOf(t.files) \subseteq PathsOf(files)
  BY <1>5 DEF PathsOf
<1> QED
  BY <1>6 DEF t

\* A context that is to be widened lacks only what the task names, and what it has of that
\* the planner's context has; nothing asked for the files of the planner.
ContextIsChosen ==
  /\ \A i \in DOMAIN planner.files : ~planner.files[i].targeted
  /\ stage = "widening" =>
       /\ missing.paths \subseteq target.paths /\ missing.symbols \subseteq target.symbols
       /\ target.paths \ missing.paths \subseteq PathsOf(planner.files)

\* A context that is widened.
LEMMA WidenedNames ==
  ASSUME EvidenceTypes, ContextIsChosen, stage = "widening"
  PROVE  LET read == ExpandTargeted(missing.paths, missing.symbols, version, ExpansionBudget)
             t == Selected(read.files \o planner.files, planner.diff)
         IN \/ {p \in target.paths : Size[p] > 0} \subseteq PathsOf(t.files)
            \/ PathsOf(t.files)
                 \subseteq target.paths \union UNION {Matches[s] : s \in target.symbols}
<1> DEFINE read == ExpandTargeted(missing.paths, missing.symbols, version, ExpansionBudget)
           x == Expansion(missing.paths, missing.symbols, version, ExpansionBudget)
           all == x.files \o planner.files
           t == SelectTask([files |-> all, diff |-> planner.diff], target.paths, TaskBudget)
           named == target.paths \union UNION {Matches[s] : s \in target.symbols}
<1>1. /\ version \in [Paths -> Nat]
      /\ planner.files \in Contexts /\ planner.diff.size \in Nat /\ planner.diff.cut \in BOOLEAN
      /\ missing.paths \in SUBSET Paths /\ missing.symbols \in SUBSET Symbols
  BY DEF EvidenceTypes, Targeting
<1>2. /\ read.files = x.files
      /\ x \in Taken
      /\ \E entries, m : Gathered(ExpansionBudget, NoDiff, entries, m, x)
      /\ \A i \in DOMAIN x.files : x.files[i].path \in Asked(missing.paths, missing.symbols)
  BY <1>1, Budgets, ExpansionFacts
<1>3. /\ \A i \in DOMAIN x.files : x.files[i].targeted
      /\ \A p \in missing.paths :
           Size[p] > 0 /\ p \notin PathsOf(x.files) =>
             NoRoom(ExpansionBudget, x) /\ PathsOf(x.files) \subseteq missing.paths
  BY <1>1, Budgets, ExpansionLeavesOut
<1>4. Selected(read.files \o planner.files, planner.diff) = t
  BY <1>2 DEF Selected
<1>5. x.files \in Contexts
  BY <1>1, <1>2, Budgets, ReadIsContext
<1> HIDE DEF x, read
<1>6. /\ x.files \in Seq(Entry) /\ planner.files \in Seq(Entry)
      /\ x.total \in Nat /\ Len(x.files) \in Nat
  BY <1>1, <1>2, <1>5 DEF Contexts, Taken
<1>7. /\ all \in Contexts /\ all \in Seq(Entry)
      /\ ToSet(all) = ToSet(x.files) \union ToSet(planner.files)
  <2>1. all \in Contexts
    BY <1>1, <1>5, ConcatContexts
  <2>2. ToSet(all) = ToSet(x.files) \union ToSet(planner.files)
    BY <1>6, ConcatSet
  <2> HIDE DEF all
  <2> QED
    BY <2>1, <2>2 DEF Contexts
<1>8. /\ \A i \in DOMAIN planner.files : ~planner.files[i].targeted
      /\ missing.paths \subseteq target.paths /\ missing.symbols \subseteq target.symbols
      /\ target.paths \ missing.paths \subseteq PathsOf(planner.files)
  BY DEF ContextIsChosen
<1>9. Asked(missing.paths, missing.symbols) \subseteq named /\ target.paths \subseteq named
  BY <1>8 DEF Asked
<1> HIDE DEF named
<1>10. ASSUME NEW p \in target.paths, Size[p] > 0, p \notin PathsOf(t.files),
              NEW i \in DOMAIN t.files, t.files[i].path \notin named
       PROVE  FALSE
  <2>1. CASE p \in PathsOf(all)
    <3> HIDE DEF all
    <3>1. PICK e \in ToSet(all) :
            t.files[i].path = e.path /\ (e.path \in target.paths \/ e.targeted)
      BY <1>1, <1>7, <1>10, <2>1, Budgets, SelectionNames
    <3>2. e.path \notin named /\ e.targeted
      BY <1>9, <1>10, <3>1
    <3>3. PICK m \in DOMAIN x.files : x.files[m] = e
      BY <1>7, <1>8, <3>2 DEF ToSet
    <3> QED
      BY <1>2, <1>9, <3>2, <3>3
  <2>2. CASE p \notin PathsOf(all)
    <3>1. p \notin PathsOf(x.files) /\ p \notin PathsOf(planner.files)
      <4> HIDE DEF all
      <4> QED
        BY <1>6, <1>7, <2>2, PathsOfSet
    <3>2. p \in missing.paths
      BY <1>8, <3>1
    <3>3. NoRoom(ExpansionBudget, x) /\ PathsOf(x.files) \subseteq target.paths
      BY <1>3, <1>8, <1>10, <3>1, <3>2
    <3>4. PICK entries, m : Gathered(ExpansionBudget, NoDiff, entries, m, x)
      BY <1>2
    <3>5. x.total = TotalSize(x.files)
      <4>1. TotalSize(x.files) \in Nat
        BY <1>6, TotalIsNatural
      <4> QED
        BY <3>4, <4>1, NoDiffFacts DEF Gathered, WithinBudget
    <3>6. Distinct(x.files)
      BY <3>4 DEF Gathered, SoundFiles, Distinct
    <3>7. /\ TaskBudget.perFile = ExpansionBudget.perFile
          /\ TaskBudget.files <= ExpansionBudget.files /\ TaskBudget.bytes <= ExpansionBudget.bytes
      BY EvidenceAssumption
    <3>8. \A j \in DOMAIN x.files :
            /\ x.files[j].size \in 1 .. TaskBudget.perFile /\ x.files[j].path \in target.paths
            /\ x.files[j].targeted
      BY <1>3, <3>3, <3>4, <3>7 DEF Gathered, SoundFiles, PathsOf
    <3>9. t.files[i].path \notin target.paths
      BY <1>9, <1>10
    <3>10. Len(x.files) < TaskBudget.files /\ TotalSize(x.files) < TaskBudget.bytes
      BY <1>1, <1>6, <1>8, <1>10, <3>6, <3>8, <3>9, Budgets, SelectionFilled
    <3>11. /\ TaskBudget.files \in Nat /\ TaskBudget.bytes \in Nat
           /\ ExpansionBudget.files \in Nat /\ ExpansionBudget.bytes \in Nat
      BY Budgets DEF IsBudget
    <3> HIDE DEF t, all
    <3> QED
      BY <1>6, <3>3, <3>5, <3>7, <3>10, <3>11 DEF NoRoom
  <2> QED
    BY <2>1, <2>2
<1> HIDE DEF t
<1>11. \/ {p \in target.paths : Size[p] > 0} \subseteq PathsOf(t.files)
       \/ PathsOf(t.files) \subseteq named
  BY <1>10 DEF PathsOf
<1> QED
  BY <1>4, <1>11 DEF read, named

ChoiceInv == ContextIsChosen /\ RelevantComesFirst

LEMMA ChoiceStart == EvidenceInit => ChoiceInv
<1> SUFFICES ASSUME EvidenceInit PROVE ChoiceInv
  OBVIOUS
<1>1. stage = "resolving"
  BY DEF EvidenceInit
<1>2. \A i \in DOMAIN planner.files : ~planner.files[i].targeted
  <2>1. CASE planner = NoPlanner
    BY <2>1, EmptyFacts
  <2>2. ASSUME NEW focus, NEW hits \in SUBSET Paths,
               planner = PlannerContext(focus, hits, Cardinality(hits))
        PROVE  \A i \in DOMAIN planner.files : ~planner.files[i].targeted
    BY <2>2, PlannerContextFacts
  <2> QED
    BY <2>1, <2>2 DEF EvidenceInit
<1> QED
  BY <1>1, <1>2 DEF ChoiceInv, ContextIsChosen, RelevantComesFirst

LEMMA ChoiceStep ==
  ASSUME EvidenceInv, ChoiceInv, [EvidenceNext]_evidenceVars
  PROVE  ChoiceInv'
<1> USE DEF ChoiceInv
<1> DEFINE Untargeted == \A i \in DOMAIN planner.files : ~planner.files[i].targeted
           named == target.paths \union UNION {Matches[s] : s \in target.symbols}
           Shows(files) == \/ {p \in target.paths : Size[p] > 0} \subseteq PathsOf(files)
                           \/ PathsOf(files) \subseteq named
<1>1. /\ planner.files \in Contexts /\ planner.files \in Seq(Entry)
      /\ planner.diff.size \in Nat /\ planner.diff.cut \in BOOLEAN
  BY DEF EvidenceInv, EvidenceTypes, Contexts
<1>2. Untargeted
  BY DEF ContextIsChosen
\* Steps after which there is neither a choice nor one to be made.
<1>3. ASSUME stage' \notin {"widening", "executing"}, planner' \in {planner, NoPlanner}
      PROVE  ChoiceInv'
  <2>1. Untargeted'
    BY <1>2, <1>3, EmptyFacts
  <2> QED
    BY <1>3, <2>1 DEF ContextIsChosen, RelevantComesFirst
\* Steps that leave what was chosen and what it is chosen from.
<1>4. ASSUME UNCHANGED <<stage, planner, target, missing, source, context>>
      PROVE  ChoiceInv'
  BY <1>4 DEF ContextIsChosen, RelevantComesFirst
\* Steps that choose the context.
<1>5. ASSUME stage' = "executing", UNCHANGED <<planner, target>>,
             source' = "build" \/ Shows(context'.files)
      PROVE  ChoiceInv'
  <2>1. Untargeted'
    BY <1>2, <1>5
  <2>2. RelevantComesFirst'
    BY <1>5 DEF RelevantComesFirst
  <2> QED
    BY <1>5, <2>1, <2>2 DEF ContextIsChosen
<1>6. CASE Resolve
  <2> DEFINE t == Selected(planner.files, planner.diff)
             paths == MissingPaths(t, target.paths)
  <2>1. UNCHANGED <<planner, target>>
    BY <1>6 DEF Resolve
  <2>2. CASE ~planner.kept
    <3>1. stage' = "building"
      BY <1>6, <2>2 DEF Resolve
    <3> QED
      BY <1>3, <2>1, <3>1
  <2>3. CASE planner.kept
    <3>1. PICK symbols \in SUBSET {s \in target.symbols : MayMiss(t, s)} :
            IF paths = {} /\ symbols = {}
            THEN /\ stage' = "executing"
                 /\ context' = [files |-> t.files, cut |-> t.cut, issues |-> {}]
            ELSE /\ stage' = "widening"
                 /\ missing' = [paths |-> paths, symbols |-> symbols]
      BY <1>6, <2>3 DEF Resolve
    <3>2. PathsOf(t.files) \subseteq PathsOf(planner.files)
      BY <1>1, Budgets, SelectionPaths DEF Selected
    <3>3. paths = target.paths \ PathsOf(t.files)
      BY DEF MissingPaths
    <3> HIDE DEF t, paths
    <3>4. CASE paths = {} /\ symbols = {}
      <4>1. stage' = "executing" /\ context'.files = t.files
        BY <3>1, <3>4
      <4>2. target.paths \subseteq PathsOf(t.files)
        BY <3>3, <3>4
      <4>3. Shows(context'.files)
        BY <4>1, <4>2
      <4> HIDE DEF Shows
      <4> QED
        BY <1>5, <2>1, <4>1, <4>3
    <3>5. CASE ~(paths = {} /\ symbols = {})
      <4>1. stage' = "widening" /\ missing' = [paths |-> paths, symbols |-> symbols]
        BY <3>1, <3>5
      <4>2. missing'.paths = paths /\ missing'.symbols = symbols
        BY <4>1
      <4>3. Untargeted'
        BY <1>2, <2>1
      <4>4. paths \subseteq target.paths /\ target.paths \ paths \subseteq PathsOf(planner.files)
        BY <3>2, <3>3
      <4>5. symbols \subseteq target.symbols
        OBVIOUS
      <4>6. ContextIsChosen'
        BY <2>1, <4>2, <4>3, <4>4, <4>5 DEF ContextIsChosen
      <4> QED
        BY <4>1, <4>6 DEF RelevantComesFirst
    <3> QED
      BY <3>4, <3>5
  <2> QED
    BY <2>2, <2>3
<1>7. CASE Widen
  <2> DEFINE read == ExpandTargeted(missing.paths, missing.symbols, version, ExpansionBudget)
             t == Selected(read.files \o planner.files, planner.diff)
  <2>1. /\ stage = "widening" /\ stage' = "executing" /\ UNCHANGED <<planner, target>>
        /\ context' = [files |-> t.files, cut |-> t.cut, issues |-> read.issues]
    BY <1>7 DEF Widen
  <2>2. Shows(t.files)
    BY <2>1, WidenedNames DEF EvidenceInv
  <2> HIDE DEF t, read
  <2>3. context'.files = t.files
    BY <2>1
  <2>4. Shows(context'.files)
    BY <2>2, <2>3
  <2> HIDE DEF Shows
  <2> QED
    BY <1>5, <2>1, <2>4
<1>8. CASE BuildContext
  <2>1. stage' = "executing" /\ source' = "build" /\ UNCHANGED <<planner, target>>
    BY <1>8 DEF BuildContext
  <2> QED
    BY <1>5, <2>1
<1>9. ASSUME NEW paths \in SUBSET Paths, Execute(paths) PROVE ChoiceInv'
  <2>1. stage' = "executed" /\ planner' = NoPlanner
    BY <1>9 DEF Execute
  <2> QED
    BY <1>3, <2>1
<1>10. ASSUME NEW shown \in SUBSET Paths, NEW found \in Validations, StartReview(shown, found)
       PROVE  ChoiceInv'
  <2>1. stage' = "asking" /\ planner' = planner
    BY <1>10 DEF StartReview
  <2> QED
    BY <1>3, <2>1
<1>11. ASSUME NEW outcome, Finish(outcome) PROVE ChoiceInv'
  <2>1. stage' = "ended" /\ planner' = NoPlanner
    BY <1>11 DEF Finish
  <2> QED
    BY <1>3, <2>1
<1>12. ASSUME Fails \/ Stopped PROVE ChoiceInv'
  BY <1>11, <1>12 DEF Fails, Stopped, Throw
<1>13. ASSUME NEW draft \in Drafts, Answer(draft) PROVE ChoiceInv'
  <2>1. (\E outcome : Finish(outcome)) \/ (stage' = "expanding" /\ planner' = planner)
    BY <1>13 DEF Answer, Throw
  <2> QED
    BY <1>3, <1>11, <2>1
<1>14. CASE ExpandContext
  <2>1. stage' = "asking" /\ planner' = planner
    BY <1>14 DEF ExpandContext
  <2> QED
    BY <1>3, <2>1
<1>15. CASE CancelTask \/ (\E path \in Paths : EditFile(path)) \/ UNCHANGED evidenceVars
  <2>1. UNCHANGED <<stage, planner, target, missing, source, context>>
    BY <1>15 DEF CancelTask, EditFile, evidenceVars
  <2> QED
    BY <1>4, <2>1
<1> HIDE DEF ChoiceInv
<1> QED
  BY <1>6, <1>7, <1>8, <1>9, <1>10, <1>12, <1>13, <1>14, <1>15 DEF EvidenceNext

\* An executor's context that is chosen or widened holds nothing that the task does not name
\* while a file that it names is left out, for every budget, file size and score of the words
\* (selectTaskContext).
THEOREM NamedFilesComeFirst == EvidenceSpec => []RelevantComesFirst
<1>1. EvidenceInit => ChoiceInv
  BY ChoiceStart
<1>2. EvidenceInv /\ ChoiceInv /\ [EvidenceNext]_evidenceVars => ChoiceInv'
  BY ChoiceStep
<1>3. ChoiceInv => RelevantComesFirst
  BY DEF ChoiceInv
<1> QED
  BY <1>1, <1>2, <1>3, EvidenceInvariance, PTL DEF EvidenceSpec
=============================================================================
