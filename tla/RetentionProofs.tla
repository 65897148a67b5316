-------------------------- MODULE RetentionProofs --------------------------
(*****************************************************************************)
(* What is proved of the system's bounded stores and of the client's history *)
(* for every bound and every order of calls.                                 *)
(*                                                                           *)
(* TaskExecutionStore: the states of a retained plan agree with its graph,   *)
(* at most one task keeps its full result, and a plan with a running task is *)
(* not evicted.  The argument is about one record at a time: each operation  *)
(* makes a sound record of a sound one, and a plan whose record is lost or   *)
(* created has a fresh one, which is sound.                                  *)
(*                                                                           *)
(* WorkflowRetention: what is in use is given up last, or not at all.        *)
(*                                                                           *)
(* ClientSession: one workflow is at work, and a record says what its        *)
(* workflow came to.  The argument is again about one record at a time       *)
(* (IsTrue): a projection writes the record of the current task, and it is   *)
(* the workflow of that task that a step changes.                            *)
(*                                                                           *)
(* A filter of a sequence is a recursive function on its positions; what it  *)
(* keeps is shown by the least position where it would not (UpTo).           *)
(*****************************************************************************)
EXTENDS TaskExecutionStore, WorkflowRetention, ClientSession, FiniteSetTheorems,
        SequenceTheorems, TLAPS

Kept == kept \in [Plans -> Records]

Inv == Kept /\ RecordsAreSound /\ EvidenceOfNewest

\* A record as it should be.
SoundRecord(r) == r \in Records /\ Sound(r.states) /\ r.full \subseteq {r.heavy}

----------------------------------------------------------------------------

\* The record that is created for a new plan.
LEMMA FreshIsSound == SoundRecord(Fresh)
<1>1. FreshRecord \in [Tasks -> TaskStatuses]
  BY DEF FreshRecord, TaskStatuses
<1>2. CompletedIn(FreshRecord) = {}
  BY DEF FreshRecord, CompletedIn
<1>3. Sound(FreshRecord)
  BY <1>2, GraphAssumption DEF Sound, FreshRecord
<1>4. QED
  BY <1>1, <1>3 DEF SoundRecord, Fresh, Records

\* begin starts a task all of whose dependencies are completed, so that the
\* tasks that wait for it are still justified.
LEMMA BegunIsSound ==
  ASSUME NEW r \in [Tasks -> TaskStatuses], NEW t \in Tasks, Sound(r), CanBegin(r, t)
  PROVE  Begun(r, t) \in [Tasks -> TaskStatuses] /\ Sound(Begun(r, t))
<1> DEFINE b == Begun(r, t)
<1>1. b \in [Tasks -> TaskStatuses] /\ b[t] = "running"
      /\ \A u \in Tasks \ {t} : b[u] = r[u]
  BY DEF Begun, TaskStatuses
<1>2. t \notin CompletedIn(r) /\ Deps[t] \subseteq CompletedIn(r)
  BY DEF CanBegin, IsReady
<1>3. CompletedIn(b) = CompletedIn(r)
  BY <1>1, <1>2 DEF CompletedIn
<1>4. ASSUME NEW u \in Tasks
      PROVE  /\ b[u] \in {"ready", "running", "completed", "failed"} => Deps[u] \subseteq CompletedIn(b)
             /\ b[u] = "pending" => ~ Deps[u] \subseteq CompletedIn(b)
  BY <1>1, <1>2, <1>3 DEF Sound
<1>5. ASSUME NEW u \in Tasks, b[u] = "blocked"
      PROVE  \E d \in Deps[u] : b[d] \in {"failed", "running"}
  <2>1. PICK d \in Deps[u] : r[d] \in {"failed", "running"}
    BY <1>1, <1>5 DEF Sound
  <2>2. d \in Tasks
    BY GraphAssumption
  <2>3. QED
    BY <1>1, <2>1, <2>2
<1>6. ASSUME NEW u \in Tasks, NEW d \in Deps[u], b[d] = "failed"
      PROVE  b[u] = "blocked"
  <2>1. d \in Tasks /\ d # t /\ r[d] = "failed"
    BY <1>1, <1>6, GraphAssumption
  <2>2. r[u] = "blocked"
    BY <2>1 DEF Sound
  <2>3. u # t
    BY <1>2, <2>1 DEF CompletedIn
  <2>4. QED
    BY <1>1, <2>2, <2>3
<1>7. QED
  BY <1>1, <1>4, <1>5, <1>6 DEF Sound

\* finish and fail: the refresh gives every task that was not started the one
\* state the new outcome justifies, whatever state it was in.
LEMMA EndedIsSound ==
  ASSUME NEW r \in [Tasks -> TaskStatuses], NEW t \in Tasks, Sound(r),
         r[t] \in {"running", "failed"}, NEW o \in {"completed", "failed"}
  PROVE  Ended(r, t, o) \in [Tasks -> TaskStatuses] /\ Sound(Ended(r, t, o))
<1> DEFINE m == [r EXCEPT ![t] = o]
           e == Ended(r, t, o)
           Started == {"running", "completed", "failed"}
<1>1. m \in [Tasks -> TaskStatuses] /\ m[t] = o /\ \A u \in Tasks \ {t} : m[u] = r[u]
  BY DEF TaskStatuses
<1>2. \A u \in Tasks : Recomputed(m, u) \in {"blocked", "ready", "pending"}
  BY DEF Recomputed
<1>3. ASSUME NEW u \in Tasks, m[u] \notin Started
      PROVE  e[u] = Recomputed(m, u)
  <2>1. m[u] \in {"pending", "ready", "blocked"}
    BY <1>1, <1>3 DEF TaskStatuses
  <2>2. CanTransition(m[u], Recomputed(m, u))
    BY <2>1, <1>2 DEF CanTransition, TaskTransitions, TaskStatuses
  <2>3. QED
    BY <1>3, <2>2 DEF Ended, Refreshed
<1>4. ASSUME NEW u \in Tasks, m[u] \in Started
      PROVE  e[u] = m[u]
  BY <1>4 DEF Ended, Refreshed
<1>5. e \in [Tasks -> TaskStatuses]
  <2>1. \A u \in Tasks : e[u] \in TaskStatuses
    BY <1>1, <1>2, <1>3, <1>4 DEF TaskStatuses
  <2>2. QED
    BY <2>1 DEF Ended, Refreshed
<1>6. CompletedIn(e) = CompletedIn(m) /\ CompletedIn(r) \subseteq CompletedIn(m)
  <2>1. \A u \in Tasks : e[u] = "completed" <=> m[u] = "completed"
    BY <1>2, <1>3, <1>4
  <2>2. QED
    BY <1>1, <2>1 DEF CompletedIn
<1>7. \A u \in Tasks : e[u] = "failed" <=> m[u] = "failed"
  BY <1>2, <1>3, <1>4
<1>8. ASSUME NEW u \in Tasks, m[u] \in Started
      PROVE  Deps[u] \subseteq CompletedIn(m)
  <2>1. r[u] \in Started
    BY <1>1, <1>8
  <2>2. QED
    BY <2>1, <1>6 DEF Sound
<1>9. ASSUME NEW u \in Tasks
      PROVE  /\ e[u] \in {"ready", "running", "completed", "failed"} => Deps[u] \subseteq CompletedIn(e)
             /\ e[u] = "pending" => ~ Deps[u] \subseteq CompletedIn(e)
  <2>1. CASE m[u] \in Started
    BY <2>1, <1>4, <1>6, <1>8
  <2>2. CASE m[u] \notin Started
    <3>1. u \notin CompletedIn(m)
      BY <2>2 DEF CompletedIn
    <3>2. QED
      BY <2>2, <3>1, <1>2, <1>3, <1>6 DEF Recomputed, IsReady
  <2>3. QED
    BY <2>1, <2>2
<1>10. ASSUME NEW u \in Tasks, e[u] = "blocked"
       PROVE  \E d \in Deps[u] : e[d] \in {"failed", "running"}
  <2>1. m[u] \notin Started
    BY <1>4, <1>10
  <2>2. \E d \in Deps[u] : m[d] = "failed"
    BY <2>1, <1>3, <1>10 DEF Recomputed
  <2>3. QED
    BY <2>2, <1>7, GraphAssumption
<1>11. ASSUME NEW u \in Tasks, NEW d \in Deps[u], e[d] = "failed"
       PROVE  e[u] = "blocked"
  <2>1. d \in Tasks /\ m[d] = "failed"
    BY <1>7, <1>11, GraphAssumption
  <2>2. m[u] \notin Started
    BY <2>1, <1>8 DEF CompletedIn
  <2>3. QED
    BY <2>1, <2>2, <1>3 DEF Recomputed
<1>12. QED
  BY <1>5, <1>9, <1>10, <1>11 DEF Sound

\* What finish, and fail where it does not throw, make of a record.
LEMMA ConcludedIsSound ==
  ASSUME NEW r, SoundRecord(r), NEW t \in Tasks,
         r.states[t] \in {"running", "failed"}, NEW o \in {"completed", "failed"},
         NEW res \in {{}, {t}}
  PROVE  SoundRecord(Concluded(r, t, o, res))
<1>1. r.states \in [Tasks -> TaskStatuses] /\ r.full \in SUBSET Tasks
      /\ r.heavy \in Tasks \union {NoTask} /\ Sound(r.states) /\ r.full \subseteq {r.heavy}
  BY DEF SoundRecord, Records
<1>2. Ended(r.states, t, o) \in [Tasks -> TaskStatuses] /\ Sound(Ended(r.states, t, o))
  BY <1>1, EndedIsSound
<1>3. Released(r, t) \union res \subseteq {t}
  BY <1>1 DEF Released
<1>4. QED
  BY <1>2, <1>3 DEF SoundRecord, Concluded, Records

\* fail changes nothing when the task is neither running nor failed.
LEMMA FailedIsSound ==
  ASSUME NEW r, SoundRecord(r), NEW t \in Tasks
  PROVE  SoundRecord(Failed(r, t))
<1>1. r.states[t] \in TaskStatuses
  BY DEF SoundRecord, Records
<1>2. CanTransition(r.states[t], "failed") => r.states[t] \in {"running", "failed"}
  BY <1>1 DEF CanTransition, TaskTransitions, TaskStatuses
<1>3. QED
  BY <1>2, ConcludedIsSound DEF Failed

\* Whatever is retained, a plan's record is one it had, the one written, or new.
LEMMA WriteIsSound ==
  ASSUME NEW p \in Plans, NEW r, Inv, SoundRecord(r), Write(p, r)
  PROVE  Inv'
<1>1. \A q \in Plans : SoundRecord(kept[q])
  BY DEF Inv, Kept, RecordsAreSound, EvidenceOfNewest, SoundRecord
<1>2. \A q \in Plans : kept'[q] \in {kept[q], r, Fresh}
  BY DEF Write, Retained, Inv, Kept
<1>3. \A q \in Plans : SoundRecord(kept'[q])
  BY <1>1, <1>2, FreshIsSound
<1>4. kept' \in [Plans -> Records]
  BY <1>3 DEF Write, Retained, SoundRecord
<1>5. QED
  BY <1>3, <1>4 DEF Inv, Kept, RecordsAreSound, EvidenceOfNewest, SoundRecord

----------------------------------------------------------------------------

\* No plan has a record yet.
LEMMA Initially == Init => Inv
BY FreshIsSound DEF Init, Inv, Kept, RecordsAreSound, EvidenceOfNewest, SoundRecord

\* Each operation of the store keeps the records sound.
LEMMA EachStep == Inv /\ [Next]_vars => Inv'
<1> SUFFICES ASSUME Inv, [Next]_vars PROVE Inv'
  OBVIOUS
<1>1. \A q \in Plans : SoundRecord(kept[q])
  BY DEF Inv, Kept, RecordsAreSound, EvidenceOfNewest, SoundRecord
<1>2. ASSUME NEW p \in Plans, Look(p) PROVE Inv'
  BY <1>1, <1>2, WriteIsSound DEF Look
<1>3. ASSUME NEW p \in Plans, NEW t \in Tasks, Begin(p, t) PROVE Inv'
  <2> DEFINE r == [kept[p] EXCEPT !.states = Begun(@, t), !.full = @ \ {t}]
  <2>1. kept[p] \in Records /\ Sound(kept[p].states) /\ kept[p].full \subseteq {kept[p].heavy}
    BY <1>1 DEF SoundRecord
  <2>2. Begun(kept[p].states, t) \in [Tasks -> TaskStatuses] /\ Sound(Begun(kept[p].states, t))
    BY <1>3, <2>1, BegunIsSound DEF Begin, Records
  <2>3. r \in Records /\ r.states = Begun(kept[p].states, t)
        /\ r.full = kept[p].full \ {t} /\ r.heavy = kept[p].heavy
    BY <2>1, <2>2 DEF Records
  <2>4. SoundRecord(r)
    BY <2>1, <2>2, <2>3 DEF SoundRecord
  <2>5. QED
    BY <1>3, <2>4, WriteIsSound DEF Begin
<1>4. ASSUME NEW p \in Plans, NEW t \in Tasks, Returns(p, t) PROVE Inv'
  <2>1. CASE kept[p].states[t] = "running"
    <3>1. PICK o \in {"completed", "failed"} : Write(p, Concluded(kept[p], t, o, {t}))
      BY <1>4, <2>1 DEF Returns
    <3>2. SoundRecord(Concluded(kept[p], t, o, {t}))
      BY <1>1, <2>1, ConcludedIsSound
    <3>3. QED
      BY <3>1, <3>2, WriteIsSound
  <2>2. CASE kept[p].states[t] # "running"
    BY <1>1, <1>4, <2>2, FailedIsSound, WriteIsSound DEF Returns
  <2>3. QED
    BY <2>1, <2>2
<1>5. ASSUME NEW p \in Plans, NEW t \in Tasks, Throws(p, t) PROVE Inv'
  BY <1>1, <1>5, FailedIsSound, WriteIsSound DEF Throws
<1>6. ASSUME NEW p \in Plans, Restore(p) PROVE Inv'
  <2>1. PICK states \in Saved(p) :
          LET record == [Fresh EXCEPT !.states = states]
          IN IF p \in ToSet(order)
             THEN kept' = [kept EXCEPT ![p] = record] /\ UNCHANGED order
             ELSE Write(p, record)
    BY <1>6 DEF Restore
  <2> DEFINE record == [Fresh EXCEPT !.states = states]
  <2>2. states \in [Tasks -> TaskStatuses] /\ Sound(states)
    BY <1>1 DEF Saved, SoundRecord, Records
  <2>3. SoundRecord(record)
    BY <2>2 DEF SoundRecord, Fresh, Records
  <2>4. CASE p \in ToSet(order)
    <3>1. kept' = [kept EXCEPT ![p] = record]
      BY <2>1, <2>4
    <3>2. kept \in [Plans -> Records]
      BY DEF Inv, Kept
    <3>3. \A q \in Plans : SoundRecord(kept'[q])
      BY <1>1, <2>3, <3>1, <3>2
    <3>4. kept' \in [Plans -> Records]
      BY <2>3, <3>1, <3>2 DEF SoundRecord
    <3>5. QED
      BY <3>3, <3>4 DEF Inv, Kept, RecordsAreSound, EvidenceOfNewest, SoundRecord
  <2>5. CASE p \notin ToSet(order)
    BY <2>1, <2>3, <2>5, WriteIsSound
  <2>6. QED
    BY <2>4, <2>5
<1>7. CASE UNCHANGED vars
  BY <1>7 DEF vars, Inv, Kept, RecordsAreSound, EvidenceOfNewest
<1>8. QED
  BY <1>2, <1>3, <1>4, <1>5, <1>6, <1>7 DEF Next

\* The states of every retained plan agree with its graph, and one task at most
\* keeps its full result, in any order of calls, outcomes and evictions.
THEOREM RecordsStaySound == Spec => [](RecordsAreSound /\ EvidenceOfNewest)
<1>1. Inv => RecordsAreSound /\ EvidenceOfNewest
  BY DEF Inv
<1>2. QED
  BY <1>1, Initially, EachStep, PTL DEF Spec

----------------------------------------------------------------------------

\* No operation takes a completed task of its plan back: begin does not take
\* one, and an outcome replaces only the state of a task that has not completed.
LEMMA KeepsCompleted ==
  ASSUME NEW r \in [Tasks -> TaskStatuses], NEW t \in Tasks, r[t] # "completed"
  PROVE  /\ CompletedIn(r) \subseteq CompletedIn(Begun(r, t))
         /\ \A o \in {"completed", "failed"} : CompletedIn(r) \subseteq CompletedIn(Ended(r, t, o))
BY DEF CompletedIn, Begun, Ended, Refreshed

\* The same for fail, whatever the state of the task.
LEMMA FailedKeepsCompleted ==
  ASSUME NEW r \in Records, NEW t \in Tasks
  PROVE  CompletedIn(r.states) \subseteq CompletedIn(Failed(r, t).states)
<1>1. r.states \in [Tasks -> TaskStatuses]
  BY DEF Records
<1>2. CanTransition(r.states[t], "failed") => r.states[t] # "completed"
  BY DEF CanTransition, TaskTransitions, TaskStatuses
<1>3. QED
  BY <1>1, <1>2, KeepsCompleted DEF Failed, Concluded

\* What is written to a plan that stays retained is what it then holds, and the
\* other plans that stay are left alone.
LEMMA WriteChangesOne ==
  ASSUME NEW p \in Plans, NEW r, Kept, Write(p, r),
         CompletedIn(kept[p].states) \subseteq CompletedIn(r.states)
  PROVE  \A q \in Plans : q \in ToSet(order') =>
           CompletedIn(kept[q].states) \subseteq CompletedIn(kept'[q].states)
BY DEF Write, Retained, Kept

\* A completed task stays completed for as long as its plan is retained: a late
\* outcome of another call, a failure, a new attempt and a restore keep it.
THEOREM CompletedIsFinal == Spec => CompletedStays
<1> DEFINE Stays == \A p \in Plans : p \in ToSet(order) /\ p \in ToSet(order') =>
                      CompletedIn(kept[p].states) \subseteq CompletedIn(kept'[p].states)
<1>1. ASSUME Inv, [Next]_vars
      PROVE  [Stays]_vars
  <2> SUFFICES ASSUME NEW q \in Plans, q \in ToSet(order), q \in ToSet(order'), Next
               PROVE  CompletedIn(kept[q].states) \subseteq CompletedIn(kept'[q].states)
    BY <1>1 DEF ToSet
  <2>1. Kept /\ \A p \in Plans : kept[p] \in Records /\ kept[p].states \in [Tasks -> TaskStatuses]
    BY <1>1 DEF Inv, Kept, Records
  <2>2. ASSUME NEW p \in Plans, Look(p)
        PROVE  CompletedIn(kept[q].states) \subseteq CompletedIn(kept'[q].states)
    BY <2>1, <2>2, WriteChangesOne DEF Look
  <2>3. ASSUME NEW p \in Plans, NEW t \in Tasks, Begin(p, t)
        PROVE  CompletedIn(kept[q].states) \subseteq CompletedIn(kept'[q].states)
    <3> DEFINE r == [kept[p] EXCEPT !.states = Begun(@, t), !.full = @ \ {t}]
    <3>1. r.states = Begun(kept[p].states, t)
      BY <2>1 DEF Records
    <3>2. kept[p].states[t] # "completed"
      BY <2>3 DEF Begin, CanBegin, IsReady, CompletedIn
    <3>3. CompletedIn(kept[p].states) \subseteq CompletedIn(r.states)
      BY <2>1, <3>1, <3>2, KeepsCompleted
    <3>4. Write(p, r)
      BY <2>3 DEF Begin
    <3>5. QED
      BY <2>1, <3>3, <3>4, WriteChangesOne
  <2>4. ASSUME NEW p \in Plans, NEW t \in Tasks, Returns(p, t)
        PROVE  CompletedIn(kept[q].states) \subseteq CompletedIn(kept'[q].states)
    <3>1. CASE kept[p].states[t] = "running"
      <4>1. PICK o \in {"completed", "failed"} : Write(p, Concluded(kept[p], t, o, {t}))
        BY <2>4, <3>1 DEF Returns
      <4>2. CompletedIn(kept[p].states) \subseteq CompletedIn(Concluded(kept[p], t, o, {t}).states)
        BY <2>1, <3>1, KeepsCompleted DEF Concluded
      <4>3. QED
        BY <2>1, <4>1, <4>2, WriteChangesOne
    <3>2. CASE kept[p].states[t] # "running"
      BY <2>1, <2>4, <3>2, FailedKeepsCompleted, WriteChangesOne DEF Returns
    <3>3. QED
      BY <3>1, <3>2
  <2>5. ASSUME NEW p \in Plans, NEW t \in Tasks, Throws(p, t)
        PROVE  CompletedIn(kept[q].states) \subseteq CompletedIn(kept'[q].states)
    BY <2>1, <2>5, FailedKeepsCompleted, WriteChangesOne DEF Throws
  <2>6. ASSUME NEW p \in Plans, Restore(p)
        PROVE  CompletedIn(kept[q].states) \subseteq CompletedIn(kept'[q].states)
    <3>1. PICK states \in Saved(p) :
            LET record == [Fresh EXCEPT !.states = states]
            IN IF p \in ToSet(order)
               THEN kept' = [kept EXCEPT ![p] = record] /\ UNCHANGED order
               ELSE Write(p, record)
      BY <2>6 DEF Restore
    <3> DEFINE record == [Fresh EXCEPT !.states = states]
    <3>2. CASE p \in ToSet(order)
      <4>1. kept' = [kept EXCEPT ![p] = record] /\ record.states = states
        BY <3>1, <3>2 DEF Fresh
      <4>2. states = kept[p].states
        BY <3>2 DEF Saved
      <4>3. QED
        BY <2>1, <4>1, <4>2 DEF Kept
    <3>3. CASE p \notin ToSet(order)
      <4>1. q # p
        BY <3>3
      <4>2. kept'[q] = kept[q]
        BY <2>1, <3>1, <3>3, <4>1 DEF Write, Retained, Kept
      <4>3. QED
        BY <4>2
    <3>4. QED
      BY <3>2, <3>3
  <2>7. QED
    BY <2>2, <2>3, <2>4, <2>5, <2>6 DEF Next
<1>2. QED
  BY <1>1, Initially, EachStep, PTL DEF Spec, CompletedStays

----------------------------------------------------------------------------
\* Numbers and sequences.

\* Of the numbers up to n with some property, one is the least.
LEMMA LeastNumber ==
  ASSUME NEW n \in Nat, NEW K \in SUBSET (0 .. n), K # {}
  PROVE  \E k \in K : \A j \in K : k <= j
<1> DEFINE F == {0 .. k : k \in K}
<1>1. IsFiniteSet(0 .. n)
  BY FS_Interval
<1>2. F \subseteq FiniteSubsetsOf(0 .. n)
  <2>1. F \subseteq SUBSET (0 .. n)
    OBVIOUS
  <2> QED
    BY <1>1, <2>1, FS_FiniteSubsetsOfFinite
<1>3. F # {}
  OBVIOUS
<1> HIDE DEF F
<1>4. \E R \in F : \A T \in F : <<T, R>> \notin StrictSubsetOrdering(0 .. n)
  BY <1>1, <1>2, <1>3, FS_StrictSubsetOrderingWellFounded, WFMin
<1>5. PICK R \in F : \A T \in F : <<T, R>> \notin StrictSubsetOrdering(0 .. n)
  BY <1>4
<1>6. PICK k \in K : R = 0 .. k
  BY <1>5 DEF F
<1>7. ASSUME NEW j \in K, j < k PROVE FALSE
  <2>1. 0 .. j \in F /\ 0 .. j \subseteq 0 .. k /\ 0 .. j # 0 .. k
    <3>1. k \in 0 .. k /\ k \notin 0 .. j
      BY <1>7
    <3>2. 0 .. j \in F
      BY DEF F
    <3> QED
      BY <1>7, <3>1, <3>2
  <2>2. <<0 .. j, 0 .. k>> \in StrictSubsetOrdering(0 .. n)
    BY <2>1 DEF StrictSubsetOrdering
  <2> QED
    BY <1>5, <1>6, <2>1, <2>2
<1>8. k \in Int /\ \A j \in K : j \in Int
  OBVIOUS
<1> QED
  BY <1>7, <1>8

\* What holds of 0, and of a number when it holds of the one before, holds up to n.
LEMMA UpTo ==
  ASSUME NEW n \in Nat, NEW P, 0 \in P, \A m \in 1 .. n : m - 1 \in P => m \in P
  PROVE  0 .. n \subseteq P
<1> DEFINE Bad == (0 .. n) \ P
<1> SUFFICES ASSUME Bad # {} PROVE FALSE
  OBVIOUS
<1>1. Bad \in SUBSET (0 .. n)
  OBVIOUS
<1>2. PICK m \in Bad : \A j \in Bad : m <= j
  <2> HIDE DEF Bad
  <2> QED
    BY <1>1, LeastNumber
<1>3. m \in 1 .. n /\ m - 1 \in 0 .. n /\ ~(m <= m - 1)
  BY <1>2
<1> QED
  BY <1>2, <1>3

\* The function that Those is defined by.
FilteredUpTo(f, s, good, m) ==
  f = [n \in 0 .. m |->
         IF n = 0 THEN << >>
         ELSE IF s[n] \in good THEN Append(f[n - 1], s[n]) ELSE f[n - 1]]

LEMMA ThoseDefined ==
  ASSUME NEW S, NEW s \in Seq(S), NEW good
  PROVE  \E f : FilteredUpTo(f, s, good, Len(s)) /\ Those(s, good) = f[Len(s)]
<1> DEFINE L == Len(s)
           P == {m \in 0 .. L : \E f : FilteredUpTo(f, s, good, m)}
<1>1. L \in Nat
  OBVIOUS
<1> HIDE DEF L
<1>2. 0 \in P
  <2> DEFINE g == [n \in 0 .. 0 |-> << >>]
  <2>1. FilteredUpTo(g, s, good, 0)
    BY DEF FilteredUpTo
  <2> QED
    BY <1>1, <2>1
<1>3. ASSUME NEW m \in 1 .. L, m - 1 \in P PROVE m \in P
  <2>1. PICK f : FilteredUpTo(f, s, good, m - 1)
    BY <1>3
  <2> DEFINE v == IF s[m] \in good THEN Append(f[m - 1], s[m]) ELSE f[m - 1]
             g == [n \in 0 .. m |-> IF n = m THEN v ELSE f[n]]
  <2>2. ASSUME NEW n \in 0 .. m
        PROVE  g[n] = IF n = 0 THEN << >>
                      ELSE IF s[n] \in good THEN Append(g[n - 1], s[n]) ELSE g[n - 1]
    <3>1. CASE n = m
      <4>1. g[n] = v /\ g[n - 1] = f[n - 1] /\ n # 0
        BY <1>1, <3>1
      <4> QED
        BY <3>1, <4>1
    <3>2. CASE n # m
      <4>1. g[n] = f[n] /\ n \in 0 .. m - 1
        BY <1>1, <3>2
      <4>2. n # 0 => g[n - 1] = f[n - 1]
        BY <1>1, <3>2
      <4>3. f[n] = IF n = 0 THEN << >>
                   ELSE IF s[n] \in good THEN Append(f[n - 1], s[n]) ELSE f[n - 1]
        BY <2>1, <4>1 DEF FilteredUpTo
      <4> QED
        BY <4>1, <4>2, <4>3
    <3> QED
      BY <3>1, <3>2
  <2>3. FilteredUpTo(g, s, good, m)
    BY <2>2 DEF FilteredUpTo
  <2>4. m \in 0 .. L
    BY <1>1
  <2> QED
    BY <2>3, <2>4
<1>4. L \in P
  <2>1. L \in 0 .. L
    BY <1>1
  <2>2. \A m \in 1 .. L : m - 1 \in P => m \in P
    BY <1>3
  <2> HIDE DEF P
  <2> QED
    BY <1>1, <1>2, <2>1, <2>2, UpTo
<1>5. PICK f : FilteredUpTo(f, s, good, L)
  BY <1>4
<1> DEFINE F == CHOOSE g : FilteredUpTo(g, s, good, L)
<1>6. FilteredUpTo(F, s, good, L)
  BY <1>5
<1>7. Those(s, good) = F[L]
  BY DEF Those, FilteredUpTo, L
<1> QED
  BY <1>6, <1>7 DEF L

\* A filter keeps those that are good and no others, each once if they were; and it
\* keeps as many as there are positions of good ones.
LEMMA ThoseFacts ==
  ASSUME NEW S, NEW s \in Seq(S), NEW good
  PROVE  /\ Those(s, good) \in Seq(S)
         /\ ToSet(Those(s, good)) = ToSet(s) \intersect good
         /\ Len(Those(s, good)) = Cardinality({i \in DOMAIN s : s[i] \in good})
         /\ (\A i, j \in DOMAIN s : s[i] = s[j] => i = j) =>
              LET t == Those(s, good) IN \A i, j \in DOMAIN t : t[i] = t[j] => i = j
<1> DEFINE L == Len(s)
           Set(n) == {i \in 1 .. n : s[i] \in good}
           Once == \A i, j \in DOMAIN s : s[i] = s[j] => i = j
<1>1. L \in Nat /\ DOMAIN s = 1 .. L /\ \A i \in 1 .. L : s[i] \in S
  OBVIOUS
<1>2. PICK f : FilteredUpTo(f, s, good, L) /\ Those(s, good) = f[L]
  BY ThoseDefined
<1> HIDE DEF L
<1> DEFINE Fact(n) ==
             /\ f[n] \in Seq(S)
             /\ \A x : (\E i \in DOMAIN f[n] : f[n][i] = x) <=> (\E i \in Set(n) : s[i] = x)
             /\ IsFiniteSet(Set(n)) /\ Len(f[n]) = Cardinality(Set(n))
             /\ Once => \A i, j \in DOMAIN f[n] : f[n][i] = f[n][j] => i = j
           P == {n \in 0 .. L : Fact(n)}
<1>3. 0 \in P
  <2>1. f[0] = << >> /\ Set(0) = {} /\ 0 \in 0 .. L
    BY <1>1, <1>2 DEF FilteredUpTo
  <2>2. IsFiniteSet(Set(0)) /\ Cardinality(Set(0)) = 0
    BY <2>1, FS_EmptySet
  <2>3. f[0] \in Seq(S) /\ DOMAIN f[0] = {} /\ Len(f[0]) = 0
    BY <2>1
  <2> QED
    BY <2>1, <2>2, <2>3
<1>4. ASSUME NEW n \in 1 .. L, n - 1 \in P PROVE n \in P
  <2>1. /\ n \in 0 .. L /\ n - 1 \in 0 .. L /\ Fact(n - 1) /\ n \in DOMAIN s /\ s[n] \in S
        /\ 1 .. n - 1 \subseteq 1 .. L
    BY <1>1, <1>4
  <2>2. f[n] = IF s[n] \in good THEN Append(f[n - 1], s[n]) ELSE f[n - 1]
    <3>1. n # 0
      BY <1>1
    <3> QED
      BY <1>2, <2>1, <3>1 DEF FilteredUpTo
  <2>3. 1 .. n = (1 .. n - 1) \union {n} /\ n \notin 1 .. n - 1
    BY <1>1
  <2>4. CASE s[n] \notin good
    <3>1. Set(n) = Set(n - 1)
      BY <2>3, <2>4
    <3>2. f[n] = f[n - 1]
      BY <2>2, <2>4
    <3> QED
      BY <2>1, <3>1, <3>2
  <2>5. CASE s[n] \in good
    <3> DEFINE a == f[n - 1]
    <3>1. Set(n) = Set(n - 1) \union {n} /\ n \notin Set(n - 1)
      BY <2>3, <2>5
    <3>2. f[n] = Append(a, s[n]) /\ a \in Seq(S)
      BY <2>1, <2>2, <2>5
    <3>3. /\ f[n] \in Seq(S) /\ Len(f[n]) = Len(a) + 1
          /\ DOMAIN f[n] = DOMAIN a \union {Len(a) + 1} /\ f[n][Len(a) + 1] = s[n]
          /\ \A i \in DOMAIN a : f[n][i] = a[i] /\ i # Len(a) + 1
      <4> HIDE DEF a
      <4>1. /\ Append(a, s[n]) \in Seq(S) /\ Len(Append(a, s[n])) = Len(a) + 1
            /\ \A i \in 1 .. Len(a) : Append(a, s[n])[i] = a[i]
            /\ Append(a, s[n])[Len(a) + 1] = s[n]
        BY <2>1, <3>2
      <4>2. Len(a) \in Nat /\ DOMAIN a = 1 .. Len(a)
        BY <3>2
      <4>3. DOMAIN Append(a, s[n]) = 1 .. Len(a) + 1
        BY <4>1
      <4>4. 1 .. Len(a) + 1 = (1 .. Len(a)) \union {Len(a) + 1} /\ Len(a) + 1 \notin 1 .. Len(a)
        BY <4>2
      <4> QED
        BY <3>2, <4>1, <4>2, <4>3, <4>4
    <3>4. IsFiniteSet(Set(n)) /\ Cardinality(Set(n)) = Cardinality(Set(n - 1)) + 1
      <4>1. IsFiniteSet(Set(n - 1))
        BY <2>1
      <4> HIDE DEF Set
      <4>2. /\ IsFiniteSet(Set(n - 1) \union {n})
            /\ n \notin Set(n - 1) =>
                 Cardinality(Set(n - 1) \union {n}) = Cardinality(Set(n - 1)) + 1
        BY <4>1, FS_AddElement, Zenon
      <4> QED
        BY <3>1, <4>2
    <3>5. Len(f[n]) = Cardinality(Set(n))
      BY <2>1, <3>3, <3>4
    <3>6. \A x : (\E i \in DOMAIN f[n] : f[n][i] = x) <=> (\E i \in Set(n) : s[i] = x)
      <4>1. \A x : (\E i \in DOMAIN f[n] : f[n][i] = x) <=> (\E i \in DOMAIN a : a[i] = x) \/ s[n] = x
        BY <3>3
      <4>2. \A x : (\E i \in Set(n) : s[i] = x) <=> (\E i \in Set(n - 1) : s[i] = x) \/ s[n] = x
        BY <3>1
      <4> QED
        BY <2>1, <4>1, <4>2
    <3>7. ASSUME Once PROVE \A i, j \in DOMAIN f[n] : f[n][i] = f[n][j] => i = j
      <4>1. ASSUME NEW i \in DOMAIN a, a[i] = s[n] PROVE FALSE
        <5>1. PICK j \in Set(n - 1) : s[j] = s[n]
          BY <2>1, <4>1
        <5>2. j \in DOMAIN s /\ j # n
          BY <1>1, <2>1, <3>1
        <5> QED
          BY <2>1, <3>7, <5>1, <5>2
      <4>2. \A i, j \in DOMAIN a : a[i] = a[j] => i = j
        BY <2>1, <3>7
      <4> QED
        BY <3>3, <4>1, <4>2
    <3> HIDE DEF Set, Once, a
    <3> QED
      BY <2>1, <3>3, <3>4, <3>5, <3>6, <3>7
  <2> QED
    BY <2>4, <2>5
<1>5. Fact(L)
  <2>1. L \in 0 .. L
    BY <1>1
  <2>2. \A n \in 1 .. L : n - 1 \in P => n \in P
    BY <1>4
  <2>3. L \in P
    <3> HIDE DEF P
    <3> QED
      BY <1>1, <1>3, <2>1, <2>2, UpTo
  <2> QED
    BY <2>3
<1>6. Set(L) = {i \in DOMAIN s : s[i] \in good}
  BY <1>1
<1>7. ToSet(f[L]) = ToSet(s) \intersect good
  <2>1. \A x : x \in ToSet(f[L]) <=> \E i \in Set(L) : s[i] = x
    BY <1>5 DEF ToSet
  <2> QED
    BY <1>6, <2>1 DEF ToSet
<1> HIDE DEF Set
<1> QED
  BY <1>2, <1>5, <1>6, <1>7

\* A sequence without repetitions is extended by what it does not hold.
LEMMA AppendedOnce ==
  ASSUME NEW S, NEW s \in Seq(S), NEW x \in S
  PROVE  /\ Append(s, x) \in Seq(S) /\ Len(Append(s, x)) = Len(s) + 1
         /\ ToSet(Append(s, x)) = ToSet(s) \union {x}
         /\ x \notin ToSet(s) /\ (\A i, j \in DOMAIN s : s[i] = s[j] => i = j) =>
              \A i, j \in DOMAIN Append(s, x) : Append(s, x)[i] = Append(s, x)[j] => i = j
<1> DEFINE a == Append(s, x)
           n == Len(s)
<1>1. n \in Nat /\ DOMAIN s = 1 .. n
  OBVIOUS
<1>2. /\ a \in Seq(S) /\ Len(a) = n + 1 /\ DOMAIN a = 1 .. n + 1
      /\ \A i \in 1 .. n : a[i] = s[i]
      /\ a[n + 1] = x
  OBVIOUS
<1> HIDE DEF a, n
<1>3. 1 .. n + 1 = (1 .. n) \union {n + 1}
  BY <1>1
<1>4. \A v : (\E i \in DOMAIN a : a[i] = v) <=> (\E i \in DOMAIN s : s[i] = v) \/ v = x
  BY <1>1, <1>2, <1>3
<1>5. ToSet(a) = ToSet(s) \union {x}
  BY <1>4 DEF ToSet
<1>6. ASSUME x \notin ToSet(s), \A i, j \in DOMAIN s : s[i] = s[j] => i = j
      PROVE  \A i, j \in DOMAIN a : a[i] = a[j] => i = j
  <2>1. \A i \in DOMAIN s : s[i] # x
    BY <1>6 DEF ToSet
  <2> QED
    BY <1>1, <1>2, <1>3, <1>6, <2>1
<1> QED
  BY <1>2, <1>5, <1>6 DEF a, n

----------------------------------------------------------------------------
\* Which plans the store retains.

\* The order in which plans are retained holds each once and at most MaxPlans of them,
\* and a plan that is not in it has a fresh record.
OrderPart ==
  /\ order \in Seq(Plans) /\ Len(order) <= MaxPlans
  /\ \A i, j \in DOMAIN order : order[i] = order[j] => i = j
  /\ \A p \in Plans \ ToSet(order) : kept[p] = Fresh

\* A new plan has no running task.
LEMMA FreshIsIdle ==
  ASSUME NEW p \in Plans, kept[p] = Fresh
  PROVE  ~Holding(p)
BY DEF Holding, Fresh, FreshRecord

\* Of one plan too many, one is a victim: the first that is idle.
LEMMA OneIsEvicted ==
  ASSUME NEW q \in Seq(Plans), Len(q) = MaxPlans + 1, Idle(q) # {}
  PROVE  \E k \in DOMAIN q : q[k] \in Victims(q)
<1>1. MaxPlans \in Nat /\ Len(q) \in Nat /\ DOMAIN q = 1 .. Len(q)
  BY StoreAssumption
<1>2. Idle(q) \in SUBSET (0 .. Len(q)) /\ Idle(q) \subseteq 1 .. Len(q)
  BY <1>1 DEF Idle
<1>3. PICK k \in Idle(q) : \A j \in Idle(q) : k <= j
  BY <1>1, <1>2, LeastNumber
<1>4. {j \in Idle(q) : j <= k} = {k}
  <2>1. ASSUME NEW j \in Idle(q), j <= k PROVE j = k
    BY <1>1, <1>2, <1>3, <2>1
  <2> QED
    BY <1>1, <1>2, <2>1
<1>5. Cardinality({j \in Idle(q) : j <= k}) = 1
  BY <1>4, FS_Singleton
<1>6. Cardinality({j \in Idle(q) : j <= k}) <= Len(q) - MaxPlans
  <2>1. Len(q) - MaxPlans = 1
    BY <1>1
  <2> QED
    BY <1>5, <2>1
<1>7. q[k] \in Victims(q)
  BY <1>6 DEF Victims
<1> QED
  BY <1>1, <1>2, <1>7

\* There are n positions up to n.
LEMMA Positions ==
  ASSUME NEW n \in Nat
  PROVE  IsFiniteSet(1 .. n) /\ Cardinality(1 .. n) = n
BY FS_Interval

\* Of a sequence with a place that is not good, a filter keeps fewer than it has.
LEMMA FilterDrops ==
  ASSUME NEW S, NEW s \in Seq(S), NEW good, NEW k \in DOMAIN s, s[k] \notin good
  PROVE  Len(Those(s, good)) <= Len(s) - 1
<1> DEFINE G == {i \in DOMAIN s : s[i] \in good}
<1>1. Len(s) \in Nat /\ DOMAIN s = 1 .. Len(s)
  OBVIOUS
<1>2. IsFiniteSet(1 .. Len(s)) /\ Cardinality(1 .. Len(s)) = Len(s)
  BY <1>1, Positions
<1>3. IsFiniteSet((1 .. Len(s)) \ {k}) /\ Cardinality((1 .. Len(s)) \ {k}) = Len(s) - 1
  <2>1. k \in 1 .. Len(s)
    BY <1>1
  <2> QED
    BY <1>2, <2>1, FS_RemoveElement
<1>4. G \subseteq (1 .. Len(s)) \ {k}
  BY <1>1
<1>5. Cardinality(G) <= Cardinality((1 .. Len(s)) \ {k})
  <2> HIDE DEF G
  <2> QED
    BY <1>3, <1>4, FS_Subset
<1>6. Len(Those(s, good)) = Cardinality(G)
  BY ThoseFacts
<1> QED
  BY <1>3, <1>5, <1>6

\* No filter keeps more than there are.
LEMMA FilterKeepsFewer ==
  ASSUME NEW S, NEW s \in Seq(S), NEW good
  PROVE  Len(Those(s, good)) <= Len(s)
<1> DEFINE G == {i \in DOMAIN s : s[i] \in good}
<1>1. Len(s) \in Nat /\ DOMAIN s = 1 .. Len(s)
  OBVIOUS
<1>2. IsFiniteSet(1 .. Len(s)) /\ Cardinality(1 .. Len(s)) = Len(s)
  BY <1>1, Positions
<1>3. G \subseteq 1 .. Len(s)
  BY <1>1
<1>4. Cardinality(G) <= Cardinality(1 .. Len(s))
  <2> HIDE DEF G
  <2> QED
    BY <1>2, <1>3, FS_Subset
<1>5. Len(Those(s, good)) = Cardinality(G)
  BY ThoseFacts
<1> QED
  BY <1>2, <1>4, <1>5

\* A lookup retains no more than MaxPlans plans, and all that have a running task.
LEMMA FoundFacts ==
  ASSUME OrderPart, NEW p \in Plans
  PROVE  /\ Found(p) \in Seq(Plans) /\ Len(Found(p)) <= MaxPlans
         /\ \A i, j \in DOMAIN Found(p) : Found(p)[i] = Found(p)[j] => i = j
         /\ \A q \in ToSet(order) : Holding(q) => q \in ToSet(Found(p))
<1>1. /\ MaxPlans \in Nat /\ order \in Seq(Plans) /\ Len(order) \in Nat
      /\ DOMAIN order = 1 .. Len(order) /\ Len(order) <= MaxPlans
      /\ \A i \in DOMAIN order : order[i] \in Plans
  BY StoreAssumption DEF OrderPart
<1>2. CASE p \in ToSet(order)
  <2> DEFINE t == Those(order, Plans \ {p})
  <2>1. /\ t \in Seq(Plans) /\ ToSet(t) = ToSet(order) \intersect (Plans \ {p})
        /\ \A i, j \in DOMAIN t : t[i] = t[j] => i = j
    BY <1>1, ThoseFacts DEF OrderPart
  <2>2. PICK k \in DOMAIN order : order[k] = p
    BY <1>2 DEF ToSet
  <2>3. Len(t) <= Len(order) - 1
    BY <1>1, <2>2, FilterDrops
  <2>4. Found(p) = Append(t, p)
    BY <1>2 DEF Found
  <2> HIDE DEF t
  <2>5. p \notin ToSet(t)
    BY <2>1
  <2>6. /\ Append(t, p) \in Seq(Plans) /\ Len(Append(t, p)) = Len(t) + 1
        /\ ToSet(Append(t, p)) = ToSet(t) \union {p}
        /\ \A i, j \in DOMAIN Append(t, p) : Append(t, p)[i] = Append(t, p)[j] => i = j
    BY <2>1, <2>5, AppendedOnce
  <2>7. Len(t) \in Nat
    BY <2>1
  <2>8. Len(Found(p)) <= MaxPlans
    BY <1>1, <2>3, <2>4, <2>6, <2>7
  <2>9. \A q \in ToSet(order) : q \in ToSet(Found(p))
    <3>1. \A q \in ToSet(order) : q \in Plans
      BY <1>1 DEF ToSet
    <3> QED
      BY <2>1, <2>4, <2>6, <3>1
  <2> QED
    BY <2>4, <2>6, <2>8, <2>9
<1>3. CASE p \notin ToSet(order)
  <2> DEFINE q == Append(order, p)
             t == Those(q, Plans \ Victims(q))
  <2>1. /\ q \in Seq(Plans) /\ Len(q) = Len(order) + 1
        /\ ToSet(q) = ToSet(order) \union {p}
        /\ \A i, j \in DOMAIN q : q[i] = q[j] => i = j
    BY <1>1, <1>3, AppendedOnce DEF OrderPart
  <2>2. Found(p) = t
    BY <1>3 DEF Found, Evicted
  <2>3. ~Holding(p) /\ q[Len(q)] = p
    BY <1>1, <1>3, <2>1, FreshIsIdle DEF OrderPart
  <2> HIDE DEF q
  <2>4. /\ t \in Seq(Plans) /\ ToSet(t) = ToSet(q) \intersect (Plans \ Victims(q))
        /\ \A i, j \in DOMAIN t : t[i] = t[j] => i = j
    BY <2>1, ThoseFacts
  <2>5. Len(t) <= Len(q)
    BY <2>1, FilterKeepsFewer
  <2>6. Len(t) \in Nat /\ Len(q) \in Nat /\ DOMAIN q = 1 .. Len(q)
    BY <2>1, <2>4
  <2>7. Len(t) <= MaxPlans
    <3>1. CASE Len(q) <= MaxPlans
      <4> HIDE DEF t
      <4> QED
        BY <1>1, <2>5, <2>6, <3>1
    <3>2. CASE ~(Len(q) <= MaxPlans)
      <4>1. Len(q) = MaxPlans + 1
        BY <1>1, <2>1, <3>2
      <4>2. Len(q) \in Idle(q)
        BY <1>1, <2>3, <2>6, <4>1 DEF Idle
      <4>3. PICK k \in DOMAIN q : q[k] \in Victims(q)
        BY <2>1, <4>1, <4>2, OneIsEvicted
      <4>4. Len(t) <= Len(q) - 1
        BY <2>1, <4>3, FilterDrops
      <4> HIDE DEF t
      <4> QED
        BY <1>1, <2>6, <4>1, <4>4
    <3> QED
      BY <3>1, <3>2
  <2>8. \A r \in ToSet(order) : Holding(r) => r \in ToSet(t)
    <3>1. \A r \in ToSet(q) : r \in Plans
      BY <2>1 DEF ToSet
    <3>2. \A r \in Victims(q) : ~Holding(r)
      BY DEF Victims, Idle
    <3> HIDE DEF t
    <3> QED
      BY <2>1, <2>4, <3>1, <3>2
  <2> HIDE DEF t
  <2> QED
    BY <2>2, <2>4, <2>7, <2>8
<1> QED
  BY <1>2, <1>3

\* What an operation writes goes to a plan that is retained, or is lost.
LEMMA WriteKeepsOrder ==
  ASSUME OrderPart, NEW p \in Plans, NEW r, Write(p, r)
  PROVE  /\ OrderPart'
         /\ \A q \in ToSet(order) : Holding(q) => q \in ToSet(order')
<1>1. order' = Found(p) /\ \A q \in Plans \ ToSet(order') : kept'[q] = Fresh
  BY DEF Write, Retained
<1> QED
  BY <1>1, FoundFacts DEF OrderPart

\* Every operation keeps the order as it should be, and the plans in use in it.
LEMMA StepKeepsOrder ==
  ASSUME OrderPart, Kept, Next
  PROVE  /\ OrderPart'
         /\ \A q \in ToSet(order) : Holding(q) => q \in ToSet(order')
<1>1. PICK p \in Plans :
        \/ Look(p) \/ Restore(p)
        \/ \E t \in Tasks : Begin(p, t) \/ Returns(p, t) \/ Throws(p, t)
  BY DEF Next
<1>2. CASE \E r : Write(p, r)
  BY <1>2, WriteKeepsOrder
<1>3. CASE ~ \E r : Write(p, r)
  <2>1. Restore(p)
    BY <1>1, <1>3, Zenon DEF Look, Begin, Returns, Throws
  <2>2. PICK states \in Saved(p) :
          LET record == [Fresh EXCEPT !.states = states]
          IN IF p \in ToSet(order)
             THEN kept' = [kept EXCEPT ![p] = record] /\ UNCHANGED order
             ELSE Write(p, record)
    BY <2>1 DEF Restore
  <2>3. p \in ToSet(order) /\ order' = order
    BY <1>3, <2>2, Zenon
  <2>4. \A q \in Plans \ {p} : kept'[q] = kept[q]
    BY <2>2, <2>3 DEF Kept
  <2> QED
    BY <2>3, <2>4 DEF OrderPart
<1> QED
  BY <1>2, <1>3

\* However many plans are looked up, begun, concluded and restored, the store holds each
\* at most once and no more of them than it may.
THEOREM StoreIsBounded == Spec => [](TypeOK /\ OrderPart)
<1> DEFINE CallsPart == calls \in [Plans -> [Tasks -> 0 .. MaxCalls]]
           Bounded == Inv /\ OrderPart /\ CallsPart
<1>1. Init => Bounded
  <2> SUFFICES ASSUME Init PROVE Bounded
    OBVIOUS
  <2>1. order = << >> /\ \A p \in Plans : kept[p] = Fresh
    BY DEF Init
  <2>2. CallsPart
    BY StoreAssumption DEF Init
  <2> QED
    BY <2>1, <2>2, StoreAssumption, Initially DEF OrderPart
<1>2. Bounded /\ [Next]_vars => Bounded'
  <2> SUFFICES ASSUME Bounded, [Next]_vars PROVE OrderPart' /\ CallsPart'
    BY EachStep
  <2>1. CASE Next
    <3>1. PICK p \in Plans :
            \/ Look(p) \/ Restore(p)
            \/ \E t \in Tasks : Begin(p, t) \/ Returns(p, t) \/ Throws(p, t)
      BY <2>1 DEF Next
    <3>2. CallsPart'
      <4>1. CASE UNCHANGED calls
        BY <4>1
      <4>2. CASE calls' # calls
        <5>1. PICK t \in Tasks : Begin(p, t) \/ Returns(p, t) \/ Throws(p, t)
          BY <3>1, <4>2 DEF Look, Restore
        <5>2. calls[p][t] \in 0 .. MaxCalls /\ MaxCalls \in Nat
          BY StoreAssumption
        <5>3. PICK n \in 0 .. MaxCalls : calls' = [calls EXCEPT ![p][t] = n]
          <6>1. CASE Begin(p, t)
            <7>1. calls' = [calls EXCEPT ![p][t] = calls[p][t] + 1] /\ calls[p][t] < MaxCalls
              BY <6>1 DEF Begin
            <7>2. calls[p][t] + 1 \in 0 .. MaxCalls
              BY <5>2, <7>1
            <7> QED
              BY <7>1, <7>2
          <6>2. CASE Returns(p, t) \/ Throws(p, t)
            <7>1. calls' = [calls EXCEPT ![p][t] = calls[p][t] - 1] /\ calls[p][t] > 0
              BY <6>2 DEF Returns, Throws
            <7>2. calls[p][t] - 1 \in 0 .. MaxCalls
              BY <5>2, <7>1
            <7> QED
              BY <7>1, <7>2
          <6> QED
            BY <5>1, <6>1, <6>2
        <5> QED
          BY <5>3
      <4> QED
        BY <4>1, <4>2
    <3> QED
      BY <2>1, <3>2, StepKeepsOrder DEF Inv
  <2>2. CASE UNCHANGED vars
    BY <2>2 DEF vars, OrderPart
  <2> QED
    BY <2>1, <2>2
<1>3. Bounded => TypeOK /\ OrderPart
  BY DEF Inv, Kept, OrderPart, TypeOK
<1> QED
  BY <1>1, <1>2, <1>3, PTL DEF Spec

\* evictPlans never takes a plan with a running task: its outcome finds the record that
\* its begin left.
THEOREM RunningPlansAreKept == Spec => RunningIsKept
<1> DEFINE Stays == \A p \in Plans : Holding(p) => p \in ToSet(order')
<1>1. OrderPart /\ Inv /\ [Next]_vars => [Stays]_vars
  <2> SUFFICES ASSUME OrderPart, Inv, Next, NEW p \in Plans, Holding(p)
               PROVE  p \in ToSet(order')
    OBVIOUS
  <2>1. p \in ToSet(order)
    BY FreshIsIdle DEF OrderPart
  <2> QED
    BY <2>1, StepKeepsOrder DEF Inv
<1> QED
  BY <1>1, Initially, EachStep, StoreIsBounded, PTL DEF Spec, RunningIsKept

----------------------------------------------------------------------------
\* The stores of workflows and of their runtimes: maps in insertion order as well, which
\* give up a key when there are too many.  What is proved of them here holds beside the
\* task store, of which they know nothing.

\* The loop of runApprovedPlan stops at some number of runtimes, and those it has passed
\* have finished.
LEMMA DroppedFacts ==
  ASSUME NEW q \in Seq(WorkflowIds), NEW r
  PROVE  /\ Dropped(q, r) \in Seq(WorkflowIds)
         /\ \A w \in ToSet(q) :
              r[w] # "finished" => w \in ToSet(Dropped(q, r))
<1> DEFINE L == Len(q)
           Stop(k) == L - k <= MaxRuntimes \/ r[q[k + 1]] # "finished"
           K == {k \in 0 .. L : Stop(k)}
           Good(k) == /\ L - k >= MaxRuntimes \/ k = 0
                      /\ \A i \in 1 .. k : r[q[i]] = "finished"
                      /\ Stop(k)
           n == CHOOSE k \in 0 .. L : Good(k)
<1>1. L \in Nat /\ MaxRuntimes \in Nat
  BY RetentionAssumption
<1>2. L \in K /\ K \in SUBSET (0 .. L)
  BY <1>1
<1> HIDE DEF L
<1>3. PICK k \in K : \A j \in K : k <= j
  <2> HIDE DEF K
  <2> QED
    BY <1>1, <1>2, LeastNumber
<1>4. k \in 0 .. L /\ Stop(k) /\ \A j \in 0 .. k - 1 : ~Stop(j)
  BY <1>1, <1>3
<1>5. Good(k)
  <2>1. L - k >= MaxRuntimes \/ k = 0
    <3> SUFFICES ASSUME k # 0 PROVE L - k >= MaxRuntimes
      OBVIOUS
    <3>1. k - 1 \in 0 .. k - 1 /\ ~(L - (k - 1) <= MaxRuntimes)
      BY <1>1, <1>4
    <3> QED
      BY <1>1, <1>4, <3>1
  <2>2. ASSUME NEW i \in 1 .. k PROVE r[q[i]] = "finished"
    <3>1. i - 1 \in 0 .. k - 1 /\ (i - 1) + 1 = i
      BY <1>1, <1>4
    <3>2. ~Stop(i - 1)
      BY <1>4, <3>1
    <3> QED
      BY <3>1, <3>2
  <2> QED
    BY <1>4, <2>1, <2>2
<1> HIDE DEF Good
<1>6. n \in 0 .. L /\ Good(n)
  BY <1>4, <1>5
<1>7. Dropped(q, r) = SubSeq(q, n + 1, Len(q))
  BY DEF Dropped, Good, L
<1> HIDE DEF n
<1>8. \A i \in 1 .. n : r[q[i]] = "finished"
  BY <1>6 DEF Good
<1>9. /\ Dropped(q, r) \in Seq(WorkflowIds)
      /\ Len(Dropped(q, r)) = L - n
      /\ \A i \in 1 .. L - n : Dropped(q, r)[i] = q[i + n]
  BY <1>1, <1>6, <1>7 DEF L
<1>10. ASSUME NEW w \in ToSet(q), r[w] # "finished"
       PROVE  w \in ToSet(Dropped(q, r))
  <2>1. PICK i \in 1 .. L : q[i] = w
    BY DEF ToSet, L
  <2>2. i - n \in 1 .. L - n
    BY <1>1, <1>6, <1>8, <1>10, <2>1
  <2>3. Dropped(q, r)[i - n] = w
    BY <1>1, <1>6, <1>9, <2>1, <2>2
  <2> QED
    BY <1>1, <1>6, <1>9, <2>2, <2>3 DEF ToSet
<1> QED
  BY <1>9, <1>10

\* evictWorkflows forgets one workflow, and one that has not ended only when none has.
LEMMA EvictedFacts ==
  ASSUME NEW q \in Seq(WorkflowIds), NEW st, Len(q) \in 1 .. MaxWorkflows + 1
  PROVE  /\ EvictedWorkflows(q, st) \in Seq(WorkflowIds) /\ Len(EvictedWorkflows(q, st)) <= MaxWorkflows
         /\ ToSet(EvictedWorkflows(q, st)) \subseteq ToSet(q)
         /\ \A w \in ToSet(q) \ ToSet(EvictedWorkflows(q, st)) :
              /\ Len(EvictedWorkflows(q, st)) = MaxWorkflows
              /\ ~HasEnded(st, w) => \A v \in ToSet(q) : ~HasEnded(st, v)
<1>1. /\ MaxWorkflows \in Nat /\ MaxWorkflows > 0 /\ Len(q) \in Nat /\ DOMAIN q = 1 .. Len(q)
      /\ Len(q) <= MaxWorkflows + 1
  BY RetentionAssumption
<1>2. CASE Len(q) <= MaxWorkflows
  BY <1>1, <1>2 DEF EvictedWorkflows
<1>3. CASE Len(q) > MaxWorkflows
  <2> DEFINE c == CHOOSE i \in DOMAIN q : Candidate(q, st, i)
  <2>1. \E i \in DOMAIN q : Candidate(q, st, i)
    <3>1. CASE \E j \in DOMAIN q : HasEnded(st, q[j])
      <4> DEFINE K == {j \in DOMAIN q : HasEnded(st, q[j])}
      <4>1. K \in SUBSET (0 .. Len(q)) /\ K # {}
        BY <1>1, <3>1
      <4>2. PICK k \in K : \A j \in K : k <= j
        <5> HIDE DEF K
        <5> QED
          BY <1>1, <4>1, LeastNumber
      <4>3. \A j \in 1 .. k - 1 : ~HasEnded(st, q[j])
        BY <1>1, <4>2
      <4> QED
        BY <4>2, <4>3 DEF Candidate
    <3>2. CASE ~\E j \in DOMAIN q : HasEnded(st, q[j])
      BY <1>1, <3>2 DEF Candidate
    <3> QED
      BY <3>1, <3>2
  <2>2. c \in DOMAIN q /\ Candidate(q, st, c)
    BY <2>1
  <2>3. EvictedWorkflows(q, st) = RemoveAt(q, c)
    <3>1. ~(Len(q) <= MaxWorkflows)
      BY <1>1, <1>3
    <3> QED
      BY <3>1 DEF EvictedWorkflows
  <2> HIDE DEF c
  <2> DEFINE front == SubSeq(q, 1, c - 1)
             back == SubSeq(q, c + 1, Len(q))
             e == front \o back
  <2>4. /\ front \in Seq(WorkflowIds) /\ Len(front) = c - 1
        /\ \A i \in 1 .. c - 1 : front[i] = q[i]
    BY <1>1, <2>2
  <2>5. /\ back \in Seq(WorkflowIds) /\ Len(back) = Len(q) - c
        /\ \A i \in 1 .. Len(q) - c : back[i] = q[i + c]
    BY <1>1, <2>2
  <2>6. EvictedWorkflows(q, st) = e
    BY <2>3 DEF RemoveAt
  <2> HIDE DEF front, back
  <2>7. /\ e \in Seq(WorkflowIds) /\ Len(e) = Len(front) + Len(back)
        /\ \A i \in 1 .. Len(front) + Len(back) :
             e[i] = IF i <= Len(front) THEN front[i] ELSE back[i - Len(front)]
    BY <2>4, <2>5, ConcatProperties
  <2> HIDE DEF e
  <2>8. e \in Seq(WorkflowIds) /\ Len(e) = Len(q) - 1
    BY <1>1, <2>2, <2>4, <2>5, <2>7
  <2>9. /\ e \in Seq(WorkflowIds) /\ Len(e) = Len(q) - 1
        /\ \A i \in 1 .. Len(q) - 1 : e[i] = IF i < c THEN q[i] ELSE q[i + 1]
    <3>1. ASSUME NEW i \in 1 .. Len(q) - 1 PROVE e[i] = IF i < c THEN q[i] ELSE q[i + 1]
      <4>1. CASE i < c
        BY <1>1, <2>2, <2>4, <2>5, <2>7, <4>1
      <4>2. CASE ~(i < c)
        <5>1. i - (c - 1) \in 1 .. Len(q) - c /\ (i - (c - 1)) + c = i + 1
          BY <1>1, <2>2, <4>2
        <5>2. e[i] = back[i - (c - 1)]
          BY <1>1, <2>2, <2>4, <2>5, <2>7, <4>2
        <5> QED
          BY <2>5, <4>2, <5>1, <5>2
      <4> QED
        BY <4>1, <4>2
    <3>2. \A i \in 1 .. Len(q) - 1 : e[i] = IF i < c THEN q[i] ELSE q[i + 1]
      BY <3>1, Zenon
    <3> QED
      BY <2>8, <3>2, Zenon
  <2>10. Len(e) = MaxWorkflows
    <3>1. Len(q) = MaxWorkflows + 1
      <4>1. Len(q) \in Nat /\ MaxWorkflows \in Nat /\ Len(q) <= MaxWorkflows + 1
        BY <1>1
      <4>2. Len(q) > MaxWorkflows
        BY <1>3
      <4> QED
        BY <4>1, <4>2
    <3>2. Len(e) = Len(q) - 1
      BY <2>9
    <3> QED
      BY <1>1, <3>1, <3>2
  <2>11. ToSet(e) \subseteq ToSet(q)
    <3>1. DOMAIN e = 1 .. Len(q) - 1
      BY <1>1, <2>9
    <3>2. \A i \in 1 .. Len(q) - 1 : \E j \in 1 .. Len(q) : e[i] = q[j]
      BY <1>1, <2>2, <2>9
    <3> QED
      BY <1>1, <3>1, <3>2 DEF ToSet
  <2>12. ASSUME NEW w \in ToSet(q) \ ToSet(e) PROVE w = q[c]
    <3>1. PICK i \in 1 .. Len(q) : q[i] = w
      BY <1>1 DEF ToSet
    <3>2. DOMAIN e = 1 .. Len(q) - 1
      BY <1>1, <2>9
    <3>3. \A j \in 1 .. Len(q) - 1 : e[j] # w
      BY <2>12, <3>2 DEF ToSet
    <3>4. CASE i < c
      BY <1>1, <2>2, <2>9, <3>1, <3>3, <3>4
    <3>5. CASE i > c
      <4>1. i - 1 \in 1 .. Len(q) - 1 /\ ~(i - 1 < c) /\ (i - 1) + 1 = i
        BY <1>1, <2>2, <3>1, <3>5
      <4>2. e[i - 1] = q[i]
        BY <2>9, <4>1
      <4> QED
        BY <3>1, <3>3, <4>1, <4>2
    <3> QED
      BY <1>1, <2>2, <3>1, <3>4, <3>5
  <2>13. ~HasEnded(st, q[c]) => \A v \in ToSet(q) : ~HasEnded(st, v)
    BY <2>2 DEF Candidate, ToSet
  <2>14. ASSUME NEW w \in ToSet(q) \ ToSet(e)
        PROVE  /\ Len(e) = MaxWorkflows
               /\ ~HasEnded(st, w) => \A v \in ToSet(q) : ~HasEnded(st, v)
    BY <2>10, <2>12, <2>13
  <2>15. Len(e) <= MaxWorkflows
    BY <1>1, <2>10
  <2>16. \A w \in ToSet(q) \ ToSet(e) :
           /\ Len(e) = MaxWorkflows
           /\ ~HasEnded(st, w) => \A v \in ToSet(q) : ~HasEnded(st, v)
    BY <2>14
  <2> QED
    BY <2>6, <2>9, <2>11, <2>15, <2>16
<1> QED
  BY <1>1, <1>2, <1>3

\* Both maps are typed, the store keeps its limit, what it keeps was started, and who has a
\* runtime is a key of the second.
RetentionInv ==
  /\ records \in Seq(WorkflowIds) /\ runtimes \in Seq(WorkflowIds)
  /\ status \in [WorkflowIds -> {"unknown", "active", "failed", "ended"}]
  /\ run \in [WorkflowIds -> {"none", "going", "finished", "restored", "lost"}]
  /\ Len(records) <= MaxWorkflows
  /\ \A w \in ToSet(records) : status[w] # "unknown"
  /\ \A w \in WorkflowIds : run[w] # "none" => w \in ToSet(runtimes)
  /\ RuntimeIsKept

\* A workflow is added, and another forgotten for it: one that has not ended only when
\* none of the rest has.
LEMMA AddingStep ==
  ASSUME RetentionInv, NEW w \in WorkflowIds, NEW st,
         records' = EvictedWorkflows(Append(records, w), st)
  PROVE  /\ records' \in Seq(WorkflowIds) /\ Len(records') <= MaxWorkflows
         /\ ToSet(records') \subseteq ToSet(records) \union {w}
         /\ \A v \in ToSet(records) \ ToSet(records') : ~HasEnded(st, v) =>
              /\ Len(records') = MaxWorkflows
              /\ \A u \in ToSet(records') : ~HasEnded(st, u)
<1> DEFINE q == Append(records, w)
<1>1. /\ q \in Seq(WorkflowIds) /\ Len(q) = Len(records) + 1
      /\ ToSet(q) = ToSet(records) \union {w}
  BY AppendedOnce DEF RetentionInv
<1>2. Len(q) \in 1 .. MaxWorkflows + 1
  BY <1>1, RetentionAssumption DEF RetentionInv
<1> HIDE DEF q
<1>3. /\ EvictedWorkflows(q, st) \in Seq(WorkflowIds) /\ Len(EvictedWorkflows(q, st)) <= MaxWorkflows
      /\ ToSet(EvictedWorkflows(q, st)) \subseteq ToSet(q)
      /\ \A v \in ToSet(q) \ ToSet(EvictedWorkflows(q, st)) :
           /\ Len(EvictedWorkflows(q, st)) = MaxWorkflows
           /\ ~HasEnded(st, v) => \A u \in ToSet(q) : ~HasEnded(st, u)
  BY <1>1, <1>2, EvictedFacts
<1>4. records' = EvictedWorkflows(q, st)
  BY DEF q
<1> QED
  BY <1>1, <1>3, <1>4

\* A workflow that ends was started.
LEMMA SettledStatus ==
  ASSUME RetentionInv, NEW w \in WorkflowIds, status' = status \/ \E k \in {"failed", "ended"} : Settle(w, k)
  PROVE  /\ status' \in [WorkflowIds -> {"unknown", "active", "failed", "ended"}]
         /\ \A v \in WorkflowIds : status[v] # "unknown" => status'[v] # "unknown"
BY DEF RetentionInv, Settle

\* WorkflowEngine.restore keeps the store typed and within its limit, whether it adds the
\* workflow or finds it.
LEMMA ReadmittedFacts ==
  ASSUME RetentionInv, NEW w \in WorkflowIds, Readmitted(w)
  PROVE  /\ records' \in Seq(WorkflowIds) /\ Len(records') <= MaxWorkflows
         /\ status' \in [WorkflowIds -> {"unknown", "active", "failed", "ended"}]
         /\ \A v \in ToSet(records') : status'[v] # "unknown"
<1>1. CASE w \in ToSet(records)
  BY <1>1 DEF Readmitted, RetentionInv
<1>2. CASE w \notin ToSet(records)
  <2>1. /\ records' \in Seq(WorkflowIds) /\ Len(records') <= MaxWorkflows
        /\ ToSet(records') \subseteq ToSet(records) \union {w}
    BY <1>2, AddingStep DEF Readmitted
  <2>2. /\ status' \in [WorkflowIds -> {"unknown", "active", "failed", "ended"}]
        /\ status'[w] = "failed" /\ \A v \in WorkflowIds \ {w} : status'[v] = status[v]
    BY <1>2 DEF Readmitted, RetentionInv
  <2>3. \A v \in ToSet(records') : v \in WorkflowIds
    BY <2>1 DEF ToSet
  <2>4. \A v \in ToSet(records') : status'[v] # "unknown"
    BY <2>1, <2>2, <2>3 DEF RetentionInv
  <2> QED
    BY <2>1, <2>2, <2>4
<1> QED
  BY <1>1, <1>2

\* Every start, end, run, retry and restore keeps the two maps as they should be.
THEOREM RetentionInvariance == RetentionSpec => []RetentionInv
<1>1. RetentionInit => RetentionInv
  BY RetentionAssumption DEF RetentionInit, RetentionInv, RuntimeIsKept, ToSet
<1>2. RetentionInv /\ [RetentionNext]_retentionVars => RetentionInv'
  <2> SUFFICES ASSUME RetentionInv, [RetentionNext]_retentionVars PROVE RetentionInv'
    OBVIOUS
  <2>1. ASSUME NEW w \in WorkflowIds, StartWorkflow(w) PROVE RetentionInv'
    <3>1. /\ records' \in Seq(WorkflowIds) /\ Len(records') <= MaxWorkflows
          /\ ToSet(records') \subseteq ToSet(records) \union {w}
      BY <2>1, AddingStep DEF StartWorkflow
    <3>2. /\ status' \in [WorkflowIds -> {"unknown", "active", "failed", "ended"}]
          /\ status'[w] = "active" /\ \A v \in WorkflowIds \ {w} : status'[v] = status[v]
      BY <2>1 DEF RetentionInv, StartWorkflow
    <3>3. \A v \in ToSet(records') : v \in WorkflowIds
      BY <3>1 DEF ToSet
    <3>4. \A v \in ToSet(records') : status'[v] # "unknown"
      BY <3>1, <3>2, <3>3 DEF RetentionInv
    <3> QED
      BY <2>1, <3>1, <3>2, <3>4 DEF RetentionInv, StartWorkflow, RuntimeIsKept
  <2>2. ASSUME NEW w \in WorkflowIds, End(w) PROVE RetentionInv'
    BY <2>2 DEF RetentionInv, End, RuntimeIsKept
  <2>3. ASSUME NEW w \in WorkflowIds, Run(w) PROVE RetentionInv'
    <3> DEFINE q == Append(runtimes, w)
               r == [run EXCEPT ![w] = "going"]
               gone == ToSet(runtimes) \ ToSet(runtimes')
    <3>1. q \in Seq(WorkflowIds) /\ ToSet(q) = ToSet(runtimes) \union {w}
      BY AppendedOnce DEF RetentionInv
    <3> HIDE DEF q
    <3>2. r[w] = "going" /\ \A v \in WorkflowIds \ {w} : r[v] = run[v]
      BY DEF RetentionInv
    <3> HIDE DEF r
    <3>3. /\ Dropped(q, r) \in Seq(WorkflowIds)
          /\ \A v \in ToSet(q) : r[v] # "finished" => v \in ToSet(Dropped(q, r))
      BY <3>1, DroppedFacts
    <3>4. runtimes' = Dropped(q, r)
      BY <2>3 DEF Run, q, r
    <3>5. \A v \in ToSet(q) : v \in WorkflowIds
      BY <3>1 DEF ToSet
    <3>6. \A v \in gone : v # w /\ run[v] = "finished"
      BY <3>1, <3>2, <3>3, <3>4, <3>5
    <3>7. /\ run' = [v \in WorkflowIds |->
                       IF v = w THEN "going" ELSE IF v \in gone THEN "none" ELSE run[v]]
          /\ detached' = Cut(gone)
      BY <2>3 DEF Run
    <3>8. detached' = detached
      BY <3>6, <3>7 DEF Cut
    <3>9. run' \in [WorkflowIds -> {"none", "going", "finished", "restored", "lost"}]
      BY <3>7 DEF RetentionInv
    <3>10. \A v \in WorkflowIds : run'[v] # "none" => v = w \/ (run[v] # "none" /\ v \notin gone)
      BY <3>7
    <3>11. \A v \in WorkflowIds : run'[v] # "none" => v \in ToSet(runtimes')
      <4> SUFFICES ASSUME NEW v \in WorkflowIds, run'[v] # "none" PROVE v \in ToSet(runtimes')
        OBVIOUS
      <4>1. CASE v = w
        BY <3>1, <3>2, <3>3, <3>4, <4>1
      <4>2. CASE v # w
        BY <3>10, <4>2 DEF RetentionInv
      <4> QED
        BY <4>1, <4>2
    <3>12. UNCHANGED <<records, status, failedOnce, restored>>
      BY <2>3 DEF Run
    <3> HIDE DEF gone
    <3>13. RuntimeIsKept'
      BY <3>8, <3>11, <3>12 DEF RetentionInv, RuntimeIsKept
    <3>14. runtimes' \in Seq(WorkflowIds)
      BY <3>3, <3>4
    <3> QED
      BY <3>9, <3>11, <3>12, <3>13, <3>14 DEF RetentionInv
  <2>4. ASSUME NEW w \in WorkflowIds, Finish(w) PROVE RetentionInv'
    <3>1. /\ status' \in [WorkflowIds -> {"unknown", "active", "failed", "ended"}]
          /\ \A v \in WorkflowIds : status[v] # "unknown" => status'[v] # "unknown"
      BY <2>4, SettledStatus DEF RetentionInv, Finish
    <3>2. /\ run' \in [WorkflowIds -> {"none", "going", "finished", "restored", "lost"}]
          /\ \A v \in WorkflowIds : (run'[v] = "going" => run[v] = "going")
                                      /\ (run'[v] # "none" => run[v] # "none")
      BY <2>4 DEF RetentionInv, Finish
    <3>3. /\ records' = records /\ runtimes' = runtimes /\ detached' = detached /\ restored' = restored
          /\ \A v \in ToSet(records) : v \in WorkflowIds
      BY <2>4 DEF RetentionInv, Finish, ToSet
    <3> QED
      BY <3>1, <3>2, <3>3 DEF RetentionInv, RuntimeIsKept
  <2>5. ASSUME NEW w \in WorkflowIds, FinishDetached(w) PROVE RetentionInv'
    <3>1. /\ status' \in [WorkflowIds -> {"unknown", "active", "failed", "ended"}]
          /\ \A v \in WorkflowIds : status[v] # "unknown" => status'[v] # "unknown"
      BY <2>5, SettledStatus DEF RetentionInv, FinishDetached
    <3>2. /\ UNCHANGED <<records, runtimes, run, restored>> /\ detached' \subseteq detached
          /\ \A v \in ToSet(records) : v \in WorkflowIds
      BY <2>5 DEF RetentionInv, FinishDetached, ToSet
    <3> QED
      BY <3>1, <3>2 DEF RetentionInv, RuntimeIsKept
  <2>6. ASSUME NEW w \in WorkflowIds, Retry(w) PROVE RetentionInv'
    <3>1. w \in ToSet(runtimes) /\ UNCHANGED <<records, runtimes, detached, restored>>
      BY <2>6 DEF RetentionInv, Retry
    <3>2. /\ run' \in [WorkflowIds -> {"none", "going", "finished", "restored", "lost"}]
          /\ status' \in [WorkflowIds -> {"unknown", "active", "failed", "ended"}]
          /\ \A v \in WorkflowIds \ {w} : run'[v] = run[v] /\ status'[v] = status[v]
          /\ status'[w] = "active"
      BY <2>6 DEF RetentionInv, Retry
    <3>3. \A v \in ToSet(records) : v \in WorkflowIds
      BY DEF RetentionInv, ToSet
    <3> QED
      BY <3>1, <3>2, <3>3 DEF RetentionInv, RuntimeIsKept
  <2>7. ASSUME NEW w \in WorkflowIds, RestoreWorkflow(w) PROVE RetentionInv'
    <3>1. /\ records' \in Seq(WorkflowIds) /\ Len(records') <= MaxWorkflows
          /\ status' \in [WorkflowIds -> {"unknown", "active", "failed", "ended"}]
          /\ \A v \in ToSet(records') : status'[v] # "unknown"
      BY <2>7, ReadmittedFacts DEF RestoreWorkflow
    <3>2. /\ runtimes' \in Seq(WorkflowIds)
          /\ run' \in [WorkflowIds -> {"none", "going", "finished", "restored", "lost"}]
          /\ RuntimeIsKept' /\ \A v \in WorkflowIds : run'[v] # "none" => v \in ToSet(runtimes')
      <4>1. CASE UNCHANGED <<runtimes, run, detached, restored>>
        BY <4>1 DEF RetentionInv, RuntimeIsKept
      <4>2. ASSUME NEW k \in {"none", "finished", "restored"}, run' = [run EXCEPT ![w] = k],
                   \/ runtimes' = Added(runtimes, w)
                   \/ k = "none" /\ runtimes' = Those(runtimes, WorkflowIds \ {w}),
                   detached' = Cut({w}),
                   restored' = IF run[w] = "going" THEN restored \union {w} ELSE restored
            PROVE  /\ runtimes' \in Seq(WorkflowIds)
                   /\ run' \in [WorkflowIds -> {"none", "going", "finished", "restored", "lost"}]
                   /\ RuntimeIsKept' /\ \A v \in WorkflowIds : run'[v] # "none" => v \in ToSet(runtimes')
        <5>1. /\ runtimes' \in Seq(WorkflowIds) /\ ToSet(runtimes) \ {w} \subseteq ToSet(runtimes')
              /\ k # "none" => w \in ToSet(runtimes')
          <6>1. CASE runtimes' = Added(runtimes, w)
            BY <6>1, AppendedOnce DEF RetentionInv, Added
          <6>2. CASE k = "none" /\ runtimes' = Those(runtimes, WorkflowIds \ {w})
            <7>1. /\ Those(runtimes, WorkflowIds \ {w}) \in Seq(WorkflowIds)
                  /\ ToSet(Those(runtimes, WorkflowIds \ {w})) = ToSet(runtimes) \intersect (WorkflowIds \ {w})
              BY ThoseFacts DEF RetentionInv
            <7>2. \A v \in ToSet(runtimes) : v \in WorkflowIds
              BY DEF RetentionInv, ToSet
            <7> QED
              BY <6>2, <7>1, <7>2
          <6> QED
            BY <4>2, <6>1, <6>2
        <5>2. /\ run' \in [WorkflowIds -> {"none", "going", "finished", "restored", "lost"}]
              /\ run'[w] = k /\ \A v \in WorkflowIds \ {w} : run'[v] = run[v]
          BY <4>2 DEF RetentionInv
        <5>3. detached' \subseteq restored'
          BY <4>2 DEF RetentionInv, RuntimeIsKept, Cut
        <5>4. \A v \in WorkflowIds : run'[v] # "none" => v \in ToSet(runtimes')
          BY <5>1, <5>2 DEF RetentionInv
        <5> QED
          BY <5>1, <5>2, <5>3, <5>4 DEF RuntimeIsKept
      <4> QED
        BY <2>7, <4>1, <4>2 DEF RestoreWorkflow
    <3> QED
      BY <3>1, <3>2 DEF RetentionInv
  <2>8. CASE UNCHANGED retentionVars
    BY <2>8 DEF retentionVars, RetentionInv, RuntimeIsKept
  <2> QED
    BY <2>1, <2>2, <2>3, <2>4, <2>5, <2>6, <2>7, <2>8 DEF RetentionNext
<1> QED
  BY <1>1, <1>2, PTL DEF RetentionSpec

\* runApprovedPlan never drops the runtime of a run that has not finished, however many
\* are run at once: it can always be paused, answered and aborted.  A loop without one was
\* cut off by a client that restored its workflow as failed.
THEOREM RuntimesAreKept == RetentionSpec => []RuntimeIsKept
<1>1. RetentionInv => RuntimeIsKept
  BY DEF RetentionInv
<1> QED
  BY <1>1, RetentionInvariance, PTL

\* evictWorkflows forgets a workflow that has not ended only when none of the rest has.
THEOREM ActiveWorkflowsGoLast == RetentionSpec => ActiveGoLast
<1> DEFINE GoesLast ==
             \A w \in ToSet(records) \ ToSet(records') : status[w] = "active" =>
               /\ Len(records') = MaxWorkflows
               /\ \A v \in ToSet(records') : status'[v] = "active"
<1>1. RetentionInv /\ RetentionInv' /\ [RetentionNext]_retentionVars => [GoesLast]_retentionVars
  <2> SUFFICES ASSUME RetentionInv, RetentionInv', RetentionNext PROVE GoesLast
    OBVIOUS
  <2> SUFFICES ASSUME NEW v \in ToSet(records) \ ToSet(records'),
                      status[v] = "active"
               PROVE  /\ Len(records') = MaxWorkflows
                      /\ \A u \in ToSet(records') : status'[u] = "active"
    OBVIOUS
  <2>1. v \in WorkflowIds /\ \A u \in ToSet(records') : u \in WorkflowIds
    BY DEF RetentionInv, ToSet
  <2>2. PICK w \in WorkflowIds : StartWorkflow(w) \/ (Readmitted(w) /\ w \notin ToSet(records))
    BY DEF RetentionNext, End, Run, Finish, FinishDetached, Retry, RestoreWorkflow, Readmitted
  <2>3. /\ records' = EvictedWorkflows(Append(records, w), status')
        /\ status'[v] = "active"
    <3>1. CASE StartWorkflow(w)
      BY <2>1, <3>1 DEF StartWorkflow, RetentionInv
    <3>2. CASE Readmitted(w) /\ w \notin ToSet(records)
      BY <2>1, <3>2 DEF Readmitted, RetentionInv
    <3> QED
      BY <2>2, <3>1, <3>2
  <2>4. /\ Len(records') = MaxWorkflows
        /\ \A u \in ToSet(records') : ~HasEnded(status', u)
    <3>1. ~HasEnded(status', v)
      BY <2>3 DEF HasEnded
    <3> QED
      BY <2>3, <3>1, AddingStep
  <2>5. \A u \in ToSet(records') : status'[u] = "active"
    BY <2>1, <2>4 DEF RetentionInv, HasEnded
  <2> QED
    BY <2>4, <2>5
<1> QED
  BY <1>1, RetentionInvariance, PTL DEF RetentionSpec, ActiveGoLast

----------------------------------------------------------------------------
\* The client's session and its history of tasks.

Cores ==
  [status : {"none"} \union Live \union Terminal,
   plan : {"none", "draft", "approved", "rejected"},
   store : [PlanTasks -> StoreStatuses], done : SUBSET PlanTasks,
   task : PlanTasks \union {None}, failedTask : PlanTasks \union {None},
   retryable : PlanTasks \union {None}, runtime : BOOLEAN]

Entries ==
  [id : Workflows, status : {"none"} \union Live \union TerminalRecord,
   recovery : Recoveries \union {None}]

Outcomes == [workflow : Workflows, status : Terminal]

\* A record's recovery data is of the workflow of its task.
IsEntry(r) == r \in Entries /\ (r.recovery # None => r.recovery.workflow = r.id)

\* A history holds one record of a task.
IsHistory(h) ==
  /\ h \in Seq(Entries) /\ \A r \in RecordsIn(h) : IsEntry(r)
  /\ \A r, s \in RecordsIn(h) : r.id = s.id => r = s

\* The types of the variables.
ClientTypes ==
  /\ core \in [Workflows -> Cores]
  /\ {shown, current, planning} \subseteq Workflows \union {None}
  /\ recovery \in Recoveries \union {None} /\ result \in Outcomes \union {None}
  /\ IsHistory(disk)

\* A workflow that is not over has a task left.
HasWork(c) == c.status \in Live \union {"none"} => c.done # PlanTasks

\* Only the workflow that is shown can be at work, and the current task is its task.  A
\* late outcome that the session keeps while it works is an aborted one.
SessionPart ==
  /\ \A w \in Workflows :
       /\ HasWork(core[w]) /\ (core[w].status \in Live => w = shown)
       /\ core[w].status = "none" => core[w].plan = "none"
  /\ current # None => current = shown
  /\ shown # None => core[shown].status # "none"
  /\ ShownIsLive /\ result # None => result.status = "aborted"

\* There is no plan while the request for it is out.
Requested(c) == c.status \in {"planning", "aborted"} /\ c.plan = "none"

Recoverable(r) == r.status = "failed" /\ r.recovery # None

\* A failed record has the last failure of its workflow, which is not at work.
HasLast(r, c) ==
  Recoverable(r) =>
    /\ c.status \notin Live
    /\ c.status = "failed" /\ c.plan = "approved" => r.recovery = RecoveryOf(r.id, c)

\* What a history says of a task, when cs is the Core's state, sh and cur are shown and
\* current, pl planning and gone the records that were let go of: a record that is active
\* is the current one, of a workflow at work, or was let go of; one of a request that is
\* out has nothing to recover, and neither has one of the workflow that is shown when the
\* client is on no task.
IsTrue(r, cs, sh, cur, pl, gone) ==
  /\ ~IsTerminal(r) => r.id \in gone \/ (r.id = cur /\ cs[r.id].status \in Live)
  /\ r.id = pl => r.recovery = None
  /\ HasLast(r, cs[r.id])
  /\ cur = None /\ r.id = sh => ~Recoverable(r)

HistoryPart(h, cs, sh, cur, pl, gone) ==
  /\ IsHistory(h)
  /\ \A r \in RecordsIn(h) : IsTrue(r, cs, sh, cur, pl, gone)

ClientInv ==
  /\ ClientTypes /\ SessionPart
  /\ planning # None => Requested(core[planning])
  /\ HistoryPart(history, core, shown, current, planning, let)

----------------------------------------------------------------------------

\* Those, for the set of a history's records.
LEMMA ThoseRecords ==
  ASSUME NEW S, NEW h \in Seq(S), NEW good
  PROVE  /\ Those(h, good) \in Seq(S)
         /\ RecordsIn(Those(h, good)) = RecordsIn(h) \intersect good
<1>1. \A s : RecordsIn(s) = ToSet(s)
  BY DEF RecordsIn, ToSet
<1> QED
  BY <1>1, ThoseFacts

\* retain adds no record.
LEMMA RetainFacts ==
  ASSUME NEW S, NEW h \in Seq(S), NEW n
  PROVE  Retain(h, n) \in Seq(S) /\ RecordsIn(Retain(h, n)) \subseteq RecordsIn(h)
BY ThoseRecords DEF Retain

\* The records of two histories in one.
LEMMA JoinedRecords ==
  ASSUME NEW S, NEW g \in Seq(S), NEW h \in Seq(S)
  PROVE  g \o h \in Seq(S) /\ RecordsIn(g \o h) = RecordsIn(g) \union RecordsIn(h)
<1> DEFINE q == g \o h
<1>1. /\ Len(g) \in Nat /\ Len(h) \in Nat
      /\ DOMAIN g = 1 .. Len(g) /\ DOMAIN h = 1 .. Len(h)
  OBVIOUS
<1>2. /\ q \in Seq(S) /\ Len(q) = Len(g) + Len(h)
      /\ \A i \in 1 .. Len(g) + Len(h) : q[i] = IF i <= Len(g) THEN g[i] ELSE h[i - Len(g)]
  BY ConcatProperties
<1>3. DOMAIN q = 1 .. Len(g) + Len(h)
  BY <1>2
<1> HIDE DEF q
<1>4. RecordsIn(q) \subseteq RecordsIn(g) \union RecordsIn(h)
  <2> SUFFICES ASSUME NEW i \in 1 .. Len(g) + Len(h)
               PROVE  q[i] \in RecordsIn(g) \union RecordsIn(h)
    BY <1>3 DEF RecordsIn
  <2>1. CASE i <= Len(g)
    BY <1>1, <1>2, <2>1 DEF RecordsIn
  <2>2. CASE ~(i <= Len(g))
    <3>1. i - Len(g) \in 1 .. Len(h)
      BY <1>1, <2>2
    <3> QED
      BY <1>1, <1>2, <2>2, <3>1 DEF RecordsIn
  <2> QED
    BY <2>1, <2>2
<1>5. RecordsIn(g) \subseteq RecordsIn(q)
  BY <1>1, <1>2, <1>3 DEF RecordsIn
<1>6. RecordsIn(h) \subseteq RecordsIn(q)
  <2> SUFFICES ASSUME NEW i \in 1 .. Len(h) PROVE h[i] \in RecordsIn(q)
    BY <1>1 DEF RecordsIn
  <2>1. i + Len(g) \in 1 .. Len(g) + Len(h) /\ ~(i + Len(g) <= Len(g)) /\ (i + Len(g)) - Len(g) = i
    BY <1>1
  <2>2. q[i + Len(g)] = h[i]
    BY <1>2, <2>1
  <2> QED
    BY <1>3, <2>1, <2>2 DEF RecordsIn
<1> QED
  BY <1>2, <1>4, <1>5, <1>6 DEF q

\* A history with fewer records is one.
LEMMA FewerRecords ==
  ASSUME NEW h, IsHistory(h), NEW g \in Seq(Entries), RecordsIn(g) \subseteq RecordsIn(h)
  PROVE  IsHistory(g)
BY DEF IsHistory

\* create and update: the record is in place of the one the history had of its task.
LEMMA PutFacts ==
  ASSUME NEW h, IsHistory(h), NEW r, IsEntry(r)
  PROVE  /\ IsHistory(Put(h, r))
         /\ \A s \in RecordsIn(Put(h, r)) : s = r \/ (s \in RecordsIn(h) /\ s.id # r.id)
<1>1. CASE r \in RecordsIn(h)
  BY <1>1 DEF Put, IsHistory
<1>2. CASE r \notin RecordsIn(h)
  <2> DEFINE rest == Without(h, {r.id})
             one == <<r>>
             q == one \o rest
  <2>1. rest \in Seq(Entries) /\ RecordsIn(rest) = {s \in RecordsIn(h) : s.id # r.id}
    <3>1. h \in Seq(Entries)
      BY DEF IsHistory
    <3>2. /\ rest \in Seq(Entries)
          /\ RecordsIn(rest) = RecordsIn(h) \intersect {s \in RecordsIn(h) : s.id \notin {r.id}}
      BY <3>1, ThoseRecords DEF Without
    <3> HIDE DEF rest
    <3> QED
      BY <3>2
  <2>2. one \in Seq(Entries) /\ RecordsIn(one) = {r}
    <3>1. one \in Seq(Entries) /\ DOMAIN one = {1} /\ one[1] = r
      BY DEF IsEntry
    <3> HIDE DEF one
    <3> QED
      BY <3>1 DEF RecordsIn
  <2> HIDE DEF rest, one
  <2>3. q \in Seq(Entries) /\ RecordsIn(q) = {r} \union RecordsIn(rest)
    BY <2>1, <2>2, JoinedRecords
  <2> HIDE DEF q
  <2>4. Put(h, r) = Retain(q, retention)
    BY <1>2 DEF Put, q, rest, one
  <2>5. Put(h, r) \in Seq(Entries) /\ RecordsIn(Put(h, r)) \subseteq {r} \union RecordsIn(rest)
    BY <2>3, <2>4, RetainFacts
  <2>6. \A s \in RecordsIn(Put(h, r)) : s = r \/ (s \in RecordsIn(h) /\ s.id # r.id)
    BY <2>1, <2>5
  <2>7. IsHistory(Put(h, r))
    <3>1. \A s \in RecordsIn(Put(h, r)) : IsEntry(s)
      BY <2>6 DEF IsHistory
    <3>2. \A s, u \in RecordsIn(Put(h, r)) : s.id = u.id => s = u
      BY <2>6 DEF IsHistory
    <3> QED
      BY <2>5, <3>1, <3>2 DEF IsHistory
  <2> QED
    BY <2>6, <2>7
<1> QED
  BY <1>1, <1>2

\* What projectTaskSession makes of a workflow's state.
LEMMA StatusFacts ==
  ASSUME NEW c \in Cores, NEW o \in Outcomes \union {None}
  PROVE  /\ StatusOf(c, o) \in {"none"} \union Live \union TerminalRecord
         /\ StatusOf(c, o) \notin TerminalRecord =>
              c.status = StatusOf(c, o) /\ c.status \notin Terminal
         /\ StatusOf(c, o) = "failed" =>
              (o # None /\ o.status = "failed") \/ c.status = "failed"
<1>1. c.status \in {"none"} \union Live \union Terminal
  BY DEF Cores
<1>2. o # None => o.status \in Terminal
  BY DEF Outcomes
<1> QED
  BY <1>1, <1>2 DEF StatusOf, Live, Terminal, TerminalRecord

\* The recovery data of a workflow is of that workflow, and it is there after a failure of
\* an approved run.
LEMMA RecoveryFacts ==
  ASSUME NEW w \in Workflows, NEW c \in Cores
  PROVE  /\ RecoveryOf(w, c) \in Recoveries \union {None}
         /\ RecoveryOf(w, c) # None => RecoveryOf(w, c).workflow = w
         /\ RecoveryOf(w, c) # None <=> c.status = "failed" /\ c.plan = "approved"
<1>1. [workflow |-> w, store |-> c.store, failedTask |-> c.failedTask] \in Recoveries
  BY DEF Recoveries, Cores
<1> QED
  BY <1>1, ClientAssumption DEF RecoveryOf

\* A projection changes the status and the recovery data of a record, and nothing else.
LEMMA ProjectedFacts ==
  ASSUME NEW r, IsEntry(r), NEW w \in {r.id, None}, NEW cs \in [Workflows -> Cores],
         NEW o \in Outcomes \union {None}
  PROVE  LET p == Projected(r, w, cs, o) IN
         /\ IsEntry(p) /\ p.id = r.id
         /\ w = None => p.status = r.status /\ p.recovery = None
         /\ w # None =>
              /\ p.status = StatusOf(cs[w], o)
              /\ cs[w].plan # "approved" => p.recovery = None
              /\ cs[w].status = "failed" /\ cs[w].plan = "approved" =>
                   p.recovery = RecoveryOf(w, cs[w])
<1>1. /\ r \in Entries /\ r.id \in Workflows /\ r.recovery \in Recoveries \union {None}
      /\ r.recovery # None => r.recovery.workflow = r.id
      /\ r.status \in {"none"} \union Live \union TerminalRecord
  BY DEF IsEntry, Entries
<1>2. CASE w = None
  <2> DEFINE p == [r EXCEPT !.recovery = None]
  <2>1. p \in Entries /\ p.id = r.id /\ p.status = r.status /\ p.recovery = None
    BY <1>1 DEF Entries
  <2> QED
    BY <1>2, <2>1 DEF Projected, IsEntry
<1>3. CASE w # None
  <2>1. w = r.id /\ cs[w] \in Cores
    BY <1>1, <1>3
  <2> DEFINE f == RecoveryOf(w, cs[w])
             p == [r EXCEPT !.status = StatusOf(cs[w], o),
                            !.recovery = IF f # None \/ cs[w].plan # "approved" THEN f ELSE @]
  <2>2. /\ f \in Recoveries \union {None} /\ (f # None => f.workflow = w)
        /\ f # None <=> cs[w].status = "failed" /\ cs[w].plan = "approved"
    BY <1>1, <2>1, RecoveryFacts
  <2>3. StatusOf(cs[w], o) \in {"none"} \union Live \union TerminalRecord
    BY <2>1, StatusFacts
  <2>4. Projected(r, w, cs, o) = p
    BY <1>3 DEF Projected
  <2> HIDE DEF f
  <2>5. /\ p \in Entries /\ p.id = r.id /\ p.status = StatusOf(cs[w], o)
        /\ p.recovery = IF f # None \/ cs[w].plan # "approved" THEN f ELSE r.recovery
    BY <1>1, <2>2, <2>3 DEF Entries
  <2> HIDE DEF p
  <2> QED
    BY <1>1, <1>3, <2>1, <2>2, <2>4, <2>5 DEF IsEntry, f
<1> QED
  BY <1>2, <1>3

\* syncCurrentTask touches the record of the current task only.
LEMMA SyncedFacts ==
  ASSUME NEW h, IsHistory(h), NEW cur \in Workflows \union {None}, NEW w \in {cur, None},
         NEW cs \in [Workflows -> Cores], NEW o \in Outcomes \union {None}
  PROVE  /\ IsHistory(Synced(h, cur, w, cs, o))
         /\ \A s \in RecordsIn(Synced(h, cur, w, cs, o)) :
              \/ s \in RecordsIn(h) /\ s.id # cur
              \/ \E r \in RecordsIn(h) : r.id = cur /\ s = Projected(r, w, cs, o)
<1>1. CASE cur \notin Ids(h)
  BY <1>1 DEF Synced, Ids, RecordsIn
<1>2. CASE cur \in Ids(h)
  <2> DEFINE r == RecordOf(h, cur)
  <2>1. r \in RecordsIn(h) /\ r.id = cur
    BY <1>2 DEF RecordOf, Ids, RecordsIn
  <2> HIDE DEF r
  <2>2. IsEntry(r)
    BY <2>1 DEF IsHistory
  <2>3. IsEntry(Projected(r, w, cs, o)) /\ Projected(r, w, cs, o).id = cur
    BY <2>1, <2>2, ProjectedFacts
  <2>4. Synced(h, cur, w, cs, o) = Put(h, Projected(r, w, cs, o))
    BY <1>2 DEF Synced, r
  <2> QED
    BY <2>1, <2>3, <2>4, PutFacts
<1> QED
  BY <1>1, <1>2

\* syncCurrentTask, for the state after a step that touches no workflow but the one shown.
LEMMA SyncedPart ==
  ASSUME NEW h, NEW cs, NEW sh \in Workflows \union {None}, NEW cur \in {sh, None},
         NEW pl \in Workflows \union {None}, NEW gone, HistoryPart(h, cs, sh, cur, pl, gone),
         NEW ds \in [Workflows -> Cores], NEW o \in Outcomes \union {None},
         NEW ql \in {pl, None},
         \A w \in Workflows : w # sh => ds[w] = cs[w],
         sh # None =>
           /\ ds[sh].status # "none"
           /\ ds[sh].status \in Live /\ o # None => o.status = "aborted",
         ql # None => ds[ql].plan = "none"
  PROVE  HistoryPart(Synced(h, cur, sh, ds, o), ds, sh, cur, ql, gone)
<1>1. IsHistory(h) /\ \A r \in RecordsIn(h) : IsTrue(r, cs, sh, cur, pl, gone)
  BY DEF HistoryPart
<1>2. CASE cur = None
  <2>1. \A r \in RecordsIn(h) : r.id \in Workflows
    BY <1>1 DEF IsHistory, IsEntry, Entries
  <2>2. Synced(h, cur, sh, ds, o) = h
    BY <1>2, <2>1, ClientAssumption DEF Synced, Ids, RecordsIn
  <2>3. ASSUME NEW s \in RecordsIn(h) PROVE IsTrue(s, ds, sh, cur, ql, gone)
    <3>1. s.id \in Workflows /\ s.id # None /\ IsTrue(s, cs, sh, cur, pl, gone)
      BY <1>1, <2>1, ClientAssumption
    <3>2. CASE s.id = sh
      BY <1>2, <3>1, <3>2 DEF IsTrue, HasLast
    <3>3. CASE s.id # sh
      BY <1>2, <3>1, <3>3 DEF IsTrue, HasLast
    <3> QED
      BY <3>2, <3>3
  <2> QED
    BY <1>1, <2>2, <2>3 DEF HistoryPart
<1>3. CASE cur # None
  <2>1. cur = sh /\ sh \in Workflows /\ ds[sh] \in Cores
    BY <1>3
  <2>2. /\ IsHistory(Synced(h, cur, sh, ds, o))
        /\ \A s \in RecordsIn(Synced(h, cur, sh, ds, o)) :
             \/ s \in RecordsIn(h) /\ s.id # cur
             \/ \E r \in RecordsIn(h) : r.id = cur /\ s = Projected(r, sh, ds, o)
    BY <1>1, <2>1, SyncedFacts
  <2>3. ASSUME NEW s \in RecordsIn(h), s.id # cur PROVE IsTrue(s, ds, sh, cur, ql, gone)
    <3>1. s.id \in Workflows /\ s.id # None /\ IsTrue(s, cs, sh, cur, pl, gone)
      BY <1>1, ClientAssumption DEF IsHistory, IsEntry, Entries
    <3> QED
      BY <1>3, <2>1, <2>3, <3>1 DEF IsTrue, HasLast
  <2>4. ASSUME NEW r \in RecordsIn(h), r.id = cur
        PROVE  IsTrue(Projected(r, sh, ds, o), ds, sh, cur, ql, gone)
    <3> DEFINE p == Projected(r, sh, ds, o)
               c == ds[sh]
    <3>1. /\ p.id = sh /\ p.status = StatusOf(c, o)
          /\ c.plan # "approved" => p.recovery = None
          /\ c.status = "failed" /\ c.plan = "approved" => p.recovery = RecoveryOf(sh, c)
      <4>1. IsEntry(r) /\ sh \in {r.id, None} /\ sh # None
        BY <1>1, <1>3, <2>1, <2>4 DEF IsHistory
      <4> QED
        BY <2>1, <2>4, <4>1, ProjectedFacts
    <3>2. /\ p.status \notin TerminalRecord => c.status = p.status /\ c.status \notin Terminal
          /\ p.status = "failed" => (o # None /\ o.status = "failed") \/ c.status = "failed"
      BY <2>1, <3>1, StatusFacts
    <3>3. /\ c.status # "none" /\ (c.status \in Live /\ o # None => o.status = "aborted")
          /\ c.status \in {"none"} \union Live \union Terminal
      BY <1>3, <2>1 DEF Cores
    <3>4. ql = sh => c.plan = "none"
      BY <1>3, <2>1
    <3> HIDE DEF p, c
    <3>5. ~IsTerminal(p) => p.id = cur /\ c.status \in Live
      BY <2>1, <3>1, <3>2, <3>3 DEF IsTerminal
    <3>6. p.id = ql => p.recovery = None
      BY <3>1, <3>4
    <3>7. HasLast(p, c)
      <4>1. c.status \in Live => p.status # "failed"
        BY <3>2, <3>3 DEF Live
      <4> QED
        BY <3>1, <4>1 DEF HasLast, Recoverable
    <3>8. c = ds[p.id]
      BY <3>1 DEF c
    <3> QED
      BY <1>3, <3>5, <3>6, <3>7, <3>8 DEF IsTrue, p
  <2> QED
    BY <2>2, <2>3, <2>4 DEF HistoryPart
<1> QED
  BY <1>2, <1>3

\* resetPresentation: without a workflow the current record loses its recovery data, and
\* the client is on no task.
LEMMA ResetPart ==
  ASSUME NEW h, NEW cs \in [Workflows -> Cores], NEW sh, NEW cur \in Workflows \union {None},
         cur # None => cs[cur].status \notin Live,
         NEW pl, NEW gone, HistoryPart(h, cs, sh, cur, pl, gone)
  PROVE  HistoryPart(Synced(h, cur, None, cs, None), cs, None, None, pl, gone)
<1>1. IsHistory(h) /\ \A r \in RecordsIn(h) : IsEntry(r) /\ IsTrue(r, cs, sh, cur, pl, gone)
  BY DEF HistoryPart, IsHistory
<1>2. \A r \in RecordsIn(h) : r.id \in Workflows /\ r.id # None
  BY <1>1, ClientAssumption DEF IsEntry, Entries
<1>3. /\ IsHistory(Synced(h, cur, None, cs, None))
      /\ \A s \in RecordsIn(Synced(h, cur, None, cs, None)) :
           \/ s \in RecordsIn(h) /\ s.id # cur
           \/ \E r \in RecordsIn(h) : r.id = cur /\ s = Projected(r, None, cs, None)
  BY <1>1, SyncedFacts
<1>4. ASSUME NEW s \in RecordsIn(h), s.id # cur PROVE IsTrue(s, cs, None, None, pl, gone)
  BY <1>1, <1>2, <1>4 DEF IsTrue
<1>5. ASSUME NEW r \in RecordsIn(h), r.id = cur
      PROVE  IsTrue(Projected(r, None, cs, None), cs, None, None, pl, gone)
  <2> DEFINE p == Projected(r, None, cs, None)
  <2>1. p.id = r.id /\ p.status = r.status /\ p.recovery = None
    BY <1>1, ProjectedFacts
  <2> HIDE DEF p
  <2>2. IsTerminal(p) \/ r.id \in gone
    BY <1>1, <1>2, <1>5, <2>1 DEF IsTrue, IsTerminal
  <2> QED
    BY <2>1, <2>2 DEF IsTrue, HasLast, Recoverable, p
<1> QED
  BY <1>3, <1>4, <1>5 DEF HistoryPart

\* What is left of a history, when neither the Core nor the session has changed.
LEMMA FewerPart ==
  ASSUME NEW h, NEW cs, NEW sh, NEW cur, NEW pl, NEW gone, HistoryPart(h, cs, sh, cur, pl, gone),
         NEW g \in Seq(Entries), RecordsIn(g) \subseteq RecordsIn(h)
  PROVE  HistoryPart(g, cs, sh, cur, pl, gone)
BY FewerRecords DEF HistoryPart

\* startRequirement: the record of the new workflow is active, and it is the current one.
LEMMA StartedPart ==
  ASSUME NEW h, NEW cs, NEW sh, NEW cur, NEW gone, NEW w \in Workflows,
         HistoryPart(h, cs, sh, cur, None, gone), cur # None => cs[cur].status \notin Live,
         NEW ds, ds[w].status = "planning", \A v \in Workflows \ {w} : ds[v] = cs[v]
  PROVE  HistoryPart(Put(h, [id |-> w, status |-> "planning", recovery |-> None]), ds, w, w, w, gone)
<1> DEFINE n == [id |-> w, status |-> "planning", recovery |-> None]
<1>1. IsEntry(n) /\ n.id = w /\ n.status = "planning" /\ n.recovery = None
  BY DEF IsEntry, Entries, Live
<1>2. IsHistory(h) /\ \A r \in RecordsIn(h) : IsEntry(r) /\ IsTrue(r, cs, sh, cur, None, gone)
  BY DEF HistoryPart, IsHistory
<1> HIDE DEF n
<1>3. /\ IsHistory(Put(h, n))
      /\ \A s \in RecordsIn(Put(h, n)) : s = n \/ (s \in RecordsIn(h) /\ s.id # w)
  BY <1>1, <1>2, PutFacts
<1>4. IsTrue(n, ds, w, w, w, gone)
  <2>1. w # None
    BY ClientAssumption
  <2> QED
    BY <1>1, <2>1 DEF IsTrue, HasLast, Recoverable, Live
<1>5. ASSUME NEW s \in RecordsIn(h), s.id # w PROVE IsTrue(s, ds, w, w, w, gone)
  <2>1. s.id \in Workflows /\ s.id # None
    BY <1>2, ClientAssumption DEF IsEntry, Entries
  <2> QED
    BY <1>2, <1>5, <2>1 DEF IsTrue
<1> QED
  BY <1>3, <1>4, <1>5 DEF HistoryPart, n

\* A step that projects the workflow it leaves shown on the current record, and changes
\* no other workflow.
LEMMA SyncedStep ==
  ASSUME ClientInv, Sync, shown' = shown, current' = current, let' = let,
         recovery' = recovery, disk' = disk, planning' \in {planning, None},
         core' \in [Workflows -> Cores], result' \in Outcomes \union {None},
         \A w \in Workflows : w # shown => core'[w] = core[w],
         shown # None =>
           /\ HasWork(core'[shown]) /\ core'[shown].status # "none"
           /\ core'[shown].status \in Live /\ result' # None => result'.status = "aborted",
         planning' # None => Requested(core'[planning'])
  PROVE  ClientInv'
<1>1. /\ shown \in Workflows \union {None} /\ current \in {shown, None}
      /\ planning \in Workflows \union {None}
      /\ HistoryPart(history, core, shown, current, planning, let)
  BY DEF ClientInv, ClientTypes, SessionPart
<1>2. HistoryPart(history', core', shown, current, planning', let)
  <2>1. history' = Synced(history, current, shown, core', result')
    BY DEF Sync
  <2>2. planning' # None => core'[planning'].plan = "none"
    BY DEF Requested
  <2> QED
    BY <1>1, <2>1, <2>2, SyncedPart
<1>3. ClientTypes'
  BY <1>1 DEF ClientInv, ClientTypes
<1>4. SessionPart'
  <2>1. \A w \in Workflows :
          /\ HasWork(core'[w]) /\ (core'[w].status \in Live => w = shown)
          /\ core'[w].status = "none" => core'[w].plan = "none"
    <3> SUFFICES ASSUME NEW w \in Workflows
                 PROVE  /\ HasWork(core'[w]) /\ (core'[w].status \in Live => w = shown)
                        /\ core'[w].status = "none" => core'[w].plan = "none"
      OBVIOUS
    <3>1. CASE w = shown
      BY <3>1, ClientAssumption
    <3>2. CASE w # shown
      BY <3>2 DEF ClientInv, SessionPart
    <3> QED
      BY <3>1, <3>2
  <2>2. current' # None => current' = shown'
    BY <1>1
  <2>3. ShownIsLive' /\ result' # None => result'.status = "aborted"
    BY DEF ShownIsLive
  <2> QED
    BY <2>1, <2>2, <2>3 DEF SessionPart
<1>5. HistoryPart(history, core, shown, current, planning, let)'
  BY <1>2
<1> QED
  BY <1>3, <1>4, <1>5 DEF ClientInv

\* A step of the history alone, that only takes records away.
LEMMA FewerStep ==
  ASSUME ClientInv, UNCHANGED <<core, session, window>>,
         history' \in Seq(Entries), RecordsIn(history') \subseteq RecordsIn(history),
         IsHistory(disk')
  PROVE  ClientInv'
<1>1. /\ core' = core /\ shown' = shown /\ recovery' = recovery /\ result' = result
      /\ current' = current /\ planning' = planning /\ let' = let
  BY DEF session, window
<1>2. HistoryPart(history', core, shown, current, planning, let)
  BY FewerPart DEF ClientInv
<1>3. ClientTypes'
  BY <1>1 DEF ClientInv, ClientTypes
<1>4. SessionPart'
  BY <1>1 DEF ClientInv, SessionPart, ShownIsLive
<1> QED
  BY <1>1, <1>2, <1>3, <1>4 DEF ClientInv

\* A step of a run: the workflow is the one shown, and no planning request is out for a
\* workflow that runs.
LEMMA RunStep ==
  ASSUME ClientInv, NEW w \in Workflows, core[w].status = "running",
         NEW c \in Cores, c.status # "none", HasWork(c), core' = [core EXCEPT ![w] = c],
         Sync, UNCHANGED <<shown, recovery>>, UNCHANGED <<window, files>>,
         \/ c.status = "running" /\ result' = result
         \/ c.status \in Terminal /\ result' = [workflow |-> w, status |-> c.status]
  PROVE  ClientInv'
<1>1. /\ core \in [Workflows -> Cores] /\ w = shown /\ w # None /\ ShownIsLive
      /\ result \in Outcomes \union {None}
  BY ClientAssumption DEF ClientInv, ClientTypes, SessionPart, Live, ShownIsLive
<1>2. /\ core' \in [Workflows -> Cores] /\ core'[w] = c
      /\ \A v \in Workflows : v # shown => core'[v] = core[v]
  BY <1>1
<1>3. result' \in Outcomes \union {None}
  BY <1>1 DEF Outcomes
<1>4. c.status \in Live /\ result' # None => result'.status = "aborted"
  BY <1>1 DEF Live, Terminal, ClientInv, SessionPart
<1>5. /\ shown' = shown /\ recovery' = recovery /\ current' = current /\ let' = let
      /\ disk' = disk /\ planning' = planning
  BY DEF window, files
<1>6. planning' # None => Requested(core'[planning'])
  <2>1. planning # None => Requested(core[planning]) /\ planning \in Workflows
    BY DEF ClientInv, ClientTypes
  <2>2. planning # w \/ planning = None
    BY <2>1 DEF Requested
  <2> QED
    BY <1>1, <1>2, <1>5, <2>1, <2>2
<1> QED
  BY <1>1, <1>2, <1>3, <1>4, <1>5, <1>6, SyncedStep

\* The next task of a plan that is not done is one of its tasks.
LEMMA NextTaskFacts ==
  ASSUME NEW c \in Cores, c.done # PlanTasks
  PROVE  NextTask(c) \in PlanTasks
<1>1. /\ Len(Plan) \in Nat /\ DOMAIN Plan = 1 .. Len(Plan)
      /\ Todo(c) \in SUBSET (0 .. Len(Plan)) /\ Todo(c) \subseteq DOMAIN Plan
  BY ClientAssumption DEF Todo
<1>2. Todo(c) # {}
  BY DEF Todo, PlanTasks, Cores
<1>3. \E i \in Todo(c) : \A j \in Todo(c) : i <= j
  BY <1>1, <1>2, LeastNumber
<1> QED
  BY <1>1, <1>3 DEF NextTask, PlanTasks

\* A workflow that is not there has everything to do.
LEMMA UnknownFacts ==
  /\ Unknown \in Cores /\ Unknown.status = "none" /\ Unknown.plan = "none"
  /\ HasWork(Unknown)
<1>1. Len(Plan) \in Nat /\ DOMAIN Plan = 1 .. Len(Plan) /\ Len(Plan) # 0
  BY ClientAssumption
<1>2. 1 \in DOMAIN Plan
  BY <1>1
<1>3. PlanTasks # {}
  BY <1>2 DEF PlanTasks
<1> QED
  BY <1>3 DEF Unknown, Cores, StoreStatuses, HasWork

\* At the start there is neither a workflow nor a record.
LEMMA ClientInitially == ClientInit => ClientInv
<1> SUFFICES ASSUME ClientInit PROVE ClientInv
  OBVIOUS
<1>3. IsHistory(<< >>) /\ RecordsIn(<< >>) = {}
  BY DEF IsHistory, RecordsIn
<1>4. ClientTypes
  BY UnknownFacts, <1>3 DEF ClientInit, ClientTypes
<1>5. SessionPart
  BY UnknownFacts DEF ClientInit, SessionPart, ShownIsLive, Live
<1>6. HistoryPart(history, core, shown, current, planning, let)
  BY <1>3 DEF ClientInit, HistoryPart
<1> QED
  BY <1>4, <1>5, <1>6 DEF ClientInv, ClientInit

\* submitRequirement and retryPlanning: one workflow is at work after it, the new one.
LEMMA StartStep ==
  ASSUME ClientInv, NEW w \in Workflows, NEW h, NEW sh, NEW cur,
         HistoryPart(h, core, sh, cur, None, let), cur # None => core[cur].status \notin Live,
         Start(w, h), UNCHANGED <<leaving, let, files>>
  PROVE  ClientInv'
<1>1. /\ core \in [Workflows -> Cores] /\ core[w] \in Cores /\ core[w].status = "none"
      /\ core[w].plan = "none" /\ HasWork(core[w]) /\ w # None
      /\ \A v \in Workflows : core[v].status \notin Live
  BY ClientAssumption DEF ClientInv, ClientTypes, SessionPart, Start, ShownIsLive
<1>2. /\ core' = [core EXCEPT ![w].status = "planning"]
      /\ shown' = w /\ current' = w /\ planning' = w /\ recovery' = None /\ result' = None
      /\ history' = Put(h, [id |-> w, status |-> "planning", recovery |-> None])
      /\ let' = let /\ disk' = disk
  BY DEF Start, files
<1>3. /\ core'[w] \in Cores /\ core'[w].status = "planning" /\ core'[w].plan = "none"
      /\ core'[w].done = core[w].done /\ \A v \in Workflows \ {w} : core'[v] = core[v]
      /\ core' \in [Workflows -> Cores]
  BY <1>1, <1>2 DEF Cores, Live
<1>4. HistoryPart(history', core', w, w, w, let)
  BY <1>2, <1>3, StartedPart
<1>5. ClientTypes'
  BY <1>2, <1>3 DEF ClientInv, ClientTypes
<1>6. SessionPart'
  <2>1. \A v \in Workflows :
          /\ HasWork(core'[v]) /\ (core'[v].status \in Live => v = w)
          /\ core'[v].status = "none" => core'[v].plan = "none"
    BY <1>1, <1>3 DEF HasWork, ClientInv, SessionPart
  <2> QED
    BY <1>2, <1>3, <2>1 DEF SessionPart
<1>7. Requested(core'[w])
  BY <1>3 DEF Requested
<1> QED
  BY <1>2, <1>4, <1>5, <1>6, <1>7 DEF ClientInv

\* The history after resetPresentation.
LEMMA ResetFacts ==
  ASSUME ClientInv, ~ShownIsLive
  PROVE  /\ HistoryPart(Reset, core, None, None, planning, let)
         /\ current # None => core[current].status \notin Live
<1>1. /\ core \in [Workflows -> Cores] /\ current \in Workflows \union {None}
      /\ current # None => current = shown
      /\ HistoryPart(history, core, shown, current, planning, let)
  BY DEF ClientInv, ClientTypes, SessionPart
<1>2. current # None => core[current].status \notin Live
  BY <1>1 DEF ShownIsLive
<1> QED
  BY <1>1, <1>2, ResetPart DEF Reset

\* newTask, and the part of editRequirement that resets: nothing is shown.
LEMMA ResetStep ==
  ASSUME ClientInv, ~ShownIsLive, history' = Reset, shown' = None, recovery' = None,
         result' = None, current' = None, core' = core, planning' = planning, let' = let,
         disk' = disk
  PROVE  ClientInv'
<1>1. ClientTypes'
  BY DEF ClientInv, ClientTypes
<1>2. SessionPart'
  BY DEF ClientInv, SessionPart, ShownIsLive
<1>3. HistoryPart(Reset, core, None, None, planning, let)
  BY ResetFacts
<1> QED
  BY <1>1, <1>2, <1>3 DEF ClientInv

\* editRequirement while a workflow is at work: its record is let go of, and has nothing
\* that a reload could take.
LEMMA EditStep ==
  ASSUME ClientInv, EditRequirement
  PROVE  ClientInv'
<1>1. /\ current' = None /\ core' = core /\ planning' = planning /\ disk' = disk
  BY DEF EditRequirement, files
<1>2. CASE ShownIsLive
  <2>1. /\ let' = let \union ({current} \ {None}) /\ history' = history
        /\ shown' = shown /\ recovery' = recovery /\ result' = result
    BY <1>2 DEF EditRequirement, session
  <2>2. IsHistory(history) /\ \A r \in RecordsIn(history) :
          IsEntry(r) /\ IsTrue(r, core, shown, current, planning, let)
    BY DEF ClientInv, HistoryPart, IsHistory
  <2>3. ASSUME NEW r \in RecordsIn(history) PROVE IsTrue(r, core, shown, None, planning, let')
    <3>1. /\ IsTrue(r, core, shown, current, planning, let) /\ r.id # None
      BY <2>2, ClientAssumption DEF IsEntry, Entries
    <3>2. ~IsTerminal(r) => r.id \in let'
      BY <2>1, <3>1 DEF IsTrue
    <3>3. r.id = shown => ~Recoverable(r)
      BY <1>2, <3>1 DEF IsTrue, HasLast, ShownIsLive
    <3> QED
      BY <3>1, <3>2, <3>3 DEF IsTrue
  <2>4. HistoryPart(history', core', shown', current', planning', let')
    BY <1>1, <2>1, <2>2, <2>3 DEF HistoryPart
  <2>5. ClientTypes'
    BY <1>1, <2>1 DEF ClientInv, ClientTypes
  <2>6. SessionPart'
    BY <1>1, <2>1 DEF ClientInv, SessionPart, ShownIsLive
  <2> QED
    BY <1>1, <2>4, <2>5, <2>6 DEF ClientInv
<1>3. CASE ~ShownIsLive
  <2>1. /\ history' = Reset /\ shown' = None /\ recovery' = None /\ result' = None /\ let' = let
    BY <1>3 DEF EditRequirement
  <2> QED
    BY <1>1, <1>3, <2>1, ResetStep
<1> QED
  BY <1>2, <1>3

\* The Planner fails, or comes back to an abort: the record of the request is closed, and
\* has nothing to recover.
LEMMA PlannerFailsStep ==
  ASSUME ClientInv, PlannerFails
  PROVE  ClientInv'
<1> DEFINE synced == Synced(history, current, shown, core', result)
           own == {i \in DOMAIN synced : synced[i].id = planning}
<1>1. /\ planning # None /\ planning' = None /\ shown' = shown /\ recovery' = recovery
      /\ result' = result /\ current' = current /\ let' = let /\ disk' = disk
      /\ core' = IF core[planning].status \in Live
                 THEN [core EXCEPT ![planning].status = "failed"] ELSE core
  BY DEF PlannerFails, session, files
<1>2. /\ planning \in Workflows /\ Requested(core[planning]) /\ core \in [Workflows -> Cores]
      /\ shown \in Workflows \union {None} /\ current \in {shown, None}
      /\ result \in Outcomes \union {None}
      /\ HistoryPart(history, core, shown, current, planning, let)
      /\ core[planning].status \in Live => planning = shown
  BY <1>1 DEF ClientInv, ClientTypes, SessionPart
<1>3. /\ core' \in [Workflows -> Cores] /\ core'[planning].plan = "none"
      /\ core'[planning].status \in {"failed", "aborted"}
      /\ \A w \in Workflows : w # planning \/ w # shown => core'[w] = core[w]
  BY <1>1, <1>2 DEF Cores, Requested, Live, Terminal
<1>4. /\ \A w \in Workflows : w # shown => core'[w] = core[w]
      /\ \A w \in Workflows : core'[w].status \in Live => core[w].status \in Live
      /\ \A w \in Workflows : core'[w] = core[w] \/ core'[w].status = "failed"
  BY <1>1, <1>2, <1>3 DEF Live
<1>5. shown # None =>
        /\ core'[shown].status # "none"
        /\ core'[shown].status \in Live /\ result # None => result.status = "aborted"
  BY <1>1, <1>2, <1>4 DEF ClientInv, SessionPart, ShownIsLive
<1>6. HistoryPart(synced, core', shown, current, planning, let)
  <2>1. /\ result \in Outcomes \union {None} /\ shown \in Workflows \union {None}
        /\ current \in {shown, None} /\ planning \in Workflows \union {None}
        /\ planning \in {planning, None} /\ core' \in [Workflows -> Cores]
        /\ HistoryPart(history, core, shown, current, planning, let)
    BY <1>1, <1>2, <1>3
  <2>2. /\ \A w \in Workflows : w # shown => core'[w] = core[w]
        /\ planning # None => core'[planning].plan = "none"
    BY <1>3, <1>4
  <2> QED
    BY <1>5, <2>1, <2>2, SyncedPart
<1>7. HistoryPart(history', core', shown, current, planning, let)
  <2>0. history' = IF \E i \in own : ~IsTerminal(synced[i])
                   THEN Put(synced, [RecordOf(synced, planning) EXCEPT !.status = "failed"])
                   ELSE synced
    BY Zenon DEF PlannerFails
  <2>1. CASE ~\E i \in own : ~IsTerminal(synced[i])
    <3>1. history' = synced
      BY <2>0, <2>1, Zenon
    <3> QED
      BY <1>6, <3>1
  <2>2. CASE \E i \in own : ~IsTerminal(synced[i])
    <3> DEFINE r == RecordOf(synced, planning)
               f == [r EXCEPT !.status = "failed"]
    <3>1. history' = Put(synced, f)
      BY <2>0, <2>2, Zenon
    <3>2. r \in RecordsIn(synced) /\ r.id = planning
      BY <2>2 DEF RecordOf, RecordsIn
    <3> HIDE DEF synced, r
    <3>3. /\ IsHistory(synced) /\ IsEntry(r)
          /\ \A s \in RecordsIn(synced) : IsTrue(s, core', shown, current, planning, let)
      BY <1>6, <3>2 DEF HistoryPart, IsHistory
    <3>4. r.recovery = None /\ r \in Entries
      BY <3>2, <3>3 DEF IsTrue, IsEntry
    <3>5. f \in Entries /\ f.id = planning /\ f.status = "failed" /\ f.recovery = None
      BY <3>2, <3>4 DEF Entries, Terminal, TerminalRecord
    <3> HIDE DEF f
    <3>6. IsEntry(f)
      BY <3>5 DEF IsEntry
    <3>7. /\ IsHistory(history')
          /\ \A s \in RecordsIn(history') : s = f \/ s \in RecordsIn(synced)
      BY <3>1, <3>3, <3>6, PutFacts
    <3>8. IsTrue(f, core', shown, current, planning, let)
      BY <3>5 DEF IsTrue, IsTerminal, HasLast, Recoverable, Terminal, TerminalRecord
    <3> QED
      BY <3>3, <3>7, <3>8 DEF HistoryPart
  <2> QED
    BY <2>1, <2>2
<1>8. HistoryPart(history', core', shown, current, None, let)
  <2>1. \A s \in RecordsIn(history') : s.id # None
    BY <1>7, ClientAssumption DEF HistoryPart, IsHistory, IsEntry, Entries
  <2> QED
    BY <1>7, <2>1 DEF HistoryPart, IsTrue
<1>9. ClientTypes'
  BY <1>1, <1>3 DEF ClientInv, ClientTypes
<1>10. SessionPart'
  <2>1. \A w \in Workflows :
          /\ HasWork(core'[w]) /\ (core'[w].status \in Live => w = shown)
          /\ core'[w].status = "none" => core'[w].plan = "none"
    <3> SUFFICES ASSUME NEW w \in Workflows
                 PROVE  /\ HasWork(core'[w]) /\ (core'[w].status \in Live => w = shown)
                        /\ core'[w].status = "none" => core'[w].plan = "none"
      OBVIOUS
    <3>1. HasWork(core[w]) /\ (core[w].status = "none" => core[w].plan = "none")
          /\ (core[w].status \in Live => w = shown)
      BY DEF ClientInv, SessionPart
    <3> QED
      BY <1>4, <3>1 DEF HasWork, Live
  <2>2. ShownIsLive' /\ result' # None => result'.status = "aborted"
    BY <1>1, <1>5 DEF ShownIsLive
  <2> QED
    BY <1>1, <1>2, <1>5, <2>1, <2>2 DEF SessionPart
<1>11. HistoryPart(history, core, shown, current, planning, let)'
  BY <1>1, <1>8
<1> QED
  BY <1>1, <1>9, <1>10, <1>11 DEF ClientInv

\* markInterrupted: a record is one the file had, closed when it was active.
LEMMA InterruptedFacts ==
  ASSUME NEW h, IsHistory(h)
  PROVE  /\ IsHistory(Interrupted(h))
         /\ \A s \in RecordsIn(Interrupted(h)) :
              IsTerminal(s) /\ (s \in RecordsIn(h) \/ s.status = "interrupted")
<1> DEFINE lost == Those(h, Active(h))
           rest == Those(h, RecordsIn(h) \ Active(h))
           Closed(r) == [r EXCEPT !.status = "interrupted"]
           marked == [i \in DOMAIN lost |-> Closed(lost[i])]
           q == marked \o rest
<1>1. h \in Seq(Entries) /\ \A r \in RecordsIn(h) : IsEntry(r)
  BY DEF IsHistory
<1>2. lost \in Seq(Entries) /\ RecordsIn(lost) = RecordsIn(h) \intersect Active(h)
  BY <1>1, ThoseRecords
<1>3. rest \in Seq(Entries) /\ RecordsIn(rest) = RecordsIn(h) \intersect (RecordsIn(h) \ Active(h))
  BY <1>1, ThoseRecords
<1> HIDE DEF lost, rest
<1>4. ASSUME NEW r \in RecordsIn(h)
      PROVE  /\ IsEntry(Closed(r)) /\ Closed(r).id = r.id /\ Closed(r).status = "interrupted"
             /\ IsTerminal(Closed(r))
  <2>1. r \in Entries /\ (r.recovery # None => r.recovery.workflow = r.id)
    BY <1>1 DEF IsEntry
  <2>2. /\ Closed(r) \in Entries /\ Closed(r).id = r.id /\ Closed(r).status = "interrupted"
        /\ Closed(r).recovery = r.recovery
    BY <2>1 DEF Entries, TerminalRecord
  <2> HIDE DEF Closed
  <2> QED
    BY <2>1, <2>2 DEF IsEntry, IsTerminal, TerminalRecord
<1> HIDE DEF Closed
<1>5. /\ marked \in Seq(Entries)
      /\ \A s \in RecordsIn(marked) : \E r \in Active(h) : s = Closed(r)
  <2>1. Len(lost) \in Nat /\ DOMAIN lost = 1 .. Len(lost) /\ \A i \in DOMAIN lost : lost[i] \in RecordsIn(lost)
    BY <1>2 DEF RecordsIn
  <2>2. \A i \in DOMAIN lost : marked[i] \in Entries /\ lost[i] \in Active(h)
    BY <1>2, <1>4, <2>1 DEF IsEntry
  <2>3. marked \in Seq(Entries)
    BY <2>1, <2>2
  <2> QED
    BY <2>2, <2>3 DEF RecordsIn
<1> HIDE DEF marked
<1>6. q \in Seq(Entries) /\ RecordsIn(q) = RecordsIn(marked) \union RecordsIn(rest)
  BY <1>3, <1>5, JoinedRecords
<1> HIDE DEF q
<1>7. Interrupted(h) \in Seq(Entries) /\ RecordsIn(Interrupted(h)) \subseteq RecordsIn(q)
  BY <1>6, RetainFacts DEF Interrupted, q, marked, Closed, lost, rest
<1>8. \A s \in RecordsIn(Interrupted(h)) :
        \E r \in RecordsIn(h) :
          \/ r \in Active(h) /\ s = Closed(r)
          \/ r \notin Active(h) /\ s = r
  BY <1>3, <1>5, <1>6, <1>7 DEF Active
<1>9. \A s \in RecordsIn(Interrupted(h)) :
        /\ IsEntry(s) /\ IsTerminal(s) /\ (s \in RecordsIn(h) \/ s.status = "interrupted")
  BY <1>1, <1>4, <1>8 DEF Active
<1>10. ASSUME NEW s \in RecordsIn(Interrupted(h)), NEW t \in RecordsIn(Interrupted(h)), s.id = t.id
       PROVE  s = t
  <2>1. PICK r \in RecordsIn(h) : \/ r \in Active(h) /\ s = Closed(r)
                                  \/ r \notin Active(h) /\ s = r
    BY <1>8
  <2>2. PICK u \in RecordsIn(h) : \/ u \in Active(h) /\ t = Closed(u)
                                  \/ u \notin Active(h) /\ t = u
    BY <1>8
  <2>3. r.id = s.id /\ u.id = t.id
    BY <1>4, <2>1, <2>2
  <2>4. r = u
    BY <1>10, <2>3 DEF IsHistory
  <2> QED
    BY <2>1, <2>2, <2>4
<1> QED
  BY <1>7, <1>9, <1>10 DEF IsHistory

\* The Core that a record's recovery data makes has that data again.
LEMMA RestoredFacts ==
  ASSUME NEW rec \in Recoveries
  PROVE  LET c == RestoredFrom(rec) IN
         /\ c \in Cores /\ c.status = "failed" /\ c.plan = "approved"
         /\ RecoveryOf(rec.workflow, c) = rec
<1> DEFINE c == RestoredFrom(rec)
<1>1. /\ rec.workflow \in Workflows /\ rec.store \in [PlanTasks -> StoreStatuses]
      /\ rec.failedTask \in PlanTasks \union {None}
      /\ rec = [workflow |-> rec.workflow, store |-> rec.store, failedTask |-> rec.failedTask]
  BY DEF Recoveries
<1>2. /\ c \in Cores /\ c.status = "failed" /\ c.plan = "approved"
      /\ c.store = rec.store /\ c.failedTask = rec.failedTask
  BY <1>1 DEF RestoredFrom, Unknown, Cores, Terminal
<1> HIDE DEF c
<1>3. RecoveryOf(rec.workflow, c) = rec
  BY <1>1, <1>2 DEF RecoveryOf
<1> QED
  BY <1>2, <1>3 DEF c

\* A reload: at most the workflow of the restored record is there, with that record's data.
LEMMA ReloadStep ==
  ASSUME ClientInv, Reload
  PROVE  ClientInv'
<1> DEFINE loaded == Retain(disk, retention)
           failed == {i \in DOMAIN loaded : loaded[i].status = "failed" /\ loaded[i].recovery # None}
<1>1. PICK open \in SUBSET failed :
        LET newest == CHOOSE i \in open : \A j \in open : i <= j
            rec == loaded[newest].recovery
            found == open # {} /\ rec.store[rec.failedTask] = "failed"
        IN  /\ core' = [w \in Workflows |->
                          IF found /\ w = rec.workflow THEN RestoredFrom(rec) ELSE Unknown]
            /\ shown' = IF found THEN rec.workflow ELSE None
            /\ recovery' = IF found THEN rec ELSE None
            /\ current' = IF found THEN loaded[newest].id ELSE None
            /\ history' = Interrupted(loaded)
  BY Zenon DEF Reload
<1> DEFINE newest == CHOOSE i \in open : \A j \in open : i <= j
           rec == loaded[newest].recovery
           found == open # {} /\ rec.store[rec.failedTask] = "failed"
<1>2. /\ core' = [w \in Workflows |->
                    IF found /\ w = rec.workflow THEN RestoredFrom(rec) ELSE Unknown]
      /\ shown' = IF found THEN rec.workflow ELSE None
      /\ recovery' = IF found THEN rec ELSE None
      /\ current' = IF found THEN loaded[newest].id ELSE None
      /\ history' = Interrupted(loaded)
  BY <1>1, Zenon
<1>3. result' = None /\ planning' = None /\ let' = {} /\ (disk' = disk \/ disk' = << >>)
  BY DEF Reload
<1>4. IsHistory(loaded)
  <2>1. IsHistory(disk) /\ disk \in Seq(Entries)
    BY DEF ClientInv, ClientTypes, IsHistory
  <2>2. loaded \in Seq(Entries) /\ RecordsIn(loaded) \subseteq RecordsIn(disk)
    BY <2>1, RetainFacts
  <2> QED
    BY <2>1, <2>2, FewerRecords
<1> HIDE DEF loaded
<1>5. open # {} => newest \in open
  <2>1. open \in SUBSET (0 .. Len(loaded)) /\ Len(loaded) \in Nat
    BY <1>4 DEF IsHistory
  <2>2. open # {} => \E i \in open : \A j \in open : i <= j
    BY <2>1, LeastNumber
  <2> QED
    BY <2>2
<1> HIDE DEF newest
<1>6. found => /\ loaded[newest] \in RecordsIn(loaded) /\ loaded[newest].status = "failed"
               /\ rec \in Recoveries /\ rec.workflow = loaded[newest].id
               /\ rec.workflow \in Workflows
  <2> SUFFICES ASSUME found PROVE /\ loaded[newest] \in RecordsIn(loaded) /\ loaded[newest].status = "failed"
                                  /\ rec \in Recoveries /\ rec.workflow = loaded[newest].id
                                  /\ rec.workflow \in Workflows
    OBVIOUS
  <2>1. newest \in DOMAIN loaded /\ loaded[newest].status = "failed" /\ rec # None
    BY <1>5
  <2>2. loaded[newest] \in RecordsIn(loaded)
    BY <2>1 DEF RecordsIn
  <2>3. IsEntry(loaded[newest])
    BY <1>4, <2>2 DEF IsHistory
  <2> QED
    BY <2>1, <2>2, <2>3 DEF IsEntry, Entries
<1> HIDE DEF rec, found
<1>7. /\ Unknown \in Cores /\ Unknown.status = "none" /\ Unknown.plan = "none"
      /\ HasWork(Unknown)
  BY UnknownFacts
<1>8. found => /\ RestoredFrom(rec) \in Cores
               /\ RestoredFrom(rec).status = "failed" /\ RestoredFrom(rec).plan = "approved"
               /\ RecoveryOf(rec.workflow, RestoredFrom(rec)) = rec
  BY <1>6, RestoredFacts
<1>9. \A w \in Workflows :
        \/ core'[w] = Unknown
        \/ found /\ w = rec.workflow /\ core'[w] = RestoredFrom(rec)
  BY <1>2
<1>10. found => core'[rec.workflow] = RestoredFrom(rec)
  BY <1>2, <1>6
<1>11. IsHistory(disk')
  <2>1. IsHistory(<< >>)
    BY DEF IsHistory, RecordsIn
  <2>2. IsHistory(disk)
    BY DEF ClientInv, ClientTypes
  <2> QED
    BY <1>3, <2>1, <2>2
<1>12. ClientTypes'
  <2>1. core' \in [Workflows -> Cores]
    BY <1>2, <1>7, <1>8
  <2>2. /\ {shown', current', planning'} \subseteq Workflows \union {None}
        /\ recovery' \in Recoveries \union {None} /\ result' \in Outcomes \union {None}
    BY <1>2, <1>3, <1>6
  <2> QED
    BY <1>11, <2>1, <2>2 DEF ClientTypes
<1>13. SessionPart'
  <2>1. \A w \in Workflows : /\ core'[w].status \in {"none", "failed"} /\ HasWork(core'[w])
                             /\ core'[w].status = "none" => core'[w].plan = "none"
    BY <1>7, <1>8, <1>9 DEF HasWork, Live
  <2>2. shown' # None => core'[shown'].status # "none"
    BY <1>2, <1>8, <1>10
  <2>3. current' # None => current' = shown'
    BY <1>2, <1>6
  <2> QED
    BY <1>3, <2>1, <2>2, <2>3 DEF SessionPart, Live
<1>14. HistoryPart(history', core', shown', current', None, {})
  <2>1. /\ IsHistory(history')
        /\ \A s \in RecordsIn(history') :
             IsTerminal(s) /\ (s \in RecordsIn(loaded) \/ s.status = "interrupted")
    BY <1>2, <1>4, InterruptedFacts
  <2>2. ASSUME NEW s \in RecordsIn(history')
        PROVE  IsTrue(s, core', shown', current', None, {})
    <3>1. s.id \in Workflows /\ s.id # None
      BY <2>1, ClientAssumption DEF IsHistory, IsEntry, Entries
    <3>2. HasLast(s, core'[s.id])
      <4> SUFFICES ASSUME Recoverable(s)
                   PROVE  /\ core'[s.id].status \notin Live
                          /\ core'[s.id].status = "failed" /\ core'[s.id].plan = "approved" =>
                               s.recovery = RecoveryOf(s.id, core'[s.id])
        BY DEF HasLast
      <4>1. CASE core'[s.id] = Unknown
        BY <1>7, <4>1 DEF Live
      <4>2. CASE found /\ s.id = rec.workflow /\ core'[s.id] = RestoredFrom(rec)
        <5>1. s \in RecordsIn(loaded)
          BY <2>1 DEF Recoverable
        <5>2. s = loaded[newest]
          BY <1>4, <1>6, <4>2, <5>1 DEF IsHistory
        <5> QED
          BY <1>8, <4>2, <5>2 DEF Live, rec
      <4> QED
        BY <1>9, <3>1, <4>1, <4>2
    <3>3. current' = None => shown' = None
      BY <1>2, <1>6, ClientAssumption
    <3> QED
      BY <2>1, <3>1, <3>2, <3>3 DEF IsTrue
  <2> QED
    BY <2>1, <2>2 DEF HistoryPart
<1> QED
  BY <1>3, <1>12, <1>13, <1>14 DEF ClientInv

\* The operations of a plan: the Planner's answer, the user's, and abort.
LEMMA PlanSteps ==
  ASSUME ClientInv, PlannerAnswers \/ ApproveAndRun \/ RejectPlan \/ Abort
  PROVE  ClientInv'
<1> DEFINE c == core'[shown]
<1>1. /\ core \in [Workflows -> Cores] /\ result \in Outcomes \union {None}
      /\ shown \in Workflows \union {None}
  BY DEF ClientInv, ClientTypes
<1>2. ShownIsLive
  BY <1>1 DEF ClientInv, ClientTypes, SessionPart, ShownIsLive, Live, PlannerAnswers, ApproveAndRun,
              RejectPlan, Abort
<1>3. shown \in Workflows /\ core[shown] \in Cores /\ HasWork(core[shown])
      /\ core[shown].done # PlanTasks /\ (result # None => result.status = "aborted")
  BY <1>1, <1>2 DEF ClientInv, SessionPart, ShownIsLive, HasWork
<1>4. /\ shown' = shown /\ recovery' = recovery /\ result' = result /\ current' = current
      /\ let' = let /\ disk' = disk /\ Sync
  BY DEF PlannerAnswers, ApproveAndRun, RejectPlan, Abort, session, window, files
<1>5. CASE PlannerAnswers
  <2>1. planning = shown
    BY <1>1, <1>5 DEF PlannerAnswers, ClientInv, ClientTypes, SessionPart, Live
  <2>2. core' = [core EXCEPT ![shown].status = "awaiting_plan_approval", ![shown].plan = "draft"]
        /\ planning' = None
    BY <1>5, <2>1 DEF PlannerAnswers
  <2>3. /\ core' \in [Workflows -> Cores] /\ c.status = "awaiting_plan_approval"
        /\ c.done = core[shown].done /\ \A w \in Workflows : w # shown => core'[w] = core[w]
    BY <1>1, <1>3, <2>2 DEF Cores, Live
  <2> QED
    BY <1>1, <1>3, <1>4, <2>2, <2>3, SyncedStep DEF HasWork
<1>6. CASE ApproveAndRun
  <2>1. /\ core' = [core EXCEPT ![shown].status = "running", ![shown].plan = "approved",
                                ![shown].runtime = TRUE]
        /\ planning = None /\ planning' = None
    BY <1>6 DEF ApproveAndRun, window
  <2>2. /\ core' \in [Workflows -> Cores] /\ c.status = "running"
        /\ c.done = core[shown].done /\ \A w \in Workflows : w # shown => core'[w] = core[w]
    BY <1>1, <1>3, <2>1 DEF Cores, Live
  <2> QED
    BY <1>1, <1>3, <1>4, <2>1, <2>2, SyncedStep DEF HasWork
<1>7. CASE RejectPlan
  <2>1. /\ core' = [core EXCEPT ![shown].status = "failed", ![shown].plan = "rejected"]
        /\ planning = None /\ planning' = None
    BY <1>7 DEF RejectPlan, window
  <2>2. /\ core' \in [Workflows -> Cores] /\ c.status = "failed"
        /\ \A w \in Workflows : w # shown => core'[w] = core[w]
    BY <1>1, <1>3, <2>1 DEF Cores, Terminal
  <2> QED
    BY <1>1, <1>3, <1>4, <2>1, <2>2, SyncedStep DEF HasWork, Live
<1>8. CASE Abort
  <2>1. /\ core' = [core EXCEPT ![shown].status = "aborted", ![shown].task = None]
        /\ planning' = planning
    BY <1>8 DEF Abort
  <2>2. /\ core' \in [Workflows -> Cores] /\ c.status = "aborted" /\ c.plan = core[shown].plan
        /\ \A w \in Workflows : w # shown => core'[w] = core[w]
    BY <1>1, <1>3, <2>1 DEF Cores, Terminal
  <2>3. planning # None => planning \in Workflows /\ Requested(core[planning])
    BY DEF ClientInv, ClientTypes
  <2>4. planning' # None => Requested(core'[planning'])
    BY <2>1, <2>2, <2>3 DEF Requested
  <2> QED
    BY <1>1, <1>3, <1>4, <2>1, <2>2, <2>4, SyncedStep DEF HasWork, Live
<1> QED
  BY <1>5, <1>6, <1>7, <1>8

\* The steps of a run that is under way, the last one of them included.
LEMMA RunSteps ==
  ASSUME ClientInv, NEW w \in Workflows,
         \/ TaskBegins(w) \/ TaskPasses(w) \/ AttemptFails(w) \/ ChecksFail(w) \/ RunBreaks(w)
  PROVE  ClientInv'
<1> DEFINE c == core[w]
<1>1. /\ c \in Cores /\ c.status = "running" /\ c.done # PlanTasks
      /\ c.task \in PlanTasks \union {None} /\ c.done \in SUBSET PlanTasks
      /\ c.store \in [PlanTasks -> StoreStatuses]
  BY DEF ClientInv, ClientTypes, SessionPart, HasWork, Live, Cores,
         TaskBegins, TaskPasses, AttemptFails, ChecksFail, RunBreaks
<1>2. NextTask(c) \in PlanTasks
  BY <1>1, NextTaskFacts
<1>3. /\ Sync /\ UNCHANGED <<shown, recovery>> /\ UNCHANGED <<window, files>>
  BY DEF TaskBegins, TaskPasses, AttemptFails, ChecksFail, RunBreaks, Ends, session
<1>4. CASE TaskBegins(w)
  <2> DEFINE d == [c EXCEPT !.task = NextTask(c), !.store[NextTask(c)] = "running"]
  <2>1. /\ d \in Cores /\ d.status = "running" /\ d.done = c.done
    BY <1>1, <1>2 DEF Cores, StoreStatuses
  <2>2. core' = [core EXCEPT ![w] = d] /\ result' = result
    <3>1. core' = [core EXCEPT ![w].task = NextTask(core[w]), ![w].store[NextTask(core[w])] = "running"]
      BY <1>4 DEF TaskBegins
    <3>2. core \in [Workflows -> Cores]
      BY DEF ClientInv, ClientTypes
    <3> QED
      BY <1>4, <3>1, <3>2 DEF TaskBegins, session
  <2> HIDE DEF d
  <2>3. HasWork(d) /\ d.status # "none"
    BY <1>1, <2>1 DEF HasWork
  <2> QED
    BY <1>1, <1>3, <2>1, <2>2, <2>3, RunStep
<1>5. CASE TaskPasses(w)
  <2> DEFINE d == [c EXCEPT !.task = None, !.store[c.task] = "completed", !.done = @ \union {c.task}]
             e == [d EXCEPT !.status = "completed"]
  <2>1. c.task \in PlanTasks
    BY <1>1, <1>5 DEF TaskPasses
  <2>2. d \in Cores /\ d.status = "running"
    BY <1>1, <2>1 DEF Cores, StoreStatuses
  <2>3. /\ d.done = PlanTasks => Ends(w, e)
        /\ d.done # PlanTasks => core' = [core EXCEPT ![w] = d] /\ result' = result
    BY <1>5 DEF TaskPasses, session
  <2> HIDE DEF d
  <2>4. e \in Cores /\ e.status = "completed"
    BY <2>2 DEF Cores, Terminal
  <2> HIDE DEF e
  <2>5. CASE d.done = PlanTasks
    <3>1. core' = [core EXCEPT ![w] = e] /\ result' = [workflow |-> w, status |-> e.status]
      BY <2>3, <2>5 DEF Ends
    <3>2. HasWork(e) /\ e.status # "none" /\ e.status \in Terminal
      BY <2>4 DEF HasWork, Live, Terminal
    <3> QED
      BY <1>1, <1>3, <2>4, <3>1, <3>2, RunStep
  <2>6. CASE d.done # PlanTasks
    <3>1. HasWork(d) /\ d.status # "none"
      BY <2>2, <2>6 DEF HasWork
    <3> QED
      BY <1>1, <1>3, <2>2, <2>3, <2>6, <3>1, RunStep
  <2> QED
    BY <2>5, <2>6
<1>6. ASSUME NEW d \in Cores, d.status = "failed", Ends(w, d)
      PROVE  ClientInv'
  <2>1. core' = [core EXCEPT ![w] = d] /\ result' = [workflow |-> w, status |-> d.status]
    BY <1>6 DEF Ends
  <2>2. HasWork(d) /\ d.status # "none" /\ d.status \in Terminal
    BY <1>6 DEF HasWork, Live, Terminal
  <2> QED
    BY <1>1, <1>3, <1>6, <2>1, <2>2, RunStep
<1>7. CASE AttemptFails(w)
  <2> DEFINE d == [c EXCEPT !.status = "failed", !.task = None, !.store[c.task] = "failed",
                            !.failedTask = c.task, !.retryable = c.task]
  <2>1. c.task \in PlanTasks /\ Ends(w, d)
    BY <1>1, <1>7 DEF AttemptFails
  <2>2. d \in Cores /\ d.status = "failed"
    BY <1>1, <2>1 DEF Cores, StoreStatuses, Terminal
  <2> QED
    BY <1>6, <2>1, <2>2
<1>8. CASE ChecksFail(w)
  <2> DEFINE d == [c EXCEPT !.status = "failed", !.task = None, !.store[c.task] = "completed",
                            !.failedTask = c.task, !.retryable = None]
  <2>1. c.task \in PlanTasks /\ Ends(w, d)
    BY <1>1, <1>8 DEF ChecksFail
  <2>2. d \in Cores /\ d.status = "failed"
    BY <1>1, <2>1 DEF Cores, StoreStatuses, Terminal
  <2> QED
    BY <1>6, <2>1, <2>2
<1>9. CASE RunBreaks(w)
  <2> DEFINE t == IF c.task = None THEN NextTask(c) ELSE c.task
             d == [c EXCEPT !.status = "failed", !.task = None, !.failedTask = t, !.retryable = None]
  <2>1. t \in PlanTasks /\ Ends(w, d)
    BY <1>1, <1>2, <1>9 DEF RunBreaks
  <2> HIDE DEF t
  <2>2. d \in Cores /\ d.status = "failed"
    BY <1>1, <2>1 DEF Cores, Terminal
  <2> QED
    BY <1>6, <2>1, <2>2
<1> QED
  BY <1>4, <1>5, <1>7, <1>8, <1>9

\* The outcome of an aborted run, whichever workflow is shown when it comes.
LEMMA OutcomeStep ==
  ASSUME ClientInv, NEW w \in Workflows, OutcomeArrives(w)
  PROVE  ClientInv'
<1>1. /\ core' = core /\ shown' = shown /\ recovery' = recovery /\ current' = current
      /\ planning' = planning /\ let' = let /\ disk' = disk /\ Sync
      /\ result' = [workflow |-> w, status |-> "aborted"]
  BY DEF OutcomeArrives, files
<1>2. result' \in Outcomes \union {None} /\ result'.status = "aborted"
  BY <1>1 DEF Outcomes, Terminal
<1>3. /\ core \in [Workflows -> Cores] /\ shown \in Workflows \union {None}
      /\ planning \in Workflows \union {None}
      /\ planning # None => Requested(core[planning])
      /\ shown # None => HasWork(core[shown]) /\ core[shown].status # "none"
  BY DEF ClientInv, ClientTypes, SessionPart
<1> QED
  BY <1>1, <1>2, <1>3, SyncedStep

\* Retry Execute, of a run the Core still has or of one that is restored from its record.
LEMMA RetryStep ==
  ASSUME ClientInv, NEW t \in PlanTasks, RetryExecution(t)
  PROVE  ClientInv'
<1> DEFINE was == core[shown]
           c == IF Offer(was) = t THEN was ELSE Recovered(was)
           again == [c EXCEPT !.status = "running", !.task = None, !.failedTask = None,
                              !.retryable = None]
<1>1. /\ core \in [Workflows -> Cores] /\ shown \in Workflows /\ shown # None
      /\ recovery \in Recoveries \union {None} /\ result \in Outcomes \union {None}
      /\ was \in Cores /\ was.status # "none" /\ HasWork(was)
      /\ ShownIsLive /\ result # None => result.status = "aborted"
  BY DEF ClientInv, ClientTypes, SessionPart, RetryExecution
<1>2. /\ planning = None /\ Retryable(t)
      /\ shown' = shown /\ recovery' = recovery /\ current' = current /\ planning' = None
      /\ let' = let /\ disk' = disk /\ Sync
      /\ IF Offer(c) = t
         THEN core' = [core EXCEPT ![shown] = again] /\ result' = None
         ELSE core' = [core EXCEPT ![shown] = c] /\ UNCHANGED result
  BY DEF RetryExecution, window, files
<1>3. t # None
  BY ClientAssumption
<1>4. \A d : Offer(d) # None => d.status = "failed" /\ d.retryable \notin d.done
  BY DEF Offer
<1>5. \A d \in Cores : Offer(d) # None => d.done # PlanTasks
  BY <1>4 DEF Offer, Cores
<1>6. c \in Cores /\ c.status = was.status /\ HasWork(c)
  <2>1. CASE Offer(was) = t
    BY <1>1, <2>1
  <2>2. CASE Offer(was) # t
    <3>1. recovery \in Recoveries
      BY <1>1, <1>2, <2>2 DEF Retryable
    <3> DEFINE fresh == [was EXCEPT !.plan = "approved", !.store = recovery.store, !.runtime = TRUE,
                                    !.done = {u \in PlanTasks : recovery.store[u] = "completed"},
                                    !.retryable = recovery.failedTask]
               old == [was EXCEPT !.plan = "approved", !.store = recovery.store, !.runtime = FALSE]
    <3>2. fresh \in Cores /\ fresh.status = was.status
      BY <1>1, <3>1 DEF Cores, Recoveries
    <3>3. old \in Cores /\ old.status = was.status /\ old.done = was.done
      BY <1>1, <3>1 DEF Cores, Recoveries
    <3>4. c = IF Offer(fresh) # None THEN fresh ELSE old
      BY <2>2 DEF Recovered
    <3> HIDE DEF fresh, old, c
    <3>5. CASE Offer(fresh) # None
      <4>1. fresh.done # PlanTasks
        BY <1>5, <3>2, <3>5
      <4> QED
        BY <3>2, <3>4, <3>5, <4>1 DEF HasWork
    <3>6. CASE Offer(fresh) = None
      BY <1>1, <3>3, <3>4, <3>6 DEF HasWork
    <3> QED
      BY <3>5, <3>6
  <2> QED
    BY <2>1, <2>2
<1> HIDE DEF c
<1>7. CASE Offer(c) = t
  <2>1. /\ again \in Cores /\ again.status = "running" /\ again.done = c.done
    BY <1>6 DEF Cores, Live
  <2>2. HasWork(again)
    BY <1>3, <1>5, <1>6, <1>7, <2>1 DEF HasWork
  <2> HIDE DEF again
  <2>3. /\ core' \in [Workflows -> Cores] /\ core'[shown] = again /\ result' = None
        /\ \A w \in Workflows : w # shown => core'[w] = core[w]
    BY <1>1, <1>2, <1>7, <2>1
  <2> QED
    BY <1>1, <1>2, <2>1, <2>2, <2>3, SyncedStep
<1>8. CASE Offer(c) # t
  <2>1. /\ core' \in [Workflows -> Cores] /\ core'[shown] = c /\ result' = result
        /\ \A w \in Workflows : w # shown => core'[w] = core[w]
    BY <1>1, <1>2, <1>6, <1>8
  <2>2. c.status \in Live /\ result' # None => result'.status = "aborted"
    BY <1>1, <1>6, <2>1 DEF ShownIsLive
  <2> QED
    BY <1>1, <1>2, <1>6, <2>1, <2>2, SyncedStep
<1> QED
  BY <1>7, <1>8

\* The operations of the history that only take records away, and the file's writes.
LEMMA HistorySteps ==
  ASSUME ClientInv,
         \/ \E w \in Workflows : DeleteTask(w)
         \/ \E n \in Retentions : SetRetention(n)
         \/ ClearHistory \/ Flush
  PROVE  ClientInv'
<1>1. history \in Seq(Entries) /\ IsHistory(history) /\ IsHistory(disk)
  BY DEF ClientInv, ClientTypes, HistoryPart, IsHistory
<1>2. UNCHANGED <<core, session, window>>
  BY DEF DeleteTask, SetRetention, ClearHistory, Flush
<1>3. history' \in Seq(Entries) /\ RecordsIn(history') \subseteq RecordsIn(history)
  <2>1. ASSUME NEW w \in Workflows, DeleteTask(w)
        PROVE  history' \in Seq(Entries) /\ RecordsIn(history') \subseteq RecordsIn(history)
    <3>1. history' = Without(history, {w})
      BY <2>1 DEF DeleteTask
    <3> QED
      BY <1>1, <3>1, ThoseRecords DEF Without
  <2>2. ASSUME NEW n \in Retentions, SetRetention(n)
        PROVE  history' \in Seq(Entries) /\ RecordsIn(history') \subseteq RecordsIn(history)
    BY <1>1, <2>2, RetainFacts DEF SetRetention
  <2>3. ASSUME ClearHistory
        PROVE  history' \in Seq(Entries) /\ RecordsIn(history') \subseteq RecordsIn(history)
    BY <1>1, <2>3, ThoseRecords DEF ClearHistory
  <2>4. ASSUME Flush
        PROVE  history' \in Seq(Entries) /\ RecordsIn(history') \subseteq RecordsIn(history)
    BY <1>1, <2>4 DEF Flush
  <2> QED
    BY <2>1, <2>2, <2>3, <2>4
<1>4. disk' \in {disk, history', << >>}
  BY DEF DeleteTask, SetRetention, ClearHistory, Flush, Written
<1>5. IsHistory(disk')
  <2>1. IsHistory(history')
    BY <1>1, <1>3, FewerRecords
  <2>2. IsHistory(<< >>)
    BY DEF IsHistory, RecordsIn
  <2> QED
    BY <1>1, <1>4, <2>1, <2>2
<1> QED
  BY <1>2, <1>3, <1>5, FewerStep

\* Every handler, late answer and reload of the client keeps the invariant.
LEMMA ClientStep == ClientInv /\ [ClientNext]_clientVars => ClientInv'
<1> SUFFICES ASSUME ClientInv, [ClientNext]_clientVars PROVE ClientInv'
  OBVIOUS
<1>1. ASSUME NEW w \in Workflows, SubmitRequirement(w) PROVE ClientInv'
  <2>1. /\ Start(w, history) /\ UNCHANGED <<leaving, let, files>> /\ planning = None /\ ~ShownIsLive
    BY <1>1 DEF SubmitRequirement, Start
  <2>2. /\ HistoryPart(history, core, shown, current, None, let)
        /\ current # None => core[current].status \notin Live
    BY <2>1, ResetFacts DEF ClientInv
  <2> QED
    BY <2>1, <2>2, StartStep
<1>2. ASSUME NEW w \in Workflows, RetryPlanning(w) PROVE ClientInv'
  <2>1. /\ Start(w, Reset) /\ UNCHANGED <<leaving, let, files>> /\ planning = None /\ ~ShownIsLive
    BY <1>2 DEF RetryPlanning, Start
  <2>2. HistoryPart(Reset, core, None, None, None, let)
    BY <2>1, ResetFacts
  <2> QED
    BY <2>1, <2>2, StartStep
<1>3. CASE NewTask
  <2>1. /\ ~ShownIsLive /\ history' = Reset /\ shown' = None /\ recovery' = None /\ result' = None
        /\ current' = None /\ core' = core /\ planning' = planning /\ let' = let /\ disk' = disk
    BY <1>3 DEF NewTask, files
  <2> QED
    BY <2>1, ResetStep
<1>4. CASE UNCHANGED clientVars
  <2>1. UNCHANGED <<core, session, window>> /\ history' = history /\ disk' = disk
    BY <1>4 DEF clientVars, files
  <2>2. history \in Seq(Entries) /\ IsHistory(disk)
    BY DEF ClientInv, ClientTypes, HistoryPart, IsHistory
  <2> QED
    BY <2>1, <2>2, FewerStep
<1> QED
  BY <1>1, <1>2, <1>3, <1>4, PlanSteps, RunSteps, OutcomeStep, RetryStep, HistorySteps, EditStep,
     PlannerFailsStep, ReloadStep DEF ClientNext

\* What the client shows, keeps and restores is as it should be, in any order of messages,
\* late answers, deletions and reloads.
THEOREM ClientInvariance == ClientSpec => []ClientInv
BY ClientInitially, ClientStep, PTL DEF ClientSpec

\* startRequirement, retryPlanning and retryExecution never put a second workflow to work,
\* and a record that says its task is under way is that workflow's, or was let go of.
THEOREM OneWorkflowIsLive == ClientSpec => []OneLiveWorkflow
<1>1. ClientInv => OneLiveWorkflow
  <2> SUFFICES ASSUME ClientInv PROVE OneLiveWorkflow
    OBVIOUS
  <2>1. \A v, w \in Workflows : core[v].status \in Live /\ core[w].status \in Live => v = w
    BY DEF ClientInv, SessionPart
  <2>2. \A i \in DOMAIN history : IsTrue(history[i], core, shown, current, planning, let)
    BY DEF ClientInv, HistoryPart, RecordsIn
  <2> QED
    BY <2>1, <2>2 DEF OneLiveWorkflow, IsTrue
<1> QED
  BY <1>1, ClientInvariance, PTL

\* The recovery data that restoreRecovery would take from a failed record is that of the
\* last failure of its workflow.
THEOREM LatestIsRestored == ClientSpec => []RecoveryIsLatest
<1>1. ClientInv => RecoveryIsLatest
  <2> SUFFICES ASSUME ClientInv PROVE RecoveryIsLatest
    OBVIOUS
  <2>1. \A i \in DOMAIN history : HasLast(history[i], core[history[i].id])
    BY DEF ClientInv, HistoryPart, RecordsIn, IsTrue
  <2> QED
    BY <2>1 DEF RecoveryIsLatest, HasLast, Recoverable
<1> QED
  BY <1>1, ClientInvariance, PTL

=============================================================================
