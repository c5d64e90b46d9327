---------------------------- MODULE FinalRunsProofs ----------------------------
(***************************************************************************)
(* Proofs about the coding runs and review cycles of FinalExecution, for   *)
(* any numbers of runs, reviews and cycles: each run goes the way of a     *)
(* coding run, an active cycle has its run, and the reviewer's corrections *)
(* are bounded.                                                            *)
(***************************************************************************)
EXTENDS FinalExecutionProofs, FiniteSetTheorems

-----------------------------------------------------------------------------
(* What a step does to the runs and the cycles *)

\* A new run is queued, by a review or for a rework.
Queues(n, kind) ==
  /\ ~Exists(n)
  /\ \E s \in RunIds : runs' = [runs EXCEPT ![n] = Run("Queued", kind, s)]

\* A review leaves a row behind that starts no run.
Notes(v) ==
  /\ cycles[v].state = "None"
  /\ \E state \in {"Approved", "Blocked"}, h \in Commits : cycles' = [cycles EXCEPT ![v] = Cycle(state, None, h)]

\* A review starts a correction.
Corrects(v, n) ==
  /\ cycles[v].state = "None"
  /\ Cardinality(StartedCycles) < MaxCycles
  /\ cycles' = [cycles EXCEPT ![v] = QueuedCorrection(n)]
  /\ Queues(n, "tenki_review_remediation")

Reworks(n) == Queues(n, "domain_result_rework") /\ UNCHANGED cycles

LEMMA RunOrCycleSteps ==
  ASSUME TypeOK, Named, [Next]_vars
  PROVE  \/ UNCHANGED <<runs, cycles>>
         \/ UNCHANGED <<runs, pull>> /\ \E v \in Reviews : Notes(v)
         \/ UNCHANGED pull /\ \E v \in Reviews, n \in RunIds : Corrects(v, n)
         \/ UNCHANGED pull /\ \E n \in RunIds : Reworks(n)
         \/ UNCHANGED pull /\ \E r \in RunIds : RunGoesOn(r)
<1>1. ASSUME NEW q \in Requests, RequestStep(q)
      PROVE  UNCHANGED <<runs, cycles>> \/ (UNCHANGED pull /\ \E n \in RunIds : Reworks(n))
  <2>1. ASSUME NEW n \in RunIds, AuthorizeIssueResultRework(q, n)
        PROVE  UNCHANGED pull /\ Reworks(n)
    BY <2>1 DEF AuthorizeIssueResultRework, Reworks, Queues, NextRun, Named
  <2>2. QED
    BY <1>1, <2>1
       DEF RequestStep, ReadCandidate, CheckRework, ExpireFinalApproval, ApproveFinalExecution, RequestEnds
<1>2. ASSUME NEW w \in Workers, WorkerStep(w)
      PROVE  UNCHANGED <<runs, cycles>>
  BY <1>2 DEF WorkerStep, ClaimFinalExecution, CheckPullRequest, MergePullRequest, RecordMerge,
              RecordFailure, WorkerDies
<1>3. ASSUME NEW v \in Reviews, ReviewStep(v)
      PROVE  /\ UNCHANGED pull
             /\ (UNCHANGED runs /\ Notes(v)) \/ \E n \in RunIds : Corrects(v, n)
  <2> PICK h \in Commits :
        ReviewApproves(v, h) \/ (\E n \in RunIds : ReviewRequestsChanges(v, h, n)) \/ ReviewReachesLimit(v, h)
    BY <1>3 DEF ReviewStep
  <2>1. CASE ReviewApproves(v, h)
    BY <2>1 DEF ReviewApproves, Notes, NextReview
  <2>2. CASE ReviewReachesLimit(v, h)
    BY <2>2 DEF ReviewReachesLimit, Notes, NextReview, Commits
  <2>3. ASSUME NEW n \in RunIds, ReviewRequestsChanges(v, h, n)
        PROVE  UNCHANGED pull /\ Corrects(v, n)
    BY <2>3 DEF ReviewRequestsChanges, Corrects, Queues, NextReview, NextRun
  <2>4. QED
    BY <2>1, <2>2, <2>3
<1>4. ASSUME NEW r \in RunIds, RunStep(r)
      PROVE  UNCHANGED <<runs, cycles>> \/ (UNCHANGED pull /\ RunGoesOn(r))
  <2>1. CASE RunGoesOn(r)
    BY <2>1 DEF RunGoesOn, ClaimQueuedAgentRun, MarkAgentRunRunning, PassTests, ReportFailure, FailAgentRun,
                ReconcileAgentWorkflow, EndRun, CancelAgentRun, CompleteAgentRun
  <2>2. QED
    BY <1>4, <2>1 DEF RunStep, RunGoesOn, RejectFinalExecution, PushCorrection, RecordIssueResultReview
<1>5. CASE GithubStep
  BY <1>5 DEF GithubStep, SomebodyPushes, SomebodyCloses, SynchronizeEvent, MergedEvent
<1>6. CASE UNCHANGED vars
  BY <1>6 DEF vars
<1>7. QED
  BY <1>1, <1>2, <1>3, <1>4, <1>5, <1>6 DEF Next

\* The rows of the cycles when a run goes on.
LEMMA CycleGoes ==
  ASSUME TypeOK, NEW r \in RunIds, RunGoesOn(r)
  PROVE  \A v \in Reviews : /\ cycles'[v].run = cycles[v].run
                            /\ cycles'[v].state = "None" => cycles[v].state = "None"
                            /\ cycles'[v].state \in ActiveCycle => cycles[v].state \in ActiveCycle
                            /\ cycles[v].run # r => cycles'[v] = cycles[v]
<1>1. CASE UNCHANGED cycles
  BY <1>1
<1>2. ASSUME NEW from \in SUBSET ActiveCycle, NEW head,
             NEW state \in ActiveCycle \cup {"Review requested", "Failed"}, SetCycle(r, from, state, head)
      PROVE  \A v \in Reviews : /\ cycles'[v].run = cycles[v].run
                                /\ cycles'[v].state = "None" => cycles[v].state = "None"
                                /\ cycles'[v].state \in ActiveCycle => cycles[v].state \in ActiveCycle
                                /\ cycles[v].run # r => cycles'[v] = cycles[v]
  BY <1>2 DEF SetCycle, Cycle, ActiveCycle
<1>3. \/ UNCHANGED cycles
      \/ \E from \in SUBSET ActiveCycle, state \in ActiveCycle \cup {"Review requested", "Failed"},
            head \in {None, r} : SetCycle(r, from, state, head)
  <2>1. CASE MarkAgentRunRunning(r)
    BY <2>1 DEF MarkAgentRunRunning, ActiveCycle
  <2>2. CASE ReportFailure(r) \/ FailAgentRun(r) \/ ReconcileAgentWorkflow(r)
    BY <2>2 DEF ReportFailure, FailAgentRun, ReconcileAgentWorkflow, EndRun, FailCycle
  <2>3. ASSUME NEW requested \in BOOLEAN, CompleteAgentRun(r, requested)
        PROVE  \E state \in ActiveCycle \cup {"Review requested", "Failed"} : SetCycle(r, ActiveCycle, state, r)
    BY <2>3 DEF CompleteAgentRun, ActiveCycle
  <2>4. QED
    BY <2>1, <2>2, <2>3 DEF RunGoesOn, ClaimQueuedAgentRun, PassTests, CancelAgentRun
<1>4. QED
  BY <1>1, <1>2, <1>3

LEMMA RunQueued ==
  ASSUME TypeOK, NEW n \in RunIds, NEW kind \in {"tenki_review_remediation", "domain_result_rework"},
         Queues(n, kind)
  PROVE  /\ \A m \in RunIds \ {n} : runs'[m] = runs[m]
         /\ runs[n].status = "None" /\ runs'[n].status = "Queued" /\ runs'[n].kind = kind
         /\ ~runs'[n].tested
<1>1. PICK s \in RunIds : runs' = [runs EXCEPT ![n] = Run("Queued", kind, s)]
  BY DEF Queues
<1>2. runs[n].status = "None"
  BY DEF Queues, Exists
<1>3. QED
  BY <1>1, <1>2, RunAdded

LEMMA CycleColumns ==
  ASSUME NEW state, NEW r, NEW head
  PROVE  /\ Cycle(state, r, head).state = state
         /\ Cycle(state, r, head).run = r
         /\ Cycle(state, r, head).head = head
BY DEF Cycle

LEMMA CyclePublished ==
  ASSUME NEW r \in RunIds, NEW row, row = Cycle("Correction published", r, r)
  PROVE  row.run = r /\ row.head = r /\ row.state = "Correction published"
BY DEF Cycle

-----------------------------------------------------------------------------
(* An active cycle has its run *)

CycleInv == TypeOK /\ Named /\ ActiveCycleHasItsRun

HasItsRun(v) ==
  LET r == cycles[v].run IN
    \/ Active(r)
    \/ runs[r].status = "Cancelled"
    \/ Published(r) /\ cycles[v].state = "Correction published" /\ cycles[v].head = r

\* A row that does not change, of a run that does not.
LEMMA SameRun ==
  ASSUME ActiveCycleHasItsRun, NEW u \in Reviews, cycles'[u] = cycles[u],
         cycles[u].state \in ActiveCycle, runs'[cycles[u].run] = runs[cycles[u].run]
  PROVE  HasItsRun(u)'
BY DEF ActiveCycleHasItsRun, HasItsRun, Active, Published

LEMMA CyclesKept == CycleInv /\ [Next]_vars => CycleInv'
<1> SUFFICES ASSUME CycleInv, [Next]_vars PROVE CycleInv'
  OBVIOUS
<1>1. TypeOK /\ Named /\ TypeOK' /\ Named'
  BY Types DEF CycleInv
<1> SUFFICES ASSUME NEW u \in Reviews, cycles'[u].state \in ActiveCycle PROVE HasItsRun(u)'
  BY <1>1 DEF CycleInv, ActiveCycleHasItsRun, HasItsRun
<1>2. CASE UNCHANGED <<runs, cycles>>
  BY <1>2, SameRun DEF CycleInv
<1>3. ASSUME NEW v \in Reviews, Notes(v), UNCHANGED runs
      PROVE  HasItsRun(u)'
  <2>1. u # v
    <3> SUFFICES ASSUME u = v PROVE FALSE
      OBVIOUS
    <3>1. PICK state \in {"Approved", "Blocked"}, h \in Commits : cycles' = [cycles EXCEPT ![v] = Cycle(state, None, h)]
      BY <1>3 DEF Notes
    <3>2. cycles'[v].state = state
      BY <1>1, <3>1, CycleColumns DEF TypeOK
    <3>3. QED
      BY <3>2 DEF ActiveCycle
  <2>2. cycles'[u] = cycles[u]
    BY <1>1, <1>3, <2>1 DEF Notes, TypeOK
  <2>3. QED
    BY <1>3, <2>2, SameRun DEF CycleInv
\* The run of an active cycle exists, so it is not the one that is queued.
<1>4. ASSUME NEW n \in RunIds, NEW kind \in {"tenki_review_remediation", "domain_result_rework"},
             Queues(n, kind), cycles'[u] = cycles[u]
      PROVE  HasItsRun(u)'
  <2>1. cycles[u].run # n
    BY <1>1, <1>4, RunQueued, StatusFacts DEF CycleInv, ActiveCycleHasItsRun, Active, Published
  <2>2. cycles[u].run \in RunIds
    BY <1>1, <1>4 DEF TypeOK, Cycles
  <2>3. QED
    BY <1>1, <1>4, <2>1, <2>2, RunQueued, SameRun DEF CycleInv
<1>5. ASSUME NEW v \in Reviews, NEW n \in RunIds, Corrects(v, n)
      PROVE  HasItsRun(u)'
  <2>1. CASE u = v
    <3>1. cycles'[u].run = n
      BY <1>1, <1>5, <2>1 DEF Corrects, QueuedCorrection, Cycle, TypeOK
    <3>2. runs'[n].status = "Queued"
      BY <1>1, <1>5, RunQueued DEF Corrects
    <3>3. QED
      BY <3>1, <3>2, StatusFacts DEF HasItsRun, Active
  <2>2. CASE u # v
    BY <1>1, <1>4, <1>5, <2>2 DEF Corrects, TypeOK
  <2>3. QED
    BY <2>1, <2>2
<1>6. ASSUME NEW n \in RunIds, Reworks(n)
      PROVE  HasItsRun(u)'
  BY <1>4, <1>6 DEF Reworks
<1>7. ASSUME NEW r \in RunIds, RunGoesOn(r)
      PROVE  HasItsRun(u)'
  <2>1. /\ cycles'[u].run = cycles[u].run /\ cycles[u].state \in ActiveCycle
        /\ cycles[u].run # r => cycles'[u] = cycles[u]
    BY <1>1, <1>7, CycleGoes
  <2>2. CASE cycles[u].run # r
    <3>1. cycles[u].run \in RunIds
      BY <1>1, <2>1 DEF TypeOK, Cycles
    <3>2. QED
      BY <1>1, <1>7, <2>1, <2>2, <3>1, RunGoes, SameRun DEF CycleInv, RowGoesOn
  <2>3. CASE cycles[u].run = r
    <3>1. CASE ClaimQueuedAgentRun(r) \/ MarkAgentRunRunning(r) \/ PassTests(r) \/ CancelAgentRun(r)
      <4>1. runs'[r].status \in {"Running", "Tests passed", "Cancelled"}
        BY <1>1, <3>1, RunSet, TestsRecorded
           DEF ClaimQueuedAgentRun, MarkAgentRunRunning, CancelAgentRun, RunStatus, ActiveStatus
      <4>2. QED
        BY <2>1, <2>3, <4>1, StatusFacts DEF HasItsRun, Active
    <3>2. ~(ReportFailure(r) \/ FailAgentRun(r) \/ ReconcileAgentWorkflow(r))
      <4> SUFFICES ASSUME ReportFailure(r) \/ FailAgentRun(r) \/ ReconcileAgentWorkflow(r) PROVE FALSE
        OBVIOUS
      <4>1. FailCycle(r)
        BY DEF ReportFailure, FailAgentRun, ReconcileAgentWorkflow, EndRun
      <4>2. cycles'[u] = Cycle("Failed", r, None)
        BY <2>1, <2>3, <4>1 DEF FailCycle, SetCycle
      <4>3. QED
        BY <4>2 DEF Cycle, ActiveCycle
    <3>3. ASSUME NEW requested \in BOOLEAN, CompleteAgentRun(r, requested)
          PROVE  HasItsRun(u)'
      <4>1. runs'[r].status = "Draft PR opened"
        BY <1>1, <3>3, RunSet DEF CompleteAgentRun, RunStatus
      <4>2. cycles'[u] = Cycle("Correction published", r, r)
        BY <2>1, <2>3, <3>3 DEF CompleteAgentRun, SetCycle, Cycle, ActiveCycle
      <4>3. QED
        <5>1. cycles'[u].run = r /\ cycles'[u].head = r /\ cycles'[u].state = "Correction published"
          BY <4>2, CyclePublished
        <5>2. QED
          BY <4>1, <5>1 DEF HasItsRun, Published
    <3>4. QED
      BY <1>7, <3>1, <3>2, <3>3 DEF RunGoesOn
  <2>4. QED
    BY <2>2, <2>3
<1>8. QED
  BY <1>1, <1>2, <1>3, <1>5, <1>6, <1>7, RunOrCycleSteps

\* Only a cancellation leaves an active review cycle to nobody: every other
\* end of its run, by whichever handler, settles it.
THEOREM ActiveCyclesHaveTheirRuns == Spec => []ActiveCycleHasItsRun
<1>1. Init => CycleInv
  <2> SUFFICES ASSUME Init PROVE CycleInv
    OBVIOUS
  <2>1. \A v \in Reviews : cycles[v].state = "None"
    BY DEF Init, Cycle
  <2>2. QED
    BY <2>1, InitTypeOK DEF CycleInv, ActiveCycleHasItsRun, ActiveCycle
<1>2. CycleInv => ActiveCycleHasItsRun
  BY DEF CycleInv
<1>3. QED
  BY <1>1, <1>2, CyclesKept, PTL DEF Spec

-----------------------------------------------------------------------------
(* The reviewer's corrections are bounded *)

Corrections == {r \in RunIds : Exists(r) /\ runs[r].kind = "tenki_review_remediation"}

\* Each correction is named by a review cycle, and the cycles that name one are
\* what the reviewer counts.
BoundInv ==
  /\ TypeOK /\ Named
  /\ \A v \in Reviews : cycles[v].state = "None" => cycles[v].run = None
  /\ \A r \in Corrections : \E v \in Reviews : cycles[v].run = r
  /\ Cardinality(StartedCycles) <= MaxCycles

LEMMA CountedCycles == IsFiniteSet(StartedCycles) /\ Cardinality(StartedCycles) \in Nat
<1>1. IsFiniteSet(Reviews)
  BY CountAssumption, FS_Interval DEF Reviews
<1>2. StartedCycles \in SUBSET Reviews
  BY DEF StartedCycles
<1>3. QED
  BY <1>1, <1>2, FS_Subset, FS_CardinalityType

\* A step that keeps the runs of the cycles, and adds no correction.
LEMMA SameCount ==
  ASSUME BoundInv, TypeOK', Named',
         \A v \in Reviews : /\ cycles'[v].run = cycles[v].run
                            /\ cycles'[v].state = "None" => cycles[v].state = "None",
         \A r \in Corrections' : r \in Corrections
  PROVE  BoundInv'
<1>1. StartedCycles' = StartedCycles
  BY DEF StartedCycles
<1>2. QED
  BY <1>1 DEF BoundInv

LEMMA CorrectionCounts ==
  ASSUME BoundInv, TypeOK', Named', NEW v \in Reviews, NEW n \in RunIds, Corrects(v, n)
  PROVE  BoundInv'
<1> USE DEF BoundInv
<1>1. \A u \in Reviews : cycles'[u] = IF u = v THEN QueuedCorrection(n) ELSE cycles[u]
  BY DEF Corrects, TypeOK
<1>2. QueuedCorrection(n).run = n /\ QueuedCorrection(n).state # "None"
  BY DEF QueuedCorrection, Cycle
<1>3. /\ \A m \in RunIds \ {n} : runs'[m] = runs[m]
      /\ ~Exists(n)
  BY RunQueued DEF Corrects, Exists
<1>4. \A r \in Corrections' : \E u \in Reviews : cycles'[u].run = r
  <2> SUFFICES ASSUME NEW r \in Corrections' PROVE \E u \in Reviews : cycles'[u].run = r
    OBVIOUS
  <2>1. CASE r = n
    BY <1>1, <1>2, <2>1
  <2>2. CASE r # n
    <3>1. r \in Corrections
      BY <1>3, <2>2 DEF Corrections, Exists
    <3>2. PICK u \in Reviews : cycles[u].run = r
      BY <3>1
    <3>3. u # v
      BY <3>1, <3>2, RunIdFacts DEF Corrects, Corrections
    <3>4. QED
      BY <1>1, <3>2, <3>3
  <2>3. QED
    BY <2>1, <2>2
<1>5. \A u \in Reviews : cycles'[u].state = "None" => cycles'[u].run = None
  BY <1>1, <1>2
<1>6. Cardinality(StartedCycles') <= MaxCycles
  <2>1. StartedCycles' = StartedCycles \cup {v}
    BY <1>1, <1>2, RunIdFacts DEF StartedCycles
  <2>2. Cardinality(StartedCycles \cup {v}) <= Cardinality(StartedCycles) + 1
    <3>1. Cardinality(StartedCycles \cup {v})
            = IF v \in StartedCycles THEN Cardinality(StartedCycles) ELSE Cardinality(StartedCycles) + 1
      BY CountedCycles, FS_AddElement
    <3>2. QED
      BY <3>1, CountedCycles
  <2>3. Cardinality(StartedCycles) < MaxCycles
    BY DEF Corrects
  <2>4. Cardinality(StartedCycles \cup {v}) \in Nat
    BY CountedCycles, FS_AddElement, FS_CardinalityType
  <2>5. QED
    BY <2>1, <2>2, <2>3, <2>4, CountedCycles, CountAssumption
<1>7. QED
  BY <1>4, <1>5, <1>6

LEMMA BoundKept == BoundInv /\ [Next]_vars => BoundInv'
<1> SUFFICES ASSUME BoundInv, [Next]_vars PROVE BoundInv'
  OBVIOUS
<1>1. TypeOK /\ Named /\ TypeOK' /\ Named'
  BY Types DEF BoundInv
<1>2. CASE UNCHANGED <<runs, cycles>>
  BY <1>1, <1>2, SameCount DEF Corrections, Exists
<1>3. ASSUME NEW v \in Reviews, Notes(v), UNCHANGED runs
      PROVE  BoundInv'
  <2>1. PICK state \in {"Approved", "Blocked"}, h \in Commits : cycles' = [cycles EXCEPT ![v] = Cycle(state, None, h)]
    BY <1>3 DEF Notes
  <2>2. Cycle(state, None, h).run = None /\ Cycle(state, None, h).state # "None"
    BY DEF Cycle
  <2>3. cycles[v].run = None
    BY <1>3 DEF Notes, BoundInv
  <2>4. \A u \in Reviews : cycles'[u] = IF u = v THEN Cycle(state, None, h) ELSE cycles[u]
    BY <1>1, <2>1 DEF TypeOK
  <2>5. QED
    BY <1>1, <1>3, <2>2, <2>3, <2>4, SameCount DEF Corrections, Exists
<1>4. ASSUME NEW n \in RunIds, Reworks(n)
      PROVE  BoundInv'
  <2>1. /\ \A m \in RunIds \ {n} : runs'[m] = runs[m]
        /\ runs'[n].kind = "domain_result_rework"
    BY <1>1, <1>4, RunQueued DEF Reworks
  <2>2. \A r \in Corrections' : r \in Corrections
    BY <2>1 DEF Corrections, Exists
  <2>3. QED
    BY <1>1, <1>4, <2>2, SameCount DEF Reworks
<1>5. ASSUME NEW r \in RunIds, RunGoesOn(r)
      PROVE  BoundInv'
  <2>1. /\ \A n \in RunIds \ {r} : runs'[n] = runs[n]
        /\ runs'[r].kind = runs[r].kind /\ Exists(r)
    BY <1>1, <1>5, RunGoes, StatusFacts DEF RowGoesOn, Active, Exists
  <2>2. \A n \in Corrections' : n \in Corrections
    BY <2>1 DEF Corrections, Exists
  <2>3. QED
    BY <1>1, <1>5, <2>2, CycleGoes, SameCount
<1>6. QED
  BY <1>1, <1>2, <1>3, <1>4, <1>5, CorrectionCounts, RunOrCycleSteps

\* The reviewer counts at least one cycle for every correction.
LEMMA CountedCorrections == BoundInv => CorrectionsAreBounded
<1> SUFFICES ASSUME BoundInv PROVE Cardinality(Corrections) <= MaxCycles
  BY DEF CorrectionsAreBounded, Corrections
<1> DEFINE named == {cycles[v].run : v \in StartedCycles}
           names == [v \in StartedCycles |-> cycles[v].run]
<1>1. names \in Surjection(StartedCycles, named)
  BY DEF Surjection
<1>2. IsFiniteSet(named) /\ Cardinality(named) <= Cardinality(StartedCycles)
  <2> HIDE DEF named, names
  <2>1. QED
    BY <1>1, CountedCycles, FS_Surjection
<1>3. Corrections \in SUBSET named
  BY RunIdFacts DEF BoundInv, Corrections, StartedCycles
<1>4. IsFiniteSet(Corrections) /\ Cardinality(Corrections) <= Cardinality(named)
  <2> HIDE DEF named
  <2>1. QED
    BY <1>2, <1>3, FS_Subset
<1>5. {Cardinality(Corrections), Cardinality(named), Cardinality(StartedCycles), MaxCycles} \subseteq Nat
  <2> HIDE DEF named
  <2>1. QED
    BY <1>2, <1>4, CountedCycles, CountAssumption, FS_CardinalityType
<1>6. Cardinality(StartedCycles) <= MaxCycles
  BY DEF BoundInv
<1> HIDE DEF named
<1>7. QED
  BY <1>2, <1>4, <1>5, <1>6

\* The reviewer starts at most MaxCycles corrections of a pull request.
THEOREM ReviewersCorrectionsAreBounded == Spec => []CorrectionsAreBounded
<1>1. Init => BoundInv
  <2> SUFFICES ASSUME Init PROVE BoundInv
    OBVIOUS
  <2>1. \A v \in Reviews : cycles[v].run = None
    BY DEF Init, Cycle
  <2>2. StartedCycles = {}
    BY <2>1 DEF StartedCycles
  <2>3. Corrections = {}
    BY DEF Init, Run, Corrections
  <2>4. QED
    BY <2>1, <2>2, <2>3, InitTypeOK, FS_EmptySet, CountAssumption DEF BoundInv
<1>2. QED
  BY <1>1, BoundKept, CountedCorrections, PTL DEF Spec

-----------------------------------------------------------------------------
(* The life of the runs *)

PastSandbox(r) == runs[r].status \notin {"None", "Queued", "Running"}

\* Nothing is pushed before its tests passed, and no run goes back into its
\* sandbox after that.
LifeInv ==
  /\ TypeOK /\ Named
  /\ \A r \in RunIds : runs[r].tested \/ r \in pull.pushed => PastSandbox(r)

LEMMA PushedPassed ==
  ASSUME TypeOK, Named, [Next]_vars, UNCHANGED runs, NEW r \in RunIds, r \in pull'.pushed
  PROVE  r \in pull.pushed \/ runs[r].tested
<1>1. pull \in Pulls
  BY DEF TypeOK
<1>2. CASE pull'.pushed = pull.pushed
  BY <1>2
<1>3. CASE UNCHANGED pull
  BY <1>3
<1>4. CASE SomebodyPushes
  <2>1. pull'.pushed = pull.pushed \cup {None}
    BY <1>1, <1>4 DEF SomebodyPushes, Pulls
  <2>2. QED
    BY <2>1, RunIdFacts
<1>5. ASSUME NEW n \in RunIds, PushCorrection(n)
      PROVE  r \in pull.pushed \/ runs[r].tested
  <2>1. pull'.pushed = pull.pushed \cup {n}
    BY <1>1, <1>5 DEF PushCorrection, Pulls
  <2>2. QED
    BY <1>5, <2>1 DEF PushCorrection
<1>6. ASSUME NEW w \in Workers, MergePullRequest(w)
      PROVE  pull'.pushed = pull.pushed
  BY <1>1, <1>6 DEF MergePullRequest, Pulls
<1>7. CASE GithubStep /\ ~SomebodyPushes
  BY <1>1, <1>7 DEF GithubStep, SomebodyCloses, SynchronizeEvent, MergedEvent, Pulls
<1>8. ASSUME NEW q \in Requests, RequestStep(q)
      PROVE  UNCHANGED pull
  BY <1>8 DEF RequestStep, ReadCandidate, CheckRework, ExpireFinalApproval, ApproveFinalExecution,
              AuthorizeIssueResultRework, RequestEnds
<1>9. ASSUME NEW v \in Reviews, ReviewStep(v)
      PROVE  UNCHANGED pull
  BY <1>9 DEF ReviewStep, ReviewApproves, ReviewRequestsChanges, ReviewReachesLimit
<1>10. ASSUME NEW n \in RunIds, RunStep(n), ~PushCorrection(n)
       PROVE  UNCHANGED pull
  BY <1>10 DEF RunStep, RejectFinalExecution, ClaimQueuedAgentRun, MarkAgentRunRunning, PassTests, ReportFailure,
               FailAgentRun, ReconcileAgentWorkflow, EndRun, CancelAgentRun, CompleteAgentRun, RecordIssueResultReview
<1>11. ASSUME NEW w \in Workers, WorkerStep(w), ~MergePullRequest(w)
       PROVE  UNCHANGED pull
  BY <1>11 DEF WorkerStep, ClaimFinalExecution, CheckPullRequest, RecordMerge, RecordFailure, WorkerDies
<1>12. QED
  BY <1>2, <1>3, <1>4, <1>5, <1>6, <1>7, <1>8, <1>9, <1>10, <1>11 DEF Next, vars

LEMMA LifeKept == LifeInv /\ [Next]_vars => LifeInv'
<1> SUFFICES ASSUME LifeInv, [Next]_vars PROVE LifeInv'
  OBVIOUS
<1>1. TypeOK /\ Named /\ TypeOK' /\ Named'
  BY Types DEF LifeInv
<1>2. CASE UNCHANGED runs
  BY <1>1, <1>2, PushedPassed DEF LifeInv, PastSandbox
<1>3. ASSUME UNCHANGED pull, NEW n \in RunIds,
             \A m \in RunIds \ {n} : runs'[m] = runs[m],
             PastSandbox(n) \/ runs'[n].tested => PastSandbox(n)'
      PROVE  LifeInv'
  BY <1>1, <1>3 DEF LifeInv, PastSandbox
<1>4. ASSUME UNCHANGED pull, NEW n \in RunIds, NEW kind \in {"tenki_review_remediation", "domain_result_rework"},
             Queues(n, kind)
      PROVE  LifeInv'
  BY <1>1, <1>3, <1>4, RunQueued DEF PastSandbox
<1>5. ASSUME UNCHANGED pull, NEW r \in RunIds, RunGoesOn(r)
      PROVE  LifeInv'
  <2>1. RowGoesOn(r)
    BY <1>1, <1>5, RunGoes
  <2>2. PastSandbox(r) => PastSandbox(r)'
    BY <2>1 DEF RowGoesOn, PastSandbox
  <2>3. runs'[r].tested => PastSandbox(r)'
    BY <2>1, <2>2 DEF RowGoesOn, PastSandbox, LifeInv
  <2>4. QED
    BY <1>3, <1>5, <2>1, <2>2, <2>3 DEF RowGoesOn
<1>6. QED
  BY <1>1, <1>2, <1>4, <1>5, RunOrCycleSteps DEF Corrects, Reworks

Statuses == [r \in RunIds |-> runs[r].status]

\* One run moves on.
LEMMA RunMoves ==
  ASSUME TypeOK, NEW r \in RunIds, NEW from, NEW to, runs[r].status \in from, runs'[r].status = to,
         \A n \in RunIds \ {r} : runs'[n] = runs[n]
  PROVE  Life!Moves(r, from, to)
<1>1. Statuses' = [Statuses EXCEPT ![r] = to]
  BY DEF Statuses
<1>2. QED
  BY <1>1 DEF Statuses, Life!Moves

LEMMA RunGoesOnMaps ==
  ASSUME LifeInv, NEW r \in RunIds, RunGoesOn(r)
  PROVE  Life!Next
<1>1. TypeOK /\ RowGoesOn(r)
  BY RunGoes DEF LifeInv
<1>2. ASSUME NEW from, NEW to, runs[r].status \in from, runs'[r].status = to
      PROVE  Life!Moves(r, from, to)
  BY <1>1, <1>2, RunMoves DEF RowGoesOn
<1>3. runs[r].status \in Life!Unfinished
  BY <1>1 DEF RowGoesOn, Active, ActiveStatus, Life!Unfinished
<1>4. CASE runs'[r].status = "Running"
  BY <1>1, <1>2, <1>4 DEF RowGoesOn, Life!Next, Life!Start
<1>5. CASE runs'[r].status = "Tests passed"
  BY <1>2, <1>3, <1>5 DEF Life!Next, Life!Report
<1>6. CASE runs'[r].status \in {"Failed", "No changes", "Cancelled"}
  <2>1. PICK ending \in Life!Endings : runs'[r].status = ending
    BY <1>6 DEF Life!Endings
  <2>2. Life!Moves(r, Life!Unfinished, ending)
    BY <1>2, <1>3, <2>1
  <2>3. QED
    BY <2>2 DEF Life!Next, Life!End
<1>7. CASE runs'[r].status = "Draft PR opened"
  <2>1. runs[r].status = "Tests passed"
    BY <1>1, <1>3, <1>7 DEF RowGoesOn, LifeInv, PastSandbox, Life!Unfinished
  <2> DEFINE from == {"Tests passed"}
             to   == "Draft PR opened"
  <2>2. runs[r].status \in from /\ runs'[r].status = to
    BY <1>7, <2>1
  <2>3. Life!Moves(r, from, to)
    <3> HIDE DEF from, to
    <3>1. QED
      BY <1>2, <2>2
  <2>4. QED
    BY <2>3 DEF Life!Next, Life!Publish
<1>8. QED
  BY <1>1, <1>4, <1>5, <1>6, <1>7 DEF RowGoesOn

LEMMA LifeSteps ==
  ASSUME LifeInv, [Next]_vars
  PROVE  [Life!Next]_Statuses
<1>0. TypeOK /\ Named
  BY DEF LifeInv
<1>1. CASE UNCHANGED runs
  BY <1>1 DEF Statuses
<1>2. ASSUME NEW n \in RunIds, NEW kind \in {"tenki_review_remediation", "domain_result_rework"}, Queues(n, kind)
      PROVE  Life!Next
  <2>1. Life!Moves(n, {"None"}, "Queued")
    BY <1>0, <1>2, RunQueued, RunMoves
  <2>2. QED
    BY <2>1 DEF Life!Next, Life!Approve
<1>3. QED
  BY <1>0, <1>1, <1>2, RunGoesOnMaps, RunOrCycleSteps DEF Corrects, Reworks

\* The runs of a pull request change only as coding runs do, whichever runner
\* executes them and whoever ends them beside the push of their commit: none is
\* published before its tests passed or after it has ended.
THEOREM FinalExecutionImplementsCodingRun == Spec => ImplementsCodingRun
<1>1. Init => Life!Init /\ LifeInv
  <2> SUFFICES ASSUME Init PROVE Life!Init /\ LifeInv
    OBVIOUS
  <2>1. \A r \in RunIds : /\ runs[r].status = IF r = 1 THEN "Draft PR opened" ELSE "None"
                          /\ ~runs[r].tested
    <3>1. {"Draft PR opened", "None"} \subseteq RunStatus /\ None \in Commits
      BY DEF RunStatus, Commits
    <3>2. \A status \in RunStatus : /\ Run(status, "implementation", None).status = status
                                    /\ ~Run(status, "implementation", None).tested
      BY <3>1, RunWritten
    <3>3. \A r \in RunIds :
            runs[r] = Run(IF r = 1 THEN "Draft PR opened" ELSE "None", "implementation", None)
      BY DEF Init
    <3>4. QED
      BY <3>1, <3>2, <3>3
  <2>2. pull.pushed = {1}
    BY DEF Init
  <2>3. QED
    BY <2>1, <2>2, InitTypeOK DEF LifeInv, PastSandbox, Life!Init
<1>2. LifeInv /\ [Next]_vars => [Life!Next]_[r \in RunIds |-> runs[r].status]
  BY LifeSteps DEF Statuses
<1>3. QED
  BY <1>1, <1>2, LifeKept, PTL DEF Spec, ImplementsCodingRun, Life!Spec
=============================================================================
