------------------------- MODULE FinalExecutionProofs -------------------------
(***************************************************************************)
(* Proofs about FinalExecution, for any numbers of runs, reviews, cycles,  *)
(* workers and requests: its types, that a live merge is authorized, that  *)
(* coding runs do not overlap, that a worker merges what is still          *)
(* authorized, and that merges spend human decisions.                      *)
(***************************************************************************)
EXTENDS FinalExecution, TLAPS

-----------------------------------------------------------------------------
(* Types *)

AttemptStatus == {"None", "Queued", "Running", "Succeeded", "Failed"}

LEMMA RunIdFacts ==
  /\ RunIds \subseteq Nat \ {0} /\ None \notin RunIds /\ None \in Nat
  /\ \A n, r \in RunIds : n > r \/ n = r \/ r > n
BY CountAssumption DEF RunIds, None

LEMMA RunWritten ==
  ASSUME NEW status \in RunStatus, NEW base \in Commits,
         NEW kind \in {"implementation", "tenki_review_remediation", "domain_result_rework"}
  PROVE  /\ Run(status, kind, base) \in Runs
         /\ Run(status, kind, base).status = status /\ Run(status, kind, base).base = base
         /\ Run(status, kind, base).kind = kind /\ ~Run(status, kind, base).tested
BY DEF Run, Runs

LEMMA CycleWritten ==
  ASSUME NEW r \in RunIds \cup {None}, NEW head \in Commits,
         NEW state \in ActiveCycle \cup {"None", "Review requested", "Approved", "Blocked", "Failed"}
  PROVE  Cycle(state, r, head) \in Cycles
BY DEF Cycle, Cycles

LEMMA WorkerWritten ==
  ASSUME NEW step \in MergingStep \cup {"idle", "merged", "failed", "invalid"},
         NEW r \in RunIds \cup {None}
  PROVE  Worker(step, r) \in WorkerStates /\ Worker(step, r).step = step /\ Worker(step, r).run = r
BY DEF Worker, WorkerStates

LEMMA RequestWritten ==
  ASSUME NEW step \in {"idle", "overdue", "approve", "rework"}, NEW r \in RunIds \cup {None},
         NEW reuse \in BOOLEAN
  PROVE  /\ Request(step, r, reuse) \in RequestStates
         /\ Request(step, r, reuse).step = step /\ Request(step, r, reuse).run = r
BY DEF Request, RequestStates

LEMMA IdleRows ==
  /\ IdleWorker \in WorkerStates /\ IdleWorker.step = "idle"
  /\ IdleRequest \in RequestStates /\ IdleRequest.step = "idle"
<1>1. IdleWorker \in WorkerStates /\ IdleWorker.step = "idle"
  BY WorkerWritten DEF IdleWorker
<1>2. IdleRequest \in RequestStates /\ IdleRequest.step = "idle"
  BY DEF IdleRequest, Request, RequestStates
<1>3. QED
  BY <1>1, <1>2

\* The columns of the rows, one by one.
LEMMA Columns ==
  ASSUME TypeOK
  PROVE  /\ \A r \in RunIds : /\ runs[r] \in Runs /\ runs[r].status \in RunStatus
                              /\ runs[r].base \in Commits
                              /\ approvals[r] \in ApprovalStatus /\ attempts[r] \in AttemptStatus
                              /\ verdicts[r] \in {"none", "changes"}
         /\ \A v \in Reviews : cycles[v] \in Cycles /\ cycles[v].run \in RunIds \cup {None}
         /\ \A w \in Workers : /\ workers[w] \in WorkerStates
                               /\ workers[w].run \in RunIds \cup {None}
                               /\ workers[w].step \in MergingStep \cup {"idle", "merged", "failed", "invalid"}
         /\ \A q \in Requests : /\ requests[q] \in RequestStates
                                /\ requests[q].run \in RunIds \cup {None}
         /\ pull.state \in {"open", "merged", "closed"} /\ pull.head \in Commits
         /\ pull.pushed \subseteq Commits /\ pull.unseen \subseteq Commits
         /\ pull.mergeUnseen \in BOOLEAN /\ pull.by \in RunIds \cup {None}
<1>1. \A r \in RunIds : runs[r] \in Runs /\ approvals[r] \in ApprovalStatus
                        /\ attempts[r] \in AttemptStatus /\ verdicts[r] \in {"none", "changes"}
  BY DEF TypeOK, AttemptStatus
<1>2. \A r \in RunIds : runs[r].status \in RunStatus /\ runs[r].base \in Commits
  BY <1>1 DEF Runs
<1>3. \A v \in Reviews : cycles[v] \in Cycles /\ cycles[v].run \in RunIds \cup {None}
  BY DEF TypeOK, Cycles
<1>4. \A w \in Workers : /\ workers[w] \in WorkerStates
                         /\ workers[w].run \in RunIds \cup {None}
                         /\ workers[w].step \in MergingStep \cup {"idle", "merged", "failed", "invalid"}
  BY DEF TypeOK, WorkerStates
<1>5. \A q \in Requests : requests[q] \in RequestStates /\ requests[q].run \in RunIds \cup {None}
  BY DEF TypeOK, RequestStates
<1>6. pull \in Pulls
  BY DEF TypeOK
<1>7. QED
  BY <1>1, <1>2, <1>3, <1>4, <1>5, <1>6 DEF Pulls

\* The tables when one row changes.
LEMMA ApprovalsClosed ==
  ASSUME TypeOK, NEW which, NEW from, NEW to \in ApprovalStatus, Close(which, from, to)
  PROVE  /\ approvals' \in [RunIds -> ApprovalStatus]
         /\ \A r \in RunIds : r \notin which \/ approvals[r] \notin from => approvals'[r] = approvals[r]
BY DEF TypeOK, Close

LEMMA QueueCancelled ==
  ASSUME TypeOK, NEW r \in RunIds, CancelQueued(r)
  PROVE  /\ attempts' \in [RunIds -> AttemptStatus]
         /\ \A n \in RunIds \ {r} : attempts'[n] = attempts[n]
         /\ attempts'[r] = IF attempts[r] = "Queued" THEN "Failed" ELSE attempts[r]
BY DEF TypeOK, CancelQueued, AttemptStatus

LEMMA AttemptSettled ==
  ASSUME TypeOK, NEW r \in RunIds, NEW status \in AttemptStatus, SettleAttempt(r, status)
  PROVE  /\ attempts' \in [RunIds -> AttemptStatus]
         /\ \A n \in RunIds \ {r} : attempts'[n] = attempts[n]
         /\ attempts'[r] = IF attempts[r] = "Running" THEN status ELSE attempts[r]
BY DEF TypeOK, SettleAttempt, AttemptStatus

LEMMA CyclesSet ==
  ASSUME TypeOK, NEW r \in RunIds, NEW from \in SUBSET ActiveCycle,
         NEW state \in ActiveCycle \cup {"Review requested", "Failed"}, NEW head \in Commits,
         SetCycle(r, from, state, head)
  PROVE  /\ cycles' \in [Reviews -> Cycles]
         /\ \A v \in Reviews : cycles'[v].state \in ActiveCycle => cycles'[v].run # None
         /\ \A v \in Reviews : cycles[v].state = "Approved" => cycles'[v] = cycles[v]
<1>1. /\ Cycle(state, r, head) \in Cycles
      /\ Cycle(state, r, head).run = r /\ Cycle(state, r, head).state = state
  BY CycleWritten DEF Cycle
<1>2. \A v \in Reviews : cycles'[v] = IF cycles[v].run = r /\ cycles[v].state \in from
                                      THEN Cycle(state, r, head) ELSE cycles[v]
  BY DEF SetCycle
<1>3. cycles' \in [Reviews -> Cycles]
  <2>1. cycles' = [v \in Reviews |-> cycles'[v]] /\ \A v \in Reviews : cycles[v] \in Cycles
    BY DEF SetCycle, TypeOK
  <2>2. QED
    BY <1>1, <1>2, <2>1
<1>4. \A v \in Reviews : cycles'[v].state \in ActiveCycle => cycles'[v].run # None
  BY <1>1, <1>2, RunIdFacts DEF TypeOK
<1>5. \A v \in Reviews : cycles[v].state = "Approved" => cycles'[v] = cycles[v]
  BY <1>2 DEF ActiveCycle
<1>6. QED
  BY <1>3, <1>4, <1>5

LEMMA RunSet ==
  ASSUME TypeOK, NEW r \in RunIds, NEW status \in RunStatus, SetRun(r, status)
  PROVE  /\ runs' \in [RunIds -> Runs]
         /\ \A n \in RunIds \ {r} : runs'[n] = runs[n]
         /\ runs'[r].status = status /\ runs'[r].base = runs[r].base /\ runs'[r].kind = runs[r].kind
         /\ runs'[r].tested = runs[r].tested
<1>1. runs \in [RunIds -> Runs] /\ runs[r] \in Runs
  BY DEF TypeOK
<1>2. runs' = [runs EXCEPT ![r] = [runs[r] EXCEPT !.status = status]]
  BY DEF SetRun
<1>3. [runs[r] EXCEPT !.status = status] \in Runs
  BY <1>1 DEF Runs
<1>4. runs'[r] = [runs[r] EXCEPT !.status = status]
  BY <1>1, <1>2
<1>5. QED
  BY <1>1, <1>2, <1>3, <1>4 DEF Runs

LEMMA RunAdded ==
  ASSUME TypeOK, NEW n \in RunIds, NEW base \in RunIds,
         NEW kind \in {"tenki_review_remediation", "domain_result_rework"},
         runs' = [runs EXCEPT ![n] = Run("Queued", kind, base)]
  PROVE  /\ runs' \in [RunIds -> Runs]
         /\ \A m \in RunIds \ {n} : runs'[m] = runs[m]
         /\ runs'[n].status = "Queued" /\ runs'[n].base = base /\ runs'[n].kind = kind
         /\ ~runs'[n].tested
<1>1. "Queued" \in RunStatus /\ base \in Commits
  BY DEF RunStatus, ActiveStatus, Commits
<1>2. runs \in [RunIds -> Runs]
  BY DEF TypeOK
<1>3. runs'[n] = Run("Queued", kind, base)
  BY <1>2
<1>4. QED
  BY <1>1, <1>2, <1>3, RunWritten

LEMMA TestsRecorded ==
  ASSUME TypeOK, NEW r \in RunIds, PassTests(r)
  PROVE  /\ runs' \in [RunIds -> Runs]
         /\ \A n \in RunIds \ {r} : runs'[n] = runs[n]
         /\ runs'[r].status = "Tests passed" /\ runs'[r].base = runs[r].base /\ runs'[r].kind = runs[r].kind
<1>1. runs \in [RunIds -> Runs] /\ runs[r] \in Runs /\ "Tests passed" \in RunStatus
  BY DEF TypeOK, RunStatus, ActiveStatus
<1>2. runs' = [runs EXCEPT ![r] = [runs[r] EXCEPT !.status = "Tests passed", !.tested = TRUE]]
  BY <1>1 DEF PassTests
<1>3. [runs[r] EXCEPT !.status = "Tests passed", !.tested = TRUE] \in Runs
  BY <1>1 DEF Runs
<1>4. runs'[r] = [runs[r] EXCEPT !.status = "Tests passed", !.tested = TRUE]
  BY <1>1, <1>2
<1>5. QED
  BY <1>1, <1>2, <1>3, <1>4 DEF Runs

LEMMA WorkerMoved ==
  ASSUME TypeOK, NEW w \in Workers, NEW state \in WorkerStates, WorkerGoes(w, state)
  PROVE  /\ workers' \in [Workers -> WorkerStates]
         /\ workers'[w] = state
         /\ \A x \in Workers \ {w} : workers'[x] = workers[x]
BY DEF TypeOK, WorkerGoes

LEMMA RequestMoved ==
  ASSUME TypeOK, NEW q \in Requests, NEW state \in RequestStates,
         requests' = [requests EXCEPT ![q] = state]
  PROVE  /\ requests' \in [Requests -> RequestStates]
         /\ requests'[q] = state
         /\ \A p \in Requests \ {q} : requests'[p] = requests[p]
BY DEF TypeOK

\* Whoever is at work knows the run it works on.
Named ==
  /\ \A w \in Workers : workers[w].step # "idle" => workers[w].run \in RunIds
  /\ \A q \in Requests : requests[q].step # "idle" => requests[q].run \in RunIds

\* The reviewer's approvals stay on record.
ReviewsStand == \A v \in Reviews : cycles[v].state = "Approved" => cycles'[v] = cycles[v]

LEMMA SameCycles == ASSUME UNCHANGED cycles PROVE ReviewsStand
BY DEF ReviewsStand

LEMMA InitTypeOK == Init => TypeOK /\ Named
<1> SUFFICES ASSUME Init PROVE TypeOK /\ Named
  OBVIOUS
<1>1. 1 \in RunIds /\ {1, None} \subseteq Commits
  BY CountAssumption DEF RunIds, Commits
<1>2. runs \in [RunIds -> Runs]
  <2>1. \A status \in RunStatus : Run(status, "implementation", None) \in Runs
    BY <1>1, RunWritten
  <2>2. {"Draft PR opened", "None"} \subseteq RunStatus
    BY DEF RunStatus
  <2>3. QED
    BY <2>1, <2>2 DEF Init
<1>3. Cycle("None", None, None) \in Cycles /\ Cycle("None", None, None).state = "None"
  BY <1>1, CycleWritten DEF Cycle
<1>4. pull \in Pulls
  BY <1>1 DEF Init, Pulls
<1>5. approvals \in [RunIds -> ApprovalStatus]
  BY DEF Init, ApprovalStatus
<1>6. attempts \in [RunIds -> AttemptStatus] /\ verdicts \in [RunIds -> {"none", "changes"}]
  BY DEF Init, AttemptStatus
<1>7. /\ cycles \in [Reviews -> Cycles]
      /\ \A v \in Reviews : cycles[v].state \in ActiveCycle => cycles[v].run # None
  BY <1>3 DEF Init, ActiveCycle
<1>8. workers \in [Workers -> WorkerStates] /\ requests \in [Requests -> RequestStates] /\ Named
  BY IdleRows DEF Init, Named
<1>9. QED
  BY <1>2, <1>4, <1>5, <1>6, <1>7, <1>8 DEF TypeOK, AttemptStatus

LEMMA RequestTyped ==
  ASSUME TypeOK, Named, NEW q \in Requests, NEW state \in RequestStates,
         state.step # "idle" => state.run \in RunIds, UNCHANGED workers,
         requests' = [requests EXCEPT ![q] = state]
  PROVE  requests' \in [Requests -> RequestStates] /\ Named'
BY RequestMoved DEF Named

LEMMA WorkerTyped ==
  ASSUME TypeOK, Named, NEW w \in Workers, NEW state \in WorkerStates,
         state.step # "idle" => state.run \in RunIds, UNCHANGED requests, WorkerGoes(w, state)
  PROVE  workers' \in [Workers -> WorkerStates] /\ Named'
BY WorkerMoved DEF Named

LEMMA RequestTypes ==
  ASSUME TypeOK, Named, NEW q \in Requests, RequestStep(q)
  PROVE  TypeOK' /\ Named' /\ ReviewsStand
<1> DEFINE r == requests[q].run
<1>1. ASSUME NEW n \in RunIds, ReadCandidate(q, n)
      PROVE  TypeOK' /\ Named' /\ ReviewsStand
  <2> DEFINE reuse == attempts[n] = "Failed"
  <2>1. \A step \in {"overdue", "approve"} :
          Request(step, n, reuse) \in RequestStates /\ Request(step, n, reuse).run = n
    BY DEF Request, RequestStates
  <2>2. requests' \in [Requests -> RequestStates] /\ Named'
    BY <1>1, <2>1, RequestTyped DEF ReadCandidate
  <2>3. QED
    BY <1>1, <2>2, SameCycles DEF ReadCandidate, TypeOK
<1>2. ASSUME NEW n \in RunIds, CheckRework(q, n)
      PROVE  TypeOK' /\ Named' /\ ReviewsStand
  <2>1. Request("rework", n, FALSE) \in RequestStates /\ Request("rework", n, FALSE).run = n
    BY DEF Request, RequestStates
  <2>2. requests' \in [Requests -> RequestStates] /\ Named'
    BY <1>2, <2>1, RequestTyped DEF CheckRework
  <2>3. QED
    BY <1>2, <2>2, SameCycles DEF CheckRework, TypeOK
<1>3. ASSUME requests' = [requests EXCEPT ![q] = IdleRequest], UNCHANGED workers
      PROVE  requests' \in [Requests -> RequestStates] /\ Named'
  BY <1>3, IdleRows, RequestTyped
<1>4. ASSUME NEW n \in RunIds, AuthorizeIssueResultRework(q, n)
      PROVE  TypeOK' /\ Named' /\ ReviewsStand
  <2>1. r \in RunIds
    BY <1>4 DEF AuthorizeIssueResultRework, Named
  <2>2. runs' \in [RunIds -> Runs]
    BY <1>4, <2>1, RunAdded DEF AuthorizeIssueResultRework
  <2>3. approvals' \in [RunIds -> ApprovalStatus]
    BY <1>4, ApprovalsClosed DEF AuthorizeIssueResultRework, ApprovalStatus
  <2>4. attempts' \in [RunIds -> AttemptStatus]
    BY <1>4, <2>1, QueueCancelled DEF AuthorizeIssueResultRework
  <2>5. QED
    BY <1>3, <1>4, <2>2, <2>3, <2>4, SameCycles
       DEF AuthorizeIssueResultRework, TypeOK, AttemptStatus
<1>5. CASE ExpireFinalApproval(q)
  <2>1. approvals' \in [RunIds -> ApprovalStatus]
    BY <1>5, ApprovalsClosed DEF ExpireFinalApproval, ApprovalStatus
  <2>2. QED
    BY <1>3, <1>5, <2>1, SameCycles DEF ExpireFinalApproval, TypeOK
<1>6. CASE ApproveFinalExecution(q)
  <2>1. approvals' \in [RunIds -> ApprovalStatus] /\ attempts' \in [RunIds -> AttemptStatus]
    BY <1>6 DEF ApproveFinalExecution, TypeOK, ApprovalStatus, AttemptStatus
  <2>2. QED
    BY <1>3, <1>6, <2>1, SameCycles DEF ApproveFinalExecution, TypeOK, AttemptStatus
<1>7. CASE RequestEnds(q)
  BY <1>3, <1>7, SameCycles DEF RequestEnds, TypeOK
<1>8. QED
  BY <1>1, <1>2, <1>4, <1>5, <1>6, <1>7 DEF RequestStep

LEMMA WorkerTypes ==
  ASSUME TypeOK, Named, NEW w \in Workers, WorkerStep(w)
  PROVE  TypeOK' /\ Named' /\ ReviewsStand
<1> DEFINE r == workers[w].run
<1>1. ASSUME NEW step \in MergingStep \cup {"merged", "failed", "invalid"}, NEW n \in RunIds,
             WorkerGoes(w, Worker(step, n)), UNCHANGED requests
      PROVE  workers' \in [Workers -> WorkerStates] /\ Named'
  <2>1. Worker(step, n) \in WorkerStates /\ Worker(step, n).run = n
    BY WorkerWritten
  <2>2. QED
    BY <1>1, <2>1, WorkerTyped
<1>2. ASSUME WorkerGoes(w, IdleWorker), UNCHANGED requests
      PROVE  workers' \in [Workers -> WorkerStates] /\ Named'
  BY <1>2, IdleRows, WorkerTyped
<1>3. ASSUME UNCHANGED <<workers, requests>>
      PROVE  workers' \in [Workers -> WorkerStates] /\ Named'
  BY <1>3 DEF TypeOK, Named
<1>4. workers[w].step # "idle" => r \in RunIds
  BY DEF Named
<1>5. ASSUME NEW n \in RunIds, ClaimFinalExecution(w, n)
      PROVE  TypeOK' /\ Named' /\ ReviewsStand
  <2>1. workers' \in [Workers -> WorkerStates] /\ Named'
    BY <1>1, <1>3, <1>5 DEF ClaimFinalExecution, MergingStep
  <2>2. attempts' \in [RunIds -> AttemptStatus] /\ approvals' \in [RunIds -> ApprovalStatus]
    BY <1>5 DEF ClaimFinalExecution, BlockMerge, TakeFromQueue, TypeOK, AttemptStatus, ApprovalStatus
  <2>3. QED
    BY <1>5, <2>1, <2>2, SameCycles DEF ClaimFinalExecution, TypeOK, AttemptStatus
<1>6. CASE CheckPullRequest(w)
  <2>1. workers' \in [Workers -> WorkerStates] /\ Named'
    BY <1>1, <1>4, <1>6 DEF CheckPullRequest, MergingStep
  <2>2. QED
    BY <1>6, <2>1, SameCycles DEF CheckPullRequest, TypeOK
<1>7. CASE MergePullRequest(w)
  <2>1. workers' \in [Workers -> WorkerStates] /\ Named' /\ r \in RunIds
    BY <1>1, <1>4, <1>7 DEF MergePullRequest
  <2>2. pull' \in Pulls
    <3>1. pull \in Pulls
      BY DEF TypeOK
    <3>2. [pull EXCEPT !.state = "merged", !.by = r, !.mergeUnseen = TRUE] \in Pulls
      BY <2>1, <3>1 DEF Pulls
    <3>3. QED
      BY <1>7, <3>1, <3>2 DEF MergePullRequest
  <2>3. QED
    BY <1>7, <2>1, <2>2, SameCycles DEF MergePullRequest, TypeOK
<1>8. CASE RecordMerge(w)
  <2>1. workers' \in [Workers -> WorkerStates] /\ Named' /\ r \in RunIds
    BY <1>1, <1>2, <1>4, <1>8 DEF RecordMerge
  <2>2. attempts' \in [RunIds -> AttemptStatus]
    BY <1>8, <2>1, AttemptSettled DEF RecordMerge, TypeOK, AttemptStatus
  <2>3. QED
    BY <1>8, <2>1, <2>2, SameCycles DEF RecordMerge, TypeOK, AttemptStatus
<1>9. CASE RecordFailure(w)
  <2>1. workers' \in [Workers -> WorkerStates] /\ Named' /\ r \in RunIds
    BY <1>2, <1>4, <1>9 DEF RecordFailure
  <2>2. attempts' \in [RunIds -> AttemptStatus]
    BY <1>9, <2>1, AttemptSettled DEF RecordFailure, AttemptStatus
  <2>3. approvals' \in [RunIds -> ApprovalStatus]
    BY <1>9 DEF RecordFailure, TypeOK, ApprovalStatus
  <2>4. QED
    BY <1>9, <2>1, <2>2, <2>3, SameCycles DEF RecordFailure, TypeOK, AttemptStatus
<1>10. CASE WorkerDies(w)
  BY <1>2, <1>10, SameCycles DEF WorkerDies, TypeOK
<1>11. QED
  BY <1>5, <1>6, <1>7, <1>8, <1>9, <1>10 DEF WorkerStep

LEMMA ReviewRecorded ==
  ASSUME TypeOK, NEW v \in Reviews, NEW row \in Cycles, NextReview(v),
         row.state \in ActiveCycle => row.run # None, cycles' = [cycles EXCEPT ![v] = row]
  PROVE  /\ cycles' \in [Reviews -> Cycles]
         /\ \A u \in Reviews : cycles'[u].state \in ActiveCycle => cycles'[u].run # None
         /\ ReviewsStand
BY DEF TypeOK, NextReview, ReviewsStand

LEMMA ReviewTypes ==
  ASSUME TypeOK, Named, NEW v \in Reviews, ReviewStep(v)
  PROVE  TypeOK' /\ Named' /\ ReviewsStand
<1> PICK h \in Commits :
      ReviewApproves(v, h) \/ (\E n \in RunIds : ReviewRequestsChanges(v, h, n)) \/ ReviewReachesLimit(v, h)
  BY DEF ReviewStep
<1>1. CASE ReviewApproves(v, h)
  <2>1. Cycle("Approved", None, h) \in Cycles /\ Cycle("Approved", None, h).state \notin ActiveCycle
    BY DEF Cycle, Cycles, ActiveCycle
  <2>2. QED
    BY <1>1, <2>1, ReviewRecorded DEF ReviewApproves, TypeOK, Named
<1>2. CASE ReviewReachesLimit(v, h)
  <2>1. Cycle("Blocked", None, None) \in Cycles /\ Cycle("Blocked", None, None).state \notin ActiveCycle
    BY DEF Cycle, Cycles, ActiveCycle, Commits
  <2>2. QED
    BY <1>2, <2>1, ReviewRecorded DEF ReviewReachesLimit, TypeOK, Named
<1>3. ASSUME NEW n \in RunIds, ReviewRequestsChanges(v, h, n)
      PROVE  TypeOK' /\ Named' /\ ReviewsStand
  <2>1. QueuedCorrection(n) \in Cycles /\ QueuedCorrection(n).run # None
    BY RunIdFacts DEF QueuedCorrection, Cycle, Cycles, ActiveCycle, Commits
  <2>2. cycles' = [cycles EXCEPT ![v] = QueuedCorrection(n)] /\ NextReview(v)
    BY <1>3 DEF ReviewRequestsChanges
  <2>3. runs' \in [RunIds -> Runs]
    BY <1>3, RunAdded DEF ReviewRequestsChanges
  <2>4. approvals' \in [RunIds -> ApprovalStatus]
    BY <1>3, ApprovalsClosed DEF ReviewRequestsChanges, ApprovalStatus
  <2>5. QED
    BY <1>3, <2>1, <2>2, <2>3, <2>4, ReviewRecorded DEF ReviewRequestsChanges, TypeOK, Named
<1>4. QED
  BY <1>1, <1>2, <1>3

LEMMA StatusFacts ==
  /\ "Draft PR opened" \notin ActiveStatus /\ "None" \notin ActiveStatus
  /\ "Queued" \in ActiveStatus /\ "Running" \in ActiveStatus /\ "Tests passed" \in ActiveStatus
BY DEF ActiveStatus

\* The steps of a run once it is queued.
RunGoesOn(r) ==
  \/ ClaimQueuedAgentRun(r)
  \/ MarkAgentRunRunning(r)
  \/ PassTests(r)
  \/ ReportFailure(r)
  \/ FailAgentRun(r)
  \/ ReconcileAgentWorkflow(r)
  \/ CancelAgentRun(r)
  \/ \E requested \in BOOLEAN : CompleteAgentRun(r, requested)

\* The row a run gets when it goes on.
RowGoesOn(r) ==
  /\ runs' \in [RunIds -> Runs]
  /\ \A n \in RunIds \ {r} : runs'[n] = runs[n]
  /\ runs'[r].base = runs[r].base /\ runs'[r].kind = runs[r].kind
  /\ Active(r)
  /\ runs'[r].status \in {"Running", "Tests passed", "Failed", "No changes", "Cancelled", "Draft PR opened"}
  /\ runs'[r].status = "Running" => runs[r].status \in {"Queued", "Running"}
  /\ runs'[r].status = "Draft PR opened" => r \in pull.pushed
  /\ runs'[r].tested => runs[r].tested \/ runs'[r].status = "Tests passed"

LEMMA RunGoes ==
  ASSUME TypeOK, NEW r \in RunIds, RunGoesOn(r)
  PROVE  RowGoesOn(r)
<1>1. ASSUME NEW status \in {"Running", "Failed", "No changes", "Cancelled", "Draft PR opened"},
             SetRun(r, status), Active(r),
             status = "Running" => runs[r].status \in {"Queued", "Running"},
             status = "Draft PR opened" => r \in pull.pushed
      PROVE  RowGoesOn(r)
  <2>1. status \in RunStatus
    BY DEF RunStatus, ActiveStatus
  <2>2. QED
    BY <1>1, <2>1, RunSet DEF RowGoesOn
<1>2. CASE ClaimQueuedAgentRun(r)
  BY <1>1, <1>2, StatusFacts DEF ClaimQueuedAgentRun, Active
<1>3. CASE MarkAgentRunRunning(r)
  BY <1>1, <1>3, StatusFacts DEF MarkAgentRunRunning, Active
<1>4. CASE PassTests(r)
  BY <1>4, TestsRecorded DEF PassTests, Completable, RowGoesOn
<1>5. CASE ReportFailure(r) \/ FailAgentRun(r) \/ ReconcileAgentWorkflow(r)
  <2>1. PICK ending \in {"Failed", "No changes", "Cancelled"} : SetRun(r, ending)
    BY <1>5 DEF ReportFailure, FailAgentRun, ReconcileAgentWorkflow, EndRun
  <2>2. Active(r)
    BY <1>5 DEF ReportFailure, FailAgentRun, ReconcileAgentWorkflow, Completable
  <2>3. QED
    BY <1>1, <2>1, <2>2
<1>6. CASE CancelAgentRun(r)
  BY <1>1, <1>6, StatusFacts DEF CancelAgentRun, Active
<1>7. ASSUME NEW requested \in BOOLEAN, CompleteAgentRun(r, requested)
      PROVE  RowGoesOn(r)
  BY <1>1, <1>7 DEF CompleteAgentRun, Completable
<1>8. QED
  BY <1>2, <1>3, <1>4, <1>5, <1>6, <1>7 DEF RunGoesOn

LEMMA RunTypes ==
  ASSUME TypeOK, Named, NEW r \in RunIds, RunStep(r)
  PROVE  TypeOK' /\ Named' /\ ReviewsStand
<1>1. CASE RejectFinalExecution(r)
  <2>1. approvals' \in [RunIds -> ApprovalStatus]
    BY <1>1, ApprovalsClosed DEF RejectFinalExecution, ApprovalStatus
  <2>2. QED
    BY <1>1, <2>1, SameCycles DEF RejectFinalExecution, TypeOK, Named
<1>2. ASSUME RunGoesOn(r), UNCHANGED <<approvals, attempts, verdicts, pull, workers, requests>>,
             \/ UNCHANGED cycles
             \/ \E from \in SUBSET ActiveCycle, state \in ActiveCycle \cup {"Failed"} :
                  SetCycle(r, from, state, None)
      PROVE  TypeOK' /\ Named' /\ ReviewsStand
  <2>1. runs' \in [RunIds -> Runs]
    BY <1>2, RunGoes DEF RowGoesOn
  <2>2. None \in Commits
    BY DEF Commits
  <2>3. CASE UNCHANGED cycles
    BY <1>2, <2>1, <2>3, SameCycles DEF TypeOK, Named
  <2>4. ASSUME NEW from \in SUBSET ActiveCycle, NEW state \in ActiveCycle \cup {"Failed"},
               SetCycle(r, from, state, None)
        PROVE  TypeOK' /\ Named' /\ ReviewsStand
    BY <1>2, <2>1, <2>2, <2>4, CyclesSet DEF TypeOK, Named, ReviewsStand
  <2>5. QED
    BY <1>2, <2>3, <2>4
<1>3. CASE ClaimQueuedAgentRun(r) \/ PassTests(r) \/ CancelAgentRun(r)
  <2>1. UNCHANGED <<approvals, attempts, verdicts, cycles, pull, workers, requests>>
    BY <1>3 DEF ClaimQueuedAgentRun, PassTests, CancelAgentRun
  <2>2. QED
    BY <1>2, <1>3, <2>1 DEF RunGoesOn
<1>4. CASE MarkAgentRunRunning(r)
  <2>1. {"Correction queued"} \in SUBSET ActiveCycle /\ "Correction running" \in ActiveCycle
    BY DEF ActiveCycle
  <2>2. /\ UNCHANGED <<approvals, attempts, verdicts, pull, workers, requests>>
        /\ SetCycle(r, {"Correction queued"}, "Correction running", None)
    BY <1>4 DEF MarkAgentRunRunning
  <2>3. QED
    BY <1>2, <1>4, <2>1, <2>2 DEF RunGoesOn
<1>5. CASE ReportFailure(r) \/ FailAgentRun(r) \/ ReconcileAgentWorkflow(r)
  <2>1. /\ UNCHANGED <<approvals, attempts, verdicts, pull, workers, requests>>
        /\ SetCycle(r, ActiveCycle, "Failed", None)
    BY <1>5 DEF ReportFailure, FailAgentRun, ReconcileAgentWorkflow, EndRun, FailCycle
  <2>2. QED
    BY <1>2, <1>5, <2>1 DEF RunGoesOn
<1>6. CASE PushCorrection(r)
  <2>1. pull \in Pulls /\ r \in Commits
    BY DEF TypeOK, Commits
  <2>2. [pull EXCEPT !.head = r, !.pushed = @ \cup {r}, !.unseen = @ \cup {r}] \in Pulls
    BY <2>1 DEF Pulls
  <2>3. QED
    BY <1>6, <2>2, SameCycles DEF PushCorrection, TypeOK, Named
<1>7. ASSUME NEW requested \in BOOLEAN, CompleteAgentRun(r, requested)
      PROVE  TypeOK' /\ Named' /\ ReviewsStand
  <2> DEFINE state == IF requested THEN "Review requested" ELSE "Correction published"
  <2>1. runs' \in [RunIds -> Runs]
    BY <1>7, RunGoes DEF RunGoesOn, RowGoesOn
  <2>2. approvals' \in [RunIds -> ApprovalStatus]
    BY <1>7 DEF CompleteAgentRun, TypeOK, ApprovalStatus
  <2>3. state \in ActiveCycle \cup {"Review requested"} /\ SetCycle(r, ActiveCycle, state, r)
        /\ r \in Commits
    BY <1>7 DEF CompleteAgentRun, ActiveCycle, Commits
  <2>4. /\ cycles' \in [Reviews -> Cycles]
        /\ \A v \in Reviews : cycles'[v].state \in ActiveCycle => cycles'[v].run # None
        /\ ReviewsStand
    <3> HIDE DEF state
    <3>1. QED
      BY <2>3, CyclesSet DEF ReviewsStand
  <2>5. QED
    BY <1>7, <2>1, <2>2, <2>4 DEF CompleteAgentRun, TypeOK, Named
<1>8. CASE RecordIssueResultReview(r)
  <2>1. approvals' \in [RunIds -> ApprovalStatus] /\ attempts' \in [RunIds -> AttemptStatus]
    BY <1>8, ApprovalsClosed, QueueCancelled
       DEF RecordIssueResultReview, WithdrawAuthority, ApprovalStatus
  <2>2. verdicts' \in [RunIds -> {"none", "changes"}]
    BY <1>8 DEF RecordIssueResultReview, TypeOK
  <2>3. QED
    BY <1>8, <2>1, <2>2, SameCycles DEF RecordIssueResultReview, TypeOK, Named, AttemptStatus
<1>9. QED
  BY <1>1, <1>3, <1>4, <1>5, <1>6, <1>7, <1>8 DEF RunStep

LEMMA GithubTypes ==
  ASSUME TypeOK, Named, GithubStep
  PROVE  TypeOK' /\ Named' /\ ReviewsStand
<1>1. pull \in Pulls /\ None \in Commits
  BY DEF TypeOK, Commits
<1>2. CASE SomebodyPushes
  <2>1. [pull EXCEPT !.head = None, !.pushed = @ \cup {None}, !.unseen = @ \cup {None}] \in Pulls
    BY <1>1 DEF Pulls
  <2>2. QED
    BY <1>2, <2>1, SameCycles DEF SomebodyPushes, TypeOK, Named
<1>3. ASSUME NEW merged \in BOOLEAN, SomebodyCloses(merged)
      PROVE  TypeOK' /\ Named' /\ ReviewsStand
  <2>1. [pull EXCEPT !.state = IF merged THEN "merged" ELSE "closed", !.mergeUnseen = merged] \in Pulls
    BY <1>1 DEF Pulls
  <2>2. QED
    BY <1>3, <2>1, SameCycles DEF SomebodyCloses, TypeOK, Named
<1>4. ASSUME NEW h \in Commits, SynchronizeEvent(h)
      PROVE  TypeOK' /\ Named' /\ ReviewsStand
  <2>1. [pull EXCEPT !.unseen = @ \ {h}] \in Pulls
    BY <1>1 DEF Pulls
  <2>2. approvals' \in [RunIds -> ApprovalStatus]
    BY <1>4, ApprovalsClosed DEF SynchronizeEvent, ApprovalStatus
  <2>3. QED
    BY <1>4, <2>1, <2>2, SameCycles DEF SynchronizeEvent, TypeOK, Named
<1>5. CASE MergedEvent
  <2>1. [pull EXCEPT !.mergeUnseen = FALSE] \in Pulls
    BY <1>1 DEF Pulls
  <2>2. attempts' \in [RunIds -> AttemptStatus]
    BY <1>5 DEF MergedEvent, TypeOK, AttemptStatus
  <2>3. QED
    BY <1>5, <2>1, <2>2, SameCycles DEF MergedEvent, TypeOK, Named, AttemptStatus
<1>6. QED
  BY <1>2, <1>3, <1>4, <1>5 DEF GithubStep

LEMMA Types == TypeOK /\ Named /\ [Next]_vars => TypeOK' /\ Named' /\ ReviewsStand
<1> SUFFICES ASSUME TypeOK, Named, [Next]_vars PROVE TypeOK' /\ Named' /\ ReviewsStand
  OBVIOUS
<1>1. CASE UNCHANGED vars
  BY <1>1 DEF vars, TypeOK, Named, ReviewsStand
<1>2. CASE Next
  BY <1>2, RequestTypes, WorkerTypes, ReviewTypes, RunTypes, GithubTypes DEF Next
<1>3. QED
  BY <1>1, <1>2

\* Every table keeps its type, and an unsettled review cycle names its run.
THEOREM TypeCorrect == Spec => []TypeOK
<1>1. QED
  BY InitTypeOK, Types, PTL DEF Spec

-----------------------------------------------------------------------------
(* Authority *)

\* A request that is about to approve saw the reviewer's approval.
RequestsAreReviewed ==
  \A q \in Requests : requests[q].step = "approve" => ReviewerApproved(requests[q].run)

\* A worker at work claimed its run and is the only one to work on it.
WorkersOwnTheirRuns ==
  \A w \in Workers : workers[w].step # "idle" =>
    /\ Attempted(workers[w].run)
    /\ \A x \in Workers \ {w} : workers[x].step # "idle" => workers[x].run # workers[w].run

\* What the database takes for merged is merged.
MergesAreReal ==
  /\ pull.mergeUnseen \/ pull.by # None => pull.state = "merged"
  /\ \A r \in RunIds : attempts[r] = "Succeeded" => pull.state = "merged"
  /\ \A w \in Workers : workers[w].step = "merged" => pull.state = "merged"

AuthorityInv ==
  TypeOK /\ Named /\ LiveMergeIsAuthorized /\ RequestsAreReviewed /\ WorkersOwnTheirRuns /\ MergesAreReal

LEMMA StillReviewed ==
  ASSUME ReviewsStand, NEW r \in RunIds, ReviewerApproved(r)
  PROVE  ReviewerApproved(r)'
BY DEF ReviewsStand, ReviewerApproved

LEMMA InitAuthority == Init => AuthorityInv
<1> SUFFICES ASSUME Init PROVE AuthorityInv
  OBVIOUS
<1>1. TypeOK /\ Named
  BY InitTypeOK
<1>2. LiveMergeIsAuthorized
  BY DEF Init, LiveMergeIsAuthorized
<1>3. RequestsAreReviewed /\ WorkersOwnTheirRuns
  BY IdleRows DEF Init, RequestsAreReviewed, WorkersOwnTheirRuns
<1>4. MergesAreReal
  BY IdleRows DEF Init, MergesAreReal
<1>5. QED
  BY <1>1, <1>2, <1>3, <1>4 DEF AuthorityInv

\* Nothing that was merged is unmerged.
MergesStand ==
  /\ pull'.by = pull.by
  /\ pull.state = "merged" => pull'.state = "merged"
  /\ pull'.mergeUnseen => pull'.state = "merged"

\* A step that touches no merge that is queued or under way.
Quiet ==
  /\ UNCHANGED <<attempts, verdicts, workers>>
  /\ \A r \in RunIds : approvals[r] = "Approved" => approvals'[r] = "Approved"
  /\ \A q \in Requests : requests'[q].step = "approve" =>
       requests'[q].run \in RunIds /\ ReviewerApproved(requests'[q].run)
  /\ MergesStand

LEMMA SamePull == ASSUME AuthorityInv, UNCHANGED pull PROVE MergesStand
BY DEF AuthorityInv, MergesAreReal, MergesStand

LEMMA SameRequests ==
  ASSUME AuthorityInv, UNCHANGED requests
  PROVE  \A q \in Requests : requests'[q].step = "approve" =>
           requests'[q].run \in RunIds /\ ReviewerApproved(requests'[q].run)
BY DEF AuthorityInv, RequestsAreReviewed, Named

LEMMA RequestEnded ==
  ASSUME AuthorityInv, NEW q \in Requests, NEW state \in RequestStates, state.step # "approve",
         requests' = [requests EXCEPT ![q] = state]
  PROVE  \A p \in Requests : requests'[p].step = "approve" =>
           requests'[p].run \in RunIds /\ ReviewerApproved(requests'[p].run)
BY RequestMoved DEF AuthorityInv, RequestsAreReviewed, Named

LEMMA ClosedPending ==
  ASSUME TypeOK, NEW which, NEW to \in ApprovalStatus, Close(which, {"Pending"}, to)
  PROVE  \A r \in RunIds : approvals[r] = "Approved" => approvals'[r] = "Approved"
BY ApprovalsClosed

LEMMA QuietSteps ==
  ASSUME AuthorityInv,
         \/ \E q \in Requests : \/ \E r \in RunIds : ReadCandidate(q, r) \/ CheckRework(q, r)
                                \/ ExpireFinalApproval(q) \/ RequestEnds(q)
         \/ \E v \in Reviews : ReviewStep(v)
         \/ \E r \in RunIds : RunStep(r) /\ ~RecordIssueResultReview(r)
         \/ GithubStep /\ ~MergedEvent
         \/ UNCHANGED vars
  PROVE  Quiet
<1> USE DEF Quiet
<1>0. TypeOK
  BY DEF AuthorityInv
<1>1. ASSUME NEW q \in Requests, NEW r \in RunIds, ReadCandidate(q, r)
      PROVE  Quiet
  <2> DEFINE reuse == attempts[r] = "Failed"
  <2>1. PICK step \in {"overdue", "approve"} :
          /\ requests' = [requests EXCEPT ![q] = Request(step, r, reuse)]
          /\ step = "approve" => ReviewerApproved(r)
    BY <1>1 DEF ReadCandidate
  <2>2. /\ Request(step, r, reuse) \in RequestStates
        /\ Request(step, r, reuse).step = step /\ Request(step, r, reuse).run = r
    BY DEF Request, RequestStates
  <2>3. \A p \in Requests : requests'[p].step = "approve" =>
          requests'[p].run \in RunIds /\ ReviewerApproved(requests'[p].run)
    <3>1. /\ requests'[q] = Request(step, r, reuse)
          /\ \A p \in Requests \ {q} : requests'[p] = requests[p]
      BY <1>0, <2>1, <2>2, RequestMoved
    <3>2. QED
      BY <2>1, <2>2, <3>1 DEF AuthorityInv, RequestsAreReviewed, Named
  <2>4. QED
    BY <1>1, <2>3, SamePull DEF ReadCandidate
<1>2. ASSUME NEW q \in Requests, NEW r \in RunIds, CheckRework(q, r)
      PROVE  Quiet
  <2>1. Request("rework", r, FALSE) \in RequestStates /\ Request("rework", r, FALSE).step = "rework"
    BY DEF Request, RequestStates
  <2>2. QED
    BY <1>2, <2>1, RequestEnded, SamePull DEF CheckRework
<1>3. ASSUME NEW q \in Requests, ExpireFinalApproval(q) \/ RequestEnds(q)
      PROVE  Quiet
  BY <1>0, <1>3, IdleRows, RequestEnded, SamePull, ClosedPending
     DEF ExpireFinalApproval, RequestEnds, ApprovalStatus
<1>4. ASSUME NEW v \in Reviews, ReviewStep(v)
      PROVE  Quiet
  <2>1. /\ UNCHANGED <<attempts, verdicts, pull, workers, requests>>
        /\ UNCHANGED approvals \/ \E s \in RunIds : Close({s}, {"Pending"}, "Superseded")
    BY <1>4 DEF ReviewStep, ReviewApproves, ReviewRequestsChanges, ReviewReachesLimit
  <2>2. QED
    BY <1>0, <2>1, SamePull, SameRequests, ClosedPending DEF ApprovalStatus
<1>5. ASSUME NEW r \in RunIds, RunStep(r), ~RecordIssueResultReview(r)
      PROVE  Quiet
  <2>1. CASE RejectFinalExecution(r)
    BY <1>0, <2>1, SamePull, SameRequests, ClosedPending DEF RejectFinalExecution, ApprovalStatus
  <2>2. CASE RunGoesOn(r) /\ ~\E requested \in BOOLEAN : CompleteAgentRun(r, requested)
    <3>1. UNCHANGED <<approvals, attempts, verdicts, pull, workers, requests>>
      BY <2>2 DEF RunGoesOn, ClaimQueuedAgentRun, MarkAgentRunRunning, PassTests, ReportFailure,
                  FailAgentRun, ReconcileAgentWorkflow, EndRun, CancelAgentRun
    <3>2. QED
      BY <3>1, SamePull, SameRequests
  <2>3. CASE PushCorrection(r)
    <3>1. pull \in Pulls
      BY <1>0 DEF TypeOK
    <3>2. pull'.by = pull.by /\ pull'.state = pull.state /\ pull'.mergeUnseen = pull.mergeUnseen
      BY <2>3, <3>1 DEF PushCorrection, Pulls
    <3>3. QED
      BY <2>3, <3>2, SameRequests DEF PushCorrection, MergesStand, AuthorityInv, MergesAreReal
  <2>4. ASSUME NEW requested \in BOOLEAN, CompleteAgentRun(r, requested)
        PROVE  Quiet
    <3>1. \A n \in RunIds : approvals[n] = "Approved" => approvals'[n] = "Approved"
      BY <2>4 DEF CompleteAgentRun
    <3>2. QED
      BY <2>4, <3>1, SamePull, SameRequests DEF CompleteAgentRun
  <2>5. QED
    BY <1>5, <2>1, <2>2, <2>3, <2>4 DEF RunStep, RunGoesOn
<1>6. CASE GithubStep /\ ~MergedEvent
  <2>1. pull \in Pulls
    BY <1>0 DEF TypeOK
  <2>2. CASE SomebodyPushes
    <3>1. pull'.by = pull.by /\ pull'.state = pull.state /\ pull'.mergeUnseen = pull.mergeUnseen
      BY <2>1, <2>2 DEF SomebodyPushes, Pulls
    <3>2. QED
      BY <2>2, <3>1, SameRequests DEF SomebodyPushes, MergesStand, AuthorityInv, MergesAreReal
  <2>3. ASSUME NEW merged \in BOOLEAN, SomebodyCloses(merged)
        PROVE  Quiet
    <3>1. pull'.by = pull.by /\ pull.state = "open" /\ (pull'.mergeUnseen => pull'.state = "merged")
      BY <2>1, <2>3 DEF SomebodyCloses, Pulls
    <3>2. QED
      BY <2>3, <3>1, SameRequests DEF SomebodyCloses, MergesStand
  <2>4. ASSUME NEW h \in Commits, SynchronizeEvent(h)
        PROVE  Quiet
    <3>1. pull'.by = pull.by /\ pull'.state = pull.state /\ pull'.mergeUnseen = pull.mergeUnseen
      BY <2>1, <2>4 DEF SynchronizeEvent, Pulls
    <3>2. QED
      BY <1>0, <2>4, <3>1, SameRequests, ClosedPending
         DEF SynchronizeEvent, MergesStand, AuthorityInv, MergesAreReal, ApprovalStatus
  <2>5. QED
    BY <1>6, <2>2, <2>3, <2>4 DEF GithubStep
<1>7. CASE UNCHANGED vars
  BY <1>7, SamePull, SameRequests DEF vars
<1>8. QED
  BY <1>1, <1>2, <1>3, <1>4, <1>5, <1>6, <1>7

LEMMA QuietKeepsAuthority ==
  ASSUME AuthorityInv, Quiet, TypeOK', Named', ReviewsStand
  PROVE  AuthorityInv'
<1>1. LiveMergeIsAuthorized'
  BY StillReviewed DEF AuthorityInv, LiveMergeIsAuthorized, Quiet
<1>2. RequestsAreReviewed'
  BY StillReviewed DEF RequestsAreReviewed, Quiet
<1>3. WorkersOwnTheirRuns'
  BY DEF AuthorityInv, WorkersOwnTheirRuns, Quiet, Attempted
<1>4. MergesAreReal'
  BY DEF AuthorityInv, MergesAreReal, Quiet, MergesStand
<1>5. QED
  BY <1>1, <1>2, <1>3, <1>4 DEF AuthorityInv

\* A step that takes the decision about one run back, or leaves it: the run
\* has no worker.
Withdraws(r) ==
  /\ ~Attempted(r)
  /\ attempts'[r] = IF attempts[r] = "Queued" THEN "Failed" ELSE attempts[r]
  /\ \A n \in RunIds \ {r} : /\ attempts'[n] = attempts[n] /\ verdicts'[n] = verdicts[n]
                             /\ approvals[n] = "Approved" => approvals'[n] = "Approved"
  /\ UNCHANGED <<workers, pull>>
  /\ \A q \in Requests : requests'[q].step = "approve" =>
       requests'[q].run \in RunIds /\ ReviewerApproved(requests'[q].run)

LEMMA WithdrawSteps ==
  ASSUME AuthorityInv,
         \/ \E q \in Requests, n \in RunIds : AuthorizeIssueResultRework(q, n)
         \/ \E r \in RunIds : RecordIssueResultReview(r)
  PROVE  \E r \in RunIds : Withdraws(r)
<1>0. TypeOK
  BY DEF AuthorityInv
<1>1. ASSUME NEW q \in Requests, NEW n \in RunIds, AuthorizeIssueResultRework(q, n)
      PROVE  \E r \in RunIds : Withdraws(r)
  <2> DEFINE r == requests[q].run
  <2>1. r \in RunIds
    BY <1>1 DEF AuthorizeIssueResultRework, AuthorityInv, Named
  <2>2. ~Attempted(r) /\ CancelQueued(r) /\ Close({r}, {"Pending", "Approved"}, "Superseded")
        /\ UNCHANGED <<verdicts, workers, pull>>
    BY <1>1 DEF AuthorizeIssueResultRework, Reviewable
  <2>3. \A p \in Requests : requests'[p].step = "approve" =>
          requests'[p].run \in RunIds /\ ReviewerApproved(requests'[p].run)
    BY <1>1, IdleRows, RequestEnded DEF AuthorizeIssueResultRework
  <2> HIDE DEF r
  <2>4. Withdraws(r)
    BY <1>0, <2>1, <2>2, <2>3, QueueCancelled, ApprovalsClosed DEF Withdraws, ApprovalStatus
  <2>5. QED
    BY <2>1, <2>4
<1>2. ASSUME NEW r \in RunIds, RecordIssueResultReview(r)
      PROVE  Withdraws(r)
  <2>1. ~Attempted(r) /\ CancelQueued(r) /\ Close({r}, {"Pending", "Approved"}, "Rejected")
        /\ UNCHANGED <<workers, pull, requests>>
    BY <1>2 DEF RecordIssueResultReview, Reviewable, WithdrawAuthority
  <2>2. \A n \in RunIds \ {r} : verdicts'[n] = verdicts[n]
    BY <1>0, <1>2 DEF RecordIssueResultReview, TypeOK
  <2>3. QED
    BY <1>0, <2>1, <2>2, SameRequests, QueueCancelled, ApprovalsClosed DEF Withdraws, ApprovalStatus
<1>3. QED
  BY <1>1, <1>2

LEMMA WithdrawalKeepsAuthority ==
  ASSUME AuthorityInv, NEW r \in RunIds, Withdraws(r), TypeOK', Named', ReviewsStand
  PROVE  AuthorityInv'
<1>1. attempts'[r] \notin {"Queued", "Running", "Succeeded"}
  BY DEF Withdraws, Attempted
<1>2. LiveMergeIsAuthorized'
  BY <1>1, StillReviewed DEF AuthorityInv, LiveMergeIsAuthorized, Withdraws
<1>3. RequestsAreReviewed'
  BY StillReviewed DEF RequestsAreReviewed, Withdraws
<1>4. WorkersOwnTheirRuns'
  BY DEF AuthorityInv, WorkersOwnTheirRuns, Withdraws, Attempted, Named
<1>5. MergesAreReal'
  BY <1>1 DEF AuthorityInv, MergesAreReal, Withdraws
<1>6. QED
  BY <1>2, <1>3, <1>4, <1>5 DEF AuthorityInv

LEMMA ApprovalKeepsAuthority ==
  ASSUME AuthorityInv, NEW q \in Requests, ApproveFinalExecution(q), TypeOK', Named', ReviewsStand
  PROVE  /\ AuthorityInv'
         /\ requests[q].run \in RunIds /\ attempts[requests[q].run] \in {"None", "Failed"}
<1> DEFINE r == requests[q].run
<1>1. r \in RunIds /\ ReviewerApproved(r)
  BY DEF ApproveFinalExecution, AuthorityInv, Named, RequestsAreReviewed
<1>2. verdicts[r] # "changes" /\ attempts[r] \in {"None", "Failed"}
      /\ attempts' = [attempts EXCEPT ![r] = "Queued"]
      /\ approvals' = [approvals EXCEPT ![r] = "Approved"]
      /\ UNCHANGED <<verdicts, pull, workers>>
  BY DEF ApproveFinalExecution, Approvable
<1> HIDE DEF r
<1>3. /\ attempts'[r] = "Queued" /\ \A n \in RunIds \ {r} : attempts'[n] = attempts[n]
      /\ approvals'[r] = "Approved" /\ \A n \in RunIds \ {r} : approvals'[n] = approvals[n]
  BY <1>1, <1>2 DEF AuthorityInv, TypeOK
<1>4. LiveMergeIsAuthorized'
  BY <1>1, <1>2, <1>3, StillReviewed DEF AuthorityInv, LiveMergeIsAuthorized
<1>5. RequestsAreReviewed'
  <2>1. \A p \in Requests : requests'[p].step = "approve" =>
          requests'[p].run \in RunIds /\ ReviewerApproved(requests'[p].run)
    BY IdleRows, RequestEnded DEF ApproveFinalExecution
  <2>2. QED
    BY <2>1, StillReviewed DEF RequestsAreReviewed
<1>6. WorkersOwnTheirRuns'
  BY <1>2, <1>3 DEF AuthorityInv, WorkersOwnTheirRuns, Attempted, Named
<1>7. MergesAreReal'
  BY <1>2, <1>3 DEF AuthorityInv, MergesAreReal
<1>8. QED
  BY <1>1, <1>2, <1>4, <1>5, <1>6, <1>7 DEF AuthorityInv, r

LEMMA MergedEventKeepsAuthority ==
  ASSUME AuthorityInv, MergedEvent, TypeOK', Named', ReviewsStand
  PROVE  AuthorityInv'
<1>1. /\ UNCHANGED <<approvals, verdicts, workers, requests>>
      /\ \A r \in RunIds : attempts'[r] = IF Latest(r) /\ attempts[r] \in {"Queued", "Running"}
                                          THEN "Succeeded" ELSE attempts[r]
      /\ pull.mergeUnseen /\ pull' = [pull EXCEPT !.mergeUnseen = FALSE]
  BY DEF MergedEvent
<1>2. pull'.state = pull.state /\ pull'.by = pull.by /\ pull.state = "merged"
  <2>1. pull \in Pulls
    BY DEF AuthorityInv, TypeOK
  <2>2. QED
    BY <1>1, <2>1 DEF AuthorityInv, MergesAreReal, Pulls
<1>3. LiveMergeIsAuthorized'
  BY <1>1, StillReviewed DEF AuthorityInv, LiveMergeIsAuthorized
<1>4. RequestsAreReviewed'
  BY <1>1, StillReviewed DEF AuthorityInv, RequestsAreReviewed, Named
<1>5. WorkersOwnTheirRuns'
  BY <1>1 DEF AuthorityInv, WorkersOwnTheirRuns, Attempted, Named
<1>6. MergesAreReal'
  BY <1>1, <1>2 DEF AuthorityInv, MergesAreReal
<1>7. QED
  BY <1>3, <1>4, <1>5, <1>6 DEF AuthorityInv

LEMMA ClaimSteps ==
  ASSUME AuthorityInv, NEW w \in Workers, NEW r \in RunIds, ClaimFinalExecution(w, r)
  PROVE  /\ attempts[r] = "Queued" /\ workers[w].step = "idle"
         /\ \/ Withdraws(r)
            \/ /\ attempts'[r] = "Running" /\ \A n \in RunIds \ {r} : attempts'[n] = attempts[n]
               /\ WorkerGoes(w, Worker("claimed", r))
               /\ UNCHANGED <<approvals, verdicts, pull, requests>>
<1>1. attempts[r] = "Queued" /\ workers[w].step = "idle"
  BY DEF ClaimFinalExecution, Waits
<1>2. CASE BlockMerge(r) /\ UNCHANGED workers
  <2>1. /\ attempts'[r] = "Failed" /\ \A n \in RunIds \ {r} : attempts'[n] = attempts[n]
        /\ \A n \in RunIds \ {r} : approvals'[n] = approvals[n]
    BY <1>2 DEF BlockMerge, AuthorityInv, TypeOK
  <2>2. UNCHANGED <<verdicts, pull, requests>>
    BY DEF ClaimFinalExecution
  <2>3. Withdraws(r)
    BY <1>1, <1>2, <2>1, <2>2, SameRequests DEF Withdraws, Attempted
  <2>4. QED
    BY <1>1, <2>3
<1>3. CASE TakeFromQueue(r) /\ WorkerGoes(w, Worker("claimed", r)) /\ UNCHANGED approvals
  <2>1. attempts'[r] = "Running" /\ \A n \in RunIds \ {r} : attempts'[n] = attempts[n]
    BY <1>3 DEF TakeFromQueue, AuthorityInv, TypeOK
  <2>2. QED
    BY <1>1, <1>3, <2>1 DEF ClaimFinalExecution
<1>4. QED
  BY <1>2, <1>3 DEF ClaimFinalExecution

\* How a worker's step changes what it holds.
Advances(w) ==
  /\ workers[w].step # "idle"
  /\ workers'[w].step # "idle" => workers'[w].run = workers[w].run
  /\ \A x \in Workers \ {w} : workers'[x] = workers[x]
  /\ UNCHANGED <<verdicts, requests>>

LEMMA Moves ==
  ASSUME AuthorityInv, NEW w \in Workers, workers[w].step # "idle",
         UNCHANGED <<verdicts, requests>>,
         \/ \E step \in {"checked", "merged", "failed", "invalid"} :
              WorkerGoes(w, Worker(step, workers[w].run))
         \/ WorkerGoes(w, IdleWorker)
  PROVE  Advances(w)
<1>1. TypeOK /\ workers[w].run \in RunIds
  BY DEF AuthorityInv, Named
<1>2. CASE WorkerGoes(w, IdleWorker)
  BY <1>1, <1>2, IdleRows, WorkerMoved DEF Advances
<1>3. ASSUME NEW step \in {"checked", "merged", "failed", "invalid"},
             WorkerGoes(w, Worker(step, workers[w].run))
      PROVE  Advances(w)
  <2>1. Worker(step, workers[w].run) \in WorkerStates
        /\ Worker(step, workers[w].run).run = workers[w].run
    BY <1>1, WorkerWritten DEF MergingStep
  <2>2. QED
    BY <1>1, <1>3, <2>1, WorkerMoved DEF Advances
<1>4. QED
  BY <1>2, <1>3

LEMMA AdvanceKeepsAuthority ==
  ASSUME AuthorityInv, NEW w \in Workers, Advances(w), TypeOK', Named', ReviewsStand,
         LET r == workers[w].run
         IN  /\ \A n \in RunIds \ {r} : attempts'[n] = attempts[n] /\ approvals'[n] = approvals[n]
             /\ \/ UNCHANGED <<attempts, approvals>>
                \/ /\ workers'[w].step = "idle" /\ attempts'[r] \notin {"Queued", "Running"}
                   /\ attempts'[r] = "Succeeded" => pull'.state = "merged"
             /\ pull.state = "merged" => pull'.state = "merged"
             /\ pull'.mergeUnseen \/ pull'.by # None \/ workers'[w].step = "merged"
                  => pull'.state = "merged"
  PROVE  AuthorityInv'
<1> DEFINE r == workers[w].run
<1>0. r \in RunIds /\ Attempted(r)
  BY DEF Advances, AuthorityInv, Named, WorkersOwnTheirRuns
<1>1. LiveMergeIsAuthorized'
  BY StillReviewed DEF AuthorityInv, LiveMergeIsAuthorized, Advances
<1>2. RequestsAreReviewed'
  BY StillReviewed DEF AuthorityInv, RequestsAreReviewed, Named, Advances
<1>3. WorkersOwnTheirRuns'
  <2> SUFFICES ASSUME NEW x \in Workers, workers'[x].step # "idle"
               PROVE  /\ attempts'[workers'[x].run] \in {"Running", "Succeeded"}
                      /\ \A y \in Workers \ {x} :
                           workers'[y].step # "idle" => workers'[y].run # workers'[x].run
    BY DEF WorkersOwnTheirRuns, Attempted
  <2>1. workers'[x].run = workers[x].run /\ workers[x].step # "idle"
    BY DEF Advances
  <2>2. \A y \in Workers : workers'[y].step # "idle" =>
          workers[y].step # "idle" /\ workers'[y].run = workers[y].run
    BY DEF Advances
  <2>3. workers[x].run \in RunIds /\ Attempted(workers[x].run)
        /\ \A y \in Workers \ {x} : workers[y].step # "idle" => workers[y].run # workers[x].run
    BY <2>1 DEF AuthorityInv, Named, WorkersOwnTheirRuns
  <2>4. attempts'[workers[x].run] = attempts[workers[x].run]
    <3>1. CASE x = w
      BY <3>1
    <3>2. CASE x # w
      BY <2>3, <3>2 DEF Advances
    <3>3. QED
      BY <3>1, <3>2
  <2>5. QED
    BY <2>1, <2>2, <2>3, <2>4 DEF Attempted
<1>4. MergesAreReal'
  BY <1>0 DEF AuthorityInv, MergesAreReal, Advances
<1>5. QED
  BY <1>1, <1>2, <1>3, <1>4 DEF AuthorityInv

LEMMA WorkerKeepsAuthority ==
  ASSUME AuthorityInv, NEW w \in Workers, WorkerStep(w), TypeOK', Named', ReviewsStand
  PROVE  AuthorityInv'
<1> DEFINE r == workers[w].run
<1>0. TypeOK /\ pull \in Pulls
  BY DEF AuthorityInv, TypeOK
<1>1. ASSUME NEW n \in RunIds, ClaimFinalExecution(w, n)
      PROVE  AuthorityInv'
  <2>1. CASE Withdraws(n)
    BY <2>1, WithdrawalKeepsAuthority
  <2>2. CASE /\ attempts'[n] = "Running" /\ \A m \in RunIds \ {n} : attempts'[m] = attempts[m]
             /\ WorkerGoes(w, Worker("claimed", n))
             /\ UNCHANGED <<approvals, verdicts, pull, requests>>
    <3>1. attempts[n] = "Queued" /\ workers[w].step = "idle"
      BY <1>1, ClaimSteps
    <3>2. /\ workers'[w].step = "claimed" /\ workers'[w].run = n
          /\ \A x \in Workers \ {w} : workers'[x] = workers[x]
      BY <1>0, <2>2, WorkerWritten, WorkerMoved DEF MergingStep
    <3>3. LiveMergeIsAuthorized'
      BY <2>2, <3>1, StillReviewed DEF AuthorityInv, LiveMergeIsAuthorized
    <3>4. RequestsAreReviewed'
      BY <2>2, StillReviewed DEF AuthorityInv, RequestsAreReviewed, Named
    <3>5. \A x \in Workers : workers[x].step # "idle" => workers[x].run \in RunIds \ {n}
      BY <3>1 DEF AuthorityInv, Named, WorkersOwnTheirRuns, Attempted
    <3>6. WorkersOwnTheirRuns'
      BY <2>2, <3>2, <3>5 DEF AuthorityInv, WorkersOwnTheirRuns, Attempted
    <3>7. MergesAreReal'
      BY <2>2, <3>2 DEF AuthorityInv, MergesAreReal
    <3>8. QED
      BY <3>3, <3>4, <3>6, <3>7 DEF AuthorityInv
  <2>3. QED
    BY <1>1, <2>1, <2>2, ClaimSteps
<1>2. CASE CheckPullRequest(w)
  <2>1. PICK step \in {"checked", "failed", "invalid"} : WorkerGoes(w, Worker(step, r))
    BY <1>2 DEF CheckPullRequest
  <2>2. r \in RunIds
    BY <1>2 DEF CheckPullRequest, AuthorityInv, Named
  <2>3. workers'[w].step = step
    BY <1>0, <2>1, <2>2, WorkerWritten, WorkerMoved DEF MergingStep
  <2>4. Advances(w)
    BY <1>2, <2>1, Moves DEF CheckPullRequest
  <2>5. QED
    BY <1>2, <2>3, <2>4, AdvanceKeepsAuthority DEF CheckPullRequest, AuthorityInv, MergesAreReal
<1>3. CASE MergePullRequest(w)
  <2>1. Advances(w)
    BY <1>3, Moves DEF MergePullRequest
  <2>2. CASE WorkerGoes(w, Worker("failed", r)) /\ UNCHANGED pull
    <3>1. r \in RunIds
      BY <1>3 DEF MergePullRequest, AuthorityInv, Named
    <3>2. workers'[w].step = "failed"
      BY <1>0, <2>2, <3>1, WorkerWritten, WorkerMoved
    <3>3. QED
      BY <1>3, <2>1, <2>2, <3>2, AdvanceKeepsAuthority DEF MergePullRequest, AuthorityInv, MergesAreReal
  <2>3. CASE pull' = [pull EXCEPT !.state = "merged", !.by = r, !.mergeUnseen = TRUE]
    <3>1. pull'.state = "merged"
      BY <1>0, <2>3 DEF Pulls
    <3>2. QED
      BY <1>3, <2>1, <3>1, AdvanceKeepsAuthority DEF MergePullRequest
  <2>4. QED
    BY <1>3, <2>2, <2>3 DEF MergePullRequest
<1>4. CASE RecordMerge(w)
  <2>0. Advances(w) /\ r \in RunIds /\ Attempted(r) /\ pull.state = "merged"
    BY <1>4, Moves DEF RecordMerge, AuthorityInv, Named, WorkersOwnTheirRuns, MergesAreReal
  <2>1. CASE SettleAttempt(r, "Succeeded") /\ WorkerGoes(w, IdleWorker)
    <3>1. /\ attempts'[r] = "Succeeded" /\ \A n \in RunIds \ {r} : attempts'[n] = attempts[n]
          /\ workers'[w].step = "idle"
      BY <1>0, <2>0, <2>1, AttemptSettled, IdleRows, WorkerMoved DEF Attempted, AttemptStatus
    <3>2. QED
      BY <1>4, <2>0, <3>1, AdvanceKeepsAuthority DEF RecordMerge
  <2>2. CASE WorkerGoes(w, Worker("failed", r)) /\ UNCHANGED attempts
    BY <1>4, <2>0, <2>2, AdvanceKeepsAuthority DEF RecordMerge
  <2>3. QED
    BY <1>4, <2>1, <2>2 DEF RecordMerge
<1>5. CASE RecordFailure(w)
  <2>1. Advances(w) /\ r \in RunIds /\ Attempted(r)
    BY <1>5, Moves DEF RecordFailure, AuthorityInv, Named, WorkersOwnTheirRuns
  <2>2. /\ attempts'[r] = IF attempts[r] = "Running" THEN "Failed" ELSE attempts[r]
        /\ \A n \in RunIds \ {r} : attempts'[n] = attempts[n]
    BY <1>0, <1>5, <2>1, AttemptSettled DEF RecordFailure, AttemptStatus
  <2>3. \A n \in RunIds \ {r} : approvals'[n] = approvals[n]
    BY <1>0, <1>5 DEF RecordFailure, TypeOK
  <2>4. workers'[w].step = "idle" /\ UNCHANGED pull
    BY <1>0, <1>5, IdleRows, WorkerMoved DEF RecordFailure
  <2>5. attempts'[r] \notin {"Queued", "Running"} /\ (attempts'[r] = "Succeeded" => pull.state = "merged")
    BY <2>1, <2>2 DEF Attempted, AuthorityInv, MergesAreReal
  <2>6. QED
    BY <2>1, <2>2, <2>3, <2>4, <2>5, AdvanceKeepsAuthority DEF AuthorityInv, MergesAreReal
<1>6. CASE WorkerDies(w)
  <2>1. Advances(w)
    BY <1>6, Moves DEF WorkerDies
  <2>2. workers'[w].step = "idle"
    BY <1>0, <1>6, IdleRows, WorkerMoved DEF WorkerDies
  <2>3. QED
    BY <1>6, <2>1, <2>2, AdvanceKeepsAuthority DEF WorkerDies, AuthorityInv, MergesAreReal
<1>7. QED
  BY <1>1, <1>2, <1>3, <1>4, <1>5, <1>6 DEF WorkerStep

LEMMA AuthorityKept == AuthorityInv /\ [Next]_vars => AuthorityInv'
<1> SUFFICES ASSUME AuthorityInv, [Next]_vars PROVE AuthorityInv'
  OBVIOUS
<1>1. TypeOK' /\ Named' /\ ReviewsStand
  BY Types DEF AuthorityInv
<1>2. CASE Quiet
  BY <1>1, <1>2, QuietKeepsAuthority
<1>3. CASE \E r \in RunIds : Withdraws(r)
  BY <1>1, <1>3, WithdrawalKeepsAuthority
<1>4. ASSUME NEW q \in Requests, RequestStep(q)
      PROVE  AuthorityInv'
  BY <1>1, <1>2, <1>3, <1>4, QuietSteps, WithdrawSteps, ApprovalKeepsAuthority DEF RequestStep
<1>5. ASSUME NEW w \in Workers, WorkerStep(w)
      PROVE  AuthorityInv'
  BY <1>1, <1>5, WorkerKeepsAuthority
<1>6. ASSUME NEW r \in RunIds, RunStep(r)
      PROVE  AuthorityInv'
  BY <1>2, <1>3, <1>6, QuietSteps, WithdrawSteps
<1>7. CASE GithubStep
  BY <1>1, <1>2, <1>7, QuietSteps, MergedEventKeepsAuthority
<1>8. CASE (\E v \in Reviews : ReviewStep(v)) \/ UNCHANGED vars
  BY <1>2, <1>8, QuietSteps
<1>9. QED
  BY <1>4, <1>5, <1>6, <1>7, <1>8 DEF Next

LEMMA Authorized == Spec => []AuthorityInv
BY InitAuthority, AuthorityKept, PTL DEF Spec

\* A merge that is queued or under way has a standing approval of the commit,
\* the reviewer's and the administrator's, and no result review against it.
THEOREM LiveMergesAreAuthorized == Spec => []LiveMergeIsAuthorized
<1>1. AuthorityInv => LiveMergeIsAuthorized
  BY DEF AuthorityInv
<1>2. QED
  BY <1>1, Authorized, PTL

\* Only MergePullRequest merges on a decision.
LEMMA MergeStep ==
  ASSUME AuthorityInv, [Next]_vars, pull'.by # pull.by
  PROVE  \E w \in Workers : /\ workers[w].step = "checked" /\ MergePullRequest(w) /\ Merges(workers[w].run)
                            /\ pull' = [pull EXCEPT !.state = "merged", !.by = workers[w].run,
                                                    !.mergeUnseen = TRUE]
<1>0. pull \in Pulls
  BY DEF AuthorityInv, TypeOK
<1>1. ~Quiet /\ ~UNCHANGED pull /\ \A r \in RunIds : ~Withdraws(r)
  BY DEF Quiet, MergesStand, Withdraws
<1>2. ~MergedEvent
  BY <1>0 DEF MergedEvent, Pulls
<1>3. PICK w \in Workers : WorkerStep(w)
  BY <1>1, <1>2, QuietSteps, WithdrawSteps DEF Next, RequestStep, ApproveFinalExecution
<1>4. MergePullRequest(w)
  BY <1>1, <1>3 DEF WorkerStep, ClaimFinalExecution, CheckPullRequest, RecordMerge, RecordFailure, WorkerDies
<1>5. QED
  BY <1>1, <1>4 DEF MergePullRequest

\* What a worker merges is, at that moment, the head of the pull request, and
\* approved by the reviewer and by the administrator.
THEOREM MergesAreStillAuthorized == Spec => MergeIsStillAuthorized
<1>1. AuthorityInv /\ [Next]_vars =>
        \A r \in RunIds : pull.by # r /\ pull'.by = r =>
          /\ pull'.head = r /\ ReviewerApproved(r)
          /\ approvals[r] = "Approved" /\ verdicts[r] # "changes"
  <2> SUFFICES ASSUME AuthorityInv, [Next]_vars, NEW r \in RunIds, pull.by # r, pull'.by = r
               PROVE  /\ pull'.head = r /\ ReviewerApproved(r)
                      /\ approvals[r] = "Approved" /\ verdicts[r] # "changes"
    OBVIOUS
  <2>1. PICK w \in Workers :
          /\ workers[w].step = "checked" /\ Merges(workers[w].run)
          /\ pull' = [pull EXCEPT !.state = "merged", !.by = workers[w].run, !.mergeUnseen = TRUE]
    BY MergeStep
  <2>2. workers[w].run = r /\ pull'.head = pull.head
    BY <2>1 DEF AuthorityInv, TypeOK, Pulls
  <2>3. pull.state = "open" /\ pull.head = r
    BY <2>1, <2>2 DEF Merges
  <2>4. attempts[r] = "Running"
    BY <2>1, <2>2, <2>3 DEF AuthorityInv, WorkersOwnTheirRuns, MergesAreReal, Attempted
  <2>5. QED
    BY <2>2, <2>3, <2>4 DEF AuthorityInv, LiveMergeIsAuthorized
<1>2. QED
  BY <1>1, Authorized, PTL DEF Spec, MergeIsStillAuthorized

-----------------------------------------------------------------------------
(* One coding run at a time *)

RunsInv == TypeOK /\ Named /\ OneCodingRunAtATime

\* A run is queued after the last published one, when no other is active.
LEMMA QueuedAlone ==
  ASSUME RunsInv, NEW s \in RunIds, NEW n \in RunIds, TypeOK', Named',
         NextRun(n), Latest(s), Published(s), \A m \in RunIds : ~Active(m),
         \A m \in RunIds \ {n} : runs'[m] = runs[m],
         runs'[n].status = "Queued", runs'[n].base = s
  PROVE  RunsInv'
<1>1. n > s
  BY RunIdFacts DEF NextRun, Latest
<1>2. \A m \in RunIds : m > s => ~Exists(m)
  BY DEF Latest
<1>3. n = s + 1
  <2>1. n - 1 \in RunIds
    BY <1>1, RunIdFacts, CountAssumption DEF RunIds
  <2>2. Exists(n - 1)
    BY DEF NextRun, Latest
  <2>3. ~(n - 1 > s)
    BY <1>2, <2>1, <2>2
  <2>4. QED
    BY <1>1, <2>3, RunIdFacts, CountAssumption DEF RunIds
<1>4. \A m \in RunIds \ {n} : ~Active(m)' /\ (Published(m)' => m <= s)
  <2> SUFFICES ASSUME NEW m \in RunIds \ {n}
               PROVE  ~Active(m)' /\ (Published(m)' => m <= s)
    OBVIOUS
  <2>1. runs'[m] = runs[m] /\ ~Active(m)
    OBVIOUS
  <2>2. Published(m) => ~(m > s)
    BY <1>2 DEF Published, Exists
  <2>3. m \in Nat /\ s \in Nat
    BY RunIdFacts
  <2>4. Published(m) => m <= s
    BY <2>2, <2>3
  <2>5. ~Active(m)' /\ (Published(m)' <=> Published(m))
    BY <2>1 DEF Active, Published
  <2>6. QED
    BY <2>4, <2>5
<1>5. Latest(n)' /\ ~Published(n)'
  <2>1. \A m \in RunIds : m > n => m > s /\ m # n
    BY <1>1, RunIdFacts
  <2>2. \A m \in RunIds : m > n => runs'[m].status = "None"
    BY <1>2, <2>1 DEF Exists
  <2>3. QED
    BY <2>2 DEF Latest, Exists, Published
<1>6. OneCodingRunAtATime'
  BY <1>4, <1>5 DEF OneCodingRunAtATime
<1>7. QED
  BY <1>6 DEF RunsInv

LEMMA OnlyOneActive ==
  ASSUME RunsInv, NEW r \in RunIds, Active(r)
  PROVE  \A n \in RunIds \ {r} : ~Active(n)
<1>1. \A n \in RunIds : Active(n) => Exists(n) /\ Latest(n)
  BY StatusFacts DEF RunsInv, OneCodingRunAtATime, Active, Exists
<1>2. QED
  BY <1>1, RunIdFacts DEF Latest

\* A run that goes on, ends or is published.
LEMMA RunMovesOn ==
  ASSUME RunsInv, NEW r \in RunIds, RunGoesOn(r), TypeOK', Named'
  PROVE  RunsInv'
<1>1. /\ \A n \in RunIds \ {r} : runs'[n] = runs[n]
      /\ runs'[r].status # "None" /\ runs'[r].base = runs[r].base
      /\ Active(r)
  BY RunGoes DEF RunsInv, RowGoesOn
<1>2. \A n \in RunIds : (Exists(n)' <=> Exists(n)) /\ (Latest(n)' <=> Latest(n))
  BY <1>1, StatusFacts DEF Exists, Active, Latest
<1>3. OneCodingRunAtATime'
  <2>1. CASE Active(r)'
    BY <1>1, <1>2, <2>1, StatusFacts DEF RunsInv, OneCodingRunAtATime, Active, Published
  <2>2. CASE ~Active(r)'
    BY <1>1, <2>2, OnlyOneActive DEF OneCodingRunAtATime, Active
  <2>3. QED
    BY <2>1, <2>2
<1>4. QED
  BY <1>3 DEF RunsInv

LEMMA RunsKept == RunsInv /\ [Next]_vars => RunsInv'
<1> SUFFICES ASSUME RunsInv, [Next]_vars PROVE RunsInv'
  OBVIOUS
<1>1. TypeOK' /\ Named'
  BY Types DEF RunsInv
<1>2. CASE UNCHANGED runs
  BY <1>1, <1>2 DEF RunsInv, OneCodingRunAtATime, Active, Latest, Exists, Published
<1>3. ASSUME NEW v \in Reviews, NEW h \in Commits, NEW n \in RunIds, ReviewRequestsChanges(v, h, n)
      PROVE  RunsInv'
  <2>1. PICK s \in RunIds : /\ Reviewed(s, h) /\ NextRun(n)
                            /\ runs' = [runs EXCEPT ![n] = Run("Queued", "tenki_review_remediation", s)]
    BY <1>3 DEF ReviewRequestsChanges
  <2>2. Published(s) /\ Latest(s) /\ \A m \in RunIds : ~Active(m)
    BY <2>1, StatusFacts DEF Reviewed, Latest, Published, Exists, Active
  <2>3. QED
    BY <1>1, <2>1, <2>2, RunAdded, QueuedAlone DEF RunsInv
<1>4. ASSUME NEW q \in Requests, NEW n \in RunIds, AuthorizeIssueResultRework(q, n)
      PROVE  RunsInv'
  <2>1. PICK r \in RunIds :
        /\ Latest(r) /\ Published(r) /\ NextRun(n)
        /\ runs' = [runs EXCEPT ![n] = Run("Queued", "domain_result_rework", r)]
    BY <1>4 DEF AuthorizeIssueResultRework, RunsInv, Named
  <2>2. \A m \in RunIds : ~Active(m)
    <3> SUFFICES ASSUME NEW m \in RunIds, Active(m) PROVE FALSE
      OBVIOUS
    <3>1. Latest(m) /\ Exists(m)
      BY StatusFacts DEF RunsInv, OneCodingRunAtATime, Active, Exists
    <3>2. r # m
      BY <2>1, StatusFacts DEF Active, Published
    <3>3. r > m \/ m > r
      BY <2>1, <3>2, RunIdFacts
    <3>4. Exists(r)
      BY <2>1 DEF Published, Exists
    <3>5. QED
      BY <2>1, <3>1, <3>3, <3>4 DEF Latest
  <2>3. QED
    BY <1>1, <2>1, <2>2, RunAdded, QueuedAlone DEF RunsInv
<1>5. ASSUME NEW r \in RunIds, RunStep(r)
      PROVE  RunsInv'
  <2>1. CASE UNCHANGED runs
    BY <1>2, <2>1
  <2>2. CASE RunGoesOn(r)
    BY <1>1, <2>2, RunMovesOn
  <2>3. QED
    BY <1>5, <2>1, <2>2
       DEF RunStep, RunGoesOn, RejectFinalExecution, PushCorrection, RecordIssueResultReview
<1>6. ASSUME NEW q \in Requests, RequestStep(q)
      PROVE  RunsInv'
  BY <1>2, <1>4, <1>6
     DEF RequestStep, ReadCandidate, CheckRework, ExpireFinalApproval, ApproveFinalExecution, RequestEnds
<1>7. ASSUME NEW w \in Workers, WorkerStep(w)
      PROVE  UNCHANGED runs
  BY <1>7 DEF WorkerStep, ClaimFinalExecution, CheckPullRequest, MergePullRequest, RecordMerge,
              RecordFailure, WorkerDies
<1>8. ASSUME NEW v \in Reviews, ReviewStep(v)
      PROVE  RunsInv'
  BY <1>2, <1>3, <1>8 DEF ReviewStep, ReviewApproves, ReviewReachesLimit
<1>9. CASE GithubStep
  BY <1>2, <1>9 DEF GithubStep, SomebodyPushes, SomebodyCloses, SynchronizeEvent, MergedEvent
<1>10. QED
  BY <1>2, <1>5, <1>6, <1>7, <1>8, <1>9 DEF Next, vars

\* Corrections and reworks do not overlap, and each starts from the newest
\* published commit.
THEOREM CodingRunsDoNotOverlap == Spec => []OneCodingRunAtATime
<1>1. Init => RunsInv
  <2> SUFFICES ASSUME Init PROVE RunsInv
    OBVIOUS
  <2>1. \A r \in RunIds : ~Active(r)
    BY StatusFacts DEF Init, Run, Active
  <2>2. QED
    BY <2>1, InitTypeOK DEF RunsInv, OneCodingRunAtATime
<1>2. RunsInv => OneCodingRunAtATime
  BY DEF RunsInv
<1>3. QED
  BY <1>1, <1>2, RunsKept, PTL DEF Spec

-----------------------------------------------------------------------------
(* Refinement *)

Spending(r) == \E w \in Workers : workers[w].run = r /\ workers[w].step \in MergingStep
Authorities ==
  [r \in RunIds |->
     IF attempts[r] = "Queued" THEN "granted"
     ELSE IF \E w \in Workers : workers[w].run = r /\ workers[w].step \in MergingStep
     THEN "spending" ELSE "none"]

\* A step after which the authority of at most one run is another.
LEMMA OneAuthorityStep ==
  ASSUME NEW r \in RunIds, \A n \in RunIds \ {r} : Authorities'[n] = Authorities[n],
         \/ Authorities'[r] = Authorities[r] /\ pull'.by = pull.by
         \/ Authorities[r] = "none" /\ Authorities'[r] = "granted" /\ pull'.by = pull.by
         \/ Authorities[r] = "granted" /\ Authorities'[r] \in {"none", "spending"} /\ pull'.by = pull.by
         \/ Authorities[r] = "spending" /\ Authorities'[r] = "none"
            /\ (pull'.by = pull.by \/ (pull.by = None /\ pull'.by = r))
  PROVE  [Authority!Next]_<<Authorities, pull.by>>
<1>1. Authorities = [n \in RunIds |-> Authorities[n]]
      /\ Authorities' = [n \in RunIds |-> Authorities'[n]]
  BY DEF Authorities
<1> HIDE DEF Authorities
<1>2. Authorities' = [Authorities EXCEPT ![r] = Authorities'[r]]
  BY <1>1
<1>3. \/ Authorities' = Authorities /\ pull'.by = pull.by
      \/ Authorities[r] = "none" /\ Authorities' = [Authorities EXCEPT ![r] = "granted"] /\ pull'.by = pull.by
      \/ Authorities[r] = "granted" /\ Authorities' = [Authorities EXCEPT ![r] = "none"] /\ pull'.by = pull.by
      \/ Authorities[r] = "granted" /\ Authorities' = [Authorities EXCEPT ![r] = "spending"] /\ pull'.by = pull.by
      \/ Authorities[r] = "spending" /\ Authorities' = [Authorities EXCEPT ![r] = "none"] /\ pull'.by = pull.by
      \/ Authorities[r] = "spending" /\ Authorities' = [Authorities EXCEPT ![r] = "none"]
         /\ pull.by = None /\ pull'.by = r
  BY <1>1, <1>2
<1>4. \/ Authorities' = Authorities /\ pull'.by = pull.by
      \/ Authority!Decide(r) \/ Authority!Withdraw(r) \/ Authority!Spend(r) \/ Authority!Merge(r)
      \/ Authority!GiveUp(r)
  BY <1>3
     DEF Authorities, Authority!Decide, Authority!Withdraw, Authority!Spend, Authority!Merge,
         Authority!GiveUp
<1>5. QED
  BY <1>4 DEF Authority!Next, Authorities

LEMMA AuthorityOf ==
  ASSUME NEW r \in RunIds
  PROVE  /\ Authorities[r] = IF attempts[r] = "Queued" THEN "granted"
                             ELSE IF Spending(r) THEN "spending" ELSE "none"
         /\ Authorities'[r] = IF attempts'[r] = "Queued" THEN "granted"
                              ELSE IF Spending(r)' THEN "spending" ELSE "none"
BY DEF Authorities, Spending

LEMMA SpendersAttempt ==
  ASSUME AuthorityInv, NEW r \in RunIds, Spending(r)
  PROVE  Attempted(r)
BY DEF AuthorityInv, WorkersOwnTheirRuns, Spending, MergingStep

LEMMA WithdrawalMaps ==
  ASSUME AuthorityInv, NEW r \in RunIds, Withdraws(r)
  PROVE  [Authority!Next]_<<Authorities, pull.by>>
<1>1. pull'.by = pull.by /\ \A n \in RunIds : Spending(n)' <=> Spending(n)
  BY DEF Withdraws, Spending
<1>2. ~Spending(r)
  BY SpendersAttempt DEF Withdraws
<1>3. \A n \in RunIds \ {r} : attempts'[n] = attempts[n]
  BY DEF Withdraws
<1>4. attempts'[r] # "Queued"
  BY DEF Withdraws
<1>5. \A n \in RunIds \ {r} : Authorities'[n] = Authorities[n]
  BY <1>1, <1>3, AuthorityOf
<1>6. Authorities'[r] = "none" /\ Authorities[r] \in {"granted", "none"}
  BY <1>1, <1>2, <1>4, AuthorityOf
<1>7. QED
  BY <1>1, <1>5, <1>6, OneAuthorityStep

LEMMA MergedEventMaps ==
  ASSUME AuthorityInv, MergedEvent
  PROVE  [Authority!Next]_<<Authorities, pull.by>>
<1>1. pull'.by = pull.by
  BY DEF MergedEvent, AuthorityInv, TypeOK, Pulls
<1>2. \A n \in RunIds : Spending(n)' <=> Spending(n)
  BY DEF MergedEvent, Spending
<1>3. \A n \in RunIds : attempts'[n] = IF Latest(n) /\ attempts[n] \in {"Queued", "Running"}
                                       THEN "Succeeded" ELSE attempts[n]
  BY DEF MergedEvent
<1>4. ASSUME NEW r \in RunIds, Latest(r)
      PROVE  [Authority!Next]_<<Authorities, pull.by>>
  <2>1. \A n \in RunIds \ {r} : ~Latest(n)
    BY <1>4, RunIdFacts DEF Latest
  <2>2. \A n \in RunIds \ {r} : Authorities'[n] = Authorities[n]
    BY <1>2, <1>3, <2>1, AuthorityOf
  <2>3. CASE attempts[r] = "Queued"
    <3>1. ~Spending(r)
      BY <2>3, SpendersAttempt DEF Attempted
    <3>2. Authorities[r] = "granted" /\ Authorities'[r] = "none"
      BY <1>2, <1>3, <1>4, <2>3, <3>1, AuthorityOf
    <3>3. QED
      BY <1>1, <2>2, <3>2, OneAuthorityStep
  <2>4. CASE attempts[r] # "Queued"
    <3>1. Authorities'[r] = Authorities[r]
      BY <1>2, <1>3, <2>4, AuthorityOf
    <3>2. QED
      BY <1>1, <2>2, <3>1, OneAuthorityStep
  <2>5. QED
    BY <2>3, <2>4
<1>5. CASE \A n \in RunIds : ~Latest(n)
  <2>1. \A n \in RunIds : Authorities'[n] = Authorities[n]
    BY <1>2, <1>3, <1>5, AuthorityOf
  <2>2. 1 \in RunIds
    BY CountAssumption DEF RunIds
  <2>3. QED
    BY <1>1, <2>1, <2>2, OneAuthorityStep
<1>6. QED
  BY <1>4, <1>5

\* A worker that goes on holds its run alone.
LEMMA AdvanceMaps ==
  ASSUME AuthorityInv, NEW w \in Workers, Advances(w),
         LET r == workers[w].run
         IN  /\ \A n \in RunIds \ {r} : attempts'[n] = attempts[n]
             /\ attempts'[r] # "Queued"
             /\ workers'[w].step \in MergingStep => workers[w].step \in MergingStep
             /\ \/ pull'.by = pull.by
                \/ pull.by = None /\ pull'.by = r /\ workers[w].step \in MergingStep
                   /\ workers'[w].step \notin MergingStep
  PROVE  [Authority!Next]_<<Authorities, pull.by>>
<1>1. PICK r \in RunIds :
      /\ r = workers[w].run /\ Attempted(r)
      /\ \A x \in Workers \ {w} : workers[x].step \in MergingStep => workers[x].run # r
  BY DEF Advances, AuthorityInv, Named, WorkersOwnTheirRuns, MergingStep
<1>2. workers'[w].step \in MergingStep => workers'[w].run = r
  BY <1>1 DEF Advances, MergingStep
<1>3. \A n \in RunIds \ {r} : Spending(n)' <=> Spending(n)
  BY <1>1, <1>2 DEF Spending, Advances
<1>4. Spending(r) <=> workers[w].step \in MergingStep
  BY <1>1 DEF Spending
<1>5. Spending(r)' <=> workers'[w].step \in MergingStep
  <2>1. \A x \in Workers \ {w} : workers'[x].step \in MergingStep => workers'[x].run # r
    BY <1>1 DEF Advances
  <2>2. QED
    BY <1>2, <2>1 DEF Spending
<1>6. \A n \in RunIds \ {r} : attempts'[n] = attempts[n]
  BY <1>1
<1>7. \A n \in RunIds \ {r} : Authorities'[n] = Authorities[n]
  BY <1>3, <1>6, AuthorityOf
<1>8. attempts[r] # "Queued" /\ attempts'[r] # "Queued"
  BY <1>1 DEF Attempted
<1>9. /\ Authorities[r] = IF workers[w].step \in MergingStep THEN "spending" ELSE "none"
      /\ Authorities'[r] = IF workers'[w].step \in MergingStep THEN "spending" ELSE "none"
  <2>1. /\ Authorities[r] = IF Spending(r) THEN "spending" ELSE "none"
        /\ Authorities'[r] = IF Spending(r)' THEN "spending" ELSE "none"
    BY <1>1, <1>8, AuthorityOf
  <2>2. QED
    BY <1>4, <1>5, <2>1
<1>10. QED
  BY <1>1, <1>7, <1>9, OneAuthorityStep

LEMMA WorkerMaps ==
  ASSUME AuthorityInv, NEW w \in Workers, WorkerStep(w)
  PROVE  [Authority!Next]_<<Authorities, pull.by>>
<1> DEFINE r == workers[w].run
<1>0. TypeOK /\ pull \in Pulls
  BY DEF AuthorityInv, TypeOK
<1>1. ASSUME NEW n \in RunIds, ClaimFinalExecution(w, n)
      PROVE  [Authority!Next]_<<Authorities, pull.by>>
  <2>1. CASE Withdraws(n)
    BY <2>1, WithdrawalMaps
  <2>2. CASE /\ attempts'[n] = "Running" /\ \A m \in RunIds \ {n} : attempts'[m] = attempts[m]
             /\ WorkerGoes(w, Worker("claimed", n))
             /\ UNCHANGED <<approvals, verdicts, pull, requests>>
    <3>1. attempts[n] = "Queued" /\ workers[w].step = "idle"
      BY <1>1, ClaimSteps
    <3>2. /\ workers'[w].step = "claimed" /\ workers'[w].run = n
          /\ \A x \in Workers \ {w} : workers'[x] = workers[x]
      BY <1>0, <2>2, WorkerWritten, WorkerMoved DEF MergingStep
    <3>3. Spending(n)' /\ \A m \in RunIds \ {n} : Spending(m)' <=> Spending(m)
      BY <3>1, <3>2 DEF Spending, MergingStep
    <3>4. Authorities[n] = "granted" /\ Authorities'[n] = "spending"
      BY <2>2, <3>1, <3>3, AuthorityOf
    <3>5. \A m \in RunIds \ {n} : Authorities'[m] = Authorities[m]
      BY <2>2, <3>3, AuthorityOf
    <3>6. QED
      BY <2>2, <3>4, <3>5, OneAuthorityStep
  <2>3. QED
    BY <1>1, <2>1, <2>2, ClaimSteps
<1>2. ASSUME workers[w].step # "idle"
      PROVE  r \in RunIds /\ Attempted(r)
  BY <1>2 DEF AuthorityInv, Named, WorkersOwnTheirRuns
<1>3. CASE CheckPullRequest(w)
  <2>1. Advances(w) /\ Attempted(r)
    BY <1>2, <1>3, Moves DEF CheckPullRequest
  <2>2. QED
    BY <1>3, <2>1, AdvanceMaps DEF CheckPullRequest, Attempted, MergingStep
<1>4. CASE MergePullRequest(w)
  <2>1. Advances(w) /\ Attempted(r) /\ r \in RunIds
    BY <1>2, <1>4, Moves DEF MergePullRequest
  <2>2. workers'[w].step \notin MergingStep
    <3>1. PICK step \in {"merged", "failed"} : WorkerGoes(w, Worker(step, r))
      BY <1>4 DEF MergePullRequest
    <3>2. workers'[w].step = step
      BY <1>0, <2>1, <3>1, WorkerWritten, WorkerMoved
    <3>3. QED
      BY <3>2 DEF MergingStep
  <2>3. pull'.by = pull.by \/ (pull.by = None /\ pull'.by = r)
    <3>1. CASE UNCHANGED pull
      BY <3>1
    <3>2. CASE Merges(r) /\ pull' = [pull EXCEPT !.state = "merged", !.by = r, !.mergeUnseen = TRUE]
      BY <1>0, <3>2 DEF Merges, AuthorityInv, MergesAreReal, Pulls
    <3>3. QED
      BY <1>4, <3>1, <3>2 DEF MergePullRequest
  <2>4. QED
    BY <1>4, <2>1, <2>2, <2>3, AdvanceMaps DEF MergePullRequest, Attempted, MergingStep
<1>5. CASE RecordMerge(w)
  <2>1. Advances(w) /\ Attempted(r) /\ r \in RunIds
    BY <1>2, <1>5, Moves DEF RecordMerge
  <2>2. workers'[w].step \notin MergingStep
    BY <1>0, <1>5, <2>1, IdleRows, WorkerWritten, WorkerMoved DEF RecordMerge, MergingStep
  <2>3. attempts'[r] # "Queued" /\ \A n \in RunIds \ {r} : attempts'[n] = attempts[n]
    BY <1>0, <1>5, <2>1, AttemptSettled DEF RecordMerge, Attempted, AttemptStatus
  <2>4. QED
    BY <1>5, <2>1, <2>2, <2>3, AdvanceMaps DEF RecordMerge
<1>6. CASE RecordFailure(w)
  <2>1. Advances(w) /\ Attempted(r) /\ r \in RunIds
    BY <1>2, <1>6, Moves DEF RecordFailure
  <2>2. workers'[w].step \notin MergingStep
    BY <1>0, <1>6, IdleRows, WorkerMoved DEF RecordFailure, MergingStep
  <2>3. attempts'[r] # "Queued" /\ \A n \in RunIds \ {r} : attempts'[n] = attempts[n]
    BY <1>0, <1>6, <2>1, AttemptSettled DEF RecordFailure, Attempted, AttemptStatus
  <2>4. QED
    BY <1>6, <2>1, <2>2, <2>3, AdvanceMaps DEF RecordFailure
<1>7. CASE WorkerDies(w)
  <2>1. Advances(w) /\ Attempted(r)
    BY <1>2, <1>7, Moves DEF WorkerDies
  <2>2. workers'[w].step \notin MergingStep
    BY <1>0, <1>7, IdleRows, WorkerMoved DEF WorkerDies, MergingStep
  <2>3. QED
    BY <1>7, <2>1, <2>2, AdvanceMaps DEF WorkerDies, Attempted
<1>8. QED
  BY <1>1, <1>3, <1>4, <1>5, <1>6, <1>7 DEF WorkerStep

LEMMA ApprovalMaps ==
  ASSUME AuthorityInv, NEW q \in Requests, ApproveFinalExecution(q), TypeOK', Named', ReviewsStand
  PROVE  [Authority!Next]_<<Authorities, pull.by>>
<1> DEFINE r == requests[q].run
<1>1. r \in RunIds /\ attempts[r] \in {"None", "Failed"}
  BY ApprovalKeepsAuthority
<1>2. attempts' = [attempts EXCEPT ![r] = "Queued"] /\ UNCHANGED <<workers, pull>>
  BY DEF ApproveFinalExecution
<1> HIDE DEF r
<1>3. attempts'[r] = "Queued" /\ \A n \in RunIds \ {r} : attempts'[n] = attempts[n]
  BY <1>1, <1>2 DEF AuthorityInv, TypeOK
<1>4. ~Spending(r) /\ \A n \in RunIds : Spending(n)' <=> Spending(n)
  BY <1>1, <1>2, SpendersAttempt DEF Spending, Attempted
<1>5. Authorities[r] = "none" /\ Authorities'[r] = "granted"
  BY <1>1, <1>3, <1>4, AuthorityOf
<1>6. \A n \in RunIds \ {r} : Authorities'[n] = Authorities[n]
  BY <1>3, <1>4, AuthorityOf
<1>7. QED
  BY <1>1, <1>2, <1>5, <1>6, OneAuthorityStep

LEMMA AuthorityStep ==
  ASSUME AuthorityInv, [Next]_vars
  PROVE  [Authority!Next]_<<Authorities, pull.by>>
<1>1. TypeOK' /\ Named' /\ ReviewsStand
  BY Types DEF AuthorityInv
<1>2. CASE Quiet
  <2>1. Authorities' = Authorities /\ pull'.by = pull.by
    BY <1>2 DEF Quiet, MergesStand, Authorities
  <2>2. QED
    BY <2>1
<1>3. CASE \E r \in RunIds : Withdraws(r)
  BY <1>3, WithdrawalMaps
<1>4. CASE \E q \in Requests : ApproveFinalExecution(q)
  BY <1>1, <1>4, ApprovalMaps
<1>5. CASE \E w \in Workers : WorkerStep(w)
  BY <1>5, WorkerMaps
<1>6. CASE MergedEvent
  BY <1>6, MergedEventMaps
<1>7. QED
  BY <1>2, <1>3, <1>4, <1>5, <1>6, QuietSteps, WithdrawSteps DEF Next, RequestStep

LEMMA InitMaps == Init => Authority!Init
<1> SUFFICES ASSUME Init PROVE Authority!Init
  OBVIOUS
<1>1. \A w \in Workers : workers[w].step \notin MergingStep
  BY IdleRows DEF Init, MergingStep
<1>2. \A r \in RunIds : attempts[r] = "None" 
  BY DEF Init
<1>3. pull.by = None
  BY DEF Init
<1>4. QED
  BY <1>1, <1>2, <1>3 DEF Authority!Init

\* Every merge spends a decision a human made for that commit, and each
\* decision is spent once, whatever dies, is retried or reopened.
THEOREM FinalExecutionImplementsAuthority == Spec => ImplementsAuthority
<1>1. AuthorityInv /\ [Next]_vars =>
        [Authority!Next]_<<[r \in RunIds |->
                              IF attempts[r] = "Queued" THEN "granted"
                              ELSE IF \E w \in Workers : workers[w].run = r /\ workers[w].step \in MergingStep
                              THEN "spending" ELSE "none"], pull.by>>
  BY AuthorityStep DEF Authorities
<1>2. QED
  BY <1>1, InitMaps, Authorized, PTL DEF Spec, ImplementsAuthority, Authority!Spec
=============================================================================
