---------------------------- MODULE FinalExecution ----------------------------
(***************************************************************************)
(* One pull request from its first publication to the merge: the coding    *)
(* runs that correct it, the trusted reviews that ask for corrections, the *)
(* human reviews of its results, the final approval of each published      *)
(* commit, and the workers that carry an approval out on GitHub.           *)
(* Source: src/src/lib/final-execution-repository.ts,                      *)
(* tenki-pr-review-automation.ts, issue-result-review-repository.ts,       *)
(* issue-result-review-rework.ts, the pull request events of               *)
(* github-webhook-repository.ts, and the runs of                           *)
(* engineering-workflow-repository.ts.                                     *)
(*                                                                         *)
(* A run publishes one commit, so the commit and the rows that belong to   *)
(* the run (its final approval, the attempt of that approval, the latest   *)
(* review of its result) all carry the run's number.  Runs are numbered in *)
(* the order of queued_at.  Run 1 is the implementation; it is published   *)
(* when the story begins.  A run with a review, a review cycle or a rework *)
(* request cannot be deleted (migrations 072, 080 and 081), and nothing    *)
(* happens to one without, so deletion is left out.                        *)
(***************************************************************************)
EXTENDS Naturals, FiniteSets

CONSTANTS MaxRuns,    \* coding runs of the pull request
          MaxReviews, \* reviews the trusted reviewer submits
          MaxCycles,  \* TENKI_REVIEW_MAX_CYCLES: 3 by default
          Workers,    \* concurrent calls of processQueuedFinalExecutions
          Requests    \* concurrent calls of an administrator

ASSUME CountAssumption == MaxRuns \in Nat \ {0} /\ {MaxReviews, MaxCycles} \subseteq Nat

VARIABLES runs,      \* agent_runs
          approvals, \* approval_requests with action_type 'final_execution'
          attempts,  \* final_execution_attempts
          verdicts,  \* the latest of issue_result_reviews
          cycles,    \* tenki_pr_review_cycles
          pull,      \* the pull request on GitHub, and the events it sent
          workers,   \* what each worker is doing
          requests   \* what each request has read

vars == <<runs, approvals, attempts, verdicts, cycles, pull, workers, requests>>

-----------------------------------------------------------------------------
(* Rows *)

RunIds  == 1..MaxRuns
Reviews == 1..MaxReviews
\* No run; as a commit, one that somebody else pushed.
None    == 0
Commits == RunIds \cup {None}

ActiveStatus == {"Queued", "Running", "Tests passed"}
RunStatus    == ActiveStatus \cup {"None", "Draft PR opened", "Failed", "No changes", "Cancelled"}
\* base: the commit a correction starts from, which is the run it corrects.
\* tested: a report of passed tests was accepted, whose background task may
\* still publish the commit, whatever became of the run.
Runs == [status : RunStatus,
         kind : {"implementation", "tenki_review_remediation", "domain_result_rework"},
         base : Commits, tested : BOOLEAN]

ApprovalStatus == {"None", "Pending", "Approved", "Rejected", "Expired", "Superseded"}

ActiveCycle == {"Correction queued", "Correction running", "Correction published"}
\* run: remediation_run_id.  head: head_sha_after.
Cycles == [state : ActiveCycle \cup {"None", "Review requested", "Approved", "Blocked", "Failed"},
           run : RunIds \cup {None}, head : Commits]

\* by: the run whose commit a worker merged.  unseen: commits whose
\* "synchronize" event is not delivered.
Pulls == [state : {"open", "merged", "closed"}, head : Commits, pushed : SUBSET Commits,
          unseen : SUBSET Commits, mergeUnseen : BOOLEAN, by : RunIds \cup {None}]

MergingStep == {"claimed", "checked"}
WorkerStates ==
  [step : MergingStep \cup {"idle", "merged", "failed", "invalid"}, run : RunIds \cup {None}]
\* reuse: the attempt was Failed when the request read it.
RequestStates ==
  [step : {"idle", "overdue", "approve", "rework"}, run : RunIds \cup {None}, reuse : BOOLEAN]

TypeOK ==
  /\ runs \in [RunIds -> Runs]
  /\ approvals \in [RunIds -> ApprovalStatus]
  /\ attempts \in [RunIds -> {"None", "Queued", "Running", "Succeeded", "Failed"}]
  /\ verdicts \in [RunIds -> {"none", "changes"}]
  /\ cycles \in [Reviews -> Cycles]
  /\ \A v \in Reviews : cycles[v].state \in ActiveCycle => cycles[v].run # None
  /\ pull \in Pulls
  /\ workers \in [Workers -> WorkerStates]
  /\ requests \in [Requests -> RequestStates]

Run(status, kind, base) == [status |-> status, kind |-> kind, base |-> base, tested |-> FALSE]
Cycle(state, r, head)   == [state |-> state, run |-> r, head |-> head]
Worker(step, r)         == [step |-> step, run |-> r]
Request(step, r, reuse) == [step |-> step, run |-> r, reuse |-> reuse]

IdleWorker  == Worker("idle", None)
IdleRequest == Request("idle", None, FALSE)

Init ==
  /\ runs = [r \in RunIds |-> Run(IF r = 1 THEN "Draft PR opened" ELSE "None", "implementation", None)]
  /\ approvals = [r \in RunIds |-> IF r = 1 THEN "Pending" ELSE "None"]
  /\ attempts = [r \in RunIds |-> "None"]
  /\ verdicts = [r \in RunIds |-> "none"]
  /\ cycles = [v \in Reviews |-> Cycle("None", None, None)]
  /\ pull = [state |-> "open", head |-> 1, pushed |-> {1}, unseen |-> {}, mergeUnseen |-> FALSE, by |-> None]
  /\ workers = [w \in Workers |-> IdleWorker]
  /\ requests = [q \in Requests |-> IdleRequest]

Exists(r)    == runs[r].status # "None"
Active(r)    == runs[r].status \in ActiveStatus
Published(r) == runs[r].status = "Draft PR opened"
Latest(r)    == Exists(r) /\ \A n \in RunIds : n > r => ~Exists(n)
NextRun(n)   == ~Exists(n) /\ Latest(n - 1)
Attempted(r) == attempts[r] \in {"Running", "Succeeded"}
\* Approvals with one of the given statuses get another.
Close(which, from, to) ==
  approvals' = [r \in RunIds |-> IF r \in which /\ approvals[r] \in from THEN to ELSE approvals[r]]
CancelQueued(r) == attempts' = [attempts EXCEPT ![r] = IF @ = "Queued" THEN "Failed" ELSE @]

-----------------------------------------------------------------------------
(* The final decision *)

\* The trusted reviewer approved this very commit.
ReviewerApproved(r) == \E v \in Reviews : cycles[v].state = "Approved" /\ cycles[v].head = r

\* approveFinalExecution judges what it reads before its transaction.
ReadCandidate(q, r) ==
  LET reuse == attempts[r] = "Failed" IN
    /\ requests[q].step = "idle"
    /\ \/ approvals[r] = "Pending"
       \/ reuse /\ approvals[r] \in {"Approved", "Expired"}
    /\ \/ ~reuse /\ requests' = [requests EXCEPT ![q] = Request("overdue", r, reuse)]
       \/ /\ Published(r) /\ ReviewerApproved(r)
          /\ requests' = [requests EXCEPT ![q] = Request("approve", r, reuse)]
    /\ UNCHANGED <<runs, approvals, attempts, verdicts, cycles, pull, workers>>

ExpireFinalApproval(q) ==
  LET r == requests[q].run IN
    /\ requests[q].step = "overdue"
    /\ Close({r}, {"Pending"}, "Expired")
    /\ requests' = [requests EXCEPT ![q] = IdleRequest]
    /\ UNCHANGED <<runs, attempts, verdicts, cycles, pull, workers>>

\* An approval has at most one attempt (migration 044); a retry uses it again.
Approvable(r, reuse) ==
  /\ Published(r) /\ verdicts[r] # "changes"
  /\ IF reuse THEN approvals[r] \in {"Pending", "Approved", "Expired"} /\ attempts[r] = "Failed"
     ELSE approvals[r] = "Pending" /\ attempts[r] = "None"

ApproveFinalExecution(q) ==
  LET r == requests[q].run IN
    /\ requests[q].step = "approve"
    /\ Approvable(r, requests[q].reuse)
    /\ approvals' = [approvals EXCEPT ![r] = "Approved"]
    /\ attempts' = [attempts EXCEPT ![r] = "Queued"]
    /\ requests' = [requests EXCEPT ![q] = IdleRequest]
    /\ UNCHANGED <<runs, verdicts, cycles, pull, workers>>

RejectFinalExecution(r) ==
  /\ approvals[r] = "Pending"
  /\ Close({r}, {"Pending"}, "Rejected")
  /\ UNCHANGED <<runs, attempts, verdicts, cycles, pull, workers, requests>>

\* A request that is refused, or whose process dies.
RequestEnds(q) ==
  /\ requests[q].step # "idle"
  /\ requests' = [requests EXCEPT ![q] = IdleRequest]
  /\ UNCHANGED <<runs, approvals, attempts, verdicts, cycles, pull, workers>>

-----------------------------------------------------------------------------
(* The workers *)

WorkerGoes(w, state) == workers' = [workers EXCEPT ![w] = state]

\* Mutation: a merge that a newer run has overtaken is passed over.
WaitsOfLatest(r) == attempts[r] = "Queued" /\ Latest(r)

Waits(r) == attempts[r] = "Queued"

Mergeable(r) == verdicts[r] # "changes" /\ approvals[r] = "Approved"

\* The decision is reopened, unless a result review asked for changes.
BlockMerge(r) ==
  /\ attempts' = [attempts EXCEPT ![r] = "Failed"]
  /\ approvals' = IF verdicts[r] # "changes" /\ approvals[r] \in {"Approved", "Pending", "Expired"}
                  THEN [approvals EXCEPT ![r] = "Pending"] ELSE approvals

\* Mutation: a claim leaves the attempt in the queue.
LeaveInQueue(r) == UNCHANGED attempts

TakeFromQueue(r) == attempts' = [attempts EXCEPT ![r] = "Running"]

\* claimFinalExecution.  Whether the twenty-four hours are over, the decision
\* is of a current administrator and the repository is still connected is not
\* in the state, so a claim may always be blocked.  Rows that another worker
\* has locked are skipped.
ClaimFinalExecution(w, r) ==
  /\ workers[w].step = "idle" /\ Waits(r)
  /\ \/ BlockMerge(r) /\ UNCHANGED workers
     \/ /\ Mergeable(r)
        /\ TakeFromQueue(r)
        /\ WorkerGoes(w, Worker("claimed", r))
        /\ UNCHANGED approvals
  /\ UNCHANGED <<runs, verdicts, cycles, pull, requests>>

\* GitHub does not answer, the pull request is no longer what was approved, or
\* its target branch is another one, which is not in the state.
CheckPullRequest(w) ==
  LET r == workers[w].run IN
    /\ workers[w].step = "claimed"
    /\ \/ WorkerGoes(w, Worker("failed", r))
       \/ WorkerGoes(w, Worker("invalid", r))
       \/ pull.state = "open" /\ pull.head = r /\ WorkerGoes(w, Worker("checked", r))
    /\ UNCHANGED <<runs, approvals, attempts, verdicts, cycles, pull, requests>>

\* Mutation: the merge does not name the commit.
MergesHead(r) == pull.state = "open"

\* GitHub merges the pull request only at the commit it is given.
Merges(r) == pull.state = "open" /\ pull.head = r

\* The answer may be lost; GitHub may refuse for reasons of its own.
MergePullRequest(w) ==
  LET r == workers[w].run IN
    /\ workers[w].step = "checked"
    /\ \/ /\ Merges(r)
          /\ pull' = [pull EXCEPT !.state = "merged", !.by = r, !.mergeUnseen = TRUE]
          /\ WorkerGoes(w, Worker("merged", r)) \/ WorkerGoes(w, Worker("failed", r))
       \/ WorkerGoes(w, Worker("failed", r)) /\ UNCHANGED pull
    /\ UNCHANGED <<runs, approvals, attempts, verdicts, cycles, requests>>

SettleAttempt(r, status) == attempts' = [attempts EXCEPT ![r] = IF @ = "Running" THEN status ELSE @]

RecordMerge(w) ==
  LET r == workers[w].run IN
    /\ workers[w].step = "merged"
    /\ \/ SettleAttempt(r, "Succeeded") /\ WorkerGoes(w, IdleWorker)
       \/ WorkerGoes(w, Worker("failed", r)) /\ UNCHANGED attempts
    /\ UNCHANGED <<runs, approvals, verdicts, cycles, pull, requests>>

RecordFailure(w) ==
  LET r == workers[w].run IN
    /\ workers[w].step \in {"failed", "invalid"}
    /\ SettleAttempt(r, "Failed")
    /\ approvals' = IF workers[w].step = "invalid"
                    THEN [approvals EXCEPT ![r] = "Superseded"] ELSE approvals
    /\ WorkerGoes(w, IdleWorker)
    /\ UNCHANGED <<runs, verdicts, cycles, pull, requests>>

\* The process ends, or the transaction that records a failure fails: nothing
\* picks up the attempt it leaves Running.
WorkerDies(w) ==
  /\ workers[w].step # "idle"
  /\ WorkerGoes(w, IdleWorker)
  /\ UNCHANGED <<runs, approvals, attempts, verdicts, cycles, pull, requests>>

-----------------------------------------------------------------------------
(* The trusted reviewer and the coding runs *)

\* Mutation: a correction that was published no longer counts.
OpenCycles == {v \in Reviews : cycles[v].state \in ActiveCycle}

\* Every correction counts, whatever became of it.
StartedCycles == {v \in Reviews : cycles[v].run # None}

SetCycle(r, from, state, head) ==
  cycles' = [v \in Reviews |-> IF cycles[v].run = r /\ cycles[v].state \in from
                               THEN Cycle(state, r, head) ELSE cycles[v]]

\* Mutation: a review of the last published commit counts though a newer run
\* exists.
ReviewedWithSuccessor(s, h) ==
  Published(s) /\ (\A n \in RunIds : n > s => ~Published(n)) /\ s = h

\* The last published run is the one reviewed, at the commit reviewed, and no
\* other run is active or newer.
Reviewed(s, h) ==
  /\ Published(s) /\ \A n \in RunIds : n > s => ~Published(n)
  /\ s = h
  /\ \A n \in RunIds \ {s} : ~Active(n) /\ ~(n > s /\ Exists(n))

\* Reviews are numbered in the order in which they leave a row behind.
NextReview(v) ==
  /\ cycles[v].state = "None"
  /\ \A u \in Reviews : u < v => cycles[u].state # "None"

\* processTenkiPullRequestReview.  A review may be of any commit that was ever
\* the head, arrive late or twice; one that is ignored leaves nothing behind.
ReviewApproves(v, h) ==
  /\ NextReview(v) /\ h \in pull.pushed
  /\ \E s \in RunIds : Reviewed(s, h)
  /\ cycles' = [cycles EXCEPT ![v] = Cycle("Approved", None, h)]
  /\ UNCHANGED <<runs, approvals, attempts, verdicts, pull, workers, requests>>

\* Mutation: the row of the review does not name the run it starts.
CycleWithoutRun(n) == Cycle("Correction queued", None, None)

QueuedCorrection(n) == Cycle("Correction queued", n, None)

\* What stops the next correction: one that is not settled, or their number.
ReviewRequestsChanges(v, h, n) ==
  /\ NextReview(v) /\ h \in pull.pushed
  /\ \A u \in Reviews : cycles[u].state \notin ActiveCycle
  /\ \E s \in RunIds :
       /\ Reviewed(s, h)
       /\ Cardinality(StartedCycles) < MaxCycles
       /\ NextRun(n)
       /\ Close({s}, {"Pending"}, "Superseded")
       /\ runs' = [runs EXCEPT ![n] = Run("Queued", "tenki_review_remediation", s)]
       /\ cycles' = [cycles EXCEPT ![v] = QueuedCorrection(n)]
  /\ UNCHANGED <<attempts, verdicts, pull, workers, requests>>

ReviewReachesLimit(v, h) ==
  /\ NextReview(v) /\ h \in pull.pushed
  /\ \A u \in Reviews : cycles[u].state \notin ActiveCycle
  /\ \E s \in RunIds : Reviewed(s, h)
  /\ Cardinality(StartedCycles) >= MaxCycles
  /\ cycles' = [cycles EXCEPT ![v] = Cycle("Blocked", None, None)]
  /\ UNCHANGED <<runs, approvals, attempts, verdicts, pull, workers, requests>>

SetRun(r, status) == runs' = [runs EXCEPT ![r].status = status]

\* The executor route starts a run; its "started" callback does it again, and
\* then updates the cycle.
ClaimQueuedAgentRun(r) ==
  /\ runs[r].status = "Queued"
  /\ SetRun(r, "Running")
  /\ UNCHANGED <<approvals, attempts, verdicts, cycles, pull, workers, requests>>

MarkAgentRunRunning(r) ==
  /\ runs[r].status \in {"Queued", "Running"}
  /\ SetRun(r, "Running")
  /\ SetCycle(r, {"Correction queued"}, "Correction running", None)
  /\ UNCHANGED <<approvals, attempts, verdicts, pull, workers, requests>>

\* Mutation: a report is accepted whatever became of the run.
CompletableAnyway(r) == Exists(r)

\* completeAgentRun refuses a run that has an outcome.
Completable(r) == Active(r)

\* The GitHub Actions runner reports on runs that nobody saw start.
PassTests(r) ==
  /\ Completable(r)
  /\ runs' = [runs EXCEPT ![r].status = "Tests passed", ![r].tested = TRUE]
  /\ UNCHANGED <<approvals, attempts, verdicts, cycles, pull, workers, requests>>

\* Mutation: the update misses a correction whose run was never started.
FailRunningCycle(r) == SetCycle(r, {"Correction running", "Correction published"}, "Failed", None)

FailCycle(r) == SetCycle(r, ActiveCycle, "Failed", None)

\* A run that ends without a publication fails its review cycle.
EndRun(r, ending) ==
  /\ SetRun(r, ending)
  /\ FailCycle(r)
  /\ UNCHANGED <<approvals, attempts, verdicts, pull, workers, requests>>

\* completeAgentRun without a publication.
ReportFailure(r) == Completable(r) /\ \E ending \in {"Failed", "No changes"} : EndRun(r, ending)

\* failAgentRun and failUndispatchedIssueResultRework.
FailAgentRun(r) == Active(r) /\ EndRun(r, "Failed")

\* The GitHub workflow that executes a run is over, and the run is not: it was
\* cancelled on GitHub, or its report did not arrive or is still worked on.
ReconcileAgentWorkflow(r) == Active(r) /\ \E ending \in {"Failed", "Cancelled"} : EndRun(r, ending)

\* Unlike every other end, an administrator's cancellation leaves the review
\* cycle as it is.
CancelAgentRun(r) ==
  /\ runs[r].status \in {"Queued", "Running"}
  /\ SetRun(r, "Cancelled")
  /\ UNCHANGED <<approvals, attempts, verdicts, cycles, pull, workers, requests>>

\* publishPullRequestCorrection: only on top of the commit that was reviewed.
\* It does not read the run again, which may have ended since the report.
PushCorrection(r) ==
  /\ runs[r].tested /\ r \notin pull.pushed
  /\ pull.state = "open" /\ pull.head = runs[r].base
  /\ pull' = [pull EXCEPT !.head = r, !.pushed = @ \cup {r}, !.unseen = @ \cup {r}]
  /\ UNCHANGED <<runs, approvals, attempts, verdicts, cycles, workers, requests>>

\* completeAgentRun with a publication.  requested: the reviewer was asked to
\* look again; a cycle of which it was not stays active.
CompleteAgentRun(r, requested) ==
  /\ Completable(r) /\ r \in pull.pushed
  /\ SetRun(r, "Draft PR opened")
  /\ approvals' = [n \in RunIds |->
       IF n = r THEN (IF approvals[r] = "None" THEN "Pending" ELSE approvals[r])
       ELSE IF approvals[n] = "Pending" THEN "Superseded"
       ELSE approvals[n]]
  /\ SetCycle(r, ActiveCycle, IF requested THEN "Review requested" ELSE "Correction published", r)
  /\ UNCHANGED <<attempts, verdicts, pull, workers, requests>>

-----------------------------------------------------------------------------
(* The human review of a result *)

\* The final action has not started.
Reviewable(r) == ~Attempted(r)

\* Mutation: a request for changes leaves the queued merge alone.
KeepAuthority(r) == UNCHANGED <<approvals, attempts>>

WithdrawAuthority(r) == Close({r}, {"Pending", "Approved"}, "Rejected") /\ CancelQueued(r)

\* recordIssueResultReview, "changes".  An acceptance is refused after it and
\* changes nothing that is read here before it.
RecordIssueResultReview(r) ==
  /\ Latest(r) /\ Published(r)
  /\ Reviewable(r)
  /\ verdicts' = [verdicts EXCEPT ![r] = "changes"]
  /\ WithdrawAuthority(r)
  /\ UNCHANGED <<runs, cycles, pull, workers, requests>>

\* authorizeIssueResultRework asks GitHub first and locks the run later.
CheckRework(q, r) ==
  /\ requests[q].step = "idle"
  /\ Exists(r) /\ pull.state = "open" /\ pull.head = r
  /\ requests' = [requests EXCEPT ![q] = Request("rework", r, FALSE)]
  /\ UNCHANGED <<runs, approvals, attempts, verdicts, cycles, pull, workers>>

AuthorizeIssueResultRework(q, n) ==
  LET r == requests[q].run IN
    /\ requests[q].step = "rework"
    /\ Latest(r) /\ Published(r) /\ verdicts[r] = "changes" /\ Reviewable(r)
    /\ NextRun(n)
    /\ runs' = [runs EXCEPT ![n] = Run("Queued", "domain_result_rework", r)]
    /\ Close({r}, {"Pending", "Approved"}, "Superseded")
    /\ CancelQueued(r)
    /\ requests' = [requests EXCEPT ![q] = IdleRequest]
    /\ UNCHANGED <<verdicts, cycles, pull, workers>>

-----------------------------------------------------------------------------
(* GitHub and its events; an event may be late, out of order or lost *)

SomebodyPushes ==
  /\ pull.state = "open" /\ None \notin pull.pushed
  /\ pull' = [pull EXCEPT !.head = None, !.pushed = @ \cup {None}, !.unseen = @ \cup {None}]
  /\ UNCHANGED <<runs, approvals, attempts, verdicts, cycles, workers, requests>>

SomebodyCloses(merged) ==
  /\ pull.state = "open"
  /\ pull' = [pull EXCEPT !.state = IF merged THEN "merged" ELSE "closed", !.mergeUnseen = merged]
  /\ UNCHANGED <<runs, approvals, attempts, verdicts, cycles, workers, requests>>

\* auditPullRequest, "synchronize": the event is about the latest run.
SynchronizeEvent(h) ==
  /\ h \in pull.unseen
  /\ Close({r \in RunIds : Latest(r) /\ r # h}, {"Pending"}, "Superseded")
  /\ pull' = [pull EXCEPT !.unseen = @ \ {h}]
  /\ UNCHANGED <<runs, attempts, verdicts, cycles, workers, requests>>

\* auditPullRequest, "closed" and merged.
MergedEvent ==
  /\ pull.mergeUnseen
  /\ attempts' = [r \in RunIds |-> IF Latest(r) /\ attempts[r] \in {"Queued", "Running"}
                                   THEN "Succeeded" ELSE attempts[r]]
  /\ pull' = [pull EXCEPT !.mergeUnseen = FALSE]
  /\ UNCHANGED <<runs, approvals, verdicts, cycles, workers, requests>>

-----------------------------------------------------------------------------
(* Specification *)

RequestStep(q) ==
  \/ \E r \in RunIds : ReadCandidate(q, r) \/ CheckRework(q, r) \/ AuthorizeIssueResultRework(q, r)
  \/ ExpireFinalApproval(q)
  \/ ApproveFinalExecution(q)
  \/ RequestEnds(q)

WorkerStep(w) ==
  \/ \E r \in RunIds : ClaimFinalExecution(w, r)
  \/ CheckPullRequest(w)
  \/ MergePullRequest(w)
  \/ RecordMerge(w)
  \/ RecordFailure(w)
  \/ WorkerDies(w)

ReviewStep(v) ==
  \E h \in Commits :
    \/ ReviewApproves(v, h)
    \/ \E n \in RunIds : ReviewRequestsChanges(v, h, n)
    \/ ReviewReachesLimit(v, h)

RunStep(r) ==
  \/ RejectFinalExecution(r)
  \/ ClaimQueuedAgentRun(r)
  \/ MarkAgentRunRunning(r)
  \/ PassTests(r)
  \/ ReportFailure(r)
  \/ FailAgentRun(r)
  \/ ReconcileAgentWorkflow(r)
  \/ CancelAgentRun(r)
  \/ PushCorrection(r)
  \/ \E requested \in BOOLEAN : CompleteAgentRun(r, requested)
  \/ RecordIssueResultReview(r)

GithubStep ==
  \/ SomebodyPushes
  \/ \E merged \in BOOLEAN : SomebodyCloses(merged)
  \/ \E h \in Commits : SynchronizeEvent(h)
  \/ MergedEvent

Next ==
  \/ \E q \in Requests : RequestStep(q)
  \/ \E w \in Workers : WorkerStep(w)
  \/ \E v \in Reviews : ReviewStep(v)
  \/ \E r \in RunIds : RunStep(r)
  \/ GithubStep

Spec == Init /\ [][Next]_vars

\* The scheduler calls the workers every minute; a call takes ten attempts from
\* the queue, the oldest first, so that none is passed over for ever.  A worker
\* settles what it claimed or dies.
Fairness ==
  /\ \A r \in RunIds : SF_vars(\E w \in Workers : ClaimFinalExecution(w, r))
  /\ \A w \in Workers :
       WF_vars(CheckPullRequest(w) \/ MergePullRequest(w) \/ RecordMerge(w) \/ RecordFailure(w))

FairSpec == Spec /\ Fairness

-----------------------------------------------------------------------------
(* Properties *)

\* A merge that is queued or under way has a standing approval, the trusted
\* reviewer's approval of its very commit, and no result review that asks for
\* changes: whichever of approval, claim and feedback takes the run's lock
\* first, the others see it.
LiveMergeIsAuthorized ==
  \A r \in RunIds : attempts[r] \in {"Queued", "Running"} =>
    approvals[r] = "Approved" /\ ReviewerApproved(r) /\ verdicts[r] # "changes"

\* Corrections and reworks, asked for by different people over different
\* channels, never run side by side: only the newest run can be active, and
\* it starts from the newest published commit.
OneCodingRunAtATime ==
  \A r \in RunIds : Active(r) => Latest(r) /\ \A n \in RunIds : Published(n) => n <= runs[r].base

\* The reviewer starts no more corrections of a pull request than it may, though
\* the limit counts review cycles and never looks at the runs.
CorrectionsAreBounded ==
  Cardinality({r \in RunIds : Exists(r) /\ runs[r].kind = "tenki_review_remediation"}) <= MaxCycles

\* An active cycle makes the reviewer's later requests for changes be ignored.
\* It waits for a run that can still settle it, or for the reviewer to be asked
\* again after a publication; only a cancellation leaves it to nobody, and only
\* an administrator's: one on GitHub settles the cycle.
ActiveCycleHasItsRun ==
  \A v \in Reviews : cycles[v].state \in ActiveCycle =>
    LET r == cycles[v].run IN
      \/ Active(r)
      \/ runs[r].status = "Cancelled"
      \/ Published(r) /\ cycles[v].state = "Correction published" /\ cycles[v].head = r

\* Each run goes the way of a coding run: no run is published before its tests
\* passed, and a run that an administrator, its runner or the end of its GitHub
\* workflow ends beside the push of its commit is not published afterwards.
Life == INSTANCE CodingRun WITH status <- [r \in RunIds |-> runs[r].status]
ImplementsCodingRun == Life!Spec

\* Every merge spends one decision a human made for that commit, and each
\* decision is spent at most once, whatever dies, is retried or reopened.
Authority == INSTANCE MergeAuthority WITH
  Commits   <- RunIds,
  NoCommit  <- None,
  authority <- [r \in RunIds |->
                  IF attempts[r] = "Queued" THEN "granted"
                  ELSE IF \E w \in Workers : workers[w].run = r /\ workers[w].step \in MergingStep
                  THEN "spending" ELSE "none"],
  merged    <- pull.by
ImplementsAuthority == Authority!Spec

\* At the moment a worker merges, long after its claim, the head is the commit
\* that was approved and nothing has withdrawn what it claimed under.
MergeIsStillAuthorized ==
  [][\A r \in RunIds : pull.by # r /\ pull'.by = r =>
       /\ pull'.head = r /\ ReviewerApproved(r)
       /\ approvals[r] = "Approved" /\ verdicts[r] # "changes"]_vars

\* No decision is forgotten in the queue: each queued merge is taken or blocked.
QueuedMergeIsTaken == \A r \in RunIds : attempts[r] = "Queued" ~> attempts[r] # "Queued"

\* src/README.md: a trusted changes_requested review "invalidates the old
\* head's merge approval and queues a single-use correction run".  While the
\* correction is queued, no merge of the reviewed commit is.
CorrectedHeadIsNotMerged ==
  \A r \in RunIds : runs[r].status = "Queued" /\ runs[r].kind = "tenki_review_remediation" =>
    attempts[runs[r].base] # "Queued"
=============================================================================
