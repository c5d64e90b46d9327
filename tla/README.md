# CloseSpan: formal models

CloseSpan turns product feedback into verified releases. A product problem is
investigated and written up as an engineering ticket; an immutable prompt is
rendered from the ticket, tested, and approved once; a coding run executes it
in a sandbox; its result is verified independently and published as a draft
pull request; a second approval merges it; a deployment is verified against
the ticket. All state is in PostgreSQL (READ COMMITTED transactions); the
handlers that change it run in Next.js routes, Cloudflare queue workers and a
cron, so every handler can overlap every other and can stop between two of its
transactions.

These modules are read with the source beside them: `PROJECT.json` ("map")
names the lines each definition translates.

## 1. Inventory

| Part (under `src/src/lib` unless noted) | State | Operations | Talks to |
|---|---|---|---|
| Engineering workflow `engineering-workflow-repository.ts` | ticket specification (revision, board state), prompt revisions, Prompt Testing verifications, approvals, agent runs | save, automatic draft, generate, revise, restore, test, request, approve, reject, expire, start, complete, fail, cancel, delete, retry | everything below |
| Coding run delivery `workers/agent-executor`, `api/internal/tenki-executor`, `api/internal/agent-runs` | the queue, the claim lease on a run | dispatch, deliver, claim, call back, redeliver, dead-letter | workflow, sandbox, publisher |
| Publication `github-agent-publisher.ts`, `tenki-agent-verification.ts` | branch and draft pull request on GitHub | verify in a fresh sandbox, publish | GitHub, workflow |
| Final execution `final-execution-repository.ts` | final approvals, attempts | create, approve, reject, claim, merge | GitHub, billing |
| Release lifecycle `release-lifecycle-repository.ts`, `workers/release-verifier` | deployments, verification jobs (lease, attempts) | record deployment, dispatch, claim, complete | workflow |
| Stage automation `problem-automation-repository.ts` | stage of each problem, drafts, a lease | tick, assess, draft follow-up | scheduler |
| Review cycles `tenki-pr-review-automation.ts`, `issue-result-review-*.ts` | review cycles, remediation and rework runs | receive review, start correction | workflow, GitHub |
| Billing outbox `billing-outbox.ts`, migration 032 | customer rows, usage events, attempts | enqueue, claim, send, record, requeue, rename trigger | provider, scheduler |
| Chat intake `slack-intake.ts`, `discord-intake.ts` | delivery records, notifications | receive, deduplicate, notify | problems |
| Prompt review and autonomy `problem-prompt-review-*.ts`, `autonomy-*.ts` | reviews, policy acceptance | decide, request, approve automatically | workflow |
| Runtime verification `issue-runtime-verification.ts` | verification runs | start, complete, reconcile stale ones | workflow |
| Scheduler `workers/workflow-scheduler` | none | one tick per minute | all queues above |

Every other part (profiles, secrets, catalogues, CRUD, AI and memory adapters,
onboarding, stores, the status page) is in `PROJECT.json` with the reason it
is not modelled.

What makes it hard: requests that check in one transaction and act in another;
row locks that lock nothing because the row is not there yet; callbacks of
sandboxes and webhooks that arrive late, twice or never; queue redelivery
racing a lease; processes stopped by the platform between an external effect
and its record; one board state that fifteen handlers overwrite. The list with
its lines is "hazards" in `PROJECT.json`.

Properties that make each part correct:
* workflow: an approval starts at most one run and only the prompt and contract
  it was bound to; contracts of running work are not pulled away; prompts and
  the board never wait for something that is gone; terminal runs stay terminal;
* delivery: a job is executed once, its failure is recorded, a published pull
  request is a verified one and is known to the workflow;
* final execution: each merge spends one decision made for that commit, under
  an approval and a review that still stand;
* reviews: corrections of one pull request never overlap and are bounded, and a
  review cycle waits for a run that can settle it;
* verification job: one verdict, one row of evidence, at most three executions,
  and a verdict in the end, since somebody always has the undecided job in hand;
* release: a ticket is Verified only if something passed for its problem, late
  events never move it back, and a ticket with its evidence moves on;
* billing: an event is recorded once, Sent only if the provider has it, and
  settled in the end.

## 2. Plan

| # | Module | Status |
|---|---|---|
| 1 | `TicketWorkflow`, `MCTicketWorkflow`, `TicketWorkflowProofs` | done, all its properties proved |
| 2 | `UsageLedger` (abstract), `BillingOutbox`, `BillingOutboxProofs` | done, its safety properties proved |
| 3 | `CodingRun` (abstract), `AgentExecution`, `AgentExecutionProofs`: queue, lease, callbacks, verification, publication | done, its safety properties and the refinement proved |
| 4 | `MergeAuthority` (abstract), `FinalExecution`, `FinalExecutionProofs`, `FinalRunsProofs`: the final decision, its workers, review cycles and reworks | done, its safety properties and both refinements (`MergeAuthority`, `CodingRun`) proved |
| 5 | `VerificationJob` (abstract), `ReleaseVerifier`, `ReleaseVerifierProofs`: dispatch, queue, lease, attempts, verdict | done, its safety properties and the refinement proved |
| 6 | `ReleaseLifecycle`, `ReleaseLifecycleProofs`: stages, merges, deployments, verdicts, the coordinator | done, its safety properties proved |
| 7 | chat intake: deduplication and retries | not begun |
| 8 | pure algorithms: autonomy policy, release verification plan, narrowing of permitted paths | not begun |
| 9 | the composition of 1, 3, 4 and 6 over shared runs | 3 and 4 implement one abstract run (`CodingRun`); the others not begun |

## 3. Modules and the code they model

A database transaction is one action. A handler that reads without a lock and
acts on it later, or in a later transaction, is several actions, and what it
read is part of the state. External services are actions that may succeed,
refuse, or take effect and lose their answer. Every row, message and request
is a record whose fields are the columns the conditions of the code look at;
texts, hashes, signatures, audit events and the rendering of prompts are left
out.

### TicketWorkflow

One problem and its tables `spec`, `prompts`, `verifications`, `approvals` and
`runs`, each a function from ids to rows with status "None" before the INSERT.
Ids are handed out in order and stand for `revision`, `created_at` and
`queued_at`. `op[c]` is a request in progress: what client `c` read without a
lock that holds (`SELECT ... FOR UPDATE` locks nothing when no row is there).

| Actions | Handlers of `engineering-workflow-repository.ts` |
|---|---|
| `CreateAutomatedPromptDraft`, `SaveCheck` + `SaveEngineeringSpecification`, `RebindCheck` + `RebindTerminalRetryToCurrentProfile` | the ticket; each edit supersedes prompts and the contracts nothing holds |
| `ReadSpecification` + `GenerateImplementationPrompt`, `ApplyPddPromptRevision`, `RestorePddPromptRevision`, `ConfirmCurrentIssue` | prompts; the last is `issue-runtime-verification.ts` |
| `StartPromptTest` + `GeneratePddAcceptanceContract`, `MarkPddVerificationGenerating`, `CompletePddVerification`, `FailPddVerification` | Prompt Testing |
| `RequestImplementationApproval`, `ApprovalExpires`, `ApproveImplementationRun`, `RejectImplementationApproval`, `ApproveExpiredApproval` | approvals; the thirty minutes are the flag `overdue` |
| `StartAgentRun`, `CompleteAgentRun`, `FailAgentRun`, `CancelAgentRun`, `DeleteAgentRun`, `ReconcileAgentWorkflow`, `PrepareImplementationRunRetry` + `ReopenPromptAfterTerminalAgentRun` | runs; the reconciliation is `github-webhook-repository.ts` |

`AbandonRequest` is any request that dies or is refused between its two parts.

### UsageLedger and BillingOutbox

`UsageLedger` is what shadow metering promises of an event: recorded once,
called sent only after the provider accepted it, then left alone.
`BillingOutbox` is `billing-outbox.ts` with the two triggers of migration 032.
A worker of the model is one call of `deliverBillingShadow`: it claims the
customer (`ClaimCustomer`) or an event (`ClaimEvent`), the provider answers
(`ProviderAccepts`, whose answer may be lost, or `ProviderRefuses`), and the
worker records the answer (`MarkCustomer`, `MarkEvent`) if the row still holds
its claim: the status and the attempt number are the compare-and-set token.
`EndDelivery` is also the death of a worker at any point, and a worker that
takes no step is frozen. `ClaimIsAbandoned` is the passing of five minutes.
`Ledger` is the refinement mapping (`StandingOf`).

### CodingRun

What the rest of the system may rely on about the `status` of a run: a draft pull
request is recorded only after its tests passed, a run that left the sandbox does
not return to it, outcomes stay, and a run that is queued or running is not
deleted. It promises no more: reports and starts may be repeated, the GitHub Actions
runner reports on runs nobody saw start, and passed tests do not protect a run, which
a late failure or a workflow that was cancelled on GitHub still ends (`End`). No
handler promises this alone (`completeAgentRun` records a pull request
for any active run, `markAgentRunRunning` takes a running one); it comes from who
calls them in which order. `AgentExecution` implements it with one run, and
`FinalExecution` with all runs of a pull request, so the two, which abstract each
other, agree on the life of a run. `TicketWorkflow` does not: there a report is a
free choice of its environment.

### AgentExecution

One coding run from its consumed approval to its outcome. `dispatch` is the
approval route that sends the job, `message` the job in the Cloudflare queue
(`workers/agent-executor`), `routes[d]` the call of the executor route that
delivery `d` makes (`api/internal/tenki-executor`), `tasks[d]` the background
task of its `completed` callback (`api/internal/agent-runs/[runId]`), and
`github` the branch, the pull request and the verified reports.

* Queue: `Deliver`, `DeliverDuplicate`, `LoseConnection`; `Retried` is the retry
  policy of `queueJob` and the queue's limit, `Answer` the acknowledgement.
* Route: `RefuseJob`, `ClaimQueuedAgentRun` or `AnswerUnclaimed`,
  `MarkAgentRunRunning`, `CompleteAgentRun` or `RefuseReport`,
  `ExecutionFails`, `FailAgentRun`; `RouteStops` is the platform.
* Task: `VerifyAgentRun`, `PublishAgentRun`, `RecordPublication`, `FailTask`,
  `TaskStops`.
* `CancelAgentRun` and `DeleteAgentRun` are the administrator, `Tick` a minute.

A callback is one step: its handler takes effect while the route waits for the
answer, and the answer may be lost. The time of the code is compared with four
numbers only (lease 13, route limit 5, delays 1 and 5 minutes), so ages and
remaining times count in minutes up to these and stop there; the columns are
compared in whole minutes, so an order of events within a minute is any order.

### MergeAuthority and FinalExecution

`MergeAuthority` is what final execution promises: every attempt to merge a
commit spends a decision a human made for that commit, and a decision is spent
once. `FinalExecution` is one pull request from its first publication. A run
publishes one commit, so a run, its commit, the final approval of it, the one
attempt of that approval and the last human verdict on its result share a
number; corrections and reworks are the runs after the first.

| Actions | Handlers |
|---|---|
| `ReadCandidate` + `ExpireFinalApproval` or `ApproveFinalExecution`, `RejectFinalExecution` | the decision, `final-execution-repository.ts`; what is read before the transaction is in `requests[q]` |
| `ClaimFinalExecution`, `CheckPullRequest`, `MergePullRequest`, `RecordMerge`, `RecordFailure`, `WorkerDies` | `processQueuedFinalExecutions`: the claim is a transaction, the two calls of GitHub and the record are steps of their own |
| `ReviewApproves`, `ReviewRequestsChanges`, `ReviewReachesLimit` | `processTenkiPullRequestReview`: late, repeated and out of order |
| `ClaimQueuedAgentRun`, `MarkAgentRunRunning`, `PassTests`, `ReportFailure`, `FailAgentRun`, `CancelAgentRun`, `CompleteAgentRun` | the runs of `engineering-workflow-repository.ts`, with the review cycles they settle; `PassTests`, `ReportFailure` and `CompleteAgentRun` are `completeAgentRun` |
| `ReconcileAgentWorkflow` | `reconcileAgentWorkflow` of `github-webhook-repository.ts`: the GitHub workflow of a run is over and the run is not |
| `PushCorrection` | `publishPullRequestCorrection` |
| `RecordIssueResultReview`, `CheckRework` + `AuthorizeIssueResultRework` | people who ask for changes and let the agent work on them |
| `SomebodyPushes`, `SomebodyCloses`, `SynchronizeEvent`, `MergedEvent` | GitHub, and `auditPullRequest` of `github-webhook-repository.ts` |

A correction or rework takes over the execution profile of the run it corrects, so it
may be executed by either runner: by the queue, or by GitHub Actions, which calls back
without a start and whose workflow may end, failed or cancelled, before or after its
report. The background task of a report (`tested`) pushes the commit without reading
the run again, so the commit of a run that ended meanwhile may appear on the branch;
`completeAgentRun` refuses it afterwards under the lock of the row (`Completable`).
GitHub may also find the target branch changed, which is not in the state:
`CheckPullRequest` may always find the pull request invalid.

The refinement mapping reads a queued attempt as a granted decision and a worker
between its claim and the answer of GitHub as the spending of it. Times (the
expiry of an approval, the twenty-four hours of an attempt) and the checks of
the administrator's membership are free choices.

### VerificationJob and ReleaseVerifier

`VerificationJob` is the promise: a bounded number of executions, one verdict
that never changes, one row of evidence, no pass without an execution.
`ReleaseVerifier` is one row of `post_release_verification_jobs` and what works
on it: `DispatchQueuedReleaseVerifications` with `SendSucceeds`, `SendFails` and
`SchedulerDies` (the scheduler's call of the worker, whose answer may be lost
after `QueueAccepts`), `Deliver`, `RetryLater`, `DelayEnds` and `DeliveryIsLost`
(the queue of `workers/release-verifier`),
`ClaimPostReleaseVerificationExecution`, `ClaimExhausted`, `ClaimRefused`,
`GetReleaseVerifierJob`, `CompletePostReleaseVerification`, `Respond`,
`ExecutionFails`, `ExecutorDies`, `WorkerTimesOut` (the executor route and its
callback). The lease of 45 seconds is the flag `leased`; since a retry waits at
least 60, a message remembers the number of renewals it was delayed after and is
not delivered again while that very lease lasts.

### ReleaseLifecycle

The stage (1 to 9) and implementation state of the tickets of one organization.
A tick of the coordinator is `TickReads` (it locks the problems and picks the
first whose evidence is there) and `TickMoves` or `TickFails` (the audit row of
the move exists, and the transaction is rolled back). Between them every
handler that writes a problem, or a row that refers to one, waits (`Unlocked`);
an edit of the ticket does not. `RunPublishes`, `MergeRecorded`, `MergedEvent`,
`RecordGithubDeploymentStatus` and `CompletePostReleaseVerification` are the
evidence, `TransitionProblemStage`, `DecideAction`, `AdvanceLifecycle`,
`RecordReleaseVerification`, `SaveEngineeringSpecification` and `WorkGoesOn` are
people and their work. The model is an organization whose autonomy level lets
the coordinator move tickets; how a job gets its verdict is `ReleaseVerifier`.

## 4. Runs

| Run | Bounds | Checks |
|---|---|---|
| `ticket_workflow` | 2 prompts, 2 contracts, 2 approvals, 2 runs, 2 revisions, 1 request | `SingleUseApproval`, `ContractOutlivesActiveRun`, `AwaitingPromptIsDecidable`, `FailureReopensPrompt`, `BoardStateHasWork`, `ContractsMoveForward`, `TerminalRunsStayTerminal` |
| `ticket_latest` | the same | refutes a message of the code |
| `billing_outbox` | 1 event, 2 workers, 2 attempts, 1 rename, 1 requeue | `UsageNeedsCustomer`, `PendingIsClaimable`, `ImplementsLedger`, `OwedIsSettled` |
| `billing_abandoned` | the same | refutes a sentence of the documentation |
| `agent_execution` | the numbers of the source, no copies of a delivery | `OneExecution`, `RecordedReportIsPublished`, `QueuedJobEnds` |
| `agent_copies` | shorter times, one delivery made twice | `AckedRunIsReported`, `FirstOutcomeStays`, `ImplementsCodingRun` |
| `final_execution` | 2 runs, 3 reviews, 1 correction, 2 workers, 1 request | `LiveMergeIsAuthorized`, `ImplementsAuthority`, `MergeIsStillAuthorized`, `QueuedMergeIsTaken` |
| `final_runs` | 3 runs, 2 reviews, 1 correction, 1 request, no workers | `OneCodingRunAtATime`, `CorrectionsAreBounded`, `ActiveCycleHasItsRun`, `ImplementsCodingRun` |
| `final_review` | 2 runs, 2 reviews, 1 correction, 1 worker, 1 request | refutes a sentence of the documentation |
| `release_verifier` | 2 dispatches, 3 attempts, 4 deliveries, 2 executors | `ImplementsVerificationJob`, `OpenJobIsInHand`, `JobIsDecided` |
| `release_lifecycle` | 1 problem, 2 revisions, 1 deployment, "In progress" set by hand | `VerifiedIsEvidenced`, `OnlyPeopleMoveBack`, `QualifiedTicketMoves` |
| `release_stuck` | 2 problems, 1 revision, no deployment, "Detected" set by hand | refutes a sentence of the documentation |

Each passing run that covers a whole module also checks its `TypeOK`.

Why the bounds are enough. *Tickets*: the interesting cases need a second
prompt (an edit replaces the first), a second contract (a test replaces the
first), a second approval and run (a retry after a failure) and a revision
that is not the first; a row of a table interacts with at most one other row
of it through "the latest". One request with stale reads races every one-step
handler; for any number of requests the properties are proved (section 6).
*Billing*: two attempts have a first and a last one, which is what the limit
tells apart; two workers are a stale one and the one that took over its row;
events meet only in the row of their customer, so one event and the customer
show every race. The attempt limit of the source (8) only makes the runs longer.
*Delivery*: the constants are those of the source, and a queue without copies
makes at most four deliveries. The run with a copy scales the times down and
keeps their order (delay 1 and 2, route 2, lease 6). *Final execution*: two runs
are the published one and its correction; two workers race for one attempt and
leave one behind; three reviews approve both commits and ask for one correction.
Overlapping runs need a third (a correction and a rework of the second), where
merges play no part, so that run has no workers; its limit of one correction is
one that two reviews can pass, and more are covered by the proof. *Verification job*: attempts
and deliveries are those of the source, two dispatches are one that failed and
its repetition, two executors are one that is late and its successor.
*Lifecycle*: the revision that was released and a later one, one deployment;
tickets meet only in the tick, which the second problem of `release_stuck` is
there for. What does not depend on these numbers is proved in section 6.

Every property of a passing run has a mutant in `PROJECT.json`: a change of one
definition, as a plausible bug would make it, that the run finds. They stand in
the modules above the definition they replace, marked "Mutation".

Deadlock is not checked: all six systems may stop for good, with every row
terminal and every supply of the model used up.

## 5. Fairness

Safety is checked without fairness. Five passing runs check liveness and assume some:

* `billing_outbox`: the scheduler's cron ticks every minute (`StartDelivery`), a
  call ends (the platform stops it), five minutes pass (`ClaimIsAbandoned`), not
  every call dies before it reaches the events (strong fairness of
  `StartEvents`), and calls that keep finding a due row take it in the end (a
  batch takes rows in the order of their next attempts). Nothing is assumed of
  a claim once made: the worker may die with it and the provider may refuse.
* `agent_execution`: the clock runs, the queue delivers what is due, and a route
  does not stand still for ever (`RouteStepOf`, which `RouteStops` satisfies).
  No route, callback or task has to succeed, and no administrator has to act.
* `final_execution`: the cron calls the workers every minute and a call takes up
  to ten attempts, the oldest first, so an attempt that keeps waiting for a free
  worker is taken (strong fairness of the claim, per run). A worker that has one
  goes on or dies; GitHub need not accept the merge.
* `release_verifier`: the scheduler dispatches, the lease ends, the queue delivers
  what is due and every call ends, if only by a failure. The property excepts the
  stories in which a process dies between two steps or a delivery does not reach
  the claim: after those nothing in the code takes the job up again.
* `release_lifecycle` (and `release_stuck`): the coordinator is called every
  minute, its transaction ends, thirty seconds pass. This assumes that no other
  organization stops the loop of `runProblemAutomationForAllOrganizations`,
  which has no handler for the error of one.

## 6. Proofs

TLAPS checks these for all values of the constants; the assumptions are those
the modules name (`IdAssumption`, `SpecRevisionAssumption`,
`AttemptsAssumption`, `BoundsAssumption`, `EventsAssumption`,
`DelayAssumption`, `DeliveryAssumption`, `CountAssumption`, `LimitAssumption`,
`ProblemAssumption`, `BoundAssumption`).

**TicketWorkflowProofs.** `TypeCorrect`, `ApprovalIsSingleUse`
(`SingleUseApproval`), `ContractsOfActiveRunsStay`
(`ContractOutlivesActiveRun`), `WaitingPromptsAreDecidable`
(`AwaitingPromptIsDecidable`), `FailedRunsReopenPrompts`
(`FailureReopensPrompt`), `BoardIsNoDeadEnd` (`BoardStateHasWork`),
`ContractsOnlyMoveForward` (`ContractsMoveForward`) and `EndedRunsStayEnded`
(`TerminalRunsStayTerminal`): every property of the run, for any number of rows
and of requests with stale reads. `IInv` is their conjunction with
`ApprovalsAreBound` (an approval that exists names a prompt and a contract that
exist). Only the contracts need the others: superseding spares what an approval
or an active run holds, each handler looks at one or both, and it is
`SingleUseApproval` that gives an active run its consumed approval, so the two
conditions never disagree (`HeldContract`, `ContractMoves`). The proofs go
through what an actor leaves alone: preparing writes no approval and no run
(`PreparationFrame`) and submits no prompt (`PreparationSubmitsNothing`), and a
run changes only its status, its prompt and the board (`RunEffects`).

**BillingOutboxProofs.** `TypeCorrect`, `UsageFollowsCustomer`
(`UsageNeedsCustomer`), `PendingRowsAreClaimable` (`PendingIsClaimable`) and
`OutboxImplementsLedger`. The invariant `IInv` ties what a worker holds to what
the provider has: an answer "accepted" in a worker's hands is an event the
provider keeps (`JobsAreGrounded`), a Sent event was accepted
(`SentIsAccepted`), and a Provisioned customer is known to the provider
(`ProvisionedIsKnown`). It is needed because the worker that marks an event Sent
looks only at its own answer and at the token. The refinement is proved by one
step of the ledger, or a stutter, for each action (`LedgerStep`).

**AgentExecutionProofs.** `TypeCorrect`, `FirstOutcomeIsKept`
(`FirstOutcomeStays`) and `AcknowledgedRunIsReported` (`AckedRunIsReported`)
hold for any constants and any number of copies. `RunIsExecutedOnce`
(`OneExecution`) and `PublishedReportIsRecorded` (`RecordedReportIsPublished`)
are proved under `Punctual`: the queue makes no copies and neither the lease
nor the later delay is shorter than the limit of a route. They also assume, as the
model does, that the consumer of the queue answers every message: one that crashes
before it calls `retry()` is delivered again by Cloudflare without the delay
`queueJob` asks for, and then two executions may overlap. The argument
(`Timing`) is about ages. A claim is possible again a lease after the first
one, and the first claim is younger than the first route; every route is
stopped at its limit. A third delivery comes only after a later delay, so the
routes of the first deliveries are over or hold no claim. The lease is not
renewed by a second claim, so without the condition on the delay a third
execution could start beside the second: this is the relation between
`wrangler.jsonc`, `maxDuration` and the interval in `claimQueuedAgentRun` that
the three files must keep. `Publishing` adds that at most one report has been
taken from a successful execution, so the branch and the row name the same one.

`AgentExecutionImplementsCodingRun` needs no `Punctual`. Each handler moves the
status in one of a few ways (`LifeStep`). All but one follow from the handler's own
guard; `LifeInv` is for the last: a background task exists only once the tests
passed, so what it records is a pull request of a run in "Tests passed" even where
`completeAgentRun` would take any active run.

**FinalExecutionProofs.** `TypeCorrect`, `LiveMergesAreAuthorized`
(`LiveMergeIsAuthorized`), `MergesAreStillAuthorized` (`MergeIsStillAuthorized`),
`CodingRunsDoNotOverlap` (`OneCodingRunAtATime`) and
`FinalExecutionImplementsAuthority` (`ImplementsAuthority`), for any number of
runs, reviews, corrections, workers and requests. `AuthorityInv` adds to
`LiveMergeIsAuthorized` what it needs to be inductive. A request on its way to
approve has seen the reviewer's approval, and that stays on record
(`RequestsAreReviewed`, `ReviewsStand`). An attempt in the hands of a worker that
may still merge is Running unless the commit it is about was merged, and no other
worker has it (`WorkersOwnTheirRuns`, `MergesAreReal`): this is what lets a
worker merge on a claim it made long before, and what the merge of each decision
at most once comes from. `RunsInv` is enough for the runs, because everything
that queues one looks at the newest run under its lock.

**FinalRunsProofs.** `ActiveCyclesHaveTheirRuns` (`ActiveCycleHasItsRun`),
`ReviewersCorrectionsAreBounded` (`CorrectionsAreBounded`) and
`FinalExecutionImplementsCodingRun` (`ImplementsCodingRun`). They speak of runs and
review cycles only, so each proof goes through what a step does to these two
tables (`RunOrCycleSteps`: a note of a review, a correction, another run that
is queued, a run that moves on). The limit of corrections is checked against a
count of cycles and never against the runs. `BoundInv` makes that sound: every
correction is the run of some cycle that counts, whatever state it ended in, so
the corrections are an image of the counted cycles (`FS_Surjection`) and no more than
these. It breaks as soon as a cycle that failed is no longer counted, which is the
mutant of `CorrectionsAreBounded`. For the cycles (`CycleInv`) the point is that every handler
that ends a correction settles its cycle in the same transaction, except
`cancelAgentRun`; the invariant names that exception. A cancellation on GitHub
(`reconcileAgentWorkflow`) is not one: it settles its cycle. The life of the runs
(`LifeInv`) says that a run that was tested or pushed is past its sandbox. A run may
be ended between its report, the push of its commit and the record of it, by
anybody; that it is not published then rests only on the check `completeAgentRun`
repeats under the row's lock, and the property's mutant drops that check.

**ReleaseVerifierProofs.** `TypeCorrect`,
`ReleaseVerifierImplementsVerificationJob` (`ImplementsVerificationJob`) and
`OpenJobsAreInHand` (`OpenJobIsInHand`), for any limits and any number of executors. `VerdictInv` says that the row of evidence
and the verdict come together and that whoever verifies was counted as an
attempt; `ClaimInv` says the latter of an executor that has only claimed. Every
action leaves the promise alone (`Keeps`) or is one of its steps (`JobStep`).
`OpenJobsAreInHand` assumes `Patient`, that a message is delivered more often than
the job may be executed; `wrangler.jsonc` and the repository have four and three.
Like the model, it assumes that a delivery that reaches nothing is retried with the
configured delay, which Cloudflare does not do when the consumer itself crashes.
The argument (`HandInv`, whose main part is `Counted`) counts: every delivery of the
last message that came to nothing stands for an execution, its own or one whose
lease it met, and these are different ones, because a retry waits longer than the
lease it was refused for. A message that reaches the dead letter queue would have
seen more executions than a job may have. Shorten the delay below the lease, or the
queue's limit to that of the attempts, and a job is left Running with nothing that looks at it.

**ReleaseLifecycleProofs.** `TypeCorrect`, `VerifiedTicketsAreEvidenced`
(`VerifiedIsEvidenced`) and `OnlyPeopleMoveTicketsBack` (`OnlyPeopleMoveBack`),
for any number of problems, revisions and deployments. A tick acts on what it
read, so the invariant says that it still holds: the ticket in its hands is not
Closed, and if it is Released, something has passed for its problem (`TickInv`).
What it read may be of an older revision, because an edit does not wait; that is
why `VerifiedIsEvidenced` speaks of the problem. The proofs split by what a step
writes: most actions touch at most one ticket in one of a few ways
(`WritesTicket`, `StepWrites`).

Only model-checked: `OwedIsSettled`, `QueuedJobEnds`, `QueuedMergeIsTaken`,
`JobIsDecided` and `QualifiedTicketMoves` (liveness is out of the prover's
reach), and the refuted properties.

## 7. What the code says and does not do

Four runs find such behaviour, with the trace TLC prints.

* `ticket_latest` (`OnlyLatestPromptSubmitted`): rejecting an approval makes its prompt Ready even if a newer
  revision replaced it, so a superseded prompt can be submitted, against "Only
  the latest ready prompt can be submitted".
* `billing_abandoned` (`AbandonedClaimsAreRecovered`): a worker that dies during the last attempt leaves the
  event Sending for ever; neither the claims nor the requeue take it back.
* `final_review` (`CorrectedHeadIsNotMerged`): a trusted review that asks for changes supersedes a pending
  approval only. A merge that is already approved stays in the queue beside the
  correction, though the README says the review invalidates the approval.
* `release_stuck` (`EvidenceMovesTicket`): when people put a ticket back, the coordinator repeats a move
  whose audit row exists; the unique key of `audit_events` rolls back that tick
  and every later one, and the other tickets of the organization wait behind it.

Others the models show and no run states. For most of them no document of the
repository promises otherwise, or a property that holds bounds the consequence; the
second is against a document, and no property covers it:

* Saving the ticket checks for a pending approval with a lock on rows that are
  not there yet; one requested meanwhile stays pending over a changed ticket.
* A rename restarts the attempt numbers, so the worker that read the old name can
  hold the token of the claim made after it, and its late answer makes the customer
  Provisioned under the old name. `docs/billing-shadow-metering.md` (lines 72 to 74)
  promises that "a stale worker cannot overwrite a newer success or an organization
  rename". This is about the row of the customer; `ImplementsLedger` speaks of events
  only, of which none is lost by it.
* A second execution of a coding run starts beside the first when a copy of the
  delivery arrives after the lease of the first claim.
* When only the answer of the `completed` callback is lost, the run is recorded
  Failed and its pull request is published all the same; a run deleted while it
  publishes leaves a pull request nothing refers to.
* A correction that an administrator cancels leaves its review cycle active, and
  every later review that asks for changes is ignored.
* The GitHub Actions runner ends as soon as its "completed" callback is accepted, while
  the background task of that callback still publishes. The event of the finished
  workflow may come first: it ends the run, and the commit or pull request is
  published all the same and never recorded. `ImplementsCodingRun` shows that the
  run itself stays ended.
* A late synchronize event of an older commit supersedes the pending approval of
  the current one.
* A verdict is recorded for the revision the ticket has when it arrives, whatever
  was deployed.
* A deployment that succeeds before its merge is recorded is ignored.
* A ticket people put back to "In progress" is moved on by the coordinator over
  its later state: "Released" or "Verified" becomes "Release Ready".
* No code marks a customer notification "Sent", so the coordinator never closes
  a ticket.

## 8. Not modelled

* `TicketWorkflow`: the memory mode, an UPDATE that judges other tables by the
  older snapshot of its own statement, and a prompt that is rendered from the
  ticket as it was before its evidence was collected. Corrections and reworks
  are runs of `FinalExecution`, not of this module.
* `BillingOutbox`: the feature switch, and deletion of an organization.
* `AgentExecution`: the GitHub Actions runner, which has no queue (`FinalExecution`
  and `TicketWorkflow` have its reports and the end of its workflow), signatures and
  job validation, and a queue consumer that crashes instead of answering a message,
  which is then delivered again without the configured delay.
* `FinalExecution`: how a runner comes to its report, the acceptance of a result and its revocation, which block
  nothing here, and the administrator's memberships.
* `ReleaseVerifier`: the verification itself, which is I/O; its verdict is free. As in
  `AgentExecution`, the queue's consumer does not crash.
* `ReleaseLifecycle`: the order in which the verdict and the tick lock their rows
  (they take them in opposite orders; PostgreSQL aborts one, which is a tick or a
  verdict that did not happen), the autonomy levels, the reset of the
  demonstration, and the investigations and drafts a tick starts first.
* The composition of the modules: `TicketWorkflow`, `AgentExecution`,
  `FinalExecution` and `ReleaseLifecycle` share the runs, but each abstracts the
  others (a report in the first is a free choice, a ticket is not seen in the
  second, a merge in the last is one step). Their product is out of TLC's reach
  at the bounds each of them needs.
* The parts listed in `PROJECT.json` as not modelled, with their reasons.
