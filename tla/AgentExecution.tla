---------------------------- MODULE AgentExecution ----------------------------
(***************************************************************************)
(* How one approved coding run is carried out: the approval route sends    *)
(* its job to a queue, the queue delivers it to the executor route, the    *)
(* route claims the run, works in a sandbox and calls back, and the        *)
(* callback's background task verifies the result and publishes a draft    *)
(* pull request.                                                           *)
(* Source: src/workers/agent-executor/src/index.ts, the routes under       *)
(* src/src/app/api/internal (tenki-executor, agent-runs), and the claim    *)
(* and the run statuses of src/src/lib/engineering-workflow-repository.ts. *)
(*                                                                         *)
(* A delivery of the job is one call of the executor route.  A callback is *)
(* one step of it; its handler takes effect and its answer may be lost.    *)
(* Time passes in minutes: a delay, a lease and the platform's limit on a  *)
(* route only count down to what the code compares them with.              *)
(***************************************************************************)
EXTENDS Naturals, FiniteSets

CONSTANTS Lease,        \* minutes a claim lasts: 13 in the source
          MaxDuration,  \* minutes the platform lets a route run: 5
          FirstDelay,   \* minutes before the first redelivery: 1
          LaterDelay,   \* minutes before the later ones: 5
          MaxRetries,   \* of the queue: 3
          Duplicates    \* deliveries the queue makes twice

ASSUME DelayAssumption ==
  {Lease, MaxDuration, FirstDelay, LaterDelay} \subseteq Nat \ {0}
ASSUME DeliveryAssumption == {MaxRetries, Duplicates} \subseteq Nat

VARIABLES run,       \* the row of agent_runs
          dispatch,  \* the approval route, after the approval is consumed
          message,   \* the job in the queue
          routes,    \* calls of the executor route
          tasks,     \* background tasks of "completed" callbacks
          github     \* the branch of the run, its pull request and the verified reports

vars == <<run, dispatch, message, routes, tasks, github>>

-----------------------------------------------------------------------------
(* State *)

Deliveries == 1..(MaxRetries + 1 + Duplicates)
NoDelivery == 0

ActiveStatus   == {"Queued", "Running", "Tests passed"}
TerminalStatus == {"Failed", "No changes", "Draft PR opened", "Cancelled"}
RunStatus      == ActiveStatus \cup TerminalStatus \cup {"Deleted"}

\* started: minutes since started_at, up to the lease.
NotStarted == Lease + 1
ExecutingStep == {"claimed", "working"}
LiveStep      == ExecutingStep \cup {"arrived", "failing"}
RouteStep     == LiveStep \cup {"none", "done"}
LiveTask      == {"verifying", "publishing", "recording", "failing"}
TaskStep      == LiveTask \cup {"none", "done"}

\* report: the delivery whose report the run records.
Runs     == [status : RunStatus, started : 0..NotStarted, report : Deliveries \cup {NoDelivery}]
Messages == [state : {"none", "waiting", "delivered", "acked", "dead"},
             wait : 0..(FirstDelay + LaterDelay), attempts : 0..(MaxRetries + 1),
             delivery : Deliveries \cup {NoDelivery}]
\* left: minutes before the platform stops the route.
Routes == [step : RouteStep, left : 0..MaxDuration]
\* branch: the delivery whose report is on the branch of the run.
Publications ==
  [branch : Deliveries \cup {NoDelivery}, pull : BOOLEAN, verified : SUBSET Deliveries]

TypeOK ==
  /\ run \in Runs
  /\ dispatch \in {"pending", "failing", "done"}
  /\ message \in Messages
  /\ message.state = "waiting" => message.attempts <= MaxRetries
  /\ routes \in [Deliveries -> Routes]
  /\ tasks \in [Deliveries -> TaskStep]
  /\ github \in Publications

Message(state, wait, attempts, d) ==
  [state |-> state, wait |-> wait, attempts |-> attempts, delivery |-> d]

Init ==
  /\ run = [status |-> "Queued", started |-> NotStarted, report |-> NoDelivery]
  /\ dispatch = "pending"
  /\ message = Message("none", 0, 0, NoDelivery)
  /\ routes = [d \in Deliveries |-> [step |-> "none", left |-> 0]]
  /\ tasks = [d \in Deliveries |-> "none"]
  /\ github = [branch |-> NoDelivery, pull |-> FALSE, verified |-> {}]

IsActive  == run.status \in ActiveStatus
Executing == {d \in Deliveries : routes[d].step \in ExecutingStep}

\* Mutation: any run is failed, whatever became of it.
FailExistingRun == run' = IF run.status = "Deleted" THEN run ELSE [run EXCEPT !.status = "Failed"]

\* failAgentRun: a run that is not active stays as it is.
FailRun == run' = IF IsActive THEN [run EXCEPT !.status = "Failed"] ELSE run

-----------------------------------------------------------------------------
(* The queue *)

\* The job may be sent though the answer is lost, and the approval route may
\* stop before it sends it.
DispatchAgentRun ==
  /\ dispatch = "pending"
  /\ \E sent \in BOOLEAN : message' = IF sent THEN Message("waiting", 0, 0, NoDelivery) ELSE message
  /\ dispatch' \in {"failing", "done"}
  /\ UNCHANGED <<run, routes, tasks, github>>

FailDispatch ==
  /\ dispatch = "failing"
  /\ FailRun
  /\ dispatch' = "done"
  /\ UNCHANGED <<message, routes, tasks, github>>

Arrive(d) ==
  /\ routes[d].step = "none" /\ \A e \in Deliveries : e < d => routes[e].step # "none"
  /\ routes' = [routes EXCEPT ![d] = [step |-> "arrived", left |-> MaxDuration]]

Deliver(d) ==
  /\ message.state = "waiting" /\ message.wait = 0
  /\ Arrive(d)
  /\ message' = Message("delivered", 0, message.attempts + 1, d)
  /\ UNCHANGED <<run, dispatch, tasks, github>>

\* The queue delivers at least once: a copy, whose own fate is ignored.
DeliverDuplicate(d) ==
  /\ message.state # "none"
  /\ Cardinality({e \in Deliveries : routes[e].step # "none"}) < message.attempts + Duplicates
  /\ Arrive(d)
  /\ UNCHANGED <<run, dispatch, message, tasks, github>>

\* Mutation: every failed delivery is tried again.
RetriedWithoutLimit ==
  Message("waiting", IF message.attempts >= 2 THEN LaterDelay ELSE FirstDelay,
          message.attempts, NoDelivery)

\* queueJob: retry with a delay, or the dead letter queue.
Retried ==
  IF message.attempts > MaxRetries THEN Message("dead", 0, message.attempts, NoDelivery)
  ELSE Message("waiting", IF message.attempts >= 2 THEN LaterDelay ELSE FirstDelay,
               message.attempts, NoDelivery)

\* Mutation: a failed call is not answered at all.
AnswerSuccess(d, ok) ==
  message' = IF ok /\ message.state = "delivered" /\ message.delivery = d
             THEN Message("acked", 0, message.attempts, NoDelivery) ELSE message

\* The worker is told how the call went, unless it no longer listens to it.
Answer(d, ok) ==
  message' = IF message.state # "delivered" \/ message.delivery # d THEN message
             ELSE IF ok THEN Message("acked", 0, message.attempts, NoDelivery) ELSE Retried

\* The worker's request breaks off while the route goes on.
LoseConnection ==
  /\ message.state = "delivered"
  /\ message' = Retried
  /\ UNCHANGED <<run, dispatch, routes, tasks, github>>

-----------------------------------------------------------------------------
(* The executor route *)

GoTo(d, step) == routes' = [routes EXCEPT ![d].step = step]
End(d, ok)    == GoTo(d, "done") /\ Answer(d, ok)

\* The run cannot be read, or its approval no longer matches the job.
RefuseJob(d) ==
  /\ routes[d].step = "arrived"
  /\ End(d, FALSE)
  /\ UNCHANGED <<run, dispatch, tasks, github>>

\* Mutation: a claim without a lease.
ClaimableWhileRunning == run.status \in {"Queued", "Running"}

Claimable == run.status = "Queued" \/ (run.status = "Running" /\ run.started = Lease)

\* started_at is set once and never renewed.
Started == [run EXCEPT !.status = "Running", !.started = IF @ = NotStarted THEN 0 ELSE @]

ClaimQueuedAgentRun(d) ==
  /\ routes[d].step = "arrived"
  /\ Claimable
  /\ run' = Started
  /\ GoTo(d, "claimed")
  /\ UNCHANGED <<dispatch, message, tasks, github>>

\* Mutation: a run that somebody executes is a duplicate like any other.
AnswerDuplicate(d) ==
  /\ routes[d].step = "arrived"
  /\ ~Claimable
  /\ End(d, TRUE)
  /\ UNCHANGED <<run, dispatch, tasks, github>>

\* "active" makes the queue try again, "terminal" ends the job; a run deleted
\* since the route read it is "terminal" too.
AnswerUnclaimed(d) ==
  /\ routes[d].step = "arrived"
  /\ ~Claimable
  /\ End(d, run.status # "Running")
  /\ UNCHANGED <<run, dispatch, tasks, github>>

\* The "started" callback may come twice.
Startable == run.status \in {"Queued", "Running"}

\* The "started" callback.  A handler that throws fails the run if it is
\* active, which is then the case of a run whose tests passed.
MarkAgentRunRunning(d) ==
  /\ routes[d].step = "claimed"
  /\ IF Startable
     THEN run' = Started /\ \E step \in {"working", "failing"} : GoTo(d, step)
     ELSE FailRun /\ GoTo(d, "failing")
  /\ UNCHANGED <<dispatch, message, tasks, github>>

\* The sandbox or the agent fails, or a callback never arrives.
ExecutionFails(d) ==
  /\ routes[d].step \in ExecutingStep
  /\ GoTo(d, "failing")
  /\ UNCHANGED <<run, dispatch, message, tasks, github>>

\* The "completed" callback.  The route that loses the answer goes on to
\* report a failure.
CompleteAgentRun(d, status) ==
  /\ routes[d].step = "working"
  /\ IsActive
  /\ run' = [run EXCEPT !.status = status, !.report = d]
  /\ tasks' = IF status = "Tests passed" THEN [tasks EXCEPT ![d] = "verifying"] ELSE tasks
  /\ End(d, TRUE) \/ (GoTo(d, "failing") /\ UNCHANGED message)
  /\ UNCHANGED <<dispatch, github>>

\* The run is not active, or the report does not match it.
RefuseReport(d) ==
  /\ routes[d].step = "working"
  /\ FailRun
  /\ GoTo(d, "failing")
  /\ UNCHANGED <<dispatch, message, tasks, github>>

\* The "failed" callback; the handler cannot read a run that was deleted.
FailAgentRun(d) ==
  /\ routes[d].step = "failing"
  /\ FailRun
  /\ \E ok \in {FALSE, run.status # "Deleted"} : End(d, ok)
  /\ UNCHANGED <<dispatch, tasks, github>>

\* The platform stops the route, or its process dies.
RouteStops(d) ==
  /\ routes[d].step \in LiveStep
  /\ End(d, FALSE)
  /\ UNCHANGED <<run, dispatch, tasks, github>>

-----------------------------------------------------------------------------
(* The background task of a "completed" callback *)

TaskGoTo(d, step) == tasks' = [tasks EXCEPT ![d] = step]

\* The result is replayed in a second sandbox.
VerifyAgentRun(d) ==
  /\ tasks[d] = "verifying"
  /\ \/ TaskGoTo(d, "publishing") /\ github' = [github EXCEPT !.verified = @ \cup {d}] /\ UNCHANGED run
     \/ TaskGoTo(d, "failing") /\ UNCHANGED <<run, github>>
     \/ /\ IsActive
        /\ run' = [run EXCEPT !.status = "Failed", !.report = d]
        /\ TaskGoTo(d, "done") /\ UNCHANGED github
  /\ UNCHANGED <<dispatch, message, routes>>

\* publishAgentRun takes over the branch it finds.  It may fail before the
\* branch, between the branch and the pull request, or after both.
PublishAgentRun(d) ==
  /\ tasks[d] = "publishing"
  /\ \/ TaskGoTo(d, "failing") /\ UNCHANGED github
     \/ \E pull \in BOOLEAN :
          /\ github' = [github EXCEPT !.branch = IF @ = NoDelivery THEN d ELSE @, !.pull = @ \/ pull]
          /\ TaskGoTo(d, "failing") \/ (pull /\ TaskGoTo(d, "recording"))
  /\ UNCHANGED <<run, dispatch, message, routes>>

RecordPublication(d) ==
  /\ tasks[d] = "recording"
  /\ \/ /\ IsActive
        /\ run' = [run EXCEPT !.status = "Draft PR opened", !.report = d]
        /\ TaskGoTo(d, "done")
     \/ TaskGoTo(d, "failing") /\ UNCHANGED run
  /\ UNCHANGED <<dispatch, message, routes, github>>

FailTask(d) ==
  /\ tasks[d] = "failing"
  /\ FailRun
  /\ TaskGoTo(d, "done")
  /\ UNCHANGED <<dispatch, message, routes, github>>

TaskStops(d) ==
  /\ tasks[d] \in LiveTask
  /\ TaskGoTo(d, "done")
  /\ UNCHANGED <<run, dispatch, message, routes, github>>

-----------------------------------------------------------------------------
(* The administrator and the clock *)

CancelAgentRun ==
  /\ run.status \in {"Queued", "Running"}
  /\ run' = [run EXCEPT !.status = "Cancelled"]
  /\ UNCHANGED <<dispatch, message, routes, tasks, github>>

DeleteAgentRun ==
  /\ run.status \notin {"Queued", "Running", "Deleted"}
  /\ run' = [run EXCEPT !.status = "Deleted"]
  /\ UNCHANGED <<dispatch, message, routes, tasks, github>>

Less(n) == IF n = 0 THEN 0 ELSE n - 1

\* A minute passes.  The platform stops every route before its last minute is
\* over; nothing else has to happen in time.
Tick ==
  /\ \A d \in Deliveries : routes[d].step \in LiveStep => routes[d].left > 1
  /\ run' = [run EXCEPT !.started = IF @ < Lease THEN @ + 1 ELSE @]
  /\ message' = [message EXCEPT !.wait = Less(@)]
  /\ routes' = [d \in Deliveries |-> [routes[d] EXCEPT !.left = Less(@)]]
  /\ UNCHANGED <<dispatch, tasks, github>>

-----------------------------------------------------------------------------
(* Specification *)

RouteStepOf(d) ==
  \/ RefuseJob(d)
  \/ ClaimQueuedAgentRun(d)
  \/ AnswerUnclaimed(d)
  \/ MarkAgentRunRunning(d)
  \/ ExecutionFails(d)
  \/ \E status \in {"Tests passed", "Failed", "No changes"} : CompleteAgentRun(d, status)
  \/ RefuseReport(d)
  \/ FailAgentRun(d)
  \/ RouteStops(d)

TaskStepOf(d) ==
  \/ VerifyAgentRun(d)
  \/ PublishAgentRun(d)
  \/ RecordPublication(d)
  \/ FailTask(d)
  \/ TaskStops(d)

Next ==
  \/ DispatchAgentRun
  \/ FailDispatch
  \/ \E d \in Deliveries : Deliver(d) \/ DeliverDuplicate(d) \/ RouteStepOf(d) \/ TaskStepOf(d)
  \/ LoseConnection
  \/ CancelAgentRun
  \/ DeleteAgentRun
  \/ Tick

Spec == Init /\ [][Next]_vars

\* The clock runs, the queue delivers what is due, and the platform lets no
\* route run for ever.  No route, callback or task has to succeed.
Fairness ==
  /\ WF_vars(Tick)
  /\ WF_vars(\E d \in Deliveries : Deliver(d))
  /\ \A d \in Deliveries : WF_vars(RouteStepOf(d))

FairSpec == Spec /\ Fairness

-----------------------------------------------------------------------------
(* Properties *)

\* Redelivery never starts a second execution beside a first one that is still
\* working: the lease, the platform's limit on a route and the delays of the
\* queue add up, though the lease is never renewed and the worker may lose
\* sight of a route that goes on.  With Duplicates > 0 this is the claim of
\* workers/agent-executor/README.md that the endpoint "atomically claims the
\* queued run, and ignores duplicate delivery", which fails once the lease is over.
OneExecution == \A d, e \in Executing : d = e

\* The report a run keeps, from which the merge approval lists the changed
\* files and the evidence, is the report whose commits are on its branch.
RecordedReportIsPublished ==
  run.status = "Draft PR opened" =>
    github.pull /\ run.report = github.branch /\ run.report \in github.verified

\* The queue forgets the job only when the run has an outcome: it never
\* acknowledges a run that is still Queued or Running.
AckedRunIsReported == message.state = "acked" => run.status \notin {"Queued", "Running"}

\* A run keeps the first outcome it is given; late callbacks, tasks and
\* redeliveries never replace it.
FirstOutcomeStays ==
  [][run.status \in TerminalStatus => run'.status \in {run.status, "Deleted"}]_vars

\* However often a job is delivered and whichever callbacks come late, the run
\* goes the way of a coding run: a pull request is recorded only after its tests
\* passed, and a second route never takes a run back into its sandbox.
Life == INSTANCE CodingRun WITH RunIds <- {1}, status <- [r \in {1} |-> run.status]
ImplementsCodingRun == Life!Spec

\* A job in the queue gets its run an outcome, or ends in the dead letter
\* queue, where a route that died early leaves it: the redeliveries fall
\* inside the lease.
QueuedJobEnds ==
  message.state = "waiting" ~> run.status \notin {"Queued", "Running"} \/ message.state = "dead"
=============================================================================
