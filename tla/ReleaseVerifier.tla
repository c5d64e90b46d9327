--------------------------- MODULE ReleaseVerifier ---------------------------
(***************************************************************************)
(* One post-release verification job on its way through the scheduler that *)
(* dispatches it, the queue of workers/release-verifier, the executor that *)
(* verifies the deployment, and the callback that records the verdict.     *)
(* Source: src/src/lib/release-lifecycle-repository.ts (dispatch, claim,   *)
(* complete), src/src/app/api/internal/release-verifier/route.ts and       *)
(* release-verifications/[jobId]/route.ts, and                             *)
(* src/workers/release-verifier/src/index.ts.                              *)
(*                                                                         *)
(* started_at is renewed by every dispatch and every claim, so their       *)
(* number stands for it: a lease is over when 45 seconds have passed since *)
(* the last renewal.  A message waits at least 60 seconds before it is     *)
(* delivered again, so a renewal it was delayed after is over by then,     *)
(* unless a later one took its place.                                      *)
(***************************************************************************)
EXTENDS Naturals

CONSTANTS MaxDispatches, \* dispatches of the job, all but one of which may fail
          MaxAttempts,   \* attempt_count < 3 in claimPostReleaseVerificationExecution
          MaxDeliveries, \* 1 + max_retries of the queue in wrangler.jsonc
          Executors      \* concurrent calls of the executor route

ASSUME LimitAssumption == {MaxDispatches, MaxAttempts, MaxDeliveries} \subseteq Nat \ {0}

VARIABLES status,     \* of the job
          attempts,   \* attempt_count
          leased,     \* started_at lies less than 45 seconds back
          expired,    \* expires_at has passed
          recorded,   \* engineering_release_verifications written for the job
          dispatches, \* dispatches so far
          calls,      \* what became of each call to the worker
          messages,   \* the message each dispatch put in the queue
          executors,  \* what each call of the executor is doing
          crashed     \* a process died with the job in its hands, or a
                      \* delivery did not get as far as the claim

job  == <<status, attempts, leased, expired, recorded>>
vars == <<job, dispatches, calls, messages, executors, crashed>>

-----------------------------------------------------------------------------
(* Rows, messages and calls *)

Dispatches == 1..MaxDispatches
\* The message of a call that nobody waits for any more.
NoMessage  == 0
Open       == status \in {"Queued", "Running"}
Renewals   == dispatches + attempts

\* seen: the renewals before the delivery that failed.
Messages == [place : {"none", "ready", "delivered", "delayed", "acked", "dead"},
             deliveries : 0..MaxDeliveries, seen : Nat]
Message(place, deliveries, seen) ==
  [place |-> place, deliveries |-> deliveries, seen |-> seen]

\* message: the delivery that waits for the answer.
ExecutorStates ==
  [step : {"idle", "claimed", "verifying", "exhausted", "reported"},
   message : Dispatches \cup {NoMessage}]
Executor(step, d) == [step |-> step, message |-> d]
IdleExecutor == Executor("idle", NoMessage)

TypeOK ==
  /\ status \in {"Queued", "Running", "Passed", "Failed"}
  /\ attempts \in 0..MaxAttempts
  /\ leased \in BOOLEAN /\ expired \in BOOLEAN /\ crashed \in BOOLEAN
  /\ recorded \in Nat
  /\ dispatches \in 0..MaxDispatches
  /\ calls \in [Dispatches -> {"none", "sending", "ended"}]
  /\ messages \in [Dispatches -> Messages]
  /\ executors \in [Executors -> ExecutorStates]

Init ==
  /\ status = "Queued" /\ attempts = 0 /\ recorded = 0 /\ dispatches = 0
  /\ leased = FALSE /\ expired = FALSE /\ crashed = FALSE
  /\ calls = [d \in Dispatches |-> "none"]
  /\ messages = [d \in Dispatches |-> Message("none", 0, 0)]
  /\ executors = [x \in Executors |-> IdleExecutor]

-----------------------------------------------------------------------------
(* The scheduler dispatches *)

DispatchQueuedReleaseVerifications ==
  /\ status = "Queued" /\ dispatches < MaxDispatches
  /\ status' = "Running"
  /\ leased' = TRUE
  /\ dispatches' = dispatches + 1
  /\ calls' = [calls EXCEPT ![dispatches + 1] = "sending"]
  /\ UNCHANGED <<attempts, expired, recorded, messages, executors, crashed>>

\* The fetch handler of the worker puts the job reference in the queue.
QueueAccepts(d) ==
  /\ calls[d] = "sending" /\ messages[d].place = "none"
  /\ messages' = [messages EXCEPT ![d] = Message("ready", 0, 0)]
  /\ UNCHANGED <<job, dispatches, calls, executors, crashed>>

SendSucceeds(d) ==
  /\ calls[d] = "sending" /\ messages[d].place # "none"
  /\ calls' = [calls EXCEPT ![d] = "ended"]
  /\ UNCHANGED <<job, dispatches, messages, executors, crashed>>

\* Mutation: the job goes back to the queue even when it has its verdict.
RequeuedInAnyState == "Queued"
\* Only a job that is still running goes back to the queue.
Requeued == IF status = "Running" THEN "Queued" ELSE status

\* The call fails for the scheduler, whatever the queue did with it.
SendFails(d) ==
  /\ calls[d] = "sending" /\ dispatches < MaxDispatches
  /\ status' = Requeued
  /\ leased' = (leased /\ status # "Running")
  /\ calls' = [calls EXCEPT ![d] = "ended"]
  /\ UNCHANGED <<attempts, expired, recorded, dispatches, messages, executors, crashed>>

SchedulerDies(d) ==
  /\ calls[d] = "sending"
  /\ calls' = [calls EXCEPT ![d] = "ended"]
  /\ crashed' = TRUE
  /\ UNCHANGED <<job, dispatches, messages, executors>>

-----------------------------------------------------------------------------
(* The queue delivers, the executor claims *)

\* Mutation: the attempts are not counted.
ClaimableAgain == status = "Running" /\ ~expired /\ (attempts = 0 \/ ~leased)
Claimable == status = "Running" /\ ~expired /\ attempts < MaxAttempts /\ (attempts = 0 \/ ~leased)

\* Mutation: a job is exhausted only after one claim more than it can have.
ExhaustedAfterMore == Open /\ (attempts > MaxAttempts \/ expired)
Exhausted == Open /\ (attempts >= MaxAttempts \/ expired)

\* The worker retries a delivery that fails until the queue gives it up.
RetryLater(d) ==
  Message(IF messages[d].deliveries < MaxDeliveries THEN "delayed" ELSE "dead",
          messages[d].deliveries, Renewals)
Acknowledged(d) == Message("acked", messages[d].deliveries, 0)

\* Mutation: the delay of the queue is shorter than the lease.
DelayEndsEarly(d) ==
  /\ messages[d].place = "delayed"
  /\ messages' = [messages EXCEPT ![d] = Message("ready", @.deliveries, 0)]
  /\ UNCHANGED <<job, dispatches, calls, executors, crashed>>

DelayEnds(d) ==
  /\ messages[d].place = "delayed" /\ (leased => messages[d].seen # Renewals)
  /\ messages' = [messages EXCEPT ![d] = Message("ready", @.deliveries, 0)]
  /\ UNCHANGED <<job, dispatches, calls, executors, crashed>>

Deliver(d) ==
  /\ messages[d].place = "ready" /\ messages[d].deliveries < MaxDeliveries
  /\ messages' = [messages EXCEPT ![d] = Message("delivered", @.deliveries + 1, 0)]
  /\ UNCHANGED <<job, dispatches, calls, executors, crashed>>

\* No executor works for the delivery yet.
Undecided(d) == messages[d].place = "delivered" /\ \A x \in Executors : executors[x].message # d

ClaimPostReleaseVerificationExecution(x, d) ==
  /\ executors[x] = IdleExecutor /\ Undecided(d) /\ Claimable
  /\ attempts' = attempts + 1
  /\ leased' = TRUE
  /\ executors' = [executors EXCEPT ![x] = Executor("claimed", d)]
  /\ UNCHANGED <<status, expired, recorded, dispatches, calls, messages, crashed>>

ClaimExhausted(x, d) ==
  /\ executors[x] = IdleExecutor /\ Undecided(d) /\ Exhausted /\ ~Claimable
  /\ executors' = [executors EXCEPT ![x] = Executor("exhausted", d)]
  /\ UNCHANGED <<job, dispatches, calls, messages, crashed>>

\* Another execution is active (503), or the job has its verdict (200).
ClaimRefused(d) ==
  /\ Undecided(d) /\ ~Claimable /\ ~Exhausted
  /\ messages' = [messages EXCEPT ![d] = IF Open THEN RetryLater(d) ELSE Acknowledged(d)]
  /\ UNCHANGED <<job, dispatches, calls, executors, crashed>>

\* The call does not reach the executor, or fails before it claims.
DeliveryIsLost(d) ==
  /\ Undecided(d)
  /\ messages' = [messages EXCEPT ![d] = RetryLater(d)]
  /\ crashed' = TRUE
  /\ UNCHANGED <<job, dispatches, calls, executors>>

LeaseEnds ==
  /\ leased
  /\ leased' = FALSE
  /\ UNCHANGED <<status, attempts, expired, recorded, dispatches, calls, messages, executors, crashed>>

JobExpires ==
  /\ ~expired
  /\ expired' = TRUE
  /\ UNCHANGED <<status, attempts, leased, recorded, dispatches, calls, messages, executors, crashed>>

-----------------------------------------------------------------------------
(* The executor verifies and reports *)

GetReleaseVerifierJob(x) ==
  /\ executors[x].step = "claimed" /\ status = "Running"
  /\ executors' = [executors EXCEPT ![x] = Executor("verifying", @.message)]
  /\ UNCHANGED <<job, dispatches, calls, messages, crashed>>

\* Only an open job gets a verdict, and its evidence with it.
RecordVerdict(v) ==
  \/ Open /\ status' = v /\ recorded' = recorded + 1
  \/ ~Open /\ UNCHANGED <<status, recorded>>

\* The callback, or the executor for a job that is exhausted.
CompletePostReleaseVerification(x, v) ==
  /\ \/ executors[x].step = "verifying"
     \/ executors[x].step = "exhausted" /\ v = "Failed"
  /\ RecordVerdict(v)
  /\ executors' = [executors EXCEPT ![x] = Executor("reported", @.message)]
  /\ UNCHANGED <<attempts, leased, expired, dispatches, calls, messages, crashed>>

Answer(x, message) ==
  LET d == executors[x].message IN
    /\ executors' = [executors EXCEPT ![x] = IdleExecutor]
    /\ messages' = IF d = NoMessage THEN messages ELSE [messages EXCEPT ![d] = message]
    /\ UNCHANGED <<job, dispatches, calls>>

Respond(x) ==
  /\ executors[x].step = "reported"
  /\ Answer(x, Acknowledged(executors[x].message))
  /\ UNCHANGED crashed

\* The job is not runnable, the verification throws, the callback is refused
\* or its answer is lost.
ExecutionFails(x) ==
  /\ executors[x].step \in {"claimed", "verifying", "reported"}
  /\ Answer(x, RetryLater(executors[x].message))
  /\ UNCHANGED crashed

ExecutorDies(x) ==
  /\ executors[x].step = "exhausted"
  /\ Answer(x, RetryLater(executors[x].message))
  /\ crashed' = TRUE

\* The worker gives up waiting; the execution goes on without it.
WorkerTimesOut(x) ==
  LET d == executors[x].message IN
    /\ executors[x].step # "idle" /\ d # NoMessage
    /\ messages' = [messages EXCEPT ![d] = RetryLater(d)]
    /\ executors' = [executors EXCEPT ![x] = Executor(@.step, NoMessage)]
    /\ UNCHANGED <<job, dispatches, calls, crashed>>

-----------------------------------------------------------------------------
(* Specification *)

DispatchStep(d) ==
  \/ QueueAccepts(d)
  \/ SendSucceeds(d)
  \/ SendFails(d)
  \/ SchedulerDies(d)
  \/ DelayEnds(d)
  \/ Deliver(d)
  \/ ClaimRefused(d)
  \/ DeliveryIsLost(d)

ExecutorStep(x) ==
  \/ \E d \in Dispatches :
       ClaimPostReleaseVerificationExecution(x, d) \/ ClaimExhausted(x, d)
  \/ GetReleaseVerifierJob(x)
  \/ \E v \in {"Passed", "Failed"} : CompletePostReleaseVerification(x, v)
  \/ Respond(x)
  \/ ExecutionFails(x)
  \/ ExecutorDies(x)
  \/ WorkerTimesOut(x)

Next ==
  \/ DispatchQueuedReleaseVerifications
  \/ \E d \in Dispatches : DispatchStep(d)
  \/ \E x \in Executors : ExecutorStep(x)
  \/ LeaseEnds
  \/ JobExpires

Spec == Init /\ [][Next]_vars

\* The scheduler runs every minute, the queue delivers what is due, each call
\* ends one way or another and time passes.
Fairness ==
  /\ WF_vars(DispatchQueuedReleaseVerifications)
  /\ WF_vars(LeaseEnds)
  /\ \A d \in Dispatches : WF_vars(DispatchStep(d))
  /\ \A x \in Executors : WF_vars(ExecutorStep(x))

FairSpec == Spec /\ Fairness

-----------------------------------------------------------------------------
(* Properties *)

\* However often the job is sent, delivered, executed and reported, and
\* whatever fails in between, it gets one verdict with one row of evidence, no
\* more executions than it may have, and no pass without one.
Promise == INSTANCE VerificationJob WITH
  MaxAttempts <- MaxAttempts,
  verdict     <- IF Open THEN "open" ELSE status,
  attempts    <- attempts,
  rows        <- recorded
ImplementsVerificationJob == Promise!Spec

\* The queue tries a delivery again more often than the job may be executed.
Patient == MaxAttempts < MaxDeliveries

\* Somebody will go on with the job: the next dispatch, the call that sends
\* its last message, the queue that still has that message, or an executor
\* that is about to give the job up.
InHand ==
  \/ status = "Queued" /\ dispatches < MaxDispatches
  \/ dispatches > 0 /\ \/ calls[dispatches] = "sending"
                        \/ messages[dispatches].place \in {"ready", "delivered", "delayed"}
  \/ \E x \in Executors : executors[x].step = "exhausted"

\* No undecided job is left to nobody, which nothing in the code would notice:
\* the worker retries a refused or failed delivery only after the lease that
\* refused it, so a message that reaches the dead letter queue has seen as
\* many executions as it had deliveries, and the last of those is exhausted.
OpenJobIsInHand == Open /\ ~crashed => InHand

\* A job is not left hanging: unless a process dies at the wrong moment or a
\* delivery does not get to the claim it is decided, because the queue gives
\* a message up only after the job has had all its attempts.
JobIsDecided == <>(~Open \/ crashed)
=============================================================================
