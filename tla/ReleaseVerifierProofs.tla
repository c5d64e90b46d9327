------------------------ MODULE ReleaseVerifierProofs ------------------------
(***************************************************************************)
(* Proofs about ReleaseVerifier, for any numbers of dispatches, attempts,  *)
(* deliveries and executors: its types, and that the job keeps what        *)
(* VerificationJob promises of it.                                         *)
(***************************************************************************)
EXTENDS ReleaseVerifier, TLAPS

-----------------------------------------------------------------------------
(* Rows *)

LEMMA LimitFacts ==
  /\ MaxDispatches \in Nat /\ MaxAttempts \in Nat \ {0} /\ MaxDeliveries \in Nat
  /\ Dispatches \subseteq Nat \ {0} /\ NoMessage \notin Dispatches
BY LimitAssumption DEF Dispatches, NoMessage

Places == {"none", "ready", "delivered", "delayed", "acked", "dead"}

LEMMA MessageWritten ==
  ASSUME NEW place \in Places, NEW deliveries \in 0..MaxDeliveries, NEW seen \in Nat
  PROVE  Message(place, deliveries, seen) \in Messages
BY DEF Message, Messages, Places

LEMMA ExecutorWritten ==
  ASSUME NEW d \in Dispatches \cup {NoMessage},
         NEW step \in {"idle", "claimed", "verifying", "exhausted", "reported"}
  PROVE  Executor(step, d) \in ExecutorStates /\ Executor(step, d).step = step
BY DEF Executor, ExecutorStates

LEMMA IdleWritten == IdleExecutor \in ExecutorStates /\ IdleExecutor.step = "idle"
BY ExecutorWritten DEF IdleExecutor

LEMMA Columns ==
  ASSUME TypeOK
  PROVE  /\ Renewals \in Nat
         /\ \A d \in Dispatches : messages[d] \in Messages /\ messages[d].deliveries \in 0..MaxDeliveries
         /\ \A x \in Executors : /\ executors[x] \in ExecutorStates
                                 /\ executors[x].message \in Dispatches \cup {NoMessage}
                                 /\ executors[x].step \in {"idle", "claimed", "verifying", "exhausted", "reported"}
<1>1. Renewals \in Nat
  BY LimitFacts DEF TypeOK, Renewals
<1>2. \A d \in Dispatches : messages[d] \in Messages /\ messages[d].deliveries \in 0..MaxDeliveries
  BY DEF TypeOK, Messages
<1>3. \A x \in Executors : /\ executors[x] \in ExecutorStates
                           /\ executors[x].message \in Dispatches \cup {NoMessage}
                           /\ executors[x].step \in {"idle", "claimed", "verifying", "exhausted", "reported"}
  BY DEF TypeOK, ExecutorStates
<1>4. QED
  BY <1>1, <1>2, <1>3

\* What becomes of a delivery.
LEMMA Delivered ==
  ASSUME TypeOK, NEW d \in Dispatches
  PROVE  RetryLater(d) \in Messages /\ Acknowledged(d) \in Messages
BY Columns, MessageWritten DEF RetryLater, Acknowledged, Places

LEMMA Answered ==
  ASSUME TypeOK, NEW x \in Executors, NEW message, Answer(x, message),
         \A d \in Dispatches : d = executors[x].message => message \in Messages
  PROVE  /\ messages' \in [Dispatches -> Messages]
         /\ executors' \in [Executors -> ExecutorStates]
         /\ executors' = [executors EXCEPT ![x] = IdleExecutor]
         /\ UNCHANGED <<job, dispatches, calls>>
BY Columns, IdleWritten DEF TypeOK, Answer

-----------------------------------------------------------------------------
(* Types *)

LEMMA InitTypes == Init => TypeOK
<1>1. Message("none", 0, 0) \in Messages
  <2>1. 0 \in 0..MaxDeliveries /\ 0 \in Nat
    BY LimitFacts
  <2>2. QED
    BY <2>1, MessageWritten DEF Places
<1>2. 0 \in 0..MaxAttempts /\ 0 \in 0..MaxDispatches
  BY LimitFacts
<1>3. ASSUME Init PROVE TypeOK
  <2>1. /\ calls \in [Dispatches -> {"none", "sending", "ended"}]
        /\ messages \in [Dispatches -> Messages]
        /\ executors \in [Executors -> ExecutorStates]
    BY <1>1, <1>3, IdleWritten DEF Init
  <2>2. leased \in BOOLEAN /\ expired \in BOOLEAN /\ crashed \in BOOLEAN
    BY <1>3 DEF Init
  <2>3. /\ status \in {"Queued", "Running", "Passed", "Failed"}
        /\ attempts \in 0..MaxAttempts /\ recorded \in Nat /\ dispatches \in 0..MaxDispatches
    BY <1>2, <1>3 DEF Init
  <2>4. QED
    BY <2>1, <2>2, <2>3 DEF TypeOK
<1>4. QED
  BY <1>3

LEMMA DispatchTypes ==
  ASSUME TypeOK, DispatchQueuedReleaseVerifications
  PROVE  TypeOK'
<1>1. dispatches' \in 0..MaxDispatches
  BY LimitFacts DEF TypeOK, DispatchQueuedReleaseVerifications
<1>2. calls' \in [Dispatches -> {"none", "sending", "ended"}]
  BY DEF TypeOK, DispatchQueuedReleaseVerifications
<1>3. leased' \in BOOLEAN /\ expired' \in BOOLEAN /\ crashed' \in BOOLEAN
  BY DEF TypeOK, DispatchQueuedReleaseVerifications
<1>4. QED
  BY <1>1, <1>2, <1>3 DEF TypeOK, DispatchQueuedReleaseVerifications

LEMMA DispatchStepTypes ==
  ASSUME TypeOK, NEW d \in Dispatches, DispatchStep(d)
  PROVE  TypeOK'
<1>1. CASE QueueAccepts(d)
  BY <1>1, LimitFacts, MessageWritten DEF TypeOK, QueueAccepts, job, Places
<1>2. CASE SendSucceeds(d)
  BY <1>2 DEF TypeOK, SendSucceeds, job
<1>3. CASE SendFails(d)
  BY <1>3 DEF TypeOK, SendFails, Requeued
<1>4. CASE SchedulerDies(d)
  BY <1>4 DEF TypeOK, SchedulerDies, job
<1>5. CASE DelayEnds(d)
  <2>1. Message("ready", messages[d].deliveries, 0) \in Messages
    BY Columns, MessageWritten DEF Places
  <2>2. QED
    BY <1>5, <2>1 DEF TypeOK, DelayEnds, job
<1>6. CASE Deliver(d)
  <2>1. messages[d].deliveries + 1 \in 0..MaxDeliveries
    BY <1>6, Columns, LimitFacts DEF Deliver
  <2>2. Message("delivered", messages[d].deliveries + 1, 0) \in Messages
    BY <2>1, MessageWritten DEF Places
  <2>3. QED
    BY <1>6, <2>2 DEF TypeOK, Deliver, job
<1>7. CASE ClaimRefused(d)
  BY <1>7, Delivered DEF TypeOK, ClaimRefused, job
<1>8. CASE DeliveryIsLost(d)
  BY <1>8, Delivered DEF TypeOK, DeliveryIsLost, job
<1>9. QED
  BY <1>1, <1>2, <1>3, <1>4, <1>5, <1>6, <1>7, <1>8 DEF DispatchStep

LEMMA ExecutorStepTypes ==
  ASSUME TypeOK, NEW x \in Executors, ExecutorStep(x)
  PROVE  TypeOK'
<1>1. ASSUME NEW d \in Dispatches, ClaimPostReleaseVerificationExecution(x, d)
      PROVE  TypeOK'
  <2>1. attempts' \in 0..MaxAttempts
    BY <1>1, LimitFacts DEF TypeOK, ClaimPostReleaseVerificationExecution, Claimable
  <2>2. Executor("claimed", d) \in ExecutorStates
    BY ExecutorWritten
  <2>3. QED
    BY <1>1, <2>1, <2>2 DEF TypeOK, ClaimPostReleaseVerificationExecution
<1>2. ASSUME NEW d \in Dispatches, ClaimExhausted(x, d)
      PROVE  TypeOK'
  BY <1>2, ExecutorWritten DEF TypeOK, ClaimExhausted, job
<1>3. CASE GetReleaseVerifierJob(x)
  <2>1. Executor("verifying", executors[x].message) \in ExecutorStates
    BY Columns, ExecutorWritten
  <2>2. QED
    BY <1>3, <2>1 DEF TypeOK, GetReleaseVerifierJob, job
<1>4. ASSUME NEW v \in {"Passed", "Failed"}, CompletePostReleaseVerification(x, v)
      PROVE  TypeOK'
  <2>1. Executor("reported", executors[x].message) \in ExecutorStates
    BY Columns, ExecutorWritten
  <2>2. status' \in {"Queued", "Running", "Passed", "Failed"} /\ recorded' \in Nat
    BY <1>4 DEF TypeOK, CompletePostReleaseVerification, RecordVerdict
  <2>3. QED
    BY <1>4, <2>1, <2>2 DEF TypeOK, CompletePostReleaseVerification
<1>5. CASE Respond(x)
  BY <1>5, Answered, Delivered DEF TypeOK, Respond, job
<1>6. CASE ExecutionFails(x)
  BY <1>6, Answered, Delivered DEF TypeOK, ExecutionFails, job
<1>7. CASE ExecutorDies(x)
  BY <1>7, Answered, Delivered DEF TypeOK, ExecutorDies, job
<1>8. CASE WorkerTimesOut(x)
  <2>1. RetryLater(executors[x].message) \in Messages
    BY <1>8, Columns, Delivered DEF WorkerTimesOut
  <2>2. Executor(executors[x].step, NoMessage) \in ExecutorStates
    BY Columns, ExecutorWritten
  <2>3. QED
    BY <1>8, <2>1, <2>2 DEF TypeOK, WorkerTimesOut, job
<1>9. QED
  BY <1>1, <1>2, <1>3, <1>4, <1>5, <1>6, <1>7, <1>8 DEF ExecutorStep

LEMMA Types == TypeOK /\ [Next]_vars => TypeOK'
<1> SUFFICES ASSUME TypeOK, [Next]_vars PROVE TypeOK'
  OBVIOUS
<1>1. CASE LeaseEnds \/ JobExpires
  BY <1>1 DEF TypeOK, LeaseEnds, JobExpires
<1>2. CASE UNCHANGED vars
  BY <1>2 DEF TypeOK, vars, job
<1>3. QED
  BY <1>1, <1>2, DispatchTypes, DispatchStepTypes, ExecutorStepTypes DEF Next

\* Every row and every call stays within its type; the attempts and the
\* deliveries within their limits.
THEOREM TypeCorrect == Spec => []TypeOK
BY InitTypes, Types, PTL DEF Spec

-----------------------------------------------------------------------------
(* The promise *)

\* Only a job that was claimed is verified, and its row of evidence is written
\* with its verdict.
VerdictInv ==
  /\ TypeOK
  /\ \A x \in Executors : executors[x].step = "verifying" => attempts > 0
  /\ recorded = IF Open THEN 0 ELSE 1

\* The executors that claimed the job find that it has attempts.
ClaimInv == \A x \in Executors : executors[x].step = "claimed" => attempts > 0

IInv == VerdictInv /\ ClaimInv

\* Nothing happens to what the promise is about.
Keeps == Open' = Open /\ (~Open => status' = status) /\ attempts' = attempts /\ recorded' = recorded

\* No executor starts to work.
NobodyStarts ==
  \A x \in Executors : executors'[x].step \in {"claimed", "verifying"} =>
    executors[x].step \in {"claimed", "verifying"}

LEMMA KeepsInvariant ==
  ASSUME IInv, TypeOK', Keeps, NobodyStarts
  PROVE  IInv'
BY DEF IInv, VerdictInv, ClaimInv, Keeps, NobodyStarts

LEMMA DispatchKeeps ==
  ASSUME IInv, DispatchQueuedReleaseVerifications \/ \E d \in Dispatches : DispatchStep(d)
  PROVE  Keeps /\ NobodyStarts
<1>1. CASE DispatchQueuedReleaseVerifications
  BY <1>1 DEF DispatchQueuedReleaseVerifications, Keeps, NobodyStarts, Open
<1>2. ASSUME NEW d \in Dispatches, SendFails(d)
      PROVE  Keeps /\ NobodyStarts
  BY <1>2 DEF SendFails, Requeued, Keeps, NobodyStarts, Open
<1>3. ASSUME NEW d \in Dispatches, DispatchStep(d), ~SendFails(d)
      PROVE  UNCHANGED <<job, executors>>
  BY <1>3 DEF DispatchStep, QueueAccepts, SendSucceeds, SchedulerDies, DelayEnds, Deliver, ClaimRefused,
     DeliveryIsLost
<1>4. UNCHANGED <<job, executors>> => Keeps /\ NobodyStarts
  BY DEF job, Keeps, NobodyStarts, Open
<1>5. QED
  BY <1>1, <1>2, <1>3, <1>4

\* The steps of an executor that decide nothing and start nothing.
LEMMA ExecutorKeeps ==
  ASSUME IInv, NEW x \in Executors,
         \/ \E d \in Dispatches : ClaimExhausted(x, d)
         \/ GetReleaseVerifierJob(x) \/ Respond(x) \/ ExecutionFails(x)
         \/ ExecutorDies(x) \/ WorkerTimesOut(x)
  PROVE  Keeps /\ NobodyStarts
<1>0. TypeOK
  BY DEF IInv, VerdictInv
<1>1. UNCHANGED job
  BY DEF ClaimExhausted, GetReleaseVerifierJob, Respond, ExecutionFails, ExecutorDies, WorkerTimesOut, Answer
<1>2. \A y \in Executors \ {x} : executors'[y] = executors[y]
  BY <1>0 DEF TypeOK, ClaimExhausted, GetReleaseVerifierJob, Respond, ExecutionFails, ExecutorDies,
              WorkerTimesOut, Answer
<1>3. CASE \E d \in Dispatches : ClaimExhausted(x, d)
  <2>1. executors'[x].step = "exhausted"
    BY <1>0, <1>3, ExecutorWritten DEF TypeOK, ClaimExhausted
  <2>2. QED
    BY <1>1, <1>2, <2>1 DEF job, Keeps, NobodyStarts, Open
<1>4. CASE GetReleaseVerifierJob(x)
  BY <1>1, <1>2, <1>4 DEF GetReleaseVerifierJob, job, Keeps, NobodyStarts, Open
<1>5. CASE Respond(x) \/ ExecutionFails(x) \/ ExecutorDies(x)
  <2>1. executors'[x].step = "idle"
    BY <1>0, <1>5, IdleWritten DEF TypeOK, Respond, ExecutionFails, ExecutorDies, Answer
  <2>2. QED
    BY <1>1, <1>2, <2>1 DEF job, Keeps, NobodyStarts, Open
<1>6. CASE WorkerTimesOut(x)
  <2>1. executors'[x].step = executors[x].step
    BY <1>0, <1>6 DEF TypeOK, WorkerTimesOut, Executor
  <2>2. QED
    BY <1>1, <1>2, <2>1 DEF job, Keeps, NobodyStarts, Open
<1>7. QED
  BY <1>3, <1>4, <1>5, <1>6

LEMMA ClaimsOnce ==
  ASSUME IInv, TypeOK', NEW x \in Executors, NEW d \in Dispatches,
         ClaimPostReleaseVerificationExecution(x, d)
  PROVE  /\ IInv'
         /\ Open /\ Open' /\ attempts < MaxAttempts /\ attempts' = attempts + 1 /\ recorded' = recorded
<1>1. Open /\ Open' /\ attempts < MaxAttempts /\ attempts' = attempts + 1 /\ recorded' = recorded
  BY DEF ClaimPostReleaseVerificationExecution, Claimable, Open
<1>2. attempts' > 0
  BY <1>1, LimitFacts DEF IInv, VerdictInv, TypeOK
<1>3. QED
  BY <1>1, <1>2 DEF IInv, VerdictInv, ClaimInv

LEMMA DecidesOnce ==
  ASSUME IInv, TypeOK', NEW x \in Executors, NEW v \in {"Passed", "Failed"},
         CompletePostReleaseVerification(x, v)
  PROVE  /\ IInv'
         /\ \/ Keeps
            \/ /\ Open /\ ~Open' /\ status' = v /\ recorded = 0 /\ recorded' = 1 /\ attempts' = attempts
               /\ v = "Passed" => attempts > 0
<1>0. TypeOK
  BY DEF IInv, VerdictInv
<1>1. executors'[x].step = "reported" /\ \A y \in Executors \ {x} : executors'[y] = executors[y]
  BY <1>0, Columns, ExecutorWritten DEF TypeOK, CompletePostReleaseVerification
<1>2. NobodyStarts
  BY <1>1 DEF NobodyStarts
<1>3. CASE ~Open
  <2>1. Keeps
    BY <1>3 DEF CompletePostReleaseVerification, RecordVerdict, Keeps, Open
  <2>2. QED
    BY <1>2, <2>1, KeepsInvariant
<1>4. CASE Open
  <2>1. Open /\ ~Open' /\ status' = v /\ recorded = 0 /\ recorded' = 1 /\ attempts' = attempts
    BY <1>4 DEF CompletePostReleaseVerification, RecordVerdict, Open, IInv, VerdictInv
  <2>2. v = "Passed" => attempts > 0
    BY DEF CompletePostReleaseVerification, IInv, VerdictInv
  <2>3. IInv'
    BY <1>2, <2>1 DEF NobodyStarts, IInv, VerdictInv, ClaimInv
  <2>4. QED
    BY <2>1, <2>2, <2>3
<1>5. QED
  BY <1>3, <1>4

\* What a step does to the job: nothing, one more attempt, or the verdict.
LEMMA Steps ==
  ASSUME IInv, [Next]_vars
  PROVE  /\ IInv'
         /\ \/ Keeps
            \/ Open /\ Open' /\ attempts < MaxAttempts /\ attempts' = attempts + 1 /\ recorded' = recorded
            \/ \E v \in {"Passed", "Failed"} :
                 /\ Open /\ ~Open' /\ status' = v /\ recorded = 0 /\ recorded' = 1 /\ attempts' = attempts
                 /\ v = "Passed" => attempts > 0
<1>1. TypeOK'
  BY Types DEF IInv, VerdictInv
<1>2. CASE DispatchQueuedReleaseVerifications \/ \E d \in Dispatches : DispatchStep(d)
  BY <1>1, <1>2, DispatchKeeps, KeepsInvariant
<1>3. ASSUME NEW x \in Executors, NEW d \in Dispatches, ClaimPostReleaseVerificationExecution(x, d)
      PROVE  /\ IInv'
             /\ Open /\ Open' /\ attempts < MaxAttempts /\ attempts' = attempts + 1 /\ recorded' = recorded
  BY <1>1, <1>3, ClaimsOnce
<1>4. ASSUME NEW x \in Executors, NEW v \in {"Passed", "Failed"}, CompletePostReleaseVerification(x, v)
      PROVE  /\ IInv'
             /\ \/ Keeps
                \/ /\ Open /\ ~Open' /\ status' = v /\ recorded = 0 /\ recorded' = 1 /\ attempts' = attempts
                   /\ v = "Passed" => attempts > 0
  BY <1>1, <1>4, DecidesOnce
<1>5. ASSUME NEW x \in Executors,
             \/ \E d \in Dispatches : ClaimExhausted(x, d)
             \/ GetReleaseVerifierJob(x) \/ Respond(x) \/ ExecutionFails(x)
             \/ ExecutorDies(x) \/ WorkerTimesOut(x)
      PROVE  IInv' /\ Keeps
  BY <1>1, <1>5, ExecutorKeeps, KeepsInvariant
<1>6. CASE LeaseEnds \/ JobExpires \/ UNCHANGED vars
  <2>1. Keeps /\ NobodyStarts
    BY <1>6 DEF LeaseEnds, JobExpires, vars, job, Keeps, NobodyStarts, Open
  <2>2. QED
    BY <1>1, <2>1, KeepsInvariant
<1>7. QED
  BY <1>2, <1>3, <1>4, <1>5, <1>6 DEF Next, ExecutorStep

LEMMA InitInv == Init => IInv
BY InitTypes, IdleWritten DEF Init, IInv, VerdictInv, ClaimInv, Open

LEMMA Invariance == Spec => []IInv
<1>1. IInv /\ [Next]_vars => IInv'
  BY Steps
<1>2. QED
  BY <1>1, InitInv, PTL DEF Spec

LEMMA JobStep ==
  ASSUME IInv, [Next]_vars
  PROVE  [Promise!Next]_<<IF Open THEN "open" ELSE status, attempts, recorded>>
<1>1. CASE Keeps
  BY <1>1 DEF Keeps
<1>2. CASE Open /\ Open' /\ attempts < MaxAttempts /\ attempts' = attempts + 1 /\ recorded' = recorded
  BY <1>2 DEF Promise!Next, Promise!Execute
<1>3. ASSUME NEW v \in {"Passed", "Failed"},
             Open /\ ~Open' /\ status' = v /\ recorded = 0 /\ recorded' = 1 /\ attempts' = attempts,
             v = "Passed" => attempts > 0
      PROVE  Promise!Decide(v)
  BY <1>3 DEF Promise!Decide
<1>4. QED
  BY <1>1, <1>2, <1>3, Steps DEF Promise!Next

\* However often it is sent, delivered, executed and reported, a job gets one
\* verdict with one row of evidence, within its attempts.
THEOREM ReleaseVerifierImplementsVerificationJob == Spec => ImplementsVerificationJob
<1>1. Init => Promise!Init
  BY DEF Init, Promise!Init, Open
<1>2. IInv /\ [Next]_vars => [Promise!Next]_<<IF Open THEN "open" ELSE status, attempts, recorded>>
  BY JobStep
<1>3. QED
  BY <1>1, <1>2, Invariance, PTL DEF Spec, ImplementsVerificationJob, Promise!Spec
-----------------------------------------------------------------------------
(* The job stays in somebody's hands *)

\* Nothing is known of dispatches to come.
Unsent == \A d \in Dispatches : d > dispatches => messages[d].place = "none" /\ calls[d] = "none"

\* A delivery has one executor at most, and waits as long as it has one.
Held ==
  \A x \in Executors : executors[x].message # NoMessage =>
    /\ messages[executors[x].message].place = "delivered"
    /\ \A y \in Executors \ {x} : executors[y].message # executors[x].message

\* What was reported is decided, and what went back can be dispatched again.
Reported == \A x \in Executors : executors[x].step = "reported" => ~Open
Resendable == status = "Queued" => dispatches < MaxDispatches

Exhausting == \E x \in Executors : executors[x].step = "exhausted"

\* Every delivery of the last message that came to nothing stands for an
\* execution: one of its own, or one whose lease it met and that began after
\* the delivery before it.
Counted(d) ==
  /\ messages[d].place = "none" => calls[d] = "sending"
  /\ messages[d].place # "acked"
  /\ messages[d].place = "ready" =>
       /\ messages[d].deliveries <= attempts
       /\ leased /\ attempts > 0 => messages[d].deliveries < attempts
  /\ messages[d].place = "delivered" =>
       /\ messages[d].deliveries <= attempts + 1
       /\ leased /\ attempts > 0 => messages[d].deliveries <= attempts
  /\ \A x \in Executors :
       executors[x].message = d /\ executors[x].step \in {"claimed", "verifying"} =>
         messages[d].deliveries <= attempts
  /\ messages[d].place \in {"delayed", "dead"} =>
       d + messages[d].deliveries <= messages[d].seen /\ messages[d].seen <= Renewals
  /\ messages[d].place = "dead" => messages[d].deliveries >= MaxDeliveries

Covered ==
  ~crashed /\ status = "Running" => dispatches > 0 /\ (Exhausting \/ Counted(dispatches))

HandInv == TypeOK /\ Unsent /\ Held /\ Reported /\ Resendable /\ Covered

\* Where a failed or a finished delivery leaves its message.
LEMMA Put ==
  ASSUME TypeOK, NEW d \in Dispatches
  PROVE  /\ RetryLater(d).place \in {"delayed", "dead"}
         /\ RetryLater(d).place = "dead" => messages[d].deliveries >= MaxDeliveries
         /\ RetryLater(d).deliveries = messages[d].deliveries /\ RetryLater(d).seen = Renewals
         /\ Acknowledged(d).place = "acked"
<1>1. messages[d].deliveries \in 0..MaxDeliveries
  BY Columns
<1>2. QED
  BY <1>1, LimitFacts DEF RetryLater, Acknowledged, Message

\* What an executor does with the message it holds.
LEMMA Answering ==
  ASSUME TypeOK, NEW x \in Executors, NEW message, Answer(x, message)
  PROVE  /\ executors' = [executors EXCEPT ![x] = IdleExecutor]
         /\ executors'[x].message = NoMessage /\ executors'[x].step = "idle"
         /\ \A y \in Executors \ {x} : executors'[y] = executors[y]
         /\ \A d \in Dispatches :
              messages'[d] = IF d = executors[x].message THEN message ELSE messages[d]
         /\ UNCHANGED <<job, dispatches, calls>>
<1>1. executors'[x] = IdleExecutor /\ \A y \in Executors \ {x} : executors'[y] = executors[y]
  BY DEF TypeOK, Answer
<1>2. IdleExecutor.message = NoMessage /\ IdleExecutor.step = "idle"
  BY DEF IdleExecutor, Executor
<1>3. \A d \in Dispatches : messages'[d] = IF d = executors[x].message THEN message ELSE messages[d]
  BY Columns, LimitFacts DEF TypeOK, Answer
<1>4. QED
  BY <1>1, <1>2, <1>3 DEF Answer

\* A message that was not sent stays so.
LEMMA UnsentStays ==
  ASSUME HandInv, [Next]_vars
  PROVE  Unsent'
<1>0. TypeOK /\ dispatches \in Nat /\ Dispatches \subseteq Nat
  BY LimitFacts DEF HandInv, TypeOK
<1>1. CASE DispatchQueuedReleaseVerifications
  BY <1>0, <1>1 DEF DispatchQueuedReleaseVerifications, HandInv, Unsent, TypeOK
<1>2. ASSUME NEW d \in Dispatches, DispatchStep(d)
      PROVE  Unsent'
  <2>1. dispatches' = dispatches
    BY <1>2 DEF DispatchStep, QueueAccepts, SendSucceeds, SendFails, SchedulerDies, DelayEnds, Deliver,
       ClaimRefused, DeliveryIsLost
  <2>2. calls[d] # "none" \/ messages[d].place # "none"
    BY <1>2 DEF DispatchStep, QueueAccepts, SendSucceeds, SendFails, SchedulerDies, DelayEnds, Deliver,
       ClaimRefused, DeliveryIsLost, Undecided
  <2>3. ~(d > dispatches)
    BY <2>2 DEF HandInv, Unsent
  <2>4. \A e \in Dispatches \ {d} : messages'[e] = messages[e] /\ calls'[e] = calls[e]
    BY <1>0, <1>2 DEF DispatchStep, QueueAccepts, SendSucceeds, SendFails, SchedulerDies, DelayEnds, Deliver,
       ClaimRefused, DeliveryIsLost, TypeOK
  <2>5. QED
    BY <2>1, <2>3, <2>4 DEF HandInv, Unsent
<1>3. ASSUME NEW x \in Executors, ExecutorStep(x)
      PROVE  Unsent'
  <2>1. dispatches' = dispatches /\ calls' = calls
    BY <1>3 DEF ExecutorStep, ClaimPostReleaseVerificationExecution, ClaimExhausted, GetReleaseVerifierJob,
       CompletePostReleaseVerification, Respond, ExecutionFails, ExecutorDies, WorkerTimesOut, Answer
  <2>2. \A d \in Dispatches : d # executors[x].message => messages'[d] = messages[d]
    BY <1>0, <1>3, Answering DEF ExecutorStep, ClaimPostReleaseVerificationExecution, ClaimExhausted,
       GetReleaseVerifierJob, CompletePostReleaseVerification, Respond, ExecutionFails, ExecutorDies,
       WorkerTimesOut, TypeOK
  <2>3. \A d \in Dispatches : d > dispatches => d # executors[x].message
    BY LimitFacts DEF HandInv, Unsent, Held
  <2>4. QED
    BY <2>1, <2>2, <2>3 DEF HandInv, Unsent
<1>4. CASE LeaseEnds \/ JobExpires \/ UNCHANGED vars
  BY <1>4 DEF LeaseEnds, JobExpires, vars, HandInv, Unsent
<1>5. QED
  BY <1>1, <1>2, <1>3, <1>4 DEF Next

\* The steps at which an executor changes what it holds or does.
LEMMA ExecutorMoves ==
  ASSUME TypeOK, NEW x \in Executors
  PROVE  /\ \A step \in {"claimed", "exhausted"}, d \in Dispatches :
              executors' = [executors EXCEPT ![x] = Executor(step, d)] =>
                /\ executors'[x].message = d /\ executors'[x].step = step
                /\ \A y \in Executors \ {x} : executors'[y] = executors[y]
         /\ \A step \in {"verifying", "reported"} :
              executors' = [executors EXCEPT ![x] = Executor(step, @.message)] =>
                /\ executors'[x].message = executors[x].message /\ executors'[x].step = step
                /\ \A y \in Executors \ {x} : executors'[y] = executors[y]
         /\ executors' = [executors EXCEPT ![x] = Executor(@.step, NoMessage)] =>
              /\ executors'[x].message = NoMessage /\ executors'[x].step = executors[x].step
              /\ \A y \in Executors \ {x} : executors'[y] = executors[y]
BY DEF TypeOK, Executor

LEMMA HeldStays ==
  ASSUME HandInv, [Next]_vars
  PROVE  Held'
<1>0. TypeOK
  BY DEF HandInv
<1>1. ASSUME UNCHANGED <<messages, executors>>
      PROVE  Held'
  BY <1>1 DEF HandInv, Held
<1>2. ASSUME NEW d \in Dispatches, DispatchStep(d)
      PROVE  Held'
  <2>1. executors' = executors
    BY <1>2 DEF DispatchStep, QueueAccepts, SendSucceeds, SendFails, SchedulerDies, DelayEnds, Deliver,
       ClaimRefused, DeliveryIsLost
  <2>2. CASE messages' = messages
    BY <1>1, <2>1, <2>2
  <2>3. CASE messages' # messages
    <3>1. messages[d].place # "delivered" \/ Undecided(d)
      BY <1>2, <2>3 DEF DispatchStep, QueueAccepts, SendSucceeds, SendFails, SchedulerDies, DelayEnds,
         Deliver, ClaimRefused, DeliveryIsLost
    <3>2. \A x \in Executors : executors[x].message # NoMessage => executors[x].message # d
      BY <3>1 DEF HandInv, Held, Undecided
    <3>3. \A e \in Dispatches \ {d} : messages'[e] = messages[e]
      BY <1>0, <1>2 DEF DispatchStep, QueueAccepts, SendSucceeds, SendFails, SchedulerDies, DelayEnds,
         Deliver, ClaimRefused, DeliveryIsLost, TypeOK
    <3>4. QED
      BY <1>0, <2>1, <3>2, <3>3, Columns DEF HandInv, Held
  <2>4. QED
    BY <2>2, <2>3
<1>3. ASSUME NEW x \in Executors, NEW d \in Dispatches,
             ClaimPostReleaseVerificationExecution(x, d) \/ ClaimExhausted(x, d)
      PROVE  Held'
  <2>1. Undecided(d) /\ messages' = messages
    BY <1>3 DEF ClaimPostReleaseVerificationExecution, ClaimExhausted
  <2>2. executors'[x].message = d /\ \A y \in Executors \ {x} : executors'[y] = executors[y]
    BY <1>0, <1>3, ExecutorMoves DEF ClaimPostReleaseVerificationExecution, ClaimExhausted
  <2>3. QED
    BY <2>1, <2>2 DEF HandInv, Held, Undecided
<1>4. ASSUME NEW x \in Executors,
             GetReleaseVerifierJob(x) \/ \E v \in {"Passed", "Failed"} : CompletePostReleaseVerification(x, v)
      PROVE  Held'
  <2>1. messages' = messages
    BY <1>4 DEF GetReleaseVerifierJob, CompletePostReleaseVerification
  <2>2. \A y \in Executors : executors'[y].message = executors[y].message
    BY <1>0, <1>4, ExecutorMoves DEF GetReleaseVerifierJob, CompletePostReleaseVerification
  <2>3. QED
    BY <2>1, <2>2 DEF HandInv, Held
<1>5. ASSUME NEW x \in Executors,
             Respond(x) \/ ExecutionFails(x) \/ ExecutorDies(x) \/ WorkerTimesOut(x)
      PROVE  Held'
  <2>1. executors'[x].message = NoMessage /\ \A y \in Executors \ {x} : executors'[y] = executors[y]
    BY <1>0, <1>5, Answering, ExecutorMoves DEF Respond, ExecutionFails, ExecutorDies, WorkerTimesOut
  <2>2. \A d \in Dispatches : d # executors[x].message => messages'[d] = messages[d]
    BY <1>0, <1>5, Answering DEF Respond, ExecutionFails, ExecutorDies, WorkerTimesOut, TypeOK
  <2>3. QED
    BY <1>0, <2>1, <2>2, Columns DEF HandInv, Held
<1>6. CASE DispatchQueuedReleaseVerifications \/ LeaseEnds \/ JobExpires \/ UNCHANGED vars
  BY <1>1, <1>6 DEF DispatchQueuedReleaseVerifications, LeaseEnds, JobExpires, vars
<1>7. QED
  BY <1>2, <1>3, <1>4, <1>5, <1>6 DEF Next, ExecutorStep

\* A decided job stays decided, and only the scheduler's failure sends a
\* running one back.
LEMMA StatusMoves ==
  ASSUME HandInv, [Next]_vars
  PROVE  /\ ~Open => ~Open'
         /\ Reported' /\ Resendable'
         /\ crashed => crashed'
<1>0. TypeOK
  BY DEF HandInv
<1>1. ASSUME NEW d \in Dispatches, DispatchStep(d)
      PROVE  /\ Open' = Open /\ executors' = executors /\ dispatches' = dispatches
             /\ status' # status => dispatches < MaxDispatches
             /\ crashed => crashed'
  BY <1>1 DEF DispatchStep, QueueAccepts, SendSucceeds, SendFails, Requeued, SchedulerDies, DelayEnds, Deliver,
     ClaimRefused, DeliveryIsLost, Open, job
<1>2. ASSUME NEW x \in Executors, ExecutorStep(x),
             ~\E v \in {"Passed", "Failed"} : CompletePostReleaseVerification(x, v)
      PROVE  /\ status' = status /\ dispatches' = dispatches
             /\ \A y \in Executors : executors'[y].step = "reported" => executors[y].step = "reported"
             /\ crashed => crashed'
  BY <1>0, <1>2, ExecutorMoves, Answering
     DEF ExecutorStep, ClaimPostReleaseVerificationExecution, ClaimExhausted, GetReleaseVerifierJob,
         Respond, ExecutionFails, ExecutorDies, WorkerTimesOut, job
<1>3. ASSUME NEW x \in Executors, NEW v \in {"Passed", "Failed"}, CompletePostReleaseVerification(x, v)
      PROVE  ~Open' /\ crashed' = crashed
  BY <1>3 DEF CompletePostReleaseVerification, RecordVerdict, Open
<1>4. CASE DispatchQueuedReleaseVerifications
  BY <1>4 DEF DispatchQueuedReleaseVerifications, HandInv, Reported, Resendable, Open
<1>5. CASE LeaseEnds \/ JobExpires \/ UNCHANGED vars
  BY <1>5 DEF LeaseEnds, JobExpires, vars, job, HandInv, Reported, Resendable, Open
<1>6. CASE \E d \in Dispatches : DispatchStep(d)
  BY <1>1, <1>6 DEF HandInv, Reported, Resendable, Open
<1>7. ASSUME NEW x \in Executors, ExecutorStep(x)
      PROVE  (~Open => ~Open') /\ Reported' /\ Resendable' /\ (crashed => crashed')
  <2>1. CASE \E v \in {"Passed", "Failed"} : CompletePostReleaseVerification(x, v)
    BY <1>3, <2>1 DEF Reported, Resendable, Open
  <2>2. CASE ~\E v \in {"Passed", "Failed"} : CompletePostReleaseVerification(x, v)
    BY <1>2, <1>7, <2>2 DEF HandInv, Reported, Resendable, Open
  <2>3. QED
    BY <2>1, <2>2
<1>8. QED
  BY <1>4, <1>5, <1>6, <1>7 DEF Next

\* The new dispatch has its call under way.
LEMMA DispatchCovers ==
  ASSUME HandInv, TypeOK', Unsent', Held', DispatchQueuedReleaseVerifications
  PROVE  Covered'
<1>1. dispatches' = dispatches + 1 /\ dispatches' \in Dispatches /\ dispatches \in Nat
  BY LimitFacts DEF DispatchQueuedReleaseVerifications, HandInv, TypeOK, Dispatches
<1>2. messages'[dispatches'].place = "none" /\ calls'[dispatches'] = "sending"
  BY <1>1 DEF DispatchQueuedReleaseVerifications, HandInv, TypeOK, Unsent
<1>3. \A x \in Executors : executors'[x].message # dispatches'
  BY <1>1, <1>2, LimitFacts DEF Held
<1>4. Counted(dispatches)'
  BY <1>2, <1>3 DEF Counted
<1>5. QED
  BY <1>1, <1>4 DEF Covered

\* A step that leaves the last message, its executor and the counts alone.
LEMMA CoveredStays ==
  ASSUME HandInv, UNCHANGED <<status, attempts, dispatches>>,
         crashed => crashed', leased' => leased,
         Exhausting => Exhausting',
         dispatches > 0 => /\ messages'[dispatches] = messages[dispatches]
                           /\ calls[dispatches] = "sending" /\ messages[dispatches].place = "none"
                                => calls'[dispatches] = "sending",
         \A x \in Executors : executors'[x].step \in {"claimed", "verifying"} =>
           executors'[x].message \in {executors[x].message, NoMessage}
             /\ executors[x].step \in {"claimed", "verifying"}
  PROVE  Covered'
<1>1. SUFFICES ASSUME ~crashed', status' = "Running"
               PROVE  dispatches' > 0 /\ (Exhausting' \/ Counted(dispatches)')
  BY DEF Covered
<1>2. dispatches > 0 /\ (Exhausting \/ Counted(dispatches))
  BY <1>1 DEF HandInv, Covered
<1>3. ASSUME Counted(dispatches) PROVE Counted(dispatches)'
  BY <1>2, <1>3 DEF Counted, Renewals, NoMessage
<1>4. QED
  BY <1>2, <1>3

\* The message that is sent, delivered or put back is the last one or it does
\* not count.
LEMMA DispatchStepCovers ==
  ASSUME HandInv, NEW d \in Dispatches, DispatchStep(d)
  PROVE  Covered'
<1>0. /\ TypeOK /\ dispatches \in Nat /\ attempts \in Nat /\ messages[d].deliveries \in Nat
      /\ MaxDeliveries \in Nat /\ Dispatches \subseteq Nat /\ Renewals = dispatches + attempts
  BY LimitFacts, Columns DEF HandInv, TypeOK, Renewals
<1> SUFFICES ASSUME ~crashed', status' = "Running"
             PROVE  dispatches' > 0 /\ (Exhausting' \/ Counted(dispatches)')
  BY DEF Covered
<1>1. CASE SendFails(d)
  BY <1>1 DEF SendFails, Requeued
<1>2. CASE SchedulerDies(d) \/ DeliveryIsLost(d)
  BY <1>2 DEF SchedulerDies, DeliveryIsLost
<1>3. CASE ~SendFails(d) /\ ~SchedulerDies(d) /\ ~DeliveryIsLost(d)
  <2>1. /\ UNCHANGED <<job, dispatches, executors, crashed>>
        /\ \A e \in Dispatches \ {d} : messages'[e] = messages[e] /\ calls'[e] = calls[e]
    BY <1>0, <1>3 DEF DispatchStep, QueueAccepts, SendSucceeds, DelayEnds, Deliver, ClaimRefused, TypeOK
  <2>2. ~crashed /\ status = "Running" /\ Open /\ dispatches > 0
    BY <2>1 DEF job, HandInv, Covered, Open
  <2>3. CASE Exhausting
    BY <2>1, <2>2, <2>3 DEF Exhausting
  <2>4. CASE d # dispatches /\ Counted(dispatches)
    <3>1. dispatches \in Dispatches
      BY <1>0, <2>2 DEF TypeOK, Dispatches
    <3>2. messages'[dispatches] = messages[dispatches] /\ calls'[dispatches] = calls[dispatches]
      BY <2>1, <2>4, <3>1
    <3>3. Counted(dispatches)'
      BY <2>1, <2>4, <3>2 DEF Counted, job, Renewals
    <3>4. QED
      BY <2>1, <2>2, <3>3
  <2>5. CASE d = dispatches /\ Counted(dispatches)
    <3>1. CASE QueueAccepts(d)
      <4>1. messages'[d].place = "ready" /\ messages'[d].deliveries = 0
        BY <1>0, <3>1 DEF QueueAccepts, TypeOK, Message
      <4>2. \A x \in Executors : executors[x].message # d
        BY <3>1, LimitFacts DEF QueueAccepts, HandInv, Held
      <4>3. QED
        BY <1>0, <2>1, <2>2, <2>5, <4>1, <4>2 DEF Counted, job
    <3>2. CASE SendSucceeds(d)
      BY <2>1, <2>2, <2>5, <3>2 DEF SendSucceeds, Counted, job, Renewals
    <3>3. CASE DelayEnds(d)
      <4>1. messages'[d].place = "ready" /\ messages'[d].deliveries = messages[d].deliveries
        BY <1>0, <3>3 DEF DelayEnds, TypeOK, Message
      <4>2. messages[d].seen \in Nat
        BY <1>0 DEF TypeOK, Messages
      <4>3. messages[d].deliveries <= attempts /\ (leased => messages[d].deliveries < attempts)
        BY <1>0, <2>5, <3>3, <4>2 DEF DelayEnds, Counted
      <4>4. \A x \in Executors : executors[x].message # d
        BY <3>3, LimitFacts DEF DelayEnds, HandInv, Held
      <4>5. QED
        BY <1>0, <2>1, <2>2, <2>5, <4>1, <4>3, <4>4 DEF Counted, job
    <3>4. CASE Deliver(d)
      <4>1. messages'[d].place = "delivered" /\ messages'[d].deliveries = messages[d].deliveries + 1
        BY <1>0, <3>4 DEF Deliver, TypeOK, Message
      <4>2. \A x \in Executors : executors[x].message # d
        BY <3>4, LimitFacts DEF Deliver, HandInv, Held
      <4>3. messages[d].deliveries <= attempts /\ (leased /\ attempts > 0 => messages[d].deliveries < attempts)
        BY <2>5, <3>4 DEF Deliver, Counted
      <4>4. QED
        BY <1>0, <2>1, <2>2, <2>5, <4>1, <4>2, <4>3 DEF Counted, job
    <3>5. CASE ClaimRefused(d)
      <4>1. messages'[d] = RetryLater(d)
        BY <1>0, <2>2, <3>5 DEF ClaimRefused, TypeOK
      <4>2. attempts > 0 /\ leased
        <5>1. ~expired /\ ~(attempts >= MaxAttempts)
          BY <2>2, <3>5, Zenon DEF ClaimRefused, Exhausted
        <5>2. attempts < MaxAttempts
          BY <1>0, <5>1, LimitFacts
        <5>3. attempts # 0 /\ leased
          BY <2>2, <3>5, <5>1, <5>2, Zenon DEF ClaimRefused, Claimable
        <5>4. QED
          BY <1>0, <5>3
      <4>3. messages[d].deliveries <= attempts
        BY <2>5, <3>5, <4>2 DEF ClaimRefused, Undecided, Counted
      <4>4. \A x \in Executors : executors[x].message # d
        BY <3>5 DEF ClaimRefused, Undecided
      <4>5. QED
        <5>1. /\ messages'[d].place \in {"delayed", "dead"}
              /\ messages'[d].place = "dead" => messages[d].deliveries >= MaxDeliveries
              /\ messages'[d].deliveries = messages[d].deliveries /\ messages'[d].seen = dispatches + attempts
          BY <1>0, <4>1, Put
        <5>2. d + messages[d].deliveries <= dispatches + attempts
          BY <1>0, <2>5, <4>3
        <5>3. Renewals' = dispatches + attempts
          BY <1>0, <2>1 DEF job, Renewals
        <5>4. QED
          BY <1>0, <2>1, <2>2, <2>5, <4>4, <5>1, <5>2, <5>3 DEF Counted, job
    <3>6. QED
      BY <1>3, <3>1, <3>2, <3>3, <3>4, <3>5 DEF DispatchStep
  <2>6. QED
    BY <2>2, <2>3, <2>4, <2>5 DEF HandInv, Covered
<1>4. QED
  BY <1>1, <1>2, <1>3

\* A claim counts for every message it keeps waiting.
LEMMA ClaimCovers ==
  ASSUME HandInv, NEW x \in Executors, NEW d \in Dispatches, ClaimPostReleaseVerificationExecution(x, d)
  PROVE  Covered'
<1>0. TypeOK /\ attempts \in Nat /\ dispatches \in Nat
  BY LimitFacts DEF HandInv, TypeOK
<1>1. /\ status = "Running" /\ attempts' = attempts + 1 /\ dispatches' = dispatches
      /\ UNCHANGED <<calls, messages, crashed>>
  BY DEF ClaimPostReleaseVerificationExecution, Claimable
<1>2. /\ executors'[x].message = d /\ executors'[x].step = "claimed"
      /\ \A y \in Executors \ {x} : executors'[y] = executors[y]
  BY <1>0, ExecutorMoves DEF ClaimPostReleaseVerificationExecution
<1> SUFFICES ASSUME ~crashed'
             PROVE  dispatches' > 0 /\ (Exhausting' \/ Counted(dispatches)')
  BY DEF Covered
<1>3. dispatches > 0 /\ (Exhausting \/ Counted(dispatches))
  BY <1>1 DEF HandInv, Covered
<1>4. dispatches \in Dispatches /\ messages[dispatches].deliveries \in Nat
  BY <1>0, <1>3, Columns, LimitFacts DEF TypeOK, Dispatches
<1>5. CASE Exhausting
  <2>1. executors[x].step = "idle"
    BY DEF ClaimPostReleaseVerificationExecution, IdleExecutor, Executor
  <2>2. QED
    BY <1>1, <1>2, <1>3, <1>5, <2>1 DEF Exhausting
<1>6. CASE Counted(dispatches)
  <2>1. messages[d].place = "delivered"
    BY DEF ClaimPostReleaseVerificationExecution, Undecided
  <2>2. Renewals' = Renewals + 1 /\ Renewals \in Nat
    BY <1>0, <1>1 DEF Renewals
  <2>3. \A y \in Executors :
          executors'[y].message = dispatches /\ executors'[y].step \in {"claimed", "verifying"} =>
            messages[dispatches].deliveries <= attempts + 1
    BY <1>0, <1>2, <1>4, <1>6, <2>1 DEF Counted
  <2>4. messages[dispatches].place \in {"delayed", "dead"} =>
          messages[dispatches].seen \in Nat /\ messages[dispatches].seen <= Renewals'
    BY <1>0, <1>4, <1>6, <2>2 DEF Counted, TypeOK, Messages
  <2>5. Counted(dispatches)'
    BY <1>0, <1>1, <1>4, <1>6, <2>3, <2>4 DEF Counted
  <2>6. QED
    BY <1>1, <1>3, <2>5
<1>7. QED
  BY <1>3, <1>5, <1>6

\* A delivery that its executor gives up stands for the executor's claim.
LEMMA GivingUpCovers ==
  ASSUME HandInv, NEW x \in Executors, ExecutionFails(x) \/ WorkerTimesOut(x)
  PROVE  Covered'
<1>0. TypeOK /\ attempts \in Nat /\ dispatches \in Nat
  BY LimitFacts DEF HandInv, TypeOK
<1> DEFINE e == executors[x].message
<1>1. /\ UNCHANGED <<job, dispatches, calls, crashed>>
      /\ \A d \in Dispatches : messages'[d] = IF d = e THEN RetryLater(d) ELSE messages[d]
      /\ executors'[x].message = NoMessage /\ executors'[x].step \in {"idle", executors[x].step}
      /\ executors[x].step = "exhausted" => executors'[x].step = "exhausted"
      /\ \A y \in Executors \ {x} : executors'[y] = executors[y]
  <2>1. CASE ExecutionFails(x)
    BY <1>0, <2>1, Answering DEF ExecutionFails
  <2>2. CASE WorkerTimesOut(x)
    BY <1>0, <2>2, ExecutorMoves DEF WorkerTimesOut, TypeOK
  <2>3. QED
    BY <2>1, <2>2
<1> SUFFICES ASSUME ~crashed', status' = "Running"
             PROVE  dispatches' > 0 /\ (Exhausting' \/ Counted(dispatches)')
  BY DEF Covered
<1>2. status = "Running" /\ Open /\ dispatches > 0 /\ (Exhausting \/ Counted(dispatches))
  BY <1>1 DEF job, HandInv, Covered, Open
<1>3. dispatches \in Dispatches /\ messages[dispatches].deliveries \in Nat
  BY <1>0, <1>2, Columns, LimitFacts DEF TypeOK, Dispatches
<1>4. CASE Exhausting
  BY <1>1, <1>2, <1>4 DEF Exhausting
<1>5. CASE Counted(dispatches) /\ ~Exhausting
  <2>1. executors[x].step \in {"idle", "claimed", "verifying", "reported"} /\ executors[x].step # "reported"
    BY <1>0, <1>2, <1>5, Columns DEF Exhausting, HandInv, Reported
  <2>2. executors[x].step \in {"claimed", "verifying"}
    BY <2>1 DEF ExecutionFails, WorkerTimesOut
  <2>3. CASE e # dispatches
    <3>1. messages'[dispatches] = messages[dispatches]
      BY <1>1, <1>3, <2>3
    <3>2. \A y \in Executors : executors'[y].message = dispatches => executors'[y] = executors[y]
      BY <1>1, <1>3, LimitFacts
    <3>3. Counted(dispatches)'
      BY <1>1, <1>5, <3>1, <3>2 DEF Counted, job, Renewals
    <3>4. QED
      BY <1>1, <1>2, <3>3
  <2>4. CASE e = dispatches
    <3>1. messages[dispatches].deliveries <= attempts
      BY <1>5, <2>2, <2>4 DEF Counted
    <3>2. /\ messages'[dispatches].place \in {"delayed", "dead"}
          /\ messages'[dispatches].place = "dead" => messages[dispatches].deliveries >= MaxDeliveries
          /\ messages'[dispatches].deliveries = messages[dispatches].deliveries
          /\ messages'[dispatches].seen = Renewals
      BY <1>0, <1>1, <1>3, <2>4, Put
    <3>3. \A y \in Executors : executors'[y].message # dispatches
      BY <1>1, <1>3, <2>4, LimitFacts DEF HandInv, Held
    <3>4. Renewals' = Renewals /\ Renewals = dispatches + attempts
      BY <1>1 DEF job, Renewals
    <3>5. dispatches + messages[dispatches].deliveries <= Renewals /\ Renewals <= Renewals
      BY <1>0, <1>3, <3>1, <3>4
    <3>6. Counted(dispatches)'
      BY <1>1, <3>2, <3>3, <3>4, <3>5 DEF Counted
    <3>7. QED
      BY <1>1, <1>2, <3>6
  <2>5. QED
    BY <2>3, <2>4
<1>6. QED
  BY <1>2, <1>4, <1>5

LEMMA CoveredPreserved ==
  ASSUME HandInv, [Next]_vars, TypeOK', Unsent', Held', ~Open => ~Open'
  PROVE  Covered'
<1>0. TypeOK
  BY DEF HandInv
<1>1. ASSUME NEW x \in Executors, NEW d \in Dispatches, ClaimExhausted(x, d)
      PROVE  Covered'
  <2>1. executors'[x].step = "exhausted"
    BY <1>0, <1>1, ExecutorMoves DEF ClaimExhausted
  <2>2. UNCHANGED <<status, dispatches, crashed>>
    BY <1>1 DEF ClaimExhausted, job
  <2>3. QED
    BY <2>1, <2>2 DEF HandInv, Covered, Exhausting
<1>2. ASSUME NEW x \in Executors, GetReleaseVerifierJob(x)
      PROVE  Covered'
  <2>1. /\ executors'[x].message = executors[x].message /\ executors[x].step = "claimed"
        /\ \A y \in Executors \ {x} : executors'[y] = executors[y]
    BY <1>0, <1>2, ExecutorMoves DEF GetReleaseVerifierJob
  <2>2. UNCHANGED <<status, attempts, leased, dispatches, messages, calls, crashed>>
    BY <1>2 DEF GetReleaseVerifierJob, job
  <2>3. QED
    BY <2>1, <2>2, CoveredStays DEF Exhausting
<1>3. ASSUME NEW x \in Executors, NEW v \in {"Passed", "Failed"}, CompletePostReleaseVerification(x, v)
      PROVE  Covered'
  BY <1>3 DEF CompletePostReleaseVerification, RecordVerdict, Covered, Open
<1>4. ASSUME NEW x \in Executors, Respond(x)
      PROVE  Covered'
  <2>1. ~Open
    BY <1>4 DEF Respond, HandInv, Reported
  <2>2. QED
    BY <2>1 DEF Covered, Open
<1>5. ASSUME NEW x \in Executors, ExecutorDies(x)
      PROVE  Covered'
  BY <1>5 DEF ExecutorDies, Covered
<1>6. CASE LeaseEnds \/ JobExpires \/ UNCHANGED vars
  <2>1. UNCHANGED <<status, attempts, dispatches, messages, executors, calls, crashed>> /\ (leased' => leased)
    BY <1>6 DEF LeaseEnds, JobExpires, vars, job
  <2>2. QED
    BY <2>1, CoveredStays DEF Exhausting
<1>7. QED
  BY <1>1, <1>2, <1>3, <1>4, <1>5, <1>6, DispatchCovers, DispatchStepCovers, ClaimCovers, GivingUpCovers
     DEF Next, ExecutorStep

LEMMA HandStays == HandInv /\ [Next]_vars => HandInv'
<1> SUFFICES ASSUME HandInv, [Next]_vars PROVE HandInv'
  OBVIOUS
<1>1. TypeOK'
  BY Types DEF HandInv
<1>2. QED
  BY <1>1, UnsentStays, HeldStays, StatusMoves, CoveredPreserved DEF HandInv

LEMMA InitHand == Init => HandInv
<1> SUFFICES ASSUME Init PROVE HandInv
  OBVIOUS
<1>1. Unsent
  BY DEF Init, Unsent, Message
<1>2. Held /\ Reported
  BY DEF Init, Held, Reported, IdleExecutor, Executor
<1>3. Resendable /\ Covered
  BY LimitFacts, LimitAssumption DEF Init, Resendable, Covered
<1>4. QED
  BY <1>1, <1>2, <1>3, InitTypes DEF HandInv

\* As long as the queue has more deliveries than the job has attempts (four and
\* three in the source), no undecided job is left to nobody: only a process that
\* dies, or a delivery that does not get to the claim, can lose one.
THEOREM OpenJobsAreInHand == Patient => (Spec => []OpenJobIsInHand)
<1> SUFFICES ASSUME Patient PROVE Spec => []OpenJobIsInHand
  OBVIOUS
<1>1. ASSUME HandInv PROVE OpenJobIsInHand
  <2> SUFFICES ASSUME Open, ~crashed PROVE InHand
    BY DEF OpenJobIsInHand
  <2>1. CASE status = "Queued"
    BY <1>1, <2>1 DEF HandInv, Resendable, InHand
  <2>2. CASE status = "Running"
    <3>1. TypeOK /\ dispatches > 0 /\ (Exhausting \/ Counted(dispatches))
      BY <1>1, <2>2 DEF HandInv, Covered
    <3>2. CASE Exhausting
      BY <3>2 DEF Exhausting, InHand
    <3>3. CASE Counted(dispatches)
      <4>1. dispatches \in Dispatches /\ messages[dispatches] \in Messages
            /\ attempts \in 0..MaxAttempts /\ dispatches \in Nat
        BY <3>1, Columns, LimitFacts DEF TypeOK, Dispatches
      <4>2. messages[dispatches].place # "dead"
        <5>1. SUFFICES ASSUME messages[dispatches].place = "dead" PROVE FALSE
          OBVIOUS
        <5>2. /\ messages[dispatches].deliveries \in Nat /\ messages[dispatches].seen \in Nat
              /\ dispatches + messages[dispatches].deliveries <= messages[dispatches].seen
              /\ messages[dispatches].seen <= dispatches + attempts
              /\ messages[dispatches].deliveries >= MaxDeliveries
          BY <3>3, <4>1, <5>1 DEF Counted, Messages, Renewals
        <5>3. QED
          BY <4>1, <5>2, LimitFacts DEF Patient
      <4>3. QED
        BY <3>1, <3>3, <4>1, <4>2 DEF Counted, Messages, InHand
    <3>4. QED
      BY <3>1, <3>2, <3>3
  <2>3. QED
    BY <2>1, <2>2 DEF Open
<1>2. HandInv => OpenJobIsInHand
  BY <1>1
<1>3. QED
  BY <1>2, InitHand, HandStays, PTL DEF Spec
=============================================================================
