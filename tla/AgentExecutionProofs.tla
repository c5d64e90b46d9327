------------------------- MODULE AgentExecutionProofs -------------------------
(***************************************************************************)
(* Proofs about AgentExecution, for every lease, delay, number of retries  *)
(* and number of copies.                                                   *)
(***************************************************************************)
EXTENDS AgentExecution, FiniteSetTheorems, TLAPS

-----------------------------------------------------------------------------
(* Facts about the state *)

LEMMA Constant ==
  /\ Lease \in Nat \ {0} /\ MaxDuration \in Nat \ {0}
  /\ FirstDelay \in Nat \ {0} /\ LaterDelay \in Nat \ {0}
  /\ MaxRetries \in Nat /\ Duplicates \in Nat
  /\ NoDelivery \notin Deliveries
  /\ \A d \in Deliveries : d \in Nat
BY DelayAssumption, DeliveryAssumption DEF Deliveries, NoDelivery

\* The columns of the rows, one by one.
LEMMA Columns ==
  ASSUME TypeOK
  PROVE  /\ run = [status |-> run.status, started |-> run.started, report |-> run.report]
         /\ run.status \in RunStatus
         /\ run.started \in 0..NotStarted
         /\ run.report \in Deliveries \cup {NoDelivery}
         /\ message.state \in {"none", "waiting", "delivered", "acked", "dead"}
         /\ message.wait \in 0..(FirstDelay + LaterDelay)
         /\ message.attempts \in 0..(MaxRetries + 1)
         /\ message.delivery \in Deliveries \cup {NoDelivery}
         /\ \A d \in Deliveries :
              /\ routes[d].step \in RouteStep
              /\ routes[d].left \in 0..MaxDuration
              /\ tasks[d] \in TaskStep
         /\ github.branch \in Deliveries \cup {NoDelivery}
         /\ github.pull \in BOOLEAN
         /\ github.verified \subseteq Deliveries
BY SMT DEF TypeOK, Runs, Messages, Routes, Publications

\* A route goes to another step and keeps its minutes.
LEMMA RouteGoes ==
  ASSUME TypeOK, NEW d \in Deliveries, NEW step \in RouteStep, GoTo(d, step)
  PROVE  /\ routes' \in [Deliveries -> Routes]
         /\ \A e \in Deliveries :
              /\ routes'[e].left = routes[e].left
              /\ routes'[e].step = IF e = d THEN step ELSE routes[e].step
<1>1. routes \in [Deliveries -> Routes]
  BY DEF TypeOK
<1>2. \A e \in Deliveries :
        routes'[e] = IF e = d THEN [routes[d] EXCEPT !.step = step] ELSE routes[e]
  BY <1>1 DEF GoTo
<1>3. \A e \in Deliveries :
        routes[e] \in Routes /\ [routes[e] EXCEPT !.step = step] \in Routes
  BY <1>1, SMT DEF Routes
<1>4. routes' \in [Deliveries -> Routes]
  BY <1>1, <1>3 DEF GoTo
<1>5. QED
  BY <1>2, <1>3, <1>4, SMT DEF Routes

\* A job that is delivered again waits, as long as the delay says, and has
\* retries left.
LEMMA JobRetried ==
  ASSUME TypeOK
  PROVE  /\ Retried \in Messages
         /\ Retried.attempts = message.attempts
         /\ Retried.state \in {"waiting", "dead"}
         /\ Retried.state = "waiting" =>
              /\ message.attempts <= MaxRetries
              /\ message.attempts >= 2 => Retried.wait = LaterDelay
<1>1. message.attempts \in 0..(MaxRetries + 1)
  BY Columns
<1>2. QED
  BY <1>1, Constant, SMT DEF Retried, Message, Messages

\* What the worker makes of an answer.
LEMMA Answered ==
  ASSUME TypeOK, NEW d \in Deliveries, NEW ok \in BOOLEAN, Answer(d, ok)
  PROVE  /\ message' \in Messages
         /\ message'.attempts = message.attempts
         /\ message'.state = "waiting" => message'.attempts <= MaxRetries
         /\ message'.state = "waiting" /\ message.attempts >= 2 =>
              message' = message \/ message'.wait = LaterDelay
         /\ message'.state = "acked" => message.state = "acked" \/ ok
         /\ message.state # "delivered" => message' = message
<1>1. CASE message' = message
  BY <1>1, SMT DEF TypeOK
<1>2. CASE message.state = "delivered" /\ message' = Retried
  BY <1>2, JobRetried, SMT
<1>3. CASE message.state = "delivered" /\ ok
           /\ message' = Message("acked", 0, message.attempts, NoDelivery)
  <2>1. message.attempts \in 0..(MaxRetries + 1)
    BY Columns
  <2>2. QED
    BY <1>3, <2>1, Constant, SMT DEF Message, Messages
<1>4. QED
  BY <1>1, <1>2, <1>3 DEF Answer

LEMMA RunFails ==
  ASSUME TypeOK, FailRun
  PROVE  /\ run' \in Runs
         /\ run'.started = run.started /\ run'.report = run.report
         /\ run'.status = IF run.status \in ActiveStatus THEN "Failed" ELSE run.status
<1>1. run \in Runs
  BY DEF TypeOK
<1>2. "Failed" \in RunStatus
  BY DEF RunStatus, TerminalStatus
<1>3. QED
  BY <1>1, <1>2 DEF FailRun, IsActive, Runs

LEMMA RunStarts ==
  ASSUME TypeOK, run' = Started
  PROVE  /\ run' \in Runs
         /\ run'.started = IF run.started = NotStarted THEN 0 ELSE run.started
         /\ run'.report = run.report
         /\ run'.status = "Running"
<1>1. run \in Runs
  BY DEF TypeOK
<1>2. 0 \in 0..NotStarted
  BY Constant DEF NotStarted
<1>3. run.started \in 0..NotStarted /\ run.report \in Deliveries \cup {NoDelivery}
  BY <1>1 DEF Runs
<1>4. run' = [status |-> "Running", started |-> IF run.started = NotStarted THEN 0 ELSE run.started,
              report |-> run.report]
  BY <1>1 DEF Started, Runs
<1>5. QED
  BY <1>2, <1>3, <1>4 DEF Runs, RunStatus, ActiveStatus

\* The statuses a report, a cancellation and a deletion write.
LEMMA RunReported ==
  ASSUME TypeOK, NEW status \in RunStatus, NEW d \in Deliveries \cup {NoDelivery},
         run' = [run EXCEPT !.status = status, !.report = d]
  PROVE  /\ run' \in Runs
         /\ run'.started = run.started /\ run'.report = d /\ run'.status = status
<1>1. run \in Runs
  BY DEF TypeOK
<1>2. run' = [status |-> status, started |-> run.started, report |-> d]
  BY <1>1 DEF Runs
<1>3. run.started \in 0..NotStarted
  BY <1>1 DEF Runs
<1>4. QED
  BY <1>2, <1>3 DEF Runs

LEMMA RunClosed ==
  ASSUME TypeOK, NEW status \in RunStatus, run' = [run EXCEPT !.status = status]
  PROVE  /\ run' \in Runs
         /\ run'.started = run.started /\ run'.report = run.report /\ run'.status = status
<1>1. run \in Runs
  BY DEF TypeOK
<1>2. QED
  BY <1>1 DEF Runs

LEMMA TaskGoes ==
  ASSUME TypeOK, NEW d \in Deliveries, NEW step \in TaskStep,
         tasks' = [tasks EXCEPT ![d] = step]
  PROVE  /\ tasks' \in [Deliveries -> TaskStep]
         /\ \A e \in Deliveries : tasks'[e] = IF e = d THEN step ELSE tasks[e]
BY DEF TypeOK

-----------------------------------------------------------------------------
(* Type correctness *)

LEMMA InitTyped == Init => TypeOK
<1>1. Deliveries # {} /\ MaxDuration \in Nat /\ NotStarted \in 0..NotStarted
  BY Constant DEF Deliveries, NotStarted
<1>2. Message("none", 0, 0, NoDelivery) \in Messages
  BY Constant DEF Message, Messages
<1>3. QED
  BY <1>1, <1>2, Constant
     DEF Init, TypeOK, Runs, Routes, Publications, RunStatus, ActiveStatus, RouteStep,
         TaskStep, Message

LEMMA RouteStepTyped ==
  ASSUME TypeOK, NEW d \in Deliveries, RouteStepOf(d)
  PROVE  TypeOK'
<1> USE DEF RouteStep, LiveStep, ExecutingStep
<1>1. ASSUME NEW ok \in BOOLEAN, End(d, ok)
      PROVE  routes' \in [Deliveries -> Routes] /\ message' \in Messages
             /\ (message'.state = "waiting" => message'.attempts <= MaxRetries)
  BY <1>1, RouteGoes, Answered DEF End
<1>2. CASE RefuseJob(d)
  BY <1>1, <1>2 DEF RefuseJob, TypeOK
<1>3. CASE ClaimQueuedAgentRun(d)
  BY <1>3, RunStarts, RouteGoes DEF ClaimQueuedAgentRun, TypeOK
<1>4. CASE AnswerUnclaimed(d)
  BY <1>1, <1>4 DEF AnswerUnclaimed, TypeOK
<1>5. CASE MarkAgentRunRunning(d)
  <2>1. run' \in Runs
    BY <1>5, RunStarts, RunFails DEF MarkAgentRunRunning, Startable
  <2>2. routes' \in [Deliveries -> Routes]
    BY <1>5, RouteGoes DEF MarkAgentRunRunning
  <2>3. QED
    BY <1>5, <2>1, <2>2 DEF MarkAgentRunRunning, TypeOK
<1>6. CASE ExecutionFails(d)
  BY <1>6, RouteGoes DEF ExecutionFails, TypeOK
<1>7. ASSUME NEW status \in {"Tests passed", "Failed", "No changes"}, CompleteAgentRun(d, status)
      PROVE  TypeOK'
  <2>1. run' \in Runs
    BY <1>7, RunReported DEF CompleteAgentRun, RunStatus, ActiveStatus, TerminalStatus
  <2>2. tasks' \in [Deliveries -> TaskStep]
    BY <1>7, TaskGoes DEF CompleteAgentRun, TypeOK, TaskStep, LiveTask
  <2>3. CASE End(d, TRUE)
    BY <1>1, <1>7, <2>1, <2>2, <2>3 DEF CompleteAgentRun, TypeOK
  <2>4. CASE GoTo(d, "failing") /\ UNCHANGED message
    BY <1>7, <2>1, <2>2, <2>4, RouteGoes DEF CompleteAgentRun, TypeOK
  <2>5. QED
    BY <1>7, <2>3, <2>4 DEF CompleteAgentRun
<1>8. CASE RefuseReport(d)
  BY <1>8, RunFails, RouteGoes DEF RefuseReport, TypeOK
<1>9. CASE FailAgentRun(d)
  <2>1. PICK ok \in {FALSE, run.status # "Deleted"} : End(d, ok)
    BY <1>9 DEF FailAgentRun
  <2>2. ok \in BOOLEAN
    BY <2>1
  <2>3. QED
    BY <1>1, <1>9, <2>1, <2>2, RunFails DEF FailAgentRun, TypeOK
<1>10. CASE RouteStops(d)
  BY <1>1, <1>10 DEF RouteStops, TypeOK
<1>11. QED
  BY <1>2, <1>3, <1>4, <1>5, <1>6, <1>7, <1>8, <1>9, <1>10 DEF RouteStepOf

LEMMA TaskStepTyped ==
  ASSUME TypeOK, NEW d \in Deliveries, TaskStepOf(d)
  PROVE  TypeOK'
<1> USE DEF TaskStep, LiveTask, TaskGoTo
<1>1. CASE VerifyAgentRun(d)
  <2>1. tasks' \in [Deliveries -> TaskStep]
    BY <1>1, TaskGoes DEF VerifyAgentRun
  <2>2. run' \in Runs
    <3>1. CASE UNCHANGED run
      BY <3>1 DEF TypeOK
    <3>2. CASE run' = [run EXCEPT !.status = "Failed", !.report = d]
      BY <3>2, RunReported DEF RunStatus, TerminalStatus
    <3>3. QED
      BY <1>1, <3>1, <3>2 DEF VerifyAgentRun
  <2>3. github' \in Publications
    <3>1. CASE UNCHANGED github
      BY <3>1 DEF TypeOK
    <3>2. CASE github' = [github EXCEPT !.verified = @ \cup {d}]
      BY <3>2, Columns DEF TypeOK, Publications
    <3>3. QED
      BY <1>1, <3>1, <3>2 DEF VerifyAgentRun
  <2>4. QED
    BY <1>1, <2>1, <2>2, <2>3 DEF VerifyAgentRun, TypeOK
<1>2. CASE PublishAgentRun(d)
  <2>1. tasks' \in [Deliveries -> TaskStep]
    BY <1>2, TaskGoes DEF PublishAgentRun
  <2>2. github' \in Publications
    <3>1. CASE UNCHANGED github
      BY <3>1 DEF TypeOK
    <3>2. ASSUME NEW pull \in BOOLEAN,
                 github' = [github EXCEPT !.branch = IF @ = NoDelivery THEN d ELSE @,
                                          !.pull = @ \/ pull]
          PROVE  github' \in Publications
      <4>1. github' = [branch |-> IF github.branch = NoDelivery THEN d ELSE github.branch,
                       pull |-> github.pull \/ pull, verified |-> github.verified]
        BY <3>2 DEF TypeOK, Publications
      <4>2. QED
        BY <4>1, Columns DEF Publications
    <3>3. QED
      BY <1>2, <3>1, <3>2 DEF PublishAgentRun
  <2>3. QED
    BY <1>2, <2>1, <2>2 DEF PublishAgentRun, TypeOK
<1>3. CASE RecordPublication(d)
  <2>1. tasks' \in [Deliveries -> TaskStep]
    BY <1>3, TaskGoes DEF RecordPublication
  <2>2. run' \in Runs
    <3>1. CASE UNCHANGED run
      BY <3>1 DEF TypeOK
    <3>2. CASE run' = [run EXCEPT !.status = "Draft PR opened", !.report = d]
      BY <3>2, RunReported DEF RunStatus, TerminalStatus
    <3>3. QED
      BY <1>3, <3>1, <3>2 DEF RecordPublication
  <2>3. QED
    BY <1>3, <2>1, <2>2 DEF RecordPublication, TypeOK
<1>4. CASE FailTask(d)
  BY <1>4, TaskGoes, RunFails DEF FailTask, TypeOK
<1>5. CASE TaskStops(d)
  BY <1>5, TaskGoes DEF TaskStops, TypeOK
<1>6. QED
  BY <1>1, <1>2, <1>3, <1>4, <1>5 DEF TaskStepOf

\* A delivery starts a call of the executor route.
LEMMA RouteArrives ==
  ASSUME TypeOK, NEW d \in Deliveries, Arrive(d)
  PROVE  /\ routes' \in [Deliveries -> Routes]
         /\ routes[d].step = "none"
         /\ \A e \in Deliveries :
              IF e = d THEN routes'[e].step = "arrived" /\ routes'[e].left = MaxDuration
                       ELSE routes'[e] = routes[e]
<1>1. [step |-> "arrived", left |-> MaxDuration] \in Routes
  BY Constant DEF Routes, RouteStep, LiveStep
<1>2. QED
  BY <1>1 DEF Arrive, TypeOK

\* What a minute does.
LEMMA MinutePasses ==
  ASSUME TypeOK, Tick
  PROVE  /\ run' \in Runs
         /\ run'.status = run.status /\ run'.report = run.report
         /\ run'.started = IF run.started < Lease THEN run.started + 1 ELSE run.started
         /\ message' \in Messages
         /\ message'.state = message.state /\ message'.attempts = message.attempts
         /\ message'.wait = Less(message.wait)
         /\ routes' \in [Deliveries -> Routes]
         /\ \A d \in Deliveries : /\ routes'[d].step = routes[d].step
                                  /\ routes'[d].left = Less(routes[d].left)
<1>1. run' \in Runs /\ run'.status = run.status /\ run'.report = run.report
      /\ run'.started = IF run.started < Lease THEN run.started + 1 ELSE run.started
  <2>1. run' = [status |-> run.status, report |-> run.report,
                started |-> IF run.started < Lease THEN run.started + 1 ELSE run.started]
    BY DEF TypeOK, Runs, Tick
  <2>2. (IF run.started < Lease THEN run.started + 1 ELSE run.started) \in 0..NotStarted
    BY Columns, Constant DEF NotStarted
  <2>3. QED
    BY <2>1, <2>2, Columns DEF Runs
<1>2. message' \in Messages /\ message'.state = message.state
      /\ message'.attempts = message.attempts /\ message'.wait = Less(message.wait)
  <2>1. Less(message.wait) \in 0..(FirstDelay + LaterDelay)
    BY Columns, Constant DEF Less
  <2>2. message' = [state |-> message.state, wait |-> Less(message.wait),
                    attempts |-> message.attempts, delivery |-> message.delivery]
    BY DEF TypeOK, Messages, Tick
  <2>3. QED
    BY <2>1, <2>2, Columns DEF Messages
<1>3. routes' \in [Deliveries -> Routes]
      /\ \A d \in Deliveries : /\ routes'[d].step = routes[d].step
                               /\ routes'[d].left = Less(routes[d].left)
  <2>1. \A d \in Deliveries : Less(routes[d].left) \in 0..MaxDuration
    BY Columns, Constant DEF Less
  <2>2. \A d \in Deliveries :
          routes'[d] = [step |-> routes[d].step, left |-> Less(routes[d].left)]
    BY DEF TypeOK, Routes, Tick
  <2>3. \A d \in Deliveries : routes'[d] \in Routes
    <3>1. \A d \in Deliveries : routes[d].step \in RouteStep
      BY Columns
    <3>2. \A d \in Deliveries :
            [step |-> routes[d].step, left |-> Less(routes[d].left)] \in Routes
      BY <2>1, <3>1 DEF Routes
    <3>3. QED
      BY <2>2, <3>2
  <2>4. routes' \in [Deliveries -> Routes]
    BY <2>3 DEF Tick
  <2>5. QED
    BY <2>2, <2>4
<1>4. QED
  BY <1>1, <1>2, <1>3

LEMMA TypeStep == TypeOK /\ [Next]_vars => TypeOK'
<1> SUFFICES ASSUME TypeOK, [Next]_vars PROVE TypeOK'
  OBVIOUS
<1>1. CASE DispatchAgentRun
  <2>1. Message("waiting", 0, 0, NoDelivery) \in Messages
    BY Constant DEF Message, Messages
  <2>2. message' \in Messages /\ (message'.state = "waiting" => message'.attempts <= MaxRetries)
    BY <1>1, <2>1, Constant DEF DispatchAgentRun, TypeOK, Message
  <2>3. QED
    BY <1>1, <2>2 DEF DispatchAgentRun, TypeOK
<1>2. CASE FailDispatch
  BY <1>2, RunFails DEF FailDispatch, TypeOK
<1>3. ASSUME NEW d \in Deliveries, Deliver(d)
      PROVE  TypeOK'
  <2>1. message.attempts + 1 \in 0..(MaxRetries + 1)
    BY <1>3, Columns, Constant DEF Deliver, TypeOK
  <2>2. message' \in Messages /\ message'.state = "delivered"
    BY <1>3, <2>1, Constant DEF Deliver, Message, Messages
  <2>3. QED
    BY <1>3, <2>2, RouteArrives DEF Deliver, TypeOK
<1>4. ASSUME NEW d \in Deliveries, DeliverDuplicate(d)
      PROVE  TypeOK'
  BY <1>4, RouteArrives DEF DeliverDuplicate, TypeOK
<1>5. CASE LoseConnection
  BY <1>5, JobRetried DEF LoseConnection, TypeOK
<1>6. CASE CancelAgentRun
  BY <1>6, RunClosed DEF CancelAgentRun, TypeOK, RunStatus, TerminalStatus
<1>7. CASE DeleteAgentRun
  BY <1>7, RunClosed DEF DeleteAgentRun, TypeOK, RunStatus
<1>8. CASE Tick
  <2>1. dispatch' = dispatch /\ tasks' = tasks /\ github' = github
    BY <1>8 DEF Tick
  <2>2. QED
    BY <1>8, <2>1, MinutePasses DEF TypeOK
<1>9. CASE UNCHANGED vars
  BY <1>9 DEF vars, TypeOK
<1>10. QED
  BY <1>1, <1>2, <1>3, <1>4, <1>5, <1>6, <1>7, <1>8, <1>9, RouteStepTyped, TaskStepTyped
     DEF Next

\* Every variable keeps its type, whatever the delays and the number of
\* copies, and a job waits only while it has retries left.
THEOREM TypeCorrect == Spec => []TypeOK
<1>1. QED
  BY InitTyped, TypeStep, PTL DEF Spec

-----------------------------------------------------------------------------
(* The outcome of a run *)

OpenStatus == {"Queued", "Running"}

\* What every step does with an outcome and with the answer of the queue.
OutcomeKept ==
  /\ run.status \in TerminalStatus => run'.status \in {run.status, "Deleted"}
  /\ run.status \notin OpenStatus => run'.status \notin OpenStatus
  /\ message'.state = "acked" => message.state = "acked" \/ run'.status \notin OpenStatus

LEMMA RouteKeepsOutcome ==
  ASSUME TypeOK, NEW d \in Deliveries, RouteStepOf(d)
  PROVE  OutcomeKept
<1> USE DEF OutcomeKept, OpenStatus, ActiveStatus, TerminalStatus
<1>1. CASE RefuseJob(d)
  BY <1>1, Answered DEF RefuseJob, End
<1>2. CASE ClaimQueuedAgentRun(d)
  BY <1>2, RunStarts DEF ClaimQueuedAgentRun, Claimable
<1>3. CASE AnswerUnclaimed(d)
  BY <1>3, Answered DEF AnswerUnclaimed, End, Claimable
<1>4. CASE MarkAgentRunRunning(d)
  BY <1>4, RunStarts, RunFails DEF MarkAgentRunRunning, Startable
<1>5. CASE ExecutionFails(d)
  BY <1>5 DEF ExecutionFails
<1>6. ASSUME NEW status \in {"Tests passed", "Failed", "No changes"}, CompleteAgentRun(d, status)
      PROVE  OutcomeKept
  <2>1. run'.status = status
    BY <1>6, RunReported DEF CompleteAgentRun, RunStatus
  <2>2. QED
    BY <1>6, <2>1 DEF CompleteAgentRun, IsActive
<1>7. CASE RefuseReport(d)
  BY <1>7, RunFails DEF RefuseReport
<1>8. CASE FailAgentRun(d)
  <2>1. run'.status \notin OpenStatus
    BY <1>8, RunFails DEF FailAgentRun
  <2>2. QED
    BY <1>8, <2>1, RunFails DEF FailAgentRun
<1>9. CASE RouteStops(d)
  BY <1>9, Answered DEF RouteStops, End
<1>10. QED
  BY <1>1, <1>2, <1>3, <1>4, <1>5, <1>6, <1>7, <1>8, <1>9 DEF RouteStepOf

LEMMA TaskKeepsOutcome ==
  ASSUME TypeOK, NEW d \in Deliveries, TaskStepOf(d)
  PROVE  OutcomeKept
<1> USE DEF OutcomeKept, OpenStatus, ActiveStatus, TerminalStatus
<1>1. CASE VerifyAgentRun(d)
  BY <1>1, RunReported DEF VerifyAgentRun, IsActive, RunStatus
<1>2. CASE PublishAgentRun(d)
  BY <1>2 DEF PublishAgentRun
<1>3. CASE RecordPublication(d)
  BY <1>3, RunReported DEF RecordPublication, IsActive, RunStatus
<1>4. CASE FailTask(d)
  BY <1>4, RunFails DEF FailTask
<1>5. CASE TaskStops(d)
  BY <1>5 DEF TaskStops
<1>6. QED
  BY <1>1, <1>2, <1>3, <1>4, <1>5 DEF TaskStepOf

LEMMA StepKeepsOutcome == TypeOK /\ [Next]_vars => OutcomeKept
<1> SUFFICES ASSUME TypeOK, [Next]_vars PROVE OutcomeKept
  OBVIOUS
<1> USE DEF OutcomeKept, OpenStatus, ActiveStatus, TerminalStatus
<1>1. CASE DispatchAgentRun
  BY <1>1 DEF DispatchAgentRun, Message
<1>2. CASE FailDispatch
  BY <1>2, RunFails DEF FailDispatch
<1>3. ASSUME NEW d \in Deliveries, Deliver(d)
      PROVE  OutcomeKept
  BY <1>3 DEF Deliver, Message
<1>4. ASSUME NEW d \in Deliveries, DeliverDuplicate(d)
      PROVE  OutcomeKept
  BY <1>4 DEF DeliverDuplicate
<1>5. CASE LoseConnection
  BY <1>5, JobRetried DEF LoseConnection
<1>6. CASE CancelAgentRun
  BY <1>6, RunClosed DEF CancelAgentRun, RunStatus
<1>7. CASE DeleteAgentRun
  BY <1>7, RunClosed DEF DeleteAgentRun, RunStatus
<1>8. CASE Tick
  BY <1>8, MinutePasses
<1>9. CASE UNCHANGED vars
  BY <1>9 DEF vars
<1>10. QED
  BY <1>1, <1>2, <1>3, <1>4, <1>5, <1>6, <1>7, <1>8, <1>9, RouteKeepsOutcome, TaskKeepsOutcome
     DEF Next

\* A run keeps the first outcome it is given: failAgentRun, completeAgentRun
\* and cancelAgentRun all leave a closed run as it is.
THEOREM FirstOutcomeIsKept == Spec => FirstOutcomeStays
<1>1. TypeOK /\ [Next]_vars =>
        [run.status \in TerminalStatus => run'.status \in {run.status, "Deleted"}]_vars
  BY StepKeepsOutcome DEF OutcomeKept
<1>2. QED
  BY <1>1, TypeCorrect, PTL DEF Spec, FirstOutcomeStays

\* The queue acknowledges only a run that has an outcome.
THEOREM AcknowledgedRunIsReported == Spec => []AckedRunIsReported
<1>1. Init => AckedRunIsReported
  BY DEF Init, AckedRunIsReported, Message
<1>2. TypeOK /\ AckedRunIsReported /\ [Next]_vars => AckedRunIsReported'
  BY StepKeepsOutcome DEF OutcomeKept, OpenStatus, AckedRunIsReported
<1>3. QED
  BY <1>1, <1>2, TypeCorrect, PTL DEF Spec

-----------------------------------------------------------------------------
(* One execution at a time *)

\* The queue makes no copies, a claim outlasts the route that makes it, and
\* the second redelivery waits longer than any route runs.
Punctual == Duplicates = 0 /\ MaxDuration <= Lease /\ MaxDuration <= LaterDelay

Live(d) == routes[d].step \in LiveStep
IsExecuting(d) == routes[d].step \in ExecutingStep

Arrivals == \A d \in Deliveries : routes[d].step # "none" <=> d <= message.attempts
Dispatched == dispatch = "pending" => message.state = "none" /\ message.attempts = 0

\* A live route has minutes left.
RoutesAreTimed == \A d \in Deliveries : Live(d) => routes[d].left >= 1

\* When the third delivery or a later one comes, every earlier route is over.
RedeliveryWaits ==
  message.state = "waiting" /\ message.attempts >= 2 =>
    \A d \in Deliveries : Live(d) => routes[d].left <= message.wait
OnlyLastIsLive ==
  message.attempts >= 3 => \A d \in Deliveries : Live(d) => d = message.attempts

\* While the first route is live, any claim is younger than that route.
FirstRouteIsOlder ==
  \A d \in Deliveries :
    d = 1 /\ Live(d) /\ run.started # NotStarted => run.started + routes[d].left <= MaxDuration

Claims ==
  /\ \A d \in Deliveries : IsExecuting(d) => run.status # "Queued"
  /\ run.status = "Running" => run.started # NotStarted
  /\ message.attempts = 0 => run.started = NotStarted

Timing ==
  /\ Arrivals
  /\ Dispatched
  /\ RoutesAreTimed
  /\ RedeliveryWaits
  /\ OnlyLastIsLive
  /\ FirstRouteIsOlder
  /\ Claims
  /\ OneExecution

\* Most steps start no route, claim nothing and let no time pass.
Calm ==
  /\ \A d \in Deliveries :
       /\ routes'[d].left = routes[d].left
       /\ routes'[d].step = "none" <=> routes[d].step = "none"
       /\ routes'[d].step \in LiveStep => routes[d].step \in LiveStep
       /\ routes'[d].step \in ExecutingStep => routes[d].step \in ExecutingStep
  /\ run'.started = run.started
  /\ run'.status \in OpenStatus => run'.status = run.status
  /\ message'.attempts = message.attempts
  /\ message'.state = "waiting" /\ message.attempts >= 2 =>
       message' = message \/ message'.wait = LaterDelay
  /\ message.state = "none" => message' = message
  /\ dispatch' = "pending" => dispatch = "pending"

LEMMA CalmKeepsTiming ==
  ASSUME Punctual, TypeOK, Timing, Calm
  PROVE  Timing'
<1>1. Arrivals'
  BY DEF Timing, Arrivals, Calm
<1>2. Dispatched'
  BY DEF Timing, Dispatched, Calm
<1>3. RoutesAreTimed'
  BY DEF Timing, RoutesAreTimed, Live, Calm
<1>4. RedeliveryWaits'
  <2> SUFFICES ASSUME message'.state = "waiting", message'.attempts >= 2,
                      NEW d \in Deliveries, routes'[d].step \in LiveStep
               PROVE  routes'[d].left <= message'.wait
    BY DEF RedeliveryWaits, Live
  <2>1. routes'[d].left = routes[d].left /\ Live(d) /\ message.attempts >= 2
    BY DEF Calm, Live
  <2>2. CASE message' = message
    BY <2>1, <2>2 DEF Timing, RedeliveryWaits
  <2>3. CASE message'.wait = LaterDelay
    BY <2>1, <2>3, Columns, Constant DEF Punctual
  <2>4. QED
    BY <2>1, <2>2, <2>3 DEF Calm
<1>5. OnlyLastIsLive'
  BY DEF Timing, OnlyLastIsLive, Live, Calm
<1>6. FirstRouteIsOlder'
  BY DEF Timing, FirstRouteIsOlder, Live, Calm
<1>7. Claims'
  BY DEF Timing, Claims, IsExecuting, Calm, OpenStatus
<1>8. OneExecution'
  BY DEF Timing, OneExecution, Executing, Calm
<1>9. QED
  BY <1>1, <1>2, <1>3, <1>4, <1>5, <1>6, <1>7, <1>8 DEF Timing

LEMMA RouteStepIsCalm ==
  ASSUME TypeOK, Timing, NEW d \in Deliveries, RouteStepOf(d), ~ClaimQueuedAgentRun(d)
  PROVE  Calm
<1> USE DEF RouteStep, LiveStep, ExecutingStep
<1> DEFINE RoutesAreCalm ==
      \A e \in Deliveries :
        /\ routes'[e].left = routes[e].left
        /\ routes'[e].step = "none" <=> routes[e].step = "none"
        /\ routes'[e].step \in LiveStep => routes[e].step \in LiveStep
        /\ routes'[e].step \in ExecutingStep => routes[e].step \in ExecutingStep
    MessageIsCalm ==
      /\ message'.attempts = message.attempts
      /\ message'.state = "waiting" /\ message.attempts >= 2 =>
           message' = message \/ message'.wait = LaterDelay
      /\ message.state = "none" => message' = message
    RunIsCalm ==
      /\ run'.started = run.started
      /\ run'.status \in OpenStatus => run'.status = run.status
<1>1. dispatch' = dispatch
  BY DEF RouteStepOf, RefuseJob, ClaimQueuedAgentRun, AnswerUnclaimed, MarkAgentRunRunning,
         ExecutionFails, CompleteAgentRun, RefuseReport, FailAgentRun, RouteStops
<1>2. ASSUME NEW ok \in BOOLEAN, End(d, ok), routes[d].step # "none"
      PROVE  RoutesAreCalm /\ MessageIsCalm
  BY <1>2, RouteGoes, Answered DEF End
<1>3. ASSUME NEW step \in {"working", "failing"}, GoTo(d, step),
             routes[d].step \in ExecutingStep
      PROVE  RoutesAreCalm
  BY <1>3, RouteGoes
<1>4. ASSUME FailRun PROVE RunIsCalm
  BY <1>4, RunFails DEF OpenStatus, ActiveStatus
<1>5. CASE RefuseJob(d)
  BY <1>1, <1>2, <1>5 DEF RefuseJob, Calm
<1>6. CASE AnswerUnclaimed(d)
  BY <1>1, <1>2, <1>6 DEF AnswerUnclaimed, Calm
<1>7. CASE MarkAgentRunRunning(d)
  <2>1. RoutesAreCalm
    BY <1>3, <1>7 DEF MarkAgentRunRunning
  <2>2. RunIsCalm
    <3>1. CASE run.status \in OpenStatus
      <4>1. run.status = "Running" /\ run.started # NotStarted
        BY <1>7, <3>1 DEF MarkAgentRunRunning, Startable, OpenStatus, Timing, Claims, IsExecuting
      <4>2. QED
        BY <1>7, <4>1, RunStarts DEF MarkAgentRunRunning, Startable
    <3>2. CASE run.status \notin OpenStatus
      BY <1>4, <1>7, <3>2 DEF MarkAgentRunRunning, Startable, OpenStatus
    <3>3. QED
      BY <3>1, <3>2
  <2>3. QED
    BY <1>1, <1>7, <2>1, <2>2 DEF MarkAgentRunRunning, Calm
<1>8. CASE ExecutionFails(d)
  BY <1>1, <1>3, <1>8 DEF ExecutionFails, Calm
<1>9. ASSUME NEW status \in {"Tests passed", "Failed", "No changes"}, CompleteAgentRun(d, status)
      PROVE  Calm
  <2>1. RunIsCalm
    BY <1>9, RunReported
       DEF CompleteAgentRun, RunStatus, ActiveStatus, TerminalStatus, OpenStatus
  <2>2. RoutesAreCalm /\ MessageIsCalm
    BY <1>2, <1>3, <1>9 DEF CompleteAgentRun
  <2>3. QED
    BY <1>1, <2>1, <2>2 DEF Calm
<1>10. CASE RefuseReport(d)
  BY <1>1, <1>3, <1>4, <1>10 DEF RefuseReport, Calm
<1>11. CASE FailAgentRun(d)
  <2>1. PICK ok \in {FALSE, run.status # "Deleted"} : End(d, ok)
    BY <1>11 DEF FailAgentRun
  <2>2. ok \in BOOLEAN
    BY <2>1
  <2>3. QED
    BY <1>1, <1>2, <1>4, <1>11, <2>1, <2>2 DEF FailAgentRun, Calm
<1>12. CASE RouteStops(d)
  BY <1>1, <1>2, <1>12 DEF RouteStops, Calm
<1>13. QED
  BY <1>5, <1>6, <1>7, <1>8, <1>9, <1>10, <1>11, <1>12 DEF RouteStepOf

LEMMA TaskStepIsCalm ==
  ASSUME TypeOK, NEW d \in Deliveries, TaskStepOf(d)
  PROVE  Calm
<1>1. UNCHANGED <<dispatch, message, routes>>
  BY DEF TaskStepOf, VerifyAgentRun, PublishAgentRun, RecordPublication, FailTask, TaskStops
<1>2. run'.started = run.started /\ (run'.status \in OpenStatus => run'.status = run.status)
  <2>1. CASE UNCHANGED run
    BY <2>1
  <2>2. CASE FailRun
    BY <2>2, RunFails DEF OpenStatus, ActiveStatus
  <2>3. CASE \E status \in {"Failed", "Draft PR opened"} :
               run' = [run EXCEPT !.status = status, !.report = d]
    BY <2>3, RunReported DEF OpenStatus, RunStatus, TerminalStatus
  <2>4. QED
    BY <2>1, <2>2, <2>3
       DEF TaskStepOf, VerifyAgentRun, PublishAgentRun, RecordPublication, FailTask, TaskStops
<1>3. QED
  BY <1>1, <1>2 DEF Calm

\* A claim finds no other route at work.
LEMMA ClaimKeepsTiming ==
  ASSUME Punctual, TypeOK, Timing, NEW d \in Deliveries, ClaimQueuedAgentRun(d)
  PROVE  Timing'
<1>1. /\ routes[d].step = "arrived" /\ Claimable
      /\ UNCHANGED <<dispatch, message>>
      /\ run'.status = "Running"
      /\ run'.started = IF run.started = NotStarted THEN 0 ELSE run.started
      /\ \A e \in Deliveries :
           /\ routes'[e].left = routes[e].left
           /\ routes'[e].step = IF e = d THEN "claimed" ELSE routes[e].step
  BY RunStarts, RouteGoes DEF ClaimQueuedAgentRun, RouteStep, LiveStep, ExecutingStep
<1>2. Live(d) /\ ~IsExecuting(d)
  BY <1>1 DEF Live, IsExecuting, LiveStep, ExecutingStep
<1>3. \A e \in Deliveries : routes'[e].step \in LiveStep <=> Live(e)
  BY <1>1, <1>2 DEF Live, LiveStep, ExecutingStep
<1>4. message.attempts >= 1
  <2>1. d <= message.attempts /\ d >= 1
    BY <1>1 DEF Timing, Arrivals, Deliveries
  <2>2. QED
    BY <2>1, Columns, Constant
<1>5. \A e \in Deliveries : ~IsExecuting(e)
  <2> SUFFICES ASSUME NEW e \in Deliveries, IsExecuting(e) PROVE FALSE
    OBVIOUS
  <2>1. Live(e) /\ e # d
    BY <1>2 DEF Live, IsExecuting, LiveStep
  <2>2. run.status = "Running" /\ run.started = Lease
    BY <1>1 DEF Claimable, Timing, Claims
  <2>3. message.attempts <= 2
    BY <1>2, <2>1, Columns, Constant DEF Timing, OnlyLastIsLive
  <2>4. d \in 1..2 /\ e \in 1..2
    <3>1. d <= message.attempts /\ e <= message.attempts
      BY <1>1, <2>1 DEF Timing, Arrivals, Live, LiveStep, ExecutingStep
    <3>2. QED
      BY <2>3, <3>1, Columns, Constant DEF Deliveries
  <2>5. PICK f \in Deliveries : f = 1 /\ Live(f)
    BY <1>2, <2>1, <2>4
  <2>6. run.started + routes[f].left <= MaxDuration /\ routes[f].left >= 1
    BY <2>2, <2>5, Constant DEF Timing, FirstRouteIsOlder, RoutesAreTimed, NotStarted
  <2>7. QED
    BY <2>2, <2>6, Columns, Constant DEF Punctual
<1>6. Arrivals' /\ Dispatched'
  BY <1>1 DEF Timing, Arrivals, Dispatched
<1>7. RoutesAreTimed' /\ RedeliveryWaits' /\ OnlyLastIsLive'
  BY <1>1, <1>3 DEF Timing, RoutesAreTimed, RedeliveryWaits, OnlyLastIsLive, Live
<1>8. FirstRouteIsOlder'
  <2> SUFFICES ASSUME NEW e \in Deliveries, e = 1, routes'[e].step \in LiveStep
               PROVE  run'.started + routes'[e].left <= MaxDuration
    BY DEF FirstRouteIsOlder, Live
  <2>1. Live(e) /\ routes'[e].left = routes[e].left
    BY <1>1, <1>3
  <2>2. CASE run.started = NotStarted
    BY <1>1, <2>1, <2>2, Columns, Constant
  <2>3. CASE run.started # NotStarted
    BY <1>1, <2>1, <2>3 DEF Timing, FirstRouteIsOlder
  <2>4. QED
    BY <2>2, <2>3
<1>9. Claims'
  <2>1. run'.started # NotStarted
    BY <1>1, Constant DEF NotStarted
  <2>2. QED
    BY <1>1, <1>4, <2>1, Columns DEF Claims
<1>10. OneExecution'
  BY <1>1, <1>5 DEF OneExecution, Executing, IsExecuting
<1>11. QED
  BY <1>6, <1>7, <1>8, <1>9, <1>10 DEF Timing

LEMMA DeliveryKeepsTiming ==
  ASSUME Punctual, TypeOK, Timing, NEW d \in Deliveries, Deliver(d)
  PROVE  Timing'
<1> DEFINE n == message.attempts
<1>1. /\ message.state = "waiting" /\ message.wait = 0
      /\ message'.attempts = n + 1 /\ message'.state = "delivered"
      /\ UNCHANGED <<run, dispatch>>
  BY DEF Deliver, Message
<1>2. routes[d].step = "none"
      /\ \A e \in Deliveries :
           IF e = d THEN routes'[e].step = "arrived" /\ routes'[e].left = MaxDuration
                    ELSE routes'[e] = routes[e]
  BY RouteArrives DEF Deliver
<1>3. n \in Nat /\ d \in Nat /\ n <= MaxRetries
  BY <1>1, Columns, Constant DEF TypeOK
<1>4. d = n + 1
  <2>1. \A e \in Deliveries : e < d => e <= n
    BY DEF Deliver, Arrive, Timing, Arrivals
  <2>2. ~(d <= n)
    BY <1>2 DEF Timing, Arrivals
  <2>3. n + 1 \in Deliveries
    BY <1>3, Constant DEF Deliveries
  <2>4. QED
    BY <1>3, <2>1, <2>2, <2>3
<1>5. n >= 2 => \A e \in Deliveries : ~Live(e)
  BY <1>1, Columns, Constant DEF Timing, RedeliveryWaits, RoutesAreTimed
<1>6. Arrivals'
  <2>1. \A e \in Deliveries : e <= n + 1 <=> e = d \/ e <= n
    BY <1>3, <1>4, Constant
  <2>2. \A e \in Deliveries : routes'[e].step # "none" <=> e = d \/ routes[e].step # "none"
    BY <1>2
  <2>3. QED
    BY <1>1, <2>1, <2>2 DEF Timing, Arrivals
<1>7. Dispatched' /\ RedeliveryWaits'
  BY <1>1 DEF Timing, Dispatched, RedeliveryWaits
<1>8. RoutesAreTimed'
  BY <1>2, Constant DEF Timing, RoutesAreTimed, Live
<1>9. OnlyLastIsLive'
  BY <1>1, <1>2, <1>3, <1>4, <1>5 DEF OnlyLastIsLive, Live
<1>10. FirstRouteIsOlder'
  <2> SUFFICES ASSUME NEW e \in Deliveries, e = 1, routes'[e].step \in LiveStep,
                      run.started # NotStarted
               PROVE  run.started + routes'[e].left <= MaxDuration
    BY <1>1 DEF FirstRouteIsOlder, Live
  <2>1. e # d
    BY <1>3, <1>4 DEF Timing, Claims
  <2>2. QED
    BY <1>2, <2>1 DEF Timing, FirstRouteIsOlder, Live
<1>11. Claims' /\ OneExecution'
  <2>1. \A e \in Deliveries : routes'[e].step \in ExecutingStep <=> routes[e].step \in ExecutingStep
    BY <1>2 DEF ExecutingStep
  <2>2. OneExecution'
    BY <2>1 DEF Timing, OneExecution, Executing
  <2>3. QED
    BY <1>1, <1>3, <2>1, <2>2 DEF Timing, Claims, IsExecuting
<1>12. QED
  BY <1>6, <1>7, <1>8, <1>9, <1>10, <1>11 DEF Timing

\* Every delivery the job was sent for has arrived, so there is no copy.
LEMMA NoCopies ==
  ASSUME Punctual, TypeOK, Timing, NEW d \in Deliveries, DeliverDuplicate(d)
  PROVE  FALSE
<1> DEFINE arrived == {e \in Deliveries : routes[e].step # "none"}
<1>1. message.attempts \in 0..(MaxRetries + 1)
  BY Columns
<1>2. arrived = 1..message.attempts
  BY <1>1, Constant DEF Timing, Arrivals, Deliveries, Punctual
<1>3. Cardinality(1..message.attempts) = message.attempts
  BY <1>1, FS_Interval
<1>4. Cardinality(arrived) < message.attempts + Duplicates
  BY DEF DeliverDuplicate
<1> HIDE DEF arrived
<1>5. Cardinality(arrived) = message.attempts
  BY <1>2, <1>3
<1>6. QED
  BY <1>1, <1>4, <1>5 DEF Punctual

LEMMA MinuteKeepsTiming ==
  ASSUME Punctual, TypeOK, Timing, Tick
  PROVE  Timing'
<1>1. \A d \in Deliveries : Live(d) => routes[d].left > 1
  BY DEF Tick, Live
<1>2. \A d \in Deliveries : routes'[d].step = routes[d].step
  BY MinutePasses
<1>3. \A d \in Deliveries : Live(d) => routes'[d].left = routes[d].left - 1
  BY <1>1, MinutePasses, Columns, Constant DEF Less
<1>4. dispatch' = dispatch /\ message'.state = message.state
      /\ message'.attempts = message.attempts /\ run'.status = run.status
  BY MinutePasses DEF Tick
<1>5. message'.wait >= message.wait - 1 /\ message'.wait \in Nat /\ message.wait \in Nat
  BY MinutePasses, Columns, Constant DEF Less
<1>6. run'.started \in {run.started, run.started + 1}
      /\ (run'.started = NotStarted <=> run.started = NotStarted)
  BY MinutePasses, Columns, Constant DEF NotStarted
<1>7. Arrivals' /\ Dispatched' /\ OnlyLastIsLive'
  BY <1>2, <1>4 DEF Timing, Arrivals, Dispatched, OnlyLastIsLive, Live
<1>8. RoutesAreTimed'
  BY <1>1, <1>2, <1>3, Columns, Constant DEF RoutesAreTimed, Live
<1>9. RedeliveryWaits'
  <2> SUFFICES ASSUME message.state = "waiting", message.attempts >= 2,
                      NEW d \in Deliveries, Live(d)
               PROVE  routes'[d].left <= message'.wait
    BY <1>2, <1>4 DEF RedeliveryWaits, Live
  <2>1. routes[d].left <= message.wait /\ routes'[d].left = routes[d].left - 1
    BY <1>3 DEF Timing, RedeliveryWaits
  <2>2. QED
    BY <1>5, <2>1, Columns, Constant
<1>10. FirstRouteIsOlder'
  <2> SUFFICES ASSUME NEW d \in Deliveries, d = 1, Live(d), run.started # NotStarted
               PROVE  run'.started + routes'[d].left <= MaxDuration
    BY <1>2, <1>6 DEF FirstRouteIsOlder, Live
  <2>1. run.started + routes[d].left <= MaxDuration /\ routes'[d].left = routes[d].left - 1
    BY <1>3 DEF Timing, FirstRouteIsOlder
  <2>2. QED
    BY <1>6, <2>1, Columns, Constant DEF NotStarted
<1>11. Claims' /\ OneExecution'
  BY <1>2, <1>4, <1>6 DEF Timing, Claims, IsExecuting, OneExecution, Executing
<1>12. QED
  BY <1>7, <1>8, <1>9, <1>10, <1>11 DEF Timing

LEMMA InitTimed == Init => Timing
<1> SUFFICES ASSUME Init PROVE Timing
  OBVIOUS
<1>1. \A d \in Deliveries : routes[d].step = "none" /\ ~(d <= 0)
  BY Constant DEF Init, Deliveries
<1>2. /\ message.attempts = 0 /\ message.state = "none"
      /\ run.started = NotStarted /\ run.status = "Queued"
  BY DEF Init, Message
<1>3. QED
  BY <1>1, <1>2 DEF Timing, Arrivals, Dispatched, RoutesAreTimed, RedeliveryWaits, OnlyLastIsLive,
     FirstRouteIsOlder, Claims, OneExecution, Live, IsExecuting, Executing, LiveStep, ExecutingStep

LEMMA TimingStep ==
  ASSUME Punctual
  PROVE  TypeOK /\ Timing /\ [Next]_vars => Timing'
<1> SUFFICES ASSUME TypeOK, Timing, [Next]_vars PROVE Timing'
  OBVIOUS
<1>1. CASE DispatchAgentRun
  <2>1. /\ message.attempts = 0 /\ message'.attempts = 0 /\ dispatch' # "pending"
        /\ UNCHANGED <<run, routes>>
    BY <1>1 DEF DispatchAgentRun, Message, Timing, Dispatched
  <2>2. QED
    BY <2>1 DEF Timing, Arrivals, Dispatched, RoutesAreTimed, RedeliveryWaits, OnlyLastIsLive,
       FirstRouteIsOlder, Claims, OneExecution, Live, IsExecuting, Executing
<1>2. CASE FailDispatch
  <2>1. Calm
    BY <1>2, RunFails DEF FailDispatch, Calm, OpenStatus, ActiveStatus
  <2>2. QED
    BY <2>1, CalmKeepsTiming
<1>3. ASSUME NEW d \in Deliveries, RouteStepOf(d) \/ TaskStepOf(d)
      PROVE  Timing'
  BY <1>3, RouteStepIsCalm, TaskStepIsCalm, ClaimKeepsTiming, CalmKeepsTiming
<1>4. CASE LoseConnection
  <2>1. Calm
    BY <1>4, JobRetried DEF LoseConnection, Calm
  <2>2. QED
    BY <2>1, CalmKeepsTiming
<1>5. CASE CancelAgentRun \/ DeleteAgentRun
  <2>1. Calm
    <3>1. UNCHANGED <<dispatch, message, routes>>
      BY <1>5 DEF CancelAgentRun, DeleteAgentRun
    <3>2. PICK status \in {"Cancelled", "Deleted"} : run' = [run EXCEPT !.status = status]
      BY <1>5 DEF CancelAgentRun, DeleteAgentRun
    <3>3. run'.started = run.started /\ run'.status \notin OpenStatus
      BY <3>2, RunClosed DEF RunStatus, TerminalStatus, OpenStatus
    <3>4. QED
      BY <3>1, <3>3 DEF Calm
  <2>2. QED
    BY <2>1, CalmKeepsTiming
<1>6. CASE UNCHANGED vars
  <2>1. Calm
    BY <1>6 DEF vars, Calm
  <2>2. QED
    BY <2>1, CalmKeepsTiming
<1>7. QED
  BY <1>1, <1>2, <1>3, <1>4, <1>5, <1>6, DeliveryKeepsTiming, NoCopies, MinuteKeepsTiming
     DEF Next

\* If the queue makes no copies, a claim outlasts the route that makes it and
\* a later redelivery waits longer than a route runs, then at most one route
\* executes the run, though claimQueuedAgentRun never renews a claim.
THEOREM RunIsExecutedOnce == Punctual => (Spec => []OneExecution)
<1> SUFFICES ASSUME Punctual PROVE Spec => []OneExecution
  OBVIOUS
<1>1. Timing => OneExecution
  BY DEF Timing
<1>2. TypeOK /\ Timing /\ [Next]_vars => Timing'
  BY TimingStep
<1>3. QED
  BY <1>1, <1>2, InitTimed, TypeCorrect, PTL DEF Spec

-----------------------------------------------------------------------------
(* One report *)

\* Once a report is being verified, no route executes the run, and the run
\* keeps that report.
TaskOwnsRun ==
  \A d \in Deliveries : tasks[d] # "none" =>
    /\ run.status \notin OpenStatus /\ run.report = d
    /\ \A e \in Deliveries : ~IsExecuting(e)

TaskIsVerified ==
  \A d \in Deliveries :
    /\ tasks[d] \in {"publishing", "recording"} => d \in github.verified
    /\ tasks[d] = "recording" => github.pull /\ github.branch = d

BranchHasTask == github.branch # NoDelivery => tasks[github.branch] # "none"

Publishing ==
  /\ TaskOwnsRun
  /\ TaskIsVerified
  /\ BranchHasTask
  /\ RecordedReportIsPublished

\* Most steps leave the tasks, the branch and the report alone.
Unpublished ==
  /\ UNCHANGED <<tasks, github>>
  /\ run'.report = run.report
  /\ run.status \notin OpenStatus => run'.status \notin OpenStatus
  /\ run'.status = "Draft PR opened" => run.status = "Draft PR opened"
  /\ \A d \in Deliveries :
       routes'[d].step \in ExecutingStep => IsExecuting(d) \/ run.status \in OpenStatus

LEMMA UnpublishedKeepsPublishing ==
  ASSUME Publishing, Unpublished
  PROVE  Publishing'
<1>1. TaskOwnsRun'
  BY DEF Publishing, Unpublished, TaskOwnsRun, IsExecuting
<1>2. TaskIsVerified' /\ BranchHasTask' /\ RecordedReportIsPublished'
  BY DEF Publishing, Unpublished, TaskIsVerified, BranchHasTask, RecordedReportIsPublished
<1>3. QED
  BY <1>1, <1>2 DEF Publishing

LEMMA FailedRunIsUnpublished ==
  ASSUME TypeOK, FailRun
  PROVE  /\ run'.report = run.report
         /\ run'.status \notin OpenStatus
         /\ run'.status = "Draft PR opened" => run.status = "Draft PR opened"
BY RunFails DEF OpenStatus, ActiveStatus

\* The route whose report is taken is the only one at work, so no report was
\* taken before.
LEMMA ReportKeepsPublishing ==
  ASSUME TypeOK, Timing, Publishing, NEW d \in Deliveries,
         NEW status \in {"Tests passed", "Failed", "No changes"}, CompleteAgentRun(d, status)
  PROVE  Publishing'
<1>1. IsExecuting(d) /\ run.status \in ActiveStatus /\ UNCHANGED github
  BY DEF CompleteAgentRun, IsActive, IsExecuting, ExecutingStep
<1>2. run'.status = status /\ run'.report = d
  BY RunReported DEF CompleteAgentRun, RunStatus, ActiveStatus, TerminalStatus
<1>3. \A e \in Deliveries : tasks[e] = "none"
  BY <1>1 DEF Publishing, TaskOwnsRun
<1>4. github.branch = NoDelivery
  BY <1>3, Columns DEF Publishing, BranchHasTask
<1>5. \A e \in Deliveries : routes'[e].step \notin ExecutingStep
  <2>1. \A e \in Deliveries : IsExecuting(e) => e = d
    BY <1>1 DEF Timing, OneExecution, Executing, IsExecuting
  <2>2. PICK step \in {"done", "failing"} : GoTo(d, step)
    BY DEF CompleteAgentRun, End
  <2>3. \A e \in Deliveries : routes'[e].step = IF e = d THEN step ELSE routes[e].step
    BY <2>2, RouteGoes DEF RouteStep, LiveStep
  <2>4. QED
    BY <2>1, <2>3 DEF IsExecuting, ExecutingStep
<1>6. \A e \in Deliveries : tasks'[e] = "none" \/ (e = d /\ tasks'[e] = "verifying")
  BY <1>3, TaskGoes DEF CompleteAgentRun, TaskStep, LiveTask
<1>7. TaskOwnsRun'
  BY <1>2, <1>5, <1>6 DEF TaskOwnsRun, OpenStatus, IsExecuting
<1>8. TaskIsVerified' /\ BranchHasTask' /\ RecordedReportIsPublished'
  BY <1>1, <1>2, <1>4, <1>6 DEF TaskIsVerified, BranchHasTask, RecordedReportIsPublished
<1>9. QED
  BY <1>7, <1>8 DEF Publishing

LEMMA RouteKeepsPublishing ==
  ASSUME TypeOK, Timing, Publishing, NEW d \in Deliveries, RouteStepOf(d)
  PROVE  Publishing'
<1>1. CASE ClaimQueuedAgentRun(d)
  <2>1. run.status \in OpenStatus
    BY <1>1 DEF ClaimQueuedAgentRun, Claimable, OpenStatus
  <2>2. Unpublished
    BY <1>1, <2>1, RunStarts DEF ClaimQueuedAgentRun, Unpublished
  <2>3. QED
    BY <2>2, UnpublishedKeepsPublishing
<1>2. CASE \E status \in {"Tests passed", "Failed", "No changes"} : CompleteAgentRun(d, status)
  BY <1>2, ReportKeepsPublishing
<1>3. CASE /\ ~ClaimQueuedAgentRun(d)
           /\ ~\E status \in {"Tests passed", "Failed", "No changes"} : CompleteAgentRun(d, status)
  <2>1. \A e \in Deliveries : routes'[e].step \in ExecutingStep => IsExecuting(e)
    BY <1>3, RouteStepIsCalm DEF Calm, IsExecuting
  <2>2. UNCHANGED <<tasks, github>>
    BY <1>3 DEF RouteStepOf, RefuseJob, AnswerUnclaimed, MarkAgentRunRunning, ExecutionFails,
       RefuseReport, FailAgentRun, RouteStops
  <2>3. /\ run'.report = run.report
        /\ run.status \notin OpenStatus => run'.status \notin OpenStatus
        /\ run'.status = "Draft PR opened" => run.status = "Draft PR opened"
    <3>1. CASE UNCHANGED run
      BY <3>1
    <3>2. CASE FailRun
      BY <3>2, FailedRunIsUnpublished
    <3>3. CASE run' = Started /\ run.status \in OpenStatus
      BY <3>3, RunStarts
    <3>4. QED
      BY <1>3, <3>1, <3>2, <3>3
         DEF RouteStepOf, RefuseJob, AnswerUnclaimed, MarkAgentRunRunning, Startable, ExecutionFails,
             RefuseReport, FailAgentRun, RouteStops, OpenStatus
  <2>4. QED
    BY <2>1, <2>2, <2>3, UnpublishedKeepsPublishing DEF Unpublished
<1>4. QED
  BY <1>1, <1>2, <1>3

LEMMA TaskKeepsPublishing ==
  ASSUME TypeOK, Publishing, NEW d \in Deliveries, TaskStepOf(d)
  PROVE  Publishing'
<1>1. /\ tasks[d] # "none" /\ run.report = d /\ run.status \notin OpenStatus
      /\ \A e \in Deliveries : ~IsExecuting(e) /\ (tasks[e] # "none" => e = d)
  BY DEF TaskStepOf, VerifyAgentRun, PublishAgentRun, RecordPublication, FailTask, TaskStops,
     LiveTask, Publishing, TaskOwnsRun
<1>2. UNCHANGED routes
  BY DEF TaskStepOf, VerifyAgentRun, PublishAgentRun, RecordPublication, FailTask, TaskStops
<1>3. github.branch \in {NoDelivery, d} /\ NoDelivery # d
  BY <1>1, Columns, Constant DEF Publishing, BranchHasTask
<1>4. run.status = "Draft PR opened" =>
        github.pull /\ github.branch = d /\ d \in github.verified
  BY <1>1 DEF Publishing, RecordedReportIsPublished
<1>5. ASSUME NEW step \in TaskStep \ {"none"}, tasks' = [tasks EXCEPT ![d] = step],
             run'.report = d, run'.status \notin OpenStatus,
             github'.branch \in {NoDelivery, d},
             step \in {"publishing", "recording"} => d \in github'.verified,
             step = "recording" => github'.pull /\ github'.branch = d,
             run'.status = "Draft PR opened" =>
               github'.pull /\ github'.branch = d /\ d \in github'.verified
      PROVE  Publishing'
  <2>1. \A e \in Deliveries : tasks'[e] = IF e = d THEN step ELSE "none"
    BY <1>1, <1>5, TaskGoes
  <2>2. TaskOwnsRun'
    BY <1>1, <1>2, <1>5, <2>1 DEF TaskOwnsRun, IsExecuting
  <2>3. TaskIsVerified'
    <3> SUFFICES ASSUME NEW e \in Deliveries
                 PROVE  /\ tasks'[e] \in {"publishing", "recording"} => e \in github'.verified
                        /\ tasks'[e] = "recording" => github'.pull /\ github'.branch = e
      BY DEF TaskIsVerified
    <3>1. CASE e = d
      BY <1>5, <2>1, <3>1
    <3>2. CASE e # d
      BY <2>1, <3>2
    <3>3. QED
      BY <3>1, <3>2
  <2>4. BranchHasTask' /\ RecordedReportIsPublished'
    BY <1>5, <2>1 DEF BranchHasTask, RecordedReportIsPublished
  <2>5. QED
    BY <2>2, <2>3, <2>4 DEF Publishing
<1> USE DEF TaskStep, LiveTask, TaskGoTo
<1>6. CASE VerifyAgentRun(d)
  <2>1. CASE TaskGoTo(d, "publishing") /\ github' = [github EXCEPT !.verified = @ \cup {d}]
             /\ UNCHANGED run
    <3>1. /\ github'.branch = github.branch /\ github'.pull = github.pull
          /\ github'.verified = github.verified \cup {d}
      BY <2>1 DEF TypeOK, Publications
    <3>2. QED
      BY <1>1, <1>3, <1>4, <1>5, <2>1, <3>1
  <2>2. CASE TaskGoTo(d, "failing") /\ UNCHANGED <<run, github>>
    BY <1>1, <1>3, <1>4, <1>5, <2>2
  <2>3. CASE run' = [run EXCEPT !.status = "Failed", !.report = d]
             /\ TaskGoTo(d, "done") /\ UNCHANGED github
    <3>1. run'.status = "Failed" /\ run'.report = d
      BY <2>3, RunReported DEF RunStatus, TerminalStatus
    <3>2. QED
      BY <1>3, <1>5, <2>3, <3>1 DEF OpenStatus
  <2>4. QED
    BY <1>6, <2>1, <2>2, <2>3 DEF VerifyAgentRun
<1>7. CASE PublishAgentRun(d)
  <2>1. UNCHANGED run /\ tasks[d] = "publishing" /\ d \in github.verified
    BY <1>7 DEF PublishAgentRun, Publishing, TaskIsVerified
  <2>2. CASE TaskGoTo(d, "failing") /\ UNCHANGED github
    BY <1>1, <1>3, <1>4, <1>5, <2>1, <2>2
  <2>3. ASSUME NEW pull \in BOOLEAN, NEW step \in {"failing", "recording"},
               github' = [github EXCEPT !.branch = IF @ = NoDelivery THEN d ELSE @,
                                        !.pull = @ \/ pull],
               TaskGoTo(d, step), step = "recording" => pull
        PROVE  Publishing'
    <3>1. github' = [branch |-> IF github.branch = NoDelivery THEN d ELSE github.branch,
                     pull |-> github.pull \/ pull, verified |-> github.verified]
      BY <2>3 DEF TypeOK, Publications
    <3>2. /\ github'.branch = d /\ github'.verified = github.verified
          /\ github.pull => github'.pull
          /\ step = "recording" => github'.pull
      BY <1>3, <2>3, <3>1, Columns
    <3>3. QED
      BY <1>1, <1>4, <1>5, <2>1, <2>3, <3>2
  <2>4. QED
    BY <1>7, <2>2, <2>3 DEF PublishAgentRun
<1>8. CASE RecordPublication(d)
  <2>1. UNCHANGED github /\ github.pull /\ github.branch = d /\ d \in github.verified
    BY <1>8 DEF RecordPublication, Publishing, TaskIsVerified
  <2>2. CASE run' = [run EXCEPT !.status = "Draft PR opened", !.report = d] /\ TaskGoTo(d, "done")
    <3>1. run'.status = "Draft PR opened" /\ run'.report = d
      BY <2>2, RunReported DEF RunStatus, TerminalStatus
    <3>2. QED
      BY <1>5, <2>1, <2>2, <3>1 DEF OpenStatus
  <2>3. CASE TaskGoTo(d, "failing") /\ UNCHANGED run
    BY <1>1, <1>5, <2>1, <2>3
  <2>4. QED
    BY <1>8, <2>2, <2>3 DEF RecordPublication
<1>9. CASE FailTask(d) \/ TaskStops(d)
  <2>1. UNCHANGED github /\ TaskGoTo(d, "done")
    BY <1>9 DEF FailTask, TaskStops
  <2>2. /\ run'.report = d /\ run'.status \notin OpenStatus
        /\ run'.status = "Draft PR opened" => run.status = "Draft PR opened"
    BY <1>1, <1>9, FailedRunIsUnpublished DEF FailTask, TaskStops
  <2>3. QED
    BY <1>3, <1>4, <1>5, <2>1, <2>2
<1>10. QED
  BY <1>6, <1>7, <1>8, <1>9 DEF TaskStepOf

LEMMA PublishingStep ==
  ASSUME Punctual
  PROVE  TypeOK /\ Timing /\ Publishing /\ [Next]_vars => Publishing'
<1> SUFFICES ASSUME TypeOK, Timing, Publishing, [Next]_vars PROVE Publishing'
  OBVIOUS
<1>1. CASE \E d \in Deliveries : RouteStepOf(d) \/ TaskStepOf(d)
  BY <1>1, RouteKeepsPublishing, TaskKeepsPublishing
<1>2. CASE DispatchAgentRun \/ LoseConnection \/ UNCHANGED vars
  <2>1. Unpublished
    BY <1>2 DEF DispatchAgentRun, LoseConnection, vars, Unpublished, IsExecuting
  <2>2. QED
    BY <2>1, UnpublishedKeepsPublishing
<1>3. CASE FailDispatch
  <2>1. Unpublished
    BY <1>3, FailedRunIsUnpublished DEF FailDispatch, Unpublished, IsExecuting
  <2>2. QED
    BY <2>1, UnpublishedKeepsPublishing
<1>4. ASSUME NEW d \in Deliveries, Deliver(d)
      PROVE  Publishing'
  <2>1. \A e \in Deliveries : routes'[e].step \in ExecutingStep => IsExecuting(e)
    BY <1>4, RouteArrives DEF Deliver, IsExecuting, ExecutingStep
  <2>2. QED
    BY <1>4, <2>1, UnpublishedKeepsPublishing DEF Deliver, Unpublished
<1>5. CASE CancelAgentRun \/ DeleteAgentRun
  <2>1. UNCHANGED <<routes, tasks, github>>
    BY <1>5 DEF CancelAgentRun, DeleteAgentRun
  <2>2. PICK status \in {"Cancelled", "Deleted"} : run' = [run EXCEPT !.status = status]
    BY <1>5 DEF CancelAgentRun, DeleteAgentRun
  <2>3. run'.report = run.report /\ run'.status = status
    BY <2>2, RunClosed DEF RunStatus, TerminalStatus
  <2>4. QED
    BY <2>1, <2>2, <2>3, UnpublishedKeepsPublishing DEF Unpublished, OpenStatus, IsExecuting
<1>6. CASE Tick
  <2>1. UNCHANGED <<tasks, github>>
    BY <1>6 DEF Tick
  <2>2. QED
    BY <1>6, <2>1, MinutePasses, UnpublishedKeepsPublishing DEF Unpublished, IsExecuting
<1>7. QED
  BY <1>1, <1>2, <1>3, <1>4, <1>5, <1>6, NoCopies DEF Next

\* Under the same conditions the draft pull request holds the verified report
\* that the run records.
THEOREM PublishedReportIsRecorded == Punctual => (Spec => []RecordedReportIsPublished)
<1> SUFFICES ASSUME Punctual PROVE Spec => []RecordedReportIsPublished
  OBVIOUS
<1>1. Init => Publishing
  BY DEF Init, Publishing, TaskOwnsRun, TaskIsVerified, BranchHasTask, RecordedReportIsPublished
<1>2. Publishing => RecordedReportIsPublished
  BY DEF Publishing
<1>3. TypeOK /\ Timing /\ [Next]_vars => Timing'
  BY TimingStep
<1>4. TypeOK /\ Timing /\ Publishing /\ [Next]_vars => Publishing'
  BY PublishingStep
<1>5. QED
  BY <1>1, <1>2, <1>3, <1>4, InitTimed, TypeCorrect, PTL DEF Spec
-----------------------------------------------------------------------------
(* The life of a coding run *)

Moved(from, to) == run.status \in from /\ run'.status = to

\* The steps CodingRun allows, as the row of the run shows them.
LifeStep ==
  \/ run'.status = run.status
  \/ Moved(OpenStatus, "Running")
  \/ Moved(ActiveStatus, "Tests passed")
  \/ Moved({"Tests passed"}, "Draft PR opened")
  \/ Moved(ActiveStatus, "Failed")
  \/ Moved(ActiveStatus, "No changes")
  \/ Moved(ActiveStatus, "Cancelled")
  \/ Moved(TerminalStatus \cup {"Tests passed"}, "Deleted")

\* Only a report that passed its tests has a background task.
LifeInv ==
  /\ TypeOK
  /\ \A d \in Deliveries : tasks[d] # "none" => run.status \notin OpenStatus

LEMMA RouteLives ==
  ASSUME LifeInv, NEW d \in Deliveries, RouteStepOf(d)
  PROVE  LifeStep
<1> USE DEF LifeStep, Moved, ActiveStatus, OpenStatus
<1>0. TypeOK
  BY DEF LifeInv
<1>1. CASE UNCHANGED run
  BY <1>1
<1>2. CASE FailRun
  BY <1>0, <1>2, RunFails
<1>3. CASE ClaimQueuedAgentRun(d)
  BY <1>0, <1>3, RunStarts DEF ClaimQueuedAgentRun, Claimable
<1>4. CASE MarkAgentRunRunning(d)
  BY <1>0, <1>2, <1>4, RunStarts DEF MarkAgentRunRunning, Startable
<1>5. ASSUME NEW status \in {"Tests passed", "Failed", "No changes"}, CompleteAgentRun(d, status)
      PROVE  LifeStep
  <2>1. run'.status = status
    BY <1>0, <1>5, RunReported DEF CompleteAgentRun, RunStatus, TerminalStatus
  <2>2. run.status \in ActiveStatus
    BY <1>5 DEF CompleteAgentRun, IsActive
  <2>3. QED
    BY <2>1, <2>2
<1>6. QED
  BY <1>1, <1>2, <1>3, <1>4, <1>5
     DEF RouteStepOf, RefuseJob, AnswerUnclaimed, ExecutionFails, RefuseReport, FailAgentRun, RouteStops

LEMMA TaskLives ==
  ASSUME LifeInv, NEW d \in Deliveries, TaskStepOf(d)
  PROVE  LifeStep
<1> USE DEF LifeStep, Moved, ActiveStatus, OpenStatus
<1>0. TypeOK
  BY DEF LifeInv
<1>1. CASE UNCHANGED run
  BY <1>1
<1>2. CASE FailRun
  BY <1>0, <1>2, RunFails
<1>3. CASE VerifyAgentRun(d)
  BY <1>0, <1>1, <1>3, RunReported DEF VerifyAgentRun, IsActive, RunStatus, TerminalStatus
<1>4. CASE RecordPublication(d)
  <2>1. tasks[d] # "none"
    BY <1>4 DEF RecordPublication
  <2>2. CASE IsActive /\ run' = [run EXCEPT !.status = "Draft PR opened", !.report = d]
    <3>1. run'.status = "Draft PR opened"
      BY <1>0, <2>2, RunReported DEF RunStatus, TerminalStatus
    <3>2. run.status = "Tests passed"
      BY <2>1, <2>2 DEF IsActive, LifeInv
    <3>3. QED
      BY <3>1, <3>2
  <2>3. QED
    BY <1>1, <1>4, <2>2 DEF RecordPublication
<1>5. QED
  BY <1>1, <1>2, <1>3, <1>4 DEF TaskStepOf, PublishAgentRun, FailTask, TaskStops

LEMMA RunLives ==
  ASSUME LifeInv, [Next]_vars
  PROVE  LifeStep
<1> USE DEF LifeStep, Moved, ActiveStatus, OpenStatus
<1>0. TypeOK
  BY DEF LifeInv
<1>1. CASE UNCHANGED run
  BY <1>1
<1>2. CASE FailDispatch
  BY <1>0, <1>2, RunFails DEF FailDispatch
<1>3. CASE CancelAgentRun
  BY <1>0, <1>3, RunClosed DEF CancelAgentRun, RunStatus, TerminalStatus
<1>4. CASE DeleteAgentRun
  <2>1. run.status \in RunStatus
    BY <1>0, Columns
  <2>2. run'.status = "Deleted"
    BY <1>0, <1>4, RunClosed DEF DeleteAgentRun, RunStatus
  <2>3. QED
    BY <1>4, <2>1, <2>2 DEF DeleteAgentRun, RunStatus, TerminalStatus
<1>5. CASE Tick
  BY <1>0, <1>5, MinutePasses
<1>6. QED
  BY <1>1, <1>2, <1>3, <1>4, <1>5, RouteLives, TaskLives
     DEF Next, vars, DispatchAgentRun, Deliver, DeliverDuplicate, LoseConnection

LEMMA ReportStartsTask ==
  ASSUME TypeOK, [Next]_vars, NEW d \in Deliveries, tasks'[d] # "none"
  PROVE  tasks[d] # "none" \/ CompleteAgentRun(d, "Tests passed")
<1>1. CASE UNCHANGED tasks
  BY <1>1
<1>2. ASSUME NEW e \in Deliveries, TaskStepOf(e)
      PROVE  tasks[d] # "none"
  <2>1. tasks[e] # "none"
    BY <1>2 DEF TaskStepOf, VerifyAgentRun, PublishAgentRun, RecordPublication, FailTask, TaskStops, LiveTask
  <2>2. \E step : TaskGoTo(e, step)
    BY <1>2 DEF TaskStepOf, VerifyAgentRun, PublishAgentRun, RecordPublication, FailTask, TaskStops
  <2>3. QED
    BY <2>1, <2>2 DEF TaskGoTo, TypeOK
<1>3. ASSUME NEW e \in Deliveries, NEW status \in {"Tests passed", "Failed", "No changes"},
             CompleteAgentRun(e, status)
      PROVE  tasks[d] # "none" \/ CompleteAgentRun(d, "Tests passed")
  BY <1>3 DEF CompleteAgentRun, TypeOK
<1>4. ASSUME NEW e \in Deliveries, RouteStepOf(e)
      PROVE  tasks[d] # "none" \/ CompleteAgentRun(d, "Tests passed")
  BY <1>1, <1>3, <1>4
     DEF RouteStepOf, RefuseJob, ClaimQueuedAgentRun, AnswerUnclaimed, MarkAgentRunRunning,
         ExecutionFails, RefuseReport, FailAgentRun, RouteStops
<1>5. QED
  BY <1>1, <1>2, <1>4
     DEF Next, vars, DispatchAgentRun, FailDispatch, Deliver, DeliverDuplicate, LoseConnection,
         CancelAgentRun, DeleteAgentRun, Tick

LEMMA LifeKept == LifeInv /\ [Next]_vars => LifeInv'
<1> SUFFICES ASSUME LifeInv, [Next]_vars PROVE LifeInv'
  OBVIOUS
<1>1. TypeOK /\ TypeOK' /\ OutcomeKept /\ LifeStep
  BY TypeStep, StepKeepsOutcome, RunLives DEF LifeInv
<1>2. ASSUME NEW d \in Deliveries, tasks'[d] # "none"
      PROVE  run'.status \notin OpenStatus
  <2>1. tasks[d] # "none" \/ CompleteAgentRun(d, "Tests passed")
    BY <1>1, <1>2, ReportStartsTask
  <2>2. CASE tasks[d] # "none"
    BY <1>1, <2>2 DEF LifeInv, OutcomeKept
  <2>3. CASE CompleteAgentRun(d, "Tests passed")
    BY <1>1, <2>3, RunReported DEF CompleteAgentRun, RunStatus, ActiveStatus, OpenStatus
  <2>4. QED
    BY <2>1, <2>2, <2>3
<1>3. QED
  BY <1>1, <1>2 DEF LifeInv

LEMMA LifeMaps ==
  ASSUME TypeOK, LifeStep
  PROVE  [Life!Next]_[r \in {1} |-> run.status]
<1> DEFINE rows == [r \in {1} |-> run.status]
<1>1. \A to : [rows EXCEPT ![1] = to] = [r \in {1} |-> to]
  OBVIOUS
<1>2. ASSUME NEW from, NEW to, Moved(from, to)
      PROVE  Life!Moves(1, from, to)
  BY <1>1, <1>2 DEF Moved, Life!Moves
<1>3. CASE run'.status = run.status
  BY <1>3
<1>4. QED
  BY <1>2, <1>3
     DEF LifeStep, Life!Next, Life!Start, Life!Report, Life!Publish, Life!End, Life!Delete,
         Life!Unfinished, Life!Endings, Life!Outcomes, ActiveStatus, TerminalStatus, OpenStatus

\* However its job is delivered, copied, retried and reported, the run goes
\* the way of a coding run, for every lease, delay and number of copies.
THEOREM AgentExecutionImplementsCodingRun == Spec => ImplementsCodingRun
<1>1. Init => Life!Init /\ LifeInv
  BY InitTyped DEF Init, Life!Init, LifeInv, OpenStatus
<1>2. LifeInv /\ [Next]_vars => [Life!Next]_[r \in {1} |-> run.status]
  BY RunLives, LifeMaps DEF LifeInv
<1>3. QED
  BY <1>1, <1>2, LifeKept, PTL DEF Spec, ImplementsCodingRun, Life!Spec
=============================================================================
