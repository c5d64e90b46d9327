------------------------- MODULE BillingOutboxProofs -------------------------
(***************************************************************************)
(* Proofs about BillingOutbox, for any events, workers and limits: its     *)
(* types, that the provider knows the customer of all usage, that pending  *)
(* rows can be claimed, and that the outbox implements the ledger.         *)
(***************************************************************************)
EXTENDS BillingOutbox, TLAPS

-----------------------------------------------------------------------------
(* Facts about the state *)

LEMMA Constant ==
  /\ MaxAttempts \in Nat \ {0} /\ MaxRenames \in Nat /\ MaxRequeues \in Nat
  /\ 0 \in Names
  /\ TheCustomer \notin Events /\ NoRow \notin Events /\ TheCustomer # NoRow
<1>1. TheCustomer # NoRow
  BY DEF TheCustomer, NoRow
<1>2. 0 \in Names
  BY BoundsAssumption DEF Names
<1>3. QED
  BY <1>1, <1>2, AttemptsAssumption, BoundsAssumption, EventsAssumption

\* The columns of the rows and of the jobs, one by one.
LEMMA Columns ==
  ASSUME TypeOK
  PROVE  /\ customer.status \in CustomerStatus
         /\ customer.attempts \in 0..MaxAttempts /\ customer.abandoned \in BOOLEAN
         /\ \A e \in Events : /\ outbox[e].status \in EventStatus
                              /\ outbox[e].attempts \in 0..MaxAttempts
                              /\ outbox[e].abandoned \in BOOLEAN
         /\ \A w \in Workers : /\ jobs[w].phase \in {"idle", "customers", "events"}
                               /\ jobs[w].row \in Events \cup {TheCustomer, NoRow}
                               /\ jobs[w].attempts \in 0..MaxAttempts
                               /\ jobs[w].name \in Names
                               /\ jobs[w].answer \in Answers
         /\ provider.customers \subseteq Names
         /\ provider.accepted \subseteq Events
BY DEF TypeOK, Rows, Jobs

\* A row that is written anew.
LEMMA RowWritten ==
  ASSUME NEW statuses, NEW status \in statuses, NEW attempts \in 0..MaxAttempts
  PROVE  /\ Row(status, attempts) \in Rows(statuses)
         /\ Row(status, attempts).status = status
         /\ Row(status, attempts).attempts = attempts
BY DEF Row, Rows

\* A job that is replaced.
LEMMA JobReplaced ==
  ASSUME TypeOK, NEW w \in Workers, NEW phase \in {"idle", "customers", "events"},
         NEW row \in Events \cup {TheCustomer, NoRow}, NEW attempts \in 0..MaxAttempts,
         NEW name \in Names, jobs' = [jobs EXCEPT ![w] = Job(phase, row, attempts, name, "none")]
  PROVE  /\ jobs' \in [Workers -> Jobs]
         /\ jobs'[w].row = row /\ jobs'[w].answer = "none"
         /\ \A v \in Workers \ {w} : jobs'[v] = jobs[v]
<1>1. Job(phase, row, attempts, name, "none") \in Jobs
  BY DEF Job, Jobs, Answers
<1>2. jobs \in [Workers -> Jobs]
  BY DEF TypeOK
<1>3. jobs'[w] = Job(phase, row, attempts, name, "none")
  BY <1>2
<1>4. QED
  BY <1>1, <1>2, <1>3 DEF Job

LEMMA JobFreed ==
  ASSUME TypeOK, NEW w \in Workers, NEW phase \in {"idle", "customers", "events"},
         jobs' = [jobs EXCEPT ![w] = Free(phase)]
  PROVE  /\ jobs' \in [Workers -> Jobs]
         /\ jobs'[w].row = NoRow /\ jobs'[w].answer = "none"
         /\ \A v \in Workers \ {w} : jobs'[v] = jobs[v]
<1>1. Free(phase) \in Jobs
  BY Constant DEF Free, Job, Jobs, Answers
<1>2. jobs \in [Workers -> Jobs]
  BY DEF TypeOK
<1>3. jobs'[w] = Free(phase)
  BY <1>2
<1>4. QED
  BY <1>1, <1>2, <1>3 DEF Free, Job

LEMMA JobAnswered ==
  ASSUME TypeOK, NEW w \in Workers, NEW answer \in Answers,
         jobs' = [jobs EXCEPT ![w].answer = answer]
  PROVE  /\ jobs' \in [Workers -> Jobs]
         /\ jobs'[w].row = jobs[w].row /\ jobs'[w].answer = answer
         /\ \A v \in Workers \ {w} : jobs'[v] = jobs[v]
<1>1. jobs \in [Workers -> Jobs] /\ jobs[w] \in Jobs
  BY DEF TypeOK
<1>2. [jobs[w] EXCEPT !.answer = answer] \in Jobs
  BY <1>1 DEF Jobs
<1>3. jobs' = [jobs EXCEPT ![w] = [jobs[w] EXCEPT !.answer = answer]]
  BY <1>1
<1>4. jobs'[w] = [jobs[w] EXCEPT !.answer = answer]
  BY <1>1, <1>3
<1>5. QED
  BY <1>1, <1>2, <1>3, <1>4 DEF Jobs

\* What recording an answer makes of a row.
LEMMA RowSettled ==
  ASSUME TypeOK, NEW w \in Workers, NEW statuses, NEW row \in Rows(statuses), NEW claimed,
         NEW done \in statuses, {"Failed", "Pending"} \subseteq statuses
  PROVE  LET settled == Settled(w, row, claimed, done)
         IN  /\ settled \in Rows(statuses)
             /\ settled.attempts = row.attempts
             /\ \/ settled = row
                \/ row.status = claimed /\ settled.status = done /\ jobs[w].answer = "accepted"
                \/ row.status = claimed /\ settled.status = "Failed"
                \/ row.status = claimed /\ settled.status = "Pending"
                   /\ row.attempts < MaxAttempts
<1> DEFINE settled == Settled(w, row, claimed, done)
           status == IF jobs[w].answer = "accepted" THEN done
                     ELSE Failure(jobs[w].answer, jobs[w].attempts)
<1>1. CASE ~HoldsClaim(w, row, claimed)
  BY <1>1 DEF Settled
<1>2. CASE HoldsClaim(w, row, claimed)
  <2>1. row.status = claimed /\ row.attempts = jobs[w].attempts
    BY <1>2 DEF HoldsClaim
  <2>2. row.attempts \in 0..MaxAttempts
    BY DEF Rows
  <2>3. settled = [status |-> status, attempts |-> row.attempts, abandoned |-> FALSE]
    BY <1>2 DEF Settled, Rows
  <2>4. \/ status = done /\ jobs[w].answer = "accepted"
        \/ status = "Failed"
        \/ status = "Pending" /\ row.attempts < MaxAttempts
    BY <2>1, <2>2, Constant DEF Failure
  <2>5. status \in statuses
    BY <2>4
  <2>6. QED
    BY <2>1, <2>2, <2>3, <2>4, <2>5 DEF Rows
<1>3. QED
  BY <1>1, <1>2

-----------------------------------------------------------------------------
(* The invariant *)

\* What a claim and an answer in a worker's hands mean for the tables and for
\* the provider.
JobsAreGrounded ==
  \A w \in Workers :
    /\ jobs[w].row \in Events =>
         outbox[jobs[w].row].status # "None" /\ provider.customers # {}
    /\ jobs[w].row \in Events /\ jobs[w].answer = "accepted" =>
         jobs[w].row \in provider.accepted
    /\ jobs[w].row = TheCustomer /\ jobs[w].answer = "accepted" => provider.customers # {}

ProvisionedIsKnown == customer.status = "Provisioned" => provider.customers # {}

SentIsAccepted == \A e \in Events : outbox[e].status = "Sent" => e \in provider.accepted

IInv ==
  /\ TypeOK
  /\ JobsAreGrounded
  /\ ProvisionedIsKnown
  /\ SentIsAccepted
  /\ PendingIsClaimable
  /\ UsageNeedsCustomer

LEMMA InitInv == Init => IInv
<1> SUFFICES ASSUME Init PROVE IInv
  OBVIOUS
<1>1. TypeOK
  <2>1. customer \in Rows(CustomerStatus)
    BY Constant DEF Init, CustomerStatus, Row, Rows
  <2>2. Row("None", 0) \in Rows(EventStatus)
    BY Constant DEF EventStatus, Row, Rows
  <2>3. Free("idle") \in Jobs
    BY Constant DEF Free, Job, Jobs, Answers
  <2>4. QED
    BY <2>1, <2>2, <2>3, Constant DEF Init, TypeOK
<1>2. \A w \in Workers : jobs[w].row = NoRow
  BY DEF Init, Free, Job
<1>3. QED
  BY <1>1, <1>2, Constant
     DEF Init, IInv, JobsAreGrounded, ProvisionedIsKnown, SentIsAccepted, PendingIsClaimable,
         UsageNeedsCustomer, Row

\* Steps that leave the provider alone, take no job further than a claim, and
\* write only rows that the invariant allows.
Harmless ==
  /\ UNCHANGED provider
  /\ \A w \in Workers :
       \/ jobs'[w] = jobs[w]
       \/ jobs'[w].row = NoRow
       \/ jobs'[w].row = TheCustomer /\ jobs'[w].answer = "none"
       \/ /\ jobs'[w].row \in Events /\ jobs'[w].answer = "none"
          /\ outbox'[jobs'[w].row].status = "Sending" /\ provider.customers # {}
  /\ \/ customer' = customer
     \/ customer'.status \in {"Provisioning", "Failed"}
     \/ customer'.status = "Provisioned" /\ provider.customers # {}
     \/ customer'.status = "Pending" /\ customer'.attempts < MaxAttempts
  /\ \A e \in Events :
       \/ outbox'[e] = outbox[e]
       \/ outbox'[e].status \in {"Sending", "Failed"}
       \/ outbox'[e].status = "Sent" /\ e \in provider.accepted
       \/ outbox'[e].status = "Pending" /\ outbox'[e].attempts < MaxAttempts

LEMMA HarmlessKeepsInv ==
  ASSUME IInv, TypeOK', Harmless
  PROVE  IInv'
<1>1. \A e \in Events : outbox[e].status # "None" => outbox'[e].status # "None"
  BY DEF Harmless
<1>2. JobsAreGrounded'
  <2> SUFFICES ASSUME NEW w \in Workers
               PROVE  /\ jobs'[w].row \in Events =>
                           outbox'[jobs'[w].row].status # "None" /\ provider'.customers # {}
                      /\ jobs'[w].row \in Events /\ jobs'[w].answer = "accepted" =>
                           jobs'[w].row \in provider'.accepted
                      /\ jobs'[w].row = TheCustomer /\ jobs'[w].answer = "accepted" =>
                           provider'.customers # {}
    BY DEF JobsAreGrounded
  <2>1. provider' = provider
    BY DEF Harmless
  <2>2. CASE jobs'[w] = jobs[w]
    BY <1>1, <2>1, <2>2 DEF IInv, JobsAreGrounded
  <2>3. CASE jobs'[w] # jobs[w]
    BY <2>1, <2>3, Constant DEF Harmless
  <2>4. QED
    BY <2>2, <2>3
<1>3. ProvisionedIsKnown' /\ SentIsAccepted' /\ UsageNeedsCustomer'
  BY DEF Harmless, IInv, ProvisionedIsKnown, SentIsAccepted, UsageNeedsCustomer
<1>4. PendingIsClaimable'
  BY DEF Harmless, IInv, PendingIsClaimable
<1>5. QED
  BY <1>2, <1>3, <1>4 DEF IInv

\* A claim or an answer settles one row of the outbox and leaves the others.
LEMMA EventWritten ==
  ASSUME TypeOK, NEW e \in Events, NEW row \in Rows(EventStatus),
         outbox' = [outbox EXCEPT ![e] = row]
  PROVE  /\ outbox' \in [Events -> Rows(EventStatus)]
         /\ outbox'[e] = row
         /\ \A f \in Events \ {e} : outbox'[f] = outbox[f]
BY DEF TypeOK

LEMMA ClaimCustomerStep ==
  ASSUME IInv, NEW w \in Workers, ClaimCustomer(w)
  PROVE  TypeOK' /\ Harmless
<1>1. customer.attempts + 1 \in 0..MaxAttempts
  BY Columns, Constant DEF IInv, ClaimCustomer, Claimable
<1>2. customer' \in Rows(CustomerStatus) /\ customer'.status = "Provisioning"
  BY <1>1 DEF ClaimCustomer, Row, Rows, CustomerStatus
<1>3. /\ jobs' \in [Workers -> Jobs]
      /\ jobs'[w].row = TheCustomer /\ jobs'[w].answer = "none"
      /\ \A v \in Workers \ {w} : jobs'[v] = jobs[v]
  BY <1>1, JobReplaced DEF IInv, TypeOK, ClaimCustomer
<1>4. UNCHANGED <<outbox, orgName, requeues, provider>>
  BY DEF ClaimCustomer
<1>5. QED
  BY <1>2, <1>3, <1>4 DEF IInv, TypeOK, Harmless

LEMMA ClaimEventStep ==
  ASSUME IInv, NEW w \in Workers, NEW e \in Events, ClaimEvent(w, e)
  PROVE  /\ TypeOK' /\ Harmless
         /\ outbox[e].status \in {"Pending", "Sending"} /\ outbox'[e].status = "Sending"
         /\ \A f \in Events \ {e} : outbox'[f] = outbox[f]
<1>1. outbox[e].attempts + 1 \in 0..MaxAttempts
  BY Columns, Constant DEF IInv, ClaimEvent, Claimable
<1>2. Row("Sending", outbox[e].attempts + 1) \in Rows(EventStatus)
  BY <1>1 DEF Row, Rows, EventStatus
<1>3. /\ outbox' \in [Events -> Rows(EventStatus)]
      /\ outbox'[e].status = "Sending"
      /\ \A f \in Events \ {e} : outbox'[f] = outbox[f]
  BY <1>2, EventWritten DEF IInv, ClaimEvent, Row
<1>4. /\ jobs' \in [Workers -> Jobs]
      /\ jobs'[w].row = e /\ jobs'[w].answer = "none"
      /\ \A v \in Workers \ {w} : jobs'[v] = jobs[v]
  BY <1>1, JobReplaced, Constant DEF IInv, ClaimEvent
<1>5. UNCHANGED <<customer, orgName, requeues, provider>> /\ provider.customers # {}
  BY DEF ClaimEvent, CustomerIsProvisioned, IInv, ProvisionedIsKnown
<1>6. QED
  BY <1>3, <1>4, <1>5 DEF IInv, TypeOK, Harmless, ClaimEvent, Claimable

LEMMA JobStep ==
  ASSUME IInv, NEW w \in Workers, StartDelivery(w) \/ StartEvents(w) \/ EndDelivery(w)
  PROVE  /\ TypeOK' /\ Harmless /\ UNCHANGED outbox
<1>1. PICK phase \in {"idle", "customers", "events"} : jobs' = [jobs EXCEPT ![w] = Free(phase)]
  BY DEF StartDelivery, StartEvents, EndDelivery
<1>2. /\ jobs' \in [Workers -> Jobs]
      /\ jobs'[w].row = NoRow
      /\ \A v \in Workers \ {w} : jobs'[v] = jobs[v]
  BY <1>1, JobFreed DEF IInv
<1>3. UNCHANGED <<customer, outbox, orgName, requeues, provider>>
  BY DEF StartDelivery, StartEvents, EndDelivery
<1>4. QED
  BY <1>2, <1>3 DEF IInv, TypeOK, Harmless

LEMMA MarkCustomerStep ==
  ASSUME IInv, NEW w \in Workers, MarkCustomer(w)
  PROVE  TypeOK' /\ Harmless /\ UNCHANGED outbox
<1>1. NextPhase(w) \in {"idle", "customers", "events"}
  BY Columns DEF IInv, NextPhase
<1>2. /\ jobs' \in [Workers -> Jobs]
      /\ jobs'[w].row = NoRow
      /\ \A v \in Workers \ {w} : jobs'[v] = jobs[v]
  BY <1>1, JobFreed DEF IInv, MarkCustomer
<1>3. /\ customer' \in Rows(CustomerStatus)
      /\ customer'.attempts = customer.attempts
      /\ \/ customer' = customer
         \/ customer'.status = "Provisioned" /\ jobs[w].answer = "accepted"
         \/ customer'.status = "Failed"
         \/ customer'.status = "Pending" /\ customer.attempts < MaxAttempts
  <2>1. TypeOK /\ customer \in Rows(CustomerStatus) /\ "Provisioned" \in CustomerStatus
        /\ {"Failed", "Pending"} \subseteq CustomerStatus
    BY DEF IInv, TypeOK, CustomerStatus
  <2>2. customer' = Settled(w, customer, "Provisioning", "Provisioned")
    BY DEF MarkCustomer
  <2>3. QED
    BY <2>1, <2>2, RowSettled
<1>4. UNCHANGED <<outbox, orgName, requeues, provider>>
      /\ (jobs[w].answer = "accepted" => provider.customers # {})
  BY DEF MarkCustomer, IInv, JobsAreGrounded
<1>5. QED
  BY <1>2, <1>3, <1>4 DEF IInv, TypeOK, Harmless

LEMMA MarkEventStep ==
  ASSUME IInv, NEW w \in Workers, MarkEvent(w)
  PROVE  /\ TypeOK' /\ Harmless
         /\ \E e \in Events :
              /\ \/ outbox'[e] = outbox[e]
                 \/ /\ outbox[e].status = "Sending"
                    /\ \/ outbox'[e].status = "Sent" /\ e \in provider.accepted
                       \/ outbox'[e].status \in {"Failed", "Pending"}
              /\ \A f \in Events \ {e} : outbox'[f] = outbox[f]
<1> DEFINE e == jobs[w].row
<1>1. NextPhase(w) \in {"idle", "customers", "events"} /\ e \in Events
  BY Columns DEF IInv, NextPhase, MarkEvent
<1>2. /\ jobs' \in [Workers -> Jobs]
      /\ jobs'[w].row = NoRow
      /\ \A v \in Workers \ {w} : jobs'[v] = jobs[v]
  BY <1>1, JobFreed DEF IInv, MarkEvent
<1>3. TypeOK /\ outbox \in [Events -> Rows(EventStatus)] /\ outbox[e] \in Rows(EventStatus)
      /\ "Sent" \in EventStatus /\ {"Failed", "Pending"} \subseteq EventStatus
  BY <1>1 DEF IInv, TypeOK, EventStatus
<1> DEFINE settled == Settled(w, outbox[e], "Sending", "Sent")
<1>4. /\ settled \in Rows(EventStatus)
      /\ settled.attempts = outbox[e].attempts
      /\ \/ settled = outbox[e]
         \/ outbox[e].status = "Sending" /\ settled.status = "Sent" /\ jobs[w].answer = "accepted"
         \/ outbox[e].status = "Sending" /\ settled.status = "Failed"
         \/ outbox[e].status = "Sending" /\ settled.status = "Pending"
            /\ outbox[e].attempts < MaxAttempts
  BY <1>3, RowSettled
<1>5. outbox' = [outbox EXCEPT ![e] = settled]
  BY <1>1, <1>3 DEF MarkEvent
<1> HIDE DEF settled
<1>6. /\ outbox' \in [Events -> Rows(EventStatus)]
      /\ outbox'[e] = settled
      /\ \A f \in Events \ {e} : outbox'[f] = outbox[f]
  BY <1>1, <1>3, <1>4, <1>5
<1>7. UNCHANGED <<customer, orgName, requeues, provider>>
      /\ (jobs[w].answer = "accepted" => e \in provider.accepted)
  BY <1>1 DEF MarkEvent, IInv, JobsAreGrounded
<1> HIDE DEF e
<1>8. TypeOK'
  BY <1>2, <1>6, <1>7 DEF IInv, TypeOK
<1>9. Harmless
  BY <1>1, <1>2, <1>4, <1>6, <1>7 DEF Harmless
<1>10. QED
  BY <1>1, <1>4, <1>6, <1>7, <1>8, <1>9

\* The requests: they change only the jobs and what the provider holds.
LEMMA AcceptStep ==
  ASSUME IInv, NEW w \in Workers, ProviderAccepts(w)
  PROVE  /\ IInv' /\ UNCHANGED outbox
         /\ \/ provider'.accepted = provider.accepted
            \/ \E e \in Events : /\ outbox[e].status # "None"
                                 /\ provider'.accepted = provider.accepted \cup {e}
<1>1. PICK answer \in {"accepted", "retryable"} : jobs' = [jobs EXCEPT ![w].answer = answer]
  BY DEF ProviderAccepts
<1>2. /\ jobs' \in [Workers -> Jobs]
      /\ jobs'[w].row = jobs[w].row
      /\ \A v \in Workers \ {w} : jobs'[v] = jobs[v]
  BY <1>1, JobAnswered DEF IInv, Answers
<1>3. UNCHANGED <<customer, outbox, orgName, requeues>> /\ jobs[w].row \in Events \cup {TheCustomer}
  BY Columns DEF ProviderAccepts, IInv
<1>4. CASE jobs[w].row = TheCustomer
  <2>1. provider'.customers = {jobs[w].name} /\ provider'.accepted = provider.accepted
        /\ provider' \in [customers : SUBSET Names, accepted : SUBSET Events]
    <3>1. provider' = [customers |-> {jobs[w].name}, accepted |-> provider.accepted]
      BY <1>4 DEF ProviderAccepts, IInv, TypeOK
    <3>2. jobs[w].name \in Names /\ provider.accepted \subseteq Events
      BY Columns DEF IInv
    <3>3. QED
      BY <3>1, <3>2
  <2>2. TypeOK'
    BY <1>2, <1>3, <2>1 DEF IInv, TypeOK
  <2>3. JobsAreGrounded'
    BY <1>2, <1>3, <1>4, <2>1, Constant DEF IInv, JobsAreGrounded
  <2>4. QED
    BY <1>3, <2>1, <2>2, <2>3
       DEF IInv, ProvisionedIsKnown, SentIsAccepted, PendingIsClaimable, UsageNeedsCustomer
<1>5. CASE jobs[w].row \in Events
  <2>1. provider'.customers = provider.customers
        /\ provider'.accepted = provider.accepted \cup {jobs[w].row}
        /\ provider' \in [customers : SUBSET Names, accepted : SUBSET Events]
    <3>1. provider' = [customers |-> provider.customers,
                       accepted |-> provider.accepted \cup {jobs[w].row}]
      BY <1>5, Constant DEF ProviderAccepts, IInv, TypeOK
    <3>2. provider.customers \subseteq Names /\ provider.accepted \cup {jobs[w].row} \subseteq Events
      BY <1>5, Columns DEF IInv
    <3>3. QED
      BY <3>1, <3>2
  <2>2. TypeOK'
    BY <1>2, <1>3, <2>1 DEF IInv, TypeOK
  <2>3. outbox[jobs[w].row].status # "None" /\ provider.customers # {}
    BY <1>5 DEF IInv, JobsAreGrounded
  <2>4. JobsAreGrounded'
    BY <1>2, <1>3, <1>5, <2>1, <2>3, Constant DEF IInv, JobsAreGrounded
  <2>5. QED
    BY <1>3, <1>5, <2>1, <2>2, <2>3, <2>4
       DEF IInv, ProvisionedIsKnown, SentIsAccepted, PendingIsClaimable, UsageNeedsCustomer
<1>6. QED
  BY <1>3, <1>4, <1>5

LEMMA RefuseStep ==
  ASSUME IInv, NEW w \in Workers, ProviderRefuses(w)
  PROVE  IInv' /\ UNCHANGED <<outbox, provider>>
<1>1. PICK answer \in {"retryable", "fatal", "unauthorized"} :
        jobs' = [jobs EXCEPT ![w].answer = answer]
  BY DEF ProviderRefuses
<1>2. /\ jobs' \in [Workers -> Jobs]
      /\ jobs'[w].row = jobs[w].row /\ jobs'[w].answer # "accepted"
      /\ \A v \in Workers \ {w} : jobs'[v] = jobs[v]
  BY <1>1, JobAnswered DEF IInv, Answers
<1>3. UNCHANGED <<customer, outbox, orgName, requeues, provider>>
  BY DEF ProviderRefuses
<1>4. TypeOK'
  BY <1>2, <1>3 DEF IInv, TypeOK
<1>5. JobsAreGrounded'
  BY <1>2, <1>3 DEF IInv, JobsAreGrounded
<1>6. QED
  BY <1>3, <1>4, <1>5
     DEF IInv, ProvisionedIsKnown, SentIsAccepted, PendingIsClaimable, UsageNeedsCustomer

LEMMA TableStep ==
  ASSUME IInv,
         \/ \E e \in Events : EnqueueBillingUsageEvent(e)
         \/ RefreshBillingShadowCustomer
         \/ RequeueFailedBillingShadow
         \/ ClaimIsAbandoned
  PROVE  TypeOK' /\ Harmless
<1>0. TypeOK /\ 0 < MaxAttempts
  BY Constant DEF IInv
<1>1. /\ Row("Pending", 0) \in Rows(CustomerStatus) /\ Row("Pending", 0) \in Rows(EventStatus)
      /\ Row("Pending", 0).status = "Pending" /\ Row("Pending", 0).attempts = 0
  BY Constant DEF Row, Rows, CustomerStatus, EventStatus
<1>2. ASSUME NEW e \in Events, EnqueueBillingUsageEvent(e)
      PROVE  TypeOK' /\ Harmless
  <2>1. /\ outbox' \in [Events -> Rows(EventStatus)]
        /\ outbox'[e] = Row("Pending", 0)
        /\ \A f \in Events \ {e} : outbox'[f] = outbox[f]
    BY <1>0, <1>1, <1>2, EventWritten DEF EnqueueBillingUsageEvent
  <2>2. UNCHANGED <<customer, orgName, requeues, jobs, provider>>
    BY <1>2 DEF EnqueueBillingUsageEvent
  <2>3. QED
    BY <1>0, <1>1, <2>1, <2>2 DEF TypeOK, Harmless
<1>3. CASE RefreshBillingShadowCustomer
  <2>1. orgName' \in Names
    BY <1>0, <1>3, Constant DEF RefreshBillingShadowCustomer, TypeOK, Names
  <2>2. QED
    BY <1>0, <1>1, <1>3, <2>1 DEF RefreshBillingShadowCustomer, TypeOK, Harmless
<1>4. CASE RequeueFailedBillingShadow
  <2>1. requeues' \in 0..MaxRequeues
    BY <1>0, <1>4, Constant DEF RequeueFailedBillingShadow, TypeOK
  <2>2. customer' \in Rows(CustomerStatus) /\ customer' \in {customer, Row("Pending", 0)}
    BY <1>0, <1>1, <1>4 DEF RequeueFailedBillingShadow, TypeOK
  <2>3. \A e \in Events : outbox'[e] \in Rows(EventStatus) /\ outbox'[e] \in {outbox[e], Row("Pending", 0)}
    BY <1>0, <1>1, <1>4 DEF RequeueFailedBillingShadow, TypeOK
  <2>4. outbox' \in [Events -> Rows(EventStatus)]
    BY <1>4, <2>3 DEF RequeueFailedBillingShadow
  <2>5. UNCHANGED <<orgName, jobs, provider>>
    BY <1>4 DEF RequeueFailedBillingShadow
  <2>6. QED
    BY <1>0, <1>1, <2>1, <2>2, <2>3, <2>4, <2>5 DEF TypeOK, Harmless
<1>5. CASE ClaimIsAbandoned
  <2>1. CASE /\ customer.status = "Provisioning"
             /\ customer' = [customer EXCEPT !.abandoned = TRUE]
             /\ UNCHANGED <<outbox, orgName, requeues, jobs, provider>>
    <3>1. customer' \in Rows(CustomerStatus) /\ customer'.status = "Provisioning"
      BY <1>0, <2>1 DEF TypeOK, Rows
    <3>2. QED
      BY <1>0, <2>1, <3>1 DEF TypeOK, Harmless
  <2>2. ASSUME NEW e \in Events, outbox[e].status = "Sending",
               outbox' = [outbox EXCEPT ![e].abandoned = TRUE],
               UNCHANGED <<customer, orgName, requeues, jobs, provider>>
        PROVE  TypeOK' /\ Harmless
    <3>1. outbox[e] \in Rows(EventStatus) /\ outbox \in [Events -> Rows(EventStatus)]
      BY <1>0 DEF TypeOK
    <3> DEFINE row == [outbox[e] EXCEPT !.abandoned = TRUE]
    <3>2. row \in Rows(EventStatus) /\ row.status = "Sending"
      BY <2>2, <3>1 DEF Rows
    <3>3. outbox' = [outbox EXCEPT ![e] = row]
      BY <2>2, <3>1
    <3> HIDE DEF row
    <3>4. /\ outbox' \in [Events -> Rows(EventStatus)]
          /\ outbox'[e] = row
          /\ \A f \in Events \ {e} : outbox'[f] = outbox[f]
      BY <1>0, <3>2, <3>3, EventWritten
    <3>5. QED
      BY <1>0, <2>2, <3>2, <3>4 DEF TypeOK, Harmless
  <2>3. QED
    BY <1>5, <2>1, <2>2 DEF ClaimIsAbandoned
<1>6. QED
  BY <1>2, <1>3, <1>4, <1>5

LEMMA InvStep == IInv /\ [Next]_vars => IInv'
<1> SUFFICES ASSUME IInv, [Next]_vars PROVE IInv'
  OBVIOUS
<1>1. CASE UNCHANGED vars
  <2>1. TypeOK'
    BY <1>1 DEF vars, IInv, TypeOK
  <2>2. Harmless
    BY <1>1 DEF vars, Harmless
  <2>3. QED
    BY <2>1, <2>2, HarmlessKeepsInv
<1>2. CASE \/ \E e \in Events : EnqueueBillingUsageEvent(e)
           \/ RefreshBillingShadowCustomer
           \/ RequeueFailedBillingShadow
           \/ ClaimIsAbandoned
  BY <1>2, TableStep, HarmlessKeepsInv
<1>3. ASSUME NEW w \in Workers, WorkerStep(w)
      PROVE  IInv'
  <2>1. CASE StartDelivery(w) \/ StartEvents(w) \/ EndDelivery(w)
    BY <2>1, JobStep, HarmlessKeepsInv
  <2>2. CASE ClaimCustomer(w)
    BY <2>2, ClaimCustomerStep, HarmlessKeepsInv
  <2>3. CASE \E e \in Events : ClaimEvent(w, e)
    BY <2>3, ClaimEventStep, HarmlessKeepsInv
  <2>4. CASE ProviderAccepts(w)
    BY <2>4, AcceptStep
  <2>5. CASE ProviderRefuses(w)
    BY <2>5, RefuseStep
  <2>6. CASE MarkCustomer(w)
    BY <2>6, MarkCustomerStep, HarmlessKeepsInv
  <2>7. CASE MarkEvent(w)
    BY <2>7, MarkEventStep, HarmlessKeepsInv
  <2>8. QED
    BY <1>3, <2>1, <2>2, <2>3, <2>4, <2>5, <2>6, <2>7 DEF WorkerStep
<1>4. QED
  BY <1>1, <1>2, <1>3 DEF Next

LEMMA Invariance == Spec => []IInv
<1>1. QED
  BY InitInv, InvStep, PTL DEF Spec

-----------------------------------------------------------------------------
(* Theorems *)

\* The rows, the jobs of the workers and what the provider holds keep their
\* types; no attempt is counted beyond the limit.
THEOREM TypeCorrect == Spec => []TypeOK
<1>1. IInv => TypeOK
  BY DEF IInv
<1>2. QED
  BY <1>1, Invariance, PTL

\* claimEvent's join with the provisioned customer is enough: usage reaches
\* only a provider that knows the customer, whatever renames and requeues do
\* meanwhile.
THEOREM UsageFollowsCustomer == Spec => []UsageNeedsCustomer
<1>1. IInv => UsageNeedsCustomer
  BY DEF IInv
<1>2. QED
  BY <1>1, Invariance, PTL

\* The limits of claimEvent and of failure() agree: a pending row can be
\* claimed again.
THEOREM PendingRowsAreClaimable == Spec => []PendingIsClaimable
<1>1. IInv => PendingIsClaimable
  BY DEF IInv
<1>2. QED
  BY <1>1, Invariance, PTL

\* A step of the outbox that rewrites one event is a step of the ledger.
LEMMA OneEventStep ==
  ASSUME IInv, NEW e \in Events, UNCHANGED provider,
         \A f \in Events \ {e} : outbox'[f] = outbox[f],
         \/ outbox'[e] = outbox[e]
         \/ outbox[e].status = "None" /\ outbox'[e].status = "Pending"
         \/ outbox[e].status \in {"Pending", "Sending"} /\ outbox'[e].status \in {"Pending", "Sending"}
         \/ /\ outbox[e].status = "Sending"
            /\ \/ outbox'[e].status = "Sent" /\ e \in provider.accepted
               \/ outbox'[e].status = "Failed"
  PROVE  [Ledger!Next]_<<[f \in Events |-> StandingOf(outbox[f].status)], provider.accepted>>
<1> DEFINE ledger == [f \in Events |-> StandingOf(outbox[f].status)]
           next   == [f \in Events |-> StandingOf(outbox'[f].status)]
<1>1. next = [ledger EXCEPT ![e] = StandingOf(outbox'[e].status)]
  OBVIOUS
<1>2. StandingOf("None") = "unknown" /\ StandingOf("Pending") = "owed"
      /\ StandingOf("Sending") = "owed" /\ StandingOf("Sent") = "sent"
      /\ StandingOf("Failed") = "failed"
  BY DEF StandingOf
<1>3. ledger[e] = StandingOf(outbox[e].status)
  OBVIOUS
<1> HIDE DEF ledger, next
<1>4. \/ next = ledger
      \/ ledger[e] = "unknown" /\ next = [ledger EXCEPT ![e] = "owed"]
      \/ ledger[e] = "owed" /\ next = [ledger EXCEPT ![e] = "sent"] /\ e \in provider.accepted
      \/ ledger[e] = "owed" /\ next = [ledger EXCEPT ![e] = "failed"]
  <2>1. CASE StandingOf(outbox'[e].status) = StandingOf(outbox[e].status)
    BY <1>1, <2>1 DEF ledger
  <2>2. CASE StandingOf(outbox'[e].status) # StandingOf(outbox[e].status)
    BY <1>1, <1>2, <1>3, <2>2
  <2>3. QED
    BY <2>1, <2>2
<1>5. provider'.accepted = provider.accepted
  OBVIOUS
<1>6. QED
  BY <1>4, <1>5
     DEF ledger, next, Ledger!Next, Ledger!Record, Ledger!Settle, Ledger!GiveUp

\* Every step of the outbox is a step of the ledger or leaves it alone.
LEMMA LedgerStep ==
  IInv /\ [Next]_vars =>
    [Ledger!Next]_<<[f \in Events |-> StandingOf(outbox[f].status)], provider.accepted>>
<1> SUFFICES ASSUME IInv, [Next]_vars
             PROVE  [Ledger!Next]_<<[f \in Events |-> StandingOf(outbox[f].status)],
                                    provider.accepted>>
  OBVIOUS
<1>1. CASE outbox' = outbox /\ provider'.accepted = provider.accepted
  BY <1>1
<1>2. ASSUME NEW e \in Events, EnqueueBillingUsageEvent(e)
      PROVE  [Ledger!Next]_<<[f \in Events |-> StandingOf(outbox[f].status)], provider.accepted>>
  <2>1. /\ outbox[e].status = "None" /\ outbox'[e].status = "Pending"
        /\ UNCHANGED provider
        /\ \A f \in Events \ {e} : outbox'[f] = outbox[f]
    BY <1>2 DEF EnqueueBillingUsageEvent, IInv, TypeOK, Row
  <2>2. QED
    BY <2>1, OneEventStep
<1>3. CASE RefreshBillingShadowCustomer
  BY <1>1, <1>3 DEF RefreshBillingShadowCustomer
<1>4. CASE RequeueFailedBillingShadow
  <2> DEFINE ledger == [f \in Events |-> StandingOf(outbox[f].status)]
             next   == [f \in Events |-> StandingOf(outbox'[f].status)]
  <2>1. \A f \in Events :
          outbox'[f].status = IF outbox[f].status = "Failed" THEN "Pending" ELSE outbox[f].status
    BY <1>4 DEF RequeueFailedBillingShadow, Row
  <2>2. \A f \in Events : outbox[f].status \in EventStatus
    BY Columns DEF IInv
  <2>3. \A f \in Events : StandingOf(outbox'[f].status) =
          IF StandingOf(outbox[f].status) = "failed" THEN "owed" ELSE StandingOf(outbox[f].status)
    BY <2>1, <2>2 DEF StandingOf, EventStatus
  <2>4. next = [f \in Events |-> IF ledger[f] = "failed" THEN "owed" ELSE ledger[f]]
    BY <2>3
  <2>5. provider'.accepted = provider.accepted
    BY <1>4 DEF RequeueFailedBillingShadow
  <2> HIDE DEF ledger, next
  <2>6. next = [f \in Events |-> IF ledger[f] = "failed" THEN "owed" ELSE ledger[f]]
        /\ provider'.accepted = provider.accepted => Ledger!Next
    BY DEF ledger, next, Ledger!Next, Ledger!Requeue
  <2>7. QED
    BY <2>4, <2>5, <2>6
<1>5. CASE ClaimIsAbandoned
  <2>1. CASE UNCHANGED <<outbox, provider>>
    BY <1>1, <2>1
  <2>2. ASSUME NEW e \in Events, outbox[e].status = "Sending", UNCHANGED provider,
               outbox' = [outbox EXCEPT ![e].abandoned = TRUE]
        PROVE  [Ledger!Next]_<<[f \in Events |-> StandingOf(outbox[f].status)], provider.accepted>>
    <3>1. outbox'[e].status = "Sending" /\ \A f \in Events \ {e} : outbox'[f] = outbox[f]
      BY <2>2 DEF IInv, TypeOK, Rows
    <3>2. QED
      BY <2>2, <3>1, OneEventStep
  <2>3. QED
    BY <1>5, <2>1, <2>2 DEF ClaimIsAbandoned
<1>6. ASSUME NEW w \in Workers, WorkerStep(w)
      PROVE  [Ledger!Next]_<<[f \in Events |-> StandingOf(outbox[f].status)], provider.accepted>>
  <2>1. CASE StartDelivery(w) \/ StartEvents(w) \/ EndDelivery(w)
    BY <1>1, <2>1, JobStep DEF Harmless
  <2>2. CASE ClaimCustomer(w)
    BY <1>1, <2>2 DEF ClaimCustomer
  <2>3. CASE \E e \in Events : ClaimEvent(w, e)
    <3>1. PICK e \in Events : ClaimEvent(w, e)
      BY <2>3
    <3>2. QED
      BY <3>1, ClaimEventStep, OneEventStep DEF Harmless
  <2>4. CASE ProviderAccepts(w)
    <3>1. CASE provider'.accepted = provider.accepted
      BY <1>1, <2>4, <3>1, AcceptStep
    <3>2. ASSUME NEW e \in Events, outbox[e].status # "None",
                 provider'.accepted = provider.accepted \cup {e}
          PROVE  [Ledger!Next]_<<[f \in Events |-> StandingOf(outbox[f].status)],
                                 provider.accepted>>
      <4>1. outbox' = outbox
        BY <2>4, AcceptStep
      <4>2. StandingOf(outbox[e].status) # "unknown"
        BY <3>2, Columns DEF IInv, StandingOf, EventStatus
      <4>3. QED
        BY <3>2, <4>1, <4>2 DEF Ledger!Next, Ledger!Accept
    <3>3. QED
      BY <2>4, <3>1, <3>2, AcceptStep
  <2>5. CASE ProviderRefuses(w)
    BY <1>1, <2>5, RefuseStep
  <2>6. CASE MarkCustomer(w)
    BY <1>1, <2>6, MarkCustomerStep DEF Harmless
  <2>7. CASE MarkEvent(w)
    BY <2>7, MarkEventStep, OneEventStep DEF Harmless
  <2>8. QED
    BY <1>6, <2>1, <2>2, <2>3, <2>4, <2>5, <2>6, <2>7 DEF WorkerStep
<1>7. QED
  BY <1>1, <1>2, <1>3, <1>4, <1>5, <1>6 DEF Next, vars

LEMMA LedgerInit == Init => Ledger!Init
BY DEF Init, Ledger!Init, StandingOf, Row

\* The outbox implements the ledger: each event is recorded once, is Sent only
\* after the provider accepted it, and stays Sent.
THEOREM OutboxImplementsLedger == Spec => ImplementsLedger
<1>1. IInv /\ [Next]_vars =>
        [Ledger!Next]_<<[e \in Events |-> StandingOf(outbox[e].status)], provider.accepted>>
  BY LedgerStep
<1>2. QED
  BY <1>1, LedgerInit, Invariance, PTL DEF Spec, ImplementsLedger, Ledger!Spec
=============================================================================
