---------------------------- MODULE BillingOutbox ----------------------------
(***************************************************************************)
(* The billing outbox of one organization: the provider customer and the   *)
(* usage events it owes, claimed row by row by overlapping runs of the     *)
(* workflow scheduler, and the administrator's requeue.                    *)
(* Source: src/src/lib/billing-outbox.ts and the triggers of migration     *)
(* 032_billing_shadow_metering.sql.                                        *)
(*                                                                         *)
(* A worker is one call of deliverBillingShadow.  Its HTTP request to the  *)
(* provider and the UPDATE that records the answer are separate steps; the *)
(* call may be frozen between them (the scheduler's route answers after    *)
(* twenty seconds whatever the call is doing) or never get to the second.  *)
(* The provider is external: it keeps one event per event id and one       *)
(* customer per organization.                                              *)
(***************************************************************************)
EXTENDS Naturals

CONSTANTS Events,       \* deterministic event ids
          Workers,      \* overlapping calls of deliverBillingShadow
          MaxAttempts,  \* 8 in the source
          MaxRenames,   \* bound on renames of the organization
          MaxRequeues   \* bound on the administrator's requeues

ASSUME AttemptsAssumption == MaxAttempts \in Nat \ {0}
ASSUME BoundsAssumption == MaxRenames \in Nat /\ MaxRequeues \in Nat

VARIABLES customer,  \* the row of billing_customers
          outbox,    \* billing_event_outbox
          orgName,   \* organizations.name, as the number of its renames
          requeues,  \* how often the administrator requeued
          jobs,      \* what each worker is doing
          provider   \* what the provider holds

vars == <<customer, outbox, orgName, requeues, jobs, provider>>

-----------------------------------------------------------------------------
(* Rows *)

CustomerStatus == {"Pending", "Provisioning", "Provisioned", "Failed"}
EventStatus    == {"None", "Pending", "Sending", "Sent", "Failed"}
Names          == 0..MaxRenames

\* abandoned: the claim is older than five minutes.
Row(status, attempts) == [status |-> status, attempts |-> attempts, abandoned |-> FALSE]

\* A worker's phase, the row it claimed, the attempts it claimed it with, the
\* organization name it read, and what the provider answered.
TheCustomer == "customer"
NoRow == "no row"
Answers == {"none", "accepted", "retryable", "fatal", "unauthorized"}
Job(phase, row, attempts, name, answer) ==
  [phase |-> phase, row |-> row, attempts |-> attempts, name |-> name, answer |-> answer]
Free(phase) == Job(phase, NoRow, 0, 0, "none")

Rows(status) == [status : status, attempts : 0..MaxAttempts, abandoned : BOOLEAN]
Jobs == [phase : {"idle", "customers", "events"}, row : Events \cup {TheCustomer, NoRow},
         attempts : 0..MaxAttempts, name : Names, answer : Answers]

ASSUME EventsAssumption == TheCustomer \notin Events /\ NoRow \notin Events

TypeOK ==
  /\ customer \in Rows(CustomerStatus)
  /\ outbox \in [Events -> Rows(EventStatus)]
  /\ orgName \in Names
  /\ requeues \in 0..MaxRequeues
  /\ jobs \in [Workers -> Jobs]
  /\ provider \in [customers : SUBSET Names, accepted : SUBSET Events]

Init ==
  /\ customer = Row("Pending", 0)
  /\ outbox = [e \in Events |-> Row("None", 0)]
  /\ orgName = 0
  /\ requeues = 0
  /\ jobs = [w \in Workers |-> Free("idle")]
  /\ provider = [customers |-> {}, accepted |-> {}]

-----------------------------------------------------------------------------
(* The ledger *)

\* ON CONFLICT DO NOTHING: an event that is in the ledger stays as it is.
EnqueueBillingUsageEvent(e) ==
  /\ outbox[e].status = "None"
  /\ outbox' = [outbox EXCEPT ![e] = Row("Pending", 0)]
  /\ UNCHANGED <<customer, orgName, requeues, jobs, provider>>

\* The trigger on organizations sends the customer through provisioning again.
RefreshBillingShadowCustomer ==
  /\ orgName < MaxRenames
  /\ orgName' = orgName + 1
  /\ customer' = Row("Pending", 0)
  /\ UNCHANGED <<outbox, requeues, jobs, provider>>

RequeueFailedBillingShadow ==
  /\ requeues < MaxRequeues
  /\ requeues' = requeues + 1
  /\ customer' = IF customer.status = "Failed" THEN Row("Pending", 0) ELSE customer
  /\ outbox' = [e \in Events |-> IF outbox[e].status = "Failed" THEN Row("Pending", 0) ELSE outbox[e]]
  /\ UNCHANGED <<orgName, jobs, provider>>

-----------------------------------------------------------------------------
(* Claims *)

\* Mutations: a claim without the limit of attempts; one that leaves the
\* abandoned rows to their worker.
ClaimableWithoutLimit(row, claimed) == row.status = "Pending" \/ (row.status = claimed /\ row.abandoned)
ClaimableWhenPending(row, claimed) == row.attempts < MaxAttempts /\ row.status = "Pending"

\* A row whose next attempt is due, or whose claim was abandoned.
Claimable(row, claimed) ==
  /\ row.attempts < MaxAttempts
  /\ row.status = "Pending" \/ (row.status = claimed /\ row.abandoned)

StartDelivery(w) ==
  /\ jobs[w].phase = "idle"
  /\ jobs' = [jobs EXCEPT ![w] = Free("customers")]
  /\ UNCHANGED <<customer, outbox, orgName, requeues, provider>>

ClaimCustomer(w) ==
  /\ jobs[w].phase = "customers" /\ jobs[w].row = NoRow
  /\ Claimable(customer, "Provisioning")
  /\ customer' = Row("Provisioning", customer.attempts + 1)
  /\ jobs' = [jobs EXCEPT ![w] = Job("customers", TheCustomer, customer.attempts + 1, orgName, "none")]
  /\ UNCHANGED <<outbox, orgName, requeues, provider>>

\* No customer is due, or the limit or the deadline of the batch is reached.
StartEvents(w) ==
  /\ jobs[w].phase = "customers" /\ jobs[w].row = NoRow
  /\ jobs' = [jobs EXCEPT ![w] = Free("events")]
  /\ UNCHANGED <<customer, outbox, orgName, requeues, provider>>

\* Mutation: any customer that did not fail will do.
CustomerDidNotFail == customer.status # "Failed"

CustomerIsProvisioned == customer.status = "Provisioned"

ClaimEvent(w, e) ==
  /\ jobs[w].phase = "events" /\ jobs[w].row = NoRow
  /\ CustomerIsProvisioned
  /\ Claimable(outbox[e], "Sending")
  /\ outbox' = [outbox EXCEPT ![e] = Row("Sending", outbox[e].attempts + 1)]
  /\ jobs' = [jobs EXCEPT ![w] = Job("events", e, outbox[e].attempts + 1, 0, "none")]
  /\ UNCHANGED <<customer, orgName, requeues, provider>>

\* The batch is over, at its limit or deadline or with nothing left to claim;
\* or the process dies, with a claim in its hands or without.
EndDelivery(w) ==
  /\ jobs[w].phase # "idle"
  /\ jobs' = [jobs EXCEPT ![w] = Free("idle")]
  /\ UNCHANGED <<customer, outbox, orgName, requeues, provider>>

\* Five minutes pass since a claim.
ClaimIsAbandoned ==
  \/ /\ customer.status = "Provisioning" /\ ~customer.abandoned
     /\ customer' = [customer EXCEPT !.abandoned = TRUE]
     /\ UNCHANGED <<outbox, orgName, requeues, jobs, provider>>
  \/ \E e \in Events :
       /\ outbox[e].status = "Sending" /\ ~outbox[e].abandoned
       /\ outbox' = [outbox EXCEPT ![e].abandoned = TRUE]
       /\ UNCHANGED <<customer, orgName, requeues, jobs, provider>>

-----------------------------------------------------------------------------
(* The provider *)

\* The request takes effect; its answer may still be lost (a timeout).
ProviderAccepts(w) ==
  /\ jobs[w].row # NoRow /\ jobs[w].answer = "none"
  /\ provider' = IF jobs[w].row = TheCustomer
                 THEN [provider EXCEPT !.customers = {jobs[w].name}]
                 ELSE [provider EXCEPT !.accepted = @ \cup {jobs[w].row}]
  /\ \E answer \in {"accepted", "retryable"} : jobs' = [jobs EXCEPT ![w].answer = answer]
  /\ UNCHANGED <<customer, outbox, orgName, requeues>>

ProviderRefuses(w) ==
  /\ jobs[w].row # NoRow /\ jobs[w].answer = "none"
  /\ \E answer \in {"retryable", "fatal", "unauthorized"} : jobs' = [jobs EXCEPT ![w].answer = answer]
  /\ UNCHANGED <<customer, outbox, orgName, requeues, provider>>

-----------------------------------------------------------------------------
(* Recording the answer *)

\* Mutation: off by one at the last attempt.
FailureAfterLimit(answer, attempts) ==
  IF answer # "retryable" \/ attempts > MaxAttempts THEN "Failed" ELSE "Pending"

\* failure(): whether the row is tried again.
Failure(answer, attempts) ==
  IF answer # "retryable" \/ attempts >= MaxAttempts THEN "Failed" ELSE "Pending"

\* Authentication failures end the batch of whoever meets them.
NextPhase(w) == IF jobs[w].answer = "unauthorized" THEN "idle" ELSE jobs[w].phase

\* Mutation: the attempt number alone.
HoldsAttempt(w, row, claimed) == row.attempts = jobs[w].attempts

\* The attempt number of the claim is the compare-and-set token.
HoldsClaim(w, row, claimed) == row.status = claimed /\ row.attempts = jobs[w].attempts

Settled(w, row, claimed, done) ==
  IF ~HoldsClaim(w, row, claimed) THEN row
  ELSE [row EXCEPT !.status = IF jobs[w].answer = "accepted" THEN done
                              ELSE Failure(jobs[w].answer, jobs[w].attempts),
                   !.abandoned = FALSE]

MarkCustomer(w) ==
  /\ jobs[w].row = TheCustomer /\ jobs[w].answer # "none"
  /\ customer' = Settled(w, customer, "Provisioning", "Provisioned")
  /\ jobs' = [jobs EXCEPT ![w] = Free(NextPhase(w))]
  /\ UNCHANGED <<outbox, orgName, requeues, provider>>

MarkEvent(w) ==
  /\ jobs[w].row \in Events /\ jobs[w].answer # "none"
  /\ outbox' = [outbox EXCEPT ![jobs[w].row] = Settled(w, @, "Sending", "Sent")]
  /\ jobs' = [jobs EXCEPT ![w] = Free(NextPhase(w))]
  /\ UNCHANGED <<customer, orgName, requeues, provider>>

-----------------------------------------------------------------------------
(* Specification *)

WorkerStep(w) ==
  \/ StartDelivery(w)
  \/ ClaimCustomer(w)
  \/ StartEvents(w)
  \/ \E e \in Events : ClaimEvent(w, e)
  \/ EndDelivery(w)
  \/ ProviderAccepts(w)
  \/ ProviderRefuses(w)
  \/ MarkCustomer(w)
  \/ MarkEvent(w)

Next ==
  \/ \E e \in Events : EnqueueBillingUsageEvent(e)
  \/ RefreshBillingShadowCustomer
  \/ RequeueFailedBillingShadow
  \/ ClaimIsAbandoned
  \/ \E w \in Workers : WorkerStep(w)

Spec == Init /\ [][Next]_vars

\* The scheduler ticks every minute, a call ends (the platform stops it after
\* five minutes), five minutes always pass, not every call dies before it
\* gets to the events, and calls that keep finding a row that is due claim
\* it in the end: a batch takes at least one row, in the order of their next
\* attempts.  Nothing is assumed of a claim once it is made: the process may
\* die with it, and the provider may refuse everything.
Fairness ==
  /\ WF_vars(ClaimIsAbandoned)
  /\ SF_vars(\E w \in Workers : ClaimCustomer(w))
  /\ \A e \in Events : SF_vars(\E w \in Workers : ClaimEvent(w, e))
  /\ \A w \in Workers : WF_vars(StartDelivery(w)) /\ SF_vars(StartEvents(w))
  /\ \A w \in Workers : WF_vars(EndDelivery(w) \/ MarkCustomer(w) \/ MarkEvent(w))

FairSpec == Spec /\ Fairness

-----------------------------------------------------------------------------
(* Properties *)

\* How the ledger reads a row of the outbox.
StandingOf(status) ==
  CASE status = "None"                    -> "unknown"
    [] status \in {"Pending", "Sending"}  -> "owed"
    [] status = "Sent"                    -> "sent"
    [] status = "Failed"                  -> "failed"

Ledger == INSTANCE UsageLedger WITH
  ledger <- [e \in Events |-> StandingOf(outbox[e].status)],
  accepted <- provider.accepted

\* The outbox is an implementation of the ledger's promise: an event is
\* recorded once, called Sent only after the provider accepted it, and then
\* left alone by every worker, late or not, and by the requeue.
ImplementsLedger == Ledger!Spec

\* Usage reaches the provider only for a customer the provider knows, so no
\* event is refused or dropped there for an unknown customer.
UsageNeedsCustomer == provider.accepted # {} => provider.customers # {}

\* A row that waits for a next attempt has one left: no row is left Pending
\* for ever by an attempt count that reached the limit.
PendingIsClaimable ==
  /\ customer.status = "Pending" => customer.attempts < MaxAttempts
  /\ \A e \in Events : outbox[e].status = "Pending" => outbox[e].attempts < MaxAttempts

\* Every event that is owed is settled, or its attempts or its customer's are
\* used up.
OwedIsSettled ==
  \A e \in Events :
    outbox[e].status = "Pending" ~>
      \/ outbox[e].status \in {"Sent", "Failed"} \/ outbox[e].attempts = MaxAttempts
      \/ customer.status = "Failed" \/ customer.attempts = MaxAttempts

\* "recovers claims abandoned for more than five minutes": as long as the
\* customer is provisioned, but not a claim of the last attempt.
AbandonedClaimsAreRecovered ==
  \A e \in Events : outbox[e].status = "Sending" /\ outbox[e].abandoned ~>
    \/ ~(outbox[e].status = "Sending" /\ outbox[e].abandoned)
    \/ ~CustomerIsProvisioned
=============================================================================
