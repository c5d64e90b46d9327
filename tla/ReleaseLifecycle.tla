--------------------------- MODULE ReleaseLifecycle ---------------------------
(***************************************************************************)
(* The stage of a problem and the implementation state of its engineering  *)
(* ticket: moved by the coordinator on stored evidence, by GitHub's merge  *)
(* and deployment events, by post-release verification, and by people.     *)
(* Source: src/src/lib/problem-automation-repository.ts,                   *)
(* release-lifecycle-repository.ts, github-webhook-repository.ts (merges), *)
(* problem-stage-transition-repository.ts, postgres-store.ts and the       *)
(* ticket edits of engineering-workflow-repository.ts.                     *)
(*                                                                         *)
(* A coordinator's transaction reads the problems FOR UPDATE and moves one *)
(* of them.  In between, whatever writes a problem or a row that refers to *)
(* one has to wait; the edit of a ticket does neither.  A second tick      *)
(* waits for the organization's advisory lock.  A tick skips problems that *)
(* are locked; the other transactions are one step here, so none is.  How  *)
(* a verification job gets its verdict is ReleaseVerifier.                 *)
(***************************************************************************)
EXTENDS Naturals

CONSTANTS Problems,     \* problems of one organization
          NoProblem,
          MaxRevisions, \* revisions of a ticket
          MaxJobs,      \* successful deployments
          HandStages    \* stages people move a ticket to by hand

ASSUME ProblemAssumption == NoProblem \notin Problems
ASSUME BoundAssumption == MaxRevisions \in Nat \ {0} /\ MaxJobs \in Nat /\ HandStages \subseteq 1..9

VARIABLES tickets,       \* stage, implementation_state and revision of each problem
          facts,         \* what the coordinator reads of approvals and work
          pulls,         \* the pull request of each problem and its merges
          jobs,          \* post_release_verification_jobs
          verifications, \* the engineering_release_verifications that passed
          resting,       \* a ticket of the organization moved in the last 30 seconds
          tick,          \* the problem a tick is about to move
          audited        \* the automatic moves in audit_events

vars == <<tickets, facts, pulls, jobs, verifications, resting, tick, audited>>

-----------------------------------------------------------------------------
(* Rows *)

\* PRODUCT_PROBLEM_STAGES, numbered in their order.
Detected     == 1
NeedsReview  == 2
Approved     == 3
Planned      == 4
InProgress   == 5
ReleaseReady == 6
Released     == 7
Verified     == 8
Closed       == 9
Stages       == Detected..Closed

Revisions == 1..MaxRevisions
\* No revision yet.
None      == 0
Jobs      == 1..MaxJobs

\* implementation_state; what precedes the merge is one state here.
States   == {"In development", "Release Ready", "Released", "Verified"}
Tickets  == [stage : Stages, state : States, revision : Revisions]
Ticket(stage, state, revision) == [stage |-> stage, state |-> state, revision |-> revision]

\* proposal: the external action an investigation proposed is not decided.
\* approved: an approval was granted, which left a work item or a coding run.
Facts == {"proposal", "approved"}

\* revision: what the open pull request implements.  seen: its "merged" event
\* was delivered.  merged: revisions with a Succeeded merge attempt.
Pulls == [revision : Revisions \cup {None}, seen : BOOLEAN, merged : SUBSET Revisions]
Pull(revision, seen, merged) == [revision |-> revision, seen |-> seen, merged |-> merged]

\* revision: what the deployed commit implements.
JobRows == [status : {"None", "Open", "Passed", "Failed"},
            problem : Problems \cup {NoProblem}, revision : Revisions \cup {None}]
Job(status, p, r) == [status |-> status, problem |-> p, revision |-> r]

Verdicts == {"Passed", "Failed"}
\* Nothing reads the rows of verifications that failed.
Verifications == [problem : Problems, revision : Revisions]
Verification(p, r) == [problem |-> p, revision |-> r]

TypeOK ==
  /\ tickets \in [Problems -> Tickets]
  /\ facts \in [Problems -> SUBSET Facts]
  /\ pulls \in [Problems -> Pulls]
  /\ jobs \in [Jobs -> JobRows]
  /\ verifications \subseteq Verifications
  /\ resting \in BOOLEAN
  /\ tick \in Problems \cup {NoProblem}
  /\ audited \subseteq Problems \X Stages

Init ==
  /\ tickets = [p \in Problems |-> Ticket(Detected, "In development", 1)]
  /\ facts = [p \in Problems |-> {"proposal"}]
  /\ pulls = [p \in Problems |-> Pull(None, FALSE, {})]
  /\ jobs = [j \in Jobs |-> Job("None", NoProblem, None)]
  /\ verifications = {}
  /\ resting = FALSE
  /\ tick = NoProblem
  /\ audited = {}

\* No tick holds the problems.
Unlocked == tick = NoProblem

SetTicket(p, stage, state) ==
  tickets' = [tickets EXCEPT ![p] = Ticket(stage, state, @.revision)]

-----------------------------------------------------------------------------
(* The coordinator *)

PassedForRevision(p) == Verification(p, tickets[p].revision) \in verifications

\* What assessAutomatedStage wants to see before a ticket enters the stage.  A
\* detected problem has the feedback it was made from.  Nothing sets a customer
\* notification to "Sent", so no ticket is closed.
Evidence(p, stage) ==
  \/ stage = NeedsReview
  \/ stage \in Approved..InProgress /\ "approved" \in facts[p]
  \/ stage = ReleaseReady /\ pulls[p].merged # {}
  \/ stage = Released /\ tickets[p].state \in {"Released", "Verified"}
  \/ stage = Verified /\ PassedForRevision(p)

Qualified(p) == Evidence(p, tickets[p].stage + 1)

\* Mutation: released problems are left out as closed ones are.
CandidateBeforeRelease(p) == Qualified(p) /\ tickets[p].stage < Released
Candidate(p) == Qualified(p) /\ tickets[p].stage # Closed

\* The earliest stage first, then severity and age, which are left open.
TickReads(p) ==
  /\ Unlocked /\ ~resting /\ Candidate(p)
  /\ \A q \in Problems : Candidate(q) => tickets[p].stage <= tickets[q].stage
  /\ tick' = p
  /\ UNCHANGED <<tickets, facts, pulls, jobs, verifications, resting, audited>>

\* Mutation: closing a problem closes its ticket, which has no such state.
StateWithClosed(p, stage) ==
  CASE stage = ReleaseReady -> "Release Ready"
    [] stage = Released     -> "Released"
    [] stage = Verified     -> "Verified"
    [] stage = Closed       -> "Closed"
    [] OTHER                -> tickets[p].state
\* The release stages are states of the ticket too.
StateAt(p, stage) ==
  CASE stage = ReleaseReady -> "Release Ready"
    [] stage = Released     -> "Released"
    [] stage = Verified     -> "Verified"
    [] OTHER                -> tickets[p].state

TickMoves(p) ==
  LET from == tickets[p].stage IN
    /\ tick = p /\ <<p, from>> \notin audited
    /\ SetTicket(p, from + 1, StateAt(p, from + 1))
    /\ audited' = audited \cup {<<p, from>>}
    /\ resting' = TRUE
    /\ tick' = NoProblem
    /\ UNCHANGED <<facts, pulls, jobs, verifications>>

\* The audit row of a move names the problem and the two stages, and
\* audit_events takes it once: the transaction is rolled back.
TickFails(p) ==
  /\ tick = p /\ <<p, tickets[p].stage>> \in audited
  /\ tick' = NoProblem
  /\ UNCHANGED <<tickets, facts, pulls, jobs, verifications, resting, audited>>

RestEnds ==
  /\ resting
  /\ resting' = FALSE
  /\ UNCHANGED <<tickets, facts, pulls, jobs, verifications, tick, audited>>

-----------------------------------------------------------------------------
(* Evidence arrives *)

\* Whether the run fails is not told apart.
ApproveImplementationRun(p) ==
  /\ "approved" \notin facts[p]
  /\ facts' = [facts EXCEPT ![p] = @ \cup {"approved"}]
  /\ UNCHANGED <<tickets, pulls, jobs, verifications, resting, tick, audited>>

\* An approved coding run for the revision ends in a draft pull request.
RunPublishes(p) ==
  /\ Unlocked /\ pulls[p].revision # tickets[p].revision
  /\ facts' = [facts EXCEPT ![p] = @ \cup {"approved"}]
  /\ SetTicket(p, tickets[p].stage, "In development")
  /\ pulls' = [pulls EXCEPT ![p] = Pull(tickets[p].revision, FALSE, @.merged)]
  /\ UNCHANGED <<jobs, verifications, resting, tick, audited>>

\* A worker records the merge it made.
MergeRecorded(p) ==
  LET r == pulls[p].revision IN
    /\ r \notin pulls[p].merged \cup {None}
    /\ pulls' = [pulls EXCEPT ![p] = Pull(r, @.seen, @.merged \cup {r})]
    /\ UNCHANGED <<tickets, facts, jobs, verifications, resting, tick, audited>>

\* attempted: there is a merge attempt, which the event settles.
MergedEvent(p, attempted) ==
  LET r == pulls[p].revision IN
    /\ Unlocked /\ r # None /\ ~pulls[p].seen
    /\ pulls' = [pulls EXCEPT ![p] = Pull(r, TRUE, IF attempted THEN @.merged \cup {r} ELSE @.merged)]
    /\ SetTicket(p, IF tickets[p].stage \in Approved..InProgress THEN ReleaseReady ELSE tickets[p].stage,
                    IF tickets[p].state \in {"Released", "Verified"} THEN tickets[p].state
                    ELSE "Release Ready")
    /\ UNCHANGED <<facts, jobs, verifications, resting, tick, audited>>

\* Mutation: a deployment releases the problem whatever its stage is.
ReleasedFrom(stage) == Released
\* A deployment releases what was on its way to a release.
StageAfterDeployment(stage) == IF stage \in Approved..ReleaseReady THEN Released ELSE stage

\* A deployment of a merged revision succeeds; others are not tracked.
RecordGithubDeploymentStatus(p, r, j) ==
  /\ Unlocked /\ r \in pulls[p].merged
  /\ jobs[j].status = "None" /\ \A i \in 1..(j - 1) : jobs[i].status # "None"
  /\ SetTicket(p, StageAfterDeployment(tickets[p].stage),
                  IF tickets[p].state = "Verified" THEN "Verified" ELSE "Released")
  /\ jobs' = [jobs EXCEPT ![j] = Job("Open", p, r)]
  /\ UNCHANGED <<facts, pulls, verifications, resting, tick, audited>>

AddVerification(p, v) ==
  verifications' = verifications \cup (IF v = "Passed" THEN {Verification(p, tickets[p].revision)} ELSE {})

\* Mutation: the ticket is Verified whatever the verdict.
VerifiedOnVerdict(p, v) ==
  SetTicket(p, IF tickets[p].stage = Released THEN Verified ELSE tickets[p].stage, "Verified")
ApplyVerdict(p, v) ==
  \/ /\ v = "Passed"
     /\ SetTicket(p, IF tickets[p].stage = Released THEN Verified ELSE tickets[p].stage, "Verified")
  \/ v = "Failed" /\ UNCHANGED tickets

\* The verdict is recorded for the revision the ticket has now.
CompletePostReleaseVerification(j, v) ==
  LET p == jobs[j].problem IN
    /\ Unlocked /\ jobs[j].status = "Open"
    /\ jobs' = [jobs EXCEPT ![j] = Job(v, p, @.revision)]
    /\ AddVerification(p, v)
    /\ ApplyVerdict(p, v)
    /\ UNCHANGED <<facts, pulls, resting, tick, audited>>

-----------------------------------------------------------------------------
(* People *)

RecordReleaseVerification(p, v) ==
  /\ Unlocked /\ tickets[p].stage = Released
  /\ AddVerification(p, v)
  /\ UNCHANGED <<tickets, facts, pulls, jobs, resting, tick, audited>>

SaveEngineeringSpecification(p) ==
  /\ tickets[p].revision < MaxRevisions
  /\ tickets' = [tickets EXCEPT ![p] = Ticket(@.stage, "In development", @.revision + 1)]
  /\ UNCHANGED <<facts, pulls, jobs, verifications, resting, tick, audited>>

\* Prompts, approvals and runs that end put the ticket back into development.
WorkGoesOn(p) ==
  /\ tickets[p].state # "In development"
  /\ SetTicket(p, tickets[p].stage, "In development")
  /\ UNCHANGED <<facts, pulls, jobs, verifications, resting, tick, audited>>

TransitionProblemStage(p, stage) ==
  /\ Unlocked /\ stage # tickets[p].stage
  /\ SetTicket(p, stage, tickets[p].state)
  /\ UNCHANGED <<facts, pulls, jobs, verifications, resting, tick, audited>>

\* approvePostgresAction and rejectPostgresAction put the problem of the
\* external action at a stage whatever stage it has.
DecideAction(p, approve) ==
  /\ Unlocked /\ "proposal" \in facts[p]
  /\ facts' = [facts EXCEPT ![p] = (@ \ {"proposal"}) \cup IF approve THEN {"approved"} ELSE {}]
  /\ SetTicket(p, IF approve THEN Approved ELSE NeedsReview, tickets[p].state)
  /\ UNCHANGED <<pulls, jobs, verifications, resting, tick, audited>>

\* People also advance the problem of the external action step by step.
AdvanceLifecycle(p) ==
  LET next == tickets[p].stage + 1 IN
    /\ Unlocked /\ next \in Planned..Closed
    /\ next = Verified => PassedForRevision(p)
    /\ SetTicket(p, next, StateAt(p, next))
    /\ UNCHANGED <<facts, pulls, jobs, verifications, resting, tick, audited>>

-----------------------------------------------------------------------------
(* Specification *)

CoordinatorStep ==
  \/ \E p \in Problems : TickReads(p) \/ TickMoves(p) \/ TickFails(p)
  \/ RestEnds

EvidenceStep(p) ==
  \/ ApproveImplementationRun(p)
  \/ RunPublishes(p)
  \/ MergeRecorded(p)
  \/ \E attempted \in BOOLEAN : MergedEvent(p, attempted)
  \/ \E r \in Revisions, j \in Jobs : RecordGithubDeploymentStatus(p, r, j)

PersonStep(p) ==
  \/ \E v \in Verdicts : RecordReleaseVerification(p, v)
  \/ SaveEngineeringSpecification(p)
  \/ WorkGoesOn(p)
  \/ \E stage \in HandStages : TransitionProblemStage(p, stage)
  \/ \E approve \in BOOLEAN : DecideAction(p, approve)
  \/ AdvanceLifecycle(p)

Next ==
  \/ CoordinatorStep
  \/ \E p \in Problems : EvidenceStep(p) \/ PersonStep(p)
  \/ \E j \in Jobs, v \in Verdicts : CompletePostReleaseVerification(j, v)

Spec == Init /\ [][Next]_vars

\* The scheduler calls the coordinator every minute, and a transaction ends.
Fairness ==
  /\ WF_vars(\E p \in Problems : TickReads(p))
  /\ WF_vars(\E p \in Problems : TickMoves(p) \/ TickFails(p))
  /\ WF_vars(RestEnds)

FairSpec == Spec /\ Fairness

-----------------------------------------------------------------------------
(* Properties *)

\* A ticket is called Verified only if something passed for this problem: an
\* edit, a failed verdict and a late event all leave or make it something else.
VerifiedIsEvidenced ==
  \A p \in Problems : tickets[p].state = "Verified" =>
    \E v \in verifications : v.problem = p

\* Events that come late or again never move a ticket back; people may.
OnlyPeopleMoveBack ==
  [][\A p \in Problems : tickets'[p].stage < tickets[p].stage =>
       \/ TransitionProblemStage(p, tickets'[p].stage)
       \/ \E approve \in BOOLEAN : DecideAction(p, approve)]_vars

\* The move of a ticket whose evidence is there was made once before.
Repeats(p) == Qualified(p) /\ <<p, tickets[p].stage>> \in audited

\* A ticket with the evidence for its next stage does not wait for ever,
\* unless some ticket of the organization is about to repeat a move.
QualifiedTicketMoves ==
  \A p \in Problems : Qualified(p) ~> ~Qualified(p) \/ \E q \in Problems : Repeats(q)

\* src/README.md: "every other transition requires stored evidence and is
\* agent-managed".  A ticket whose evidence is stored is moved on.
EvidenceMovesTicket == \A p \in Problems : Qualified(p) ~> ~Qualified(p)
=============================================================================
