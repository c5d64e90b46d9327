--------------------------- MODULE TicketWorkflow ---------------------------
(***************************************************************************)
(* The engineering workflow of one product problem: its mutable ticket     *)
(* specification, the immutable prompt revisions rendered from it, the     *)
(* Prompt Testing verifications (acceptance contracts) of those prompts,   *)
(* the single-use approvals bound to a prompt and a contract, and the      *)
(* coding runs the approvals start.                                        *)
(* Source: src/src/lib/engineering-workflow-repository.ts, with the two    *)
(* handlers of other files that write the same tables.                     *)
(*                                                                         *)
(* Each table is a function from row ids to rows; a row that was never     *)
(* inserted has the status "None".  Ids are handed out in insertion order, *)
(* so they stand for revision (prompts), created_at (verifications,        *)
(* approvals) and queued_at (runs).  The content hash of a prompt is its   *)
(* id: migration 051 makes (org, problem, content_hash) unique.            *)
(*                                                                         *)
(* A database transaction is one action, except where a handler reads      *)
(* something it does not lock and acts on it later (in the same            *)
(* transaction or in a later one).  Such a handler is a request of a       *)
(* client, whose local state "op" holds what it read.                      *)
(* An SQL statement reads and writes at one instant here, and the lock a   *)
(* handler takes on the prompt's row orders the transactions that take it; *)
(* an UPDATE that judges other tables by its own older snapshot is not     *)
(* modelled.                                                               *)
(***************************************************************************)
EXTENDS Naturals

CONSTANTS PromptIds,      \* prompt revisions of the problem
          VerificationIds,\* Prompt Testing attempts
          ApprovalIds,    \* approval requests with action_type 'agent_run'
          RunIds,         \* agent runs of the kind 'implementation'
          Stories,        \* user stories a product manager may test
          SpecRevisions,  \* revisions of the ticket, 0 before it exists
          Clients         \* concurrent requests whose reads can be stale

ASSUME IdAssumption ==
  /\ PromptIds \subseteq Nat \ {0}
  /\ VerificationIds \subseteq Nat \ {0}
  /\ ApprovalIds \subseteq Nat \ {0}
  /\ RunIds \subseteq Nat \ {0}

ASSUME SpecRevisionAssumption == SpecRevisions \subseteq Nat /\ {0, 1} \subseteq SpecRevisions

VARIABLES spec,          \* engineering_ticket_specifications
          prompts,       \* implementation_prompts
          verifications, \* pdd_prompt_verifications
          approvals,     \* approval_requests
          runs,          \* agent_runs
          op             \* the request each client is in the middle of

vars == <<spec, prompts, verifications, approvals, runs, op>>

-----------------------------------------------------------------------------
(* Rows *)

ImplementationStates ==
  {"Draft specification", "Prompt ready", "Awaiting approval", "Running",
   "Tests passed", "Draft PR opened"}
PromptStatus == {"None", "Draft", "Ready", "Awaiting approval", "Approved", "Superseded"}
VerificationStatus ==
  {"None", "Queued", "Generating tests", "Ready for approval", "Failed", "Superseded"}
ApprovalStatus == {"None", "Pending", "Approved", "Rejected", "Expired"}

ActiveStatus    == {"Queued", "Running", "Tests passed"}
RetryableStatus == {"Failed", "No changes"}
TerminalStatus  == RetryableStatus \cup {"Draft PR opened", "Cancelled"}
RunStatus       == ActiveStatus \cup TerminalStatus \cup {"None", "Deleted"}

\* A verification is open while it can still become, or already is, the
\* contract of an approval.
GeneratingStatus == {"Queued", "Generating tests"}
OpenStatus       == GeneratingStatus \cup {"Ready for approval"}

NoId == 0

Prompt(status, specRev) == [status |-> status, specRev |-> specRev]
Verification(status, p, story) == [status |-> status, prompt |-> p, story |-> story]
Approval(status, p, v, overdue) ==
  [status |-> status, prompt |-> p, verification |-> v, overdue |-> overdue]
Run(status, a, p, v) ==
  [status |-> status, approval |-> a, prompt |-> p, verification |-> v]

NoStory == "no story"
Request(step, rev, p, r, story, thenTest) ==
  [step |-> step, rev |-> rev, prompt |-> p, run |-> r, story |-> story, thenTest |-> thenTest]
Idle == Request("idle", 0, NoId, NoId, NoStory, FALSE)

Specifications == [revision : SpecRevisions, state : ImplementationStates]
PromptRows == [status : PromptStatus, specRev : SpecRevisions]
VerificationRows ==
  [status : VerificationStatus, prompt : PromptIds \cup {NoId}, story : Stories \cup {NoStory}]
ApprovalRows ==
  [status : ApprovalStatus, prompt : PromptIds \cup {NoId},
   verification : VerificationIds \cup {NoId}, overdue : BOOLEAN]
RunRows ==
  [status : RunStatus, approval : ApprovalIds \cup {NoId},
   prompt : PromptIds \cup {NoId}, verification : VerificationIds \cup {NoId}]
Requests ==
  [step : {"idle", "save", "rebind", "render", "test", "reopen"},
   rev : SpecRevisions, prompt : PromptIds \cup {NoId}, run : RunIds \cup {NoId},
   story : Stories \cup {NoStory}, thenTest : BOOLEAN]

TypeOK ==
  /\ spec \in Specifications
  /\ prompts \in [PromptIds -> PromptRows]
  /\ verifications \in [VerificationIds -> VerificationRows]
  /\ approvals \in [ApprovalIds -> ApprovalRows]
  /\ runs \in [RunIds -> RunRows]
  /\ op \in [Clients -> Requests]

Init ==
  /\ spec = [revision |-> 0, state |-> "Draft specification"]
  /\ prompts = [p \in PromptIds |-> Prompt("None", 0)]
  /\ verifications = [v \in VerificationIds |-> Verification("None", NoId, NoStory)]
  /\ approvals = [a \in ApprovalIds |-> Approval("None", NoId, NoId, FALSE)]
  /\ runs = [r \in RunIds |-> Run("None", NoId, NoId, NoId)]
  /\ op = [c \in Clients |-> Idle]

-----------------------------------------------------------------------------
(* Reading and rewriting tables *)

\* i is the id the next INSERT into the table gets.
IsNextRow(table, i) ==
  /\ table[i].status = "None"
  /\ \A j \in DOMAIN table : j < i => table[j].status # "None"

\* ORDER BY ... DESC LIMIT 1 over the rows a condition selects.
IsLatest(ids, i) == i \in ids /\ \A j \in ids : j <= i

ExistingPrompts == {p \in PromptIds : prompts[p].status # "None"}
LivePrompts     == {p \in ExistingPrompts : prompts[p].status # "Superseded"}
ExistingRuns    == {r \in RunIds : runs[r].status \notin {"None", "Deleted"}}
ActiveRuns      == {r \in RunIds : runs[r].status \in ActiveStatus}
PendingApprovals == {a \in ApprovalIds : approvals[a].status = "Pending"}

\* UPDATE implementation_prompts SET status='Superseded' for the problem.
SupersedeAllPrompts ==
  [p \in PromptIds |-> IF p \in ExistingPrompts
                       THEN [prompts[p] EXCEPT !.status = "Superseded"]
                       ELSE prompts[p]]

Supersede(vs) ==
  [v \in VerificationIds |-> IF v \in vs
                             THEN [verifications[v] EXCEPT !.status = "Superseded"]
                             ELSE verifications[v]]

\* The contract of an approval that is pending or was consumed.
BoundByApproval(v) ==
  \E a \in ApprovalIds : approvals[a].verification = v /\ approvals[a].status \in {"Pending", "Approved"}

\* Mutation: a run whose tests passed is no longer active.
BoundByExecutingRun(v) ==
  \E r \in RunIds : runs[r].status \in {"Queued", "Running"} /\ runs[r].verification = v

BoundByActiveRun(v) == \E r \in ActiveRuns : runs[r].verification = v

\* Mutations: the status of the board instead of the prompt's own; a run that
\* fails and leaves its prompt alone.
ReopenedWithBoardState(p) == [prompts EXCEPT ![p].status = IF @ = "Approved" THEN "Prompt ready" ELSE @]
NotReopened(p) == prompts

\* What a terminal coding run does to its prompt: only an Approved prompt is
\* reopened, so a prompt that was superseded meanwhile stays superseded.
Reopened(p) ==
  [prompts EXCEPT ![p].status = IF @ = "Approved" THEN "Ready" ELSE @]

\* Mutation: a ticket in progress is not moved.
SetStateUnlessRunning(state) == spec' = IF spec.state = "Running" THEN spec ELSE [spec EXCEPT !.state = state]

SetState(state) == spec' = [spec EXCEPT !.state = state]

-----------------------------------------------------------------------------
(* Preparing the ticket and its prompt *)

\* The automatic draft is written only over an empty ticket, under an
\* advisory lock: its check and its inserts are one step.
CreateAutomatedPromptDraft(p) ==
  /\ spec.revision = 0 /\ ExistingPrompts = {}
  /\ IsNextRow(prompts, p)
  /\ spec' = [revision |-> 1, state |-> "Draft specification"]
  /\ prompts' = [prompts EXCEPT ![p] = Prompt("Draft", 1)]
  /\ UNCHANGED <<verifications, approvals, runs, op>>

\* The two SELECT ... FOR UPDATE lock nothing when they find no row, so an
\* approval or a run may appear before the writes that follow them.
TicketIsQuiet == PendingApprovals = {} /\ ActiveRuns = {}

SaveCheck(c) ==
  /\ op[c].step = "idle"
  /\ TicketIsQuiet
  /\ op' = [op EXCEPT ![c] = Request("save", 0, NoId, NoId, NoStory, FALSE)]
  /\ UNCHANGED <<spec, prompts, verifications, approvals, runs>>

SaveEngineeringSpecification(c) ==
  /\ op[c].step = "save"
  /\ spec.revision + 1 \in SpecRevisions
  /\ spec' = [revision |-> spec.revision + 1, state |-> "Draft specification"]
  /\ prompts' = SupersedeAllPrompts
  /\ verifications' = Supersede({v \in VerificationIds :
                        /\ verifications[v].status \in OpenStatus
                        /\ ~BoundByApproval(v) /\ ~BoundByActiveRun(v)})
  /\ op' = [op EXCEPT ![c] = Idle]
  /\ UNCHANGED <<approvals, runs>>

\* Preparing another coding run from Prompt Testing after a failed one: the
\* ticket moves to the current profile and branch head, and the prompt is
\* generated again.  Its supersession spares contracts of active runs only.
RebindCheck(c) ==
  /\ op[c].step = "idle"
  /\ spec.revision > 0 /\ ExistingPrompts # {}
  /\ \E r \in RunIds : IsLatest(ExistingRuns, r) /\ runs[r].status \in RetryableStatus
  /\ TicketIsQuiet
  /\ op' = [op EXCEPT ![c] = Request("rebind", 0, NoId, NoId, NoStory, FALSE)]
  /\ UNCHANGED <<spec, prompts, verifications, approvals, runs>>

RebindTerminalRetryToCurrentProfile(c) ==
  /\ op[c].step = "rebind"
  /\ spec.revision + 1 \in SpecRevisions
  /\ spec' = [revision |-> spec.revision + 1, state |-> "Draft specification"]
  /\ prompts' = SupersedeAllPrompts
  /\ verifications' = Supersede({v \in VerificationIds :
                        verifications[v].status \in OpenStatus /\ ~BoundByActiveRun(v)})
  /\ op' = [op EXCEPT ![c] = Request("render", spec.revision + 1, NoId, NoId, NoStory, FALSE)]
  /\ UNCHANGED <<approvals, runs>>

\* generateImplementationPrompt reads the ticket without a lock and then
\* enriches the evidence; the prompt it inserts is rendered from that read.
ReadSpecification(c) ==
  /\ op[c].step = "idle"
  /\ spec.revision > 0
  /\ op' = [op EXCEPT ![c] = Request("render", spec.revision, NoId, NoId, NoStory, FALSE)]
  /\ UNCHANGED <<spec, prompts, verifications, approvals, runs>>

\* A generation that Prompt Testing asked for goes on to test what is then
\* the latest prompt, and gives up if that prompt is not Ready.
GenerateImplementationPrompt(c, p) ==
  /\ op[c].step = "render"
  /\ IsNextRow(prompts, p)
  /\ prompts' = [SupersedeAllPrompts EXCEPT ![p] = Prompt("Ready", op[c].rev)]
  /\ SetState("Prompt ready")
  /\ op' = [op EXCEPT ![c] = IF op[c].thenTest
                             THEN Request("test", 0, p, NoId, op[c].story, FALSE)
                             ELSE Idle]
  /\ UNCHANGED <<verifications, approvals, runs>>

\* applyPddPromptRevision: the caller names the prompt it revised by hash.
Revisable(current) ==
  IsLatest(LivePrompts, current) /\ prompts[current].status # "Approved"

\* The new revision is numbered current + 1, which must not be taken.
ApplyPddPromptRevision(current, p) ==
  /\ Revisable(current)
  /\ IsLatest(ExistingPrompts, current) /\ IsNextRow(prompts, p)
  /\ prompts' = [SupersedeAllPrompts EXCEPT ![p] = Prompt("Ready", prompts[current].specRev)]
  /\ UNCHANGED <<spec, verifications, approvals, runs, op>>

\* The revised text is that of an earlier revision: it becomes Ready again.
RestorePddPromptRevision(current, earlier) ==
  /\ Revisable(current)
  /\ earlier \in ExistingPrompts \ {current}
  /\ prompts' = [SupersedeAllPrompts EXCEPT ![earlier].status = "Ready"]
  /\ UNCHANGED <<spec, verifications, approvals, runs, op>>

\* The runtime verifier confirmed the issue at the current commit: a prompt
\* nobody submitted yet is prepared again.
ConfirmCurrentIssue ==
  /\ ExistingPrompts # {}
  /\ prompts' = [p \in PromptIds |-> IF prompts[p].status \in {"Draft", "Ready"}
                                     THEN [prompts[p] EXCEPT !.status = "Superseded"]
                                     ELSE prompts[p]]
  /\ UNCHANGED <<spec, verifications, approvals, runs, op>>

-----------------------------------------------------------------------------
(* Prompt Testing *)

LatestVerificationCovers(p, story) ==
  \E v \in VerificationIds :
    /\ IsLatest({w \in VerificationIds : verifications[w].status # "None"}, v)
    /\ verifications[v].prompt = p /\ verifications[v].story = story
    /\ verifications[v].status \in OpenStatus

\* generatePddAcceptanceContract reads the workflow, generates the prompt
\* first if the latest one is missing, superseded or an automatic draft, and
\* has nothing to do if the latest verification already covers the story.
StartPromptTest(c, story) ==
  /\ op[c].step = "idle"
  /\ spec.revision > 0
  /\ \/ /\ \A p \in PromptIds : IsLatest(ExistingPrompts, p) =>
              prompts[p].status \in {"Draft", "Superseded"}
        /\ op' = [op EXCEPT ![c] = Request("render", spec.revision, NoId, NoId, story, TRUE)]
     \/ \E p \in PromptIds :
          /\ IsLatest(ExistingPrompts, p) /\ prompts[p].status = "Ready"
          /\ ~LatestVerificationCovers(p, story)
          /\ op' = [op EXCEPT ![c] = Request("test", 0, p, NoId, story, FALSE)]
  /\ UNCHANGED <<spec, prompts, verifications, approvals, runs>>

\* The prompt's status is not read again.  The insert fails on the unique
\* indexes of migrations 035 (one verification generating per problem) and
\* 042 (one open verification per prompt and story).
GeneratePddAcceptanceContract(c, v) ==
  LET p == op[c].prompt
      replaced == {w \in VerificationIds : /\ verifications[w].prompt = p
                                           /\ verifications[w].status \in OpenStatus
                                           /\ ~BoundByApproval(w)}
  IN /\ op[c].step = "test"
     /\ IsNextRow(verifications, v)
     /\ \A w \in VerificationIds \ replaced :
          /\ verifications[w].status \notin GeneratingStatus
          /\ verifications[w].prompt = p /\ verifications[w].story = op[c].story
               => verifications[w].status \notin OpenStatus
     /\ verifications' = [Supersede(replaced) EXCEPT ![v] = Verification("Queued", p, op[c].story)]
     /\ op' = [op EXCEPT ![c] = Idle]
     /\ UNCHANGED <<spec, prompts, approvals, runs>>

\* The request dies or is refused by a later check or constraint.
AbandonRequest(c) ==
  /\ op[c].step # "idle"
  /\ op' = [op EXCEPT ![c] = Idle]
  /\ UNCHANGED <<spec, prompts, verifications, approvals, runs>>

\* Mutation: a result is recorded whatever became of the verification.
OverwriteVerification(v, status) ==
  /\ verifications[v].status # "None"
  /\ verifications' = [verifications EXCEPT ![v].status = status]
  /\ UNCHANGED <<spec, prompts, approvals, runs, op>>

SetVerification(v, status) ==
  /\ verifications[v].status \in GeneratingStatus
  /\ verifications' = [verifications EXCEPT ![v].status = status]
  /\ UNCHANGED <<spec, prompts, approvals, runs, op>>

MarkPddVerificationGenerating(v) == SetVerification(v, "Generating tests")
FailPddVerification(v)           == SetVerification(v, "Failed")
CompletePddVerification(v)       == \E status \in {"Ready for approval", "Failed"} : SetVerification(v, status)

-----------------------------------------------------------------------------
(* Approvals *)

\* Also what completePddVerification, a retry and the autonomy worker call,
\* each in a transaction of its own.
RequestImplementationApproval(p, v, a) ==
  /\ prompts[p].status = "Ready"
  /\ IsLatest({w \in VerificationIds : /\ verifications[w].prompt = p
                                       /\ verifications[w].status = "Ready for approval"}, v)
  /\ IsNextRow(approvals, a)
  /\ approvals' = [approvals EXCEPT ![a] = Approval("Pending", p, v, FALSE)]
  /\ prompts' = [prompts EXCEPT ![p].status = "Awaiting approval"]
  /\ SetState("Awaiting approval")
  /\ UNCHANGED <<verifications, runs, op>>

\* Thirty minutes pass; nothing is written.
ApprovalExpires(a) ==
  /\ approvals[a].status = "Pending" /\ ~approvals[a].overdue
  /\ approvals' = [approvals EXCEPT ![a].overdue = TRUE]
  /\ UNCHANGED <<spec, prompts, verifications, runs, op>>

BindingsHold(a) ==
  LET p == approvals[a].prompt
      v == approvals[a].verification
  IN /\ prompts[p].status = "Awaiting approval"
     /\ verifications[v].status = "Ready for approval" /\ verifications[v].prompt = p

\* Mutation: the approval's own status is not looked at.
ApprovableByBindings(a) == approvals[a].status # "None" /\ ~approvals[a].overdue /\ BindingsHold(a)

Approvable(a) == approvals[a].status = "Pending" /\ ~approvals[a].overdue /\ BindingsHold(a)

ApproveImplementationRun(a, r) ==
  LET p == approvals[a].prompt
      v == approvals[a].verification
  IN /\ Approvable(a)
     /\ IsNextRow(runs, r)
     /\ approvals' = [approvals EXCEPT ![a].status = "Approved"]
     /\ prompts' = [prompts EXCEPT ![p].status = "Approved"]
     /\ runs' = [runs EXCEPT ![r] = Run("Queued", a, p, v)]
     /\ SetState("Running")
     /\ UNCHANGED <<verifications, op>>

Released(p) == [prompts EXCEPT ![p].status = "Ready"]

\* A pending approval that is rejected, or found expired when somebody
\* approves it, makes its prompt Ready whatever the prompt's status is.
ClosePendingApproval(a, status) ==
  /\ approvals[a].status = "Pending"
  /\ approvals' = [approvals EXCEPT ![a].status = status]
  /\ prompts' = Released(approvals[a].prompt)
  /\ SetState("Prompt ready")
  /\ UNCHANGED <<verifications, runs, op>>

RejectImplementationApproval(a) == ClosePendingApproval(a, "Rejected")
ApproveExpiredApproval(a)       == approvals[a].overdue /\ ClosePendingApproval(a, "Expired")

-----------------------------------------------------------------------------
(* Coding runs *)

\* Mutation: a late "started" is taken from a run that ended.
StartAnyAgentRun(r) ==
  /\ r \in ExistingRuns
  /\ runs' = [runs EXCEPT ![r].status = "Running"]
  /\ UNCHANGED <<spec, prompts, verifications, approvals, op>>

\* claimQueuedAgentRun and markAgentRunRunning; module AgentExecution models
\* the claim's lease.
StartAgentRun(r) ==
  /\ runs[r].status \in {"Queued", "Running"}
  /\ runs' = [runs EXCEPT ![r].status = "Running"]
  /\ UNCHANGED <<spec, prompts, verifications, approvals, op>>

EndAgentRun(r, status, state, prompts_) ==
  /\ runs[r].status \in ActiveStatus
  /\ runs' = [runs EXCEPT ![r].status = status]
  /\ SetState(state)
  /\ prompts' = prompts_
  /\ UNCHANGED <<verifications, approvals, op>>

\* The runner's report; a report of failure is FailAgentRun's transition.
CompleteAgentRun(r) ==
  \/ EndAgentRun(r, "Tests passed", "Tests passed", prompts)
  \/ EndAgentRun(r, "Draft PR opened", "Draft PR opened", prompts)
  \/ EndAgentRun(r, "No changes", "Prompt ready", Reopened(runs[r].prompt))

FailAgentRun(r) == EndAgentRun(r, "Failed", "Prompt ready", Reopened(runs[r].prompt))

\* GitHub reports that the runner workflow ended without a report.
ReconcileAgentWorkflow(r) ==
  \E status \in {"Failed", "Cancelled"} :
    EndAgentRun(r, status, "Prompt ready", Reopened(runs[r].prompt))

\* An administrator's cancellation leaves the prompt Approved.
CancelAgentRun(r) ==
  /\ runs[r].status \in {"Queued", "Running"}
  /\ EndAgentRun(r, "Cancelled", "Prompt ready", prompts)

\* Only Queued and Running are refused: a run whose verification or
\* publication is under way can be deleted.
DeleteAgentRun(r) ==
  /\ r \in ExistingRuns /\ runs[r].status \notin {"Queued", "Running"}
  /\ runs' = [runs EXCEPT ![r].status = "Deleted"]
  /\ UNCHANGED <<spec, prompts, verifications, approvals, op>>

\* The exact retry of a failed run reads the run and the prompt, asks GitHub
\* for the branch head, reopens the prompt if it is still Approved, and then
\* requests an approval as anybody else does.
PrepareImplementationRunRetry(c, r) ==
  LET p == runs[r].prompt
  IN /\ op[c].step = "idle"
     /\ IsLatest(ExistingRuns, r) /\ runs[r].status \in RetryableStatus
     /\ IsLatest(ExistingPrompts, p) /\ prompts[p].status = "Approved"
     /\ op' = [op EXCEPT ![c] = Request("reopen", 0, p, r, NoStory, FALSE)]
     /\ UNCHANGED <<spec, prompts, verifications, approvals, runs>>

ReopenPromptAfterTerminalAgentRun(c) ==
  LET p == op[c].prompt
  IN /\ op[c].step = "reopen"
     /\ IsLatest({r \in ExistingRuns : runs[r].prompt = p}, op[c].run)
     /\ runs[op[c].run].status \in RetryableStatus
     /\ prompts[p].status = "Approved"
     /\ prompts' = Released(p)
     /\ SetState("Prompt ready")
     /\ op' = [op EXCEPT ![c] = Idle]
     /\ UNCHANGED <<verifications, approvals, runs>>

-----------------------------------------------------------------------------
(* Specification *)

PrepareStep ==
  \/ \E p \in PromptIds : CreateAutomatedPromptDraft(p)
  \/ \E current, p \in PromptIds : ApplyPddPromptRevision(current, p)
  \/ \E current, earlier \in PromptIds : RestorePddPromptRevision(current, earlier)
  \/ ConfirmCurrentIssue

ClientStep(c) ==
  \/ SaveCheck(c)
  \/ SaveEngineeringSpecification(c)
  \/ RebindCheck(c)
  \/ RebindTerminalRetryToCurrentProfile(c)
  \/ ReadSpecification(c)
  \/ \E p \in PromptIds : GenerateImplementationPrompt(c, p)
  \/ \E story \in Stories : StartPromptTest(c, story)
  \/ \E v \in VerificationIds : GeneratePddAcceptanceContract(c, v)
  \/ \E r \in RunIds : PrepareImplementationRunRetry(c, r)
  \/ ReopenPromptAfterTerminalAgentRun(c)
  \/ AbandonRequest(c)

VerificationStep(v) ==
  \/ MarkPddVerificationGenerating(v)
  \/ FailPddVerification(v)
  \/ CompletePddVerification(v)

ApprovalStep(a) ==
  \/ \E p \in PromptIds, v \in VerificationIds : RequestImplementationApproval(p, v, a)
  \/ ApprovalExpires(a)
  \/ \E r \in RunIds : ApproveImplementationRun(a, r)
  \/ RejectImplementationApproval(a)
  \/ ApproveExpiredApproval(a)

RunStep(r) ==
  \/ StartAgentRun(r)
  \/ CompleteAgentRun(r)
  \/ FailAgentRun(r)
  \/ ReconcileAgentWorkflow(r)
  \/ CancelAgentRun(r)
  \/ DeleteAgentRun(r)

Next ==
  \/ PrepareStep
  \/ \E c \in Clients : ClientStep(c)
  \/ \E v \in VerificationIds : VerificationStep(v)
  \/ \E a \in ApprovalIds : ApprovalStep(a)
  \/ \E r \in RunIds : RunStep(r)

Spec == Init /\ [][Next]_vars

-----------------------------------------------------------------------------
(* Properties *)

\* Every coding run, whatever became of it, came from an approval that was
\* consumed for it alone, and runs exactly the prompt and the acceptance
\* contract that approval was bound to (README: "a single-use approval can
\* launch one isolated Tenki Sandbox coding run"), so the unique index on
\* agent_runs(approval_id) is never what stops a second run.
SingleUseApproval ==
  \A r \in RunIds : runs[r].status # "None" =>
    LET a == runs[r].approval
    IN /\ a \in ApprovalIds /\ approvals[a].status = "Approved"
       /\ runs[r].prompt = approvals[a].prompt
       /\ runs[r].verification = approvals[a].verification
       /\ \A s \in RunIds : runs[s].status # "None" /\ runs[s].approval = a => s = r

\* No edit of the ticket, retry preparation or new Prompt Testing attempt,
\* with whatever stale checks, pulls the acceptance contract from under a run
\* that is queued, executing or being verified.
ContractOutlivesActiveRun ==
  \A r \in ActiveRuns :
    /\ verifications[runs[r].verification].status = "Ready for approval"
    /\ verifications[runs[r].verification].prompt = runs[r].prompt

\* A prompt that waits for a decision has an approval somebody can decide:
\* no interleaving of editing, regenerating, rejecting and expiring leaves a
\* prompt waiting for an approval that is gone.
AwaitingPromptIsDecidable ==
  \A p \in PromptIds : prompts[p].status = "Awaiting approval" =>
    \E a \in PendingApprovals : approvals[a].prompt = p

\* A failed run gives its prompt back: an Approved prompt always has a run
\* that did not fail, so only cancelling or deleting can leave a prompt
\* Approved with nothing running.
FailureReopensPrompt ==
  \A p \in PromptIds : prompts[p].status = "Approved" =>
    \E r \in RunIds : runs[r].prompt = p /\ runs[r].status \notin RetryableStatus \cup {"None"}

\* The implementation state on the board is not a dead end: "Awaiting
\* approval" has an approval to decide and "Running" a run in progress, in
\* spite of the many handlers that overwrite the state.
BoardStateHasWork ==
  /\ spec.state = "Awaiting approval" => PendingApprovals # {}
  /\ spec.state = "Running" => \E r \in RunIds : runs[r].status \in {"Queued", "Running"}

\* At most one Prompt Testing attempt per prompt and story is open, and a
\* consumed contract is never generated again under the same id: statuses of
\* verifications only move forward, so the triggers of migration 035 ("a
\* ready PDD acceptance contract can only be superseded", "a superseded PDD
\* acceptance contract cannot be reopened") never fire on these handlers.
ContractsMoveForward ==
  [][\A v \in VerificationIds :
       /\ verifications[v].status = "Ready for approval" =>
            verifications'[v].status \in {"Ready for approval", "Superseded"}
       /\ verifications[v].status \in {"Superseded", "Failed"} =>
            verifications'[v] = verifications[v]]_vars

\* A run that ended stays ended: a late callback, a cancellation or GitHub's
\* own report never revives it and never changes how it ended.
TerminalRunsStayTerminal ==
  [][\A r \in RunIds : runs[r].status \in TerminalStatus =>
       runs'[r].status \in {runs[r].status, "Deleted"}]_vars

\* What the code says of itself and does not keep.

\* "Only the latest ready prompt can be submitted": rejecting an approval
\* makes its prompt Ready even if a newer revision replaced it meanwhile.
OnlyLatestPromptSubmitted ==
  [][\A a \in ApprovalIds :
       approvals[a].status = "None" /\ approvals'[a].status = "Pending"
         => IsLatest(LivePrompts, approvals'[a].prompt)]_vars
=============================================================================
