------------------------ MODULE TicketWorkflowProofs ------------------------
(* The safety of TicketWorkflow for every set of ids, stories, ticket        *)
(* revisions and concurrent requests.                                        *)
EXTENDS TicketWorkflow, TLAPS

\* What the type invariant leaves open and the other invariants rest on: an
\* approval that was requested names a prompt and a verification that exist.
ApprovalsAreBound ==
  \A a \in ApprovalIds : approvals[a].status # "None" =>
    approvals[a].prompt \in PromptIds /\ approvals[a].verification \in VerificationIds

\* The rows the handlers build.
LEMMA Rows ==
  /\ \A status \in PromptStatus, rev \in SpecRevisions : Prompt(status, rev) \in PromptRows
  /\ \A status \in VerificationStatus, p \in PromptIds \cup {NoId}, story \in Stories \cup {NoStory} :
       Verification(status, p, story) \in VerificationRows
  /\ \A status \in ApprovalStatus, p \in PromptIds \cup {NoId}, v \in VerificationIds \cup {NoId},
        overdue \in BOOLEAN : Approval(status, p, v, overdue) \in ApprovalRows
  /\ \A status \in RunStatus, a \in ApprovalIds \cup {NoId}, p \in PromptIds \cup {NoId},
        v \in VerificationIds \cup {NoId} : Run(status, a, p, v) \in RunRows
  /\ \A rev \in SpecRevisions, state \in ImplementationStates :
       [revision |-> rev, state |-> state] \in Specifications
<1>1. \A status \in PromptStatus, rev \in SpecRevisions : Prompt(status, rev) \in PromptRows
  BY DEF Prompt, PromptRows
<1>2. \A status \in VerificationStatus, p \in PromptIds \cup {NoId}, story \in Stories \cup {NoStory} :
        Verification(status, p, story) \in VerificationRows
  BY DEF Verification, VerificationRows
<1>3. \A status \in ApprovalStatus, p \in PromptIds \cup {NoId}, v \in VerificationIds \cup {NoId},
         overdue \in BOOLEAN : Approval(status, p, v, overdue) \in ApprovalRows
  BY DEF Approval, ApprovalRows
<1>4. \A status \in RunStatus, a \in ApprovalIds \cup {NoId}, p \in PromptIds \cup {NoId},
         v \in VerificationIds \cup {NoId} : Run(status, a, p, v) \in RunRows
  BY DEF Run, RunRows
<1>5. \A rev \in SpecRevisions, state \in ImplementationStates :
        [revision |-> rev, state |-> state] \in Specifications
  BY DEF Specifications
<1> QED BY <1>1, <1>2, <1>3, <1>4, <1>5

Steps == {"idle", "save", "rebind", "render", "test", "reopen"}

LEMMA RequestRows ==
  ASSUME NEW step \in Steps, NEW rev \in SpecRevisions, NEW p \in PromptIds \cup {NoId},
         NEW r \in RunIds \cup {NoId}, NEW story \in Stories \cup {NoStory}, NEW thenTest \in BOOLEAN
  PROVE  Request(step, rev, p, r, story, thenTest) \in Requests
BY DEF Request, Requests, Steps

LEMMA IdleRow == Idle \in Requests
BY RequestRows, SpecRevisionAssumption DEF Idle, Steps

\* Setting one column of a row.
LEMMA Columns ==
  /\ \A row \in PromptRows, status \in PromptStatus : [row EXCEPT !.status = status] \in PromptRows
  /\ \A row \in VerificationRows, status \in VerificationStatus :
       [row EXCEPT !.status = status] \in VerificationRows
  /\ \A row \in ApprovalRows, status \in ApprovalStatus :
       [row EXCEPT !.status = status] \in ApprovalRows
  /\ \A row \in ApprovalRows : [row EXCEPT !.overdue = TRUE] \in ApprovalRows
  /\ \A row \in RunRows, status \in RunStatus : [row EXCEPT !.status = status] \in RunRows
  /\ \A row \in Specifications, state \in ImplementationStates :
       [row EXCEPT !.state = state] \in Specifications
<1>1. \A row \in PromptRows, status \in PromptStatus : [row EXCEPT !.status = status] \in PromptRows
  BY DEF PromptRows
<1>2. \A row \in VerificationRows, status \in VerificationStatus :
        [row EXCEPT !.status = status] \in VerificationRows
  BY DEF VerificationRows
<1>3. \A row \in ApprovalRows, status \in ApprovalStatus :
        [row EXCEPT !.status = status] \in ApprovalRows
  BY DEF ApprovalRows
<1>4. \A row \in ApprovalRows : [row EXCEPT !.overdue = TRUE] \in ApprovalRows
  BY DEF ApprovalRows
<1>5. \A row \in RunRows, status \in RunStatus : [row EXCEPT !.status = status] \in RunRows
  BY DEF RunRows
<1>6. \A row \in Specifications, state \in ImplementationStates :
        [row EXCEPT !.state = state] \in Specifications
  BY DEF Specifications
<1> QED BY <1>1, <1>2, <1>3, <1>4, <1>5, <1>6

LEMMA InitTypeOK == Init => TypeOK
<1> SUFFICES ASSUME Init PROVE TypeOK
  OBVIOUS
<1>1. /\ Prompt("None", 0) \in PromptRows
      /\ Verification("None", NoId, NoStory) \in VerificationRows
      /\ Approval("None", NoId, NoId, FALSE) \in ApprovalRows
      /\ Run("None", NoId, NoId, NoId) \in RunRows
      /\ spec \in Specifications
  BY Rows, SpecRevisionAssumption
     DEF Init, PromptStatus, VerificationStatus, ApprovalStatus, RunStatus, ImplementationStates
<1> QED BY <1>1, IdleRow DEF Init, TypeOK

\* The rewritings of whole tables keep their types.
LEMMA SupersededTables ==
  ASSUME TypeOK
  PROVE  /\ SupersedeAllPrompts \in [PromptIds -> PromptRows]
         /\ \A vs : Supersede(vs) \in [VerificationIds -> VerificationRows]
         /\ \A p : Reopened(p) \in [PromptIds -> PromptRows]
<1>1. SupersedeAllPrompts \in [PromptIds -> PromptRows]
  BY Columns DEF TypeOK, SupersedeAllPrompts, PromptStatus
<1>2. ASSUME NEW vs PROVE Supersede(vs) \in [VerificationIds -> VerificationRows]
  BY Columns DEF TypeOK, Supersede, VerificationStatus
<1>3. ASSUME NEW p PROVE Reopened(p) \in [PromptIds -> PromptRows]
  <2>1. \A row \in PromptRows : row.status \in PromptStatus
    BY DEF PromptRows
  <2>2. CASE p \in PromptIds
    BY <2>1, <2>2, Columns DEF TypeOK, Reopened, PromptStatus
  <2>3. CASE p \notin PromptIds
    BY <2>3 DEF TypeOK, Reopened
  <2> QED BY <2>2, <2>3
<1> QED BY <1>1, <1>2, <1>3

LEMMA SetStateTyped ==
  ASSUME TypeOK, NEW state \in ImplementationStates, SetState(state) PROVE spec' \in Specifications
BY Columns DEF TypeOK, SetState

LEMMA PrepareTypeOK == TypeOK /\ PrepareStep => TypeOK'
<1> SUFFICES ASSUME TypeOK, PrepareStep PROVE TypeOK'
  OBVIOUS
<1>1. ASSUME NEW p \in PromptIds, CreateAutomatedPromptDraft(p) PROVE TypeOK'
  <2>1. Prompt("Draft", 1) \in PromptRows
    BY Rows, SpecRevisionAssumption DEF PromptStatus
  <2>2. spec' \in Specifications
    BY <1>1, Rows, SpecRevisionAssumption DEF CreateAutomatedPromptDraft, ImplementationStates
  <2> QED BY <1>1, <2>1, <2>2 DEF CreateAutomatedPromptDraft, TypeOK
<1>2. ASSUME NEW current \in PromptIds, NEW p \in PromptIds, ApplyPddPromptRevision(current, p)
      PROVE  TypeOK'
  <2>1. prompts[current].specRev \in SpecRevisions
    BY DEF TypeOK, PromptRows
  <2>2. Prompt("Ready", prompts[current].specRev) \in PromptRows
    BY <2>1, Rows DEF PromptStatus
  <2> QED BY <1>2, <2>2, SupersededTables DEF ApplyPddPromptRevision, TypeOK
<1>3. ASSUME NEW current \in PromptIds, NEW earlier \in PromptIds,
             RestorePddPromptRevision(current, earlier)
      PROVE  TypeOK'
  BY <1>3, SupersededTables, Columns DEF RestorePddPromptRevision, TypeOK, PromptStatus
<1>4. CASE ConfirmCurrentIssue
  BY <1>4, Columns DEF ConfirmCurrentIssue, TypeOK, PromptStatus
<1> QED BY <1>1, <1>2, <1>3, <1>4 DEF PrepareStep

LEMMA ClientTypeOK == ASSUME TypeOK, NEW c \in Clients, ClientStep(c) PROVE TypeOK'
<1> USE SpecRevisionAssumption
<1>rev. /\ spec.revision \in SpecRevisions
        /\ op[c].rev \in SpecRevisions /\ op[c].prompt \in PromptIds \cup {NoId}
        /\ op[c].story \in Stories \cup {NoStory}
  BY DEF TypeOK, Specifications, Requests
<1>1. CASE SaveCheck(c)
  BY <1>1, RequestRows DEF SaveCheck, TypeOK, Steps
<1>2. CASE SaveEngineeringSpecification(c)
  <2>1. spec' \in Specifications
    BY <1>2, Rows DEF SaveEngineeringSpecification, ImplementationStates
  <2> QED BY <1>2, <2>1, SupersededTables, IdleRow DEF SaveEngineeringSpecification, TypeOK
<1>3. CASE RebindCheck(c)
  BY <1>3, RequestRows DEF RebindCheck, TypeOK, Steps
<1>4. CASE RebindTerminalRetryToCurrentProfile(c)
  <2>1. spec' \in Specifications
    BY <1>4, Rows DEF RebindTerminalRetryToCurrentProfile, ImplementationStates
  <2>2. Request("render", spec.revision + 1, NoId, NoId, NoStory, FALSE) \in Requests
    BY <1>4, RequestRows DEF RebindTerminalRetryToCurrentProfile, Steps
  <2> QED BY <1>4, <2>1, <2>2, SupersededTables DEF RebindTerminalRetryToCurrentProfile, TypeOK
<1>5. CASE ReadSpecification(c)
  BY <1>5, <1>rev, RequestRows DEF ReadSpecification, TypeOK, Steps
<1>6. ASSUME NEW p \in PromptIds, GenerateImplementationPrompt(c, p) PROVE TypeOK'
  <2>1. spec' \in Specifications
    BY <1>6, SetStateTyped DEF GenerateImplementationPrompt, ImplementationStates
  <2>2. Prompt("Ready", op[c].rev) \in PromptRows
    BY <1>rev, Rows DEF PromptStatus
  <2>3. Request("test", 0, p, NoId, op[c].story, FALSE) \in Requests
    BY <1>rev, RequestRows DEF Steps
  <2> QED BY <1>6, <2>1, <2>2, <2>3, SupersededTables, IdleRow DEF GenerateImplementationPrompt, TypeOK
<1>7. ASSUME NEW story \in Stories, StartPromptTest(c, story) PROVE TypeOK'
  <2>1. Request("render", spec.revision, NoId, NoId, story, TRUE) \in Requests
    BY <1>rev, RequestRows DEF Steps
  <2>2. \A p \in PromptIds : Request("test", 0, p, NoId, story, FALSE) \in Requests
    BY RequestRows DEF Steps
  <2> QED BY <1>7, <2>1, <2>2 DEF StartPromptTest, TypeOK
<1>8. ASSUME NEW v \in VerificationIds, GeneratePddAcceptanceContract(c, v) PROVE TypeOK'
  <2>1. Verification("Queued", op[c].prompt, op[c].story) \in VerificationRows
    BY <1>rev, Rows DEF VerificationStatus
  <2> QED BY <1>8, <2>1, SupersededTables, IdleRow DEF GeneratePddAcceptanceContract, TypeOK
<1>9. ASSUME NEW r \in RunIds, PrepareImplementationRunRetry(c, r) PROVE TypeOK'
  <2>1. Request("reopen", 0, runs[r].prompt, r, NoStory, FALSE) \in Requests
    BY RequestRows DEF Steps, TypeOK, RunRows
  <2> QED BY <1>9, <2>1 DEF PrepareImplementationRunRetry, TypeOK
<1>10. CASE ReopenPromptAfterTerminalAgentRun(c)
  <2>1. spec' \in Specifications
    BY <1>10, SetStateTyped DEF ReopenPromptAfterTerminalAgentRun, ImplementationStates
  <2>2. prompts' \in [PromptIds -> PromptRows]
    BY <1>10, Columns DEF ReopenPromptAfterTerminalAgentRun, Released, TypeOK, PromptStatus
  <2> QED BY <1>10, <2>1, <2>2, IdleRow DEF ReopenPromptAfterTerminalAgentRun, TypeOK
<1>11. CASE AbandonRequest(c)
  BY <1>11, IdleRow DEF AbandonRequest, TypeOK
<1> QED BY <1>1, <1>2, <1>3, <1>4, <1>5, <1>6, <1>7, <1>8, <1>9, <1>10, <1>11 DEF ClientStep

LEMMA VerificationTypeOK ==
  ASSUME TypeOK, NEW v \in VerificationIds, VerificationStep(v) PROVE TypeOK'
<1>1. ASSUME NEW status \in VerificationStatus, SetVerification(v, status) PROVE TypeOK'
  BY <1>1, Columns DEF SetVerification, TypeOK
<1> QED BY <1>1 DEF VerificationStep, MarkPddVerificationGenerating, FailPddVerification,
                    CompletePddVerification, VerificationStatus

LEMMA ApprovalTypeOK == ASSUME TypeOK, NEW a \in ApprovalIds, ApprovalStep(a) PROVE TypeOK'
<1>1. ASSUME NEW p \in PromptIds, NEW v \in VerificationIds, RequestImplementationApproval(p, v, a)
      PROVE  TypeOK'
  <2>1. Approval("Pending", p, v, FALSE) \in ApprovalRows
    BY Rows DEF ApprovalStatus
  <2>2. spec' \in Specifications
    BY <1>1, SetStateTyped DEF RequestImplementationApproval, ImplementationStates
  <2>3. prompts' \in [PromptIds -> PromptRows]
    BY <1>1, Columns DEF RequestImplementationApproval, TypeOK, PromptStatus
  <2> QED BY <1>1, <2>1, <2>2, <2>3 DEF RequestImplementationApproval, TypeOK
<1>2. CASE ApprovalExpires(a)
  BY <1>2, Columns DEF ApprovalExpires, TypeOK
<1>3. ASSUME NEW r \in RunIds, ApproveImplementationRun(a, r) PROVE TypeOK'
  <2>1. approvals[a].prompt \in PromptIds \cup {NoId}
        /\ approvals[a].verification \in VerificationIds \cup {NoId}
    BY DEF TypeOK, ApprovalRows
  <2>2. Run("Queued", a, approvals[a].prompt, approvals[a].verification) \in RunRows
    BY <2>1, Rows DEF RunStatus, ActiveStatus
  <2>3. spec' \in Specifications
    BY <1>3, SetStateTyped DEF ApproveImplementationRun, ImplementationStates
  <2>4. prompts' \in [PromptIds -> PromptRows]
    BY <1>3, Columns DEF ApproveImplementationRun, TypeOK, PromptStatus
  <2>5. approvals' \in [ApprovalIds -> ApprovalRows]
    BY <1>3, Columns DEF ApproveImplementationRun, TypeOK, ApprovalStatus
  <2> QED BY <1>3, <2>2, <2>3, <2>4, <2>5 DEF ApproveImplementationRun, TypeOK
<1>4. ASSUME NEW status \in {"Rejected", "Expired"}, ClosePendingApproval(a, status) PROVE TypeOK'
  <2>1. spec' \in Specifications
    BY <1>4, SetStateTyped DEF ClosePendingApproval, ImplementationStates
  <2>2. prompts' \in [PromptIds -> PromptRows]
    BY <1>4, Columns DEF ClosePendingApproval, Released, TypeOK, PromptStatus
  <2>3. approvals' \in [ApprovalIds -> ApprovalRows]
    BY <1>4, Columns DEF ClosePendingApproval, TypeOK, ApprovalStatus
  <2> QED BY <1>4, <2>1, <2>2, <2>3 DEF ClosePendingApproval, TypeOK
<1> QED BY <1>1, <1>2, <1>3, <1>4
        DEF ApprovalStep, RejectImplementationApproval, ApproveExpiredApproval

\* Every way a run ends.
EndStatus == RunStatus \ {"None", "Deleted", "Queued", "Running"}
EndStates == {"Tests passed", "Draft PR opened", "Prompt ready"}

LEMMA RunEndings ==
  ASSUME NEW r \in RunIds,
         CompleteAgentRun(r) \/ FailAgentRun(r) \/ ReconcileAgentWorkflow(r) \/ CancelAgentRun(r)
  PROVE  \E status \in EndStatus, state \in EndStates :
           \/ EndAgentRun(r, status, state, Reopened(runs[r].prompt))
           \/ EndAgentRun(r, status, state, prompts) /\ status \notin RetryableStatus
<1>1. /\ EndStatus = {"Tests passed", "Draft PR opened", "Cancelled", "Failed", "No changes"}
      /\ "Tests passed" \notin RetryableStatus /\ "Draft PR opened" \notin RetryableStatus
      /\ "Cancelled" \notin RetryableStatus
  BY DEF EndStatus, RunStatus, ActiveStatus, TerminalStatus, RetryableStatus
<1>2. CASE CompleteAgentRun(r)
  BY <1>1, <1>2 DEF CompleteAgentRun, EndStates
<1>3. CASE FailAgentRun(r)
  BY <1>1, <1>3 DEF FailAgentRun, EndStates
<1>4. CASE ReconcileAgentWorkflow(r)
  BY <1>1, <1>4 DEF ReconcileAgentWorkflow, EndStates
<1>5. CASE CancelAgentRun(r)
  BY <1>1, <1>5 DEF CancelAgentRun, EndStates
<1> QED BY <1>2, <1>3, <1>4, <1>5

LEMMA RunTypeOK == ASSUME TypeOK, NEW r \in RunIds, RunStep(r) PROVE TypeOK'
<1>1. CASE StartAgentRun(r)
  BY <1>1, Columns DEF StartAgentRun, TypeOK, RunStatus, ActiveStatus
<1>2. CASE DeleteAgentRun(r)
  BY <1>2, Columns DEF DeleteAgentRun, TypeOK, RunStatus
<1>3. ASSUME NEW status \in RunStatus, NEW state \in ImplementationStates,
             EndAgentRun(r, status, state, Reopened(runs[r].prompt)) \/ EndAgentRun(r, status, state, prompts)
      PROVE  TypeOK'
  <2>1. spec' \in Specifications
    BY <1>3, SetStateTyped DEF EndAgentRun
  <2>2. runs' \in [RunIds -> RunRows]
    BY <1>3, Columns DEF EndAgentRun, TypeOK
  <2> QED BY <1>3, <2>1, <2>2, SupersededTables DEF EndAgentRun, TypeOK
<1>4. CASE CompleteAgentRun(r) \/ FailAgentRun(r) \/ ReconcileAgentWorkflow(r) \/ CancelAgentRun(r)
  BY <1>3, <1>4, RunEndings DEF ImplementationStates, EndStates, EndStatus
<1> QED BY <1>1, <1>2, <1>4 DEF RunStep

LEMMA NextTypeOK == TypeOK /\ [Next]_vars => TypeOK'
<1> SUFFICES ASSUME TypeOK, [Next]_vars PROVE TypeOK'
  OBVIOUS
<1>1. CASE UNCHANGED vars
  BY <1>1 DEF vars, TypeOK
<1> QED BY <1>1, PrepareTypeOK, ClientTypeOK, VerificationTypeOK, ApprovalTypeOK, RunTypeOK DEF Next

\* Every row of every table, and every request in progress, is well formed.
THEOREM TypeCorrect == Spec => []TypeOK
BY InitTypeOK, NextTypeOK, PTL DEF Spec

-----------------------------------------------------------------------------
(* What the steps of one actor leave alone *)

\* Preparing the ticket and Prompt Testing write no approval and no run.
LEMMA PreparationFrame ==
  ASSUME \/ PrepareStep
         \/ \E c \in Clients : ClientStep(c)
         \/ \E v \in VerificationIds : VerificationStep(v)
  PROVE  UNCHANGED approvals /\ UNCHANGED runs
<1>1. CASE PrepareStep
  BY <1>1 DEF PrepareStep, CreateAutomatedPromptDraft, ApplyPddPromptRevision,
              RestorePddPromptRevision, ConfirmCurrentIssue
<1>2. ASSUME NEW c \in Clients, ClientStep(c) PROVE UNCHANGED approvals /\ UNCHANGED runs
  BY <1>2 DEF ClientStep, SaveCheck, SaveEngineeringSpecification, RebindCheck,
              RebindTerminalRetryToCurrentProfile, ReadSpecification, GenerateImplementationPrompt,
              StartPromptTest, GeneratePddAcceptanceContract, PrepareImplementationRunRetry,
              ReopenPromptAfterTerminalAgentRun, AbandonRequest
<1>3. ASSUME NEW v \in VerificationIds, VerificationStep(v)
      PROVE  UNCHANGED approvals /\ UNCHANGED runs
  BY <1>3 DEF VerificationStep, MarkPddVerificationGenerating, FailPddVerification,
              CompletePddVerification, SetVerification
<1> QED BY <1>1, <1>2, <1>3

\* A step of a run changes the status of that run only, and never to or from
\* a row that was not inserted.
RunMoves(r, status) ==
  /\ runs[r].status # "None" /\ status \in RunStatus \ {"None"}
  /\ runs' = [runs EXCEPT ![r].status = status]
  /\ UNCHANGED approvals /\ UNCHANGED verifications

LEMMA RunFrame ==
  ASSUME NEW r \in RunIds, RunStep(r) PROVE \E status : RunMoves(r, status)
<1>1. CASE StartAgentRun(r)
  BY <1>1 DEF StartAgentRun, RunMoves, RunStatus, ActiveStatus
<1>2. CASE DeleteAgentRun(r)
  BY <1>2 DEF DeleteAgentRun, RunMoves, RunStatus, ExistingRuns
<1>3. ASSUME NEW status \in EndStatus, NEW state, NEW prompts_, EndAgentRun(r, status, state, prompts_)
      PROVE  RunMoves(r, status)
  BY <1>3 DEF EndAgentRun, RunMoves, EndStatus, RunStatus, ActiveStatus
<1> QED BY <1>1, <1>2, <1>3, RunEndings DEF RunStep

\* The columns a change of status leaves alone.
LEMMA OtherColumns ==
  /\ \A row \in ApprovalRows : \A status :
       LET new == [row EXCEPT !.status = status]
       IN  new.status = status /\ new.prompt = row.prompt /\ new.verification = row.verification
  /\ \A row \in ApprovalRows :
       LET new == [row EXCEPT !.overdue = TRUE]
       IN  new.status = row.status /\ new.prompt = row.prompt /\ new.verification = row.verification
  /\ \A row \in RunRows : \A status :
       LET new == [row EXCEPT !.status = status]
       IN  /\ new.status = status /\ new.approval = row.approval
           /\ new.prompt = row.prompt /\ new.verification = row.verification
  /\ \A row \in VerificationRows : \A status :
       LET new == [row EXCEPT !.status = status]
       IN  new.status = status /\ new.prompt = row.prompt
  /\ \A row \in PromptRows : \A status : [row EXCEPT !.status = status].status = status
<1>1. ASSUME NEW row \in ApprovalRows, NEW status
      PROVE  LET new == [row EXCEPT !.status = status]
             IN  new.status = status /\ new.prompt = row.prompt /\ new.verification = row.verification
  BY DEF ApprovalRows
<1>2. ASSUME NEW row \in ApprovalRows
      PROVE  LET new == [row EXCEPT !.overdue = TRUE]
             IN  new.status = row.status /\ new.prompt = row.prompt /\ new.verification = row.verification
  BY DEF ApprovalRows
<1>3. ASSUME NEW row \in RunRows, NEW status
      PROVE  LET new == [row EXCEPT !.status = status]
             IN  /\ new.status = status /\ new.approval = row.approval
                 /\ new.prompt = row.prompt /\ new.verification = row.verification
  BY DEF RunRows
<1>4. ASSUME NEW row \in VerificationRows, NEW status
      PROVE  LET new == [row EXCEPT !.status = status]
             IN  new.status = status /\ new.prompt = row.prompt
  BY DEF VerificationRows
<1>5. ASSUME NEW row \in PromptRows, NEW status PROVE [row EXCEPT !.status = status].status = status
  BY DEF PromptRows
<1> QED BY <1>1, <1>2, <1>3, <1>4, <1>5

\* The rows of runs after a step of one of them.
LEMMA RunMovesRows ==
  ASSUME TypeOK, NEW r \in RunIds, NEW status, RunMoves(r, status), NEW s \in RunIds
  PROVE  /\ runs'[s].approval = runs[s].approval /\ runs'[s].prompt = runs[s].prompt
         /\ runs'[s].verification = runs[s].verification
         /\ runs'[s].status = IF s = r THEN status ELSE runs[s].status
BY OtherColumns DEF RunMoves, TypeOK

\* Whoever decides an approval finds it pending and changes its status only.
Decision(a, status) ==
  /\ approvals[a].status = "Pending"
  /\ approvals' = [approvals EXCEPT ![a].status = status]

LEMMA DecidePending ==
  ASSUME NEW a \in ApprovalIds
  PROVE  /\ \A r : ApproveImplementationRun(a, r) => Decision(a, "Approved")
         /\ \A status : ClosePendingApproval(a, status) => Decision(a, status)
<1>1. ASSUME NEW r, ApproveImplementationRun(a, r) PROVE Decision(a, "Approved")
  BY <1>1 DEF ApproveImplementationRun, Approvable, Decision
<1>2. ASSUME NEW status, ClosePendingApproval(a, status) PROVE Decision(a, status)
  BY <1>2 DEF ClosePendingApproval, Decision
<1> QED BY <1>1, <1>2

LEMMA DecisionRows ==
  ASSUME TypeOK, NEW a \in ApprovalIds, NEW status, Decision(a, status)
  PROVE  /\ approvals[a].status = "Pending"
         /\ \A b \in ApprovalIds :
              /\ approvals'[b].prompt = approvals[b].prompt
              /\ approvals'[b].verification = approvals[b].verification
              /\ approvals'[b].status = IF b = a THEN status ELSE approvals[b].status
<1>1. /\ approvals[a].status = "Pending"
      /\ approvals' = [approvals EXCEPT ![a].status = status]
  BY DEF Decision
<1>2. ASSUME NEW b \in ApprovalIds
      PROVE  /\ approvals'[b].prompt = approvals[b].prompt
             /\ approvals'[b].verification = approvals[b].verification
             /\ approvals'[b].status = IF b = a THEN status ELSE approvals[b].status
  BY <1>1, OtherColumns DEF TypeOK
<1> QED BY <1>1, <1>2

LEMMA ApprovalExpiresRows ==
  ASSUME TypeOK, NEW a \in ApprovalIds, ApprovalExpires(a), NEW b \in ApprovalIds
  PROVE  /\ approvals'[b].prompt = approvals[b].prompt
         /\ approvals'[b].verification = approvals[b].verification
         /\ approvals'[b].status = approvals[b].status
BY OtherColumns DEF ApprovalExpires, TypeOK

-----------------------------------------------------------------------------
(* A run uses one approval, for the prompt and contract it was bound to *)

LEMMA ApprovalsAreBoundStep ==
  TypeOK /\ ApprovalsAreBound /\ [Next]_vars => ApprovalsAreBound'
<1> SUFFICES ASSUME TypeOK, ApprovalsAreBound, [Next]_vars PROVE ApprovalsAreBound'
  OBVIOUS
<1>1. CASE UNCHANGED approvals
  BY <1>1 DEF ApprovalsAreBound
<1>2. ASSUME NEW a \in ApprovalIds, ApprovalStep(a) PROVE ApprovalsAreBound'
  <2>1. ASSUME NEW p \in PromptIds, NEW v \in VerificationIds, RequestImplementationApproval(p, v, a)
        PROVE  ApprovalsAreBound'
    BY <2>1 DEF RequestImplementationApproval, ApprovalsAreBound, Approval, TypeOK
  <2>2. CASE ApprovalExpires(a)
    BY <2>2, ApprovalExpiresRows DEF ApprovalsAreBound
  <2>3. ASSUME NEW r \in RunIds, ApproveImplementationRun(a, r) PROVE ApprovalsAreBound'
    BY <2>3, DecisionRows, DecidePending DEF ApprovalsAreBound
  <2>4. ASSUME NEW status, ClosePendingApproval(a, status) PROVE ApprovalsAreBound'
    BY <2>4, DecisionRows, DecidePending DEF ApprovalsAreBound
  <2> QED BY <1>2, <2>1, <2>2, <2>3, <2>4
          DEF ApprovalStep, RejectImplementationApproval, ApproveExpiredApproval
<1>3. ASSUME NEW r \in RunIds, RunStep(r) PROVE UNCHANGED approvals
  BY <1>3, RunFrame DEF RunMoves
<1> QED BY <1>1, <1>2, <1>3, PreparationFrame DEF Next, vars

LEMMA SingleUseApprovalStep ==
  TypeOK /\ ApprovalsAreBound /\ SingleUseApproval /\ [Next]_vars => SingleUseApproval'
<1> SUFFICES ASSUME TypeOK, ApprovalsAreBound, SingleUseApproval, [Next]_vars PROVE SingleUseApproval'
  OBVIOUS
<1>1. CASE UNCHANGED approvals /\ UNCHANGED runs
  BY <1>1 DEF SingleUseApproval
<1>2. ASSUME NEW a \in ApprovalIds, ApprovalStep(a) PROVE SingleUseApproval'
  <2>1. ASSUME NEW p \in PromptIds, NEW v \in VerificationIds, RequestImplementationApproval(p, v, a)
        PROVE  SingleUseApproval'
    <3>1. approvals[a].status = "None" /\ UNCHANGED runs
      BY <2>1 DEF RequestImplementationApproval, IsNextRow
    <3>2. \A b \in ApprovalIds \ {a} : approvals'[b] = approvals[b]
      BY <2>1 DEF RequestImplementationApproval, TypeOK
    <3> QED BY <3>1, <3>2 DEF SingleUseApproval
  <2>2. CASE ApprovalExpires(a)
    BY <2>2, ApprovalExpiresRows DEF ApprovalExpires, SingleUseApproval
  <2>3. ASSUME NEW r \in RunIds, ApproveImplementationRun(a, r) PROVE SingleUseApproval'
    <3> DEFINE p == approvals[a].prompt
               v == approvals[a].verification
    <3>1. /\ approvals[a].status = "Pending" /\ runs[r].status = "None"
          /\ runs'[r] = Run("Queued", a, p, v)
          /\ \A s \in RunIds \ {r} : runs'[s] = runs[s]
      BY <2>3 DEF ApproveImplementationRun, Approvable, IsNextRow, TypeOK
    <3>2. \A b \in ApprovalIds :
            /\ approvals'[b].prompt = approvals[b].prompt
            /\ approvals'[b].verification = approvals[b].verification
            /\ approvals'[b].status = IF b = a THEN "Approved" ELSE approvals[b].status
      BY <2>3, DecidePending, DecisionRows
    <3>3. \A s \in RunIds : runs[s].status # "None" => runs[s].approval # a
      BY <3>1 DEF SingleUseApproval
    <3>4. /\ runs'[r].approval = a /\ runs'[r].prompt = p /\ runs'[r].verification = v
          /\ \A s \in RunIds \ {r} : runs'[s].status # "None" => runs'[s].approval # a
      BY <3>1, <3>3 DEF Run
    <3> SUFFICES ASSUME NEW s \in RunIds, runs'[s].status # "None"
                 PROVE  LET b == runs'[s].approval
                        IN  /\ b \in ApprovalIds /\ approvals'[b].status = "Approved"
                            /\ runs'[s].prompt = approvals'[b].prompt
                            /\ runs'[s].verification = approvals'[b].verification
                            /\ \A t \in RunIds :
                                 runs'[t].status # "None" /\ runs'[t].approval = b => t = s
      BY DEF SingleUseApproval
    <3>5. CASE s = r
      BY <3>2, <3>4, <3>5
    <3>6. CASE s # r
      <4>1. runs'[s] = runs[s] /\ runs[s].status # "None"
        BY <3>1, <3>6
      <4> QED BY <4>1, <3>1, <3>2, <3>3, <3>4 DEF SingleUseApproval
    <3> QED BY <3>5, <3>6
  <2>4. ASSUME NEW status, ClosePendingApproval(a, status) PROVE SingleUseApproval'
    <3>1. UNCHANGED runs
      BY <2>4 DEF ClosePendingApproval
    <3>2. /\ approvals[a].status = "Pending"
          /\ \A b \in ApprovalIds :
              /\ approvals'[b].prompt = approvals[b].prompt
              /\ approvals'[b].verification = approvals[b].verification
              /\ approvals'[b].status = IF b = a THEN status ELSE approvals[b].status
      BY <2>4, DecidePending, DecisionRows
    <3> QED BY <3>1, <3>2 DEF SingleUseApproval
  <2> QED BY <1>2, <2>1, <2>2, <2>3, <2>4
          DEF ApprovalStep, RejectImplementationApproval, ApproveExpiredApproval
<1>3. ASSUME NEW r \in RunIds, RunStep(r) PROVE SingleUseApproval'
  <2> PICK status : RunMoves(r, status)
    BY <1>3, RunFrame
  <2>1. \A s \in RunIds : /\ runs'[s].approval = runs[s].approval /\ runs'[s].prompt = runs[s].prompt
                          /\ runs'[s].verification = runs[s].verification
                          /\ runs'[s].status = "None" <=> runs[s].status = "None"
    BY RunMovesRows DEF RunMoves
  <2> QED BY <2>1 DEF RunMoves, SingleUseApproval
<1> QED BY <1>1, <1>2, <1>3, PreparationFrame DEF Next, vars

\* An approval starts at most one run, ever, and that run executes the prompt
\* and the acceptance contract the approval names: deciding, expiring,
\* regenerating and editing in any order never lets an approval be used twice
\* or for another prompt.
THEOREM ApprovalIsSingleUse == Spec => []SingleUseApproval
<1> DEFINE IInv == TypeOK /\ ApprovalsAreBound /\ SingleUseApproval
<1>1. Init => IInv
  <2> SUFFICES ASSUME Init PROVE ApprovalsAreBound /\ SingleUseApproval
    BY InitTypeOK
  <2> QED BY DEF Init, ApprovalsAreBound, SingleUseApproval, Approval, Run
<1>2. IInv /\ [Next]_vars => IInv'
  BY NextTypeOK, ApprovalsAreBoundStep, SingleUseApprovalStep
<1> QED BY <1>1, <1>2, PTL DEF Spec

-----------------------------------------------------------------------------
(* What each actor does to prompts, contracts and the board *)

Preparation ==
  \/ PrepareStep
  \/ \E c \in Clients : ClientStep(c)
  \/ \E v \in VerificationIds : VerificationStep(v)

\* A prompt that was submitted, and a board that waits for an approval or a run.
Submitted == {"Awaiting approval", "Approved"}
Occupied  == {"Awaiting approval", "Running"}

LEMMA SupersededAreFree ==
  ASSUME TypeOK, NEW p \in PromptIds PROVE SupersedeAllPrompts[p].status \notin Submitted
<1>1. [prompts[p] EXCEPT !.status = "Superseded"].status = "Superseded"
  BY OtherColumns DEF TypeOK
<1>2. SupersedeAllPrompts[p] = IF p \in ExistingPrompts
                               THEN [prompts[p] EXCEPT !.status = "Superseded"] ELSE prompts[p]
  BY DEF SupersedeAllPrompts
<1> QED BY <1>1, <1>2 DEF ExistingPrompts, Submitted

\* Preparing submits no prompt and gives the board nothing to wait for.
SubmitsNothing ==
  /\ \A p \in PromptIds : prompts'[p].status \in Submitted => prompts'[p].status = prompts[p].status
  /\ spec'.state \in Occupied => spec'.state = spec.state

LEMMA ReplacedPrompts ==
  ASSUME TypeOK, NEW p \in PromptIds, NEW rev,
         prompts' = [SupersedeAllPrompts EXCEPT ![p] = Prompt("Ready", rev)],
         NEW q \in PromptIds
  PROVE  prompts'[q].status \notin Submitted
<1>1. SupersedeAllPrompts \in [PromptIds -> PromptRows]
  BY SupersededTables
<1>2. CASE q = p
  BY <1>1, <1>2 DEF Prompt, Submitted
<1>3. CASE q # p
  BY <1>1, <1>3, SupersededAreFree
<1> QED BY <1>2, <1>3

LEMMA ReleasedPrompts ==
  ASSUME TypeOK, NEW p, NEW q \in PromptIds
  PROVE  /\ q = p => Released(p)[q].status = "Ready"
         /\ q # p => Released(p)[q] = prompts[q]
BY OtherColumns DEF TypeOK, Released

LEMMA ReopenedPrompts ==
  ASSUME TypeOK, NEW p, NEW q \in PromptIds, Reopened(p)[q].status \in Submitted
  PROVE  /\ Reopened(p)[q].status = prompts[q].status
         /\ Reopened(p)[q].status = "Approved" => q # p
<1>1. CASE q # p
  BY <1>1 DEF TypeOK, Reopened
<1>2. CASE q = p
  <2>1. Reopened(p)[q].status = IF prompts[q].status = "Approved" THEN "Ready" ELSE prompts[q].status
    BY <1>2, OtherColumns DEF TypeOK, Reopened
  <2> QED BY <2>1 DEF Submitted
<1> QED BY <1>1, <1>2

LEMMA BoardAfterSetState ==
  ASSUME TypeOK, NEW state, SetState(state) PROVE spec'.state = state
BY DEF TypeOK, SetState, Specifications

LEMMA PreparationSubmitsNothing == TypeOK /\ Preparation => SubmitsNothing
<1> SUFFICES ASSUME TypeOK, Preparation PROVE SubmitsNothing
  OBVIOUS
<1>1. ASSUME NEW p \in PromptIds, CreateAutomatedPromptDraft(p) PROVE SubmitsNothing
  <2>1. prompts' = [prompts EXCEPT ![p] = Prompt("Draft", 1)] /\ spec'.state = "Draft specification"
    BY <1>1 DEF CreateAutomatedPromptDraft
  <2> QED BY <2>1 DEF TypeOK, Prompt, SubmitsNothing, Submitted, Occupied
<1>2. ASSUME NEW current \in PromptIds, NEW p \in PromptIds, ApplyPddPromptRevision(current, p)
      PROVE  SubmitsNothing
  BY <1>2, ReplacedPrompts DEF ApplyPddPromptRevision, SubmitsNothing
<1>3. ASSUME NEW current \in PromptIds, NEW earlier \in PromptIds,
             RestorePddPromptRevision(current, earlier)
      PROVE  SubmitsNothing
  <2>1. SupersedeAllPrompts \in [PromptIds -> PromptRows]
    BY SupersededTables
  <2>2. prompts' = [SupersedeAllPrompts EXCEPT ![earlier].status = "Ready"] /\ UNCHANGED spec
    BY <1>3 DEF RestorePddPromptRevision
  <2>3. [SupersedeAllPrompts[earlier] EXCEPT !.status = "Ready"].status = "Ready"
    BY <2>1, OtherColumns
  <2>4. \A q \in PromptIds : prompts'[q].status \notin Submitted
    BY <2>1, <2>2, <2>3, SupersededAreFree DEF Submitted
  <2> QED BY <2>2, <2>4 DEF SubmitsNothing
<1>4. CASE ConfirmCurrentIssue
  <2>1. ASSUME NEW q \in PromptIds
        PROVE  prompts'[q] = prompts[q] \/ prompts'[q].status = "Superseded"
    <3>1. [prompts[q] EXCEPT !.status = "Superseded"].status = "Superseded"
      BY OtherColumns DEF TypeOK
    <3> QED BY <1>4, <3>1 DEF ConfirmCurrentIssue
  <2> QED BY <1>4, <2>1 DEF ConfirmCurrentIssue, SubmitsNothing, Submitted
<1>5. ASSUME NEW c \in Clients, ClientStep(c) PROVE SubmitsNothing
  <2>1. CASE SaveEngineeringSpecification(c) \/ RebindTerminalRetryToCurrentProfile(c)
    <3>1. /\ prompts' = SupersedeAllPrompts
          /\ spec' = [revision |-> spec.revision + 1, state |-> "Draft specification"]
      BY <2>1 DEF SaveEngineeringSpecification, RebindTerminalRetryToCurrentProfile
    <3>2. spec'.state = "Draft specification"
      BY <3>1
    <3> QED BY <3>1, <3>2, SupersededAreFree DEF SubmitsNothing, Occupied
  <2>2. ASSUME NEW p \in PromptIds, GenerateImplementationPrompt(c, p) PROVE SubmitsNothing
    BY <2>2, ReplacedPrompts, BoardAfterSetState DEF GenerateImplementationPrompt, SubmitsNothing, Occupied
  <2>3. CASE ReopenPromptAfterTerminalAgentRun(c)
    <3>1. prompts' = Released(op[c].prompt) /\ spec'.state = "Prompt ready"
      BY <2>3, BoardAfterSetState DEF ReopenPromptAfterTerminalAgentRun
    <3> QED BY <3>1, ReleasedPrompts DEF SubmitsNothing, Submitted, Occupied
  <2>4. CASE UNCHANGED <<spec, prompts>>
    BY <2>4 DEF SubmitsNothing
  <2> QED BY <1>5, <2>1, <2>2, <2>3, <2>4
          DEF ClientStep, SaveCheck, RebindCheck, ReadSpecification, StartPromptTest,
              GeneratePddAcceptanceContract, PrepareImplementationRunRetry, AbandonRequest
<1>6. ASSUME NEW v \in VerificationIds, VerificationStep(v) PROVE SubmitsNothing
  BY <1>6 DEF VerificationStep, MarkPddVerificationGenerating, FailPddVerification,
              CompletePddVerification, SetVerification, SubmitsNothing
<1> QED BY <1>1, <1>2, <1>3, <1>4, <1>5, <1>6 DEF Preparation, PrepareStep

\* A step of a run starts it, deletes it, or ends it; a run that fails gives
\* its prompt back.
RunEnds(r, status, state) ==
  /\ runs[r].status \in ActiveStatus
  /\ SetState(state)
  /\ \/ prompts' = Reopened(runs[r].prompt)
     \/ prompts' = prompts /\ status \notin RetryableStatus

LEMMA RunEffects ==
  ASSUME NEW r \in RunIds, RunStep(r)
  PROVE  \E status :
           /\ RunMoves(r, status)
           /\ \/ /\ runs[r].status \in {"Queued", "Running"} /\ status = "Running"
                 /\ UNCHANGED <<spec, prompts>>
              \/ /\ runs[r].status \notin {"Queued", "Running"} /\ status = "Deleted"
                 /\ UNCHANGED <<spec, prompts>>
              \/ status \in EndStatus /\ \E state \in EndStates : RunEnds(r, status, state)
<1>1. CASE StartAgentRun(r)
  BY <1>1 DEF StartAgentRun, RunMoves, RunStatus, ActiveStatus
<1>2. CASE DeleteAgentRun(r)
  BY <1>2 DEF DeleteAgentRun, RunMoves, RunStatus, ExistingRuns
<1>3. ASSUME NEW status \in EndStatus, NEW state \in EndStates, NEW prompts_,
             EndAgentRun(r, status, state, prompts_),
             prompts_ = Reopened(runs[r].prompt) \/ (prompts_ = prompts /\ status \notin RetryableStatus)
      PROVE  RunMoves(r, status) /\ RunEnds(r, status, state)
  BY <1>3 DEF EndAgentRun, RunMoves, RunEnds, EndStatus, RunStatus, ActiveStatus
<1>4. CASE CompleteAgentRun(r) \/ FailAgentRun(r) \/ ReconcileAgentWorkflow(r) \/ CancelAgentRun(r)
  <2> PICK status \in EndStatus, state \in EndStates :
         \/ EndAgentRun(r, status, state, Reopened(runs[r].prompt))
         \/ EndAgentRun(r, status, state, prompts) /\ status \notin RetryableStatus
    BY <1>4, RunEndings
  <2> QED BY <1>3
<1> QED BY <1>1, <1>2, <1>4 DEF RunStep

-----------------------------------------------------------------------------
(* A prompt that waits can be decided *)

LEMMA AwaitingPromptStep ==
  TypeOK /\ ApprovalsAreBound /\ AwaitingPromptIsDecidable /\ [Next]_vars => AwaitingPromptIsDecidable'
<1> SUFFICES ASSUME TypeOK, ApprovalsAreBound, AwaitingPromptIsDecidable, [Next]_vars,
                    NEW q \in PromptIds, prompts'[q].status = "Awaiting approval"
             PROVE  \E b \in ApprovalIds :
                      approvals'[b].status = "Pending" /\ approvals'[b].prompt = q
  BY DEF AwaitingPromptIsDecidable, PendingApprovals
<1> DEFINE Awaited == \E b \in ApprovalIds :
                        approvals[b].status = "Pending" /\ approvals[b].prompt = q
<1>1. prompts[q].status = "Awaiting approval" => Awaited
  BY DEF AwaitingPromptIsDecidable, PendingApprovals
<1>2. CASE UNCHANGED approvals /\ prompts[q].status = "Awaiting approval"
  BY <1>1, <1>2
<1>3. CASE Preparation
  BY <1>2, <1>3, PreparationSubmitsNothing, PreparationFrame DEF Preparation, SubmitsNothing, Submitted
<1>4. ASSUME NEW a \in ApprovalIds, ApprovalStep(a)
      PROVE  \E b \in ApprovalIds : approvals'[b].status = "Pending" /\ approvals'[b].prompt = q
  <2>1. ASSUME NEW p \in PromptIds, NEW v \in VerificationIds, RequestImplementationApproval(p, v, a)
        PROVE  \E b \in ApprovalIds : approvals'[b].status = "Pending" /\ approvals'[b].prompt = q
    <3>1. /\ approvals[a].status = "None"
          /\ approvals' = [approvals EXCEPT ![a] = Approval("Pending", p, v, FALSE)]
          /\ \A b \in PromptIds \ {p} : prompts'[b] = prompts[b]
      BY <2>1 DEF RequestImplementationApproval, IsNextRow, TypeOK
    <3>2. approvals'[a].status = "Pending" /\ approvals'[a].prompt = p
      BY <3>1 DEF Approval, TypeOK
    <3>3. \A b \in ApprovalIds \ {a} : approvals'[b] = approvals[b]
      BY <3>1 DEF TypeOK
    <3> QED BY <1>1, <3>1, <3>2, <3>3
  <2>2. CASE ApprovalExpires(a)
    <3>1. UNCHANGED prompts
      BY <2>2 DEF ApprovalExpires
    <3> QED BY <1>1, <2>2, <3>1, ApprovalExpiresRows
  <2>3. ASSUME NEW status, Decision(a, status),
               q # approvals[a].prompt => prompts[q].status = "Awaiting approval",
               q = approvals[a].prompt => prompts'[q].status # "Awaiting approval"
        PROVE  \E b \in ApprovalIds : approvals'[b].status = "Pending" /\ approvals'[b].prompt = q
    BY <1>1, <2>3, DecisionRows
  <2>4. ASSUME NEW r \in RunIds, ApproveImplementationRun(a, r)
        PROVE  \E b \in ApprovalIds : approvals'[b].status = "Pending" /\ approvals'[b].prompt = q
    <3>1. prompts' = [prompts EXCEPT ![approvals[a].prompt].status = "Approved"]
      BY <2>4 DEF ApproveImplementationRun
    <3>2. prompts[q] \in PromptRows
      BY DEF TypeOK
    <3>3. [prompts[q] EXCEPT !.status = "Approved"].status = "Approved"
      BY <3>2 DEF PromptRows
    <3> QED BY <2>3, <2>4, <3>1, <3>3, DecidePending DEF TypeOK
  <2>5. ASSUME NEW status, ClosePendingApproval(a, status)
        PROVE  \E b \in ApprovalIds : approvals'[b].status = "Pending" /\ approvals'[b].prompt = q
    BY <2>3, <2>5, DecidePending, ReleasedPrompts DEF ClosePendingApproval
  <2> QED BY <1>4, <2>1, <2>2, <2>4, <2>5
          DEF ApprovalStep, RejectImplementationApproval, ApproveExpiredApproval
<1>5. ASSUME NEW r \in RunIds, RunStep(r)
      PROVE  UNCHANGED approvals /\ prompts[q].status = "Awaiting approval"
  <2>1. UNCHANGED approvals /\ (prompts' = prompts \/ prompts' = Reopened(runs[r].prompt))
    BY <1>5, RunEffects DEF RunMoves, RunEnds
  <2>2. Reopened(runs[r].prompt)[q].status = "Awaiting approval" =>
          prompts[q].status = "Awaiting approval"
    BY ReopenedPrompts DEF Submitted
  <2> QED BY <2>1, <2>2
<1>6. CASE UNCHANGED vars
  BY <1>2, <1>6 DEF vars
<1> QED BY <1>2, <1>3, <1>4, <1>5, <1>6 DEF Next, Preparation

-----------------------------------------------------------------------------
(* A prompt that is Approved has a run that did not fail *)

LEMMA ApprovedPromptStep ==
  TypeOK /\ ApprovalsAreBound /\ FailureReopensPrompt /\ [Next]_vars => FailureReopensPrompt'
<1> DEFINE Unfailed(s) == runs[s].status \notin RetryableStatus \cup {"None"}
<1> SUFFICES ASSUME TypeOK, ApprovalsAreBound, FailureReopensPrompt, [Next]_vars,
                    NEW q \in PromptIds, prompts'[q].status = "Approved"
             PROVE  \E s \in RunIds : runs'[s].prompt = q /\ Unfailed(s)'
  BY DEF FailureReopensPrompt
<1>1. prompts[q].status = "Approved" => \E s \in RunIds : runs[s].prompt = q /\ Unfailed(s)
  BY DEF FailureReopensPrompt
<1>2. CASE UNCHANGED runs /\ prompts[q].status = "Approved"
  BY <1>1, <1>2
<1>3. CASE Preparation
  BY <1>2, <1>3, PreparationSubmitsNothing, PreparationFrame DEF Preparation, SubmitsNothing, Submitted
<1>4. ASSUME NEW a \in ApprovalIds, ApprovalStep(a)
      PROVE  \E s \in RunIds : runs'[s].prompt = q /\ Unfailed(s)'
  <2>1. ASSUME NEW p \in PromptIds, NEW v \in VerificationIds, RequestImplementationApproval(p, v, a)
        PROVE  UNCHANGED runs /\ prompts[q].status = "Approved"
    <3>1. UNCHANGED runs /\ prompts' = [prompts EXCEPT ![p].status = "Awaiting approval"]
      BY <2>1 DEF RequestImplementationApproval
    <3>2. prompts[q] \in PromptRows
      BY DEF TypeOK
    <3>3. [prompts[q] EXCEPT !.status = "Awaiting approval"].status = "Awaiting approval"
      BY <3>2 DEF PromptRows
    <3> QED BY <3>1, <3>3 DEF TypeOK
  <2>2. CASE ApprovalExpires(a)
    BY <1>2, <2>2 DEF ApprovalExpires
  <2>3. ASSUME NEW r \in RunIds, ApproveImplementationRun(a, r)
        PROVE  \E s \in RunIds : runs'[s].prompt = q /\ Unfailed(s)'
    <3> DEFINE p == approvals[a].prompt
    <3>1. /\ runs[r].status = "None"
          /\ runs' = [runs EXCEPT ![r] = Run("Queued", a, p, approvals[a].verification)]
          /\ prompts' = [prompts EXCEPT ![p].status = "Approved"]
      BY <2>3 DEF ApproveImplementationRun, IsNextRow
    <3>2. runs'[r].status = "Queued" /\ runs'[r].prompt = p
      BY <3>1 DEF Run, TypeOK
    <3>3. \A s \in RunIds \ {r} : runs'[s] = runs[s]
      BY <3>1 DEF TypeOK
    <3>4. q # p => prompts[q].status = "Approved"
      BY <3>1 DEF TypeOK
    <3>5. "Queued" \notin RetryableStatus \cup {"None"}
      BY DEF RetryableStatus
    <3> QED BY <1>1, <3>1, <3>2, <3>3, <3>4, <3>5
  <2>4. ASSUME NEW status, ClosePendingApproval(a, status)
        PROVE  UNCHANGED runs /\ prompts[q].status = "Approved"
    <3>1. UNCHANGED runs /\ prompts' = Released(approvals[a].prompt)
      BY <2>4 DEF ClosePendingApproval
    <3> QED BY <3>1, ReleasedPrompts
  <2> QED BY <1>2, <1>4, <2>1, <2>2, <2>3, <2>4
          DEF ApprovalStep, RejectImplementationApproval, ApproveExpiredApproval
<1>5. ASSUME NEW r \in RunIds, RunStep(r)
      PROVE  \E s \in RunIds : runs'[s].prompt = q /\ Unfailed(s)'
  <2>1. PICK status :
          /\ RunMoves(r, status)
          /\ \/ status \in {"Running", "Deleted"} /\ UNCHANGED prompts
             \/ status \in EndStatus /\ prompts' = Reopened(runs[r].prompt)
             \/ status \in EndStatus /\ UNCHANGED prompts /\ status \notin RetryableStatus
    BY <1>5, RunEffects DEF RunEnds
  <2>2. /\ prompts[q].status = "Approved"
        /\ q = runs[r].prompt => status \notin RetryableStatus
    <3>1. CASE UNCHANGED prompts /\ status \notin RetryableStatus
      BY <3>1
    <3>2. CASE prompts' = Reopened(runs[r].prompt)
      BY <3>2, ReopenedPrompts DEF Submitted
    <3> QED BY <2>1, <3>1, <3>2 DEF RetryableStatus
  <2>3. status # "None"
    BY <2>1 DEF RunMoves
  <2>4. PICK s \in RunIds : runs[s].prompt = q /\ Unfailed(s)
    BY <1>1, <2>2
  <2>5. runs'[s].prompt = q /\ Unfailed(s)'
    BY <2>1, <2>2, <2>3, <2>4, RunMovesRows
  <2> QED BY <2>5
<1>6. CASE UNCHANGED vars
  BY <1>2, <1>6 DEF vars
<1> QED BY <1>3, <1>4, <1>5, <1>6 DEF Next, Preparation

-----------------------------------------------------------------------------
(* The board waits for something that is there *)

LEMMA BoardStep == TypeOK /\ BoardStateHasWork /\ [Next]_vars => BoardStateHasWork'
<1> DEFINE Executing == \E r \in RunIds : runs[r].status \in {"Queued", "Running"}
           Asked == \E a \in ApprovalIds : approvals[a].status = "Pending"
<1> SUFFICES ASSUME TypeOK, BoardStateHasWork, [Next]_vars PROVE BoardStateHasWork'
  OBVIOUS
<1>1. /\ spec.state = "Awaiting approval" => Asked
      /\ spec.state = "Running" => Executing
  BY DEF BoardStateHasWork, PendingApprovals
<1>2. ASSUME spec'.state = "Awaiting approval" => Asked', spec'.state = "Running" => Executing'
      PROVE  BoardStateHasWork'
  BY <1>2 DEF BoardStateHasWork, PendingApprovals
<1>3. ASSUME NEW state, SetState(state), state \notin Occupied PROVE BoardStateHasWork'
  <2>1. spec'.state = state
    BY <1>3, BoardAfterSetState
  <2> QED BY <1>2, <1>3, <2>1 DEF Occupied
<1>4. CASE /\ UNCHANGED approvals /\ UNCHANGED runs
           /\ spec'.state \in Occupied => spec'.state = spec.state
  BY <1>1, <1>2, <1>4 DEF Occupied
<1>5. CASE Preparation
  BY <1>4, <1>5, PreparationSubmitsNothing, PreparationFrame DEF Preparation, SubmitsNothing
<1>6. ASSUME NEW a \in ApprovalIds, ApprovalStep(a) PROVE BoardStateHasWork'
  <2>1. ASSUME NEW p \in PromptIds, NEW v \in VerificationIds, RequestImplementationApproval(p, v, a)
        PROVE  BoardStateHasWork'
    <3>1. spec'.state = "Awaiting approval"
      BY <2>1, BoardAfterSetState DEF RequestImplementationApproval
    <3>2. approvals'[a].status = "Pending"
      BY <2>1 DEF RequestImplementationApproval, Approval, TypeOK
    <3> QED BY <1>2, <3>1, <3>2
  <2>2. CASE ApprovalExpires(a)
    <3>1. UNCHANGED spec /\ UNCHANGED runs
      BY <2>2 DEF ApprovalExpires
    <3> QED BY <1>1, <1>2, <2>2, <3>1, ApprovalExpiresRows
  <2>3. ASSUME NEW r \in RunIds, ApproveImplementationRun(a, r) PROVE BoardStateHasWork'
    <3>1. spec'.state = "Running"
      BY <2>3, BoardAfterSetState DEF ApproveImplementationRun
    <3>2. runs'[r].status = "Queued"
      BY <2>3 DEF ApproveImplementationRun, Run, TypeOK
    <3> QED BY <1>2, <3>1, <3>2
  <2>4. ASSUME NEW status, ClosePendingApproval(a, status) PROVE BoardStateHasWork'
    BY <1>3, <2>4 DEF ClosePendingApproval, Occupied
  <2> QED BY <1>6, <2>1, <2>2, <2>3, <2>4
          DEF ApprovalStep, RejectImplementationApproval, ApproveExpiredApproval
<1>7. ASSUME NEW r \in RunIds, RunStep(r) PROVE BoardStateHasWork'
  <2>1. PICK status :
           /\ RunMoves(r, status)
           /\ \/ runs[r].status \in {"Queued", "Running"} /\ status = "Running" /\ UNCHANGED spec
              \/ runs[r].status \notin {"Queued", "Running"} /\ UNCHANGED spec
              \/ \E state \in EndStates : SetState(state)
    BY <1>7, RunEffects DEF RunEnds
  <2>2. CASE \E state \in EndStates : SetState(state)
    BY <1>3, <2>2 DEF EndStates, Occupied
  <2>3. CASE UNCHANGED spec /\ (runs[r].status \in {"Queued", "Running"} => status = "Running")
    <3>1. ASSUME NEW s \in RunIds, runs[s].status \in {"Queued", "Running"}
          PROVE  runs'[s].status \in {"Queued", "Running"}
      BY <2>1, <2>3, <3>1, RunMovesRows
    <3>2. UNCHANGED approvals
      BY <2>1 DEF RunMoves
    <3> QED BY <1>1, <1>2, <2>3, <3>1, <3>2
  <2> QED BY <2>1, <2>2, <2>3
<1>8. CASE UNCHANGED vars
  BY <1>4, <1>8 DEF vars
<1> QED BY <1>5, <1>6, <1>7, <1>8 DEF Next, Preparation

-----------------------------------------------------------------------------
(* Contracts move forward, and those of active runs stay *)

\* A contract held by an approval and by an active run.
HeldContract(v) == BoundByApproval(v) /\ BoundByActiveRun(v)

\* What a step may do to a contract.
ContractMoves(v) ==
  \/ verifications'[v] = verifications[v]
  \/ verifications[v].status \in GeneratingStatus \cup {"None"}
  \/ /\ verifications[v].status = "Ready for approval" /\ ~HeldContract(v)
     /\ verifications'[v].status = "Superseded"

LEMMA SupersedeMoves ==
  ASSUME TypeOK, NEW vs, NEW v \in VerificationIds,
         v \in vs => verifications[v].status \in OpenStatus /\ ~HeldContract(v),
         verifications'[v] = Supersede(vs)[v]
  PROVE  ContractMoves(v)
<1>1. CASE v \in vs
  <2>1. verifications'[v] = [verifications[v] EXCEPT !.status = "Superseded"]
    BY <1>1 DEF Supersede
  <2>2. verifications[v] \in VerificationRows
    BY DEF TypeOK
  <2>3. verifications'[v].status = "Superseded"
    BY <2>1, <2>2 DEF VerificationRows
  <2> QED BY <1>1, <2>3 DEF ContractMoves, OpenStatus
<1>2. CASE v \notin vs
  BY <1>2 DEF Supersede, ContractMoves
<1> QED BY <1>1, <1>2

LEMMA PreparationMovesContracts ==
  ASSUME TypeOK, Preparation, NEW v \in VerificationIds PROVE ContractMoves(v)
<1>1. CASE UNCHANGED verifications
  BY <1>1 DEF ContractMoves
<1>2. ASSUME NEW c \in Clients, ClientStep(c) PROVE ContractMoves(v)
  <2>1. CASE SaveEngineeringSpecification(c)
    <3> DEFINE vs == {w \in VerificationIds : /\ verifications[w].status \in OpenStatus
                                              /\ ~BoundByApproval(w) /\ ~BoundByActiveRun(w)}
    <3>1. verifications' = Supersede(vs)
      BY <2>1 DEF SaveEngineeringSpecification
    <3>2. v \in vs => verifications[v].status \in OpenStatus /\ ~HeldContract(v)
      BY DEF HeldContract
    <3> HIDE DEF vs
    <3> QED BY <3>1, <3>2, SupersedeMoves
  <2>2. CASE RebindTerminalRetryToCurrentProfile(c)
    <3> DEFINE vs == {w \in VerificationIds :
                        verifications[w].status \in OpenStatus /\ ~BoundByActiveRun(w)}
    <3>1. verifications' = Supersede(vs)
      BY <2>2 DEF RebindTerminalRetryToCurrentProfile
    <3>2. v \in vs => verifications[v].status \in OpenStatus /\ ~HeldContract(v)
      BY DEF HeldContract
    <3> HIDE DEF vs
    <3> QED BY <3>1, <3>2, SupersedeMoves
  <2>3. ASSUME NEW new \in VerificationIds, GeneratePddAcceptanceContract(c, new)
        PROVE  ContractMoves(v)
    <3> DEFINE vs == {w \in VerificationIds : /\ verifications[w].prompt = op[c].prompt
                                              /\ verifications[w].status \in OpenStatus
                                              /\ ~BoundByApproval(w)}
    <3>1. /\ verifications[new].status = "None"
          /\ verifications' = [Supersede(vs) EXCEPT ![new] =
                                 Verification("Queued", op[c].prompt, op[c].story)]
      BY <2>3 DEF GeneratePddAcceptanceContract, IsNextRow
    <3>2. v \in vs => verifications[v].status \in OpenStatus /\ ~HeldContract(v)
      BY DEF HeldContract
    <3> HIDE DEF vs
    <3>3. Supersede(vs) \in [VerificationIds -> VerificationRows]
      BY SupersededTables
    <3>4. CASE v = new
      BY <3>1, <3>4 DEF ContractMoves
    <3>5. CASE v # new
      <4>1. verifications'[v] = Supersede(vs)[v]
        BY <3>1, <3>3, <3>5
      <4> QED BY <4>1, <3>2, SupersedeMoves
    <3> QED BY <3>4, <3>5
  <2> QED BY <1>1, <1>2, <2>1, <2>2, <2>3
          DEF ClientStep, SaveCheck, RebindCheck, ReadSpecification, GenerateImplementationPrompt,
              StartPromptTest, PrepareImplementationRunRetry, ReopenPromptAfterTerminalAgentRun,
              AbandonRequest
<1>3. ASSUME NEW w \in VerificationIds, NEW status, SetVerification(w, status) PROVE ContractMoves(v)
  BY <1>3 DEF SetVerification, ContractMoves, TypeOK
<1>4. CASE PrepareStep
  BY <1>1, <1>4 DEF PrepareStep, CreateAutomatedPromptDraft, ApplyPddPromptRevision,
                    RestorePddPromptRevision, ConfirmCurrentIssue
<1> QED BY <1>2, <1>3, <1>4
        DEF Preparation, VerificationStep, MarkPddVerificationGenerating, FailPddVerification,
            CompletePddVerification

LEMMA LaterStepsKeepContracts ==
  ASSUME \/ \E a \in ApprovalIds : ApprovalStep(a)
         \/ \E r \in RunIds : RunStep(r)
  PROVE  UNCHANGED verifications
<1>1. ASSUME NEW a \in ApprovalIds, ApprovalStep(a) PROVE UNCHANGED verifications
  BY <1>1 DEF ApprovalStep, RequestImplementationApproval, ApprovalExpires, ApproveImplementationRun,
              RejectImplementationApproval, ApproveExpiredApproval, ClosePendingApproval
<1>2. ASSUME NEW r \in RunIds, RunStep(r) PROVE UNCHANGED verifications
  BY <1>2, RunFrame DEF RunMoves
<1> QED BY <1>1, <1>2

LEMMA NextMovesContracts ==
  ASSUME TypeOK, [Next]_vars, NEW v \in VerificationIds PROVE ContractMoves(v)
<1>1. CASE UNCHANGED verifications
  BY <1>1 DEF ContractMoves
<1>2. CASE UNCHANGED vars
  BY <1>1, <1>2 DEF vars
<1> QED BY <1>1, <1>2, PreparationMovesContracts, LaterStepsKeepContracts DEF Next, Preparation

\* The contract of an active run is ready, and tests the prompt of the run.
LEMMA ContractStep ==
  TypeOK /\ ApprovalsAreBound /\ SingleUseApproval /\ ContractOutlivesActiveRun /\ [Next]_vars
    => ContractOutlivesActiveRun'
<1> SUFFICES ASSUME TypeOK, ApprovalsAreBound, SingleUseApproval, ContractOutlivesActiveRun,
                    [Next]_vars, NEW r \in RunIds, runs'[r].status \in ActiveStatus
             PROVE  /\ verifications'[runs'[r].verification].status = "Ready for approval"
                    /\ verifications'[runs'[r].verification].prompt = runs'[r].prompt
  BY DEF ContractOutlivesActiveRun, ActiveRuns
<1> DEFINE v == runs[r].verification
           Kept == /\ runs[r].status \in ActiveStatus
                   /\ runs'[r].verification = v /\ runs'[r].prompt = runs[r].prompt
<1>1. CASE Kept
  <2>1. verifications[v].status = "Ready for approval" /\ verifications[v].prompt = runs[r].prompt
    BY <1>1 DEF ContractOutlivesActiveRun, ActiveRuns
  <2>2. runs[r].status # "None"
    BY <1>1 DEF ActiveStatus
  <2>3. PICK a \in ApprovalIds : approvals[a].status = "Approved" /\ approvals[a].verification = v
    BY <2>2 DEF SingleUseApproval
  <2>4. v \in VerificationIds
    BY <2>3 DEF ApprovalsAreBound
  <2>5. HeldContract(v)
    BY <1>1, <2>3 DEF HeldContract, BoundByApproval, BoundByActiveRun, ActiveRuns
  <2>6. verifications'[v] = verifications[v]
    BY <2>1, <2>4, <2>5, NextMovesContracts DEF ContractMoves, GeneratingStatus
  <2> QED BY <1>1, <2>1, <2>6
<1>2. CASE UNCHANGED runs
  BY <1>1, <1>2
<1>3. ASSUME NEW a \in ApprovalIds, NEW s \in RunIds, ApproveImplementationRun(a, s)
      PROVE  /\ verifications'[runs'[r].verification].status = "Ready for approval"
             /\ verifications'[runs'[r].verification].prompt = runs'[r].prompt
  <2> DEFINE row == Run("Queued", a, approvals[a].prompt, approvals[a].verification)
  <2>1. runs' = [runs EXCEPT ![s] = row] /\ UNCHANGED verifications /\ BindingsHold(a)
    BY <1>3 DEF ApproveImplementationRun, Approvable
  <2>2. CASE r = s
    <3>1. runs'[r].verification = approvals[a].verification /\ runs'[r].prompt = approvals[a].prompt
      BY <2>1, <2>2 DEF Run, TypeOK
    <3> QED BY <2>1, <3>1 DEF BindingsHold
  <2>3. CASE r # s
    BY <1>1, <2>1, <2>3 DEF TypeOK
  <2> QED BY <2>2, <2>3
<1>4. ASSUME NEW a \in ApprovalIds, ApprovalStep(a), ~\E s \in RunIds : ApproveImplementationRun(a, s)
      PROVE  UNCHANGED runs
  BY <1>4 DEF ApprovalStep, RequestImplementationApproval, ApprovalExpires,
              RejectImplementationApproval, ApproveExpiredApproval, ClosePendingApproval
<1>5. ASSUME NEW s \in RunIds, RunStep(s) PROVE Kept
  <2>1. PICK status : RunMoves(s, status) /\ (status \in ActiveStatus => runs[s].status \in ActiveStatus)
    BY <1>5, RunEffects DEF RunEnds, ActiveStatus
  <2> QED BY <2>1, RunMovesRows
<1>6. CASE UNCHANGED vars
  BY <1>2, <1>6 DEF vars
<1> QED BY <1>1, <1>2, <1>3, <1>4, <1>5, <1>6, PreparationFrame DEF Next, Preparation

LEMMA OutcomeStep ==
  ASSUME TypeOK, [Next]_vars, NEW r \in RunIds, runs[r].status \in TerminalStatus
  PROVE  runs'[r].status \in {runs[r].status, "Deleted"}
<1>1. runs[r].status \notin ActiveStatus \cup {"None"}
  BY DEF TerminalStatus, RetryableStatus, ActiveStatus
<1>2. ASSUME NEW s \in RunIds, RunStep(s) PROVE runs'[r].status \in {runs[r].status, "Deleted"}
  <2>1. PICK status : RunMoves(s, status) /\ (runs[s].status \in ActiveStatus \/ status = "Deleted")
    BY <1>2, RunEffects DEF RunEnds, ActiveStatus
  <2> QED BY <1>1, <2>1, RunMovesRows
<1>3. ASSUME NEW a \in ApprovalIds, NEW s \in RunIds, ApproveImplementationRun(a, s)
      PROVE  runs'[r] = runs[r]
  BY <1>1, <1>3 DEF ApproveImplementationRun, IsNextRow, TypeOK
<1>4. ASSUME NEW a \in ApprovalIds, ApprovalStep(a), ~\E s \in RunIds : ApproveImplementationRun(a, s)
      PROVE  UNCHANGED runs
  BY <1>4 DEF ApprovalStep, RequestImplementationApproval, ApprovalExpires,
              RejectImplementationApproval, ApproveExpiredApproval, ClosePendingApproval
<1>5. CASE UNCHANGED vars
  BY <1>5 DEF vars
<1> QED BY <1>2, <1>3, <1>4, <1>5, PreparationFrame DEF Next

-----------------------------------------------------------------------------
(* The invariant and what follows from it *)

IInv ==
  /\ TypeOK
  /\ ApprovalsAreBound
  /\ SingleUseApproval
  /\ ContractOutlivesActiveRun
  /\ AwaitingPromptIsDecidable
  /\ FailureReopensPrompt
  /\ BoardStateHasWork

LEMMA InitInv == Init => IInv
<1> SUFFICES ASSUME Init PROVE IInv
  OBVIOUS
<1>1. /\ \A a \in ApprovalIds : approvals[a].status = "None"
      /\ \A r \in RunIds : runs[r].status = "None"
      /\ \A p \in PromptIds : prompts[p].status = "None"
      /\ spec.state = "Draft specification"
  BY DEF Init, Approval, Run, Prompt
<1>2. ActiveRuns = {}
  BY <1>1 DEF ActiveRuns, ActiveStatus
<1>3. ApprovalsAreBound /\ SingleUseApproval /\ ContractOutlivesActiveRun
  BY <1>1, <1>2 DEF ApprovalsAreBound, SingleUseApproval, ContractOutlivesActiveRun
<1>4. AwaitingPromptIsDecidable /\ FailureReopensPrompt /\ BoardStateHasWork
  BY <1>1 DEF AwaitingPromptIsDecidable, FailureReopensPrompt, BoardStateHasWork
<1> QED BY <1>3, <1>4, InitTypeOK DEF IInv

LEMMA Invariance == Spec => []IInv
<1>1. IInv /\ [Next]_vars => IInv'
  BY NextTypeOK, ApprovalsAreBoundStep, SingleUseApprovalStep, ContractStep, AwaitingPromptStep,
     ApprovedPromptStep, BoardStep DEF IInv
<1> QED BY <1>1, InitInv, PTL DEF Spec

\* The acceptance contract of a queued, executing or verified run stays ready
\* and goes on to test the prompt of that run, however stale the checks of the
\* requests that supersede contracts are.
THEOREM ContractsOfActiveRunsStay == Spec => []ContractOutlivesActiveRun
<1>1. IInv => ContractOutlivesActiveRun
  BY DEF IInv
<1> QED BY <1>1, Invariance, PTL

\* A prompt that waits for a decision has a pending approval, whatever was
\* edited, regenerated, rejected or expired meanwhile.
THEOREM WaitingPromptsAreDecidable == Spec => []AwaitingPromptIsDecidable
<1>1. IInv => AwaitingPromptIsDecidable
  BY DEF IInv
<1> QED BY <1>1, Invariance, PTL

\* A prompt is Approved only while a run of it exists that did not fail:
\* every failure gives the prompt back to its authors.
THEOREM FailedRunsReopenPrompts == Spec => []FailureReopensPrompt
<1>1. IInv => FailureReopensPrompt
  BY DEF IInv
<1> QED BY <1>1, Invariance, PTL

\* The board says "Awaiting approval" or "Running" only while there is an
\* approval to decide or a run to wait for.
THEOREM BoardIsNoDeadEnd == Spec => []BoardStateHasWork
<1>1. IInv => BoardStateHasWork
  BY DEF IInv
<1> QED BY <1>1, Invariance, PTL

\* A ready contract can only be superseded, and one that was superseded or
\* failed is never written again: the triggers of migration 035 never fire.
THEOREM ContractsOnlyMoveForward == Spec => ContractsMoveForward
<1>1. ASSUME TypeOK, [Next]_vars
      PROVE  \A v \in VerificationIds :
               /\ verifications[v].status = "Ready for approval" =>
                    verifications'[v].status \in {"Ready for approval", "Superseded"}
               /\ verifications[v].status \in {"Superseded", "Failed"} =>
                    verifications'[v] = verifications[v]
  BY <1>1, NextMovesContracts DEF ContractMoves, GeneratingStatus
<1>2. TypeOK /\ [Next]_vars =>
        [\A v \in VerificationIds :
           /\ verifications[v].status = "Ready for approval" =>
                verifications'[v].status \in {"Ready for approval", "Superseded"}
           /\ verifications[v].status \in {"Superseded", "Failed"} =>
                verifications'[v] = verifications[v]]_vars
  BY <1>1
<1> QED BY <1>2, TypeCorrect, PTL DEF Spec, ContractsMoveForward

\* A late callback, a cancellation or GitHub's own report never revives a run
\* that ended and never changes how it ended.
THEOREM EndedRunsStayEnded == Spec => TerminalRunsStayTerminal
<1>1. TypeOK /\ [Next]_vars =>
        [\A r \in RunIds : runs[r].status \in TerminalStatus =>
           runs'[r].status \in {runs[r].status, "Deleted"}]_vars
  BY OutcomeStep
<1> QED BY <1>1, TypeCorrect, PTL DEF Spec, TerminalRunsStayTerminal
=============================================================================
