CONSTANTS
  PromptIds <- MCPrompts
  VerificationIds <- MCVerifications
  ApprovalIds <- MCApprovals
  RunIds <- MCRuns
  SpecRevisions <- MCSpecRevisions
  Stories <- MCStories
  Clients = {c1}
SPECIFICATION Spec
INVARIANTS
  TypeOK
  SingleUseApproval
  ContractOutlivesActiveRun
  AwaitingPromptIsDecidable
  FailureReopensPrompt
  BoardStateHasWork
PROPERTIES
  ContractsMoveForward
  TerminalRunsStayTerminal
CHECK_DEADLOCK FALSE
