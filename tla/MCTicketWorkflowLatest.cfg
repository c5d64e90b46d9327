CONSTANTS
  PromptIds <- MCPrompts
  VerificationIds <- MCVerifications
  ApprovalIds <- MCApprovals
  RunIds <- MCRuns
  SpecRevisions <- MCSpecRevisions
  Stories <- MCStories
  Clients = {c1}
SPECIFICATION Spec
PROPERTIES
  OnlyLatestPromptSubmitted
CHECK_DEADLOCK FALSE
