-------------------------- MODULE MCTicketWorkflow --------------------------
(* Instances of TicketWorkflow for TLC: the ids are the finite supplies of   *)
(* rows a run may insert. *)
EXTENDS TicketWorkflow, TLC

MCPrompts == 1..2
MCVerifications == 1..2
MCApprovals == 1..2
MCRuns == 1..2
MCSpecRevisions == 0..2
MCStories == {"story"}

=============================================================================
