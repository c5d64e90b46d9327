------------------------------ MODULE CodingRun ------------------------------
(***************************************************************************)
(* The life of coding runs as the rest of the system may rely on it: a     *)
(* draft pull request is recorded only for a run whose tests passed, a run *)
(* that went past its sandbox never goes back to it, an outcome stays, and *)
(* only a run that left the queue and the sandbox is deleted.              *)
(* Source: the status of agent_runs in                                     *)
(* src/src/lib/engineering-workflow-repository.ts and                      *)
(* src/src/lib/github-webhook-repository.ts.                               *)
(*                                                                         *)
(* The handlers themselves promise less: completeAgentRun records a pull   *)
(* request for any active run.  AgentExecution, which carries a run out,   *)
(* and FinalExecution, which only needs its outcome, both keep to it.      *)
(***************************************************************************)

CONSTANT RunIds

VARIABLE status

Unfinished == {"Queued", "Running", "Tests passed"}
\* How a run ends without a pull request.
Endings    == {"Failed", "No changes", "Cancelled"}
Outcomes   == Endings \cup {"Draft PR opened"}

\* Some runs may already wait in the queue, or be published.
Init == status \in [RunIds -> {"None", "Queued", "Draft PR opened"}]

Moves(r, from, to) == status[r] \in from /\ status' = [status EXCEPT ![r] = to]

Approve(r) == Moves(r, {"None"}, "Queued")
Start(r)   == Moves(r, {"Queued", "Running"}, "Running")

\* A report may be repeated, and the GitHub Actions runner reports on runs that
\* nobody saw start.
Report(r)  == Moves(r, Unfinished, "Tests passed")
Publish(r) == Moves(r, {"Tests passed"}, "Draft PR opened")

\* Passed tests do not protect a run: a late failure ends it, and so does a
\* workflow that was cancelled on GitHub.
End(r) == \E ending \in Endings : Moves(r, Unfinished, ending)

Delete(r) == Moves(r, Outcomes \cup {"Tests passed"}, "Deleted")

Next ==
  \E r \in RunIds : Approve(r) \/ Start(r) \/ Report(r) \/ Publish(r) \/ End(r) \/ Delete(r)

Spec == Init /\ [][Next]_status
=============================================================================
