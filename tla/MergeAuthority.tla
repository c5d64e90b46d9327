---------------------------- MODULE MergeAuthority ----------------------------
(***************************************************************************)
(* What final execution promises of the commits of a pull request: each    *)
(* attempt to merge one spends a decision a human made for that commit,    *)
(* and a decision is spent at most once.                                   *)
(* Source: src/README.md ("The coordinator executes the exact approved     *)
(* head SHA"); the steps are those of                                      *)
(* src/src/lib/final-execution-repository.ts seen from the decision.       *)
(***************************************************************************)

CONSTANTS Commits, NoCommit

VARIABLES authority,  \* what became of the decision about each commit
          merged      \* the commit that was merged on such a decision

Init ==
  /\ authority = [c \in Commits |-> "none"]
  /\ merged = NoCommit

\* A human decides, or decides afresh after an attempt that failed.
Decide(c) ==
  /\ authority[c] = "none"
  /\ authority' = [authority EXCEPT ![c] = "granted"]
  /\ UNCHANGED merged

Withdraw(c) ==
  /\ authority[c] = "granted"
  /\ authority' = [authority EXCEPT ![c] = "none"]
  /\ UNCHANGED merged

Spend(c) ==
  /\ authority[c] = "granted"
  /\ authority' = [authority EXCEPT ![c] = "spending"]
  /\ UNCHANGED merged

\* One attempt merges at most once, and nothing is merged twice.
Merge(c) ==
  /\ authority[c] = "spending" /\ merged = NoCommit
  /\ authority' = [authority EXCEPT ![c] = "none"]
  /\ merged' = c

GiveUp(c) ==
  /\ authority[c] = "spending"
  /\ authority' = [authority EXCEPT ![c] = "none"]
  /\ UNCHANGED merged

Next == \E c \in Commits : Decide(c) \/ Withdraw(c) \/ Spend(c) \/ Merge(c) \/ GiveUp(c)

Spec == Init /\ [][Next]_<<authority, merged>>
=============================================================================
