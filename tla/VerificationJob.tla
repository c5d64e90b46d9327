--------------------------- MODULE VerificationJob ---------------------------
(***************************************************************************)
(* What the release verifier promises of one post-release verification     *)
(* job: a bounded number of executions, one verdict that never changes,    *)
(* one row of evidence for it, and no pass that nothing executed.          *)
(* Source: src/src/lib/release-lifecycle-repository.ts, the states of      *)
(* post_release_verification_jobs without their dispatch.                  *)
(***************************************************************************)
EXTENDS Naturals

CONSTANT MaxAttempts

VARIABLES verdict,   \* "open", or what was decided
          attempts,  \* executions started
          rows       \* engineering_release_verifications written for the job

Init == verdict = "open" /\ attempts = 0 /\ rows = 0

Execute ==
  /\ verdict = "open" /\ attempts < MaxAttempts
  /\ attempts' = attempts + 1
  /\ UNCHANGED <<verdict, rows>>

Decide(v) ==
  /\ verdict = "open" /\ rows = 0
  /\ v = "Passed" => attempts > 0
  /\ verdict' = v
  /\ rows' = 1
  /\ UNCHANGED attempts

Next == Execute \/ \E v \in {"Passed", "Failed"} : Decide(v)

Spec == Init /\ [][Next]_<<verdict, attempts, rows>>
=============================================================================
