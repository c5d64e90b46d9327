------------------------ MODULE ReleaseLifecycleProofs ------------------------
(***************************************************************************)
(* Proofs about ReleaseLifecycle, for any problems, revisions, deployments *)
(* and stages people move tickets to: its types, that a Verified ticket    *)
(* has passing evidence, and that only people move a ticket back.          *)
(***************************************************************************)
EXTENDS ReleaseLifecycle, TLAPS

USE DEF Detected, NeedsReview, Approved, Planned, InProgress, ReleaseReady, Released, Verified, Closed

-----------------------------------------------------------------------------
(* Rows *)

LEMMA BoundFacts ==
  /\ Revisions \subseteq Nat \ {0} /\ 1 \in Revisions /\ None \notin Revisions /\ None \notin Jobs
  /\ HandStages \subseteq Stages /\ Stages \subseteq Nat
BY BoundAssumption DEF Revisions, Jobs, None, Stages

LEMMA TicketWritten ==
  ASSUME NEW stage \in Stages, NEW state \in States, NEW r \in Revisions
  PROVE  /\ Ticket(stage, state, r) \in Tickets
         /\ Ticket(stage, state, r).stage = stage /\ Ticket(stage, state, r).state = state
BY DEF Ticket, Tickets

LEMMA PullWritten ==
  ASSUME NEW r \in Revisions \cup {None}, NEW seen \in BOOLEAN, NEW merged \in SUBSET Revisions
  PROVE  Pull(r, seen, merged) \in Pulls
BY DEF Pull, Pulls

LEMMA JobWritten ==
  ASSUME NEW status \in {"None", "Open", "Passed", "Failed"}, NEW p \in Problems \cup {NoProblem},
         NEW r \in Revisions \cup {None}
  PROVE  Job(status, p, r) \in JobRows
BY DEF Job, JobRows

LEMMA VerificationWritten ==
  ASSUME NEW p \in Problems, NEW r \in Revisions
  PROVE  Verification(p, r) \in Verifications /\ Verification(p, r).problem = p
BY DEF Verification, Verifications

LEMMA Columns ==
  ASSUME TypeOK
  PROVE  /\ \A p \in Problems : /\ tickets[p].stage \in Stages /\ tickets[p].state \in States
                                /\ tickets[p].revision \in Revisions
                                /\ pulls[p].revision \in Revisions \cup {None}
                                /\ pulls[p].seen \in BOOLEAN /\ pulls[p].merged \subseteq Revisions
         /\ \A j \in Jobs : /\ jobs[j].problem \in Problems \cup {NoProblem}
                            /\ jobs[j].revision \in Revisions \cup {None}
BY DEF TypeOK, Tickets, Pulls, JobRows

LEMMA VerificationAdded ==
  ASSUME TypeOK, NEW p \in Problems, NEW v \in Verdicts, AddVerification(p, v)
  PROVE  /\ verifications' \subseteq Verifications /\ verifications \subseteq verifications'
         /\ v = "Passed" => \E w \in verifications' : w.problem = p
<1>1. PICK row : row = Verification(p, tickets[p].revision)
  OBVIOUS
<1>2. row \in Verifications /\ row.problem = p
  BY <1>1, Columns, VerificationWritten
<1>3. verifications' = verifications \cup (IF v = "Passed" THEN {row} ELSE {})
  BY <1>1 DEF AddVerification
<1>4. QED
  BY <1>2, <1>3 DEF TypeOK

LEMMA StateAtStage ==
  ASSUME TypeOK, NEW p \in Problems, NEW stage \in Stages
  PROVE  /\ StateAt(p, stage) \in States
         /\ stage # Verified /\ StateAt(p, stage) = "Verified" => tickets[p].state = "Verified"
BY Columns DEF StateAt, States

-----------------------------------------------------------------------------
(* Inductive invariants *)

\* Something passed for the problem.
Passed(p) == \E v \in verifications : v.problem = p

LEMMA RevisionPassed ==
  ASSUME TypeOK, NEW p \in Problems, PassedForRevision(p)
  PROVE  Passed(p)
<1>1. PICK row \in verifications : row = Verification(p, tickets[p].revision)
  BY DEF PassedForRevision
<1>2. row.problem = p
  BY <1>1, Columns, VerificationWritten
<1>3. QED
  BY <1>1, <1>2 DEF Passed

\* A tick moves what has a next stage, and to Verified only on a pass.
TickInv == tick # NoProblem =>
  tickets[tick].stage < Closed /\ (tickets[tick].stage = Released => Passed(tick))

JobsInv == \A j \in Jobs : jobs[j].status = "Open" => jobs[j].problem \in Problems

TypeInv == TypeOK /\ TickInv /\ JobsInv

IInv == TypeInv /\ VerifiedIsEvidenced

-----------------------------------------------------------------------------
(* What a step does to the tickets *)

\* A step writes one ticket: it is not moved back unless by a person, it is
\* Verified only if it was or if something passed, and it is not moved under
\* a tick.
WritesTicket(p, stage, state, r) ==
  /\ tickets' = [tickets EXCEPT ![p] = Ticket(stage, state, r)]
  /\ state = "Verified" => tickets[p].state = "Verified" \/ Passed(p)'
  /\ \/ stage >= tickets[p].stage
     \/ TransitionProblemStage(p, stage)
     \/ \E approve \in BOOLEAN : DecideAction(p, approve)
  /\ tick' # NoProblem => tick' = tick /\ stage = tickets[p].stage

LEMMA TicketSet ==
  ASSUME TypeOK, NEW p \in Problems, NEW stage, NEW state, SetTicket(p, stage, state)
  PROVE  /\ tickets' = [tickets EXCEPT ![p] = Ticket(stage, state, tickets[p].revision)]
         /\ tickets[p].revision \in Revisions /\ tickets[p].stage \in Stages
         /\ tickets[p].state \in States
BY Columns DEF SetTicket, TypeOK

LEMMA TickWrites ==
  ASSUME TypeInv, NEW p \in Problems, TickMoves(p)
  PROVE  \E stage \in Stages, state \in States, r \in Revisions : WritesTicket(p, stage, state, r)
<1> DEFINE next == tickets[p].stage + 1
           state == StateAt(p, next)
<1>0. TypeOK /\ tick = p /\ tickets[p].stage \in Stages
  BY Columns DEF TypeInv, TickMoves
<1>1. next \in Stages /\ next >= tickets[p].stage
  BY <1>0, ProblemAssumption DEF TypeInv, TickInv, Stages
<1>2. SetTicket(p, next, state)
  BY DEF TickMoves
<1>3. state \in States
  BY <1>0, <1>1, StateAtStage
<1>4. state = "Verified" => tickets[p].state = "Verified" \/ Passed(p)'
  <2>1. CASE next = Verified
    <3>1. tickets[p].stage = Released
      BY <1>0, <2>1 DEF Stages
    <3>2. Passed(p)
      BY <1>0, <3>1, ProblemAssumption DEF TypeInv, TickInv
    <3>3. QED
      BY <3>2 DEF TickMoves, Passed
  <2>2. QED
    BY <1>0, <1>1, <2>1, StateAtStage
<1>5. tick' = NoProblem
  BY DEF TickMoves
<1> HIDE DEF next, state
<1>6. WritesTicket(p, next, state, tickets[p].revision) /\ tickets[p].revision \in Revisions
  BY <1>0, <1>1, <1>2, <1>4, <1>5, TicketSet DEF WritesTicket
<1>7. QED
  BY <1>1, <1>3, <1>6

LEMMA EvidenceWrites ==
  ASSUME TypeInv, NEW p \in Problems,
         \/ RunPublishes(p)
         \/ \E attempted \in BOOLEAN : MergedEvent(p, attempted)
         \/ \E r \in Revisions, j \in Jobs : RecordGithubDeploymentStatus(p, r, j)
  PROVE  \E stage \in Stages, state \in States, r \in Revisions : WritesTicket(p, stage, state, r)
<1>0. TypeOK /\ tickets[p].stage \in Stages /\ tickets[p].state \in States
  BY Columns DEF TypeInv
<1>1. tick' = NoProblem
  BY DEF RunPublishes, MergedEvent, RecordGithubDeploymentStatus, Unlocked
<1> DEFINE Forward(stage, state) ==
             /\ stage \in Stages /\ stage >= tickets[p].stage /\ state \in States
             /\ state = "Verified" => tickets[p].state = "Verified"
<1>2. \E stage, state : SetTicket(p, stage, state) /\ Forward(stage, state)
  <2>1. CASE RunPublishes(p)
    <3>1. SetTicket(p, tickets[p].stage, "In development")
      BY <2>1 DEF RunPublishes
    <3>2. tickets[p].stage >= tickets[p].stage
      BY <1>0 DEF Stages
    <3>3. "In development" \in States /\ "In development" # "Verified"
      BY DEF States
    <3>4. QED
      BY <1>0, <3>1, <3>2, <3>3
  <2>2. CASE \E attempted \in BOOLEAN : MergedEvent(p, attempted)
    <3> DEFINE stage == IF tickets[p].stage \in Approved..InProgress THEN ReleaseReady ELSE tickets[p].stage
               state == IF tickets[p].state \in {"Released", "Verified"} THEN tickets[p].state
                        ELSE "Release Ready"
    <3>1. SetTicket(p, stage, state)
      BY <2>2 DEF MergedEvent
    <3>2. stage \in Stages /\ stage >= tickets[p].stage
      BY <1>0 DEF Stages
    <3>3. state \in States /\ (state = "Verified" => tickets[p].state = "Verified")
      BY <1>0 DEF States
    <3> HIDE DEF stage, state
    <3>4. QED
      BY <3>1, <3>2, <3>3
  <2>3. CASE \E r \in Revisions, j \in Jobs : RecordGithubDeploymentStatus(p, r, j)
    <3> DEFINE stage == StageAfterDeployment(tickets[p].stage)
               state == IF tickets[p].state = "Verified" THEN "Verified" ELSE "Released"
    <3>1. SetTicket(p, stage, state)
      BY <2>3 DEF RecordGithubDeploymentStatus
    <3>2. stage \in Stages /\ stage >= tickets[p].stage
      BY <1>0 DEF Stages, StageAfterDeployment
    <3>3. state \in States /\ (state = "Verified" => tickets[p].state = "Verified")
      BY <1>0 DEF States
    <3> HIDE DEF stage, state
    <3>4. QED
      BY <3>1, <3>2, <3>3
  <2>4. QED
    BY <2>1, <2>2, <2>3
<1>5. PICK stage, state : SetTicket(p, stage, state) /\ Forward(stage, state)
  BY <1>2
<1>3. WritesTicket(p, stage, state, tickets[p].revision) /\ tickets[p].revision \in Revisions
  BY <1>0, <1>1, <1>5, TicketSet DEF WritesTicket
<1>4. QED
  BY <1>5, <1>3

LEMMA VerdictWrites ==
  ASSUME TypeInv, NEW j \in Jobs, NEW v \in Verdicts, CompletePostReleaseVerification(j, v)
  PROVE  \/ UNCHANGED tickets
         \/ \E p \in Problems, stage \in Stages, state \in States, r \in Revisions :
              WritesTicket(p, stage, state, r)
<1>0. PICK p \in Problems : p = jobs[j].problem
  BY DEF TypeInv, JobsInv, CompletePostReleaseVerification
<1>1. TypeOK /\ tick' = NoProblem
  BY DEF TypeInv, CompletePostReleaseVerification, Unlocked
<1>2. ApplyVerdict(p, v) /\ AddVerification(p, v)
  BY <1>0 DEF CompletePostReleaseVerification
<1>3. tickets[p].stage \in Stages /\ tickets[p].revision \in Revisions
  BY <1>1, Columns
<1>4. CASE v = "Passed" /\ SetTicket(p, IF tickets[p].stage = Released THEN Verified ELSE tickets[p].stage, "Verified")
  <2>1. PICK stage : SetTicket(p, stage, "Verified") /\ stage \in Stages /\ stage >= tickets[p].stage
    BY <1>3, <1>4 DEF Stages
  <2>2. Passed(p)'
    BY <1>1, <1>2, <1>4, VerificationAdded DEF Passed
  <2>3. WritesTicket(p, stage, "Verified", tickets[p].revision)
    BY <1>1, <2>1, <2>2, TicketSet DEF WritesTicket
  <2>4. QED
    BY <1>3, <2>1, <2>3 DEF States
<1>5. QED
  BY <1>2, <1>4 DEF ApplyVerdict

LEMMA PersonWrites ==
  ASSUME TypeInv, NEW p \in Problems,
         \/ SaveEngineeringSpecification(p)
         \/ WorkGoesOn(p)
         \/ \E stage \in HandStages : TransitionProblemStage(p, stage)
         \/ \E approve \in BOOLEAN : DecideAction(p, approve)
         \/ AdvanceLifecycle(p)
  PROVE  \E stage \in Stages, state \in States, r \in Revisions : WritesTicket(p, stage, state, r)
<1>0. /\ TypeOK /\ tickets[p].stage \in Stages /\ tickets[p].state \in States
      /\ tickets[p].revision \in Revisions
  BY Columns DEF TypeInv
<1>1. CASE SaveEngineeringSpecification(p)
  <2>1. tickets' = [tickets EXCEPT ![p] = Ticket(tickets[p].stage, "In development", tickets[p].revision + 1)]
    BY <1>0, <1>1 DEF SaveEngineeringSpecification, TypeOK
  <2>2. tickets[p].revision + 1 \in Revisions /\ tickets[p].stage >= tickets[p].stage
    <3>0. tickets[p].revision < MaxRevisions
      BY <1>1 DEF SaveEngineeringSpecification
    <3>1. tickets[p].revision \in Nat /\ 1 <= tickets[p].revision /\ tickets[p].revision < MaxRevisions
      BY <1>0, <3>0, BoundAssumption DEF Revisions
    <3>2. tickets[p].stage >= tickets[p].stage
      BY <1>0 DEF Stages
    <3>3. QED
      BY <3>1, <3>2, BoundAssumption DEF Revisions
  <2>3. WritesTicket(p, tickets[p].stage, "In development", tickets[p].revision + 1)
    <3>1. tick' # NoProblem => tick' = tick
      BY <1>1 DEF SaveEngineeringSpecification
    <3>2. QED
      BY <2>1, <2>2, <3>1 DEF WritesTicket
  <2>4. QED
    BY <1>0, <2>2, <2>3 DEF States
<1>2. ASSUME NEW stage \in HandStages, TransitionProblemStage(p, stage)
      PROVE  \E s \in Stages, state \in States, r \in Revisions : WritesTicket(p, s, state, r)
  <2>1. SetTicket(p, stage, tickets[p].state) /\ tick' = NoProblem
    BY <1>2 DEF TransitionProblemStage, Unlocked
  <2>2. WritesTicket(p, stage, tickets[p].state, tickets[p].revision)
    BY <1>0, <1>2, <2>1, TicketSet DEF WritesTicket
  <2>3. QED
    BY <1>0, <2>2, BoundFacts
<1>3. CASE AdvanceLifecycle(p)
  <2> DEFINE next == tickets[p].stage + 1
             state == StateAt(p, next)
  <2>1. next \in Stages /\ next >= tickets[p].stage
    BY <1>0, <1>3 DEF AdvanceLifecycle, Stages
  <2>2. state \in States
    BY <1>0, <2>1, StateAtStage
  <2>3. state = "Verified" => tickets[p].state = "Verified" \/ Passed(p)'
    <3>1. next = Verified => Passed(p)'
      <4>1. next = Verified => Passed(p)
        BY <1>0, <1>3, RevisionPassed DEF AdvanceLifecycle
      <4>2. verifications' = verifications
        BY <1>3 DEF AdvanceLifecycle
      <4>3. QED
        BY <4>1, <4>2 DEF Passed
    <3>2. QED
      BY <1>0, <2>1, <3>1, StateAtStage
  <2>4. SetTicket(p, next, state) /\ tick' = NoProblem
    BY <1>3 DEF AdvanceLifecycle, Unlocked
  <2> HIDE DEF next, state
  <2>5. WritesTicket(p, next, state, tickets[p].revision)
    BY <1>0, <2>1, <2>3, <2>4, TicketSet DEF WritesTicket
  <2>6. QED
    BY <1>0, <2>1, <2>2, <2>5
<1>4. CASE WorkGoesOn(p)
  <2>1. SetTicket(p, tickets[p].stage, "In development") /\ tick' = tick
    BY <1>4 DEF WorkGoesOn
  <2>2. tickets[p].stage >= tickets[p].stage
    BY <1>0 DEF Stages
  <2>3. WritesTicket(p, tickets[p].stage, "In development", tickets[p].revision)
    BY <1>0, <2>1, <2>2, TicketSet DEF WritesTicket
  <2>4. QED
    BY <1>0, <2>3 DEF States
<1>5. ASSUME NEW approve \in BOOLEAN, DecideAction(p, approve)
      PROVE  \E s \in Stages, state \in States, r \in Revisions : WritesTicket(p, s, state, r)
  <2>1. PICK s \in Stages : SetTicket(p, s, tickets[p].state)
    BY <1>5 DEF DecideAction, Stages
  <2>2. tick' = NoProblem
    BY <1>5 DEF DecideAction, Unlocked
  <2>3. WritesTicket(p, s, tickets[p].state, tickets[p].revision)
    BY <1>0, <1>5, <2>1, <2>2, TicketSet DEF WritesTicket
  <2>4. QED
    BY <1>0, <2>3
<1>6. QED
  BY <1>1, <1>2, <1>3, <1>4, <1>5

LEMMA StepWrites ==
  ASSUME TypeInv, [Next]_vars
  PROVE  \/ UNCHANGED tickets
         \/ \E p \in Problems, stage \in Stages, state \in States, r \in Revisions :
              WritesTicket(p, stage, state, r)
<1>1. ASSUME NEW p \in Problems,
             \/ TickReads(p) \/ TickFails(p) \/ MergeRecorded(p)
             \/ ApproveImplementationRun(p)
             \/ \E v \in Verdicts : RecordReleaseVerification(p, v)
      PROVE  UNCHANGED tickets
  BY <1>1 DEF TickReads, TickFails, ApproveImplementationRun, MergeRecorded, RecordReleaseVerification
<1>2. RestEnds \/ UNCHANGED vars => UNCHANGED tickets
  BY DEF RestEnds, vars
<1>3. ASSUME NEW j \in Jobs, NEW v \in Verdicts, CompletePostReleaseVerification(j, v)
      PROVE  \/ UNCHANGED tickets
             \/ \E p \in Problems, stage \in Stages, state \in States, r \in Revisions :
                  WritesTicket(p, stage, state, r)
  BY <1>3, VerdictWrites
<1>4. ASSUME NEW p \in Problems, PersonStep(p)
      PROVE  \/ UNCHANGED tickets
             \/ \E stage \in Stages, state \in States, r \in Revisions : WritesTicket(p, stage, state, r)
  BY <1>1, <1>4, PersonWrites DEF PersonStep
<1>5. ASSUME NEW p \in Problems, EvidenceStep(p)
      PROVE  \/ UNCHANGED tickets
             \/ \E stage \in Stages, state \in States, r \in Revisions : WritesTicket(p, stage, state, r)
  BY <1>1, <1>5, EvidenceWrites DEF EvidenceStep
<1>6. CASE CoordinatorStep
  BY <1>1, <1>2, <1>6, TickWrites DEF CoordinatorStep
<1>7. QED
  BY <1>2, <1>3, <1>4, <1>5, <1>6 DEF Next

-----------------------------------------------------------------------------
(* Types *)

LEMMA TicketsTyped ==
  ASSUME TypeInv, [Next]_vars
  PROVE  tickets' \in [Problems -> Tickets]
<1>1. ASSUME NEW p \in Problems, NEW stage \in Stages, NEW state \in States, NEW r \in Revisions,
             WritesTicket(p, stage, state, r)
      PROVE  tickets' \in [Problems -> Tickets]
  BY <1>1, TicketWritten DEF TypeInv, TypeOK, WritesTicket
<1>2. QED
  BY <1>1, StepWrites DEF TypeInv, TypeOK

\* What a step leaves of the other variables' types.
OthersTyped ==
  /\ facts \in [Problems -> SUBSET Facts]
  /\ pulls \in [Problems -> Pulls]
  /\ jobs \in [Jobs -> JobRows]
  /\ verifications \subseteq Verifications
  /\ resting \in BOOLEAN
  /\ tick \in Problems \cup {NoProblem}
  /\ audited \subseteq Problems \X Stages

LEMMA CoordinatorTyped ==
  ASSUME TypeInv, CoordinatorStep
  PROVE  OthersTyped' /\ JobsInv' /\ verifications' = verifications
<1>1. TypeOK /\ OthersTyped /\ JobsInv
  BY DEF TypeInv, TypeOK, OthersTyped
<1>2. ASSUME NEW p \in Problems, TickReads(p) \/ TickFails(p)
      PROVE  OthersTyped' /\ JobsInv' /\ verifications' = verifications
  BY <1>1, <1>2 DEF TickReads, TickFails, OthersTyped, JobsInv
<1>3. ASSUME NEW p \in Problems, TickMoves(p)
      PROVE  OthersTyped' /\ JobsInv' /\ verifications' = verifications
  <2>1. tickets[p].stage \in Stages
    BY <1>1, Columns
  <2>2. audited' \subseteq Problems \X Stages
    BY <1>1, <1>3, <2>1 DEF TickMoves, OthersTyped
  <2>3. resting' = TRUE /\ tick' = NoProblem /\ UNCHANGED <<facts, pulls, jobs, verifications>>
    BY <1>3 DEF TickMoves
  <2>4. QED
    BY <1>1, <2>2, <2>3 DEF OthersTyped, JobsInv
<1>4. CASE RestEnds
  BY <1>1, <1>4 DEF RestEnds, OthersTyped, JobsInv
<1>5. QED
  BY <1>2, <1>3, <1>4 DEF CoordinatorStep

LEMMA EvidenceTyped ==
  ASSUME TypeInv, NEW p \in Problems, EvidenceStep(p)
  PROVE  OthersTyped' /\ JobsInv' /\ verifications' = verifications
<1>1. TypeOK /\ OthersTyped /\ JobsInv
  BY DEF TypeInv, TypeOK, OthersTyped
<1>2. /\ pulls[p].revision \in Revisions \cup {None} /\ pulls[p].seen \in BOOLEAN
      /\ pulls[p].merged \subseteq Revisions /\ tickets[p].revision \in Revisions
  BY <1>1, Columns
<1>3. CASE ApproveImplementationRun(p)
  <2>1. facts' \in [Problems -> SUBSET Facts]
    BY <1>1, <1>3 DEF ApproveImplementationRun, OthersTyped, Facts
  <2>2. UNCHANGED <<pulls, jobs, verifications, resting, tick, audited>>
    BY <1>3 DEF ApproveImplementationRun
  <2>3. QED
    BY <1>1, <2>1, <2>2 DEF OthersTyped, JobsInv
<1>4. CASE RunPublishes(p)
  <2>1. facts' \in [Problems -> SUBSET Facts]
    BY <1>1, <1>4 DEF RunPublishes, OthersTyped, Facts
  <2>2. Pull(tickets[p].revision, FALSE, pulls[p].merged) \in Pulls
    BY <1>2, PullWritten
  <2>3. pulls' = [pulls EXCEPT ![p] = Pull(tickets[p].revision, FALSE, pulls[p].merged)]
    BY <1>1, <1>4 DEF RunPublishes, OthersTyped
  <2>4. UNCHANGED <<jobs, verifications, resting, tick, audited>>
    BY <1>4 DEF RunPublishes
  <2>5. QED
    BY <1>1, <2>1, <2>2, <2>3, <2>4 DEF OthersTyped, JobsInv
<1>5. CASE MergeRecorded(p)
  <2> DEFINE r == pulls[p].revision
             row == Pull(r, pulls[p].seen, pulls[p].merged \cup {r})
  <2>1. r \in Revisions
    BY <1>2, <1>5 DEF MergeRecorded
  <2>2. row \in Pulls
    BY <1>2, <2>1, PullWritten
  <2>3. pulls' = [pulls EXCEPT ![p] = row]
    BY <1>1, <1>5 DEF MergeRecorded, OthersTyped
  <2>4. UNCHANGED <<facts, jobs, verifications, resting, tick, audited>>
    BY <1>5 DEF MergeRecorded
  <2> HIDE DEF r, row
  <2>5. QED
    BY <1>1, <2>2, <2>3, <2>4 DEF OthersTyped, JobsInv
<1>6. ASSUME NEW attempted \in BOOLEAN, MergedEvent(p, attempted)
      PROVE  OthersTyped' /\ JobsInv' /\ verifications' = verifications
  <2> DEFINE r == pulls[p].revision
             merged == IF attempted THEN pulls[p].merged \cup {r} ELSE pulls[p].merged
             row == Pull(r, TRUE, merged)
  <2>1. r \in Revisions
    BY <1>2, <1>6 DEF MergedEvent
  <2>2. merged \in SUBSET Revisions
    BY <1>2, <2>1
  <2>3. row \in Pulls
    <3> HIDE DEF r, merged
    <3>1. QED
      BY <2>1, <2>2, PullWritten
  <2>4. pulls' = [pulls EXCEPT ![p] = row]
    BY <1>1, <1>6 DEF MergedEvent, OthersTyped
  <2>5. UNCHANGED <<facts, jobs, verifications, resting, tick, audited>>
    BY <1>6 DEF MergedEvent
  <2> HIDE DEF r, merged, row
  <2>6. QED
    BY <1>1, <2>3, <2>4, <2>5 DEF OthersTyped, JobsInv
<1>7. ASSUME NEW r \in Revisions, NEW j \in Jobs, RecordGithubDeploymentStatus(p, r, j)
      PROVE  OthersTyped' /\ JobsInv' /\ verifications' = verifications
  <2>1. jobs' = [jobs EXCEPT ![j] = Job("Open", p, r)]
    BY <1>7 DEF RecordGithubDeploymentStatus
  <2>2. Job("Open", p, r) \in JobRows /\ Job("Open", p, r).problem = p
    BY JobWritten DEF Job
  <2>3. UNCHANGED <<facts, pulls, verifications, resting, tick, audited>>
    BY <1>7 DEF RecordGithubDeploymentStatus
  <2>4. jobs' \in [Jobs -> JobRows] /\ JobsInv'
    BY <1>1, <2>1, <2>2 DEF OthersTyped, JobsInv
  <2>5. QED
    BY <1>1, <2>3, <2>4 DEF OthersTyped
<1>8. QED
  BY <1>3, <1>4, <1>5, <1>6, <1>7 DEF EvidenceStep

LEMMA PersonTyped ==
  ASSUME TypeInv, NEW p \in Problems, PersonStep(p)
  PROVE  OthersTyped' /\ JobsInv' /\ verifications \subseteq verifications'
<1>1. TypeOK /\ OthersTyped /\ JobsInv
  BY DEF TypeInv, TypeOK, OthersTyped
<1>2. ASSUME NEW v \in Verdicts, RecordReleaseVerification(p, v)
      PROVE  OthersTyped' /\ JobsInv' /\ verifications \subseteq verifications'
  <2>1. verifications' \subseteq Verifications /\ verifications \subseteq verifications'
    BY <1>1, <1>2, VerificationAdded DEF RecordReleaseVerification
  <2>2. UNCHANGED <<facts, pulls, jobs, resting, tick, audited>>
    BY <1>2 DEF RecordReleaseVerification
  <2>3. QED
    BY <1>1, <2>1, <2>2 DEF OthersTyped, JobsInv
<1>3. CASE SaveEngineeringSpecification(p)
  BY <1>1, <1>3 DEF SaveEngineeringSpecification, OthersTyped, JobsInv
<1>4. CASE \E stage \in HandStages : TransitionProblemStage(p, stage)
  BY <1>1, <1>4 DEF TransitionProblemStage, OthersTyped, JobsInv
<1>5. CASE AdvanceLifecycle(p)
  BY <1>1, <1>5 DEF AdvanceLifecycle, OthersTyped, JobsInv
<1>6. CASE WorkGoesOn(p)
  BY <1>1, <1>6 DEF WorkGoesOn, OthersTyped, JobsInv
<1>7. ASSUME NEW approve \in BOOLEAN, DecideAction(p, approve)
      PROVE  OthersTyped' /\ JobsInv' /\ verifications \subseteq verifications'
  <2>1. facts' \in [Problems -> SUBSET Facts]
    BY <1>1, <1>7 DEF DecideAction, OthersTyped, Facts
  <2>2. UNCHANGED <<pulls, jobs, verifications, resting, tick, audited>>
    BY <1>7 DEF DecideAction
  <2>3. QED
    BY <1>1, <2>1, <2>2 DEF OthersTyped, JobsInv
<1>8. QED
  BY <1>2, <1>3, <1>4, <1>5, <1>6, <1>7 DEF PersonStep

LEMMA VerdictTyped ==
  ASSUME TypeInv, NEW j \in Jobs, NEW v \in Verdicts, CompletePostReleaseVerification(j, v)
  PROVE  OthersTyped' /\ JobsInv' /\ verifications \subseteq verifications'
<1>1. TypeOK /\ OthersTyped /\ JobsInv
  BY DEF TypeInv, TypeOK, OthersTyped
<1>2. PICK p \in Problems : p = jobs[j].problem
  BY <1>1 DEF JobsInv, CompletePostReleaseVerification
<1>3. AddVerification(p, v) /\ UNCHANGED <<facts, pulls, resting, tick, audited>>
  BY <1>2 DEF CompletePostReleaseVerification
<1>4. Job(v, p, jobs[j].revision) \in JobRows
  BY <1>1, Columns, JobWritten DEF Verdicts
<1>5. verifications' \subseteq Verifications /\ verifications \subseteq verifications'
  BY <1>1, <1>3, VerificationAdded
<1>6. jobs' = [jobs EXCEPT ![j] = Job(v, p, jobs[j].revision)]
  BY <1>1, <1>2 DEF CompletePostReleaseVerification, OthersTyped
<1>7. Job(v, p, jobs[j].revision).problem = p
  BY DEF Job
<1>8. jobs' \in [Jobs -> JobRows] /\ JobsInv'
  BY <1>1, <1>4, <1>6, <1>7 DEF OthersTyped, JobsInv
<1>9. QED
  BY <1>1, <1>3, <1>5, <1>8 DEF OthersTyped

LEMMA StepTyped ==
  ASSUME TypeInv, [Next]_vars
  PROVE  TypeOK' /\ JobsInv' /\ verifications \subseteq verifications'
<1>1. CASE UNCHANGED vars
  BY <1>1 DEF vars, TypeInv, TypeOK, JobsInv
<1>2. OthersTyped' /\ JobsInv' /\ verifications \subseteq verifications' => TypeOK'
  BY TicketsTyped DEF TypeOK, OthersTyped
<1>3. QED
  BY <1>1, <1>2, CoordinatorTyped, EvidenceTyped, PersonTyped, VerdictTyped DEF Next

-----------------------------------------------------------------------------
(* The invariants hold *)

LEMMA PassedStays ==
  ASSUME verifications \subseteq verifications', NEW p \in Problems, Passed(p)
  PROVE  Passed(p)'
BY DEF Passed

LEMMA CandidateMovesOn ==
  ASSUME TypeOK, NEW p \in Problems, Candidate(p)
  PROVE  tickets[p].stage < Closed /\ (tickets[p].stage = Released => Passed(p))
<1>1. tickets[p].stage \in Stages
  BY Columns
<1>2. tickets[p].stage < Closed
  BY <1>1 DEF Candidate, Stages
<1>3. ASSUME tickets[p].stage = Released
      PROVE  Passed(p)
  <2>1. Evidence(p, Verified)
    BY <1>3 DEF Candidate, Qualified
  <2>2. PassedForRevision(p)
    BY <2>1 DEF Evidence
  <2>3. QED
    BY <2>2, RevisionPassed
<1>4. QED
  BY <1>2, <1>3

\* A tick's choice is made in one step, or was there and is untouched.
LEMMA TickStep ==
  ASSUME [Next]_vars, tick' # NoProblem
  PROVE  \/ tick' = tick
         \/ \E p \in Problems : Candidate(p) /\ tick' = p /\ UNCHANGED <<tickets, verifications>>
<1>1. ASSUME NEW p \in Problems, TickReads(p) \/ TickMoves(p) \/ TickFails(p)
      PROVE  Candidate(p) /\ tick' = p /\ UNCHANGED <<tickets, verifications>>
  BY <1>1 DEF TickReads, TickMoves, TickFails
<1>2. RestEnds \/ UNCHANGED vars => tick' = tick
  BY DEF RestEnds, vars
<1>3. ASSUME NEW p \in Problems, EvidenceStep(p) \/ PersonStep(p)
      PROVE  tick' = tick
  BY <1>3 DEF EvidenceStep, PersonStep, ApproveImplementationRun, RunPublishes, MergeRecorded, MergedEvent,
     RecordGithubDeploymentStatus, RecordReleaseVerification, SaveEngineeringSpecification,
     WorkGoesOn, TransitionProblemStage, DecideAction, AdvanceLifecycle
<1>4. ASSUME NEW j \in Jobs, NEW v \in Verdicts, CompletePostReleaseVerification(j, v)
      PROVE  tick' = tick
  BY <1>4 DEF CompletePostReleaseVerification
<1>5. QED
  BY <1>1, <1>2, <1>3, <1>4 DEF Next, CoordinatorStep

LEMMA TickStaysRight ==
  ASSUME TypeInv, [Next]_vars
  PROVE  TickInv'
<1> SUFFICES ASSUME tick' # NoProblem
             PROVE  /\ tickets'[tick'].stage < Closed
                    /\ tickets'[tick'].stage = Released => Passed(tick)'
  BY DEF TickInv
<1>1. TypeOK /\ verifications \subseteq verifications' /\ tick' \in Problems
  BY StepTyped DEF TypeInv, TypeOK
<1>2. ASSUME NEW p \in Problems, Candidate(p), tick' = p, UNCHANGED <<tickets, verifications>>
      PROVE  /\ tickets'[tick'].stage < Closed
             /\ tickets'[tick'].stage = Released => Passed(tick)'
  <2>1. tickets[p].stage < Closed /\ (tickets[p].stage = Released => Passed(p)')
    BY <1>1, <1>2, CandidateMovesOn, PassedStays
  <2>2. QED
    BY <1>2, <2>1 DEF Passed
<1>3. CASE tick' = tick
  <2>1. PICK q \in Problems : q = tick
    BY <1>1, <1>3
  <2>2. tickets[q].stage < Closed /\ (tickets[q].stage = Released => Passed(q)')
    BY <1>1, <1>3, <2>1, PassedStays DEF TypeInv, TickInv, Passed
  <2>3. ASSUME NEW p \in Problems, NEW stage \in Stages, NEW state \in States, NEW r \in Revisions,
               WritesTicket(p, stage, state, r)
        PROVE  tickets'[q].stage = tickets[q].stage
    BY <1>1, <1>3, <2>1, <2>3, TicketWritten DEF WritesTicket, TypeOK
  <2>4. tickets'[q].stage = tickets[q].stage
    BY <2>3, StepWrites
  <2>5. QED
    BY <1>3, <2>1, <2>2, <2>4 DEF Passed
<1>4. QED
  BY <1>2, <1>3, TickStep

LEMMA VerifiedStaysEvidenced ==
  ASSUME IInv, [Next]_vars
  PROVE  VerifiedIsEvidenced'
<1> SUFFICES ASSUME NEW q \in Problems, tickets'[q].state = "Verified"
             PROVE  Passed(q)'
  BY DEF VerifiedIsEvidenced, Passed
<1>1. TypeInv /\ TypeOK /\ verifications \subseteq verifications'
  BY StepTyped DEF IInv, TypeInv
<1>2. tickets[q].state = "Verified" => Passed(q)'
  BY <1>1, PassedStays DEF IInv, VerifiedIsEvidenced, Passed
<1>3. ASSUME NEW p \in Problems, NEW stage \in Stages, NEW state \in States, NEW r \in Revisions,
             WritesTicket(p, stage, state, r)
      PROVE  Passed(q)'
  <2>1. CASE p = q
    <3>1. tickets'[q].state = state
      BY <1>1, <1>3, <2>1, TicketWritten DEF WritesTicket, TypeOK
    <3>2. QED
      BY <1>2, <1>3, <2>1, <3>1 DEF WritesTicket
  <2>2. CASE p # q
    BY <1>1, <1>2, <1>3, <2>2 DEF WritesTicket, TypeOK
  <2>3. QED
    BY <2>1, <2>2
<1>4. QED
  BY <1>1, <1>2, <1>3, StepWrites

LEMMA InitHolds ==
  ASSUME Init
  PROVE  IInv
<1>1. Ticket(Detected, "In development", 1) \in Tickets /\ Ticket(Detected, "In development", 1).state = "In development"
  <2>1. Detected \in Stages
    BY DEF Stages
  <2>2. "In development" \in States
    BY DEF States
  <2>3. QED
    BY <2>1, <2>2, TicketWritten, BoundFacts DEF Ticket
<1>2. Pull(None, FALSE, {}) \in Pulls
  BY PullWritten
<1>3. Job("None", NoProblem, None) \in JobRows /\ Job("None", NoProblem, None).status = "None"
  BY JobWritten DEF Job
<1>4. TypeOK
  BY <1>1, <1>2, <1>3 DEF Init, TypeOK, Facts
<1>5. JobsInv /\ TickInv /\ VerifiedIsEvidenced
  BY <1>1, <1>3 DEF Init, JobsInv, TickInv, VerifiedIsEvidenced
<1>6. QED
  BY <1>4, <1>5 DEF IInv, TypeInv

LEMMA InductiveStep ==
  ASSUME IInv, [Next]_vars
  PROVE  IInv'
BY StepTyped, TickStaysRight, VerifiedStaysEvidenced DEF IInv, TypeInv

LEMMA InductiveInvariant == Spec => []IInv
<1>1. Init => IInv
  BY InitHolds
<1>2. IInv /\ [Next]_vars => IInv'
  BY InductiveStep
<1>3. QED
  BY <1>1, <1>2, PTL DEF Spec

\* The rows keep their types.
THEOREM TypeCorrect == Spec => []TypeOK
<1>1. IInv => TypeOK
  BY DEF IInv, TypeInv
<1>2. QED
  BY <1>1, InductiveInvariant, PTL

\* A Verified ticket has a passing verification of its problem, whoever writes
\* the state: a tick, an event, a verdict, an edit or a person.
THEOREM VerifiedTicketsAreEvidenced == Spec => []VerifiedIsEvidenced
<1>1. IInv => VerifiedIsEvidenced
  BY DEF IInv
<1>2. QED
  BY <1>1, InductiveInvariant, PTL

\* No step but a person's choice of a stage, or decision on the external
\* action, lowers the stage of a ticket.
THEOREM OnlyPeopleMoveTicketsBack == Spec => OnlyPeopleMoveBack
<1>1. ASSUME IInv, [Next]_vars, NEW q \in Problems, tickets'[q].stage < tickets[q].stage
      PROVE  \/ TransitionProblemStage(q, tickets'[q].stage)
             \/ \E approve \in BOOLEAN : DecideAction(q, approve)
  <2>1. TypeInv /\ TypeOK /\ tickets[q].stage \in Stages
    BY <1>1, Columns DEF IInv, TypeInv
  <2>2. tickets'[q] # tickets[q]
    BY <1>1, <2>1 DEF Stages
  <2>3. PICK p \in Problems, stage \in Stages, state \in States, r \in Revisions :
          WritesTicket(p, stage, state, r)
    BY <1>1, <2>1, <2>2, StepWrites
  <2>4. p = q
    BY <2>1, <2>2, <2>3 DEF WritesTicket, TypeOK
  <2>5. tickets'[q].stage = stage
    BY <2>1, <2>3, <2>4, TicketWritten DEF WritesTicket, TypeOK
  <2>6. ~(stage >= tickets[q].stage)
    BY <1>1, <2>1, <2>5 DEF Stages
  <2>7. QED
    BY <2>3, <2>4, <2>5, <2>6 DEF WritesTicket
<1>2. IInv /\ [Next]_vars =>
        [\A p \in Problems : tickets'[p].stage < tickets[p].stage =>
           \/ TransitionProblemStage(p, tickets'[p].stage)
           \/ \E approve \in BOOLEAN : DecideAction(p, approve)]_vars
  BY <1>1
<1>3. QED
  BY <1>2, InductiveInvariant, PTL DEF Spec, OnlyPeopleMoveBack
=============================================================================
