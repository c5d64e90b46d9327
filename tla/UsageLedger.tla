----------------------------- MODULE UsageLedger -----------------------------
(***************************************************************************)
(* What shadow metering promises of each usage event, whatever the workers *)
(* that deliver it do: an event enters the ledger once, is called Sent     *)
(* only after the provider accepted it, and stays Sent.                    *)
(* Source: docs/billing-shadow-metering.md names the promise; its steps    *)
(* are those of src/src/lib/billing-outbox.ts seen from the ledger.        *)
(***************************************************************************)

CONSTANT Events

VARIABLES ledger,   \* the standing of each event in the ledger
          accepted  \* the events the provider accepted

Standing == {"unknown", "owed", "sent", "failed"}

Init ==
  /\ ledger = [e \in Events |-> "unknown"]
  /\ accepted = {}

Record(e) ==
  /\ ledger[e] = "unknown"
  /\ ledger' = [ledger EXCEPT ![e] = "owed"]
  /\ UNCHANGED accepted

\* The provider may accept an event again, and may accept one that the
\* ledger gave up; it keeps one event per id.
Accept(e) ==
  /\ ledger[e] # "unknown"
  /\ accepted' = accepted \cup {e}
  /\ UNCHANGED ledger

Settle(e) ==
  /\ ledger[e] = "owed" /\ e \in accepted
  /\ ledger' = [ledger EXCEPT ![e] = "sent"]
  /\ UNCHANGED accepted

GiveUp(e) ==
  /\ ledger[e] = "owed"
  /\ ledger' = [ledger EXCEPT ![e] = "failed"]
  /\ UNCHANGED accepted

\* An administrator requeues every failed event at once.
Requeue ==
  /\ ledger' = [e \in Events |-> IF ledger[e] = "failed" THEN "owed" ELSE ledger[e]]
  /\ UNCHANGED accepted

Next ==
  \/ \E e \in Events : Record(e) \/ Accept(e) \/ Settle(e) \/ GiveUp(e)
  \/ Requeue

Spec == Init /\ [][Next]_<<ledger, accepted>>
=============================================================================
