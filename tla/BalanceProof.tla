---------------------------- MODULE BalanceProof ----------------------------
(***************************************************************************)
(* What one run of the demo promises, with everything but its two ends     *)
(* hidden: the verifier decides at most once, and what the page is told is *)
(* either that decision or an error of the prover's own.  The detailed     *)
(* module Notarization is shown to implement this one.                     *)
(***************************************************************************)

CONSTANTS
  Balances,         \* the disclosed pairs (chf, last_audit)
  VerifierReasons,  \* why post-session validation may refuse a proof
  ProverErrors      \* why a prover may fail on its own

Undecided  == [status |-> "none"]
Success(b) == [status |-> "success", balance |-> b]
Failure(r) == [status |-> "failure", reason |-> r]
Error(r)   == [status |-> "error", reason |-> r]

Verdicts == {Success(b) : b \in Balances} \cup {Failure(r) : r \in VerifierReasons}

VARIABLES
  verdict,   \* what the verifier concluded
  outcome    \* what the prover reports to the page

Init ==
  /\ verdict = Undecided
  /\ outcome = Undecided

Decide ==
  /\ verdict = Undecided
  /\ verdict' \in Verdicts
  /\ UNCHANGED outcome

\* The prover repeats the verifier's decision, and nothing it could have
\* come to believe without it.
Relay ==
  /\ outcome = Undecided
  /\ \/ \E b \in Balances : verdict = Success(b) /\ outcome' = Success(b)
     \/ \E r \in VerifierReasons : verdict = Failure(r) /\ outcome' = Error(r)
  /\ UNCHANGED verdict

GiveUp ==
  /\ outcome = Undecided
  /\ \E r \in ProverErrors : outcome' = Error(r)
  /\ UNCHANGED verdict

Next == Decide \/ Relay \/ GiveUp

Spec == Init /\ [][Next]_<<verdict, outcome>>

=============================================================================
