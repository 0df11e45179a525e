------------------------------- MODULE MCDemo -------------------------------
(* Balances for TLC: 12.345, and an empty string. *)
EXTENDS Demo

MCBalances == {[kind |-> "number", milli |-> 12345], [kind |-> "empty", milli |-> 0]}

=============================================================================
