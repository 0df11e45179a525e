--------------------------- MODULE MCNotarization ---------------------------
(* Every request a prover can make around the limits, for TLC. *)
EXTENDS Notarization

CONSTANTS b1, b2

MCBalances == {b1, b2}
MCMaxSent == 1
MCMaxRecv == 2

MCProverInputs ==
  [mpc : BOOLEAN, maxSent : {1, 2}, maxRecv : {2, 3}, identity : BOOLEAN,
   reveal : BOOLEAN, server : Hosts, trusted : BOOLEAN]

=============================================================================
