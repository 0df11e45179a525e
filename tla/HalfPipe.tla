------------------------------ MODULE HalfPipe ------------------------------
(***************************************************************************)
(* One direction of a byte pipe that may break but never lies: what comes  *)
(* out is what went in, in order, and the end comes out only after         *)
(* everything that went in before it.  Bytes are their positions.          *)
(***************************************************************************)
EXTENDS Integers, Sequences

VARIABLES
  sent,       \* how many bytes went in
  finished,   \* the source has said that there are no more
  received,   \* the bytes that came out
  ended       \* the end has come out

Init ==
  /\ sent = 0 /\ finished = FALSE
  /\ received = <<>> /\ ended = FALSE

Send ==
  /\ ~finished
  /\ sent' = sent + 1
  /\ UNCHANGED <<finished, received, ended>>

Finish ==
  /\ ~finished
  /\ finished' = TRUE
  /\ UNCHANGED <<sent, received, ended>>

\* Bytes come out in batches.
Deliver ==
  /\ ~ended
  /\ \E n \in 1..(sent - Len(received)) :
       received' = received \o [i \in 1..n |-> Len(received) + i]
  /\ UNCHANGED <<sent, finished, ended>>

End ==
  /\ finished /\ Len(received) = sent /\ ~ended
  /\ ended' = TRUE
  /\ UNCHANGED <<sent, finished, received>>

Spec == Init /\ [][Send \/ Finish \/ Deliver \/ End]_<<sent, finished, received, ended>>

=============================================================================
