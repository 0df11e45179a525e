------------------------ MODULE ConnectSessionProofs ------------------------
(***************************************************************************)
(* Theorems about ConnectSession, for any foreign streams.  The invariant  *)
(* they rest on is FlagInv: the flag that the tasks share says, in every   *)
(* state, what no step of the loop can see by itself.                      *)
(***************************************************************************)
EXTENDS ConnectSession, TLAPS

\* A stream has a task only once the loop has accepted it, and only a VERIFY
\* task comes to the phases that end in a store.
PhaseInv ==
  \A s \in Streams : /\ task[s] # "none" => s \in opened \ incoming
                     /\ task[s] \in {"closing", "ran"} => s \in Verify

\* The flag is set exactly when a VERIFY task has run to its end.
FlagInv == verified <=> \E s \in Verify : task[s] = "done"

IInv == TypeOK /\ PhaseInv /\ FlagInv

LEMMA InitInv == Init => IInv
  BY DEF Init, IInv, TypeOK, PhaseInv, FlagInv, Verify, Streams

LEMMA TypeStep == IInv /\ [Next]_vars => TypeOK'
<1> SUFFICES ASSUME IInv, [Next]_vars PROVE TypeOK'
  OBVIOUS
<1> USE DEF IInv, TypeOK, PhaseInv, Streams
<1>1. ASSUME NEW s \in Streams, OpenStream(s) PROVE TypeOK'
  BY <1>1 DEF OpenStream
<1>2. ASSUME NEW s \in Streams, WritePreamble(s) PROVE TypeOK'
  BY <1>2 DEF WritePreamble
<1>3. ASSUME NEW s \in Streams, Accept(s) PROVE TypeOK'
  BY <1>3 DEF Accept, Becomes
<1>4. ASSUME NEW s \in Streams, ReadPreamble(s) PROVE TypeOK'
  BY <1>4 DEF ReadPreamble, Becomes
<1>5. ASSUME NEW s \in Streams, NotarizeFails(s) \/ CloseStream(s) PROVE TypeOK'
  BY <1>5 DEF NotarizeFails, CloseStream, Becomes
<1>6. ASSUME NEW s \in Streams, StoreVerified(s) PROVE TypeOK'
  BY <1>6 DEF StoreVerified, Becomes
<1>7. ASSUME Told \/ Fails \/ GivesUp \/ CloseSession \/ Lose
             \/ BankAnswers \/ BankEnds \/ AcceptEnds
      PROVE  TypeOK'
  BY <1>7 DEF Told, Fails, GivesUp, CloseSession, Lose, BankAnswers, BankEnds, AcceptEnds
<1>8. ASSUME Judge \/ ProxyEnds PROVE TypeOK'
  BY <1>8 DEF Judge, ProxyEnds, Becomes
<1>9. ASSUME Settled \/ UNCHANGED vars PROVE TypeOK'
  BY <1>9 DEF Settled, vars
<1> QED
  BY <1>1, <1>2, <1>3, <1>4, <1>5, <1>6, <1>7, <1>8, <1>9 DEF Next

LEMMA PhaseStep == IInv /\ [Next]_vars => PhaseInv'
<1> SUFFICES ASSUME IInv, [Next]_vars PROVE PhaseInv'
  OBVIOUS
<1> USE DEF IInv, TypeOK, PhaseInv, Verify, Streams
<1>1. ASSUME NEW s \in Streams, OpenStream(s) PROVE PhaseInv'
  BY <1>1 DEF OpenStream
<1>2. ASSUME NEW s \in Streams, WritePreamble(s) PROVE PhaseInv'
  BY <1>2 DEF WritePreamble
<1>3. ASSUME NEW s \in Streams, Accept(s) PROVE PhaseInv'
  BY <1>3 DEF Accept, Becomes
<1>4. ASSUME NEW s \in Streams, ReadPreamble(s) PROVE PhaseInv'
  BY <1>4 DEF ReadPreamble, Becomes
<1>5. ASSUME NEW s \in Streams, NotarizeFails(s) \/ CloseStream(s) PROVE PhaseInv'
  BY <1>5 DEF NotarizeFails, CloseStream, Becomes
<1>6. ASSUME NEW s \in Streams, StoreVerified(s) PROVE PhaseInv'
  BY <1>6 DEF StoreVerified, Becomes
<1>7. ASSUME Told \/ Fails \/ GivesUp \/ CloseSession \/ Lose
             \/ BankAnswers \/ BankEnds \/ AcceptEnds
      PROVE  PhaseInv'
  BY <1>7 DEF Told, Fails, GivesUp, CloseSession, Lose, BankAnswers, BankEnds, AcceptEnds
<1>8. ASSUME Judge \/ ProxyEnds PROVE PhaseInv'
  BY <1>8 DEF Judge, ProxyEnds, Becomes
<1>9. ASSUME Settled \/ UNCHANGED vars PROVE PhaseInv'
  BY <1>9 DEF Settled, vars
<1> QED
  BY <1>1, <1>2, <1>3, <1>4, <1>5, <1>6, <1>7, <1>8, <1>9 DEF Next

\* A step that stores nothing, and ends no VERIFY task, leaves the flag right.
LEMMA FlagKept ==
  ASSUME FlagInv, verified' = verified,
         \A s \in Verify : task'[s] = "done" <=> task[s] = "done"
  PROVE  FlagInv'
  BY Zenon DEF FlagInv

LEMMA FlagStep == IInv /\ [Next]_vars => FlagInv'
<1> SUFFICES ASSUME IInv, [Next]_vars PROVE FlagInv'
  OBVIOUS
<1> DEFINE Kept == \A s \in Verify : task'[s] = "done" <=> task[s] = "done"
<1>t. /\ task \in [Streams -> {"none", "preamble", "serving", "closing", "ran", "done", "refused"}]
      /\ \A s \in incoming : task[s] = "none"
      /\ Verify \subseteq Streams /\ "CONNECT" \in Streams /\ "CONNECT" \notin Verify
      /\ "VERIFY" \in Verify /\ FlagInv
  BY DEF IInv, TypeOK, Streams, Verify
<1>1. ASSUME NEW s \in Streams, OpenStream(s) \/ WritePreamble(s) PROVE FlagInv'
  BY <1>1, <1>t, FlagKept DEF OpenStream, WritePreamble
<1>3. ASSUME NEW s \in Streams, Accept(s) PROVE FlagInv'
  <2>1. Kept
    BY <1>3, <1>t DEF Accept, Becomes
  <2> QED
    BY <1>3, <1>t, <2>1, FlagKept DEF Accept
<1>4. ASSUME NEW s \in Streams, ReadPreamble(s) PROVE FlagInv'
  <2>1. Kept
    BY <1>4, <1>t DEF ReadPreamble, Becomes
  <2> QED
    BY <1>4, <1>t, <2>1, FlagKept DEF ReadPreamble
<1>5. ASSUME NEW s \in Streams, NotarizeFails(s) \/ CloseStream(s) PROVE FlagInv'
  <2>1. Kept
    BY <1>5, <1>t DEF NotarizeFails, CloseStream, Becomes
  <2> QED
    BY <1>5, <1>t, <2>1, FlagKept DEF NotarizeFails, CloseStream
<1>6. ASSUME NEW s \in Streams, StoreVerified(s) PROVE FlagInv'
  <2>1. s \in Verify /\ task'[s] = "done" /\ verified' = TRUE
    BY <1>6, <1>t DEF StoreVerified, Becomes, IInv, PhaseInv
  <2> QED
    BY <2>1 DEF FlagInv
<1>7. ASSUME Told \/ Fails \/ GivesUp \/ CloseSession \/ Lose
             \/ BankAnswers \/ BankEnds \/ AcceptEnds
      PROVE  FlagInv'
  BY <1>7, <1>t, FlagKept DEF Told, Fails, GivesUp, CloseSession, Lose, BankAnswers, BankEnds, AcceptEnds
<1>8. ASSUME Judge \/ ProxyEnds PROVE FlagInv'
  <2>1. Kept /\ verified' = verified
    BY <1>8, <1>t DEF Judge, ProxyEnds, Becomes
  <2> QED
    BY <1>t, <2>1, FlagKept
<1>9. ASSUME Settled \/ UNCHANGED vars PROVE FlagInv'
  BY <1>9, <1>t, FlagKept DEF Settled, vars
<1> QED
  BY <1>1, <1>3, <1>4, <1>5, <1>6, <1>7, <1>8, <1>9 DEF Next

LEMMA Inductive == Spec => []IInv
<1>1. IInv /\ [Next]_vars => IInv'
  BY TypeStep, PhaseStep, FlagStep DEF IInv
<1> QED
  BY InitInv, <1>1, PTL DEF Spec

\* Every state of a session is typed, and no stream that waits to be accepted has a
\* task (the match of handle takes each stream once).
THEOREM SessionTyped == Spec => []TypeOK
<1>1. IInv => TypeOK
  BY DEF IInv
<1> QED
  BY Inductive, <1>1, PTL

\* handle returns Ok of a session that was lost only if a notarization has run in it.
THEOREM LossReported == Spec => LossIsReported
<1>1. IInv /\ [Next]_vars =>
        [(loop = "accepting" /\ loop' = "ok") =>
           session = "closed" \/ \E s \in Verify : task[s] = "done"]_vars
  <2> SUFFICES ASSUME IInv, Next, loop = "accepting", loop' = "ok"
               PROVE  session = "closed" \/ \E s \in Verify : task[s] = "done"
    BY DEF vars
  <2>1. AcceptEnds
    BY DEF Next, OpenStream, WritePreamble, Accept, ReadPreamble, NotarizeFails, CloseStream,
           StoreVerified, Told, Fails, GivesUp, CloseSession, Lose, BankAnswers, BankEnds,
           Judge, ProxyEnds, Settled, vars
  <2> QED
    BY <2>1 DEF AcceptEnds, IInv, FlagInv
<1> QED
  BY Inductive, <1>1, PTL DEF Spec, LossIsReported

\* handle returns an error only of a session in which no notarization has run.
THEOREM RunNoFailure == Spec => RunIsNoFailure
<1>1. IInv /\ [Next]_vars =>
        [(loop = "accepting" /\ loop' = "error") => \A s \in Verify : task[s] # "done"]_vars
  <2> SUFFICES ASSUME IInv, Next, loop = "accepting", loop' = "error"
               PROVE  \A s \in Verify : task[s] # "done"
    BY DEF vars
  <2>1. AcceptEnds
    BY DEF Next, OpenStream, WritePreamble, Accept, ReadPreamble, NotarizeFails, CloseStream,
           StoreVerified, Told, Fails, GivesUp, CloseSession, Lose, BankAnswers, BankEnds,
           Judge, ProxyEnds, Settled, vars
  <2> QED
    BY <2>1 DEF AcceptEnds, IInv, FlagInv
<1> QED
  BY Inductive, <1>1, PTL DEF Spec, RunIsNoFailure

=============================================================================
