------------------------- MODULE NotarizationProofs -------------------------
(***************************************************************************)
(* Theorems about Notarization, for every set of balances, every limit and *)
(* every set of provers.                                                   *)
(***************************************************************************)
EXTENDS Notarization, TLAPS

\* The verdict exists exactly from Judge on, unless the task died after it.
VerdictStage ==
  /\ vpc \in {"frameLen", "framePayload", "closeIo", "end"} => verdict \in Verdicts
  /\ vpc \in {"preamble", "commit", "run", "verify", "proof", "socket"} => verdict = Undecided

Typing == TypeOK /\ VerdictStage

\* Appending an item to a wire, taking one off, and looking at the next.
LEMMA WireTyping ==
  ASSUME NEW w \in [Parties -> Seq(Items)], NEW x \in Parties, NEW i \in Items
  PROVE  /\ [w EXCEPT ![x] = Append(@, i)] \in [Parties -> Seq(Items)]
         /\ w[x] # <<>> => [w EXCEPT ![x] = Tail(@)] \in [Parties -> Seq(Items)]
         /\ w[x] # <<>> => Head(w[x]) \in Items
OBVIOUS

\* Every frame the code sends is an item.
LEMMA ItemTyping ==
  /\ \A k \in MuxKinds : Mux(k) \in Items
  /\ Preamble \in Items /\ FrameLen \in Items /\ Fin \in Items
  /\ \A v \in Verdicts : Payload(v) \in Items
BY DEF Items, RawItems

\* The bank's answer carries a balance when its layout is readable.
LEMMA ReadableIsResponse ==
  ASSUME bank \in Responses \cup {Dialing, Gone}, bank.layout = "readable"
  PROVE  bank \in Responses /\ bank.balance \in Balances
BY DEF Responses, Dialing, Gone

\* verify_balance's validation gives one of the outcomes the frame can carry.
LEMMA ValidationTyping ==
  ASSUME NEW i, bank \in Responses \cup {Dialing, Gone}
  PROVE  Validation(i, bank) \in Verdicts
<1> DEFINE V == Validation(i, bank)
<1>1. \A r \in VerifierReasons : Failure(r) \in Verdicts
  BY DEF Verdicts
<1>2. \A b \in Balances : Success(b) \in Verdicts
  BY DEF Verdicts
<1>3. bank.layout = "readable" => Success(bank.balance) \in Verdicts
  BY <1>2, ReadableIsResponse
<1>4. \/ V \in {Failure(r) : r \in VerifierReasons}
      \/ V = Success(bank.balance) /\ bank.layout = "readable"
  BY DEF Validation, VerifierReasons
<1>5. QED
  BY <1>1, <1>3, <1>4

\* The only item with a payload is an outcome frame.
LEMMA PayloadTyping ==
  ASSUME NEW i \in Items, i.kind = "payload"
  PROVE  \E v \in Verdicts : i = Payload(v) /\ i.outcome = v
BY DEF Items, RawItems, Mux, MuxKinds, Preamble, FrameLen, Fin, Payload

\* What the worker may post to the page.
LEMMA OutcomeTyping ==
  /\ \A r \in VerifierReasons \cup ProverErrors : Error(r) \in Outcomes
  /\ \A b \in Balances : Success(b) \in Outcomes
BY DEF Outcomes

\* What the prover makes of a verdict it has read.
LEMMA RelayTyping ==
  ASSUME NEW v \in Verdicts
  PROVE  (IF v.status = "success" THEN v ELSE Error(v.reason)) \in Outcomes
<1>1. CASE \E b \in Balances : v = Success(b)
  BY <1>1, OutcomeTyping DEF Success
<1>2. CASE \E r \in VerifierReasons : v = Failure(r)
  BY <1>2, OutcomeTyping DEF Failure
<1>3. QED
  BY <1>1, <1>2 DEF Verdicts

\* A write on the stream keeps the wires typed ...
LEMMA PutTyping ==
  ASSUME wire \in [Parties -> Seq(Items)], NEW x \in Parties, NEW i \in Items, Put(x, i)
  PROVE  wire' \in [Parties -> Seq(Items)]
BY DEF Put

\* ... so does a frame of the multiplexer ...
LEMMA SendTyping ==
  ASSUME wire \in [Parties -> Seq(Items)], NEW x \in Parties, NEW k \in MuxKinds, Send(x, k)
  PROVE  wire' \in [Parties -> Seq(Items)]
BY ItemTyping, PutTyping DEF Send, Peer, Parties

\* ... and a read.
LEMMA TakeTyping ==
  ASSUME wire \in [Parties -> Seq(Items)], NEW x \in Parties, wire[x] # <<>>, Take(x)
  PROVE  wire' \in [Parties -> Seq(Items)]
BY DEF Take

\* A verifier that returns early puts at most a refusal and an end on the wire.
LEMMA VerifierFailsTyping ==
  ASSUME wire \in [Parties -> Seq(Items)], NEW k \in MuxKinds, VerifierFails(k)
  PROVE  wire' \in [Parties -> Seq(Items)]
<1>1. Mux(k) \in Items /\ Fin \in Items /\ "prover" \in Parties
  BY ItemTyping DEF Parties
<1>2. CASE drv["verifier"] = "running"
  <2>1. wire' = [wire EXCEPT !["prover"] = Append(@, Mux(k))]
    BY <1>2 DEF VerifierFails
  <2>2. QED
    BY <1>1, <2>1, WireTyping
<1>3. CASE drv["verifier"] = "done"
  <2>1. wire' = [wire EXCEPT !["prover"] = Append(@, Fin)]
    BY <1>3 DEF VerifierFails
  <2>2. QED
    BY <1>1, <2>1, WireTyping
<1>4. CASE drv["verifier"] \notin {"running", "done"}
  BY <1>4 DEF VerifierFails
<1>5. QED
  BY <1>2, <1>3, <1>4

\* The reasons and frames each action names.
LEMMA Names ==
  /\ {"transport", "rejected", "http", "tls", "config", "eof"} \subseteq ProverErrors
  /\ {"commit", "acceptCommit", "reject", "eof", "tls", "tlsDone", "prove", "acceptProve",
      "proof", "muxClose"} \subseteq MuxKinds
BY DEF ProverErrors, MuxKinds

\* What the typing of one step rests on.
LEMMA TypingStep ==
  ASSUME Typing, NotarizationAssumption, [Next]_vars
  PROVE  Typing'
<1> USE DEF Typing, TypeOK, VerdictStage, proverVars, verifierVars, environment,
            WorkerStates, VerifierStates, DriverStates, Futures, FutureStates
<1>1. CASE SessionReady
  BY <1>1, OutcomeTyping, Names DEF SessionReady, ProverFails, ProverGoes, streamVars
<1>2. CASE WriteVerifyPreamble
  BY <1>2, WireTyping, ItemTyping DEF WriteVerifyPreamble, ProverGoes, Put, Parties
<1>3. CASE WriteConnectPreamble
  BY <1>3, WireTyping, ItemTyping DEF WriteConnectPreamble, ProverGoes, streamVars
<1>4. CASE SetupAndConnect
  BY <1>4, WireTyping, ItemTyping DEF SetupAndConnect, ProverGoes, Put, Parties, MuxKinds
<1>5. CASE CommitAccepted
  BY <1>5, WireTyping, ItemTyping DEF CommitAccepted, ProverGoes, streamVars
<1>6. CASE CommitOrProveRefused
  BY <1>6, OutcomeTyping, Names DEF CommitOrProveRefused, ProverFails, ProverGoes, streamVars
<1>7. CASE RequestTask
  BY <1>7, WireTyping, ItemTyping DEF RequestTask, Resolve
<1>8. CASE ConnectionTask
  BY <1>8, WireTyping, ItemTyping DEF ConnectionTask, Resolve
<1>9. CASE ProverFuture
  <2>1. CASE fut["prover"] = "pending" /\ Send("prover", "tls") /\ Resolve("prover", "finalizing")
    BY <2>1, SendTyping, Names DEF Resolve, Parties
  <2>2. CASE Resolve("prover", "ok") /\ UNCHANGED wire
    BY <2>2 DEF Resolve
  <2>3. CASE Resolve("prover", "err") /\ UNCHANGED wire
    BY <2>3 DEF Resolve
  <2>4. QED
    BY <1>9, <2>1, <2>2, <2>3 DEF ProverFuture
<1>10. CASE JoinExchange
  BY <1>10, OutcomeTyping, Names DEF JoinExchange, ProverFails, ProverGoes, streamVars
<1>11. CASE BuildProveConfig
  BY <1>11, SendTyping, OutcomeTyping, Names DEF BuildProveConfig, ProverGoes, ProverFails, Parties
<1>12. CASE ProveAccepted
  BY <1>12, WireTyping, ItemTyping DEF ProveAccepted, ProverGoes, streamVars
<1>13. CASE ProofSent
  BY <1>13, WireTyping, ItemTyping DEF ProofSent, ProverGoes, Send, Put, Parties, Peer, MuxKinds
<1>14. CASE SocketRecovered
  BY <1>14, WireTyping, ItemTyping DEF SocketRecovered, ProverGoes, streamVars
<1>15. CASE ReadFrameLen
  BY <1>15, WireTyping, ItemTyping DEF ReadFrameLen, ProverGoes, Take, NextIs, Parties
<1>16. CASE ReadFramePayload
  <2> DEFINE v == Head(wire["prover"]).outcome
  <2>1. wire["prover"] # <<>> /\ Head(wire["prover"]).kind = "payload"
    BY <1>16 DEF ReadFramePayload, NextIs
  <2>2. v \in Verdicts
    BY <2>1, WireTyping, PayloadTyping DEF Parties
  <2>3. outcome' \in Outcomes
    BY <1>16, <2>2, RelayTyping DEF ReadFramePayload
  <2>4. wire' \in [Parties -> Seq(Items)]
    BY <1>16, <2>1, TakeTyping DEF ReadFramePayload, Parties
  <2>5. QED
    BY <1>16, <2>3, <2>4 DEF ReadFramePayload
<1>17. CASE FrameCutShort
  BY <1>17, OutcomeTyping, Names DEF FrameCutShort, ProverFails, ProverGoes, streamVars
<1>18. CASE ProverBroken
  BY <1>18, OutcomeTyping, Names DEF ProverBroken, ProverFails, ProverGoes, streamVars
<1>19. CASE CloseSession
  BY <1>19, WireTyping, ItemTyping DEF CloseSession, streamVars
<1>20. CASE HeapExhausted
  BY <1>20, WireTyping, ItemTyping DEF HeapExhausted, ProverGoes, streamVars
<1>21. CASE ReadPreamble
  BY <1>21, WireTyping, ItemTyping DEF ReadPreamble, VerifierGoes, Take, NextIs, Parties
<1>22. CASE AnswerCommit
  BY <1>22, SendTyping, VerifierFailsTyping, Names DEF AnswerCommit, VerifierGoes, VerifierFails, Parties, streamVars
<1>23. CASE RunMpc
  BY <1>23, WireTyping, ItemTyping DEF RunMpc, VerifierGoes, Send, Put, Parties, Peer, MuxKinds
<1>24. CASE AnswerProve
  BY <1>24, SendTyping, VerifierFailsTyping, Names DEF AnswerProve, VerifierGoes, VerifierFails, Parties, streamVars
<1>25. CASE CheckProof
  BY <1>25, SendTyping, VerifierFailsTyping, Names DEF CheckProof, VerifierGoes, VerifierFails, Parties, streamVars
<1>26. CASE Judge
  BY <1>26, ValidationTyping DEF Judge, streamVars
<1>27. CASE WriteFrame
  <2>1. vpc = "framePayload" => Payload(verdict) \in Items
    BY ItemTyping
  <2>2. wire' \in [Parties -> Seq(Items)]
    BY <1>27, <2>1, PutTyping, ItemTyping DEF WriteFrame, Parties
  <2>3. QED
    BY <1>27, <2>2 DEF WriteFrame, VerifierGoes
<1>28. CASE VerifierBroken
  BY <1>28, WireTyping, ItemTyping DEF VerifierBroken, VerifierGoes, streamVars
<1>29. CASE BankAnswers
  BY <1>29, WireTyping, ItemTyping DEF BankAnswers, streamVars
<1>30. CASE BankGone
  BY <1>30, WireTyping, ItemTyping DEF BankGone, streamVars
<1>31. CASE TransportLost
  BY <1>31, WireTyping, ItemTyping DEF TransportLost, streamVars
<1>32. CASE Terminated
  BY <1>32, WireTyping, ItemTyping DEF Terminated, vars
<1>33. ASSUME NEW x \in Parties, Driver(x)
      PROVE  Typing'
  <2>1. CASE DriverReceives(x)
    BY <2>1, TakeTyping, WireTyping DEF DriverReceives
  <2>2. CASE DriverCloses(x)
    BY <2>2, PutTyping, ItemTyping, Names DEF DriverCloses, Peer, Parties
  <2>3. CASE DriverReturns(x)
    BY <2>3, PutTyping, ItemTyping DEF DriverReturns, Parties
  <2>4. CASE DriverBreaks(x)
    BY <2>4 DEF DriverBreaks
  <2>5. QED
    BY <1>33, <2>1, <2>2, <2>3, <2>4 DEF Driver
<1>34. CASE UNCHANGED vars
  BY <1>34 DEF vars
<1>35. QED
  BY <1>1, <1>2, <1>3, <1>4, <1>5, <1>6, <1>7, <1>8, <1>9, <1>10, <1>11, <1>12, <1>13,
     <1>14, <1>15, <1>16, <1>17, <1>18, <1>19, <1>20, <1>21, <1>22, <1>23, <1>24, <1>25,
     <1>26, <1>27, <1>28, <1>29, <1>30, <1>31, <1>32, <1>33, <1>34
     DEF Next, Worker, Verifier

\* The typing invariant holds before the session is ready.
LEMMA TypingInit ==
  ASSUME Init, NotarizationAssumption
  PROVE  Typing
BY DEF Init, Typing, TypeOK, VerdictStage, WorkerStates, VerifierStates, DriverStates,
       Futures, FutureStates, Parties

\* Every value stays in its set, and the verdict appears with Judge only.
THEOREM TypeCorrect == Spec => []TypeOK
<1>1. Init => Typing
  BY TypingInit, NotarizationAssumption
<1>2. Typing /\ [Next]_vars => Typing'
  BY TypingStep, NotarizationAssumption
<1>3. Typing => TypeOK
  BY DEF Typing
<1>4. QED
  BY <1>1, <1>2, <1>3, PTL DEF Spec

\* Types and the stage of the verdict are invariant.
LEMMA TypingAlways == Spec => []Typing
<1>1. Init => Typing
  BY TypingInit, NotarizationAssumption
<1>2. Typing /\ [Next]_vars => Typing'
  BY TypingStep, NotarizationAssumption
<1>3. QED
  BY <1>1, <1>2, PTL DEF Spec

-----------------------------------------------------------------------------
\* What each actor leaves alone.

\* The worker does not touch the bank's answer or the verifier.
LEMMA WorkerFrame ==
  ASSUME Worker \/ HeapExhausted
  PROVE  UNCHANGED <<inputs, bank, vpc, verdict>>
BY DEF Worker, HeapExhausted, SessionReady, WriteVerifyPreamble, WriteConnectPreamble,
       SetupAndConnect, CommitAccepted, CommitOrProveRefused, RequestTask, ConnectionTask,
       ProverFuture, JoinExchange, BuildProveConfig, ProveAccepted, ProofSent, SocketRecovered,
       ReadFrameLen, ReadFramePayload, FrameCutShort, ProverBroken, CloseSession,
       ProverGoes, ProverFails, Resolve, verifierVars

\* The verifier task touches neither the worker nor the session.
LEMMA VerifierFrame ==
  ASSUME Verifier
  PROVE  UNCHANGED <<inputs, transport, bank, wk, fut, outcome>>
BY DEF Verifier, ReadPreamble, AnswerCommit, RunMpc, AnswerProve, CheckProof, Judge, WriteFrame,
       VerifierBroken, VerifierGoes, VerifierFails, environment, proverVars

\* A session driver moves items, and nothing else.
LEMMA DriverFrame ==
  ASSUME NEW x \in Parties, Driver(x)
  PROVE  UNCHANGED <<inputs, transport, bank, wk, fut, outcome, vpc, verdict>>
BY DEF Driver, DriverReceives, DriverCloses, DriverReturns, DriverBreaks, environment,
       proverVars, verifierVars

\* The bank and the network decide nothing for either party.
LEMMA EnvironmentFrame ==
  ASSUME BankAnswers \/ BankGone \/ TransportLost \/ Terminated
  PROVE  /\ UNCHANGED <<inputs, wk, fut, outcome, vpc, verdict, wire, inbox, drv>>
         /\ bank' = bank \/ bank = Dialing
BY DEF BankAnswers, BankGone, TransportLost, Terminated, vars, proverVars, verifierVars, streamVars

-----------------------------------------------------------------------------
\* A success is earned.

\* How far the verifier task has come tells what it has checked.
Checked ==
  /\ vpc \in {"run", "verify", "proof", "socket", "frameLen", "framePayload", "closeIo", "end"} =>
       inputs.mpc /\ protocol_policy(inputs)
  /\ vpc \in {"proof", "socket", "frameLen", "framePayload", "closeIo", "end"} =>
       request_policy(inputs)
  /\ vpc \in {"socket", "frameLen", "framePayload", "closeIo", "end"} => inputs.trusted

\* The same of a verdict, which outlives the task; and what Validation saw of
\* the bank's answer is still there.
Earned ==
  /\ verdict # Undecided =>
       /\ inputs.mpc /\ inputs.trusted
       /\ protocol_policy(inputs) /\ request_policy(inputs)
  /\ verdict.status = "success" =>
       /\ inputs.server = "swissbank.tlsnotary.org"
       /\ bank.layout = "readable" /\ verdict.balance = bank.balance
  /\ PoliciesCoverValidation

\* After request_policy, validation cannot miss the name or the transcript, and
\* it succeeds for the bank's name and a readable answer only.
LEMMA ValidationEarned ==
  ASSUME NEW i, NEW r, request_policy(i)
  PROVE  /\ Validation(i, r) \notin {Failure("missing server_name"), Failure("missing transcript")}
         /\ Validation(i, r).status = "success" =>
              /\ i.server = "swissbank.tlsnotary.org"
              /\ r.layout = "readable" /\ Validation(i, r).balance = r.balance
BY DEF Validation, request_policy, Success, Failure

\* Every step keeps what has been checked so far, and what it earned.
LEMMA EarnedStep ==
  ASSUME Typing, Checked, Earned, [Next]_vars
  PROVE  Checked' /\ Earned'
<1>1. CASE Verifier
  <2>1. UNCHANGED <<inputs, bank>>
    BY <1>1, VerifierFrame
  <2>2. CASE Judge
    <3>1. /\ vpc = "socket" /\ vpc' = "frameLen"
          /\ verdict' = Validation(inputs, bank)
      BY <2>2 DEF Judge
    <3>2. Checked'
      BY <2>1, <3>1 DEF Checked, protocol_policy, request_policy
    <3>3. Earned'
      BY <2>1, <3>1, ValidationEarned DEF Checked, Earned, PoliciesCoverValidation, protocol_policy, request_policy
    <3>4. QED
      BY <3>2, <3>3
  <2>3. CASE ~Judge
    <3>1. UNCHANGED verdict
      BY <1>1, <2>3 DEF Verifier, ReadPreamble, AnswerCommit, RunMpc, AnswerProve, CheckProof,
         WriteFrame, VerifierBroken, VerifierGoes, VerifierFails
    <3>2. Earned'
      BY <2>1, <3>1 DEF Earned, PoliciesCoverValidation, protocol_policy, request_policy
    <3>3. Checked'
      BY <1>1, <2>1, <2>3 DEF Checked, protocol_policy, request_policy, Verifier, ReadPreamble,
         AnswerCommit, RunMpc, AnswerProve, CheckProof, WriteFrame, VerifierBroken,
         VerifierGoes, VerifierFails
    <3>4. QED
      BY <3>2, <3>3
  <2>4. QED
    BY <2>2, <2>3
<1>2. CASE /\ UNCHANGED <<inputs, vpc, verdict>>
           /\ bank' = bank \/ bank = Dialing
  <2>1. bank = Dialing => verdict.status # "success"
    BY DEF Earned, Dialing
  <2>2. QED
    BY <1>2, <2>1 DEF Checked, Earned, PoliciesCoverValidation, protocol_policy, request_policy
<1>3. QED
  BY <1>1, <1>2, WorkerFrame, DriverFrame, EnvironmentFrame DEF Next, vars

\* The fields of the four kinds of result.
LEMMA Statuses ==
  /\ Undecided.status = "none"
  /\ \A b : Success(b).status = "success" /\ Success(b).balance = b
  /\ \A r : Failure(r).status = "failure" /\ Failure(r).reason = r
  /\ \A r : Error(r).status = "error" /\ Error(r).reason = r
BY DEF Undecided, Success, Failure, Error

\* Nothing is checked, and nothing earned, at first.
LEMMA EarnedInit ==
  ASSUME Init
  PROVE  Checked /\ Earned
<1>1. verdict = Undecided /\ vpc = "preamble"
  BY DEF Init
<1>2. Undecided \notin {Failure("missing server_name"), Failure("missing transcript")}
  BY Statuses
<1>3. QED
  BY <1>1, <1>2, Statuses DEF Checked, Earned, PoliciesCoverValidation

\* What the server records as verified met both policies and the validation,
\* and validation never fails on what the policies already demanded.
THEOREM PolicyCovers == Spec => []PoliciesCoverValidation
<1>1. Init => Checked /\ Earned
  BY EarnedInit
<1>2. Typing /\ Checked /\ Earned /\ [Next]_vars => Checked' /\ Earned'
  BY EarnedStep
<1>3. Earned => PoliciesCoverValidation
  BY DEF Earned
<1>4. QED
  BY <1>1, <1>2, <1>3, TypingAlways, PTL DEF Spec

\* The invariant behind PolicyCovers and SuccessEarned.
LEMMA EarnedAlways == Spec => []Earned
<1>1. Init => Checked /\ Earned
  BY EarnedInit
<1>2. Typing /\ Checked /\ Earned /\ [Next]_vars => Checked' /\ Earned'
  BY EarnedStep
<1>3. QED
  BY <1>1, <1>2, TypingAlways, PTL DEF Spec

-----------------------------------------------------------------------------
\* The outcome is the verdict, or the prover's own failure.

\* A payload on its way to the prover is the verdict.
PayloadIsVerdict ==
  \A i \in 1..Len(wire["prover"]) : wire["prover"][i].kind = "payload" =>
    verdict \in Verdicts /\ wire["prover"][i] = Payload(verdict)

\* The worker reports once, on entering its `finally'.
ReportedOnce == wk \notin {"finally", "end"} => outcome = Undecided

Relayed ==
  \/ outcome = Undecided
  \/ outcome \in {Error(r) : r \in ProverErrors}
  \/ verdict \in Verdicts /\ outcome = Told(verdict)

\* How each actor changes the wire to the prover and what its driver has read.

\* The worker takes from its own wire and puts nothing on it.
LEMMA WorkerWire ==
  ASSUME Typing, Worker \/ HeapExhausted
  PROVE  /\ UNCHANGED inbox
         /\ \/ wire["prover"]' = wire["prover"]
            \/ /\ wk \in {"frameLen", "framePayload"}
               /\ wire["prover"] # <<>> /\ wire["prover"]' = Tail(wire["prover"])
<1> USE DEF Typing, TypeOK, Parties
<1>1. CASE ReadFrameLen \/ ReadFramePayload
  BY <1>1 DEF ReadFrameLen, ReadFramePayload, Take, NextIs
<1>2. CASE ~(ReadFrameLen \/ ReadFramePayload)
  <2>1. UNCHANGED <<inbox, wire>> \/ (UNCHANGED inbox /\ \E i : Put("verifier", i))
    BY <1>2 DEF Worker, HeapExhausted, SessionReady, WriteVerifyPreamble, WriteConnectPreamble,
       SetupAndConnect, CommitAccepted, CommitOrProveRefused, RequestTask, ConnectionTask,
       ProverFuture, JoinExchange, BuildProveConfig, ProveAccepted, ProofSent, SocketRecovered,
       FrameCutShort, ProverBroken, CloseSession, Resolve, streamVars, Send, Peer
  <2>2. QED
    BY <2>1 DEF Put
<1>3. QED
  BY <1>1, <1>2

\* An early return puts no outcome frame on the wire.
LEMMA VerifierFailsWire ==
  ASSUME Typing, NEW k, VerifierFails(k)
  PROVE  /\ UNCHANGED <<verdict, inbox, drv>>
         /\ \/ wire["prover"]' = wire["prover"]
            \/ wire["prover"]' = Append(wire["prover"], Mux(k))
            \/ drv["verifier"] = "done" /\ wire["prover"]' = Append(wire["prover"], Fin)
<1> USE DEF Typing, TypeOK, Parties
<1>1. UNCHANGED <<verdict, inbox, drv>>
  BY DEF VerifierFails, VerifierGoes
<1>2. CASE drv["verifier"] = "running"
  <2>1. wire' = [wire EXCEPT !["prover"] = Append(@, Mux(k))]
    BY <1>2 DEF VerifierFails
  <2>2. QED
    BY <1>1, <2>1
<1>3. CASE drv["verifier"] = "done"
  <2>1. wire' = [wire EXCEPT !["prover"] = Append(@, Fin)]
    BY <1>3 DEF VerifierFails
  <2>2. QED
    BY <1>1, <1>3, <2>1
<1>4. CASE drv["verifier"] \notin {"running", "done"}
  BY <1>1, <1>4 DEF VerifierFails
<1>5. QED
  BY <1>2, <1>3, <1>4

\* Before write_json_frame the verifier sends multiplexer frames only.
LEMMA VerifierWire ==
  ASSUME Typing, Verifier, ~WriteFrame
  PROVE  /\ UNCHANGED inbox
         /\ \/ wire["prover"]' = wire["prover"]
            \/ \E k \in MuxKinds : wire["prover"]' = Append(wire["prover"], Mux(k))
            \/ drv["verifier"] = "done" /\ wire["prover"]' = Append(wire["prover"], Fin)
<1> USE DEF Typing, TypeOK, Parties
<1>1. CASE ReadPreamble
  BY <1>1 DEF ReadPreamble, Take
<1>2. CASE RunMpc
  BY <1>2, Names DEF RunMpc, Send, Put, Peer
<1>3. CASE Judge \/ VerifierBroken
  BY <1>3 DEF Judge, VerifierBroken, streamVars
<1>4. CASE AnswerCommit \/ AnswerProve \/ CheckProof
  <2>1. CASE \E k \in MuxKinds : VerifierFails(k)
    BY <2>1, VerifierFailsWire
  <2>2. CASE ~\E k \in MuxKinds : VerifierFails(k)
    BY <1>4, <2>2, Names DEF AnswerCommit, AnswerProve, CheckProof, Send, Put, Peer, streamVars
  <2>3. QED
    BY <2>1, <2>2
<1>5. QED
  BY <1>1, <1>2, <1>3, <1>4 DEF Verifier

\* A driver takes multiplexer frames off its wire, or puts its close on the other.
LEMMA DriverWire ==
  ASSUME Typing, NEW x \in Parties, Driver(x)
  PROVE  \/ /\ inbox["prover"]' = inbox["prover"]
            /\ \/ wire["prover"]' = wire["prover"]
               \/ wire["prover"]' = Append(wire["prover"], Mux("muxClose"))
               \/ /\ drv["verifier"] = "closing"
                  /\ wire["prover"]' = Append(wire["prover"], Fin)
         \/ /\ wire["prover"] # <<>> /\ ~Got("prover", "muxClose")
            /\ wire["prover"]' = Tail(wire["prover"])
            /\ inbox["prover"]' = inbox["prover"] \cup {Head(wire["prover"])}
<1> USE DEF Typing, TypeOK, Parties
<1>1. CASE DriverReceives(x)
  BY <1>1 DEF DriverReceives, Take
<1>2. CASE DriverCloses(x)
  BY <1>2 DEF DriverCloses, Put, Peer
<1>3. CASE DriverReturns(x)
  BY <1>3 DEF DriverReturns, Put
<1>4. CASE DriverBreaks(x)
  BY <1>4 DEF DriverBreaks
<1>5. QED
  BY <1>1, <1>2, <1>3, <1>4 DEF Driver

\* Only Judge changes the verdict, once.
LEMMA VerdictStep ==
  ASSUME Typing, [Next]_vars
  PROVE  /\ verdict' = verdict \/ Judge
         /\ Judge => verdict = Undecided /\ verdict' \in Verdicts /\ UNCHANGED <<outcome, wire>>
<1>1. verdict' = verdict \/ Judge
  BY WorkerFrame, DriverFrame, EnvironmentFrame DEF Next, vars, Verifier, ReadPreamble,
     AnswerCommit, RunMpc, AnswerProve, CheckProof, WriteFrame, VerifierBroken, VerifierGoes,
     VerifierFails
<1>2. Judge => verdict = Undecided /\ verdict' \in Verdicts /\ UNCHANGED <<outcome, wire>>
  BY ValidationTyping DEF Judge, Typing, TypeOK, VerdictStage, streamVars, proverVars
<1>3. QED
  BY <1>1, <1>2

\* Every step keeps each payload under way equal to the verdict.
LEMMA PayloadStep ==
  ASSUME Typing, PayloadIsVerdict, [Next]_vars
  PROVE  PayloadIsVerdict'
<1> DEFINE w == wire["prover"]
<1> USE DEF Typing, TypeOK, VerdictStage
<1>0. w \in Seq(Items)
  BY DEF Parties
<1>1. ASSUME UNCHANGED verdict,
             \/ w' = w
             \/ w # <<>> /\ w' = Tail(w)
             \/ \E i \in Items : w' = Append(w, i) /\ (i.kind = "payload" => verdict \in Verdicts /\ i = Payload(verdict))
      PROVE  PayloadIsVerdict'
  <2>1. CASE w' = w
    BY <1>1, <2>1 DEF PayloadIsVerdict, Payload
  <2>2. CASE w # <<>> /\ w' = Tail(w)
    <3>1. \A i \in 1..Len(w') : i + 1 \in 1..Len(w) /\ w'[i] = w[i + 1]
      BY <1>0, <2>2
    <3>2. QED
      BY <1>1, <3>1 DEF PayloadIsVerdict, Payload
  <2>3. ASSUME NEW i \in Items, w' = Append(w, i),
               i.kind = "payload" => verdict \in Verdicts /\ i = Payload(verdict)
        PROVE  PayloadIsVerdict'
    <3>1. \A j \in 1..Len(w') : (j \in 1..Len(w) /\ w'[j] = w[j]) \/ w'[j] = i
      BY <1>0, <2>3
    <3>2. QED
      BY <1>1, <2>3, <3>1 DEF PayloadIsVerdict, Payload
  <2>4. QED
    BY <1>1, <2>1, <2>2, <2>3
<1>2. CASE Judge
  BY <1>2 DEF Judge, PayloadIsVerdict, streamVars, Verdicts, Success, Failure, Undecided
<1>3. CASE WriteFrame
  <2>1. UNCHANGED verdict
    BY <1>3 DEF WriteFrame, VerifierGoes
  <2>2. CASE w' = Append(w, FrameLen) \/ w' = Append(w, Fin)
    BY <1>1, <2>1, <2>2, ItemTyping DEF FrameLen, Fin
  <2>3. CASE vpc = "framePayload" /\ w' = Append(w, Payload(verdict))
    BY <1>1, <2>1, <2>3, ItemTyping
  <2>4. QED
    BY <1>3, <2>2, <2>3 DEF WriteFrame, Put, Parties
<1>4. CASE Verifier /\ ~Judge /\ ~WriteFrame
  <2>1. UNCHANGED verdict
    BY <1>4, VerdictStep
  <2>2. \A k \in MuxKinds : Mux(k) \in Items /\ Mux(k).kind # "payload"
    BY ItemTyping DEF Mux, MuxKinds
  <2>3. Fin \in Items /\ Fin.kind # "payload"
    BY ItemTyping DEF Fin
  <2>4. QED
    BY <1>1, <1>4, <2>1, <2>2, <2>3, VerifierWire
<1>5. CASE Worker \/ HeapExhausted
  BY <1>1, <1>5, WorkerWire, WorkerFrame
<1>6. ASSUME NEW x \in Parties, Driver(x)
      PROVE  PayloadIsVerdict'
  <2>1. Fin \in Items /\ Fin.kind # "payload"
    BY ItemTyping DEF Fin
  <2>2. Mux("muxClose") \in Items /\ Mux("muxClose").kind # "payload"
    BY ItemTyping, Names DEF Mux
  <2>3. UNCHANGED verdict
    BY <1>6, DriverFrame
  <2>4. QED
    BY <1>1, <1>6, <2>1, <2>2, <2>3, DriverWire
<1>7. CASE UNCHANGED <<verdict, wire>>
  BY <1>1, <1>7
<1>8. QED
  BY <1>2, <1>3, <1>4, <1>5, <1>6, <1>7, EnvironmentFrame DEF Next, Verifier, vars

\* Every step keeps the outcome an own error or the verdict retold.
LEMMA RelayedStep ==
  ASSUME Typing, PayloadIsVerdict, ReportedOnce, Relayed, [Next]_vars
  PROVE  /\ ReportedOnce' /\ Relayed'
         /\ outcome' # outcome => outcome = Undecided
<1> USE DEF Typing, TypeOK, VerdictStage
<1>3. CASE ReadFramePayload
  <2> DEFINE p == Head(wire["prover"])
  <2>1. /\ wire["prover"] # <<>> /\ p.kind = "payload" /\ wk = "framePayload"
        /\ wire["prover"] \in Seq(Items)
    BY <1>3 DEF ReadFramePayload, NextIs, Parties
  <2>2. p = wire["prover"][1] /\ 1 \in 1..Len(wire["prover"])
    BY <2>1
  <2>3. verdict \in Verdicts /\ p.outcome = verdict
    BY <2>1, <2>2 DEF PayloadIsVerdict, Payload
  <2>4. outcome' = Told(verdict) /\ UNCHANGED verdict /\ wk' = "finally"
    BY <1>3, <2>3 DEF ReadFramePayload, Told, verifierVars
  <2>5. QED
    BY <2>1, <2>3, <2>4 DEF ReportedOnce, Relayed, Told
<1>4. CASE Worker /\ ~ReadFramePayload
  <2>1. wk # "end" /\ (UNCHANGED outcome \/ wk \notin {"finally", "end"})
    BY <1>4 DEF Worker, SessionReady, WriteVerifyPreamble, WriteConnectPreamble,
       SetupAndConnect, CommitAccepted, CommitOrProveRefused, RequestTask, ConnectionTask,
       ProverFuture, JoinExchange, BuildProveConfig, ProveAccepted, ProofSent, SocketRecovered,
       ReadFrameLen, FrameCutShort, ProverBroken, CloseSession, ProverGoes, Resolve
  <2>2. UNCHANGED verdict
    BY <1>4, WorkerFrame
  <2>3. \/ UNCHANGED outcome /\ (wk \in {"finally", "end"} => wk' \in {"finally", "end"})
        \/ wk' = "finally" /\ \E r \in ProverErrors : outcome' = Error(r)
    BY <1>4, Names DEF Worker, SessionReady, WriteVerifyPreamble, WriteConnectPreamble,
       SetupAndConnect, CommitAccepted, CommitOrProveRefused, RequestTask, ConnectionTask,
       ProverFuture, JoinExchange, BuildProveConfig, ProveAccepted, ProofSent, SocketRecovered,
       ReadFrameLen, FrameCutShort, ProverBroken, CloseSession, ProverGoes, ProverFails, Resolve
  <2>4. CASE UNCHANGED outcome
    <3>1. Relayed'
      BY <2>2, <2>4 DEF Relayed, Told
    <3>2. ReportedOnce'
      BY <2>3, <2>4 DEF ReportedOnce
    <3>3. QED
      BY <2>4, <3>1, <3>2
  <2>5. CASE ~UNCHANGED outcome
    <3>1. ReportedOnce' /\ Relayed'
      BY <2>3, <2>5 DEF ReportedOnce, Relayed
    <3>2. QED
      BY <2>1, <2>5, <3>1 DEF ReportedOnce
  <2>6. QED
    BY <2>3, <2>4, <2>5
<1>5. CASE HeapExhausted
  BY <1>5 DEF HeapExhausted, ProverGoes, verifierVars, ReportedOnce, Relayed
<1>6. CASE UNCHANGED <<wk, outcome>>
  <2>1. verdict' = verdict \/ verdict = Undecided
    BY VerdictStep
  <2>2. Undecided \notin Verdicts
    BY Statuses DEF Verdicts
  <2>3. QED
    BY <1>6, <2>1, <2>2 DEF ReportedOnce, Relayed, Told
<1>7. QED
  BY <1>3, <1>4, <1>5, <1>6, VerifierFrame, DriverFrame, EnvironmentFrame DEF Next, vars

\* The invariant behind Implementation.
LEMMA RelayedAlways == Spec => [](PayloadIsVerdict /\ ReportedOnce /\ Relayed)
<1>1. Init => PayloadIsVerdict /\ ReportedOnce /\ Relayed
  BY DEF Init, PayloadIsVerdict, ReportedOnce, Relayed, Parties
<1>2. Typing /\ PayloadIsVerdict /\ [Next]_vars => PayloadIsVerdict'
  BY PayloadStep
<1>3. Typing /\ PayloadIsVerdict /\ ReportedOnce /\ Relayed /\ [Next]_vars
        => ReportedOnce' /\ Relayed'
  BY RelayedStep
<1>4. QED
  BY <1>1, <1>2, <1>3, TypingAlways, PTL DEF Spec

\* Neither the server nor the page ever records a success that the policies,
\* the verifier's trust and the bank's own answer do not support.
THEOREM SuccessEarned == Spec => []SuccessIsEarned
<1>1. Typing /\ Earned /\ Relayed => SuccessIsEarned
  <2> SUFFICES ASSUME Typing, Earned, Relayed
               PROVE  SuccessIsEarned
    OBVIOUS
  <2>1. outcome.status = "success" => verdict.status = "success" /\ outcome.balance = verdict.balance
    BY Statuses DEF Relayed, Told
  <2>2. bank.layout = "readable" => bank \in Responses
    BY ReadableIsResponse DEF Typing, TypeOK
  <2>3. verdict.status = "success" => verdict # Undecided
    BY Statuses
  <2>4. QED
    BY <2>1, <2>2, <2>3 DEF Earned, SuccessIsEarned, protocol_policy, request_policy
<1>2. QED
  BY <1>1, TypingAlways, EarnedAlways, RelayedAlways, PTL

\* Notarization implements BalanceProof: Judge is Decide, reading the frame is
\* Relay, every other report is GiveUp, and the rest stutters.
THEOREM Implementation == Spec => Implements
<1> DEFINE PV == <<verdict, outcome>>
<1>1. Init => Promise!Init
  BY DEF Init, Promise!Init, Undecided, Promise!Undecided
<1>2. ASSUME Typing, Typing', PayloadIsVerdict, ReportedOnce, Relayed, Relayed', [Next]_vars
      PROVE  [Promise!Next]_PV
  <2> USE DEF Typing, TypeOK
  <2>1. CASE Judge
    BY <2>1, <1>2, VerdictStep DEF Promise!Next, Promise!Decide, Promise!Undecided, Undecided,
       Promise!Verdicts, Verdicts, Promise!Success, Success, Promise!Failure, Failure
  <2>2. CASE UNCHANGED PV
    BY <2>2
  <2>3. CASE verdict' = verdict /\ outcome' # outcome
    <3>1. outcome = Undecided /\ outcome' # Undecided
      BY <1>2, <2>3, RelayedStep
    <3>2. CASE outcome' \in {Error(r) : r \in ProverErrors}
      BY <3>1, <3>2, <2>3 DEF Promise!Next, Promise!GiveUp, Promise!Undecided, Undecided, Error, Promise!Error
    <3>3. CASE verdict \in Verdicts /\ outcome' = Told(verdict)
      BY <3>1, <3>3, <2>3, Statuses DEF Promise!Next, Promise!Relay, Promise!Undecided, Undecided,
         Told, Verdicts, Error, Promise!Error, Success, Promise!Success, Failure, Promise!Failure
    <3>4. QED
      BY <1>2, <2>3, <3>1, <3>2, <3>3 DEF Relayed, Told
  <2>4. QED
    BY <1>2, <2>1, <2>2, <2>3, VerdictStep
<1>3. QED
  BY <1>1, <1>2, TypingAlways, RelayedAlways, PTL DEF Spec, Implements, Promise!Spec

-----------------------------------------------------------------------------
\* The multiplexer never reads the outcome frame.

IsClose(i) == i = Mux("muxClose")

\* The prover's driver has seen, or will see, the verifier's close.
CloseAhead(w, seen) == seen \/ \E i \in 1..Len(w) : IsClose(w[i])

\* Raw items travel behind it.
RawBehind(w, seen) ==
  seen \/ \A i \in 1..Len(w) : w[i] \in RawItems => \E j \in 1..(i - 1) : IsClose(w[j])

CloseBeforeFrame ==
  /\ drv["prover"] = "done" => Got("prover", "muxClose")
  /\ wk \in {"frameLen", "framePayload"} => Got("prover", "muxClose")
  /\ vpc \in {"frameLen", "framePayload", "closeIo"} => drv["verifier"] = "done"
  /\ drv["verifier"] \in {"closing", "done"} =>
       CloseAhead(wire["prover"], Got("prover", "muxClose"))
  /\ RawBehind(wire["prover"], Got("prover", "muxClose"))
  /\ MuxNeverEatsFrame

\* The parts of the outcome frame are raw items.
LEMMA RawIsNotMux ==
  /\ FrameLen \in RawItems /\ Fin \in RawItems
  /\ \A v \in Verdicts : Payload(v) \in RawItems
  /\ \A k \in MuxKinds : Mux(k) \notin RawItems
BY DEF Mux, RawItems, FrameLen, Fin, Payload, MuxKinds

\* The order of close and frame survives a write behind them ...
LEMMA AppendKeepsClose ==
  ASSUME NEW w \in Seq(Items), NEW i \in Items, NEW seen \in BOOLEAN, RawBehind(w, seen)
  PROVE  /\ CloseAhead(w, seen) => CloseAhead(Append(w, i), seen)
         /\ CloseAhead(w, seen) => RawBehind(Append(w, i), seen)
         /\ i \notin RawItems => RawBehind(Append(w, i), seen)
         /\ IsClose(i) => CloseAhead(Append(w, i), seen)
<1>1. /\ Len(Append(w, i)) = Len(w) + 1 /\ Len(w) \in Nat
      /\ \A j \in 1..Len(w) : Append(w, i)[j] = w[j]
      /\ Append(w, i)[Len(w) + 1] = i
  OBVIOUS
<1>2. QED
  BY <1>1 DEF CloseAhead, RawBehind

\* ... and a read in front of them.
LEMMA TailKeepsClose ==
  ASSUME NEW w \in Seq(Items), w # <<>>, NEW seen \in BOOLEAN, NEW now \in BOOLEAN,
         now <=> (seen \/ IsClose(Head(w))), RawBehind(w, seen)
  PROVE  /\ CloseAhead(w, seen) => CloseAhead(Tail(w), now)
         /\ RawBehind(Tail(w), now)
         /\ ~seen => Head(w) \notin RawItems
<1>1. /\ Len(w) \in Nat /\ Len(w) >= 1 /\ Len(Tail(w)) = Len(w) - 1 /\ Head(w) = w[1]
      /\ \A j \in 1..(Len(w) - 1) : Tail(w)[j] = w[j + 1]
  OBVIOUS
<1>2. CloseAhead(w, seen) => CloseAhead(Tail(w), now)
  <2>1. ASSUME ~now, NEW i \in 1..Len(w), IsClose(w[i])
        PROVE  i - 1 \in 1..Len(Tail(w)) /\ IsClose(Tail(w)[i - 1])
    BY <1>1, <2>1
  <2>2. QED
    BY <1>1, <2>1 DEF CloseAhead
<1>3. RawBehind(Tail(w), now)
  <2>1. ASSUME ~now, NEW i \in 1..Len(Tail(w)), Tail(w)[i] \in RawItems
        PROVE  \E j \in 1..(i - 1) : IsClose(Tail(w)[j])
    <3>1. PICK j \in 1..i : IsClose(w[j])
      BY <1>1, <2>1 DEF RawBehind
    <3>2. j - 1 \in 1..(i - 1) /\ IsClose(Tail(w)[j - 1])
      BY <1>1, <2>1, <3>1
    <3>3. QED
      BY <3>2
  <2>2. QED
    BY <2>1 DEF RawBehind
<1>4. ~seen => Head(w) \notin RawItems
  BY <1>1 DEF RawBehind
<1>5. QED
  BY <1>2, <1>3, <1>4

\* Every step keeps each driver's close ahead of the outcome frame.
LEMMA CloseStep ==
  ASSUME Typing, Typing', CloseBeforeFrame, [Next]_vars
  PROVE  CloseBeforeFrame'
<1> DEFINE w == wire["prover"]
           seen == Got("prover", "muxClose")
<1> USE DEF Typing, TypeOK
<1>0. w \in Seq(Items) /\ seen \in BOOLEAN /\ seen' \in BOOLEAN
  BY DEF Parties, Got
<1>1. CASE Worker \/ HeapExhausted
  <2>1. UNCHANGED <<inbox, vpc>> /\ drv'["verifier"] = drv["verifier"]
    BY <1>1, WorkerWire, WorkerFrame DEF Worker, HeapExhausted, SessionReady, WriteVerifyPreamble,
       WriteConnectPreamble, SetupAndConnect, CommitAccepted, CommitOrProveRefused, RequestTask,
       ConnectionTask, ProverFuture, JoinExchange, BuildProveConfig, ProveAccepted, ProofSent,
       SocketRecovered, ReadFrameLen, ReadFramePayload, FrameCutShort, ProverBroken, CloseSession,
       Resolve, streamVars, Parties
  <2>2. /\ drv'["prover"] \in {drv["prover"], "running"}
        /\ wk' \in {"frameLen", "framePayload"} =>
             drv["prover"] = "done" \/ wk \in {"frameLen", "framePayload"}
    BY <1>1 DEF Worker, HeapExhausted, SessionReady, WriteVerifyPreamble,
       WriteConnectPreamble, SetupAndConnect, CommitAccepted, CommitOrProveRefused, RequestTask,
       ConnectionTask, ProverFuture, JoinExchange, BuildProveConfig, ProveAccepted, ProofSent,
       SocketRecovered, ReadFrameLen, ReadFramePayload, FrameCutShort, ProverBroken, CloseSession,
       Resolve, streamVars, Parties, ProverGoes, ProverFails
  <2>3. w' = w \/ seen
    BY <1>1, WorkerWire DEF CloseBeforeFrame
  <2>4. QED
    BY <2>1, <2>2, <2>3 DEF CloseBeforeFrame, CloseAhead, RawBehind, MuxNeverEatsFrame, Got
<1>2. CASE Verifier
  <2>1. UNCHANGED <<wk, inbox>> /\ drv'["prover"] = drv["prover"]
    BY <1>2, VerifierFrame DEF Verifier, ReadPreamble, AnswerCommit, RunMpc, AnswerProve,
       CheckProof, Judge, WriteFrame, VerifierBroken, VerifierFails, streamVars, Parties
  <2>2. /\ drv'["verifier"] \in {drv["verifier"], "running"}
        /\ vpc' \in {"frameLen", "framePayload", "closeIo"} => drv'["verifier"] = "done"
    BY <1>2 DEF CloseBeforeFrame, Verifier, ReadPreamble, AnswerCommit, RunMpc, AnswerProve,
       CheckProof, Judge, WriteFrame, VerifierBroken, VerifierGoes, VerifierFails, streamVars,
       Parties
  <2>3. \/ w' = w
        \/ \E i \in Items : w' = Append(w, i) /\ (i \in RawItems => drv["verifier"] = "done")
    <3>1. CASE WriteFrame
      BY <3>1, ItemTyping DEF WriteFrame, Put, Parties, CloseBeforeFrame, VerifierGoes
    <3>2. CASE ~WriteFrame
      BY <1>2, <3>2, VerifierWire, ItemTyping, RawIsNotMux
    <3>3. QED
      BY <3>1, <3>2
  <2>4. CloseAhead(w, seen) => CloseAhead(w', seen)
    BY <1>0, <2>3, AppendKeepsClose DEF CloseBeforeFrame
  <2>5. RawBehind(w', seen)
    BY <1>0, <2>3, AppendKeepsClose DEF CloseBeforeFrame
  <2>6. QED
    BY <2>1, <2>2, <2>4, <2>5 DEF CloseBeforeFrame, MuxNeverEatsFrame, Got
<1>3. ASSUME NEW x \in Parties, Driver(x)
      PROVE  CloseBeforeFrame'
  <2>1. UNCHANGED <<wk, vpc>>
    BY <1>3, DriverFrame
  <2>2. /\ drv'["prover"] = "done" => drv["prover"] = "done" \/ seen
        /\ drv["verifier"] = "done" => drv'["verifier"] = "done"
        /\ drv'["verifier"] \in {"closing", "done"} =>
             \/ drv["verifier"] \in {"closing", "done"}
             \/ w' = Append(w, Mux("muxClose")) /\ UNCHANGED inbox
    BY <1>3 DEF Driver, DriverReceives, DriverCloses, DriverReturns, DriverBreaks, Parties, Put, Peer
  <2>3. Mux("muxClose") \in Items /\ Mux("muxClose") \notin RawItems /\ Fin \in Items /\ Fin \in RawItems
    BY ItemTyping, RawIsNotMux, Names
  <2>4. CASE inbox'["prover"] = inbox["prover"]
    <3>1. seen' = seen
      BY <2>4 DEF Got
    <3>2. \/ w' = w
          \/ w' = Append(w, Mux("muxClose"))
          \/ drv["verifier"] = "closing" /\ w' = Append(w, Fin)
          \/ w # <<>> /\ ~seen /\ w' = Tail(w) /\ Head(w) \in inbox["prover"]
      BY <1>3, <2>4, DriverWire
    <3>3. ASSUME w # <<>>, ~seen, w' = Tail(w), Head(w) \in inbox["prover"]
          PROVE  RawBehind(w', seen) /\ (CloseAhead(w, seen) => CloseAhead(w', seen))
      <4>1. ~IsClose(Head(w))
        BY <3>3 DEF IsClose, Got
      <4>2. QED
        BY <1>0, <3>3, <4>1, TailKeepsClose DEF CloseBeforeFrame
    <3>4. RawBehind(w', seen) /\ (CloseAhead(w, seen) => CloseAhead(w', seen))
      BY <1>0, <2>3, <3>2, <3>3, AppendKeepsClose DEF CloseBeforeFrame
    <3>5. w' = Append(w, Mux("muxClose")) => CloseAhead(w', seen)
      BY <1>0, <2>3, AppendKeepsClose DEF CloseBeforeFrame, IsClose
    <3>6. QED
      BY <2>1, <2>2, <2>4, <3>1, <3>3, <3>4, <3>5 DEF CloseBeforeFrame, MuxNeverEatsFrame
  <2>5. CASE inbox'["prover"] # inbox["prover"]
    <3>1. /\ w # <<>> /\ ~seen /\ w' = Tail(w)
          /\ inbox'["prover"] = inbox["prover"] \cup {Head(w)}
      BY <1>3, <2>5, DriverWire
    <3>2. seen' <=> (seen \/ IsClose(Head(w)))
      BY <3>1 DEF Got, IsClose
    <3>3. /\ CloseAhead(w, seen) => CloseAhead(w', seen')
          /\ RawBehind(w', seen') /\ Head(w) \notin RawItems
      BY <1>0, <3>1, <3>2, TailKeepsClose DEF CloseBeforeFrame
    <3>4. QED
      BY <2>1, <2>2, <2>5, <3>1, <3>2, <3>3 DEF CloseBeforeFrame, MuxNeverEatsFrame
  <2>6. QED
    BY <2>4, <2>5
<1>4. CASE UNCHANGED <<wk, vpc, wire, inbox, drv>>
  BY <1>4 DEF CloseBeforeFrame, CloseAhead, RawBehind, MuxNeverEatsFrame, Got
<1>5. QED
  BY <1>1, <1>2, <1>3, <1>4, EnvironmentFrame DEF Next, vars

\* The socket that verify_balance hands back carries nothing the prover's
\* driver could still read: the frame always travels behind the close.
THEOREM FrameIsSafe == Spec => []MuxNeverEatsFrame
<1>1. Init => CloseBeforeFrame
  BY DEF Init, CloseBeforeFrame, CloseAhead, RawBehind, MuxNeverEatsFrame, Parties
<1>2. Typing /\ Typing' /\ CloseBeforeFrame /\ [Next]_vars => CloseBeforeFrame'
  BY CloseStep
<1>3. CloseBeforeFrame => MuxNeverEatsFrame
  BY DEF CloseBeforeFrame
<1>4. QED
  BY <1>1, <1>2, <1>3, TypingAlways, PTL DEF Spec

-----------------------------------------------------------------------------
\* While the session holds, each side's failures are the other's doing.

Live == transport # "down"

\* The multiplexer frames that have been sent to x, delivered or not.
Heard(x) == {k \in MuxKinds : Got(x, k) \/ \E i \in 1..Len(wire[x]) : wire[x][i] = Mux(k)}

\* What the prover has sent tells how far it is.
Asked ==
  /\ "commit" \in Heard("verifier") => wk \notin {"ready", "streams", "preambles", "setup"}
  /\ "prove" \in Heard("verifier") =>
       /\ wk \in {"prove", "proving", "trapped", "io", "frameLen", "framePayload", "finally", "end"}
       /\ bank \in Responses
  /\ wk \in {"prove", "proving", "io", "frameLen", "framePayload"} => "prove" \in Heard("verifier")
  /\ "proof" \in Heard("verifier") =>
       /\ wk \in {"io", "frameLen", "framePayload", "finally", "end"}
       /\ "prove" \in Heard("verifier")
  /\ vpc \in {"run", "verify", "proof", "socket", "frameLen", "framePayload", "closeIo", "end"} =>
       "commit" \in Heard("verifier")
  /\ vpc \in {"proof", "socket", "frameLen", "framePayload", "closeIo", "end"} =>
       "prove" \in Heard("verifier")
  /\ vpc \in {"socket", "frameLen", "framePayload", "closeIo", "end"} => "proof" \in Heard("verifier")
  /\ verdict # Undecided => "proof" \in Heard("verifier")

\* What the verifier has sent tells what it has found, and how far the prover is what it was sent.
Answered ==
  /\ "acceptCommit" \in Heard("prover") =>
       /\ vpc \notin {"preamble", "commit"}
       /\ inputs.mpc /\ protocol_policy(inputs)
  /\ "acceptProve" \in Heard("prover") =>
       /\ vpc \notin {"preamble", "commit", "run", "verify"}
       /\ inputs.mpc /\ protocol_policy(inputs) /\ request_policy(inputs)
  /\ "reject" \in Heard("prover") =>
       vpc = "failed" /\ inputs.mpc /\ ~(protocol_policy(inputs) /\ request_policy(inputs))
  /\ "eof" \in Heard("prover") =>
       vpc = "failed" /\ ~(inputs.mpc /\ ~(protocol_policy(inputs) /\ request_policy(inputs)))
  /\ wk \in {"http", "config", "prove", "proving", "io", "frameLen", "framePayload"} =>
       "acceptCommit" \in Heard("prover")
  /\ wk \in {"proving", "io", "frameLen", "framePayload"} => "acceptProve" \in Heard("prover")

\* The verifier's task fails while the session holds only by turning a prover down that waits for
\* its answer; a driver does not.
Unbroken ==
  Live =>
    /\ \A x \in Parties : drv[x] # "failed"
    /\ verdict # Undecided => vpc \in {"frameLen", "framePayload", "closeIo", "end"}
    /\ vpc = "failed" =>
         /\ wk \notin {"http", "config"}
         /\ "acceptCommit" \in Heard("prover") => "prove" \in Heard("verifier")

\* The outcome frame on its way: there is none before write_json_frame, and
\* the end of the stream comes after the parts that have not been read.
OnWire(w, kind) == \E i \in 1..Len(w) : w[i].kind = kind
EndAfter(w, kind) ==
  \A i \in 1..Len(w) : w[i].kind = "fin" => \E j \in 1..(i - 1) : w[j].kind = kind

FrameInOrder ==
  Live =>
    /\ OnWire(wire["prover"], "len") => vpc \in {"framePayload", "closeIo", "end"}
    /\ OnWire(wire["prover"], "payload") => vpc \in {"closeIo", "end"}
    /\ OnWire(wire["prover"], "fin") => vpc \in {"end", "failed"}
    /\ vpc # "failed" /\ wk \notin {"framePayload", "finally", "end", "trapped"} =>
         /\ EndAfter(wire["prover"], "len")
         /\ vpc \in {"framePayload", "closeIo"} => OnWire(wire["prover"], "len")
    /\ vpc # "failed" /\ wk \notin {"finally", "end", "trapped"} =>
         /\ EndAfter(wire["prover"], "payload")
         /\ vpc = "closeIo" => OnWire(wire["prover"], "payload")

\* A prover that has finished has not left the verifier in the middle of what it answers.
Finished ==
  Live /\ wk = "finally" =>
    /\ vpc \notin {"preamble", "commit"}
    /\ "prove" \in Heard("verifier") => vpc \notin {"run", "verify"}
    /\ "proof" \in Heard("verifier") => vpc \notin {"proof", "socket", "frameLen", "framePayload"}

\* The three futures fail with the bank or with the driver, and what is judged is the bank's answer.
BankIsToBlame ==
  /\ Live => \A f \in Futures : fut[f] = "err" => bank = Gone \/ bank.layout = "status"
  /\ Live /\ inputs = WorkerInputs => vpc # "failed"
  /\ verdict # Undecided => verdict = Validation(inputs, bank)
  /\ HonestRunSucceeds

-----------------------------------------------------------------------------
\* What is sent stays sent.

\* An item put on the wire ...
LEMMA HeardPut ==
  ASSUME Typing, NEW x \in Parties, NEW i \in Items,
         inbox'[x] = inbox[x], wire'[x] = Append(wire[x], i)
  PROVE  Heard(x)' = Heard(x) \cup {k \in MuxKinds : i = Mux(k)}
<1>1. wire[x] \in Seq(Items)
  BY DEF Typing, TypeOK
<1> DEFINE w == wire[x]
           v == Append(w, i)
<1>2. /\ Len(v) = Len(w) + 1 /\ Len(w) \in Nat /\ v[Len(w) + 1] = i
      /\ \A j \in 1..Len(w) : v[j] = w[j]
  BY <1>1
<1>3. \A k \in MuxKinds : (\E j \in 1..Len(v) : v[j] = Mux(k)) <=>
                           (\E j \in 1..Len(w) : w[j] = Mux(k)) \/ i = Mux(k)
  BY <1>2
<1>4. QED
  BY <1>3 DEF Heard, Got

\* ... one that the driver takes off it ...
LEMMA HeardReceive ==
  ASSUME Typing, NEW x \in Parties, wire[x] # <<>>,
         inbox'[x] = inbox[x] \cup {Head(wire[x])}, wire'[x] = Tail(wire[x])
  PROVE  Heard(x)' = Heard(x)
<1>1. wire[x] \in Seq(Items)
  BY DEF Typing, TypeOK
<1> DEFINE w == wire[x]
           v == Tail(w)
<1>2. /\ Len(w) \in Nat /\ Len(w) >= 1 /\ Len(v) = Len(w) - 1 /\ Head(w) = w[1]
      /\ \A j \in 1..Len(v) : v[j] = w[j + 1]
  BY <1>1
<1>3. \A k \in MuxKinds : (\E j \in 1..Len(w) : w[j] = Mux(k)) <=>
                           (\E j \in 1..Len(v) : v[j] = Mux(k)) \/ Head(w) = Mux(k)
  <2>1. TAKE k \in MuxKinds
  <2>2. ASSUME NEW j \in 1..Len(w), w[j] = Mux(k)
        PROVE  (\E l \in 1..Len(v) : v[l] = Mux(k)) \/ Head(w) = Mux(k)
    <3>1. CASE j = 1
      BY <1>2, <2>2, <3>1
    <3>2. CASE j # 1
      <4>1. j - 1 \in 1..Len(v) /\ v[j - 1] = w[j]
        BY <1>2, <3>2
      <4>2. QED
        BY <2>2, <4>1
    <3>3. QED
      BY <3>1, <3>2
  <2>3. ASSUME NEW j \in 1..Len(v), v[j] = Mux(k)
        PROVE  \E l \in 1..Len(w) : w[l] = Mux(k)
    <3>1. j + 1 \in 1..Len(w) /\ w[j + 1] = Mux(k)
      BY <1>2, <2>3
    <3>2. QED
      BY <3>1
  <2>4. Head(w) = Mux(k) => \E l \in 1..Len(w) : w[l] = Mux(k)
    <3>1. 1 \in 1..Len(w)
      BY <1>2
    <3>2. QED
      BY <1>2, <3>1
  <2>5. QED
    BY <2>2, <2>3, <2>4
<1>4. QED
  BY <1>3 DEF Heard, Got

\* ... and one that is no frame of the multiplexer.
LEMMA HeardRead ==
  ASSUME Typing, NEW x \in Parties, wire[x] # <<>>,
         inbox'[x] = inbox[x], wire'[x] = Tail(wire[x]), Head(wire[x]).kind \notin MuxKinds
  PROVE  Heard(x)' = Heard(x)
<1>1. wire[x] \in Seq(Items)
  BY DEF Typing, TypeOK
<1> DEFINE w == wire[x]
           v == Tail(w)
<1>2. /\ Len(w) \in Nat /\ Len(w) >= 1 /\ Len(v) = Len(w) - 1 /\ Head(w) = w[1]
      /\ \A j \in 1..Len(v) : v[j] = w[j + 1]
  BY <1>1
<1>3. \A k \in MuxKinds : Head(w) # Mux(k)
  BY DEF Mux
<1>4. \A k \in MuxKinds : (\E j \in 1..Len(w) : w[j] = Mux(k)) <=>
                           (\E j \in 1..Len(v) : v[j] = Mux(k))
  <2>1. TAKE k \in MuxKinds
  <2>2. ASSUME NEW j \in 1..Len(w), w[j] = Mux(k)
        PROVE  \E l \in 1..Len(v) : v[l] = Mux(k)
    <3>1. j - 1 \in 1..Len(v) /\ v[j - 1] = w[j]
      <4>1. j # 1
        BY <1>2, <1>3, <2>2
      <4>2. QED
        BY <1>2, <4>1
    <3>2. QED
      BY <2>2, <3>1
  <2>3. ASSUME NEW j \in 1..Len(v), v[j] = Mux(k)
        PROVE  \E l \in 1..Len(w) : w[l] = Mux(k)
    <3>1. j + 1 \in 1..Len(w) /\ w[j + 1] = Mux(k)
      BY <1>2, <2>3
    <3>2. QED
      BY <3>1
  <2>4. QED
    BY <2>2, <2>3
<1>5. QED
  BY <1>4 DEF Heard, Got

\* Where nothing moves.
LEMMA HeardSame ==
  ASSUME NEW x \in Parties, inbox'[x] = inbox[x], wire'[x] = wire[x]
  PROVE  Heard(x)' = Heard(x)
BY DEF Heard, Got

\* A frame sent with Put is heard by its party, ...
LEMMA PutHeard ==
  ASSUME Typing, NEW x \in Parties, NEW k \in MuxKinds, Put(x, Mux(k)), UNCHANGED inbox
  PROVE  /\ Heard(x)' = Heard(x) \cup {k}
         /\ \A y \in Parties \ {x} : Heard(y)' = Heard(y)
<1>1. wire \in [Parties -> Seq(Items)]
  BY DEF Typing, TypeOK
<1>2. Mux(k) \in Items
  BY ItemTyping
<1>3. /\ wire'[x] = Append(wire[x], Mux(k))
      /\ \A y \in Parties \ {x} : wire'[y] = wire[y]
  BY <1>1 DEF Put
<1>4. Heard(x)' = Heard(x) \cup {j \in MuxKinds : Mux(k) = Mux(j)}
  BY <1>2, <1>3, HeardPut
<1>5. {j \in MuxKinds : Mux(k) = Mux(j)} = {k}
  BY DEF Mux
<1>6. \A y \in Parties \ {x} : Heard(y)' = Heard(y)
  BY <1>3, HeardSame
<1>7. QED
  BY <1>4, <1>5, <1>6

\* ... and the preamble and the parts of the outcome frame are not.
LEMMA RawUnheard ==
  ASSUME Typing, NEW x \in Parties, NEW i \in Items, i.kind \notin MuxKinds, Put(x, i),
         UNCHANGED inbox
  PROVE  \A y \in Parties : Heard(y)' = Heard(y)
<1>1. wire \in [Parties -> Seq(Items)]
  BY DEF Typing, TypeOK
<1>2. /\ wire'[x] = Append(wire[x], i)
      /\ \A y \in Parties \ {x} : wire'[y] = wire[y]
  BY <1>1 DEF Put
<1>3. Heard(x)' = Heard(x) \cup {j \in MuxKinds : i = Mux(j)}
  BY <1>2, HeardPut
<1>4. {j \in MuxKinds : i = Mux(j)} = {}
  BY DEF Mux
<1>5. \A y \in Parties \ {x} : Heard(y)' = Heard(y)
  BY <1>2, HeardSame
<1>6. QED
  BY <1>3, <1>4, <1>5

\* The kinds of what is not a frame of the multiplexer.
LEMMA RawKinds ==
  /\ FrameLen.kind = "len" /\ Fin.kind = "fin" /\ Preamble.kind = "VERIFY"
  /\ \A v : Payload(v).kind = "payload"
  /\ \A k : Mux(k).kind = k
  /\ "len" \notin MuxKinds /\ "payload" \notin MuxKinds /\ "fin" \notin MuxKinds
  /\ "VERIFY" \notin MuxKinds
BY DEF FrameLen, Fin, Preamble, Payload, Mux, MuxKinds

\* The worker asks three things of the verifier, in this order, and settles the transcript.
LEMMA HeardWorker ==
  ASSUME Typing, Worker \/ HeapExhausted
  PROVE  /\ Heard("prover")' = Heard("prover")
         /\ \/ Heard("verifier")' = Heard("verifier")
            \/ SetupAndConnect /\ Heard("verifier")' = Heard("verifier") \cup {"commit"}
            \/ ProverFuture /\ Heard("verifier")' = Heard("verifier") \cup {"tls"}
            \/ /\ BuildProveConfig /\ wk' = "prove"
               /\ Heard("verifier")' = Heard("verifier") \cup {"prove"}
            \/ ProofSent /\ Heard("verifier")' = Heard("verifier") \cup {"proof"}
<1> USE DEF Parties
<1>0. Peer("prover") = "verifier" /\ Parties \ {"verifier"} = {"prover"}
  BY DEF Peer
<1>1. CASE WriteVerifyPreamble
  BY <1>1, RawUnheard, RawKinds, ItemTyping DEF WriteVerifyPreamble
<1>2. CASE SetupAndConnect
  BY <1>0, <1>2, PutHeard, Names DEF SetupAndConnect
<1>3. CASE ProverFuture /\ Send("prover", "tls")
  <2>1. Put("verifier", Mux("tls")) /\ UNCHANGED inbox
    BY <1>0, <1>3 DEF Send, ProverFuture, Resolve
  <2>2. QED
    BY <1>0, <1>3, <2>1, PutHeard, Names
<1>4. CASE BuildProveConfig /\ Send("prover", "prove") /\ wk' = "prove"
  <2>1. Put("verifier", Mux("prove")) /\ UNCHANGED inbox
    BY <1>0, <1>4 DEF Send, BuildProveConfig
  <2>2. QED
    BY <1>0, <1>4, <2>1, PutHeard, Names
<1>5. CASE ProofSent
  <2>1. Put("verifier", Mux("proof")) /\ UNCHANGED inbox
    BY <1>0, <1>5 DEF Send, ProofSent
  <2>2. QED
    BY <1>0, <1>5, <2>1, PutHeard, Names
<1>6. CASE ReadFrameLen \/ ReadFramePayload
  <2>1. /\ wire["prover"] # <<>> /\ Head(wire["prover"]).kind \in {"len", "payload"}
        /\ Take("prover") /\ UNCHANGED inbox
    BY <1>6 DEF ReadFrameLen, ReadFramePayload, NextIs
  <2>2. wire'["prover"] = Tail(wire["prover"]) /\ wire'["verifier"] = wire["verifier"]
    BY <2>1 DEF Take, Typing, TypeOK
  <2>3. QED
    BY <2>1, <2>2, HeardRead, HeardSame, RawKinds
<1>7. CASE UNCHANGED <<wire, inbox>>
  BY <1>7, HeardSame
<1>8. QED
  BY <1>1, <1>2, <1>3, <1>4, <1>5, <1>6, <1>7
     DEF Worker, HeapExhausted, SessionReady, WriteConnectPreamble, CommitAccepted,
         CommitOrProveRefused, RequestTask, ConnectionTask, ProverFuture, JoinExchange,
         BuildProveConfig, ProveAccepted, SocketRecovered, FrameCutShort, ProverBroken,
         CloseSession, Resolve, ProverGoes, streamVars

\* It asks for the disclosure when it has matched the rules.
LEMMA WorkerSends ==
  ASSUME Typing, Worker \/ HeapExhausted, wk' = "prove", wk # "prove"
  PROVE  "prove" \in Heard("verifier")'
<1>1. BuildProveConfig
  BY DEF Worker, HeapExhausted, SessionReady, WriteVerifyPreamble, WriteConnectPreamble,
     SetupAndConnect, CommitAccepted, CommitOrProveRefused, RequestTask, ConnectionTask,
     ProverFuture, JoinExchange, ProveAccepted, ProofSent, SocketRecovered, ReadFrameLen,
     ReadFramePayload, FrameCutShort, ProverBroken, CloseSession, Resolve, ProverGoes, ProverFails
<1>2. Put("verifier", Mux("prove")) /\ UNCHANGED inbox
  BY <1>1 DEF BuildProveConfig, Send, Peer, ProverFails
<1>3. QED
  BY <1>2, PutHeard, Names DEF Parties

\* An early return says why, at most.
LEMMA HeardFails ==
  ASSUME Typing, NEW k \in MuxKinds, VerifierFails(k)
  PROVE  /\ Heard("verifier")' = Heard("verifier")
         /\ Heard("prover")' \in {Heard("prover"), Heard("prover") \cup {k}}
<1> USE DEF Parties
<1>1. UNCHANGED inbox /\ "prover" \in Parties /\ "verifier" \in Parties
  BY DEF VerifierFails
<1>2. CASE drv["verifier"] = "running"
  <2>1. Put("prover", Mux(k))
    BY <1>2 DEF VerifierFails, Put
  <2>2. QED
    BY <1>1, <2>1, PutHeard
<1>3. CASE drv["verifier"] = "done"
  <2>1. Put("prover", Fin)
    BY <1>3 DEF VerifierFails, Put
  <2>2. Fin \in Items /\ Fin.kind \notin MuxKinds
    BY ItemTyping, RawKinds
  <2>3. QED
    BY <1>1, <2>1, <2>2, RawUnheard
<1>4. CASE drv["verifier"] \notin {"running", "done"}
  <2>1. wire' = [wire EXCEPT !["prover"] = @]
    BY <1>4 DEF VerifierFails
  <2>2. wire'["prover"] = wire["prover"] /\ wire'["verifier"] = wire["verifier"]
    BY <2>1 DEF Typing, TypeOK
  <2>3. QED
    BY <1>1, <2>2, HeardSame
<1>5. QED
  BY <1>2, <1>3, <1>4

\* What the verifier answers, and what it has found.
LEMMA HeardVerifier ==
  ASSUME Typing, Verifier
  PROVE  /\ Heard("verifier")' = Heard("verifier")
         /\ \/ Heard("prover")' = Heard("prover")
            \/ Heard("prover")' = Heard("prover") \cup {"tlsDone"}
            \/ /\ AnswerCommit /\ vpc' = "run" /\ inputs.mpc /\ protocol_policy(inputs)
               /\ Heard("prover")' = Heard("prover") \cup {"acceptCommit"}
            \/ /\ AnswerProve /\ vpc' = "proof" /\ request_policy(inputs)
               /\ Heard("prover")' = Heard("prover") \cup {"acceptProve"}
            \/ /\ vpc' = "failed"
               /\ \/ AnswerCommit /\ inputs.mpc /\ ~protocol_policy(inputs)
                  \/ AnswerProve /\ ~request_policy(inputs)
               /\ Heard("prover")' = Heard("prover") \cup {"reject"}
            \/ /\ vpc' = "failed"
               /\ (AnswerCommit /\ ~inputs.mpc) \/ CheckProof
               /\ Heard("prover")' = Heard("prover") \cup {"eof"}
<1> USE DEF Parties
<1>0. Peer("verifier") = "prover" /\ Parties \ {"prover"} = {"verifier"}
  BY DEF Peer
<1>1. ASSUME NEW k \in MuxKinds, Send("verifier", k), UNCHANGED inbox
      PROVE  Heard("verifier")' = Heard("verifier") /\ Heard("prover")' = Heard("prover") \cup {k}
  <2>1. Put("prover", Mux(k))
    BY <1>0, <1>1 DEF Send
  <2>2. QED
    BY <1>0, <1>1, <2>1, PutHeard
<1>2. CASE ReadPreamble
  <2>1. /\ wire["verifier"] # <<>> /\ Head(wire["verifier"]).kind = "VERIFY"
        /\ Take("verifier") /\ UNCHANGED inbox
    BY <1>2 DEF ReadPreamble, NextIs
  <2>2. wire'["verifier"] = Tail(wire["verifier"]) /\ wire'["prover"] = wire["prover"]
    BY <2>1 DEF Take, Typing, TypeOK
  <2>3. QED
    BY <2>1, <2>2, HeardRead, HeardSame, RawKinds
<1>3. CASE AnswerCommit
  <2>1. CASE ~inputs.mpc /\ VerifierFails("eof")
    BY <1>3, <2>1, HeardFails, Names DEF VerifierFails, VerifierGoes
  <2>2. CASE inputs.mpc /\ ~protocol_policy(inputs) /\ VerifierFails("reject")
    BY <1>3, <2>2, HeardFails, Names DEF VerifierFails, VerifierGoes
  <2>3. CASE /\ inputs.mpc /\ protocol_policy(inputs)
             /\ Send("verifier", "acceptCommit") /\ VerifierGoes("run") /\ UNCHANGED <<inbox, drv>>
    BY <1>1, <1>3, <2>3, Names DEF VerifierGoes
  <2>4. QED
    BY <1>3, <2>1, <2>2, <2>3 DEF AnswerCommit
<1>4. CASE RunMpc
  BY <1>1, <1>4, Names DEF RunMpc
<1>5. CASE AnswerProve
  <2>1. CASE ~request_policy(inputs) /\ VerifierFails("reject")
    BY <1>5, <2>1, HeardFails, Names DEF VerifierFails, VerifierGoes
  <2>2. CASE /\ request_policy(inputs)
             /\ Send("verifier", "acceptProve") /\ VerifierGoes("proof") /\ UNCHANGED <<inbox, drv>>
    BY <1>1, <1>5, <2>2, Names DEF VerifierGoes
  <2>3. QED
    BY <1>5, <2>1, <2>2 DEF AnswerProve
<1>6. CASE CheckProof
  <2>1. CASE VerifierFails("eof")
    BY <1>6, <2>1, HeardFails, Names DEF VerifierFails, VerifierGoes
  <2>2. CASE UNCHANGED streamVars
    BY <2>2, HeardSame DEF streamVars
  <2>3. QED
    BY <1>6, <2>1, <2>2 DEF CheckProof
<1>7. CASE Judge \/ VerifierBroken
  BY <1>7, HeardSame DEF Judge, VerifierBroken, streamVars
<1>8. CASE WriteFrame
  <2>1. UNCHANGED inbox /\ (vpc = "framePayload" => verdict \in Verdicts)
    BY <1>8 DEF WriteFrame, Typing, VerdictStage
  <2>2. \E i \in Items : i.kind \notin MuxKinds /\ Put("prover", i)
    BY <1>8, <2>1, ItemTyping, RawKinds DEF WriteFrame
  <2>3. QED
    BY <2>1, <2>2, RawUnheard
<1>9. QED
  BY <1>2, <1>3, <1>4, <1>5, <1>6, <1>7, <1>8 DEF Verifier

\* The drivers add their close.
LEMMA HeardDriver ==
  ASSUME Typing, NEW x \in Parties, Driver(x)
  PROVE  \A y \in Parties : Heard(y)' \in {Heard(y), Heard(y) \cup {"muxClose"}}
<1>1. CASE DriverReceives(x)
  <2>1. /\ wire[x] # <<>> /\ inbox'[x] = inbox[x] \cup {Head(wire[x])} /\ wire'[x] = Tail(wire[x])
        /\ \A y \in Parties \ {x} : wire'[y] = wire[y] /\ inbox'[y] = inbox[y]
    BY <1>1 DEF DriverReceives, Take, Typing, TypeOK
  <2>2. QED
    BY <2>1, HeardReceive, HeardSame
<1>2. CASE DriverCloses(x)
  <2>1. Put(Peer(x), Mux("muxClose")) /\ UNCHANGED inbox /\ Peer(x) \in Parties
    BY <1>2 DEF DriverCloses, Peer, Parties
  <2>2. QED
    BY <2>1, PutHeard, Names
<1>3. CASE DriverReturns(x)
  <2>1. UNCHANGED inbox /\ (Put("prover", Fin) \/ UNCHANGED wire) /\ "prover" \in Parties
    BY <1>3 DEF DriverReturns, Parties
  <2>2. Fin \in Items /\ Fin.kind \notin MuxKinds
    BY ItemTyping, RawKinds
  <2>3. QED
    BY <2>1, <2>2, RawUnheard, HeardSame
<1>4. CASE DriverBreaks(x)
  BY <1>4, HeardSame DEF DriverBreaks
<1>5. QED
  BY <1>1, <1>2, <1>3, <1>4 DEF Driver

-----------------------------------------------------------------------------
\* How the two sides advance.

\* A session that is down stays down.
LEMMA LiveStep ==
  ASSUME [Next]_vars, Live'
  PROVE  Live
<1>1. CASE Worker \/ HeapExhausted
  BY <1>1 DEF Live, Worker, HeapExhausted, SessionReady, WriteVerifyPreamble,
     WriteConnectPreamble, SetupAndConnect, CommitAccepted, CommitOrProveRefused, RequestTask,
     ConnectionTask, ProverFuture, JoinExchange, BuildProveConfig, ProveAccepted, ProofSent,
     SocketRecovered, ReadFrameLen, ReadFramePayload, FrameCutShort, ProverBroken, CloseSession,
     ProverGoes, ProverFails, Resolve
<1>2. CASE UNCHANGED transport \/ transport = "up"
  BY <1>2 DEF Live
<1>3. QED
  BY <1>1, <1>2, VerifierFrame, DriverFrame
     DEF Next, BankAnswers, BankGone, TransportLost, Terminated, vars

\* The worker's next state, and what it has waited for.
LEMMA WorkerGoes ==
  ASSUME Worker \/ HeapExhausted
  PROVE  \/ wk' = wk
         \/ wk = "ready" /\ wk' = "streams"
         \/ wk = "streams" /\ wk' = "preambles"
         \/ wk = "preambles" /\ wk' = "setup"
         \/ wk = "setup" /\ wk' = "commit"
         \/ wk = "commit" /\ Got("prover", "acceptCommit") /\ wk' = "http"
         \/ wk = "http" /\ wk' = "config"
         \/ wk = "config" /\ wk' = "prove"
         \/ wk = "prove" /\ Got("prover", "acceptProve") /\ wk' = "proving"
         \/ wk = "proving" /\ wk' \in {"io", "trapped"}
         \/ wk = "io" /\ wk' = "frameLen"
         \/ wk = "frameLen" /\ wk' = "framePayload"
         \/ wk \notin {"finally", "end", "trapped"} /\ wk' = "finally"
         \/ wk = "finally" /\ wk' = "end" /\ ~Live'
<1> USE DEF Live, ProverGoes, ProverFails, Resolve
<1>1. CASE SessionReady \/ WriteVerifyPreamble \/ WriteConnectPreamble \/ SetupAndConnect
  BY <1>1 DEF SessionReady, WriteVerifyPreamble, WriteConnectPreamble, SetupAndConnect
<1>2. CASE CommitAccepted \/ CommitOrProveRefused \/ ProveAccepted
  BY <1>2 DEF CommitAccepted, CommitOrProveRefused, ProveAccepted
<1>3. CASE RequestTask \/ ConnectionTask \/ ProverFuture
  BY <1>3 DEF RequestTask, ConnectionTask, ProverFuture
<1>4. CASE JoinExchange
  BY <1>4 DEF JoinExchange
<1>5. CASE BuildProveConfig
  BY <1>5 DEF BuildProveConfig
<1>6. CASE ProofSent \/ HeapExhausted \/ SocketRecovered \/ ReadFrameLen \/ ReadFramePayload
  BY <1>6 DEF ProofSent, HeapExhausted, SocketRecovered, ReadFrameLen, ReadFramePayload
<1>7. CASE FrameCutShort \/ ProverBroken \/ CloseSession
  BY <1>7 DEF FrameCutShort, ProverBroken, CloseSession
<1>8. QED
  BY <1>1, <1>2, <1>3, <1>4, <1>5, <1>6, <1>7 DEF Worker

\* The ways into its `finally'.
LEMMA WorkerEnds ==
  ASSUME Worker \/ HeapExhausted, wk' = "finally", Live'
  PROVE  \/ /\ wk \in {"commit", "prove"}
            /\ \/ Got("prover", "reject") /\ outcome' = Error("rejected")
               \/ Got("prover", "eof") /\ outcome' = Error("eof")
         \/ wk = "http" /\ \E f \in Futures : fut[f] = "err"
         \/ wk = "config" /\ bank.layout = "unmatched"
         \/ ReadFramePayload
         \/ wk \in {"frameLen", "framePayload"} /\ NextIs("prover", "fin") /\ outcome' = Error("eof")
         \/ drv["prover"] = "failed"
BY DEF Live, Worker, HeapExhausted, SessionReady, WriteVerifyPreamble,
     WriteConnectPreamble, SetupAndConnect, CommitAccepted, CommitOrProveRefused, RequestTask,
     ConnectionTask, ProverFuture, JoinExchange, BuildProveConfig, ProveAccepted, ProofSent,
     SocketRecovered, ReadFrameLen, FrameCutShort, ProverBroken, CloseSession,
     ProverGoes, ProverFails, Resolve, Futures

\* The verifier task's next state, and what it has waited for.
LEMMA VerifierAdvances ==
  ASSUME Verifier
  PROVE  \/ vpc = "preamble" /\ vpc' = "commit"
         \/ vpc = "commit" /\ Got("verifier", "commit") /\ vpc' = "run"
         \/ vpc = "run" /\ vpc' = "verify"
         \/ vpc = "verify" /\ Got("verifier", "prove") /\ vpc' = "proof"
         \/ vpc = "proof" /\ Got("verifier", "proof") /\ vpc' = "socket"
         \/ Judge /\ vpc = "socket" /\ vpc' = "frameLen"
         \/ WriteFrame /\ vpc = "frameLen" /\ vpc' = "framePayload"
         \/ WriteFrame /\ vpc = "framePayload" /\ vpc' = "closeIo"
         \/ WriteFrame /\ vpc = "closeIo" /\ vpc' = "end"
         \/ vpc \notin {"end", "failed"} /\ vpc' = "failed"
BY DEF Verifier, ReadPreamble, AnswerCommit, RunMpc, AnswerProve, CheckProof, Judge, WriteFrame,
       VerifierBroken, VerifierGoes, VerifierFails

\* The ways it fails while the session holds and its driver does.
LEMMA VerifierEnds ==
  ASSUME Verifier, vpc' = "failed", Live, drv["verifier"] # "failed"
  PROVE  \/ vpc = "commit" /\ Got("verifier", "commit") /\ ~(inputs.mpc /\ protocol_policy(inputs))
         \/ vpc = "verify" /\ Got("verifier", "prove") /\ ~request_policy(inputs)
         \/ vpc = "proof" /\ Got("verifier", "proof") /\ ~inputs.trusted
BY DEF Live, Verifier, ReadPreamble, AnswerCommit, RunMpc, AnswerProve, CheckProof, Judge,
       WriteFrame, VerifierBroken, VerifierGoes

-----------------------------------------------------------------------------
\* Every step keeps each side's knowledge of the other.

\* A driver, the bank and the network tell nobody anything, and take nothing back.
LEMMA HeardOther ==
  ASSUME Typing, [Next]_vars, ~(Worker \/ HeapExhausted), ~Verifier
  PROVE  /\ UNCHANGED <<inputs, wk, fut, outcome, vpc, verdict>>
         /\ bank' = bank \/ bank = Dialing
         /\ \A x \in Parties : Heard(x)' \in {Heard(x), Heard(x) \cup {"muxClose"}}
<1>1. ASSUME NEW x \in Parties, Driver(x)
      PROVE  /\ UNCHANGED <<inputs, wk, fut, outcome, vpc, verdict>>
             /\ bank' = bank \/ bank = Dialing
             /\ \A y \in Parties : Heard(y)' \in {Heard(y), Heard(y) \cup {"muxClose"}}
  BY <1>1, DriverFrame, HeardDriver
<1>2. CASE BankAnswers \/ BankGone \/ TransportLost \/ Terminated
  BY <1>2, EnvironmentFrame, HeardSame
<1>3. CASE UNCHANGED vars
  BY <1>3, HeardSame DEF vars
<1>4. QED
  BY <1>1, <1>2, <1>3 DEF Next

\* A frame in the inbox has been heard.
LEMMA GotHeard ==
  ASSUME NEW x \in Parties, NEW k \in MuxKinds, Got(x, k)
  PROVE  k \in Heard(x)
BY DEF Heard

\* Answers with a body that the rules were matched against.
LEMMA MatchedIsResponse ==
  ASSUME Typing, bank.layout \in {"readable", "unreadable"}
  PROVE  bank \in Responses
BY DEF Typing, TypeOK, Dialing, Gone

\* Every step keeps what the verifier has heard behind what the worker has done.
LEMMA AskedStep ==
  ASSUME Typing, Asked, Answered, [Next]_vars
  PROVE  Asked'
<1> DEFINE H == Heard("verifier")
<1> USE DEF Parties
<1>1. CASE Worker \/ HeapExhausted
  <2>1. UNCHANGED <<inputs, bank, vpc, verdict>>
    BY <1>1, WorkerFrame
  <2>2. CASE H' = H
    <3>1. wk' = "prove" => wk = "prove" \/ "prove" \in H'
      BY <1>1, <2>2, WorkerGoes, WorkerSends
    <3>2. QED
      BY <1>1, <2>1, <2>2, <3>1, WorkerGoes DEF Asked
  <2>3. CASE SetupAndConnect /\ H' = H \cup {"commit"}
    <3>1. wk = "setup" /\ wk' = "commit"
      BY <2>3 DEF SetupAndConnect, ProverGoes
    <3>2. QED
      BY <2>1, <2>3, <3>1 DEF Asked
  <2>4. CASE ProverFuture /\ H' = H \cup {"tls"}
    <3>1. wk' = wk
      BY <2>4 DEF ProverFuture, Resolve
    <3>2. QED
      BY <2>1, <2>4, <3>1 DEF Asked
  <2>5. CASE BuildProveConfig /\ wk' = "prove" /\ H' = H \cup {"prove"}
    <3>1. wk = "config" /\ bank.layout \in {"readable", "unreadable"}
      BY <2>5 DEF BuildProveConfig, ProverFails
    <3>2. bank \in Responses
      BY <3>1, MatchedIsResponse
    <3>3. QED
      BY <2>1, <2>5, <3>1, <3>2 DEF Asked
  <2>6. CASE ProofSent /\ H' = H \cup {"proof"}
    <3>1. wk = "proving" /\ wk' = "io"
      BY <2>6 DEF ProofSent, ProverGoes
    <3>2. QED
      BY <2>1, <2>6, <3>1 DEF Asked
  <2>7. QED
    BY <1>1, <2>2, <2>3, <2>4, <2>5, <2>6, HeardWorker
<1>2. CASE Verifier
  <2>1. UNCHANGED <<bank, wk>> /\ H' = H
    BY <1>2, VerifierFrame, HeardVerifier
  <2>2. \A k \in {"commit", "prove", "proof"} : Got("verifier", k) => k \in H
    BY GotHeard, Names
  <2>3. verdict' = verdict \/ vpc = "socket"
    BY VerdictStep DEF Judge
  <2>4. QED
    BY <1>2, <2>1, <2>2, <2>3, VerifierAdvances DEF Asked
<1>3. CASE ~(Worker \/ HeapExhausted) /\ ~Verifier
  <2>1. UNCHANGED <<wk, vpc, verdict>> /\ (bank' = bank \/ bank = Dialing)
        /\ H' \in {H, H \cup {"muxClose"}}
    BY <1>3, HeardOther
  <2>2. Dialing \notin Responses
    BY DEF Dialing, Responses, Layouts
  <2>3. QED
    BY <2>1, <2>2 DEF Asked
<1>4. QED
  BY <1>1, <1>2, <1>3

\* Every step keeps what the prover has heard behind what the verifier has found.
LEMMA AnsweredStep ==
  ASSUME Typing, Checked, Asked, Answered, [Next]_vars
  PROVE  Answered'
<1> DEFINE H == Heard("prover")
<1> USE DEF Parties
<1>1. CASE Worker \/ HeapExhausted
  <2>1. UNCHANGED <<inputs, vpc>> /\ H' = H
    BY <1>1, WorkerFrame, HeardWorker
  <2>2. \A k \in {"acceptCommit", "acceptProve"} : Got("prover", k) => k \in H
    BY GotHeard, Names
  <2>3. QED
    BY <1>1, <2>1, <2>2, WorkerGoes DEF Answered, protocol_policy, request_policy
<1>2. CASE Verifier
  <2>1. UNCHANGED <<inputs, wk>>
    BY <1>2, VerifierFrame
  <2>2. /\ AnswerProve => vpc = "verify" /\ inputs.mpc /\ protocol_policy(inputs)
        /\ AnswerCommit => vpc = "commit"
        /\ CheckProof => vpc = "proof" /\ inputs.mpc /\ protocol_policy(inputs) /\ request_policy(inputs)
    BY DEF AnswerProve, CheckProof, AnswerCommit, Checked
  <2>3. protocol_policy(inputs)' = protocol_policy(inputs) /\ request_policy(inputs)' = request_policy(inputs)
    BY <2>1 DEF protocol_policy, request_policy
  <2>4. QED
    BY <1>2, <2>1, <2>2, <2>3, HeardVerifier, VerifierAdvances DEF Answered
<1>3. CASE ~(Worker \/ HeapExhausted) /\ ~Verifier
  <2>1. UNCHANGED <<inputs, wk, vpc>> /\ H' \in {H, H \cup {"muxClose"}}
    BY <1>3, HeardOther
  <2>2. QED
    BY <2>1 DEF Answered, protocol_policy, request_policy
<1>4. QED
  BY <1>1, <1>2, <1>3

\* The drivers fail with the session only.
LEMMA DriversHold ==
  ASSUME Typing, Live, \A x \in Parties : drv[x] # "failed", [Next]_vars
  PROVE  \A x \in Parties : drv'[x] # "failed"
<1> USE DEF Typing, TypeOK, Parties
<1>1. CASE Worker \/ HeapExhausted
  BY <1>1 DEF Worker, HeapExhausted, SessionReady, WriteVerifyPreamble, WriteConnectPreamble,
     SetupAndConnect, CommitAccepted, CommitOrProveRefused, RequestTask, ConnectionTask,
     ProverFuture, JoinExchange, BuildProveConfig, ProveAccepted, ProofSent, SocketRecovered,
     ReadFrameLen, ReadFramePayload, FrameCutShort, ProverBroken, CloseSession, Resolve, streamVars
<1>2. CASE Verifier
  BY <1>2 DEF Verifier, ReadPreamble, AnswerCommit, RunMpc, AnswerProve, CheckProof, Judge,
     WriteFrame, VerifierBroken, VerifierFails, streamVars
<1>3. ASSUME NEW x \in Parties, Driver(x)
      PROVE  \A y \in Parties : drv'[y] # "failed"
  BY <1>3 DEF Live, Driver, DriverReceives, DriverCloses, DriverReturns, DriverBreaks
<1>4. CASE UNCHANGED drv
  BY <1>4
<1>5. QED
  BY <1>1, <1>2, <1>3, <1>4, EnvironmentFrame DEF Next, vars

\* Over a live session no step fails but to turn down a prover that is waiting.
LEMMA UnbrokenStep ==
  ASSUME Typing, Checked, Asked, Answered, Unbroken, [Next]_vars
  PROVE  Unbroken'
<1> SUFFICES ASSUME Live'
             PROVE  Unbroken'
  BY DEF Unbroken
<1> DEFINE H == Heard("verifier")
           A == Heard("prover")
<1> USE DEF Parties
<1>0. Live /\ \A x \in Parties : drv[x] # "failed" /\ drv'[x] # "failed"
  BY LiveStep, DriversHold DEF Unbroken
<1>1. CASE Worker \/ HeapExhausted
  <2>1. UNCHANGED <<vpc, verdict>> /\ A' = A
    BY <1>1, WorkerFrame, HeardWorker
  <2>2. "prove" \in H => "prove" \in H'
    BY <1>1, HeardWorker
  <2>3. Got("prover", "acceptCommit") => "acceptCommit" \in A
    BY GotHeard, Names
  <2>4. vpc = "failed" => wk' \notin {"http", "config"}
    <3>1. vpc = "failed" /\ Got("prover", "acceptCommit") => wk # "commit"
      BY <1>0, <2>3 DEF Unbroken, Asked
    <3>2. QED
      BY <1>0, <1>1, <3>1, WorkerGoes DEF Unbroken
  <2>5. QED
    BY <1>0, <2>1, <2>2, <2>4 DEF Unbroken
<1>2. CASE Verifier
  <2>1. UNCHANGED wk /\ H' = H
    BY <1>2, VerifierFrame, HeardVerifier
  <2>2. vpc = "failed" => vpc' # "failed"
    BY <1>2, VerifierAdvances
  <2>3. CASE vpc' = "failed"
    <3>1. /\ vpc \in {"commit", "verify", "proof"}
          /\ vpc = "verify" => "prove" \in H
      BY <1>0, <1>2, <2>3, VerifierEnds, GotHeard, Names
    <3>2. vpc = "proof" => "prove" \in H
      BY DEF Asked
    <3>3. verdict' = Undecided
      BY <3>1, VerdictStep DEF Typing, VerdictStage, Judge
    <3>4. vpc = "commit" => "acceptCommit" \notin A /\ "acceptCommit" \notin A'
      BY <1>2, <2>3, HeardVerifier DEF Answered
    <3>5. "prove" \in H \/ ("acceptCommit" \notin A /\ "acceptCommit" \notin A')
      BY <3>1, <3>2, <3>4
    <3>6. wk \notin {"http", "config"}
      BY <3>5 DEF Asked, Answered
    <3>7. QED
      BY <1>0, <2>1, <3>3, <3>5, <3>6 DEF Unbroken
  <2>4. CASE vpc' # "failed"
    <3>1. verdict' = verdict \/ vpc' = "frameLen"
      BY VerdictStep DEF Judge
    <3>2. QED
      BY <1>0, <1>2, <2>4, <3>1, VerifierAdvances DEF Unbroken
  <2>5. QED
    BY <2>3, <2>4
<1>3. CASE ~(Worker \/ HeapExhausted) /\ ~Verifier
  <2>1. UNCHANGED <<wk, vpc, verdict>>
    BY <1>3, HeardOther
  <2>2. A' \in {A, A \cup {"muxClose"}} /\ H' \in {H, H \cup {"muxClose"}}
    BY <1>3, HeardOther
  <2>3. QED
    BY <1>0, <2>1, <2>2 DEF Unbroken
<1>4. QED
  BY <1>1, <1>2, <1>3

-----------------------------------------------------------------------------
\* The outcome frame arrives whole.

\* A write behind what is on the wire, ...
LEMMA AppendOrder ==
  ASSUME NEW w \in Seq(Items), NEW i \in Items
  PROVE  \A kind : /\ OnWire(Append(w, i), kind) <=> OnWire(w, kind) \/ i.kind = kind
                   /\ EndAfter(w, kind) /\ (i.kind = "fin" => OnWire(w, kind))
                        => EndAfter(Append(w, i), kind)
<1> DEFINE v == Append(w, i)
<1>1. /\ Len(v) = Len(w) + 1 /\ Len(w) \in Nat /\ v[Len(w) + 1] = i
      /\ \A j \in 1..Len(w) : v[j] = w[j]
  OBVIOUS
<1>2. TAKE kind
<1>3. OnWire(v, kind) <=> OnWire(w, kind) \/ i.kind = kind
  BY <1>1 DEF OnWire
<1>4. ASSUME EndAfter(w, kind), i.kind = "fin" => OnWire(w, kind),
             NEW n \in 1..Len(v), v[n].kind = "fin"
      PROVE  \E j \in 1..(n - 1) : v[j].kind = kind
  <2>1. CASE n = Len(w) + 1
    <3>1. PICK j \in 1..Len(w) : w[j].kind = kind
      BY <1>1, <1>4, <2>1 DEF OnWire
    <3>2. j \in 1..(n - 1) /\ v[j].kind = kind
      BY <1>1, <2>1, <3>1
    <3>3. QED
      BY <3>2
  <2>2. CASE n # Len(w) + 1
    <3>1. n \in 1..Len(w) /\ w[n].kind = "fin"
      BY <1>1, <1>4, <2>2
    <3>2. PICK j \in 1..(n - 1) : w[j].kind = kind
      BY <1>4, <3>1 DEF EndAfter
    <3>3. j \in 1..Len(w)
      BY <1>1, <3>1, <3>2
    <3>4. QED
      BY <1>1, <3>2, <3>3
  <2>3. QED
    BY <2>1, <2>2
<1>5. QED
  BY <1>3, <1>4 DEF EndAfter

\* ... and a read in front of it.
LEMMA TailOrder ==
  ASSUME NEW w \in Seq(Items), w # <<>>
  PROVE  \A kind : /\ OnWire(Tail(w), kind) => OnWire(w, kind)
                   /\ Head(w).kind # kind => (OnWire(w, kind) => OnWire(Tail(w), kind))
                   /\ Head(w).kind # kind /\ EndAfter(w, kind) => EndAfter(Tail(w), kind)
                   /\ OnWire(w, Head(w).kind)
                   /\ Head(w).kind = "fin" => ~EndAfter(w, kind)
<1> DEFINE v == Tail(w)
<1>1. /\ Len(w) \in Nat /\ Len(w) >= 1 /\ Len(v) = Len(w) - 1 /\ Head(w) = w[1]
      /\ \A j \in 1..Len(v) : v[j] = w[j + 1]
  OBVIOUS
<1>2. TAKE kind
<1>3. OnWire(v, kind) => OnWire(w, kind)
  <2>1. ASSUME NEW j \in 1..Len(v), v[j].kind = kind
        PROVE  j + 1 \in 1..Len(w) /\ w[j + 1].kind = kind
    BY <1>1, <2>1
  <2>2. QED
    BY <2>1 DEF OnWire
<1>4. ASSUME NEW j \in 1..Len(w), w[j].kind = kind, Head(w).kind # kind
      PROVE  j - 1 \in 1..Len(v) /\ v[j - 1].kind = kind
  <2>1. j # 1
    BY <1>1, <1>4
  <2>2. QED
    BY <1>1, <1>4, <2>1
<1>5. Head(w).kind # kind => (OnWire(w, kind) => OnWire(v, kind))
  BY <1>4 DEF OnWire
<1>6. ASSUME EndAfter(w, kind), Head(w).kind # kind, NEW n \in 1..Len(v), v[n].kind = "fin"
      PROVE  \E j \in 1..(n - 1) : v[j].kind = kind
  <2>1. n + 1 \in 1..Len(w) /\ w[n + 1].kind = "fin"
    BY <1>1, <1>6
  <2>2. PICK j \in 1..n : w[j].kind = kind
    BY <1>6, <2>1 DEF EndAfter
  <2>3. j \in 1..Len(w) /\ j # 1
    BY <1>1, <1>6, <2>1, <2>2
  <2>4. j - 1 \in 1..(n - 1) /\ v[j - 1].kind = kind
    BY <1>1, <2>2, <2>3
  <2>5. QED
    BY <2>4
<1>7. 1 \in 1..Len(w) /\ 1..(1 - 1) = {}
  BY <1>1
<1>8. OnWire(w, Head(w).kind)
  BY <1>1, <1>7 DEF OnWire
<1>9. Head(w).kind = "fin" => ~EndAfter(w, kind)
  BY <1>1, <1>7 DEF EndAfter
<1>10. QED
  BY <1>3, <1>5, <1>6, <1>8, <1>9 DEF EndAfter

\* What may happen on the wire to the prover: a frame of the multiplexer, ...
MuxFrame(w) == \E k \in MuxKinds : w' = Append(w, Mux(k))

\* ... the end of the stream after an early return, ...
EarlyEnd(w) == vpc' = "failed" /\ w' = Append(w, Fin)

\* ... a part of write_json_frame and close, ...
FramePart(w) ==
  \/ vpc = "frameLen" /\ vpc' = "framePayload" /\ w' = Append(w, FrameLen)
  \/ vpc = "framePayload" /\ vpc' = "closeIo" /\ w' = Append(w, Payload(verdict))
  \/ vpc = "closeIo" /\ vpc' = "end" /\ w' = Append(w, Fin)

\* ... and the reads of the driver and of read_verification_outcome.
DriverRead(w) == w # <<>> /\ w' = Tail(w) /\ Head(w).kind \notin {"len", "payload", "fin"}
OutcomeRead(w) ==
  /\ w # <<>> /\ w' = Tail(w)
  /\ \/ wk = "frameLen" /\ wk' = "framePayload" /\ Head(w).kind = "len"
     \/ wk = "framePayload" /\ wk' = "finally" /\ Head(w).kind = "payload"

\* Before its peer's close a driver has no part of the outcome frame in front of it, ...
LEMMA HeadIsNotRaw ==
  ASSUME NEW w \in Seq(Items), w # <<>>, RawBehind(w, FALSE)
  PROVE  Head(w) \in Items \ RawItems
<1>1. Len(w) \in Nat /\ Len(w) >= 1 /\ Head(w) = w[1] /\ 1 \in 1..Len(w) /\ 1..(1 - 1) = {}
  OBVIOUS
<1>2. w[1] \notin RawItems
  BY <1>1 DEF RawBehind
<1>3. QED
  BY <1>1, <1>2

\* ... only a frame of its own, or the preamble.
LEMMA MuxOrPreamble ==
  ASSUME NEW i \in Items \ RawItems
  PROVE  i.kind \notin {"len", "payload", "fin"}
BY RawKinds DEF Items

\* Nothing else happens to it.
LEMMA WireStep ==
  ASSUME Typing, CloseBeforeFrame, [Next]_vars
  PROVE  \/ FramePart(wire["prover"]) /\ UNCHANGED wk
         \/ /\ vpc' \in {"framePayload", "closeIo", "end"} => vpc' = vpc
            /\ vpc \in {"framePayload", "closeIo", "end"} => vpc' \in {vpc, "failed"}
            /\ \/ wire["prover"]' = wire["prover"]
               \/ MuxFrame(wire["prover"])
               \/ EarlyEnd(wire["prover"])
               \/ DriverRead(wire["prover"])
               \/ OutcomeRead(wire["prover"])
<1> DEFINE w == wire["prover"]
           P == {"framePayload", "closeIo", "end"}
<1> USE DEF Parties
<1>0. w \in Seq(Items) /\ wire \in [Parties -> Seq(Items)]
  BY DEF Typing, TypeOK
<1>1. CASE Worker \/ HeapExhausted
  <2>1. UNCHANGED vpc
    BY <1>1, WorkerFrame
  <2>2. CASE ReadFrameLen \/ ReadFramePayload
    <3>1. OutcomeRead(w)
      BY <1>0, <2>2 DEF OutcomeRead, ReadFrameLen, ReadFramePayload, NextIs, Take, ProverGoes
    <3>2. QED
      BY <2>1, <3>1
  <2>3. CASE ~(ReadFrameLen \/ ReadFramePayload)
    <3>1. UNCHANGED wire \/ \E i : Put("verifier", i)
      BY <1>1, <2>3 DEF Worker, HeapExhausted, SessionReady, WriteVerifyPreamble,
         WriteConnectPreamble, SetupAndConnect, CommitAccepted, CommitOrProveRefused, RequestTask,
         ConnectionTask, ProverFuture, JoinExchange, BuildProveConfig, ProveAccepted, ProofSent,
         SocketRecovered, FrameCutShort, ProverBroken, CloseSession, Resolve, streamVars, Send, Peer
    <3>2. w' = w
      BY <1>0, <3>1 DEF Put
    <3>3. QED
      BY <2>1, <3>2
  <2>4. QED
    BY <2>2, <2>3
<1>2. CASE Verifier
  <2>1. UNCHANGED wk
    BY <1>2, VerifierFrame
  <2>2. CASE WriteFrame
    <3>1. FramePart(w)
      BY <1>0, <2>2 DEF WriteFrame, VerifierGoes, Put, FramePart
    <3>2. QED
      BY <2>1, <3>1
  <2>3. CASE ~WriteFrame
    <3>1. /\ vpc' \in P => vpc' = vpc
          /\ vpc \in P => vpc' \in {vpc, "failed"}
      BY <1>2, <2>3, VerifierAdvances
    <3>2. \/ w' = w \/ MuxFrame(w)
          \/ (\E k : VerifierFails(k)) /\ w' = Append(w, Fin)
      <4>1. CASE ReadPreamble
        BY <1>0, <4>1 DEF ReadPreamble, Take
      <4>2. CASE RunMpc
        BY <1>0, <4>2, Names DEF RunMpc, Send, Put, Peer, MuxFrame
      <4>3. CASE Judge \/ VerifierBroken
        BY <4>3 DEF Judge, VerifierBroken, streamVars
      <4>4. CASE \E k \in MuxKinds : VerifierFails(k)
        BY <4>4, VerifierFailsWire DEF MuxFrame
      <4>5. CASE /\ AnswerCommit \/ AnswerProve \/ CheckProof
                 /\ ~\E k \in MuxKinds : VerifierFails(k)
        BY <1>0, <4>5, Names
           DEF AnswerCommit, AnswerProve, CheckProof, Send, Put, Peer, streamVars, MuxFrame
      <4>6. QED
        BY <1>2, <2>3, <4>1, <4>2, <4>3, <4>4, <4>5 DEF Verifier
    <3>3. (\E k : VerifierFails(k)) => vpc' = "failed"
      BY DEF VerifierFails, VerifierGoes
    <3>4. QED
      BY <3>1, <3>2, <3>3 DEF EarlyEnd
  <2>4. QED
    BY <2>2, <2>3
<1>3. ASSUME NEW x \in Parties, Driver(x)
      PROVE  UNCHANGED vpc /\ (w' = w \/ MuxFrame(w) \/ EarlyEnd(w) \/ DriverRead(w))
  <2>1. UNCHANGED vpc
    BY <1>3, DriverFrame
  <2>2. CASE DriverReceives(x)
    <3>1. w' = w \/ (w # <<>> /\ ~Got("prover", "muxClose") /\ w' = Tail(w))
      BY <1>0, <2>2 DEF DriverReceives, Take
    <3>2. w # <<>> /\ ~Got("prover", "muxClose") => Head(w) \in Items \ RawItems
      BY <1>0, HeadIsNotRaw DEF CloseBeforeFrame, RawBehind
    <3>3. QED
      BY <2>1, <3>1, <3>2, MuxOrPreamble DEF DriverRead
  <2>3. CASE DriverCloses(x)
    BY <1>0, <2>1, <2>3, Names DEF DriverCloses, Put, Peer, MuxFrame
  <2>4. CASE DriverReturns(x)
    BY <1>0, <2>1, <2>4 DEF DriverReturns, Put, EarlyEnd
  <2>5. CASE DriverBreaks(x)
    BY <2>1, <2>5 DEF DriverBreaks
  <2>6. QED
    BY <1>3, <2>2, <2>3, <2>4, <2>5 DEF Driver
<1>4. CASE UNCHANGED <<vpc, wire>>
  BY <1>4
<1>5. QED
  BY <1>1, <1>2, <1>3, <1>4, EnvironmentFrame DEF Next, vars

\* Every step keeps the parts of the frame in their order, and in front of the end.
LEMMA FrameInOrderStep ==
  ASSUME Typing, CloseBeforeFrame, Unbroken, FrameInOrder, [Next]_vars
  PROVE  FrameInOrder'
<1> SUFFICES ASSUME Live'
             PROVE  FrameInOrder'
  BY DEF FrameInOrder
<1> DEFINE w == wire["prover"]
           P == {"framePayload", "closeIo", "end"}
<1>0. w \in Seq(Items) /\ Fin \in Items /\ FrameLen \in Items
      /\ \A k \in MuxKinds : Mux(k) \in Items
  BY ItemTyping DEF Typing, TypeOK, Parties
<1>1. Live /\ drv["verifier"] # "failed"
  BY LiveStep DEF Unbroken, Parties
<1>2. /\ wk' \notin {"framePayload", "finally", "end", "trapped"} =>
           wk \notin {"framePayload", "finally", "end", "trapped"}
      /\ wk' \notin {"finally", "end", "trapped"} => wk \notin {"finally", "end", "trapped"}
  BY WorkerGoes, VerifierFrame, HeardOther
<1>3. /\ vpc \in P => vpc' # "failed"
      /\ vpc = "failed" => vpc' = "failed"
  <2>1. CASE Verifier
    BY <1>1, <2>1, VerifierEnds, VerifierAdvances
  <2>2. CASE ~Verifier
    BY <2>2, WorkerFrame, HeardOther
  <2>3. QED
    BY <2>1, <2>2
<1>4. CASE FramePart(w)
  <2>1. CASE vpc = "frameLen" /\ vpc' = "framePayload" /\ w' = Append(w, FrameLen)
    BY <1>0, <1>1, <1>2, <2>1, AppendOrder, RawKinds DEF FrameInOrder
  <2>2. CASE vpc = "framePayload" /\ vpc' = "closeIo" /\ w' = Append(w, Payload(verdict))
    <3>1. Payload(verdict) \in Items
      BY <2>2, ItemTyping DEF Typing, VerdictStage
    <3>2. QED
      BY <1>0, <1>1, <1>2, <2>2, <3>1, AppendOrder, RawKinds DEF FrameInOrder
  <2>3. CASE vpc = "closeIo" /\ vpc' = "end" /\ w' = Append(w, Fin)
    BY <1>0, <1>1, <1>2, <2>3, AppendOrder, RawKinds DEF FrameInOrder
  <2>4. QED
    BY <1>4, <2>1, <2>2, <2>3 DEF FramePart
<1>5. ASSUME vpc' \in P => vpc' = vpc, vpc \in P => vpc' \in {vpc, "failed"}
      PROVE  w' = w \/ MuxFrame(w) \/ EarlyEnd(w) \/ DriverRead(w) \/ OutcomeRead(w)
               => FrameInOrder'
  <2>1. CASE w' = w
    BY <1>1, <1>2, <1>3, <1>5, <2>1 DEF FrameInOrder
  <2>2. CASE MuxFrame(w)
    <3>1. PICK k \in MuxKinds : w' = Append(w, Mux(k))
      BY <2>2 DEF MuxFrame
    <3>2. Mux(k).kind \notin {"len", "payload", "fin"}
      BY RawKinds
    <3>3. QED
      BY <1>0, <1>1, <1>2, <1>3, <1>5, <3>1, <3>2, AppendOrder DEF FrameInOrder
  <2>3. CASE EarlyEnd(w)
    BY <1>0, <1>1, <1>2, <1>3, <1>5, <2>3, AppendOrder, RawKinds DEF FrameInOrder, EarlyEnd
  <2>4. CASE DriverRead(w)
    BY <1>0, <1>1, <1>2, <1>3, <1>5, <2>4, TailOrder DEF FrameInOrder, DriverRead
  <2>5. CASE OutcomeRead(w)
    BY <1>0, <1>1, <1>2, <1>3, <1>5, <2>5, TailOrder DEF FrameInOrder, OutcomeRead
  <2>6. QED
    BY <2>1, <2>2, <2>3, <2>4, <2>5
<1>6. QED
  BY <1>4, <1>5, WireStep

-----------------------------------------------------------------------------
\* What the worker reports, and what it leaves behind.

\* The five ways to its `finally' that a live session leaves open: it was turned
\* down, the bank failed it (twice), it read the verdict, or the stream ended early.
Reports ==
  \/ /\ vpc = "failed" /\ wk \in {"commit", "prove"}
     /\ outcome' = IF inputs.mpc /\ ~(protocol_policy(inputs) /\ request_policy(inputs))
                   THEN Error("rejected") ELSE Error("eof")
  \/ wk = "http" /\ (bank = Gone \/ bank.layout = "status")
  \/ wk = "config" /\ bank.layout = "unmatched"
  \/ /\ wk = "framePayload" /\ vpc \in {"closeIo", "end"}
     /\ verdict \in Verdicts /\ outcome' = Told(verdict)
  \/ wk \in {"frameLen", "framePayload"} /\ vpc = "failed" /\ outcome' = Error("eof")

\* There is no sixth.
LEMMA WorkerReports ==
  ASSUME Typing, Answered, Unbroken, FrameInOrder, BankIsToBlame, PayloadIsVerdict, Live,
         Worker \/ HeapExhausted, wk' = "finally", Live'
  PROVE  Reports /\ Heard("verifier")' = Heard("verifier")
<1> DEFINE w == wire["prover"]
<1> USE DEF Parties
<1>0. w \in Seq(Items) /\ drv["prover"] # "failed"
  BY DEF Typing, TypeOK, Unbroken
<1>1. ASSUME wk \in {"commit", "prove"} /\ Got("prover", "reject") /\ outcome' = Error("rejected")
      PROVE  Reports
  <2>1. "reject" \in Heard("prover")
    BY <1>1, GotHeard, Names
  <2>2. QED
    BY <1>1, <2>1 DEF Answered, Reports
<1>2. ASSUME wk \in {"commit", "prove"} /\ Got("prover", "eof") /\ outcome' = Error("eof")
      PROVE  Reports
  <2>1. "eof" \in Heard("prover")
    BY <1>2, GotHeard, Names
  <2>2. QED
    BY <1>2, <2>1 DEF Answered, Reports
<1>3. ASSUME wk = "http" /\ \E f \in Futures : fut[f] = "err"
      PROVE  Reports
  BY <1>3 DEF BankIsToBlame, Reports
<1>4. ASSUME wk = "config" /\ bank.layout = "unmatched"
      PROVE  Reports
  BY <1>4 DEF Reports
<1>5. ASSUME ReadFramePayload
      PROVE  Reports
  <2>1. w # <<>> /\ Head(w).kind = "payload" /\ wk = "framePayload"
    BY <1>5 DEF ReadFramePayload, NextIs
  <2>2. OnWire(w, "payload")
    BY <1>0, <2>1, TailOrder
  <2>3. Head(w) = w[1] /\ 1 \in 1..Len(w)
    BY <1>0, <2>1
  <2>4. verdict \in Verdicts /\ Head(w).outcome = verdict
    BY <2>1, <2>3 DEF PayloadIsVerdict, Payload
  <2>5. outcome' = Told(verdict)
    BY <1>5, <2>4 DEF ReadFramePayload, Told
  <2>6. QED
    BY <2>1, <2>2, <2>4, <2>5 DEF FrameInOrder, Reports
<1>6. ASSUME wk \in {"frameLen", "framePayload"} /\ NextIs("prover", "fin") /\ outcome' = Error("eof")
      PROVE  Reports
  <2>1. w # <<>> /\ Head(w).kind = "fin"
    BY <1>6 DEF NextIs
  <2>2. OnWire(w, "fin") /\ ~EndAfter(w, "len") /\ ~EndAfter(w, "payload")
    BY <1>0, <2>1, TailOrder
  <2>3. vpc = "failed"
    BY <1>6, <2>2 DEF FrameInOrder
  <2>4. QED
    BY <1>6, <2>3 DEF Reports
<1>7. Heard("verifier")' = Heard("verifier")
  <2>1. /\ SetupAndConnect => wk' = "commit"
        /\ ProverFuture => wk' = "http"
        /\ ProofSent => wk' = "io"
    BY DEF SetupAndConnect, ProverFuture, ProofSent, ProverGoes, Resolve
  <2>2. QED
    BY <2>1, HeardWorker
<1>8. QED
  BY <1>0, <1>1, <1>2, <1>3, <1>4, <1>5, <1>6, <1>7, WorkerEnds

\* What a step from or into `finally' may be.
LEMMA FinallyStep ==
  ASSUME [Next]_vars, wk' = "finally", Live'
  PROVE  \/ (Worker \/ HeapExhausted)
         \/ wk = "finally" /\ UNCHANGED <<outcome, inputs>>
<1>1. ~(Worker \/ HeapExhausted) => UNCHANGED <<wk, outcome, inputs>>
  BY VerifierFrame, DriverFrame, EnvironmentFrame DEF Next, vars
<1>2. QED
  BY <1>1

\* Every step keeps the verifier clear of what a finished prover has left.
LEMMA FinishedStep ==
  ASSUME Typing, Asked, Answered, Unbroken, FrameInOrder, BankIsToBlame, PayloadIsVerdict,
         Finished, [Next]_vars
  PROVE  Finished'
<1> SUFFICES ASSUME Live', wk' = "finally"
             PROVE  Finished'
  BY DEF Finished
<1> DEFINE H == Heard("verifier")
<1>0. Live
  BY LiveStep
<1>1. CASE Worker \/ HeapExhausted
  <2>1. UNCHANGED vpc /\ H' = H /\ Reports
    BY <1>0, <1>1, WorkerFrame, WorkerReports
  <2>2. CASE wk \in {"http", "config"}
    BY <2>1, <2>2 DEF Finished, Asked, Answered
  <2>3. CASE wk \notin {"http", "config"}
    BY <2>1, <2>3 DEF Finished, Reports
  <2>4. QED
    BY <2>2, <2>3
<1>2. CASE Verifier
  <2>1. UNCHANGED wk /\ H' = H
    BY <1>2, VerifierFrame, HeardVerifier
  <2>2. QED
    BY <1>0, <1>2, <2>1, VerifierAdvances DEF Finished, Asked
<1>3. CASE ~(Worker \/ HeapExhausted) /\ ~Verifier
  <2>1. UNCHANGED <<wk, vpc>> /\ H' \in {H, H \cup {"muxClose"}}
    BY <1>3, HeardOther DEF Parties
  <2>2. QED
    BY <1>0, <2>1 DEF Finished
<1>4. QED
  BY <1>1, <1>2, <1>3

\* A prover that asks for exactly the limits, under the bank's own name, passes both policies.
LEMMA WorkerPasses ==
  ASSUME NotarizationAssumption, inputs = WorkerInputs
  PROVE  /\ inputs.mpc /\ inputs.trusted /\ protocol_policy(inputs) /\ request_policy(inputs)
         /\ \A r : Validation(inputs, r) =
              IF r.layout = "readable" THEN Success(r.balance) ELSE Failure("unreadable")
BY DEF NotarizationAssumption, WorkerInputs, protocol_policy, request_policy, Validation

\* Every step keeps the bank the only one to fail the page's own worker.
LEMMA BankStep ==
  ASSUME Typing, NotarizationAssumption, Asked, Answered, Unbroken, FrameInOrder,
         PayloadIsVerdict, BankIsToBlame, [Next]_vars
  PROVE  BankIsToBlame'
<1> USE DEF Typing, TypeOK
<1>0. /\ inputs' = inputs
      /\ bank' = bank \/ bank = Dialing
      /\ Live' => Live /\ \A x \in Parties : drv[x] # "failed"
  BY LiveStep, WorkerFrame, VerifierFrame, DriverFrame, EnvironmentFrame DEF Next, vars, Unbroken
<1>1. /\ Dialing # Gone /\ Dialing \notin Responses
      /\ Dialing.layout \notin {"status", "unmatched", "unreadable", "readable"}
  BY DEF Dialing, Gone, Responses, Layouts
<1>2. ASSUME Live', NEW f \in Futures, fut'[f] = "err"
      PROVE  bank' = Gone \/ bank'.layout = "status"
  <2>1. \A g \in Futures : fut[g] = "err" => bank = Gone \/ bank.layout = "status"
    BY <1>0, <1>2 DEF BankIsToBlame
  <2>2. CASE RequestTask
    <3>1. /\ fut' = [fut EXCEPT !["request"] = fut'["request"]] /\ bank' = bank
          /\ fut'["request"] = "err" =>
               bank.layout = "status" \/ bank = Gone \/ fut["prover"] = "err"
      BY <2>2 DEF RequestTask, Resolve, Futures
    <3>2. QED
      BY <1>2, <2>1, <3>1 DEF Futures
  <2>3. CASE ConnectionTask
    <3>1. /\ fut' = [fut EXCEPT !["connection"] = fut'["connection"]] /\ bank' = bank
          /\ fut'["connection"] = "err" => bank = Gone \/ fut["prover"] = "err"
      BY <2>3 DEF ConnectionTask, Resolve, Futures
    <3>2. QED
      BY <1>2, <2>1, <3>1 DEF Futures
  <2>4. CASE ProverFuture
    <3>1. /\ fut' = [fut EXCEPT !["prover"] = fut'["prover"]] /\ bank' = bank
          /\ fut'["prover"] = "err" => bank = Gone \/ drv["prover"] = "failed"
      BY <2>4 DEF ProverFuture, Resolve, Futures
    <3>2. QED
      BY <1>0, <1>2, <2>1, <3>1 DEF Futures, Parties
  <2>5. CASE UNCHANGED fut
    BY <1>0, <1>1, <1>2, <2>1, <2>5
  <2>6. ~(RequestTask \/ ConnectionTask \/ ProverFuture) => UNCHANGED fut
    BY VerifierFrame, DriverFrame, EnvironmentFrame DEF Next, vars, Worker, HeapExhausted,
       SessionReady, WriteVerifyPreamble, WriteConnectPreamble, SetupAndConnect, CommitAccepted,
       CommitOrProveRefused, JoinExchange, BuildProveConfig, ProveAccepted, ProofSent,
       SocketRecovered, ReadFrameLen, ReadFramePayload, FrameCutShort, ProverBroken, CloseSession,
       ProverGoes, ProverFails
  <2>7. QED
    BY <2>2, <2>3, <2>4, <2>5, <2>6
<1>3. ASSUME Live', inputs' = WorkerInputs
      PROVE  vpc' # "failed"
  <2>1. Live /\ inputs = WorkerInputs /\ vpc # "failed" /\ drv["verifier"] # "failed"
    BY <1>0, <1>3 DEF BankIsToBlame, Parties, WorkerInputs
  <2>2. CASE Verifier
    BY <2>1, <2>2, VerifierEnds, WorkerPasses
  <2>3. CASE ~Verifier
    BY <2>1, <2>3, WorkerFrame, HeardOther
  <2>4. QED
    BY <2>2, <2>3
<1>4. verdict' # Undecided => verdict' = Validation(inputs', bank')
  <2>1. CASE Judge
    BY <1>0, <2>1, VerifierFrame DEF Judge, Verifier
  <2>2. CASE ~Judge
    <3>1. verdict' = verdict
      BY <2>2, VerdictStep
    <3>2. verdict # Undecided => bank \in Responses
      BY DEF Asked
    <3>3. verdict # Undecided => bank' = bank
      BY <1>0, <1>1, <3>2
    <3>4. QED
      BY <1>0, <3>1, <3>3 DEF BankIsToBlame
  <2>3. QED
    BY <2>1, <2>2
<1>5. HonestRunSucceeds'
  <2> SUFFICES ASSUME wk' = "finally", transport' = "up", inputs' = WorkerInputs,
                      bank' # Gone, bank'.layout \notin {"status", "unmatched", "unreadable"}
               PROVE  bank' \in Responses /\ outcome' = Success(bank'.balance)
    BY DEF HonestRunSucceeds
  <2>1. Live' /\ Live /\ inputs = WorkerInputs /\ vpc # "failed"
    BY <1>0 DEF Live, BankIsToBlame, WorkerInputs
  <2>2. CASE Worker \/ HeapExhausted
    <3>1. UNCHANGED <<bank, verdict>> /\ Reports
      BY <2>1, <2>2, WorkerFrame, WorkerReports
    <3>2. wk = "framePayload" /\ verdict \in Verdicts /\ outcome' = Told(verdict)
      BY <2>1, <3>1 DEF Reports
    <3>3. verdict # Undecided
      BY <3>2, Statuses DEF Verdicts
    <3>4. bank \in Responses /\ bank.layout = "readable"
      BY <3>1, <3>3 DEF Asked, Responses, Layouts
    <3>5. verdict = Success(bank.balance)
      BY <2>1, <3>3, <3>4, WorkerPasses DEF BankIsToBlame
    <3>6. QED
      BY <3>1, <3>2, <3>4, <3>5, Statuses DEF Told
  <2>3. CASE ~(Worker \/ HeapExhausted)
    <3>1. wk = "finally" /\ UNCHANGED outcome
      BY <2>1, <2>3, FinallyStep
    <3>2. transport = "up"
      BY <2>3, VerifierFrame, DriverFrame
         DEF Next, vars, BankAnswers, BankGone, TransportLost, Terminated
    <3>3. bank # Dialing
      <4>1. bank = Dialing => bank \in Responses
        BY <1>1, <2>1, <3>1, <3>2 DEF BankIsToBlame, HonestRunSucceeds, WorkerInputs
      <4>2. QED
        BY <1>1, <4>1
    <3>4. QED
      BY <1>0, <2>1, <3>1, <3>2, <3>3 DEF BankIsToBlame, HonestRunSucceeds
  <2>4. QED
    BY <2>2, <2>3
<1>6. QED
  BY <1>2, <1>3, <1>4, <1>5 DEF BankIsToBlame

\* Every step keeps the promise to a prover that has finished.
LEMMA ToldStep ==
  ASSUME Typing, Asked, Answered, Unbroken, FrameInOrder, Finished, BankIsToBlame,
         PayloadIsVerdict, VerdictIsTold, [Next]_vars
  PROVE  VerdictIsTold'
<1> SUFFICES ASSUME wk' = "finally", transport' = "up", verdict' # Undecided
             PROVE  outcome' = Told(verdict')
  BY DEF VerdictIsTold, Told
<1>0. Live' /\ Live
  BY LiveStep DEF Live
<1>1. CASE Worker \/ HeapExhausted
  <2>1. UNCHANGED verdict /\ Reports
    BY <1>0, <1>1, WorkerFrame, WorkerReports
  <2>2. wk \notin {"commit", "http", "config"} /\ vpc # "failed"
    BY <1>0, <2>1 DEF Asked, Unbroken
  <2>3. QED
    BY <2>1, <2>2 DEF Reports, Told
<1>2. CASE ~(Worker \/ HeapExhausted)
  <2>1. wk = "finally" /\ UNCHANGED outcome
    BY <1>0, <1>2, FinallyStep
  <2>2. transport = "up"
    BY <1>2, VerifierFrame, DriverFrame
       DEF Next, vars, BankAnswers, BankGone, TransportLost, Terminated
  <2>3. ~Judge
    <3>1. vpc = "socket" => "proof" \in Heard("verifier")
      BY DEF Asked
    <3>2. QED
      BY <1>0, <2>1, <3>1 DEF Judge, Finished
  <2>4. UNCHANGED verdict
    BY <2>3, VerdictStep
  <2>5. QED
    BY <2>1, <2>2, <2>4 DEF VerdictIsTold, Told
<1>3. QED
  BY <1>1, <1>2

\* Every step keeps the reason that a refused prover gives.
LEMMA NamedStep ==
  ASSUME Typing, Asked, Answered, Unbroken, FrameInOrder, Finished, BankIsToBlame,
         PayloadIsVerdict, RefusalIsNamed, [Next]_vars
  PROVE  RefusalIsNamed'
<1> DEFINE Reason == IF inputs.mpc /\ ~(protocol_policy(inputs) /\ request_policy(inputs))
                     THEN Error("rejected") ELSE Error("eof")
<1>0. UNCHANGED inputs
  BY WorkerFrame, VerifierFrame, DriverFrame, EnvironmentFrame DEF Next, vars
<1> SUFFICES ASSUME wk' = "finally", transport' = "up", vpc' = "failed"
             PROVE  outcome' = Reason
  BY <1>0 DEF RefusalIsNamed, protocol_policy, request_policy
<1>1. Live' /\ Live
  BY LiveStep DEF Live
<1>2. CASE Worker \/ HeapExhausted
  <2>1. vpc = "failed" /\ Reports
    BY <1>1, <1>2, WorkerFrame, WorkerReports
  <2>2. wk \notin {"http", "config"}
    BY <1>1, <2>1 DEF Unbroken
  <2>3. wk \in {"frameLen", "framePayload"} =>
          inputs.mpc /\ protocol_policy(inputs) /\ request_policy(inputs)
    BY DEF Answered
  <2>4. QED
    BY <2>1, <2>2, <2>3 DEF Reports
<1>3. CASE ~(Worker \/ HeapExhausted)
  <2>1. wk = "finally" /\ UNCHANGED outcome
    BY <1>1, <1>3, FinallyStep
  <2>2. transport = "up"
    BY <1>3, VerifierFrame, DriverFrame
       DEF Next, vars, BankAnswers, BankGone, TransportLost, Terminated
  <2>3. vpc = "failed"
    <3>1. CASE Verifier
      <4>1. /\ vpc # "failed" =>
                 \/ vpc = "commit"
                 \/ vpc = "verify" /\ "prove" \in Heard("verifier")
                 \/ vpc = "proof" /\ "proof" \in Heard("verifier")
        BY <1>1, <3>1, VerifierEnds, GotHeard, Names DEF Unbroken, Parties
      <4>2. QED
        BY <1>1, <2>1, <4>1 DEF Finished
    <3>2. CASE ~Verifier
      BY <1>3, <3>2, HeardOther
    <3>3. QED
      BY <3>1, <3>2
  <2>4. QED
    BY <2>1, <2>2, <2>3 DEF RefusalIsNamed
<1>4. QED
  BY <1>2, <1>3

-----------------------------------------------------------------------------
\* The promises of the two sides to each other.

Mutual == Asked /\ Answered /\ Unbroken /\ FrameInOrder /\ Finished /\ BankIsToBlame

\* Before the session is ready nothing has been said.
LEMMA MutualInit ==
  ASSUME Init
  PROVE  Mutual /\ VerdictIsTold /\ RefusalIsNamed
<1>1. \A x \in Parties : Heard(x) = {}
  BY DEF Init, Heard, Got
<1>2. /\ wk = "ready" /\ vpc = "preamble" /\ verdict = Undecided /\ bank = Dialing
      /\ \A x \in Parties : drv[x] = "off" /\ wire[x] = <<>>
      /\ \A f \in Futures : fut[f] = "pending"
  BY DEF Init
<1>3. Asked /\ Answered /\ Unbroken /\ Finished
  BY <1>1, <1>2 DEF Asked, Answered, Unbroken, Finished, Parties
<1>4. FrameInOrder
  BY <1>2 DEF FrameInOrder, OnWire, EndAfter, Parties
<1>5. BankIsToBlame /\ VerdictIsTold /\ RefusalIsNamed
  BY <1>2 DEF BankIsToBlame, HonestRunSucceeds, VerdictIsTold, RefusalIsNamed
<1>6. QED
  BY <1>3, <1>4, <1>5 DEF Mutual

\* What the frame, the policies and the payload are known to be, together.
LEMMA GroundAlways == Spec => [](Typing /\ Checked /\ CloseBeforeFrame /\ PayloadIsVerdict)
<1>1. Init => Checked /\ Earned
  BY EarnedInit
<1>2. Typing /\ Checked /\ Earned /\ [Next]_vars => Checked' /\ Earned'
  BY EarnedStep
<1>3. Init => CloseBeforeFrame
  BY DEF Init, CloseBeforeFrame, CloseAhead, RawBehind, MuxNeverEatsFrame, Parties
<1>4. Typing /\ Typing' /\ CloseBeforeFrame /\ [Next]_vars => CloseBeforeFrame'
  BY CloseStep
<1>5. QED
  BY <1>1, <1>2, <1>3, <1>4, TypingAlways, RelayedAlways, PTL DEF Spec

\* The inductive invariant of the three theorems that follow.
LEMMA MutualAlways == Spec => [](Mutual /\ VerdictIsTold /\ RefusalIsNamed)
<1> DEFINE Ground == Typing /\ Checked /\ CloseBeforeFrame /\ PayloadIsVerdict
           All == Mutual /\ VerdictIsTold /\ RefusalIsNamed
<1>1. Init => All
  BY MutualInit
<1>2. Ground /\ All /\ [Next]_vars => All'
  <2> SUFFICES ASSUME Ground, All, [Next]_vars
               PROVE  All'
    OBVIOUS
  <2> USE DEF Mutual
  <2>1. Asked' /\ Answered' /\ Unbroken'
    BY AskedStep, AnsweredStep, UnbrokenStep
  <2>2. FrameInOrder' /\ Finished'
    BY FrameInOrderStep, FinishedStep
  <2>3. BankIsToBlame'
    BY BankStep, NotarizationAssumption
  <2>4. VerdictIsTold' /\ RefusalIsNamed'
    BY ToldStep, NamedStep
  <2>5. QED
    BY <2>1, <2>2, <2>3, <2>4
<1>3. Spec => []Ground
  BY GroundAlways
<1> HIDE DEF Ground, All
<1>4. Spec => []All
  BY <1>1, <1>2, <1>3, PTL DEF Spec
<1>5. QED
  BY <1>4 DEF All

\* What the verifier has decided is what a prover whose transport holds
\* reports: run_notarize_stream's frame is read whole and as it was written.
THEOREM VerdictTold == Spec => []VerdictIsTold
BY MutualAlways, PTL

\* A verifier that returned early is told apart, by the prover, as having
\* refused or as having dropped the stream (balance_verifier.rs:87-100).
THEOREM RefusalNamed == Spec => []RefusalIsNamed
BY MutualAlways, PTL

\* The page's own worker fails over a live transport only with the bank.
THEOREM HonestSucceeds == Spec => []HonestRunSucceeds
<1>1. Mutual => HonestRunSucceeds
  BY DEF Mutual, BankIsToBlame
<1>2. QED
  BY <1>1, MutualAlways, PTL

=============================================================================
