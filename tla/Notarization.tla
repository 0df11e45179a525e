---------------------------- MODULE Notarization ----------------------------
(***************************************************************************)
(* One notarization over the VERIFY stream: the browser worker and the     *)
(* prover it runs, the two tlsn session drivers, and the verifier task.    *)
(*                                                                         *)
(* The two directions of the stream are FIFO wires.  They first carry the  *)
(* preamble, then the frames of the tlsn multiplexer, and once both        *)
(* drivers have closed the multiplexer and handed the socket back, the raw *)
(* length-prefixed outcome frame.  The tlsn library is external: its calls *)
(* are modelled by the messages each of them exchanges, which is all that  *)
(* the repository's code observes of it.                                   *)
(***************************************************************************)
EXTENDS Integers, Sequences

CONSTANTS
  Balances,         \* the disclosed pairs (chf, last_audit)
  MAX_SENT_DATA,    \* the verifier's limits on what a session may commit to
  MAX_RECV_DATA,
  ProverInputs      \* what the provers that connect may ask for

Hosts == {"swissbank.tlsnotary.org", "other"}

\* JsProverInputs reduced to what the verifier tells apart.  `identity' and
\* `reveal' always hold for this repository's prover; the verifier checks them
\* because it cannot know which prover is at the other end.  `trusted' is FALSE
\* for a server chain that only the prover's own serverCertDer accepts.
AllInputs == [mpc : BOOLEAN, maxSent : Nat, maxRecv : Nat, identity : BOOLEAN,
              reveal : BOOLEAN, server : Hosts, trusted : BOOLEAN]

\* What demo/assets/prover.worker.mjs asks for: exactly the verifier's limits.
WorkerInputs ==
  [mpc |-> TRUE, maxSent |-> MAX_SENT_DATA, maxRecv |-> MAX_RECV_DATA,
   identity |-> TRUE, reveal |-> TRUE, server |-> "swissbank.tlsnotary.org",
   trusted |-> TRUE]

ASSUME NotarizationAssumption ==
  /\ MAX_SENT_DATA \in Nat /\ MAX_RECV_DATA \in Nat
  /\ ProverInputs \subseteq AllInputs

-----------------------------------------------------------------------------
\* Results.  A verdict is serialised as the VerificationOutcome frame.

Undecided  == [status |-> "none"]
Success(b) == [status |-> "success", balance |-> b]
Failure(r) == [status |-> "failure", reason |-> r]
Error(r)   == [status |-> "error", reason |-> r]

VerifierReasons == {"missing server_name", "ServerName", "missing transcript", "unreadable"}
ProverErrors    == {"transport", "rejected", "http", "tls", "config", "eof"}

Verdicts == {Success(b) : b \in Balances} \cup {Failure(r) : r \in VerifierReasons}
Outcomes == {Success(b) : b \in Balances}
              \cup {Error(r) : r \in VerifierReasons \cup ProverErrors}

\* The bank's answer: a status other than 200, a body the prover's rules do not
\* match, a body whose disclosed ranges the verifier's parser cannot read back,
\* or one it can.
Layouts   == {"status", "unmatched", "unreadable", "readable"}
Responses == [layout : Layouts, balance : Balances]
Dialing   == [layout |-> "dialing"]
Gone      == [layout |-> "gone"]

-----------------------------------------------------------------------------
\* The wires.

Parties == {"prover", "verifier"}
Peer(x) == IF x = "prover" THEN "verifier" ELSE "prover"

MuxKinds == {"commit", "acceptCommit", "reject", "eof", "tls", "tlsDone",
             "prove", "acceptProve", "proof", "muxClose"}
Mux(k)     == [kind |-> k]
Preamble   == [kind |-> "VERIFY"]
FrameLen   == [kind |-> "len"]
Payload(v) == [kind |-> "payload", outcome |-> v]
Fin        == [kind |-> "fin"]

RawItems == {FrameLen, Fin} \cup {Payload(v) : v \in Verdicts}
Items    == {Mux(k) : k \in MuxKinds} \cup RawItems \cup {Preamble}

VARIABLES
  inputs,     \* what this run's prover asks for
  transport,  \* the WebTransport session: "connecting", "up" or "down"
  bank,       \* the bank's answer as it reaches server_socket
  wk,         \* where runProve, prove_streams and Prover::prove stand
  fut,        \* the three futures joined in execute_http_exchange
  outcome,    \* what runProve will post to the page
  vpc,        \* where dispatch_stream, run_notarize_stream and verify_balance stand
  verdict,    \* the inner result of verify_balance
  wire,       \* wire[x]: the items under way to party x
  inbox,      \* inbox[x]: the multiplexer frames x's driver has delivered
  drv         \* drv[x]: x's session driver

proverVars   == <<wk, fut, outcome>>
verifierVars == <<vpc, verdict>>
streamVars   == <<wire, inbox, drv>>
vars == <<inputs, transport, bank, wk, fut, outcome, vpc, verdict, wire, inbox, drv>>

WorkerStates ==
  {"ready", "streams", "preambles", "setup", "commit", "http", "config", "prove",
   "proving", "io", "frameLen", "framePayload", "finally", "end", "trapped"}
VerifierStates ==
  {"preamble", "commit", "run", "verify", "proof", "socket",
   "frameLen", "framePayload", "closeIo", "end", "failed"}
DriverStates == {"off", "running", "closing", "done", "failed"}
Futures      == {"prover", "connection", "request"}
FutureStates == {"pending", "finalizing", "ok", "err"}

TypeOK ==
  /\ inputs \in ProverInputs
  /\ transport \in {"connecting", "up", "down"}
  /\ bank \in Responses \cup {Dialing, Gone}
  /\ wk \in WorkerStates
  /\ fut \in [Futures -> FutureStates]
  /\ outcome \in Outcomes \cup {Undecided}
  /\ vpc \in VerifierStates
  /\ verdict \in Verdicts \cup {Undecided}
  /\ wire \in [Parties -> Seq(Items)]
  /\ inbox \in [Parties -> SUBSET Items]
  /\ drv \in [Parties -> DriverStates]

Init ==
  /\ inputs \in ProverInputs
  /\ transport = "connecting"
  /\ bank = Dialing
  /\ wk = "ready"
  /\ fut = [f \in Futures |-> "pending"]
  /\ outcome = Undecided
  /\ vpc = "preamble"
  /\ verdict = Undecided
  /\ wire = [x \in Parties |-> <<>>]
  /\ inbox = [x \in Parties |-> {}]
  /\ drv = [x \in Parties |-> "off"]

-----------------------------------------------------------------------------
\* Helpers on the wires.

Got(x, k)  == Mux(k) \in inbox[x]
Put(x, i)  == wire' = [wire EXCEPT ![x] = Append(@, i)]
Take(x)    == wire' = [wire EXCEPT ![x] = Tail(@)]
NextIs(x, k) == transport = "up" /\ wire[x] # <<>> /\ Head(wire[x]).kind = k

\* A call on the multiplexer: the frame goes out if the driver still runs.
Send(x, k) ==
  /\ drv[x] = "running"
  /\ Put(Peer(x), Mux(k))

-----------------------------------------------------------------------------
\* The worker and the prover.

ProverGoes(state) == wk' = state /\ UNCHANGED <<inputs, transport, bank, fut, outcome>>
ProverFails(r) ==
  /\ wk' = "finally"
  /\ outcome' = Error(r)
  /\ UNCHANGED <<inputs, transport, bank, fut>>

\* `await session.ready' resolves or rejects.
SessionReady ==
  /\ wk = "ready" /\ transport = "connecting"
  /\ \/ transport' = "up" /\ wk' = "streams" /\ UNCHANGED outcome
     \/ transport' = "down" /\ wk' = "finally" /\ outcome' = Error("transport")
  /\ UNCHANGED <<inputs, bank, fut, verifierVars, streamVars>>

WriteVerifyPreamble ==
  /\ wk = "streams" /\ transport = "up"
  /\ Put("verifier", Preamble)
  /\ ProverGoes("preambles")
  /\ UNCHANGED <<verifierVars, inbox, drv>>

\* The CONNECT preamble starts the proxy, of which only the bank's answer on
\* server_socket is modelled here.
WriteConnectPreamble ==
  /\ wk = "preambles" /\ transport = "up"
  /\ ProverGoes("setup")
  /\ UNCHANGED <<verifierVars, streamVars>>

\* setup_and_connect: the driver is spawned detached, then the commit request
\* is sent and its answer awaited.
SetupAndConnect ==
  /\ wk = "setup"
  /\ drv' = [drv EXCEPT !["prover"] = "running"]
  /\ Put("verifier", Mux("commit"))
  /\ ProverGoes("commit")
  /\ UNCHANGED <<verifierVars, inbox>>

CommitAccepted ==
  /\ wk = "commit" /\ Got("prover", "acceptCommit")
  /\ ProverGoes("http")
  /\ UNCHANGED <<verifierVars, streamVars>>

\* The verifier turned the request down, or dropped its end without a word.
CommitOrProveRefused ==
  /\ wk \in {"commit", "prove"}
  /\ \/ Got("prover", "reject") /\ ProverFails("rejected")
     \/ Got("prover", "eof") /\ ProverFails("eof")
  /\ UNCHANGED <<verifierVars, streamVars>>

-----------------------------------------------------------------------------
\* execute_http_exchange: three futures driven together by join!, which waits
\* for all of them even when one has failed.

Resolved(f) == fut[f] \in {"ok", "err"}
Resolve(f, s) ==
  /\ wk = "http"
  /\ fut' = [fut EXCEPT ![f] = s]
  /\ UNCHANGED <<inputs, transport, bank, wk, outcome, verifierVars, inbox, drv>>

\* send_request and collect; a status other than 200 is an error.
RequestTask ==
  /\ fut["request"] = "pending"
  /\ \/ bank \in Responses /\ Resolve("request", IF bank.layout = "status" THEN "err" ELSE "ok")
     \/ (bank = Gone \/ fut["prover"] = "err") /\ Resolve("request", "err")
  /\ UNCHANGED wire

\* hyper's connection ends when the request is over, or with the TLS connection.
ConnectionTask ==
  /\ fut["connection"] = "pending"
  /\ \/ Resolved("request") /\ Resolve("connection", "ok")
     \/ (bank = Gone \/ fut["prover"] = "err") /\ Resolve("connection", "err")
  /\ UNCHANGED wire

\* The MPC-TLS future: once the connection is closed it settles the transcript
\* with the verifier.
ProverFuture ==
  \/ /\ fut["prover"] = "pending" /\ Resolved("connection")
     /\ Send("prover", "tls")
     /\ Resolve("prover", "finalizing")
  \/ /\ fut["prover"] = "finalizing" /\ Got("prover", "tlsDone")
     /\ Resolve("prover", "ok")
     /\ UNCHANGED wire
  \/ /\ ~Resolved("prover")
     /\ drv["prover"] = "failed" \/ (bank = Gone /\ fut["prover"] = "pending")
     /\ Resolve("prover", "err")
     /\ UNCHANGED wire

JoinExchange ==
  /\ wk = "http" /\ \A f \in Futures : Resolved(f)
  /\ \/ fut["prover"] = "err" /\ ProverFails("tls")
     \/ /\ fut["prover"] = "ok"
        /\ fut["connection"] = "err" \/ fut["request"] = "err"
        /\ ProverFails("http")
     \/ (\A f \in Futures : fut[f] = "ok") /\ ProverGoes("config")
  /\ UNCHANGED <<verifierVars, streamVars>>

-----------------------------------------------------------------------------

\* build_prove_config: the rules are matched against the transcript before
\* anything is sent.
BuildProveConfig ==
  /\ wk = "config"
  /\ \/ bank.layout = "unmatched" /\ ProverFails("config") /\ UNCHANGED wire
     \/ /\ bank.layout \in {"readable", "unreadable"}
        /\ Send("prover", "prove")
        /\ ProverGoes("prove")
  /\ UNCHANGED <<verifierVars, inbox, drv>>

ProveAccepted ==
  /\ wk = "prove" /\ Got("prover", "acceptProve")
  /\ ProverGoes("proving")
  /\ UNCHANGED <<verifierVars, streamVars>>

\* generate_proof sends the proof and closes; session_handle.close() asks the
\* driver to shut the multiplexer down, and its socket is awaited.
ProofSent ==
  /\ wk = "proving"
  /\ Send("prover", "proof")
  /\ ProverGoes("io")
  /\ UNCHANGED <<verifierVars, inbox, drv>>

\* Committing exhausts the WASM heap: the instance traps, no promise of the
\* worker settles any more, and its `finally' never runs.
HeapExhausted ==
  /\ wk = "proving"
  /\ ProverGoes("trapped")
  /\ UNCHANGED <<verifierVars, streamVars>>

SocketRecovered ==
  /\ wk = "io" /\ drv["prover"] = "done"
  /\ ProverGoes("frameLen")
  /\ UNCHANGED <<verifierVars, streamVars>>

\* read_verification_outcome: two read_exact calls on the raw stream.
ReadFrameLen ==
  /\ wk = "frameLen" /\ NextIs("prover", "len")
  /\ Take("prover")
  /\ ProverGoes("framePayload")
  /\ UNCHANGED <<verifierVars, inbox, drv>>

ReadFramePayload_AsIs ==
  /\ wk = "framePayload" /\ NextIs("prover", "payload")
  /\ Take("prover")
  /\ outcome' = Head(wire["prover"]).outcome
  /\ wk' = "finally"
  /\ UNCHANGED <<inputs, transport, bank, fut, verifierVars, inbox, drv>>

ReadFramePayload_NoReason ==
  /\ wk = "framePayload" /\ NextIs("prover", "payload")
  /\ Take("prover")
  /\ LET v == Head(wire["prover"]).outcome
     IN  outcome' = IF v.status = "success" THEN v ELSE Error("unreadable")
  /\ wk' = "finally"
  /\ UNCHANGED <<inputs, transport, bank, fut, verifierVars, inbox, drv>>

ReadFramePayload ==
  /\ wk = "framePayload" /\ NextIs("prover", "payload")
  /\ Take("prover")
  /\ LET v == Head(wire["prover"]).outcome
     IN  outcome' = IF v.status = "success" THEN v ELSE Error(v.reason)
  /\ wk' = "finally"
  /\ UNCHANGED <<inputs, transport, bank, fut, verifierVars, inbox, drv>>

\* The stream ends, or breaks, before the frame is complete.
FrameCutShort ==
  /\ wk \in {"frameLen", "framePayload"}
  /\ transport = "down" \/ NextIs("prover", "fin")
  /\ ProverFails("eof")
  /\ UNCHANGED <<verifierVars, streamVars>>

\* Any other await of the prover fails with the transport or with its driver.
ProverBroken ==
  /\ \/ wk \in {"streams", "preambles"} /\ transport = "down"
     \/ wk \in {"commit", "prove", "proving", "io"} /\ drv["prover"] = "failed"
     \/ wk = "config" /\ bank.layout # "unmatched" /\ drv["prover"] = "failed"
  /\ ProverFails("transport")
  /\ UNCHANGED <<verifierVars, streamVars>>

\* The `finally' of runProve closes the session whatever happened.
CloseSession ==
  /\ wk = "finally"
  /\ transport' = "down"
  /\ wk' = "end"
  /\ UNCHANGED <<inputs, bank, fut, outcome, verifierVars, streamVars>>

Worker ==
  \/ SessionReady \/ WriteVerifyPreamble \/ WriteConnectPreamble
  \/ SetupAndConnect \/ CommitAccepted \/ CommitOrProveRefused
  \/ RequestTask \/ ConnectionTask \/ ProverFuture \/ JoinExchange
  \/ BuildProveConfig \/ ProveAccepted \/ ProofSent
  \/ SocketRecovered \/ ReadFrameLen \/ ReadFramePayload \/ FrameCutShort
  \/ ProverBroken \/ CloseSession

-----------------------------------------------------------------------------
\* The verifier task.

protocol_policy_OffByOne(i) == i.maxSent < MAX_SENT_DATA /\ i.maxRecv < MAX_RECV_DATA
protocol_policy(i) == i.maxSent <= MAX_SENT_DATA /\ i.maxRecv <= MAX_RECV_DATA
request_policy_IdentityOnly(i) == i.identity
request_policy(i)  == i.identity /\ i.reveal

Validation_AnyServer(i, response) ==
  IF ~i.identity THEN Failure("missing server_name")
  ELSE IF ~i.reveal THEN Failure("missing transcript")
  ELSE IF response.layout = "readable" THEN Success(response.balance)
  ELSE Failure("unreadable")

\* Post-session validation, extract_balance included.
Validation(i, response) ==
  IF ~i.identity THEN Failure("missing server_name")
  ELSE IF i.server # "swissbank.tlsnotary.org" THEN Failure("ServerName")
  ELSE IF ~i.reveal THEN Failure("missing transcript")
  ELSE IF response.layout = "readable" THEN Success(response.balance)
  ELSE Failure("unreadable")

environment == <<inputs, transport, bank>>

VerifierGoes(state) == vpc' = state /\ UNCHANGED <<environment, proverVars, verdict>>

\* An early return: the session handle is dropped without close(), and with it
\* the verifier's multiplexer streams; a socket the driver has already handed
\* back is dropped too, which ends the stream.
VerifierFails(k) ==
  /\ VerifierGoes("failed")
  /\ wire' = [wire EXCEPT !["prover"] =
                CASE drv["verifier"] = "running" -> Append(@, Mux(k))
                  [] drv["verifier"] = "done" -> Append(@, Fin)
                  [] OTHER -> @]
  /\ UNCHANGED <<inbox, drv>>

\* dispatch_stream reads the role, and verify_balance spawns the driver.
ReadPreamble ==
  /\ vpc = "preamble" /\ NextIs("verifier", "VERIFY")
  /\ Take("verifier")
  /\ drv' = [drv EXCEPT !["verifier"] = "running"]
  /\ VerifierGoes("commit")
  /\ UNCHANGED inbox

AnswerCommit_NoReject ==
  /\ vpc = "commit" /\ Got("verifier", "commit")
  /\ \/ ~(inputs.mpc /\ protocol_policy(inputs)) /\ VerifierFails("eof")
     \/ /\ inputs.mpc /\ protocol_policy(inputs)
        /\ Send("verifier", "acceptCommit")
        /\ VerifierGoes("run")
        /\ UNCHANGED <<inbox, drv>>

AnswerCommit ==
  /\ vpc = "commit" /\ Got("verifier", "commit")
  /\ \/ ~inputs.mpc /\ VerifierFails("eof")
     \/ inputs.mpc /\ ~protocol_policy(inputs) /\ VerifierFails("reject")
     \/ /\ inputs.mpc /\ protocol_policy(inputs)
        /\ Send("verifier", "acceptCommit")
        /\ VerifierGoes("run")
        /\ UNCHANGED <<inbox, drv>>

RunMpc ==
  /\ vpc = "run" /\ Got("verifier", "tls")
  /\ Send("verifier", "tlsDone")
  /\ VerifierGoes("verify")
  /\ UNCHANGED <<inbox, drv>>

AnswerProve ==
  /\ vpc = "verify" /\ Got("verifier", "prove")
  /\ \/ ~request_policy(inputs) /\ VerifierFails("reject")
     \/ /\ request_policy(inputs)
        /\ Send("verifier", "acceptProve")
        /\ VerifierGoes("proof")
        /\ UNCHANGED <<inbox, drv>>

\* accept() checks the proof and the server's certificate; then close() and
\* handle.close().
CheckProof ==
  /\ vpc = "proof" /\ Got("verifier", "proof")
  /\ \/ ~inputs.trusted /\ VerifierFails("eof")
     \/ inputs.trusted /\ VerifierGoes("socket") /\ UNCHANGED streamVars

Judge_BeforeSocket ==
  /\ vpc = "socket"
  /\ verdict' = Validation(inputs, bank)
  /\ vpc' = "frameLen"
  /\ UNCHANGED <<environment, proverVars, streamVars>>

\* Only with the socket back is the proof judged and the frame written.
Judge ==
  /\ vpc = "socket" /\ drv["verifier"] = "done"
  /\ verdict' = Validation(inputs, bank)
  /\ vpc' = "frameLen"
  /\ UNCHANGED <<environment, proverVars, streamVars>>

WriteFrame_SuccessOnly ==
  /\ transport = "up"
  /\ \/ vpc = "frameLen" /\ verdict.status = "success"
           /\ Put("prover", FrameLen) /\ VerifierGoes("framePayload")
     \/ vpc = "framePayload" /\ Put("prover", Payload(verdict)) /\ VerifierGoes("closeIo")
     \/ vpc = "closeIo" /\ Put("prover", Fin) /\ VerifierGoes("end")
     \/ vpc = "frameLen" /\ verdict.status # "success" /\ Put("prover", Fin) /\ VerifierGoes("end")
  /\ UNCHANGED <<inbox, drv>>

WriteFrame ==
  /\ transport = "up"
  /\ \/ vpc = "frameLen" /\ Put("prover", FrameLen) /\ VerifierGoes("framePayload")
     \/ vpc = "framePayload" /\ Put("prover", Payload(verdict)) /\ VerifierGoes("closeIo")
     \/ vpc = "closeIo" /\ Put("prover", Fin) /\ VerifierGoes("end")
  /\ UNCHANGED <<inbox, drv>>

VerifierBroken ==
  /\ \/ vpc \in {"preamble", "frameLen", "framePayload", "closeIo"} /\ transport = "down"
     \/ vpc \in {"commit", "run", "verify", "proof", "socket"} /\ drv["verifier"] = "failed"
  /\ VerifierGoes("failed")
  /\ UNCHANGED streamVars

Verifier ==
  \/ ReadPreamble \/ AnswerCommit \/ RunMpc \/ AnswerProve \/ CheckProof
  \/ Judge \/ WriteFrame \/ VerifierBroken

-----------------------------------------------------------------------------
\* The session drivers, spawned detached on both sides.

Alive(x)      == ~(x = "prover" /\ wk = "trapped")
CloseAsked(x) == IF x = "prover" THEN wk = "io" ELSE vpc = "socket"

\* A driver stops reading once the peer has closed the multiplexer.
DriverReceives(x) ==
  /\ drv[x] \in {"running", "closing"} /\ Alive(x)
  /\ transport = "up" /\ wire[x] # <<>> /\ ~Got(x, "muxClose")
  /\ inbox' = [inbox EXCEPT ![x] = @ \cup {Head(wire[x])}]
  /\ Take(x)
  /\ UNCHANGED <<environment, proverVars, verifierVars, drv>>

DriverCloses_NoAnswer(x) ==
  /\ drv[x] = "running" /\ Alive(x) /\ transport = "up"
  /\ CloseAsked(x)
  /\ drv' = [drv EXCEPT ![x] = "closing"]
  /\ Put(Peer(x), Mux("muxClose"))
  /\ UNCHANGED <<environment, proverVars, verifierVars, inbox>>

\* It closes when its handle asks for it, and answers the peer's close: were it
\* not to, a verifier that returned early would leave the prover waiting.
DriverCloses(x) ==
  /\ drv[x] = "running" /\ Alive(x) /\ transport = "up"
  /\ CloseAsked(x) \/ Got(x, "muxClose")
  /\ drv' = [drv EXCEPT ![x] = "closing"]
  /\ Put(Peer(x), Mux("muxClose"))
  /\ UNCHANGED <<environment, proverVars, verifierVars, inbox>>

\* Closed both ways: the socket goes back through the oneshot channel, and is
\* dropped if the verifier task no longer waits for it.
DriverReturns(x) ==
  /\ drv[x] = "closing" /\ Alive(x) /\ Got(x, "muxClose")
  /\ drv' = [drv EXCEPT ![x] = "done"]
  /\ IF x = "verifier" /\ vpc = "failed" THEN Put("prover", Fin) ELSE UNCHANGED wire
  /\ UNCHANGED <<environment, proverVars, verifierVars, inbox>>

DriverBreaks(x) ==
  /\ drv[x] \in {"running", "closing"} /\ Alive(x) /\ transport = "down"
  /\ drv' = [drv EXCEPT ![x] = "failed"]
  /\ UNCHANGED <<environment, proverVars, verifierVars, wire, inbox>>

Driver(x) == DriverReceives(x) \/ DriverCloses(x) \/ DriverReturns(x) \/ DriverBreaks(x)

-----------------------------------------------------------------------------
\* The environment.

BankAnswers ==
  /\ bank = Dialing /\ wk = "http"
  /\ bank' \in Responses
  /\ UNCHANGED <<inputs, transport, proverVars, verifierVars, streamVars>>

\* The proxy refuses or cannot connect, or the bank hangs up too early.
BankGone ==
  /\ bank = Dialing /\ wk \notin {"ready", "streams", "preambles"}
  /\ bank' = Gone
  /\ UNCHANGED <<inputs, transport, proverVars, verifierVars, streamVars>>

TransportLost ==
  /\ transport = "up" /\ wk # "end"
  /\ transport' = "down"
  /\ UNCHANGED <<inputs, bank, proverVars, verifierVars, streamVars>>

Over(x) == drv[x] \notin {"running", "closing"}

Terminated ==
  /\ vpc \in {"end", "failed"} /\ Over("verifier")
  /\ wk = "trapped" \/ (wk = "end" /\ Over("prover"))
  /\ UNCHANGED vars

Next ==
  \/ Worker \/ HeapExhausted \/ Verifier
  \/ \E x \in Parties : Driver(x)
  \/ BankAnswers \/ BankGone \/ TransportLost \/ Terminated

Spec == Init /\ [][Next]_vars

\* Both runtimes poll every runnable task; the bank answers or hangs up; the
\* QUIC idle timeout ends the session of a worker that trapped.  Nothing else
\* has a time limit.
Fairness ==
  /\ WF_vars(Worker)
  /\ WF_vars(Verifier)
  /\ \A x \in Parties : WF_vars(Driver(x))
  /\ WF_vars(BankAnswers \/ BankGone)
  /\ WF_vars(wk = "trapped" /\ TransportLost)

FairSpec == Spec /\ Fairness

-----------------------------------------------------------------------------
\* Properties.

\* A success, be it the server's log line or the page's result, was earned:
\* MPC-TLS within the limits, both disclosures present, the bank's own name
\* under a chain the verifier trusts, and the balance is what the bank sent
\* (protocol_policy, request_policy and the validation of verify_balance).
SuccessIsEarned ==
  \A r \in {verdict, outcome} : r.status = "success" =>
    /\ inputs.mpc /\ inputs.trusted /\ inputs.identity /\ inputs.reveal
    /\ inputs.maxSent <= MAX_SENT_DATA /\ inputs.maxRecv <= MAX_RECV_DATA
    /\ inputs.server = "swissbank.tlsnotary.org"
    /\ bank \in Responses /\ bank.layout = "readable" /\ r.balance = bank.balance

\* No byte of the raw outcome frame is taken for a multiplexer frame: the
\* verifier writes only once the socket is back (balance_verifier.rs:107), and
\* by then the prover's driver has read all it will ever read.
MuxNeverEatsFrame == inbox["prover"] \cap RawItems = {}

\* What verify_balance was allowed to assume: whatever its two policies let
\* through cannot fail the two presence checks of its validation.
PoliciesCoverValidation ==
  verdict \notin {Failure("missing server_name"), Failure("missing transcript")}

Told(v) == IF v.status = "success" THEN v ELSE Error(v.reason)

\* Once the verifier has decided, a prover whose transport holds reports that
\* very decision: "report a clean reason to the prover instead of dropping the
\* stream" (connect.rs:193-197).
VerdictIsTold ==
  wk = "finally" /\ transport = "up" /\ verdict # Undecided => outcome = Told(verdict)

\* A verifier that gave up over a live transport did so on purpose, and the
\* prover can tell a policy refusal from a broken proof: reject() reaches it
\* before the stream is dropped (balance_verifier.rs:87-100).
RefusalIsNamed ==
  wk = "finally" /\ transport = "up" /\ vpc = "failed" =>
    outcome = IF inputs.mpc /\ ~(protocol_policy(inputs) /\ request_policy(inputs))
              THEN Error("rejected") ELSE Error("eof")

\* The page's own worker, which asks for exactly the verifier's limits, fails
\* over a transport that holds only if the bank lets it down.
HonestRunSucceeds ==
  /\ wk = "finally" /\ transport = "up" /\ inputs = WorkerInputs
  /\ bank # Gone /\ bank.layout \notin {"status", "unmatched", "unreadable"}
  => bank \in Responses /\ outcome = Success(bank.balance)

\* Nobody is left waiting: the worker reaches the end of its `finally' or
\* traps, and in either case the server's task and both drivers are released.
EveryoneStops ==
  <>[]( /\ vpc \in {"end", "failed"} /\ Over("verifier")
        /\ wk = "trapped" \/ (wk = "end" /\ Over("prover")) )

\* A run is one of the promised ones: the verifier decides at most once, and
\* the page hears that decision or an error of the prover's own.
Promise == INSTANCE BalanceProof
Implements == Promise!Spec

=============================================================================
