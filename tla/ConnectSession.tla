--------------------------- MODULE ConnectSession ---------------------------
(***************************************************************************)
(* One WebTransport session on the server (handle and dispatch_stream of   *)
(* demo/src/connect.rs): the loop over accept_bi, a task per stream that   *)
(* outlives the loop, the `verified' flag they share, the page that opens  *)
(* the two streams and closes the session when its run is over, and the    *)
(* bank behind the CONNECT task, which may outlive the session.            *)
(* What a task does with its bytes is in ConnectStream, what the VERIFY    *)
(* task says is in Notarization; here a task is the phases of its awaits.  *)
(***************************************************************************)
EXTENDS FiniteSets

CONSTANTS
  Extras  \* streams beside the page's two: "uni", "garbage", "second VERIFY"

ASSUME ConnectSessionAssumption == Extras \subseteq {"uni", "garbage", "second VERIFY"}

Streams == {"VERIFY", "CONNECT"} \cup Extras
Verify  == Streams \cap {"VERIFY", "second VERIFY"}

VARIABLES
  page,      \* runProve: "opening", "running", or how it left: "told" the outcome,
             \* "failed" as its session or a stream did, "gave up" by itself
  session,   \* "open", "closed" by the page, or "lost"
  incoming,  \* streams the page has opened and the loop not accepted
  opened, preambles,  \* streams the page has opened, and written a preamble to
  loop,      \* handle: "accepting", or what it returned, "ok" or "error"
  task,      \* of each stream: "none", "preamble", "serving", "closing", "ran", or
             \* "done" and "refused", its end with and without its role served
  verified,
  framed,    \* the outcome's frame has been written to the VERIFY stream
  bank       \* the connection of the CONNECT task: "none", "open", "answered" once the
             \* exchange is over, "ended" after it, or "failed" before

vars == <<page, session, incoming, opened, preambles, loop, task, verified, framed, bank>>

TypeOK ==
  /\ page \in {"opening", "running", "told", "failed", "gave up"}
  /\ session \in {"open", "closed", "lost"} /\ loop \in {"accepting", "ok", "error"}
  /\ incoming \subseteq opened /\ preambles \subseteq opened /\ opened \subseteq Streams
  /\ task \in [Streams -> {"none", "preamble", "serving", "closing", "ran", "done", "refused"}]
  /\ verified \in BOOLEAN /\ framed \in BOOLEAN
  /\ bank \in {"none", "open", "answered", "ended", "failed"}
  /\ \A s \in incoming : task[s] = "none"

Init ==
  /\ page = "opening" /\ session = "open"
  /\ incoming = {} /\ opened = {} /\ preambles = {}
  /\ loop = "accepting" /\ task = [s \in Streams |-> "none"] /\ verified = FALSE
  /\ framed = FALSE /\ bank = "none"

Becomes(s, phase) == task' = [task EXCEPT ![s] = phase]

\* run_notarize_stream has returned early, without an outcome for the page.
NoOutcome == task["VERIFY"] \in {"ran", "done"} /\ ~framed

-----------------------------------------------------------------------------
\* The page, and the transport.

\* createBidirectionalStream, and streams of a client that opens others.
OpenStream(s) ==
  /\ page \in {"opening", "running"} /\ session = "open" /\ s \notin opened
  /\ s = "CONNECT" => "VERIFY" \in opened
  /\ opened' = opened \cup {s} /\ incoming' = incoming \cup {s}
  /\ UNCHANGED <<page, session, preambles, loop, task, verified, framed, bank>>

\* writePreamble: VERIFY's comes first, both after the streams are created.
WritePreamble(s) ==
  /\ page \in {"opening", "running"} /\ session = "open" /\ s \in opened \ preambles
  /\ s \in {"VERIFY", "CONNECT"} => {"VERIFY", "CONNECT"} \subseteq opened
  /\ s = "CONNECT" => "VERIFY" \in preambles
  /\ preambles' = preambles \cup {s}
  /\ page' = IF s = "CONNECT" THEN "running" ELSE page
  /\ UNCHANGED <<session, incoming, opened, loop, task, verified, framed, bank>>

\* prove_streams returns what the frame says: it stays readable when the task has closed the
\* stream and ended, as long as the session is open.
Told ==
  /\ page = "running" /\ session = "open" /\ framed
  /\ page' = "told"
  /\ UNCHANGED <<session, incoming, opened, preambles, loop, task, verified, framed, bank>>

\* ... or it fails: without its session, the verifier's outcome, or the bank's answer it must,
\* and so must the opening of a stream.
Fails ==
  /\ \/ session # "open" /\ page \in {"opening", "running"}
     \/ page = "running" /\ (NoOutcome \/ task["CONNECT"] = "refused" \/ bank = "failed")
  /\ page' = "failed"
  /\ UNCHANGED <<session, incoming, opened, preambles, loop, task, verified, framed, bank>>

\* ... which it may also do by itself, before the verifier has judged.
GivesUp ==
  /\ page = "running" /\ ~framed
  /\ page' = "gave up"
  /\ UNCHANGED <<session, incoming, opened, preambles, loop, task, verified, framed, bank>>

\* The finally of runProve.
CloseSession ==
  /\ page \in {"told", "failed", "gave up"} /\ session = "open"
  /\ session' = "closed"
  /\ UNCHANGED <<page, incoming, opened, preambles, loop, task, verified, framed, bank>>

Lose ==
  /\ session = "open" /\ session' = "lost"
  /\ UNCHANGED <<page, incoming, opened, preambles, loop, task, verified, framed, bank>>

\* The bank answers what the prover and the verifier ask of it together.
BankAnswers ==
  /\ bank = "open" /\ page = "running" /\ session = "open" /\ task["VERIFY"] = "serving"
  /\ bank' = "answered"
  /\ UNCHANGED <<page, session, incoming, opened, preambles, loop, task, verified, framed>>

\* It closes its connection, or, the session being gone, sends what cannot be passed on.
BankEnds ==
  /\ \/ bank = "open" /\ bank' = "failed"
     \/ bank = "answered" /\ bank' = "ended"
  /\ UNCHANGED <<page, session, incoming, opened, preambles, loop, task, verified, framed>>

-----------------------------------------------------------------------------
\* handle.

Accept_Inline(s) ==
  /\ loop = "accepting" /\ s \in incoming
  /\ \A t \in Streams : task[t] \in {"none", "done", "refused"}
  /\ incoming' = incoming \ {s}
  /\ Becomes(s, IF s = "uni" THEN "refused" ELSE "preamble")
  /\ UNCHANGED <<page, session, opened, preambles, loop, verified, framed, bank>>

\* A stream that is not bidirectional is passed over, any other is given a task.
Accept(s) ==
  /\ loop = "accepting" /\ s \in incoming
  /\ incoming' = incoming \ {s}
  /\ Becomes(s, IF s = "uni" THEN "refused" ELSE "preamble")
  /\ UNCHANGED <<page, session, opened, preambles, loop, verified, framed, bank>>

AcceptEnds_RetriesErrors ==
  /\ loop = "accepting" /\ session = "closed"
  /\ loop' = "ok"
  /\ UNCHANGED <<page, session, incoming, opened, preambles, task, verified, framed, bank>>

\* accept_bi: Ok(None) when the page has closed the session, or an error, which it can
\* also be then; streams that wait are lost.
AcceptEnds ==
  /\ loop = "accepting" /\ session # "open"
  /\ \/ session = "closed" /\ loop' = "ok"
     \/ loop' = IF verified THEN "ok" ELSE "error"
  /\ UNCHANGED <<page, session, incoming, opened, preambles, task, verified, framed, bank>>

-----------------------------------------------------------------------------
\* dispatch_stream.

ReadPreamble_StoresFirst(s) ==
  /\ task[s] = "preamble"
  /\ \/ /\ s \in preambles
        /\ \/ s \in {"VERIFY", "CONNECT", "second VERIFY"} /\ Becomes(s, "serving")
           \/ s \in {"garbage", "CONNECT"} /\ Becomes(s, "refused")
        /\ verified' = (verified \/ s \in Verify)
     \/ session # "open" /\ Becomes(s, "refused") /\ UNCHANGED verified
  /\ bank' = IF s = "CONNECT" /\ task'[s] = "serving" THEN "open" ELSE bank
  /\ UNCHANGED <<page, session, incoming, opened, preambles, loop, framed>>

\* A role is served, the bank being dialled for CONNECT; one that is unknown, a target that is not allowed or not reached, or a
\* stream that ends before its newline, ends the task.
ReadPreamble(s) ==
  /\ task[s] = "preamble"
  /\ \/ s \in preambles /\ s # "garbage" /\ Becomes(s, "serving")
     \/ s \in preambles /\ s \in {"garbage", "CONNECT"} /\ Becomes(s, "refused")
     \/ session # "open" /\ Becomes(s, "refused")
  /\ bank' = IF s = "CONNECT" /\ task'[s] = "serving" THEN "open" ELSE bank
  /\ UNCHANGED <<page, session, incoming, opened, preambles, loop, verified, framed>>

\* run_notarize_stream up to the frame, for which the bank must have answered, whether or not
\* its connection is still there.
Judge ==
  /\ task["VERIFY"] = "serving" /\ bank \in {"answered", "ended"}
  /\ page = "running" /\ session = "open"
  /\ Becomes("VERIFY", "closing") /\ framed' = TRUE
  /\ UNCHANGED <<page, session, incoming, opened, preambles, loop, verified, bank>>

\* verify_balance or a write of the frame fails.
NotarizeFails(s) ==
  /\ s \in Verify /\ task[s] = "serving" /\ Becomes(s, "ran")
  /\ UNCHANGED <<page, session, incoming, opened, preambles, loop, verified, framed, bank>>

CloseStream(s) ==
  /\ task[s] = "closing" /\ Becomes(s, "ran")
  /\ UNCHANGED <<page, session, incoming, opened, preambles, loop, verified, framed, bank>>

StoreVerified_OnlyOfSuccess(s) ==
  /\ task[s] = "ran" /\ Becomes(s, "done")
  /\ verified' = (verified \/ page = "told")
  /\ UNCHANGED <<page, session, incoming, opened, preambles, loop, framed, bank>>

\* However run_notarize_stream has ended.
StoreVerified(s) ==
  /\ task[s] = "ran" /\ Becomes(s, "done")
  /\ verified' = TRUE
  /\ UNCHANGED <<page, session, incoming, opened, preambles, loop, framed, bank>>

\* proxy_connect: join! has seen both pumps end.  The one from the bank ends with the bank's
\* side only; the other with the session, or, which it need not, by the prover's half-close.
ProxyEnds ==
  /\ task["CONNECT"] = "serving" /\ bank \in {"ended", "failed"}
  /\ Becomes("CONNECT", "done")
  /\ UNCHANGED <<page, session, incoming, opened, preambles, loop, verified, framed, bank>>

Settled ==
  /\ page \in {"told", "failed", "gave up"} /\ session # "open"
  /\ UNCHANGED vars

Next ==
  \/ \E s \in Streams : \/ OpenStream(s) \/ WritePreamble(s) \/ Accept(s)
                        \/ ReadPreamble(s) \/ NotarizeFails(s) \/ CloseStream(s) \/ StoreVerified(s)
  \/ Told \/ Fails \/ GivesUp \/ CloseSession \/ Lose \/ BankAnswers \/ BankEnds
  \/ AcceptEnds \/ Judge \/ ProxyEnds \/ Settled

\* The loop and the tasks are scheduled, the page goes on.  Nobody has to open other streams,
\* lose the session, give up, or end a half of CONNECT, and a notarization need not fail, unless
\* its session is gone.  While the session is open the bank answers or closes its connection;
\* once it is gone nothing is asked of the bank.
Fairness ==
  /\ \A s \in {"VERIFY", "CONNECT"} : WF_vars(OpenStream(s)) /\ WF_vars(WritePreamble(s))
  /\ \A s \in Streams : /\ WF_vars(Accept(s)) /\ WF_vars(ReadPreamble(s))
                        /\ WF_vars(session # "open" /\ NotarizeFails(s))
                        /\ WF_vars(CloseStream(s)) /\ WF_vars(StoreVerified(s))
  /\ WF_vars(Told) /\ WF_vars(Fails) /\ WF_vars(CloseSession)
  /\ WF_vars(AcceptEnds) /\ WF_vars(Judge)
  /\ WF_vars(session # "open" /\ ProxyEnds)
  /\ WF_vars(session = "open" /\ (BankAnswers \/ BankEnds))

Spec == Init /\ [][Next]_vars /\ Fairness

-----------------------------------------------------------------------------
\* The loss of a session is an error of handle's unless a notarization has run in it to its end:
\* none that is under way, and no failed or foreign stream, passes it off as a good end.
LossIsReported ==
  [][(loop = "accepting" /\ loop' = "ok") =>
       session = "closed" \/ \E s \in Verify : task[s] = "done"]_vars

\* ... and one that has run, and been found good or not, is never taken for a failed handshake,
\* however its session ends (the arm of handle that asks for `verified').
RunIsNoFailure ==
  [][(loop = "accepting" /\ loop' = "error") => \A s \in Verify : task[s] # "done"]_vars

\* What may keep a run from its outcome: the session is lost, the page gives up, CONNECT is
\* refused, the bank goes before it has answered, or the notarization returns early.
Hindered == session = "lost" \/ page = "gave up" \/ task["CONNECT"] = "refused"
            \/ bank = "failed" \/ NoOutcome

\* Unless it is hindered the page is told its outcome, and then closes the session, whatever other
\* streams came first, failed, or never said a word: the VERIFY task, which waits for the bank,
\* does not keep the loop from accepting CONNECT.
RunIsServed == <>(session # "open" /\ (page = "told" \/ Hindered))

\* A CONNECT task whose bank neither sends nor ends: nothing else ends it.
WaitsForBank(s) == s = "CONNECT" /\ task[s] = "serving" /\ bank \in {"open", "answered"}

\* When the session is gone, handle returns, and every task, though nobody waits for it, ends;
\* except that CONNECT's stays for as long as the bank keeps its connection (join! in
\* proxy_connect, and pumps that fail without a shutdown), and ends when it does.
AllEnds == session # "open" ~>
  (loop # "accepting"
     /\ \A s \in Streams : task[s] \in {"none", "done", "refused"} \/ WaitsForBank(s))

=============================================================================
