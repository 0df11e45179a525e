----------------------------- MODULE ProverPage -----------------------------
(***************************************************************************)
(* The page (demo/assets/prover.main.mjs), the web workers it starts, one  *)
(* per click, and what they say to it (flow.mjs, the message handler of    *)
(* prover.worker.mjs).  A worker is never terminated, its messages carry   *)
(* no run, and one failure may be announced more than once.                *)
(***************************************************************************)
EXTENDS Integers, Sequences, FiniteSets

CONSTANTS
  MaxRuns,     \* clicks that start a run
  MaxStrays    \* uncaught errors per worker besides the run's own end

ASSUME ProverPageAssumption == MaxRuns \in Nat /\ MaxStrays \in Nat

Runs == 1..MaxRuns
NoRun == 0

VARIABLES
  noisy,     \* whether workers have uncaught errors at all
  current,   \* currentWorker
  disabled,  \* proveBtn.disabled
  badge,     \* what the card shows: "hidden", "ok" or "err"
  shown,     \* the run whose message the card shows
  runs,      \* runs started
  worker,    \* each worker: "none", "loading", "running", "ended", "hung" or "unloaded"
  outcome,   \* how its runProve ended
  strays,
  messages,  \* posted to the page, not yet received
  errors     \* "error" events of the Worker object, not yet received

vars == <<noisy, current, disabled, badge, shown, runs, worker, outcome, strays, messages, errors>>
pageVars == <<noisy, current, disabled, badge, shown, runs>>

TypeOK ==
  /\ noisy \in BOOLEAN
  /\ current \in Runs \cup {NoRun} /\ disabled = (current # NoRun)
  /\ badge \in {"hidden", "ok", "err"} /\ shown \in Runs \cup {NoRun}
  /\ runs \in 0..MaxRuns
  /\ worker \in [Runs -> {"none", "loading", "running", "ended", "hung", "unloaded"}]
  /\ outcome \in [Runs -> {"none", "result", "error"}]
  /\ strays \in [Runs -> 0..MaxStrays]
  /\ messages \in [Runs -> Seq({"result", "error"})]
  /\ errors \in [Runs -> Nat]

Init ==
  /\ noisy \in BOOLEAN
  /\ current = NoRun /\ disabled = FALSE
  /\ badge = "hidden" /\ shown = NoRun /\ runs = 0
  /\ worker = [r \in Runs |-> "none"] /\ outcome = [r \in Runs |-> "none"]
  /\ strays = [r \in Runs |-> 0]
  /\ messages = [r \in Runs |-> <<>>] /\ errors = [r \in Runs |-> 0]

-----------------------------------------------------------------------------
\* The page.

\* A click; a disabled button gives none.
start ==
  /\ ~disabled /\ current = NoRun /\ runs < MaxRuns
  /\ runs' = runs + 1
  /\ current' = runs' /\ disabled' = TRUE
  /\ badge' = "hidden" /\ shown' = NoRun
  /\ worker' = [worker EXCEPT ![runs'] = "loading"]
  /\ UNCHANGED <<noisy, outcome, strays, messages, errors>>

\* The onMessage callback start gives to startWorker.
Show_KeepsCard(r, kind) ==
  /\ badge' = (IF kind = "result" \/ badge = "ok" THEN "ok" ELSE "err") /\ shown' = r
  /\ current' = NoRun /\ disabled' = FALSE

Show(r, kind) ==
  /\ badge' = (IF kind = "result" THEN "ok" ELSE "err") /\ shown' = r
  /\ current' = NoRun /\ disabled' = FALSE

\* The worker's "message" and "error" events come from two task sources: each
\* is in order, one may overtake the other.
OnMessage(r) ==
  /\ messages[r] # <<>>
  /\ Show(r, Head(messages[r]))
  /\ messages' = [messages EXCEPT ![r] = Tail(@)]
  /\ UNCHANGED <<noisy, runs, worker, outcome, strays, errors>>

OnError(r) ==
  /\ errors[r] > 0
  /\ Show(r, "error")
  /\ errors' = [errors EXCEPT ![r] = @ - 1]
  /\ UNCHANGED <<noisy, runs, worker, outcome, strays, messages>>

-----------------------------------------------------------------------------
\* The workers.

Post(r, kind) == messages' = [messages EXCEPT ![r] = Append(@, kind)]
RaiseError(r) == errors' = [errors EXCEPT ![r] = @ + 1]

\* The module is evaluated, then the "start" message delivered; or it is not
\* to be had.
Load(r) ==
  /\ worker[r] = "loading"
  /\ \/ worker' = [worker EXCEPT ![r] = "running"] /\ UNCHANGED errors
     \/ worker' = [worker EXCEPT ![r] = "unloaded"] /\ RaiseError(r)
  /\ UNCHANGED <<pageVars, outcome, strays, messages>>

RunEnds_Twice(r) ==
  /\ worker[r] = "running"
  /\ worker' = [worker EXCEPT ![r] = "ended"]
  /\ \E kind \in {"result", "error"} :
       /\ outcome' = [outcome EXCEPT ![r] = kind]
       /\ messages' = [messages EXCEPT ![r] = @ \o <<kind, kind>>]
  /\ UNCHANGED <<pageVars, strays, errors>>

\* runProve returns or throws, after its finally has closed the session.
RunEnds(r) ==
  /\ worker[r] = "running"
  /\ worker' = [worker EXCEPT ![r] = "ended"]
  /\ \E kind \in {"result", "error"} :
       outcome' = [outcome EXCEPT ![r] = kind] /\ Post(r, kind)
  /\ UNCHANGED <<pageVars, strays, errors>>

Trap_Silent(r) ==
  /\ noisy /\ worker[r] = "running"
  /\ worker' = [worker EXCEPT ![r] = "hung"]
  /\ UNCHANGED <<pageVars, outcome, strays, messages, errors>>

\* The WASM heap is exhausted: the promise of prove_streams never settles, and
\* the trap is announced by the worker's own listeners and, when it came as an
\* "error" event, whose default nothing prevents, by the Worker object's too.
Trap(r) ==
  /\ noisy /\ worker[r] = "running"
  /\ worker' = [worker EXCEPT ![r] = "hung"]
  /\ Post(r, "error")
  /\ RaiseError(r) \/ UNCHANGED errors
  /\ UNCHANGED <<pageVars, outcome, strays>>

\* An uncaught error beside the run, or an unhandled rejection.
Stray(r) ==
  /\ noisy /\ worker[r] \in {"running", "ended", "hung"} /\ strays[r] < MaxStrays
  /\ strays' = [strays EXCEPT ![r] = @ + 1]
  /\ Post(r, "error")
  /\ RaiseError(r) \/ UNCHANGED errors
  /\ UNCHANGED <<pageVars, worker, outcome>>

Next ==
  \/ start
  \/ \E r \in Runs : OnMessage(r) \/ OnError(r) \/ Load(r) \/ RunEnds(r) \/ Trap(r) \/ Stray(r)

Spec == Init /\ [][Next]_vars

-----------------------------------------------------------------------------
\* Properties.

Live == {r \in Runs : worker[r] \in {"loading", "running"}}

\* A card that shows a balance shows that of a run whose prove_streams returned
\* one, whichever worker spoke last and however late (the onMessage callback).
BalanceIsProved == badge = "ok" => outcome[shown] = "result"

\* A locked button is unlocked by something: the run the page waits for is
\* going on, or a word of its end is on the way (installWorkerErrorForwarder,
\* the listeners of startWorker).  However a worker dies, it is announced.
PageWaitsForSomething ==
  disabled => current \in Live \/ messages[current] # <<>> \/ errors[current] > 0

\* As long as no worker has uncaught errors, there is one run at a time (the
\* guard of start, the button) ...
OneRunAtATime == ~noisy => Cardinality(Live) <= 1

\* ... and the card is the latest run's: each worker has one word to say.
CardIsLatest == ~noisy => shown \in {NoRun, runs}

=============================================================================
