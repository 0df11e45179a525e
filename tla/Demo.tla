-------------------------------- MODULE Demo --------------------------------
(***************************************************************************)
(* The demo as its user sees it: clicks, runs and the card.  ProverPage    *)
(* and one BalanceProof per run, joined where runProve returns what        *)
(* prove_streams has and the message handler posts it to the page, and the *)
(* text that showResult makes of a balance.                                *)
(***************************************************************************)
EXTENDS ProverPage

CONSTANTS
  Balances,  \* the strings a verifier can report: [kind, milli], kind "number" (so
             \* many thousandths), "empty" (milli = 0), or "word"
  VerifierReasons, ProverErrors

VARIABLES
  verdict,  \* per run, what the verifier concluded
  told,     \* per run, what prove_streams returns or throws
  card      \* the balance that the card's text says

demoVars == <<vars, verdict, told, card>>

Run(r) == INSTANCE BalanceProof WITH verdict <- verdict[r], outcome <- told[r]
Undecided == [status |-> "none"]
Blank     == [kind |-> "word", milli |-> 0]

DemoInit ==
  /\ Init
  /\ verdict = [r \in Runs |-> Undecided] /\ told = [r \in Runs |-> Undecided]
  /\ card = Blank

\* Number(v).toLocaleString with two decimals if v is a number, which the empty
\* string is to Number, or else v.
formatChf(chf) ==
  IF chf.kind = "word" THEN chf
  ELSE [kind |-> "number", milli |-> 10 * ((chf.milli + 5) \div 10)]

\* A step of run r's proof: the prover's side ends with its worker.
Prove(r) ==
  /\ worker[r] \notin {"none", "loading", "unloaded"}
  /\ \E v \in Run(r)!Verdicts \cup {Undecided} :
       verdict' = [verdict EXCEPT ![r] = v]
  /\ \E o \in {told[r]} \cup [status : {"success"}, balance : Balances]
                \cup [status : {"error"}, reason : VerifierReasons \cup ProverErrors] :
       told' = [told EXCEPT ![r] = o]
  /\ told' = told \/ worker[r] = "running"
  /\ Run(r)!Next
  /\ UNCHANGED <<vars, card>>

Return(r) ==
  /\ told[r] # Undecided
  /\ RunEnds(r)
  /\ outcome'[r] = IF told[r].status = "success" THEN "result" ELSE "error"
  /\ UNCHANGED <<verdict, told, card>>

\* showResult writes the text of the run whose message it is; showError blanks it.
Write(r) ==
  card' = IF badge' = "ok" /\ told[r].status = "success" THEN formatChf(told[r].balance) ELSE Blank

DemoNext ==
  \/ start /\ UNCHANGED <<verdict, told, card>>
  \/ \E r \in Runs :
       \/ Prove(r) \/ Return(r)
       \/ (OnMessage(r) \/ OnError(r)) /\ Write(r) /\ UNCHANGED <<verdict, told>>
       \/ (Load(r) \/ Trap(r) \/ Stray(r)) /\ UNCHANGED <<verdict, told, card>>

\* Workers load or fail to, a run is decided (EveryoneStops of Notarization), events are
\* dispatched; nobody has to click, and no verifier to conclude.
DemoFairness ==
  \A r \in Runs :
    /\ WF_demoVars(Load(r) /\ UNCHANGED <<verdict, told, card>>)
    /\ WF_demoVars(Prove(r) /\ told' # told) /\ WF_demoVars(Return(r))
    /\ WF_demoVars(OnMessage(r) /\ Write(r) /\ UNCHANGED <<verdict, told>>)
    /\ WF_demoVars(OnError(r) /\ Write(r) /\ UNCHANGED <<verdict, told>>)

DemoSpec == DemoInit /\ [][DemoNext]_demoVars /\ DemoFairness

-----------------------------------------------------------------------------
\* A card with the "verified" badge says what the verifier of the run it shows concluded, in
\* spite of late and doubled messages of other runs (the onMessage callback, prove_streams).
CardIsVerdict ==
  badge = "ok" => /\ verdict[shown].status = "success"
                  /\ card = formatChf(verdict[shown].balance)

\* The button that a click locks is unlocked again, however the run ends: refused, failed, with a
\* worker that could not be loaded or whose heap is exhausted (start, installWorkerErrorForwarder).
ButtonComesBack == disabled ~> ~disabled

=============================================================================
