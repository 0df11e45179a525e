----------------------------- MODULE DemoProofs -----------------------------
(***************************************************************************)
(* Theorems about the page, for any number of runs and stray errors, and   *)
(* about the demo as a whole, for any balances too.  The page's rest on    *)
(* OutcomeInv, which follows a result from the run that returns it to the  *)
(* card, and QuietInv: a worker without uncaught errors has one word to    *)
(* say, while the page waits for it.  The demo's compose them with what    *)
(* BalanceProof promises of each run: PageSteps hands the page's           *)
(* invariants over, and Chain follows a balance from the verifier of its   *)
(* run to the card.                                                        *)
(***************************************************************************)
EXTENDS Demo, FiniteSetTheorems, SequenceTheorems, TLAPS

\* An outcome is final, and a result on its way is its run's outcome.
OutcomeInv ==
  \A r \in Runs :
    /\ r > runs => worker[r] = "none"
    /\ outcome[r] # "none" => worker[r] = "ended"
    /\ \A i \in DOMAIN messages[r] : messages[r][i] = "result" => outcome[r] = "result"

\* A card that is not the latest run's, or a second live run, takes a word
\* from a run that the page does not wait for.
Alone(r) ==
  /\ r \in Live => messages[r] = <<>> /\ errors[r] = 0
  /\ Len(messages[r]) + errors[r] <= 1
  /\ r \in Live \/ messages[r] # <<>> \/ errors[r] > 0 => r = current
QuietInv ==
  ~noisy => /\ current \in {NoRun, runs} /\ shown \in {NoRun, runs}
            /\ \A r \in Runs : Alone(r)

IInv == TypeOK /\ OutcomeInv /\ BalanceIsProved /\ PageWaitsForSomething /\ QuietInv

LEMMA RunsAreNumbers == Runs \subseteq Nat \ {0} /\ NoRun \notin Runs
  BY ProverPageAssumption DEF Runs, NoRun

\* What the two ways to speak to the page leave of the channels.
LEMMA Raised ==
  ASSUME errors \in [Runs -> Nat], NEW r \in Runs, RaiseError(r) \/ UNCHANGED errors
  PROVE  /\ errors' \in [Runs -> Nat]
         /\ \A s \in Runs : errors'[s] >= errors[s]
<1>1. CASE RaiseError(r)
  <2>1. errors' = [errors EXCEPT ![r] = errors[r] + 1] /\ errors[r] + 1 \in Nat
    BY <1>1 DEF RaiseError
  <2> QED
    BY <2>1
<1>2. CASE UNCHANGED errors
  BY <1>2
<1> QED
  BY <1>1, <1>2

LEMMA Posted ==
  ASSUME messages \in [Runs -> Seq({"result", "error"})],
         NEW r \in Runs, NEW kind \in {"result", "error"}, Post(r, kind)
  PROVE  /\ messages' \in [Runs -> Seq({"result", "error"})]
         /\ messages'[r] = Append(messages[r], kind) /\ messages'[r] # <<>>
         /\ Len(messages'[r]) = Len(messages[r]) + 1
         /\ \A s \in Runs \ {r} : messages'[s] = messages[s]
  BY DEF Post

\* An error that is posted adds no result to what is on its way.
LEMMA PostedError ==
  ASSUME messages \in [Runs -> Seq({"result", "error"})], NEW r \in Runs, Post(r, "error")
  PROVE  \A s \in Runs : \A i \in DOMAIN messages'[s] :
           messages'[s][i] = "result" => i \in DOMAIN messages[s] /\ messages[s][i] = "result"
<1>1. messages'[r] = Append(messages[r], "error")
  BY DEF Post
<1>2. \A s \in Runs \ {r} : messages'[s] = messages[s]
  BY DEF Post
<1>3. messages[r] \in Seq({"result", "error"})
  OBVIOUS
<1>4. \A i \in DOMAIN Append(messages[r], "error") :
        \/ i \in DOMAIN messages[r] /\ Append(messages[r], "error")[i] = messages[r][i]
        \/ Append(messages[r], "error")[i] = "error"
  BY <1>3
<1>5. QED
  BY <1>1, <1>2, <1>4

LEMMA InitInv == Init => IInv
<1> SUFFICES ASSUME Init PROVE IInv
  OBVIOUS
<1>1. TypeOK
  <2>1. 0 \in 0..MaxRuns /\ 0 \in 0..MaxStrays /\ <<>> \in Seq({"result", "error"})
    BY ProverPageAssumption
  <2> QED
    BY <2>1, RunsAreNumbers DEF Init, TypeOK
<1>2. OutcomeInv /\ BalanceIsProved /\ PageWaitsForSomething
  BY DEF Init, OutcomeInv, BalanceIsProved, PageWaitsForSomething
<1>3. QuietInv
  BY DEF Init, QuietInv, Alone, Live
<1> QED
  BY <1>1, <1>2, <1>3 DEF IInv

-----------------------------------------------------------------------------
LEMMA TypeStep == TypeOK /\ [Next]_vars => TypeOK'
<1> SUFFICES ASSUME TypeOK, [Next]_vars PROVE TypeOK'
  OBVIOUS
<1> USE RunsAreNumbers, ProverPageAssumption DEF TypeOK
<1>1. CASE start
  <2>1. runs' \in 0..MaxRuns /\ runs' \in Runs
    BY <1>1 DEF start, Runs
  <2> QED
    BY <1>1, <2>1 DEF start
<1>2. ASSUME NEW r \in Runs, OnMessage(r) PROVE TypeOK'
  <2>1. Head(messages[r]) \in {"result", "error"} /\ Tail(messages[r]) \in Seq({"result", "error"})
    BY <1>2 DEF OnMessage
  <2> QED
    BY <1>2, <2>1 DEF OnMessage, Show
<1>3. ASSUME NEW r \in Runs, OnError(r) PROVE TypeOK'
  <2>1. errors' = [errors EXCEPT ![r] = errors[r] - 1] /\ errors[r] - 1 \in Nat
    BY <1>3 DEF OnError
  <2> QED
    BY <1>3, <2>1 DEF OnError, Show
<1>4. ASSUME NEW r \in Runs, Load(r) PROVE TypeOK'
  <2>1. errors' \in [Runs -> Nat]
    BY <1>4, Raised DEF Load
  <2> QED
    BY <1>4, <2>1 DEF Load, pageVars
<1>5. ASSUME NEW r \in Runs, RunEnds(r) PROVE TypeOK'
  BY <1>5 DEF RunEnds, Post, pageVars
<1>6. ASSUME NEW r \in Runs, Trap(r) PROVE TypeOK'
  <2>1. errors' \in [Runs -> Nat] /\ messages' \in [Runs -> Seq({"result", "error"})]
    BY <1>6, Raised, Posted DEF Trap
  <2> QED
    BY <1>6, <2>1 DEF Trap, pageVars
<1>7. ASSUME NEW r \in Runs, Stray(r) PROVE TypeOK'
  <2>1. errors' \in [Runs -> Nat] /\ messages' \in [Runs -> Seq({"result", "error"})]
    BY <1>7, Raised, Posted DEF Stray
  <2>2. strays' = [strays EXCEPT ![r] = strays[r] + 1] /\ strays[r] + 1 \in 0..MaxStrays
    BY <1>7 DEF Stray
  <2> QED
    BY <1>7, <2>1, <2>2, ZenonT(60) DEF Stray, pageVars
<1>8. CASE UNCHANGED vars
  BY <1>8 DEF vars
<1> QED
  BY <1>1, <1>2, <1>3, <1>4, <1>5, <1>6, <1>7, <1>8 DEF Next

LEMMA OutcomeStep == TypeOK /\ OutcomeInv /\ [Next]_vars => OutcomeInv'
<1> SUFFICES ASSUME TypeOK, OutcomeInv, [Next]_vars PROVE OutcomeInv'
  OBVIOUS
<1> USE RunsAreNumbers, ProverPageAssumption DEF TypeOK, OutcomeInv
<1>1. CASE start
  <2>1. runs' \in Runs /\ runs' = runs + 1 /\ outcome[runs'] = "none"
    BY <1>1 DEF start, Runs
  <2>2. outcome' = outcome /\ messages' = messages /\ worker' = [worker EXCEPT ![runs'] = "loading"]
    BY <1>1 DEF start
  <2> QED
    BY <2>1, <2>2
<1>2. ASSUME NEW r \in Runs, OnMessage(r) PROVE OutcomeInv'
  <2>1. \A i \in DOMAIN Tail(messages[r]) :
          i + 1 \in DOMAIN messages[r] /\ Tail(messages[r])[i] = messages[r][i + 1]
    BY <1>2 DEF OnMessage
  <2> QED
    BY <1>2, <2>1 DEF OnMessage
<1>3. ASSUME NEW r \in Runs, OnError(r) PROVE OutcomeInv'
  BY <1>3 DEF OnError
<1>4. ASSUME NEW r \in Runs, Load(r) PROVE OutcomeInv'
  BY <1>4 DEF Load, pageVars
<1>5. ASSUME NEW r \in Runs, RunEnds(r) PROVE OutcomeInv'
  BY <1>5 DEF RunEnds, Post, pageVars
<1>6. ASSUME NEW r \in Runs, Trap(r) PROVE OutcomeInv'
  <2>1. worker' = [worker EXCEPT ![r] = "hung"] /\ worker[r] = "running"
    BY <1>6 DEF Trap
  <2>2. Post(r, "error") /\ outcome' = outcome /\ runs' = runs
    BY <1>6 DEF Trap, pageVars
  <2>3. \A s \in Runs : \A i \in DOMAIN messages'[s] : messages'[s][i] = "result" => outcome[s] = "result"
    BY <2>2, PostedError
  <2>4. \A s \in Runs : /\ s > runs => worker'[s] = "none"
                        /\ outcome[s] # "none" => worker'[s] = "ended"
    BY <2>1
  <2>5. \A s \in Runs : s > runs' => worker'[s] = "none"
    BY <2>2, <2>4
  <2>6. \A s \in Runs : outcome'[s] # "none" => worker'[s] = "ended"
    BY <2>2, <2>4
  <2>7. \A s \in Runs : \A i \in DOMAIN messages'[s] : messages'[s][i] = "result" => outcome'[s] = "result"
    BY <2>2, <2>3
  <2> QED
    BY <2>5, <2>6, <2>7
<1>7. ASSUME NEW r \in Runs, Stray(r) PROVE OutcomeInv'
  <2>1. worker' = worker
    BY <1>7 DEF Stray
  <2>2. Post(r, "error") /\ outcome' = outcome /\ runs' = runs
    BY <1>7 DEF Stray, pageVars
  <2>3. \A s \in Runs : \A i \in DOMAIN messages'[s] : messages'[s][i] = "result" => outcome[s] = "result"
    BY <2>2, PostedError
  <2>4. \A s \in Runs : /\ s > runs => worker'[s] = "none"
                        /\ outcome[s] # "none" => worker'[s] = "ended"
    BY <2>1
  <2>5. \A s \in Runs : s > runs' => worker'[s] = "none"
    BY <2>2, <2>4
  <2>6. \A s \in Runs : outcome'[s] # "none" => worker'[s] = "ended"
    BY <2>2, <2>4
  <2>7. \A s \in Runs : \A i \in DOMAIN messages'[s] : messages'[s][i] = "result" => outcome'[s] = "result"
    BY <2>2, <2>3
  <2> QED
    BY <2>5, <2>6, <2>7
<1>8. CASE UNCHANGED vars
  BY <1>8 DEF vars
<1> QED
  BY <1>1, <1>2, <1>3, <1>4, <1>5, <1>6, <1>7, <1>8 DEF Next

LEMMA CardStep ==
  TypeOK /\ OutcomeInv /\ BalanceIsProved /\ [Next]_vars => BalanceIsProved'
<1> SUFFICES ASSUME TypeOK, OutcomeInv, BalanceIsProved, [Next]_vars PROVE BalanceIsProved'
  OBVIOUS
<1> USE RunsAreNumbers DEF TypeOK, OutcomeInv, BalanceIsProved
<1>1. CASE start
  BY <1>1 DEF start
<1>2. ASSUME NEW r \in Runs, OnMessage(r) PROVE BalanceIsProved'
  <2>1. Head(messages[r]) = messages[r][1] /\ 1 \in DOMAIN messages[r]
    BY <1>2 DEF OnMessage
  <2> QED
    BY <1>2, <2>1 DEF OnMessage, Show
<1>3. ASSUME NEW r \in Runs, OnError(r) PROVE BalanceIsProved'
  BY <1>3 DEF OnError, Show
<1>4. ASSUME NEW r \in Runs, Load(r) \/ Trap(r) \/ Stray(r) PROVE BalanceIsProved'
  BY <1>4 DEF Load, Trap, Stray, pageVars
<1>5. ASSUME NEW r \in Runs, RunEnds(r) PROVE BalanceIsProved'
  <2>1. outcome[r] = "none"
    BY <1>5 DEF RunEnds
  <2> QED
    BY <1>5, <2>1 DEF RunEnds, pageVars
<1>6. CASE UNCHANGED vars
  BY <1>6 DEF vars
<1> QED
  BY <1>1, <1>2, <1>3, <1>4, <1>5, <1>6 DEF Next

LEMMA WaitStep ==
  TypeOK /\ PageWaitsForSomething /\ [Next]_vars => PageWaitsForSomething'
<1> SUFFICES ASSUME TypeOK, PageWaitsForSomething, [Next]_vars PROVE PageWaitsForSomething'
  OBVIOUS
<1> USE RunsAreNumbers DEF TypeOK, PageWaitsForSomething, Live
<1>1. CASE start
  <2>1. runs' \in Runs
    BY <1>1, ProverPageAssumption DEF start, Runs
  <2> QED
    BY <1>1, <2>1 DEF start
<1>2. ASSUME NEW r \in Runs, OnMessage(r) \/ OnError(r) PROVE PageWaitsForSomething'
  BY <1>2 DEF OnMessage, OnError, Show
<1>3. ASSUME NEW r \in Runs, Load(r) PROVE PageWaitsForSomething'
  <2>1. CASE worker' = [worker EXCEPT ![r] = "running"] /\ UNCHANGED errors
    BY <1>3, <2>1 DEF Load, pageVars
  <2>2. CASE worker' = [worker EXCEPT ![r] = "unloaded"] /\ RaiseError(r)
    <3>1. errors'[r] > 0 /\ \A s \in Runs \ {r} : errors'[s] = errors[s]
      BY <2>2 DEF RaiseError
    <3> QED
      BY <1>3, <2>2, <3>1 DEF Load, pageVars
  <2> QED
    BY <1>3, <2>1, <2>2 DEF Load
<1>4. ASSUME NEW r \in Runs, RunEnds(r) PROVE PageWaitsForSomething'
  BY <1>4 DEF RunEnds, Post, pageVars
<1>5. ASSUME NEW r \in Runs, Trap(r) \/ Stray(r) PROVE PageWaitsForSomething'
  <2>1. /\ messages'[r] # <<>> /\ \A s \in Runs \ {r} : messages'[s] = messages[s]
        /\ errors' \in [Runs -> Nat] /\ \A s \in Runs : errors'[s] >= errors[s]
        /\ \A s \in Runs \ {r} : worker'[s] = worker[s]
        /\ disabled' = disabled /\ current' = current
    BY <1>5, Raised, Posted DEF Trap, Stray, pageVars
  <2>2. disabled => current \in Runs
    BY DEF NoRun
  <2>3. current \in Runs /\ errors[current] > 0 => errors'[current] > 0
    <3>1. \A m, n \in Nat : m > 0 /\ n >= m => n > 0
      OBVIOUS
    <3> QED
      BY <2>1, <3>1
  <2> QED
    BY <2>1, <2>2, <2>3
<1>7. CASE UNCHANGED vars
  BY <1>7 DEF vars
<1> QED
  BY <1>1, <1>2, <1>3, <1>4, <1>5, <1>7 DEF Next

LEMMA NoisyKept == [Next]_vars => noisy' = noisy
<1> SUFFICES ASSUME [Next]_vars PROVE noisy' = noisy
  OBVIOUS
<1>1. ASSUME NEW r \in Runs,
             OnMessage(r) \/ OnError(r) \/ Load(r) \/ RunEnds(r) \/ Trap(r) \/ Stray(r)
      PROVE  noisy' = noisy
  BY <1>1, Zenon DEF OnMessage, OnError, Load, RunEnds, Trap, Stray, pageVars
<1>2. CASE start
  BY <1>2 DEF start
<1>3. CASE UNCHANGED vars
  BY <1>3 DEF vars
<1> QED
  BY <1>1, <1>2, <1>3 DEF Next

LEMMA QuietStep == TypeOK /\ QuietInv /\ [Next]_vars => QuietInv'
<1> SUFFICES ASSUME TypeOK, QuietInv, [Next]_vars, ~noisy PROVE QuietInv'
  BY NoisyKept DEF QuietInv
<1> USE RunsAreNumbers DEF TypeOK, QuietInv, Alone, Live
<1>1. CASE start
  <2>1. runs' \in Runs /\ runs' = runs + 1
    BY <1>1, ProverPageAssumption DEF start, Runs
  <2>2. \A r \in Runs : r \notin Live /\ messages[r] = <<>> /\ errors[r] = 0
    BY <1>1 DEF start
  <2> QED
    BY <1>1, <2>1, <2>2 DEF start
<1>2. ASSUME NEW r \in Runs, OnMessage(r) PROVE QuietInv'
  <2>1. Len(messages[r]) = 1 /\ errors[r] = 0 /\ r = current
    <3>1. messages[r] # <<>> /\ Len(messages[r]) \in Nat /\ Len(messages[r]) # 0
      BY <1>2 DEF OnMessage
    <3>2. errors[r] \in Nat /\ Len(messages[r]) + errors[r] <= 1 /\ r = current
      BY <3>1
    <3>3. \A m, n \in Nat : m # 0 /\ m + n <= 1 => m = 1 /\ n = 0
      OBVIOUS
    <3> QED
      BY <3>1, <3>2, <3>3
  <2>t. Tail(messages[r]) = <<>>
    BY <2>1
  <2>2. \A s \in Runs : s \notin Live /\ messages'[s] = <<>> /\ errors[s] = 0
    BY <1>2, <2>1, <2>t DEF OnMessage
  <2> QED
    BY <1>2, <2>1, <2>2 DEF OnMessage, Show
<1>3. ASSUME NEW r \in Runs, OnError(r) PROVE QuietInv'
  <2>1. messages[r] = <<>> /\ errors[r] = 1 /\ r = current
    BY <1>3 DEF OnError
  <2>2. \A s \in Runs : s \notin Live /\ messages[s] = <<>> /\ errors'[s] = 0
    BY <1>3, <2>1 DEF OnError
  <2> QED
    BY <1>3, <2>1, <2>2 DEF OnError, Show
<1>4. ASSUME NEW r \in Runs, Load(r) PROVE QuietInv'
  <2>1. r = current /\ messages[r] = <<>> /\ errors[r] = 0
    BY <1>4 DEF Load
  <2>2. CASE worker' = [worker EXCEPT ![r] = "running"] /\ UNCHANGED errors
    BY <1>4, <2>1, <2>2 DEF Load, pageVars
  <2>3. CASE worker' = [worker EXCEPT ![r] = "unloaded"] /\ RaiseError(r)
    <3>1. errors' = [errors EXCEPT ![r] = 1]
      BY <2>1, <2>3 DEF RaiseError
    <3>2. ASSUME NEW s \in Runs PROVE Alone(s)'
      <4>1. CASE s = r
        <5>1. messages'[r] = <<>> /\ errors'[r] = 1 /\ current' = r /\ worker'[r] = "unloaded"
          BY <1>4, <2>1, <2>3, <3>1 DEF Load, pageVars
        <5> QED
          BY <4>1, <5>1
      <4>2. CASE s # r
        BY <1>4, <2>3, <3>1, <4>2 DEF Load, pageVars
      <4> QED
        BY <4>1, <4>2
    <3> QED
      BY <1>4, <3>2 DEF Load, pageVars
  <2> QED
    BY <1>4, <2>2, <2>3 DEF Load
<1>5. ASSUME NEW r \in Runs, RunEnds(r) PROVE QuietInv'
  <2>1. r \in Live /\ r = current /\ messages[r] = <<>> /\ errors[r] = 0
    BY <1>5 DEF RunEnds
  <2>2. Len(messages'[r]) = 1 /\ \A s \in Runs \ {r} : messages'[s] = messages[s]
    <3>1. PICK kind \in {"result", "error"} : Post(r, kind)
      BY <1>5 DEF RunEnds
    <3>2. Len(messages'[r]) = Len(messages[r]) + 1 /\ \A s \in Runs \ {r} : messages'[s] = messages[s]
      BY <3>1, Posted
    <3> QED
      BY <2>1, <3>2
  <2>3. ASSUME NEW s \in Runs PROVE Alone(s)'
    <3>1. CASE s = r
      <4>1. errors'[r] = 0 /\ current' = r /\ worker'[r] = "ended"
        BY <1>5, <2>1 DEF RunEnds, pageVars
      <4> QED
        BY <3>1, <4>1, <2>2
    <3>2. CASE s # r
      <4>1. /\ messages'[s] = messages[s] /\ errors'[s] = errors[s]
            /\ worker'[s] = worker[s] /\ current' = current
        BY <1>5, <2>2, <3>2 DEF RunEnds, pageVars
      <4> QED
        BY <4>1
    <3> QED
      BY <3>1, <3>2
  <2> QED
    BY <1>5, <2>3 DEF RunEnds, pageVars
<1>6. ASSUME NEW r \in Runs, Trap(r) \/ Stray(r) PROVE QuietInv'
  BY <1>6 DEF Trap, Stray
<1>7. CASE UNCHANGED vars
  BY <1>7 DEF vars
<1> QED
  BY <1>1, <1>2, <1>3, <1>4, <1>5, <1>6, <1>7 DEF Next

LEMMA Inductive == Spec => []IInv
<1>1. IInv /\ [Next]_vars => IInv'
  BY TypeStep, OutcomeStep, CardStep, WaitStep, QuietStep DEF IInv
<1> QED
  BY InitInv, <1>1, PTL DEF Spec

-----------------------------------------------------------------------------
\* The page is typed, its button locked exactly while it has a worker.
THEOREM PageTyped == Spec => []TypeOK
<1>1. IInv => TypeOK
  BY DEF IInv
<1> QED
  BY Inductive, <1>1, PTL

\* A balance on the card is one that the run it shows has returned, however late and in whatever
\* order workers speak (the onMessage callback of start).
THEOREM BalanceProved == Spec => []BalanceIsProved
<1>1. IInv => BalanceIsProved
  BY DEF IInv
<1> QED
  BY Inductive, <1>1, PTL

\* The page never waits for a worker that has nothing more to say (installWorkerErrorForwarder
\* and the listeners of startWorker between them announce every death).
THEOREM WaitsForSomething == Spec => []PageWaitsForSomething
<1>1. IInv => PageWaitsForSomething
  BY DEF IInv
<1> QED
  BY Inductive, <1>1, PTL

\* Without uncaught errors the guard of start is enough for one run at a time ...
THEOREM OneRun == Spec => []OneRunAtATime
<1>1. IInv => OneRunAtATime
  <2> SUFFICES ASSUME IInv, ~noisy PROVE Cardinality(Live) <= 1
    BY DEF OneRunAtATime
  <2>1. Live \subseteq {current}
    BY DEF IInv, QuietInv, Alone, Live
  <2>2. IsFiniteSet({current}) /\ Cardinality({current}) = 1
    BY FS_Singleton
  <2>3. Cardinality(Live) <= Cardinality({current})
    BY <2>1, <2>2, FS_Subset
  <2> QED
    BY <2>2, <2>3
<1> QED
  BY Inductive, <1>1, PTL

\* ... and for a card that is the latest run's.
THEOREM LatestCard == Spec => []CardIsLatest
<1>1. IInv => CardIsLatest
  BY DEF IInv, QuietInv, CardIsLatest
<1> QED
  BY Inductive, <1>1, PTL

-----------------------------------------------------------------------------
\* The demo: the page with a proof behind each run.

\* What a verifier concludes, and what prove_streams returns or throws.
Conclusions ==
  [status : {"success"}, balance : Balances] \cup [status : {"failure"}, reason : VerifierReasons]
    \cup {Undecided}
Tellings ==
  [status : {"success"}, balance : Balances]
    \cup [status : {"error"}, reason : VerifierReasons \cup ProverErrors] \cup {Undecided}

ResultsTyped == verdict \in [Runs -> Conclusions] /\ told \in [Runs -> Tellings]

\* A run tells a balance only after its verifier concluded it, and ends with a
\* result only after it was told one; a card with the badge shows what it was told.
Chain ==
  /\ ResultsTyped
  /\ \A r \in Runs : told[r].status = "success" => verdict[r] = told[r]
  /\ \A r \in Runs : outcome[r] = "result" => told[r].status = "success"
  /\ badge = "ok" => /\ shown \in Runs /\ told[shown].status = "success"
                     /\ card = formatChf(told[shown].balance)

\* The demo does nothing to the page that the page does not do.
LEMMA PageSteps == [DemoNext]_demoVars => [Next]_vars
BY DEF DemoNext, demoVars, Next, Prove, Return

\* What a step of a run's proof may change.
LEMMA ProveChanges ==
  ASSUME NEW r \in Runs, Prove(r), ResultsTyped
  PROVE  /\ UNCHANGED <<vars, card>> /\ ResultsTyped'
         /\ \A s \in Runs \ {r} : verdict'[s] = verdict[s] /\ told'[s] = told[s]
<1>1. UNCHANGED <<vars, card>>
  BY DEF Prove
<1>2. PICK v \in Run(r)!Verdicts \cup {Undecided} : verdict' = [verdict EXCEPT ![r] = v]
  BY DEF Prove
<1>3. v \in Conclusions
  BY DEF Conclusions, Run!Verdicts, Run!Success, Run!Failure
<1>4. PICK o \in {told[r]} \cup [status : {"success"}, balance : Balances]
                   \cup [status : {"error"}, reason : VerifierReasons \cup ProverErrors] :
        told' = [told EXCEPT ![r] = o]
  BY DEF Prove
<1>5. o \in Tellings
  BY <1>4 DEF Tellings, ResultsTyped
<1>6. QED
  BY <1>1, <1>2, <1>3, <1>4, <1>5 DEF ResultsTyped

\* BalanceProof's three steps: only Relay tells a balance, and nothing follows it.
LEMMA ProveTells ==
  ASSUME NEW r \in Runs, Prove(r)
  PROVE  /\ told'[r] # told[r] => worker[r] = "running" /\ told[r] = Undecided
         /\ verdict'[r] # verdict[r] => verdict[r] = Undecided /\ told'[r] = told[r]
         /\ told'[r] # told[r] /\ told'[r].status = "success" => verdict'[r] = told'[r]
<1>1. Run(r)!Decide \/ Run(r)!Relay \/ Run(r)!GiveUp
  BY DEF Prove, Run!Next
<1>2. told'[r] # told[r] => worker[r] = "running"
  BY DEF Prove
<1>3. CASE Run(r)!Decide
  BY <1>2, <1>3 DEF Run!Decide, Run!Undecided, Undecided
<1>4. CASE Run(r)!Relay
  <2>1. told[r] = Undecided /\ verdict'[r] = verdict[r]
    BY <1>4 DEF Run!Relay, Run!Undecided, Undecided
  <2>2. ASSUME NEW b \in Balances, verdict[r] = Run(r)!Success(b), told'[r] = Run(r)!Success(b)
        PROVE  verdict'[r] = told'[r]
    BY <2>1, <2>2
  <2>3. ASSUME NEW e, told'[r] = Run(r)!Error(e)
        PROVE  told'[r].status # "success"
    BY <2>3 DEF Run!Error
  <2>4. told'[r].status = "success" => verdict'[r] = told'[r]
    BY <1>4, <2>2, <2>3 DEF Run!Relay
  <2>5. QED
    BY <1>2, <2>1, <2>4
<1>5. CASE Run(r)!GiveUp
  BY <1>2, <1>5 DEF Run!GiveUp, Run!Undecided, Undecided, Run!Error
<1>6. QED
  BY <1>1, <1>3, <1>4, <1>5

\* The chain is unbroken at first ...
LEMMA ChainInit == DemoInit => Chain
BY DEF DemoInit, Init, Chain, ResultsTyped, Conclusions, Tellings, Undecided

\* ... and every step keeps it.
LEMMA ChainStep == TypeOK /\ OutcomeInv /\ Chain /\ [DemoNext]_demoVars => Chain'
<1> SUFFICES ASSUME TypeOK, OutcomeInv, Chain, [DemoNext]_demoVars
             PROVE  Chain'
  OBVIOUS
<1>1. CASE start /\ UNCHANGED <<verdict, told, card>>
  BY <1>1 DEF start, Chain, ResultsTyped
<1>2. ASSUME NEW r \in Runs, Prove(r)
      PROVE  Chain'
  <2>1. /\ UNCHANGED <<vars, card>> /\ ResultsTyped'
        /\ \A s \in Runs \ {r} : verdict'[s] = verdict[s] /\ told'[s] = told[s]
    BY <1>2, ProveChanges DEF Chain
  <2>2. UNCHANGED <<outcome, badge, shown, card>>
    BY <2>1 DEF vars
  <2>3. told[r].status = "success" => told'[r] = told[r] /\ verdict'[r] = verdict[r]
    <3>1. told[r].status = "success" => told[r] # Undecided /\ verdict[r] # Undecided
      BY DEF Chain, Undecided
    <3>2. QED
      BY <1>2, <3>1, ProveTells
  <2>4. told'[r].status = "success" => verdict'[r] = told'[r]
    BY <1>2, <2>3, ProveTells DEF Chain
  <2>5. QED
    BY <2>1, <2>2, <2>3, <2>4 DEF Chain
<1>3. ASSUME NEW r \in Runs, Return(r)
      PROVE  Chain'
  <2>1. /\ outcome' \in [Runs -> {"none", "result", "error"}]
        /\ \A s \in Runs \ {r} : outcome'[s] = outcome[s]
    BY <1>3 DEF Return, RunEnds, TypeOK
  <2>2. UNCHANGED <<badge, shown, card, verdict, told>>
    BY <1>3 DEF Return, RunEnds, pageVars
  <2>3. outcome'[r] = "result" => told[r].status = "success"
    BY <1>3 DEF Return
  <2>4. QED
    BY <2>1, <2>2, <2>3 DEF Chain, ResultsTyped
<1>4. ASSUME NEW r \in Runs, OnMessage(r) \/ OnError(r), Write(r), UNCHANGED <<verdict, told>>
      PROVE  Chain'
  <2>1. UNCHANGED outcome /\ shown' = r
    BY <1>4 DEF OnMessage, OnError, Show
  <2>2. badge' = "ok" => outcome[r] = "result"
    <3>1. CASE OnMessage(r)
      <4>1. badge' = "ok" => Head(messages[r]) = "result"
        BY <3>1 DEF OnMessage, Show
      <4>2. Head(messages[r]) = messages[r][1] /\ 1 \in DOMAIN messages[r]
        BY <3>1 DEF OnMessage, TypeOK
      <4>3. QED
        BY <4>1, <4>2 DEF OutcomeInv
    <3>2. CASE OnError(r)
      BY <3>2 DEF OnError, Show
    <3>3. QED
      BY <1>4, <3>1, <3>2
  <2>3. badge' = "ok" => told[r].status = "success" /\ card' = formatChf(told[r].balance)
    BY <1>4, <2>2 DEF Chain, Write
  <2>4. QED
    BY <1>4, <2>1, <2>3 DEF Chain, ResultsTyped
<1>5. ASSUME NEW r \in Runs, Load(r) \/ Trap(r) \/ Stray(r), UNCHANGED <<verdict, told, card>>
      PROVE  Chain'
  BY <1>5 DEF Load, Trap, Stray, pageVars, Chain, ResultsTyped
<1>6. CASE UNCHANGED demoVars
  BY <1>6 DEF demoVars, vars, Chain, ResultsTyped
<1>7. QED
  BY <1>1, <1>2, <1>3, <1>4, <1>5, <1>6 DEF DemoNext

-----------------------------------------------------------------------------
\* The demo's page is the page of ProverPage, so that all that is proved of it
\* holds of the demo: startWorker and the onMessage callback meet no other worker.
THEOREM PageIsProverPage == DemoSpec => Spec
<1>1. DemoInit => Init
  BY DEF DemoInit
<1>2. QED
  BY <1>1, PageSteps, PTL DEF DemoSpec, Spec

\* The invariant behind the two theorems that follow.
LEMMA ChainAlways == DemoSpec => []Chain
<1>1. IInv => TypeOK /\ OutcomeInv
  BY DEF IInv
<1>2. QED
  BY <1>1, PageIsProverPage, Inductive, ChainInit, ChainStep, PTL DEF DemoSpec

\* The card that says "verified" shows what the verifier of that very run
\* concluded, whatever late or doubled messages the other runs' workers post.
THEOREM CardVerified == DemoSpec => []CardIsVerdict
<1>1. Chain => CardIsVerdict
  BY DEF Chain, CardIsVerdict
<1>2. QED
  BY <1>1, ChainAlways, PTL

\* Each run of the demo is one of the runs that BalanceProof allows: what the
\* page's other workers do does not reach its verifier or its prover.
THEOREM RunsKeepPromise ==
  ASSUME NEW r \in Runs
  PROVE  DemoSpec => Run(r)!Spec
<1>1. DemoInit => Run(r)!Init
  BY DEF DemoInit, Run!Init, Run!Undecided, Undecided
<1>2. Chain /\ [DemoNext]_demoVars => [Run(r)!Next]_<<verdict[r], told[r]>>
  <2> SUFFICES ASSUME Chain, [DemoNext]_demoVars
               PROVE  [Run(r)!Next]_<<verdict[r], told[r]>>
    OBVIOUS
  <2>1. ASSUME NEW s \in Runs, Prove(s)
        PROVE  [Run(r)!Next]_<<verdict[r], told[r]>>
    <3>1. CASE s = r
      BY <2>1, <3>1 DEF Prove
    <3>2. CASE s # r
      BY <2>1, <3>2, ProveChanges DEF Chain
    <3>3. QED
      BY <3>1, <3>2
  <2>2. CASE UNCHANGED <<verdict, told>>
    BY <2>2
  <2>3. QED
    BY <2>1, <2>2 DEF DemoNext, demoVars, Return
<1>3. QED
  BY <1>1, <1>2, ChainAlways, PTL DEF DemoSpec, Run!Spec

=============================================================================
