# A TLA+ model of tlsn-demo

tlsn-demo lets a browser prove to a server what a bank answered it over TLS: the
browser (the *prover*, WASM) speaks TLS with the bank by multi-party computation
with the server (the *verifier*), discloses the CHF balance and the date of the
last audit, and the server tells it over the same stream whether it believed
the proof. This directory holds specifications of that program, configurations that
model-check them with TLC, and proofs checked by TLAPS. Paths below are
relative to the repository's root.

- [The system](#the-system): components, state, interaction, what is hard
- [Modules](#modules): which module models what, and how
- [Runs](#runs): what each check shows, its bounds, and why they are enough
- [Fairness](#fairness)
- [Proofs](#proofs)
- [What the checks found](#what-the-checks-found)
- [Not modelled](#not-modelled)
- [Plan](#plan)

## The system

```
 page (prover.main.mjs) ──start──▶ worker (prover.worker.mjs, WASM prover)
        ▲  result / error            │ one WebTransport session
        └────────────────────────────┤
                                     ├─ stream 1  "VERIFY\n"        ──▶ handle ─▶ dispatch_stream ─▶ verify_balance
                                     │     preamble, then multiplexer frames,         │
                                     │     then one raw JSON frame  ◀─────────────────┘
                                     └─ stream 2  "CONNECT host:port\n" ─▶ dispatch_stream ─▶ proxy_connect ─▶ bank
```

| Component | Source | State | Operations | What makes it correct |
|---|---|---|---|---|
| Notarization | `demo/src/balance_verifier.rs`, `demo/src/connect.rs:184-223`, `tlsn-prover/src/prover.rs`, `tlsn-prover/src/wasm/prover.rs`, `demo/assets/prover.worker.mjs` | progress of worker, prover, verifier task and two session drivers; the stream between them | set-up, commit, the HTTP exchange (three joined futures), prove, close, validate, outcome frame | a success was earned; a verdict is told; nobody waits for ever |
| WebTransportIo | `tlsn-prover/src/wasm/io.rs` | a read state with a partly consumed chunk, one write in flight, a close state | `poll_read`, `poll_write`, `poll_flush`, `poll_close` | bytes in order and once; a true end of file; no lost wake-up |
| Stream dispatch and proxy | `demo/src/connect.rs:75-117, 160-182, 233-315` | preamble buffer, leftover, two pumps | `read_role_preamble`, `ChainedRead`, `proxy_connect`, `forward` | no byte lost where preamble and payload meet; half-close works; the task ends |
| Session accept loop | `demo/src/connect.rs:119-182` | `verified` flag, the tasks of a session | accept, spawn, dispatch, return | the loss of a session is told from a good end; no stream holds up another; a run that nothing hinders is told its outcome; every task ends, CONNECT's when the bank lets it |
| Certificate cache | `demo/src/tls.rs`, `demo/src/service.rs:54-85` | a file, the served certificate | load, generate, persist | the served certificate is accepted, cached and stable |
| Page | `demo/assets/prover.main.mjs`, `demo/assets/flow.mjs` | `currentWorker`, button, card | click, messages and error events of workers | shows a proved balance only; never waits for nothing |
| Redaction | `tlsn-prover/src/reveal.rs`, `tlsn-prover/src/parser/`, `extract_balance` | the ranges collected rule by rule | parse, find a rule's range, reveal or commit | discloses what the rules name and no more, and the verifier reads it back |
| Service, bootstrap, adapter | `demo/src/service.rs`, `demo/src/main.rs`, `tlsn-prover/src/transport.rs` | none | routing, start, trait conversion | — |

The components meet in a few places only. Worker and server share the two
streams of one WebTransport session. The VERIFY stream is used in turn by three
readers on each side: preamble, multiplexer driver, frame reader; the socket
travels between them through a oneshot channel. The page and its worker exchange messages. The
server's starts share the certificate's file. The page carries the hash of the
certificate that the server had when the page was loaded.

Hard behaviours: futures joined so that all must end (`prover.rs:162`,
`connect.rs:262`); detached tasks that outlive the function that spawned them
(`balance_verifier.rs:74`, `prover.rs:131`); a socket handed from a multiplexer to
a raw reader; early returns at every `?` that must not swallow the verdict; poll functions called again after `Pending`
with other arguments; ranges in bytes, widened by fixed amounts, over a text that the bank chooses the layout of; two parsers that must agree; no time limit anywhere; writes to a file that are not
atomic; two announcements of one failure. `PROJECT.json` lists each at its line
under `hazards`, with the properties that cover it.

## Modules

| Module | Models | Properties |
|---|---|---|
| `BalanceProof` | the promise of a run, abstractly: the verifier decides once, the page hears the decision or the prover's own error | (specification) |
| `Notarization` | one run over the VERIFY stream | `TypeOK`, `SuccessIsEarned`, `MuxNeverEatsFrame`, `PoliciesCoverValidation`, `VerdictIsTold`, `RefusalIsNamed`, `HonestRunSucceeds`, `EveryoneStops`, `Implements` |
| `NotarizationProofs` | theorems about it | |
| `StreamReader`, `StreamWriter` | the two halves of `WebTransportIo` | `TypeOK` of both, `ReadsInOrder`, `EofIsTheEnd`, `ReadsComplete`; `NothingReportedEarly`, `CloseAfterWrites`, `EveryByteOnce`, `WritesComplete` |
| `StreamReaderProofs`, `StreamWriterProofs` | theorems about them | |
| `HalfPipe` | one direction of a byte pipe, abstractly | (specification) |
| `ConnectStream` | `dispatch_stream` for one stream of either role | `TypeOK`, `PreambleLimit`, `ServedInFull`, `AnsweredInFull`, `TaskEnds`, `LimitIsKept` |
| `ConnectStreamProofs` | theorems about it | |
| `ConnectSession` | `handle`: the accept loop, the tasks it spawns, their flag, the page at the other end, and the bank's connection | `LossIsReported`, `RunIsNoFailure`, `RunIsServed`, `AllEnds` |
| `ConnectSessionProofs` | theorems about it | |
| `CertCache` | `load_or_generate` over many starts | `PageConnects`, `ServedIsCached`, `StableAcrossRestarts`, `CacheNeverBlocks` |
| `CertCacheProofs` | theorems about it | |
| `ProverPage` | the page and its workers | `PageWaitsForSomething`, `CardIsLatest`; proved only: `BalanceIsProved`, `OneRunAtATime` |
| `HttpJson` | the two parsers: the grammar and the maps of ranges | (operators) |
| `Redaction` | the rules applied one at a time, and the verifier's reading of what they reveal | `TypeOK`, `ParsedAsOwned`, `OnlyNamedIsLegible`, `RulesAreHonoured`, `VerifierReadsTheBank`, `AnswerIsRead`, `RestIsCommitted` |
| `RedactionProofs` | theorems about `HttpJson` and `Redaction` | |
| `Demo` | `ProverPage` with one `BalanceProof` per run, and the text of the card | `CardIsVerdict`, `ButtonComesBack` |
| `DemoProofs` | theorems about `ProverPage` and `Demo` | |

`MCNotarization`, `MCRedaction` and `MCDemo` give their modules constants for TLC;
the other modules take theirs from the `.cfg` directly. Operators whose names have a suffix
(`poll_write_Eager`, `Join_FirstEnds`) are variants of the operator they are
named after with one plausible slip each; no specification uses them.
Every property of a passing run is known to fail when one of them takes the place of the original (`PROJECT.json`, `mutants`).

### Notarization

`wk` follows `runProve` through `prove_streams` and `Prover::prove`; each state is
an await. `fut` holds the three futures of `execute_http_exchange`; `vpc` follows
`dispatch_stream`, `run_notarize_stream` and `verify_balance`; `drv` holds each
side's session driver, a task of its own. `wire[x]` is the FIFO of what is
under way to `x` on the VERIFY stream: the preamble, multiplexer frames by kind,
and the two parts of the outcome frame as `write_json_frame` writes them. `inbox[x]`
is what x's driver has delivered. The tlsn library is not in the repository; its
calls are the messages that each exchanges, from how the code uses them.
MPC-TLS itself is taken to be sound: a proof of something the bank did not say fails in the driver.

A prover is a record (`inputs`) of what the verifier tells apart: protocol, limits,
the two disclosures, the server's name, and whether its chain is one the verifier trusts too
(`serverCertDer` of `JsProverInputs` can make the prover accept another). The bank's answer is a
`layout`: another status, a body that does not match the prover's rules, one the
verifier's parser cannot read back, or a good one.

Errors are kept only as far as the code tells them apart: `rejected` (the peer
named a policy), `eof` (it dropped the stream), `transport`, `tls`, `http`,
`config`, or the verifier's reason as read from the frame.

### StreamReader and StreamWriter

One step is one call of a poll function; each arm of the `match` is an operator.
Bytes are their positions in the stream, so order and multiplicity are visible.
A promise never settles inside the call that made it, so the loop of `poll_read`
is unrolled once: an empty chunk starts the next read and returns `Pending`.
`JsFuture` gives its result away once; a future that has returned an error stays
in the state and is pending when polled again. The initial state chooses (`patient`, `framed`) between an owner that polls anything at any time and
the owner that the repository has: a frame codec which polls when woken and stops
at an error.

### ConnectStream

The client's bytes are numbered; the first `lineLength` of them are the
preamble's line with its newline. What a line says bounds how long it can be (`LengthFits`): `VERIFY` is taken only as the
whole line, a target may be written with any number of zeros before its port. Each read takes any number of bytes that have
been sent, up to the buffer. `up` and `down` are the two calls of `forward`. A
client or bank may finish its half, or reset; `served` and `answered` are what the
bank (or session driver) and the client have been given. The two directions are
shown to implement `HalfPipe`. What dropping a stream's half after a failed pump signals to
the peer is decided by the QUIC library and not modelled.

### ConnectSession

`incoming` is what `accept_bi` can return; `loop` what `handle` is at or has returned;
`task[s]` follows `dispatch_stream` for stream `s` through its awaits, from the preamble to the store
of `verified`, which outlive the loop. `page` is the part of `runProve` that opens the
two streams in order, writes their preambles, and closes the session when it has been told, has
failed or has given up. `framed` is that the outcome's frame is written: the page may read it at any time while the
session is open, before or after the task has closed the stream, stored the flag and ended. `bank` is the connection of
`proxy_connect`. Its task ends when both pumps have: that from the bank only when the bank ends (or, the session being
gone, sends), so the task can be over before the verdict, and can outlive the session. `Lose` takes the transport at any moment. Beside the page's two streams there
can be one that is not bidirectional, one with a bad preamble, and a second `VERIFY`.
What the tasks say over their streams is in `Notarization` and `ConnectStream`.

### CertCache

`Start`, `load_cached`, `generate_self_signed`, `persist` (which truncates) and
`write` are one start; `Crash` may follow any of them. A certificate is its key and
the moment it was made; `not_after` is the instant the cache compares,
`CertNotAfter` the date in the certificate. The clock stands still during a start
(which takes milliseconds against half-day ticks).

### ProverPage

`start` is a click; `Show` is the callback that `start` gives to `startWorker`. Each
worker has two channels to the page, its messages and the error events of
its `Worker` object, in order each and unordered between them. `Trap` is
the exhausted WASM heap: the run's promise never settles. `noisy`, chosen in the initial state,
says whether workers have uncaught errors at all.

### HttpJson and Redaction

A message is a sequence of symbols: a word (a key, a string's text, a number), which stands for
a run of characters that no rule of the grammar splits, or one punctuation
character, so that a range widened by one byte takes in one symbol. `Json` is the grammar's
`value` with the ranges the traverser collects, atomic or with implicit white space;
One step of the grammar is an operator (`JsonFrom`, `HeadersFrom`, `PairsFrom`) of
what the recursion has found further on; `ParseStandard` is the prover's parser, `ParseRedacted` the verifier's, to which a hidden
byte is NUL, hence white space. `Entry` is the lookup in the flattened map: the
last pair of a path.

`Redaction` takes the rules in the order of `apply_message_reveal_config`, one step each; `Fits` is the builders'
check of a range against the transcript. A message that
ends with its line, without a newline, fails there too: the line's range is widened by one. `PageConfig` is what the page's worker asks for.
Beside the text, each symbol of a message carries the field or header it
belongs to; the code does not see it, and the properties compare what was disclosed with it. `ParsedAsOwned` compares the parser's
ranges themselves: each header, and each field that a rule asks for, has an entry whose ranges take in its own words and no
others, with the quotes, the colon and the separator around them that `reveal.rs` counts on.

### Demo

`Demo` instantiates `BalanceProof` once per run and lets a worker's run end as its proof does. `card`
is the balance that `showResult` writes, through `formatChf`. That `BalanceProof` stands for the
notarization is what `Implements` shows.

## Runs

| Run | Question | Bounds |
|---|---|---|
| `notarization` | Can any prover, with any answer of the bank and a transport lost at any moment, get a success it did not earn, lose the verdict, or confuse multiplexer and frame? Is each run one `BalanceProof` allows, and is everybody released? | two balances, limits 1 and 2 against requests at and one above each, all 128 provers; 56 072 states |
| `stream_reader` | Bytes in order and a true end of file for any cut, buffer and polling, and is an owner that polls only when woken always woken? | 4 bytes, buffers of 0 to 3, 2 empty chunks; 2 830 states |
| `stream_writer` | What holds for an owner that interleaves all three methods, and does a codec whose buffer grows under a pending write get each byte out once? | 4 bytes, 6 handed over in all; 41 193 states |
| `connect_stream` | However reads cut it, is every byte passed on once, the half-close respected, the task ended? | limit 3, lines of 2, 3, 4 and 6 bytes, `VERIFY` of 2 and the shortest `CONNECT` of 3, 7 client and 3 bank bytes, buffer 2; 28 987 states |
| `connect_stream_limit` | (violated) Is a line above the limit refused? A `CONNECT` line is not | the same |
| `connect_session` | Among foreign streams in any order, with the session closed or lost at any moment: is the page told its outcome unless lost, refused or failed, does every task end that the bank does not hold, is the session's end taken for what it was? | the page's two streams and three others; 299 670 states |
| `cert_cache` | Over 16 days of restarts, crashes and disk errors: accepted, cached, stable? | the real 13, 2 and 14 days, half-day ticks, 3 keys; 285 571 states |
| `cert_cache_torn` | (violated) Can what the cache holds make a start fail? | the same |
| `prover_page` | With late, doubled and stray errors: no wait for nothing? Without: the latest run's card? | 3 runs, 1 stray error per worker; 112 951 states |
| `demo` | Does a verified card say what the verifier of that run concluded, and does the button always come back? | 2 runs, 1 stray error per worker, two balances, one error of each side; 98 045 states |
| `redaction` | Are the parser's ranges the message's own, is exactly what the rules name revealed or committed to, do the verifier's two fields come out whole and out of what was disclosed, and is every plainly written answer read? | 2 598 answers with the page's rules; 2 750 combinations of rules of every kind over 16 answers; 414 057 states |
| `redaction_rest` | (violated) Is the rest of the response committed to? | the page's cases |

Why the bounds suffice. In `Notarization` a run is finite and its only data are the
balance, for which two values tell "the bank's" from "another", and the limits, for
which only the comparison matters; the theorems remove these bounds. The stream
modules need a chunk longer than the buffer, a buffer longer than the chunk, a remainder
given out in more than one further poll, and a pending write whose buffer grows twice: all occur
with 3 to 6 bytes. `ConnectStream` needs a `CONNECT` line at, just above and far above the limit and other lines
below it too, a `VERIFY` line below it, one that goes on after the word, leftovers of zero, one and more bytes, and a pump that goes round twice. `CertCache` runs through
generation, the whole life and the replacement of a certificate, and one more key than that takes.
`ConnectSession` has each kind of foreign stream once; a second of a kind
meets nobody the first did not. The answers of `Redaction` vary, independently, what moves or changes a range: white space after
a colon and between members, the order of members, a balance that is a string (empty, padded, with
punctuation in it), a number, an object or an array, a repeated key, a key of the same name elsewhere,
chunked framing, headers, and a message that ends with its status line; each outcome (read, each of the prover's and the verifier's
errors) is reached. Its rules vary a quoted and an unquoted one over fields, objects, array elements and the whole body, two at a time,
commitments padded by nothing, a little and past the end, and headers that repeat. On
the page, three runs are the fewest with a stale word of one run, a second waited for, and a third started
in between.

Deadlock is checked except where the modelled owner really stops (the patient and
framed owners after the end or an error) and where clicks are bounded
(`ProverPage`, `Demo`). `Notarization`, `ConnectStream`, `ConnectSession` and `Redaction` end in an explicit step (`Terminated`, `Done`, `Settled`, `Ended`) that is enabled only
at their proper ends, so a deadlock there is somebody waiting for ever.

## Fairness

- `Notarization`: the worker, the verifier and each driver are tasks of an
  executor (`tokio`, the browser's event loop) that polls whatever can run, so each is weakly
  fair. The bank answers or its connection fails. A worker whose WASM
  instance has trapped holds its session until the page goes away: that it eventually does is assumed,
  because nothing in the code bounds it.
- Streams: the browser settles a promise that can settle; an owner that was woken polls.
- `ConnectStream`: the stream's task and its pumps are polled; the client finishes
  its half or leaves and the bank ends its connection, each once. Without the last the code waits, having no time limit.
- `ConnectSession`: the loop and every task are polled and the page goes on. A notarization need
  not fail by itself, only when its session is gone; nobody has to open foreign streams, lose the session, or give up.
  While the session is open the bank answers or ends its connection, which `RunIsServed` needs. Once the session is
  gone nothing is assumed of the bank: `tokio::join!` (`demo/src/connect.rs:262-265`) waits for both pumps without a
  time limit, and one that fails does not shut down its destination, so a `CONNECT` task lasts until the bank acts.
  `AllEnds` says so: every task ends but one that `WaitsForBank`, and that one ends when the bank does. A page whose
  WASM instance traps never leaves `prove_streams` and is no run of this module, until its session is lost (see `Notarization`).
- `Demo`: a worker loads or fails to, a run is decided (which `EveryoneStops` shows of a run), events are dispatched. Nobody
  has to click, to have stray errors, or to trap.
- `CertCache`, `ProverPage` and `Redaction` have safety properties only and need none.

## Proofs

`NotarizationProofs` proves, from `NotarizationAssumption` alone (limits are
naturals, provers come from `AllInputs`) and so for every set of balances, limits
and provers:

- `TypeCorrect`: `Spec => []TypeOK`. The inductive invariant is `Typing`, `TypeOK` with
  `VerdictStage`, which ties the existence of a verdict to the verifier's
  state; without it `WriteFrame` could put an undecided outcome on the wire.
- `PolicyCovers`: `Spec => []PoliciesCoverValidation`. `Checked` says which policies have been
  passed at each state of the verifier, `Earned` what a verdict then implies.
- `SuccessEarned`: `Spec => []SuccessIsEarned`. The page's success is the
  verifier's (`Relayed`: an outcome is an own error or the verdict retold, resting on
  `PayloadIsVerdict`: the payload under way is the verdict), and the verifier's is `Earned`.
- `Implementation`: `Spec => Implements`. `Judge` maps to `Decide`, reading the frame to
  `Relay`, every failure of the prover to `GiveUp`, all else stutters. `ReportedOnce` (no outcome while the
  worker is still at work) gives the abstract guards.
- `FrameIsSafe`: `Spec => []MuxNeverEatsFrame`. The property is not inductive. `CloseBeforeFrame`
  adds why it holds: a verifier whose driver is closing or done has its close on the wire or read
  (`CloseAhead`), every raw item on the wire is behind that close (`RawBehind`), and the prover's
  driver reads nothing after it.

Actions are treated once each: frame lemmas say what each actor leaves alone
(`WorkerFrame`, `VerifierFrame`, `DriverFrame`) and how it changes the prover's wire
(`WorkerWire`, `VerifierWire`, `DriverWire`), and the invariants' proofs cite those.

What a broken connection may be blamed on needs both sides at once. `VerdictTold` (`VerdictIsTold`),
`RefusalNamed` (`RefusalIsNamed`) and `HonestSucceeds` (`HonestRunSucceeds`) rest on `Mutual`, an invariant about a transport that
is still up (`Live`), in six parts. `Heard(x)` is the set of multiplexer frames sent to x, delivered or not. `Asked` says what the
verifier's state and the frames it was sent tell of the prover, `Answered` the converse; `Unbroken`, that neither side fails but by
refusing, or by having been refused; `FrameInOrder`, that the two parts of the outcome frame are on the
wire, whole and before the end of the stream, when somebody is to read them; `Finished`, that a prover which is done
leaves no verifier in the middle; `BankIsToBlame`, that the three futures of the exchange fail
with the bank or the driver only. None is inductive alone: a driver is blamed on a peer that left,
and that peer's leaving on the driver's answer.

`StreamReaderProofs` proves, for any stream, cut and buffers, `ReaderTyped` (`TypeOK`), `InOrderAlways` (`ReadsInOrder`) and
`EofIsTrue` (`EofIsTheEnd`). `HeldIsNext` makes the first inductive: what the promise or the `Vec` holds comes right after what was
returned; `EndIsKnown` the second: a promise that says "done" has seen all of a finished peer.

`StreamWriterProofs` proves `WriterTyped` (`TypeOK`), `NothingEarly` (`NothingReportedEarly`), `ExactlyOnce` (`EveryByteOnce`) and `ClosedLast`
(`Spec => CloseAfterWrites`). `Accounted` places each byte handed over in a settled write or the one in
flight; `WriteFits` says that the length remembered in `Writing` is that of a prefix of the owner's buffer, however it has grown since.

`ConnectStreamProofs` proves `StreamTyped` (`TypeOK`), `LimitRespected` (`PreambleLimit`), and both refinements of `HalfPipe`: `UpIsAPipe`
(`Spec => ServedInFull`) and `DownIsAPipe` (`Spec => AnsweredInFull`). `UpInv` says where each byte taken from the client is, in order: in the
line, given to the bank or driver, or held for it (the leftover or the pump's buffer). Each action is then a step of
one pipe and a stutter of the other.

`ConnectSessionProofs` proves, for any foreign streams, `SessionTyped` (`Spec => []TypeOK`), `LossReported`
(`Spec => LossIsReported`) and `RunNoFailure` (`Spec => RunIsNoFailure`). No step of the loop can see by
itself why the flag is set; `FlagInv` says that it is exactly when a `VERIFY` task has run to its end, and needs
`PhaseInv` (only such a task comes to the phases that end in a store).

`DemoProofs` proves of the page, for any number of runs and of stray errors, `PageTyped`, `BalanceProved`, `WaitsForSomething`, `OneRun` and
`LatestCard`. `OutcomeInv` follows a result from the run that returns it to the card. `QuietInv` is why
one run at a time is enough for the latest card: a worker without uncaught errors
has one word to say, and the page waits for it.

Of the demo it composes these. `PageIsProverPage` (`DemoSpec => Spec`) hands the page's theorems over to the demo: its steps
are the page's or leave the page alone. `RunsKeepPromise` shows each run to be a `BalanceProof`. `CardVerified` (`CardIsVerdict`) follows a
balance from the verifier to the card: `Chain` says that a run tells a success only as its verifier concluded it, that it ends with a
result only when it was told one, and, with `OutcomeInv`, that the card with the badge is the formatted balance of the run shown.

`RedactionProofs` is about both parsers and the rules, for every text of which the constants' assumptions hold (`LowerCase` maps names to
names, no word is a punctuation character; messages and rules are lists).

- `StandardRanges` and `RedactedPairs` say what the two parsers yield, for every text, however deep it nests: of the standard parser, that a key
  stands behind a quote or white space, with only a quote, a colon and white space up to its value, and a header's value between `": "`
  and a newline; of the redacted parser, that a pair is a quoted key, a colon and the value right behind it, with no hidden symbol among them.
  The induction is on what is left to read. `Least` derives it from the library's theorem that strict inclusion among the finite
  subsets of a set is well-founded (`FS_StrictSubsetOrderingWellFounded`): a set of naturals has a least element, so one that contains 0 and
  the successor of each member contains them all (`Upwards`). A grammar's step is applied to a function: `StepIs`, `HeaderStepIs` and `PairsStepIs` show that it looks only
  at what the function says of later positions (`Ahead`), and is right (`Sound`) if the function is right there. By induction there is then a function which satisfies
  the recursive definition within the text, and every function that does is right.
- `RangesFit` (`Spec => []TypeOK`), without a premise: every range handed on starts before it ends, within the text. `RangesAreWritten`
  keeps, from the parse on, that the ranges at hand are as the parser wrote them; the builders' check does the rest.
- `VerifierReadsWhatIsDisclosed` (`Spec => []ReadAsDisclosed`), without a premise: the balance and the date that the verifier shows are
  stretches of the bank's answer, disclosed in one piece with their quoted names and the colon. `Unhidden` turns "not NUL" into "disclosed", `PairIsDisclosed`
  applies it to a pair of `RedactedPairs`.
- `NothingElseLegible` (`OnlyNamedIsLegible`) and `EachRuleHonoured` (`RulesAreHonoured`), each as `Spec => ([]ParsedAsOwned => []...)`, for any
  number of rules, where TLC has two of a kind. The hypothesis, which the run `redaction` checks, compares the parser's ranges with the owner of each symbol, which is part
  of a case and not computed from its text. The range arithmetic is in
  `HeaderAnswers`, `BodyAnswers` and `KeyValueAnswers`: a range widened by fixed amounts reaches
  its own words and separators only, quoted or not. `RulesLeft` says that each rule of the message at work is still in the list or has been carried
  out, `Finished` that the request was through before the response, and `RuleByRule` that what the properties say of a config is
  what its rules say one by one.

`CertCacheProofs` proves, for any day length, life, reserve and number of starts, `CacheTyped`,
`ServedCached`, `Stable` and `PageCanConnect` (`PageConnects`). `LastIsKept` is the reason for `Stable`: a served certificate with the reserve left
is whole in the cache and no start is past `load_cached`; it needs `ToldOfTorn`, that an operator is only ever
told to delete a cache that is not whole. `PageCanConnect` needs `ServedInTime`: what is served was issued no later than
the start and had the reserve left then. The rest is arithmetic on days, where the date in the certificate is earlier than the instant in the cache by less than one day.

No run checks the type invariants of the session, the page and the cache, `BalanceIsProved` or `OneRunAtATime`; all are proved,
and `CardIsVerdict` and `CardIsLatest` go beyond the last two.

Each module assumes of its constants only what its named assumption says (`NotarizationAssumption`, `StreamReaderAssumption`, ...), which TLC
evaluates on every run.

Only model-checked:

- `ParsedAsOwned`: the owners of the symbols come with a case, so it says of each case that the labels are right; for arbitrary labels it is false.
- The second part of `VerifierReadsTheBank`, that what is read is the whole value of a field of that name which a rule reveals. It is about
  the instances' rules: a rule that reveals an array's element which itself holds a pair named `CHF` would let the verifier read that one.
- `AnswerIsRead`: that a plainly written answer is read needs the parsers to be complete, where the theorems say that they are sound.
- Every liveness property: `EveryoneStops`, `ReadsComplete`, `WritesComplete`, `TaskEnds`, `RunIsServed`, `AllEnds`, `ButtonComesBack`.
  TLAPS does not do fairness or `ENABLED`.

## What the checks found

- `connect_stream_limit`: the limit on the preamble is checked before a read and the
  newline is then accepted anywhere in what was read, so a line of up to 510 bytes passes a
  limit reported as "preamble missing newline within 256 bytes" (`demo/src/connect.rs:35, 82-90`). The trace is of a
  `CONNECT` line: `CONNECT swissbank.tlsnotary.org:` with zeros before `443` names the bank at any length
  (`demo/src/connect.rs:104-114`), while a `VERIFY` line is 7 bytes or no role (`demo/src/connect.rs:101`).
- `cert_cache_torn`: `fs::write` truncates the cache before it fills it. A start that dies in
  between, or whose disk is full, leaves a file that makes every later start fail
  with a parse error, where the comment promises a fresh certificate
  (`demo/src/tls.rs:40-43, 63, 86`).

- `redaction_rest`: the page's rules commit to one field of the response, `.account_id`
  (`demo/assets/prover.worker.mjs:57-59`); every other field but the two revealed is
  neither disclosed nor under a commitment, where `README.md:4-6` has the prover disclose two
  fields "while committing to the rest of the response without revealing it".
  `README.md:118` has the two commitments right.

Met on the way, without a text in the repository to hold against them: a
second announcement of one worker's error can end the page's wait for the
next run (`demo/assets/flow.mjs:23-33, 47-53`); `poll_flush` forgets how much a write
that it settles has written (`tlsn-prover/src/wasm/io.rs:176`), which the multiplexer's codec never notices;
the verifier's task can report a good session as failed when the page closes it
first (`demo/src/connect.rs:138, 175`): `RunIsNoFailure` says what holds in spite of that;
white space after the colon of a revealed pair, or a number that is last in its object, makes the verifier's parser
refuse a proof that the prover has made (`tlsn-prover/src/parser/grammar.pest:37-41`, `tlsn-prover/src/reveal.rs:222`),
so `AnswerIsRead` is stated of answers that are written plainly; the card rounds a balance to two
decimals and shows 0.00 for an empty string (`demo/assets/prover.main.mjs:27-30`).

## Not modelled

- The cryptography of tlsn (MPC-TLS, commitments, proofs): external, and taken to be sound.
- `service.rs` beyond the certificate, `main.rs`, `transport.rs`, `log.mjs`: routing,
  start-up, delegation and text, without state of their own.
- The patch that lets the worker spawn threads from a blob
  (`installSpawnBlobPatch`): it rewrites the text of a generated file.
- White space before a message's first line, which the grammar would skip.
- Characters: words stand for runs of them, and bytes that are not UTF-8, numbers with a sign or fraction,
  and `true`, `false` and `null`, which move ranges as numbers do, are left out. So are answers in which an object is itself replaced by a later pair of its name (its children
  stay in the parsers' map), and more than one chunk.
- The browser's cache of WASM files across deployments (`demo/src/service.rs:133`), and an owner that goes
  on after an error of `WebTransportIo` (`tlsn-prover/src/wasm/io.rs:95`), which the repository does not have.
- Sizes of frames (`MAX_FRAME_BYTES`): both sides have the same constant, and no outcome comes near it.

## Plan

1. `Notarization`, `BalanceProof` and their proofs; the streams; `ConnectStream`; `CertCache`;
   `ProverPage` — done.
2. `ConnectSession`, `Redaction` with `HttpJson`, and `Demo`; proofs about `ConnectSession`, `ProverPage` and
   `CertCache` — done.
3. The rest of `Notarization`'s invariants, the streams, both refinements of `HalfPipe`, `PageConnects`, and the composition
   in `DemoProofs`; of `Redaction`, all but what its parsers compute — done.
4. What the two parsers yield, for every text; with it the ranges of `Redaction` without a premise, and what the verifier reads — done.
5. Still open: completeness of the parsers for plainly written answers, from which `AnswerIsRead` would follow.
