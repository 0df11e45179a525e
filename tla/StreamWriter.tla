---------------------------- MODULE StreamWriter ----------------------------
(***************************************************************************)
(* The writing half of WebTransportIo (tlsn-prover/src/wasm/io.rs): the    *)
(* write in flight, which poll_write, poll_flush and poll_close all settle, *)
(* and the closing of the writer.  The owner has a buffer of bytes to      *)
(* write that grows while a write is in flight; bytes are their positions  *)
(* in what it wants written.                                               *)
(***************************************************************************)
EXTENDS Integers, Sequences

CONSTANTS
  MaxBytes,  \* bytes the owner wants written
  MaxQueue   \* bound on the bytes handed to the browser

ASSUME StreamWriterAssumption ==
  MaxBytes \in Nat /\ MaxQueue \in Nat

VARIABLES
  framed,
    \* TRUE: the owner is a frame codec, as the multiplexer over this stream is:
    \* it polls when woken, repeats a pending write with the same bytes and maybe
    \* more, flushes and closes once its buffer is empty, and stops at an error.
    \* FALSE: it polls anything at any time.
  write_state,  \* WriteState: st, and the length n of the write in flight
  close_state,  \* CloseState
  promise,      \* of writer.write()
  closing,      \* the promise of writer.close()
  broken,       \* the session failed
  queue,        \* every byte handed to writer.write(), in order
  resolved,     \* how many of them were in writes that resolved ...
  lost,         \* ... or that were rejected
  produced,     \* bytes the owner wants written
  acked,        \* bytes poll_write has reported as written
  failed,       \* a poll has returned an error
  parked        \* the owner waits for a wake-up

vars == <<framed, write_state, close_state, promise, closing, broken, queue, resolved, lost,
          produced, acked, failed, parked>>
browser == <<framed, broken, queue, resolved, lost>>
owner   == <<produced, acked, failed, parked>>

Bytes    == 1..MaxBytes
Promises == {"none", "pending", "ok", "error", "taken"}
Idle     == [st |-> "Idle", n |-> 0]

TypeOK ==
  /\ write_state \in [st : {"Idle", "Writing"}, n : 0..MaxBytes]
  /\ close_state \in {"Open", "Closing", "Closed"}
  /\ write_state.st = "Idle" <=> promise = "none"
  /\ promise \in Promises \ {"taken"} /\ closing \in Promises
  /\ framed \in BOOLEAN /\ broken \in BOOLEAN /\ failed \in BOOLEAN /\ parked \in BOOLEAN
  /\ queue \in Seq(Bytes) /\ resolved \in Nat /\ lost \in Nat
  /\ produced \in 0..MaxBytes /\ acked \in 0..produced

\* from_bidi
Init ==
  /\ framed \in BOOLEAN
  /\ write_state = Idle /\ close_state = "Open"
  /\ promise = "none" /\ closing = "none"
  /\ broken = FALSE /\ queue = <<>> /\ resolved = 0 /\ lost = 0
  /\ produced = 0 /\ acked = 0 /\ failed = FALSE /\ parked = FALSE

-----------------------------------------------------------------------------
\* The browser.

SessionBreaks ==
  /\ ~broken
  /\ broken' = TRUE
  /\ UNCHANGED <<write_state, close_state, promise, closing, framed, queue, resolved, lost, owner>>

\* A write is refused once the session is broken or the writer closed.
WriteSettles ==
  /\ promise = "pending"
  /\ IF broken \/ close_state # "Open"
     THEN promise' = "error" /\ lost' = lost + write_state.n /\ UNCHANGED resolved
     ELSE promise' = "ok" /\ resolved' = resolved + write_state.n /\ UNCHANGED lost
  /\ parked' = FALSE
  /\ UNCHANGED <<write_state, close_state, closing, framed, broken, queue, produced, acked, failed>>

CloseSettles ==
  /\ closing = "pending"
  /\ closing' = IF broken THEN "error" ELSE "ok"
  /\ parked' = FALSE
  /\ UNCHANGED <<write_state, close_state, promise, browser, produced, acked, failed>>

-----------------------------------------------------------------------------
\* The owner.

Owed == produced - acked

Produce ==
  /\ produced < MaxBytes /\ (framed => close_state = "Open")
  /\ produced' = produced + 1
  /\ UNCHANGED <<write_state, close_state, promise, closing, browser, acked, failed, parked>>

MayPoll == framed => ~parked /\ ~failed

Pending == parked' = TRUE /\ UNCHANGED <<produced, acked, failed>>
Ok(n)   == acked' = acked + n /\ UNCHANGED <<produced, failed, parked>>
Err     == failed' = TRUE /\ UNCHANGED <<produced, acked, parked>>

InFlight == write_state.st = "Writing" /\ promise = "pending"

TakeResult_NoReset(result) ==
  /\ write_state.st = "Writing" /\ promise = result
  /\ promise' = "none"
  /\ UNCHANGED write_state

\* The arm that all three methods share: the write in flight has settled.
TakeResult(result) ==
  /\ write_state.st = "Writing" /\ promise = result
  /\ write_state' = Idle
  /\ promise' = "none"

StartWrite(len) ==
  /\ write_state.st = "Idle" /\ Len(queue) + len <= MaxQueue
  /\ write_state' = [st |-> "Writing", n |-> len]
  /\ promise' = "pending"
  /\ queue' = queue \o [i \in 1..len |-> acked + i]
  /\ UNCHANGED <<framed, broken, resolved, lost>>

poll_write_BufferLength(len) ==
  /\ MayPoll /\ (IF framed THEN len = Owed /\ close_state = "Open" ELSE len <= Owed)
  /\ \/ StartWrite(len) /\ Pending
     \/ InFlight /\ Pending /\ UNCHANGED <<write_state, promise, browser>>
     \/ TakeResult("error") /\ Err /\ UNCHANGED browser
     \/ TakeResult("ok") /\ Ok(len) /\ UNCHANGED browser
  /\ UNCHANGED <<close_state, closing>>

poll_write_Eager(len) ==
  /\ MayPoll /\ (IF framed THEN len = Owed /\ close_state = "Open" ELSE len <= Owed)
  /\ \/ StartWrite(len) /\ Ok(len)
     \/ InFlight /\ Pending /\ UNCHANGED <<write_state, promise, browser>>
     \/ TakeResult("error") /\ Err /\ UNCHANGED browser
     \/ TakeResult("ok") /\ UNCHANGED <<owner, browser>>
  /\ UNCHANGED <<close_state, closing>>

poll_write_NotPolled(len) ==
  /\ MayPoll /\ (IF framed THEN len = Owed /\ close_state = "Open" ELSE len <= Owed)
  /\ \/ StartWrite(len) /\ Pending
     \/ write_state.st = "Writing" /\ Pending /\ UNCHANGED <<write_state, promise, browser>>
  /\ UNCHANGED <<close_state, closing>>

\* poll_write(buf) with a buffer of `len' bytes.  What Ok reports is the length
\* of the write that resolved, not of this call's buffer.
poll_write(len) ==
  /\ MayPoll /\ (IF framed THEN len = Owed /\ close_state = "Open" ELSE len <= Owed)
  /\ \/ StartWrite(len) /\ Pending
     \/ InFlight /\ Pending /\ UNCHANGED <<write_state, promise, browser>>
     \/ TakeResult("error") /\ Err /\ UNCHANGED browser
     \/ TakeResult("ok") /\ Ok(write_state.n) /\ UNCHANGED browser
  /\ UNCHANGED <<close_state, closing>>

\* The length of a write that poll_flush finishes is reported to nobody.
poll_flush ==
  /\ MayPoll /\ (framed => Owed = 0)
  /\ \/ write_state.st = "Idle" /\ UNCHANGED <<write_state, promise, owner>>
     \/ InFlight /\ Pending /\ UNCHANGED <<write_state, promise>>
     \/ TakeResult("error") /\ Err
     \/ TakeResult("ok") /\ UNCHANGED owner
  /\ UNCHANGED <<close_state, closing, browser>>

\* The second match of poll_close.  A failed close stays Closing over a future
\* that has given its result away.
CloseWriter ==
  \/ close_state = "Open" /\ close_state' = "Closing" /\ closing' = "pending" /\ Pending
  \/ /\ close_state = "Closing" /\ closing \in {"pending", "taken"} /\ Pending
     /\ UNCHANGED <<close_state, closing>>
  \/ close_state = "Closing" /\ closing = "error" /\ closing' = "taken" /\ Err /\ UNCHANGED close_state
  \/ close_state = "Closing" /\ closing = "ok" /\ closing' = "none" /\ close_state' = "Closed"
       /\ UNCHANGED owner
  \/ close_state = "Closed" /\ UNCHANGED <<close_state, closing, owner>>

poll_close_AtOnce ==
  /\ MayPoll /\ (framed => Owed = 0)
  /\ CloseWriter
  /\ UNCHANGED <<write_state, promise, browser>>

poll_close ==
  /\ MayPoll /\ (framed => Owed = 0)
  /\ \/ write_state.st = "Idle" /\ CloseWriter /\ UNCHANGED <<write_state, promise>>
     \/ InFlight /\ Pending /\ UNCHANGED <<write_state, promise, close_state, closing>>
     \/ TakeResult("error") /\ Err /\ UNCHANGED <<close_state, closing>>
     \/ TakeResult("ok") /\ CloseWriter
  /\ UNCHANGED browser

Next ==
  \/ SessionBreaks \/ WriteSettles \/ CloseSettles
  \/ Produce
  \/ \E len \in Bytes : poll_write(len)
  \/ poll_flush \/ poll_close

Spec == Init /\ [][Next]_vars

\* The browser settles what it was given, and an owner with bytes to write
\* polls when it is woken.
Fairness ==
  /\ WF_vars(WriteSettles)
  /\ WF_vars(\E len \in Bytes : poll_write(len))

FairSpec == Spec /\ Fairness

-----------------------------------------------------------------------------
\* Properties.

\* "Don't report bytes written until the JS promise resolves" (io.rs:158),
\* whatever the owner polls and in whatever order.
NothingReportedEarly == acked <= resolved

\* A frame codec's bytes reach the browser in order and exactly once, though
\* its buffer grows under a pending write: what the browser was given is what
\* was reported plus the write in flight.
EveryByteOnce ==
  framed /\ ~failed =>
    /\ \A i \in 1..Len(queue) : queue[i] = i
    /\ Len(queue) = acked + write_state.n

\* writer.close() is called only when every byte handed to the browser has been
\* settled (the order of the two matches in poll_close).
CloseAfterWrites ==
  [][close_state = "Open" /\ close_state' = "Closing" => Len(queue) = resolved + lost]_vars

\* No wake-up is lost: what a frame codec wants written is written, unless the
\* session breaks.
WritesComplete == \A k \in Bytes : framed /\ produced >= k ~> acked >= k \/ broken

=============================================================================
