------------------------- MODULE StreamWriterProofs -------------------------
(***************************************************************************)
(* Theorems about StreamWriter, for every number of bytes, every order of  *)
(* the owner's polls and every moment at which the session breaks.         *)
(***************************************************************************)
EXTENDS StreamWriter, SequenceTheorems, TLAPS

\* The length in the state is that of a write of at least one byte, all of
\* which the owner still has in its buffer.
WriteFits ==
  /\ write_state.st = "Idle" => write_state.n = 0
  /\ write_state.st = "Writing" => write_state.n > 0 /\ write_state.n <= Owed

\* Every byte handed to the browser is in a settled write or in the one in
\* flight, and a length is reported once, after its write has resolved.
Accounted ==
  /\ Len(queue) = resolved + lost + (IF promise = "pending" THEN write_state.n ELSE 0)
  /\ acked + (IF promise = "ok" THEN write_state.n ELSE 0) <= resolved

\* What the bookkeeping of bytes does not look at.
Others ==
  /\ close_state \in {"Open", "Closing", "Closed"} /\ closing \in Promises
  /\ framed \in BOOLEAN /\ broken \in BOOLEAN /\ failed \in BOOLEAN /\ parked \in BOOLEAN

\* What it is about.
Books == <<framed, write_state, promise, queue, resolved, lost, produced, acked>>

IInv == TypeOK /\ WriteFits /\ Accounted /\ EveryByteOnce

-----------------------------------------------------------------------------

\* What a write adds to the queue.
LEMMA Handed ==
  ASSUME NEW s \in Seq(Bytes), NEW c \in Seq(Bytes), NEW k \in Nat,
         \A i \in 1..Len(c) : c[i] = k + i
  PROVE  /\ s \o c \in Seq(Bytes) /\ Len(s \o c) = Len(s) + Len(c)
         /\ Len(s) = k /\ (\A i \in 1..Len(s) : s[i] = i) =>
              \A i \in 1..(Len(s) + Len(c)) : (s \o c)[i] = i
<1>1. /\ s \o c \in Seq(Bytes) /\ Len(s \o c) = Len(s) + Len(c)
      /\ \A i \in 1..(Len(s) + Len(c)) :
           (s \o c)[i] = IF i <= Len(s) THEN s[i] ELSE c[i - Len(s)]
  BY ConcatProperties
<1>2. Len(s) \in Nat /\ Len(c) \in Nat
  OBVIOUS
<1>3. ASSUME Len(s) = k, \A i \in 1..Len(s) : s[i] = i, NEW i \in 1..(Len(s) + Len(c))
      PROVE  (s \o c)[i] = i
  BY <1>1, <1>2, <1>3
<1>4. QED
  BY <1>1, <1>3

\* Taking the result of a write that settled: nothing is in flight after it.
LEMMA Taken ==
  ASSUME IInv, NEW result, TakeResult(result)
  PROVE  /\ promise = result /\ promise' = "none"
         /\ write_state' = [st |-> "Idle", n |-> 0]
         /\ write_state' \in [st : {"Idle", "Writing"}, n : 0..MaxBytes]
<1>1. 0 \in 0..MaxBytes
  BY StreamWriterAssumption DEF StreamWriterAssumption
<1>2. QED
  BY <1>1 DEF TakeResult, Idle

-----------------------------------------------------------------------------
\* The steps, by what they do to the books.

\* The other half of the typing: the closing of the writer, and the flags.
LEMMA OthersStep ==
  ASSUME IInv, [Next]_vars
  PROVE  Others' /\ failed' \in {failed, TRUE} /\ framed' = framed
<1> USE DEF IInv, TypeOK, Others, browser, owner, Pending, Ok, Err
<1>0. CloseWriter => /\ close_state' \in {"Open", "Closing", "Closed"} /\ closing' \in Promises
                     /\ failed' \in BOOLEAN /\ parked' \in BOOLEAN /\ failed' \in {failed, TRUE}
  BY DEF CloseWriter, Promises
<1>1. CASE SessionBreaks
  BY <1>1 DEF SessionBreaks
<1>2. CASE WriteSettles
  BY <1>2 DEF WriteSettles
<1>3. CASE CloseSettles
  BY <1>3 DEF CloseSettles, Promises
<1>4. CASE Produce
  BY <1>4 DEF Produce
<1>5. ASSUME NEW len \in Bytes, poll_write(len)
      PROVE  Others' /\ failed' \in {failed, TRUE} /\ framed' = framed
  BY <1>5 DEF poll_write, StartWrite
<1>6. CASE poll_flush
  BY <1>6 DEF poll_flush
<1>7. CASE poll_close
  BY <1>0, <1>7 DEF poll_close
<1>8. CASE UNCHANGED vars
  BY <1>8 DEF vars
<1>9. QED
  BY <1>1, <1>2, <1>3, <1>4, <1>5, <1>6, <1>7, <1>8 DEF Next

\* Steps that leave the books alone: the session breaks, a close settles, a
\* poll that waits.
LEMMA BooksKept ==
  ASSUME IInv, Others', failed' \in {failed, TRUE}, UNCHANGED Books
  PROVE  IInv'
BY DEF IInv, TypeOK, Others, Books, WriteFits, Accounted, EveryByteOnce, Owed

\* The browser settles the write in flight.
LEMMA SettleBooks ==
  ASSUME IInv, Others', WriteSettles
  PROVE  IInv'
<1> USE DEF IInv, TypeOK, Others, WriteSettles, browser, owner, Promises
<1>1. write_state.st = "Writing" /\ write_state.n \in Nat
  BY StreamWriterAssumption DEF StreamWriterAssumption
<1>2. UNCHANGED <<framed, write_state, queue, produced, acked, failed>>
  OBVIOUS
<1>3. TypeOK'
  BY <1>1, <1>2
<1>4. WriteFits' /\ EveryByteOnce'
  BY <1>2 DEF WriteFits, EveryByteOnce, Owed
<1>5. Accounted'
  BY <1>1, <1>2, StreamWriterAssumption DEF Accounted, StreamWriterAssumption
<1>6. QED
  BY <1>3, <1>4, <1>5

\* The owner hands `len' bytes of its buffer to the browser.
LEMMA StartBooks ==
  ASSUME IInv, Others', UNCHANGED <<produced, acked, failed>>,
         NEW len \in Bytes, len <= Owed, StartWrite(len), framed => len = Owed
  PROVE  IInv'
<1> USE DEF IInv, TypeOK, Others, StartWrite, Owed
<1> DEFINE added == [i \in 1..len |-> acked + i]
<1>1. /\ len \in Nat /\ len > 0 /\ acked \in Nat /\ acked + len <= produced
      /\ produced \in Nat /\ produced <= MaxBytes /\ MaxBytes \in Nat
      /\ len \in 0..MaxBytes
  BY StreamWriterAssumption DEF StreamWriterAssumption, Bytes
<1>2. /\ write_state.st = "Idle" /\ promise = "none" /\ promise' = "pending"
      /\ write_state' = [st |-> "Writing", n |-> len] /\ write_state.n = 0
      /\ UNCHANGED <<framed, resolved, lost, produced, acked, failed>>
  BY DEF WriteFits
<1>3. /\ queue' \in Seq(Bytes) /\ Len(queue') = Len(queue) + len
      /\ Len(queue) = acked /\ (\A i \in 1..Len(queue) : queue[i] = i)
           => \A i \in 1..Len(queue') : queue'[i] = i
  <2>1. queue' = queue \o added
    OBVIOUS
  <2>2. acked + len <= MaxBytes /\ queue \in Seq(Bytes)
    BY <1>1
  <2>3. added \in Seq(Bytes) /\ Len(added) = len /\ \A i \in 1..len : added[i] = acked + i
    BY <1>1 DEF Bytes
  <2> HIDE DEF added, StartWrite
  <2>4. /\ queue \o added \in Seq(Bytes) /\ Len(queue \o added) = Len(queue) + len
        /\ Len(queue) = acked /\ (\A i \in 1..Len(queue) : queue[i] = i) =>
             \A i \in 1..(Len(queue) + len) : (queue \o added)[i] = i
    BY <1>1, <2>2, <2>3, Handed
  <2>5. QED
    BY <2>1, <2>4
<1> HIDE DEF StartWrite
<1>4. TypeOK'
  BY <1>1, <1>2, <1>3 DEF Promises
<1>5. WriteFits'
  BY <1>1, <1>2 DEF WriteFits
<1>6. Accounted'
  BY <1>1, <1>2, <1>3 DEF Accounted
<1>7. EveryByteOnce'
  BY <1>1, <1>2, <1>3, SMTT(30) DEF EveryByteOnce
<1>8. QED
  BY <1>4, <1>5, <1>6, <1>7

\* A poll takes the result of the write: poll_write reports the length of one
\* that resolved, the others do not, and a codec has nothing left to be told.
LEMMA TakeBooks ==
  ASSUME IInv, Others', NEW result \in {"ok", "error"}, TakeResult(result),
         UNCHANGED <<framed, queue, resolved, lost, produced>>,
         \/ result = "ok" /\ acked' = acked + write_state.n /\ UNCHANGED failed
         \/ result = "ok" /\ UNCHANGED <<acked, failed>> /\ (framed => Owed = 0)
         \/ result = "ok" /\ UNCHANGED acked /\ (framed => Owed = 0) /\ failed' = TRUE
         \/ result = "error" /\ UNCHANGED acked /\ failed' = TRUE
  PROVE  IInv'
<1> USE DEF IInv, TypeOK, Others, Owed
<1>1. /\ promise = result /\ promise' = "none"
      /\ write_state' = [st |-> "Idle", n |-> 0]
      /\ write_state' \in [st : {"Idle", "Writing"}, n : 0..MaxBytes]
  BY Taken
<1>2. /\ write_state.st = "Writing" /\ write_state.n \in Nat /\ write_state.n > 0
      /\ acked \in Nat /\ produced \in Nat /\ acked + write_state.n <= produced
  BY StreamWriterAssumption DEF TakeResult, WriteFits, StreamWriterAssumption
<1>3. acked' \in Nat /\ acked' <= produced
  BY <1>2
<1>4. TypeOK'
  BY <1>1, <1>3 DEF Promises
<1>5. WriteFits'
  BY <1>1 DEF WriteFits
<1>6. Accounted'
  BY <1>1, <1>2 DEF Accounted
<1>7. EveryByteOnce'
  BY <1>1, <1>2 DEF EveryByteOnce
<1>8. QED
  BY <1>4, <1>5, <1>6, <1>7

\* Every step keeps the books.
LEMMA InvStep ==
  ASSUME IInv, [Next]_vars
  PROVE  IInv'
<1> USE DEF browser, owner, Pending, Ok, Err
<1>0. Others' /\ failed' \in {failed, TRUE} /\ framed' = framed
  BY OthersStep
<1>1. CASE SessionBreaks \/ CloseSettles
  BY <1>0, <1>1, BooksKept DEF SessionBreaks, CloseSettles, Books
<1>2. CASE WriteSettles
  BY <1>0, <1>2, SettleBooks
<1>3. CASE Produce
  <2>1. UNCHANGED <<framed, write_state, promise, queue, resolved, lost, acked, failed>>
        /\ produced' = produced + 1 /\ produced < MaxBytes
    BY <1>3 DEF Produce
  <2>2. TypeOK'
    BY <1>0, <2>1, StreamWriterAssumption DEF IInv, TypeOK, Others, StreamWriterAssumption
  <2>3. WriteFits' /\ Accounted' /\ EveryByteOnce'
    BY <2>1, StreamWriterAssumption DEF IInv, TypeOK, WriteFits, Accounted, EveryByteOnce, Owed, StreamWriterAssumption
  <2>4. QED
    BY <2>2, <2>3 DEF IInv
<1>4. ASSUME NEW len \in Bytes, poll_write(len)
      PROVE  IInv'
  <2>1. len <= Owed /\ (framed => len = Owed)
    BY <1>4 DEF poll_write, Owed, IInv, TypeOK, Bytes
  <2>2. CASE StartWrite(len) /\ Pending
    BY <1>0, <2>1, <2>2, StartBooks
  <2>3. CASE InFlight /\ Pending /\ UNCHANGED <<write_state, promise, browser>>
    BY <1>0, <2>3, BooksKept DEF Books
  <2>4. CASE TakeResult("error") /\ Err /\ UNCHANGED browser
    BY <1>0, <2>4, TakeBooks
  <2>5. CASE TakeResult("ok") /\ Ok(write_state.n) /\ UNCHANGED browser
    BY <1>0, <2>5, TakeBooks
  <2>6. QED
    BY <1>4, <2>2, <2>3, <2>4, <2>5 DEF poll_write
<1>5. CASE poll_flush
  <2>1. framed => Owed = 0
    BY <1>5 DEF poll_flush
  <2>2. CASE UNCHANGED <<write_state, promise, produced, acked>>
    BY <1>0, <1>5, <2>2, BooksKept DEF poll_flush, Books
  <2>3. CASE TakeResult("error") /\ Err
    BY <1>0, <1>5, <2>3, TakeBooks DEF poll_flush
  <2>4. CASE TakeResult("ok") /\ UNCHANGED owner
    BY <1>0, <1>5, <2>1, <2>4, TakeBooks DEF poll_flush
  <2>5. QED
    BY <1>5, <2>2, <2>3, <2>4 DEF poll_flush
<1>6. CASE poll_close
  <2>0. CloseWriter => UNCHANGED <<produced, acked>> /\ failed' \in {failed, TRUE}
    BY DEF CloseWriter
  <2>1. (framed => Owed = 0) /\ UNCHANGED browser
    BY <1>6 DEF poll_close
  <2>2. CASE UNCHANGED <<write_state, promise, produced, acked>>
    BY <1>0, <2>1, <2>2, BooksKept DEF Books
  <2>3. CASE TakeResult("error") /\ Err
    BY <1>0, <2>1, <2>3, TakeBooks
  <2>4. CASE TakeResult("ok") /\ CloseWriter
    BY <1>0, <2>0, <2>1, <2>4, TakeBooks
  <2>5. QED
    BY <1>6, <2>0, <2>2, <2>3, <2>4 DEF poll_close
<1>7. CASE UNCHANGED vars
  BY <1>0, <1>7, BooksKept DEF vars, Books
<1>8. QED
  BY <1>1, <1>2, <1>3, <1>4, <1>5, <1>6, <1>7 DEF Next

\* from_bidi opens empty books.
LEMMA InvInit ==
  ASSUME Init
  PROVE  IInv
<1> USE DEF Init, Idle
<1>1. 0 \in 0..MaxBytes /\ 0 \in 0..0 /\ <<>> \in Seq(Bytes) /\ Len(<<>>) = 0
  BY StreamWriterAssumption DEF StreamWriterAssumption
<1>2. TypeOK
  BY <1>1 DEF TypeOK, Promises
<1>3. WriteFits /\ Accounted /\ EveryByteOnce
  BY <1>1 DEF WriteFits, Accounted, EveryByteOnce
<1>4. QED
  BY <1>2, <1>3 DEF IInv

\* The invariant behind the theorems.
LEMMA InvAlways == Spec => []IInv
<1>1. Init => IInv
  BY InvInit
<1>2. IInv /\ [Next]_vars => IInv'
  BY InvStep
<1>3. QED
  BY <1>1, <1>2, PTL DEF Spec

-----------------------------------------------------------------------------

\* Every value stays in its set; there is a promise of a write exactly while
\* the state is Writing, and nothing is reported that was not produced.
THEOREM WriterTyped == Spec => []TypeOK
<1>1. IInv => TypeOK
  BY DEF IInv
<1>2. QED
  BY <1>1, InvAlways, PTL

\* poll_write reports no byte before its promise has resolved, whoever polls.
THEOREM NothingEarly == Spec => []NothingReportedEarly
<1>1. IInv => NothingReportedEarly
  BY StreamWriterAssumption DEF IInv, TypeOK, Accounted, NothingReportedEarly, StreamWriterAssumption
<1>2. QED
  BY <1>1, InvAlways, PTL

\* A frame codec's bytes reach the browser in order and exactly once.
THEOREM ExactlyOnce == Spec => []EveryByteOnce
<1>1. IInv => EveryByteOnce
  BY DEF IInv
<1>2. QED
  BY <1>1, InvAlways, PTL

\* The writer is closed only over settled writes.
THEOREM ClosedLast == Spec => CloseAfterWrites
<1>1. IInv /\ [Next]_vars =>
        [close_state = "Open" /\ close_state' = "Closing" => Len(queue) = resolved + lost]_vars
  <2> SUFFICES ASSUME IInv, [Next]_vars, close_state = "Open", close_state' = "Closing"
               PROVE  Len(queue) = resolved + lost
    OBVIOUS
  <2>1. poll_close /\ CloseWriter
    BY DEF Next, vars, SessionBreaks, WriteSettles, CloseSettles, Produce, poll_write, poll_flush,
       poll_close
  <2>2. promise # "pending"
    BY <2>1 DEF poll_close, InFlight, TakeResult, IInv, TypeOK, CloseWriter
  <2>3. QED
    BY <2>2 DEF IInv, TypeOK, Accounted
<1>2. QED
  BY <1>1, InvAlways, PTL DEF Spec, CloseAfterWrites

=============================================================================
