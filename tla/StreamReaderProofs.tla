------------------------- MODULE StreamReaderProofs -------------------------
(***************************************************************************)
(* Theorems about StreamReader, for every length of the stream, every cut  *)
(* of it into chunks and every size of the owner's buffers.                *)
(***************************************************************************)
EXTENDS StreamReader, SequenceTheorems, TLAPS

\* The elements of s are the positions after k.
InOrder(s, k) == \A i \in 1..Len(s) : s[i] = k + i

ReadStates == [st : {"Idle", "Reading", "Buffered", "Closed"}, data : Seq(Bytes), offset : Nat]
ReadPromises == [st : {"none", "pending", "chunk", "done", "error", "taken"}, chunk : Seq(Bytes)]
Peers == [sent : 0..MaxBytes, fin : BOOLEAN, broken : BOOLEAN]

\* What the Vec of Buffered still holds.
Rest == IF read_state.st = "Buffered" THEN Len(read_state.data) - read_state.offset ELSE 0

\* There is a promise exactly while the state is Reading, and it carries
\* a chunk only when it has resolved with one.
PromiseIsRead ==
  /\ read_state.st = "Reading" <=> promise.st # "none"
  /\ promise.st # "chunk" => promise.chunk = <<>>

\* What is held, in the promise or in the Vec, comes right after what was
\* returned.
HeldIsNext ==
  /\ InOrder(got, 0)
  /\ InOrder(promise.chunk, Len(got))
  /\ read_state.st = "Buffered" =>
       \A i \in (read_state.offset + 1)..Len(read_state.data) :
         read_state.data[i] = Len(got) + (i - read_state.offset)
  /\ handed = Len(got) + Len(promise.chunk) + Rest

\* Who says "end" has seen all of it.
EndIsKnown ==
  /\ promise.st = "done" \/ read_state.st = "Closed" => peer.fin /\ handed = peer.sent
  /\ end = "eof" => read_state.st = "Closed"

IInv == TypeOK /\ PromiseIsRead /\ HeldIsNext /\ EndIsKnown

-----------------------------------------------------------------------------
\* Sequences of consecutive positions.

\* A run of positions continued is a longer run.
LEMMA InOrderConcat ==
  ASSUME NEW s \in Seq(Bytes), NEW t \in Seq(Bytes), InOrder(s, 0), InOrder(t, Len(s))
  PROVE  /\ s \o t \in Seq(Bytes) /\ Len(s \o t) = Len(s) + Len(t)
         /\ InOrder(s \o t, 0)
BY ConcatProperties DEF InOrder

\* A slice of a sequence, by its length and elements.
LEMMA Slice ==
  ASSUME NEW s \in Seq(Bytes), NEW m \in Nat, NEW n \in Nat, m + n <= Len(s)
  PROVE  /\ SubSeq(s, m + 1, m + n) \in Seq(Bytes)
         /\ Len(SubSeq(s, m + 1, m + n)) = n
         /\ \A i \in 1..n : SubSeq(s, m + 1, m + n)[i] = s[m + i]
<1>1. \A i \in (m + 1)..(m + n) : s[i] \in Bytes
  BY ElementOfSeq
<1>2. QED
  BY <1>1, SubSeqProperties

\* The chunk that a promise delivers.
LEMMA Delivered ==
  ASSUME NEW k \in Nat, NEW n \in Nat, k + n <= MaxBytes, StreamReaderAssumption
  PROVE  /\ [i \in 1..n |-> k + i] \in Seq(Bytes)
         /\ Len([i \in 1..n |-> k + i]) = n
         /\ InOrder([i \in 1..n |-> k + i], k)
BY DEF Bytes, InOrder, StreamReaderAssumption

\* The records that the steps leave behind.
LEMMA Shapes ==
  /\ <<>> \in Seq(Bytes) /\ Len(<<>>) = 0
  /\ \A s \in {"Idle", "Reading", "Buffered", "Closed"}, d \in Seq(Bytes), o \in Nat :
       [st |-> s, data |-> d, offset |-> o] \in ReadStates
  /\ \A s \in {"none", "pending", "chunk", "done", "error", "taken"}, c \in Seq(Bytes) :
       [st |-> s, chunk |-> c] \in ReadPromises
BY DEF ReadStates, ReadPromises

\* The peer finishes, or the session breaks: nothing else of it changes.
LEMMA PeerShapes ==
  ASSUME NEW S, NEW p \in [sent : S, fin : BOOLEAN, broken : BOOLEAN]
  PROVE  /\ [p EXCEPT !.fin = TRUE] \in [sent : S, fin : BOOLEAN, broken : BOOLEAN]
         /\ [p EXCEPT !.fin = TRUE].sent = p.sent
         /\ [p EXCEPT !.broken = TRUE] \in [sent : S, fin : BOOLEAN, broken : BOOLEAN]
         /\ [p EXCEPT !.broken = TRUE].sent = p.sent
         /\ [p EXCEPT !.broken = TRUE].fin = p.fin
OBVIOUS

-----------------------------------------------------------------------------
\* The steps.

\* from_bidi leaves a state of that kind.
LEMMA InvInit ==
  ASSUME Init, StreamReaderAssumption
  PROVE  IInv
<1> USE DEF Init, Idle, None
<1>1. TypeOK
  <2>1. read_state \in ReadStates /\ promise \in ReadPromises
    BY Shapes
  <2>2. 0 \in 0..MaxBytes /\ 0 \in 0..MaxEmpty
    BY DEF StreamReaderAssumption
  <2>3. peer \in Peers /\ handed <= peer.sent
    BY <2>2 DEF Peers
  <2>4. patient \in BOOLEAN /\ read_state.st # "Buffered" /\ got \in Seq(Bytes)
        /\ end = "no" /\ parked \in BOOLEAN /\ handed = 0 /\ empties = 0
    BY Shapes
  <2>5. QED
    BY <2>1, <2>2, <2>3, <2>4 DEF TypeOK, ReadStates, ReadPromises, Peers
<1>2. PromiseIsRead /\ EndIsKnown
  BY DEF PromiseIsRead, EndIsKnown
<1>3. HeldIsNext
  BY DEF HeldIsNext, InOrder, Rest
<1>4. QED
  BY <1>1, <1>2, <1>3 DEF IInv

\* A poll that finds nothing starts a read, or goes on waiting for it.
LEMMA StartStep ==
  ASSUME IInv, StartReading, UNCHANGED <<patient, peer, handed, empties>>,
         Len(promise.chunk) = 0, Rest = 0, read_state.st # "Closed"
  PROVE  IInv'
BY DEF IInv, TypeOK, PromiseIsRead, HeldIsNext, EndIsKnown, InOrder, Rest, StartReading, Idle,
       None, Pending, owner

LEMMA InvStep ==
  ASSUME IInv, StreamReaderAssumption, [Next]_vars
  PROVE  IInv'
<1> USE DEF IInv, TypeOK
<1>1. CASE PeerActs
  <2>0. peer \in Peers /\ peer.sent \in Nat
    BY StreamReaderAssumption DEF Peers, StreamReaderAssumption
  <2>1. UNCHANGED <<patient, read_state, promise, handed, empties, got, end, parked>>
    BY <1>1 DEF PeerActs, owner
  <2>2. /\ peer' \in [sent : 0..MaxBytes, fin : BOOLEAN, broken : BOOLEAN]
        /\ peer.sent <= peer'.sent
        /\ peer.fin => peer'.fin /\ peer'.sent = peer.sent
    <3>1. CASE ~peer.fin /\ peer.sent < MaxBytes /\ peer' = [peer EXCEPT !.sent = @ + 1]
      <4>1. peer.sent + 1 \in 0..MaxBytes
        BY <3>1 DEF StreamReaderAssumption
      <4>2. QED
        BY <3>1, <4>1
    <3>2. CASE ~peer.fin /\ peer' = [peer EXCEPT !.fin = TRUE]
      <4>1. peer' \in Peers /\ peer'.sent = peer.sent
        BY <3>2, PeerShapes, <2>0, Zenon DEF Peers
      <4>2. QED
        BY <2>0, <3>2, <4>1 DEF Peers
    <3>3. CASE peer' = [peer EXCEPT !.broken = TRUE]
      <4>1. peer' \in Peers /\ peer'.sent = peer.sent /\ peer'.fin = peer.fin
        BY <2>0, <3>3, PeerShapes, Zenon DEF Peers
      <4>2. peer.sent <= peer'.sent
        BY <2>0, <4>1
      <4>3. QED
        BY <4>1, <4>2, Zenon DEF Peers
    <3>4. QED
      BY <1>1, <3>1, <3>2, <3>3 DEF PeerActs
  <2>3. TypeOK'
    BY <2>1, <2>2, StreamReaderAssumption DEF StreamReaderAssumption
  <2>4. PromiseIsRead' /\ HeldIsNext' /\ EndIsKnown'
    BY <2>1, <2>2 DEF PromiseIsRead, HeldIsNext, EndIsKnown, InOrder, Rest
  <2>5. QED
    BY <2>3, <2>4
<1>2. CASE DeliverChunk
  <2>1. PICK n \in 1..(peer.sent - handed) :
          /\ promise' = [st |-> "chunk", chunk |-> [i \in 1..n |-> handed + i]]
          /\ handed' = handed + n
    BY <1>2 DEF DeliverChunk
  <2>2. /\ UNCHANGED <<patient, read_state, peer, empties, got, end>>
        /\ promise.st = "pending" /\ parked' = FALSE
    BY <1>2 DEF DeliverChunk, Settle, owner
  <2> DEFINE chunk == [i \in 1..n |-> handed + i]
  <2>3. n \in Nat /\ handed + n <= peer.sent /\ peer.sent <= MaxBytes
    BY StreamReaderAssumption DEF StreamReaderAssumption
  <2>4. chunk \in Seq(Bytes) /\ Len(chunk) = n /\ InOrder(chunk, handed)
    <3>1. handed \in Nat /\ handed + n <= MaxBytes
      BY <2>3, StreamReaderAssumption DEF StreamReaderAssumption
    <3>2. QED
      BY <2>3, <3>1, StreamReaderAssumption, Delivered
  <2>5. promise'.st = "chunk" /\ promise'.chunk = chunk /\ handed' = handed + n
    BY <2>1
  <2> HIDE DEF chunk
  <2>6. read_state.st = "Reading" /\ promise.chunk = <<>> /\ Len(got) = handed
    BY <2>2 DEF PromiseIsRead, HeldIsNext, Rest
  <2>7. TypeOK'
    <3>1. promise' = [st |-> "chunk", chunk |-> chunk]
      BY <2>1 DEF chunk
    <3>2. handed' \in 0..MaxBytes /\ handed' <= peer.sent
      BY <2>3, <2>5, StreamReaderAssumption DEF StreamReaderAssumption
    <3>3. QED
      BY <2>2, <2>4, <3>1, <3>2
  <2>8. PromiseIsRead' /\ EndIsKnown'
    BY <2>2, <2>5, <2>6 DEF PromiseIsRead, EndIsKnown
  <2>9. HeldIsNext'
    BY <2>2, <2>3, <2>4, <2>5, <2>6 DEF HeldIsNext, Rest
  <2>10. QED
    BY <2>7, <2>8, <2>9
<1>3. CASE DeliverEmpty
  <2>1. /\ UNCHANGED <<patient, read_state, peer, got, end, handed>>
        /\ promise.st = "pending" /\ parked' = FALSE
        /\ empties' = empties + 1 /\ empties < MaxEmpty
        /\ promise' = [st |-> "chunk", chunk |-> <<>>]
    BY <1>3 DEF DeliverEmpty, Settle, owner
  <2>2. TypeOK'
    <3>1. promise' \in ReadPromises
      BY <2>1, Shapes
    <3>2. empties' \in 0..MaxEmpty
      BY <2>1, StreamReaderAssumption DEF StreamReaderAssumption
    <3>3. QED
      BY <2>1, <3>1, <3>2 DEF ReadPromises
  <2>3. PromiseIsRead' /\ EndIsKnown' /\ HeldIsNext'
    BY <2>1 DEF PromiseIsRead, EndIsKnown, HeldIsNext, InOrder, Rest
  <2>4. QED
    BY <2>2, <2>3
<1>4. CASE DeliverEnd
  <2>1. /\ UNCHANGED <<patient, read_state, peer, got, end, handed, empties>>
        /\ promise.st = "pending" /\ parked' = FALSE
        /\ \/ promise' = [st |-> "done", chunk |-> <<>>] /\ peer.fin /\ handed = peer.sent
           \/ promise' = [st |-> "error", chunk |-> <<>>]
    BY <1>4 DEF DeliverEnd, Settle, owner, None
  <2>2. TypeOK'
    <3>1. promise' \in ReadPromises
      BY <2>1, Shapes, ZenonT(60)
    <3>2. QED
      BY <2>1, <3>1 DEF ReadPromises
  <2>3. PromiseIsRead' /\ EndIsKnown' /\ HeldIsNext'
    BY <2>1 DEF PromiseIsRead, EndIsKnown, HeldIsNext, InOrder, Rest
  <2>4. QED
    BY <2>2, <2>3
<1>5. ASSUME NEW room \in 0..MaxRoom, poll_read(room)
      PROVE  IInv'
  <2>0. UNCHANGED <<patient, peer, handed, empties>>
    BY <1>5 DEF poll_read
  <2>1. CASE read_state.st = "Idle" /\ StartReading
    BY <2>0, <2>1, StartStep DEF PromiseIsRead, Rest
  <2>2. CASE Buffered(room)
    <3> DEFINE left == Len(read_state.data) - read_state.offset
               n == AtMost(left, room)
               bytes == SubSeq(read_state.data, read_state.offset + 1, read_state.offset + n)
    <3>1. n \in Nat /\ n <= left /\ left \in Nat
      BY <2>2 DEF Buffered, AtMost, StreamReaderAssumption
    <3>2. bytes \in Seq(Bytes) /\ Len(bytes) = n /\ InOrder(bytes, Len(got))
      <4>1. \A i \in 1..n : bytes[i] = read_state.data[read_state.offset + i]
        BY <3>1, Slice, SMTT(30)
      <4>2. \A i \in 1..n : read_state.data[read_state.offset + i] = Len(got) + i
        <5>1. ASSUME NEW i \in 1..n
              PROVE  read_state.data[read_state.offset + i] = Len(got) + i
          <6>1. read_state.offset + i \in (read_state.offset + 1)..Len(read_state.data)
            BY <3>1
          <6>2. read_state.data[read_state.offset + i]
                  = Len(got) + ((read_state.offset + i) - read_state.offset)
            BY <2>2, <6>1 DEF Buffered, HeldIsNext
          <6>3. QED
            BY <3>1, <6>2
        <5>2. QED
          BY <5>1
      <4>3. QED
        <5>1. bytes \in Seq(Bytes) /\ Len(bytes) = n
          <6>1. /\ read_state.data \in Seq(Bytes) /\ read_state.offset \in Nat
                /\ read_state.offset + n <= Len(read_state.data)
            BY <3>1
          <6>2. QED
            BY <3>1, <6>1, Slice, SMTT(30)
        <5>2. QED
          BY <4>1, <4>2, <5>1 DEF InOrder
    <3>3. /\ got' = got \o bytes /\ UNCHANGED <<end, parked, promise>>
          /\ read_state' = IF n = left THEN Idle
                           ELSE [read_state EXCEPT !.offset = read_state.offset + n]
      BY <2>2, <3>1 DEF Buffered, Returns
    <3>4. got' \in Seq(Bytes) /\ Len(got') = Len(got) + n /\ InOrder(got', 0)
      BY <3>2, <3>3, InOrderConcat DEF HeldIsNext
    <3>5. TypeOK'
      <4>1. CASE n = left
        <5>1. read_state' \in ReadStates /\ read_state'.st = "Idle"
          BY <3>3, <4>1, Shapes DEF Idle
        <5>2. QED
          BY <2>0, <3>3, <3>4, <5>1 DEF ReadStates
      <4>2. CASE n # left
        <5>1. read_state' = [read_state EXCEPT !.offset = read_state.offset + n]
          BY <3>3, <4>2
        <5>2. /\ read_state.offset + n \in Nat
              /\ read_state.offset + n < Len(read_state.data)
          BY <3>1, <4>2
        <5> HIDE DEF n
        <5>3. /\ read_state' \in ReadStates
              /\ read_state'.offset < Len(read_state'.data)
          BY <5>1, <5>2 DEF ReadStates
        <5>4. QED
          BY <2>0, <3>3, <3>4, <5>3 DEF ReadStates
      <4>3. QED
        BY <4>1, <4>2
    <3>6. PromiseIsRead' /\ EndIsKnown'
      BY <2>0, <2>2, <3>3 DEF Buffered, PromiseIsRead, EndIsKnown, Idle
    <3>7. HeldIsNext'
      <4>1. promise.chunk = <<>>
        BY <2>2 DEF Buffered, PromiseIsRead
      <4>2. CASE n = left
        <5>1. handed = Len(got) + left
          BY <2>2, <4>1, <3>1 DEF Buffered, HeldIsNext, Rest
        <5>2. read_state'.st = "Idle" /\ handed' = Len(got') /\ promise'.chunk = <<>>
          BY <2>0, <3>1, <3>3, <3>4, <4>1, <4>2, <5>1 DEF Idle
        <5>3. QED
          BY <3>4, <5>2 DEF HeldIsNext, InOrder, Rest
      <4>3. CASE n # left
        <5>1. read_state.st = "Buffered" /\ handed = Len(got) + left
          BY <2>2, <4>1, <3>1 DEF Buffered, HeldIsNext, Rest
        <5>2. /\ read_state'.st = "Buffered" /\ read_state'.data = read_state.data
              /\ read_state'.offset = read_state.offset + n
          BY <3>3, <4>3, <5>1
        <5>3. \A i \in (read_state.offset + n + 1)..Len(read_state.data) :
                read_state.data[i] = Len(got) + n + (i - (read_state.offset + n))
          <6>1. ASSUME NEW i \in (read_state.offset + n + 1)..Len(read_state.data)
                PROVE  read_state.data[i] = Len(got) + n + (i - (read_state.offset + n))
            <7>1. i \in (read_state.offset + 1)..Len(read_state.data)
              BY <3>1
            <7>2. read_state.data[i] = Len(got) + (i - read_state.offset)
              BY <5>1, <7>1 DEF HeldIsNext
            <7>3. QED
              BY <3>1, <7>2
          <6>2. QED
            BY <6>1
        <5>4. handed = Len(got) + n + (Len(read_state.data) - (read_state.offset + n))
          BY <3>1, <5>1
        <5>5. QED
          <6>1. promise'.chunk = <<>> /\ Len(promise'.chunk) = 0 /\ handed' = handed
            BY <2>0, <3>3, <4>1
          <6>2. \A i \in (read_state'.offset + 1)..Len(read_state'.data) :
                  read_state'.data[i] = Len(got') + (i - read_state'.offset)
            BY <3>4, <5>2, <5>3
          <6>3. handed' = Len(got') + Len(promise'.chunk) + Rest'
            BY <3>1, <3>4, <5>2, <5>4, <6>1 DEF Rest
          <6>4. InOrder(promise'.chunk, Len(got'))
            BY <6>1 DEF InOrder
          <6>5. QED
            BY <3>4, <6>2, <6>3, <6>4 DEF HeldIsNext
      <4>4. QED
        BY <4>2, <4>3
    <3>8. QED
      BY <3>5, <3>6, <3>7
  <2>3. CASE Closed(room)
    BY <2>0, <2>3 DEF Closed, ReturnsZero, PromiseIsRead, HeldIsNext, EndIsKnown, Rest
  <2>4. CASE Waits
    BY <2>0, <2>4 DEF Waits, Pending, owner, PromiseIsRead, HeldIsNext, EndIsKnown, Rest
  <2>5. CASE Fails
    BY <2>0, <2>5 DEF Fails, PromiseIsRead, HeldIsNext, EndIsKnown, Rest
  <2>6. CASE Done(room)
    BY <2>0, <2>6 DEF Done, ReturnsZero, Idle, None, PromiseIsRead, HeldIsNext, EndIsKnown, Rest
  <2>7. CASE EmptyChunk
    BY <2>0, <2>7, StartStep DEF EmptyChunk, Rest
  <2>8. CASE Chunk(room)
    <3> DEFINE all == promise.chunk
               n == AtMost(Len(all), room)
               bytes == SubSeq(all, 1, n)
    <3>1. n \in Nat /\ n <= Len(all) /\ all \in Seq(Bytes)
      BY DEF AtMost, StreamReaderAssumption
    <3>2. bytes \in Seq(Bytes) /\ Len(bytes) = n /\ InOrder(bytes, Len(got))
      <4>1. 0 + 1 = 1 /\ 0 + n = n
        BY <3>1
      <4>2. \A i \in 1..n : bytes[i] = all[i]
        BY <3>1, <4>1, Slice
      <4>3. QED
        BY <3>1, <4>1, <4>2, Slice DEF InOrder, HeldIsNext
    <3>3. /\ got' = got \o bytes /\ UNCHANGED <<end, parked>> /\ promise' = None
          /\ read_state' = IF n < Len(all) THEN [st |-> "Buffered", data |-> all, offset |-> n]
                           ELSE Idle
      BY <2>8 DEF Chunk, Returns
    <3>4. got' \in Seq(Bytes) /\ Len(got') = Len(got) + n /\ InOrder(got', 0)
      BY <3>2, <3>3, InOrderConcat DEF HeldIsNext
    <3>5. TypeOK'
      BY <2>0, <3>1, <3>3, <3>4 DEF Idle, None
    <3>6. PromiseIsRead' /\ EndIsKnown'
      BY <2>0, <2>8, <3>3 DEF Chunk, PromiseIsRead, EndIsKnown, Idle, None
    <3>7. HeldIsNext'
      <4>1. handed = Len(got) + Len(all)
        BY <2>8 DEF Chunk, HeldIsNext, Rest
      <4>2. CASE n < Len(all)
        BY <2>0, <3>1, <3>3, <3>4, <4>1, <4>2, SMTT(30) DEF HeldIsNext, InOrder, Rest, None
      <4>3. CASE ~(n < Len(all))
        BY <2>0, <3>1, <3>3, <3>4, <4>1, <4>3 DEF HeldIsNext, InOrder, Rest, None, Idle
      <4>4. QED
        BY <4>2, <4>3
    <3>8. QED
      BY <3>5, <3>6, <3>7
  <2>9. QED
    BY <1>5, <2>1, <2>2, <2>3, <2>4, <2>5, <2>6, <2>7, <2>8 DEF poll_read
<1>6. CASE UNCHANGED vars
  BY <1>6 DEF vars, PromiseIsRead, HeldIsNext, EndIsKnown, Rest
<1>7. QED
  BY <1>1, <1>2, <1>3, <1>4, <1>5, <1>6 DEF Next

\* The invariant behind the theorems.
LEMMA InvAlways == Spec => []IInv
<1>1. Init => IInv
  BY InvInit, StreamReaderAssumption
<1>2. IInv /\ [Next]_vars => IInv'
  BY InvStep, StreamReaderAssumption
<1>3. QED
  BY <1>1, <1>2, PTL DEF Spec

-----------------------------------------------------------------------------

\* Every value stays in its set, and a Vec is kept only while a byte of it is
\* left: Buffered never holds an exhausted chunk.
THEOREM ReaderTyped == Spec => []TypeOK
<1>1. IInv => TypeOK
  BY DEF IInv
<1>2. QED
  BY <1>1, InvAlways, PTL

\* The owner reads the peer's bytes in order, none twice and none skipped.
THEOREM InOrderAlways == Spec => []ReadsInOrder
<1>1. IInv => ReadsInOrder
  BY DEF IInv, TypeOK, HeldIsNext, InOrder, Rest, ReadsInOrder
<1>2. QED
  BY <1>1, InvAlways, PTL

\* Ok(0) for a buffer with room tells the truth.
THEOREM EofIsTrue == Spec => []EofIsTheEnd
<1>1. IInv => EofIsTheEnd
  BY DEF IInv, TypeOK, PromiseIsRead, HeldIsNext, EndIsKnown, Rest, EofIsTheEnd
<1>2. QED
  BY <1>1, InvAlways, PTL

=============================================================================
