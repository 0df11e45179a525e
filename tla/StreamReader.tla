---------------------------- MODULE StreamReader ----------------------------
(***************************************************************************)
(* The reading half of WebTransportIo (tlsn-prover/src/wasm/io.rs).  One   *)
(* call of poll_read is one step of the task that owns the stream; between *)
(* two calls the browser settles the promise of reader.read().  Bytes are  *)
(* their positions in the stream.                                          *)
(***************************************************************************)
EXTENDS Integers, Sequences

CONSTANTS
  MaxBytes,   \* bytes the peer sends
  MaxRoom,    \* the longest buffer poll_read is given
  MaxEmpty    \* empty chunks the browser may deliver

ASSUME StreamReaderAssumption ==
  MaxBytes \in Nat /\ MaxRoom \in Nat /\ MaxEmpty \in Nat

VARIABLES
  patient,     \* TRUE: the owner polls only when woken, and stops at an error
  read_state,  \* ReadState: st, and the Vec and offset of Buffered
  promise,     \* of reader.read(): st, and its chunk once it has one
  peer,        \* sent, fin: what has arrived; broken: the session failed
  handed,      \* bytes that read promises have carried
  empties,     \* empty chunks delivered
  got,         \* the bytes poll_read has returned
  end,         \* how reading ended for the owner: "no", "eof" or "error"
  parked       \* the owner waits for a wake-up

vars == <<patient, read_state, promise, peer, handed, empties, got, end, parked>>

Bytes == 1..MaxBytes
Idle  == [st |-> "Idle", data |-> <<>>, offset |-> 0]
None  == [st |-> "none", chunk |-> <<>>]

TypeOK ==
  /\ patient \in BOOLEAN
  /\ read_state \in [st : {"Idle", "Reading", "Buffered", "Closed"}, data : Seq(Bytes), offset : Nat]
  /\ read_state.st = "Buffered" => read_state.offset < Len(read_state.data)
  /\ promise \in [st : {"none", "pending", "chunk", "done", "error", "taken"}, chunk : Seq(Bytes)]
  /\ peer \in [sent : 0..MaxBytes, fin : BOOLEAN, broken : BOOLEAN]
  /\ handed \in 0..MaxBytes /\ handed <= peer.sent
  /\ empties \in 0..MaxEmpty
  /\ got \in Seq(Bytes)
  /\ end \in {"no", "eof", "error"}
  /\ parked \in BOOLEAN

\* from_bidi
Init ==
  /\ patient \in BOOLEAN
  /\ read_state = Idle
  /\ promise = None
  /\ peer = [sent |-> 0, fin |-> FALSE, broken |-> FALSE]
  /\ handed = 0 /\ empties = 0
  /\ got = <<>> /\ end = "no" /\ parked = FALSE

-----------------------------------------------------------------------------
\* The peer and the browser.

owner == <<got, end>>

PeerActs ==
  /\ \/ ~peer.fin /\ peer.sent < MaxBytes /\ peer' = [peer EXCEPT !.sent = @ + 1]
     \/ ~peer.fin /\ peer' = [peer EXCEPT !.fin = TRUE]
     \/ ~peer.broken /\ peer' = [peer EXCEPT !.broken = TRUE]
  /\ UNCHANGED <<patient, read_state, promise, handed, empties, owner, parked>>

\* The promise yields what has arrived, cut as the browser likes; the future
\* polled last wakes the owner.
Settle ==
  /\ promise.st = "pending"
  /\ parked' = FALSE
  /\ UNCHANGED <<patient, read_state, peer, owner>>

DeliverChunk ==
  /\ Settle /\ ~peer.broken
  /\ \E n \in 1..(peer.sent - handed) :
       /\ promise' = [st |-> "chunk", chunk |-> [i \in 1..n |-> handed + i]]
       /\ handed' = handed + n
  /\ UNCHANGED empties

DeliverEmpty ==
  /\ Settle /\ ~peer.broken /\ empties < MaxEmpty
  /\ promise' = [st |-> "chunk", chunk |-> <<>>]
  /\ empties' = empties + 1
  /\ UNCHANGED handed

DeliverEnd ==
  /\ Settle
  /\ \/ ~peer.broken /\ peer.fin /\ handed = peer.sent /\ promise' = [None EXCEPT !.st = "done"]
     \/ peer.broken /\ promise' = [None EXCEPT !.st = "error"]
  /\ UNCHANGED <<handed, empties>>

-----------------------------------------------------------------------------
\* poll_read(buf), where buf has room for `room' bytes: one operator for each
\* arm of the match.

AtMost(n, room) == IF n <= room THEN n ELSE room

Pending  == parked' = TRUE /\ UNCHANGED owner
Returns(bytes) == got' = got \o bytes /\ UNCHANGED <<end, parked>>
\* Ok(0) says "end of file" to a caller whose buffer had room.
ReturnsZero(room) == end' = (IF room > 0 THEN "eof" ELSE end) /\ UNCHANGED <<got, parked>>

\* Slips of the kind the code must avoid, against which the runs are tested.
Buffered_OffsetLost(room) ==
  /\ read_state.st = "Buffered"
  /\ LET n == AtMost(Len(read_state.data) - read_state.offset, room)
         offset == read_state.offset + n
     IN  /\ Returns(SubSeq(read_state.data, read_state.offset + 1, offset))
         /\ read_state' = IF n = Len(read_state.data) THEN Idle
                          ELSE [read_state EXCEPT !.offset = n]
  /\ UNCHANGED promise

Buffered_NoReset(room) ==
  /\ read_state.st = "Buffered"
  /\ LET n == AtMost(Len(read_state.data) - read_state.offset, room)
         offset == read_state.offset + n
     IN  /\ Returns(SubSeq(read_state.data, read_state.offset + 1, offset))
         /\ read_state' = [read_state EXCEPT !.offset = offset]
  /\ UNCHANGED promise

Buffered(room) ==
  /\ read_state.st = "Buffered"
  /\ LET n == AtMost(Len(read_state.data) - read_state.offset, room)
         offset == read_state.offset + n
     IN  /\ Returns(SubSeq(read_state.data, read_state.offset + 1, offset))
         /\ read_state' = IF offset = Len(read_state.data) THEN Idle
                          ELSE [read_state EXCEPT !.offset = offset]
  /\ UNCHANGED promise

Closed(room) ==
  /\ read_state.st = "Closed"
  /\ ReturnsZero(room)
  /\ UNCHANGED <<read_state, promise>>

\* A promise never settles within the call that creates it.
StartReading ==
  /\ read_state' = [Idle EXCEPT !.st = "Reading"]
  /\ promise' = [None EXCEPT !.st = "pending"]
  /\ Pending

Waits ==
  /\ read_state.st = "Reading" /\ promise.st \in {"pending", "taken"}
  /\ Pending
  /\ UNCHANGED <<read_state, promise>>

\* The error leaves the finished future where it is, and a JsFuture gives its
\* result away once: polled again, it is pending for ever.
Fails ==
  /\ read_state.st = "Reading" /\ promise.st = "error"
  /\ promise' = [promise EXCEPT !.st = "taken"]
  /\ end' = "error"
  /\ UNCHANGED <<read_state, got, parked>>

Done(room) ==
  /\ read_state.st = "Reading" /\ promise.st = "done"
  /\ read_state' = [Idle EXCEPT !.st = "Closed"]
  /\ promise' = None
  /\ ReturnsZero(room)

EmptyChunk_AsEof ==
  /\ read_state.st = "Reading" /\ promise = [st |-> "chunk", chunk |-> <<>>]
  /\ read_state' = Idle
  /\ promise' = None
  /\ ReturnsZero(1)

EmptyChunk_Yields ==
  /\ read_state.st = "Reading" /\ promise = [st |-> "chunk", chunk |-> <<>>]
  /\ read_state' = Idle
  /\ promise' = None
  /\ Pending

\* An empty chunk is no end of file: the loop goes round and reads again.
EmptyChunk ==
  /\ read_state.st = "Reading" /\ promise = [st |-> "chunk", chunk |-> <<>>]
  /\ StartReading

Chunk(room) ==
  /\ read_state.st = "Reading" /\ promise.st = "chunk" /\ promise.chunk # <<>>
  /\ LET n == AtMost(Len(promise.chunk), room)
     IN  /\ Returns(SubSeq(promise.chunk, 1, n))
         /\ read_state' = IF n < Len(promise.chunk)
                          THEN [st |-> "Buffered", data |-> promise.chunk, offset |-> n]
                          ELSE Idle
  /\ promise' = None

poll_read(room) ==
  /\ patient => ~parked /\ end = "no"
  /\ \/ read_state.st = "Idle" /\ StartReading
     \/ Buffered(room) \/ Closed(room) \/ Waits \/ Fails \/ Done(room)
     \/ EmptyChunk \/ Chunk(room)
  /\ UNCHANGED <<patient, peer, handed, empties>>

Next ==
  \/ PeerActs \/ DeliverChunk \/ DeliverEmpty \/ DeliverEnd
  \/ \E room \in 0..MaxRoom : poll_read(room)

Spec == Init /\ [][Next]_vars

\* The browser settles a promise that it can settle, and an owner that was
\* woken polls with room to read into.
Fairness ==
  /\ WF_vars(DeliverChunk) /\ WF_vars(DeliverEnd)
  /\ WF_vars(\E room \in 1..MaxRoom : poll_read(room))

FairSpec == Spec /\ Fairness

-----------------------------------------------------------------------------
\* Properties.

\* The owner reads the peer's bytes in order, none twice and none skipped,
\* however the browser cuts its chunks and however small the buffers are, and
\* what is not yet returned is what the state still holds.
ReadsInOrder ==
  /\ \A i \in 1..Len(got) : got[i] = i
  /\ handed = Len(got) + Len(promise.chunk)
                + (IF read_state.st = "Buffered" THEN Len(read_state.data) - read_state.offset ELSE 0)

\* Ok(0) for a buffer with room means that the peer has closed its half and
\* that the owner has every byte of it (io.rs:103-116).
EofIsTheEnd == end = "eof" => peer.fin /\ Len(got) = peer.sent

\* No wake-up is lost: an owner that polls when woken reads whatever has
\* arrived, up to the end of file, unless the session breaks.
ReadsComplete ==
  /\ \A k \in Bytes : patient /\ peer.sent >= k ~> Len(got) >= k \/ peer.broken
  /\ patient /\ peer.fin ~> end # "no" \/ peer.broken

=============================================================================
