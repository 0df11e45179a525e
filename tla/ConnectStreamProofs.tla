------------------------ MODULE ConnectStreamProofs ------------------------
(***************************************************************************)
(* Theorems about ConnectStream, for every limit, every buffer, every line *)
(* and every cut of either side's bytes into reads and writes.             *)
(***************************************************************************)
EXTENDS ConnectStream, SequenceTheorems, TLAPS

\* The elements of s are the positions after k.
InOrder(s, k) == \A i \in 1..Len(s) : s[i] = k + i

\* The length check comes before each read and the search after it.
PreambleInv ==
  /\ pc = "preamble" => taken < lineLength
  /\ PreambleLimit

\* What forward holds for the bank, or ChainedRead for the driver, comes right
\* after what they were given, and nothing is lost between stream and pump.
UpInv ==
  /\ InOrder(served, lineLength)
  /\ InOrder(up.bytes, lineLength + Len(served))
  /\ up.st # "writing" => up.bytes = <<>>
  /\ pc \in {"preamble", "dial", "verify"} => up = Reading
  /\ pc \in {"preamble", "dial"} => served = <<>>
  /\ pc = "leftover" => up.st = "writing"
  /\ pc \in {"dial", "verify"} => taken >= lineLength + Len(served)
  /\ pc \in {"leftover", "join"} /\ up.st # "err" =>
       taken = lineLength + Len(served) + Len(up.bytes)
  /\ servedEnd => (pc = "join" /\ up.st = "ok") \/ Ended

\* The same of the other pump.
DownInv ==
  /\ InOrder(answered, 0)
  /\ InOrder(down.bytes, Len(answered))
  /\ down.st # "writing" => down.bytes = <<>>
  /\ down.st # "err" => bankTaken = Len(answered) + Len(down.bytes)
  /\ answeredEnd => down.st = "ok"
  /\ pc \in {"preamble", "dial"} => bank = "none"

IInv == TypeOK /\ PreambleInv /\ UpInv /\ DownInv

-----------------------------------------------------------------------------
\* Sequences of consecutive positions.

\* What a read brings.
LEMMA ReadBatch ==
  ASSUME NEW k \in Nat, NEW n \in Nat
  PROVE  /\ [i \in 1..n |-> k + i] \in Seq(Nat)
         /\ Len([i \in 1..n |-> k + i]) = n
         /\ InOrder([i \in 1..n |-> k + i], k)
BY DEF InOrder

\* A run of positions continued is a longer run.
LEMMA InOrderConcat ==
  ASSUME NEW s \in Seq(Nat), NEW t \in Seq(Nat), NEW k \in Nat,
         InOrder(s, k), InOrder(t, k + Len(s))
  PROVE  /\ s \o t \in Seq(Nat) /\ Len(s \o t) = Len(s) + Len(t)
         /\ InOrder(s \o t, k)
<1>1. /\ s \o t \in Seq(Nat) /\ Len(s \o t) = Len(s) + Len(t)
      /\ \A i \in 1..(Len(s) + Len(t)) :
           (s \o t)[i] = IF i <= Len(s) THEN s[i] ELSE t[i - Len(s)]
  BY ConcatProperties
<1>2. Len(s) \in Nat /\ Len(t) \in Nat
  OBVIOUS
<1>3. ASSUME NEW i \in 1..(Len(s) + Len(t))
      PROVE  (s \o t)[i] = k + i
  <2>1. CASE i <= Len(s)
    BY <1>1, <1>2, <2>1 DEF InOrder
  <2>2. CASE i > Len(s)
    <3>1. i - Len(s) \in 1..Len(t)
      BY <1>2, <2>2
    <3>2. t[i - Len(s)] = k + Len(s) + (i - Len(s))
      BY <3>1 DEF InOrder
    <3>3. QED
      BY <1>1, <1>2, <2>2, <3>2
  <2>3. QED
    BY <1>2, <2>1, <2>2
<1>4. QED
  BY <1>1, <1>3 DEF InOrder

\* A run split in two: what write_all has written, and what it still holds.
LEMMA InOrderSplit ==
  ASSUME NEW s \in Seq(Nat), NEW k \in Nat, InOrder(s, k), NEW n \in 1..Len(s)
  PROVE  /\ SubSeq(s, 1, n) \in Seq(Nat) /\ Len(SubSeq(s, 1, n)) = n
         /\ InOrder(SubSeq(s, 1, n), k)
         /\ SubSeq(s, n + 1, Len(s)) \in Seq(Nat)
         /\ Len(SubSeq(s, n + 1, Len(s))) = Len(s) - n
         /\ InOrder(SubSeq(s, n + 1, Len(s)), k + n)
<1>1. Len(s) \in Nat /\ n \in Nat /\ n >= 1 /\ n <= Len(s)
  OBVIOUS
<1>2. /\ \A i \in 1..n : s[i] \in Nat
      /\ \A i \in (n + 1)..Len(s) : s[i] \in Nat
  BY <1>1, ElementOfSeq
<1>3. /\ SubSeq(s, 1, n) \in Seq(Nat) /\ Len(SubSeq(s, 1, n)) = n
      /\ \A i \in 1..n : SubSeq(s, 1, n)[i] = s[i]
  <2>1. /\ SubSeq(s, 1, n) \in Seq(Nat)
        /\ Len(SubSeq(s, 1, n)) = IF 1 <= n THEN n - 1 + 1 ELSE 0
        /\ \A i \in 1..(n - 1 + 1) : SubSeq(s, 1, n)[i] = s[1 + i - 1]
    BY <1>1, <1>2, SubSeqProperties
  <2>2. QED
    BY <1>1, <2>1
<1>4. /\ SubSeq(s, n + 1, Len(s)) \in Seq(Nat)
      /\ Len(SubSeq(s, n + 1, Len(s))) = Len(s) - n
      /\ \A i \in 1..(Len(s) - n) : SubSeq(s, n + 1, Len(s))[i] = s[n + i]
  <2>1. /\ SubSeq(s, n + 1, Len(s)) \in Seq(Nat)
        /\ Len(SubSeq(s, n + 1, Len(s))) = IF n + 1 <= Len(s) THEN Len(s) - (n + 1) + 1 ELSE 0
        /\ \A i \in 1..(Len(s) - (n + 1) + 1) :
             SubSeq(s, n + 1, Len(s))[i] = s[(n + 1) + i - 1]
    BY <1>1, <1>2, SubSeqProperties
  <2>2. QED
    BY <1>1, <2>1
<1>5. InOrder(SubSeq(s, 1, n), k)
  BY <1>1, <1>3 DEF InOrder
<1>6. InOrder(SubSeq(s, n + 1, Len(s)), k + n)
  BY <1>1, <1>4 DEF InOrder
<1>7. QED
  BY <1>3, <1>4, <1>5, <1>6

\* The positions in a run, counted from its start: what Payload makes of it.
Count(n) == [i \in 1..n |-> i]

LEMMA PayloadCounts ==
  ASSUME NEW s \in Seq(Nat), lineLength \in Nat, InOrder(s, lineLength)
  PROVE  Payload(s) = Count(Len(s))
BY DEF Payload, Count, InOrder

LEMMA AnswerCounts ==
  ASSUME NEW s \in Seq(Nat), InOrder(s, 0)
  PROVE  s = Count(Len(s))
BY DEF Count, InOrder

\* A batch delivered by the abstract pipe.
LEMMA CountOn ==
  ASSUME NEW m \in Nat, NEW n \in Nat
  PROVE  /\ Count(m + n) = Count(m) \o [i \in 1..n |-> Len(Count(m)) + i]
         /\ Len(Count(m)) = m
<1>1. Count(m) \in Seq(Nat) /\ Len(Count(m)) = m
  BY DEF Count
<1> DEFINE t == [i \in 1..n |-> m + i]
<1>2. t \in Seq(Nat) /\ Len(t) = n /\ \A i \in 1..n : t[i] = m + i
  OBVIOUS
<1>3. InOrder(Count(m), 0) /\ InOrder(t, 0 + Len(Count(m)))
  BY <1>1, <1>2 DEF InOrder, Count
<1>4. Count(m) \o t \in Seq(Nat) /\ Len(Count(m) \o t) = m + n /\ InOrder(Count(m) \o t, 0)
  <2> HIDE DEF t
  <2>1. QED
    BY <1>1, <1>2, <1>3, InOrderConcat
<1>5. Count(m) \o t = Count(m + n)
  BY <1>4, AnswerCounts
<1>6. QED
  BY <1>1, <1>5

-----------------------------------------------------------------------------
\* What the steps do to the pumps.

\* The numbers are natural, and reads never pass what was sent.
LEMMA Numbers ==
  ASSUME TypeOK
  PROVE  /\ lineLength \in Nat /\ lineLength > 0
         /\ sent \in Nat /\ taken \in Nat /\ taken <= sent
         /\ bankSent \in Nat /\ bankTaken \in Nat /\ bankTaken <= bankSent
         /\ MAX_PREAMBLE_BYTES \in Nat /\ BUF \in Nat
         /\ MaxClientBytes \in Nat /\ MaxBankBytes \in Nat
<1>0. /\ lineLength \in LineLengths
      /\ sent \in 0..MaxClientBytes /\ taken \in 0..sent
      /\ bankSent \in 0..MaxBankBytes /\ bankTaken \in 0..bankSent
  BY Zenon DEF TypeOK
<1>1. lineLength \in Nat /\ lineLength > 0
  BY <1>0, ConnectStreamAssumption DEF ConnectStreamAssumption
<1>2. /\ MAX_PREAMBLE_BYTES \in Nat /\ BUF \in Nat
      /\ MaxClientBytes \in Nat /\ MaxBankBytes \in Nat
  BY ConnectStreamAssumption DEF ConnectStreamAssumption
<1>3. sent \in Nat /\ bankSent \in Nat
  BY <1>0, <1>2
<1>4. taken \in Nat /\ taken <= sent /\ bankTaken \in Nat /\ bankTaken <= bankSent
  BY <1>0, <1>3
<1>5. QED
  BY <1>1, <1>2, <1>3, <1>4

\* The sequences are of positions.
LEMMA Sequences ==
  ASSUME TypeOK
  PROVE  /\ up \in Pumps /\ up.bytes \in Seq(Nat) /\ Len(up.bytes) \in Nat
         /\ down \in Pumps /\ down.bytes \in Seq(Nat) /\ Len(down.bytes) \in Nat
         /\ served \in Seq(Nat) /\ Len(served) \in Nat
         /\ answered \in Seq(Nat) /\ Len(answered) \in Nat
<1>1. up \in Pumps /\ down \in Pumps /\ served \in Seq(Nat) /\ answered \in Seq(Nat)
  BY Zenon DEF TypeOK
<1>2. QED
  BY <1>1 DEF Pumps

\* The records a pump goes through.
LEMMA PumpShapes ==
  /\ <<>> \in Seq(Nat) /\ Len(<<>>) = 0
  /\ Reading \in Pumps /\ Reading.st = "reading" /\ Reading.bytes = <<>>
  /\ \A s \in {"reading", "writing", "ok", "err"}, b \in Seq(Nat) :
       [st |-> s, bytes |-> b] \in Pumps
BY DEF Reading, Pumps

\* A pump that is over holds nothing.
LEMMA OverShapes ==
  /\ [Reading EXCEPT !.st = "ok"] = [st |-> "ok", bytes |-> <<>>]
  /\ [Reading EXCEPT !.st = "err"] = [st |-> "err", bytes |-> <<>>]
BY DEF Reading

\* A pump in the middle of write_all.
LEMMA StillWriting ==
  ASSUME NEW p \in Pumps, p.st = "writing"
  PROVE  \A b : [p EXCEPT !.bytes = b] = [st |-> "writing", bytes |-> b]
BY DEF Pumps

\* A pump after n more of its bytes have gone out.
After(p, n) == IF n = Len(p.bytes) THEN Reading
               ELSE [st |-> "writing", bytes |-> SubSeq(p.bytes, n + 1, Len(p.bytes))]

\* write_all hands a prefix of what a pump p holds to its destination, which
\* has been given the bytes `out' so far.
LEMMA WriteOut ==
  ASSUME NEW p \in Pumps, NEW out \in Seq(Nat), NEW k \in Nat, p.st = "writing",
         InOrder(out, k), InOrder(p.bytes, k + Len(out)),
         NEW n \in 1..Len(p.bytes)
  PROVE  /\ After(p, n) \in Pumps /\ After(p, n).st \in {"reading", "writing"}
         /\ After(p, n).st # "writing" => After(p, n).bytes = <<>>
         /\ out \o SubSeq(p.bytes, 1, n) \in Seq(Nat)
         /\ InOrder(out \o SubSeq(p.bytes, 1, n), k)
         /\ InOrder(After(p, n).bytes, k + Len(out) + n)
         /\ Len(out \o SubSeq(p.bytes, 1, n)) = Len(out) + n
         /\ Len(After(p, n).bytes) = Len(p.bytes) - n
<1> DEFINE more == out \o SubSeq(p.bytes, 1, n)
           q == After(p, n)
<1>1. p.bytes \in Seq(Nat) /\ Len(p.bytes) \in Nat /\ Len(out) \in Nat /\ n \in Nat
  BY DEF Pumps
<1>2. k + Len(out) \in Nat
  BY <1>1
<1> DEFINE gone == SubSeq(p.bytes, 1, n)
           kept == SubSeq(p.bytes, n + 1, Len(p.bytes))
<1>3. /\ gone \in Seq(Nat) /\ Len(gone) = n /\ InOrder(gone, k + Len(out))
      /\ kept \in Seq(Nat) /\ Len(kept) = Len(p.bytes) - n /\ InOrder(kept, k + Len(out) + n)
  BY <1>1, <1>2, InOrderSplit
<1>4. more = out \o gone /\ q = (IF n = Len(p.bytes) THEN Reading ELSE [st |-> "writing", bytes |-> kept])
  BY DEF After
<1> HIDE DEF gone, kept, more, q
<1>5. more \in Seq(Nat) /\ Len(more) = Len(out) + n /\ InOrder(more, k)
  BY <1>3, <1>4, InOrderConcat
<1> DEFINE Goal ==
             /\ q \in Pumps /\ q.st \in {"reading", "writing"}
             /\ q.st # "writing" => q.bytes = <<>>
             /\ Len(q.bytes) = Len(p.bytes) - n
             /\ InOrder(q.bytes, k + Len(out) + n)
<1>6. ASSUME n = Len(p.bytes) PROVE Goal
  <2>1. /\ q = Reading /\ q \in Pumps /\ q.st = "reading" /\ q.bytes = <<>>
        /\ Len(q.bytes) = 0
    BY <1>4, <1>6, PumpShapes
  <2>2. InOrder(q.bytes, k + Len(out) + n)
    BY <2>1 DEF InOrder
  <2>3. Len(q.bytes) = Len(p.bytes) - n
    BY <1>1, <1>6, <2>1
  <2>4. QED
    BY <2>1, <2>2, <2>3, Zenon
<1>7. ASSUME n # Len(p.bytes) PROVE Goal
  <2>1. q \in Pumps /\ q.st = "writing" /\ q.bytes = kept
    BY <1>3, <1>4, <1>7, PumpShapes
  <2>2. QED
    BY <1>3, <2>1
<1>8. Goal
  BY <1>6, <1>7
<1>9. QED
  BY <1>5, <1>8, Zenon DEF more, q

\* WriteUp is such a write.
LEMMA WriteUpEffect ==
  ASSUME TypeOK, UpInv, WriteUp
  PROVE  \E n \in 1..Len(up.bytes) :
           /\ up' \in Pumps /\ up'.st \in {"reading", "writing"}
           /\ up'.st # "writing" => up'.bytes = <<>>
           /\ served' \in Seq(Nat) /\ InOrder(served', lineLength)
           /\ InOrder(up'.bytes, lineLength + Len(served'))
           /\ Len(served') = Len(served) + n /\ Len(up'.bytes) = Len(up.bytes) - n
<1>1. PICK n \in 1..Len(up.bytes) :
        /\ served' = served \o SubSeq(up.bytes, 1, n)
        /\ up' = IF n = Len(up.bytes) THEN Reading
                 ELSE [up EXCEPT !.bytes = SubSeq(@, n + 1, Len(@))]
  BY Zenon DEF WriteUp
<1>2. up \in Pumps /\ up.st = "writing" /\ served \in Seq(Nat) /\ lineLength \in Nat
  BY Numbers DEF TypeOK, WriteUp
<1>3. InOrder(served, lineLength) /\ InOrder(up.bytes, lineLength + Len(served))
  BY DEF UpInv
<1>4. /\ up' \in Pumps /\ up'.st \in {"reading", "writing"}
      /\ up'.st # "writing" => up'.bytes = <<>>
      /\ served' \in Seq(Nat) /\ InOrder(served', lineLength)
      /\ InOrder(up'.bytes, lineLength + Len(served'))
      /\ Len(served') = Len(served) + n /\ Len(up'.bytes) = Len(up.bytes) - n
  <2>1. up' = After(up, n) /\ n \in 1..Len(up.bytes)
    BY <1>1, <1>2, StillWriting DEF After
  <2>2. /\ After(up, n) \in Pumps /\ After(up, n).st \in {"reading", "writing"}
        /\ After(up, n).st # "writing" => After(up, n).bytes = <<>>
        /\ served \o SubSeq(up.bytes, 1, n) \in Seq(Nat)
        /\ InOrder(served \o SubSeq(up.bytes, 1, n), lineLength)
        /\ InOrder(After(up, n).bytes, lineLength + Len(served) + n)
        /\ Len(served \o SubSeq(up.bytes, 1, n)) = Len(served) + n
        /\ Len(After(up, n).bytes) = Len(up.bytes) - n
    BY <1>2, <1>3, <2>1, WriteOut
  <2>3. lineLength + Len(served') = lineLength + Len(served) + n
    BY <1>1, <1>2, <2>2
  <2>4. QED
    BY <1>1, <2>1, <2>2, <2>3
<1>5. QED
  BY <1>4

\* What the first line can lead to.
LEMMA DispatchEffect ==
  ASSUME Dispatch
  PROVE  \/ pc' \in {"verify", "dial"} /\ error' = error
         \/ pc' = "err" /\ error' \in {"not allowed", "preamble"}
BY DEF Dispatch, Fails

-----------------------------------------------------------------------------
\* The way up: from the stream to the driver or the bank.

UpNext == Up!Send \/ Up!Finish \/ Up!Deliver \/ Up!End
UpVars == <<IF sent > lineLength THEN sent - lineLength ELSE 0, client # "open",
            Payload(served), servedEnd>>

\* What a step has to show: the pump's invariant, its types, and that the pipe
\* moves as HalfPipe allows.
UpStepOK ==
  /\ UpInv' /\ up' \in Pumps /\ served' \in Seq(Nat)
  /\ [UpNext]_UpVars

\* What was read along with the preamble ...
LEMMA LeftoverBatch ==
  ASSUME lineLength \in Nat, taken \in Nat, taken >= lineLength
  PROVE  /\ Leftover \in Seq(Nat) /\ Len(Leftover) = taken - lineLength
         /\ InOrder(Leftover, lineLength)
BY ReadBatch DEF Leftover

\* ... and what of it ChainedRead has yet to give out.
LEMMA UnservedBatch ==
  ASSUME lineLength \in Nat, taken \in Nat, served \in Seq(Nat), taken >= lineLength + Len(served)
  PROVE  /\ Unserved \in Seq(Nat) /\ Len(Unserved) = taken - lineLength - Len(served)
         /\ InOrder(Unserved, lineLength + Len(served))
<1>1. Len(served) \in Nat
  OBVIOUS
<1>2. /\ taken - lineLength - Len(served) \in Nat
      /\ lineLength + Len(served) \in Nat
  BY <1>1
<1>3. QED
  BY <1>2, ReadBatch DEF Unserved

\* A step that leaves the pipe's four values alone stutters.
LEMMA UpStutters ==
  ASSUME UNCHANGED <<lineLength, client, sent, served, servedEnd>>
  PROVE  [UpNext]_UpVars
BY DEF UpVars, Payload

\* A batch of positions after the ones served is a delivery.
LEMMA UpDelivers ==
  ASSUME UNCHANGED <<lineLength, client, sent, servedEnd>>, ~servedEnd,
         lineLength \in Nat, sent \in Nat,
         served \in Seq(Nat), InOrder(served, lineLength),
         served' \in Seq(Nat), InOrder(served', lineLength),
         NEW n \in Nat, n > 0, Len(served') = Len(served) + n,
         lineLength + Len(served') <= sent
  PROVE  [UpNext]_UpVars
<1>1. /\ Payload(served) = Count(Len(served)) /\ Len(served) \in Nat
      /\ Len(Count(Len(served))) = Len(served)
      /\ Count(Len(served) + n) = Count(Len(served)) \o [i \in 1..n |-> Len(Count(Len(served))) + i]
  <2>1. Payload(served) = Count(Len(served)) /\ Len(served) \in Nat
    BY PayloadCounts
  <2>2. QED
    BY <2>1, CountOn
<1>2. Payload(served)' = Count(Len(served) + n)
  <2>1. Payload(served)' = [i \in 1..Len(served') |-> served'[i] - lineLength]
    BY DEF Payload
  <2>2. \A i \in 1..Len(served') : served'[i] - lineLength = i
    BY DEF InOrder
  <2>3. QED
    BY <2>1, <2>2 DEF Count
<1>3. n \in 1..((IF sent > lineLength THEN sent - lineLength ELSE 0) - Len(Payload(served)))
  BY <1>1
<1>4. Up!Deliver
  <2>1. Payload(served)' = Payload(served) \o [i \in 1..n |-> Len(Payload(served)) + i]
    BY <1>1, <1>2
  <2>2. QED
    BY <1>3, <2>1 DEF Up!Deliver
<1>5. QED
  BY <1>4 DEF UpNext

\* The end passed on after the last byte.
LEMMA UpEnds ==
  ASSUME UNCHANGED <<lineLength, client, sent, served>>, ~servedEnd, servedEnd' = TRUE,
         client # "open", lineLength \in Nat, sent \in Nat,
         served \in Seq(Nat), InOrder(served, lineLength), lineLength + Len(served) = sent
  PROVE  [UpNext]_UpVars
<1>1. Payload(served) = Count(Len(served)) /\ Len(served) \in Nat
      /\ Len(Count(Len(served))) = Len(served)
  <2>1. Payload(served) = Count(Len(served)) /\ Len(served) \in Nat
    BY PayloadCounts
  <2>2. QED
    BY <2>1, CountOn
<1>2. Len(Payload(served)) = IF sent > lineLength THEN sent - lineLength ELSE 0
  BY <1>1
<1>3. Payload(served)' = Payload(served)
  BY DEF Payload
<1>4. Up!End
  BY <1>2, <1>3 DEF Up!End
<1>5. QED
  BY <1>4 DEF UpNext

\* The reads of the driver, leftover first.
LEMMA ChainedReadUp ==
  ASSUME TypeOK, UpInv, ChainedRead
  PROVE  UpStepOK
<1>1. /\ pc = "verify" /\ UNCHANGED <<lineLength, client, sent, pc, up, servedEnd>>
      /\ up = Reading /\ ~servedEnd
  BY PumpShapes DEF ChainedRead, clientVars, UpInv, Ended
<1>2. /\ lineLength \in Nat /\ sent \in Nat /\ taken \in Nat /\ taken <= sent
      /\ served \in Seq(Nat) /\ Len(served) \in Nat /\ taken >= lineLength + Len(served)
      /\ InOrder(served, lineLength) /\ up \in Pumps
  BY <1>1, Numbers, Sequences DEF UpInv
<1> DEFINE More(b, n) == /\ b \in Seq(Nat) /\ Len(b) = n /\ InOrder(b, lineLength + Len(served))
                         /\ served' = served \o b /\ lineLength + Len(served) + n <= taken'
                         /\ taken' \in Nat /\ taken' <= sent
<1>3. \E n \in 1..BUF : \E b : More(b, n)
  <2>1. PICK n \in 1..BUF :
          \/ /\ Unserved # <<>> /\ n <= Len(Unserved)
             /\ served' = served \o SubSeq(Unserved, 1, n)
             /\ UNCHANGED taken
          \/ /\ Unserved = <<>> /\ taken + n <= sent
             /\ taken' = taken + n
             /\ served' = served \o [i \in 1..n |-> taken + i]
    BY DEF ChainedRead
  <2>2. n \in Nat /\ n > 0
    BY <2>1, Numbers
  <2>3. /\ Unserved \in Seq(Nat) /\ Len(Unserved) = taken - lineLength - Len(served)
        /\ InOrder(Unserved, lineLength + Len(served))
    BY <1>2, UnservedBatch
  <2>4. CASE /\ n <= Len(Unserved) /\ UNCHANGED taken
             /\ served' = served \o SubSeq(Unserved, 1, n)
    <3>1. n \in 1..Len(Unserved) /\ lineLength + Len(served) \in Nat
      BY <1>2, <2>2, <2>3, <2>4
    <3>2. /\ SubSeq(Unserved, 1, n) \in Seq(Nat) /\ Len(SubSeq(Unserved, 1, n)) = n
          /\ InOrder(SubSeq(Unserved, 1, n), lineLength + Len(served))
      BY <2>3, <3>1, InOrderSplit
    <3>3. More(SubSeq(Unserved, 1, n), n)
      BY <1>2, <2>2, <2>3, <2>4, <3>2
    <3>4. QED
      BY <2>1, <3>3
  <2>5. CASE /\ Unserved = <<>> /\ taken + n <= sent /\ taken' = taken + n
             /\ served' = served \o [i \in 1..n |-> taken + i]
    <3>1. taken = lineLength + Len(served)
      BY <1>2, <2>3, <2>5, PumpShapes
    <3>2. More([i \in 1..n |-> taken + i], n)
      BY <1>2, <2>2, <2>5, <3>1, ReadBatch
    <3>3. QED
      BY <2>1, <3>2
  <2>6. QED
    BY <2>1, <2>4, <2>5
<1>p. PICK n \in 1..BUF : \E b : More(b, n)
  BY <1>3
<1>4. PICK b : More(b, n)
  BY <1>p
<1>5. n \in Nat /\ n > 0
  BY <1>p, Numbers
<1>6. served' \in Seq(Nat) /\ Len(served') = Len(served) + n /\ InOrder(served', lineLength)
  BY <1>2, <1>4, InOrderConcat
<1>7. UpInv'
  BY <1>1, <1>2, <1>4, <1>5, <1>6, PumpShapes DEF UpInv, InOrder, Ended
<1>8. [UpNext]_UpVars
  BY <1>1, <1>2, <1>4, <1>5, <1>6, UpDelivers
<1>9. QED
  BY <1>1, <1>2, <1>6, <1>7, <1>8 DEF UpStepOK

\* A write of write_all, on the leftover or in forward.
LEMMA WriteUpDelivers ==
  ASSUME TypeOK, UpInv, WriteUp, pc \in {"leftover", "join"},
         UNCHANGED <<lineLength, client, sent, taken, servedEnd>>,
         \/ pc' = "join"
         \/ pc' = "leftover" /\ up'.st = "writing"
  PROVE  UpStepOK
<1>1. PICK n \in 1..Len(up.bytes) :
           /\ up' \in Pumps /\ up'.st \in {"reading", "writing"}
           /\ up'.st # "writing" => up'.bytes = <<>>
           /\ served' \in Seq(Nat) /\ InOrder(served', lineLength)
           /\ InOrder(up'.bytes, lineLength + Len(served'))
           /\ Len(served') = Len(served) + n /\ Len(up'.bytes) = Len(up.bytes) - n
  BY WriteUpEffect
<1>2. /\ lineLength \in Nat /\ sent \in Nat /\ taken \in Nat /\ taken <= sent
      /\ served \in Seq(Nat) /\ Len(served) \in Nat /\ up.st = "writing"
      /\ up.bytes \in Seq(Nat) /\ Len(up.bytes) \in Nat /\ n \in Nat /\ n > 0
      /\ n <= Len(up.bytes)
  <2>1. up.st = "writing" /\ n \in 1..Len(up.bytes)
    BY <1>1, Zenon DEF WriteUp
  <2>2. QED
    BY <2>1, Numbers, Sequences
<1>3. /\ InOrder(served, lineLength) /\ ~servedEnd
      /\ taken = lineLength + Len(served) + Len(up.bytes)
  BY <1>2 DEF UpInv, Ended
<1> DEFINE a == Len(served)
           b == Len(up.bytes)
           c == Len(served')
           d == Len(up'.bytes)
<1>4. taken = lineLength + c + d /\ lineLength + c <= sent
  <2>1. c = a + n /\ d = b - n /\ n <= b /\ taken = lineLength + a + b
    BY <1>1, <1>2, <1>3
  <2>2. a \in Nat /\ b \in Nat /\ n \in Nat /\ lineLength \in Nat /\ taken <= sent
        /\ sent \in Nat /\ taken \in Nat
    BY <1>2
  <2> HIDE DEF a, b, c, d
  <2>3. QED
    BY <2>1, <2>2
<1>5. UpInv'
  BY <1>1, <1>3, <1>4 DEF UpInv, Ended
<1>6. [UpNext]_UpVars
  BY <1>1, <1>2, <1>3, <1>4, UpDelivers
<1>7. QED
  BY <1>1, <1>5, <1>6 DEF UpStepOK

\* The invariant looks at the stage, the pump and the counts only ...
LEMMA UpFrame ==
  ASSUME UpInv, UNCHANGED <<lineLength, taken, pc, up, served, servedEnd>>
  PROVE  UpInv'
BY DEF UpInv, InOrder, Ended

\* ... and at the end of the stream's task no longer at the counts.
LEMMA UpOver ==
  ASSUME UpInv, UNCHANGED <<lineLength, up, served>>, pc' \in {"ok", "err"}
  PROVE  UpInv'
BY DEF UpInv, InOrder, Ended

\* Each step of the system is one of the pipe's, or none.
LEMMA UpStep ==
  ASSUME TypeOK, PreambleInv, UpInv, [Next]_vars
  PROVE  UpStepOK
<1> USE DEF clientVars, bankVars, downVars, upVars
<1>n. /\ lineLength \in Nat /\ lineLength > 0 /\ sent \in Nat /\ taken \in Nat /\ taken <= sent
      /\ BUF \in Nat
      /\ served \in Seq(Nat) /\ Len(served) \in Nat /\ InOrder(served, lineLength)
      /\ up \in Pumps /\ up.bytes \in Seq(Nat) /\ Len(up.bytes) \in Nat
  BY Numbers, Sequences DEF UpInv
<1> DEFINE Frame == UNCHANGED <<lineLength, taken, pc, up, served, servedEnd>>
<1>1. CASE ClientSends
  <2>1. Frame /\ client = "open" /\ UNCHANGED client /\ sent' = sent + 1
    BY <1>1 DEF ClientSends
  <2>2. UpInv'
    BY <2>1, UpFrame
  <2>3. Payload(served)' = Payload(served)
    BY <2>1 DEF Payload
  <2>4. [UpNext]_UpVars
    <3>1. CASE sent >= lineLength
      <4>1. (IF sent > lineLength THEN sent - lineLength ELSE 0)'
              = (IF sent > lineLength THEN sent - lineLength ELSE 0) + 1
        BY <1>n, <2>1, <3>1
      <4>2. Up!Send
        BY <2>1, <2>3, <4>1 DEF Up!Send
      <4>3. QED
        BY <4>2 DEF UpNext
    <3>2. CASE ~(sent >= lineLength)
      BY <1>n, <2>1, <2>3, <3>2 DEF UpVars
    <3>3. QED
      BY <3>1, <3>2
  <2>5. QED
    BY <1>n, <2>1, <2>2, <2>4 DEF UpStepOK
<1>2. CASE ClientEnds
  <2>1. /\ Frame /\ UNCHANGED sent /\ client' \in {"finished", "gone"}
    BY <1>2 DEF ClientEnds
  <2>2. UpInv'
    BY <2>1, UpFrame
  <2>3. Payload(served)' = Payload(served)
    BY <2>1 DEF Payload
  <2>4. [UpNext]_UpVars
    <3>1. CASE client = "open"
      <4>1. Up!Finish
        BY <2>1, <2>3, <3>1 DEF Up!Finish
      <4>2. QED
        BY <4>1 DEF UpNext
    <3>2. CASE client # "open"
      <4>1. (client # "open")' = (client # "open")
        BY <2>1, <3>2
      <4>2. QED
        BY <2>1, <2>3, <4>1 DEF UpVars
    <3>3. QED
      BY <3>1, <3>2
  <2>5. QED
    BY <1>n, <2>1, <2>2, <2>4 DEF UpStepOK
<1>3. CASE BankSends \/ BankEnds \/ PumpDown \/ UNCHANGED vars
  <2>1. Frame /\ UNCHANGED <<client, sent>>
    BY <1>3 DEF BankSends, BankEnds, PumpDown, vars
  <2>2. UpInv' /\ [UpNext]_UpVars
    BY <2>1, UpFrame, UpStutters
  <2>3. QED
    BY <1>n, <2>1, <2>2 DEF UpStepOK
<1>4. CASE PreambleFails \/ Join
  <2>1. /\ UNCHANGED <<lineLength, taken, up, served, servedEnd, client, sent>>
        /\ pc' \in {"ok", "err"}
    BY <1>4 DEF PreambleFails, Join, Fails
  <2>2. UpInv' /\ [UpNext]_UpVars
    BY <2>1, UpOver, UpStutters
  <2>3. QED
    BY <1>n, <2>1, <2>2 DEF UpStepOK
<1>5. CASE ReadPreamble
  <2>1. /\ pc = "preamble" /\ UNCHANGED <<lineLength, client, sent, up, served, servedEnd>>
        /\ up = Reading /\ served = <<>> /\ ~servedEnd
    BY <1>5 DEF ReadPreamble, UpInv, Ended
  <2>2. /\ taken' \in Nat
        /\ \/ pc' = "preamble"
           \/ pc' \in {"verify", "dial"} /\ taken' >= lineLength
           \/ pc' = "err"
    <3>1. PICK n \in 1..MAX_PREAMBLE_BYTES :
            /\ taken' = taken + n
            /\ IF HasNewline(taken + n) THEN Dispatch ELSE UNCHANGED <<pc, error>>
      BY <1>5 DEF ReadPreamble
    <3>2. n \in Nat
      BY <3>1, Numbers
    <3>3. taken' \in Nat /\ taken + n = taken'
      BY <1>n, <3>1, <3>2
    <3>4. CASE HasNewline(taken + n)
      <4>1. taken' >= lineLength
        BY <3>3, <3>4 DEF HasNewline
      <4>2. Dispatch
        BY <3>1, <3>4
      <4>3. QED
        BY <3>3, <4>1, <4>2, DispatchEffect
    <3>5. QED
      BY <2>1, <3>1, <3>3, <3>4
  <2>3. UpInv'
    BY <1>n, <2>1, <2>2, PumpShapes DEF UpInv, InOrder, Ended
  <2>4. [UpNext]_UpVars
    BY <2>1, UpStutters
  <2>5. QED
    BY <1>n, <2>1, <2>3, <2>4 DEF UpStepOK
<1>6. CASE ChainedRead
  BY <1>6, ChainedReadUp
<1>7. CASE VerifyEnds
  <2>1. /\ pc = "verify" /\ Unserved = <<>> /\ taken >= lineLength + Len(served) /\ ~servedEnd
        /\ UNCHANGED <<lineLength, client, sent, taken, up, served>>
        /\ pc' \in {"ok", "err"}
    BY <1>7 DEF VerifyEnds, UpInv, Ended, Fails
  <2>2. UpInv'
    BY <2>1, UpOver
  <2>3. [UpNext]_UpVars
    <3>1. CASE client = "finished" /\ taken = sent /\ servedEnd' = TRUE
      <4>1. lineLength + Len(served) = sent
        BY <1>n, <2>1, <3>1, UnservedBatch, PumpShapes
      <4>2. QED
        BY <1>n, <2>1, <3>1, <4>1, UpEnds
    <3>2. CASE UNCHANGED servedEnd
      BY <2>1, <3>2, UpStutters
    <3>3. QED
      BY <1>7, <3>1, <3>2 DEF VerifyEnds
  <2>4. QED
    BY <1>n, <2>1, <2>2, <2>3 DEF UpStepOK
<1>8. CASE Dial
  <2>1. /\ pc = "dial" /\ up = Reading /\ served = <<>> /\ taken >= lineLength /\ ~servedEnd
        /\ UNCHANGED <<lineLength, client, sent, taken, served, servedEnd>>
    BY <1>n, <1>8, PumpShapes DEF Dial, UpInv, Ended
  <2>2. [UpNext]_UpVars
    BY <2>1, UpStutters
  <2>3. UpInv' /\ up' \in Pumps
    <3>1. CASE pc' = "leftover" /\ up' = [st |-> "writing", bytes |-> Leftover]
      <4>1. /\ Leftover \in Seq(Nat) /\ Len(Leftover) = taken - lineLength
            /\ InOrder(Leftover, lineLength)
        BY <1>n, <2>1, LeftoverBatch
      <4>2. up' \in Pumps /\ up'.st = "writing" /\ up'.bytes = Leftover
        BY <3>1, <4>1, PumpShapes
      <4>3. InOrder(served', lineLength') /\ served' = <<>> /\ Len(served') = 0
        BY <2>1, PumpShapes DEF InOrder
      <4>4. InOrder(up'.bytes, lineLength' + Len(served'))
        BY <1>n, <2>1, <4>1, <4>2, <4>3
      <4>5. taken' = lineLength' + Len(served') + Len(up'.bytes)
        BY <1>n, <2>1, <4>1, <4>2, <4>3
      <4>6. QED
        BY <2>1, <3>1, <4>2, <4>3, <4>4, <4>5 DEF UpInv
    <3>2. CASE pc' = "err" /\ UNCHANGED up
      BY <1>n, <2>1, <3>2, UpOver
    <3>3. QED
      BY <1>8, <3>1, <3>2 DEF Dial, Fails
  <2>4. QED
    BY <1>n, <2>1, <2>2, <2>3 DEF UpStepOK
<1>9. CASE WriteLeftover
  <2>1. /\ pc = "leftover" /\ up.st = "writing" /\ ~servedEnd
        /\ taken = lineLength + Len(served) + Len(up.bytes)
        /\ UNCHANGED <<lineLength, client, sent, taken, servedEnd>>
    BY <1>9 DEF WriteLeftover, UpInv, Ended
  <2>2. CASE up.bytes = <<>> /\ up' = Reading /\ pc' = "join" /\ UNCHANGED served
    <3>1. UpInv' /\ up' \in Pumps
      BY <1>n, <2>1, <2>2, PumpShapes DEF UpInv, InOrder
    <3>2. [UpNext]_UpVars
      BY <2>1, <2>2, UpStutters
    <3>3. QED
      BY <1>n, <2>2, <3>1, <3>2 DEF UpStepOK
  <2>3. CASE WriteUp /\ pc' = (IF up'.st = "reading" THEN "join" ELSE pc)
    <3>1. up'.st \in {"reading", "writing"}
      BY <2>3, WriteUpEffect
    <3>2. QED
      BY <2>1, <2>3, <3>1, WriteUpDelivers
  <2>4. CASE pc' = "err" /\ UNCHANGED <<up, served>>
    <3>1. UpInv' /\ [UpNext]_UpVars
      BY <2>1, <2>4, UpOver, UpStutters
    <3>2. QED
      BY <1>n, <2>4, <3>1 DEF UpStepOK
  <2>5. QED
    BY <1>9, <2>2, <2>3, <2>4 DEF WriteLeftover, Fails
<1>10. CASE PumpUp
  <2>1. /\ pc = "join" /\ UNCHANGED <<lineLength, client, sent, pc>>
        /\ servedEnd => up.st = "ok"
        /\ up.st # "err" => taken = lineLength + Len(served) + Len(up.bytes)
        /\ up.st # "writing" => up.bytes = <<>>
    BY <1>10 DEF PumpUp, UpInv, Ended
  <2>2. ASSUME up.st = "reading", UNCHANGED <<served, servedEnd>>, NEW n \in 1..BUF,
               taken' = taken + n, up' = [st |-> "writing", bytes |-> [i \in 1..n |-> taken + i]]
        PROVE  UpStepOK
    <3>1. n \in Nat
      BY <2>2, Numbers
    <3> DEFINE b == [i \in 1..n |-> taken + i]
    <3>2. b \in Seq(Nat) /\ Len(b) = n /\ InOrder(b, taken)
      BY <1>n, <3>1, ReadBatch
    <3>3. up' = [st |-> "writing", bytes |-> b]
      BY <2>2
    <3> HIDE DEF b
    <3>4. up' \in Pumps /\ up'.st = "writing" /\ up'.bytes = b
      BY <3>2, <3>3, PumpShapes
    <3>5. taken = lineLength + Len(served)
      <4>1. up.st = "reading"
        BY <2>2
      <4>2. Len(up.bytes) = 0 /\ taken = lineLength + Len(served) + Len(up.bytes)
        BY <2>1, <4>1, PumpShapes
      <4>3. QED
        BY <1>n, <4>2
    <3>6. taken' = lineLength' + Len(served') + Len(up'.bytes)
      BY <1>n, <2>1, <2>2, <3>1, <3>2, <3>4, <3>5
    <3>7. InOrder(up'.bytes, lineLength' + Len(served')) /\ InOrder(served', lineLength')
      BY <1>n, <2>1, <2>2, <3>2, <3>4, <3>5
    <3>8. UpInv'
      BY <2>1, <2>2, <3>4, <3>6, <3>7 DEF UpInv
    <3>9. [UpNext]_UpVars
      BY <2>1, <2>2, UpStutters
    <3>10. QED
      BY <1>n, <2>2, <3>4, <3>8, <3>9 DEF UpStepOK
  <2>3. CASE /\ up.st = "reading" /\ client = "finished" /\ taken = sent
             /\ servedEnd' = (bank # "gone")
             /\ up' = [Reading EXCEPT !.st = "ok"] /\ UNCHANGED <<taken, served>>
    <3>1. up' = [st |-> "ok", bytes |-> <<>>]
      BY <2>3, OverShapes
    <3>2. up' \in Pumps /\ up'.st = "ok" /\ up'.bytes = <<>>
      BY <3>1, PumpShapes
    <3>3. sent = lineLength + Len(served) /\ Len(up'.bytes) = 0
      BY <1>n, <2>1, <2>3, <3>2, PumpShapes
    <3>4. UpInv'
      BY <1>n, <2>1, <2>3, <3>2, <3>3 DEF UpInv, InOrder
    <3>5. [UpNext]_UpVars
      <4>1. CASE bank = "gone"
        <5>1. servedEnd \in BOOLEAN /\ ~servedEnd
          BY <2>1, <2>3 DEF TypeOK
        <5>2. UNCHANGED servedEnd
          BY <2>3, <4>1, <5>1, Zenon
        <5>3. QED
          BY <2>1, <2>3, <5>2, UpStutters
      <4>2. CASE bank # "gone"
        BY <1>n, <2>1, <2>3, <3>3, <4>2, UpEnds
      <4>3. QED
        BY <4>1, <4>2
    <3>6. QED
      BY <1>n, <2>3, <3>2, <3>4, <3>5 DEF UpStepOK
  <2>4. CASE WriteUp /\ UNCHANGED <<taken, servedEnd>>
    BY <2>1, <2>4, WriteUpDelivers
  <2>5. CASE /\ up.st \in {"reading", "writing"}
             /\ up' = [Reading EXCEPT !.st = "err"] /\ UNCHANGED <<taken, served, servedEnd>>
    <3>1. up' = [st |-> "err", bytes |-> <<>>]
      BY <2>5, OverShapes
    <3>2. up' \in Pumps /\ up'.st = "err" /\ up'.bytes = <<>> /\ Len(up'.bytes) = 0
      BY <3>1, PumpShapes
    <3>3. UpInv'
      BY <1>n, <2>1, <2>5, <3>2 DEF UpInv, InOrder
    <3>4. [UpNext]_UpVars
      BY <2>1, <2>5, UpStutters
    <3>5. QED
      BY <1>n, <2>5, <3>2, <3>3, <3>4 DEF UpStepOK
  <2>6. QED
    <3>1. CASE /\ up.st = "reading"
               /\ \E n \in 1..BUF : /\ taken' = taken + n
                                    /\ up' = [st |-> "writing", bytes |-> [i \in 1..n |-> taken + i]]
               /\ UNCHANGED <<served, servedEnd>>
      BY <2>2, <3>1
    <3>2. QED
      BY <1>10, <2>3, <2>4, <2>5, <3>1 DEF PumpUp
<1>11. QED
  BY <1>1, <1>2, <1>3, <1>4, <1>5, <1>6, <1>7, <1>8, <1>9, <1>10 DEF Next, Server, Done

-----------------------------------------------------------------------------
\* The way down: from the bank to the client.

DownNext == Down!Send \/ Down!Finish \/ Down!Deliver \/ Down!End
DownVars == <<bankSent, bank \in {"finished", "gone"}, answered, answeredEnd>>

\* What a step has to show of this direction.
DownStepOK ==
  /\ DownInv' /\ down' \in Pumps /\ answered' \in Seq(Nat)
  /\ [DownNext]_DownVars

\* A batch of the bank's bytes after the ones answered is a delivery.
LEMMA DownDelivers ==
  ASSUME UNCHANGED <<bank, bankSent, answeredEnd>>, ~answeredEnd, bankSent \in Nat,
         answered \in Seq(Nat), InOrder(answered, 0),
         answered' \in Seq(Nat), InOrder(answered', 0),
         NEW n \in Nat, n > 0, Len(answered') = Len(answered) + n, Len(answered') <= bankSent
  PROVE  [DownNext]_DownVars
<1>1. answered = Count(Len(answered)) /\ Len(answered) \in Nat
  BY AnswerCounts
<1>2. answered' = Count(Len(answered) + n)
  <2>1. \A s \in Seq(Nat) : InOrder(s, 0) => s = Count(Len(s))
    BY AnswerCounts
  <2>2. QED
    BY <2>1
<1>3. answered' = answered \o [i \in 1..n |-> Len(answered) + i]
  BY <1>1, <1>2, CountOn, ZenonT(60)
<1>4. n \in 1..(bankSent - Len(answered))
  BY <1>1
<1>5. Down!Deliver
  BY <1>3, <1>4 DEF Down!Deliver
<1>6. QED
  BY <1>5 DEF DownNext

\* A write of forward(tcp_read, wt_send).
LEMMA WriteDownDelivers ==
  ASSUME TypeOK, DownInv, down.st = "writing", UNCHANGED <<bank, bankSent, bankTaken, answeredEnd>>,
         pc = "join", UNCHANGED pc,
         NEW n \in 1..Len(down.bytes),
         answered' = answered \o SubSeq(down.bytes, 1, n), down' = After(down, n)
  PROVE  DownStepOK
<1>1. /\ bankSent \in Nat /\ bankTaken \in Nat /\ bankTaken <= bankSent
      /\ answered \in Seq(Nat) /\ Len(answered) \in Nat
      /\ down \in Pumps /\ down.bytes \in Seq(Nat) /\ Len(down.bytes) \in Nat
  BY Numbers, Sequences
<1>2. n \in Nat /\ n > 0 /\ n <= Len(down.bytes)
  BY <1>1
<1>3. /\ InOrder(answered, 0) /\ InOrder(down.bytes, Len(answered)) /\ ~answeredEnd
      /\ bankTaken = Len(answered) + Len(down.bytes)
  BY DEF DownInv
<1>4. 0 \in Nat /\ InOrder(down.bytes, 0 + Len(answered))
  BY <1>1, <1>3
<1>5. /\ down' \in Pumps /\ down'.st \in {"reading", "writing"}
      /\ down'.st # "writing" => down'.bytes = <<>>
      /\ answered' \in Seq(Nat) /\ InOrder(answered', 0)
      /\ InOrder(down'.bytes, 0 + Len(answered) + n)
      /\ Len(answered') = Len(answered) + n /\ Len(down'.bytes) = Len(down.bytes) - n
  <2>1. /\ After(down, n) \in Pumps /\ After(down, n).st \in {"reading", "writing"}
        /\ After(down, n).st # "writing" => After(down, n).bytes = <<>>
        /\ answered \o SubSeq(down.bytes, 1, n) \in Seq(Nat)
        /\ InOrder(answered \o SubSeq(down.bytes, 1, n), 0)
        /\ InOrder(After(down, n).bytes, 0 + Len(answered) + n)
        /\ Len(answered \o SubSeq(down.bytes, 1, n)) = Len(answered) + n
        /\ Len(After(down, n).bytes) = Len(down.bytes) - n
    BY <1>1, <1>3, <1>4, WriteOut
  <2>2. QED
    BY <2>1
<1> DEFINE a == Len(answered)
           b == Len(down.bytes)
           c == Len(answered')
           d == Len(down'.bytes)
<1>6. bankTaken = c + d /\ c <= bankSent /\ 0 + a + n = c
  <2>1. c = a + n /\ d = b - n /\ n <= b /\ bankTaken = a + b
    BY <1>2, <1>3, <1>5
  <2>2. a \in Nat /\ b \in Nat /\ n \in Nat /\ bankTaken <= bankSent
        /\ bankSent \in Nat /\ bankTaken \in Nat
    BY <1>1, <1>2
  <2> HIDE DEF a, b, c, d
  <2>3. QED
    BY <2>1, <2>2
<1>7. DownInv'
  <2>1. InOrder(down'.bytes, Len(answered'))
    BY <1>5, <1>6
  <2>2. QED
    BY <1>3, <1>5, <1>6, <2>1 DEF DownInv
<1>8. [DownNext]_DownVars
  BY <1>1, <1>2, <1>3, <1>5, <1>6, DownDelivers
<1>9. QED
  BY <1>5, <1>7, <1>8 DEF DownStepOK

\* Each step of the system is one of the pipe's, or none.
LEMMA DownStep ==
  ASSUME TypeOK, DownInv, [Next]_vars
  PROVE  DownStepOK
<1> USE DEF clientVars, bankVars, downVars, upVars
<1>n. /\ bankSent \in Nat /\ bankTaken \in Nat /\ bankTaken <= bankSent /\ BUF \in Nat
      /\ answered \in Seq(Nat) /\ Len(answered) \in Nat /\ InOrder(answered, 0)
      /\ down \in Pumps /\ down.bytes \in Seq(Nat) /\ Len(down.bytes) \in Nat
      /\ bank \in {"none", "open", "finished", "gone"}
  BY Numbers, Sequences DEF DownInv, TypeOK
<1>1. CASE BankSends
  <2>1. /\ bank = "open" /\ bankSent' = bankSent + 1
        /\ UNCHANGED <<bank, bankTaken, pc, down, answered, answeredEnd>>
    BY <1>1 DEF BankSends
  <2>2. DownInv'
    BY <2>1 DEF DownInv, InOrder
  <2>3. Down!Send
    BY <2>1 DEF Down!Send
  <2>4. QED
    BY <1>n, <2>1, <2>2, <2>3 DEF DownStepOK, DownNext
<1>2. CASE BankEnds
  <2>1. /\ \/ bank = "open" /\ bank' \in {"finished", "gone"}
           \/ bank = "finished" /\ bank' = "gone"
        /\ UNCHANGED <<bankSent, bankTaken, pc, down, answered, answeredEnd>>
    BY <1>2 DEF BankEnds
  <2>2. DownInv'
    BY <2>1 DEF DownInv, InOrder
  <2>3. [DownNext]_DownVars
    <3>1. CASE bank = "open"
      <4>1. Down!Finish
        BY <2>1, <3>1 DEF Down!Finish
      <4>2. QED
        BY <4>1 DEF DownNext
    <3>2. CASE bank = "finished"
      <4>1. (bank \in {"finished", "gone"})' = (bank \in {"finished", "gone"})
        BY <2>1, <3>2
      <4>2. QED
        BY <2>1, <4>1 DEF DownVars
    <3>3. QED
      BY <2>1, <3>1, <3>2
  <2>4. QED
    BY <1>n, <2>1, <2>2, <2>3 DEF DownStepOK
<1>3. CASE Dial
  <2>1. /\ pc = "dial" /\ bank = "none" /\ bank' \in {"none", "open"} /\ pc' \in {"leftover", "err"}
        /\ UNCHANGED <<bankSent, bankTaken, down, answered, answeredEnd>>
    BY <1>3 DEF Dial, DownInv, Fails
  <2>2. DownInv'
    BY <2>1 DEF DownInv, InOrder
  <2>3. (bank \in {"finished", "gone"})' = (bank \in {"finished", "gone"})
    BY <2>1
  <2>4. QED
    BY <1>n, <2>1, <2>2, <2>3 DEF DownStepOK, DownVars
<1>4. CASE PumpDown
  <2>1. /\ pc = "join" /\ UNCHANGED <<pc, bank, bankSent>>
        /\ answeredEnd => down.st = "ok"
        /\ down.st # "err" => bankTaken = Len(answered) + Len(down.bytes)
        /\ down.st # "writing" => down.bytes = <<>>
    BY <1>4 DEF PumpDown, DownInv
  <2>2. ASSUME down.st = "reading", UNCHANGED <<answered, answeredEnd>>, NEW n \in 1..BUF,
               bankTaken' = bankTaken + n,
               down' = [st |-> "writing", bytes |-> [i \in 1..n |-> bankTaken + i]]
        PROVE  DownStepOK
    <3>1. n \in Nat
      BY <2>2, Numbers
    <3> DEFINE b == [i \in 1..n |-> bankTaken + i]
    <3>2. b \in Seq(Nat) /\ Len(b) = n /\ InOrder(b, bankTaken)
      BY <1>n, <3>1, ReadBatch
    <3>3. down' = [st |-> "writing", bytes |-> b]
      BY <2>2
    <3> HIDE DEF b
    <3>4. down' \in Pumps /\ down'.st = "writing" /\ down'.bytes = b
      BY <3>2, <3>3, PumpShapes
    <3>5. bankTaken = Len(answered)
      <4>1. down.st = "reading"
        BY <2>2
      <4>2. Len(down.bytes) = 0 /\ bankTaken = Len(answered) + Len(down.bytes)
        BY <2>1, <4>1, PumpShapes
      <4>3. QED
        BY <1>n, <4>2
    <3>6. bankTaken' = Len(answered') + Len(down'.bytes)
      BY <1>n, <2>1, <2>2, <3>1, <3>2, <3>4, <3>5
    <3>7. InOrder(down'.bytes, Len(answered')) /\ InOrder(answered', 0)
      BY <1>n, <2>1, <2>2, <3>2, <3>4, <3>5
    <3>8. DownInv'
      BY <2>1, <2>2, <3>4, <3>6, <3>7 DEF DownInv
    <3>9. QED
      BY <1>n, <2>1, <2>2, <3>4, <3>8 DEF DownStepOK, DownVars
  <2>3. CASE /\ down.st = "reading" /\ bank = "finished" /\ bankTaken = bankSent
             /\ answeredEnd' = (client # "gone")
             /\ down' = [Reading EXCEPT !.st = "ok"] /\ UNCHANGED <<bankTaken, answered>>
    <3>1. down' = [st |-> "ok", bytes |-> <<>>]
      BY <2>3, OverShapes
    <3>2. down' \in Pumps /\ down'.st = "ok" /\ down'.bytes = <<>>
      BY <3>1, PumpShapes
    <3>3. bankSent = Len(answered) /\ Len(down'.bytes) = 0 /\ bankTaken = Len(answered)
      <4>1. Len(down.bytes) = 0 /\ bankTaken = Len(answered) + Len(down.bytes) /\ bankTaken = bankSent
        BY <2>1, <2>3, PumpShapes
      <4>2. QED
        BY <1>n, <3>2, <4>1, PumpShapes
    <3>4. DownInv'
      BY <1>n, <2>1, <2>3, <3>2, <3>3 DEF DownInv, InOrder
    <3>5. [DownNext]_DownVars
      <4>1. CASE client = "gone"
        <5>1. answeredEnd \in BOOLEAN /\ ~answeredEnd
          BY <2>1, <2>3 DEF TypeOK
        <5>2. UNCHANGED answeredEnd
          BY <2>3, <4>1, <5>1, Zenon
        <5>3. QED
          BY <2>1, <2>3, <5>2 DEF DownVars
      <4>2. CASE client # "gone"
        <5>1. Down!End
          BY <1>n, <2>1, <2>3, <3>3, <4>2 DEF Down!End
        <5>2. QED
          BY <5>1 DEF DownNext
      <4>3. QED
        BY <4>1, <4>2
    <3>6. QED
      BY <1>n, <2>3, <3>2, <3>4, <3>5 DEF DownStepOK
  <2>4. ASSUME down.st = "writing", UNCHANGED <<bankTaken, answeredEnd>>,
               NEW n \in 1..Len(down.bytes),
               answered' = answered \o SubSeq(down.bytes, 1, n),
               down' = IF n = Len(down.bytes) THEN Reading
                       ELSE [down EXCEPT !.bytes = SubSeq(@, n + 1, Len(@))]
        PROVE  DownStepOK
    <3>1. down' = After(down, n) /\ n \in 1..Len(down.bytes)
      BY <1>n, <2>4, StillWriting DEF After
    <3>2. QED
      BY <2>1, <2>4, <3>1, WriteDownDelivers
  <2>5. CASE /\ down.st \in {"reading", "writing"}
             /\ down' = [Reading EXCEPT !.st = "err"] /\ UNCHANGED <<bankTaken, answered, answeredEnd>>
    <3>1. down' = [st |-> "err", bytes |-> <<>>]
      BY <2>5, OverShapes
    <3>2. down' \in Pumps /\ down'.st = "err" /\ down'.bytes = <<>> /\ Len(down'.bytes) = 0
      BY <3>1, PumpShapes
    <3>3. DownInv'
      BY <1>n, <2>1, <2>5, <3>2 DEF DownInv, InOrder
    <3>4. QED
      BY <1>n, <2>1, <2>5, <3>2, <3>3 DEF DownStepOK, DownVars
  <2>6. QED
    <3>1. CASE /\ down.st = "reading"
               /\ \E n \in 1..BUF : /\ bankTaken' = bankTaken + n
                                    /\ down' = [st |-> "writing", bytes |-> [i \in 1..n |-> bankTaken + i]]
               /\ UNCHANGED <<answered, answeredEnd>>
      BY <2>2, <3>1
    <3>2. CASE /\ down.st = "writing" /\ UNCHANGED <<bankTaken, answeredEnd>>
               /\ \E n \in 1..Len(down.bytes) :
                    /\ answered' = answered \o SubSeq(down.bytes, 1, n)
                    /\ down' = IF n = Len(down.bytes) THEN Reading
                               ELSE [down EXCEPT !.bytes = SubSeq(@, n + 1, Len(@))]
      BY <2>4, <3>2, Zenon
    <3>3. QED
      BY <1>4, <2>3, <2>5, <3>1, <3>2 DEF PumpDown
<1>5. CASE \/ ClientSends \/ ClientEnds \/ ReadPreamble \/ PreambleFails \/ ChainedRead
           \/ VerifyEnds \/ WriteLeftover \/ Join \/ PumpUp \/ UNCHANGED vars
  <2>1. /\ UNCHANGED <<bank, bankSent, bankTaken, down, answered, answeredEnd>>
        /\ pc' \in {"preamble", "dial"} => pc \in {"preamble", "dial"}
    <3>1. CASE ClientSends \/ ClientEnds \/ ChainedRead \/ PumpUp \/ UNCHANGED vars
      BY <3>1 DEF ClientSends, ClientEnds, ChainedRead, PumpUp, vars
    <3>2. CASE ReadPreamble \/ PreambleFails \/ VerifyEnds \/ WriteLeftover \/ Join
      BY <3>2 DEF ReadPreamble, PreambleFails, VerifyEnds, WriteLeftover, Join, Fails
    <3>3. QED
      BY <1>5, <3>1, <3>2
  <2>2. DownInv'
    BY <2>1 DEF DownInv, InOrder
  <2>3. QED
    BY <1>n, <2>1, <2>2 DEF DownStepOK, DownVars
<1>6. QED
  BY <1>1, <1>2, <1>3, <1>4, <1>5 DEF Next, Server, Done

-----------------------------------------------------------------------------
\* The limit, and the types.

\* A read starts below the limit and takes at most the limit; what has been
\* read and holds no newline ends before the line does.
LEMMA PreambleStep ==
  ASSUME TypeOK, PreambleInv, [Next]_vars
  PROVE  PreambleInv'
<1> USE DEF clientVars, bankVars, downVars, upVars
<1>n. /\ lineLength \in Nat /\ sent \in Nat /\ taken \in Nat /\ taken <= sent
      /\ MAX_PREAMBLE_BYTES \in Nat
  BY Numbers
<1>h. /\ pc = "preamble" => taken < lineLength /\ taken < 2 * MAX_PREAMBLE_BYTES
      /\ error = "too long" => lineLength > MAX_PREAMBLE_BYTES \/ (client # "open" /\ sent < lineLength)
  BY DEF PreambleInv, PreambleLimit, LimitIsReachable, PreambleIsBounded
<1> SUFFICES /\ pc' = "preamble" => taken' < lineLength' /\ taken' < 2 * MAX_PREAMBLE_BYTES
             /\ error' = "too long" =>
                  lineLength' > MAX_PREAMBLE_BYTES \/ (client' # "open" /\ sent' < lineLength')
  BY DEF PreambleInv, PreambleLimit, LimitIsReachable, PreambleIsBounded
<1>1. CASE ClientSends
  BY <1>h, <1>1 DEF ClientSends
<1>2. CASE ClientEnds
  BY <1>h, <1>2 DEF ClientEnds
<1>3. CASE BankSends \/ BankEnds \/ ChainedRead \/ PumpUp \/ PumpDown \/ UNCHANGED vars
  <2>1. /\ UNCHANGED <<lineLength, client, sent, pc, error>>
        /\ pc = "preamble" => UNCHANGED taken
    BY <1>3 DEF BankSends, BankEnds, ChainedRead, PumpUp, PumpDown, vars
  <2>2. QED
    BY <1>h, <2>1
<1>4. CASE ReadPreamble
  <2>1. PICK n \in 1..MAX_PREAMBLE_BYTES :
          /\ taken' = taken + n
          /\ IF HasNewline(taken + n) THEN Dispatch ELSE UNCHANGED <<pc, error>>
    BY <1>4 DEF ReadPreamble
  <2>2. /\ pc = "preamble" /\ taken < MAX_PREAMBLE_BYTES
        /\ UNCHANGED <<lineLength, client, sent>>
    BY <1>4 DEF ReadPreamble
  <2>3. n \in Nat /\ n <= MAX_PREAMBLE_BYTES
    BY <1>n, <2>1
  <2>4. CASE HasNewline(taken + n)
    <3>1. pc' # "preamble" /\ (error' = error \/ error' # "too long")
      BY <2>1, <2>4, DispatchEffect
    <3>2. QED
      BY <1>h, <2>2, <3>1
  <2>5. CASE ~HasNewline(taken + n)
    <3>1. taken + n < lineLength /\ UNCHANGED <<pc, error>>
      BY <1>n, <2>1, <2>3, <2>5 DEF HasNewline
    <3>2. taken' < 2 * MAX_PREAMBLE_BYTES
      BY <1>n, <2>1, <2>2, <2>3
    <3>3. QED
      BY <1>h, <2>1, <2>2, <3>1, <3>2
  <2>6. QED
    BY <2>4, <2>5
<1>5. CASE PreambleFails
  <2>1. pc = "preamble" /\ pc' = "err" /\ UNCHANGED <<lineLength, client, sent>>
    BY <1>5 DEF PreambleFails, Fails
  <2>2. \/ taken >= MAX_PREAMBLE_BYTES
        \/ client = "finished" /\ taken = sent
        \/ error' = "io"
    BY <1>5 DEF PreambleFails, Fails
  <2>3. taken < lineLength
    BY <1>h, <2>1
  <2>4. CASE taken >= MAX_PREAMBLE_BYTES
    <3>1. lineLength \in Nat /\ lineLength > MAX_PREAMBLE_BYTES
      BY <1>n, <2>3, <2>4, Numbers
    <3>2. QED
      BY <2>1, <3>1
  <2>5. CASE client = "finished" /\ taken = sent
    BY <1>n, <2>1, <2>3, <2>5
  <2>6. QED
    BY <2>1, <2>2, <2>4, <2>5
<1>6. CASE VerifyEnds \/ Dial \/ WriteLeftover \/ Join
  <2>1. /\ UNCHANGED <<lineLength, client, sent>>
        /\ pc' # "preamble" /\ error' \in {error, "io", "connect"}
    BY <1>6 DEF VerifyEnds, Dial, WriteLeftover, Join, Fails
  <2>2. QED
    BY <1>h, <2>1
<1>7. QED
  BY <1>1, <1>2, <1>3, <1>4, <1>5, <1>6 DEF Next, Server, Done

\* The numbers, the names and the flags, one by one; the sequences are typed
\* where the pumps are.
LEMMA TypeStep ==
  ASSUME TypeOK, UpStepOK, DownStepOK, [Next]_vars
  PROVE  TypeOK'
<1> USE DEF clientVars, bankVars, downVars, upVars
<1>n. /\ sent \in Nat /\ taken \in Nat /\ taken <= sent
      /\ bankSent \in Nat /\ bankTaken \in Nat /\ bankTaken <= bankSent
      /\ MaxClientBytes \in Nat /\ MaxBankBytes \in Nat
      /\ sent <= MaxClientBytes /\ bankSent <= MaxBankBytes
      /\ MAX_PREAMBLE_BYTES \in Nat /\ BUF \in Nat
  <2>1. sent \in 0..MaxClientBytes /\ bankSent \in 0..MaxBankBytes
    BY Zenon DEF TypeOK
  <2>2. QED
    BY <2>1, Numbers
<1>p. up' \in Pumps /\ down' \in Pumps /\ served' \in Seq(Nat) /\ answered' \in Seq(Nat)
  BY DEF UpStepOK, DownStepOK
<1>1. CASE ClientSends
  <2>1. sent' \in 0..MaxClientBytes /\ taken \in 0..sent'
    BY <1>n, <1>1 DEF ClientSends
  <2>2. QED
    BY <1>1, <2>1 DEF TypeOK, ClientSends
<1>2. CASE ClientEnds
  BY <1>2 DEF TypeOK, ClientEnds
<1>3. CASE BankSends
  <2>1. bankSent' \in 0..MaxBankBytes /\ bankTaken \in 0..bankSent'
    BY <1>n, <1>3 DEF BankSends
  <2>2. QED
    BY <1>3, <2>1 DEF TypeOK, BankSends
<1>4. CASE BankEnds
  BY <1>4 DEF TypeOK, BankEnds
<1>5. CASE ReadPreamble
  <2>1. taken' \in 0..sent
    <3>1. PICK n \in 1..MAX_PREAMBLE_BYTES : taken + n <= sent /\ taken' = taken + n
      BY <1>5 DEF ReadPreamble
    <3>2. QED
      BY <1>n, <3>1
  <2>2. pc' \in {"preamble", "verify", "dial", "err"} /\ error' \in {error, "not allowed", "preamble"}
    BY <1>5, DispatchEffect DEF ReadPreamble
  <2>3. QED
    BY <1>5, <2>1, <2>2 DEF TypeOK, ReadPreamble
<1>6. CASE PreambleFails
  BY <1>6 DEF TypeOK, PreambleFails, Fails
<1>7. CASE ChainedRead
  <2>1. taken' \in 0..sent
    <3>1. PICK n \in 1..BUF : taken' = taken \/ (taken' = taken + n /\ taken + n <= sent)
      BY <1>7 DEF ChainedRead
    <3>2. QED
      BY <1>n, <3>1
  <2>2. UNCHANGED <<clientVars, pc, error, bankVars, downVars, up, servedEnd>>
    BY <1>7 DEF ChainedRead
  <2>3. QED
    BY <1>p, <2>1, <2>2, ZenonT(60) DEF TypeOK
<1>8. CASE VerifyEnds
  BY <1>8 DEF TypeOK, VerifyEnds, Fails
<1>9. CASE Dial
  <2>1. /\ UNCHANGED <<clientVars, bankSent, downVars, taken, served, servedEnd>>
        /\ bank' \in {bank, "open"} /\ pc' \in {"leftover", "err"} /\ error' \in {error, "connect"}
    BY <1>9 DEF Dial, Fails
  <2>2. QED
    BY <1>p, <2>1, ZenonT(60) DEF TypeOK
<1>10. CASE WriteLeftover
  <2>1. /\ UNCHANGED <<clientVars, bankVars, downVars, taken, servedEnd>>
        /\ pc' \in {pc, "join", "err"} /\ error' \in {error, "io"}
    BY <1>10 DEF WriteLeftover, Fails
  <2>2. QED
    BY <1>p, <2>1, ZenonT(60) DEF TypeOK
<1>11. CASE Join
  BY <1>11 DEF TypeOK, Join, Fails
<1>12. CASE PumpUp
  <2>1. taken' \in 0..sent
    <3>1. CASE UNCHANGED taken
      BY <1>n, <3>1
    <3>2. CASE \E n \in 1..BUF : taken + n <= sent /\ taken' = taken + n
      BY <1>n, <3>2
    <3>3. QED
      BY <1>12, <3>1, <3>2 DEF PumpUp
  <2>2. servedEnd' \in BOOLEAN /\ UNCHANGED <<clientVars, pc, error, bankVars, downVars>>
    BY <1>12, Zenon DEF PumpUp, TypeOK
  <2>3. QED
    BY <1>p, <2>1, <2>2, ZenonT(60) DEF TypeOK
<1>13. CASE PumpDown
  <2>1. bankTaken' \in 0..bankSent
    <3>1. CASE UNCHANGED bankTaken
      BY <1>n, <3>1
    <3>2. CASE \E n \in 1..BUF : bankTaken + n <= bankSent /\ bankTaken' = bankTaken + n
      BY <1>n, <3>2
    <3>3. QED
      BY <1>13, <3>1, <3>2 DEF PumpDown
  <2>2. answeredEnd' \in BOOLEAN /\ UNCHANGED <<clientVars, pc, error, bankVars, upVars>>
    BY <1>13, Zenon DEF PumpDown, TypeOK
  <2>3. QED
    BY <1>p, <2>1, <2>2, ZenonT(60) DEF TypeOK
<1>14. CASE UNCHANGED vars
  BY <1>14 DEF TypeOK, vars
<1>15. QED
  BY <1>1, <1>2, <1>3, <1>4, <1>5, <1>6, <1>7, <1>8, <1>9, <1>10, <1>11, <1>12, <1>13, <1>14
     DEF Next, Server, Done

-----------------------------------------------------------------------------
\* The theorems.

LEMMA InvInit ==
  ASSUME Init
  PROVE  IInv
<1>0. /\ line \in Lines /\ lineLength \in LineLengths /\ lineLength \in Nat /\ lineLength > 0
      /\ client = "open" /\ bank = "none"
      /\ sent = 0 /\ taken = 0 /\ bankSent = 0 /\ bankTaken = 0
      /\ pc = "preamble" /\ error = "none"
      /\ up = Reading /\ down = Reading
      /\ served = <<>> /\ answered = <<>>
      /\ servedEnd = FALSE /\ answeredEnd = FALSE
      /\ MAX_PREAMBLE_BYTES \in Nat /\ MAX_PREAMBLE_BYTES > 0
      /\ MaxClientBytes \in Nat /\ MaxBankBytes \in Nat
  BY ConnectStreamAssumption DEF Init, ConnectStreamAssumption
<1>1. TypeOK
  <2>1. /\ sent \in 0..MaxClientBytes /\ taken \in 0..sent
        /\ bankSent \in 0..MaxBankBytes /\ bankTaken \in 0..bankSent
    BY <1>0
  <2>2. up \in Pumps /\ down \in Pumps /\ served \in Seq(Nat) /\ answered \in Seq(Nat)
    BY <1>0, PumpShapes
  <2>3. QED
    BY <1>0, <2>1, <2>2 DEF TypeOK
<1>2. PreambleInv
  BY <1>0 DEF PreambleInv, PreambleLimit, LimitIsReachable, PreambleIsBounded
<1>3. UpInv
  BY <1>0, PumpShapes DEF UpInv, InOrder
<1>4. DownInv
  BY <1>0, PumpShapes DEF DownInv, InOrder
<1>5. QED
  BY <1>1, <1>2, <1>3, <1>4 DEF IInv

LEMMA InvStep ==
  ASSUME IInv, [Next]_vars
  PROVE  IInv' /\ [UpNext]_UpVars /\ [DownNext]_DownVars
<1>1. TypeOK /\ PreambleInv /\ UpInv /\ DownInv
  BY DEF IInv
<1>2. UpStepOK /\ DownStepOK /\ PreambleInv'
  BY <1>1, UpStep, DownStep, PreambleStep
<1>3. TypeOK'
  BY <1>1, <1>2, TypeStep
<1>4. QED
  BY <1>2, <1>3 DEF IInv, UpStepOK, DownStepOK

LEMMA InvAlways == Spec => []IInv
<1>1. Init => IInv
  BY InvInit
<1>2. IInv /\ [Next]_vars => IInv'
  BY InvStep
<1>3. QED
  BY <1>1, <1>2, PTL DEF Spec

\* The state of a stream is well typed: in particular the server has never read
\* more than the client sent, nor a pump more than the bank did.
THEOREM StreamTyped == Spec => []TypeOK
<1>1. IInv => TypeOK
  BY DEF IInv
<1>2. QED
  BY <1>1, InvAlways, PTL

\* read_role_preamble refuses a line as too long only when it is, or when the
\* client ended before its newline; and what it keeps is less than two limits.
THEOREM LimitRespected == Spec => []PreambleLimit
<1>1. IInv => PreambleLimit
  BY DEF IInv, PreambleInv
<1>2. QED
  BY <1>1, InvAlways, PTL

\* dispatch_stream, ChainedRead, the write of the leftover and the first
\* forward are one pipe from the byte after the newline on, whatever the limit,
\* the buffers and the cuts: refinement of HalfPipe.
THEOREM UpIsAPipe == Spec => ServedInFull
<1>1. Init => Up!Init
  <2>1. ASSUME Init PROVE Up!Init
    <3>1. /\ sent = 0 /\ lineLength \in Nat /\ lineLength > 0 /\ client = "open"
          /\ served = <<>> /\ servedEnd = FALSE
      BY <2>1, ConnectStreamAssumption DEF Init, ConnectStreamAssumption
    <3>2. Payload(served) = <<>>
      BY <3>1 DEF Payload
    <3>3. QED
      BY <3>1, <3>2 DEF Up!Init
  <2>2. QED
    BY <2>1
<1>2. IInv /\ [Next]_vars => [UpNext]_UpVars
  BY InvStep
<1>3. QED
  BY <1>1, <1>2, InvAlways, PTL DEF Spec, ServedInFull, Up!Spec, UpNext, UpVars

\* The second forward is a pipe from the bank to the client.
THEOREM DownIsAPipe == Spec => AnsweredInFull
<1>1. Init => Down!Init
  BY DEF Init, Down!Init
<1>2. IInv /\ [Next]_vars => [DownNext]_DownVars
  BY InvStep
<1>3. QED
  BY <1>1, <1>2, InvAlways, PTL DEF Spec, AnsweredInFull, Down!Spec, DownNext, DownVars

=============================================================================
