--------------------------- MODULE ConnectStream ----------------------------
(***************************************************************************)
(* dispatch_stream of demo/src/connect.rs for one bidirectional stream:    *)
(* the role preamble, cut into reads as the network likes; the VERIFY      *)
(* stream, whose first bytes may already have been read with the preamble; *)
(* and the CONNECT stream, two half-duplex pumps between the client and    *)
(* the bank.  Bytes are their positions in what the client sent, the       *)
(* preamble's line being the first lineLength of them.                     *)
(***************************************************************************)
EXTENDS Integers, Sequences

CONSTANTS
  MAX_PREAMBLE_BYTES,
  BUF,            \* the pumps' buffer
  LineLengths,    \* lengths a client's first line may have, newline included
  VerifyLength,   \* the length of "VERIFY" and its newline: 7 bytes
  ConnectLength,  \* of the shortest line that names the bank: 36 bytes
  MaxClientBytes, \* bytes a client sends, and the bank
  MaxBankBytes

ASSUME ConnectStreamAssumption ==
  /\ MAX_PREAMBLE_BYTES \in Nat \ {0} /\ BUF \in Nat \ {0}
  /\ LineLengths \subseteq Nat \ {0}
  /\ VerifyLength \in Nat \ {0} /\ ConnectLength \in Nat /\ VerifyLength < ConnectLength
  /\ MaxClientBytes \in Nat /\ MaxBankBytes \in Nat

\* What the first line says: how it begins, and for "CONNECT " what follows.  "CONNECT" names
\* the bank, whose port may have leading zeros, and "foreign" another host or port.
Lines == {"VERIFY", "CONNECT", "foreign", "no target", "bad port", "unknown", "not utf8"}

\* The lengths a line may have with what it says: "CONNECT " alone is longer than "VERIFY".
LengthFits(text, n) ==
  /\ text = "VERIFY" => n >= VerifyLength
  /\ text = "CONNECT" => n >= ConnectLength
  /\ text \in {"foreign", "no target", "bad port"} => n > VerifyLength

VARIABLES
  line, lineLength,
  client,    \* "open", "finished" its half, or "gone" with the whole session
  sent,      \* bytes the client has sent
  taken,     \* bytes the server has read from wt_recv
  pc,        \* where dispatch_stream stands
  error,     \* the ConnectError it returned
  bank,      \* the TCP connection: "none", "open", "finished" or "gone"
  bankSent, bankTaken,
  up,        \* forward(wt_recv, tcp_write): st and the bytes still to write
  down,      \* forward(tcp_read, wt_send)
  served,    \* the bytes the session driver or the bank has been given
  answered,  \* the bytes the client has been given
  servedEnd, answeredEnd  \* whether the end has been passed on

vars == <<line, lineLength, client, sent, taken, pc, error, bank, bankSent, bankTaken,
          up, down, served, answered, servedEnd, answeredEnd>>
clientVars == <<line, lineLength, client, sent>>
bankVars   == <<bank, bankSent>>
downVars   == <<bankTaken, down, answered, answeredEnd>>
upVars     == <<taken, up, served, servedEnd>>

Reading == [st |-> "reading", bytes |-> <<>>]
Pumps == [st : {"reading", "writing", "ok", "err"}, bytes : Seq(Nat)]
Ended == pc \in {"ok", "err"}

TypeOK ==
  /\ line \in Lines /\ lineLength \in LineLengths
  /\ client \in {"open", "finished", "gone"} /\ bank \in {"none", "open", "finished", "gone"}
  /\ sent \in 0..MaxClientBytes /\ taken \in 0..sent
  /\ bankSent \in 0..MaxBankBytes /\ bankTaken \in 0..bankSent
  /\ pc \in {"preamble", "dial", "leftover", "verify", "join", "ok", "err"}
  /\ error \in {"none", "too long", "preamble", "not allowed", "connect", "io"}
  /\ up \in Pumps /\ down \in Pumps
  /\ served \in Seq(Nat) /\ answered \in Seq(Nat)
  /\ servedEnd \in BOOLEAN /\ answeredEnd \in BOOLEAN

Init ==
  /\ line \in Lines /\ lineLength \in LineLengths /\ LengthFits(line, lineLength)
  /\ client = "open" /\ bank = "none"
  /\ sent = 0 /\ taken = 0 /\ bankSent = 0 /\ bankTaken = 0
  /\ pc = "preamble" /\ error = "none"
  /\ up = Reading /\ down = Reading
  /\ served = <<>> /\ answered = <<>>
  /\ servedEnd = FALSE /\ answeredEnd = FALSE

-----------------------------------------------------------------------------
\* The client and the bank.

ClientSends ==
  /\ client = "open" /\ sent < MaxClientBytes
  /\ sent' = sent + 1
  /\ UNCHANGED <<line, lineLength, client, pc, error, bankVars, downVars, upVars>>

ClientEnds ==
  /\ \/ client = "open" /\ client' = "finished"
     \/ client # "gone" /\ client' = "gone"
  /\ UNCHANGED <<line, lineLength, sent, pc, error, bankVars, downVars, upVars>>

BankSends ==
  /\ bank = "open" /\ bankSent < MaxBankBytes
  /\ bankSent' = bankSent + 1
  /\ UNCHANGED <<clientVars, pc, error, bank, downVars, upVars>>

BankEnds ==
  /\ \/ bank = "open" /\ bank' = "finished"
     \/ bank \in {"open", "finished"} /\ bank' = "gone"
  /\ UNCHANGED <<clientVars, pc, error, bankSent, downVars, upVars>>

-----------------------------------------------------------------------------
\* read_role_preamble: the length check, one read of at most the limit, and
\* the search for the newline in everything read so far.

Fails(e) == pc' = "err" /\ error' = e
HasNewline(n) == n >= lineLength

\* parse_role, and the first lines of proxy_connect.  VERIFY is the whole line or it is no
\* role; a target is what its host and its port's value are, however long it is written.
Dispatch ==
  CASE line = "VERIFY" /\ lineLength = VerifyLength -> pc' = "verify" /\ UNCHANGED error
    [] line = "CONNECT"                             -> pc' = "dial" /\ UNCHANGED error
    [] line = "foreign"                             -> Fails("not allowed")
    [] OTHER                                        -> Fails("preamble")

\* buf.extend_from_slice(&tmp) without the [..n].
ReadPreamble_WholeBuffer ==
  /\ pc = "preamble" /\ taken < MAX_PREAMBLE_BYTES
  /\ \E n \in 1..MAX_PREAMBLE_BYTES :
       /\ taken + n <= sent
       /\ taken' = taken + MAX_PREAMBLE_BYTES
       /\ IF HasNewline(taken + n) THEN Dispatch ELSE UNCHANGED <<pc, error>>
  /\ UNCHANGED <<clientVars, bankVars, downVars, up, served, servedEnd>>

ReadPreamble_CheckFirst ==
  /\ pc = "preamble"
  /\ \E n \in 1..MAX_PREAMBLE_BYTES :
       /\ taken + n <= sent
       /\ taken' = taken + n
       /\ IF taken + n >= MAX_PREAMBLE_BYTES THEN Fails("too long")
          ELSE IF HasNewline(taken + n) THEN Dispatch
          ELSE UNCHANGED <<pc, error>>
  /\ UNCHANGED <<clientVars, bankVars, downVars, up, served, servedEnd>>

ReadPreamble ==
  /\ pc = "preamble" /\ taken < MAX_PREAMBLE_BYTES
  /\ \E n \in 1..MAX_PREAMBLE_BYTES :
       /\ taken + n <= sent
       /\ taken' = taken + n
       /\ IF HasNewline(taken + n) THEN Dispatch ELSE UNCHANGED <<pc, error>>
  /\ UNCHANGED <<clientVars, bankVars, downVars, up, served, servedEnd>>

\* The end of the stream taken for a short read.
PreambleFails_NoEof ==
  /\ pc = "preamble"
  /\ \/ taken >= MAX_PREAMBLE_BYTES /\ Fails("too long")
     \/ taken < MAX_PREAMBLE_BYTES /\ client = "gone" /\ Fails("io")
  /\ UNCHANGED <<clientVars, bankVars, downVars, upVars>>

\* The limit reached without a newline, and an end of stream, give one error.
PreambleFails ==
  /\ pc = "preamble"
  /\ \/ /\ taken >= MAX_PREAMBLE_BYTES \/ (client = "finished" /\ taken = sent)
        /\ Fails("too long")
     \/ taken < MAX_PREAMBLE_BYTES /\ client = "gone" /\ Fails("io")
  /\ UNCHANGED <<clientVars, bankVars, downVars, upVars>>

\* buf.split_off(idx + 1): what was read beyond the newline.
Leftover == [i \in 1..(taken - lineLength) |-> lineLength + i]

-----------------------------------------------------------------------------
\* VERIFY: the session driver reads through ChainedRead, which gives out the
\* leftover before it reads the stream again.

Unserved == [i \in 1..(taken - lineLength - Len(served)) |-> lineLength + Len(served) + i]

ChainedRead_SkipsLeftover ==
  /\ pc = "verify" /\ taken < sent
  /\ \E n \in 1..BUF :
       /\ taken + n <= sent
       /\ taken' = taken + n
       /\ served' = served \o [i \in 1..n |-> taken + i]
  /\ UNCHANGED <<clientVars, pc, error, bankVars, downVars, up, servedEnd>>

ChainedRead ==
  /\ pc = "verify"
  /\ \E n \in 1..BUF :
       \/ /\ Unserved # <<>> /\ n <= Len(Unserved)
          /\ served' = served \o SubSeq(Unserved, 1, n)
          /\ UNCHANGED taken
       \/ /\ Unserved = <<>> /\ taken + n <= sent
          /\ taken' = taken + n
          /\ served' = served \o [i \in 1..n |-> taken + i]
  /\ UNCHANGED <<clientVars, pc, error, bankVars, downVars, up, servedEnd>>

\* The driver sees the end of the stream, or its failure, after the leftover.
VerifyEnds ==
  /\ pc = "verify" /\ Unserved = <<>>
  /\ \/ client = "finished" /\ taken = sent /\ servedEnd' = TRUE /\ pc' = "ok" /\ UNCHANGED error
     \/ client = "gone" /\ Fails("io") /\ UNCHANGED servedEnd
  /\ UNCHANGED <<clientVars, bankVars, downVars, taken, up, served>>

-----------------------------------------------------------------------------
\* CONNECT: proxy_connect.

Dial ==
  /\ pc = "dial"
  /\ \/ bank' = "open" /\ pc' = "leftover" /\ up' = [st |-> "writing", bytes |-> Leftover]
          /\ UNCHANGED error
     \/ Fails("connect") /\ UNCHANGED <<bank, up>>
  /\ UNCHANGED <<clientVars, bankSent, downVars, taken, served, servedEnd>>

\* write_all, to the bank and to the client: a prefix goes out at a time.
WriteUp ==
  /\ bank # "gone" /\ up.st = "writing"
  /\ \E n \in 1..Len(up.bytes) :
       /\ served' = served \o SubSeq(up.bytes, 1, n)
       /\ up' = IF n = Len(up.bytes) THEN Reading
                ELSE [up EXCEPT !.bytes = SubSeq(@, n + 1, Len(@))]

WriteLeftover ==
  /\ pc = "leftover"
  /\ \/ /\ up.bytes = <<>>
        /\ up' = Reading /\ pc' = "join"
        /\ UNCHANGED <<served, error>>
     \/ WriteUp /\ pc' = (IF up'.st = "reading" THEN "join" ELSE pc) /\ UNCHANGED error
     \/ bank = "gone" /\ up.bytes # <<>> /\ Fails("io") /\ UNCHANGED <<up, served>>
  /\ UNCHANGED <<clientVars, bankVars, downVars, taken, servedEnd>>

\* forward: read, write_all, and at the end of the source shut the other side
\* down, whatever that says.  An error leaves without a shutdown.
PumpUp ==
  /\ pc = "join"
  /\ \/ /\ up.st = "reading"
        /\ \E n \in 1..BUF : /\ taken + n <= sent
                             /\ taken' = taken + n
                             /\ up' = [st |-> "writing", bytes |-> [i \in 1..n |-> taken + i]]
        /\ UNCHANGED <<served, servedEnd>>
     \/ /\ up.st = "reading" /\ client = "finished" /\ taken = sent
        /\ servedEnd' = (bank # "gone")
        /\ up' = [Reading EXCEPT !.st = "ok"]
        /\ UNCHANGED <<taken, served>>
     \/ WriteUp /\ UNCHANGED <<taken, servedEnd>>
     \/ /\ (up.st = "reading" /\ client = "gone") \/ (up.st = "writing" /\ bank = "gone")
        /\ up' = [Reading EXCEPT !.st = "err"]
        /\ UNCHANGED <<taken, served, servedEnd>>
  /\ UNCHANGED <<clientVars, pc, error, bankVars, downVars>>

PumpDown ==
  /\ pc = "join"
  /\ \/ /\ down.st = "reading"
        /\ \E n \in 1..BUF : /\ bankTaken + n <= bankSent
                             /\ bankTaken' = bankTaken + n
                             /\ down' = [st |-> "writing", bytes |-> [i \in 1..n |-> bankTaken + i]]
        /\ UNCHANGED <<answered, answeredEnd>>
     \/ /\ down.st = "reading" /\ bank = "finished" /\ bankTaken = bankSent
        /\ answeredEnd' = (client # "gone")
        /\ down' = [Reading EXCEPT !.st = "ok"]
        /\ UNCHANGED <<bankTaken, answered>>
     \/ /\ down.st = "writing" /\ client # "gone"
        /\ \E n \in 1..Len(down.bytes) :
             /\ answered' = answered \o SubSeq(down.bytes, 1, n)
             /\ down' = IF n = Len(down.bytes) THEN Reading
                        ELSE [down EXCEPT !.bytes = SubSeq(@, n + 1, Len(@))]
        /\ UNCHANGED <<bankTaken, answeredEnd>>
     \/ /\ (down.st = "reading" /\ bank = "gone") \/ (down.st = "writing" /\ client = "gone")
        /\ down' = [Reading EXCEPT !.st = "err"]
        /\ UNCHANGED <<bankTaken, answered, answeredEnd>>
  /\ UNCHANGED <<clientVars, pc, error, bankVars, upVars>>

Over(pump) == pump.st \in {"ok", "err"}

Join_FirstEnds ==
  /\ pc = "join" /\ (Over(up) \/ Over(down))
  /\ IF "err" \in {up.st, down.st} THEN Fails("io") ELSE pc' = "ok" /\ UNCHANGED error
  /\ answeredEnd' = (client # "gone")
  /\ UNCHANGED <<clientVars, bankVars, bankTaken, down, answered, upVars>>

\* tokio::join! waits for both pumps, also when one has failed.
Join ==
  /\ pc = "join" /\ Over(up) /\ Over(down)
  /\ IF "err" \in {up.st, down.st} THEN Fails("io") ELSE pc' = "ok" /\ UNCHANGED error
  /\ UNCHANGED <<clientVars, bankVars, downVars, upVars>>

Done == Ended /\ UNCHANGED vars

Server ==
  \/ ReadPreamble \/ PreambleFails \/ ChainedRead \/ VerifyEnds
  \/ Dial \/ WriteLeftover \/ Join

Next ==
  \/ ClientSends \/ ClientEnds \/ BankSends \/ BankEnds
  \/ Server \/ PumpUp \/ PumpDown \/ Done

Spec == Init /\ [][Next]_vars

\* The runtime polls every task that can run, each pump separately.  A client
\* ends its half or leaves, and the bank its connection: the server itself has
\* no time limit, and neither has to do more than that.
Fairness ==
  /\ WF_vars(Server) /\ WF_vars(PumpUp) /\ WF_vars(PumpDown)
  /\ WF_vars(client = "open" /\ ClientEnds) /\ WF_vars(bank = "open" /\ BankEnds)

FairSpec == Spec /\ Fairness

-----------------------------------------------------------------------------
\* Properties.

\* From the preamble's newline on, the stream is a pipe into the session driver
\* or the bank: wherever the reads cut it, the bytes read along with the
\* preamble come first, none twice, and the end only after the last of them
\* (split_off, ChainedRead, the write of the leftover, forward).
Payload(bytes) == [i \in 1..Len(bytes) |-> bytes[i] - lineLength]
Up == INSTANCE HalfPipe WITH
        sent <- IF sent > lineLength THEN sent - lineLength ELSE 0,
        finished <- client # "open", received <- Payload(served), ended <- servedEnd
ServedInFull == Up!Spec

\* The bank's answer is a pipe to the client, which the client may go on reading
\* after it has finished its own half (join!, not select!).
Down == INSTANCE HalfPipe WITH
          sent <- bankSent, finished <- bank \in {"finished", "gone"},
          received <- answered, ended <- answeredEnd
AnsweredInFull == Down!Spec

\* The limit, checked before each read, is never found too small for a line within it, however the
\* line is cut, and never lets more than two reads' worth be kept.
LimitIsReachable ==
  error = "too long" => lineLength > MAX_PREAMBLE_BYTES \/ (client # "open" /\ sent < lineLength)
PreambleIsBounded == pc = "preamble" => taken < 2 * MAX_PREAMBLE_BYTES
PreambleLimit == LimitIsReachable /\ PreambleIsBounded

\* Once client and bank are done the stream's task is done: no pump waits for
\* the other.
TaskEnds == <>Ended

\* "preamble missing newline within {0} bytes" (connect.rs:35): a line longer than the limit is
\* refused.  VERIFY cannot be longer; a CONNECT line, with zeros before its port, can.
LimitIsKept == pc \in {"verify", "dial", "leftover", "join"} => lineLength <= MAX_PREAMBLE_BYTES

=============================================================================
