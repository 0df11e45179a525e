--------------------------- MODULE RedactionProofs ---------------------------
(***************************************************************************)
(* Theorems about HttpJson and Redaction, for every text, every config and *)
(* every message: what the two parsers yield, by induction on what is left *)
(* to read; that no range is beyond the transcript; that the verifier      *)
(* reads nothing that is hidden; and what reveal.rs does with the ranges   *)
(* of a parsed message, given that they are the message's own.  That they  *)
(* are (ParsedAsOwned) speaks of each symbol's owner, which the parsers do *)
(* not see: TLC checks it on its instances.                                *)
(***************************************************************************)
EXTENDS Redaction, FiniteSetTheorems, SequenceTheorems, TLAPS

-----------------------------------------------------------------------------
\* Every set of naturals that is not empty has a least element: what induction is here.
LEMMA Least ==
  ASSUME NEW S \in SUBSET Nat, S # {}
  PROVE  \E n \in S : \A m \in S : n <= m
<1>1. PICK top \in S : TRUE
  OBVIOUS
<1> DEFINE All == 0..top
           T   == {0..n : n \in {m \in S : m <= top}}
<1>2. IsFiniteSet(All) /\ top \in Nat
  BY FS_Interval
<1>3. IsWellFoundedOn(StrictSubsetOrdering(All), SUBSET All)
  <2> HIDE DEF All
  <2>1. FiniteSubsetsOf(All) = SUBSET All
    BY <1>2, FS_FiniteSubsetsOfFinite
  <2>2. IsWellFoundedOn(StrictSubsetOrdering(All), FiniteSubsetsOf(All))
    BY FS_StrictSubsetOrderingWellFounded
  <2>3. QED
    BY <2>1, <2>2
<1>4. T \subseteq SUBSET All /\ T # {}
  BY <1>2
<1>5. PICK least \in T : \A other \in T : <<other, least>> \notin StrictSubsetOrdering(All)
  <2> HIDE DEF T, All
  <2>1. QED
    BY <1>3, <1>4, WFMin
<1>6. PICK n \in S : n <= top /\ least = 0..n
  BY <1>5
<1>7. ASSUME NEW m \in S, m < n
      PROVE  FALSE
  <2>1. m \in Nat /\ n \in Nat /\ m <= top
    <3>1. m \in Nat /\ n \in Nat /\ top \in Nat
      BY <1>2, <1>6, SMT
    <3>2. m < n /\ n <= top
      BY <1>6, <1>7
    <3>3. QED
      BY <3>1, <3>2
  <2>2. 0..m \in T
    BY <2>1
  <2>3. 0..m \subseteq 0..n /\ n \in 0..n /\ n \notin 0..m /\ 0..m # 0..n
    BY <1>7, <2>1
  <2>4. 0..m \in SUBSET All /\ 0..n \in SUBSET All
    BY <1>2, <1>6, <2>1
  <2>5. <<0..m, 0..n>> \in StrictSubsetOrdering(All)
    <3> HIDE DEF All
    <3>1. QED
      BY <2>3, <2>4 DEF StrictSubsetOrdering
  <2>6. QED
    BY <1>5, <1>6, <2>2, <2>5
<1>8. QED
  BY <1>7

LEMMA Upwards ==
  ASSUME NEW S, 0 \in S, \A n \in Nat : n \in S => n + 1 \in S
  PROVE  Nat \subseteq S
<1> SUFFICES ASSUME ~(Nat \subseteq S) PROVE FALSE
  OBVIOUS
<1>1. PICK n \in Nat \ S : \A m \in Nat \ S : n <= m
  BY Least
<1>2. n # 0 /\ n - 1 \in Nat /\ ~(n <= n - 1) /\ (n - 1) + 1 = n
  OBVIOUS
<1>3. n - 1 \in S
  BY <1>1, <1>2
<1>4. QED
  BY <1>2, <1>3

-----------------------------------------------------------------------------
\* Scanning.

LEMMA Scan ==
  ASSUME NEW t, Len(t) \in Nat, NEW p \in 0..Len(t), NEW S, "EOI" \notin S
  PROVE  /\ RunEnd(t, p, S) \in p..Len(t) /\ At(t, RunEnd(t, p, S)) \notin S
         /\ \A r \in p..(RunEnd(t, p, S) - 1) : At(t, r) \in S
<1> DEFINE T == {q \in p..Len(t) : At(t, q) \notin S}
<1>1. T \in SUBSET Nat /\ T # {}
  <2>1. At(t, Len(t)) = "EOI" /\ Len(t) \in p..Len(t)
    BY DEF At
  <2>2. QED
    BY <2>1
<1>2. PICK q \in T : \A r \in T : q <= r
  <2> HIDE DEF T
  <2>1. QED
    BY <1>1, Least
<1>3. q \in p..Len(t) /\ At(t, q) \notin S /\ \A r \in p..(q - 1) : At(t, r) \in S
  <2>1. ASSUME NEW r \in p..(q - 1), At(t, r) \notin S PROVE FALSE
    <3>1. r \in T /\ ~(q <= r)
      BY <2>1
    <3>2. QED
      BY <1>2, <3>1
  <2>2. QED
    BY <2>1
<1>4. QED
  BY <1>3 DEF RunEnd

LEMMA Spaces == "EOI" \notin WHITESPACE /\ "QUOTE" \notin WHITESPACE /\ ":" \notin WHITESPACE
  BY DEF WHITESPACE

LEMMA SkipIs ==
  ASSUME NEW t, Len(t) \in Nat, NEW p \in 0..Len(t)
  PROVE  /\ Skip(t, p) \in p..Len(t) /\ At(t, Skip(t, p)) \notin WHITESPACE
         /\ \A r \in p..(Skip(t, p) - 1) : At(t, r) \in WHITESPACE
  BY Scan, Spaces DEF Skip

LEMMA GapIs ==
  ASSUME NEW t, Len(t) \in Nat, NEW p \in 0..Len(t), NEW atomic \in BOOLEAN
  PROVE  /\ Gap(t, p, atomic) \in p..Len(t)
         /\ \A r \in p..(Gap(t, p, atomic) - 1) : ~atomic /\ At(t, r) \in WHITESPACE
  BY SkipIs DEF Gap

\* White space is trimmed off the end.
LEMMA TrimmedIs ==
  ASSUME NEW t, NEW close \in Nat, NEW start \in 0..close
  PROVE  /\ Trimmed(t, start, close) \in start..close
         /\ Trimmed(t, start, close) = start \/ At(t, Trimmed(t, start, close) - 1) \notin WHITESPACE
         /\ \A r \in Trimmed(t, start, close)..(close - 1) : At(t, r) \in WHITESPACE
<1> DEFINE T == {e \in start..close : \A r \in e..(close - 1) : At(t, r) \in WHITESPACE}
<1>1. T \in SUBSET Nat /\ T # {}
  <2>1. close \in T
    OBVIOUS
  <2>2. start..close \in SUBSET Nat
    OBVIOUS
  <2>3. \A e \in T : e \in start..close
    OBVIOUS
  <2> HIDE DEF T
  <2>4. QED
    BY <2>1, <2>2, <2>3
<1>2. PICK e \in T : \A f \in T : e <= f
  <2> HIDE DEF T
  <2>1. QED
    BY <1>1, Least
<1>3. e = start \/ At(t, e - 1) \notin WHITESPACE
  <2>1. SUFFICES ASSUME e # start, At(t, e - 1) \in WHITESPACE PROVE FALSE
    OBVIOUS
  <2>2. e \in start..close /\ e - 1 \in start..close /\ ~(e <= e - 1)
    BY <2>1
  <2>3. \A r \in (e - 1)..(close - 1) : r = e - 1 \/ r \in e..(close - 1)
    BY <2>2
  <2>4. e - 1 \in T
    BY <2>1, <2>2, <2>3
  <2>5. QED
    BY <1>2, <2>2, <2>4
<1>4. QED
  BY <1>2, <1>3 DEF Trimmed

-----------------------------------------------------------------------------
\* What stands around a key and around a value.
Edge == {"QUOTE"} \cup WHITESPACE

Within(m, low, high) ==
  /\ m.end \in Int /\ m.span = To(m.span.start, m.span.end)
  /\ m.span.start \in low..high /\ m.span.end \in low..high /\ m.span.start <= m.span.end

\* What quoted_key and quoted_string yield.
QuoteAt(t, p, symbols, atomic, m) ==
  /\ Within(m, p + 1, m.end - 1)
  /\ m.end \in (p + 2)..Len(t) /\ m.fields = {}
  /\ \A r \in p..(m.span.start - 1) : At(t, r) \in Edge
  /\ \A r \in m.span.start..(m.span.end - 1) : At(t, r) \in symbols \cup WHITESPACE
  /\ \A r \in m.span.end..(m.end - 1) : At(t, r) \in Edge
  /\ At(t, m.end - 1) = "QUOTE"
  /\ atomic => /\ m.span.start = p + 1 /\ m.span.end = m.end - 1
               /\ \A r \in p..(m.end - 1) : At(t, r) # "NUL"

LEMMA AtInside ==
  ASSUME NEW t, Len(t) \in Nat, NEW p \in Nat, At(t, p) # "EOI"
  PROVE  p < Len(t)
  BY DEF At

LEMMA QuotedIs ==
  ASSUME NEW t, Len(t) \in Nat, NEW p \in Nat, NEW symbols, NEW atomic \in BOOLEAN,
         "EOI" \notin symbols, "NUL" \notin symbols
  PROVE  \/ Quoted(t, p, symbols, atomic) = Fail
         \/ At(t, p) = "QUOTE" /\ QuoteAt(t, p, symbols, atomic, Quoted(t, p, symbols, atomic))
<1> DEFINE start == IF atomic THEN p + 1 ELSE Skip(t, p + 1)
           all   == IF atomic THEN symbols ELSE symbols \cup WHITESPACE
           close == RunEnd(t, start, all)
           e     == IF atomic THEN close ELSE Trimmed(t, start, close)
           m     == Parse(close + 1, To(start, e), {})
<1>1. SUFFICES ASSUME At(t, p) = "QUOTE", At(t, close) = "QUOTE"
               PROVE  Quoted(t, p, symbols, atomic) = m /\ QuoteAt(t, p, symbols, atomic, m)
  BY DEF Quoted
<1>2. Quoted(t, p, symbols, atomic) = m
  BY <1>1 DEF Quoted
<1>3. p < Len(t) /\ p + 1 \in 0..Len(t)
  BY <1>1, AtInside
<1>4. /\ start \in (p + 1)..Len(t)
      /\ \A r \in (p + 1)..(start - 1) : ~atomic /\ At(t, r) \in WHITESPACE
  BY <1>3, SkipIs
<1> HIDE DEF start
<1>5. start \in 0..Len(t) /\ "EOI" \notin all
  BY <1>3, <1>4, Spaces
<1>6. close \in start..Len(t) /\ \A r \in start..(close - 1) : At(t, r) \in all
  <2> HIDE DEF all
  <2>1. QED
    BY <1>5, Scan
<1>7. close < Len(t) /\ close \in Nat /\ start \in 0..close
  <2>1. close \in Nat /\ start \in 0..close
    BY <1>4, <1>5, <1>6
  <2> HIDE DEF close
  <2>2. QED
    BY <1>1, <2>1, AtInside
<1> HIDE DEF close
<1>8. /\ e \in start..close
      /\ \A r \in e..(close - 1) : ~atomic /\ At(t, r) \in WHITESPACE
      /\ atomic => e = close
  BY <1>7, TrimmedIs
<1> HIDE DEF e
<1>9. /\ m.end = close + 1 /\ m.span = To(m.span.start, m.span.end)
      /\ m.span.start = start /\ m.span.end = e /\ m.fields = {}
  BY DEF Parse, To
<1> HIDE DEF m
<1>10. Within(m, p + 1, m.end - 1) /\ m.end \in (p + 2)..Len(t)
  BY <1>3, <1>4, <1>7, <1>8, <1>9 DEF Within
<1>11. \A r \in p..(start - 1) : At(t, r) \in Edge
  <2>1. \A r \in p..(start - 1) : r = p \/ r \in (p + 1)..(start - 1)
    BY <1>4
  <2>2. QED
    BY <2>1, <1>1, <1>4 DEF Edge
<1>12. \A r \in start..(e - 1) : At(t, r) \in all
  <2>1. \A r \in start..(e - 1) : r \in start..(close - 1)
    BY <1>4, <1>7, <1>8
  <2>2. QED
    BY <2>1, <1>6
<1>13. \A r \in e..(m.end - 1) : At(t, r) \in Edge
  <2>1. \A r \in e..(m.end - 1) : r = close \/ r \in e..(close - 1)
    BY <1>7, <1>8, <1>9
  <2>2. QED
    BY <2>1, <1>1, <1>8 DEF Edge
<1>14. ASSUME atomic
       PROVE  /\ start = p + 1 /\ e = m.end - 1
              /\ \A r \in p..(m.end - 1) : At(t, r) # "NUL"
  <2>1. start = p + 1 /\ e = m.end - 1
    BY <1>14, <1>7, <1>8, <1>9 DEF start
  <2>2. \A r \in p..(m.end - 1) : r = p \/ r \in start..(close - 1) \/ r = close
    BY <2>1, <1>7, <1>9
  <2>3. QED
    BY <2>1, <2>2, <1>1, <1>6, <1>14
<1>15. At(t, m.end - 1) = "QUOTE"
  <2>1. m.end - 1 = close
    BY <1>7, <1>9
  <2>2. QED
    BY <2>1, <1>1
<1>16. QED
  BY <1>1, <1>2, <1>9, <1>10, <1>11, <1>12, <1>13, <1>14, <1>15 DEF QuoteAt

-----------------------------------------------------------------------------
\* What the traverser says of a pair or an element.
Written(t, h) ==
  /\ h.value.start \in Nat /\ h.value.end \in Nat
  /\ h.value.start <= h.value.end /\ h.value.end <= Len(t)
  /\ h.key # NoRange =>
       /\ h.key.start \in Nat /\ h.key.end \in Nat /\ 0 < h.key.start
       /\ h.key.start < h.key.end /\ h.key.end + 2 <= h.value.start
       /\ At(t, h.key.start - 1) \in Edge
       /\ \A r \in h.key.start..(h.key.end - 1) : At(t, r) \in KeySymbols \cup WHITESPACE
       /\ \A r \in h.key.end..(h.value.start - 1) : At(t, r) \in Edge \cup {":"}
       /\ At(t, h.value.end) \in Edge \cup {",", "}", "]"}

Kinds == {"value", "object", "array"}

Sound(t, atomic, rule, p, m) ==
  \/ m = Fail
  \/ /\ m.end \in (p + 1)..Len(t)
     /\ \A h \in m.fields : Written(t, h)
     /\ atomic => \A r \in p..(m.end - 1) : At(t, r) # "NUL"
     /\ rule = "value" =>
          /\ Within(m, p, m.end)
          /\ \A r \in p..(m.span.start - 1) : At(t, r) \in Edge
          /\ m.span.end = m.end \/ At(t, m.span.end) \in Edge
          /\ atomic => m.span.start \in {p, p + 1}

\* Two functions that agree on all that is to be read further on, and are right about it.
Ahead(t, atomic, p, f, g) ==
  \A q \in (p + 1)..Len(t), rule \in Kinds, k \in Nat :
    f[<<rule, q, k>>] = g[<<rule, q, k>>] /\ Sound(t, atomic, rule, q, f[<<rule, q, k>>])

\* What has been read when the parser looks at "next".
ReadUpTo(t, atomic, p, next, found) ==
  /\ At(t, next) \in {",", "}", "]"} => \A h \in found : Written(t, h)
  /\ atomic => \A r \in p..(next - 1) : At(t, r) # "NUL"

LEMMA ThenIs ==
  ASSUME NEW t, Len(t) \in Nat, NEW p \in Nat, NEW rule \in {"object", "array"}, NEW k \in Nat,
         NEW f, NEW g, NEW atomic \in BOOLEAN, Ahead(t, atomic, p, f, g),
         NEW next \in (p + 1)..Len(t),
         NEW found, ReadUpTo(t, atomic, p, next, found)
  PROVE  /\ Then(t, atomic, f, <<rule, p, k>>, found, next) = Then(t, atomic, g, <<rule, p, k>>, found, next)
         /\ Sound(t, atomic, rule, p, Then(t, atomic, f, <<rule, p, k>>, found, next))
<1> DEFINE x == <<rule, p, k>>
           q == Gap(t, next + 1, atomic)
           closing == IF rule = "object" THEN "}" ELSE "]"
           last == Parse(next + 1, NoRange, found)
           Result(h) == Then(t, atomic, h, x, found, next)
<1>0. next \in Nat /\ p < next /\ next <= Len(t)
  OBVIOUS
<1>1. /\ x[1] = rule /\ x[3] = k /\ rule \in Kinds /\ rule # "value" /\ k + 1 \in Nat
      /\ (IF x[1] = "object" THEN "}" ELSE "]") = closing
  BY DEF Kinds
<1>2. \A h : Result(h) = IF At(t, next) = closing THEN last
                         ELSE IF At(t, next) = "," THEN Also(h[<<rule, q, k + 1>>], found) ELSE Fail
  BY <1>1 DEF Then
<1> HIDE DEF Result, x
<1>3. CASE At(t, next) = closing
  <2>0. /\ \A h \in found : Written(t, h)
        /\ atomic => \A r \in p..(next - 1) : At(t, r) # "NUL"
    BY <1>3 DEF ReadUpTo
  <2>1. last.end = next + 1 /\ last.fields = found
    BY DEF Parse
  <2>2. next < Len(t)
    BY <1>0, <1>3, AtInside
  <2>3. last.end \in (p + 1)..Len(t)
    BY <1>0, <2>1, <2>2
  <2>4. \A r \in p..(last.end - 1) : r = next \/ r \in p..(next - 1)
    BY <1>0, <2>1
  <2> HIDE DEF last
  <2>5. Sound(t, atomic, rule, p, last)
    BY <1>1, <1>3, <2>0, <2>1, <2>3, <2>4 DEF Sound
  <2>6. QED
    BY <1>2, <1>3, <2>5 DEF Result, x
<1>4. CASE At(t, next) # closing /\ At(t, next) = ","
  <2>0. /\ \A h \in found : Written(t, h)
        /\ atomic => \A r \in p..(next - 1) : At(t, r) # "NUL"
    BY <1>4 DEF ReadUpTo
  <2>1. next < Len(t) /\ next + 1 \in 0..Len(t)
    <3>1. next < Len(t)
      BY <1>0, <1>4, AtInside
    <3>2. QED
      BY <1>0, <3>1
  <2>2. q \in (next + 1)..Len(t) /\ \A r \in (next + 1)..(q - 1) : ~atomic
    BY <2>1, GapIs
  <2> HIDE DEF q
  <2>3. q \in (p + 1)..Len(t)
    BY <1>0, <2>2
  <2>4. f[<<rule, q, k + 1>>] = g[<<rule, q, k + 1>>] /\ Sound(t, atomic, rule, q, f[<<rule, q, k + 1>>])
    BY <1>1, <2>3 DEF Ahead
  <2>5. PICK rest : rest = f[<<rule, q, k + 1>>]
    OBVIOUS
  <2>6. Result(f) = Also(rest, found) /\ Result(g) = Also(rest, found)
    BY <1>2, <1>4, <2>4, <2>5
  <2>7. CASE rest = Fail
    BY <2>6, <2>7 DEF Also, Sound, Result, x
  <2>8. CASE rest # Fail
    <3> DEFINE all == Also(rest, found)
    <3>1. /\ rest.end \in (q + 1)..Len(t)
          /\ \A h \in rest.fields : Written(t, h)
          /\ atomic => \A r \in q..(rest.end - 1) : At(t, r) # "NUL"
      BY <2>4, <2>5, <2>8 DEF Sound
    <3>2. all.end = rest.end /\ all.fields = rest.fields \cup found
      BY <2>8 DEF Also, Parse
    <3> HIDE DEF all
    <3>3. all.end \in (p + 1)..Len(t)
      BY <3>1, <3>2, <2>3
    <3>4. \A h \in all.fields : Written(t, h)
      BY <3>1, <3>2, <2>0
    <3>5. ASSUME atomic, NEW r \in p..(all.end - 1) PROVE At(t, r) # "NUL"
      <4>1. ~(r \in (next + 1)..(q - 1))
        BY <3>5, <2>2
      <4>2. r \in p..(next - 1) \/ r = next \/ r \in q..(rest.end - 1)
        BY <4>1, <3>1, <3>2, <1>0, <2>2
      <4>3. QED
        BY <4>2, <3>1, <3>5, <1>4, <2>0
    <3>6. Sound(t, atomic, rule, p, all)
      BY <1>1, <3>3, <3>4, <3>5 DEF Sound
    <3>7. QED
      BY <2>6, <3>6 DEF all, Result, x
  <2>9. QED
    BY <2>7, <2>8
<1>5. CASE At(t, next) # closing /\ At(t, next) # ","
  BY <1>2, <1>5 DEF Sound, Result, x
<1>6. QED
  BY <1>3, <1>4, <1>5

\* A key that has been read up to the value that follows.
KeyBefore(t, key, v) ==
  /\ key.start \in Nat /\ key.end \in Nat /\ 0 < key.start
  /\ key.start < key.end /\ key.end + 2 <= v
  /\ At(t, key.start - 1) \in Edge
  /\ \A r \in key.start..(key.end - 1) : At(t, r) \in KeySymbols \cup WHITESPACE
  /\ \A r \in key.end..(v - 1) : At(t, r) \in Edge \cup {":"}

LEMMA MemberIs ==
  ASSUME NEW t, Len(t) \in Nat, NEW p \in Nat, NEW rule \in {"object", "array"}, NEW k \in Nat,
         NEW f, NEW g, NEW atomic \in BOOLEAN, Ahead(t, atomic, p, f, g),
         NEW segment, NEW key, NEW item, NEW v \in Nat, p <= v, v <= Len(t),
         Sound(t, atomic, "value", v, item), key = NoRange \/ KeyBefore(t, key, v),
         atomic => \A r \in p..(v - 1) : At(t, r) # "NUL"
  PROVE  /\ JsonMember(t, atomic, f, <<rule, p, k>>, segment, key, item)
              = JsonMember(t, atomic, g, <<rule, p, k>>, segment, key, item)
         /\ Sound(t, atomic, rule, p, JsonMember(t, atomic, f, <<rule, p, k>>, segment, key, item))
<1> DEFINE x == <<rule, p, k>>
           found == Fields(p, segment, key, item)
           next == Gap(t, item.end, atomic)
<1>1. CASE item = Fail
  BY <1>1 DEF JsonMember, Sound
<1>2. CASE item # Fail
  <2>1. /\ item.end \in (v + 1)..Len(t)
        /\ \A h \in item.fields : Written(t, h)
        /\ atomic => \A r \in v..(item.end - 1) : At(t, r) # "NUL"
        /\ Within(item, v, item.end)
        /\ \A r \in v..(item.span.start - 1) : At(t, r) \in Edge
        /\ item.span.end = item.end \/ At(t, item.span.end) \in Edge
    BY <1>2 DEF Sound
  <2>2. /\ item.end \in Nat /\ v < item.end /\ item.end <= Len(t)
        /\ item.span.start \in Nat /\ item.span.end \in Nat /\ v <= item.span.start
        /\ item.span.start <= item.span.end /\ item.span.end <= item.end
    BY <2>1 DEF Within
  <2>3. /\ next \in item.end..Len(t)
        /\ \A r \in item.end..(next - 1) : ~atomic /\ At(t, r) \in WHITESPACE
    <3>1. item.end \in 0..Len(t)
      BY <2>2
    <3>2. QED
      BY <3>1, GapIs
  <2> HIDE DEF next
  <2>4. next \in Nat /\ item.end <= next /\ next <= Len(t) /\ next \in (p + 1)..Len(t)
    BY <2>2, <2>3
  <2>5. x[2] = p
    OBVIOUS
  <2>6. ASSUME At(t, next) \in {",", "}", "]"} PROVE At(t, item.span.end) \in Edge \cup {",", "}", "]"}
    <3>1. CASE item.span.end # item.end
      BY <2>1, <3>1
    <3>2. CASE item.span.end = item.end /\ next = item.end
      BY <2>6, <3>2
    <3>3. CASE item.span.end = item.end /\ next # item.end
      <4>1. item.end \in item.end..(next - 1)
        BY <2>2, <2>4, <3>3
      <4>2. QED
        BY <2>3, <3>3, <4>1 DEF Edge
    <3>4. QED
      BY <3>1, <3>2, <3>3
  <2>7. ASSUME At(t, next) \in {",", "}", "]"}, NEW h \in found PROVE Written(t, h)
    <3>1. CASE h = Field(<<segment>>, p, key, item.span)
      <4>1. h.value = item.span /\ h.key = key
        BY <3>1 DEF Field
      <4>2. item.span.end <= Len(t)
        BY <2>2
      <4>3. CASE key = NoRange
        BY <2>2, <4>1, <4>2, <4>3 DEF Written
      <4>4. CASE KeyBefore(t, key, v)
        <5>1. /\ key.start \in Nat /\ key.end \in Nat /\ 0 < key.start
              /\ key.start < key.end /\ key.end + 2 <= v
              /\ At(t, key.start - 1) \in Edge
              /\ \A r \in key.start..(key.end - 1) : At(t, r) \in KeySymbols \cup WHITESPACE
              /\ \A r \in key.end..(v - 1) : At(t, r) \in Edge \cup {":"}
          BY <4>4 DEF KeyBefore
        <5>2. \A r \in key.end..(item.span.start - 1) :
                 r \in key.end..(v - 1) \/ r \in v..(item.span.start - 1)
          BY <5>1, <2>2
        <5>3. \A r \in key.end..(item.span.start - 1) : At(t, r) \in Edge \cup {":"}
          BY <5>1, <5>2, <2>1
        <5>4. key.end + 2 <= item.span.start
          BY <5>1, <2>2
        <5>5. QED
          BY <5>1, <5>3, <5>4, <4>1, <4>2, <2>2, <2>6, <2>7 DEF Written
      <4>5. QED
        BY <4>3, <4>4
    <3>2. CASE \E i \in item.fields : h = Field(<<segment>> \o i.path, i.at, i.key, i.value)
      <4>1. PICK i \in item.fields : h = Field(<<segment>> \o i.path, i.at, i.key, i.value)
        BY <3>2
      <4>2. h.value = i.value /\ h.key = i.key
        BY <4>1 DEF Field
      <4>3. Written(t, i)
        BY <2>1
      <4>4. QED
        BY <4>2, <4>3 DEF Written
    <3>3. QED
      BY <2>7, <3>1, <3>2 DEF Fields
  <2>8. ASSUME atomic, NEW r \in p..(next - 1) PROVE At(t, r) # "NUL"
    <3>1. ~(r \in item.end..(next - 1))
      BY <2>3, <2>8
    <3>2. r \in p..(v - 1) \/ r \in v..(item.end - 1)
      BY <3>1, <2>2, <2>4
    <3>3. QED
      BY <3>2, <2>1, <2>8
  <2> HIDE DEF found
  <2>9. ReadUpTo(t, atomic, p, next, found)
    BY <2>7, <2>8 DEF ReadUpTo
  <2>10. \A h : JsonMember(t, atomic, h, x, segment, key, item) = Then(t, atomic, h, x, found, next)
    BY <1>2, <2>5 DEF JsonMember, found, next
  <2>11. /\ Then(t, atomic, f, x, found, next) = Then(t, atomic, g, x, found, next)
         /\ Sound(t, atomic, rule, p, Then(t, atomic, f, x, found, next))
    BY <2>4, <2>9, ThenIs
  <2>12. QED
    BY <2>10, <2>11
<1>3. QED
  BY <1>1, <1>2

LEMMA Symbols ==
  /\ "EOI" \notin KeySymbols /\ "NUL" \notin KeySymbols
  /\ "EOI" \notin StringSymbols /\ "NUL" \notin StringSymbols
  /\ "EOI" \notin Numbers /\ "NUL" \notin Numbers
<1>1. "EOI" \notin Words /\ "NUL" \notin Words
  BY HttpJsonAssumption DEF Punctuation, WHITESPACE
<1>2. QED
  BY <1>1 DEF KeySymbols, StringSymbols, Words

LEMMA PairIs ==
  ASSUME NEW t, Len(t) \in Nat, NEW p \in Nat, NEW k \in Nat,
         NEW f, NEW g, NEW atomic \in BOOLEAN, Ahead(t, atomic, p, f, g),
         NEW key, key = Fail \/ (At(t, p) = "QUOTE" /\ QuoteAt(t, p, KeySymbols, atomic, key))
  PROVE  /\ JsonPair(t, atomic, f, <<"object", p, k>>, key) = JsonPair(t, atomic, g, <<"object", p, k>>, key)
         /\ Sound(t, atomic, "object", p, JsonPair(t, atomic, f, <<"object", p, k>>, key))
<1> DEFINE x == <<"object", p, k>>
           colon == Gap(t, key.end, atomic)
           v == Gap(t, colon + 1, atomic)
           segment == <<"key", SubSeq(t, key.span.start + 1, key.span.end)>>
<1>1. CASE key = Fail \/ key.span.start = key.span.end \/ At(t, colon) # ":"
  BY <1>1 DEF JsonPair, Sound
<1>2. CASE key # Fail /\ key.span.start # key.span.end /\ At(t, colon) = ":"
  <2>1. /\ Within(key, p + 1, key.end - 1)
        /\ key.end \in (p + 2)..Len(t)
        /\ \A r \in p..(key.span.start - 1) : At(t, r) \in Edge
        /\ \A r \in key.span.start..(key.span.end - 1) : At(t, r) \in KeySymbols \cup WHITESPACE
        /\ \A r \in key.span.end..(key.end - 1) : At(t, r) \in Edge
        /\ atomic => \A r \in p..(key.end - 1) : At(t, r) # "NUL"
    BY <1>2 DEF QuoteAt
  <2>2. /\ key.end \in Nat /\ p + 1 < key.end /\ key.end <= Len(t)
        /\ key.span.start \in Nat /\ key.span.end \in Nat
        /\ p < key.span.start /\ key.span.start < key.span.end /\ key.span.end < key.end
    BY <1>2, <2>1 DEF Within
  <2>3. /\ colon \in key.end..Len(t)
        /\ \A r \in key.end..(colon - 1) : ~atomic /\ At(t, r) \in WHITESPACE
    <3>1. key.end \in 0..Len(t)
      BY <2>2
    <3>2. QED
      BY <3>1, GapIs
  <2> HIDE DEF colon
  <2>4. colon \in Nat /\ key.end <= colon /\ colon < Len(t) /\ colon + 1 \in 0..Len(t)
    <3>1. colon \in Nat /\ key.end <= colon
      BY <2>2, <2>3
    <3>2. colon < Len(t)
      BY <3>1, <1>2, AtInside
    <3>3. QED
      BY <3>1, <3>2
  <2>5. /\ v \in (colon + 1)..Len(t)
        /\ \A r \in (colon + 1)..(v - 1) : ~atomic /\ At(t, r) \in WHITESPACE
    BY <2>4, GapIs
  <2> HIDE DEF v
  <2>6. v \in Nat /\ colon < v /\ v <= Len(t) /\ p <= v /\ v \in (p + 1)..Len(t)
    BY <2>2, <2>4, <2>5
  <2>7. /\ f[<<"value", v, 0>>] = g[<<"value", v, 0>>]
        /\ Sound(t, atomic, "value", v, f[<<"value", v, 0>>])
    BY <2>6 DEF Ahead, Kinds
  <2>8. KeyBefore(t, key.span, v)
    <3>1. key.span.end + 2 <= v /\ 0 < key.span.start
      BY <2>2, <2>4, <2>6
    <3>2. At(t, key.span.start - 1) \in Edge
      <4>1. key.span.start - 1 \in p..(key.span.start - 1)
        BY <2>2
      <4>2. QED
        BY <2>1, <4>1
    <3>3. ASSUME NEW r \in key.span.end..(v - 1) PROVE At(t, r) \in Edge \cup {":"}
      <4>1. \/ r \in key.span.end..(key.end - 1) \/ r \in key.end..(colon - 1)
            \/ r = colon \/ r \in (colon + 1)..(v - 1)
        BY <2>2, <2>4, <2>6
      <4>2. QED
        BY <4>1, <2>1, <2>3, <2>5, <1>2 DEF Edge
    <3>4. QED
      BY <2>1, <2>2, <3>1, <3>2, <3>3 DEF KeyBefore
  <2>9. ASSUME atomic, NEW r \in p..(v - 1) PROVE At(t, r) # "NUL"
    <3>1. ~(r \in key.end..(colon - 1)) /\ ~(r \in (colon + 1)..(v - 1))
      BY <2>3, <2>5, <2>9
    <3>2. r \in p..(key.end - 1) \/ r = colon
      BY <3>1, <2>2, <2>4, <2>6
    <3>3. QED
      BY <3>2, <2>1, <1>2, <2>9
  <2> PICK item : item = f[<<"value", v, 0>>]
    OBVIOUS
  <2>10. /\ JsonPair(t, atomic, f, x, key) = JsonMember(t, atomic, f, x, segment, key.span, item)
         /\ JsonPair(t, atomic, g, x, key) = JsonMember(t, atomic, g, x, segment, key.span, item)
    BY <1>2, <2>7 DEF JsonPair, colon, v
  <2> HIDE DEF segment
  <2>11. /\ JsonMember(t, atomic, f, x, segment, key.span, item) = JsonMember(t, atomic, g, x, segment, key.span, item)
         /\ Sound(t, atomic, "object", p, JsonMember(t, atomic, f, x, segment, key.span, item))
    BY <2>6, <2>7, <2>8, <2>9, MemberIs
  <2>12. QED
    BY <2>10, <2>11
<1>3. QED
  BY <1>1, <1>2

\* One JSON value, whose text is taken as it is.
LEMMA LeafIs ==
  ASSUME NEW t, Len(t) \in Nat, NEW p \in Nat, NEW atomic \in BOOLEAN, At(t, p) \in Numbers
  PROVE  Sound(t, atomic, "value", p, Leaf(p, p + 1))
<1> DEFINE m == Leaf(p, p + 1)
<1>1. m.end = p + 1 /\ m.span = To(p, p + 1) /\ m.span.start = p /\ m.span.end = p + 1 /\ m.fields = {}
  BY DEF Leaf, Parse, To
<1>2. p < Len(t) /\ At(t, p) # "NUL"
  BY Symbols, AtInside
<1> HIDE DEF m
<1>3. /\ m.end \in (p + 1)..Len(t) /\ (m.end - 1) = p /\ Within(m, p, m.end)
      /\ p..(m.span.start - 1) = {}
  BY <1>1, <1>2 DEF Within
<1>4. QED
  BY <1>1, <1>2, <1>3 DEF Sound, m

LEMMA StringIs ==
  ASSUME NEW t, Len(t) \in Nat, NEW p \in Nat, NEW atomic \in BOOLEAN
  PROVE  Sound(t, atomic, "value", p, Quoted(t, p, StringSymbols, atomic))
<1>1. PICK m : m = Quoted(t, p, StringSymbols, atomic)
  OBVIOUS
<1>2. m = Fail \/ QuoteAt(t, p, StringSymbols, atomic, m)
  BY <1>1, Symbols, QuotedIs
<1>3. CASE QuoteAt(t, p, StringSymbols, atomic, m)
  <2>1. /\ Within(m, p + 1, m.end - 1)
        /\ m.end \in (p + 2)..Len(t) /\ m.fields = {}
        /\ \A r \in p..(m.span.start - 1) : At(t, r) \in Edge
        /\ \A r \in m.span.end..(m.end - 1) : At(t, r) \in Edge
        /\ atomic => m.span.start = p + 1 /\ \A r \in p..(m.end - 1) : At(t, r) # "NUL"
    BY <1>3 DEF QuoteAt
  <2>2. Within(m, p, m.end) /\ m.end \in (p + 1)..Len(t) /\ m.span.end \in m.span.end..(m.end - 1)
    BY <2>1 DEF Within
  <2>3. QED
    BY <1>1, <2>1, <2>2 DEF Sound
<1>4. QED
  BY <1>1, <1>2, <1>3 DEF Sound

LEMMA CompoundIs ==
  ASSUME NEW t, Len(t) \in Nat, NEW p \in Nat, NEW k \in Nat,
         NEW f, NEW g, NEW atomic \in BOOLEAN, Ahead(t, atomic, p, f, g),
         NEW kind \in {"object", "array"}, NEW closing,
         At(t, p) # "EOI", At(t, p) # "NUL", closing # "EOI", closing # "NUL"
  PROVE  /\ Compound(t, atomic, f, <<"value", p, k>>, kind, closing)
              = Compound(t, atomic, g, <<"value", p, k>>, kind, closing)
         /\ Sound(t, atomic, "value", p, Compound(t, atomic, f, <<"value", p, k>>, kind, closing))
<1> DEFINE x == <<"value", p, k>>
           inner == Gap(t, p + 1, atomic)
           m == IF At(t, inner) = closing THEN Leaf(inner, inner + 1) ELSE f[<<kind, inner, 0>>]
           whole == Parse(m.end, To(p, m.end), m.fields)
<1>1. p < Len(t) /\ p + 1 \in 0..Len(t)
  <2>1. p < Len(t)
    BY AtInside
  <2>2. QED
    BY <2>1
<1>2. /\ inner \in (p + 1)..Len(t)
      /\ \A r \in (p + 1)..(inner - 1) : ~atomic /\ At(t, r) \in WHITESPACE
  BY <1>1, GapIs
<1>3. x[2] = p
  OBVIOUS
<1> HIDE DEF inner
<1>4. inner \in Nat /\ p < inner /\ inner <= Len(t)
  BY <1>2
<1>5. /\ f[<<kind, inner, 0>>] = g[<<kind, inner, 0>>]
      /\ Sound(t, atomic, kind, inner, f[<<kind, inner, 0>>])
  BY <1>2 DEF Ahead, Kinds
<1>6. /\ Compound(t, atomic, f, x, kind, closing) = IF m = Fail THEN Fail ELSE whole
      /\ Compound(t, atomic, g, x, kind, closing) = IF m = Fail THEN Fail ELSE whole
  BY <1>3, <1>5 DEF Compound, inner
<1>7. m = Fail \/ /\ m.end \in (inner + 1)..Len(t)
                  /\ \A h \in m.fields : Written(t, h)
                  /\ atomic => \A r \in inner..(m.end - 1) : At(t, r) # "NUL"
  <2>1. CASE At(t, inner) = closing
    <3>1. m.end = inner + 1 /\ m.fields = {}
      BY <2>1 DEF Leaf, Parse
    <3>2. inner < Len(t) /\ At(t, inner) # "NUL"
      BY <2>1, <1>4, AtInside
    <3> HIDE DEF m
    <3>3. m.end \in (inner + 1)..Len(t) /\ \A r \in inner..(m.end - 1) : r = inner
      BY <3>1, <3>2, <1>4
    <3>4. QED
      BY <3>1, <3>2, <3>3
  <2>2. CASE At(t, inner) # closing
    BY <2>2, <1>5 DEF Sound
  <2>3. QED
    BY <2>1, <2>2
<1>8. ASSUME m # Fail PROVE Sound(t, atomic, "value", p, whole)
  <2>1. whole.end = m.end /\ whole.span = To(p, m.end) /\ whole.fields = m.fields
        /\ whole.span.start = p /\ whole.span.end = m.end
    BY DEF Parse, To
  <2> HIDE DEF whole, m
  <2>2. m.end \in Nat /\ inner < m.end /\ m.end <= Len(t)
    BY <1>4, <1>7, <1>8
  <2>3. /\ whole.end \in (p + 1)..Len(t) /\ Within(whole, p, whole.end)
        /\ p..(whole.span.start - 1) = {}
    BY <1>4, <2>1, <2>2 DEF Within
  <2>4. ASSUME atomic, NEW r \in p..(m.end - 1) PROVE At(t, r) # "NUL"
    <3>1. ~(r \in (p + 1)..(inner - 1))
      BY <1>2, <2>4
    <3>2. r = p \/ r \in inner..(m.end - 1)
      BY <3>1, <1>4, <2>2
    <3>3. QED
      BY <3>2, <1>7, <1>8, <2>4
  <2>5. QED
    BY <1>7, <1>8, <2>1, <2>3, <2>4 DEF Sound
<1> HIDE DEF m, whole
<1>9. Sound(t, atomic, "value", p, Fail)
  BY DEF Sound
<1>10. CASE m = Fail
  BY <1>6, <1>9, <1>10
<1>11. CASE m # Fail
  BY <1>6, <1>8, <1>11
<1>12. QED
  BY <1>10, <1>11

\* One step of the grammar is right, and the same for two functions, where they agree on
\* what is still to be read: the rest of the text, or an array's element where the array is.
LEMMA StepIs ==
  ASSUME NEW t, Len(t) \in Nat, NEW p \in Nat, NEW rule \in Kinds, NEW k \in Nat,
         NEW f, NEW g, NEW atomic \in BOOLEAN, Ahead(t, atomic, p, f, g),
         rule = "array" => /\ f[<<"value", p, 0>>] = g[<<"value", p, 0>>]
                           /\ Sound(t, atomic, "value", p, f[<<"value", p, 0>>])
  PROVE  /\ JsonFrom(t, atomic, f, <<rule, p, k>>) = JsonFrom(t, atomic, g, <<rule, p, k>>)
         /\ Sound(t, atomic, rule, p, JsonFrom(t, atomic, f, <<rule, p, k>>))
<1> DEFINE x == <<rule, p, k>>
<1>0. "{" \notin Numbers /\ "[" \notin Numbers /\ "QUOTE" \notin Numbers
  BY HttpJsonAssumption DEF Words, Punctuation
<1>1. x[1] = rule /\ x[2] = p /\ x[3] = k
  OBVIOUS
<1> HIDE DEF x
<1>2. CASE rule = "object"
  <2> PICK key : key = Quoted(t, p, KeySymbols, atomic)
    OBVIOUS
  <2>1. key = Fail \/ (At(t, p) = "QUOTE" /\ QuoteAt(t, p, KeySymbols, atomic, key))
    <3>1. "EOI" \notin KeySymbols /\ "NUL" \notin KeySymbols
      BY Symbols
    <3>2. \/ Quoted(t, p, KeySymbols, atomic) = Fail
          \/ At(t, p) = "QUOTE" /\ QuoteAt(t, p, KeySymbols, atomic, Quoted(t, p, KeySymbols, atomic))
      BY <3>1, QuotedIs
    <3>3. QED
      BY <3>2
  <2>2. \A h : JsonFrom(t, atomic, h, x) = JsonPair(t, atomic, h, x, key)
    BY <1>1, <1>2 DEF JsonFrom
  <2>3. /\ JsonPair(t, atomic, f, <<"object", p, k>>, key) = JsonPair(t, atomic, g, <<"object", p, k>>, key)
        /\ Sound(t, atomic, "object", p, JsonPair(t, atomic, f, <<"object", p, k>>, key))
    BY <2>1, PairIs
  <2>4. QED
    BY <1>2, <2>2, <2>3 DEF x
<1>3. CASE rule = "array"
  <2> PICK item : item = f[<<"value", p, 0>>]
    OBVIOUS
  <2> DEFINE segment == <<"index", k>>
  <2>1. /\ JsonFrom(t, atomic, f, x) = JsonMember(t, atomic, f, x, segment, NoRange, item)
        /\ JsonFrom(t, atomic, g, x) = JsonMember(t, atomic, g, x, segment, NoRange, item)
    BY <1>1, <1>3 DEF JsonFrom
  <2> HIDE DEF segment
  <2>2. CASE p <= Len(t)
    <3>1. p..(p - 1) = {} /\ p <= p /\ Sound(t, atomic, "value", p, item)
      BY <1>3
    <3>2. atomic => \A r \in p..(p - 1) : At(t, r) # "NUL"
      BY <3>1
    <3>3. /\ JsonMember(t, atomic, f, <<"array", p, k>>, segment, NoRange, item)
              = JsonMember(t, atomic, g, <<"array", p, k>>, segment, NoRange, item)
          /\ Sound(t, atomic, "array", p, JsonMember(t, atomic, f, <<"array", p, k>>, segment, NoRange, item))
      BY <2>2, <3>1, <3>2, MemberIs
    <3>4. QED
      BY <1>3, <2>1, <3>3 DEF x
  <2>3. CASE ~(p <= Len(t))
    <3>1. item = Fail
      BY <1>3, <2>3 DEF Sound
    <3>2. QED
      BY <1>3, <2>1, <3>1 DEF JsonMember, Sound, x
  <2>4. QED
    BY <2>2, <2>3
<1>4. CASE rule = "value" /\ At(t, p) = "{"
  <2>1. \A h : JsonFrom(t, atomic, h, x) = Compound(t, atomic, h, x, "object", "}")
    BY <1>0, <1>1, <1>4 DEF JsonFrom
  <2>2. /\ Compound(t, atomic, f, <<"value", p, k>>, "object", "}")
             = Compound(t, atomic, g, <<"value", p, k>>, "object", "}")
        /\ Sound(t, atomic, "value", p, Compound(t, atomic, f, <<"value", p, k>>, "object", "}"))
    BY <1>4, CompoundIs
  <2>3. QED
    BY <1>4, <2>1, <2>2 DEF x
<1>5. CASE rule = "value" /\ At(t, p) = "["
  <2>1. \A h : JsonFrom(t, atomic, h, x) = Compound(t, atomic, h, x, "array", "]")
    BY <1>0, <1>1, <1>5 DEF JsonFrom
  <2>2. /\ Compound(t, atomic, f, <<"value", p, k>>, "array", "]")
             = Compound(t, atomic, g, <<"value", p, k>>, "array", "]")
        /\ Sound(t, atomic, "value", p, Compound(t, atomic, f, <<"value", p, k>>, "array", "]"))
    BY <1>5, CompoundIs
  <2>3. QED
    BY <1>5, <2>1, <2>2 DEF x
<1>6. CASE rule = "value" /\ At(t, p) # "{" /\ At(t, p) # "["
  <2>1. CASE At(t, p) = "QUOTE"
    <3>1. \A h : JsonFrom(t, atomic, h, x) = Quoted(t, p, StringSymbols, atomic)
      BY <1>0, <1>1, <1>6, <2>1 DEF JsonFrom
    <3>2. QED
      BY <1>6, <3>1, StringIs DEF x
  <2>2. CASE At(t, p) # "QUOTE" /\ At(t, p) \in Numbers
    <3>1. \A h : JsonFrom(t, atomic, h, x) = Leaf(p, p + 1)
      BY <1>1, <1>6, <2>2 DEF JsonFrom
    <3>2. QED
      BY <1>6, <2>2, <3>1, LeafIs DEF x
  <2>3. CASE At(t, p) # "QUOTE" /\ At(t, p) \notin Numbers
    <3>1. \A h : JsonFrom(t, atomic, h, x) = Fail
      BY <1>1, <1>6, <2>3 DEF JsonFrom
    <3>2. QED
      BY <3>1 DEF Sound, x
  <2>4. QED
    BY <2>1, <2>2, <2>3
<1>7. QED
  BY <1>2, <1>3, <1>4, <1>5, <1>6 DEF Kinds

\* How far a rule is from the end of the text: less for what it reads next.
Distance(t, rule, p) ==
  2 * (IF p < Len(t) THEN Len(t) - p ELSE 0) + (IF rule = "array" THEN 1 ELSE 0)

LEMMA Nearer ==
  ASSUME NEW t, Len(t) \in Nat, NEW p \in Nat, NEW rule \in Kinds
  PROVE  /\ Distance(t, rule, p) \in Nat /\ Distance(t, rule, p) < 2 * Len(t) + 2
         /\ \A q \in (p + 1)..Len(t), r \in Kinds : Distance(t, r, q) < Distance(t, rule, p)
         /\ rule = "array" => Distance(t, "value", p) < Distance(t, rule, p)
<1> DEFINE b(r) == IF r = "array" THEN 1 ELSE 0
<1>1. \A r \in Kinds : b(r) \in {0, 1}
  OBVIOUS
<1>2. \A q \in Nat, r \in Kinds : q < Len(t) => Distance(t, r, q) = 2 * (Len(t) - q) + b(r)
  BY DEF Distance
<1>3. \A q \in Nat, r \in Kinds : ~(q < Len(t)) => Distance(t, r, q) = b(r)
  BY DEF Distance
<1>4. b("array") = 1 /\ b("value") = 0 /\ "value" \in Kinds
  BY DEF Kinds
<1> HIDE DEF b
<1>5. ASSUME NEW q \in (p + 1)..Len(t), NEW r \in Kinds
      PROVE  Distance(t, r, q) < Distance(t, rule, p)
  <2>1. q \in Nat /\ p < q /\ q <= Len(t) /\ p < Len(t)
    OBVIOUS
  <2>2. CASE q < Len(t)
    BY <1>1, <1>2, <2>1, <2>2
  <2>3. CASE ~(q < Len(t))
    BY <1>1, <1>2, <1>3, <2>1, <2>3
  <2>4. QED
    BY <2>2, <2>3
<1>6. Distance(t, rule, p) \in Nat /\ Distance(t, rule, p) < 2 * Len(t) + 2
  <2>1. CASE p < Len(t)
    BY <1>1, <1>2, <2>1
  <2>2. CASE ~(p < Len(t))
    BY <1>1, <1>3, <2>2
  <2>3. QED
    BY <2>1, <2>2
<1>7. ASSUME rule = "array" PROVE Distance(t, "value", p) < Distance(t, rule, p)
  <2>1. CASE p < Len(t)
    BY <1>2, <1>4, <1>7, <2>1
  <2>2. CASE ~(p < Len(t))
    BY <1>3, <1>4, <1>7, <2>2
  <2>3. QED
    BY <2>1, <2>2
<1>8. QED
  BY <1>5, <1>6, <1>7

Tasks == Kinds \X Nat \X Nat

\* A function that is what JsonFrom says, up to a distance from the end, and right about it.
Right(t, atomic, f, n) ==
  \A rule \in Kinds, p \in Nat, k \in Nat : Distance(t, rule, p) < n =>
    /\ f[<<rule, p, k>>] = JsonFrom(t, atomic, f, <<rule, p, k>>)
    /\ Sound(t, atomic, rule, p, f[<<rule, p, k>>])

LEMMA OneFurther ==
  ASSUME NEW t, Len(t) \in Nat, NEW atomic \in BOOLEAN, NEW n \in Nat,
         NEW f, Right(t, atomic, f, n), NEW g, g = [x \in Tasks |-> JsonFrom(t, atomic, f, x)]
  PROVE  Right(t, atomic, g, n + 1)
<1> SUFFICES ASSUME NEW rule \in Kinds, NEW p \in Nat, NEW k \in Nat, Distance(t, rule, p) < n + 1
             PROVE  /\ g[<<rule, p, k>>] = JsonFrom(t, atomic, g, <<rule, p, k>>)
                    /\ Sound(t, atomic, rule, p, g[<<rule, p, k>>])
  BY DEF Right
<1>1. \A r \in Kinds, q \in Nat, j \in Nat : g[<<r, q, j>>] = JsonFrom(t, atomic, f, <<r, q, j>>)
  BY DEF Tasks
<1>2. Ahead(t, atomic, p, f, g)
  <2> SUFFICES ASSUME NEW q \in (p + 1)..Len(t), NEW r \in Kinds, NEW j \in Nat
               PROVE  /\ f[<<r, q, j>>] = g[<<r, q, j>>]
                      /\ Sound(t, atomic, r, q, f[<<r, q, j>>])
    BY DEF Ahead
  <2>1. q \in Nat /\ Distance(t, r, q) < n
    <3>1. /\ q \in Nat /\ Distance(t, r, q) \in Nat /\ Distance(t, rule, p) \in Nat
          /\ Distance(t, r, q) < Distance(t, rule, p)
      BY Nearer
    <3>2. QED
      BY <3>1
  <2>2. QED
    BY <2>1, <1>1 DEF Right
<1>3. ASSUME rule = "array"
      PROVE  /\ f[<<"value", p, 0>>] = g[<<"value", p, 0>>]
             /\ Sound(t, atomic, "value", p, f[<<"value", p, 0>>])
  <2>1. "value" \in Kinds /\ Distance(t, "value", p) < n
    <3>1. "value" \in Kinds
      BY DEF Kinds
    <3>2. /\ Distance(t, "value", p) \in Nat /\ Distance(t, rule, p) \in Nat
          /\ Distance(t, "value", p) < Distance(t, rule, p)
      BY <1>3, <3>1, Nearer
    <3>3. QED
      BY <3>1, <3>2
  <2>2. QED
    BY <2>1, <1>1 DEF Right
<1>4. /\ JsonFrom(t, atomic, f, <<rule, p, k>>) = JsonFrom(t, atomic, g, <<rule, p, k>>)
      /\ Sound(t, atomic, rule, p, JsonFrom(t, atomic, f, <<rule, p, k>>))
  BY <1>2, <1>3, StepIs
<1>5. QED
  BY <1>1, <1>4

\* The recursive definition defines a function, and it is right.
LEMMA JsonIs ==
  ASSUME NEW t, Len(t) \in Nat, NEW atomic \in BOOLEAN, NEW start \in Nat
  PROVE  Sound(t, atomic, "value", start, Json(t, start, atomic))
<1> DEFINE Reached == {n \in Nat : \E f : f = [x \in Tasks |-> f[x]] /\ Right(t, atomic, f, n)}
           all == 2 * Len(t) + 2
           parse == CHOOSE f : f = [x \in Tasks |-> JsonFrom(t, atomic, f, x)]
<1>1. 0 \in Reached
  <2> DEFINE f == [x \in Tasks |-> Fail]
  <2>1. f = [x \in Tasks |-> f[x]]
    OBVIOUS
  <2>2. Right(t, atomic, f, 0)
    <3>1. \A rule \in Kinds, p \in Nat : ~(Distance(t, rule, p) < 0)
      BY Nearer
    <3> HIDE DEF f
    <3>2. QED
      BY <3>1 DEF Right
  <2> HIDE DEF f
  <2>3. QED
    BY <2>1, <2>2
<1>2. ASSUME NEW n \in Nat, n \in Reached PROVE n + 1 \in Reached
  <2>1. PICK f : Right(t, atomic, f, n)
    BY <1>2
  <2> DEFINE g == [x \in Tasks |-> JsonFrom(t, atomic, f, x)]
  <2>2. g = [x \in Tasks |-> g[x]]
    OBVIOUS
  <2>3. Right(t, atomic, g, n + 1)
    BY <2>1, OneFurther
  <2> HIDE DEF g
  <2>4. QED
    BY <2>2, <2>3
<1>3. all \in Reached
  <2>1. all \in Nat
    OBVIOUS
  <2> HIDE DEF Reached, all
  <2>2. QED
    BY <1>1, <1>2, <2>1, Upwards
<1>4. PICK f : f = [x \in Tasks |-> f[x]] /\ Right(t, atomic, f, all)
  BY <1>3
<1>5. f = [x \in Tasks |-> JsonFrom(t, atomic, f, x)]
  <2>1. ASSUME NEW x \in Tasks PROVE f[x] = JsonFrom(t, atomic, f, x)
    <3>1. PICK rule \in Kinds, p \in Nat, k \in Nat : x = <<rule, p, k>>
      BY DEF Tasks
    <3>2. Distance(t, rule, p) < all
      BY Nearer
    <3> HIDE DEF all
    <3>3. QED
      BY <1>4, <3>1, <3>2 DEF Right
  <2>2. QED
    BY <1>4, <2>1
<1>6. parse = [x \in Tasks |-> JsonFrom(t, atomic, parse, x)]
  BY <1>5
<1> HIDE DEF parse
<1>7. Right(t, atomic, parse, 0)
  <2>1. \A rule \in Kinds, p \in Nat : ~(Distance(t, rule, p) < 0)
    BY Nearer
  <2>2. QED
    BY <2>1 DEF Right
<1>8. ASSUME NEW n \in Nat, Right(t, atomic, parse, n) PROVE Right(t, atomic, parse, n + 1)
  BY <1>6, <1>8, OneFurther
<1>9. Right(t, atomic, parse, all)
  <2> DEFINE S == {n \in Nat : Right(t, atomic, parse, n)}
  <2>1. 0 \in S /\ \A n \in Nat : n \in S => n + 1 \in S
    BY <1>7, <1>8
  <2>2. all \in Nat
    OBVIOUS
  <2> HIDE DEF S, all
  <2>3. Nat \subseteq S
    BY <2>1, Upwards
  <2>4. QED
    BY <2>2, <2>3 DEF S
<1>10. Json(t, start, atomic) = parse[<<"value", start, 0>>]
  BY DEF Json, parse, Tasks, Kinds
<1>11. "value" \in Kinds /\ Distance(t, "value", start) < all
  BY Nearer DEF Kinds
<1>12. QED
  <2> HIDE DEF all
  <2>1. QED
    BY <1>9, <1>10, <1>11 DEF Right

-----------------------------------------------------------------------------
\* Headers.

\* What the map of headers says of one.
HeaderWritten(t, h) ==
  \E q \in Nat :
    /\ h.at = To(q, q + 1) /\ q + 3 <= Len(t)
    /\ At(t, q) \in Names /\ h.name = LowerCase[At(t, q)] /\ At(t, q + 1) = ":" /\ At(t, q + 2) = " "
    /\ h.value # NoRange =>
         \E e \in Nat : /\ h.value = To(q + 3, e) /\ q + 3 < e /\ e < Len(t) /\ At(t, e) \in {"CR", "LF"}
                        /\ \A r \in (q + 3)..(e - 1) : At(t, r) \in HeaderSymbols

HeadersRight(t, q, m) ==
  q <= Len(t) => m.end \in q..Len(t) /\ \A h \in m.fields : HeaderWritten(t, h)

HeadersAhead(t, q, f, g) == \A r \in (q + 1)..Len(t) : f[r] = g[r] /\ HeadersRight(t, r, f[r])

LEMMA HeaderStepIs ==
  ASSUME NEW t, Len(t) \in Nat, NEW q \in Nat, NEW f, NEW g, HeadersAhead(t, q, f, g)
  PROVE  /\ HeadersFrom(t, f, q) = HeadersFrom(t, g, q)
         /\ HeadersRight(t, q, HeadersFrom(t, f, q))
<1> DEFINE end == RunEnd(t, q + 3, HeaderSymbols)
           value == IF end > q + 3 /\ At(t, end) \in {"CR", "LF"} THEN To(q + 3, end) ELSE NoRange
           after == IF value = NoRange THEN q + 3
                    ELSE value.end + (IF At(t, value.end) = "CR" /\ At(t, value.end + 1) = "LF" THEN 2 ELSE 1)
           next == Skip(t, after)
           header == [name |-> LowerCase[At(t, q)], at |-> To(q, q + 1), value |-> value]
<1>1. CASE At(t, q) \in Names /\ At(t, q + 1) = ":" /\ At(t, q + 2) = " "
  <2>1. q + 2 < Len(t) /\ q + 3 \in 0..Len(t) /\ q + 3 <= Len(t)
    <3>1. At(t, q + 2) # "EOI"
      BY <1>1
    <3>2. q + 2 < Len(t)
      <4>1. q + 2 \in Nat
        OBVIOUS
      <4>2. QED
        BY <3>1, <4>1, AtInside
    <3>3. QED
      BY <3>2
  <2>2. /\ end \in (q + 3)..Len(t)
        /\ \A r \in (q + 3)..(end - 1) : At(t, r) \in HeaderSymbols
    <3>1. "EOI" \notin HeaderSymbols
      BY HttpJsonAssumption DEF HeaderSymbols, Punctuation, WHITESPACE
    <3>2. QED
      BY <2>1, <3>1, Scan
  <2> HIDE DEF end
  <2>3. end \in Nat /\ q + 3 <= end /\ end <= Len(t)
    BY <2>2
  <2>4. \/ value = NoRange
        \/ value = To(q + 3, end) /\ value.end = end /\ q + 3 < end /\ end < Len(t) /\ At(t, end) \in {"CR", "LF"}
    <3>1. CASE ~(end > q + 3 /\ At(t, end) \in {"CR", "LF"})
      BY <3>1
    <3>2. CASE end > q + 3 /\ At(t, end) \in {"CR", "LF"}
      <4>1. value = To(q + 3, end)
        BY <3>2
      <4>2. end < Len(t)
        <5>1. At(t, end) # "EOI"
          BY <3>2
        <5>2. QED
          BY <5>1, <2>3, AtInside
      <4>3. value.end = end
        BY <4>1 DEF To
      <4> HIDE DEF value
      <4>4. q + 3 < end
        BY <2>3, <3>2
      <4>5. QED
        BY <3>2, <4>1, <4>2, <4>3, <4>4
    <3>3. QED
      BY <3>1, <3>2
  <2> HIDE DEF value
  <2>5. after \in (q + 1)..Len(t) /\ after \in 0..Len(t)
    <3>1. CASE value = NoRange
      BY <2>1, <3>1
    <3>2. CASE value # NoRange /\ At(t, end) = "CR" /\ At(t, end + 1) = "LF"
      <4>1. end + 1 < Len(t)
        <5>1. end + 1 \in Nat /\ At(t, end + 1) # "EOI"
          BY <2>3, <3>2
        <5>2. QED
          BY <5>1, AtInside
      <4>2. after = end + 2
        BY <2>4, <3>2
      <4> HIDE DEF after
      <4>3. QED
        BY <2>3, <4>1, <4>2
    <3>3. CASE value # NoRange /\ ~(At(t, end) = "CR" /\ At(t, end + 1) = "LF")
      <4>1. after = end + 1 /\ end < Len(t)
        BY <2>4, <3>3
      <4> HIDE DEF after
      <4>2. QED
        BY <2>3, <4>1
    <3>4. QED
      BY <3>1, <3>2, <3>3
  <2> HIDE DEF after
  <2>6. next \in (q + 1)..Len(t)
    <3>1. next \in after..Len(t)
      BY <2>5, SkipIs
    <3> HIDE DEF next
    <3>2. QED
      BY <2>5, <3>1
  <2> HIDE DEF next
  <2> PICK rest : rest = f[next]
    OBVIOUS
  <2>7. f[next] = g[next] /\ HeadersRight(t, next, rest)
    BY <2>6 DEF HeadersAhead
  <2> DEFINE all == Parse(rest.end, NoRange, rest.fields \cup {header})
  <2>8. HeadersFrom(t, f, q) = all /\ HeadersFrom(t, g, q) = all
    BY <1>1, <2>7 DEF HeadersFrom, next, after, value, end
  <2>9. HeaderWritten(t, header)
    <3>1. header.at = To(q, q + 1) /\ header.name = LowerCase[At(t, q)] /\ header.value = value
      OBVIOUS
    <3> HIDE DEF header
    <3>2. value # NoRange =>
            \E e \in Nat : /\ value = To(q + 3, e) /\ q + 3 < e /\ e < Len(t) /\ At(t, e) \in {"CR", "LF"}
                           /\ \A r \in (q + 3)..(e - 1) : At(t, r) \in HeaderSymbols
      BY <2>2, <2>3, <2>4
    <3>3. QED
      BY <1>1, <2>1, <3>1, <3>2 DEF HeaderWritten
  <2> HIDE DEF header
  <2>10. all.end = rest.end /\ all.fields = rest.fields \cup {header}
    BY DEF Parse
  <2> HIDE DEF all
  <2>11. all.end \in q..Len(t) /\ \A h \in all.fields : HeaderWritten(t, h)
    BY <2>6, <2>7, <2>9, <2>10 DEF HeadersRight
  <2>12. QED
    BY <2>8, <2>11 DEF HeadersRight
<1>2. CASE ~(At(t, q) \in Names /\ At(t, q + 1) = ":" /\ At(t, q + 2) = " ")
  <2>1. \A h : HeadersFrom(t, h, q) = Parse(q, NoRange, {})
    BY <1>2 DEF HeadersFrom
  <2>2. Parse(q, NoRange, {}).end = q /\ Parse(q, NoRange, {}).fields = {}
    BY DEF Parse
  <2>3. QED
    BY <2>1, <2>2 DEF HeadersRight
<1>3. QED
  BY <1>1, <1>2

\* A function that is what HeadersFrom says where fewer than n symbols are left.
HeadersTo(t, f, n) ==
  \A q \in Nat : q + n > Len(t) => f[q] = HeadersFrom(t, f, q) /\ HeadersRight(t, q, f[q])

LEMMA HeadersFurther ==
  ASSUME NEW t, Len(t) \in Nat, NEW n \in Nat, NEW f, HeadersTo(t, f, n),
         NEW g, g = [q \in Nat |-> HeadersFrom(t, f, q)]
  PROVE  HeadersTo(t, g, n + 1)
<1> SUFFICES ASSUME NEW q \in Nat, q + (n + 1) > Len(t)
             PROVE  g[q] = HeadersFrom(t, g, q) /\ HeadersRight(t, q, g[q])
  BY DEF HeadersTo
<1>1. HeadersAhead(t, q, f, g)
  <2>1. ASSUME NEW r \in (q + 1)..Len(t)
        PROVE  f[r] = g[r] /\ HeadersRight(t, r, f[r])
    <3>1. r \in Nat /\ r + n > Len(t)
      OBVIOUS
    <3>2. QED
      BY <3>1 DEF HeadersTo
  <2>2. QED
    BY <2>1 DEF HeadersAhead
<1>2. QED
  BY <1>1, HeaderStepIs

LEMMA HeadersIs ==
  ASSUME NEW t, Len(t) \in Nat, NEW p \in 0..Len(t)
  PROVE  HeadersRight(t, p, Headers(t, p))
<1> DEFINE all == Len(t) + 1
           headers == CHOOSE f : f = [q \in Nat |-> HeadersFrom(t, f, q)]
<1>0. all \in Nat /\ p \in Nat /\ \A q \in Nat : q + all > Len(t)
  OBVIOUS
<1>1. \E f : HeadersTo(t, f, 0)
  <2> DEFINE f == [q \in Nat |-> HeadersFrom(t, <<>>, q)]
  <2>1. ASSUME NEW q \in Nat, q + 0 > Len(t)
        PROVE  f[q] = HeadersFrom(t, f, q) /\ HeadersRight(t, q, f[q])
    <3>1. At(t, q) \notin Names
      <4>1. "EOI" \notin Names
        BY HttpJsonAssumption DEF Words, Punctuation
      <4>2. QED
        BY <2>1, <4>1 DEF At
    <3>2. \A h : HeadersFrom(t, h, q) = Parse(q, NoRange, {})
      BY <3>1 DEF HeadersFrom
    <3>3. f[q] = HeadersFrom(t, <<>>, q)
      OBVIOUS
    <3> HIDE DEF f
    <3>4. HeadersRight(t, q, f[q])
      BY <2>1 DEF HeadersRight
    <3>5. QED
      BY <3>2, <3>3, <3>4
  <2> HIDE DEF f
  <2>2. QED
    BY <2>1 DEF HeadersTo
<1>2. ASSUME NEW n \in Nat, NEW f, HeadersTo(t, f, n)
      PROVE  \E g : g = [q \in Nat |-> g[q]] /\ HeadersTo(t, g, n + 1)
  <2> DEFINE g == [q \in Nat |-> HeadersFrom(t, f, q)]
  <2>1. g = [q \in Nat |-> g[q]]
    OBVIOUS
  <2>2. HeadersTo(t, g, n + 1)
    BY <1>2, HeadersFurther
  <2> HIDE DEF g
  <2>3. QED
    BY <2>1, <2>2
<1>3. \E f : f = [q \in Nat |-> f[q]] /\ HeadersTo(t, f, all)
  <2> DEFINE S == {n \in Nat : \E f : HeadersTo(t, f, n)}
  <2>1. 0 \in S /\ \A n \in Nat : n \in S => n + 1 \in S
    BY <1>1, <1>2
  <2> HIDE DEF S
  <2>2. Len(t) \in S
    BY <2>1, Upwards
  <2>3. QED
    BY <2>2, <1>2 DEF S
<1>4. PICK f : f = [q \in Nat |-> f[q]] /\ HeadersTo(t, f, all)
  BY <1>3
<1> HIDE DEF all
<1>5. f = [q \in Nat |-> HeadersFrom(t, f, q)]
  <2>1. \A q \in Nat : f[q] = HeadersFrom(t, f, q)
    BY <1>0, <1>4 DEF HeadersTo
  <2>2. QED
    BY <1>4, <2>1
<1>6. headers = [q \in Nat |-> HeadersFrom(t, headers, q)]
  BY <1>5
<1> HIDE DEF headers
<1>7. HeadersTo(t, headers, 0)
  <2>1. ASSUME NEW q \in Nat, q + 0 > Len(t)
        PROVE  headers[q] = HeadersFrom(t, headers, q) /\ HeadersRight(t, q, headers[q])
    BY <2>1, <1>6 DEF HeadersRight
  <2>2. QED
    BY <2>1 DEF HeadersTo
<1>8. HeadersTo(t, headers, all)
  <2> DEFINE S == {n \in Nat : HeadersTo(t, headers, n)}
  <2>1. 0 \in S /\ \A n \in Nat : n \in S => n + 1 \in S
    BY <1>6, <1>7, HeadersFurther
  <2> HIDE DEF S
  <2>2. all \in S
    BY <1>0, <2>1, Upwards
  <2>3. QED
    BY <2>2 DEF S
<1>9. Headers(t, p) = headers[p]
  BY DEF Headers, headers
<1>10. QED
  BY <1>0, <1>8, <1>9 DEF HeadersTo

-----------------------------------------------------------------------------
\* The pairs of a redacted body.

\* What is said of one: the key between its quotes, a colon, and the value right behind it,
\* with no hidden symbol from the first quote to the last of the value.
Shown(t, h) ==
  \E q \in Nat, c \in Nat :
    /\ h.key = To(q + 1, c) /\ q + 1 < c /\ c + 1 < Len(t)
    /\ h.path = <<<<"key", SubSeq(t, q + 2, c)>>>>
    /\ At(t, q) = "QUOTE" /\ At(t, c) = "QUOTE" /\ At(t, c + 1) = ":"
    /\ \A r \in q..(c + 1) : At(t, r) # "NUL"
    /\ h.value # NoRange =>
         \E b \in {c + 2, c + 3}, e \in Nat :
           h.value = To(b, e) /\ b <= e /\ e <= Len(t) /\ \A r \in q..(e - 1) : At(t, r) # "NUL"

PairsRight(t, q, m) ==
  m = Fail \/ (m.end \in (q + 1)..Len(t) /\ \A h \in m.fields : Shown(t, h))

PairsAhead(t, q, f, g) == \A r \in (q + 1)..Len(t) : f[r] = g[r] /\ PairsRight(t, r, f[r])

LEMMA PairRedactedIs ==
  ASSUME NEW t, Len(t) \in Nat, NEW q \in Nat
  PROVE  PairsRight(t, q, PairRedacted(t, q))
<1> DEFINE key == Quoted(t, q, KeySymbols, TRUE)
           v == Json(t, key.end + 1, TRUE)
           valued == v # Fail /\ At(t, v.end) # ":"
           end == IF valued THEN v.end ELSE key.end + 1
           value == IF valued THEN v.span ELSE NoRange
           h == Field(<<<<"key", SubSeq(t, key.span.start + 1, key.span.end)>>>>, q, key.span, value)
           m == Parse(end, NoRange, {h})
<1>1. CASE key = Fail \/ key.span.start = key.span.end \/ At(t, key.end) # ":"
  <2>1. PairRedacted(t, q) = Fail
    BY <1>1 DEF PairRedacted
  <2>2. QED
    BY <2>1 DEF PairsRight
<1>2. CASE key # Fail /\ key.span.start # key.span.end /\ At(t, key.end) = ":"
  <2>1. PairRedacted(t, q) = m
    BY <1>2 DEF PairRedacted
  <2>2. At(t, q) = "QUOTE" /\ QuoteAt(t, q, KeySymbols, TRUE, key)
    <3>1. "EOI" \notin KeySymbols /\ "NUL" \notin KeySymbols
      BY Symbols
    <3>2. QED
      BY <1>2, <3>1, QuotedIs
  <2> HIDE DEF key
  <2>3. /\ Within(key, q + 1, key.end - 1) /\ key.end \in (q + 2)..Len(t)
        /\ key.span.start = q + 1 /\ key.span.end = key.end - 1
        /\ \A r \in q..(key.end - 1) : At(t, r) # "NUL"
        /\ At(t, key.end - 1) = "QUOTE"
    BY <2>2 DEF QuoteAt
  <2> DEFINE c == key.end - 1
  <2>4. /\ c \in Nat /\ q + 1 < c /\ c + 1 < Len(t) /\ key.end = c + 1 /\ key.span = To(q + 1, c)
        /\ key.end + 1 \in Nat /\ key.span.start + 1 = q + 2 /\ key.span.end = c
        /\ At(t, c + 1) = ":"
    <3>1. key.end \in Nat /\ key.end < Len(t)
      <4>1. key.end \in Nat
        BY <2>3
      <4>2. QED
        BY <4>1, <1>2, AtInside
    <3>2. QED
      BY <1>2, <2>3, <3>1 DEF Within
  <2> HIDE DEF c
  <2>5. \A r \in q..(c + 1) : At(t, r) # "NUL"
    <3>1. \A r \in q..(c + 1) : r = c + 1 \/ r \in q..(key.end - 1)
      BY <2>4
    <3>2. QED
      BY <3>1, <2>3, <2>4
  <2>6. Sound(t, TRUE, "value", key.end + 1, v)
    BY <2>4, JsonIs
  <2> HIDE DEF v
  <2>7. valued =>
          \E b \in {c + 2, c + 3}, e \in Nat :
            v.span = To(b, e) /\ b <= e /\ e <= Len(t) /\ \A r \in q..(e - 1) : At(t, r) # "NUL"
    <3>1. SUFFICES ASSUME valued
                   PROVE \E b \in {c + 2, c + 3}, e \in Nat :
                           v.span = To(b, e) /\ b <= e /\ e <= Len(t) /\ \A r \in q..(e - 1) : At(t, r) # "NUL"
      OBVIOUS
    <3>2. /\ v.end \in (key.end + 2)..Len(t)
          /\ \A r \in (key.end + 1)..(v.end - 1) : At(t, r) # "NUL"
          /\ Within(v, key.end + 1, v.end) /\ v.span.start \in {key.end + 1, key.end + 2}
      <4>1. v # Fail /\ (key.end + 1) + 1 = key.end + 2
        BY <3>1, <2>4
      <4>2. QED
        BY <2>6, <4>1 DEF Sound
    <3>3. /\ v.span.start \in {c + 2, c + 3} /\ v.span.end \in Nat
          /\ v.span.start <= v.span.end /\ v.span.end <= v.end /\ v.end <= Len(t) /\ v.end \in Nat
          /\ v.span = To(v.span.start, v.span.end)
      BY <3>2, <2>4 DEF Within
    <3>4. ASSUME NEW r \in q..(v.span.end - 1) PROVE At(t, r) # "NUL"
      <4>1. r \in q..(c + 1) \/ r \in (key.end + 1)..(v.end - 1)
        BY <3>3, <2>4
      <4>2. QED
        BY <4>1, <3>2, <2>5
    <3>5. v.span.end <= Len(t)
      BY <3>3
    <3>6. QED
      BY <3>3, <3>4, <3>5
  <2>8. end \in (q + 1)..Len(t)
    <3>1. CASE valued
      <4>1. v.end \in ((key.end + 1) + 1)..Len(t)
        BY <2>6, <3>1 DEF Sound
      <4>2. QED
        BY <3>1, <4>1, <2>4
    <3>2. CASE ~valued
      BY <3>2, <2>4
    <3>3. QED
      BY <3>1, <3>2
  <2> HIDE DEF valued
  <2>9. Shown(t, h)
    <3>1. /\ h.path = <<<<"key", SubSeq(t, q + 2, c)>>>> /\ h.key = key.span /\ h.value = value
      BY <2>4 DEF Field
    <3> HIDE DEF h
    <3>2. h.value # NoRange => valued /\ h.value = v.span
      BY <3>1
    <3>3. h.value # NoRange =>
            \E b \in {c + 2, c + 3}, e \in Nat :
              h.value = To(b, e) /\ b <= e /\ e <= Len(t) /\ \A r \in q..(e - 1) : At(t, r) # "NUL"
      BY <2>7, <3>2
    <3>4. h.key = To(q + 1, c) /\ h.path = <<<<"key", SubSeq(t, q + 2, c)>>>>
      BY <2>4, <3>1
    <3>5. /\ c \in Nat /\ q + 1 < c /\ c + 1 < Len(t) 
          /\ At(t, q) = "QUOTE" /\ At(t, c) = "QUOTE" /\ At(t, c + 1) = ":"
      BY <2>2, <2>3, <2>4 DEF c
    <3>6. QED
      BY <2>5, <3>3, <3>4, <3>5, Zenon DEF Shown
  <2>10. m.end = end /\ m.fields = {h}
    BY DEF Parse
  <2> HIDE DEF m, h, end
  <2>11. QED
    BY <2>1, <2>8, <2>9, <2>10 DEF PairsRight
<1>3. QED
  BY <1>1, <1>2

LEMMA PairsStepIs ==
  ASSUME NEW t, Len(t) \in Nat, NEW q \in Nat, NEW f, NEW g, PairsAhead(t, q, f, g)
  PROVE  PairsFrom(t, f, q) = PairsFrom(t, g, q) /\ PairsRight(t, q, PairsFrom(t, f, q))
<1> PICK pair : pair = PairRedacted(t, q)
  OBVIOUS
<1>1. PairsRight(t, q, pair)
  BY PairRedactedIs
<1>2. CASE pair = Fail
  <2>1. \A h : PairsFrom(t, h, q) = Fail
    BY <1>2 DEF PairsFrom
  <2>2. QED
    BY <2>1 DEF PairsRight
<1>3. CASE pair # Fail
  <2> DEFINE comma == Skip(t, pair.end)
             next == IF At(t, comma) = "," THEN Skip(t, comma + 1) ELSE comma
  <2>1. pair.end \in (q + 1)..Len(t) /\ \A h \in pair.fields : Shown(t, h)
    BY <1>1, <1>3 DEF PairsRight
  <2>2. comma \in (q + 1)..Len(t)
    <3>1. pair.end \in 0..Len(t)
      BY <2>1
    <3>2. comma \in pair.end..Len(t)
      BY <3>1, SkipIs
    <3> HIDE DEF comma
    <3>3. QED
      BY <2>1, <3>2
  <2> HIDE DEF comma
  <2>3. next \in (q + 1)..Len(t)
    <3>1. CASE At(t, comma) = ","
      <4>1. comma \in Nat /\ comma < Len(t)
        <5>1. comma \in Nat
          BY <2>2
        <5>2. QED
          BY <3>1, <5>1, AtInside
      <4>2. comma + 1 \in 0..Len(t)
        BY <4>1
      <4>3. next \in (comma + 1)..Len(t)
        BY <3>1, <4>2, SkipIs
      <4> HIDE DEF next
      <4>4. QED
        BY <2>2, <4>3
    <3>2. CASE At(t, comma) # ","
      BY <3>2, <2>2
    <3>3. QED
      BY <3>1, <3>2
  <2> HIDE DEF next
  <2> PICK rest : rest = f[next]
    OBVIOUS
  <2>4. f[next] = g[next] /\ PairsRight(t, next, rest)
    BY <2>3 DEF PairsAhead
  <2> DEFINE all == IF rest = Fail THEN pair ELSE Also(rest, pair.fields)
  <2>5. PairsFrom(t, f, q) = all /\ PairsFrom(t, g, q) = all
    BY <1>3, <2>4 DEF PairsFrom, next, comma
  <2>6. CASE rest = Fail
    BY <2>5, <2>6, <1>1
  <2>7. CASE rest # Fail
    <3>1. all.end = rest.end /\ all.fields = rest.fields \cup pair.fields
      BY <2>7 DEF Also, Parse
    <3>2. rest.end \in (next + 1)..Len(t) /\ \A h \in rest.fields : Shown(t, h)
      BY <2>4, <2>7 DEF PairsRight
    <3> HIDE DEF all
    <3>3. all.end \in (q + 1)..Len(t)
      BY <2>3, <3>1, <3>2
    <3>4. QED
      BY <2>1, <2>5, <3>1, <3>2, <3>3 DEF PairsRight
  <2>8. QED
    BY <2>6, <2>7
<1>4. QED
  BY <1>2, <1>3

\* The same induction as for headers.
PairsTo(t, f, n) ==
  \A q \in Nat : q + n > Len(t) => f[q] = PairsFrom(t, f, q) /\ PairsRight(t, q, f[q])

LEMMA PairsFurther ==
  ASSUME NEW t, Len(t) \in Nat, NEW n \in Nat, NEW f, PairsTo(t, f, n),
         NEW g, g = [q \in Nat |-> PairsFrom(t, f, q)]
  PROVE  PairsTo(t, g, n + 1)
<1> SUFFICES ASSUME NEW q \in Nat, q + (n + 1) > Len(t)
             PROVE  g[q] = PairsFrom(t, g, q) /\ PairsRight(t, q, g[q])
  BY DEF PairsTo
<1>1. PairsAhead(t, q, f, g)
  <2>1. ASSUME NEW r \in (q + 1)..Len(t)
        PROVE  f[r] = g[r] /\ PairsRight(t, r, f[r])
    <3>1. r \in Nat /\ r + n > Len(t)
      OBVIOUS
    <3>2. QED
      BY <3>1 DEF PairsTo
  <2>2. QED
    BY <2>1 DEF PairsAhead
<1>2. QED
  BY <1>1, PairsStepIs

\* From the end of the text there is nothing to read.
LEMMA PairsAtEnd ==
  ASSUME NEW t, Len(t) \in Nat, NEW f, f = [q \in Nat |-> PairsFrom(t, f, q)]
  PROVE  PairsTo(t, f, 0)
<1>1. ASSUME NEW q \in Nat, q + 0 > Len(t)
      PROVE  f[q] = PairsFrom(t, f, q) /\ PairsRight(t, q, f[q])
  <2>1. f[q] = PairsFrom(t, f, q)
    OBVIOUS
  <2>2. PairsAhead(t, q, f, f)
    <3>1. (q + 1)..Len(t) = {}
      BY <1>1
    <3>2. QED
      BY <3>1 DEF PairsAhead
  <2>3. QED
    BY <2>1, <2>2, PairsStepIs
<1>2. QED
  BY <1>1 DEF PairsTo

LEMMA PairsAre ==
  ASSUME NEW t, Len(t) \in Nat, NEW p \in 0..Len(t)
  PROVE  LET pairs[q \in Nat] == PairsFrom(t, pairs, q) IN PairsRight(t, p, pairs[p])
<1> DEFINE all == Len(t) + 1
           pairs == CHOOSE f : f = [q \in Nat |-> PairsFrom(t, f, q)]
<1>0. all \in Nat /\ p \in Nat /\ \A q \in Nat : q + all > Len(t)
  OBVIOUS
<1>1. \E f : PairsTo(t, f, 0)
  <2> DEFINE f == [q \in Nat |-> PairsFrom(t, <<>>, q)]
  <2>1. ASSUME NEW q \in Nat, q + 0 > Len(t)
        PROVE  f[q] = PairsFrom(t, f, q) /\ PairsRight(t, q, f[q])
    <3>1. f[q] = PairsFrom(t, <<>>, q)
      OBVIOUS
    <3>2. \A h : PairsAhead(t, q, <<>>, h)
      <4>1. (q + 1)..Len(t) = {}
        BY <2>1
      <4>2. QED
        BY <4>1 DEF PairsAhead
    <3> HIDE DEF f
    <3>3. QED
      BY <3>1, <3>2, PairsStepIs
  <2> HIDE DEF f
  <2>2. QED
    BY <2>1 DEF PairsTo
<1>2. ASSUME NEW n \in Nat, NEW f, PairsTo(t, f, n)
      PROVE  \E g : g = [q \in Nat |-> g[q]] /\ PairsTo(t, g, n + 1)
  <2> DEFINE g == [q \in Nat |-> PairsFrom(t, f, q)]
  <2>1. g = [q \in Nat |-> g[q]]
    OBVIOUS
  <2>2. PairsTo(t, g, n + 1)
    BY <1>2, PairsFurther
  <2> HIDE DEF g
  <2>3. QED
    BY <2>1, <2>2
<1>3. \E f : f = [q \in Nat |-> f[q]] /\ PairsTo(t, f, all)
  <2> DEFINE S == {n \in Nat : \E f : PairsTo(t, f, n)}
  <2>1. 0 \in S /\ \A n \in Nat : n \in S => n + 1 \in S
    BY <1>1, <1>2
  <2> HIDE DEF S
  <2>2. Len(t) \in S
    BY <2>1, Upwards
  <2>3. QED
    BY <2>2, <1>2 DEF S
<1>4. PICK f : f = [q \in Nat |-> f[q]] /\ PairsTo(t, f, all)
  BY <1>3
<1> HIDE DEF all
<1>5. f = [q \in Nat |-> PairsFrom(t, f, q)]
  <2>1. \A q \in Nat : f[q] = PairsFrom(t, f, q)
    BY <1>0, <1>4 DEF PairsTo
  <2>2. QED
    BY <1>4, <2>1
<1>6. pairs = [q \in Nat |-> PairsFrom(t, pairs, q)]
  BY <1>5
<1> HIDE DEF pairs
<1>7. PairsTo(t, pairs, all)
  <2> DEFINE S == {n \in Nat : PairsTo(t, pairs, n)}
  <2>1. 0 \in S /\ \A n \in Nat : n \in S => n + 1 \in S
    BY <1>6, PairsAtEnd, PairsFurther
  <2> HIDE DEF S
  <2>2. all \in S
    BY <1>0, <2>1, Upwards
  <2>3. QED
    BY <2>2 DEF S
<1>8. PairsRight(t, p, pairs[p])
  BY <1>0, <1>7 DEF PairsTo
<1>9. QED
  BY <1>8 DEF pairs

LEMMA BodyRedactedIs ==
  ASSUME NEW t, Len(t) \in Nat, NEW p \in 0..Len(t), NEW h \in BodyRedacted(t, p).fields
  PROVE  Shown(t, h)
<1> DEFINE q == IF At(t, p) = "{" THEN Skip(t, p + 1) ELSE p
           pairs == CHOOSE f : f = [r \in Nat |-> PairsFrom(t, f, r)]
           all == pairs[q]
<1>1. q \in 0..Len(t)
  <2>1. CASE At(t, p) = "{"
    <3>1. p \in Nat /\ p < Len(t)
      <4>1. p \in Nat
        OBVIOUS
      <4>2. QED
        BY <2>1, <4>1, AtInside
    <3>2. p + 1 \in 0..Len(t)
      BY <3>1
    <3>3. q \in (p + 1)..Len(t)
      BY <2>1, <3>2, SkipIs
    <3> HIDE DEF q
    <3>4. QED
      BY <3>3
  <2>2. CASE At(t, p) # "{"
    BY <2>2
  <2>3. QED
    BY <2>1, <2>2
<1> HIDE DEF q
<1>2. PairsRight(t, q, all)
  BY <1>1, PairsAre
<1> HIDE DEF all
<1>3. BodyRedacted(t, p).fields = all.fields
  <2>1. CASE all = Fail
    BY <2>1 DEF BodyRedacted, all, q
  <2>2. CASE all # Fail
    BY <2>2 DEF BodyRedacted, all, q, Parse
  <2>3. QED
    BY <2>1, <2>2
<1>4. Fail.fields = {}
  BY DEF Fail, Parse
<1>5. QED
  BY <1>2, <1>3, <1>4 DEF PairsRight

-----------------------------------------------------------------------------
\* A whole body, and a message.

LEMMA BodyFullIs ==
  ASSUME NEW t, Len(t) \in Nat, NEW p \in 0..Len(t), NEW h \in BodyFull(t, p).fields
  PROVE  Written(t, h)
<1> DEFINE chunked == At(t, p) \in Numbers
           start == IF chunked THEN RunEnd(t, p, Numbers \cup WHITESPACE) ELSE p
           json == Json(t, start, FALSE)
           last == Skip(t, json.end)
           whole == Field(<<>>, start, NoRange, json.span)
           end == IF chunked THEN last + 1 ELSE json.end
           refused == json = Fail \/ (chunked /\ At(t, last) # "0")
<1>0. Fail.fields = {}
  BY DEF Fail, Parse
<1>1. start \in Nat
  <2>1. "EOI" \notin Numbers \cup WHITESPACE
    BY Symbols, Spaces
  <2>2. RunEnd(t, p, Numbers \cup WHITESPACE) \in p..Len(t)
    BY <2>1, Scan
  <2> HIDE DEF chunked
  <2>3. CASE chunked
    <3>1. start = RunEnd(t, p, Numbers \cup WHITESPACE)
      BY <2>3
    <3> HIDE DEF start
    <3>2. QED
      BY <2>2, <3>1
  <2>4. CASE ~chunked
    BY <2>4
  <2>5. QED
    BY <2>3, <2>4
<1>2. BodyFull(t, p) = IF At(t, start) \in {"{", "["}
                       THEN IF refused THEN Fail ELSE Parse(end, json.span, json.fields \cup {whole})
                       ELSE Fail
  BY DEF BodyFull
<1> HIDE DEF start, refused, end
<1>3. ~refused /\ h \in json.fields \cup {whole}
  <2>1. BodyFull(t, p) # Fail
    BY <1>0
  <2>2. ~refused /\ BodyFull(t, p) = Parse(end, json.span, json.fields \cup {whole})
    BY <1>2, <2>1
  <2> HIDE DEF json, whole
  <2>3. BodyFull(t, p).fields = json.fields \cup {whole}
    BY <2>2 DEF Parse
  <2>4. QED
    BY <2>2, <2>3
<1>4. json # Fail
  BY <1>3 DEF refused
<1>5. Sound(t, FALSE, "value", start, json)
  BY <1>1, JsonIs
<1> HIDE DEF json
<1>6. /\ json.end \in (start + 1)..Len(t) /\ Within(json, start, json.end)
      /\ \A f \in json.fields : Written(t, f)
  BY <1>4, <1>5 DEF Sound
<1>7. Written(t, whole)
  <2>1. whole.key = NoRange /\ whole.value = json.span
    BY DEF Field
  <2> HIDE DEF whole
  <2>2. /\ json.span.start \in Nat /\ json.span.end \in Nat
        /\ json.span.start <= json.span.end /\ json.span.end <= Len(t)
    BY <1>1, <1>6 DEF Within
  <2>3. QED
    BY <2>1, <2>2 DEF Written
<1>8. QED
  BY <1>3, <1>6, <1>7

LEMMA MessageIs ==
  ASSUME NEW t, Len(t) \in Nat, NEW line \in {RequestLine, StatusLine}, Message(t, line).ok
  PROVE  /\ Len(t) >= 5 /\ \A i \in 1..3 : At(t, 2 * i - 2) \in line[i]
         /\ \A h \in Message(t, line).headers : HeaderWritten(t, h)
         /\ Message(t, line).full => \A h \in Message(t, line).fields : Written(t, h)
         /\ ~Message(t, line).full => \A h \in Message(t, line).fields : Shown(t, h)
<1> DEFINE headers == Headers(t, Skip(t, 5))
           start == Skip(t, headers.end)
           full == BodyFull(t, start)
           body == IF full # Fail THEN full ELSE BodyRedacted(t, start)
           m == Message(t, line)
<1>1. /\ m.ok => \A i \in 1..3 : At(t, 2 * i - 2) \in line[i]
      /\ m.headers = headers.fields /\ m.full = (full # Fail) /\ m.fields = body.fields
  BY DEF Message
<1> HIDE DEF m
<1>2. \A i \in 1..3 : At(t, 2 * i - 2) \in line[i]
  BY <1>1 DEF m
<1>3. Len(t) >= 5
  <2>1. At(t, 4) \in line[3]
    <3>1. 3 \in 1..3 /\ 2 * 3 - 2 = 4
      OBVIOUS
    <3>2. QED
      BY <1>2, <3>1
  <2>2. line[3] \in {{"HTTP/1.1"}, {"OK"}}
    BY DEF RequestLine, StatusLine
  <2>3. At(t, 4) # "EOI"
    BY <2>1, <2>2
  <2>4. 4 < Len(t)
    BY <2>3, AtInside
  <2>5. QED
    BY <2>4
<1>4. HeadersRight(t, Skip(t, 5), headers) /\ Skip(t, 5) \in 5..Len(t)
  <2>1. 5 \in 0..Len(t)
    BY <1>3
  <2>2. Skip(t, 5) \in 5..Len(t)
    BY <2>1, SkipIs
  <2>3. Skip(t, 5) \in 0..Len(t)
    BY <2>2
  <2>4. QED
    BY <2>2, <2>3, HeadersIs
<1> HIDE DEF headers
<1>5. /\ headers.end \in 0..Len(t) /\ \A h \in headers.fields : HeaderWritten(t, h)
  BY <1>4 DEF HeadersRight
<1>6. start \in 0..Len(t)
  <2>1. start \in headers.end..Len(t)
    BY <1>5, SkipIs
  <2> HIDE DEF start
  <2>2. QED
    BY <1>5, <2>1
<1> HIDE DEF start
<1>7. m.full => \A h \in m.fields : Written(t, h)
  BY <1>1, <1>6, BodyFullIs
<1>8. ~m.full => \A h \in m.fields : Shown(t, h)
  BY <1>1, <1>6, BodyRedactedIs
<1>9. QED
  BY <1>1, <1>2, <1>3, <1>5, <1>7, <1>8 DEF m

\* What reveal.rs counts on when it widens a range by fixed amounts, of every text that
\* parse_standard_request or parse_standard_response accepts, however deep it nests: the line takes
\* the first five symbols; a header's value is behind its name, ": " and before a newline; a key is
\* behind a quote or white space, with nothing but a quote, a colon and white space up to its value.
THEOREM StandardRanges ==
  ASSUME NEW t, Len(t) \in Nat, NEW line \in {RequestLine, StatusLine}, ParseStandard(t, line).ok
  PROVE  /\ Len(t) >= 5 /\ \A i \in 1..3 : At(t, 2 * i - 2) \in line[i]
         /\ \A h \in ParseStandard(t, line).headers : HeaderWritten(t, h) /\ h.value # NoRange
         /\ \A h \in ParseStandard(t, line).fields : Written(t, h)
<1> DEFINE m == Message(t, line)
<1>1. /\ m.ok /\ \A h \in m.headers : h.value # NoRange
      /\ ParseStandard(t, line).headers = m.headers
      /\ ParseStandard(t, line).fields = IF m.full THEN m.fields ELSE {}
  BY DEF ParseStandard
<1>2. QED
  BY <1>1, MessageIs

\* What extract_balance counts on, of every text that parse_redacted_response accepts, wherever it is
\* hidden: a pair is a quoted key, a colon, and its value right behind, with no hidden symbol among them.
THEOREM RedactedPairs ==
  ASSUME NEW t, Len(t) \in Nat, NEW line \in {RequestLine, StatusLine}, ParseRedacted(t, line).ok,
         NEW h \in ParseRedacted(t, line).fields
  PROVE  Shown(t, h)
<1> DEFINE m == Message(t, line)
<1>1. m.ok /\ ParseRedacted(t, line).fields = IF m.full THEN {} ELSE m.fields
  BY DEF ParseRedacted
<1> HIDE DEF m
<1>2. ~m.full /\ h \in m.fields
  BY <1>1
<1>3. QED
  BY <1>1, <1>2, MessageIs DEF m

-----------------------------------------------------------------------------
\* What one rule reveals, and what it commits to.
Reveals(x, o) ==
  \/ x.what = "header" /\ x.do = "reveal" /\ o.part = "header" /\ LowerCase[x.rule] = o.name
  \/ x.what = "body" /\ x.do = "reveal" /\ Covers(x.rule, o)
  \/ x.what = "key-value" /\ o.part = "key" /\ x.rule.path = o.path
Commits(x, o) ==
  \/ x.what = "header" /\ x.do = "commit" /\ o.part = "header" /\ LowerCase[x.rule] = o.name
  \/ x.what = "body" /\ x.do = "commit" /\ Covers(x.rule, o)
  \/ x.what = "key-value" /\ o.part = "value" /\ IsPrefix(x.rule.path, o.path)

\* The rules of a direction, a rule that has been carried out, and all of them.
Asked(d) == Items(Rules(config[d]))
Carried(d, x) ==
  \A p \in Content(d) :
    /\ Reveals(x, Owner(d, p)) => p \in revealed[d]
    /\ Commits(x, Owner(d, p)) => \E r \in committed[d] : p \in Span(r)
LineShown(d) == \A p \in Content(d) : Owner(d, p).part = "line" => p \in revealed[d]
Done(d) == LineShown(d) /\ \A x \in Asked(d) : Carried(d, x)

\* The ranges that are right for a rule: each a range, those to reveal around the
\* words the rule names and no others, those to commit to around what it commits to.
Answers(d, x, reveal, commit) ==
  /\ \A r \in reveal \cup commit : r.start \in Nat /\ r.end \in Nat /\ r.start <= r.end
  /\ \A p \in Content(d) :
       /\ Reveals(x, Owner(d, p)) <=> \E r \in reveal : p \in Span(r)
       /\ Commits(x, Owner(d, p)) => \E r \in commit : p \in Span(r)

\* What the program is given.
Shape ==
  /\ \A d \in Directions : IsList(text(d)) /\ WellFormed(config[d])

\* Each rule of the message at work is still to apply or has been carried out.
RulesLeft ==
  pc = "rules" =>
    /\ IsList(todo) /\ Items(todo) \subseteq Asked(direction)
    /\ LineShown(direction)
    /\ \A x \in Asked(direction) : x \in Items(todo) \/ Carried(direction, x)

\* The ranges at hand are those of the message at work.
RangesAreOwned ==
  pc = "rules" /\ todo # <<>> =>
    HeadersAreOwned(direction, fields.headers) /\ FieldsAreOwned(direction, fields.body)

\* The request is through before the response, and both before the proof.
Finished ==
  /\ direction = "Received" => Done("Sent")
  /\ Proved => direction = "Received" /\ Done("Received")

IInv == Shape /\ TypeOK /\ RulesLeft /\ RangesAreOwned /\ Finished /\ OnlyNamedIsLegible

-----------------------------------------------------------------------------
\* Lists.

\* The items of two lists joined are those of each.
LEMMA ListConcat ==
  ASSUME NEW s, NEW t, IsList(s), IsList(t)
  PROVE  IsList(s \o t) /\ Items(s \o t) = Items(s) \cup Items(t)
<1> DEFINE U == Items(s) \cup Items(t)
<1>1. s \in Seq(U) /\ t \in Seq(U)
  BY DEF IsList
<1>2. /\ s \o t \in Seq(U) /\ Len(s \o t) = Len(s) + Len(t)
      /\ \A i \in 1..(Len(s) + Len(t)) : (s \o t)[i] = IF i <= Len(s) THEN s[i] ELSE t[i - Len(s)]
  BY <1>1, ConcatProperties
<1>3. /\ DOMAIN s = 1..Len(s) /\ DOMAIN t = 1..Len(t) /\ DOMAIN (s \o t) = 1..(Len(s) + Len(t))
      /\ Len(s) \in Nat /\ Len(t) \in Nat
  BY <1>1, <1>2
<1>4. Items(s \o t) \subseteq U
  BY <1>2, <1>3, ElementOfSeq DEF Items
<1>5. Items(s) \subseteq Items(s \o t)
  <2> SUFFICES ASSUME NEW i \in 1..Len(s) PROVE s[i] \in Items(s \o t)
    BY <1>3 DEF Items
  <2>1. i \in 1..(Len(s) + Len(t)) /\ (s \o t)[i] = s[i]
    BY <1>2, <1>3
  <2>2. QED
    BY <2>1, <1>3 DEF Items
<1>6. Items(t) \subseteq Items(s \o t)
  <2> SUFFICES ASSUME NEW i \in 1..Len(t) PROVE t[i] \in Items(s \o t)
    BY <1>3 DEF Items
  <2>1. (Len(s) + i) \in 1..(Len(s) + Len(t)) /\ (s \o t)[Len(s) + i] = t[i]
    BY <1>2, <1>3
  <2>2. QED
    BY <2>1, <1>3 DEF Items
<1>7. Items(s \o t) = U
  BY <1>4, <1>5, <1>6
<1>8. QED
  BY <1>2, <1>7 DEF IsList

\* The first item and the rest.
LEMMA ListTail ==
  ASSUME NEW s, IsList(s), s # <<>>
  PROVE  /\ IsList(Tail(s)) /\ Head(s) \in Items(s)
         /\ Items(s) = {Head(s)} \cup Items(Tail(s))
<1>1. /\ Len(s) \in Nat \ {0} /\ DOMAIN s = 1..Len(s) /\ Head(s) = s[1]
      /\ Tail(s) \in Seq(Items(s)) /\ Len(Tail(s)) = Len(s) - 1
      /\ \A i \in 1..Len(Tail(s)) : Tail(s)[i] = s[i + 1]
  BY HeadTailProperties, EmptySeq DEF IsList
<1>2. DOMAIN Tail(s) = 1..Len(Tail(s))
  BY <1>1
<1>3. Head(s) \in Items(s)
  BY <1>1 DEF Items
<1>4. Items(s) \subseteq {Head(s)} \cup Items(Tail(s))
  <2> SUFFICES ASSUME NEW i \in 1..Len(s), i # 1 PROVE s[i] \in Items(Tail(s))
    BY <1>1 DEF Items
  <2>1. (i - 1) \in 1..Len(Tail(s)) /\ (i - 1) + 1 = i
    BY <1>1
  <2>2. QED
    BY <2>1, <1>1, <1>2 DEF Items
<1>5. Items(Tail(s)) \subseteq Items(s)
  BY <1>1, <1>2 DEF Items
<1>6. Tail(s) \in Seq(Items(Tail(s)))
  <2>1. \A i \in 1..Len(Tail(s)) : Tail(s)[i] \in Items(Tail(s))
    BY <1>2 DEF Items
  <2>2. Tail(s) = [i \in 1..Len(Tail(s)) |-> Tail(s)[i]] /\ Len(Tail(s)) \in Nat
    BY <1>1, LenProperties
  <2> DEFINE u == Tail(s)
  <2> HIDE DEF u
  <2>3. [i \in 1..Len(u) |-> u[i]] \in Seq(Items(u))
    BY <2>1, <2>2 DEF u
  <2>4. QED
    BY <2>2, <2>3 DEF u
<1>7. QED
  BY <1>3, <1>4, <1>5, <1>6 DEF IsList

\* A kind of rules of a config, in the list that is worked off.
LEMMA TaggedItems ==
  ASSUME NEW list, NEW what, NEW do, IsList(list)
  PROVE  /\ IsList(Tagged(what, do, list))
         /\ Items(Tagged(what, do, list)) =
              {[what |-> what, do |-> do, rule |-> x] : x \in Items(list)}
<1> DEFINE T == Tagged(what, do, list)
<1>1. DOMAIN list = 1..Len(list) /\ Len(list) \in Nat
  BY DEF IsList
<1>2. DOMAIN T = 1..Len(list) /\ \A i \in 1..Len(list) : T[i] = [what |-> what, do |-> do, rule |-> list[i]]
  BY <1>1 DEF Tagged
<1>3. Items(T) = {[what |-> what, do |-> do, rule |-> x] : x \in Items(list)}
  BY <1>1, <1>2 DEF Items
<1>4. T \in Seq(Items(T))
  <2>1. T = [i \in 1..Len(list) |-> [what |-> what, do |-> do, rule |-> list[i]]]
    BY <1>1 DEF Tagged
  <2>2. \A i \in 1..Len(list) : [what |-> what, do |-> do, rule |-> list[i]] \in Items(T)
    BY <1>1, <1>2 DEF Items
  <2> HIDE DEF T
  <2>3. QED
    BY <2>1, <2>2, <1>1
<1>5. QED
  BY <1>3, <1>4 DEF IsList

\* Rules(c) holds each rule of c, under its kind.
LEMMA RulesOf ==
  ASSUME NEW c, WellFormed(c)
  PROVE  /\ IsList(Rules(c))
         /\ Items(Rules(c)) =
              {[what |-> "header", do |-> "reveal", rule |-> x] : x \in Items(c.reveal_headers)}
              \cup {[what |-> "header", do |-> "commit", rule |-> x] : x \in Items(c.commit_headers)}
              \cup {[what |-> "body", do |-> "reveal", rule |-> x] : x \in Items(c.reveal_body_fields)}
              \cup {[what |-> "body", do |-> "commit", rule |-> x] : x \in Items(c.commit_body_fields)}
              \cup {[what |-> "key-value", do |-> "both", rule |-> x] :
                      x \in Items(c.reveal_keys_commit_values)}
<1> DEFINE A == Tagged("header", "reveal", c.reveal_headers)
           B == Tagged("header", "commit", c.commit_headers)
           C == Tagged("body", "reveal", c.reveal_body_fields)
           D == Tagged("body", "commit", c.commit_body_fields)
           E == Tagged("key-value", "both", c.reveal_keys_commit_values)
<1>1. /\ IsList(A) /\ IsList(B) /\ IsList(C) /\ IsList(D) /\ IsList(E)
      /\ Items(A) = {[what |-> "header", do |-> "reveal", rule |-> x] : x \in Items(c.reveal_headers)}
      /\ Items(B) = {[what |-> "header", do |-> "commit", rule |-> x] : x \in Items(c.commit_headers)}
      /\ Items(C) = {[what |-> "body", do |-> "reveal", rule |-> x] : x \in Items(c.reveal_body_fields)}
      /\ Items(D) = {[what |-> "body", do |-> "commit", rule |-> x] : x \in Items(c.commit_body_fields)}
      /\ Items(E) = {[what |-> "key-value", do |-> "both", rule |-> x] :
                       x \in Items(c.reveal_keys_commit_values)}
  BY TaggedItems DEF WellFormed
<1>2. Rules(c) = A \o B \o C \o D \o E
  BY DEF Rules
<1> HIDE DEF A, B, C, D, E
<1>3. IsList(A \o B) /\ Items(A \o B) = Items(A) \cup Items(B)
  BY <1>1, ListConcat
<1>4. IsList(A \o B \o C) /\ Items(A \o B \o C) = Items(A \o B) \cup Items(C)
  BY <1>1, <1>3, ListConcat
<1>5. IsList(A \o B \o C \o D) /\ Items(A \o B \o C \o D) = Items(A \o B \o C) \cup Items(D)
  BY <1>1, <1>4, ListConcat
<1>6. IsList(A \o B \o C \o D \o E)
      /\ Items(A \o B \o C \o D \o E) = Items(A \o B \o C \o D) \cup Items(E)
  BY <1>1, <1>5, ListConcat
<1>7. Items(Rules(c)) = Items(A) \cup Items(B) \cup Items(C) \cup Items(D) \cup Items(E)
  BY <1>2, <1>3, <1>4, <1>5, <1>6
<1>8. QED
  BY <1>1, <1>2, <1>6, <1>7

\* What the properties say of a config is what its rules say one by one.
LEMMA RuleByRule ==
  ASSUME NEW c, NEW o, WellFormed(c)
  PROVE  /\ Legible(c, o) <=> o.part = "line" \/ \E x \in Items(Rules(c)) : Reveals(x, o)
         /\ Secret(c, o) <=> \E x \in Items(Rules(c)) : Commits(x, o)
<1> DEFINE R == Items(Rules(c))
<1>1. /\ \A x \in Items(c.reveal_headers) : [what |-> "header", do |-> "reveal", rule |-> x] \in R
      /\ \A x \in Items(c.commit_headers) : [what |-> "header", do |-> "commit", rule |-> x] \in R
      /\ \A x \in Items(c.reveal_body_fields) : [what |-> "body", do |-> "reveal", rule |-> x] \in R
      /\ \A x \in Items(c.commit_body_fields) : [what |-> "body", do |-> "commit", rule |-> x] \in R
      /\ \A x \in Items(c.reveal_keys_commit_values) :
           [what |-> "key-value", do |-> "both", rule |-> x] \in R
  BY RulesOf
<1>2. ASSUME NEW x \in R
      PROVE  \/ x.what = "header" /\ x.do = "reveal" /\ x.rule \in Items(c.reveal_headers)
             \/ x.what = "header" /\ x.do = "commit" /\ x.rule \in Items(c.commit_headers)
             \/ x.what = "body" /\ x.do = "reveal" /\ x.rule \in Items(c.reveal_body_fields)
             \/ x.what = "body" /\ x.do = "commit" /\ x.rule \in Items(c.commit_body_fields)
             \/ x.what = "key-value" /\ x.do = "both" /\ x.rule \in Items(c.reveal_keys_commit_values)
  BY RulesOf
<1> HIDE DEF R
<1>3. Legible(c, o) => o.part = "line" \/ \E x \in R : Reveals(x, o)
  BY <1>1 DEF Legible, Reveals
<1>4. (o.part = "line" \/ \E x \in R : Reveals(x, o)) => Legible(c, o)
  BY <1>2 DEF Legible, Reveals
<1>5. Secret(c, o) => \E x \in R : Commits(x, o)
  BY <1>1 DEF Secret, Commits
<1>6. (\E x \in R : Commits(x, o)) => Secret(c, o)
  BY <1>2 DEF Secret, Commits
<1>7. QED
  BY <1>3, <1>4, <1>5, <1>6 DEF R

-----------------------------------------------------------------------------
\* The ranges of each kind of rule.

\* The positions in a range between two numbers.
LEMMA SpanIs ==
  ASSUME NEW a \in Int, NEW b \in Int
  PROVE  Span(To(a, b)) = a..(b - 1)
  BY DEF Span, To

\* A range of the text, as its two ends.
LEMMA RangeIs ==
  ASSUME NEW d, NEW r \in Ranges(d), IsList(text(d))
  PROVE  /\ r.start \in Nat /\ r.end \in Nat /\ r.start <= r.end /\ r.end <= Len(text(d))
         /\ Span(r) = r.start..(r.end - 1)
<1>1. Len(text(d)) \in Nat
  BY DEF IsList
<1>2. QED
  BY <1>1 DEF Ranges, Span

\* The larger of two.
LEMMA MaxIs ==
  ASSUME NEW a \in Nat, NEW b \in Nat
  PROVE  Max({a, b}) \in Nat /\ Max({a, b}) >= a /\ Max({a, b}) >= b
<1>1. \E m \in {a, b} : \A y \in {a, b} : m >= y
  <2>1. CASE a >= b
    BY <2>1
  <2>2. CASE b >= a
    BY <2>2
  <2>3. QED
    BY <2>1, <2>2
<1>2. QED
  BY <1>1 DEF Max

\* Where content is.
LEMMA ContentIs ==
  ASSUME NEW d, NEW p \in Content(d), IsList(text(d))
  PROVE  p \in Nat /\ p < Len(text(d)) /\ Len(text(d)) \in Nat
<1>1. Len(text(d)) \in Nat
  BY DEF IsList
<1>2. p \in 0..(Len(text(d)) - 1)
  BY Zenon DEF Content
<1>3. QED
  BY <1>1, <1>2

\* header_full_range takes in the header's words and no others; every header
\* of the name is matched.
LEMMA HeaderAnswers ==
  ASSUME NEW d, NEW x, NEW headers, IsList(text(d)), HeadersAreOwned(d, headers),
         x.what = "header", x.do \in {"reveal", "commit"},
         NEW ranges,
         ranges = {header_full_range(h.at, h.value) : h \in {h \in headers : h.name = LowerCase[x.rule]}}
  PROVE  /\ x.do = "reveal" => Answers(d, x, ranges, {})
         /\ x.do = "commit" => Answers(d, x, {}, ranges)
<1> DEFINE mine == {h \in headers : h.name = LowerCase[x.rule]}
<1>1. ASSUME NEW h \in headers
      PROVE  /\ h.at.start \in Nat /\ h.at.end \in Nat /\ h.value.start \in Nat /\ h.value.end \in Nat
             /\ h.at.start <= h.at.end /\ h.at.end <= h.value.start /\ h.value.start <= h.value.end
             /\ Span(h.at) = h.at.start..(h.at.end - 1)
             /\ Span(h.value) = h.value.start..(h.value.end - 1)
             /\ header_full_range(h.at, h.value) = To(h.at.start, h.value.end + 1)
  <2>1. h.at \in Ranges(d) /\ h.value \in Ranges(d) /\ h.at.end <= h.value.start
    BY DEF HeadersAreOwned
  <2>2. QED
    BY <2>1, RangeIs DEF header_full_range
<1>2. ASSUME NEW h \in headers, NEW p \in Content(d)
      PROVE  p \in Span(header_full_range(h.at, h.value)) <=> p \in Span(h.at) \cup Span(h.value)
  <2>1. /\ p < h.at.end \/ p > h.value.start - 1
        /\ p < h.value.end \/ p > h.value.end
    BY DEF HeadersAreOwned, Silent
  <2>2. Span(header_full_range(h.at, h.value)) = h.at.start..h.value.end
    <3>1. h.at.start \in Int /\ h.value.end + 1 \in Int /\ (h.value.end + 1) - 1 = h.value.end
      BY <1>1
    <3>2. Span(To(h.at.start, h.value.end + 1)) = h.at.start..((h.value.end + 1) - 1)
      BY <3>1, SpanIs, Zenon
    <3>3. QED
      BY <1>1, <3>1, <3>2
  <2>3. p \in Nat
    BY ContentIs
  <2>4. QED
    BY <1>1, <2>1, <2>2, <2>3, SMTT(30)
<1>3. ASSUME NEW p \in Content(d)
      PROVE  (Owner(d, p).part = "header" /\ LowerCase[x.rule] = Owner(d, p).name)
               <=> \E r \in ranges : p \in Span(r)
  <2>1. /\ \A h \in headers : p \in Span(h.at) \cup Span(h.value) =>
             Owner(d, p).part = "header" /\ Owner(d, p).name = h.name
        /\ Owner(d, p).part = "header" => \E h \in headers : p \in Span(h.at) \cup Span(h.value)
    BY DEF HeadersAreOwned
  <2>2. ASSUME Owner(d, p).part = "header", LowerCase[x.rule] = Owner(d, p).name
        PROVE  \E r \in ranges : p \in Span(r)
    <3>1. PICK h \in headers : p \in Span(h.at) \cup Span(h.value)
      BY <2>1, <2>2
    <3>2. h.name = LowerCase[x.rule] /\ p \in Span(header_full_range(h.at, h.value))
      BY <1>2, <2>1, <2>2, <3>1
    <3>3. QED
      BY <3>2
  <2>3. ASSUME NEW r \in ranges, p \in Span(r)
        PROVE  Owner(d, p).part = "header" /\ LowerCase[x.rule] = Owner(d, p).name
    <3>1. PICK h \in headers : h.name = LowerCase[x.rule] /\ r = header_full_range(h.at, h.value)
      OBVIOUS
    <3>2. p \in Span(h.at) \cup Span(h.value)
      BY <1>2, <2>3, <3>1
    <3>3. QED
      BY <2>1, <3>1, <3>2
  <2>4. QED
    BY <2>2, <2>3
<1>4. \A r \in ranges : r.start \in Nat /\ r.end \in Nat /\ r.start <= r.end
  <2> SUFFICES ASSUME NEW h \in headers
               PROVE  LET r == header_full_range(h.at, h.value)
                      IN  r.start \in Nat /\ r.end \in Nat /\ r.start <= r.end
    OBVIOUS
  <2>1. To(h.at.start, h.value.end + 1) = [start |-> h.at.start, end |-> h.value.end + 1]
    BY DEF To
  <2>2. QED
    BY <1>1, <2>1
<1>5. QED
  BY <1>3, <1>4 DEF Answers, Reveals, Commits

\* What an entry that a rule asks for is, whatever its kind.
LEMMA EntryIs ==
  ASSUME NEW d, NEW entries, NEW path \in AskedFor(config[d]), NEW f \in Entry(entries, path),
         IsList(text(d)), FieldsAreOwned(d, entries)
  PROVE  /\ f.path = path
         /\ f.key.start \in Nat /\ f.key.end \in Nat /\ f.value.start \in Nat /\ f.value.end \in Nat
         /\ f.key.start <= f.key.end /\ f.value.start <= f.value.end
         /\ f.value.end <= Len(text(d))
         /\ Span(f.key) = f.key.start..(f.key.end - 1)
         /\ Span(f.value) = f.value.start..(f.value.end - 1)
         /\ f.key # NoRange => f.key.start > 0 /\ f.key.end + 2 <= f.value.start
         /\ \A p \in Content(d) :
              /\ p \in Nat
              /\ f.key # NoRange => /\ p # f.key.start - 1
                                    /\ p < f.key.end \/ p > f.value.start - 1
                                    /\ p # f.value.end
              /\ p \in Span(f.key) <=> Owner(d, p).part = "key" /\ Owner(d, p).path = path
              /\ p \in Span(f.key) \cup Span(f.value) <=> Covers(f, Owner(d, p))
<1>1. f.path = path
  BY DEF Entry
<1>2. f.key \in Ranges(d) /\ f.value \in Ranges(d)
  BY DEF FieldsAreOwned
<1>3. /\ f.key # NoRange => f.key.start > 0 /\ f.key.end + 2 <= f.value.start
      /\ f.key # NoRange => /\ Silent(d, f.key.start - 1, f.key.start - 1)
                            /\ Silent(d, f.key.end, f.value.start - 1)
                            /\ Silent(d, f.value.end, f.value.end)
      /\ \A p \in Content(d) :
           /\ p \in Span(f.key) <=> Owner(d, p).part = "key" /\ Owner(d, p).path = path
           /\ p \in Span(f.key) \cup Span(f.value) <=> Covers(f, Owner(d, p))
  BY DEF FieldsAreOwned
<1>4. /\ f.key.start \in Nat /\ f.key.end \in Nat /\ f.value.start \in Nat /\ f.value.end \in Nat
      /\ f.key.start <= f.key.end /\ f.value.start <= f.value.end
      /\ f.value.end <= Len(text(d))
      /\ Span(f.key) = f.key.start..(f.key.end - 1)
      /\ Span(f.value) = f.value.start..(f.value.end - 1)
  BY <1>2, RangeIs
<1>5. ASSUME NEW p \in Content(d)
      PROVE  /\ p \in Nat
             /\ f.key # NoRange => /\ p # f.key.start - 1
                                   /\ p < f.key.end \/ p > f.value.start - 1
                                   /\ p # f.value.end
  <2>1. p \in Nat
    BY ContentIs
  <2>2. CASE f.key # NoRange
    <3>1. /\ p < f.key.start - 1 \/ p > f.key.start - 1
          /\ p < f.key.end \/ p > f.value.start - 1
          /\ p < f.value.end \/ p > f.value.end
      BY <1>3, <2>2, Zenon DEF Silent
    <3>2. p # f.key.start - 1 /\ p # f.value.end
      BY <1>4, <2>1, <3>1
    <3>3. QED
      BY <2>1, <3>1, <3>2
  <2>3. QED
    BY <2>1, <2>2
<1>6. QED
  BY <1>1, <1>3, <1>4, <1>5

\* A pair widened by its quotes: no more than key and value, to who is at none of the
\* positions around them.
LEMMA Widened ==
  ASSUME NEW ks \in Nat, NEW ke \in Nat, NEW vs \in Nat, NEW ve \in Nat, NEW e,
         e = ve \/ e = ve + 1, 0 < ks, ks <= ke, ke + 2 <= vs, vs <= ve
  PROVE  /\ e \in Nat /\ ks - 1 \in Nat /\ ks - 1 <= e
         /\ \A p \in Nat : (p # ks - 1 /\ (p < ke \/ p > vs - 1) /\ p # ve) =>
              (p \in (ks - 1)..(e - 1) <=> p \in ks..(ke - 1) \cup vs..(ve - 1))
<1>1. CASE e = ve
  BY <1>1
<1>2. CASE e = ve + 1
  BY <1>2
<1>3. QED
  BY <1>1, <1>2

\* selection_range takes in the words of the field and no others: a `quoted'
\* rule over a number discloses a symbol that says nothing.
LEMMA BodyAnswers ==
  ASSUME NEW d, NEW x, NEW entries, IsList(text(d)), FieldsAreOwned(d, entries),
         x.what = "body", x.do \in {"reveal", "commit"}, x.rule.path \in AskedFor(config[d]),
         Entry(entries, x.rule.path) # {},
         NEW ranges, ranges = {selection_range(x.rule, f) : f \in Entry(entries, x.rule.path)}
  PROVE  /\ x.do = "reveal" => Answers(d, x, ranges, {})
         /\ x.do = "commit" => Answers(d, x, {}, ranges)
<1>1. ASSUME NEW f \in Entry(entries, x.rule.path)
      PROVE  LET r == selection_range(x.rule, f)
             IN  /\ r.start \in Nat /\ r.end \in Nat /\ r.start <= r.end
                 /\ \A p \in Content(d) : p \in Span(r) <=> Covers(x.rule, Owner(d, p))
  <2> DEFINE r == selection_range(x.rule, f)
  <2>1. \A p \in Content(d) : Covers(x.rule, Owner(d, p)) <=> p \in Span(f.key) \cup Span(f.value)
    <3>1. f.path = x.rule.path
      BY EntryIs
    <3>2. \A o : Covers(f, o) <=> Covers(x.rule, o)
      BY <3>1 DEF Covers
    <3>3. QED
      BY <3>2, EntryIs
  <2>2. CASE f.key = NoRange
    <3>1. r = f.value /\ Span(f.key) = {}
      <4>1. 0..(0 - 1) = {}
        OBVIOUS
      <4>2. QED
        BY <2>2, <4>1, EntryIs DEF selection_range, NoRange, To
    <3>2. QED
      BY <2>1, <3>1, EntryIs
  <2>3. CASE f.key # NoRange
    <3>0. /\ f.key.start \in Nat /\ f.key.end \in Nat /\ f.value.start \in Nat /\ f.value.end \in Nat
          /\ f.key.start <= f.key.end /\ f.value.start <= f.value.end
          /\ 0 < f.key.start /\ f.key.end + 2 <= f.value.start
          /\ Span(f.key) = f.key.start..(f.key.end - 1)
          /\ Span(f.value) = f.value.start..(f.value.end - 1)
      BY <2>3, EntryIs
    <3>1. PICK e : (e = f.value.end \/ e = f.value.end + 1) /\ r = To(f.key.start - 1, e)
      BY <2>3 DEF selection_range, full_pair_quoted, full_pair_unquoted
    <3> HIDE DEF r
    <3>2. /\ e \in Nat /\ f.key.start - 1 \in Nat /\ f.key.start - 1 <= e
          /\ \A p \in Nat : (p # f.key.start - 1 /\ (p < f.key.end \/ p > f.value.start - 1) /\ p # f.value.end) =>
               (p \in (f.key.start - 1)..(e - 1)
                  <=> p \in f.key.start..(f.key.end - 1) \cup f.value.start..(f.value.end - 1))
      <4>1. /\ f.key.start \in Nat /\ f.key.end \in Nat /\ f.value.start \in Nat /\ f.value.end \in Nat
            /\ 0 < f.key.start /\ f.key.start <= f.key.end
            /\ f.key.end + 2 <= f.value.start /\ f.value.start <= f.value.end
        BY <3>0
      <4>2. e = f.value.end \/ e = f.value.end + 1
        BY <3>1
      <4>3. QED
        BY <4>1, <4>2, Widened
    <3>3. ASSUME NEW p \in Content(d)
          PROVE  p \in Span(r) <=> p \in Span(f.key) \cup Span(f.value)
      <4>1. /\ p \in Nat /\ p # f.key.start - 1 /\ p # f.value.end
            /\ p < f.key.end \/ p > f.value.start - 1
        BY <2>3, EntryIs
      <4>2. f.key.start - 1 \in Int /\ e \in Int
        BY <3>2
      <4>3. Span(To(f.key.start - 1, e)) = (f.key.start - 1)..(e - 1)
        BY <4>2, SpanIs, Zenon
      <4>4. QED
        BY <3>0, <3>1, <3>2, <4>1, <4>3
    <3>4. r.start = f.key.start - 1 /\ r.end = e
      BY <3>1 DEF To
    <3>5. QED
      BY <2>1, <3>2, <3>3, <3>4 DEF r
  <2>4. QED
    BY <2>2, <2>3
<1>2. \A r \in ranges : /\ r.start \in Nat /\ r.end \in Nat /\ r.start <= r.end
                        /\ \A p \in Content(d) : p \in Span(r) <=> Covers(x.rule, Owner(d, p))
  BY <1>1
<1>3. ranges # {}
  OBVIOUS
<1>4. QED
  BY <1>2, <1>3 DEF Answers, Reveals, Commits

\* with_quotes_and_colon stays off the value, and value_range, padded or not,
\* takes all of it in.
LEMMA KeyValueAnswers ==
  ASSUME NEW d, NEW x, NEW entries, IsList(text(d)), FieldsAreOwned(d, entries),
         x.what = "key-value", x.rule.path \in AskedFor(config[d]), x.rule.length \in Nat,
         Entry(entries, x.rule.path) # {},
         \A f \in Entry(entries, x.rule.path) : f.key # NoRange
  PROVE  Answers(d, x, {with_quotes_and_colon(f.key) : f \in Entry(entries, x.rule.path)},
                       {value_range(x.rule, f.value) : f \in Entry(entries, x.rule.path)})
<1>1. ASSUME NEW f \in Entry(entries, x.rule.path)
      PROVE  LET r == with_quotes_and_colon(f.key)
             IN  /\ r.start \in Nat /\ r.end \in Nat /\ r.start <= r.end
                 /\ \A p \in Content(d) : p \in Span(r) <=>
                      Owner(d, p).part = "key" /\ x.rule.path = Owner(d, p).path
  <2> DEFINE r == with_quotes_and_colon(f.key)
  <2>1. r = To(f.key.start - 1, f.key.end + 2)
    <3>1. r = To(f.key.start + (-1), f.key.end + 2)
      BY DEF with_quotes_and_colon, adjust
    <3>2. f.key.start + (-1) = f.key.start - 1
      BY EntryIs
    <3>3. QED
      BY <3>1, <3>2
  <2>2. /\ f.key.start - 1 \in Nat /\ f.key.end + 2 \in Nat /\ f.key.start - 1 <= f.key.end + 2
        /\ Span(r) = (f.key.start - 1)..(f.key.end + 1)
    <3>1. /\ f.key.start - 1 \in Nat /\ f.key.end + 2 \in Nat /\ f.key.start - 1 <= f.key.end + 2
          /\ f.key.start - 1 \in Int /\ f.key.end + 2 \in Int /\ (f.key.end + 2) - 1 = f.key.end + 1
      BY EntryIs
    <3>2. Span(To(f.key.start - 1, f.key.end + 2)) = (f.key.start - 1)..((f.key.end + 2) - 1)
      BY <3>1, SpanIs, Zenon
    <3>3. QED
      BY <2>1, <3>1, <3>2
  <2>3. ASSUME NEW p \in Content(d)
        PROVE  p \in Span(r) <=> p \in Span(f.key)
    <3>1. /\ f.key.start \in Nat /\ f.key.end \in Nat /\ f.value.start \in Nat
          /\ Span(f.key) = f.key.start..(f.key.end - 1)
          /\ f.key.start <= f.key.end /\ f.key.end + 2 <= f.value.start
          /\ p \in Nat /\ p # f.key.start - 1
          /\ p < f.key.end \/ p > f.value.start - 1
      BY EntryIs
    <3> HIDE DEF r
    <3>2. QED
      BY <2>2, <3>1, SMTT(30)
  <2>4. r.start = f.key.start - 1 /\ r.end = f.key.end + 2
    BY <2>1 DEF To
  <2>5. QED
    BY <2>2, <2>3, <2>4, EntryIs
<1>2. ASSUME NEW f \in Entry(entries, x.rule.path)
      PROVE  LET r == value_range(x.rule, f.value)
             IN  /\ r.start \in Nat /\ r.end \in Nat /\ r.start <= r.end
                 /\ \A p \in Content(d) :
                      Owner(d, p).part = "value" /\ IsPrefix(x.rule.path, Owner(d, p).path) => p \in Span(r)
  <2> DEFINE r == value_range(x.rule, f.value)
             m == Max({f.value.end, f.value.start + x.rule.length})
  <2>1. m \in Nat /\ m >= f.value.end
    <3>1. f.value.end \in Nat /\ f.value.start + x.rule.length \in Nat
      BY EntryIs
    <3>2. QED
      BY <3>1, MaxIs
  <2>2. r = To(f.value.start, m)
    BY DEF value_range
  <2> HIDE DEF m
  <2>3. Span(r) = f.value.start..(m - 1)
    <3>1. f.value.start \in Int /\ m \in Int
      BY <2>1, EntryIs
    <3>2. QED
      BY <2>2, <3>1, SpanIs, Zenon
  <2>4. ASSUME NEW p \in Content(d), Owner(d, p).part = "value",
               IsPrefix(x.rule.path, Owner(d, p).path)
        PROVE  p \in Span(r)
    <3>1. Covers(f, Owner(d, p))
      BY <2>4, EntryIs DEF Covers
    <3>2. p \in Span(f.value)
      BY <2>4, <3>1, EntryIs
    <3>3. QED
      BY <2>1, <2>3, <3>2, EntryIs
  <2>5. r.start = f.value.start /\ r.end = m
    BY <2>2 DEF To
  <2>6. QED
    BY <2>1, <2>4, <2>5, EntryIs
<1>3. QED
  BY <1>1, <1>2 DEF Answers, Reveals, Commits

-----------------------------------------------------------------------------
\* The steps.

\* No step touches what the program was given.
LEMMA Frozen == [Next]_vars => message' = message /\ config' = config
  BY DEF Next, vars, Begin, ApplyHeaderRule, ApplyBodyRule, ApplyKeyValueRule, MessageDone, Verify, Ended

\* What is said of the message alone stays true.
LEMMA Static ==
  ASSUME message' = message, config' = config, NEW d
  PROVE  /\ text(d)' = text(d) /\ Content(d)' = Content(d)
         /\ \A p : Owner(d, p)' = Owner(d, p)
         /\ Asked(d)' = Asked(d) /\ Ruled(d)' = Ruled(d)
<1>1. text(d)' = text(d)
  BY DEF text
<1>2. \A p : Owner(d, p)' = Owner(d, p)
  BY DEF Owner
<1>3. Content(d)' = Content(d)
  BY <1>1 DEF Content
<1>4. Asked(d)' = Asked(d)
  BY DEF Asked
<1>5. Ruled(d)' = Ruled(d)
  BY DEF Ruled
<1>6. QED
  BY <1>1, <1>2, <1>3, <1>4, <1>5

LEMMA ShapeStep ==
  ASSUME message' = message, config' = config, Shape
  PROVE  Shape'
  BY Static DEF Shape

\* So do the facts about ranges.
LEMMA OwnedStep ==
  ASSUME message' = message, config' = config, direction' = direction,
         HeadersAreOwned(direction, fields'.headers), FieldsAreOwned(direction, fields'.body)
  PROVE  HeadersAreOwned(direction, fields.headers)' /\ FieldsAreOwned(direction, fields.body)'
<1>1. HeadersAreOwned(direction, fields.headers)'
  BY DEF HeadersAreOwned, Silent, Ranges, Content, Owner, text
<1>2. FieldsAreOwned(direction, fields.body)'
  <2>1. /\ AskedFor(config[direction])' = AskedFor(config[direction])
        /\ \A path : Entry(fields.body, path)' = Entry(fields'.body, path)
    OBVIOUS
  <2>2. Ranges(direction)' = Ranges(direction) /\ Content(direction)' = Content(direction)
    BY DEF Ranges, Content, Owner, text
  <2>3. \A a, b : Silent(direction, a, b)' = Silent(direction, a, b)
    BY DEF Silent, Content, Owner, text
  <2>4. \A p : Owner(direction, p)' = Owner(direction, p)
    BY DEF Owner
  <2>5. QED
    BY <2>1, <2>2, <2>3, <2>4 DEF FieldsAreOwned
<1>3. QED
  BY <1>1, <1>2

\* A rule once carried out stays so: nothing revealed or committed to is taken back.
LEMMA DoneStep ==
  ASSUME message' = message, config' = config, NEW d,
         revealed[d] \subseteq revealed'[d], committed[d] \subseteq committed'[d]
  PROVE  /\ LineShown(d) => LineShown(d)'
         /\ \A x : Carried(d, x) => Carried(d, x)'
         /\ Done(d) => Done(d)'
<1>1. LineShown(d) => LineShown(d)'
  BY Static DEF LineShown
<1>2. \A x : Carried(d, x) => Carried(d, x)'
  BY Static DEF Carried
<1>3. Done(d) => Done(d)'
  BY <1>1, <1>2, Static DEF Done
<1>4. QED
  BY <1>1, <1>2, <1>3

\* A rule that fails ends the run, and nothing more is claimed.
LEMMA FailStep ==
  ASSUME IInv, message' = message, config' = config, NEW e, ProverFails(e)
  PROVE  IInv'
<1>1. /\ result' = Error(e) /\ pc' = "end" /\ direction' = direction /\ fields' = fields /\ todo' = todo
      /\ revealed' = revealed /\ committed' = committed
  BY DEF ProverFails
<1>2. result'.status = "error" /\ result' # Undecided
  <2>1. result'.status = "error" /\ Undecided.status = "none"
    BY <1>1 DEF Error, Undecided
  <2>2. QED
    BY <2>1
<1>3. TypeOK'
  BY <1>1, <1>2, Static DEF IInv, TypeOK
<1>4. Finished'
  <2>1. ~Proved'
    BY <1>1, <1>2 DEF Proved
  <2>2. QED
    BY <1>1, <2>1, DoneStep DEF IInv, Finished
<1>5. OnlyNamedIsLegible'
  BY <1>1, Static DEF IInv, OnlyNamedIsLegible
<1>6. QED
  BY <1>1, <1>3, <1>4, <1>5, ShapeStep DEF IInv, RulesLeft, RangesAreOwned

\* What Disclose adds.
LEMMA Disclosed ==
  ASSUME TypeOK, message' = message, NEW reveal, NEW commit, Disclose(reveal, commit),
         \A r \in reveal \cup commit :
           r.start \in Nat /\ r.end \in Nat /\ r.start <= r.end /\ r.end <= Len(text(direction)),
         IsList(text(direction))
  PROVE  /\ \A p : p \in revealed'[direction] <=>
                     p \in revealed[direction] \/ \E r \in reveal : p \in Span(r)
         /\ committed'[direction] = committed[direction] \cup commit
         /\ \A d \in Directions : d # direction => /\ revealed'[d] = revealed[d]
                                                   /\ committed'[d] = committed[d]
         /\ \A d \in Directions : /\ revealed[d] \subseteq revealed'[d]
                                  /\ committed[d] \subseteq committed'[d]
         /\ revealed' \in [Directions -> SUBSET Nat] /\ DOMAIN committed' = Directions
         /\ \A d \in Directions :
              /\ revealed'[d] \subseteq 0..(Len(text(d)') - 1)
              /\ \A r \in committed'[d] : 0 <= r.start /\ r.start <= r.end /\ r.end <= Len(text(d)')
<1>0. direction \in Directions /\ revealed \in [Directions -> SUBSET Nat] /\ Len(text(direction)) \in Nat
  BY DEF TypeOK, IsList
<1>1. committed' = [committed EXCEPT ![direction] = @ \cup commit]
  BY DEF Disclose
<1>2. \A r \in reveal : Span(r) \subseteq 0..(Len(text(direction)) - 1)
  BY <1>0 DEF Span
<1>3. PICK new : new = UNION {Span(r) : r \in reveal}
  OBVIOUS
<1>4. new \subseteq 0..(Len(text(direction)) - 1) /\ \A p : p \in new <=> \E r \in reveal : p \in Span(r)
  BY <1>2, <1>3
<1>5. revealed' = [revealed EXCEPT ![direction] = @ \cup new]
  BY <1>3 DEF Disclose
<1>6. QED
  <2>1. \A p : p \in revealed'[direction] <=>
                 p \in revealed[direction] \/ \E r \in reveal : p \in Span(r)
    BY <1>0, <1>4, <1>5
  <2>2. committed'[direction] = committed[direction] \cup commit
    BY <1>0, <1>1 DEF TypeOK
  <2>3. \A d \in Directions : d # direction => revealed'[d] = revealed[d] /\ committed'[d] = committed[d]
    BY <1>0, <1>1, <1>5 DEF TypeOK
  <2>4. \A d \in Directions : revealed[d] \subseteq revealed'[d] /\ committed[d] \subseteq committed'[d]
    BY <2>1, <2>2, <2>3
  <2>5. revealed' \in [Directions -> SUBSET Nat] /\ DOMAIN committed' = Directions
    <3>1. new \subseteq Nat
      BY <1>0, <1>4
    <3>2. QED
      BY <3>1, <1>0, <1>1, <1>5 DEF TypeOK
  <2>6. \A d : text(d)' = text(d)
    BY DEF text
  <2>7. ASSUME NEW d \in Directions
        PROVE  /\ revealed'[d] \subseteq 0..(Len(text(d)) - 1)
               /\ \A r \in committed'[d] : 0 <= r.start /\ r.start <= r.end /\ r.end <= Len(text(d))
    <3>1. CASE d = direction
      <4>1. revealed[d] \subseteq 0..(Len(text(d)) - 1)
            /\ \A r \in committed[d] : 0 <= r.start /\ r.start <= r.end /\ r.end <= Len(text(d))
        BY DEF TypeOK
      <4>2. revealed'[d] \subseteq 0..(Len(text(d)) - 1)
        BY <3>1, <4>1, <1>0, <1>4, <1>5
      <4>3. \A r \in commit : 0 <= r.start /\ r.start <= r.end /\ r.end <= Len(text(d))
        BY <3>1
      <4>4. QED
        BY <3>1, <4>1, <4>2, <4>3, <2>2
    <3>2. CASE d # direction
      BY <3>2, <2>3 DEF TypeOK
    <3>3. QED
      BY <3>1, <3>2
  <2>8. QED
    BY <2>1, <2>2, <2>3, <2>4, <2>5, <2>6, <2>7

\* A rule that is carried out: its ranges are the right ones, and it is done.
LEMMA RuleStep ==
  ASSUME IInv, message' = message, config' = config, pc = "rules", todo # <<>>,
         NEW reveal, NEW commit, Answers(direction, Head(todo), reveal, commit),
         Applied(reveal, commit)
  PROVE  IInv'
<1>1. CASE ~\A r \in reveal \cup commit : Fits(r)
  BY <1>1, FailStep DEF Applied
<1>2. CASE \A r \in reveal \cup commit : Fits(r)
  <2>1. /\ Disclose(reveal, commit) /\ todo' = Tail(todo)
        /\ direction' = direction /\ pc' = pc /\ fields' = fields /\ result' = result
    BY <1>2 DEF Applied
  <2>2. direction \in Directions /\ IsList(text(direction)) /\ TypeOK
    BY DEF IInv, TypeOK, Shape
  <2>3. \A r \in reveal \cup commit :
          r.start \in Nat /\ r.end \in Nat /\ r.start <= r.end /\ r.end <= Len(text(direction))
    BY <1>2 DEF Answers, Fits
  <2>4. /\ \A p : p \in revealed'[direction] <=>
                    p \in revealed[direction] \/ \E r \in reveal : p \in Span(r)
        /\ committed'[direction] = committed[direction] \cup commit
        /\ \A d \in Directions : d # direction => /\ revealed'[d] = revealed[d]
                                                  /\ committed'[d] = committed[d]
        /\ \A d \in Directions : /\ revealed[d] \subseteq revealed'[d]
                                 /\ committed[d] \subseteq committed'[d]
        /\ revealed' \in [Directions -> SUBSET Nat] /\ DOMAIN committed' = Directions
        /\ \A d \in Directions :
             /\ revealed'[d] \subseteq 0..(Len(text(d)') - 1)
             /\ \A r \in committed'[d] : 0 <= r.start /\ r.start <= r.end /\ r.end <= Len(text(d)')
    BY <2>1, <2>2, <2>3, Disclosed
  <2>5. TypeOK'
    BY <2>1, <2>2, <2>4 DEF TypeOK
  <2>6. /\ IsList(todo) /\ Items(todo) \subseteq Asked(direction) /\ LineShown(direction)
        /\ \A x \in Asked(direction) : x \in Items(todo) \/ Carried(direction, x)
    BY DEF IInv, RulesLeft
  <2>7. /\ IsList(Tail(todo)) /\ Head(todo) \in Items(todo)
        /\ Items(todo) = {Head(todo)} \cup Items(Tail(todo))
    BY <2>6, ListTail
  <2> PICK x : x = Head(todo)
    OBVIOUS
  <2>8. Carried(direction, x)'
    <3>1. \A p \in Content(direction) :
            /\ Reveals(x, Owner(direction, p)) => p \in revealed'[direction]
            /\ Commits(x, Owner(direction, p)) => \E r \in committed'[direction] : p \in Span(r)
      BY <2>4 DEF Answers
    <3>2. \A p : Owner(direction, p)' = Owner(direction, p)
      BY <2>1 DEF Owner
    <3>3. Content(direction)' = Content(direction)
      BY <2>1 DEF Content, text
    <3>4. QED
      BY <3>1, <3>2, <3>3, <2>1 DEF Carried
  <2>9. RulesLeft'
    <3>1. \A y \in Asked(direction) : y \in Items(Tail(todo)) \/ Carried(direction, y)'
      <4>1. \A y : Carried(direction, y) => Carried(direction, y)'
        BY <2>1, <2>2, <2>4, DoneStep
      <4>2. QED
        BY <4>1, <2>6, <2>7, <2>8
    <3>2. LineShown(direction)'
      BY <2>1, <2>2, <2>4, <2>6, DoneStep
    <3>3. Asked(direction)' = Asked(direction)
      BY <2>1 DEF Asked
    <3>4. QED
      BY <2>1, <2>6, <2>7, <3>1, <3>2, <3>3 DEF RulesLeft
  <2>10. RangesAreOwned'
    BY <2>1, OwnedStep DEF IInv, RangesAreOwned
  <2>11. Finished'
    <3>1. ~Proved'
      BY <2>1 DEF Proved, IInv, TypeOK, Undecided
    <3>2. direction = "Received" => Done("Sent")'
      BY <2>4, DoneStep DEF IInv, Finished, Directions
    <3>3. QED
      BY <2>1, <3>1, <3>2 DEF Finished
  <2>12. OnlyNamedIsLegible'
    <3>1. ASSUME NEW d \in Directions, Ruled(d), NEW p \in Content(d), p \in revealed'[d]
          PROVE  Legible(config[d], Owner(d, p))
      <4>1. CASE p \in revealed[d]
        BY <3>1, <4>1 DEF IInv, OnlyNamedIsLegible
      <4>2. CASE d = direction /\ \E r \in reveal : p \in Span(r)
        <5>1. Reveals(x, Owner(d, p)) /\ x \in Asked(d)
          BY <4>2, <2>6, <2>7 DEF Answers
        <5>2. WellFormed(config[d])
          BY DEF IInv, Shape
        <5>3. QED
          BY <5>1, <5>2, RuleByRule DEF Asked
      <4>3. QED
        BY <3>1, <4>1, <4>2, <2>4
    <3>2. QED
      BY <3>1, Static DEF OnlyNamedIsLegible
  <2>13. QED
    BY <2>5, <2>9, <2>10, <2>11, <2>12, ShapeStep DEF IInv
<1>3. QED
  BY <1>1, <1>2

\* The rule to apply next, and the ranges it meets.
LEMMA HeadIs ==
  ASSUME IInv, pc = "rules", todo # <<>>
  PROVE  /\ Head(todo).what \in {"header", "body"} => Head(todo).do \in {"reveal", "commit"}
         /\ Head(todo).what \in {"body", "key-value"} =>
              Head(todo).rule.path \in AskedFor(config[direction])
         /\ Head(todo).what = "key-value" => Head(todo).rule.length \in Nat
         /\ IsList(text(direction))
         /\ HeadersAreOwned(direction, fields.headers) /\ FieldsAreOwned(direction, fields.body)
<1>1. direction \in Directions
  BY DEF IInv, TypeOK
<1>2. IsList(text(direction)) /\ WellFormed(config[direction])
  BY <1>1 DEF IInv, Shape
<1>3. Head(todo) \in Asked(direction)
  BY ListTail DEF IInv, RulesLeft
<1>4. PICK x : x = Head(todo)
  OBVIOUS
<1>5. /\ x.what \in {"header", "body"} => x.do \in {"reveal", "commit"}
      /\ x.what \in {"body", "key-value"} =>
           x.rule \in Items(config[direction].reveal_body_fields)
                      \cup Items(config[direction].commit_body_fields)
                      \cup Items(config[direction].reveal_keys_commit_values)
      /\ x.what = "key-value" => x.rule \in Items(config[direction].reveal_keys_commit_values)
  BY <1>2, <1>3, <1>4, RulesOf DEF Asked
<1>6. x.what \in {"body", "key-value"} => x.rule.path \in AskedFor(config[direction])
  BY <1>5 DEF AskedFor
<1>7. x.what = "key-value" => x.rule.length \in Nat
  BY <1>2, <1>5 DEF WellFormed
<1>8. QED
  BY <1>2, <1>4, <1>5, <1>6, <1>7 DEF IInv, RangesAreOwned

LEMMA HeaderStep ==
  ASSUME IInv, ApplyHeaderRule
  PROVE  IInv'
<1> DEFINE ranges == {header_full_range(h.at, h.value) : h \in Matching(Head(todo).rule)}
<1>1. /\ pc = "rules" /\ todo # <<>> /\ Head(todo).what = "header"
      /\ message' = message /\ config' = config
      /\ ProverFails("RevealRuleNotMatched") \/ Apply(Head(todo).do, ranges)
  BY DEF ApplyHeaderRule
<1>2. CASE ProverFails("RevealRuleNotMatched")
  BY <1>1, <1>2, FailStep
<1>3. CASE Apply(Head(todo).do, ranges)
  <2>1. Head(todo).do \in {"reveal", "commit"} /\ IsList(text(direction))
        /\ HeadersAreOwned(direction, fields.headers)
    BY <1>1, HeadIs
  <2>2. ranges = {header_full_range(h.at, h.value) :
                    h \in {h \in fields.headers : h.name = LowerCase[Head(todo).rule]}}
    BY DEF Matching
  <2> HIDE DEF ranges
  <2>3. /\ Head(todo).do = "reveal" => Answers(direction, Head(todo), ranges, {})
        /\ Head(todo).do = "commit" => Answers(direction, Head(todo), {}, ranges)
    BY <1>1, <2>1, <2>2, HeaderAnswers
  <2>4. QED
    BY <1>1, <1>3, <2>1, <2>3, RuleStep DEF Apply
<1>4. QED
  BY <1>1, <1>2, <1>3

LEMMA BodyStep ==
  ASSUME IInv, ApplyBodyRule
  PROVE  IInv'
<1> DEFINE entry == Entry(fields.body, Head(todo).rule.path)
           ranges == {selection_range(Head(todo).rule, f) : f \in entry}
<1>1. /\ pc = "rules" /\ todo # <<>> /\ Head(todo).what = "body"
      /\ message' = message /\ config' = config
      /\ \/ ProverFails("RevealRuleNotMatched")
         \/ entry # {} /\ Apply(Head(todo).do, ranges)
  BY DEF ApplyBodyRule
<1>2. CASE ProverFails("RevealRuleNotMatched")
  BY <1>1, <1>2, FailStep
<1>3. CASE entry # {} /\ Apply(Head(todo).do, ranges)
  <2>1. /\ Head(todo).do \in {"reveal", "commit"} /\ IsList(text(direction))
        /\ Head(todo).rule.path \in AskedFor(config[direction])
        /\ FieldsAreOwned(direction, fields.body)
    BY <1>1, HeadIs
  <2>2. ranges = {selection_range(Head(todo).rule, f) : f \in Entry(fields.body, Head(todo).rule.path)}
    OBVIOUS
  <2>3. Entry(fields.body, Head(todo).rule.path) # {}
    BY <1>3
  <2> HIDE DEF ranges, entry
  <2>4. /\ Head(todo).do = "reveal" => Answers(direction, Head(todo), ranges, {})
        /\ Head(todo).do = "commit" => Answers(direction, Head(todo), {}, ranges)
    BY <1>1, <2>1, <2>2, <2>3, BodyAnswers
  <2>5. QED
    BY <1>1, <1>3, <2>1, <2>4, RuleStep DEF Apply
<1>4. QED
  BY <1>1, <1>2, <1>3

LEMMA KeyValueStep ==
  ASSUME IInv, ApplyKeyValueRule
  PROVE  IInv'
<1> DEFINE entry == Entry(fields.body, Head(todo).rule.path)
           reveal == {with_quotes_and_colon(f.key) : f \in entry}
           commit == {value_range(Head(todo).rule, f.value) : f \in entry}
<1>1. /\ pc = "rules" /\ todo # <<>> /\ Head(todo).what = "key-value"
      /\ message' = message /\ config' = config
      /\ \/ ProverFails("RevealRuleNotMatched") \/ ProverFails("RevealStructureMismatch")
         \/ entry # {} /\ (\A f \in entry : f.key # NoRange) /\ Applied(reveal, commit)
  BY DEF ApplyKeyValueRule
<1>2. CASE ProverFails("RevealRuleNotMatched") \/ ProverFails("RevealStructureMismatch")
  BY <1>1, <1>2, FailStep
<1>3. CASE entry # {} /\ (\A f \in entry : f.key # NoRange) /\ Applied(reveal, commit)
  <2>1. /\ IsList(text(direction)) /\ Head(todo).rule.length \in Nat
        /\ Head(todo).rule.path \in AskedFor(config[direction])
        /\ FieldsAreOwned(direction, fields.body)
    BY <1>1, HeadIs
  <2>2. Answers(direction, Head(todo), reveal, commit)
    BY <1>1, <1>3, <2>1, KeyValueAnswers
  <2> HIDE DEF reveal, commit, entry
  <2>3. QED
    BY <1>1, <1>3, <2>2, RuleStep
<1>4. QED
  BY <1>1, <1>2, <1>3

\* The end of a message's rules: all of them have been carried out.
LEMMA MessageDoneStep ==
  ASSUME IInv, MessageDone
  PROVE  IInv'
<1>1. /\ pc = "rules" /\ todo = <<>> /\ message' = message /\ config' = config
      /\ fields' = fields /\ todo' = todo /\ revealed' = revealed /\ committed' = committed
      /\ result' = result
      /\ \/ direction = "Sent" /\ direction' = "Received" /\ pc' = "begin"
         \/ direction # "Sent" /\ direction' = direction /\ pc' = "proof"
  BY DEF MessageDone
<1>2. direction \in Directions /\ result = Undecided
  BY <1>1 DEF IInv, TypeOK
<1>3. Done(direction)
  <2>1. Items(todo) = {}
    BY <1>1 DEF Items
  <2>2. QED
    BY <1>1, <2>1 DEF IInv, RulesLeft, Done
<1>4. Done("Sent")' /\ (direction = "Received" => Done("Received")')
  <2>1. \A d \in Directions : Done(d) => Done(d)'
    BY <1>1, DoneStep
  <2>2. Done("Sent") /\ (direction = "Received" => Done("Received"))
    BY <1>2, <1>3 DEF IInv, Finished, Directions
  <2>3. QED
    BY <2>1, <2>2 DEF Directions
<1>5. TypeOK'
  BY <1>1, <1>2, Static DEF IInv, TypeOK, Directions
<1>6. Finished'
  <2>1. Proved' => direction' = "Received" /\ direction = "Received"
    BY <1>1, <1>2 DEF Proved, Undecided, Directions
  <2>2. QED
    BY <1>4, <2>1 DEF Finished
<1>7. OnlyNamedIsLegible'
  BY <1>1, Static DEF IInv, OnlyNamedIsLegible
<1>8. QED
  BY <1>1, <1>5, <1>6, <1>7, ShapeStep DEF IInv, RulesLeft, RangesAreOwned

\* Once all is proved, neither the verifier nor the end of the run changes what was disclosed.
LEMMA VerifyStep ==
  ASSUME IInv, Verify
  PROVE  IInv'
<1>1. /\ pc = "proof" /\ pc' = "end" /\ result' = extract_balance
      /\ message' = message /\ config' = config /\ direction' = direction /\ fields' = fields
      /\ todo' = todo /\ revealed' = revealed /\ committed' = committed
  BY DEF Verify
<1>2. result'.status \in {"success", "failure"}
  BY <1>1 DEF extract_balance, Success, Failure
<1>3. TypeOK'
  <2>1. result' # Undecided
    BY <1>2 DEF Undecided
  <2>2. QED
    BY <1>1, <2>1, Static DEF IInv, TypeOK
<1>4. Finished'
  <2>1. Proved
    BY <1>1 DEF Proved
  <2>2. direction = "Received" /\ Done("Sent") /\ Done("Received")
    BY <2>1 DEF IInv, Finished
  <2>3. Done("Sent")' /\ Done("Received")'
    BY <1>1, <2>2, DoneStep
  <2>4. QED
    BY <1>1, <2>2, <2>3 DEF Finished
<1>5. OnlyNamedIsLegible'
  BY <1>1, Static DEF IInv, OnlyNamedIsLegible
<1>6. QED
  BY <1>1, <1>3, <1>4, <1>5, ShapeStep DEF IInv, RulesLeft, RangesAreOwned

LEMMA StutterStep ==
  ASSUME IInv, UNCHANGED vars
  PROVE  IInv'
<1>1. /\ message' = message /\ config' = config /\ direction' = direction /\ pc' = pc
      /\ fields' = fields /\ todo' = todo /\ revealed' = revealed /\ committed' = committed
      /\ result' = result
  BY DEF vars
<1>2. TypeOK'
  BY <1>1, Static DEF IInv, TypeOK
<1>3. \A d : (LineShown(d) => LineShown(d)') /\ (Done(d) => Done(d)')
             /\ \A x : Carried(d, x) => Carried(d, x)'
  BY <1>1, DoneStep
<1>4. RulesLeft'
  <2>1. Asked(direction)' = Asked(direction)
    BY <1>1 DEF Asked
  <2>2. LineShown(direction) => LineShown(direction)'
    BY <1>1, DoneStep
  <2>3. \A x : Carried(direction, x) => Carried(direction, x)'
    BY <1>1, DoneStep
  <2>4. QED
    BY <1>1, <2>1, <2>2, <2>3 DEF IInv, RulesLeft
<1>5. RangesAreOwned'
  BY <1>1, OwnedStep DEF IInv, RangesAreOwned
<1>6. Finished'
  BY <1>1, <1>3 DEF IInv, Finished, Proved
<1>7. OnlyNamedIsLegible'
  BY <1>1, Static DEF IInv, OnlyNamedIsLegible
<1>8. QED
  BY <1>1, <1>2, <1>4, <1>5, <1>6, <1>7, ShapeStep DEF IInv

\* What a direction about to be read may be taken to be.
LEMMA AtBegin ==
  ASSUME IInv, pc = "begin"
  PROVE  /\ TypeOK /\ direction \in Directions /\ result = Undecided
         /\ IsList(text(direction)) /\ Len(text(direction)) \in Nat
         /\ WellFormed(config[direction])
<1>1. TypeOK /\ Shape
  BY DEF IInv
<1>2. direction \in Directions /\ result = Undecided
  BY <1>1 DEF TypeOK
<1>3. IsList(text(direction)) /\ WellFormed(config[direction])
  BY <1>1, <1>2 DEF Shape
<1>4. Len(text(direction)) \in Nat
  BY <1>3 DEF IsList
<1>5. QED
  BY <1>1, <1>2, <1>3, <1>4

\* A request without rules, of which nothing is promised, is disclosed whole.
LEMMA WholeStep ==
  ASSUME IInv, message' = message, config' = config, pc = "begin",
         direction = "Sent", Rules(config[direction]) = <<>>,
         Disclose({To(0, Len(text(direction)))}, {}), pc' = "rules", todo' = <<>>,
         direction' = direction, result' = result
  PROVE  IInv'
<1> DEFINE whole == To(0, Len(text(direction)))
<1>1. /\ direction \in Directions /\ IsList(text(direction)) /\ TypeOK /\ Len(text(direction)) \in Nat
      /\ result = Undecided
  <2> HIDE DEF whole
  <2>1. QED
    BY AtBegin
<1>2. whole.start = 0 /\ whole.end = Len(text(direction)) /\ Span(whole) = 0..(Len(text(direction)) - 1)
  <2>1. whole.start = 0 /\ whole.end = Len(text(direction))
    BY DEF To
  <2> HIDE DEF whole
  <2>2. QED
    BY <2>1, <1>1 DEF Span
<1>3. /\ \A p : p \in revealed'[direction] <=>
                  p \in revealed[direction] \/ \E r \in {whole} : p \in Span(r)
      /\ \A d \in Directions : d # direction => revealed'[d] = revealed[d]
      /\ \A d \in Directions : /\ revealed[d] \subseteq revealed'[d]
                               /\ committed[d] \subseteq committed'[d]
      /\ revealed' \in [Directions -> SUBSET Nat] /\ DOMAIN committed' = Directions
      /\ \A d \in Directions :
           /\ revealed'[d] \subseteq 0..(Len(text(d)') - 1)
           /\ \A r \in committed'[d] : 0 <= r.start /\ r.start <= r.end /\ r.end <= Len(text(d)')
  <2>1. \A r \in {whole} \cup {} :
          r.start \in Nat /\ r.end \in Nat /\ r.start <= r.end /\ r.end <= Len(text(direction))
    BY <1>1, <1>2
  <2>2. Disclose({whole}, {})
    OBVIOUS
  <2> HIDE DEF whole
  <2>3. QED
    BY <1>1, <2>1, <2>2, Disclosed
<1> HIDE DEF whole
<1>4. TypeOK'
  BY <1>1, <1>3 DEF TypeOK
<1>5. RulesLeft'
  <2>1. Asked(direction) = {} /\ Items(<<>>) = {} /\ IsList(<<>>)
    BY DEF Asked, Items, IsList
  <2>2. \A p \in Content(direction) : p \in revealed'[direction]
    <3>1. \A p \in Content(direction) : p \in 0..(Len(text(direction)) - 1)
      BY Zenon DEF Content
    <3>2. QED
      BY <3>1, <1>2, <1>3
  <2>3. LineShown(direction)'
    BY <2>2, Static DEF LineShown
  <2>4. Asked(direction)' = Asked(direction)
    BY DEF Asked
  <2>5. QED
    BY <2>1, <2>3, <2>4 DEF RulesLeft
<1>6. Finished'
  <2>1. ~Proved'
    BY <1>1 DEF Proved, Undecided
  <2>2. QED
    BY <2>1 DEF Finished
<1>7. OnlyNamedIsLegible'
  <2>1. ASSUME NEW d \in Directions, Ruled(d)
        PROVE  revealed'[d] = revealed[d]
    BY <2>1, <1>3 DEF Ruled
  <2>2. QED
    BY <2>1, Static DEF IInv, OnlyNamedIsLegible
<1>8. QED
  BY <1>4, <1>5, <1>6, <1>7, ShapeStep DEF IInv, RangesAreOwned

\* The line of three fields and its newline, and the ranges the rules start from.
LEMMA ParsedStep ==
  ASSUME IInv, ParsedAsOwned, message' = message, config' = config, pc = "begin",
         direction = "Received" \/ Rules(config[direction]) # <<>>, Parsed(direction).ok,
         Fits(with_newline(To(0, 5))), Disclose({with_newline(To(0, 5))}, {}),
         fields' = [headers |-> Parsed(direction).headers, body |-> Parsed(direction).fields],
         pc' = "rules", todo' = Rules(config[direction]), direction' = direction, result' = result
  PROVE  IInv'
<1> DEFINE line == with_newline(To(0, 5))
<1>1. /\ direction \in Directions /\ IsList(text(direction)) /\ TypeOK /\ Len(text(direction)) \in Nat
      /\ result = Undecided /\ WellFormed(config[direction])
  <2> HIDE DEF line
  <2>1. QED
    BY AtBegin
<1>2. Ruled(direction)
  BY <1>1 DEF Ruled, Directions
<1>3. /\ LineIsOwned(direction) /\ HeadersAreOwned(direction, Parsed(direction).headers)
      /\ FieldsAreOwned(direction, Parsed(direction).fields)
  BY <1>2 DEF ParsedAsOwned
<1>4. line.start = 0 /\ line.end = 6 /\ Span(line) = 0..5
  <2>1. line = [start |-> 0 + 0, end |-> 5 + 1]
    BY DEF with_newline, adjust, To
  <2> HIDE DEF line
  <2>2. line.start = 0 /\ line.end = 6
    BY <2>1
  <2>3. QED
    BY <2>2 DEF Span
<1>5. /\ \A p : p \in revealed'[direction] <=>
                  p \in revealed[direction] \/ \E r \in {line} : p \in Span(r)
      /\ \A d \in Directions : d # direction => revealed'[d] = revealed[d]
      /\ \A d \in Directions : /\ revealed[d] \subseteq revealed'[d]
                               /\ committed[d] \subseteq committed'[d]
      /\ revealed' \in [Directions -> SUBSET Nat] /\ DOMAIN committed' = Directions
      /\ \A d \in Directions :
           /\ revealed'[d] \subseteq 0..(Len(text(d)') - 1)
           /\ \A r \in committed'[d] : 0 <= r.start /\ r.start <= r.end /\ r.end <= Len(text(d)')
  <2>1. 6 <= Len(text(direction))
    BY <1>4 DEF Fits
  <2>2. \A r \in {line} \cup {} :
          r.start \in Nat /\ r.end \in Nat /\ r.start <= r.end /\ r.end <= Len(text(direction))
    BY <1>4, <2>1
  <2>3. Disclose({line}, {})
    OBVIOUS
  <2> HIDE DEF line
  <2>4. QED
    BY <1>1, <2>2, <2>3, Disclosed
<1> HIDE DEF line
<1>6. TypeOK'
  BY <1>1, <1>5 DEF TypeOK
<1>7. \A p \in Content(direction) :
        p \in 0..5 <=> Owner(direction, p).part = "line"
  <2>1. \A p \in Content(direction) : p \in Nat
    BY <1>1, ContentIs
  <2>2. QED
    BY <1>3, <2>1 DEF LineIsOwned
<1>8. RulesLeft'
  <2>1. IsList(Rules(config[direction]))
    BY <1>1, RulesOf
  <2>2. LineShown(direction)'
    BY <1>4, <1>5, <1>7, Static DEF LineShown
  <2>3. Asked(direction)' = Asked(direction)
    BY DEF Asked
  <2>4. QED
    BY <2>1, <2>2, <2>3 DEF RulesLeft, Asked
<1>9. RangesAreOwned'
  <2>1. HeadersAreOwned(direction, fields'.headers) /\ FieldsAreOwned(direction, fields'.body)
    BY <1>3
  <2>2. HeadersAreOwned(direction, fields.headers)' /\ FieldsAreOwned(direction, fields.body)'
    BY <2>1, OwnedStep
  <2>3. QED
    BY <2>2 DEF RangesAreOwned
<1>10. Finished'
  <2>1. ~Proved'
    BY <1>1 DEF Proved, Undecided
  <2>2. direction = "Received" => Done("Sent")'
    BY <1>5, DoneStep DEF IInv, Finished, Directions
  <2>3. QED
    BY <2>1, <2>2 DEF Finished
<1>11. OnlyNamedIsLegible'
  <2>1. ASSUME NEW d \in Directions, Ruled(d), NEW p \in Content(d), p \in revealed'[d]
        PROVE  Legible(config[d], Owner(d, p))
    <3>1. CASE p \in revealed[d]
      BY <2>1, <3>1 DEF IInv, OnlyNamedIsLegible
    <3>2. CASE d = direction /\ p \in 0..5
      BY <1>7, <3>2 DEF Legible
    <3>3. QED
      BY <2>1, <3>1, <3>2, <1>4, <1>5
  <2>2. QED
    BY <2>1, Static DEF OnlyNamedIsLegible
<1>12. QED
  BY <1>6, <1>8, <1>9, <1>10, <1>11, ShapeStep DEF IInv

LEMMA BeginStep ==
  ASSUME IInv, ParsedAsOwned, Begin
  PROVE  IInv'
<1>1. direction \in Directions
  BY DEF IInv, TypeOK
<1>2. CASE direction = "Sent" /\ Rules(config[direction]) = <<>>
  BY <1>2, WholeStep DEF Begin
<1>3. CASE ~(direction = "Sent" /\ Rules(config[direction]) = <<>>) /\ ~Parsed(direction).ok
  BY <1>3, FailStep DEF Begin
<1>4. CASE /\ ~(direction = "Sent" /\ Rules(config[direction]) = <<>>) /\ Parsed(direction).ok
           /\ ~Fits(with_newline(To(0, 5)))
  BY <1>4, FailStep DEF Begin
<1>5. CASE /\ ~(direction = "Sent" /\ Rules(config[direction]) = <<>>) /\ Parsed(direction).ok
           /\ Fits(with_newline(To(0, 5)))
  <2>1. direction = "Received" \/ Rules(config[direction]) # <<>>
    BY <1>1, <1>5 DEF Directions
  <2>2. QED
    BY <1>5, <2>1, ParsedStep DEF Begin
<1>6. QED
  BY <1>2, <1>3, <1>4, <1>5

-----------------------------------------------------------------------------
\* Without a premise: the ranges are within the text, whatever the two messages are.

\* The rules left are rules of the config, and what is to be disclosed is as the parser wrote it.
RangesAreWritten ==
  pc = "rules" =>
    /\ IsList(todo) /\ Items(todo) \subseteq Asked(direction)
    /\ todo # <<>> =>
         /\ \A h \in fields.headers : HeaderWritten(text(direction), h) /\ h.value # NoRange
         /\ \A f \in fields.body : Written(text(direction), f)

FitInv == Shape /\ TypeOK /\ RangesAreWritten

LEMMA HeaderFits ==
  ASSUME NEW t, Len(t) \in Nat, NEW h, HeaderWritten(t, h), h.value # NoRange
  PROVE  LET r == header_full_range(h.at, h.value)
         IN  r.start \in Nat /\ r.end \in Nat /\ r.start <= r.end /\ r.end <= Len(t)
<1>1. PICK q \in Nat, e \in Nat : h.at = To(q, q + 1) /\ h.value = To(q + 3, e) /\ q + 3 < e /\ e < Len(t)
  BY DEF HeaderWritten
<1> DEFINE r == header_full_range(h.at, h.value)
<1>2. r.start = q /\ r.end = e + 1
  BY <1>1 DEF header_full_range, To
<1> HIDE DEF r
<1>3. r.start \in Nat /\ r.end \in Nat /\ r.start <= r.end /\ r.end <= Len(t)
  BY <1>1, <1>2
<1>4. QED
  BY <1>3 DEF r

LEMMA FieldFits ==
  ASSUME NEW t, Len(t) \in Nat, NEW f, Written(t, f), NEW rule
  PROVE  LET r == selection_range(rule, f)
         IN  r.start \in Nat /\ r.end \in Nat /\ r.start <= r.end
<1> DEFINE r == selection_range(rule, f)
<1>1. /\ f.value.start \in Nat /\ f.value.end \in Nat /\ f.value.start <= f.value.end
      /\ f.key # NoRange => /\ f.key.start \in Nat /\ 0 < f.key.start /\ f.key.start < f.key.end
                            /\ f.key.end \in Nat /\ f.key.end + 2 <= f.value.start
  BY DEF Written
<1>2. CASE f.key = NoRange
  BY <1>1, <1>2 DEF selection_range
<1>3. CASE f.key # NoRange
  <2>1. r = To(f.key.start - 1, f.value.end + 1) \/ r = To(f.key.start - 1, f.value.end)
    BY <1>3 DEF selection_range, full_pair_quoted, full_pair_unquoted
  <2>2. r.start = f.key.start - 1 /\ (r.end = f.value.end + 1 \/ r.end = f.value.end)
    BY <2>1 DEF To
  <2>3. /\ f.key.start \in Nat /\ 0 < f.key.start /\ f.key.start < f.key.end
        /\ f.key.end \in Nat /\ f.key.end + 2 <= f.value.start
    BY <1>1, <1>3
  <2>4. f.value.start \in Nat /\ f.value.end \in Nat /\ f.value.start <= f.value.end
    BY <1>1
  <2> HIDE DEF r
  <2>5. r.start \in Nat /\ r.start < f.value.end
    BY <2>2, <2>3, <2>4
  <2>6. r.end \in Nat /\ f.value.end <= r.end
    BY <2>2, <2>4
  <2>7. r.start \in Nat /\ r.end \in Nat /\ r.start <= r.end
    BY <2>4, <2>5, <2>6
  <2>8. QED
    BY <2>7 DEF r
<1>4. QED
  BY <1>2, <1>3

LEMMA KeyValueFits ==
  ASSUME NEW t, Len(t) \in Nat, NEW f, Written(t, f), f.key # NoRange, NEW rule, rule.length \in Nat
  PROVE  /\ LET r == with_quotes_and_colon(f.key)
            IN  r.start \in Nat /\ r.end \in Nat /\ r.start <= r.end
         /\ LET r == value_range(rule, f.value)
            IN  r.start \in Nat /\ r.end \in Nat /\ r.start <= r.end
<1>1. /\ f.value.start \in Nat /\ f.value.end \in Nat /\ f.value.start <= f.value.end
      /\ f.key.start \in Nat /\ 0 < f.key.start /\ f.key.start < f.key.end /\ f.key.end \in Nat
  BY DEF Written
<1>2. LET r == with_quotes_and_colon(f.key)
      IN  r.start \in Nat /\ r.end \in Nat /\ r.start <= r.end
  <2> DEFINE r == with_quotes_and_colon(f.key)
  <2>1. r.start = f.key.start + (-1) /\ r.end = f.key.end + 2
    BY DEF with_quotes_and_colon, adjust, To
  <2> HIDE DEF r
  <2>2. r.start \in Nat /\ r.end \in Nat /\ r.start <= r.end
    BY <1>1, <2>1
  <2>3. QED
    BY <2>2 DEF r
<1>3. LET r == value_range(rule, f.value)
      IN  r.start \in Nat /\ r.end \in Nat /\ r.start <= r.end
  <2> DEFINE r == value_range(rule, f.value)
             m == Max({f.value.end, f.value.start + rule.length})
  <2>1. m \in Nat /\ m >= f.value.end
    <3>1. f.value.start + rule.length \in Nat
      BY <1>1
    <3>2. QED
      BY <1>1, <3>1, MaxIs
  <2>2. r.start = f.value.start /\ r.end = m
    BY DEF value_range, To
  <2> HIDE DEF r, m
  <2>3. r.start \in Nat /\ r.end \in Nat /\ r.start <= r.end
    BY <1>1, <2>1, <2>2
  <2>4. QED
    BY <2>3 DEF r
<1>4. QED
  BY <1>2, <1>3

LEMMA WrittenStep ==
  ASSUME RangesAreWritten, message' = message, config' = config, direction' = direction,
         fields' = fields, pc' = pc, todo' = todo \/ (todo # <<>> /\ todo' = Tail(todo))
  PROVE  RangesAreWritten'
<1>1. CASE pc = "rules"
  <2>1. /\ IsList(todo) /\ Items(todo) \subseteq Asked(direction)
        /\ todo # <<>> =>
             /\ \A h \in fields.headers : HeaderWritten(text(direction), h) /\ h.value # NoRange
             /\ \A f \in fields.body : Written(text(direction), f)
    BY <1>1 DEF RangesAreWritten
  <2>2. text(direction)' = text(direction) /\ Asked(direction)' = Asked(direction)
    BY DEF text, Asked
  <2>3. IsList(todo') /\ Items(todo') \subseteq Asked(direction)
    BY <2>1, ListTail
  <2>4. todo' # <<>> => todo # <<>>
    OBVIOUS
  <2>5. todo' # <<>> => (\A h \in fields.headers : HeaderWritten(text(direction), h) /\ h.value # NoRange)'
    BY <2>1, <2>2, <2>4
  <2>6. todo' # <<>> => (\A f \in fields.body : Written(text(direction), f))'
    BY <2>1, <2>2, <2>4
  <2>7. QED
    BY <2>2, <2>3, <2>5, <2>6 DEF RangesAreWritten
<1>2. CASE pc # "rules"
  BY <1>2 DEF RangesAreWritten
<1>3. QED
  BY <1>1, <1>2

LEMMA FitFail ==
  ASSUME FitInv, message' = message, config' = config, NEW e, ProverFails(e)
  PROVE  FitInv'
<1>1. /\ result' = Error(e) /\ pc' = "end" /\ direction' = direction
      /\ revealed' = revealed /\ committed' = committed
  BY DEF ProverFails
<1>2. result' # Undecided
  <2>1. result'.status = "error" /\ Undecided.status = "none"
    BY <1>1 DEF Error, Undecided
  <2>2. QED
    BY <2>1
<1>3. TypeOK'
  BY <1>1, <1>2, Static DEF FitInv, TypeOK
<1>4. QED
  BY <1>1, <1>3, ShapeStep DEF FitInv, RangesAreWritten

LEMMA FitApplied ==
  ASSUME FitInv, message' = message, config' = config, pc = "rules", todo # <<>>,
         NEW reveal, NEW commit, Applied(reveal, commit),
         \A r \in reveal \cup commit : r.start \in Nat /\ r.end \in Nat /\ r.start <= r.end
  PROVE  FitInv'
<1>1. CASE ~\A r \in reveal \cup commit : Fits(r)
  BY <1>1, FitFail DEF Applied
<1>2. CASE \A r \in reveal \cup commit : Fits(r)
  <2>1. /\ Disclose(reveal, commit) /\ todo' = Tail(todo)
        /\ direction' = direction /\ pc' = pc /\ fields' = fields /\ result' = result
    BY <1>2 DEF Applied
  <2>2. TypeOK /\ IsList(text(direction))
    BY DEF FitInv, TypeOK, Shape
  <2>3. \A r \in reveal \cup commit :
          r.start \in Nat /\ r.end \in Nat /\ r.start <= r.end /\ r.end <= Len(text(direction))
    BY <1>2 DEF Fits
  <2>4. /\ revealed' \in [Directions -> SUBSET Nat] /\ DOMAIN committed' = Directions
        /\ \A d \in Directions :
             /\ revealed'[d] \subseteq 0..(Len(text(d)') - 1)
             /\ \A r \in committed'[d] : 0 <= r.start /\ r.start <= r.end /\ r.end <= Len(text(d)')
    BY <2>1, <2>2, <2>3, Disclosed
  <2>5. TypeOK'
    BY <2>1, <2>2, <2>4 DEF TypeOK
  <2>6. RangesAreWritten'
    BY <2>1, WrittenStep DEF FitInv
  <2>7. QED
    BY <2>5, <2>6, ShapeStep DEF FitInv
<1>3. QED
  BY <1>1, <1>2

\* The first range of a message: all of it, or its line.
LEMMA FitBegin ==
  ASSUME FitInv, Begin
  PROVE  FitInv'
<1> DEFINE whole == To(0, Len(text(direction)))
           line  == with_newline(To(0, 5))
           m     == Parsed(direction)
<1>1. /\ TypeOK /\ direction \in Directions /\ result = Undecided /\ IsList(text(direction))
      /\ Len(text(direction)) \in Nat /\ WellFormed(config[direction])
  <2>1. pc = "begin"
    BY DEF Begin
  <2>2. TypeOK /\ direction \in Directions /\ result = Undecided
    BY <2>1 DEF FitInv, TypeOK
  <2>3. IsList(text(direction)) /\ WellFormed(config[direction])
    BY <2>2 DEF FitInv, Shape
  <2>4. QED
    BY <2>2, <2>3 DEF IsList
<1>2. message' = message /\ config' = config
  BY DEF Begin
<1>3. ASSUME NEW r, r.start \in Nat, r.end \in Nat, r.start <= r.end, Fits(r), Disclose({r}, {}),
             pc' = "rules", direction' = direction, result' = result
      PROVE  TypeOK'
  <2>1. \A s \in {r} \cup {} :
          s.start \in Nat /\ s.end \in Nat /\ s.start <= s.end /\ s.end <= Len(text(direction))
    BY <1>3 DEF Fits
  <2>2. /\ revealed' \in [Directions -> SUBSET Nat] /\ DOMAIN committed' = Directions
        /\ \A d \in Directions :
             /\ revealed'[d] \subseteq 0..(Len(text(d)') - 1)
             /\ \A s \in committed'[d] : 0 <= s.start /\ s.start <= s.end /\ s.end <= Len(text(d)')
    BY <1>1, <1>2, <1>3, <2>1, Disclosed
  <2>3. QED
    BY <1>1, <1>3, <2>2 DEF TypeOK
<1>4. CASE direction = "Sent" /\ Rules(config[direction]) = <<>>
  <2>1. /\ Disclose({whole}, {}) /\ pc' = "rules" /\ todo' = <<>>
        /\ direction' = direction /\ fields' = fields /\ result' = result
    BY <1>4 DEF Begin
  <2>2. whole.start = 0 /\ whole.end = Len(text(direction))
    BY DEF To
  <2> HIDE DEF whole
  <2>3. whole.start \in Nat /\ whole.end \in Nat /\ whole.start <= whole.end /\ Fits(whole)
    BY <1>1, <2>2 DEF Fits
  <2>4. TypeOK'
    BY <1>3, <2>1, <2>3
  <2>5. RangesAreWritten'
    <3>1. IsList(<<>>) /\ Items(<<>>) = {}
      BY DEF Items, IsList
    <3>2. QED
      BY <2>1, <3>1 DEF RangesAreWritten
  <2>6. QED
    BY <1>2, <2>4, <2>5, ShapeStep DEF FitInv
<1>5. CASE ~(direction = "Sent" /\ Rules(config[direction]) = <<>>) /\ (~m.ok \/ ~Fits(line))
  BY <1>2, <1>5, FitFail DEF Begin
<1>6. CASE ~(direction = "Sent" /\ Rules(config[direction]) = <<>>) /\ m.ok /\ Fits(line)
  <2>1. /\ Disclose({line}, {}) /\ pc' = "rules" /\ todo' = Rules(config[direction])
        /\ fields' = [headers |-> m.headers, body |-> m.fields]
        /\ direction' = direction /\ result' = result
    BY <1>6 DEF Begin
  <2>2. line.start \in Nat /\ line.end \in Nat /\ line.start <= line.end
    <3>1. line = [start |-> 0 + 0, end |-> 5 + 1]
      BY DEF with_newline, adjust, To
    <3>2. QED
      BY <3>1
  <2> HIDE DEF line
  <2>3. TypeOK'
    BY <1>3, <1>6, <2>1, <2>2
  <2>4. /\ \A h \in m.headers : HeaderWritten(text(direction), h) /\ h.value # NoRange
        /\ \A h \in m.fields : Written(text(direction), h)
    BY <1>1, <1>6, StandardRanges DEF Parsed
  <2>5. RangesAreWritten'
    <3>1. IsList(Rules(config[direction]))
      BY <1>1, RulesOf
    <3>2. text(direction)' = text(direction) /\ Asked(direction)' = Asked(direction)
      BY <1>2, <2>1 DEF text, Asked
    <3>3. fields'.headers = m.headers /\ fields'.body = m.fields
      BY <2>1
    <3> HIDE DEF m
    <3>4. (\A h \in fields.headers : HeaderWritten(text(direction), h) /\ h.value # NoRange)'
      BY <2>4, <3>2, <3>3
    <3>5. (\A f \in fields.body : Written(text(direction), f))'
      BY <2>4, <3>2, <3>3
    <3>6. QED
      BY <2>1, <3>1, <3>2, <3>4, <3>5 DEF RangesAreWritten, Asked
  <2>6. QED
    BY <1>2, <2>3, <2>5, ShapeStep DEF FitInv
<1>7. QED
  BY <1>4, <1>5, <1>6

LEMMA FitStep == FitInv /\ [Next]_vars => FitInv'
<1> SUFFICES ASSUME FitInv, [Next]_vars PROVE FitInv'
  OBVIOUS
<1>1. message' = message /\ config' = config
  BY Frozen
<1>2. /\ Shape /\ TypeOK /\ direction \in Directions /\ IsList(text(direction))
      /\ Len(text(direction)) \in Nat /\ WellFormed(config[direction])
  BY DEF FitInv, TypeOK, Shape, IsList
<1>3. ASSUME pc = "rules", todo # <<>>
      PROVE  /\ IsList(todo) /\ Items(todo) \subseteq Asked(direction)
             /\ \A h \in fields.headers : HeaderWritten(text(direction), h) /\ h.value # NoRange
             /\ \A f \in fields.body : Written(text(direction), f)
  BY <1>3 DEF FitInv, RangesAreWritten
<1>4. CASE ApplyHeaderRule
  <2> DEFINE ranges == {header_full_range(h.at, h.value) : h \in Matching(Head(todo).rule)}
  <2>1. /\ pc = "rules" /\ todo # <<>>
        /\ ProverFails("RevealRuleNotMatched") \/ Applied(ranges, {}) \/ Applied({}, ranges)
    BY <1>4 DEF ApplyHeaderRule, Apply
  <2>2. \A r \in ranges : r.start \in Nat /\ r.end \in Nat /\ r.start <= r.end
    BY <1>2, <1>3, <2>1, HeaderFits DEF Matching
  <2> HIDE DEF ranges
  <2>3. QED
    BY <1>1, <2>1, <2>2, FitFail, FitApplied
<1>5. CASE ApplyBodyRule
  <2> DEFINE ranges == {selection_range(Head(todo).rule, f) : f \in Entry(fields.body, Head(todo).rule.path)}
  <2>1. /\ pc = "rules" /\ todo # <<>>
        /\ ProverFails("RevealRuleNotMatched") \/ Applied(ranges, {}) \/ Applied({}, ranges)
    BY <1>5 DEF ApplyBodyRule, Apply
  <2>2. \A r \in ranges : r.start \in Nat /\ r.end \in Nat /\ r.start <= r.end
    BY <1>2, <1>3, <2>1, FieldFits DEF Entry
  <2> HIDE DEF ranges
  <2>3. QED
    BY <1>1, <2>1, <2>2, FitFail, FitApplied
<1>6. CASE ApplyKeyValueRule
  <2> DEFINE rule   == Head(todo).rule
             entry  == Entry(fields.body, rule.path)
             reveal == {with_quotes_and_colon(f.key) : f \in entry}
             commit == {value_range(rule, f.value) : f \in entry}
  <2>1. /\ pc = "rules" /\ todo # <<>> /\ Head(todo).what = "key-value"
        /\ \/ ProverFails("RevealRuleNotMatched") \/ ProverFails("RevealStructureMismatch")
           \/ (\A f \in entry : f.key # NoRange) /\ Applied(reveal, commit)
    BY <1>6 DEF ApplyKeyValueRule
  <2>2. rule.length \in Nat
    <3>1. PICK x : x = Head(todo)
      OBVIOUS
    <3>2. x \in Items(Rules(config[direction])) /\ x.what = "key-value"
      BY <1>3, <2>1, <3>1, ListTail DEF Asked
    <3>3. x.rule \in Items(config[direction].reveal_keys_commit_values)
      BY <1>2, <3>2, RulesOf
    <3>4. QED
      BY <1>2, <3>1, <3>3 DEF WellFormed
  <2>3. \A f \in entry : Written(text(direction), f)
    BY <1>3, <2>1 DEF Entry
  <2> HIDE DEF rule, entry
  <2>4. ASSUME \A f \in entry : f.key # NoRange
        PROVE  \A r \in reveal \cup commit : r.start \in Nat /\ r.end \in Nat /\ r.start <= r.end
    BY <1>2, <2>2, <2>3, <2>4, KeyValueFits
  <2> HIDE DEF reveal, commit
  <2>5. QED
    BY <1>1, <2>1, <2>4, FitFail, FitApplied
<1>7. CASE MessageDone
  <2>1. /\ pc = "rules" /\ revealed' = revealed /\ committed' = committed /\ result' = result
        /\ direction' \in {direction, "Received"} /\ pc' \in {"begin", "proof"}
    BY <1>7 DEF MessageDone
  <2>2. TypeOK'
    BY <1>1, <1>2, <2>1, Static DEF TypeOK, Directions
  <2>3. QED
    BY <1>1, <1>2, <2>1, <2>2, ShapeStep DEF FitInv, RangesAreWritten
<1>8. CASE Verify
  <2>1. /\ pc = "proof" /\ pc' = "end" /\ result' = extract_balance /\ direction' = direction
        /\ revealed' = revealed /\ committed' = committed
    BY <1>8 DEF Verify
  <2>2. result' # Undecided
    <3>1. result'.status \in {"success", "failure"} /\ Undecided.status = "none"
      BY <2>1 DEF extract_balance, Success, Failure, Undecided
    <3>2. QED
      BY <3>1
  <2>3. TypeOK'
    BY <1>1, <1>2, <2>1, <2>2, Static DEF TypeOK
  <2>4. QED
    BY <1>1, <1>2, <2>1, <2>3, ShapeStep DEF FitInv, RangesAreWritten
<1>9. CASE UNCHANGED vars
  <2>1. /\ direction' = direction /\ pc' = pc /\ fields' = fields /\ todo' = todo
        /\ revealed' = revealed /\ committed' = committed /\ result' = result
    BY <1>9 DEF vars
  <2>2. TypeOK'
    BY <1>1, <1>2, <2>1, Static DEF TypeOK
  <2>3. QED
    BY <1>1, <1>2, <2>1, <2>2, ShapeStep, WrittenStep DEF FitInv
<1>10. QED
  BY <1>4, <1>5, <1>6, <1>7, <1>8, <1>9, FitBegin DEF Next, Ended

-----------------------------------------------------------------------------
\* What the verifier reads.

\* What is not hidden in the verifier's data is disclosed, and as the bank has written it.
LEMMA Unhidden ==
  ASSUME IsList(text("Received")), NEW data, data = received_unsafe
  PROVE  /\ Len(data) = Len(text("Received")) /\ Len(data) \in Nat
         /\ \A p \in Nat : p < Len(data) /\ At(data, p) # "NUL" =>
              p \in revealed["Received"] /\ data[p + 1] = text("Received")[p + 1]
                                         /\ At(data, p) = At(text("Received"), p)
<1> PICK t : t = text("Received")
  OBVIOUS
<1>1. Len(t) \in Nat /\ DOMAIN t = 1..Len(t)
  BY DEF IsList
<1>2. data = [i \in 1..Len(t) |-> IF i - 1 \in revealed["Received"] THEN t[i] ELSE "NUL"]
  BY <1>1 DEF received_unsafe
<1>3. Len(data) = Len(t)
  BY <1>1, <1>2
<1>4. ASSUME NEW p \in Nat, p < Len(data), At(data, p) # "NUL"
      PROVE  p \in revealed["Received"] /\ data[p + 1] = t[p + 1] /\ At(data, p) = At(t, p)
  <2>1. p + 1 \in 1..Len(t) /\ (p + 1) - 1 = p /\ p < Len(t)
    BY <1>1, <1>3, <1>4
  <2>2. data[p + 1] = IF p \in revealed["Received"] THEN t[p + 1] ELSE "NUL"
    BY <1>2, <2>1
  <2>3. At(data, p) = data[p + 1] /\ At(t, p) = t[p + 1]
    BY <1>4, <2>1 DEF At
  <2>4. QED
    BY <1>4, <2>2, <2>3
<1>5. QED
  BY <1>1, <1>3, <1>4

\* A stretch over which two texts are the same.
LEMMA Stretch ==
  ASSUME NEW s, NEW t, NEW first \in Nat, NEW last \in Nat, first <= last + 1,
         \A i \in first..last : s[i] = t[i]
  PROVE  /\ SubSeq(s, first, last) = SubSeq(t, first, last)
         /\ Len(SubSeq(s, first, last)) = (last + 1) - first
<1> DEFINE S == {t[i] : i \in first..last}
           u == SubSeq(s, first, last)
           v == SubSeq(t, first, last)
           n == (last - first) + 1
<1>1. \A i \in first..last : s[i] \in S /\ t[i] \in S
  OBVIOUS
<1> HIDE DEF S
<1>2. /\ u \in Seq(S) /\ Len(u) = IF first <= last THEN n ELSE 0
      /\ \A i \in 1..n : u[i] = s[first + i - 1]
  BY <1>1, SubSeqProperties
<1>3. /\ v \in Seq(S) /\ Len(v) = IF first <= last THEN n ELSE 0
      /\ \A i \in 1..n : v[i] = t[first + i - 1]
  BY <1>1, SubSeqProperties
<1> HIDE DEF u, v
<1>4. Len(u) = n /\ Len(v) = n
  BY <1>2, <1>3
<1>5. ASSUME NEW i \in 1..Len(u) PROVE u[i] = v[i]
  <2>1. i \in 1..n /\ first + i - 1 \in first..last
    BY <1>4
  <2>2. QED
    BY <2>1, <1>2, <1>3
<1>6. u = v
  BY <1>2, <1>3, <1>4, <1>5, SeqEqual
<1>7. QED
  BY <1>4, <1>6 DEF u, v

\* A pair of the redacted body, of one word as its key.
LEMMA PairIsDisclosed ==
  ASSUME IsList(text("Received")), NEW data, data = received_unsafe,
         NEW name, NEW f, f.path = <<Key(name)>>, f.value # NoRange, Shown(data, f)
  PROVE  DisclosedBehind(name, Sub(data, f.value))
<1> PICK t : t = text("Received")
  OBVIOUS
<1> DEFINE words == Sub(data, f.value)
<1>1. /\ Len(data) = Len(t) /\ Len(data) \in Nat
      /\ \A p \in Nat : p < Len(data) /\ At(data, p) # "NUL" =>
           p \in revealed["Received"] /\ data[p + 1] = t[p + 1] /\ At(data, p) = At(t, p)
  BY Unhidden
<1>2. PICK q \in Nat, c \in Nat :
        /\ f.key = To(q + 1, c) /\ q + 1 < c /\ c + 1 < Len(data)
        /\ f.path = <<<<"key", SubSeq(data, q + 2, c)>>>>
        /\ At(data, q) = "QUOTE" /\ At(data, c) = "QUOTE" /\ At(data, c + 1) = ":"
        /\ \A r \in q..(c + 1) : At(data, r) # "NUL"
        /\ f.value # NoRange =>
             \E b \in {c + 2, c + 3}, e \in Nat :
               f.value = To(b, e) /\ b <= e /\ e <= Len(data) /\ \A r \in q..(e - 1) : At(data, r) # "NUL"
  BY DEF Shown
<1>3. PICK b \in {c + 2, c + 3}, e \in Nat :
        f.value = To(b, e) /\ b <= e /\ e <= Len(data) /\ \A r \in q..(e - 1) : At(data, r) # "NUL"
  BY <1>2
<1> PICK key : key = SubSeq(data, q + 2, c)
  OBVIOUS
<1>4. key = <<name>>
  <2>1. f.path[1][2] = key
    BY <1>2
  <2>2. f.path[1][2] = <<name>>
    BY DEF Key
  <2>3. QED
    BY <2>1, <2>2
<1>5. c = q + 2 /\ data[q + 2] = name
  <2>1. q + 2 \in Nat /\ q + 2 <= c + 1 /\ q + 2 \in Int /\ c \in Int
    BY <1>2
  <2>2. Len(key) = (c + 1) - (q + 2)
    BY <2>1, Stretch
  <2>3. Len(key) = 1 /\ key[1] = name
    <3>1. Len(<<name>>) = 1 /\ <<name>>[1] = name
      OBVIOUS
    <3>2. QED
      BY <1>4, <3>1, Zenon
  <2>4. c = q + 2
    <3> PICK n : n = Len(key)
      OBVIOUS
    <3>1. n = (c + 1) - (q + 2) /\ n = 1 /\ q \in Nat /\ c \in Nat
      BY <1>2, <2>2, <2>3
    <3>2. QED
      BY <3>1
  <2>5. key[1] = data[(q + 2) + 1 - 1]
    <3> DEFINE S == {data[i] : i \in (q + 2)..c}
    <3>1. \A i \in (q + 2)..c : data[i] \in S
      OBVIOUS
    <3> HIDE DEF S
    <3>2. \A i \in 1..(c - (q + 2) + 1) : key[i] = data[(q + 2) + i - 1]
      BY <2>1, <3>1, SubSeqProperties
    <3>3. 1 \in 1..(c - (q + 2) + 1)
      BY <2>4
    <3>4. QED
      BY <3>2, <3>3
  <2>6. (q + 2) + 1 - 1 = q + 2
    OBVIOUS
  <2>7. QED
    BY <2>3, <2>4, <2>5, <2>6
<1>6. b \in {q + 4, q + 5} /\ q + 4 <= e /\ b <= e /\ e <= Len(data)
  BY <1>3, <1>5
<1>7. ASSUME NEW r \in q..(e - 1)
      PROVE  r \in revealed["Received"] /\ data[r + 1] = t[r + 1] /\ At(data, r) = At(t, r)
  <2>1. r \in Nat /\ r < Len(data)
    BY <1>1, <1>6
  <2>2. At(data, r) # "NUL"
    BY <1>3
  <2>3. QED
    BY <1>1, <2>1, <2>2
<1>8. /\ q \in revealed["Received"]
      /\ At(t, q) = "QUOTE" /\ At(t, q + 1) = name /\ At(t, q + 2) = "QUOTE" /\ At(t, q + 3) = ":"
  <2>1. q \in q..(e - 1) /\ q + 1 \in q..(e - 1) /\ q + 2 \in q..(e - 1) /\ q + 3 \in q..(e - 1)
    BY <1>6
  <2>2. At(data, q + 1) = name
    <3>1. q + 1 < Len(data) /\ (q + 1) + 1 = q + 2
      BY <1>1, <1>6
    <3>2. QED
      BY <1>5, <3>1 DEF At
  <2>3. At(data, q) = "QUOTE" /\ At(data, q + 2) = "QUOTE" /\ At(data, q + 3) = ":"
    <3>1. c + 1 = q + 3
      BY <1>5
    <3>2. QED
      BY <1>2, <1>5, <3>1
  <2>4. QED
    BY <1>7, <2>1, <2>2, <2>3
<1>9. words = SubSeq(t, b + 1, e) /\ Len(words) = e - b
  <2>1. words = SubSeq(data, b + 1, e)
    BY <1>3 DEF Sub, To
  <2>2. b + 1 \in Nat /\ b + 1 <= e + 1
    BY <1>6
  <2>3. \A i \in (b + 1)..e : data[i] = t[i]
    <3> TAKE i \in (b + 1)..e
    <3>1. i - 1 \in q..(e - 1) /\ (i - 1) + 1 = i
      BY <1>6
    <3>2. QED
      BY <1>7, <3>1
  <2>4. SubSeq(data, b + 1, e) = SubSeq(t, b + 1, e) /\ Len(SubSeq(data, b + 1, e)) = (e + 1) - (b + 1)
    BY <2>2, <2>3, Stretch
  <2>5. (e + 1) - (b + 1) = e - b
    BY <1>6
  <2>6. QED
    BY <2>1, <2>4, <2>5
<1> HIDE DEF words
<1>10. PICK k \in {4, 5} : b = q + k
  BY <1>6
<1>11. q + k + Len(words) = e /\ q + k + 1 = b + 1
  BY <1>6, <1>9, <1>10
<1>12. /\ q..(q + k + Len(words) - 1) \subseteq revealed["Received"]
       /\ words = SubSeq(t, q + k + 1, q + k + Len(words))
  BY <1>7, <1>9, <1>11
<1>13. DisclosedBehind(name, words)
  BY <1>8, <1>10, <1>12 DEF DisclosedBehind
<1>14. QED
  BY <1>13 DEF words

\* The verifier goes by what is disclosed at the time it reads.
LEMMA ExtractReads ==
  ASSUME IsList(text("Received")), extract_balance.status = "success"
  PROVE  /\ DisclosedBehind("CHF", extract_balance.chf)
         /\ DisclosedBehind("last_audit", extract_balance.last_audit)
<1> DEFINE data == received_unsafe
           response == ParseRedacted(data, StatusLine)
           chf == Entry(response.fields, <<Key("CHF")>>)
           audit == Entry(response.fields, <<Key("last_audit")>>)
           body_text(entry) == LET f == CHOOSE f \in entry : TRUE IN Sub(data, f.value)
<1>1. /\ response.ok /\ chf # {} /\ audit # {}
      /\ \A f \in chf \cup audit : f.value # NoRange
      /\ extract_balance = Success(body_text(chf), body_text(audit))
  BY DEF extract_balance, Failure
<1>2. /\ \A f \in chf : f \in response.fields /\ f.path = <<Key("CHF")>>
      /\ \A f \in audit : f \in response.fields /\ f.path = <<Key("last_audit")>>
  BY DEF Entry
<1> HIDE DEF chf, audit
<1>4. \A f \in response.fields : Shown(data, f)
  <2>1. Len(data) \in Nat
    BY Unhidden
  <2> HIDE DEF data
  <2>2. QED
    BY <1>1, <2>1, RedactedPairs
<1> HIDE DEF response
<1>5. PICK f \in chf : body_text(chf) = Sub(data, f.value)
  BY <1>1
<1>6. PICK g \in audit : body_text(audit) = Sub(data, g.value)
  BY <1>1
<1>7. DisclosedBehind("CHF", Sub(data, f.value))
  BY <1>1, <1>2, <1>4, <1>5, PairIsDisclosed
<1>8. DisclosedBehind("last_audit", Sub(data, g.value))
  BY <1>1, <1>2, <1>4, <1>6, PairIsDisclosed
<1> HIDE DEF body_text
<1>9. extract_balance.chf = body_text(chf) /\ extract_balance.last_audit = body_text(audit)
  BY <1>1 DEF Success
<1>10. QED
  BY <1>5, <1>6, <1>7, <1>8, <1>9

ReadInv == FitInv /\ ReadAsDisclosed

LEMMA ReadStep == ReadInv /\ [Next]_vars => ReadInv'
<1> SUFFICES ASSUME ReadInv, [Next]_vars PROVE ReadInv'
  OBVIOUS
<1>1. message' = message /\ config' = config /\ FitInv'
  BY Frozen, FitStep DEF ReadInv
<1>2. text("Received")' = text("Received") /\ IsList(text("Received"))
  BY <1>1, Static DEF ReadInv, FitInv, Shape, Directions
<1>3. CASE pc' # "end"
  <2>1. result' = Undecided
    BY <1>1, <1>3 DEF FitInv, TypeOK
  <2>2. QED
    BY <1>1, <2>1 DEF ReadInv, ReadAsDisclosed, Undecided
<1>4. CASE \E e : ProverFails(e)
  <2>1. PICK e : result' = Error(e)
    BY <1>4 DEF ProverFails
  <2>2. result'.status # "success"
    BY <2>1 DEF Error
  <2>3. QED
    BY <1>1, <2>2 DEF ReadInv, ReadAsDisclosed
<1>5. CASE Verify
  <2>1. result' = extract_balance /\ revealed' = revealed
    BY <1>5 DEF Verify
  <2>2. \A name, words : DisclosedBehind(name, words)' = DisclosedBehind(name, words)
    BY <1>2, <2>1 DEF DisclosedBehind
  <2>3. result'.status = "success" =>
          /\ DisclosedBehind("CHF", result'.chf) /\ DisclosedBehind("last_audit", result'.last_audit)
    BY <1>2, <2>1, ExtractReads
  <2>4. QED
    BY <1>1, <2>2, <2>3 DEF ReadInv, ReadAsDisclosed
<1>6. CASE UNCHANGED vars
  <2>1. result' = result /\ revealed' = revealed
    BY <1>6 DEF vars
  <2>2. ReadAsDisclosed'
    BY <1>2, <2>1 DEF ReadInv, ReadAsDisclosed, DisclosedBehind
  <2>3. QED
    BY <1>1, <2>2 DEF ReadInv
<1>7. pc' # "end" \/ (\E e : ProverFails(e)) \/ Verify \/ UNCHANGED vars
  <2>1. CASE Begin
    BY <2>1 DEF Begin
  <2>2. CASE ApplyHeaderRule
    BY <2>2 DEF ApplyHeaderRule, Apply, Applied
  <2>3. CASE ApplyBodyRule
    BY <2>3 DEF ApplyBodyRule, Apply, Applied
  <2>4. CASE ApplyKeyValueRule
    BY <2>4 DEF ApplyKeyValueRule, Applied
  <2>5. CASE MessageDone
    BY <2>5 DEF MessageDone
  <2>6. QED
    BY <2>1, <2>2, <2>3, <2>4, <2>5 DEF Next, Ended
<1>8. QED
  BY <1>3, <1>4, <1>5, <1>6, <1>7

-----------------------------------------------------------------------------
\* The theorems.

LEMMA InitInv == Init => IInv
<1> SUFFICES ASSUME Init PROVE IInv
  OBVIOUS
<1>1. PICK c \in Cases : message = [Sent |-> c.sent, Received |-> c.received] /\ config = c.config
  BY DEF Init
<1>2. Shape
  BY <1>1, RedactionAssumption DEF Shape, text, Directions
<1>3. /\ direction = "Sent" /\ pc = "begin" /\ result = Undecided
      /\ revealed = [d \in Directions |-> {}] /\ committed = [d \in Directions |-> {}]
  BY DEF Init
<1>4. TypeOK
  BY <1>3 DEF TypeOK, Directions
<1>5. Finished
  BY <1>3 DEF Finished, Proved, Undecided
<1>6. OnlyNamedIsLegible
  BY <1>3 DEF OnlyNamedIsLegible
<1>7. QED
  BY <1>2, <1>3, <1>4, <1>5, <1>6 DEF IInv, RulesLeft, RangesAreOwned

LEMMA InvStep == IInv /\ ParsedAsOwned /\ [Next]_vars => IInv'
<1> SUFFICES ASSUME IInv, ParsedAsOwned, [Next]_vars PROVE IInv'
  OBVIOUS
<1>1. CASE UNCHANGED vars
  BY <1>1, StutterStep
<1>2. QED
  BY <1>1, BeginStep, HeaderStep, BodyStep, KeyValueStep, MessageDoneStep, VerifyStep, StutterStep
     DEF Next, Ended

LEMMA InvAlways == Spec /\ []ParsedAsOwned => []IInv
  BY InitInv, InvStep, PTL DEF Spec

\* Whatever the two messages and the rules are, and however a commitment is padded: no range that
\* reveal.rs hands on starts before the transcript, ends before it starts, or goes beyond the end.
THEOREM RangesFit == Spec => []TypeOK
<1>1. Init => FitInv
  BY InitInv DEF IInv, FitInv, RangesAreWritten, Init
<1>2. FitInv => TypeOK
  BY DEF FitInv
<1>3. QED
  BY <1>1, <1>2, FitStep, PTL DEF Spec

\* apply_message_reveal_config discloses no word that no rule asks to reveal: for every config, with
\* any number of rules of any kind in any order, and every message.
THEOREM NothingElseLegible == Spec => ([]ParsedAsOwned => []OnlyNamedIsLegible)
<1>1. IInv => OnlyNamedIsLegible
  BY DEF IInv
<1>2. QED
  BY <1>1, InvAlways, PTL

\* A proof that build_prove_config completes carries out each rule to the last word: the rules of
\* both messages, and none is undone by a later one.
THEOREM EachRuleHonoured == Spec => ([]ParsedAsOwned => []RulesAreHonoured)
<1>1. IInv => RulesAreHonoured
  <2> SUFFICES ASSUME IInv, Proved, NEW d \in Directions, NEW p \in Content(d)
               PROVE  /\ Legible(config[d], Owner(d, p)) => p \in revealed[d]
                      /\ Secret(config[d], Owner(d, p)) => \E r \in committed[d] : p \in Span(r)
    BY DEF RulesAreHonoured
  <2>1. Done(d)
    BY DEF IInv, Finished, Directions
  <2>2. WellFormed(config[d])
    BY DEF IInv, Shape
  <2>3. /\ Legible(config[d], Owner(d, p)) =>
             Owner(d, p).part = "line" \/ \E x \in Asked(d) : Reveals(x, Owner(d, p))
        /\ Secret(config[d], Owner(d, p)) => \E x \in Asked(d) : Commits(x, Owner(d, p))
    BY <2>2, RuleByRule DEF Asked
  <2>4. QED
    BY <2>1, <2>3 DEF Done, LineShown, Carried
<1>2. QED
  BY <1>1, InvAlways, PTL

\* extract_balance, over a body full of holes: whatever the bank's answer is and whatever has been
\* disclosed of it, the balance and the date that the verifier shows are the bank's own words,
\* disclosed in one piece with the name and the colon in front of them.
THEOREM VerifierReadsWhatIsDisclosed == Spec => []ReadAsDisclosed
<1>1. Init => ReadInv
  BY InitInv DEF Init, IInv, FitInv, RangesAreWritten, ReadInv, ReadAsDisclosed, Undecided
<1>2. ReadInv => ReadAsDisclosed
  BY DEF ReadInv
<1>3. QED
  BY <1>1, <1>2, ReadStep, PTL DEF Spec

=============================================================================
