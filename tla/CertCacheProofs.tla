--------------------------- MODULE CertCacheProofs ---------------------------
(***************************************************************************)
(* Theorems about CertCache, for any length of a day, of a certificate's   *)
(* life and of the reserve, and any number of starts.  LastIsKept is why a *)
(* certificate is not replaced too early: while it is comfortable it is    *)
(* whole in the cache, and no start is past load_cached.  ServedInTime is  *)
(* why a page connects: the certificate was not issued after the start     *)
(* that serves it, and had the reserve left then.                          *)
(***************************************************************************)
EXTENDS CertCache, TLAPS

LastIsKept ==
  last # NoCert /\ Comfortable(last) =>
    file = "whole" /\ cached = last /\ pc \in {"down", "loading", "serving"}

\* The operator is told of a cache that cannot be read, never of a good one.
ToldOfTorn == why = "cache" => pc = "down" /\ file # "whole"

\* The reserve, and what a certificate had left when its server started.
reserve == RENEW_WHEN_DAYS_LEFT * DAY
life    == VALID_DAYS * DAY

ServedInTime ==
  /\ cached.issued <= now /\ cert.issued <= now
  /\ pc \in {"persisting", "writing"} => cert.issued = now
  /\ pc = "serving" => cert.issued <= started /\ (cert.issued + life) - started >= reserve

IInv == TypeOK /\ ServedIsCached /\ LastIsKept /\ ToldOfTorn /\ ServedInTime

LEMMA InitInv == Init => IInv
  BY CertCacheAssumption
     DEF Init, IInv, TypeOK, ServedIsCached, LastIsKept, ToldOfTorn, ServedInTime, NoCert

LEMMA TypeStep == TypeOK /\ [Next]_vars => TypeOK'
<1> SUFFICES ASSUME TypeOK, [Next]_vars PROVE TypeOK'
  OBVIOUS
<1>c. ASSUME NEW c \in Certs PROVE c # NoCert
  BY DEF Certs, NoCert
<1> USE CertCacheAssumption DEF TypeOK, disk, user
<1>1. CASE Start
  BY <1>1 DEF Start
<1>2. CASE load_cached
  BY <1>2, <1>c DEF load_cached, StartFails, Serve
<1>3. CASE generate_self_signed
  <2>1. keys + 1 \in 1..MaxCerts /\ keys + 1 \in 0..MaxCerts
    BY <1>3 DEF generate_self_signed
  <2>2. cert' \in Certs
    BY <1>3, <2>1 DEF generate_self_signed, Certs
  <2> QED
    BY <1>3, <1>c, <2>1, <2>2 DEF generate_self_signed
<1>4. CASE persist
  BY <1>4 DEF persist, StartFails
<1>5. CASE write
  BY <1>5 DEF write, StartFails, Serve
<1>6. CASE Crash
  BY <1>6 DEF Crash
<1>7. CASE LoadPage
  BY <1>7 DEF LoadPage
<1>8. CASE Tick
  BY <1>8 DEF Tick
<1>9. CASE DeleteCache
  BY <1>9 DEF DeleteCache
<1>10. CASE UNCHANGED vars
  BY <1>10 DEF vars
<1> QED
  BY <1>1, <1>2, <1>3, <1>4, <1>5, <1>6, <1>7, <1>8, <1>9, <1>10 DEF Next

LEMMA ServedStep == TypeOK /\ ServedIsCached /\ [Next]_vars => ServedIsCached'
<1> SUFFICES ASSUME TypeOK, ServedIsCached, [Next]_vars PROVE ServedIsCached'
  OBVIOUS
<1> USE DEF ServedIsCached, disk, user
<1>1. CASE Start \/ generate_self_signed \/ persist \/ Crash \/ DeleteCache
  BY <1>1 DEF Start, generate_self_signed, persist, StartFails, Crash, DeleteCache
<1>2. CASE load_cached
  BY <1>2 DEF load_cached, StartFails, Serve
<1>3. CASE write
  BY <1>3 DEF write, StartFails, Serve
<1>4. CASE LoadPage \/ Tick \/ UNCHANGED vars
  BY <1>4 DEF LoadPage, Tick, vars
<1> QED
  BY <1>1, <1>2, <1>3, <1>4 DEF Next

LEMMA ToldStep == ToldOfTorn /\ [Next]_vars => ToldOfTorn'
<1> SUFFICES ASSUME ToldOfTorn, [Next]_vars PROVE ToldOfTorn'
  OBVIOUS
<1> USE DEF ToldOfTorn, disk, user
<1>1. CASE Start \/ generate_self_signed \/ persist \/ write \/ Crash
  BY <1>1 DEF Start, generate_self_signed, persist, write, StartFails, Serve, Crash
<1>2. CASE load_cached
  BY <1>2 DEF load_cached, StartFails, Serve
<1>3. CASE LoadPage \/ Tick \/ DeleteCache \/ UNCHANGED vars
  BY <1>3 DEF LoadPage, Tick, DeleteCache, vars
<1> QED
  BY <1>1, <1>2, <1>3 DEF Next

\* A certificate does not become comfortable again.
LEMMA Wanes == \A a, b, t \in Int, u \in Int : u \in {t, t + 1} /\ a - u >= b => a - t >= b
  OBVIOUS

LEMMA ComfortWanes ==
  ASSUME NEW c \in Certs \cup {NoCert}, TypeOK, now' \in {now, now + 1},
         not_after(c) - now' >= RENEW_WHEN_DAYS_LEFT * DAY
  PROVE  Comfortable(c)
<1>1. now \in Int /\ now' \in Int
  BY CertCacheAssumption DEF TypeOK
<1>2. not_after(c) \in Int /\ RENEW_WHEN_DAYS_LEFT * DAY \in Int
  BY CertCacheAssumption DEF not_after, Certs, NoCert
<1>3. not_after(c) - now >= reserve
  <2>1. reserve \in Int /\ not_after(c) - now' >= reserve
    BY <1>2 DEF reserve
  <2> QED
    BY <1>1, <1>2, <2>1, Wanes
<1> QED
  BY <1>3 DEF Comfortable, reserve

LEMMA LastStep == IInv /\ [Next]_vars => LastIsKept'
<1> SUFFICES ASSUME IInv, [Next]_vars, last' # NoCert, Comfortable(last)'
             PROVE  file' = "whole" /\ cached' = last' /\ pc' \in {"down", "loading", "serving"}
  BY DEF LastIsKept
<1> USE DEF disk, user
<1>1. CASE last' = last
  <2>1. now' \in {now, now + 1}
    BY DEF Next, Start, load_cached, generate_self_signed, persist, write, StartFails, Serve, Crash,
           LoadPage, Tick, DeleteCache, vars
  <2>2. Comfortable(last)
    <3>1. TypeOK /\ last \in Certs \cup {NoCert}
      BY DEF IInv, TypeOK
    <3>2. not_after(last) - now' >= RENEW_WHEN_DAYS_LEFT * DAY
      BY <1>1 DEF Comfortable, not_after
    <3> QED
      BY <2>1, <3>1, <3>2, ComfortWanes
  <2>4. file = "whole" /\ cached = last /\ pc \in {"down", "loading", "serving"}
    BY <1>1, <2>2 DEF IInv, LastIsKept
  <2>5. CASE load_cached
    BY <1>1, <2>2, <2>4, <2>5 DEF load_cached, StartFails, Serve
  <2>6. CASE Start \/ Crash \/ LoadPage \/ Tick \/ UNCHANGED vars
    BY <1>1, <2>4, <2>6 DEF Start, Crash, LoadPage, Tick, vars
  <2>7. ~(generate_self_signed \/ persist \/ write \/ DeleteCache)
    BY <2>4 DEF generate_self_signed, persist, write, DeleteCache, IInv, ToldOfTorn
  <2> QED
    BY <2>5, <2>6, <2>7 DEF Next
<1>2. CASE last' # last
  <2>1. load_cached \/ write
    BY <1>2 DEF Next, Start, generate_self_signed, persist, StartFails, Crash, LoadPage, Tick,
                DeleteCache, vars
  <2> QED
    BY <1>2, <2>1 DEF load_cached, write, StartFails, Serve
<1> QED
  BY <1>1, <1>2

-----------------------------------------------------------------------------
\* Days.

LEMMA Division ==
  ASSUME NEW d \in Nat \ {0}, NEW t \in Nat
  PROVE  t \div d \in Int /\ (t \div d) * d <= t /\ t < (t \div d) * d + d
OBVIOUS

\* Two multiples of d are the same or at least d apart.
LEMMA Multiples ==
  ASSUME NEW d \in Nat \ {0}, NEW a \in Int, NEW b \in Int, a < b
  PROVE  a * d + d <= b * d
<1>1. (b - a - 1) * d >= 0
  OBVIOUS
<1>2. (b - a - 1) * d = b * d - a * d - d /\ a * d \in Int /\ b * d \in Int
  OBVIOUS
<1> QED
  BY <1>1, <1>2

\* A day begins at most a day before any of its instants.
LEMMA DayOf ==
  ASSUME NEW t \in Nat
  PROVE  Day(t) \in Int /\ Day(t) <= t /\ t < Day(t) + DAY
BY Division, CertCacheAssumption DEF Day, CertCacheAssumption

\* Whole days later it is the same time of day.
LEMMA DayPlus ==
  ASSUME NEW t \in Nat, NEW k \in Nat
  PROVE  Day(t + k * DAY) = Day(t) + k * DAY
<1>0. DAY \in Nat \ {0} /\ k * DAY \in Nat
  BY CertCacheAssumption DEF CertCacheAssumption
<1> DEFINE a == t \div DAY
           b == (t + k * DAY) \div DAY
<1>1. a \in Int /\ a * DAY <= t /\ t < a * DAY + DAY
  BY <1>0, Division
<1>2. b \in Int /\ b * DAY <= t + k * DAY /\ t + k * DAY < b * DAY + DAY
  BY <1>0, Division
<1> HIDE DEF a, b
<1>3. (a + k) * DAY = a * DAY + k * DAY /\ a + k \in Int
      /\ (a + k) * DAY \in Int /\ a * DAY \in Int /\ b * DAY \in Int
  BY <1>0, <1>1, <1>2
<1>4. ~(b < a + k)
  <2>1. SUFFICES ASSUME b < a + k PROVE FALSE
    OBVIOUS
  <2>2. b * DAY + DAY <= (a + k) * DAY
    BY <1>0, <1>2, <1>3, <2>1, Multiples
  <2> QED
    BY <1>0, <1>1, <1>2, <1>3, <2>2
<1>5. ~(a + k < b)
  <2>1. SUFFICES ASSUME a + k < b PROVE FALSE
    OBVIOUS
  <2>2. (a + k) * DAY + DAY <= b * DAY
    BY <1>0, <1>2, <1>3, <2>1, Multiples
  <2> QED
    BY <1>0, <1>1, <1>2, <1>3, <2>2
<1>6. b = a + k
  BY <1>2, <1>3, <1>4, <1>5
<1>7. Day(t) = a * DAY /\ Day(t + k * DAY) = b * DAY
  BY DEF Day, a, b
<1> QED
  BY <1>3, <1>6, <1>7

\* The constants as numbers.
LEMMA Durations ==
  /\ DAY \in Nat /\ DAY > 0 /\ reserve \in Nat /\ life \in Nat
  /\ life >= reserve /\ life <= CEILING_DAYS * DAY
  /\ CEILING_DAYS * DAY \in Nat
  /\ (RENEW_WHEN_DAYS_LEFT - 1) * DAY = reserve - DAY
<1>1. /\ DAY \in Nat /\ DAY > 0 /\ RENEW_WHEN_DAYS_LEFT \in Nat /\ VALID_DAYS \in Nat
      /\ CEILING_DAYS \in Nat
      /\ VALID_DAYS > RENEW_WHEN_DAYS_LEFT /\ CEILING_DAYS >= VALID_DAYS
  BY CertCacheAssumption DEF CertCacheAssumption
<1>2. \A m, n \in Nat : m >= n => m * DAY >= n * DAY /\ n * DAY \in Nat
  <2>1. TAKE m, n \in Nat
  <2>2. HAVE m >= n
  <2>3. (m - n) * DAY >= 0 /\ (m - n) * DAY = m * DAY - n * DAY
    BY <1>1, <2>2
  <2> QED
    BY <1>1, <2>3
<1>3. (RENEW_WHEN_DAYS_LEFT - 1) * DAY = RENEW_WHEN_DAYS_LEFT * DAY - DAY
  BY <1>1
<1> QED
  BY <1>1, <1>2, <1>3 DEF reserve, life

\* A start takes less than a tick, so what it has generated is new; a cached
\* certificate is measured against the clock before it is served.
LEMMA InTimeStep == TypeOK /\ ServedInTime /\ [Next]_vars => ServedInTime'
<1> SUFFICES ASSUME TypeOK, ServedInTime, [Next]_vars PROVE ServedInTime'
  OBVIOUS
<1>n. /\ now \in Nat /\ started \in Nat /\ started <= now
      /\ cached.issued \in Nat /\ cert.issued \in Nat /\ reserve \in Nat /\ life \in Nat
      /\ life >= reserve
  <2>1. now \in 0..MaxTime /\ started \in 0..now /\ MaxTime \in Nat
        /\ cached \in Certs \cup {NoCert} /\ cert \in Certs \cup {NoCert}
    BY CertCacheAssumption DEF TypeOK, CertCacheAssumption
  <2>2. cached.issued \in Nat /\ cert.issued \in Nat
    BY <2>1 DEF Certs, NoCert
  <2> QED
    BY <2>1, <2>2, Durations
<1>z. NoCert.issued = 0
  BY DEF NoCert
<1>h. /\ cached.issued <= now /\ cert.issued <= now
      /\ pc \in {"persisting", "writing"} => cert.issued = now
      /\ pc = "serving" => cert.issued <= started /\ (cert.issued + life) - started >= reserve
  BY DEF ServedInTime
<1> USE DEF disk, user
<1>1. CASE Start \/ Crash
  BY <1>n, <1>z, <1>h, <1>1 DEF Start, Crash, ServedInTime
<1>2. CASE load_cached
  <2>1. CASE Comfortable(cached) /\ Serve(cached) /\ UNCHANGED <<now, cached>>
    <3>1. (cached.issued + life) - now >= reserve
      BY <2>1, Zenon DEF Comfortable, not_after, life, reserve
    <3>2. pc' = "serving" /\ started' = now /\ cert' = cached /\ UNCHANGED <<now, cached>>
      BY <2>1 DEF Serve
    <3> QED
      BY <1>h, <3>1, <3>2 DEF ServedInTime
  <2>2. CASE pc' \in {"generating", "down"} /\ cert' \in {cert, NoCert} /\ UNCHANGED <<now, cached>>
    BY <1>n, <1>z, <1>h, <2>2 DEF ServedInTime
  <2> QED
    BY <1>2, <2>1, <2>2 DEF load_cached, StartFails
<1>3. CASE generate_self_signed
  <2>1. cert'.issued = now /\ pc' = "persisting" /\ UNCHANGED <<now, cached>>
    BY <1>3 DEF generate_self_signed
  <2> QED
    BY <1>n, <1>h, <2>1 DEF ServedInTime
<1>4. CASE persist
  <2>1. /\ pc = "persisting" /\ UNCHANGED now /\ cached' \in {cached, NoCert}
        /\ \/ pc' = "writing" /\ UNCHANGED cert
           \/ pc' = "down" /\ cert' = NoCert
    BY <1>4 DEF persist, StartFails
  <2> QED
    BY <1>n, <1>z, <1>h, <2>1 DEF ServedInTime
<1>5. CASE write
  <2>1. /\ pc = "writing" /\ UNCHANGED now
        /\ \/ pc' = "serving" /\ cached' = cert /\ cert' = cert /\ started' = now
           \/ pc' = "down" /\ cert' = NoCert /\ UNCHANGED cached
    BY <1>5 DEF write, Serve, StartFails
  <2> QED
    BY <1>n, <1>z, <1>h, <2>1 DEF ServedInTime
<1>6. CASE LoadPage \/ UNCHANGED vars
  BY <1>h, <1>6 DEF LoadPage, vars, ServedInTime
<1>7. CASE Tick
  <2>1. pc \in {"down", "serving"} /\ now' = now + 1 /\ UNCHANGED <<cached, cert, pc, started>>
    BY <1>7 DEF Tick
  <2> QED
    BY <1>n, <1>h, <2>1 DEF ServedInTime
<1>8. CASE DeleteCache
  BY <1>n, <1>z, <1>h, <1>8 DEF DeleteCache, ServedInTime
<1> QED
  BY <1>1, <1>2, <1>3, <1>4, <1>5, <1>6, <1>7, <1>8 DEF Next

-----------------------------------------------------------------------------
LEMMA Inductive == Spec => []IInv
<1>1. IInv /\ [Next]_vars => IInv'
  BY TypeStep, ServedStep, ToldStep, LastStep, InTimeStep DEF IInv
<1> QED
  BY InitInv, <1>1, PTL DEF Spec

-----------------------------------------------------------------------------
\* Every state of the cache and its server is typed; only a whole file holds a certificate.
THEOREM CacheTyped == Spec => []TypeOK
<1>1. IInv => TypeOK
  BY DEF IInv
<1> QED
  BY Inductive, <1>1, PTL

\* load_or_generate returns no certificate that the next start will not find, whatever starts
\* failed or died before (persist before the return).
THEOREM ServedCached == Spec => []ServedIsCached
<1>1. IInv => ServedIsCached
  BY DEF IInv
<1> QED
  BY Inductive, <1>1, PTL

\* The hash render_index put in the page is that of a certificate Chrome takes: whatever the
\* durations, for all but one of the days load_or_generate reserved after the server's start
\* (load_cached's comparison of instants against dates that have no time of day).
THEOREM PageCanConnect == Spec => []PageConnects
<1>1. IInv => PageConnects
  <2>1. SUFFICES ASSUME IInv, pc = "serving", page = cert,
                        now - started <= (RENEW_WHEN_DAYS_LEFT - 1) * DAY
                 PROVE  ChromeAccepts(cert)
    BY DEF PageConnects
  <2> DEFINE t == cert.issued
  <2>2. /\ now \in Nat /\ started \in Nat /\ started <= now /\ t \in Nat
        /\ t <= started /\ (t + life) - started >= reserve
    <3>1. now \in 0..MaxTime /\ started \in 0..now /\ MaxTime \in Nat
          /\ cert \in Certs \cup {NoCert}
      <4>1. TypeOK
        BY <2>1 DEF IInv
      <4> QED
        BY <4>1, CertCacheAssumption DEF TypeOK, CertCacheAssumption
    <3>2. t \in Nat
      BY <3>1 DEF Certs, NoCert
    <3>3. t <= started /\ (t + life) - started >= reserve
      BY <2>1 DEF IInv, ServedInTime
    <3> QED
      BY <3>1, <3>2, <3>3
  <2>3. now - started <= reserve - DAY
    BY <2>1, Durations
  <2>4. CertNotBefore(cert) = Day(t) /\ CertNotAfter(cert) = Day(t + life)
    BY DEF CertNotBefore, CertNotAfter, not_after, life
  <2>5. Day(t + life) = Day(t) + life
    BY <2>2, DayPlus, CertCacheAssumption DEF life, CertCacheAssumption
  <2> HIDE DEF t
  <2>6. Day(t) \in Int /\ Day(t) <= t /\ t < Day(t) + DAY
    BY <2>2, DayOf
  <2>7. Day(t) <= now
    BY <2>2, <2>6
  <2>8. now < Day(t) + life
    BY <2>2, <2>3, <2>6, Durations
  <2>9. (Day(t) + life) - Day(t) <= CEILING_DAYS * DAY
    BY <2>6, Durations
  <2>10. /\ CertNotBefore(cert) <= now /\ now < CertNotAfter(cert)
         /\ CertNotAfter(cert) - CertNotBefore(cert) <= CEILING_DAYS * DAY
    BY <2>4, <2>5, <2>7, <2>8, <2>9, Zenon
  <2> QED
    BY <2>10, Zenon DEF ChromeAccepts
<1> QED
  BY Inductive, <1>1, PTL

\* A certificate that users have accepted is replaced only when it has less than the reserve
\* left (load_cached, and that nothing is written while it has more).
THEOREM Stable == Spec => StableAcrossRestarts
<1>1. IInv /\ [Next]_vars =>
        [last' # last => last = NoCert \/ ~Comfortable(last)]_vars
  <2> SUFFICES ASSUME IInv, Next, last' # last, last # NoCert, Comfortable(last) PROVE FALSE
    BY DEF vars
  <2>1. load_cached \/ write
    BY DEF Next, Start, generate_self_signed, persist, StartFails, Crash, LoadPage, Tick,
           DeleteCache, disk, user
  <2>2. cached = last /\ pc # "writing"
    BY DEF IInv, LastIsKept
  <2> QED
    BY <2>1, <2>2 DEF load_cached, write, StartFails, Serve, user
<1> QED
  BY Inductive, <1>1, PTL DEF Spec, StableAcrossRestarts

=============================================================================
