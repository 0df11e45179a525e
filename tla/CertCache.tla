----------------------------- MODULE CertCache ------------------------------
(***************************************************************************)
(* load_or_generate of demo/src/tls.rs: the server's self-signed           *)
(* certificate, cached in a file across restarts, and the page that serve  *)
(* (demo/src/service.rs) hands out with the certificate's hash in it.      *)
(* Time is in ticks, DAY of them a day.  A start takes less than a tick.   *)
(***************************************************************************)
EXTENDS Integers

CONSTANTS
  DAY,
  VALID_DAYS,             \* Duration::days(13)
  RENEW_WHEN_DAYS_LEFT,
  CEILING_DAYS,           \* Chrome's ceiling for serverCertificateHashes
  MaxTime, MaxCerts       \* bounds on the clock and on the keys generated

ASSUME CertCacheAssumption ==
  /\ DAY \in Nat \ {0}
  /\ RENEW_WHEN_DAYS_LEFT \in Nat \ {0}
  /\ VALID_DAYS \in Nat /\ VALID_DAYS > RENEW_WHEN_DAYS_LEFT
  /\ CEILING_DAYS \in Nat /\ CEILING_DAYS >= VALID_DAYS
  /\ MaxTime \in Nat /\ MaxCerts \in Nat

\* A generated certificate: its key pair, and the moment generate_self_signed
\* read the clock.
Certs  == [key : 1..MaxCerts, issued : 0..MaxTime]
NoCert == [key |-> 0, issued |-> 0]

VARIABLES
  now,
  keys,     \* key pairs generated so far
  file,     \* server-cert.json: "missing", "torn" or "whole"
  cached,   \* the certificate in a whole file
  pc,       \* the server process
  why,      \* what the last start failed of: "none", "io" or "cache"
  cert,     \* the certificate load_or_generate is to return
  started,  \* when the running server returned from it
  last,     \* the certificate last served: the one the user's browser trusts
  page      \* the certificate whose hash the open page carries

vars == <<now, keys, file, cached, pc, why, cert, started, last, page>>
disk == <<file, cached>>
user == <<last, page>>

TypeOK ==
  /\ now \in 0..MaxTime /\ started \in 0..now /\ keys \in 0..MaxCerts
  /\ file \in {"missing", "torn", "whole"}
  /\ pc \in {"down", "loading", "generating", "persisting", "writing", "serving"}
  /\ why \in {"none", "io", "cache"}
  /\ {cached, cert, last, page} \subseteq Certs \cup {NoCert}
  /\ file = "whole" <=> cached # NoCert
  /\ pc \in {"persisting", "writing", "serving"} => cert # NoCert

Init ==
  /\ now = 0 /\ started = 0 /\ keys = 0
  /\ file = "missing" /\ cached = NoCert
  /\ pc = "down" /\ why = "none" /\ cert = NoCert
  /\ last = NoCert /\ page = NoCert

-----------------------------------------------------------------------------
\* The two clocks of a certificate: the instant kept in the cache, and the
\* dates, without a time of day, in the certificate itself.

Day(t)       == (t \div DAY) * DAY
not_after(c) == c.issued + VALID_DAYS * DAY
CertNotBefore(c) == Day(c.issued)
CertNotAfter(c)  == Day(not_after(c))

Comfortable_NotExpired(c) == not_after(c) - now > 0
Comfortable(c) == not_after(c) - now >= RENEW_WHEN_DAYS_LEFT * DAY

-----------------------------------------------------------------------------
\* A start: load_or_generate, one disjunct or action per step that another
\* failure or a crash can follow.

Start ==
  /\ pc = "down"
  /\ pc' = "loading" /\ why' = "none" /\ cert' = NoCert
  /\ UNCHANGED <<now, keys, disk, started, user>>

StartFails(reason) ==
  /\ pc' = "down" /\ why' = reason /\ cert' = NoCert
  /\ UNCHANGED <<now, keys, started, user>>

Serve(c) ==
  /\ pc' = "serving" /\ started' = now /\ last' = c /\ cert' = c

load_cached_ErrorIsMissing ==
  /\ pc = "loading"
  /\ \/ /\ pc' = "generating"
        /\ UNCHANGED <<now, keys, disk, why, cert, started, user>>
     \/ /\ file = "whole" /\ Comfortable(cached)
        /\ Serve(cached)
        /\ UNCHANGED <<now, keys, disk, why, page>>

\* A file that cannot be parsed is an error, and only a missing one is not.
load_cached ==
  /\ pc = "loading"
  /\ \/ /\ file = "missing" \/ (file = "whole" /\ ~Comfortable(cached))
        /\ pc' = "generating"
        /\ UNCHANGED <<now, keys, disk, why, cert, started, user>>
     \/ /\ file = "whole" /\ Comfortable(cached)
        /\ Serve(cached)
        /\ UNCHANGED <<now, keys, disk, why, page>>
     \/ file = "torn" /\ StartFails("cache") /\ UNCHANGED disk
     \/ StartFails("io") /\ UNCHANGED disk

generate_self_signed ==
  /\ pc = "generating" /\ keys < MaxCerts
  /\ keys' = keys + 1
  /\ cert' = [key |-> keys + 1, issued |-> now]
  /\ pc' = "persisting"
  /\ UNCHANGED <<now, disk, why, started, user>>

\* create_dir_all, and the truncation fs::write begins with.
persist ==
  /\ pc = "persisting"
  /\ \/ /\ file' = "torn" /\ cached' = NoCert
        /\ pc' = "writing"
        /\ UNCHANGED <<now, keys, why, cert, started, user>>
     \/ StartFails("io") /\ UNCHANGED disk

write_IgnoresErrors ==
  /\ pc = "writing"
  /\ \/ file' = "whole" /\ cached' = cert
     \/ UNCHANGED disk
  /\ Serve(cert)
  /\ UNCHANGED <<now, keys, why, page>>

write ==
  /\ pc = "writing"
  /\ \/ /\ file' = "whole" /\ cached' = cert
        /\ Serve(cert)
        /\ UNCHANGED <<now, keys, why, page>>
     \/ StartFails("io") /\ UNCHANGED disk

\* The process is stopped or dies, between any two steps.
Crash ==
  /\ pc # "down"
  /\ pc' = "down" /\ cert' = NoCert
  /\ UNCHANGED <<now, keys, disk, why, started, user>>

-----------------------------------------------------------------------------
\* The browser, the clock, and an operator who deletes a file he is told of.

\* render_index puts the hash of the served certificate in the page.
LoadPage ==
  /\ pc = "serving" /\ page # cert
  /\ page' = cert
  /\ UNCHANGED <<now, keys, disk, pc, why, cert, started, last>>

Tick ==
  /\ pc \in {"down", "serving"} /\ now < MaxTime
  /\ now' = now + 1
  /\ UNCHANGED <<keys, disk, pc, why, cert, started, user>>

DeleteCache ==
  /\ pc = "down" /\ why = "cache"
  /\ file' = "missing" /\ cached' = NoCert
  /\ UNCHANGED <<now, keys, pc, why, cert, started, user>>

Next ==
  \/ Start \/ load_cached \/ generate_self_signed \/ persist \/ write \/ Crash
  \/ LoadPage \/ Tick \/ DeleteCache

Spec == Init /\ [][Next]_vars

-----------------------------------------------------------------------------
\* Properties.

\* A page loaded from the running server can open its session for all but one
\* of the days load_or_generate reserved: its hash is the served certificate's,
\* and Chrome takes that certificate.  The cache compares an instant, the
\* certificate carries only dates, so up to a day of the reserve is not real
\* (tls.rs:64 against tls.rs:106-111).
ChromeAccepts(c) ==
  /\ CertNotBefore(c) <= now /\ now < CertNotAfter(c)
  /\ CertNotAfter(c) - CertNotBefore(c) <= CEILING_DAYS * DAY
PageConnects ==
  pc = "serving" /\ page = cert /\ now - started <= (RENEW_WHEN_DAYS_LEFT - 1) * DAY
    => ChromeAccepts(page)

\* The certificate served is the one in the cache, whatever starts failed or
\* crashed before: the next start finds it (persist before the return).
ServedIsCached == pc = "serving" => file = "whole" /\ cached = cert

\* "A stable cert lets Chrome remember the user's proceed": a certificate is
\* replaced only when it has less than the reserve left, across crashes in any
\* step of a start and across a deleted torn cache.
StableAcrossRestarts ==
  [][last' # last => last = NoCert \/ ~Comfortable(last)]_vars

\* "Returns a self-signed cert ... reusing the one cached ... otherwise
\* generating a fresh one" (tls.rs:40-43): what the cache holds never makes a
\* start fail.
CacheNeverBlocks == why # "cache"

=============================================================================
