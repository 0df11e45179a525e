------------------------------ MODULE Redaction ------------------------------
(***************************************************************************)
(* Selective disclosure: how the prover turns the rules of a RevealConfig  *)
(* into ranges of the transcript (tlsn-prover/src/reveal.rs), and what the *)
(* verifier reads in the ranges disclosed (extract_balance of              *)
(* demo/src/balance_verifier.rs).  One rule is applied at a time; one that *)
(* fails ends the run, and nothing has been sent by then.                  *)
(*                                                                         *)
(* A message's text comes with what each of its symbols belongs to, which  *)
(* the code does not see: the properties speak of that.                    *)
(***************************************************************************)
EXTENDS HttpJson, SequencesExt

CONSTANTS
  Cases  \* [sent, received, config]: a request, its answer, and what the worker asks for,
         \* a RevealConfig per direction.  A message is [text, of], "of" the owner of each
         \* symbol, [part, name, path]: part "line", "header" (with its name), "key", "value"
         \* or "shadowed" (with the field's path; shadowed where a later pair has the same),
         \* "" for punctuation

Directions == {"Sent", "Received"}

\* A config holds lists of rules; commitment_length is an Option<usize>, here 0 for None.
Items(list) == {list[i] : i \in DOMAIN list}
IsList(list) == list \in Seq(Items(list))
WellFormed(c) ==
  /\ IsList(c.reveal_headers) /\ IsList(c.commit_headers)
  /\ IsList(c.reveal_body_fields) /\ IsList(c.commit_body_fields)
  /\ IsList(c.reveal_keys_commit_values)
  /\ \A rule \in Items(c.reveal_keys_commit_values) : rule.length \in Nat

ASSUME RedactionAssumption ==
  \A c \in Cases : /\ IsList(c.sent.text) /\ IsList(c.received.text)
                   /\ \A d \in Directions : WellFormed(c.config[d])

VARIABLES
  message,    \* the transcript, and who owns it, per direction
  config,
  direction,  \* which of reveal_request and reveal_response is at work
  pc,
  fields,     \* the parsed message's headers and body
  todo,       \* the rules still to apply
  revealed,   \* per direction: the positions to reveal
  committed,  \* per direction: the ranges to commit to
  result      \* the prover's error, or the verifier's verdict

vars == <<message, config, direction, pc, fields, todo, revealed, committed, result>>

text(d) == message[d].text
Span(r) == {p \in r.start..(r.end - 1) : TRUE}
Sub(t, r) == SubSeq(t, r.start + 1, r.end)

Undecided  == [status |-> "none"]
Error(e)   == [status |-> "error", reason |-> e]
Failure(e) == [status |-> "failure", reason |-> e]
Success(chf, audit) == [status |-> "success", chf |-> chf, last_audit |-> audit]

ProverErrors    == {"parse", "RevealRuleNotMatched", "RevealStructureMismatch", "transcript"}
VerifierReasons == {"parse", "MissingBodyField", "MissingFieldValue"}

TypeOK ==
  /\ direction \in Directions /\ pc \in {"begin", "rules", "proof", "end"}
  /\ revealed \in [Directions -> SUBSET Nat] /\ DOMAIN committed = Directions
  /\ \A d \in Directions :
       /\ revealed[d] \subseteq 0..(Len(text(d)) - 1)
       /\ \A r \in committed[d] : 0 <= r.start /\ r.start <= r.end /\ r.end <= Len(text(d))
  /\ result = Undecided <=> pc # "end"

Init ==
  /\ \E c \in Cases : message = [Sent |-> c.sent, Received |-> c.received] /\ config = c.config
  /\ direction = "Sent" /\ pc = "begin"
  /\ fields = [headers |-> {}, body |-> {}] /\ todo = <<>>
  /\ revealed = [d \in Directions |-> {}] /\ committed = [d \in Directions |-> {}]
  /\ result = Undecided

-----------------------------------------------------------------------------
\* The range arithmetic.

adjust(r, a, b)  == To(r.start + a, r.end + b)
with_newline(r)  == adjust(r, 0, 1)
with_quotes_and_colon_ForStrings(key) == adjust(key, -1, 3)
with_quotes_and_colon(key)            == adjust(key, -1, 2)
full_pair_quoted_NoQuote(key, value)  == To(key.start - 1, value.end)
full_pair_quoted(key, value)          == To(key.start - 1, value.end + 1)
full_pair_unquoted(key, value)        == To(key.start - 1, value.end)
header_full_range(name, value)        == To(name.start, value.end + 1)

\* An array's element, or the whole body, has no key: it is taken as it is.
selection_range(rule, f) ==
  IF f.key = NoRange THEN f.value
  ELSE IF rule.quoted THEN full_pair_quoted(f.key, f.value)
  ELSE full_pair_unquoted(f.key, f.value)

\* Padded to commitment_length (0 for none), or as it is if longer.
value_range(rule, value) == To(value.start, Max({value.end, value.start + rule.length}))

Key(name) == <<"key", <<name>>>>

NoRules == [reveal_headers |-> <<>>, commit_headers |-> <<>>, reveal_body_fields |-> <<>>,
            commit_body_fields |-> <<>>, reveal_keys_commit_values |-> <<>>]
Quote(path)   == [quoted |-> TRUE, path |-> path]
Unquote(path) == [quoted |-> FALSE, path |-> path]

\* requestRevealConfig and responseRevealConfig, which the page's own worker asks for.
PageConfig ==
  [Sent     |-> [NoRules EXCEPT !.commit_headers = <<"authorization">>],
   Received |-> [NoRules EXCEPT
     !.reveal_body_fields = <<Quote(<<Key("accounts"), Key("CHF")>>), Quote(<<Key("last_audit")>>)>>,
     !.commit_body_fields = <<Quote(<<Key("account_id")>>)>>]]

\* The order in which apply_message_reveal_config takes the rules.
Tagged(what, do, rules) == [i \in DOMAIN rules |-> [what |-> what, do |-> do, rule |-> rules[i]]]
Rules(c) ==
  Tagged("header", "reveal", c.reveal_headers) \o Tagged("header", "commit", c.commit_headers)
  \o Tagged("body", "reveal", c.reveal_body_fields) \o Tagged("body", "commit", c.commit_body_fields)
  \o Tagged("key-value", "both", c.reveal_keys_commit_values)

-----------------------------------------------------------------------------
\* build_prove_config.

ProverFails(e) ==
  /\ result' = Error(e) /\ pc' = "end"
  /\ UNCHANGED <<direction, fields, todo, revealed, committed>>

\* The builders refuse a range that the transcript does not have: a message may end right
\* after its line, without the newline that its range is widened by.
Disclose(reveal, commit) ==
  /\ revealed' = [revealed EXCEPT ![direction] = @ \cup UNION {Span(r) : r \in reveal}]
  /\ committed' = [committed EXCEPT ![direction] = @ \cup commit]
Fits_Unchecked(r) == TRUE
Fits(r) == r.end <= Len(text(direction))

Parsed(d) == ParseStandard(text(d), IF d = "Sent" THEN RequestLine ELSE StatusLine)

\* reveal_request and reveal_response up to the first rule: a request without
\* rules is disclosed whole.
Begin ==
  /\ pc = "begin"
  /\ LET m     == Parsed(direction)
         rules == Rules(config[direction])
         line  == with_newline(To(0, 5))
     IN  IF direction = "Sent" /\ rules = <<>>
         THEN /\ Disclose({To(0, Len(text(direction)))}, {})
              /\ pc' = "rules" /\ todo' = <<>>
              /\ UNCHANGED <<direction, fields, result>>
         ELSE IF ~m.ok THEN ProverFails("parse")
         ELSE IF ~Fits(line) THEN ProverFails("transcript")
         ELSE /\ Disclose({line}, {})
              /\ fields' = [headers |-> m.headers, body |-> m.fields]
              /\ pc' = "rules" /\ todo' = rules
              /\ UNCHANGED <<direction, result>>
  /\ UNCHANGED <<message, config>>

Applied(reveal, commit) ==
  IF \A r \in reveal \cup commit : Fits(r)
  THEN Disclose(reveal, commit) /\ todo' = Tail(todo) /\ UNCHANGED <<direction, pc, fields, result>>
  ELSE ProverFails("transcript")

Apply(do, ranges) ==
  IF do = "reveal" THEN Applied(ranges, {}) ELSE Applied({}, ranges)

\* Every header of the name, however it is written.
Matching_Last(name) ==
  {h \in fields.headers : /\ h.name = LowerCase[name]
                          /\ \A g \in fields.headers : g.name = h.name => g.at.start <= h.at.start}
Matching(name) == {h \in fields.headers : h.name = LowerCase[name]}

ApplyHeaderRule ==
  /\ pc = "rules" /\ todo # <<>> /\ Head(todo).what = "header"
  /\ LET matching == Matching(Head(todo).rule)
     IN  IF matching = {} THEN ProverFails("RevealRuleNotMatched")
         ELSE Apply(Head(todo).do, {header_full_range(h.at, h.value) : h \in matching})
  /\ UNCHANGED <<message, config>>

ApplyBodyRule ==
  /\ pc = "rules" /\ todo # <<>> /\ Head(todo).what = "body"
  /\ LET rule  == Head(todo).rule
         entry == Entry(fields.body, rule.path)
     IN  IF entry = {} THEN ProverFails("RevealRuleNotMatched")
         ELSE Apply(Head(todo).do, {selection_range(rule, f) : f \in entry})
  /\ UNCHANGED <<message, config>>

ApplyKeyValueRule ==
  /\ pc = "rules" /\ todo # <<>> /\ Head(todo).what = "key-value"
  /\ LET rule  == Head(todo).rule
         entry == Entry(fields.body, rule.path)
     IN  IF entry = {} THEN ProverFails("RevealRuleNotMatched")
         ELSE IF \E f \in entry : f.key = NoRange THEN ProverFails("RevealStructureMismatch")
         ELSE Applied({with_quotes_and_colon(f.key) : f \in entry},
                      {value_range(rule, f.value) : f \in entry})
  /\ UNCHANGED <<message, config>>

MessageDone ==
  /\ pc = "rules" /\ todo = <<>>
  /\ IF direction = "Sent" THEN direction' = "Received" /\ pc' = "begin"
     ELSE pc' = "proof" /\ UNCHANGED direction
  /\ UNCHANGED <<message, config, fields, todo, revealed, committed, result>>

-----------------------------------------------------------------------------
\* The verifier: what is not revealed is NUL.

received_unsafe ==
  [i \in DOMAIN text("Received") |->
     IF i - 1 \in revealed["Received"] THEN text("Received")[i] ELSE "NUL"]

extract_balance ==
  LET data     == received_unsafe
      response == ParseRedacted(data, StatusLine)
      chf      == Entry(response.fields, <<Key("CHF")>>)
      audit    == Entry(response.fields, <<Key("last_audit")>>)
      body_text(entry) == LET f == CHOOSE f \in entry : TRUE IN Sub(data, f.value)
  IN  IF ~response.ok THEN Failure("parse")
      ELSE IF chf = {} THEN Failure("MissingBodyField")
      ELSE IF \E f \in chf : f.value = NoRange THEN Failure("MissingFieldValue")
      ELSE IF audit = {} THEN Failure("MissingBodyField")
      ELSE IF \E f \in audit : f.value = NoRange THEN Failure("MissingFieldValue")
      ELSE Success(body_text(chf), body_text(audit))

Verify ==
  /\ pc = "proof"
  /\ result' = extract_balance /\ pc' = "end"
  /\ UNCHANGED <<message, config, direction, fields, todo, revealed, committed>>

Ended == pc = "end" /\ UNCHANGED vars

Next ==
  \/ Begin \/ ApplyHeaderRule \/ ApplyBodyRule \/ ApplyKeyValueRule \/ MessageDone
  \/ Verify \/ Ended

Spec == Init /\ [][Next]_vars

-----------------------------------------------------------------------------
\* What the properties speak of.

\* A rule speaks of a field and of all it encloses; not of a pair that a
\* later one has replaced, unless it encloses both.
Covers(rule, o) ==
  IF o.part = "shadowed" THEN IsStrictPrefix(rule.path, o.path)
  ELSE o.part \in {"key", "value"} /\ IsPrefix(rule.path, o.path)

Legible(c, o) ==
  \/ o.part = "line"
  \/ o.part = "header" /\ \E name \in Items(c.reveal_headers) : LowerCase[name] = o.name
  \/ \E rule \in Items(c.reveal_body_fields) : Covers(rule, o)
  \/ o.part = "key" /\ \E rule \in Items(c.reveal_keys_commit_values) : rule.path = o.path

Secret(c, o) ==
  \/ o.part = "header" /\ \E name \in Items(c.commit_headers) : LowerCase[name] = o.name
  \/ \E rule \in Items(c.commit_body_fields) : Covers(rule, o)
  \/ o.part = "value" /\ \E rule \in Items(c.reveal_keys_commit_values) :
                             IsPrefix(rule.path, o.path)

\* The positions of a message that say something, and what a field says.
Content(d) ==
  {p \in 0..(Len(text(d)) - 1) : message[d].of[p + 1].part # "" /\ At(text(d), p) \notin WHITESPACE}
Owner(d, p) == message[d].of[p + 1]
ValueOf(m, path) ==
  LET mine == {i \in DOMAIN m.of : m.of[i].part = "value" /\ m.of[i].path = path}
      at   == SetToSortSeq(mine, <)
  IN  [i \in DOMAIN at |-> m.text[at[i]]]

Ruled(d) == d = "Received" \/ Rules(config["Sent"]) # <<>>
Proved   == pc = "proof" \/ result.status \in {"success", "failure"}

\* What a range has to be against the owners of the symbols: within the text, around its own words,
\* and apart from the next by symbols that say nothing.
Ranges(d) == {r \in [start : 0..Len(text(d)), end : 0..Len(text(d))] : r.start <= r.end}
Silent(d, first, last) == \A p \in Content(d) : p < first \/ p > last

LineIsOwned(d) == \A p \in Content(d) : p <= 5 <=> Owner(d, p).part = "line"

HeadersAreOwned(d, headers) ==
  /\ \A h \in headers : /\ {h.at, h.value} \subseteq Ranges(d) /\ h.at.end <= h.value.start
                        /\ Silent(d, h.at.end, h.value.start - 1) /\ Silent(d, h.value.end, h.value.end)
  /\ \A p \in Content(d) : LET o    == Owner(d, p)
                               over == {h \in headers : p \in Span(h.at) \cup Span(h.value)}
                           IN  /\ \A h \in over : o.part = "header" /\ o.name = h.name
                               /\ o.part = "header" => over # {}

AskedFor(c) ==
  {rule.path : rule \in Items(c.reveal_body_fields) \cup Items(c.commit_body_fields)
                        \cup Items(c.reveal_keys_commit_values)}
FieldsAreOwned(d, entries) ==
  \A path \in AskedFor(config[d]) :
    /\ \A p \in Content(d) : Owner(d, p).part \in {"key", "value"} /\ Owner(d, p).path = path =>
                             Entry(entries, path) # {}
    /\ \A f \in Entry(entries, path) :
         /\ {f.key, f.value} \subseteq Ranges(d)
         /\ f.key # NoRange => /\ f.key.start > 0 /\ f.key.end + 2 <= f.value.start
                               /\ Silent(d, f.key.start - 1, f.key.start - 1)
                               /\ Silent(d, f.key.end, f.value.start - 1)
                               /\ Silent(d, f.value.end, f.value.end)
         /\ \A p \in Content(d) : LET o == Owner(d, p)
                                  IN  /\ p \in Span(f.key) <=> o.part = "key" /\ o.path = path
                                      /\ p \in Span(f.key) \cup Span(f.value) <=> Covers(f, o)

\* The parser's ranges are the message's own: every header is in the map under its name, and each
\* field of the body that a rule asks for has an entry, which takes in the words of its key and value (of the last
\* pair of its path), all of them and no others, with at least the quotes, colon or separator around them that reveal.rs counts on.
ParsedAsOwned ==
  (pc = "begin" /\ Ruled(direction) /\ Parsed(direction).ok /\ Fits(with_newline(To(0, 5)))) =>
    /\ LineIsOwned(direction)
    /\ HeadersAreOwned(direction, Parsed(direction).headers)
    /\ FieldsAreOwned(direction, Parsed(direction).fields)

\* Selective disclosure: whatever the bank's spacing, framing, order, repeated keys and kinds of
\* values do to the parsed ranges, and though they are widened by fixed amounts, a range
\* disclosed touches no word of a field or header that no rule asks to reveal.
OnlyNamedIsLegible ==
  \A d \in Directions : Ruled(d) =>
    \A p \in Content(d) \cap revealed[d] : Legible(config[d], Owner(d, p))

\* A proof that is made carries out every rule: each word of what a rule reveals is disclosed, and
\* each word of what a rule commits to, in every header of the name, is under a commitment.
RulesAreHonoured ==
  Proved => \A d \in Directions : \A p \in Content(d) :
    /\ Legible(config[d], Owner(d, p)) => p \in revealed[d]
    /\ Secret(config[d], Owner(d, p)) => \E r \in committed[d] : p \in Span(r)

\* Words of the bank's own answer, right behind the quoted name and a colon (and the quote that opens
\* a string), disclosed from the name's first quote to the last of them.
DisclosedBehind(name, words) ==
  LET t == text("Received")
  IN  \E q \in revealed["Received"], b \in {4, 5} :
        /\ At(t, q) = "QUOTE" /\ At(t, q + 1) = name /\ At(t, q + 2) = "QUOTE" /\ At(t, q + 3) = ":"
        /\ q..(q + b + Len(words) - 1) \subseteq revealed["Received"]
        /\ words = SubSeq(t, q + b + 1, q + b + Len(words))

\* The verifier goes by nothing that is hidden, though it reads a body full of holes.
ReadAsDisclosed ==
  result.status = "success" =>
    DisclosedBehind("CHF", result.chf) /\ DisclosedBehind("last_audit", result.last_audit)

\* What extract_balance takes for the balance and the audit's date, from keys whose enclosing
\* objects are redacted, is disclosed, and is the whole value of a field of that name that a rule reveals.
VerifierReadsTheBank ==
  /\ ReadAsDisclosed
  /\ result.status = "success" =>
       LET Said(name, words) ==
             \E rule \in Items(config["Received"].reveal_body_fields) :
               /\ rule.path # <<>> /\ Last(rule.path) = Key(name)
               /\ words = ValueOf(message["Received"], rule.path)
       IN  Said("CHF", result.chf) /\ Said("last_audit", result.last_audit)

\* The page's rules and the two parsers agree on a good answer: a message that the prover can read, with
\* both fields once, as strings without white space at the end or before them, is proved and read.
Tidy(path) ==
  LET t == text("Received")
      W == {p \in Content("Received") :
              Owner("Received", p).path = path /\ Owner("Received", p).part = "key"}
      key == CHOOSE p \in W : TRUE
      open == key + 3
      close == RunEnd(t, open + 1, StringSymbols)
  IN  /\ Cardinality(W) = 1
      /\ At(t, open - 1) = ":" /\ At(t, open) = "QUOTE" /\ At(t, close) = "QUOTE"
      /\ close = open + 1 \/ At(t, close - 1) # " "
AnswerIsRead ==
  (pc = "end" /\ config = PageConfig /\ (\A d \in Directions : Parsed(d).ok)
              /\ Tidy(<<Key("accounts"), Key("CHF")>>) /\ Tidy(<<Key("last_audit")>>)) =>
    result = Success(ValueOf(message["Received"], <<Key("accounts"), Key("CHF")>>),
                     ValueOf(message["Received"], <<Key("last_audit")>>))

\* README.md:4-6: the prover discloses two fields "while committing to the rest of the response
\* without revealing it".
RestIsCommitted ==
  Proved => \A p \in Content("Received") :
    p \in revealed["Received"] \/ \E r \in committed["Received"] : p \in Span(r)

=============================================================================
