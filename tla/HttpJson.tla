------------------------------ MODULE HttpJson ------------------------------
(***************************************************************************)
(* The parsers of tlsn-prover/src/parser: the grammar of grammar.pest, and *)
(* the maps of ranges that types.rs and traversal.rs build from it.  The   *)
(* standard parser reads a whole message, the redacted parser one whose    *)
(* hidden bytes are NUL, which the grammar takes for white space.          *)
(*                                                                         *)
(* A message is a sequence of symbols, a word (a key, a string's text, a   *)
(* number, a header's name) or one punctuation character each; the         *)
(* position of t[p + 1] is p, and ranges are half open, as in the source.  *)
(***************************************************************************)
EXTENDS Integers, Sequences

CONSTANTS
  Names,     \* words that can be a key or a header's name
  Texts,     \* words that a string or a header's value can hold, but no key
  Numbers,   \* words of digits
  LowerCase  \* to_lowercase, on those that are headers' names

WHITESPACE  == {" ", "CR", "LF", "NUL"}
Punctuation == WHITESPACE \cup {"QUOTE", ":", ",", "{", "}", "[", "]", "EOI"}
Words       == Names \cup Texts \cup Numbers

ASSUME HttpJsonAssumption ==
  LowerCase \in [Names -> Names] /\ Words \cap Punctuation = {}

KeySymbols    == Names \cup Numbers
StringSymbols == Words \cup {" ", ":", ",", "{", "}", "[", "]"}
HeaderSymbols == Words \cup {" ", ":", ",", "{", "}", "QUOTE"}

RequestLine == <<{"GET"}, {"/balances"}, {"HTTP/1.1"}>>
StatusLine  == <<{"HTTP/1.1"}, {"200"}, {"OK"}>>

To(start, end) == [start |-> start, end |-> end]
NoRange == To(0, 0)

At(t, p) == IF p < Len(t) THEN t[p + 1] ELSE "EOI"
RunEnd(t, p, S) ==
  CHOOSE q \in p..Len(t) : At(t, q) \notin S /\ \A r \in p..(q - 1) : At(t, r) \in S

\* The white space between the tokens of a rule that is not atomic.
Skip(t, p) == RunEnd(t, p, WHITESPACE)

\* What a rule of the grammar yields: where it ends, its pair's range, and what lies in it.
Parse(end, span, fields) == [end |-> end, span |-> span, fields |-> fields]
Fail == Parse(-1, NoRange, {})
Leaf(start, end) == Parse(end, To(start, end), {})

Field(path, at, key, value) == [path |-> path, at |-> at, key |-> key, value |-> value]
Also(m, fields) == IF m = Fail THEN Fail ELSE Parse(m.end, m.span, m.fields \cup fields)

-----------------------------------------------------------------------------
\* quoted_key and quoted_string.  Where the rule is not atomic, white space
\* next to a quote is outside of the pair that the grammar yields.

Trimmed(t, start, close) ==
  CHOOSE e \in start..close : /\ e = start \/ At(t, e - 1) \notin WHITESPACE
                              /\ \A r \in e..(close - 1) : At(t, r) \in WHITESPACE

Quoted(t, p, symbols, atomic) ==
  LET Between(start, close) ==
        IF At(t, close) # "QUOTE" THEN Fail
        ELSE Parse(close + 1, To(start, IF atomic THEN close ELSE Trimmed(t, start, close)), {})
      From(start) == Between(start, RunEnd(t, start, IF atomic THEN symbols ELSE symbols \cup WHITESPACE))
  IN  IF At(t, p) = "QUOTE" THEN From(IF atomic THEN p + 1 ELSE Skip(t, p + 1)) ELSE Fail

\* One step of the grammar below the rule value, with what the traverser collects: the path, the
\* key's and the value's ranges of every pair and element.  x is what to read and where: a value
\* at p, or what an object or array holds from p on, its k-th member first.
Gap(t, p, atomic) == IF atomic THEN p ELSE Skip(t, p)

Fields(at, segment, key, item) ==
  {Field(<<segment>>, at, key, item.span)}
  \cup {Field(<<segment>> \o f.path, f.at, f.key, f.value) : f \in item.fields}

Then(t, atomic, parse, x, fields, next) ==
  IF At(t, next) = (IF x[1] = "object" THEN "}" ELSE "]") THEN Parse(next + 1, NoRange, fields)
  ELSE IF At(t, next) = "," THEN Also(parse[<<x[1], Gap(t, next + 1, atomic), x[3] + 1>>], fields)
  ELSE Fail

JsonMember(t, atomic, parse, x, segment, key, item) ==
  IF item = Fail THEN Fail
  ELSE Then(t, atomic, parse, x, Fields(x[2], segment, key, item), Gap(t, item.end, atomic))

JsonPair(t, atomic, parse, x, key) ==
  LET colon == Gap(t, key.end, atomic)
  IN  IF key = Fail \/ key.span.start = key.span.end \/ At(t, colon) # ":" THEN Fail
      ELSE JsonMember(t, atomic, parse, x, <<"key", SubSeq(t, key.span.start + 1, key.span.end)>>,
                  key.span, parse[<<"value", Gap(t, colon + 1, atomic), 0>>])

Compound(t, atomic, parse, x, kind, closing) ==
  LET Enclosing(m) == IF m = Fail THEN Fail ELSE Parse(m.end, To(x[2], m.end), m.fields)
      From(inner)  == IF At(t, inner) = closing THEN Leaf(inner, inner + 1)
                      ELSE parse[<<kind, inner, 0>>]
  IN  Enclosing(From(Gap(t, x[2] + 1, atomic)))

JsonFrom(t, atomic, parse, x) ==
  LET p == x[2]
  IN  CASE x[1] = "object" -> JsonPair(t, atomic, parse, x, Quoted(t, p, KeySymbols, atomic))
        [] x[1] = "array" ->
             JsonMember(t, atomic, parse, x, <<"index", x[3]>>, NoRange, parse[<<"value", p, 0>>])
        [] x[1] = "value" /\ At(t, p) = "{" -> Compound(t, atomic, parse, x, "object", "}")
        [] x[1] = "value" /\ At(t, p) = "[" -> Compound(t, atomic, parse, x, "array", "]")
        [] x[1] = "value" /\ At(t, p) = "QUOTE" -> Quoted(t, p, StringSymbols, atomic)
        [] x[1] = "value" /\ At(t, p) \in Numbers -> Leaf(p, p + 1)
        [] OTHER -> Fail

Json(t, start, atomic) ==
  LET parse[x \in {"value", "object", "array"} \X Nat \X Nat] == JsonFrom(t, atomic, parse, x)
  IN  parse[<<"value", start, 0>>]

-----------------------------------------------------------------------------
\* body_full: one JSON value, chunked (in one chunk) or not.  Its map has an
\* entry for the whole value, with the empty path.
BodyFull(t, p) ==
  LET chunked == At(t, p) \in Numbers
      Body(start, json, last) ==
        IF json = Fail \/ (chunked /\ At(t, last) # "0") THEN Fail
        ELSE Parse(IF chunked THEN last + 1 ELSE json.end, json.span,
                   json.fields \cup {Field(<<>>, start, NoRange, json.span)})
      Around(start, json) == Body(start, json, Skip(t, json.end))
      From(start) ==
        IF At(t, start) \in {"{", "["} THEN Around(start, Json(t, start, FALSE)) ELSE Fail
  IN  From(IF chunked THEN RunEnd(t, p, Numbers \cup WHITESPACE) ELSE p)

\* pair_redacted, which is atomic: a key, and a value if one follows at once
\* that is not itself a key.
PairRedacted(t, p) ==
  LET Pair(key, v) ==
        LET valued == v # Fail /\ At(t, v.end) # ":"
        IN  Parse(IF valued THEN v.end ELSE key.end + 1, NoRange,
                  {Field(<<<<"key", SubSeq(t, key.span.start + 1, key.span.end)>>>>, p, key.span,
                         IF valued THEN v.span ELSE NoRange)})
      From(key) ==
        IF key = Fail \/ key.span.start = key.span.end \/ At(t, key.end) # ":" THEN Fail
        ELSE Pair(key, Json(t, key.end + 1, TRUE))
  IN  From(Quoted(t, p, KeySymbols, TRUE))

PairsFrom(t, pairs, q) ==
  LET Opt(c, r) == IF At(t, r) = c THEN Skip(t, r + 1) ELSE r
      And(pair, rest) == IF rest = Fail THEN pair ELSE Also(rest, pair.fields)
      From(pair) ==
        IF pair = Fail THEN Fail ELSE And(pair, pairs[Opt(",", Skip(t, pair.end))])
  IN  From(PairRedacted(t, q))

BodyRedacted(t, p) ==
  LET pairs[q \in Nat] == PairsFrom(t, pairs, q)
      Closed(all, end) ==
        Parse(IF At(t, end) = "}" THEN end + 1 ELSE all.end, NoRange, all.fields)
      Body(all) == IF all = Fail THEN Fail ELSE Closed(all, Skip(t, all.end))
  IN  Body(pairs[IF At(t, p) = "{" THEN Skip(t, p + 1) ELSE p])

\* headers: the value is missing where no newline ends it.
HeadersFrom(t, headers, q) ==
  LET Value(end) ==
        IF end > q + 3 /\ At(t, end) \in {"CR", "LF"} THEN To(q + 3, end) ELSE NoRange
      After(value) ==
        IF value = NoRange THEN q + 3
        ELSE value.end + (IF At(t, value.end) = "CR" /\ At(t, value.end + 1) = "LF" THEN 2 ELSE 1)
      Header(value, rest) ==
        Parse(rest.end, NoRange, rest.fields \cup
                {[name |-> LowerCase[At(t, q)], at |-> To(q, q + 1), value |-> value]})
      From(value) == Header(value, headers[Skip(t, After(value))])
  IN  IF At(t, q) \in Names /\ At(t, q + 1) = ":" /\ At(t, q + 2) = " "
      THEN From(Value(RunEnd(t, q + 3, HeaderSymbols)))
      ELSE Parse(q, NoRange, {})

Headers(t, p) ==
  LET headers[q \in Nat] == HeadersFrom(t, headers, q) IN headers[p]

\* request and response: the line of three fields, the headers, the body if
\* there is one, and nothing else.
Message(t, line) ==
  LET End(start, body) == IF body = Fail THEN start ELSE Skip(t, body.end)
      Read(headers, start, full, body) ==
        [ok |-> /\ \A i \in 1..3 : At(t, 2 * i - 2) \in line[i]
                /\ At(t, 1) = " " /\ At(t, 3) = " " /\ End(start, body) = Len(t),
         headers |-> headers.fields, full |-> full # Fail, fields |-> body.fields]
      WithBody(headers, start, full) ==
        Read(headers, start, full, IF full # Fail THEN full ELSE BodyRedacted(t, start))
      From(headers, start) == WithBody(headers, start, BodyFull(t, start))
      AfterLine(headers) == From(headers, Skip(t, headers.end))
  IN  AfterLine(Headers(t, Skip(t, 5)))

\* parse_standard_request and parse_standard_response: every header must have a value, and
\* only a whole body is looked into.
ParseStandard(t, line) ==
  LET Standard(m) == [ok      |-> m.ok /\ \A h \in m.headers : h.value # NoRange,
                      headers |-> m.headers, fields |-> IF m.full THEN m.fields ELSE {}]
  IN  Standard(Message(t, line))

\* parse_redacted_response: only the pairs of a body that is not whole.
ParseRedacted(t, line) ==
  LET Redacted(m) == [ok |-> m.ok, fields |-> IF m.full THEN {} ELSE m.fields]
  IN  Redacted(Message(t, line))

\* The entry of a path: a later pair with the same path has replaced an earlier one.
Entry_First(fields, path) ==
  {f \in fields : f.path = path /\ \A g \in fields : g.path = path => g.at >= f.at}
Entry(fields, path) ==
  {f \in fields : f.path = path /\ \A g \in fields : g.path = path => g.at <= f.at}

=============================================================================
