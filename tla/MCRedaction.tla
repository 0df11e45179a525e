---------------------------- MODULE MCRedaction ----------------------------
(***************************************************************************)
(* Messages and rules for TLC: answers of a bank that differ in what       *)
(* moves the ranges (white space, order, kinds of values, repeated keys,   *)
(* framing, headers), requests, the page's rules and others.               *)
(***************************************************************************)
EXTENDS Redaction

MCNames     == {"CHF", "EUR", "accounts", "pending", "list", "last_audit", "account_id",
                "host", "authorization", "Authorization"}
MCTexts     == {"token", "id", "day", "bank"}
MCNumbers   == {"0", "12", "34"}
MCLowerCase == [n \in MCNames |-> IF n = "Authorization" THEN "authorization" ELSE n]

\* Text with its owners.
Owned(s, part, name, path) ==
  [text |-> s, of |-> [i \in DOMAIN s |-> [part |-> part, name |-> name, path |-> path]]]
Plain(s) == Owned(s, "", "", <<>>)
Join(pieces) ==
  [text |-> FlattenSeq([i \in DOMAIN pieces |-> pieces[i].text]),
   of   |-> FlattenSeq([i \in DOMAIN pieces |-> pieces[i].of])]

NL == <<"CR", "LF">>
Header(name, value) ==
  Join(<<Owned(<<name>>, "header", MCLowerCase[name], <<>>), Plain(<<":", " ">>),
         Owned(value, "header", MCLowerCase[name], <<>>), Plain(NL)>>)
Line(a, b, c) == Join(<<Owned(<<a, " ", b, " ", c>>, "line", "", <<>>), Plain(NL)>>)

\* White space: after a colon, and after a comma or brace.
Compact == [colon |-> <<>>, item |-> <<>>]
Spaced  == [colon |-> <<" ">>, item |-> <<" ">>]
Lined   == [colon |-> <<>>, item |-> <<"LF", " ">>]

Text(path, words) ==
  Join(<<Plain(<<"QUOTE">>), Owned(words, "value", "", path), Plain(<<"QUOTE">>)>>)
Raw(path, symbols) == Owned(symbols, "value", "", path)
Member(style, path, value) ==
  Join(<<Plain(<<"QUOTE">>), Owned(Last(path)[2], "key", "", path),
         Plain(<<"QUOTE", ":">> \o style.colon), value>>)
Shadowed(piece) ==
  [piece EXCEPT !.of = [i \in DOMAIN @ |->
     IF @[i].part = "" THEN @[i] ELSE [@[i] EXCEPT !.part = "shadowed"]]]
Enclose(style, open, items, close) ==
  Join(<<Plain(<<open>> \o style.item)>>
       \o [i \in 1..(2 * Len(items) - 1) |->
             IF i % 2 = 1 THEN items[(i + 1) \div 2] ELSE Plain(<<",">> \o style.item)]
       \o <<Plain(<<close>>)>>)

Path(a)    == <<Key(a)>>
Sub2(a, b) == <<Key(a), Key(b)>>
CHF   == Sub2("accounts", "CHF")
EUR   == Sub2("accounts", "EUR")
Audit == Path("last_audit")
Id    == Path("account_id")
Item(k) == <<Key("list"), <<"index", k>>>>

\* What the bank can say the balance is.
Balances ==
  {Text(CHF, w) : w \in {<<"12">>, <<>>, <<"12", " ">>, <<" ", "12">>, <<"bank", ":", ",", "}">>}}
  \cup {Raw(CHF, s) : s \in {<<"12">>, <<"{", "}">>, <<"{", "QUOTE", "EUR", "QUOTE", ":", "34", "}">>,
                             <<"[", "12", "]">>}}

Body(style, accounts, audit, extra, order) ==
  LET id      == Member(style, Id, Text(Id, <<"id">>))
      account == Member(style, Path("accounts"), Enclose(style, "{", accounts, "}"))
      members == IF order = "audit last" THEN <<id>> \o extra \o <<account, audit>>
                 ELSE IF order = "audit first" THEN <<audit, id>> \o extra \o <<account>>
                 ELSE <<account, audit>> \o extra \o <<id>>
  IN  Enclose(style, "{", members, "}")

Response(headers, chunked, body) ==
  Join(<<Line("HTTP/1.1", "200", "OK"), headers, Plain(NL),
         IF chunked THEN Plain(<<"34">> \o NL) ELSE Plain(<<>>), body,
         IF chunked THEN Plain(NL \o <<"0">> \o NL \o NL) ELSE Plain(<<>>)>>)

Day == Text(Audit, <<"day">>)
PlainHeaders == Header("host", <<"bank">>)
Accounts(style, balance) ==
  LET chf == Member(style, CHF, balance)
      eur == Member(style, EUR, Raw(EUR, <<"34">>))
      old == Shadowed(Member(style, CHF, Text(CHF, <<"34">>)))
  IN  {<<chf>>, <<chf, eur>>, <<eur, chf>>, <<old, eur, chf>>}
Pending(style) ==
  {<<>>, <<Member(style, Path("pending"),
             Enclose(style, "{", <<Member(style, Sub2("pending", "CHF"),
                                          Text(Sub2("pending", "CHF"), <<"34">>))>>, "}"))>>}

PageResponses ==
  UNION {{Response(PlainHeaders, chunked, Body(style, accounts, Member(style, Audit, audit), extra, order)) :
      chunked \in BOOLEAN, accounts \in Accounts(style, balance),
      audit \in {Day, Raw(Audit, <<"34">>)}, extra \in Pending(style),
      order \in {"audit last", "audit first", "id last"}} :
    style \in {Compact, Spaced, Lined}, balance \in Balances}
  \cup {Response(headers, FALSE, Body(Compact, <<Member(Compact, CHF, Text(CHF, <<"12">>))>>,
                                      Member(Compact, Audit, Day), <<>>, "audit last")) :
          headers \in {Plain(<<>>), Header("host", <<>>), Header("host", <<"bank", "[">>),
                       Join(<<PlainHeaders, Header("host", <<"token", " ", "bank">>)>>)}}

Request(headers) == Join(<<Line("GET", "/balances", "HTTP/1.1"), headers, Plain(NL)>>)
PageRequests ==
  {Request(Join(<<PlainHeaders, Header("authorization", <<"bank", " ", "token">>)>>))}

\* A status line, with or without a newline, and nothing else.
BareResponses ==
  {Join(<<Owned(<<"HTTP/1.1", " ", "200", " ", "OK">>, "line", "", <<>>), Plain(end)>>) :
     end \in {<<>>, <<"LF">>}}

PageCases ==
  [sent : PageRequests, received : PageResponses \cup BareResponses, config : {PageConfig}]

\* Rules of every kind, over few messages.
RulesRequests ==
  {Request(Join(<<PlainHeaders, Header("Authorization", <<"token">>),
                  Header("authorization", <<"bank", " ", "token">>)>>))}
RulesResponses ==
  {Response(PlainHeaders, FALSE,
     Body(style, accounts, Member(style, Audit, Day),
          <<Member(style, Path("list"), Enclose(style, "[",
              <<Text(Item(0), <<"id">>), Enclose(style, "{", <<Member(style, Item(1) \o Path("CHF"),
                                                    Raw(Item(1) \o Path("CHF"), <<"34">>))>>, "}")>>, "]"))>>,
          "id last")) :
     style \in {Compact, Lined},
     accounts \in UNION {Accounts(Compact, b) : b \in {Text(CHF, <<"12">>), Raw(CHF, <<"12">>)}}}
Reveals == {Quote(CHF), Unquote(CHF), Quote(Path("accounts")), Quote(Audit), Quote(Item(0)),
            Unquote(Item(1)), Quote(Item(1) \o Path("CHF")), Quote(<<>>), Quote(Path("pending"))}
Seqs2(S) == {<<>>} \cup {<<a>> : a \in S} \cup {<<a, b>> : a \in S, b \in S}
RulesConfigs ==
  {[PageConfig EXCEPT !.Received = [NoRules EXCEPT !.reveal_body_fields = reveal,
      !.commit_body_fields = commit, !.reveal_keys_commit_values = both]] :
     reveal \in Seqs2(Reveals), commit \in {<<>>, <<Quote(Id)>>, <<Unquote(Path("list"))>>},
     both \in {<<>>} \cup {<<[path |-> path, length |-> length]>> :
                             path \in {CHF, Audit, Item(0)}, length \in {0, 3, 99}}}
  \cup {[PageConfig EXCEPT !.Sent = [NoRules EXCEPT !.reveal_headers = reveal, !.commit_headers = commit]] :
     reveal \in Seqs2({"host", "EUR"}), commit \in {<<>>, <<"authorization">>, <<"Authorization">>}}
RulesCases == [sent : RulesRequests, received : RulesResponses, config : RulesConfigs]
AllCases   == PageCases \cup RulesCases

=============================================================================
