------------------------------ MODULE MCUrlRound ------------------------------
(* An instance of UrlRound for TLC: tokens, URLs made of them, and Locations. *)
EXTENDS UrlRound, TLC

CONSTANT MaxTail    \* the tokens after the host of a URL

Numbers == {"200", "299", "302", "304"}

Digit == {"0", "1", "2", "3", "4", "5", "6", "7", "8", "9"}

Words == Digit \cup {"http", "https", "host", "a", "F", "big", "HTTP", "OK", "location", "v", "2x0"} \cup Numbers

MCLower == [w \in Words |-> w] @@ ("Host" :> "host") @@ ("Location" :> "location")

MCValue == ("0" :> 0) @@ ("1" :> 1) @@ ("2" :> 2) @@ ("3" :> 3) @@ ("4" :> 4) @@ ("5" :> 5)
             @@ ("6" :> 6) @@ ("7" :> 7) @@ ("8" :> 8) @@ ("9" :> 9)
             @@ ("big" :> 10008) @@ ("200" :> 200) @@ ("299" :> 299) @@ ("302" :> 302) @@ ("304" :> 304)

MCSize ==
    [t \in Digit \cup {"a", "F", "v", "/", "?", "#", "@", ":", ".", "-", "[", "]", "%", "=", " ", "+", "TAB", "obs-text"}
       |-> 1]
    @@ [t \in Numbers \cup {"2x0"} |-> 3] @@ [t \in {"http", "host", "Host", "HTTP"} |-> 4] @@ [t \in {"https", "big"} |-> 5]
    @@ [t \in {"Location", "location"} |-> 8] @@ ("OK" :> 2) @@ ("GET" :> 3) @@ ("HTTP/1.0" :> 8) @@ ("CRLF" :> 2) @@ ("Host: " :> 6) @@ ("NUL" :> 1)

MCHex == ("%" :> <<"2", "5">>) @@ ("/" :> <<"2", "F">>) @@ ("?" :> <<"3", "F">>)
           @@ ("#" :> <<"2", "3">>)

MCAddresses == {<<":", ":", "8">>}

Http(text) == <<"http", ":", "/", "/">> \o text
V6 == <<"[", ":", ":", "8", "]">>

(* Any tail after a host. *)
Tails == BoundedSeq({"/", "?", "#", "@", ":", "a", "8"}, MaxTail)
Anything == {Http(<<"host">> \o t) : t \in Tails}

(* User informations, hosts and ports with an ordinary end. *)
Hosts == {<<"host">>, <<"Host", ".", "a">>, V6, <<"[", "8", "]">>, <<"[", ":", ":", "8">>,
          <<"a">>, <<"host", ".">>, <<"-", "host">>, <<"host", "a", "a">>, <<"host", ".", "host", ".", "a">>}
Ports == {<<>>, <<":">>, <<":", "8">>, <<":", "8", "0">>, <<":", "8", "8", "8">>, <<":", "0">>,
          <<":", "big">>, <<":", "8", "a">>}
Users == {<<>>, <<"@">>, <<"a", "@">>, <<"a", ":", "@">>, <<":", "a", "@">>, <<"a", ":", "a", "@">>}
Ends  == {<<>>, <<"/">>, <<"?", "a">>, <<"#", "a">>, <<"/", "a", "?", "a", "=", "#", "a">>,
          <<"#", "/", "a">>, <<"?", "a", "/">>, <<"/", "host", "@", "host">>}

Structured == {Http(u \o h \o p \o e) : u \in Users, h \in Hosts, p \in Ports, e \in Ends}
              \cup {Http(V6 \o j \o p \o e) : j \in {<<"a">>, <<"#">>}, p \in Ports, e \in Ends}
              \cup {Http(<<"@">> \o V6 \o <<"@">> \o p \o e) : p \in Ports, e \in Ends}

Schemes == {<<"host">>, <<":", "/", "/", "host">>, <<"8", ":", "/", "/", "host">>,
            <<"a", "/", ":", "/", "/", "host">>, <<"a", "+", ":", "/", "/", "host">>,
            <<"Host", ":", "/", "/", "host", ":", "8", "/">>}

(* Pages that redirect. *)
Pages == {Http(<<"host">> \o p) : p \in {<<>>, <<":", "8", "/", "a">>, <<":", "8", "0", "/", "a", "/">>,
            <<"/", "a", "/", "host", "/", "?", "a">>, <<"/", "#", "/">>}}
         \cup {Http(V6 \o <<"/", "a", "/">>), <<"https", ":", "/", "/", "host", ":", "8", "0", "/">>,
               Http(<<"a", "@", "host", "/">>), Http(<<"a", ":", "a", "@", "host", ":", "8", "/", "a">>),
               <<"a", "+", ":", "/", "/", "host", ":", "8", "/">>, <<"a", "+", ":", "/", "/", "host", "/">>}

(* The pages that are left by Locations one token longer *)
DeepPages == {Http(<<"host">> \o p) : p \in {<<>>, <<"/", "a", "/", "host", "/", "?", "a">>}}

AnyPath(length) == BoundedSeq({"/", ".", "?", "#", "a", "host"}, length) \ {<<>>}

SomeLocations ==
    {Http(<<"host">> \o l) : l \in {<<>>, <<"/", "a">>, <<"/", "@", "a">>, <<"/", "a", "/", ".", ".">>}}
    \cup {<<"http">> \o l : l \in {<<>>, <<"/", "a">>}}
    \cup {<<"a", ":", "host">>, <<"/", "a", "a", "/", "a", "/", ".", ".", "/", "host">>,
          <<"/", "host", "/", ".", ".", "/", "a">>, <<"/", "/", "/", "host">>}

Locations == AnyPath(MaxTail - 1) \cup SomeLocations
DeepLocations == AnyPath(MaxTail) \cup SomeLocations

(* Heads of answers: a redirection to a Location, and heads of any kind. *)
Status(number) == <<"HTTP", "/", "1", ".", "0", " ", number, " ">>
Line(text) == <<"CRLF">> \o text
To(loc) == Status("302") \o Line(<<"Location", ":", " ">> \o loc)

StatusLines ==
    {<<"HTTP", "/", "1", ".", minor, " ">> \o number \o reason :
       minor \in {"0", "1", "2"}, number \in {<<n>> : n \in Numbers \cup {"2x0"}} \cup {<<"2", "0">>, <<"2", "0", "0", "0">>},
       reason \in {<<>>, <<" ">>, <<" ", "OK", " ", "v">>}}
    \cup {<<"HTTP">>, <<"HTTP", "/", "1", ".", "0">>, <<"HTTP", "/", "1", ".", "0", " ", " ", "200", " ">>,
          <<"v", "/", "1", ".", "0", " ", "302", " ">>}

FreeLines == BoundedSeq({"Location", "-", ":", " ", "TAB", "."}, MaxTail) \ {<<>>}

SomeLines ==
    {<<"Location", ":", " ", "/", "host">>, <<"location", ":", " ", "/", "a">>,
     <<"Location", ":", " ", "/", "a", ":", " ", "a">>, <<"v", ":", " ", "1", ".", "0", " ", "302", " ">>,
     <<"v", "-", "v", ":", " ", "v", "/">>, <<"v", ":">>, <<" ", "v">>, <<"v", ":", " ", "obs-text">>}

AnyHeads ==
    {s \o l : s \in StatusLines, l \in {<<>>} \cup {Line(a) : a \in SomeLines}}
    \cup {Status("302") \o Line(a) : a \in FreeLines}
    \cup {Status(n) \o Line(a) \o Line(b) \o Line(c) : n \in {"200", "302"}, a, b, c \in SomeLines}

FrontPage == Http(<<"host", "/">>)

MCUrls == Anything \cup Structured \cup Schemes \cup Pages

MCAnswers(link, redirected) ==
    IF redirected > 0 THEN {To(<<"/", "host">>), Status("304") \o Line(<<"v", ":", " ", "v">>)}
    ELSE IF link = FrontPage THEN AnyHeads
    ELSE IF link \in DeepPages THEN {To(l) : l \in DeepLocations}
    ELSE IF link \in Pages THEN {To(l) : l \in Locations}
    ELSE {Status("200") \o Line(<<"Location", ":", " ", "/", "a">>)}

MCCaptured ==
    {Http(<<"host">> \o t) : t \in {<<>>, <<"/", "a", "?", "a", "#", "a">>, <<"/", "%", "2", "F">>,
       <<"/", "%", "%", "?", "%">>}} \cup {<<"host", "/", "%", "a">>, <<"host", "?", "a">>}
===============================================================================
