--------------------------------- MODULE Uri ---------------------------------
(***************************************************************************)
(* The URL parser and printer of src/src/uri.c as operators on texts.       *)
(*                                                                         *)
(* A text is a sequence of tokens: the characters that the code compares    *)
(* with, and words that stand for a run of letters or digits it treats      *)
(* alike.  strstr from some place on is Find; 0 is the NULL it returns when *)
(* nothing is found, and an absent part of a URL is Null.                   *)
(***************************************************************************)
EXTENDS Integers, FiniteSetsExt, SequencesExt

CONSTANTS
    Lower,      \* word -> the word in lower case; its domain is what isalnum accepts
    Size,       \* token -> how many characters it has
    Value,      \* the words made of digits -> the number
    Hex,        \* a quoted character -> the two hexadecimal digits after "%"
    Addresses,  \* the texts that isipv6 accepts
    MinHostname, MaxHostname, MaxLabel, MinAddress, MaxAddress,
    MaxPort,    \* MAX_PORT_NUMBER
    IntSpan,    \* how many values an int has
    Null

SLASH == "/"
QUESTION_MARK == "?"
HASHTAG == "#"
AT == "@"
COLON == ":"
SCHEME_SEPARATOR == <<COLON, SLASH, SLASH>>

Token == DOMAIN Size
Texts == Seq(Token)
Alnum == DOMAIN Lower

(* The characters around which the library takes a text apart, or which it    *)
(* puts in *)
Delimiters == {SLASH, QUESTION_MARK, HASHTAG, AT, COLON, "[", "]", "%", "="}

ASSUME UriAssumption ==
    /\ Null \notin Texts
    /\ \A t \in Token : Size[t] \in Nat \ {0}
    /\ Delimiters \subseteq Token \ Alnum /\ \A c \in Delimiters : Size[c] = 1
    /\ {"http", "NUL"} \subseteq Token
    /\ DOMAIN Value \subseteq Alnum /\ Alnum \subseteq Token
    /\ \A w \in Alnum : Lower[w] \in Alnum /\ Lower[Lower[w]] = Lower[w]
    /\ \A w \in DOMAIN Value : /\ Value[w] \in Nat /\ 10^Size[w] \in Nat
                               /\ Value[w] < 10^Size[w]
    /\ \A d \in 0..9 : \E w \in DOMAIN Value : Size[w] = 1 /\ Value[w] = d
    /\ DOMAIN Hex \subseteq Token /\ \A c \in DOMAIN Hex : Hex[c] \in Token \X Token
    /\ \A c, d \in DOMAIN Hex : Hex[c] = Hex[d] => c = d
    /\ \A a \in Addresses : a \in Texts /\ ToSet(a) \cap (Delimiters \ {COLON}) = {}
    /\ MinHostname \in Nat \ {0} /\ MinAddress \in Nat \ {0}
    /\ MaxPort \in Nat /\ MaxPort < 10^9 /\ IntSpan \in Nat /\ 2 * MaxPort < IntSpan

-------------------------------------------------------------------------------
(* Texts *)

Text(part) == IF part = Null THEN <<>> ELSE part

(* Faulty variant: an empty part is kept as an empty string. *)
OrEmpty(text) == text

OrNull(text) == IF text = <<>> THEN Null ELSE text

Length(text) == FoldLeft(LAMBDA n, c : n + Size[c], 0, text)

Find(c, text, from) ==
    LET hits == {k \in from..Len(text) : text[k] = c}
    IN  IF hits = {} THEN 0 ELSE Min(hits)

(* The first of two places that is one. *)
Or(place, other) == IF place # 0 THEN place ELSE other

(* The pieces of a text between the tokens of a set. *)
Pieces(text, marks) ==
    LET cuts == FoldLeftDomain(LAMBDA s, k : IF text[k] \in marks THEN Append(s, k) ELSE s,
                               <<0>>, text) \o <<Len(text) + 1>>
    IN  [n \in 1..(Len(cuts) - 1) |->
           [text |-> SubSeq(text, cuts[n] + 1, cuts[n + 1] - 1), end |-> cuts[n + 1]]]

IsNumeric(text) == ToSet(text) \subseteq DOMAIN Value
Lowered(text) == [k \in DOMAIN text |-> IF text[k] \in Alnum THEN Lower[text[k]] ELSE text[k]]

(* atoi: of a number too large for an int the lowest bits are left. *)
AtoI(digits) ==
    LET low == FoldLeft(LAMBDA n, w : (n * 10^Size[w] + Value[w]) % IntSpan, 0, digits)
    IN  IF 2 * low >= IntSpan THEN low - IntSpan ELSE low

(* intlen, and what snprintf prints of a number *)
intlen(n) == Min({k \in 1..9 : n < 10^k})

Digits(n) ==
    [k \in 1..intlen(n) |->
       CHOOSE w \in DOMAIN Value : Size[w] = 1 /\ Value[w] = (n \div 10^(intlen(n) - k)) % 10]

-------------------------------------------------------------------------------
(* parse_uri: where things are *)

(* Where the first "://" starts. *)
SchemeEnd(text) ==
    LET hits == {k \in 1..(Len(text) - 2) : SubSeq(text, k, k + 2) = SCHEME_SEPARATOR}
    IN  IF hits = {} THEN 0 ELSE Min(hits)

(* What is found behind the start of the host *)
PlacesBehind(text, start, at, host) ==
    LET v6    == host <= Len(text) /\ text[host] = "["
        close == Find("]", text, host)
        colon == Find(COLON, text, host)
    IN  [start |-> start, at |-> at, host |-> host, v6 |-> v6, close |-> close,
         colon |-> IF v6 /\ close # 0 /\ colon # 0 THEN Find(COLON, text, close) ELSE colon,
         path |-> Find(SLASH, text, host), query |-> Find(QUESTION_MARK, text, host),
         fragment |-> Find(HASHTAG, text, host)]

PlacesAfterUser(text, start, at) ==
    PlacesBehind(text, start, at, IF at = 0 THEN start ELSE at + 1)

PlacesFrom(text, start) == PlacesAfterUser(text, start, Find(AT, text, start))

Places(text) == PlacesFrom(text, SchemeEnd(text) + 3)

(* Faulty variant: a fragment right after the port is taken for a part of it. *)
PortEndPastFragment(text, p) ==
    IF p.path # 0 THEN p.path ELSE IF p.query # 0 THEN 0 ELSE Len(text) + 1

(* port_end; before a query without a path it is the NULL of path_start. *)
PortEnd(text, p) ==
    IF p.path # 0 THEN p.path
    ELSE IF p.query # 0 THEN 0
    ELSE Or(p.fragment, Len(text) + 1)

HasPort(text, p) == p.colon # 0 /\ p.colon < PortEnd(text, p)

PortText(text, p) ==
    IF HasPort(text, p) THEN SubSeq(text, p.colon + 1, PortEnd(text, p) - 1) ELSE <<>>

HostText(text, p) ==
    IF p.v6 THEN SubSeq(text, p.host + 1, p.close - 1)
    ELSE SubSeq(text, p.host,
                (IF HasPort(text, p) THEN p.colon
                 ELSE Or(p.path, Or(p.query, Or(p.fragment, Len(text) + 1)))) - 1)

(* The user information: up to the first ":" when that is before the "@". *)
UserEnd(text, p) ==
    LET colon == Find(COLON, text, p.start)
    IN  IF colon = 0 \/ colon > p.at THEN p.at ELSE colon

Username(text, p) == IF p.at = 0 THEN <<>> ELSE SubSeq(text, p.start, UserEnd(text, p) - 1)
Password(text, p) == IF p.at = 0 THEN <<>> ELSE SubSeq(text, UserEnd(text, p) + 1, p.at - 1)

(* Faulty variant: the query runs to the end of the text, fragment and all. *)
QueryEndAtEnd(text, p) == Len(text)

(* Where query and path end.  When what ends them is found before them, the  *)
(* size wraps to one no allocation can have.                                 *)
QueryEnd(text, p) == IF p.fragment = 0 THEN Len(text) ELSE p.fragment - 1
PathEnd(text, p) == IF p.query = 0 THEN Len(text) ELSE p.query - 1

-------------------------------------------------------------------------------
(* parse_uri: the checks *)

SchemeIsValid(scheme) ==
    /\ scheme[1] \in Alnum \ DOMAIN Value
    /\ ToSet(scheme) \subseteq Alnum \cup {"+", ".", "-"}

PortIsValid(port) == port # <<>> => IsNumeric(port) /\ AtoI(port) \in 1..MaxPort

LabelIsValid(label) ==
    /\ label # <<>> /\ Length(label) <= MaxLabel
    /\ label[1] # "-" /\ Last(label) # "-"
    /\ ToSet(label) \subseteq Alnum \cup {"-"}

HostnameIsValid(host) ==
    /\ Length(host) \in MinHostname..MaxHostname
    /\ LET labels == Pieces(host, {"."})
       IN  \A n \in DOMAIN labels : LabelIsValid(labels[n].text)

AddressIsValid(host) == Length(host) \in MinAddress..MaxAddress /\ host \in Addresses

(* The early returns, in their order; the ways a hostname is invalid are one. *)
CodeOf(text, end, p, host) ==
    IF end = 0 THEN "URI_SCHEME_MISSING"
    ELSE IF end = 1 THEN "URI_SCHEME_EMPTY"
    ELSE IF ~SchemeIsValid(SubSeq(text, 1, end - 1)) THEN "URI_SCHEME_INVALID"
    ELSE IF p.v6 /\ p.close = 0 THEN "URI_HOSTNAME_MISSING_CLOSING_BRACKET"
    ELSE IF ~PortIsValid(PortText(text, p)) THEN "URI_PORT_INVALID"
    ELSE IF p.v6 /\ ~AddressIsValid(host) THEN "URI_IPV6_ADDRESS_INVALID"
    ELSE IF ~p.v6 /\ ~HostnameIsValid(host) THEN "URI_HOSTNAME_INVALID"
    ELSE IF p.query # 0 /\ QueryEnd(text, p) < p.query THEN "MEMORY_ALLOCATE_FAILURE"
    ELSE IF p.path # 0 /\ PathEnd(text, p) < p.path THEN "MEMORY_ALLOCATE_FAILURE"
    ELSE "SUCCESS"

CodeAt(text, p) == CodeOf(text, SchemeEnd(text), p, HostText(text, p))

ParseCode(text) == CodeAt(text, Places(text))

(* What uri_free leaves, and a struct URI starts as. *)
NoUri == [scheme |-> Null, username |-> Null, password |-> Null,
          has_authentication |-> FALSE, hostname |-> Null, is_ipv6 |-> FALSE, port |-> 0,
          path |-> Null, query |-> Null, fragment |-> Null]

PartAfter(text, place, last) ==
    IF place = 0 THEN Null ELSE OrNull(SubSeq(text, place + 1, last))

PartsAt(text, p) ==
    LET username == Username(text, p)
        password == Password(text, p)
        port     == PortText(text, p)
    IN  [scheme   |-> Lowered(SubSeq(text, 1, SchemeEnd(text) - 1)),
         username |-> OrNull(username),
         password |-> OrNull(password),
         has_authentication |-> username # <<>> \/ password # <<>>,
         hostname |-> IF p.v6 THEN HostText(text, p) ELSE Lowered(HostText(text, p)),
         is_ipv6  |-> p.v6,
         port     |-> IF port = <<>> THEN 0 ELSE AtoI(port),
         path     |-> PartAfter(text, p.path, PathEnd(text, p)),
         query    |-> PartAfter(text, p.query, QueryEnd(text, p)),
         fragment |-> PartAfter(text, p.fragment, Len(text))]

parse_uri(text) == PartsAt(text, Places(text))

ParseResult(text, code) ==
    [code |-> code, uri |-> IF code = "SUCCESS" THEN parse_uri(text) ELSE NoUri]

uri_parse(text) == ParseResult(text, ParseCode(text))

-------------------------------------------------------------------------------
(* uri_stringify *)

UserInfo(uri) ==
    IF uri.has_authentication
    THEN Text(uri.username) \o <<COLON>> \o Text(uri.password) \o <<AT>> ELSE <<>>

Prefixed(mark, part) == IF part = Null THEN <<>> ELSE <<mark>> \o part

uri_stringify(uri) ==
    uri.scheme \o SCHEME_SEPARATOR \o UserInfo(uri)
      \o (IF uri.is_ipv6 THEN <<"[">> \o uri.hostname \o <<"]">> ELSE uri.hostname)
      \o (IF uri.port > 0 THEN <<COLON>> \o Digits(uri.port) ELSE <<>>)
      \o <<SLASH>> \o Text(uri.path)
      \o Prefixed(QUESTION_MARK, uri.query) \o Prefixed(HASHTAG, uri.fragment)

(* mem_size: the characters uri_stringify makes room for, the NUL aside *)
RoomFor(mark, part) == IF part = Null THEN 0 ELSE mark + Length(part)

UserRoom(uri) ==
    IF uri.has_authentication THEN RoomFor(0, uri.username) + RoomFor(0, uri.password) + 2 ELSE 0

(* Faulty variant: no room for the brackets. *)
MemSizeBare(uri) ==
    Length(uri.scheme) + 3 + UserRoom(uri) + Length(uri.hostname)
      + (IF uri.port > 0 THEN 1 + intlen(uri.port) ELSE 0)
      + 1 + RoomFor(0, uri.path) + RoomFor(1, uri.query) + RoomFor(1, uri.fragment)

MemSize(uri) ==
    Length(uri.scheme) + 3 + UserRoom(uri) + Length(uri.hostname) + (IF uri.is_ipv6 THEN 2 ELSE 0)
      + (IF uri.port > 0 THEN 1 + intlen(uri.port) ELSE 0)
      + 1 + RoomFor(0, uri.path) + RoomFor(1, uri.query) + RoomFor(1, uri.fragment)

-------------------------------------------------------------------------------
(* rfc3986_unquote_safe *)

(* The character of two hexadecimal digits; from_hex makes 0 of any other. *)
Unhex(one, two) ==
    IF \E c \in DOMAIN Hex : Hex[c] = <<one, two>>
    THEN CHOOSE c \in DOMAIN Hex : Hex[c] = <<one, two>> ELSE "NUL"

(* Every "%" with two characters behind it is taken for a quoted character:   *)
(* the test that was to keep some of them as they are looks at the "%".  A    *)
(* NUL among the results ends the string.                                     *)
Unquoted(text, digits) ==
    LET step(acc, k) ==
          IF acc.skip > 0 THEN [acc EXCEPT !.skip = @ - 1]
          ELSE IF text[k] = "%" /\ Len(text) > k + 1
          THEN [out |-> Append(acc.out, Unhex(text[k + 1], text[k + 2])), skip |-> digits]
          ELSE [acc EXCEPT !.out = Append(@, text[k])]
        out == FoldLeftDomain(step, [out |-> <<>>, skip |-> 0], text).out
    IN  SubSeq(out, 1, Or(Find("NUL", out, 1), Len(out) + 1) - 1)

(* Faulty variant: of a quoted character only the first digit is passed over. *)
UnquotedShort(text) == Unquoted(text, 1)

rfc3986_unquote_safe(text) == Unquoted(text, 2)

(* prepend_scheme_if_needed *)
WithScheme(text) ==
    IF ParseCode(text) = "URI_SCHEME_MISSING" THEN <<"http">> \o SCHEME_SEPARATOR \o text
    ELSE text
===============================================================================
