------------------------------- MODULE HttpHead -------------------------------
(***************************************************************************)
(* The head of a response: parse_http_response and the lookup of a header   *)
(* (src/src/http.c) as operators on texts, and the grammar of RFC 7230 they  *)
(* are compared with.  How a head arrives is HttpReceive.                   *)
(*                                                                         *)
(* A head is a text as in Uri, in which "CRLF" is one token.  It ends       *)
(* before the blank line, and every search is one over all that follows.    *)
(***************************************************************************)
EXTENDS Uri

SPACE == " "
CRLF  == "CRLF"

Versions == {<<"1", ".", "0">>, <<"1", ".", "1">>}

(* http_status_stringify: the codes that have a name *)
Known ==
    (100..103) \cup (200..208) \cup {226} \cup (300..305) \cup {307, 308} \cup (400..418)
      \cup (421..426) \cup {428, 429, 431, 451} \cup (500..508) \cup {510, 511}

(* The codes with which a Location is followed *)
Redirecting == {301, 302, 303, 307, 308}

NameSafe  == Alnum \cup {"-", "_"}
(* All that can be printed in ASCII: no tab and nothing else *)
ValueSafe == DOMAIN Size \ {"TAB", "obs-text", CRLF}

NoResponse == [code |-> "none", status |-> 0, headers |-> <<>>]

-------------------------------------------------------------------------------
(* Version and status code.  A place that is not found is used all the same,  *)
(* but for the end of the code, whose distance is then not three.            *)
StatusResult(text, slash, space, value) ==
    IF space = 0 THEN "undefined"
    ELSE IF SubSeq(text, slash + 1, space - 1) \notin Versions THEN "HTTP_UNSUPPORTED_VERSION"
    ELSE IF Length(value) # 3 \/ ~IsNumeric(value) THEN "HTTP_MALFORMED_STATUS_CODE"
    ELSE IF AtoI(value) \notin Known THEN "HTTP_UNKNOWN_STATUS_CODE"
    ELSE IF Find(CRLF, text, 1) = 0 THEN "undefined"
    ELSE "SUCCESS"

StatusBehind(text, slash, space) ==
    LET value  == SubSeq(text, space + 1, Find(SPACE, text, space + 1) - 1)
        result == StatusResult(text, slash, space, value)
    IN  [code    |-> result,
         status  |-> IF space = 0 \/ result \in {"HTTP_UNSUPPORTED_VERSION", "HTTP_MALFORMED_STATUS_CODE"}
                     THEN 0 ELSE AtoI(value),
         headers |-> <<>>]

StatusAfter(text, slash) ==
    StatusBehind(text, slash, IF slash = 0 THEN 0 ELSE Find(SPACE, text, slash + 1))

StatusRead(text) == StatusAfter(text, Find(SLASH, text, 1))

(* HEADER_SEPARATOR, anywhere from a place on *)
Separator(text, from) ==
    LET hits == {k \in from..(Len(text) - 1) : text[k] = COLON /\ text[k + 1] = SPACE}
    IN  IF hits = {} THEN 0 ELSE Min(hits)

(* header_end *)
LineEnd(text, from) == Or(Find(CRLF, text, from), Len(text) + 1)

(* header_start, at each turn of the loop *)
LineStarts(text) ==
    LET lines == Pieces(text, {CRLF}) IN [n \in 1..(Len(lines) - 1) |-> lines[n].end + 1]

FieldResult(separator, end, key, value) ==
    IF separator = 0 \/ separator > end THEN "HTTP_MALFORMED_HEADER"
    ELSE IF key = <<>> THEN "HTTP_MISSING_HEADER_NAME"
    ELSE IF ~(ToSet(key) \subseteq NameSafe) THEN "HTTP_HEADER_CONTAINS_INVALID_CHARACTER"
    ELSE IF value = <<>> THEN "HTTP_MISSING_HEADER_VALUE"
    ELSE IF ~(ToSet(value) \subseteq ValueSafe) THEN "HTTP_HEADER_CONTAINS_INVALID_CHARACTER"
    ELSE "SUCCESS"

(* One turn of the loop: a header is stored before the next line is looked at. *)
WithFieldAt(response, text, start, separator, end) ==
    LET key    == SubSeq(text, start, separator - 1)
        value  == SubSeq(text, separator + 2, end - 1)
        result == FieldResult(separator, end, key, value)
    IN  IF result = "SUCCESS"
        THEN [response EXCEPT !.headers = Append(@, [key |-> key, value |-> value])]
        ELSE [response EXCEPT !.code = result]

(* Faulty variant: the last separator of the line is taken. *)
WithFieldFromLast(response, text, start) ==
    LET hits == {k \in start..(LineEnd(text, start) - 2) : text[k] = COLON /\ text[k + 1] = SPACE}
    IN  WithFieldAt(response, text, start, IF hits = {} THEN 0 ELSE Max(hits), LineEnd(text, start))

WithField(response, text, start) ==
    WithFieldAt(response, text, start, Separator(text, start), LineEnd(text, start))

parse_http_response(text) ==
    FoldLeft(LAMBDA response, start :
               IF response.code = "SUCCESS" THEN WithField(response, text, start) ELSE response,
             StatusRead(text), LineStarts(text))

(* The first header whose name is spelled like this *)
http_headers_get(headers, name) ==
    LET hits == {n \in DOMAIN headers : headers[n].key = name}
    IN  IF hits = {} THEN Null ELSE headers[Min(hits)].value

(* What http_get_redirect looks for *)
LocationOf(response) ==
    IF response.status \in Redirecting THEN http_headers_get(response.headers, <<"Location">>) ELSE Null

-------------------------------------------------------------------------------
(* The head of a response as RFC 7230 defines it, section 3 *)

Lines(text) ==
    LET pieces == Pieces(text, {CRLF}) IN [n \in DOMAIN pieces |-> pieces[n].text]

Blank == {SPACE, "TAB"}
TChar == NameSafe \cup {"."}

Trimmed(text) ==
    LET solid == {k \in DOMAIN text : text[k] \notin Blank}
    IN  IF solid = {} THEN <<>> ELSE SubSeq(text, Min(solid), Max(solid))

IsStatusLine(line) ==
    /\ Len(line) >= 8
    /\ SubSeq(line, 1, 2) = <<"HTTP", SLASH>> /\ SubSeq(line, 3, 5) \in Versions
    /\ line[6] = SPACE /\ line[7] \in DOMAIN Value /\ Size[line[7]] = 3 /\ line[8] = SPACE

NameOf(field)  == SubSeq(field, 1, Find(COLON, field, 1) - 1)
ValueOf(field) == Trimmed(SubSeq(field, Find(COLON, field, 1) + 1, Len(field)))

IsField(field) == Find(COLON, field, 1) > 1 /\ ToSet(NameOf(field)) \subseteq TChar

(* The lines of a head are the status line and a field each. *)
IsResponse(lines) ==
    /\ IsStatusLine(lines[1])
    /\ \A n \in 2..Len(lines) : IsField(lines[n])

(* The fields that the parser refuses, or takes in another way than the RFC:  *)
(* what follows the ":" is not one space and a value without blanks around it *)
(* (http.c:711, 733), or the name or the value has a character that is         *)
(* allowed but not in the lists of the code (34-35).                         *)
Uncommon(field) ==
    \/ SubSeq(field, Find(COLON, field, 1) + 1, Len(field)) # <<SPACE>> \o ValueOf(field)
    \/ ValueOf(field) = <<>>
    \/ ~(ToSet(NameOf(field)) \subseteq NameSafe)
    \/ ~(ToSet(ValueOf(field)) \subseteq ValueSafe)

(* The heads it takes in another way: not of HTTP (649), of a code            *)
(* without a name (694), without fields (698), or with such a field. *)
Irregular(lines) ==
    \/ lines[1] # <<>> /\ lines[1][1] # "HTTP"
    \/ IsStatusLine(lines[1]) /\ Value[lines[1][7]] \notin Known
    \/ Len(lines) = 1
    \/ \E n \in 2..Len(lines) : IsField(lines[n]) /\ Uncommon(lines[n])

(* The fields of a name, which the RFC compares without regard to case *)
Named(lines, name) == {n \in 2..Len(lines) : Lowered(NameOf(lines[n])) = Lowered(name)}
===============================================================================
