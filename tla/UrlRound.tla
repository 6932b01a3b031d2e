------------------------------- MODULE UrlRound -------------------------------
(***************************************************************************)
(* What happens to the text of a URL in the rounds of unalix_unshort_url:   *)
(* it is unquoted when a redirection rule captured it, parsed and printed by *)
(* unalix_clean_url, parsed again and turned into a request                  *)
(* (src/src/http.c), and the Location of the answer is made into the text    *)
(* of the next round.  No rule takes anything out here: that is CleanUrl.    *)
(***************************************************************************)
EXTENDS HttpHead

CONSTANTS
    Urls,               \* the texts an application passes
    Captured,           \* the links that stand quoted in the query of another
    Answers(_, _),      \* the heads a server may answer a request with
    MaxRedirects        \* HTTP_DEFAULT_MAX_REDIRECTS

ASSUME RoundAssumption ==
    /\ Urls \subseteq Texts /\ Captured \subseteq Texts
    /\ \A link \in Captured : "NUL" \notin ToSet(link)
    /\ {"GET", " ", "HTTP/1.0", "CRLF", "Host: "} \subseteq Token
    /\ MaxRedirects \in Nat

VARIABLES
    pc,         \* "idle", "clean", "set_url", "send", "answer", "redirect", "done"
    meant,      \* history: the link that the round began with
    source,     \* source_url of the clean_url of this round
    uri,        \* what it parsed
    target,     \* *target_url
    request,    \* request.uri and the Host header
    message,    \* what was sent
    answer,     \* the head of the last answer
    response,   \* what was read of it
    location,   \* the Location that was followed
    redirects, code,
    over        \* the buffers of this round that a text did not fit

answered == <<answer, response, location>>
vars == <<pc, meant, source, uri, target, request, message, answered, redirects, code, over>>

HTTP_PORT == 80
HTTPS_PORT == 443
DOTDOT == <<".", ".">>

NoRequest == [uri |-> NoUri, host |-> <<>>]

(* A text and its NUL in a buffer of some size. *)
Overrun(name, room, text) == IF Length(text) + 1 > room THEN {name} ELSE {}

Return(result) == pc' = "done" /\ code' = result

-------------------------------------------------------------------------------
(* The last lines of unalix_clean_url: the query, here of one field, gets "=" *)
Rebuilt(query) ==
    IF query = Null \/ "=" \in ToSet(Text(query)) THEN query ELSE Append(query, "=")

(* http_request_stringify: the head, and the room made for it *)
Resource(parsed) == <<SLASH>> \o Text(parsed.path) \o Prefixed(QUESTION_MARK, parsed.query)

Message(resource, host) ==
    <<"GET", " ">> \o resource \o <<" ", "HTTP/1.0", "CRLF", "Host: ">> \o host
      \o <<"CRLF", "CRLF">>

MessageRoom(resource, host) == Length(Message(resource, host))

(* set_host_header: the value, and the room made for it *)
HostHeader(parsed) ==
    parsed.hostname \o
    (IF \/ parsed.scheme = <<"http">>  /\ parsed.port \notin {0, HTTP_PORT}
        \/ parsed.scheme = <<"https">> /\ parsed.port \notin {0, HTTPS_PORT}
     THEN <<COLON>> \o Digits(parsed.port) ELSE <<>>)

HostRoom(parsed) ==
    Length(parsed.hostname) + 1 + (IF parsed.port > 0 THEN intlen(parsed.port) ELSE 0)

-------------------------------------------------------------------------------
(* httpnormpath *)

IsDots(comp) == comp \in {<<".">>, DOTDOT}

Marks == {SLASH, QUESTION_MARK, HASHTAG}

(* The components up to the first one that a "?" or "#" follows; one of those *)
(* right behind a "/" is passed over.                                        *)
Components(path) ==
    LET all  == Pieces(path, Marks)
        ends == {n \in DOMAIN all : /\ all[n].text # <<>>
                                    /\ all[n].end <= Len(path) /\ path[all[n].end] # SLASH}
    IN  SubSeq(all, 1, Min(ends \cup {Len(all)}))

LastSlash(text) ==
    LET hits == {k \in DOMAIN text : text[k] = SLASH} IN IF hits = {} THEN 0 ELSE Max(hits)

basename(text)   == SubSeq(text, LastSlash(text) + 1, Len(text))
WithoutBase(text) == SubSeq(text, 1, LastSlash(text) - 1)

(* One turn of the loop.  A component of dots takes as many components off    *)
(* the path as it has dots; of the only one that is left ".." takes off the   *)
(* byte before the buffer with it.                                           *)
WithComponent(normal, comp) ==
    IF comp = <<>> THEN normal
    ELSE IF ~IsDots(comp) \/ IsDots(basename(normal.path))
    THEN [normal EXCEPT !.path = @ \o <<SLASH>> \o comp]
    ELSE IF comp = DOTDOT /\ normal.path # <<>>
    THEN [path   |-> WithoutBase(WithoutBase(normal.path)),
          before |-> normal.before \/ WithoutBase(normal.path) = <<>>]
    ELSE [normal EXCEPT !.path = WithoutBase(@)]

Normalised(path) ==
    FoldLeft(LAMBDA normal, c : WithComponent(normal, c.text),
             [path |-> <<>>, before |-> FALSE], Components(path))

BeforeBuffer(path) == Normalised(path).before

OrSlash(path) == IF path = <<>> THEN <<SLASH>> ELSE path

(* Faulty variant: what follows the path is lost. *)
PathWithoutSuffix(path) == OrSlash(Normalised(path).path)

httpnormpath(path) ==
    OrSlash(Normalised(path).path) \o SubSeq(path, Last(Components(path)).end, Len(path))

-------------------------------------------------------------------------------
(* http_get_redirect *)

IsAbsolute(loc) == loc[1] \in {"http", "https"}
ThirdIsSlash(loc) == Len(loc) > 2 /\ Size[loc[2]] = 1 /\ loc[3] = SLASH
OnOwnHost(loc) == loc[1] = SLASH /\ Len(loc) > 1 /\ ~ThirdIsSlash(loc)

(* The path that is normalised *)
FullPath(parsed, loc) ==
    IF loc[1] = SLASH THEN loc
    ELSE <<SLASH>> \o (IF parsed.path = Null THEN <<>> ELSE parsed.path \o <<SLASH>>) \o loc

AfterSlashes(loc) ==
    LET rest == {k \in DOMAIN loc : loc[k] # SLASH}
    IN  IF rest = {} THEN <<>> ELSE SubSeq(loc, Min(rest), Len(loc))

IsInvalid(loc) == loc[1] = SLASH /\ ~OnOwnHost(loc) /\ ~(Len(loc) > 1 /\ loc[2] = SLASH)

Redirected(req, loc) ==
    IF IsAbsolute(loc) THEN loc
    ELSE req.uri.scheme \o SCHEME_SEPARATOR \o
         (IF loc[1] # SLASH \/ OnOwnHost(loc)
          THEN req.host \o httpnormpath(FullPath(req.uri, loc))
          ELSE AfterSlashes(loc))

-------------------------------------------------------------------------------
Init ==
    /\ pc = "idle"
    /\ meant = <<>> /\ source = <<>> /\ target = <<>> /\ message = <<>>
    /\ answer = <<>> /\ response = NoResponse /\ location = <<>>
    /\ uri = NoUri
    /\ request = NoRequest
    /\ redirects = 0
    /\ code = "none"
    /\ over = {}

(* An application passes a URL. *)
Call ==
    /\ pc = "idle"
    /\ meant' \in Urls
    /\ source' = meant'
    /\ pc' = "clean"
    /\ UNCHANGED <<uri, target, request, message, answered, redirects, code, over>>

(* How a link is quoted: each "%" is, and of the other characters that can be *)
(* the ones the author chose.                                                *)
QuotedAt(text, places) ==
    FoldLeftDomain(LAMBDA out, k :
                     out \o (IF k \in places THEN <<"%">> \o Hex[text[k]] ELSE <<text[k]>>),
                   <<>>, text)

Quotable(text) == {k \in DOMAIN text : text[k] \in DOMAIN Hex}

(* A redirection rule captured a quoted link in the query of a URL. *)
Capture ==
    /\ pc = "idle"
    /\ meant' \in Captured
    /\ \E places \in SUBSET Quotable(meant') :
         /\ {k \in DOMAIN meant' : meant'[k] = "%"} \subseteq places
         /\ source' = WithScheme(rfc3986_unquote_safe(QuotedAt(meant', places)))
    /\ pc' = "clean"
    /\ UNCHANGED <<uri, target, request, message, answered, redirects, code, over>>

(* unalix_clean_url with rules that find nothing *)
Clean ==
    /\ pc = "clean"
    /\ \E parsed \in {uri_parse(source)} :
         LET kept == [parsed.uri EXCEPT !.query = Rebuilt(@)]
         IN  IF parsed.code = "SUCCESS"
             THEN /\ uri' = parsed.uri
                  /\ target' = uri_stringify(kept)
                  /\ over' = Overrun("target_url", MemSize(kept) + 1, target')
                  /\ pc' = "set_url"
                  /\ UNCHANGED code
             ELSE Return(parsed.code) /\ UNCHANGED <<uri, target, over>>
    /\ UNCHANGED <<meant, source, request, message, answered, redirects>>

(* http_request_set_url *)
SetUrl ==
    /\ pc = "set_url"
    /\ \E parsed \in {uri_parse(target)} :
         LET host == HostHeader(parsed.uri)
         IN  IF parsed.code = "SUCCESS"
             THEN /\ request' = [uri |-> parsed.uri, host |-> host]
                  /\ over' = over \cup Overrun("host", HostRoom(parsed.uri), host)
                  /\ pc' = "send"
                  /\ UNCHANGED code
             ELSE Return(parsed.code) /\ UNCHANGED <<request, over>>
    /\ UNCHANGED <<meant, source, uri, target, message, answered, redirects>>

(* http_request_send, as far as the text of the request goes *)
Send ==
    /\ pc = "send"
    /\ message' = Message(Resource(request.uri), request.host)
    /\ over' = over \cup Overrun("request", MessageRoom(Resource(request.uri), request.host),
                                 message')
    /\ pc' = "answer"
    /\ UNCHANGED <<meant, source, uri, target, request, answered, redirects, code>>

(* The head of the answer is read. *)
Receive ==
    /\ pc = "answer"
    /\ answer' \in Answers(meant, redirects) /\ answer' \in Texts
    /\ response' \in {parse_http_response(answer')}
    /\ IF response'.code = "SUCCESS" THEN pc' = "redirect" /\ UNCHANGED code
       ELSE Return(response'.code)
    /\ UNCHANGED <<meant, source, uri, target, request, message, location, redirects, over>>

(* http_get_redirect, and the end of the loop in unalix_unshort_url.  What    *)
(* stands before a buffer may matter to nothing that follows.                *)
Redirect ==
    /\ pc = "redirect"
    /\ LocationOf(response) # Null
    /\ location' = LocationOf(response)
    /\ over' = IF ~IsAbsolute(location') /\ (location'[1] # SLASH \/ OnOwnHost(location'))
               THEN LET path == FullPath(request.uri, location')
                    IN  (IF BeforeBuffer(path) THEN {"before path"} ELSE {})
                        \cup Overrun("path", Length(path) + 2, httpnormpath(path))
               ELSE {}
    /\ IF IsInvalid(location')
       THEN /\ Return("HTTP_HEADERS_INVALID_LOCATION")
            /\ UNCHANGED <<meant, source, redirects>>
       ELSE /\ source' = Redirected(request, location')
            /\ meant' = source'
            /\ redirects' = redirects + 1
            /\ IF redirects' > MaxRedirects THEN Return("HTTP_TOO_MANY_REDIRECTS")
               ELSE pc' = "clean" /\ UNCHANGED code
    /\ UNCHANGED <<uri, target, request, message, answer, response>>

(* An answer that leads nowhere *)
Answered ==
    /\ pc = "redirect"
    /\ LocationOf(response) = Null
    /\ Return("SUCCESS")
    /\ UNCHANGED <<meant, source, uri, target, request, message, answered, redirects, over>>

Next == Call \/ Capture \/ Clean \/ SetUrl \/ Send \/ Receive \/ Redirect \/ Answered

Spec == Init /\ [][Next]_vars

-------------------------------------------------------------------------------
(* How RFC 3986 reads a text (appendix B), for the URLs that have "://" *)

Before(text, from, marks) ==
    LET hits == {k \in from..Len(text) : text[k] \in marks}
    IN  IF hits = {} THEN Len(text) + 1 ELSE Min(hits)

SplitAt(text, start, tail, at, host) ==
    LET v6    == host <= Len(text) /\ text[host] = "["
        colon == Before(text, start, {COLON, AT})
        close == Before(text, host, {"]", SLASH, QUESTION_MARK, HASHTAG})
        port  == Min({tail, Before(text, IF v6 THEN close ELSE host, {COLON})})
        query == Before(text, tail, {QUESTION_MARK, HASHTAG})
        frag  == Before(text, tail, {HASHTAG})
    IN  [username |-> IF host = start THEN <<>> ELSE SubSeq(text, start, Min({colon, at}) - 1),
         password |-> IF host = start THEN <<>> ELSE SubSeq(text, colon + 1, at - 1),
         v6       |-> v6,
         closed   |-> close < tail,
         host     |-> IF v6 THEN SubSeq(text, host + 1, close - 1) ELSE SubSeq(text, host, port - 1),
         junk     |-> IF v6 THEN SubSeq(text, close + 1, port - 1) ELSE <<>>,
         ported   |-> port < tail,
         port     |-> SubSeq(text, port + 1, tail - 1),
         path     |-> SubSeq(text, tail + 1, query - 1),
         query    |-> SubSeq(text, query + 1, frag - 1),
         fragment |-> SubSeq(text, frag + 1, Len(text)),
         tail     |-> SubSeq(text, tail, Len(text))]

SplitBehind(text, start, tail, at) ==
    SplitAt(text, start, tail, at, IF at < tail THEN at + 1 ELSE start)

SplitFrom(text, start) ==
    SplitBehind(text, start, Before(text, start, {SLASH, QUESTION_MARK, HASHTAG}),
                Before(text, start, {AT, SLASH, QUESTION_MARK, HASHTAG}))

Split(text) == SplitFrom(text, SchemeEnd(text) + 3)

Number(digits) == FoldLeft(LAMBDA n, w : n * 10^Size[w] + Value[w], 0, digits)

(* A URL the library should take: the names and numbers it allows *)
IsUrl(text) ==
    /\ SchemeEnd(text) > 1
    /\ SchemeIsValid(SubSeq(text, 1, SchemeEnd(text) - 1))
    /\ \A s \in {Split(text)} :
         /\ IF s.v6 THEN s.closed /\ s.junk = <<>> /\ AddressIsValid(s.host)
            ELSE HostnameIsValid(s.host)
         /\ s.port # <<>> => IsNumeric(s.port) /\ Number(s.port) \in 1..MaxPort

ReadingOf(text, s) ==
    [scheme   |-> Lowered(SubSeq(text, 1, SchemeEnd(text) - 1)),
     username |-> OrNull(s.username),
     password |-> OrNull(s.password),
     has_authentication |-> s.username # <<>> \/ s.password # <<>>,
     hostname |-> IF s.v6 THEN s.host ELSE Lowered(s.host),
     is_ipv6  |-> s.v6,
     port     |-> IF IsNumeric(s.port) THEN Number(s.port) ELSE 0,
     path     |-> OrNull(s.path),
     query    |-> OrNull(s.query),
     fragment |-> OrNull(s.fragment)]

Reading(text) == ReadingOf(text, Split(text))

(* The texts that uri.c takes apart in another way than the RFC, because it   *)
(* looks for each mark in all that follows instead of in the part it is in:  *)
(*  - "@" after the host (uri.c:65),                                         *)
(*  - "/" in a query or fragment without a path before it (116),             *)
(*  - "?" in a fragment without a query before it (117),                     *)
(*  - a fragment after a path without a query between them (327),            *)
(*  - a port before a query without a path between them (147-148),           *)
(*  - characters between "]" and the port (132, 180),                        *)
(*  - a port that is no int (169).                                           *)
Misplaced(s) ==
    LET bare   == s.tail = <<>> \/ s.tail[1] # SLASH
        after  == ToSet(s.tail)
        query  == QUESTION_MARK \in ToSet(SubSeq(s.tail, 1, Before(s.tail, 1, {HASHTAG}) - 1))
    IN  \/ AT \in after
        \/ bare /\ SLASH \in after
        \/ ~query /\ QUESTION_MARK \in after
        \/ ~query /\ ~bare /\ HASHTAG \in after
        \/ query /\ bare /\ s.ported
        \/ s.junk # <<>>
        \/ IsNumeric(s.port) /\ Number(s.port) >= IntSpan

Departs(text) == Misplaced(Split(text))

-------------------------------------------------------------------------------
(* Where a Location leads by RFC 3986, section 5.2, when it is in a path *)

Segments(path) ==
    [n \in DOMAIN Pieces(path, {SLASH}) |-> Pieces(path, {SLASH})[n].text]

(* A text without its query and fragment *)
BeforeSuffix(loc) == SubSeq(loc, 1, Before(loc, 1, {QUESTION_MARK, HASHTAG}) - 1)

(* The path of the page up to its last "/", then the Location without what    *)
(* follows its path *)
MergedPath(parsed, loc) ==
    LET path == BeforeSuffix(loc)
        base == Segments(Text(parsed.path))
    IN  IF loc[1] = SLASH THEN Segments(SubSeq(path, 2, Len(path)))
        ELSE SubSeq(base, 1, Len(base) - 1) \o Segments(path)

Joined(segments) ==
    IF segments = <<>> THEN <<SLASH>>
    ELSE FoldLeft(LAMBDA text, s : text \o <<SLASH>> \o s, <<>>, segments)

WithoutDots(segments) ==
    FoldLeft(LAMBDA kept, s : IF s = <<".">> THEN kept
                              ELSE IF s = DOTDOT THEN SubSeq(kept, 1, Len(kept) - 1)
                              ELSE Append(kept, s),
             <<>>, segments)

HasScheme(loc) == COLON \in ToSet(SubSeq(loc, 1, Before(loc, 1, {SLASH, QUESTION_MARK, HASHTAG}) - 1))

(* The port of a scheme whose texts may leave it out *)
ImpliedPort(scheme) ==
    IF scheme = <<"http">> THEN 80 ELSE IF scheme = <<"https">> THEN 443 ELSE 0

(* The authority of a page: its user information, host and port, without the  *)
(* port that the scheme implies *)
Authority(parsed) ==
    (IF parsed.has_authentication
     THEN Text(parsed.username) \o Prefixed(COLON, parsed.password) \o <<AT>> ELSE <<>>)
    \o (IF parsed.is_ipv6 THEN <<"[">> \o parsed.hostname \o <<"]">> ELSE parsed.hostname)
    \o (IF parsed.port \in {0, ImpliedPort(parsed.scheme)} THEN <<>>
        ELSE <<COLON>> \o Digits(parsed.port))

(* A Location with a scheme leads where it says, when no dots are in its path *)
Resolved(parsed, loc) ==
    IF HasScheme(loc) THEN loc
    ELSE parsed.scheme \o SCHEME_SEPARATOR \o Authority(parsed)
         \o Joined(WithoutDots(MergedPath(parsed, loc)))
         \o SubSeq(loc, Before(loc, 1, {QUESTION_MARK, HASHTAG}), Len(loc))

(* The Locations that http_get_redirect takes in another way than the RFC:    *)
(*  - a relative one that begins with the word http, and one with a scheme   *)
(*    other than http (http.c:1010, 1036),                                   *)
(*  - one with a scheme and with dot segments, which stay (http.c:1017),     *)
(*  - a first segment of one character with another after it (1022),         *)
(*  - a relative one to a page that is not a directory (1040-1045),          *)
(*  - a path with empty segments, that ends in "/", or that is only that, and *)
(*    "?" or "#" right behind a "/" (utils.c:196; for "//" http.c:1060),     *)
(*  - one to a page whose path the parser mixed up with a fragment,          *)
(*  - a dot segment after another one (utils.c:213-216).                     *)
Strays(parsed, loc) ==
    LET segments == MergedPath(parsed, loc)
    IN  \/ HasScheme(loc) # IsAbsolute(loc)
        \/ HasScheme(loc) /\ \E s \in ToSet(Segments(BeforeSuffix(loc))) : IsDots(s)
        \/ ~HasScheme(loc) /\
             \/ loc[1] = SLASH /\ ThirdIsSlash(loc)
             \/ loc[1] # SLASH /\ parsed.path # Null /\ Last(parsed.path) # SLASH
             \/ <<>> \in ToSet(segments)
             \/ loc[1] # SLASH /\ HASHTAG \in ToSet(Text(parsed.path))
             \/ \E n \in DOMAIN segments : IsDots(segments[n]) /\ \E m \in 1..(n - 1) : ~IsDots(segments[m])

(* The pages whose authority a Location without a scheme inherits by the RFC,  *)
(* but not by http_get_redirect, which takes the Host header for it (http.c,  *)
(* 1034 and 1058): it has no user information, no brackets around an          *)
(* address and no port of a scheme other than http and https (http.c:427-442) *)
LosesAuthority(parsed, loc) ==
    /\ ~HasScheme(loc)
    /\ \/ parsed.has_authentication
       \/ parsed.is_ipv6
       \/ parsed.port # 0 /\ parsed.scheme \notin {<<"http">>, <<"https">>}

-------------------------------------------------------------------------------
(* Properties *)

(* A part of a URL is absent or not empty, which uri_stringify and the tests   *)
(* for NULL in unalix_clean_url and http.c rely on. *)
PartType == (Texts \ {<<>>}) \cup {Null}

UriType ==
    [scheme : PartType, username : PartType, password : PartType, has_authentication : BOOLEAN,
     hostname : PartType, is_ipv6 : BOOLEAN, port : 0..MaxPort,
     path : PartType, query : PartType, fragment : PartType]

HeaderType == [key : Texts \ {<<>>}, value : Texts \ {<<>>}]

ResponseCodes ==
    {"none", "undefined", "SUCCESS", "HTTP_UNSUPPORTED_VERSION", "HTTP_MALFORMED_STATUS_CODE",
     "HTTP_UNKNOWN_STATUS_CODE", "HTTP_MALFORMED_HEADER", "HTTP_MISSING_HEADER_NAME",
     "HTTP_MISSING_HEADER_VALUE", "HTTP_HEADER_CONTAINS_INVALID_CHARACTER"}

ResponseType == [code : ResponseCodes, status : Int, headers : Seq(HeaderType)]

(* Types.  A port that is there is one a socket can have (uri.c:33-338), and   *)
(* a header has a name and a value (http.c:617-774). *)
TypeOK ==
    /\ pc \in {"idle", "clean", "set_url", "send", "answer", "redirect", "done"}
    /\ redirects \in 0..(MaxRedirects + 1)
    /\ \A text \in {meant, source, target, message, answer, location} : text \in Texts
    /\ uri \in UriType /\ request \in [uri : UriType, host : Texts]
    /\ \A parsed \in {uri, request.uri} :
         parsed.has_authentication <=> parsed.username # Null \/ parsed.password # Null
    /\ response \in ResponseType
    /\ over \subseteq {"target_url", "host", "request", "path", "before path"}

(* The parser reads a text as the RFC it cites does (uri.c:17-323), and takes *)
(* exactly the URLs whose names and numbers it allows, but for the texts of   *)
(* Departs. *)
ReadsAsRFC ==
    pc # "idle" /\ source # <<>> /\ ~(SchemeEnd(source) > 0 /\ Departs(source)) =>
      \A parsed \in {uri_parse(source)} :
        /\ parsed.code = "SUCCESS" <=> IsUrl(source)
        /\ parsed.code = "SUCCESS" => parsed.uri = Reading(source)

(* A user information that is empty and is left out, where an "@" that comes  *)
(* later takes its place *)
HidesUser(parsed) ==
    /\ ~parsed.has_authentication
    /\ \E part \in {parsed.path, parsed.query, parsed.fragment} : AT \in ToSet(Text(part))

(* The URL that is requested is the URL that was cleaned, part for part:      *)
(* printing and parsing it once more loses and moves nothing, except that a   *)
(* fragment without a query before it is doubled, and that an empty user       *)
(* information is lost when there is another "@" (clean_url.c:287,            *)
(* http.c:450, uri.c:327, uri.c:65). *)
Kept ==
    pc \in {"send", "answer"} =>
      (request.uri = [uri EXCEPT !.query = Rebuilt(@)] <=>
         ~(uri.fragment # Null /\ uri.query = Null) /\ ~HidesUser(uri))

(* A URL that was parsed and printed is the one it was, path and fragment     *)
(* included (test/test_uri.c:44). *)
PartsKept ==
    pc \in {"send", "answer"} /\ AT \notin ToSet(source) =>
      request.uri.path = uri.path /\ request.uri.fragment = uri.fragment

(* The link that a text stands for *)
Link(text) == IF SchemeEnd(text) = 0 THEN <<"http">> \o SCHEME_SEPARATOR \o text ELSE text

(* The server is asked for what the link says in the place where it was       *)
(* written, quoted in another URL or not: the request line carries its path   *)
(* and query and not its fragment, and the Host header its name and the port  *)
(* that the scheme does not imply (clean_url.c:99-110, http.c:367-446).       *)
(* A fragment without a query is sent after all: see Kept.  Of another scheme *)
(* no port is printed. *)
AsksForLink ==
    pc = "answer" =>
      \A link \in {Link(meant)} : \A read \in {Reading(link)} :
        /\ ~Departs(link)
        /\ read.scheme \in {<<"http">>, <<"https">>}
        /\ read.fragment # Null => read.query # Null
        =>
          LET port == IF read.port \in {0, IF read.scheme = <<"http">> THEN 80 ELSE 443}
                      THEN <<>> ELSE <<COLON>> \o Digits(read.port)
              query == IF read.query = Null THEN <<>> ELSE <<QUESTION_MARK>> \o Rebuilt(read.query)
          IN  /\ IsUrl(link)
              /\ message = Message(<<SLASH>> \o Text(read.path) \o query, read.hostname \o port)

(* Every text fits the buffer made for it, except by its NUL: the value of a   *)
(* Host header that prints a port (http.c:431), and the request, which has no *)
(* body to hide it (http.c:387-413); and ".." after a single component writes *)
(* one byte before its buffer (utils.c:213-216). *)
BuffersHold ==
    /\ pc = "set_url" => over = {}
    /\ pc \in {"send", "answer"} =>
         /\ "target_url" \notin over
         /\ "host" \in over <=> request.host # request.uri.hostname
    /\ "path" \notin over
    /\ "before path" \in over => ~IsAbsolute(location) /\ Strays(request.uri, location)

(* A redirection leads to where RFC 3986 says that the Location does, and is  *)
(* refused only when the library could not follow it, but for the Locations   *)
(* of Strays and the pages of LosesAuthority, on which the library goes on    *)
(* without the user information, say (http.c:1003-1076 with utils.c:179-236). *)
LeadsWhereItSays ==
    /\ location # <<>>
    /\ ~Strays(request.uri, location) /\ ~LosesAuthority(request.uri, location)
    =>
      /\ code # "HTTP_HEADERS_INVALID_LOCATION"
      /\ pc = "clean" => source = Resolved(request.uri, location)

(* A head is accepted exactly when it is that of a response, and then its     *)
(* fields are all there and in their order; but for the heads of Irregular    *)
(* (http.c:617-774).  Of a head that is refused the fields before the bad one *)
(* stay. *)
ReadsResponse ==
    pc \in {"redirect", "done"} /\ answer # <<>> =>
      \A lines \in {Lines(answer)} : ~Irregular(lines) =>
        /\ response.code = "SUCCESS" <=> IsResponse(lines)
        /\ response.code = "SUCCESS" =>
             response.status = Value[lines[1][7]] /\ Len(response.headers) = Len(lines) - 1
        /\ \A n \in DOMAIN response.headers :
             response.headers[n] = [key |-> NameOf(lines[n + 1]), value |-> ValueOf(lines[n + 1])]

(* A redirection is followed to the first Location of the answer; one that is *)
(* spelled otherwise is not seen, also when it comes first (http.c:309-329).  *)
FollowsLocation ==
    pc \in {"clean", "done"} /\ response.code = "SUCCESS" =>
      \A lines \in {Lines(answer)} : ~Irregular(lines) =>
        LET named == {n \in Named(lines, <<"Location">>) : NameOf(lines[n]) = <<"Location">>}
            leads == response.status \in Redirecting /\ named # {}
        IN  /\ leads => location = ValueOf(lines[Min(named)])
            /\ pc = "done" /\ code = "SUCCESS" <=> ~leads

(* What the library learns from an answer is what the server said. *)
AnswerUnderstood == ReadsResponse /\ FollowsLocation

-------------------------------------------------------------------------------
(* The inductive invariant of UrlRoundProofs *)

(* What a URL has that was parsed with success: a scheme and a host, and no    *)
(* "?" in its path *)
IsParsed(parsed) ==
    /\ parsed.scheme # Null /\ parsed.hostname # Null
    /\ QUESTION_MARK \notin ToSet(Text(parsed.path))

(* What is printed, requested and redirected is a URL that was parsed *)
AsParsed ==
    /\ pc = "set_url" => IsParsed(uri)
    /\ pc \in {"send", "answer", "redirect"} =>
         IsParsed(request.uri) /\ request.host = HostHeader(request.uri)

(* Before the function returns it has no result and may follow one more       *)
(* Location, and before it is called it followed none *)
Unfinished ==
    /\ pc # "done" => code = "none" /\ redirects <= MaxRedirects
    /\ pc = "idle" => location = <<>>

(* What the library reads is the link that was meant, with a scheme; what it   *)
(* prints and requests is what it read *)
Followed ==
    /\ pc = "clean" => source \in {meant, Link(meant)}
    /\ pc \in {"set_url", "send", "answer"} =>
         /\ source = Link(meant) /\ ParseCode(source) = "SUCCESS" /\ uri = parse_uri(source)
         /\ target = uri_stringify([uri EXCEPT !.query = Rebuilt(@)])
    /\ pc \in {"send", "answer"} => ParseCode(target) = "SUCCESS" /\ request.uri = parse_uri(target)
    /\ pc = "answer" => message = Message(Resource(request.uri), request.host)

IInv == TypeOK /\ AsParsed /\ Followed /\ Unfinished /\ BuffersHold /\ LeadsWhereItSays
===============================================================================
