# Formal models of libunalix

TLA+ models of [libunalix](../src/README.md), a C library that removes tracking
fields from URLs by the ClearURLs rules. The models are written from the C
sources; every definition that stands for code is listed with its lines in
`PROJECT.json` under `map`. TLC checks small instances; TLAPS proves the
theorems of the modules named `...Proofs` for every value of the constants:
every safety property of the runs but two of `clean_url` and one of
`url_round`.

## 1. The system

The library has no threads, no locks and no background work of its own. What
is hard about it comes from how it is called: by several threads over one
global store, by several processes over one ruleset file, over a network and a
file system that may fail after any call.

| component | state | operations | interacts with |
|---|---|---|---|
| ruleset update (`ruleset.c:448-654`, `sha256.c`, `utils.c:347-439`) | a temporary file, the destination file, an open stream, an HTTP context | `unalix_ruleset_update` | HTTP client, file system, other updaters |
| ruleset update check (`ruleset.c:303-446`) | the file's modification time | `unalix_ruleset_check_update` | HTTP client, file system |
| rulesets in memory (`ruleset.c:69-301, 656-687`) | global `struct Rulesets`: items, size, offset | `unalix_load_file`, `unalix_load_string`, `unalix_unload_rulesets`, `get_rulesets` | clean_url |
| clean_url (`clean_url.c`, `query.c`) | a copy of the struct, a parsed URL, a query | `unalix_clean_url` | rulesets, uri, regex |
| unshort_url (`unshort_url.c`) | three strings, a counter | `unalix_unshort_url` | clean_url, HTTP client |
| HTTP client (`http.c`, `connection.c`, `callbacks.c`, `address.c`) | socket, TLS engine, request and response | `http_request_set_url`, `http_request_send`, `http_response_read`, `http_get_redirect`, `http_context_free` | uri, sockets, BearSSL |
| uri (`uri.c`) | a parsed URL | `uri_parse`, `uri_stringify`, `uri_free`, unquoting | - |
| JNI binding (`unalix_jni.c`) | - | converts arguments and results of the other calls | clean_url, unshort_url, rulesets |
| regex, errors, dns prototype, trust anchors | - | wrappers and tables | - |

What makes each correct:

* **update**: whoever opens the destination finds one complete ruleset that
  loads, and, with a `sha256_url`, the one whose hash was fetched; success
  means the file is in its place; every call returns, and the only stream it can
  leave open is the source of a copy whose destination could not be opened.
* **rulesets in memory**: a load appends what it accepted in order and keeps
  what was there, also when it fails half way; counts, block and pointer agree
  between writes, and nothing is lost but the patterns of a provider that failed;
  reads never touch freed memory.
* **unshort_url**: the loop ends on any web; the strings are freed once each;
  the result is the URL that answered.
* **clean_url, query**: nothing disappears but the fields the rules name, and the
  names behind a `?` in another field; a cleaned URL stays as it is.
* **uri**: a URL is read as RFC 3986 reads it; printing and parsing it again
  loses and moves nothing; the request asks for what the link says, and a
  Location leads where it says.
* **HTTP client**: descriptor and TLS state are released once; nothing of a
  response is lost between header loop and body loop.

All the hazards that follow from this are in `PROJECT.json` under `hazards`,
each at its line.

## 2. Modules

| module | role |
|---|---|
| `InstalledRuleset` | abstract specification: what readers of the ruleset file are promised |
| `RulesetUpdate` | `unalix_ruleset_update` by several updaters over one file system; its inductive invariant; its refinement mapping to `InstalledRuleset` |
| `RulesetUpdateProofs` | theorems about `RulesetUpdate` |
| `MCRulesetUpdate` + `MCUpdate*.cfg` | its instances for TLC |
| `RulesetRefresh`, `MCRulesetRefresh` | `unalix_ruleset_check_update` next to an update and a server that publishes |
| `RulesetRefreshProofs` | theorems about `RulesetRefresh` |
| `RulesetList` | abstract specification: what a program that loads, unloads and cleans is promised of its rulesets |
| `RulesetStore`, `MCRulesetStore` | the global struct of rulesets under several threads; its inductive invariant; its refinement mapping to `RulesetList` |
| `RulesetStoreProofs` | theorems about `RulesetStore` |
| `CleanUrl`, `MCCleanUrl` | the cleaning of one URL, and of the result once more; its inductive invariant |
| `CleanUrlProofs` | theorems about `CleanUrl` |
| `Uri` | `uri.c` as operators: the parser, the serializer and its buffer, the unquoting |
| `UrlRound`, `MCUrlRound` | `Uri` composed with the request and the redirection: the text of a URL through the rounds of `unalix_unshort_url`; the readings of RFC 3986 they are compared with; its inductive invariant |
| `UrlRoundProofs` | theorems about `UrlRound` |
| `UnshortUrl`, `MCUnshortUrl` | the redirection loop, the ownership of its strings, and what the Java binding leaves of them |
| `UnshortUrlProofs` | theorems about `UnshortUrl` |
| `HttpReceive`, `MCHttpReceive` | how the bytes of a response reach the headers, the body and the file |
| `HttpReceiveProofs` | theorems about `HttpReceive` |
| `HttpHead` | the parser of status line and header lines, and the lookup of a header, as operators; `UrlRound` uses them |
| `HttpContext`, `MCHttpContext` | the life of socket, TLS engine and descriptor number of a context; its inductive invariant |
| `HttpContextProofs` | theorems about `HttpContext` |

### RulesetUpdate

One action per step after which another updater, a crash or the server may
intervene; `pc[u]` is where the call of updater `u` stands.

| action | code |
|---|---|
| `Request` | `ruleset.c:448-478`: the first request, its status |
| `Open` | `480-498`: `fopen(…, "wb")` of the temporary file |
| `ReadChunk` | one turn of `http_response_read` (`http.c:940-1001`) |
| `DownloadEnd`, `DownloadFailed` | the loop ends; `ruleset.c:500-510` |
| `FetchHash` | `512-560`: the second request with its three ways to fail |
| `CompareDigest` | `562-586` with `sha256_digest` |
| `Load` | `588-598`: the trial load |
| `Move`, `MoveFailed`, `MoveAcross`, `CopyChunk`, `CopyEnd` | `600-604` with `move_file` and `copy_file` (`utils.c:360-439`) |
| `Crash` | the process dies; its files stay |

A file is an inode (`entry` maps paths to inodes, `content` inodes to blocks).
That is what decides the interesting cases: `fopen` of an existing file keeps
the inode and truncates it under whoever has it open; `rename` moves the name
and leaves the streams where they were; a write past a truncated end leaves a
hole. Documents are model values; a digest is equal exactly when the content
is. A download may stop after any block, because the code compares its length
with nothing and ignores the result of `fclose`. `ferror` on a closed stream
(`utils.c:389`) is undefined and may answer either way. `copy_file` closes both
streams on every path but one: when the destination cannot be opened it returns
with the source open (`utils.c:377-379`), and the process keeps that stream.
`leaked` records of whom; not how many streams, nor which inodes, since nothing
is read from them again. A crash closes them.

Constants say what the callers do: `TempDir` gives each updater its temporary
directory, `OtherDevice` the directories not on the destination's file system,
`Checked` the updaters that pass a `sha256_url`, and `Exclusive` whether
callers keep calls in one directory apart. `installer` and `warrant` are
history variables: who put the file at the destination, and the document whose
hash that updater had fetched.

### RulesetRefresh

The check compares two clocks' worth of facts: the file's modification time,
which is when it was written here, and the document's, which is when it was
changed on the server. `Fetch`, `WriteTemp`, `GiveUp` and the move are what an
update does to the first, `Publish` changes the second. `Rename` keeps the time
of the temporary file. From another device the file is copied: `CopyBegin`
truncates it, each `CopyBlock` writes to it and gives it the time of that
moment, and `CopyEnd` leaves it as far as the copy got, whole or not. `GiveUp` is
a failure before the file is touched. `Stat` reads
the file's time and sends the request; `AnswerNotModified` is a 304 from a
server that compares by itself, `AnswerDated` the comparison with
`Last-Modified`, `AnswerUndated` a 200 without it. `mktime` (`ruleset.c:332`)
is given UTC: what it returns is shifted by the same amount on both sides of
the comparison, but it also corrects the struct that `strftime` then prints, so
that with daylight saving in force `If-Modified-Since` says an hour too much
(`Summer`).

### RulesetStore

Any number of threads load, unload and clean. The struct is written field by
field as in `ruleset.c:225-235` and `275-279`, `realloc` may move the block,
and `get_rulesets` copies the struct. Touching a freed block, a slot outside
the block or a freed pattern is undefined behaviour: it is recorded in
`undefined`, and the model stops (hence `CHECK_DEADLOCK FALSE`). Callers are
taken to keep loads and unloads apart from each other: two of them at once
race on every field, and nothing can be said. Cleaning may overlap anything.
A document is a sequence of providers, each "enabled", "skipped" (by name or
`completeProvider`) or "invalid". A provider that fails, or whose block cannot be
had, may have some of its patterns compiled by then, and no path frees these
(`ruleset.c:131-207`): `leaked` records of which providers patterns were lost and
in which call, not how many. A block of rulesets that is freed with patterns in
it would be recorded there too.

`RulesetList` is a list that a load makes longer by the rulesets of its document,
one at a time, in their order and none left out, and that an unload empties; a
load that returns success has added the whole of a sound document, one that
fails keeps what it has added. What the list owes a load, the rulesets it has
still to add, is in `pending`, which holds at most one load. `Used` is what a
document makes of itself in the loop of `load_ruleset`: its enabled providers, in
their order. The mapping reads the list out of the block that
is current at each step: out of the new one between `realloc` and the
assignment of `items`, and as empty from the moment `unalix_unload_rulesets` has
freed the patterns. `StoresList` holds at every step, not only between calls,
and only what overlapping readers see is left to `Sharing`.

### CleanUrl

A text (path, query, fragment) is a sequence of words of `Vocabulary`, among them
`&`, `=`, `?` and `#`, the only characters that the compiled rules, `query_parse` and the parser
of these parts tell apart. A
rule is the word that names the field; `Named` and `MatchAt` say what the
extended pattern `(?:^|&|\?)name(?:=[^&]*)?` (`ruleset.c:40-41`) matches, and
`StripField` is `regex_strip`. Patterns on the whole URL (url_pattern,
exceptions) are words that occur in it; a redirection is a word whose field
holds the quoted text of a URL, which the constant function `Quoted` gives.

| action | code |
|---|---|
| `Call`, `CallAgain` | a call, and a call on what the first one returned, as `unalix_unshort_url` makes it |
| `Refuse`, `Start` | `clean_url.c:48-64`: arguments, empty store, `uri_parse` |
| `SkipRuleset` | `71-87`: other URLs, exceptions |
| `Redirect` | `89-132`: the first capture becomes the source of the call inside; what that call returns is returned |
| `StripRuleset` | `134-198`: the five loops |
| `Rebuild` | `202-291`: `query_parse` and the query put together again |

Stripping works on `uri`, matching always on `source`, as in the code. The
reference definition in `FieldsAsPromised` works field by field and takes the
rules of all rulesets as one set (`Survivors`). Two things in it are not what the
name of a rule promises. A name behind a `?` goes as well as one at the start of
a field, with the rest of the field if a `=` follows it: of the query
`next=p?utm=1` the field `next=p` stays (`Unquestioned`). And of a name that only
begins like a tracking one the beginning goes: a name is a sequence of words, the
pattern ends with the name and not with the field, and the rest of the name is
joined to what stands before it. What is joined may be another tracking name,
which a later rule takes and an earlier one does not, so a part in which this
happens (`Blurred`) is described only when it has one tracking name, never beside
itself (`Lonely`). `parse_uri` here is the end of the
parser: a URL with a fragment and no query gets a path that takes the fragment
in (`uri.c:327`), so a rule takes nothing out of such a fragment for good: the
path keeps a copy, which the next parse brings back. `Stable` leaves that case out.
A URL whose only `?` is in its fragment is refused, because the size of its query
wraps (`uri.c:305`); it may be one that a first call returned.

### HttpReceive

A response is a line of units (status line, header lines, the two halves of
the blank line, body); data are positions, so that a unit lost, doubled or out
of place shows. `RecvHead` is one turn of the loop of `http_request_send` with
`find_crlfcrlf`, which looks at the whole buffer: bytes left on the stack may
complete the blank line (`stale`). `HeadEnds` is the peer's closing or the
timeout, `ParseHead`, `ParseFailed` and `ParseUndefined` the parser (the last
when `strstr` finds nothing and the result is used), `ReadBegin`, `WriteFirst`,
`RecvBody` and `BodyEnds` the loop of `http_response_read`. On TLS everything
but a protocol violation ends a body with success; on plain HTTP only the
peer's closing does.

### HttpHead

Which header lines a parser accepts is a constant of `HttpReceive`; here they are
texts. A head is a sequence of tokens (see `Uri` below) up to the blank line, since
every search of `parse_http_response` is one over all that follows. `StatusRead` is
the status line with the table of named codes (`http.c:648-700`), `WithField` one
turn of the loop over the lines (`704-759`), which stores a header before it looks
at the next line, `parse_http_response` the two together, `LocationOf` what
`http_get_redirect` takes from the result (`309-329`, `1003-1007`). The reference
is section 3 of RFC 7230. `Irregular` and `Uncommon` list what the code takes in
another way, each disjunct with its line and each one needed; a name is found
only as it is spelled. The module has operators only; its heads are the answers
of `UrlRound`.

### HttpContext

`table` is the descriptor table of the process; `socket` and `fopen` take the
lowest free number. Each caller is a thread in one of three kinds of call: an
update with or without a hash (two requests on one context, freed after each
and by the wrapper), or a call with one request. `connection_free` closes by
number: when the number is not the call's own socket the step records the
caller in `harm` and the model stops, because anything may follow (hence
`CHECK_DEADLOCK FALSE`). `held` and `rival` are history: whether the call had a
socket and closed it, and whether somebody else has opened something since.

### Uri and UrlRound

A text is a sequence of tokens: the characters the code compares with, and words
for runs of letters or digits that it treats alike. `strstr` from a place on is
`Find`. `Places` is every search of `parse_uri`, `CodeOf` its early returns in
their order, `PartsAt` the struct it fills; `uri_stringify` and `MemSize` are
the text and the room made for it, which the code computes apart from each
other. `Unquoted` is `rfc3986_unquote_safe`, whose list of characters to be kept
quoted is compared with the `%` itself and so keeps none.

`UrlRound` follows one URL through the rounds of `unalix_unshort_url`:

| action | code |
|---|---|
| `Call` | an application's URL (`unshort_url.c:7-31`) |
| `Capture` | a quoted link a redirection rule captured: unquoted and, if need be, given a scheme (`clean_url.c:89-110`) |
| `Clean` | `uri_parse` and `uri_stringify` in `unalix_clean_url`, with the `=` that the rebuilt query of one field gets |
| `SetUrl` | `http_request_set_url` with the Host header (`http.c:427-460`) |
| `Send` | `http_request_stringify` (`http.c:354-413`) |
| `Receive` | `parse_http_response` of the head of an answer (`http.c:617-774`) |
| `Redirect` | `http_get_redirect` with `httpnormpath` (`http.c:1003-1076`, `utils.c:179-236`), and the count of redirections |
| `Answered` | an answer that leads nowhere |

The reference is RFC 3986, which `uri.c` cites before each part: `Split` and
`Reading` read a URL by its appendix B, `Resolved` a Location by section 5.2,
with the whole `Authority` of the page it is on.
Where the code departs from it is named, not left out: `Misplaced` lists the
texts it takes apart in another way, `Strays` the Locations, and `LosesAuthority`
the pages from which a Location without a scheme leads elsewhere because
`http_get_redirect` puts the Host header in the place of the authority: on
`http://a@host/` the Location `x` leads to `http://host/x`. Each disjunct has the
line that causes it. Without any one of them `ReadsAsRFC` or `LeadsWhereItSays`
fails, except for the dot segments of a Location with a scheme, of which
`Resolved` says nothing.

`Uri`, `Redirected` and the buffers were compared with the compiled `uri.c`,
`utils.c` and `http_get_redirect`, their limits scaled as in the
configuration, on 20 885 texts and Locations; they agree on all.

### UnshortUrl

The heap as a map from blocks to URLs or `Freed`; `url`, `location` and
`target` are pointers. Cleaning is the constant function `Cleaned`, the web
answers a redirection, a page or an error at will, and other threads load and
unload rulesets in between (`Reload`). A step on a block that is not allocated
sets `undefined`. The caller may be the binding for Java, which starts with a
NULL target, makes a Java string of a result and frees it, and throws away
everything else (`ReturnToJava`, `unalix_jni.c:208-264`): a target left by an
error in a later round is never freed, which `Ownership` states.

## 3. What the runs check

| run | instance | checked |
|---|---|---|
| `update_private` | two updaters with their own directories on one device, both checked; 3 documents of 2 blocks, one not loadable; 4 inodes | `AtomicInstall` (refinement of `InstalledRuleset`) |
| `update_across` | as above, one updater unchecked and one on another device; 2 documents, 5 inodes | `IInv` (with the types), `DestIntact`, `DestVouched` |
| `update_returns` | two updaters in one directory on another device, no discipline; 1 document of 1 block | `UpdateReturns` under fairness |
| `update_rename_fails` | one updater | `SuccessInstalls`, violated |
| `ruleset_refresh` | 3 documents, a clock from 0 to 4, daylight saving of 1; moves by renaming and by copying, cut anywhere | `IInv` (with the types), `NotModifiedMeans`, `DatedMeans` |
| `ruleset_store` | 2 threads, 3 addresses, documents of up to 3 providers, `MaxItems` 4; every failing provider with and without patterns compiled | `IInv` (with the types), `Sharing`, `StoreAtRest`, `StoresList` (refinement of `RulesetList`) |
| `clean_url` | 2 rulesets; every query of up to 6 words and separators over one tracked and one other name, and of up to 5 with `?` among them, with the strip options; every query of up to 3 over the other names and `?`, with redirections to URLs that redirect, lack a scheme or do not parse, 3 paths, 4 fragments and any two options | `IInv` (with the types), `FieldsAsPromised`, `RedirectionsFollowed`, `RebuiltFits`, `Stable` |
| `url_round` | every URL `http://host` with up to 5 of the tokens `/ ? # @ : a 8` behind it; 6 user informations x 10 hosts x 8 ports x 8 ends, and more with brackets, a second `@` and odd schemes; quoted links; 11 pages, some with user information, a port, an address for a host or another scheme, with every Location of up to 4 of `/ . ? # a host`, two of them of up to 5; one page answered with every head of a status line of some 70, well formed and not, and a header line, with a redirection and every line of up to 5 of `Location - : space tab .`, and with two responses of any three of 8 lines; 289 555 states | `IInv` (with the types), `ReadsAsRFC`, `Kept`, `AsksForLink`, `BuffersHold`, `LeadsWhereItSays`, `AnswerUnderstood` |
| `url_round_keeps` | the same with up to 3 tokens | `PartsKept`, violated |
| `http_receive` | responses with 0 to 2 header lines, one of them refused by the parser in some; body of up to 4 units, pieces of up to 3, a buffer of 6 | `IInv` (with the types), `BodyDelivered`, `HeadersComplete`, `ParserDefined`, `HeadFits`, `ReceiveReturns` |
| `http_context` | 2 callers, descriptors 0 to 2, one of them the application's at the start | `IInv` (with the types), `HarmExplained`, `EngineOnOwnSocket`, `SocketsReleased`, `RequestsApart` |
| `unshort_url` | 3 URLs, 4 blocks, 3 redirections, called from C and from Java | `IInv` (with the types), `MemorySafe`, `Ownership`, `ResultIsAnswered`, `UnshortReturns` |

**Bounds.** Two updaters are enough for every interference of the code, which
acts on one other call's files at a time; two blocks make a torn download
differ from a whole and from an empty one; two loadable documents let one
replace another, the third fails the trial load. There are as many inodes as
paths and open streams can hold at once, so `fopen` never waits for one.
`MaxItems` (a guard of `LoadBegin`) bounds the store; three addresses allow
`realloc` to move with one block to spare. `MaxRedirects` is 20 in the code
and 3 here; nothing in the loop depends on its value.

In `clean_url` six words and separators are the least with three fields that
have a value or repeat; words have one character, the worst case for
`RebuiltFits`. Five with `?` are a tracked field with a value behind the `?` of
another one. A word that a rule names may stand right before another one, as
the beginning of a longer name; words after it never stand side by side, which
would be one longer word (`WellSpaced`). The model stops after two calls
(`CHECK_DEADLOCK FALSE`). In `http_receive` the buffer of 6 holds the
longest head of 5 but not that and a whole piece, so both answers of the limit
occur, and a body of 4 takes part in the last piece of the head and in two
more. Three descriptors let a number be taken by another caller, a file or the
application between two closes; a fourth adds nothing the code looks at.

In `ruleset_refresh` five times order a fetch, a change, a write, a check and
the shift in every way, three documents allow a change in the middle of each of
two updates.

In `url_round` five tokens behind the host (`MaxTail`) are enough for any three
delimiters with something between them and for one that occurs twice. The limits
of the code are scaled so that the texts reach both sides of each: host names
of 4 to 9 characters (`MinHostname`, `MaxHostname`), labels of 5 (`MaxLabel`),
addresses of 2 to 3, ports up to 500 (`MaxPort`) and an int of 10 000 values
(`IntSpan`), of which the port `big` is 8 more, as 4294967304 is 8 more than
2^32. One redirection is followed (`MaxRedirects`), a second one meets the limit;
the text of a round does not depend on how many there were. The model stops
when the call returns (`CHECK_DEADLOCK FALSE`). `url_round_keeps` needs three
tokens for its counterexample.

The same five tokens in a header line are a name, the separator and something
on both sides, or two separators; three lines are the least with one that is
neither first nor last, and let two headers of one name stand around another.
The heads are varied on one page, because what is read of a head does not
depend on the request; the other pages vary the Location.

**Symmetry.** Inodes, loadable documents, threads and addresses are
interchangeable and only used in runs without liveness properties.

**Fairness.** `RulesetUpdate!Fairness` is weak fairness of the steps of a call
in progress. Sockets have an 8 second timeout for each operation
(`connection.c:33-51`) and file operations return, so a call that has begun
takes its next step. It asks nothing of the server, of new calls or of
crashes. Documents are finite: a server that sends for ever would keep the
loop of `http_response_read` going for ever, and the property does not cover
it. `UnshortUrl!FairSpec` assumes the same of the steps of one call, and
nothing of `Reload`. `HttpReceive!FairSpec` is weak fairness of the receiving
side: a `recv` returns data, the end of the stream or, after 8 seconds, the
timeout. A response is finite there too.

**Mutants.** Each property of a passing run has a faulty variant of one action
(sections "Faulty variants" in the modules) that makes TLC find it violated;
nothing in the specifications refers to them.

### Findings

* `update_rename_fails`: `move_file` returns -1 when `rename` fails with
  anything but `EXDEV` (`utils.c:436`); the caller takes it for success
  (`ruleset.c:600`). The comment of `move_file` promises the move.
* `url_round_keeps`: without a query the path is taken to the end of the text,
  fragment and all (`uri.c:327`), so `http://host/p#f` is printed as
  `http://host/p#f#f`, the request asks for `/p#f`, and every round doubles the
  fragment once more. `uri.c:322` cites the section of RFC 3986 by which a path
  ends at `?` or `#`.

Worth knowing, where no document of the repository says otherwise: the match of
the first field takes no delimiter with it (`ruleset.c:40`), so `?utm=1&k=2` is
returned as `?=&k=2` unless `strip_empty` is set, and of a name that only begins
like a tracking one the rest is left; of `?next=p?utm=1` only `?next=p` is left,
because the pattern takes a `?` anywhere for the start of a name;
`FieldsAsPromised` describes all three. With two
updates in one temporary directory the digest is compared on one file and
another is moved (`ruleset.c:580-604`): `DestVouched` holds, and is proved,
only for callers that keep them apart (`Exclusive`). `Misplaced`, `Strays`
and `LosesAuthority` are the URLs and Locations that are not read as RFC 3986
says, `BuffersHold` names the two texts whose NUL does not fit and the byte that
`..` writes before its buffer. "Not modified" (`errors.h:36`) can be wrong about a document that
the server changed while the last one was being fetched and written, or within
the hour that daylight saving adds, and about a file that a copy from another
device has not finished, or never did: it is torn, and has the time of the last
write. `NotModifiedMeans` says that it is never wrong about any other. A copy whose destination cannot be opened leaves a
stream open, and a failed load the patterns of a provider allocated; `Locals` and
`StoreAtRest` say that nothing else is left. `http_context` reaches
states where a close hits another's descriptor. They are the ones
`HarmExplained` names, a context that never got a socket (its `fd` is still 0)
and the second free of a context whose number has been taken since.

One test says otherwise than the code: `test/test_clean_url.c:35` expects
`RULESETS_EMPTY` of a call without a source before anything is loaded, but
`unalix_clean_url` looks at its arguments first and returns `ARG_INVALID`
(`clean_url.c:48-50`), as `StartCode` does.

## 4. What is proved

`RulesetUpdateProofs`, for every number of updaters, directories, documents,
blocks and inodes (the only assumption on the constants is
`UpdateAssumption`, that they have the right types and the sentinels are
distinct):

| theorem | says |
|---|---|
| `TypeCorrect` | `Spec => [](TypeOK /\ Locals)`: types, and what each stage of a call has open, and a call that has returned: at most the source of a copy between devices |
| `Invariance` | `Exclusive => (Spec => []IInv)` |
| `RenamedIsIntact` | `Exclusive => (Spec => []DestIntact)` |
| `RenamedIsVouched` | `Exclusive => (Spec => []DestVouched)` |
| `UpdateIsAtomic` | `Exclusive /\ OtherDevice = {} => (Spec => AtomicInstall)`: it implements `InstalledRuleset` |

**The argument.** `DestIntact` alone is not inductive: a call may write to the
destination's inode through a stream it opened under another name, and may
move a file that changed after it was checked. `IInv` adds what excludes both:

* `NoAlias`: no inode has two names;
* `Separate`: calls in progress use different directories (from `Exclusive`);
* `OwnStreams`: a download is written to the file its own directory names, a
  copy to no temporary file, and to the destination only while that is a copy;
* `Verified`: what the hash check and the trial load established is still true
  of the temporary file at every later stage;
* `Locals`: which variables a call has at which stage, so that a checked
  updater cannot reach the move without a hash.

The proof that a step keeps `IInv` has one case per action; lemmas collect what
`Create`, `RemoveTemp`, `Return`, `Goto` and a write do. The refinement proof
shows that `Move` is `Install` of the moved document, and that every other
step leaves what a reader finds unchanged, because no stream open for writing
is on the destination's inode (`WritersOffDest`).

`HttpReceiveProofs`, for every set of header sections and every size of body,
piece and buffer (`ReceiveAssumption`: header lines are sequences of strings,
the sizes are natural numbers, a piece has room for something):

| theorem | says |
|---|---|
| `Accounted` | `Spec => []IInv` |
| `BodyIsDelivered`, `HeadersAreComplete`, `ParserIsDefined`, `ShortHeadFits` | `Spec => []` of `BodyDelivered`, `HeadersComplete`, `ParserDefined`, `HeadFits` |

`BodyDelivered` speaks of the end only; `IInv` adds what holds on the way:
until the parser has run the buffer is as long as what has arrived
(`Collecting`), and from then on the body, or the file, is the piece of the
response from the blank line to there, but for the write of the first bytes
that a read to a file still owes (`Receiving`). The lemma `PiecesMeet`, that two
adjoining pieces are one, is where the order of the writes matters.

`RulesetRefreshProofs`, for any number of documents, times and shift
(`RefreshAssumption`: they are natural numbers):

| theorem | says |
|---|---|
| `DatesAgree` | `Spec => []IInv` |
| `NotModifiedIsBounded` | `Spec => NotModifiedMeans` |
| `DatedUpdateExists` | `Spec => DatedMeans` |

`IInv` orders the dates kept of a file (when its document was fetched, when it
was written) with the server's: a document is no older than its fetch, and what
replaced it was changed no earlier (`Dated`). A file that holds less than a
document was copied.

`UnshortUrlProofs`, for every web, set of URLs and cleaning, limit of redirections
and number of blocks (`UnshortAssumption`):

| theorem | says |
|---|---|
| `StringsAccounted` | `Spec => []IInv` |
| `StringsAreSafe`, `StringsAreOwned`, `ResultAnswered` | `Spec => []` of `MemorySafe`, `Ownership`, `ResultIsAnswered` |

`Ownership` speaks of the end of a call and `MemorySafe` of what has already
happened. `IInv` adds which strings there are on the way: at the start of a
round at most the last target and the location, which are two, and from the
cleaning to the answer only the target, which is a cleaned URL (`Strings`); and
how the requests are counted (`Rounds`), from which the limit follows.

`RulesetStoreProofs`, for every number of threads, providers, documents and
blocks, and any bound `MaxItems` (`StoreAssumption`: the sentinels are none of
the values they stand apart from):

| theorem | says |
|---|---|
| `StoreAsExpected` | `Spec => []IInv` |
| `OnlyOverlappedReads`, `StoreSound` | `Spec => []` of `Sharing`, `StoreAtRest` |
| `StoreIsAList` | `Spec => StoresList`: the store implements `RulesetList` |

`StoreAtRest` speaks of the store between loads and unloads. `IInv` says what it is
during one (`StoreAt`): at "publish" the new block has one slot more than `size`
and is the only one; at "append" the struct has it, with its last slot junk;
at "reset" the patterns are dead and the counts still stand. `Whole` is the
store between, which `Begin` finds because callers keep writers apart
(`OneWriter`). A cleaning call that nothing has overlapped sees exactly this
store (`SeesStore`), from which `Sharing` follows. In the refinement
`Grow` and `Publish` are where the mapping moves from one block to the other, which
needs that the first `offset` slots of both agree; the list becomes longer with
`AppendRuleset` alone. What remains to be added is `Used` of the providers still
to be read; that this recursive function is defined on every document is the
lemma `UsedUnfolds`.

`HttpContextProofs`, for every number of callers and descriptors
(`ContextAssumption`):

| theorem | says |
|---|---|
| `ContextsAccounted` | `Spec => []IInv` |
| `HarmIsExplained`, `EngineIsOnOwnSocket`, `SocketsAreReleased`, `RequestsAreApart` | `Spec => []` of `HarmExplained`, `EngineOnOwnSocket`, `SocketsReleased`, `RequestsApart` |

The properties speak of descriptor numbers, which change hands. `IInv` says,
while no call has done harm: the number of an open context stands for its
socket, and there is no other socket of that call (`SocketKnown`); which stage
has a socket, an engine and a file (`StageOf`); the number of a closed socket
belongs to nobody else until somebody opens something (`ClosedAlone`), which is
what makes the second free of `ruleset_update` harmless when nobody does; and
nothing was collected for a request that is not yet made (`Fresh`).

`CleanUrlProofs`, for any sequence of rulesets, calls, quoted URLs and vocabulary
(`CleanUrlAssumption`: they have their types, and the delimiters are words):

| theorem | says |
|---|---|
| `CleanUrlInvariant` | `Spec => []IInv` |
| `FollowsRedirections` | `Spec => []RedirectionsFollowed` |
| `PathIsAsPromised` | `Spec => []PathAsPromised`: from the path exactly the words go that a ruleset for the URL names, in whatever order rules and rulesets stand; scheme and host stay |
| `UntrackedIsKept` | `Spec => []UntrackedKept`: a query or fragment in which no tracking name stands is only rebuilt, whatever other rules there are |
| `RebuiltQueryFits` | `Spec => []RebuiltFits` |

`RedirectionsFollowed` speaks of the URL a call returned. `IInv` adds what the loop
over the rulesets knows: none of those it has passed redirects the URL at hand
(`Unredirected`), and that URL is the caller's unless a ruleset redirects the
caller's (`CameFrom`). That a part stays absent or not empty through the loops over the
rules (`TypeOK`) is by induction over the rules. `StrippedSoFar` says of the URL in the
loop what `PathAsPromised` and `UntrackedKept` say of the one returned, for the
rulesets passed so far (`Passed`). Two lemmas carry the step: dropping one set of
words and then another is dropping both (`DroppingTwice`), so the loops over the
raw rules of all the rulesets together take away the union of their words
(`StripAllRawIs`); and a rule whose name does not stand in a part leaves it as it
is (`StripFieldUntouched`). Both properties are conjuncts of `IInv`, which is how
the run checks them. `RebuiltQueryFits` is by
induction over the fields: the text of those kept among the first k ends no
later than the `&` behind the k-th, plus one `=` for each (`RebuiltLength`), and
a query of n characters has at most n + 1 fields, so the text has at most
2n + 1 characters where the buffer has room for 3n.

`UrlRoundProofs`, for any tokens and vocabulary, any limits, any URLs, links and answers
(`UriAssumption`: the characters the code compares with are tokens of one
character and no words, lowering a word twice is lowering it once, a number of n
digits is below 10^n, no two characters are quoted alike, and an address has no
delimiter but `:`; `RoundAssumption`: URLs and links are texts, and a link that is
quoted has no NUL in it):

| theorem | says |
|---|---|
| `InductiveInvariant` | `Spec => []IInv` |
| `TypeCorrect`, `NoOverrun`, `RedirectsLead` | `Spec => []` of `TypeOK`, `BuffersHold`, `LeadsWhereItSays` |
| `ReadingIsRFC` | `Spec => []ReadsAsRFC` |
| `RequestIsKept` | `Spec => []Kept` |
| `RequestAsksForLink` | `Spec => []AsksForLink` |

Each property speaks of one moment of a round. `IInv` adds what is true at the
others: what is printed, requested and redirected is a URL that the parser took,
so it has a scheme and a host and no `?` in its path (`AsParsed`); it is what was
read from the link that was meant, and the request what was read from its
printed form (`Followed`); and the function has no result before it returns
(`Unfinished`). The work is in the lemmas about the operators:

* *Buffers.* `PrintedFits`: `uri_stringify` prints as many characters as
  `MemSize` sums up, the digits of the port among them (`DigitsAre`);
  `NormPathFits`: what `httpnormpath` makes of a path is at most one character
  longer, because every component it puts in was taken out with a `/`.
* *Locations.* `RedirectResolves`: the components that `httpnormpath` walks over
  are the segments of the RFC when no segment is empty (`ComponentsInPath`), dots
  come first or not at all, and `MergedAtPage` joins a Location to the path of
  its page.
* *Reading.* `ReadAlike`: `parse_uri` looks for each mark from the host to the end
  of the text, the RFC only in the part it belongs to. For every search there is
  a lemma that both find the same place when the text is none of `Departs`
  (`UserPlace`, `TailFound`, `PortPlaces`), then one for each part.
* *Printing and reading again.* `RoundTrip`: the parts that were printed stand one
  behind the other (`Layout`, `PrintedPlaces`), and what was parsed has no mark in
  the parts before the one it ends (`ParsedPlain`), so that each search finds the
  mark that was printed (`PrintedUser`, `PrintedHost`, `PrintedTail`). The two
  exceptions of `Kept` came out of this proof: an `@` later in the text where
  an empty user information was dropped moves the host (`UserAppears`), which is
  why `Kept` has `HidesUser`.
* *Unquoting.* `Unquotes`: what was quoted, with every `%` among it, is unquoted to
  what it was, turn by turn of the loop.

**Induction over data.** The theorems of the library that take an operator as
a parameter cannot be used, so `CleanUrlProofs` and `UrlRoundProofs` begin with
induction in terms of sets: a set of naturals that is not empty has a least
element (`Least`), a set that has 0 and with each number up to n the next one
has them all (`UpToInduction`). A fold of the community modules is a function
chosen by its recursive equation; `FoldRecursion` shows that there is one when
the step maps a set to itself, and `FoldPartials` that the values on the first k
places are related by the step. A lemma `...Fold` applies these to each fold of
the model.

**Only model-checked**: `UpdateReturns`, `UnshortReturns`, `ReceiveReturns`
(liveness is out of the prover's reach); `FieldsAsPromised` and `Stable` of
`CleanUrl`, which compare what several nested folds compute on a text with what
other folds compute on its fields, and which hold where no blurred name makes the order of the rules tell; and `AnswerUnderstood` of `UrlRound`, which
compares the parser of a head, a fold over its lines that keeps its place in the text,
with a reading of each line by itself.

## 5. Not modelled, and the plan

Nearly all of the implementation lines of the repository are not the library's:
the vendored PCRE2, BearSSL and jansson, and a generated table of certificates
(`ssl.h`). They are used through a few calls, which the models take as given, and
are left out for good. Of the 5 151 lines of `src/src/*.c` the map covers a good
half.

Of the library itself these are left out:

* the dns prototype (`dns.c`), which the build does not compile, the table of
  messages (`errors.c`) and the tests;
* the JNI functions other than `unshortUrl`: they convert arguments;
* regular expressions other than those the library builds around a name, and
  PCRE2's errors;
* failed allocations, except the one that a wrapped size makes certain
  (`Uri!QueryEnd`), branches for Windows, and numbers beyond what `strtol` reads;
* the address lookup and BearSSL's handshake (`address.c`, `connection.c`,
  `callbacks.c`), reduced to success or failure.

Next:

1. `FieldsAsPromised` for texts in which no name begins like a tracking one.
2. `ReadsResponse`: that the lines `parse_http_response` stops at are those of the
   head.
