------------------------------- MODULE CleanUrl -------------------------------
(***************************************************************************)
(* unalix_clean_url (src/src/clean_url.c) with the query parser of         *)
(* src/src/query.c and regex_strip of src/src/regex.c: one caller that     *)
(* cleans a URL, and then the URL it got.                                  *)
(*                                                                         *)
(* The parts of a URL are texts: sequences of words and of the three       *)
(* characters "&", "=" and "?" that the rules and the query parser tell    *)
(* apart. A rule is the word that names the field.  A pattern on the whole *)
(* URL is a word that must occur in it, or AnyUrl; a redirection is a word    *)
(* whose field must hold the quoted text of a URL (a word in the domain of *)
(* Quoted).                                                                *)
(***************************************************************************)
EXTENDS Integers, FiniteSets, SequencesExt

CONSTANTS
    Rulesets,   \* the sequence of loaded rulesets
    Calls,      \* calls a caller may make: records of source and options
    Quoted,     \* the URL that a word stands for when it is unquoted
    AnyUrl,      \* the pattern that matches every URL
    Vocabulary, \* the words that URLs, rules and patterns are made of
    Null        \* an absent part, and a NULL pointer

AND      == "&"
EQUAL    == "="
QUESTION == "?"
HASHTAG  == "#"

Flags == {"ignore_referral_marketing", "ignore_rules", "ignore_exceptions",
          "ignore_raw_rules", "ignore_redirections",
          "strip_empty", "strip_duplicates"}

Texts == Seq(Vocabulary)

\* A part of a URL is absent or not empty
PartType == (Texts \ {<<>>}) \cup {Null}

UrlType ==
    [scheme : {"http", "missing", "empty"}, site : Vocabulary,
     path : PartType, query : PartType, fragment : PartType]

RulesetType ==
    [url_pattern : Vocabulary \cup {AnyUrl}, exceptions : Seq(Vocabulary \cup {AnyUrl}),
     rules : Texts, referral_marketing : Texts, raw_rules : Texts, redirections : Texts]

CallType == [source : UrlType \cup {Null}, options : SUBSET Flags]

ASSUME CleanUrlAssumption ==
    /\ {AND, EQUAL, QUESTION, HASHTAG} \subseteq Vocabulary
    /\ Null \notin Texts /\ Null \notin UrlType
    /\ Rulesets \in Seq(RulesetType)
    /\ DOMAIN Quoted \subseteq Vocabulary /\ \A word \in DOMAIN Quoted : Quoted[word] \in UrlType
    /\ Calls \subseteq CallType

VARIABLES
    pc,       \* "idle", "start", "scan", "done"
    given,    \* the call
    source,   \* source_url of the innermost call of unalix_clean_url
    uri,      \* the parsed URL that is being stripped
    index,    \* the ruleset the loop is at
    code,     \* what the call returned
    target,   \* *target_url
    before    \* of the first call, the URL that was cleaned and the result

vars == <<pc, given, source, uri, index, code, target, before>>

On(flag) == flag \in given.options

-----------------------------------------------------------------------------
(* Texts and patterns *)

Text(part) == IF part = Null THEN <<>> ELSE part

\* Faulty variant: a part of which nothing is left stays an empty string
OrEmpty(text) == text

\* A part of which nothing is left is freed and set to NULL
OrNull(text) == IF text = <<>> THEN Null ELSE text

Without(text, positions) ==
    FoldLeftDomain(LAMBDA kept, i :
                     IF i \in positions THEN kept ELSE Append(kept, text[i]),
                   <<>>, text)

\* A text without the words of a set
Dropping(words, text) == Without(text, {k \in DOMAIN text : text[k] \in words})

\* Faulty variant: the pattern is not anchored at the start of a field
NamedAnywhere(name, text) == {k \in DOMAIN text : text[k] = name}

\* Where the extended pattern (?:^|&|\?)name(?:=[^&]*)? finds the name
Named(name, text) ==
    {k \in DOMAIN text : /\ text[k] = name
                         /\ k = 1 \/ text[k - 1] \in {AND, QUESTION}}

\* What it matches there: the delimiter, the name and what follows an "="
MatchAt(k, text) ==
    {i \in {k - 1} : i > 0} \cup {k} \cup
    {j \in (k + 1)..Len(text) : /\ text[k + 1] = EQUAL
                                /\ AND \notin {text[i] : i \in (k + 1)..j}}

\* regex_strip with a rule: every match goes
StripField(name, part) ==
    LET text == Text(part)
    IN  OrNull(Without(text, UNION {MatchAt(k, text) : k \in Named(name, text)}))

\* regex_strip with a raw rule, which is compiled as it is written
StripRaw(word, part) == OrNull(Dropping({word}, Text(part)))

\* The loops over the rules; once a part is NULL they end, and it stays NULL
StripAll(names, part) ==
    FoldLeft(LAMBDA rest, name : StripField(name, rest), part, names)

StripAllRaw(words, part) ==
    FoldLeft(LAMBDA rest, word : StripRaw(word, rest), part, words)

Words(url) ==
    {url.site} \cup ToSet(Text(url.path)) \cup ToSet(Text(url.query))
               \cup ToSet(Text(url.fragment))

\* regex_match on the whole URL
Matches(pattern, url) == pattern = AnyUrl \/ pattern \in Words(url)

Excepted(ruleset, url) ==
    /\ ~On("ignore_exceptions")
    /\ \E n \in DOMAIN ruleset.exceptions : Matches(ruleset.exceptions[n], url)

\* Where the group of a redirection captures a URL
Captures(name, url) ==
    LET text == Text(url.query)
    IN  {k \in 3..Len(text) : /\ text[k - 2] = name
                              /\ text[k - 1] = EQUAL
                              /\ text[k] \in DOMAIN Quoted}

Redirecting(ruleset, url) ==
    {n \in DOMAIN ruleset.redirections :
       Captures(ruleset.redirections[n], url) # {}}

-----------------------------------------------------------------------------
(* The query *)

ParseField(text) ==
    LET equals == {k \in DOMAIN text : text[k] = EQUAL} \cup {Len(text) + 1}
        sep    == CHOOSE k \in equals : \A j \in equals : k <= j
    IN  [key |-> SubSeq(text, 1, sep - 1), value |-> SubSeq(text, sep + 1, Len(text))]

\* The texts between two "&"
Split(text) ==
    LET cuts == FoldLeftDomain(LAMBDA c, i : IF text[i] = AND THEN Append(c, i) ELSE c,
                               <<0>>, text) \o <<Len(text) + 1>>
    IN  [n \in 1..(Len(cuts) - 1) |-> SubSeq(text, cuts[n] + 1, cuts[n + 1] - 1)]

\* The fields; an empty key or value is NULL
query_parse(text) ==
    LET fields == Split(text)
    IN  [n \in DOMAIN fields |-> ParseField(fields[n])]

KeepField(kept, field) ==
    IF \/ On("strip_empty") /\ (field.key = <<>> \/ field.value = <<>>)
       \/ On("strip_duplicates") /\ \E n \in DOMAIN kept : kept[n].key = field.key
    THEN kept
    ELSE Append(kept, field)

\* The text the loop appends up to a kept field: "&" from the second one on
AppendField(text, field) ==
    text \o (IF text = <<>> THEN <<>> ELSE <<AND>>)
         \o field.key \o <<EQUAL>> \o field.value

RebuiltText(query) ==
    FoldLeft(AppendField, <<>>, FoldLeft(KeepField, <<>>, query_parse(query)))

\* Faulty variant: room for the text and one "=" for each of its characters
CapacityDoubled(query) == 2 * Len(query)

\* The characters the buffer of the rebuilt query has room for, the NUL aside
Capacity(query) == 3 * Len(query)

-----------------------------------------------------------------------------
NoCall == [source |-> Null, options |-> {}]

Init ==
    /\ pc = "idle"
    /\ given = NoCall
    /\ source = Null /\ uri = Null /\ target = Null /\ before = Null
    /\ index = 0
    /\ code = "none"

Call ==
    /\ pc = "idle"
    /\ pc' = "start"
    /\ given' \in Calls
    /\ source' = given'.source
    /\ UNCHANGED <<uri, index, code, target, before>>

\* The URL that was returned is cleaned again with the same options, as
\* unalix_unshort_url does when the next answer leads to it
CallAgain ==
    /\ pc = "done" /\ code = "SUCCESS" /\ before = Null
    /\ pc' = "start"
    /\ given' = [given EXCEPT !.source = target]
    /\ source' = target
    /\ before' = [source |-> source, target |-> target]
    /\ UNCHANGED <<uri, index, code, target>>

\* The parts that the parser finds in the text of a URL, which has a "/" after
\* the host.  Without a query the path runs to the end of the text, over the
\* fragment; the fragment runs from the first "#"
parse_uri(url) ==
    IF url.query # Null THEN url
    ELSE LET text == Text(url.path) \o (IF url.fragment = Null THEN <<>>
                                        ELSE <<HASHTAG>> \o url.fragment)
             hash == SelectInSeq(text, LAMBDA w : w = HASHTAG)
         IN  [url EXCEPT !.path     = OrNull(text),
                         !.fragment = IF hash = 0 THEN Null
                                      ELSE OrNull(SubSeq(text, hash + 1, Len(text)))]

\* uri_parse, as far as the scheme decides, and a "?" that is found only behind
\* the "#": the size of that query wraps to one that no allocation can have
ParseCode(url) ==
    CASE url.scheme = "missing" -> "URI_SCHEME_MISSING"
      [] url.scheme = "empty"   -> "URI_SCHEME_EMPTY"
      [] url.scheme = "http" /\ url.query = Null
           /\ QUESTION \in ToSet(Text(url.fragment)) -> "MEMORY_ALLOCATE_FAILURE"
      [] OTHER                  -> "SUCCESS"

StartCode ==
    IF source = Null THEN "ARG_INVALID"
    ELSE IF Rulesets = <<>> THEN "RULESETS_EMPTY"
    ELSE ParseCode(source)

Refuse ==
    /\ pc = "start"
    /\ StartCode # "SUCCESS"
    /\ code' = StartCode
    /\ pc' = "done"
    /\ UNCHANGED <<given, source, uri, index, target, before>>

Start ==
    /\ pc = "start"
    /\ StartCode = "SUCCESS"
    /\ uri' = parse_uri(source)
    /\ index' = 1
    /\ pc' = "scan"
    /\ UNCHANGED <<given, source, code, target, before>>

Applies(ruleset, url) ==
    Matches(ruleset.url_pattern, url) /\ ~Excepted(ruleset, url)

AtRuleset == pc = "scan" /\ index <= Len(Rulesets)

MustRedirect(ruleset) ==
    ~On("ignore_redirections") /\ Redirecting(ruleset, source) # {}

(* Faulty variants *)

\* An exception of one ruleset ends the loop
SkipRulesetAndRest ==
    /\ AtRuleset
    /\ ~Applies(Rulesets[index], source)
    /\ index' = Len(Rulesets) + 1
    /\ UNCHANGED <<pc, given, source, uri, code, target, before>>

\* The target of a redirection is returned as it is
RedirectUncleaned ==
    /\ AtRuleset
    /\ LET ruleset == Rulesets[index]
       IN  /\ Applies(ruleset, source)
           /\ MustRedirect(ruleset)
           /\ \E word \in DOMAIN Quoted :
                /\ \E n \in Redirecting(ruleset, source) :
                     \E k \in Captures(ruleset.redirections[n], source) :
                       source.query[k] = word
                /\ target' = Quoted[word]
    /\ pc' = "done"
    /\ code' = "SUCCESS"
    /\ UNCHANGED <<given, source, uri, index, before>>

-----------------------------------------------------------------------------
\* A ruleset for other URLs, or one that the URL is an exception to
SkipRuleset ==
    /\ AtRuleset
    /\ ~Applies(Rulesets[index], source)
    /\ index' = index + 1
    /\ UNCHANGED <<pc, given, source, uri, code, target, before>>

\* prepend_scheme_if_needed
WithScheme(url) ==
    IF ParseCode(url) = "URI_SCHEME_MISSING" THEN [url EXCEPT !.scheme = "http"] ELSE url

\* What the first redirection that matches captures first
RedirectTarget(ruleset, url) ==
    LET n == CHOOSE n \in Redirecting(ruleset, url) :
               \A m \in Redirecting(ruleset, url) : n <= m
        all == Captures(ruleset.redirections[n], url)
        k == CHOOSE k \in all : \A j \in all : k <= j
    IN  WithScheme(Quoted[url.query[k]])

\* The target is cleaned by a call of the function by itself; the outer call
\* frees its copy and returns what that call returns
Redirect ==
    /\ AtRuleset
    /\ LET ruleset == Rulesets[index]
       IN  /\ Applies(ruleset, source)
           /\ MustRedirect(ruleset)
           /\ source' = RedirectTarget(ruleset, source)
    /\ uri' = Null
    /\ index' = 0
    /\ pc' = "start"
    /\ UNCHANGED <<given, code, target, before>>

\* The rules and the referral rules on a query or a fragment
StripFields(ruleset, part) ==
    LET ruled == IF On("ignore_rules") THEN part
                 ELSE StripAll(ruleset.rules, part)
    IN  IF On("ignore_referral_marketing") THEN ruled
        ELSE StripAll(ruleset.referral_marketing, ruled)

\* The five loops of a ruleset that applies
StripRuleset ==
    /\ AtRuleset
    /\ LET ruleset == Rulesets[index]
       IN  /\ Applies(ruleset, source)
           /\ ~MustRedirect(ruleset)
           /\ uri' = [uri EXCEPT
                !.query    = StripFields(ruleset, @),
                !.fragment = StripFields(ruleset, @),
                !.path     = IF On("ignore_raw_rules") THEN @
                             ELSE StripAllRaw(ruleset.raw_rules, @)]
    /\ index' = index + 1
    /\ UNCHANGED <<pc, given, source, code, target, before>>

\* The query is rebuilt from its fields and the URL is returned
Rebuild ==
    /\ pc = "scan"
    /\ index > Len(Rulesets)
    /\ target' = IF uri.query = Null THEN uri
                 ELSE [uri EXCEPT !.query = OrNull(RebuiltText(@))]
    /\ uri' = Null
    /\ index' = 0
    /\ code' = "SUCCESS"
    /\ pc' = "done"
    /\ UNCHANGED <<given, source, before>>

Next ==
    \/ Call
    \/ Refuse
    \/ Start
    \/ SkipRuleset
    \/ Redirect
    \/ StripRuleset
    \/ Rebuild
    \/ CallAgain

Spec == Init /\ [][Next]_vars

-----------------------------------------------------------------------------
(* Properties *)

\* Types. A part of a URL is absent or not empty at every point of the loops,
\* which is what uri_stringify and the tests for NULL rely on
TypeOK ==
    /\ pc \in {"idle", "start", "scan", "done"}
    /\ given \in CallType
    /\ index \in 0..(Len(Rulesets) + 1)
    /\ code \in {"none", "SUCCESS", "ARG_INVALID", "RULESETS_EMPTY",
                 "URI_SCHEME_MISSING", "URI_SCHEME_EMPTY", "MEMORY_ALLOCATE_FAILURE"}
    /\ {source, uri, target} \subseteq UrlType \cup {Null}
    /\ pc = "scan" <=> uri # Null

Returned == pc = "done" /\ code = "SUCCESS"

\* The rulesets that have a say on a URL
Applying(url) == {r \in ToSet(Rulesets) : Applies(r, url)}

\* The names that rulesets call tracking, and the words they take from a path
Names(rulesets) ==
    UNION {(IF On("ignore_rules") THEN {} ELSE ToSet(r.rules)) \cup
           (IF On("ignore_referral_marketing") THEN {} ELSE ToSet(r.referral_marketing))
             : r \in rulesets}

RawWords(rulesets) ==
    IF On("ignore_raw_rules") THEN {} ELSE UNION {ToSet(r.raw_rules) : r \in rulesets}

Tracking(url) == Names(Applying(url))

\* Somewhere a name stands, at the start of a field or behind a "?", that only
\* begins with a tracking one
Blurred(text, names) ==
    \E k \in 1..(Len(text) - 1) :
      /\ text[k] \in names
      /\ k > 1 => text[k - 1] \in {AND, QUESTION}
      /\ text[k + 1] \notin {AND, EQUAL, QUESTION}

\* One tracking name at most occurs, and never beside itself: what is joined
\* when the beginning of another name goes is no tracking name
Lonely(text, names) ==
    /\ Cardinality(names \cap ToSet(text)) <= 1
    /\ \A k \in 1..(Len(text) - 1) : text[k] \in names => text[k + 1] # text[k]

Clear(text, names) == Blurred(text, names) => Lonely(text, names)

\* A field without the tracking names behind a "?" in it: the "?" goes with such
\* a name, and with an "=" behind it also the rest of the field
Unquestioned(field, names) ==
    LET behind == {k \in 2..Len(field) : field[k - 1] = QUESTION /\ field[k] \in names}
        last   == {k \in behind : k < Len(field) /\ field[k + 1] = EQUAL}
    IN  Without(field, {k \in DOMAIN field :
                          {k, k + 1} \cap behind # {} \/ \E j \in last : j < k})

\* The texts kept so far with what is left of one more behind the last of them
Joined(kept, rest) ==
    IF kept = <<>> THEN <<rest>> ELSE [kept EXCEPT ![Len(kept)] = @ \o rest]

\* The texts between "&" that are left when the tracking ones among them are
\* taken out; of the first one its place stays unless nothing else is left.
\* Of a name that only begins with a tracking one that beginning goes, with
\* the "&" before it, and the rest is joined to what stands there
Survivors(part, names) ==
    LET fields == Split(Text(part))
        survive(kept, n) ==
          LET text == Unquestioned(fields[n], names)
              key  == ParseField(text).key
          IN  IF key = <<>> \/ key[1] \notin names THEN Append(kept, text)
              ELSE Joined(kept, IF Len(key) = 1 THEN <<>> ELSE Tail(text))
    IN  FoldLeftDomain(survive, <<>>, fields)

\* What the options leave of a sequence of fields
Chosen(fields) ==
    LET full == {n \in DOMAIN fields : On("strip_empty") =>
                   fields[n].key # <<>> /\ fields[n].value # <<>>}
        kept == {n \in full : On("strip_duplicates") =>
                   ~\E m \in full : m < n /\ fields[m].key = fields[n].key}
    IN  Without(fields, DOMAIN fields \ kept)

FieldsOf(part) == IF part = Null THEN <<>> ELSE query_parse(part)

\* From the path that the parser read exactly the words go that a ruleset for
\* the URL names, whatever the order of rules and rulesets, and scheme and host
\* stay (clean_url.c:187-198 in the loop from line 68)
PathAsPromised ==
    Returned =>
      /\ target.path =
           OrNull(Dropping(RawWords(Applying(source)), Text(parse_uri(source).path)))
      /\ target.scheme = source.scheme /\ target.site = source.site

\* A fragment in which no tracking name stands is returned as it was read, and
\* such a query as the rebuild alone leaves it: no rule of any ruleset reaches
\* a field it does not name (clean_url.c:134-273, regex.c:44-74)
UntrackedKept ==
    Returned =>
      LET read == parse_uri(source)
          Untracked(part) == Tracking(source) \cap ToSet(Text(part)) = {}
      IN  /\ Untracked(read.fragment) => target.fragment = read.fragment
          /\ Untracked(read.query) =>
               target.query = IF read.query = Null THEN Null
                              ELSE OrNull(RebuiltText(read.query))

\* What is returned is the URL at the end of the redirections without its
\* tracking fields and without the tracking names behind a "?" in the others
\* (of the query next=p?utm=1 the field next=p stays), whatever the order of
\* rules and rulesets; all else is there, in its place, unless it is empty or a
\* duplicate and the caller wanted those gone.  Where a name only begins with a
\* tracking one that beginning goes and the rest is joined to what stands
\* before it; of such a part this says something only if one tracking name is
\* in it and never beside itself, since otherwise the order of the rules
\* decides what is joined.  Of the fragment of a URL without a query the path
\* keeps a copy that no field rule reaches (clean_url.c:134-285 with
\* query.c:99-167, regex.c:44-74, ruleset.c:40-41 and uri.c:327)
FieldsAsPromised ==
    Returned =>
      LET names == Tracking(source)
          rest  == Survivors(source.query, names)
          read  == parse_uri(source)
      IN  /\ Clear(Text(source.query), names) =>
               FieldsOf(target.query) =
                 IF rest = << <<>> >> THEN <<>>
                 ELSE Chosen([n \in DOMAIN rest |-> ParseField(rest[n])])
          /\ Clear(Text(read.fragment), names) =>
               Split(Text(target.fragment)) = Survivors(read.fragment, names)

\* The URL that was cleaned in the end is one that no ruleset redirects, and
\* the caller's own unless one does: an exception or a match in one ruleset
\* takes nothing from the others (clean_url.c:68-132)
RedirectionsFollowed ==
    Returned =>
      /\ ~\E r \in Applying(source) : MustRedirect(r)
      /\ source # given.source =>
           \E r \in Applying(given.source) :
             ~On("ignore_redirections") /\ Redirecting(r, given.source) # {}

\* Stripping changed neither which rulesets match the URL nor which it is an
\* exception to
SameRulesets(url, cleaned) ==
    \A n \in DOMAIN Rulesets :
      Applies(Rulesets[n], url) <=> Applies(Rulesets[n], cleaned)

\* Cleaning a cleaned URL again changes nothing, so that the rounds of
\* unalix_unshort_url settle, unless a pass took the beginning off a name and
\* left another tracking one behind it, or left a fragment without a query,
\* which every pass doubles (clean_url.c:66-293, uri.c:327).  What else the
\* parser makes of the text is in UrlRound
Stable ==
    /\ pc = "done" /\ before # Null
    /\ SameRulesets(before.source, before.target)
    /\ before.target.fragment # Null => before.target.query # Null
    /\ \A part \in {before.source.query, before.source.fragment} :
         ~Blurred(Text(part), Tracking(before.source))
    =>
      code = "SUCCESS" /\ target = before.target

\* The rebuilt query, which gains an "=" for each field without one, fits the
\* buffer made for it even when every name is one character
\* (clean_url.c:225-273)
RebuiltFits ==
    pc = "scan" /\ uri.query # Null =>
      Len(RebuiltText(uri.query)) <= Capacity(uri.query)

-----------------------------------------------------------------------------
(* The inductive invariant of CleanUrlProofs *)

\* No ruleset before the one the loop is at redirects the URL
Unredirected ==
    pc = "scan" =>
      /\ source # Null /\ index >= 1
      /\ \A n \in 1..(index - 1) : Applies(Rulesets[n], source) => ~MustRedirect(Rulesets[n])

\* The URL at hand is the caller's, or a ruleset redirected the caller's
CameFrom ==
    source # given.source =>
      \E r \in Applying(given.source) :
        ~On("ignore_redirections") /\ Redirecting(r, given.source) # {}

\* The rulesets for the URL that the loop has passed, and what they leave of
\* the URL that was read
Passed == {Rulesets[n] : n \in {n \in 1..(index - 1) : Applies(Rulesets[n], source)}}

StrippedSoFar ==
    pc = "scan" =>
      LET read == parse_uri(source)
          Untracked(part) == Names(Passed) \cap ToSet(Text(part)) = {}
      IN  /\ uri.path = OrNull(Dropping(RawWords(Passed), Text(read.path)))
          /\ uri.scheme = source.scheme /\ uri.site = source.site
          /\ Untracked(read.query) => uri.query = read.query
          /\ Untracked(read.fragment) => uri.fragment = read.fragment

IInv ==
    /\ TypeOK /\ Unredirected /\ CameFrom /\ StrippedSoFar
    /\ RedirectionsFollowed /\ PathAsPromised /\ UntrackedKept

=============================================================================
