----------------------------- MODULE MCCleanUrl -----------------------------
(* Instances of CleanUrl for TLC: a ruleset for every URL and one for a shop *)
EXTENDS CleanUrl

CONSTANT MaxText   \* the length of the texts of Fields

\* Queries and fragments where only "utm" may stand right before another word,
\* for the names that begin with it
WellSpaced(text) ==
    \A i \in 1..(Len(text) - 1) :
      {text[i], text[i + 1]} \cap {AND, EQUAL, QUESTION} # {} \/ text[i] = "utm"

TextsOver(words, n) ==
    {t \in BoundedSeq(words \cup {AND, EQUAL}, n) : WellSpaced(t)}

Part(text) == IF text = <<>> THEN Null ELSE text

Url(site, path, query, fragment) ==
    [scheme |-> "http", site |-> site, path |-> Part(path),
     query |-> Part(query), fragment |-> Part(fragment)]

MCRulesets ==
    << [url_pattern |-> AnyUrl, rules |-> <<"utm">>, referral_marketing |-> <<"ref">>,
        raw_rules |-> <<>>, exceptions |-> <<"keep">>, redirections |-> <<"to">>],
       [url_pattern |-> "shop", rules |-> <<"sid", "keep">>, referral_marketing |-> <<>>,
        raw_rules |-> <<"raw">>, exceptions |-> <<>>, redirections |-> <<"go", "to">>] >>

MCQuoted ==
    [inner |-> Url("shop", <<"raw">>, <<"utm", EQUAL, "k", AND, "k">>, <<>>),
     outer |-> [Url("blog", <<>>, <<"to", EQUAL, "inner", AND, "ref">>, <<"utm">>)
                  EXCEPT !.scheme = "missing"],
     none  |-> [Url("blog", <<>>, <<>>, <<>>) EXCEPT !.scheme = "empty"]]

MCVocabulary ==
    {AND, EQUAL, QUESTION, HASHTAG, "utm", "ref", "sid", "keep", "raw", "p", "k", "to", "go",
     "shop", "blog"} \cup DOMAIN MCQuoted

\* Fields that repeat, that are tracked or empty, on both sites
Fields == {Url(site, <<>>, q, <<>>) : site \in {"shop", "blog"},
             q \in {t \in TextsOver({"utm", "k", QUESTION}, MaxText) :
                     QUESTION \in ToSet(t) => Len(t) < MaxText}}

\* Every rule, exception and redirection, in query and fragment
Parts ==
    {Url(site, p, q, f) : site \in {"shop", "blog"},
       p \in {<<>>, <<"raw", "p">>, <<"keep">>},
       q \in TextsOver({"ref", "sid", "keep", QUESTION}, 3) \cup
             {<<name, EQUAL, url>> \o rest : name \in {"to", "go"},
                url \in DOMAIN MCQuoted, rest \in {<<>>, <<AND, "keep">>}},
       f \in {<<>>, <<"utm", AND, "k">>, <<"k", AND, "ref", EQUAL, "k">>,
              <<"k", QUESTION, "ref", QUESTION, "k">>}}

OptionSets == {o \in SUBSET Flags : Cardinality(o) <= 2}

MCCalls ==
    [source : {Null, [Url("blog", <<>>, <<>>, <<>>) EXCEPT !.scheme = "missing"]}, options : {{}}]
    \cup [source : Fields, options : SUBSET {"ignore_rules", "strip_empty", "strip_duplicates"}]
    \cup [source : Parts, options : OptionSets]

=============================================================================
