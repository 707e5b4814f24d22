---------------------------------- MODULE MCWeb ---------------------------------
(***************************************************************************)
(* Small instances of the parts of QtWebApp that a request handler works   *)
(* with: the connection it comes over, its parameters and cookies, the     *)
(* sessions, the caches of files and templates, a template, the log.  They *)
(* share no state, so that each is checked by itself: `part` says which one*)
(* moves.                                                                  *)
(***************************************************************************)
EXTENDS HttpRequest, Parameters, Sessions, FileCache, Template, LogFile

CONSTANTS h1, h2, r1, r2, w1, w2, d1, d2

VARIABLE part

(* What clients send: two requests one after the other, the first to be    *)
(* answered before the second, or one that is too large.                   *)
Sent(body, parts, close) ==
    [head |-> <<1, 2>>, body |-> body, parts |-> parts, close |-> close]
Plain  == Sent(0, <<>>, FALSE)
Closes == Sent(0, <<>>, TRUE)
Post   == Sent(2, <<>>, FALSE)
Large  == Sent(12, <<>>, FALSE)
Long   == [Plain EXCEPT !.head = <<20>>]
Upload == Sent(4, <<[field |-> "file", file |-> "x", size |-> 1],
                    [field |-> "text", file |-> "", size |-> 2]>>, FALSE)
Photos == Sent(19, <<[field |-> "file", file |-> "x", size |-> 9]>>, FALSE)
Brimful == [Upload EXCEPT !.head = <<2, 8>>]

MCStreams ==
    {<<a, b>> : a, b \in {Plain, Post, Upload}} \cup {<<Large>>, <<Long>>, <<Closes, Plain>>,
        <<Photos>>, <<Brimful, Plain>>}

(* Fields with every text of two bytes, and what has a meaning among them; *)
(* cookies with and without attributes.                                    *)
Bytes == {"x", "space", "=", "semicolon", "quote", "&", "+", "%", "3D"}
FieldOf(n, v) == [name |-> <<n>>, value |-> v]
MCForms ==
    {<<>>} \cup UNION {{<<FieldOf("x", v), FieldOf(n, <<"x">>)>>, <<FieldOf(n, <<"x">>), FieldOf("x", v)>>} :
                        v \in BoundedSeq(Bytes, 2), n \in {"x", "&"}}

Attributes(texts, given) ==
    [a \in DOMAIN texts |-> IF given THEN <<texts[a]>> ELSE <<>>]
    @@ [maxAge |-> IF given THEN <<"60">> ELSE <<"0">>, secure |-> given, httpOnly |-> given]
CookieOf(n, v, given) ==
    FieldOf(n, v) @@ Attributes([comment |-> "x", domain |-> "y", path |-> "/"], given)
MCSetCookies ==
    {CookieOf("x", v, FALSE) : v \in BoundedSeq({"x", "space", "=", "semicolon", "quote"}, 2)}
    \cup {CookieOf("y", v, TRUE) : v \in BoundedSeq({"x", "=", "semicolon", "quote"}, 1)}

MCSearches == {<<"de">>}
MCLanguage == [l \in Locale |-> l]

(* Templates with every kind of block in a loop, and that in a condition.  *)
Variable1(a) == Tag("var", <<<<a>>>>)
Column(a) == <<<<"row">>, <<a>>>>
BlockOf(kind, name, first, other) ==
    [kind |-> kind, name |-> name, first |-> first, other |-> other]
X == Tag("var", Column("x"))

Inside == {
    <<X>>,
    <<BlockOf("if", Column("a"), <<X>>, <<Word("no")>>)>>,
    <<BlockOf("ifnot", <<<<"b">>>>, <<Word("yes")>>, <<>>), X>>,
    <<BlockOf("loop", Column("col"), <<Tag("var", Column("col") \o <<<<"v">>>>), X>>,
              <<Word("none")>>)>>,
    <<BlockOf("if", <<<<"b">>>>, <<Word("yes")>>, <<>>),
      BlockOf("ifnot", <<<<"b">>>>, <<Word("no")>>, <<X>>)>>}

MCTrees ==
    {<<BlockOf("loop", <<<<"row">>>>, i, o), Variable1("v")>> :
        i \in Inside, o \in {<<>>, <<Word("empty")>>}}
    \cup {<<BlockOf("if", <<<<"c">>>>,
                    <<BlockOf("loop", <<<<"row">>>>, i, <<Word("empty")>>)>>,
                    <<BlockOf("ifnot", <<<<"d">>>>, i, <<Variable1("v")>>)>>)>> :
            i \in Inside}

(* A bound: threads run at once as long as there is one session only.      *)
OneSession == fresh # {}
OneThread == Cardinality({t \in Handler : pc[t] # "idle" \/ todo[t] # <<>>}) <= 1

(* A bound: one document is larger than the cache, until files change.     *)
OneIsLarge == Cardinality({f \in DOMAIN versions : versions[f][1].size > cacheSize}) <= 1

(* The parts that do not move are in one of their initial states.          *)
Init ==
    /\ part \in {"request", "parameter", "session", "cache", "template", "log"}
    /\ SessionInit
    /\ LogInit /\ (part # "log" => fileName = "a")
    /\ ParametersInit
    /\ RequestInit /\ (part # "request" => stream = <<Large>>)
    /\ TemplateInit /\ (part # "template" => tree = CHOOSE t \in MCTrees : TRUE)
    /\ (part # "template" => ~ cut)
    /\ CacheInit /\ OneIsLarge /\ (part # "cache" => \A f \in DOMAIN versions : versions[f][1].size = 0)

Next ==
    \/ /\ part = "request" /\ RequestNext
       /\ UNCHANGED <<part, parameterVars, sessionVars, cacheVars, templateVars, logVars>>
    \/ /\ part = "parameter" /\ ParametersNext
       /\ UNCHANGED <<part, requestVars, sessionVars, cacheVars, templateVars, logVars>>
    \/ /\ part = "session" /\ SessionNext /\ (OneSession \/ OneThread)'
       /\ UNCHANGED <<part, requestVars, parameterVars, cacheVars, templateVars, logVars>>
    \/ /\ part = "cache" /\ CacheNext
       /\ UNCHANGED <<part, requestVars, parameterVars, sessionVars, templateVars, logVars>>
    \/ /\ part = "template" /\ TemplateNext
       /\ UNCHANGED <<part, requestVars, parameterVars, sessionVars, cacheVars, logVars>>
    \/ /\ part = "log" /\ LogNext
       /\ UNCHANGED <<part, requestVars, parameterVars, sessionVars, cacheVars, templateVars>>

Spec == Init /\ [][Next]_<<part, requestVars, parameterVars, sessionVars, cacheVars, templateVars, logVars>>

(* The threads of every part change places at once: only one part moves.   *)
Swapped == h1 :> h2 @@ h2 :> h1 @@ r1 :> r2 @@ r2 :> r1 @@ w1 :> w2 @@ w2 :> w1
Symmetry == {Swapped} \cup Permutations({d1, d2})

================================================================================
