-------------------------------- MODULE Parameters ------------------------------
(***************************************************************************)
(* The texts in which clients and handlers pass values to each other: the   *)
(* parameters of a form, in the path of a request or in its body, and      *)
(* cookies, which handlers set and clients send back.                      *)
(*                                                                         *)
(* A text is a sequence of bytes, or of words where only the whole word    *)
(* matters: "x" is any byte without a meaning, "space", "semicolon" and    *)
(* "quote" are those bytes, a word such as "3D" is the two hexadecimal     *)
(* digits of a byte, one such as "Path" the name of an attribute.          *)
(* Browsers are external.                                                  *)
(***************************************************************************)
EXTENDS Integers, Sequences, SequencesExt

CONSTANTS
    Forms,          \* what forms send: sequences of [name, value]
    SetCookies      \* the cookies that handlers set

ASSUME FormsAssumption ==
    Forms \subseteq Seq([name : Seq(STRING), value : Seq(STRING)])

VARIABLES
    set,            \* the cookies set so far
    jar,            \* those that the client keeps, [name, value], in order
    received,       \* is the request of the client being served?
    fields,         \* what it had in its form
    parameters,     \* what its handler finds: [name, value], in order
    cookies         \* ... and values by name

parameterVars == <<set, jar, received, fields, parameters, cookies>>

Hex == [c \in {"space", "=", "semicolon", "quote", "&", "+", "%"} |->
        CASE c = "space" -> "20" [] c = "=" -> "3D" [] c = "semicolon" -> "3B"
          [] c = "quote" -> "22" [] c = "&" -> "26" [] c = "+" -> "2B" [] c = "%" -> "25"]

IsHex(c) == \E b \in DOMAIN Hex : Hex[b] = c
ByteOf(c) == CHOOSE b \in DOMAIN Hex : Hex[b] = c

(***************************************************************************)
(* QByteArray (external).                                                  *)
(***************************************************************************)
Places(s, b) == {i \in DOMAIN s : s[i] = b}
Index(s, b) == IF Places(s, b) = {} THEN 0 ELSE Min(Places(s, b))
Before(s, i) == SubSeq(s, 1, i - 1)
After(s, i) == SubSeq(s, i + 1, Len(s))

trimmed(s) ==
    LET used == DOMAIN s \ Places(s, "space") IN
    IF used = {} THEN <<>> ELSE SubSeq(s, Min(used), Max(used))

(* Neither the spaces around it nor a byte of it change how it is read.    *)
Quiet(text) ==
    trimmed(text) = text /\ Places(text, "semicolon") = {} /\ Places(text, "quote") = {}

AttributeNames ==
    {<<n>> : n \in {"Comment", "Domain", "Max-Age", "Path", "Secure", "HttpOnly", "Version"}}

(* What the handlers set (httpsessionstore.cpp:67, dumpcontroller.cpp:17):  *)
(* names are tokens, and not those of attributes.                          *)
ASSUME CookiesAssumption ==
    \A c \in SetCookies :
        /\ \A text \in {c.name, c.value, c.comment, c.domain, c.maxAge, c.path} : text \in Seq(STRING)
        /\ \A i \in DOMAIN c.name : c.name[i] \notin {"space", "=", "semicolon", "quote"}
        /\ c.name \notin AttributeNames
        /\ \A text \in {c.comment, c.domain, c.maxAge, c.path} : Quiet(text)
        /\ c.secure \in BOOLEAN /\ c.httpOnly \in BOOLEAN

split(s, b) ==
    FoldLeft(LAMBDA list, c :
                IF c = b THEN Append(list, <<>>)
                         ELSE [list EXCEPT ![Len(list)] = Append(@, c)],
             <<<<>>>>, s)

(***************************************************************************)
(* Parameters: HttpRequest.                                                *)
(***************************************************************************)
Decoded(c, escaped) == IF escaped THEN ByteOf(c) ELSE IF c = "+" THEN "space" ELSE c

(* faulty variant: the search goes on at the byte that was decoded         *)
DecodeByteAgain(s, c) ==
    LET escaped == s.open /\ IsHex(c)
        text    == IF escaped THEN Front(s.text) ELSE s.text
    IN  [text |-> Append(text, Decoded(c, escaped)), open |-> Decoded(c, escaped) = "%"]

(* An escape is replaced in its place, and the search goes on behind it.   *)
DecodeByte(s, c) ==
    LET escaped == s.open /\ IsHex(c)
        text    == IF escaped THEN Front(s.text) ELSE s.text
    IN  [text |-> Append(text, Decoded(c, escaped)), open |-> c = "%"]

urlDecode(source) == FoldLeft(DecodeByte, [text |-> <<>>, open |-> FALSE], source).text

NoParameters == <<>>

Parsed(p) ==
    LET i == Index(p, "=") IN
    IF i > 0 THEN <<[name  |-> urlDecode(trimmed(Before(p, i))),
                     value |-> urlDecode(trimmed(After(p, i)))]>>
    ELSE IF p = <<>> THEN <<>>
    ELSE <<[name |-> urlDecode(p), value |-> <<>>]>>

decodeRequestParams(path, body) ==
    LET raw == IF path # <<>> /\ body # <<>> THEN path \o <<"&">> \o body ELSE path \o body
        list == split(raw, "&")
    IN  FlattenSeq([i \in DOMAIN list |-> Parsed(list[i])])

(* A QMultiMap: the value inserted last.                                   *)
getParameter(name) ==
    LET named == {i \in DOMAIN parameters : parameters[i].name = name} IN
    IF named = {} THEN <<>> ELSE parameters[Max(named)].value

(***************************************************************************)
(* Cookies: HttpCookie, HttpRequest and HttpResponse.                      *)
(***************************************************************************)
Pair(c) == c.name \o <<"=">> \o c.value
Valued(name, value) == Pair([name |-> <<name>>, value |-> value])

Break == <<"semicolon", "space">>
Attribute(given, text) == IF given THEN Break \o text ELSE <<>>

toByteArray(c) ==
    Pair(c)
    \o Attribute(c.comment # <<>>, Valued("Comment", c.comment))
    \o Attribute(c.domain # <<>>, Valued("Domain", c.domain))
    \o Attribute(c.maxAge # <<"0">>, Valued("Max-Age", c.maxAge))
    \o Attribute(c.path # <<>>, Valued("Path", c.path))
    \o Attribute(c.secure, <<"Secure">>)
    \o Attribute(c.httpOnly, <<"HttpOnly">>)
    \o Attribute(TRUE, Valued("Version", <<"1">>))

(* Semicolons within quotes are skipped, quotes are removed.               *)
PartEnded(s) ==
    IF trimmed(s.buffer) = <<>> THEN s.list ELSE Append(s.list, trimmed(s.buffer))

SplitCSVByte(s, c) ==
    IF c = "quote" THEN [s EXCEPT !.inString = ~ @]
    ELSE IF c = "semicolon" /\ ~ s.inString THEN [s EXCEPT !.list = PartEnded(s), !.buffer = <<>>]
    ELSE [s EXCEPT !.buffer = Append(@, c)]

splitCSV(source) ==
    PartEnded(FoldLeft(SplitCSVByte, [list |-> <<>>, buffer |-> <<>>, inString |-> FALSE], source))

(* faulty variant: the last "=" divides                                    *)
NameAndValueLast(part) ==
    LET i == IF Places(part, "=") = {} THEN 0 ELSE Max(Places(part, "=")) IN
    IF i = 1 THEN [name |-> part, value |-> <<>>]
    ELSE [name |-> trimmed(Before(part, i)), value |-> trimmed(After(part, i))]

(* A part without "=" is all value: indexOf() is -1, which is true.        *)
NameAndValue(part) ==
    LET i == Index(part, "=") IN
    IF i = 1 THEN [name |-> part, value |-> <<>>]
    ELSE [name |-> trimmed(Before(part, i)), value |-> trimmed(After(part, i))]

(* A QMap: of parts with the same name the last one counts.                *)
extractCookies(header) ==
    LET parts == splitCSV(header)
        names == {NameAndValue(parts[i]).name : i \in DOMAIN parts}
        Last1(n) == Max({i \in DOMAIN parts : NameAndValue(parts[i]).name = n})
    IN  [n \in names |-> NameAndValue(parts[Last1(n)]).value]

getCookie(name) == IF name \in DOMAIN cookies THEN cookies[name] ELSE <<>>

(* HttpCookie(source).  Nothing sets httpOnly, which has no initial value. *)
NoCookie == [name |-> <<>>, value |-> <<>>, comment |-> <<>>, domain |-> <<>>,
             maxAge |-> <<"0">>, path |-> <<>>, secure |-> FALSE]

SetField(c, part) ==
    LET p == NameAndValue(part) IN
    CASE p.name = <<"Comment">> -> [c EXCEPT !.comment = p.value]
      [] p.name = <<"Domain">>  -> [c EXCEPT !.domain = p.value]
      [] p.name = <<"Max-Age">> -> [c EXCEPT !.maxAge = p.value]
      [] p.name = <<"Path">>    -> [c EXCEPT !.path = p.value]
      [] p.name = <<"Secure">>  -> [c EXCEPT !.secure = TRUE]
      [] p.name \in {<<"HttpOnly">>, <<"Version">>} -> c
      [] OTHER -> IF c.name = <<>> THEN [c EXCEPT !.name = p.name, !.value = p.value] ELSE c

HttpCookie(source) == FoldLeft(SetField, NoCookie, splitCSV(source))

(***************************************************************************)
(* The client (external): a browser that sends a form as it should be      *)
(* sent, and cookies as they came, up to the first semicolon.              *)
(***************************************************************************)
Escape(c, spaces) ==
    IF c = "space" /\ spaces THEN <<"+">>
    ELSE IF c \in DOMAIN Hex THEN <<"%", Hex[c]>>
    ELSE <<c>>
Escaped(text, spaces) == FlattenSeq([i \in DOMAIN text |-> Escape(text[i], spaces)])

EscapedField(f, spaces) ==
    Pair([name |-> Escaped(f.name, spaces), value |-> Escaped(f.value, spaces)])

(* Texts, with a separator before each but the first.                      *)
Joined(texts, between) ==
    FlattenSeq([i \in DOMAIN texts |-> IF i = 1 THEN texts[i] ELSE between \o texts[i]])

Encoded(form, spaces) ==
    Joined([i \in DOMAIN form |-> EscapedField(form[i], spaces)], <<"&">>)

(* A cookie takes the place of the one with its name.                      *)
Stored(text) ==
    LET pair == split(text, "semicolon")[1]
        new  == [name  |-> trimmed(Before(pair, Index(pair, "="))),
                 value |-> trimmed(After(pair, Index(pair, "=")))]
        old  == {i \in DOMAIN jar : jar[i].name = new.name}
    IN  IF old = {} THEN Append(jar, new)
        ELSE [i \in DOMAIN jar |-> IF i \in old THEN new ELSE jar[i]]

CookieHeader == Joined([i \in DOMAIN jar |-> Pair(jar[i])], Break)

(***************************************************************************)
(* A response that sets a cookie, and a request.                           *)
(***************************************************************************)
Answered ==
    /\ received' = FALSE
    /\ fields' = <<>> /\ parameters' = NoParameters /\ cookies' = <<>>

setCookie(c) ==
    /\ c.name # <<>>
    /\ set' = {d \in set : d.name # c.name} \cup {c}
    /\ jar' = Stored(toByteArray(c))
    /\ Answered

(* A bound: forms are sent without cookies, as neither depends on the other.*)
Apart(form) == jar = <<>> \/ form = <<>>

(* The first n fields are in the path, the others in the body.             *)
DecodeRequest(form, n, spaces) ==
    /\ ~ received /\ Apart(form)
    /\ received' = TRUE
    /\ fields' = form
    /\ parameters' = decodeRequestParams(Encoded(SubSeq(form, 1, n), spaces),
                                         Encoded(SubSeq(form, n + 1, Len(form)), spaces))
    /\ cookies' = extractCookies(CookieHeader)
    /\ UNCHANGED <<set, jar>>

ParametersInit ==
    /\ set = {} /\ jar = <<>>
    /\ received = FALSE
    /\ fields = <<>> /\ parameters = NoParameters /\ cookies = <<>>

ParametersNext ==
    \/ \E c \in SetCookies : setCookie(c)
    \/ \E f \in Forms, spaces \in BOOLEAN : \E n \in 0 .. Len(f) : DecodeRequest(f, n, spaces)

ParametersSpec == ParametersInit /\ [][ParametersNext]_parameterVars

--------------------------------------------------------------------------------

(* What a form was filled with arrives, whatever bytes it holds and however *)
(* it is divided between the path and the body; of fields with the same    *)
(* name the last one counts (decodeRequestParams, urlDecode, getParameter). *)
ParametersArrive ==
    received =>
        \A i \in DOMAIN fields :
            (\A j \in i + 1 .. Len(fields) : fields[j].name # fields[i].name)
                => getParameter(fields[i].name) = fields[i].value

Unquoted == \A c \in set : Places(c.value, "quote") = {}

(* A cookie comes back with its value, "=" in it or not, unless a quote, in *)
(* whichever cookie, or its own semicolons or outer spaces get in the way; *)
(* and the text that HttpResponse sends of it reads back as the same cookie,*)
(* but for the two flags without a value (toByteArray, splitCSV,           *)
(* extractCookies, HttpCookie(source)).                                    *)
CookiesComeBack ==
    \A c \in set :
        LET parsed == HttpCookie(toByteArray(c)) IN
        Quiet(c.value) =>
            /\ received /\ Unquoted => getCookie(c.name) = c.value
            /\ [parsed EXCEPT !.secure = c.secure] = [f \in DOMAIN parsed |-> c[f]]

================================================================================
