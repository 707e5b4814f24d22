-------------------------------- MODULE Template --------------------------------
(***************************************************************************)
(* Template of QtWebApp: a string in which variables, conditions and loops *)
(* are marked by tags, and that is filled by searching and replacing text. *)
(* What it should do is known from the template as a tree, in which a      *)
(* condition and a loop are blocks with an else part: `tree` is filled     *)
(* along with `text`.                                                      *)
(*                                                                         *)
(* A text is a sequence of tokens: words and tags.  A name is a sequence of*)
(* components, and a component a word with the numbers that loops have     *)
(* added to it: "row0.column" is <<<<"row", 0>>, <<"column">>>>.           *)
(***************************************************************************)
EXTENDS Integers, Sequences, SequencesExt

CONSTANTS
    Trees,          \* templates that users write
    Values,         \* words that variables are set to
    MaxRepetitions, \* bound of the repetitions of a loop
    MaxCalls        \* bound of the calls

ASSUME TemplateAssumption ==
    /\ MaxRepetitions \in Nat /\ MaxCalls \in Nat
    /\ \A v \in Values : v \in STRING

VARIABLES
    text,
    tree,
    cut,        \* is an end tag missing in the template?
    hangs,      \* a call that never returns
    calls       \* how many have been made

templateVars == <<text, tree, cut, hangs, calls>>

Word(w) == [kind |-> "word", name |-> <<<<w>>>>]
Tag(kind, name) == [kind |-> kind, name |-> name]

(***************************************************************************)
(* Trees: sequences of words and variables, which are tokens, and blocks.  *)
(***************************************************************************)
IsBlock(n) == n.kind \in {"if", "ifnot", "loop"}

RECURSIVE TextOf(_)
TextOf(t) ==
    FlattenSeq([i \in 1 .. Len(t) |->
        LET n == t[i] IN
        IF ~ IsBlock(n) THEN <<n>>
        ELSE <<Tag(n.kind, n.name)>> \o TextOf(n.first)
             \o (IF n.other = <<>> THEN <<>> ELSE <<Tag("else", n.name)>> \o TextOf(n.other))
             \o <<Tag("end", n.name)>>])

(* The names in the scope of a loop, numbered.                             *)
Numbered(m, name, k) ==
    IF Len(m) > Len(name) /\ SubSeq(m, 1, Len(name)) = name
    THEN [m EXCEPT ![Len(name)] = Append(@, k)]
    ELSE m

RECURSIVE NumberedTree(_, _, _)
NumberedTree(t, name, k) ==
    [i \in 1 .. Len(t) |->
        LET n == t[i]  m == Numbered(n.name, name, k) IN
        CASE IsBlock(n) -> [n EXCEPT !.name = m, !.first = NumberedTree(@, name, k),
                                     !.other = NumberedTree(@, name, k)]
          [] n.kind = "var" -> Tag("var", m)
          [] OTHER -> n]

(* The tree after a call: a variable's value, or a block's part.           *)
RECURSIVE Filled(_, _)
Filled(t, call) ==
    FlattenSeq([i \in 1 .. Len(t) |->
        LET n == t[i]
            hit == n.name = call.name /\ n.kind \in call.kinds
        IN
        CASE hit /\ n.kind = "var" -> <<Word(call.value)>>
          [] hit /\ n.kind = "loop" ->
                IF call.value = 0 THEN Filled(n.other, call)
                ELSE FlattenSeq([k \in 1 .. call.value |->
                        NumberedTree(Filled(n.first, call), call.name, k - 1)])
          [] hit /\ n.kind \in {"if", "ifnot"} ->
                Filled(IF call.value = (n.kind = "if") THEN n.first ELSE n.other, call)
          [] ~ hit /\ IsBlock(n) ->
                <<[n EXCEPT !.first = Filled(@, call), !.other = Filled(@, call)]>>
          [] OTHER -> <<n>>])

(***************************************************************************)
(* What the code does with the text.                                       *)
(***************************************************************************)
indexOf(s, tag, from) ==
    LET at == {i \in from .. Len(s) : s[i] = tag}
    IN  IF at = {} THEN 0 ELSE CHOOSE i \in at : \A j \in at : i <= j

(* The text a block is replaced by, given the part before its else tag and *)
(* the part after it.                                                      *)
NumberedText(s, name, k) ==
    [i \in 1 .. Len(s) |->
        IF s[i].kind = "word" THEN s[i] ELSE Tag(s[i].kind, Numbered(s[i].name, name, k))]

Replacement(kind, name, value, first, second) ==
    CASE kind = "if"    -> IF value THEN first ELSE second
      [] kind = "ifnot" -> IF value THEN second ELSE first
      [] kind = "loop"  ->
            IF value = 0 THEN second
            ELSE FlattenSeq([k \in 1 .. value |-> NumberedText(first, name, k - 1)])

(* The loop over the start tags: it looks at the same one for ever if its  *)
(* end tag is missing.                                                     *)
Hangs == <<Tag("hangs", <<>>)>>

(* faulty variant: the else tag of a later block counts                    *)
HasElseLater(start, else, end) == start < else

(* An else tag counts if it comes before the end tag.                      *)
HasElse(start, else, end) == start < else /\ else < end

RECURSIVE Replaced(_, _, _, _, _)
Replaced(s, kind, name, value, from) ==
    LET start == indexOf(s, Tag(kind, name), from)
        end   == indexOf(s, Tag("end", name), start + 1)
        else  == indexOf(s, Tag("else", name), start + 1)
        both  == HasElse(start, else, end)
        first  == SubSeq(s, start + 1, (IF both THEN else ELSE end) - 1)
        second == IF both THEN SubSeq(s, else + 1, end - 1) ELSE <<>>
    IN  IF start = 0 THEN s
        ELSE IF end = 0 THEN Hangs
        ELSE Replaced(SubSeq(s, 1, start - 1)
                      \o Replacement(kind, name, value, first, second)
                      \o SubSeq(s, end + 1, Len(s)), kind, name, value, start)

Call(kinds, name, value, result) ==
    /\ ~ hangs /\ calls < MaxCalls
    /\ calls' = calls + 1
    /\ hangs' = (result = Hangs)
    /\ text' = IF result = Hangs THEN text ELSE result
    /\ tree' = Filled(tree, [kinds |-> kinds, name |-> name, value |-> value])
    /\ UNCHANGED cut

setVariable(name, value) ==
    Call({"var"}, name, value,
         [i \in 1 .. Len(text) |-> IF text[i] = Tag("var", name) THEN Word(value)
                                                               ELSE text[i]])

setCondition(name, value) ==
    LET ifs == Replaced(text, "if", name, value, 1)
    IN  Call({"if", "ifnot"}, name, value,
             IF ifs = Hangs THEN Hangs ELSE Replaced(ifs, "ifnot", name, value, 1))

loop(name, repetitions) ==
    Call({"loop"}, name, repetitions, Replaced(text, "loop", name, repetitions, 1))

(* A program calls them with the names it sees in the template.            *)
NamesOf(kinds) == {n.name : n \in {n \in Range(text) : n.kind \in kinds}}

EndsAt(s) == {i \in 1 .. Len(s) : s[i].kind = "end"}

TemplateInit ==
    /\ tree \in Trees
    /\ \/ cut = FALSE /\ text = TextOf(tree)
       \/ cut = TRUE /\ \E i \in EndsAt(TextOf(tree)) : text = RemoveAt(TextOf(tree), i)
    /\ hangs = FALSE
    /\ calls = 0

TemplateNext ==
    \/ \E n \in NamesOf({"var"}), v \in Values : setVariable(n, v)
    \/ \E n \in NamesOf({"if", "ifnot"}), b \in BOOLEAN : setCondition(n, b)
    \/ \E n \in NamesOf({"loop"}), r \in 0 .. MaxRepetitions : loop(n, r)

TemplateSpec == TemplateInit /\ [][TemplateNext]_templateVars

--------------------------------------------------------------------------------

(* Searching and replacing does to the text what the calls mean for the    *)
(* tree, in whatever order they come: conditions in loops and loops in     *)
(* conditions, else parts, variables numbered by several loops; and every  *)
(* call returns.  The names of nested blocks differ, and none lacks its end*)
(* (setVariable, setCondition, loop).                                      *)
TextIsTree == ~ cut => ~ hangs /\ text = TextOf(tree)

================================================================================
