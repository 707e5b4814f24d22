-------------------------------- MODULE Gene --------------------------------
(***************************************************************************)
(* The genes of DGEBC::Engine: a chrome is an array of CHROME_LEN floats,  *)
(* a gene its text, the bits of every float in hexadecimal.  A digit is a  *)
(* number, a text a sequence of digits, and the bits of a float are the    *)
(* Width digits that stand for them: 8 in base 16.                         *)
(*                                                                         *)
(* setw(8) holds for the next number only: every number but the first is   *)
(* written without leading zeros.                                          *)
(***************************************************************************)
EXTENDS Integers, Sequences, SequencesExt

CONSTANTS
    CHROME_LEN,  \* 40
    Base,        \* 16
    Width,       \* the digits of a float, 8
    Slots        \* bound: where genes are kept; a new one replaces an old one

ASSUME GeneAssumption ==
    /\ CHROME_LEN \in Nat \ {0}
    /\ Base \in Nat \ {0, 1}
    /\ Width \in Nat \ {0}
    /\ Slots # {}

VARIABLES
    gene,     \* the text in each slot
    meant,    \* the chrome it was written from
    ragged,   \* history: a number with a leading zero was written after the first
    thrown    \* stoll() or substr() has thrown, and nothing catches it

geneVars == <<gene, meant, ragged, thrown>>

Position == 1 .. CHROME_LEN
Bits == [1 .. Width -> 0 .. Base - 1]
Chrome == [Position -> Bits]

\* 1. * rand() / RAND_MAX is 0 or at least 2^-31, whose bits have no leading
\* zero digit (0x30000000).
Zero == [j \in 1 .. Width |-> 0]
Drawn == {n \in Bits : n = Zero \/ n[1] # 0}

-----------------------------------------------------------------------------
(* The text of a chrome *)

\* how many digits `hex` writes of n when it pads nothing
Needed(n) ==
    CHOOSE w \in 1 .. Width :
        /\ \A j \in 1 .. Width - w : n[j] = 0
        /\ w > 1 => n[Width - w + 1] # 0

Digits(n, w) == SubSeq(n, Width - w + 1, Width)

\* faulty variant: no number is padded
chrome_to_geneBare(c) ==
    FlattenSeq([i \in Position |-> Digits(c[i], Needed(c[i]))])

chrome_to_gene(c) ==
    FlattenSeq([i \in Position |-> Digits(c[i], IF i = 1 THEN Width ELSE Needed(c[i]))])

\* stoll(): a shorter text has zeros before it.
Value(text) ==
    LET pad == Width - Len(text)
    IN  [j \in 1 .. Width |-> IF j <= pad THEN 0 ELSE text[j - pad]]

Upto(a, b) == IF a < b THEN a ELSE b

\* substr() throws beyond the end, stoll() at an empty text.
Decodable(text) == (CHROME_LEN - 1) * Width < Len(text)

\* the same loop in Engine::gene_to_chrome and GeneticAlgorithm::init
gene_to_chrome(text) ==
    [i \in Position |->
        Value(SubSeq(text, (i - 1) * Width + 1, Upto(i * Width, Len(text))))]

Ragged(c) == \E i \in Position \ {1} : Needed(c[i]) < Width

-----------------------------------------------------------------------------
(* The operations of the engine *)

Store(s, c) ==
    /\ gene' = [gene EXCEPT ![s] = chrome_to_gene(c)]
    /\ meant' = [meant EXCEPT ![s] = c]
    /\ ragged' = (ragged \/ Ragged(c))
    /\ UNCHANGED thrown

\* Engine::initial
initial == [Position -> Drawn]

GeneInit ==
    \E c \in initial :
        /\ gene = [s \in Slots |-> chrome_to_gene(c)]
        /\ meant = [s \in Slots |-> c]
        /\ ragged = Ragged(c)
        /\ thrown = FALSE

\* Engine::mutate draws one number anew.
mutate(s, t) ==
    /\ ~thrown /\ Decodable(gene[s])
    /\ \E i \in Position, x \in Drawn :
           Store(t, [gene_to_chrome(gene[s]) EXCEPT ![i] = x])

\* The positions from l on to r, past the end and on from the start.
Span(l, r) == IF l <= r THEN l .. r ELSE Position \ (r + 1 .. l - 1)

\* Engine::combine takes a span from the second gene.
combine(s1, s2, t) ==
    /\ ~thrown /\ Decodable(gene[s1]) /\ Decodable(gene[s2])
    /\ LET c1 == gene_to_chrome(gene[s1])
           c2 == gene_to_chrome(gene[s2])
       IN  \E l, r \in Position :
               Store(t, [i \in Position |-> IF i \in Span(l, r) THEN c2[i] ELSE c1[i]])

\* Any use of a gene that is too short, score() included, ends the process.
Crash(s) ==
    /\ ~thrown /\ ~Decodable(gene[s])
    /\ thrown' = TRUE
    /\ UNCHANGED <<gene, meant, ragged>>

GeneNext ==
    \/ \E s, t \in Slots : mutate(s, t)
    \/ \E s1, s2, t \in Slots : combine(s1, s2, t)
    \/ \E s \in Slots : Crash(s)

GeneSpec == GeneInit /\ [][GeneNext]_geneVars

-----------------------------------------------------------------------------
(* Properties *)

\* engine.cpp:73-89: as long as only the first number needed padding, every
\* gene reads back as the chrome it was written from, through any number of
\* mutations and combinations, and none throws (geneticalgorithm.cpp:107).
GenesReadBack ==
    ~ragged => ~thrown /\ \A s \in Slots : gene_to_chrome(gene[s]) = meant[s]

=============================================================================
