-------------------------------- MODULE Lemmas ----------------------------------
(***************************************************************************)
(* Lemmas that several proofs use: induction, stated for sets instead of   *)
(* predicates; the functions that are defined by recursion; a sequence     *)
(* without one of its elements; sums of sequences; texts without a byte;   *)
(* lists whose last text goes on; texts put together with a separator.     *)
(***************************************************************************)
EXTENDS Integers, Sequences, SequencesExt, SequenceTheorems, WellFoundedInduction, TLAPS

\* Every set of natural numbers has a least element.
LEMMA LeastElement ==
    ASSUME NEW T, T \subseteq Nat, T # {}
    PROVE  \E x \in T : \A y \in T : x <= y
<1> DEFINE R == OpToRel(<, Nat)
<1>1. IsWellFoundedOn(R, Nat)
  BY NatLessThanWellFounded
<1>2. ASSUME NEW x \in Nat, NEW y \in Nat, y < x
      PROVE  <<y, x>> \in R
  BY <1>2 DEF OpToRel
<1> HIDE DEF R
<1>3. PICK x \in T : \A y \in T : ~ (<<y, x>> \in R)
  BY <1>1, WFMin
<1>4. \A y \in T : x \in Nat /\ y \in Nat /\ ~ (y < x)
  BY <1>2, <1>3
<1> QED
  BY <1>4

\* What holds of 0 and passes from each number to the next holds of all.
LEMMA Induction ==
    ASSUME NEW T, 0 \in T, \A n \in T \cap Nat : n + 1 \in T
    PROVE  Nat \subseteq T
<1> SUFFICES ASSUME Nat \ T # {} PROVE FALSE
  OBVIOUS
<1>1. PICK x \in Nat \ T : \A y \in Nat \ T : x <= y
  <2>1. Nat \ T \subseteq Nat
    OBVIOUS
  <2> QED
    BY <2>1, LeastElement
<1>2. x - 1 \in Nat /\ x - 1 + 1 = x
  BY <1>1
<1>3. x - 1 \in T
  BY <1>1, <1>2
<1> QED
  BY <1>1, <1>2, <1>3

\* The same up to a bound.
LEMMA InductionUpTo ==
    ASSUME NEW M \in Nat, NEW T, 0 \in T, \A n \in 0 .. M - 1 : n \in T => n + 1 \in T
    PROVE  0 .. M \subseteq T
<1> DEFINE U == {n \in Nat : n <= M => n \in T}
<1>1. 0 \in U
  OBVIOUS
<1>2. \A n \in U \cap Nat : n + 1 \in U
  OBVIOUS
<1> HIDE DEF U
<1>3. Nat \subseteq U
  BY <1>1, <1>2, Induction
<1> QED
  BY <1>3 DEF U

\* f is defined by recursion: from base on, by a step that knows the number it starts from.
Iterates(f, M, base, step) ==
    f = [k \in 0 .. M |-> IF k = 0 THEN base ELSE step[<<k - 1, f[k - 1]>>]]

\* A function that is defined by recursion exists.
LEMMA RecursionExists ==
    ASSUME NEW M \in Nat, NEW S, NEW base \in S, NEW step \in [(0 .. M) \X S -> S]
    PROVE  \E f \in [0 .. M -> S] : Iterates(f, M, base, step)
<1> DEFINE Upto(n, f) == /\ f \in [0 .. n -> S]
                         /\ f[0] = base
                         /\ \A k \in 1 .. n : f[k] = step[<<k - 1, f[k - 1]>>]
           T == {n \in 0 .. M : \E f : Upto(n, f)}
<1>1. 0 \in T
  <2> DEFINE f == [k \in 0 .. 0 |-> base]
  <2>1. f \in [0 .. 0 -> S] /\ f[0] = base /\ 1 .. 0 = {}
    OBVIOUS
  <2> HIDE DEF f
  <2>2. Upto(0, f)
    BY <2>1
  <2>3. 0 \in 0 .. M
    OBVIOUS
  <2> HIDE DEF Upto
  <2> QED
    BY <2>2, <2>3
<1>2. ASSUME NEW n \in 0 .. M - 1, n \in T
      PROVE  n + 1 \in T
  <2>1. PICK f : Upto(n, f)
    BY <1>2
  <2> DEFINE g == [k \in 0 .. n + 1 |-> IF k <= n THEN f[k] ELSE step[<<n, f[n]>>]]
  <2>2. f[n] \in S /\ step[<<n, f[n]>>] \in S
    BY <2>1
  <2>3. g \in [0 .. n + 1 -> S]
    BY <2>1, <2>2
  <2>4. g[0] = base
    BY <2>1
  <2>5. ASSUME NEW k \in 1 .. n + 1
        PROVE  g[k] = step[<<k - 1, g[k - 1]>>]
    <3>1. g[k - 1] = f[k - 1] /\ k \in 0 .. n + 1
      OBVIOUS
    <3>2. CASE k <= n
      BY <2>1, <3>1, <3>2
    <3>3. CASE k = n + 1
      <4>1. g[k] = step[<<n, f[n]>>]
        BY <3>3
      <4>2. k - 1 = n
        BY <3>3
      <4> QED
        BY <3>1, <4>1, <4>2
    <3> QED
      BY <3>2, <3>3
  <2>6. Upto(n + 1, g)
    BY <2>3, <2>4, <2>5
  <2>7. n + 1 \in 0 .. M
    OBVIOUS
  <2> QED
    BY <2>6, <2>7
<1>3. M \in T
  <2> HIDE DEF T
  <2>1. 0 .. M \subseteq T
    BY <1>1, <1>2, InductionUpTo
  <2> QED
    BY <2>1
<1>4. PICK f : Upto(M, f)
  BY <1>3
<1>5. f = [k \in 0 .. M |-> IF k = 0 THEN base ELSE step[<<k - 1, f[k - 1]>>]]
  BY <1>4
<1> QED
  BY <1>4, <1>5 DEF Iterates

\* What is left of a sequence without its p-th element.
LEMMA RemoveAtFacts ==
    ASSUME NEW M, NEW s \in Seq(M), NEW p \in 1 .. Len(s)
    PROVE  /\ RemoveAt(s, p) \in Seq(M)
           /\ \A i \in DOMAIN RemoveAt(s, p) :
                RemoveAt(s, p)[i] = s[IF i < p THEN i ELSE i + 1]
                /\ (IF i < p THEN i ELSE i + 1) \in DOMAIN s
                /\ i \in Nat
<1> DEFINE a == SubSeq(s, 1, p - 1)  b == SubSeq(s, p + 1, Len(s))
<1>1. /\ a \in Seq(M) /\ Len(a) = p - 1 /\ \A i \in 1 .. p - 1 : a[i] = s[i]
      /\ b \in Seq(M) /\ Len(b) = Len(s) - p /\ \A i \in 1 .. Len(s) - p : b[i] = s[p + i]
  OBVIOUS
<1>2. RemoveAt(s, p) = a \o b
  BY DEF RemoveAt
<1> HIDE DEF a, b
<1>3. a \o b \in Seq(M) /\ DOMAIN (a \o b) = 1 .. Len(s) - 1
  BY <1>1
<1>4. ASSUME NEW i \in 1 .. Len(s) - 1
      PROVE  (a \o b)[i] = s[IF i < p THEN i ELSE i + 1]
  <2>1. CASE i < p
    BY <1>1, <2>1
  <2>2. CASE ~ (i < p)
    <3>1. (a \o b)[i] = b[i - (p - 1)] /\ i - (p - 1) \in 1 .. Len(s) - p
      BY <1>1, <2>2
    <3>2. b[i - (p - 1)] = s[p + (i - (p - 1))] /\ p + (i - (p - 1)) = i + 1
      BY <1>1, <3>1
    <3> QED
      BY <2>2, <3>1, <3>2
  <2> QED
    BY <2>1, <2>2
<1>5. \A i \in 1 .. Len(s) - 1 : (IF i < p THEN i ELSE i + 1) \in DOMAIN s /\ i \in Nat
  OBVIOUS
<1> DEFINE r == a \o b
<1>6. /\ r \in Seq(M)
      /\ \A i \in DOMAIN r : r[i] = s[IF i < p THEN i ELSE i + 1]
            /\ (IF i < p THEN i ELSE i + 1) \in DOMAIN s /\ i \in Nat
  BY <1>3, <1>4, <1>5
<1> HIDE DEF r
<1> QED
  BY <1>2, <1>6 DEF r

\* A function on 1 .. n is a sequence.
LEMMA FunctionIsSeq ==
    ASSUME NEW S, NEW n \in Nat, NEW s \in [1 .. n -> S]
    PROVE  s \in Seq(S) /\ Len(s) = n
<1>1. s \in Seq(S)
  BY SeqDef
<1>2. Len(s) \in Nat /\ 1 .. Len(s) = 1 .. n
  BY <1>1, LenProperties
<1>3. n \in 1 .. n \/ n = 0
  OBVIOUS
<1>4. Len(s) \in 1 .. Len(s) \/ Len(s) = 0
  BY <1>2
<1> QED
  BY <1>1, <1>2, <1>3, <1>4

\* What comes of the second of two sequences.
LEMMA SecondOfTwo ==
    ASSUME NEW S, NEW s \in Seq(S), NEW t \in Seq(S), NEW i \in 1 .. Len(t)
    PROVE  (s \o t)[Len(s) + i] = t[i]
<1> DEFINE p == Len(s) + i
<1>1. p \in 1 .. Len(s) + Len(t) /\ ~ (p <= Len(s)) /\ p - Len(s) = i
  BY LenProperties
<1> HIDE DEF p
<1>2. (s \o t)[p] = t[p - Len(s)]
  BY <1>1, ConcatProperties
<1>3. (s \o t)[p] = t[i]
  BY <1>1, <1>2
<1> QED
  BY <1>3 DEF p

\* What FlattenSeq builds: flat[k] is the text of the first k pieces.
Flattens(flat, pieces) ==
    flat = [i \in 1 .. Len(pieces) |->
              IF i = 1 THEN pieces[i] ELSE flat[i - 1] \o pieces[i]]

\* The recursion of FlattenSeq has a solution.
LEMMA FlatteningExists ==
    ASSUME NEW D, NEW pieces \in Seq(Seq(D))
    PROVE  \E flat : Flattens(flat, pieces)
<1> DEFINE N == Len(pieces)
           step == [x \in (0 .. N) \X Seq(D) |->
                      IF x[1] = N THEN x[2] ELSE x[2] \o pieces[x[1] + 1]]
<1>1. N \in Nat /\ \A k \in 1 .. N : pieces[k] \in Seq(D)
  OBVIOUS
<1>2. step \in [(0 .. N) \X Seq(D) -> Seq(D)]
  <2>1. ASSUME NEW x \in (0 .. N) \X Seq(D)
        PROVE  (IF x[1] = N THEN x[2] ELSE x[2] \o pieces[x[1] + 1]) \in Seq(D)
    <3>1. x[1] \in 0 .. N /\ x[2] \in Seq(D)
      OBVIOUS
    <3>2. x[1] # N => x[1] + 1 \in 1 .. N
      BY <1>1, <3>1
    <3> QED
      BY <1>1, <3>1, <3>2
  <2> QED
    BY <2>1
<1>3. <<>> \in Seq(D)
  OBVIOUS
<1>4. ASSUME NEW k \in 0 .. N - 1, NEW v \in Seq(D)
      PROVE  step[<<k, v>>] = v \o pieces[k + 1]
  <2>1. <<k, v>> \in (0 .. N) \X Seq(D) /\ k # N
    BY <1>1
  <2> QED
    BY <2>1
<1> HIDE DEF step
<1>5. PICK f \in [0 .. N -> Seq(D)] : Iterates(f, N, <<>>, step)
  BY <1>1, <1>2, <1>3, RecursionExists
<1> DEFINE flat == [i \in 1 .. N |-> f[i]]
<1>6. f[0] = <<>>
  BY <1>1, <1>5 DEF Iterates
<1>7. ASSUME NEW i \in 1 .. N
      PROVE  f[i] = f[i - 1] \o pieces[i]
  <2>1. i \in 0 .. N /\ i # 0 /\ i - 1 \in 0 .. N - 1 /\ i - 1 \in 0 .. N /\ i - 1 + 1 = i
    BY <1>1
  <2>2. f[i] = step[<<i - 1, f[i - 1]>>]
    BY <1>5, <2>1 DEF Iterates
  <2>3. f[i - 1] \in Seq(D)
    BY <1>5, <2>1
  <2>4. step[<<i - 1, f[i - 1]>>] = f[i - 1] \o pieces[i - 1 + 1]
    BY <1>4, <2>1, <2>3
  <2> QED
    BY <2>1, <2>2, <2>4
<1>8. ASSUME NEW i \in 1 .. N
      PROVE  flat[i] = IF i = 1 THEN pieces[i] ELSE flat[i - 1] \o pieces[i]
  <2>1. CASE i = 1
    <3>1. f[1] = <<>> \o pieces[1] /\ pieces[1] \in Seq(D)
      <4>1. f[1] = f[1 - 1] \o pieces[1] /\ 1 - 1 = 0
        <5>1. f[i] = f[i - 1] \o pieces[i]
          BY <1>7
        <5> QED
          BY <2>1, <5>1
      <4> QED
        BY <1>1, <1>6, <2>1, <4>1
    <3>2. f[1] = pieces[1]
      BY <3>1, ConcatEmptySeq
    <3> QED
      BY <2>1, <3>2
  <2>2. CASE i # 1
    <3>1. i - 1 \in 1 .. N
      BY <1>1, <2>2
    <3> QED
      BY <1>7, <2>2, <3>1
  <2> QED
    BY <2>1, <2>2
<1>9. Flattens(flat, pieces)
  <2> HIDE DEF N
  <2>1. flat = [i \in 1 .. N |-> IF i = 1 THEN pieces[i] ELSE flat[i - 1] \o pieces[i]]
    BY <1>8
  <2> QED
    BY <2>1 DEF Flattens, N
<1> QED
  BY <1>9

\* FlattenSeq joins its pieces one by one.
LEMMA FlattenSteps ==
    ASSUME NEW D, NEW pieces \in Seq(Seq(D)), Len(pieces) > 0
    PROVE  \E flat :
            /\ FlattenSeq(pieces) = flat[Len(pieces)]
            /\ flat[1] = pieces[1]
            /\ \A i \in 1 .. Len(pieces) - 1 : flat[i + 1] = flat[i] \o pieces[i + 1]
<1> DEFINE flat == CHOOSE g : Flattens(g, pieces)
           N == Len(pieces)
<1>1. N \in Nat /\ ~ (Len(pieces) = 0)
  OBVIOUS
<1>2. FlattenSeq(pieces) = flat[N]
  BY <1>1, Zenon DEF FlattenSeq, Flattens
<1>3. Flattens(flat, pieces)
  BY FlatteningExists
<1> HIDE DEF flat
<1>4. \A i \in 1 .. N : flat[i] = IF i = 1 THEN pieces[i] ELSE flat[i - 1] \o pieces[i]
  BY <1>3 DEF Flattens
<1>5. flat[1] = pieces[1]
  BY <1>1, <1>4
<1>6. ASSUME NEW i \in 1 .. N - 1
      PROVE  flat[i + 1] = flat[i] \o pieces[i + 1]
  <2> DEFINE m == i + 1
  <2>1. m \in 1 .. N /\ m # 1 /\ m - 1 = i
    BY <1>1
  <2> HIDE DEF m
  <2>2. flat[m] = flat[m - 1] \o pieces[m]
    BY <1>4, <2>1
  <2>3. flat[m] = flat[i] \o pieces[m]
    BY <2>1, <2>2
  <2> QED
    BY <2>3 DEF m
<1> QED
  BY <1>2, <1>5, <1>6

--------------------------------------------------------------------------------
\* Induction over sequences.
LEMMA SequenceInduction ==
    ASSUME NEW D, NEW T, <<>> \in T, \A s \in Seq(D) \cap T, x \in D : Append(s, x) \in T
    PROVE  Seq(D) \subseteq T
<1> DEFINE U == {n \in Nat : \A s \in Seq(D) : Len(s) = n => s \in T}
<1>1. 0 \in U
  BY EmptySeq
<1>2. ASSUME NEW n \in U \cap Nat
      PROVE  n + 1 \in U
  <2>1. ASSUME NEW s \in Seq(D), Len(s) = n + 1
        PROVE  s \in T
    <3> DEFINE r == SubSeq(s, 1, n)  x == s[n + 1]
    <3>1. r \in Seq(D) /\ Len(r) = n /\ x \in D /\ s = Append(r, x)
      BY <2>1
    <3> HIDE DEF r, x
    <3>2. r \in T
      BY <3>1
    <3> QED
      BY <3>1, <3>2
  <2> QED
    BY <2>1
<1>3. Nat \subseteq U
  <2> HIDE DEF U
  <2> QED
    BY <1>1, <1>2, Induction
<1> QED
  BY <1>3

\* A step of a fold, from one value to the next.
IsStep(step, S, D) == step \in [S \X D -> S]

\* What a fold builds: from base on, by a step for each element.
Iterated(step, base, s) ==
    LET f[k \in 0 .. Len(s)] == IF k = 0 THEN base ELSE step[<<f[k - 1], s[k]>>]
    IN  f[Len(s)]

\* The values on the way.
Way(f, step, base, s, S) ==
    /\ f \in [0 .. Len(s) -> S]
    /\ f[0] = base
    /\ \A k \in 1 .. Len(s) : f[k] = step[<<f[k - 1], s[k]>>]
    /\ Iterated(step, base, s) = f[Len(s)]

\* The values on the way exist, and are what each step makes of the one before.
LEMMA IteratedSteps ==
    ASSUME NEW S, NEW D, NEW base \in S, NEW step, IsStep(step, S, D), NEW s \in Seq(D)
    PROVE  \E f : Way(f, step, base, s, S)
<1> DEFINE N == Len(s)
           Is(f) == f = [k \in 0 .. N |-> IF k = 0 THEN base ELSE step[<<f[k - 1], s[k]>>]]
           next == [x \in (0 .. N) \X S |-> IF x[1] = N THEN x[2] ELSE step[<<x[2], s[x[1] + 1]>>]]
<1>1. N \in Nat /\ \A k \in 1 .. N : s[k] \in D
  OBVIOUS
<1>2. next \in [(0 .. N) \X S -> S]
  <2>1. ASSUME NEW x \in (0 .. N) \X S
        PROVE  (IF x[1] = N THEN x[2] ELSE step[<<x[2], s[x[1] + 1]>>]) \in S
    <3>1. x[1] \in 0 .. N /\ x[2] \in S /\ (x[1] # N => x[1] + 1 \in 1 .. N)
      BY <1>1
    <3> QED
      BY <1>1, <3>1 DEF IsStep
  <2> QED
    BY <2>1
<1>3. ASSUME NEW k \in 1 .. N, NEW v \in S
      PROVE  next[<<k - 1, v>>] = step[<<v, s[k]>>]
  <2>1. <<k - 1, v>> \in (0 .. N) \X S /\ k - 1 # N /\ (k - 1) + 1 = k
    BY <1>1
  <2> QED
    BY <2>1
<1> HIDE DEF next
<1>4. PICK g \in [0 .. N -> S] : Iterates(g, N, base, next)
  BY <1>1, <1>2, RecursionExists
<1>5. Is(g)
  <2>1. ASSUME NEW k \in 0 .. N
        PROVE  g[k] = IF k = 0 THEN base ELSE step[<<g[k - 1], s[k]>>]
    <3>1. g[k] = IF k = 0 THEN base ELSE next[<<k - 1, g[k - 1]>>]
      BY <1>4 DEF Iterates
    <3>2. k # 0 => k \in 1 .. N /\ k - 1 \in 0 .. N
      BY <1>1
    <3>3. k # 0 => g[k - 1] \in S
      BY <1>4, <3>2
    <3> QED
      BY <1>3, <3>1, <3>2, <3>3
  <2> HIDE DEF N
  <2> QED
    BY <1>4, <2>1
<1> DEFINE f == CHOOSE h : Is(h)
<1>6. Is(f)
  <2> HIDE DEF Is
  <2> QED
    BY <1>5
<1>7. Iterated(step, base, s) = f[N]
  BY DEF Iterated
<1> HIDE DEF f
<1>8. f[0] = base /\ \A k \in 1 .. N : f[k] = step[<<f[k - 1], s[k]>>]
  BY <1>1, <1>6
<1>9. f \in [0 .. N -> S]
  <2> DEFINE T == {k \in 0 .. N : f[k] \in S}
  <2>1. 0 \in T
    BY <1>1, <1>8
  <2>2. ASSUME NEW k \in 0 .. N - 1, k \in T
        PROVE  k + 1 \in T
    <3> DEFINE m == k + 1
    <3>1. m \in 1 .. N /\ m - 1 = k /\ m \in 0 .. N
      BY <1>1
    <3> HIDE DEF m
    <3>2. f[m] = step[<<f[k], s[m]>>]
      BY <1>8, <3>1
    <3>3. f[m] \in S
      BY <1>1, <2>2, <3>1, <3>2 DEF IsStep
    <3>4. m \in T
      BY <3>1, <3>3
    <3> QED
      BY <3>4 DEF m
  <2> HIDE DEF T
  <2>3. 0 .. N \subseteq T
    BY <1>1, <2>1, <2>2, InductionUpTo
  <2>4. DOMAIN f = 0 .. N /\ f = [k \in 0 .. N |-> f[k]]
    BY <1>6
  <2> QED
    BY <2>3, <2>4 DEF T
<1>10. Way(f, step, base, s, S)
  BY <1>7, <1>8, <1>9 DEF Way
<1> QED
  BY <1>10

\* Without elements, the base is left.
LEMMA IteratedEmpty ==
    ASSUME NEW base, NEW step
    PROVE  Iterated(step, base, <<>>) = base
<1> DEFINE Is(f) == f = [k \in 0 .. 0 |-> IF k = 0 THEN base ELSE step[<<f[k - 1], <<>>[k]>>]]
           f == CHOOSE h : Is(h)
           g == [k \in 0 .. 0 |-> base]
<1>1. Is(g)
  OBVIOUS
<1> HIDE DEF g, Is
<1>2. Is(f)
  BY <1>1
<1>3. Len(<<>>) = 0
  OBVIOUS
<1>4. Iterated(step, base, <<>>) = f[0]
  BY <1>3 DEF Iterated, Is
<1> HIDE DEF f
<1> QED
  BY <1>2, <1>4 DEF Is

\* Iterated, one element after the other.
LEMMA IteratedAppend ==
    ASSUME NEW S, NEW D, NEW base \in S, NEW step, IsStep(step, S, D), NEW s \in Seq(D)
    PROVE  /\ Iterated(step, base, s) \in S
           /\ \A x \in D : Iterated(step, base, Append(s, x)) = step[<<Iterated(step, base, s), x>>]
<1>2. PICK f : Way(f, step, base, s, S)
  BY IteratedSteps
<1>3. Iterated(step, base, s) \in S
  BY <1>2 DEF Way
<1>4. ASSUME NEW x \in D
      PROVE  Iterated(step, base, Append(s, x)) = step[<<Iterated(step, base, s), x>>]
  <2> DEFINE t == Append(s, x)  N == Len(s)
  <2>1. t \in Seq(D) /\ Len(t) = N + 1 /\ t[N + 1] = x /\ (\A k \in 1 .. N : t[k] = s[k]) /\ N \in Nat
    OBVIOUS
  <2> HIDE DEF t
  <2>2. PICK g : Way(g, step, base, t, S)
    BY <2>1, IteratedSteps
  <2> DEFINE T == {k \in 0 .. N : g[k] = f[k]}
  <2>3. 0 \in T
    BY <1>2, <2>1, <2>2 DEF Way
  <2>4. ASSUME NEW k \in 0 .. N - 1, k \in T
        PROVE  k + 1 \in T
    <3> DEFINE m == k + 1
    <3>1. m \in 1 .. N /\ m - 1 = k /\ m \in 0 .. N /\ m \in 1 .. Len(t)
      BY <2>1
    <3> HIDE DEF m, N
    <3>2. f[m] = step[<<f[k], s[m]>>]
      BY <1>2, <3>1 DEF N, Way
    <3>3. g[m] = step[<<g[k], t[m]>>]
      BY <2>2, <3>1 DEF Way
    <3>4. m \in T
      BY <2>1, <2>4, <3>1, <3>2, <3>3
    <3> QED
      BY <3>4 DEF m
  <2>5. 0 .. N \subseteq T
    <3> HIDE DEF T, N
    <3> QED
      BY <2>1, <2>3, <2>4, InductionUpTo
  <2>6. g[N] = f[N]
    BY <2>1, <2>5
  <2> DEFINE m == N + 1
  <2>7. m \in 1 .. Len(t) /\ m - 1 = N /\ t[m] = x /\ m = Len(t)
    BY <2>1
  <2> HIDE DEF m, N
  <2>8. g[m] = step[<<g[N], x>>]
    BY <2>2, <2>7 DEF Way
  <2> QED
    BY <1>2, <2>2, <2>6, <2>7, <2>8 DEF t, N, Way
<1> QED
  BY <1>3, <1>4

\* The greatest of the first k numbers, and those before it.
LEMMA MaxOfFirst ==
    ASSUME NEW k \in Nat, k > 0
    PROVE  Max(1 .. k) = k /\ (1 .. k) \ {k} = 1 .. k - 1
<1>1. k \in 1 .. k /\ \A y \in 1 .. k : k >= y
  OBVIOUS
<1>2. ASSUME NEW x \in 1 .. k, \A y \in 1 .. k : x >= y
      PROVE  x = k
  BY <1>1, <1>2
<1>3. Max(1 .. k) = k
  BY <1>1, <1>2 DEF Max
<1> QED
  BY <1>3

\* A function on sets of places, as FoldLeft defines it.
Follows(it, s, base, step, S) ==
    /\ it[{}] = base
    /\ \A T \in SUBSET DOMAIN s :
          T # {} /\ it[T \ {Max(T)}] \in S => it[T] = step[<<it[T \ {Max(T)}], s[Max(T)]>>]

\* It has the value that the steps build.
LEMMA FollowsIterated ==
    ASSUME NEW S, NEW D, NEW base \in S, NEW step, IsStep(step, S, D), NEW s \in Seq(D),
           NEW it, Follows(it, s, base, step, S)
    PROVE  it[DOMAIN s] = Iterated(step, base, s)
<1> DEFINE N == Len(s)
<1>1. N \in Nat /\ DOMAIN s = 1 .. N
  OBVIOUS
<1>2. PICK f : Way(f, step, base, s, S)
  BY IteratedSteps
<1>6. /\ f \in [0 .. N -> S] /\ f[0] = base
      /\ \A k \in 1 .. N : f[k] = step[<<f[k - 1], s[k]>>]
      /\ Iterated(step, base, s) = f[N]
  BY <1>2 DEF Way
<1> HIDE DEF N
<1> DEFINE U == {k \in 0 .. N : it[1 .. k] = f[k]}
<1>3. 0 \in U
  <2>1. 1 .. 0 = {} /\ 0 \in 0 .. N
    BY <1>1
  <2>2. it[{}] = base
    BY DEF Follows
  <2>3. it[1 .. 0] = f[0]
    BY <1>6, <2>1, <2>2
  <2> QED
    BY <2>1, <2>3
<1>4. ASSUME NEW k \in 0 .. N - 1, k \in U
      PROVE  k + 1 \in U
  <2> DEFINE m == k + 1
  <2>1. m \in 1 .. N /\ m - 1 = k /\ m \in 0 .. N /\ m \in Nat /\ m > 0
    BY <1>1
  <2> HIDE DEF m
  <2>2. Max(1 .. m) = m /\ (1 .. m) \ {m} = 1 .. k
    BY <2>1, MaxOfFirst
  <2>3. 1 .. m \in SUBSET DOMAIN s /\ 1 .. m # {}
    <3>1. 1 .. m \subseteq 1 .. N /\ m \in 1 .. m
      BY <1>1, <2>1
    <3> QED
      BY <1>1, <3>1
  <2>4. it[1 .. k] = f[k] /\ f[k] \in S
    BY <1>1, <1>6, <1>4
  <2>5. it[1 .. m] = step[<<it[1 .. k], s[m]>>]
    BY <2>2, <2>3, <2>4 DEF Follows
  <2>6. it[1 .. m] = f[m]
    BY <1>6, <2>1, <2>4, <2>5
  <2>7. m \in U
    BY <2>1, <2>6
  <2> QED
    BY <2>7 DEF m
<1>5. 0 .. N \subseteq U
  <2> HIDE DEF U
  <2> QED
    BY <1>1, <1>3, <1>4, InductionUpTo
<1> QED
  BY <1>1, <1>6, <1>5

\* A function on sets of places that follows the steps.
Folding(it, s, base, step) ==
    it = [T \in SUBSET DOMAIN s |->
            IF T = {} THEN base ELSE step[<<it[T \ {Max(T)}], s[Max(T)]>>]]

\* The greatest of some of the first n numbers.
LEMMA MaxIsIn ==
    ASSUME NEW n \in Nat, NEW T \in SUBSET (1 .. n), T # {}
    PROVE  Max(T) \in T /\ \A y \in T : Max(T) >= y
<1> DEFINE U == {n - x : x \in T}
<1>1. U \subseteq Nat /\ U # {}
  <2>1. \A x \in T : x \in 1 .. n /\ n - x \in Nat
    OBVIOUS
  <2> QED
    BY <2>1
<1>2. PICK u \in U : \A w \in U : u <= w
  BY <1>1, LeastElement
<1>3. PICK x \in T : u = n - x
  BY <1>2
<1>4. ASSUME NEW y \in T
      PROVE  x >= y
  <2>1. u <= n - y /\ x \in 1 .. n /\ y \in 1 .. n
    BY <1>2
  <2> QED
    BY <1>3, <2>1
<1> QED
  BY <1>3, <1>4 DEF Max

\* The least of some of the first n numbers.
LEMMA MinIsIn ==
    ASSUME NEW n \in Nat, NEW T \in SUBSET (1 .. n), T # {}
    PROVE  Min(T) \in T /\ \A y \in T : Min(T) <= y
<1>1. T \subseteq Nat
  OBVIOUS
<1>2. PICK x \in T : \A y \in T : x <= y
  BY <1>1, LeastElement
<1> QED
  BY <1>2 DEF Min

\* The last of some places of a sequence is one of them.
LEMMA LastPlace ==
    ASSUME NEW D, NEW s \in Seq(D), NEW T \in SUBSET DOMAIN s, T # {}
    PROVE  Max(T) \in DOMAIN s /\ s[Max(T)] \in D
<1>1. DOMAIN s = 1 .. Len(s) /\ Len(s) \in Nat
  OBVIOUS
<1>2. Max(T) \in 1 .. Len(s)
  BY <1>1, MaxIsIn
<1> QED
  BY <1>1, <1>2

\* There is one.
LEMMA FoldingExists ==
    ASSUME NEW S, NEW D, NEW base \in S, NEW step, IsStep(step, S, D), NEW s \in Seq(D)
    PROVE  \E it \in [SUBSET DOMAIN s -> S] : Folding(it, s, base, step)
<1> DEFINE N == Len(s)
           Upto(n, it) ==
              /\ it \in [SUBSET (1 .. n) -> S]
              /\ it[{}] = base
              /\ \A T \in SUBSET (1 .. n) :
                    T # {} => it[T] = step[<<it[T \ {Max(T)}], s[Max(T)]>>]
           U == {n \in 0 .. N : \E it : Upto(n, it)}
<1>1. N \in Nat /\ DOMAIN s = 1 .. N /\ \A k \in 1 .. N : s[k] \in D
  OBVIOUS
<1> HIDE DEF N
<1>2. 0 \in U
  <2> DEFINE it == [T \in SUBSET (1 .. 0) |-> base]
  <2>1. 1 .. 0 = {} /\ 0 \in 0 .. N
    BY <1>1
  <2>2. it \in [SUBSET (1 .. 0) -> S] /\ it[{}] = base
    OBVIOUS
  <2>3. \A T \in SUBSET (1 .. 0) : T = {}
    BY <2>1
  <2>4. Upto(0, it)
    BY <2>2, <2>3
  <2> HIDE DEF Upto, it
  <2> QED
    BY <2>1, <2>4
<1>3. ASSUME NEW n \in 0 .. N - 1, n \in U
      PROVE  n + 1 \in U
  <2> DEFINE m == n + 1
  <2>1. m \in 1 .. N /\ m \in 0 .. N /\ n \in Nat /\ m \in Nat /\ n < m /\ 1 .. n \subseteq 1 .. m
        /\ (1 .. m) \ {m} = 1 .. n /\ m \in 1 .. m
    BY <1>1
  <2>2. PICK it : Upto(n, it)
    BY <1>3
  <2>3. \A j \in 1 .. n : j < m
    BY <2>1
  <2> HIDE DEF m
  <2>4. s[m] \in D
    BY <1>1, <2>1
  <2> DEFINE g == [T \in SUBSET (1 .. m) |-> IF m \in T THEN step[<<it[T \ {m}], s[m]>>] ELSE it[T]]
  <2>5. ASSUME NEW T \in SUBSET (1 .. m)
        PROVE  /\ T \ {m} \in SUBSET (1 .. n) /\ it[T \ {m}] \in S
               /\ m \notin T => T \in SUBSET (1 .. n) /\ it[T] \in S
               /\ g[T] \in S
    <3>1. T \ {m} \in SUBSET (1 .. n)
      BY <2>1
    <3>2. it[T \ {m}] \in S
      BY <2>2, <3>1
    <3>3. m \notin T => T \ {m} = T
      OBVIOUS
    <3>4. m \notin T => T \in SUBSET (1 .. n) /\ it[T] \in S
      BY <3>1, <3>2, <3>3
    <3>5. step[<<it[T \ {m}], s[m]>>] \in S
      BY <2>4, <3>2 DEF IsStep
    <3> QED
      BY <3>1, <3>2, <3>4, <3>5
  <2>6. g \in [SUBSET (1 .. m) -> S]
    BY <2>5
  <2>7. g[{}] = base
    BY <2>2
  <2>8. ASSUME NEW T \in SUBSET (1 .. m), T # {}
        PROVE  g[T] = step[<<g[T \ {Max(T)}], s[Max(T)]>>]
    <3>1. Max(T) \in T /\ \A y \in T : Max(T) >= y
      BY <2>1, <2>8, MaxIsIn
    <3>2. CASE m \in T
      <4>1. Max(T) = m
        <5>1. Max(T) >= m /\ Max(T) \in 1 .. m
          BY <3>1, <3>2
        <5> QED
          BY <2>1, <5>1
      <4>2. g[T] = step[<<it[T \ {m}], s[m]>>]
        BY <3>2
      <4>3. T \ {m} \in SUBSET (1 .. m) /\ m \notin T \ {m}
        OBVIOUS
      <4>4. g[T \ {m}] = it[T \ {m}]
        BY <4>3
      <4> QED
        BY <4>1, <4>2, <4>4
    <3>3. CASE m \notin T
      <4>1. T \in SUBSET (1 .. n)
        BY <2>5, <3>3
      <4>2. it[T] = step[<<it[T \ {Max(T)}], s[Max(T)]>>]
        BY <2>2, <2>8, <4>1
      <4>3. g[T] = it[T]
        BY <3>3
      <4>4. T \ {Max(T)} \in SUBSET (1 .. m) /\ m \notin T \ {Max(T)}
        BY <3>3
      <4>5. g[T \ {Max(T)}] = it[T \ {Max(T)}]
        BY <4>4
      <4> QED
        BY <4>2, <4>3, <4>5
    <3> QED
      BY <3>2, <3>3
  <2> HIDE DEF g
  <2>9. Upto(m, g)
    BY <2>6, <2>7, <2>8
  <2> HIDE DEF Upto
  <2>10. m \in U
    BY <2>1, <2>9
  <2> QED
    BY <2>10 DEF m
<1>4. 0 .. N \subseteq U
  <2> HIDE DEF U
  <2> QED
    BY <1>1, <1>2, <1>3, InductionUpTo
<1>5. PICK it : Upto(N, it)
  <2>1. N \in U
    <3>1. N \in 0 .. N
      BY <1>1
    <3> HIDE DEF U
    <3> QED
      BY <3>1, <1>4
  <2> HIDE DEF Upto
  <2> QED
    BY <2>1
<1>6. it = [T \in SUBSET (1 .. N) |-> IF T = {} THEN base ELSE step[<<it[T \ {Max(T)}], s[Max(T)]>>]]
  BY <1>5
<1> QED
  BY <1>1, <1>5, <1>6 DEF Folding

\* FlattenSeq, one piece after the other.
LEMMA FlattenAppend ==
    ASSUME NEW D, NEW pieces \in Seq(Seq(D)), NEW p \in Seq(D)
    PROVE  /\ FlattenSeq(<<>>) = <<>>
           /\ FlattenSeq(pieces) \in Seq(D)
           /\ FlattenSeq(Append(pieces, p)) = FlattenSeq(pieces) \o p
<1> DEFINE P == Seq(D)
           step == [x \in P \X P |-> x[1] \o x[2]]
<1>1. IsStep(step, P, P) /\ <<>> \in P
  BY DEF IsStep
<1>7. ASSUME NEW q \in Seq(Seq(D))
      PROVE  q \in Seq(P)
  OBVIOUS
<1>2. \A a, b \in Seq(D) : step[<<a, b>>] = a \o b
  OBVIOUS
<1>3. FlattenSeq(<<>>) = <<>>
  <2>1. Len(<<>>) = 0
    OBVIOUS
  <2> QED
    BY <2>1 DEF FlattenSeq
<1>5. Append(pieces, p) \in Seq(P) /\ p \in P /\ pieces \in Seq(P)
  OBVIOUS
<1> HIDE DEF step, P
<1>4. ASSUME NEW q \in Seq(Seq(D))
      PROVE  FlattenSeq(q) = Iterated(step, <<>>, q)
  <2>1. CASE Len(q) = 0
    <3>1. q = <<>>
      BY <2>1
    <3>2. Iterated(step, <<>>, q) = <<>>
      BY <3>1, IteratedEmpty
    <3> QED
      BY <1>3, <3>1, <3>2
  <2>2. CASE Len(q) > 0
    <3> DEFINE N == Len(q)
    <3>1. PICK flat :
            /\ FlattenSeq(q) = flat[N]
            /\ flat[1] = q[1]
            /\ \A i \in 1 .. N - 1 : flat[i + 1] = flat[i] \o q[i + 1]
      BY <2>2, FlattenSteps
    <3>2. PICK f : Way(f, step, <<>>, q, P)
      BY <1>1, <1>7, IteratedSteps
    <3>3. /\ f[0] = <<>>
          /\ \A k \in 0 .. N : f[k] \in Seq(D)
          /\ \A k \in 1 .. N : f[k] = step[<<f[k - 1], q[k]>>]
          /\ Iterated(step, <<>>, q) = f[N]
      BY <3>2 DEF Way, P
    <3>4. N \in Nat /\ N > 0 /\ \A k \in 1 .. N : q[k] \in Seq(D)
      BY <2>2
    <3> HIDE DEF N
    <3> DEFINE U == {k \in 0 .. N - 1 : flat[k + 1] = f[k + 1]}
    <3>5. 0 \in U
      <4>1. 1 \in 1 .. N /\ 1 - 1 = 0 /\ 0 + 1 = 1 /\ 0 \in 0 .. N - 1
        BY <3>4
      <4>2. f[1] = step[<<f[0], q[1]>>]
        BY <3>3, <4>1
      <4>3. f[1] = <<>> \o q[1]
        BY <1>1, <1>2, <3>3, <3>4, <4>1, <4>2 DEF P
      <4>4. f[1] = q[1]
        BY <3>4, <4>1, <4>3, ConcatEmptySeq
      <4> QED
        BY <3>1, <4>1, <4>4
    <3>6. ASSUME NEW k \in 0 .. N - 1 - 1, k \in U
          PROVE  k + 1 \in U
      <4> DEFINE m == k + 1  l == m + 1
      <4>1. m \in 1 .. N - 1 /\ m \in 0 .. N - 1 /\ l \in 1 .. N /\ l - 1 = m /\ m \in 0 .. N
        BY <3>4
      <4>2. flat[m] = f[m]
        BY <3>6
      <4> HIDE DEF m
      <4>3. flat[l] = flat[m] \o q[l]
        BY <3>1, <4>1
      <4> HIDE DEF l
      <4>4. f[l] = step[<<f[m], q[l]>>]
        BY <3>3, <4>1
      <4>5. f[l] = f[m] \o q[l]
        BY <1>2, <3>3, <3>4, <4>1, <4>4
      <4>6. flat[l] = f[l]
        BY <4>2, <4>3, <4>5
      <4>7. m \in U
        BY <4>1, <4>6 DEF l
      <4> QED
        BY <4>7 DEF m
    <3>7. 0 .. N - 1 \subseteq U
      <4>1. N - 1 \in Nat
        BY <3>4
      <4> HIDE DEF U
      <4> QED
        BY <4>1, <3>5, <3>6, InductionUpTo
    <3>8. flat[N] = f[N]
      <4>1. N - 1 \in U /\ N - 1 + 1 = N
        <5>1. N - 1 \in 0 .. N - 1 /\ N - 1 + 1 = N
          BY <3>4
        <5> HIDE DEF U
        <5> QED
          BY <3>7, <5>1
      <4> QED
        BY <4>1
    <3> QED
      BY <3>1, <3>3, <3>8
  <2> QED
    BY <2>1, <2>2
<1>8. Append(pieces, p) \in Seq(Seq(D))
  OBVIOUS
<1>6. Iterated(step, <<>>, Append(pieces, p)) = step[<<Iterated(step, <<>>, pieces), p>>]
      /\ Iterated(step, <<>>, pieces) \in P
  BY <1>1, <1>5, IteratedAppend
<1> QED
  BY <1>2, <1>3, <1>4, <1>5, <1>6, <1>8 DEF P

\* Nothing joined is nothing.
LEMMA FlattenEmpty == FlattenSeq(<<>>) = <<>>
<1>1. Len(<<>>) = 0
  OBVIOUS
<1> QED
  BY <1>1 DEF FlattenSeq

\* A sequence, and its last element.
LEMMA AppendLast ==
    ASSUME NEW P, NEW n \in Nat, NEW g \in [1 .. n + 1 -> P]
    PROVE  /\ [i \in 1 .. n |-> g[i]] \in Seq(P) /\ Len([i \in 1 .. n |-> g[i]]) = n
           /\ g[n + 1] \in P
           /\ g = Append([i \in 1 .. n |-> g[i]], g[n + 1])
<1> DEFINE f == [i \in 1 .. n |-> g[i]]
<1>1. f \in [1 .. n -> P] /\ g[n + 1] \in P
  OBVIOUS
<1>2. f \in Seq(P) /\ Len(f) = n
  <2> HIDE DEF f
  <2> QED
    BY <1>1, FunctionIsSeq
<1>3. g \in Seq(P) /\ Len(g) = n + 1
  BY FunctionIsSeq
<1>4. \A i \in 1 .. n : f[i] = g[i]
  OBVIOUS
<1> HIDE DEF f
<1>5. DOMAIN Append(f, g[n + 1]) = 1 .. n + 1
  BY <1>1, <1>2
<1>6. \A i \in 1 .. n + 1 : Append(f, g[n + 1])[i] = g[i]
  BY <1>1, <1>2, <1>4
<1>7. Append(f, g[n + 1]) = [i \in 1 .. n + 1 |-> g[i]]
  BY <1>1, <1>2, <1>5, <1>6
<1> QED
  BY <1>1, <1>2, <1>7 DEF f

\* Pieces of one element each are the sequence of the elements.
LEMMA FlattenSingles ==
    ASSUME NEW D, NEW s \in Seq(D)
    PROVE  FlattenSeq([i \in DOMAIN s |-> <<s[i]>>]) = s
<1> DEFINE Pieces(q) == [i \in DOMAIN q |-> <<q[i]>>]
           T == {q \in Seq(D) : FlattenSeq(Pieces(q)) = q}
<1>1. <<>> \in T
  <2>1. Pieces(<<>>) = <<>>
    OBVIOUS
  <2> HIDE DEF Pieces
  <2> QED
    BY <2>1, FlattenEmpty
<1>2. ASSUME NEW q \in Seq(D) \cap T, NEW x \in D
      PROVE  Append(q, x) \in T
  <2> DEFINE n == Len(q)  r == Append(q, x)  g == Pieces(r)  f == [i \in 1 .. n |-> g[i]]
  <2>1. n \in Nat /\ r \in Seq(D) /\ DOMAIN r = 1 .. n + 1 /\ r[n + 1] = x /\ DOMAIN q = 1 .. n
        /\ \A i \in 1 .. n : r[i] = q[i]
    OBVIOUS
  <2>2. \A i \in 1 .. n + 1 : r[i] \in D
    BY <2>1
  <2> HIDE DEF r, n
  <2>3. g \in [1 .. n + 1 -> Seq(D)] /\ g[n + 1] = <<x>> /\ f = Pieces(q)
    BY <2>1, <2>2
  <2>4. Pieces(q) \in Seq(Seq(D)) /\ g = Append(Pieces(q), <<x>>)
    <3> HIDE DEF g
    <3>1. f \in Seq(Seq(D)) /\ g = Append(f, g[n + 1])
      BY <2>1, <2>3, AppendLast
    <3> HIDE DEF f, Pieces
    <3> QED
      BY <2>3, <3>1
  <2> HIDE DEF Pieces
  <2>5. FlattenSeq(Append(Pieces(q), <<x>>)) = FlattenSeq(Pieces(q)) \o <<x>>
    <3>1. <<x>> \in Seq(D)
      OBVIOUS
    <3> QED
      BY <2>4, <3>1, FlattenAppend
  <2>6. FlattenSeq(Pieces(q)) = q
    BY <1>2
  <2>7. q \o <<x>> = r
    BY DEF r
  <2> QED
    BY <2>1, <2>4, <2>5, <2>6, <2>7 DEF r
<1>3. Seq(D) \subseteq T
  <2> HIDE DEF T
  <2> QED
    BY <1>1, <1>2, SequenceInduction
<1> QED
  BY <1>3

\* An element more, joined to another sequence.
LEMMA ConcatAppend ==
    ASSUME NEW S, NEW s \in Seq(S), NEW t \in Seq(S), NEW x \in S
    PROVE  s \o Append(t, x) = Append(s \o t, x) /\ s \o t \in Seq(S)
OBVIOUS

\* Concatenation, as a name of its own: its places are hidden from the provers.
Cat(x, y) == x \o y

\* Concatenation is associative and stays among the sequences.
LEMMA CatFacts ==
    ASSUME NEW D, NEW x \in Seq(D), NEW y \in Seq(D), NEW z \in Seq(D)
    PROVE  Cat(x, y) \in Seq(D) /\ Cat(Cat(x, y), z) = Cat(x, Cat(y, z))
<1>1. (x \o y) \o z = x \o (y \o z)
  BY ConcatAssociative
<1>2. x \o y \in Seq(D)
  OBVIOUS
<1> QED
  BY <1>1, <1>2 DEF Cat

\* An element behind two sequences, behind one, and nothing.
LEMMA CatAppend ==
    ASSUME NEW D, NEW x \in Seq(D), NEW y \in Seq(D), NEW c \in D
    PROVE  Cat(x, Append(y, c)) = Append(Cat(x, y), c)
<1>1. x \o Append(y, c) = Append(x \o y, c)
  OBVIOUS
<1> QED
  BY <1>1 DEF Cat

\* Nothing more.
LEMMA CatEmpty ==
    ASSUME NEW D, NEW x \in Seq(D)
    PROVE  Cat(x, <<>>) = x
<1>3. x \o <<>> = x
  OBVIOUS
<1> QED
  BY <1>3 DEF Cat

\* Sequences of some values are sequences of more.
LEMMA SeqOfMore ==
    ASSUME NEW S, NEW T, S \subseteq T
    PROVE  Seq(S) \subseteq Seq(T)
<1>1. ASSUME NEW s \in Seq(S)
      PROVE  s \in Seq(T)
  <2> DEFINE n == Len(s)
  <2>1. n \in Nat /\ s \in [1 .. n -> S]
    OBVIOUS
  <2> HIDE DEF n
  <2>2. s \in [1 .. n -> T]
    BY <2>1
  <2> QED
    BY <2>1, <2>2, FunctionIsSeq
<1> QED
  BY <1>1

\* The partial sums of a sequence, by recursion.
SumsUp(f, s) == f = [k \in 0 .. Len(s) |-> IF k = 0 THEN 0 ELSE f[k - 1] + s[k]]

LEMMA SumsExist ==
    ASSUME NEW s \in Seq(Nat)
    PROVE  \E g : SumsUp(g, s)
<1> DEFINE N == Len(s)
           step == [x \in (0 .. N) \X Nat |->
                      IF x[1] = N THEN x[2] ELSE x[2] + s[x[1] + 1]]
<1>1. N \in Nat /\ \A k \in 1 .. N : s[k] \in Nat
  OBVIOUS
<1>2. step \in [(0 .. N) \X Nat -> Nat]
  BY <1>1
<1>3. \A k \in 0 .. N - 1, v \in Nat : step[<<k, v>>] = v + s[k + 1]
  BY <1>1
<1> HIDE DEF step
<1>4. PICK g \in [0 .. N -> Nat] : Iterates(g, N, 0, step)
  <2>1. 0 \in Nat
    OBVIOUS
  <2> HIDE DEF N
  <2> QED
    BY <1>1, <1>2, <2>1, RecursionExists
<1>5. SumsUp(g, s)
  <2>1. ASSUME NEW k \in 0 .. N, k # 0
        PROVE  g[k] = g[k - 1] + s[k]
    <3>1. k - 1 \in 0 .. N - 1 /\ k - 1 \in 0 .. N /\ g[k - 1] \in Nat /\ k - 1 + 1 = k
      <4>1. k - 1 \in 0 .. N - 1 /\ k - 1 \in 0 .. N /\ k - 1 + 1 = k
        BY <1>1, <2>1
      <4> HIDE DEF N
      <4> QED
        BY <1>4, <4>1
    <3>2. g[k] = step[<<k - 1, g[k - 1]>>]
      BY <1>4, <2>1 DEF Iterates
    <3>3. step[<<k - 1, g[k - 1]>>] = g[k - 1] + s[k - 1 + 1]
      BY <1>3, <3>1
    <3> QED
      BY <3>1, <3>2, <3>3
  <2>2. g[0] = 0
    BY <1>1, <1>4 DEF Iterates
  <2>3. g = [k \in 0 .. N |-> IF k = 0 THEN 0 ELSE g[k - 1] + s[k]]
    BY <1>4, <2>1, <2>2
  <2> QED
    BY <2>3 DEF SumsUp
<1> QED
  BY <1>5

\* They are numbers, and grow by one element after the other.
LEMMA SumsFacts ==
    ASSUME NEW s \in Seq(Nat), NEW sum, SumsUp(sum, s)
    PROVE  /\ sum \in [0 .. Len(s) -> Nat]
           /\ sum[0] = 0
           /\ \A k \in 0 .. Len(s) - 1 : sum[k + 1] = sum[k] + s[k + 1]
<1> DEFINE N == Len(s)
<1>1. N \in Nat /\ \A k \in 1 .. N : s[k] \in Nat
  OBVIOUS
<1>8. sum = [k \in 0 .. N |-> IF k = 0 THEN 0 ELSE sum[k - 1] + s[k]]
  BY DEF SumsUp
<1>9. sum[0] = 0
  BY <1>1, <1>8
<1>10. ASSUME NEW k \in 0 .. N - 1
       PROVE  sum[k + 1] = sum[k] + s[k + 1]
  <2> DEFINE m == k + 1
  <2>1. m \in 0 .. N /\ m # 0 /\ m - 1 = k
    BY <1>1
  <2> HIDE DEF m
  <2>2. sum[m] = sum[m - 1] + s[m]
    BY <1>8, <2>1
  <2> QED
    BY <2>1, <2>2 DEF m
<1>11. sum \in [0 .. N -> Nat]
  <2> DEFINE T == {k \in Nat : sum[k] \in Nat}
  <2>1. 0 \in T
    BY <1>9
  <2>2. ASSUME NEW k \in 0 .. N - 1, k \in T
        PROVE  k + 1 \in T
    <3>1. sum[k] \in Nat /\ s[k + 1] \in Nat /\ k + 1 \in Nat
      BY <1>1, <2>2
    <3> QED
      BY <1>10, <3>1
  <2> HIDE DEF T, N
  <2>3. 0 .. N \subseteq T
    BY <1>1, <2>1, <2>2, InductionUpTo
  <2>4. \A k \in 0 .. N : sum[k] \in Nat
    BY <2>3 DEF T
  <2>5. DOMAIN sum = 0 .. N /\ sum = [k \in DOMAIN sum |-> sum[k]]
    BY <1>8
  <2> QED
    BY <2>4, <2>5
<1> QED
  BY <1>9, <1>10, <1>11

\* The sum of one element more.
LEMMA SumOfMore ==
    ASSUME NEW s \in Seq(Nat), NEW t \in Seq(Nat), Len(t) = Len(s) + 1,
           \A i \in 1 .. Len(s) : t[i] = s[i],
           NEW f, SumsUp(f, s), NEW g, SumsUp(g, t)
    PROVE  f[Len(s)] \in Nat /\ g[Len(t)] = f[Len(s)] + t[Len(t)]
<1> DEFINE N == Len(s)
<1>1. N \in Nat /\ Len(t) = N + 1
  OBVIOUS
<1>2. f \in [0 .. N -> Nat] /\ f[0] = 0 /\ \A k \in 0 .. N - 1 : f[k + 1] = f[k] + s[k + 1]
  BY SumsFacts
<1>3. g[0] = 0 /\ \A k \in 0 .. Len(t) - 1 : g[k + 1] = g[k] + t[k + 1]
  BY SumsFacts
<1> DEFINE T == {k \in Nat : f[k] = g[k]}
<1>4. 0 \in T
  BY <1>2, <1>3
<1>5. ASSUME NEW k \in 0 .. N - 1, k \in T
      PROVE  k + 1 \in T
  <2>1. k \in 0 .. Len(t) - 1 /\ k + 1 \in 1 .. Len(s) /\ k + 1 \in Nat
    BY <1>1
  <2>2. f[k + 1] = f[k] + s[k + 1] /\ g[k + 1] = g[k] + t[k + 1] /\ f[k] = g[k]
    BY <1>2, <1>3, <1>5, <2>1
  <2>3. t[k + 1] = s[k + 1]
    BY <2>1
  <2> QED
    BY <2>1, <2>2, <2>3
<1> HIDE DEF T, N
<1>6. 0 .. N \subseteq T
  BY <1>1, <1>4, <1>5, InductionUpTo
<1>7. f[N] = g[N] /\ f[N] \in Nat
  BY <1>1, <1>2, <1>6 DEF T
<1>8. N \in 0 .. Len(t) - 1
  BY <1>1
<1>9. g[N + 1] = g[N] + t[N + 1]
  BY <1>3, <1>8
<1> QED
  BY <1>1, <1>7, <1>9

\* A text without some of the bytes.
Without(s, E) == \A i \in DOMAIN s : s[i] \notin E

\* Two texts without them.
LEMMA WithoutConcat ==
    ASSUME NEW D, NEW E, NEW a \in Seq(D), NEW b \in Seq(D), Without(a, E), Without(b, E)
    PROVE  Without(a \o b, E)
<1>1. ASSUME NEW i \in DOMAIN (a \o b)
      PROVE  (a \o b)[i] \notin E
  <2>1. i \in 1 .. Len(a) + Len(b)
    OBVIOUS
  <2>2. CASE i <= Len(a)
    <3>1. (a \o b)[i] = a[i] /\ i \in DOMAIN a
      BY <2>1, <2>2
    <3> QED
      BY <3>1 DEF Without
  <2>3. CASE ~ (i <= Len(a))
    <3>1. (a \o b)[i] = b[i - Len(a)] /\ i - Len(a) \in DOMAIN b
      BY <2>1, <2>3
    <3> QED
      BY <3>1 DEF Without
  <2> QED
    BY <2>2, <2>3
<1> QED
  BY <1>1 DEF Without

\* All texts of a list are without a byte.
AllWithout(t, b) == \A i \in DOMAIN t : Without(t[i], {b})

\* ... and one more is.
LEMMA AllWithoutAppend ==
    ASSUME NEW D, NEW b, NEW t \in Seq(Seq(D)), NEW q \in Seq(D)
    PROVE  AllWithout(Append(t, q), b) <=> AllWithout(t, b) /\ Without(q, {b})
<1> DEFINE n == Len(t)  r == Append(t, q)
<1>1. n \in Nat /\ DOMAIN t = 1 .. n /\ DOMAIN r = 1 .. n + 1 /\ r[n + 1] = q /\ \A i \in 1 .. n : r[i] = t[i]
  OBVIOUS
<1> HIDE DEF n, r
<1>2. \A i \in 1 .. n + 1 : i = n + 1 \/ i \in 1 .. n
  BY <1>1
<1>3. \A i \in 1 .. n : i \in 1 .. n + 1
  BY <1>1
<1>4. n + 1 \in 1 .. n + 1
  BY <1>1
<1>5. AllWithout(r, b) <=> AllWithout(t, b) /\ Without(q, {b})
  BY <1>1, <1>2, <1>3, <1>4 DEF AllWithout
<1> QED
  BY <1>5 DEF r

\* A list of texts whose last one goes on.
Extended(list, q) == [list EXCEPT ![Len(list)] = @ \o q]

\* It goes on by one text after the other.
LEMMA ExtendedFacts ==
    ASSUME NEW D, NEW list \in Seq(Seq(D)), Len(list) > 0, NEW q \in Seq(D)
    PROVE  /\ Extended(list, q) \in Seq(Seq(D)) /\ Len(Extended(list, q)) = Len(list)
           /\ Extended(list, <<>>) = list
           /\ \A c \in D : Extended(Extended(list, q), <<c>>) = Extended(list, Append(q, c))
<1> DEFINE n == Len(list)  P == Seq(D)
<1>1. n \in Nat /\ n \in 1 .. n /\ list \in [1 .. n -> P]
  OBVIOUS
<1>2. ASSUME NEW f \in [1 .. n -> P], NEW r \in P
      PROVE  [f EXCEPT ![n] = @ \o r] \in [1 .. n -> P]
  <2> DEFINE v == f[n] \o r
  <2>1. f[n] \in P
    BY <1>1
  <2>2. v \in P
    BY <2>1
  <2>3. [f EXCEPT ![n] = @ \o r] = [f EXCEPT ![n] = v]
    OBVIOUS
  <2> HIDE DEF v, P, n
  <2>4. [f EXCEPT ![n] = v] \in [1 .. n -> P]
    BY <2>2
  <2> QED
    BY <2>3, <2>4
<1>3. \A f \in [1 .. n -> P] : f \in Seq(P) /\ Len(f) = n
  <2> HIDE DEF n, P
  <2> QED
    BY <1>1, FunctionIsSeq
<1>4. Extended(list, q) \in [1 .. n -> P] /\ Len(Extended(list, q)) = n
  BY <1>1, <1>2, <1>3 DEF Extended
<1>5. Extended(list, <<>>) = list
  <2>1. list[n] \o <<>> = list[n]
    BY <1>1
  <2> QED
    BY <1>1, <2>1 DEF Extended
<1>6. ASSUME NEW c \in D
      PROVE  Extended(Extended(list, q), <<c>>) = Extended(list, Append(q, c))
  <2>1. (list[n] \o q) \o <<c>> = list[n] \o Append(q, c)
    <3> DEFINE l == list[n]
    <3>1. l \in Seq(D)
      BY <1>1
    <3> HIDE DEF l
    <3>2. l \o Append(q, c) = Append(l \o q, c)
      BY <3>1
    <3>3. (l \o q) \o <<c>> = Append(l \o q, c)
      <4>1. l \o q \in Seq(D)
        BY <3>1
      <4>2. \A v \in Seq(D) : v \o <<c>> = Append(v, c)
        OBVIOUS
      <4> QED
        BY <4>1, <4>2
    <3> QED
      BY <3>2, <3>3 DEF l
  <2> DEFINE e == Extended(list, q)
  <2>2. e = [list EXCEPT ![n] = list[n] \o q] /\ Len(e) = n
    BY <1>4 DEF Extended
  <2> HIDE DEF e
  <2>3. Extended(e, <<c>>) = [e EXCEPT ![n] = e[n] \o <<c>>]
    BY <2>2 DEF Extended
  <2>4. e[n] = list[n] \o q
    BY <1>1, <2>2
  <2>5. Extended(e, <<c>>) = [list EXCEPT ![n] = (list[n] \o q) \o <<c>>]
    BY <1>1, <2>2, <2>3, <2>4
  <2> QED
    BY <2>1, <2>5 DEF Extended, e
<1> QED
  BY <1>3, <1>4, <1>5, <1>6

\* A text that has just begun goes on.
LEMMA ExtendedNew ==
    ASSUME NEW D, NEW list \in Seq(Seq(D)), NEW q \in Seq(D)
    PROVE  Extended(Append(list, <<>>), q) = Append(list, q)
<1> DEFINE n == Len(list)  a == Append(list, <<>>)  b == Append(list, q)  P == Seq(D)
<1>1. n \in Nat /\ a \in Seq(P) /\ b \in Seq(P) /\ Len(a) = n + 1 /\ Len(b) = n + 1
  OBVIOUS
<1>2. a[n + 1] = <<>> /\ b[n + 1] = q /\ \A i \in 1 .. n : a[i] = b[i]
  OBVIOUS
<1> HIDE DEF n, a, b
<1>3. DOMAIN a = 1 .. n + 1 /\ DOMAIN b = 1 .. n + 1 /\ n + 1 \in 1 .. n + 1
  BY <1>1
<1>4. a[n + 1] \o q = q
  BY <1>2
<1>5. Extended(a, q) = [i \in 1 .. n + 1 |-> IF i = n + 1 THEN q ELSE a[i]]
  BY <1>1, <1>3, <1>4 DEF Extended
<1>6. b = [i \in 1 .. n + 1 |-> b[i]]
  BY <1>1, <1>3
<1>7. \A i \in 1 .. n + 1 : i # n + 1 => i \in 1 .. n
  BY <1>1
<1>8. Extended(a, q) = b
  BY <1>2, <1>5, <1>6, <1>7
<1> QED
  BY <1>8 DEF a, b

\* The places of a concatenation.
LEMMA ConcatPlaces ==
    ASSUME NEW P, NEW x \in Seq(P), NEW y \in Seq(P)
    PROVE  /\ x \o y \in Seq(P) /\ Len(x \o y) = Len(x) + Len(y)
           /\ \A i \in 1 .. Len(x) : (x \o y)[i] = x[i]
           /\ \A i \in 1 .. Len(y) : (x \o y)[Len(x) + i] = y[i]
OBVIOUS

\* The places of a sequence without its first element.
LEMMA TailFacts ==
    ASSUME NEW M, NEW s \in Seq(M), s # <<>>
    PROVE  /\ Tail(s) \in Seq(M) /\ Len(Tail(s)) = Len(s) - 1
           /\ \A i \in DOMAIN Tail(s) :
                i \in Nat /\ i + 1 \in DOMAIN s /\ Tail(s)[i] = s[i + 1]
OBVIOUS
\* Texts, each but the first with the separator before it.
Separated(texts, between) == [i \in DOMAIN texts |-> IF i = 1 THEN texts[i] ELSE between \o texts[i]]

\* What one text more adds.
LastPiece(texts, q, between) == IF texts = <<>> THEN q ELSE between \o q

\* One text more.
LEMMA SeparatedAppend ==
    ASSUME NEW D, NEW texts \in Seq(Seq(D)), NEW q \in Seq(D), NEW between \in Seq(D)
    PROVE  /\ Separated(texts, between) \in Seq(Seq(D)) /\ LastPiece(texts, q, between) \in Seq(D)
           /\ Separated(Append(texts, q), between)
                = Append(Separated(texts, between), LastPiece(texts, q, between))
<1> DEFINE last == LastPiece(texts, q, between)
           n == Len(texts)  r == Append(texts, q)  g == Separated(r, between)
           f == [i \in 1 .. n |-> g[i]]  P == Seq(D)
<1>1. n \in Nat /\ DOMAIN r = 1 .. n + 1 /\ r[n + 1] = q /\ DOMAIN texts = 1 .. n
      /\ \A i \in 1 .. n : r[i] = texts[i]
  OBVIOUS
<1>2. \A i \in 1 .. n + 1 : r[i] \in P
  <2>1. r \in Seq(P)
    OBVIOUS
  <2> QED
    BY <1>1, <2>1
<1>3. texts = <<>> <=> n = 0
  OBVIOUS
<1>4. last \in P
  BY DEF LastPiece
<1>5. \A x \in P : between \o x \in P
  OBVIOUS
<1> HIDE DEF r, n, P
<1>6. g \in [1 .. n + 1 -> P] /\ g[n + 1] = last /\ f = Separated(texts, between)
  <2>1. n + 1 \in 1 .. n + 1 /\ (n + 1 = 1 <=> texts = <<>>)
    BY <1>1, <1>3
  <2>2. g \in [1 .. n + 1 -> P]
    BY <1>1, <1>2, <1>5 DEF Separated
  <2>3. g[n + 1] = last
    BY <1>1, <2>1 DEF Separated, LastPiece
  <2>4. f = Separated(texts, between)
    BY <1>1 DEF Separated
  <2> QED
    BY <2>2, <2>3, <2>4
<1> HIDE DEF g
<1>7. f \in Seq(P) /\ g = Append(f, g[n + 1])
  BY <1>1, <1>6, AppendLast
<1> HIDE DEF f
<1>8. Separated(texts, between) \in Seq(Seq(D)) /\ last \in Seq(D)
      /\ Separated(Append(texts, q), between) = Append(Separated(texts, between), last)
  BY <1>4, <1>6, <1>7 DEF P, g, r
<1> QED
  BY <1>8

================================================================================
