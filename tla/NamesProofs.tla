---------------------------- MODULE NamesProofs ----------------------------
(* Proofs about Registration: two keys are the same text exactly when they    *)
(* name the same value, for all texts over every alphabet.                    *)
EXTENDS Registration, SequenceTheorems, FiniteSetTheorems, WellFoundedInduction, TLAPS

-----------------------------------------------------------------------------
(* Sequences *)

\* Every nonempty set of naturals has a least element: what the inductions
\* below rest on.
LEMMA LeastNat ==
    ASSUME NEW T \in SUBSET Nat, T # {}
    PROVE  \E x \in T : \A y \in T : x <= y
<1> DEFINE R == OpToRel(<, Nat)
<1>1. \A x, y \in Nat : <<y, x>> \in R <=> y < x
  BY DEF OpToRel
<1>2. IsWellFoundedOn(R, Nat)
  BY NatLessThanWellFounded, Zenon
<1> HIDE DEF R
<1>3. PICK x \in T : \A y \in T : ~ (<<y, x>> \in R)
  BY <1>2, WFMin, Zenon
<1>4. ASSUME NEW y \in T
      PROVE  x <= y
  <2>1. x \in Nat /\ y \in Nat /\ ~ (y < x)
    BY <1>1, <1>3, Zenon
  <2> QED BY <2>1
<1> QED BY <1>4

\* What FlattenSeq builds on the way: the concatenations of the first parts.
Flattening(seqs, n, f) ==
    f = [i \in 1 .. n |-> IF i = 1 THEN seqs[i] ELSE f[i - 1] \o seqs[i]]

\* The function that FlattenSeq defines by recursion exists.
LEMMA FlatteningExists ==
    ASSUME NEW seqs, NEW n \in Nat
    PROVE  \E f : Flattening(seqs, n, f)
<1> DEFINE T == {k \in Nat : ~ \E f : Flattening(seqs, k, f)}
<1>1. SUFFICES T = {}
  OBVIOUS
<1>2. SUFFICES ASSUME T # {} PROVE FALSE
  OBVIOUS
<1>3. PICK m \in T : \A y \in T : m <= y
  BY <1>2, LeastNat, Zenon
<1>4. m # 0
  <2>1. Flattening(seqs, 0, [i \in {} |-> 0])
    BY DEF Flattening
  <2> QED BY <2>1
<1>5. PICK f : Flattening(seqs, m - 1, f)
  <2>1. m - 1 \in Nat /\ m - 1 \notin T
    BY <1>3, <1>4
  <2> QED BY <2>1
<1> DEFINE g == [i \in 1 .. m |-> IF i = m THEN (IF m = 1 THEN seqs[m] ELSE f[m - 1] \o seqs[m]) ELSE f[i]]
<1>6. Flattening(seqs, m, g)
  <2>1. ASSUME NEW i \in 1 .. m
        PROVE  g[i] = IF i = 1 THEN seqs[i] ELSE g[i - 1] \o seqs[i]
    <3>1. CASE i = m
      BY <3>1, <1>4
    <3>2. CASE i # m
      <4>1. i \in 1 .. m - 1 /\ (i # 1 => i - 1 \in 1 .. m /\ i - 1 # m)
        BY <3>2, <1>3
      <4>2. f[i] = IF i = 1 THEN seqs[i] ELSE f[i - 1] \o seqs[i]
        BY <4>1, <1>5, Zenon DEF Flattening
      <4> QED BY <4>1, <4>2, <3>2
    <3> QED BY <3>1, <3>2
  <2>2. g = [i \in 1 .. m |-> g[i]]
    OBVIOUS
  <2> HIDE DEF g
  <2> QED BY <2>1, <2>2, Zenon DEF Flattening
<1> QED BY <1>6, <1>3

\* FlattenSeq ends with all parts concatenated.
LEMMA FlattenSeqIs ==
    ASSUME NEW seqs, Len(seqs) \in Nat \ {0}
    PROVE  \E f : Flattening(seqs, Len(seqs), f) /\ FlattenSeq(seqs) = f[Len(seqs)]
<1> DEFINE F == CHOOSE f : f = [i \in 1 .. Len(seqs) |-> IF i = 1 THEN seqs[i] ELSE f[i - 1] \o seqs[i]]
<1>1. FlattenSeq(seqs) = F[Len(seqs)]
  <2>1. Len(seqs) # 0 OBVIOUS
  <2> QED BY <2>1, Zenon DEF FlattenSeq
<1>2. \E f : f = [i \in 1 .. Len(seqs) |-> IF i = 1 THEN seqs[i] ELSE f[i - 1] \o seqs[i]]
  BY FlatteningExists, Zenon DEF Flattening
<1>3. F = [i \in 1 .. Len(seqs) |-> IF i = 1 THEN seqs[i] ELSE F[i - 1] \o seqs[i]]
  BY <1>2, Zenon
<1> HIDE DEF F
<1> QED BY <1>1, <1>3, Zenon DEF Flattening

\* f[i] is the concatenation of the first i of seqs, sequences over A.
Concatenations(A, seqs, f) ==
    /\ f \in [0 .. Len(seqs) -> Seq(A)]
    /\ f[0] = <<>>
    /\ \A i \in 1 .. Len(seqs) : f[i] = f[i - 1] \o seqs[i]

\* FlattenSeq concatenates, one part after the other.
LEMMA FlattenSeqConcatenates ==
    ASSUME NEW A, NEW seqs \in Seq(Seq(A))
    PROVE  \E f : Concatenations(A, seqs, f) /\ FlattenSeq(seqs) = f[Len(seqs)]
<1>1. CASE Len(seqs) = 0
  <2> DEFINE f == [i \in 0 .. 0 |-> <<>>]
  <2>1. seqs = <<>> /\ FlattenSeq(seqs) = seqs
    BY <1>1, Zenon, EmptySeq DEF FlattenSeq
  <2>2. Concatenations(A, seqs, f)
    BY <1>1 DEF Concatenations
  <2> QED BY <2>1, <2>2, <1>1
<1>2. CASE Len(seqs) # 0
  <2> DEFINE n == Len(seqs)
  <2>1. n \in Nat \ {0} /\ \A i \in 1 .. n : seqs[i] \in Seq(A)
    BY <1>2
  <2>2. PICK g : Flattening(seqs, n, g) /\ FlattenSeq(seqs) = g[n]
    BY <2>1, FlattenSeqIs
  <2> HIDE DEF n
  <2>3. \A i \in 1 .. n : g[i] = IF i = 1 THEN seqs[i] ELSE g[i - 1] \o seqs[i]
    BY <2>2, Zenon DEF Flattening
  <2>4. \A i \in 1 .. n : g[i] \in Seq(A)
    <3> DEFINE T == {i \in 1 .. n : g[i] \notin Seq(A)}
    <3>1. SUFFICES ASSUME T # {} PROVE FALSE
      OBVIOUS
    <3>2. PICK m \in T : \A y \in T : m <= y
      <4>1. T \in SUBSET Nat
        BY <2>1
      <4> QED BY <4>1, <3>1, LeastNat, Zenon
    <3>3. m # 1
      BY <2>1, <2>3
    <3>4. m - 1 \in 1 .. n /\ m - 1 \notin T
      BY <2>1, <3>2, <3>3
    <3>5. g[m - 1] \in Seq(A) /\ seqs[m] \in Seq(A) /\ g[m] = g[m - 1] \o seqs[m]
      BY <2>1, <2>3, <3>3, <3>4, Zenon
    <3> QED BY <3>5, ConcatProperties, Zenon
  <2> DEFINE f == [i \in 0 .. n |-> IF i = 0 THEN <<>> ELSE g[i]]
  <2>5. f \in [0 .. n -> Seq(A)] /\ f[0] = <<>> /\ f[n] = g[n]
    BY <2>1, <2>4
  <2>6. ASSUME NEW i \in 1 .. n
        PROVE  f[i] = f[i - 1] \o seqs[i]
    <3>1. CASE i = 1
      <4>1. f[1] = seqs[1] /\ f[0] = <<>> /\ seqs[1] \in Seq(A)
        BY <2>1, <2>3
      <4>2. <<>> \o seqs[1] = seqs[1]
        BY <4>1, ConcatEmptySeq
      <4>3. i - 1 = 0
        BY <3>1
      <4> HIDE DEF f
      <4> QED BY <4>1, <4>2, <4>3, <3>1, Zenon
    <3>2. CASE i # 1
      <4>1. i - 1 \in 1 .. n /\ f[i] = g[i] /\ f[i - 1] = g[i - 1]
        BY <3>2, <2>1
      <4>2. g[i] = g[i - 1] \o seqs[i]
        BY <3>2, <2>3, Zenon
      <4> HIDE DEF f
      <4> QED BY <4>1, <4>2
    <3> QED BY <3>1, <3>2, Zenon
  <2> HIDE DEF f
  <2> QED BY <2>2, <2>5, <2>6 DEF Concatenations, n
<1> QED BY <1>1, <1>2

\* A concatenation ends with its second part.
LEMMA LastOfConcat ==
    ASSUME NEW S, NEW x \in Seq(S), NEW b \in Seq(S), Len(b) > 0
    PROVE  x \o b # <<>> /\ (x \o b)[Len(x \o b)] = b[Len(b)]
<1> DEFINE p == Len(x)
           q == Len(b)
<1>1. /\ p \in Nat /\ q \in Nat /\ Len(x \o b) = p + q
      /\ \A i \in 1 .. p + q : (x \o b)[i] = IF i <= p THEN x[i] ELSE b[i - p]
  BY ConcatProperties, LenProperties
<1>2. q > 0
  OBVIOUS
<1> HIDE DEF p, q
<1>3. p + q \in 1 .. p + q /\ ~ (p + q <= p) /\ (p + q) - p = q /\ p + q # 0
  BY <1>1, <1>2
<1>4. (x \o b)[p + q] = b[q]
  BY <1>1, <1>3
<1> QED BY <1>1, <1>3, <1>4 DEF q

\* Concatenation, as an operator that the provers leave alone.
Glued(x, u) == x \o u

\* Concatenation is associative, and loses nothing when one part is known.
LEMMA GluedTexts ==
    ASSUME NEW S, NEW s \in Seq(S), NEW t \in Seq(S), NEW u \in Seq(S)
    PROVE  /\ Glued(s, t) \in Seq(S)
           /\ Glued(Glued(s, t), u) = Glued(s, Glued(t, u))
           /\ Glued(s, t) = Glued(s, u) => t = u
           /\ Glued(s, u) = Glued(t, u) => s = t
<1>1. s \o t \in Seq(S)
  BY ConcatProperties
<1>2. (s \o t) \o u = s \o (t \o u)
  BY ConcatAssociative
<1>3. s \o t = s \o u => t = u
  BY ConcatSimplifications, Zenon
<1>4. s \o u = t \o u => s = t
  BY ConcatSimplifications, Zenon
<1> QED BY <1>1, <1>2, <1>3, <1>4, Zenon DEF Glued

\* A text that begins another is where the other begins.
LEMMA GluedBegins ==
    ASSUME NEW S, NEW s \in Seq(S), NEW t \in Seq(S), Len(s) >= 1
    PROVE  Len(Glued(s, t)) >= 1 /\ Glued(s, t)[1] = s[1]
<1>1. Len(s \o t) = Len(s) + Len(t) /\ Len(s) \in Nat /\ Len(t) \in Nat
  BY ConcatProperties, LenProperties
<1>2. \A i \in 1 .. Len(s) + Len(t) :
          (s \o t)[i] = IF i <= Len(s) THEN s[i] ELSE t[i - Len(s)]
  BY ConcatProperties
<1> QED BY <1>1, <1>2 DEF Glued

\* text holds no symbol of D; it is empty or begins with one.
Free(D, text) == \A i \in 1 .. Len(text) : text[i] \notin D
Opens(D, text) == text = <<>> \/ text[1] \in D

\* Two concatenations are equal only if their first parts are, when these hold
\* no symbol of D and the second parts are empty or begin with one.
LEMMA FirstSplit ==
    ASSUME NEW S, NEW D, NEW x \in Seq(S), NEW y \in Seq(S), NEW u \in Seq(S),
           NEW v \in Seq(S), Free(D, x), Free(D, y), Opens(D, u), Opens(D, v),
           Glued(x, u) = Glued(y, v)
    PROVE  x = y /\ u = v
<1> USE DEF Free, Opens, Glued
<1>1. /\ Len(x) \in Nat /\ Len(y) \in Nat /\ Len(u) \in Nat /\ Len(v) \in Nat
      /\ Len(x) + Len(u) = Len(y) + Len(v)
      /\ \A i \in 1 .. Len(x) + Len(u) :
            (IF i <= Len(x) THEN x[i] ELSE u[i - Len(x)])
                = IF i <= Len(y) THEN y[i] ELSE v[i - Len(y)]
  BY ConcatProperties, LenProperties
<1>2. ~ (Len(x) < Len(y))
  <2>1. SUFFICES ASSUME Len(x) < Len(y) PROVE FALSE
    OBVIOUS
  <2>2. Len(u) > 0 /\ u[1] = y[Len(x) + 1] /\ Len(x) + 1 \in 1 .. Len(y)
    BY <1>1, <2>1
  <2> QED BY <2>2, EmptySeq
<1>3. ~ (Len(y) < Len(x))
  <2>1. SUFFICES ASSUME Len(y) < Len(x) PROVE FALSE
    OBVIOUS
  <2>2. Len(v) > 0 /\ v[1] = x[Len(y) + 1] /\ Len(y) + 1 \in 1 .. Len(x)
    BY <1>1, <2>1
  <2> QED BY <2>2, EmptySeq
<1>4. Len(x) = Len(y) /\ Len(u) = Len(v)
  BY <1>1, <1>2, <1>3
<1>5. \A i \in 1 .. Len(x) : x[i] = y[i]
  BY <1>1, <1>4
<1>6. ASSUME NEW i \in 1 .. Len(u) PROVE u[i] = v[i]
  <2>1. Len(x) + i \in 1 .. Len(x) + Len(u) /\ (Len(x) + i) - Len(x) = i /\ ~ (Len(x) + i <= Len(x))
    BY <1>1
  <2> QED BY <1>1, <1>4, <2>1, Zenon
<1> QED BY <1>4, <1>5, <1>6, SeqEqual

\* u begins with its only symbol of D.
Led(D, u) == Len(u) > 0 /\ \A i \in 1 .. Len(u) : u[i] \in D <=> i = 1

\* Two concatenations are equal only if their second parts are, when each of
\* these begins with its only symbol of D.
LEMMA LastSplit ==
    ASSUME NEW S, NEW D, NEW x \in Seq(S), NEW y \in Seq(S), NEW u \in Seq(S),
           NEW v \in Seq(S), Led(D, u), Led(D, v), Glued(x, u) = Glued(y, v)
    PROVE  x = y /\ u = v
<1> USE DEF Led, Glued
<1>1. /\ Len(x) \in Nat /\ Len(y) \in Nat /\ Len(u) \in Nat /\ Len(v) \in Nat
      /\ Len(x) + Len(u) = Len(y) + Len(v)
      /\ \A i \in 1 .. Len(x) + Len(u) :
            (IF i <= Len(x) THEN x[i] ELSE u[i - Len(x)])
                = IF i <= Len(y) THEN y[i] ELSE v[i - Len(y)]
  BY ConcatProperties, LenProperties
<1>2. ~ (Len(x) < Len(y))
  <2>1. SUFFICES ASSUME Len(x) < Len(y) PROVE FALSE
    OBVIOUS
  <2>2. /\ Len(y) + 1 - Len(x) \in 1 .. Len(u) /\ Len(y) + 1 - Len(x) # 1
        /\ u[Len(y) + 1 - Len(x)] = v[1] /\ 1 \in 1 .. Len(v)
    BY <1>1, <2>1
  <2> QED BY <2>2
<1>3. ~ (Len(y) < Len(x))
  <2>1. SUFFICES ASSUME Len(y) < Len(x) PROVE FALSE
    OBVIOUS
  <2>2. /\ Len(x) + 1 - Len(y) \in 1 .. Len(v) /\ Len(x) + 1 - Len(y) # 1
        /\ v[Len(x) + 1 - Len(y)] = u[1] /\ 1 \in 1 .. Len(u)
    BY <1>1, <2>1
  <2> QED BY <2>2
<1>4. Len(x) = Len(y) /\ Len(u) = Len(v)
  BY <1>1, <1>2, <1>3
<1>5. \A i \in 1 .. Len(x) : x[i] = y[i]
  BY <1>1, <1>4
<1>6. ASSUME NEW i \in 1 .. Len(u) PROVE u[i] = v[i]
  <2>1. Len(x) + i \in 1 .. Len(x) + Len(u) /\ (Len(x) + i) - Len(x) = i /\ ~ (Len(x) + i <= Len(x))
    BY <1>1
  <2> QED BY <1>1, <1>4, <2>1, Zenon
<1> QED BY <1>4, <1>5, <1>6, SeqEqual

-----------------------------------------------------------------------------
(* Components *)

\* What stands for one character.
BlockOf(ch) == IF ch \in Delimiters THEN <<"%", HexOf(ch)>> ELSE <<ch>>

\* The symbols of encoded text, and those of keys.
Codes == {HexOf(ch) : ch \in Delimiters}
Safe == (Characters \ Delimiters) \cup {"%"} \cup Codes
Symbols == Characters \cup Delimiters \cup Codes \cup {"dialcache-frame-v1", "watermark"}

\* Different delimiters have different escapes, which hold no delimiter.
LEMMA EscapesAreExact ==
    /\ \A c, d \in Delimiters : HexOf(c) = HexOf(d) => c = d
    /\ \A c \in Delimiters : HexOf(c) \notin Delimiters
<1>1. /\ HexOf(":") = "3A" /\ HexOf("?") = "3F" /\ HexOf("&") = "26" /\ HexOf("=") = "3D"
      /\ HexOf("#") = "23" /\ HexOf("{") = "7B" /\ HexOf("}") = "7D" /\ HexOf("%") = "25"
  BY DEF HexOf
<1>2. \A c \in Delimiters : HexOf(c) \notin Delimiters
  BY <1>1, Zenon DEF Delimiters
<1>3. ASSUME NEW c \in Delimiters, NEW d \in Delimiters, HexOf(c) = HexOf(d)
      PROVE  c = d
  <2>1. CASE c \in {":", "?", "&", "="}
    BY <1>1, <1>3, <2>1, Zenon DEF Delimiters
  <2>2. CASE c \in {"#", "{", "}", "%"}
    BY <1>1, <1>3, <2>2, Zenon DEF Delimiters
  <2> QED BY <2>1, <2>2, Zenon DEF Delimiters
<1> QED BY <1>2, <1>3, Zenon

\* Encoded text holds no separator and no brace.
LEMMA SafeSymbols ==
    /\ Safe \subseteq Symbols /\ Delimiters \subseteq Symbols
    /\ \A c \in Safe : c \in Delimiters => c = "%"
<1>1. \A c \in Codes : c \notin Delimiters
  BY EscapesAreExact DEF Codes
<1>2. "%" \in Delimiters
  BY DEF Delimiters
<1> QED BY <1>1, <1>2, Zenon DEF Safe, Symbols

\* A block is one or two symbols, and the last is not the escape character.
LEMMA Blocks ==
    ASSUME NEW c \in Characters
    PROVE  /\ BlockOf(c) \in Seq(Safe)
           /\ Len(BlockOf(c)) = IF c \in Delimiters THEN 2 ELSE 1
           /\ BlockOf(c)[Len(BlockOf(c))] = IF c \in Delimiters THEN HexOf(c) ELSE c
           /\ BlockOf(c)[Len(BlockOf(c))] # "%"
           /\ c \in Delimiters => BlockOf(c)[1] = "%"
<1>1. "%" \in Delimiters
  BY DEF Delimiters
<1>2. CASE c \in Delimiters
  <2>1. HexOf(c) \in Safe /\ "%" \in Safe /\ HexOf(c) # "%"
    BY <1>1, <1>2, EscapesAreExact, Zenon DEF Safe, Codes
  <2>2. BlockOf(c) = <<"%", HexOf(c)>>
    BY <1>2 DEF BlockOf
  <2> QED BY <1>2, <2>1, <2>2
<1>3. CASE c \notin Delimiters
  <2>1. c \in Safe /\ c # "%"
    BY <1>1, <1>3 DEF Safe
  <2>2. BlockOf(c) = <<c>>
    BY <1>3 DEF BlockOf
  <2> QED BY <1>3, <2>1, <2>2
<1> QED BY <1>2, <1>3

\* The text x with the encoding of c.
Extended(x, c) == x \o BlockOf(c)

\* No escape is cut at the end of x.
EndsWell(x) == x = <<>> \/ x[Len(x)] # "%"

\* The last character of an encoded text can be told.
LEMMA BlockSplit ==
    ASSUME NEW x \in Seq(Safe), NEW y \in Seq(Safe), EndsWell(x), EndsWell(y),
           NEW c \in Characters, NEW d \in Characters,
           Extended(x, c) = Extended(y, d)
    PROVE  x = y /\ c = d
<1> DEFINE b == BlockOf(c)
           e == BlockOf(d)
<1>1. /\ b \in Seq(Safe) /\ e \in Seq(Safe)
      /\ Len(b) = IF c \in Delimiters THEN 2 ELSE 1
      /\ b[Len(b)] = IF c \in Delimiters THEN HexOf(c) ELSE c
      /\ c \in Delimiters => b[1] = "%"
      /\ Len(e) = IF d \in Delimiters THEN 2 ELSE 1
      /\ e[Len(e)] = IF d \in Delimiters THEN HexOf(d) ELSE d
      /\ d \in Delimiters => e[1] = "%"
      /\ x \o b = y \o e
  BY Blocks DEF Extended
<1> HIDE DEF b, e
<1>2. /\ Len(x) \in Nat /\ Len(y) \in Nat
      /\ Len(x) + Len(b) = Len(y) + Len(e)
      /\ \A i \in 1 .. Len(x) + Len(b) :
            (IF i <= Len(x) THEN x[i] ELSE b[i - Len(x)])
                = IF i <= Len(y) THEN y[i] ELSE e[i - Len(y)]
  <2>1. x \o b = y \o e /\ b \in Seq(Safe) /\ e \in Seq(Safe)
    BY <1>1
  <2> QED BY <2>1, ConcatProperties, LenProperties
<1>3. ~ (c \in Delimiters /\ d \notin Delimiters)
  <2>1. SUFFICES ASSUME c \in Delimiters, d \notin Delimiters PROVE FALSE
    OBVIOUS
  <2>2. Len(b) = 2 /\ Len(e) = 1 /\ b[1] = "%"
    BY <1>1, <2>1
  <2>3. Len(y) = Len(x) + 1 /\ Len(y) \in 1 .. Len(x) + Len(b)
    BY <1>2, <2>2
  <2>4. y[Len(y)] = "%"
    BY <1>2, <2>2, <2>3
  <2> QED BY <2>3, <2>4, <1>2, EmptySeq DEF EndsWell
<1>4. ~ (d \in Delimiters /\ c \notin Delimiters)
  <2>1. SUFFICES ASSUME d \in Delimiters, c \notin Delimiters PROVE FALSE
    OBVIOUS
  <2>2. Len(e) = 2 /\ Len(b) = 1 /\ e[1] = "%"
    BY <1>1, <2>1
  <2>3. Len(x) = Len(y) + 1 /\ Len(x) \in 1 .. Len(x) + Len(b)
    BY <1>2, <2>2
  <2>4. x[Len(x)] = "%"
    BY <1>2, <2>2, <2>3
  <2> QED BY <2>3, <2>4, <1>2, EmptySeq DEF EndsWell
<1>5. Len(b) = Len(e) /\ Len(x) = Len(y) /\ Len(b) \in {1, 2}
  BY <1>1, <1>2, <1>3, <1>4
<1>6. b[Len(b)] = e[Len(e)]
  <2>1. (x \o b)[Len(x \o b)] = b[Len(b)] /\ (y \o e)[Len(y \o e)] = e[Len(e)]
    <3>1. Len(b) > 0 /\ Len(e) > 0 /\ b \in Seq(Safe) /\ e \in Seq(Safe)
      BY <1>1
    <3> QED BY <3>1, LastOfConcat
  <2> QED BY <1>1, <2>1
<1>7. c = d
  BY <1>1, <1>3, <1>4, <1>6, EscapesAreExact, Zenon
<1>8. \A i \in 1 .. Len(x) : x[i] = y[i]
  BY <1>2, <1>5
<1> QED BY <1>5, <1>7, <1>8, SeqEqual

\* f[i] is the encoding of the first i characters of t.
EncodingOf(t, f) ==
    /\ f \in [0 .. Len(t) -> Seq(Safe)]
    /\ f[0] = <<>>
    /\ \A i \in 1 .. Len(t) : f[i] = f[i - 1] \o BlockOf(t[i])

\* encodeComponent encodes one character after the other.
LEMMA EncodingExists ==
    ASSUME NEW t \in Texts
    PROVE  \E f : EncodingOf(t, f) /\ encodeComponent(t) = f[Len(t)]
<1> DEFINE seqs == [i \in DOMAIN t |-> BlockOf(t[i])]
<1>1. Len(t) \in Nat /\ DOMAIN t = 1 .. Len(t) /\ \A i \in 1 .. Len(t) : t[i] \in Characters
  BY DEF Texts
<1>2. \A i \in 1 .. Len(t) : BlockOf(t[i]) \in Seq(Safe)
  BY <1>1, Blocks
<1>3. seqs \in Seq(Seq(Safe)) /\ Len(seqs) = Len(t)
  BY <1>1, <1>2
<1>4. PICK f : Concatenations(Safe, seqs, f) /\ FlattenSeq(seqs) = f[Len(seqs)]
  <2> HIDE DEF seqs
  <2> QED BY <1>3, FlattenSeqConcatenates
<1>5. encodeComponent(t) = FlattenSeq(seqs)
  BY Zenon DEF encodeComponent, BlockOf
<1>6. \A i \in 1 .. Len(t) : seqs[i] = BlockOf(t[i])
  BY <1>1
<1> HIDE DEF seqs
<1> QED BY <1>3, <1>4, <1>5, <1>6, Zenon DEF Concatenations, EncodingOf

\* An encoding is empty or does not end with the escape character.
LEMMA EncodingEnds ==
    ASSUME NEW t \in Texts, NEW f, EncodingOf(t, f), NEW m \in 0 .. Len(t)
    PROVE  /\ f[m] \in Seq(Safe)
           /\ EndsWell(f[m])
           /\ m # 0 => /\ m - 1 \in 0 .. Len(t) /\ f[m - 1] \in Seq(Safe)
                       /\ t[m] \in Characters
                       /\ f[m] = f[m - 1] \o BlockOf(t[m]) /\ f[m] # <<>>
<1>1. Len(t) \in Nat /\ \A i \in 1 .. Len(t) : t[i] \in Characters
  BY DEF Texts
<1>2. f[m] \in Seq(Safe)
  BY DEF EncodingOf
<1>3. CASE m = 0
  BY <1>2, <1>3 DEF EncodingOf, EndsWell
<1>4. CASE m # 0
  <2>1. m \in 1 .. Len(t) /\ m - 1 \in 0 .. Len(t) /\ t[m] \in Characters
    BY <1>1, <1>4
  <2>2. f[m - 1] \in Seq(Safe) /\ f[m] = f[m - 1] \o BlockOf(t[m])
    BY <2>1, Zenon DEF EncodingOf
  <2> DEFINE x == f[m - 1]
             b == BlockOf(t[m])
  <2>3. /\ b \in Seq(Safe) /\ Len(b) > 0 /\ b[Len(b)] # "%"
        /\ x \in Seq(Safe) /\ f[m] = x \o b
    <3>1. \A c \in Characters : /\ BlockOf(c) \in Seq(Safe) /\ Len(BlockOf(c)) > 0
                                /\ BlockOf(c)[Len(BlockOf(c))] # "%"
      BY Blocks
    <3> QED BY <2>1, <2>2, <3>1, Zenon
  <2> HIDE DEF x, b
  <2>4. x \o b # <<>> /\ (x \o b)[Len(x \o b)] = b[Len(b)]
    BY <2>3, LastOfConcat
  <2>5. f[m] # <<>> /\ f[m][Len(f[m])] # "%"
    BY <2>3, <2>4
  <2> QED BY <1>2, <2>1, <2>2, <2>5, Zenon DEF EndsWell
<1> QED BY <1>3, <1>4, Zenon

\* Equal encodings are of equal texts.
LEMMA EncodingsMatch ==
    ASSUME NEW s \in Texts, NEW t \in Texts, NEW f, NEW g,
           EncodingOf(s, f), EncodingOf(t, g)
    PROVE  \A m \in 0 .. Len(s), n \in 0 .. Len(t) :
               f[m] = g[n] => m = n /\ \A i \in 1 .. m : s[i] = t[i]
<1> DEFINE Agree(m, n) == m = n /\ \A i \in 1 .. m : s[i] = t[i]
           T == {m \in 0 .. Len(s) : \E n \in 0 .. Len(t) : f[m] = g[n] /\ ~ Agree(m, n)}
<1>1. SUFFICES ASSUME T # {} PROVE FALSE
  OBVIOUS
<1>2. Len(s) \in Nat /\ Len(t) \in Nat
  BY DEF Texts
<1>3. PICK m \in T : \A y \in T : m <= y
  <2>1. T \in SUBSET Nat
    BY <1>2
  <2> QED BY <2>1, <1>1, LeastNat, Zenon
<1>4. PICK n \in 0 .. Len(t) : f[m] = g[n] /\ ~ Agree(m, n)
  OBVIOUS
<1>5. m \in 0 .. Len(s)
  OBVIOUS
<1>6. m # 0 /\ n # 0
  <2>1. m = 0 => f[m] = <<>>
    BY DEF EncodingOf
  <2>2. n = 0 => g[n] = <<>>
    BY DEF EncodingOf
  <2>3. m # 0 => f[m] # <<>>
    BY <1>5, EncodingEnds, Zenon
  <2>4. n # 0 => g[n] # <<>>
    BY <1>4, EncodingEnds, Zenon
  <2>5. Agree(0, 0)
    OBVIOUS
  <2> HIDE DEF Agree, T
  <2> QED BY <1>4, <2>1, <2>2, <2>3, <2>4, <2>5, Zenon
<1> HIDE DEF Agree, T
<1>7. /\ m - 1 \in 0 .. Len(s) /\ f[m - 1] \in Seq(Safe) /\ s[m] \in Characters
      /\ f[m] = f[m - 1] \o BlockOf(s[m])
      /\ EndsWell(f[m - 1])
  BY <1>5, <1>6, EncodingEnds, Zenon
<1>8. /\ n - 1 \in 0 .. Len(t) /\ g[n - 1] \in Seq(Safe) /\ t[n] \in Characters
      /\ g[n] = g[n - 1] \o BlockOf(t[n])
      /\ EndsWell(g[n - 1])
  BY <1>4, <1>6, EncodingEnds, Zenon
<1>9. f[m - 1] = g[n - 1] /\ s[m] = t[n]
  <2> DEFINE x == f[m - 1]
             y == g[n - 1]
             c == s[m]
             d == t[n]
  <2>1. /\ x \in Seq(Safe) /\ y \in Seq(Safe) /\ c \in Characters /\ d \in Characters
        /\ EndsWell(x) /\ EndsWell(y)
        /\ Extended(x, c) = Extended(y, d)
    BY <1>4, <1>7, <1>8, Zenon DEF Extended
  <2> HIDE DEF x, y, c, d
  <2>2. x = y /\ c = d
    BY <2>1, BlockSplit
  <2> QED BY <2>2 DEF x, y, c, d
<1>10. Agree(m - 1, n - 1)
  <2>1. m - 1 \notin T
    BY <1>2, <1>3, <1>5, <1>6, <1>7
  <2> QED BY <1>7, <1>8, <1>9, <2>1 DEF T
<1>11. m = n /\ \A i \in 1 .. m : i = m \/ i \in 1 .. m - 1
  BY <1>2, <1>4, <1>5, <1>10 DEF Agree
<1> QED BY <1>4, <1>9, <1>10, <1>11 DEF Agree

\* encodeComponent escapes every separator and loses nothing.
LEMMA EncodingIsExact ==
    ASSUME NEW s \in Texts
    PROVE  /\ encodeComponent(s) \in Seq(Safe)
           /\ \A t \in Texts : encodeComponent(s) = encodeComponent(t) => s = t
<1>1. PICK f : EncodingOf(s, f) /\ encodeComponent(s) = f[Len(s)]
  BY EncodingExists
<1>2. Len(s) \in 0 .. Len(s)
  BY DEF Texts
<1>3. f[Len(s)] \in Seq(Safe)
  BY <1>1, <1>2 DEF EncodingOf
<1>4. ASSUME NEW t \in Texts, encodeComponent(s) = encodeComponent(t)
      PROVE  s = t
  <2>1. PICK g : EncodingOf(t, g) /\ encodeComponent(t) = g[Len(t)]
    BY EncodingExists
  <2>2. Len(t) \in 0 .. Len(t)
    BY DEF Texts
  <2>3. Len(s) = Len(t) /\ \A i \in 1 .. Len(s) : s[i] = t[i]
    <3>1. \A m \in 0 .. Len(s), n \in 0 .. Len(t) :
              f[m] = g[n] => m = n /\ \A i \in 1 .. m : s[i] = t[i]
      BY <1>1, <2>1, EncodingsMatch
    <3>2. f[Len(s)] = g[Len(t)]
      BY <1>1, <1>4, <2>1
    <3> QED BY <1>2, <2>2, <3>1, <3>2, Zenon
  <2> QED BY <2>3, SeqEqual DEF Texts
<1> QED BY <1>1, <1>3, <1>4

-----------------------------------------------------------------------------
(* Joined components *)

\* text holds no separator.
Without(text, separator) == \A i \in 1 .. Len(text) : text[i] # separator

\* None of texts holds one.
Clean(texts, separator) == \A i \in 1 .. Len(texts) : Without(texts[i], separator)

\* A separator and a text without one.
LEMMA SeparatorFirst ==
    ASSUME NEW S, NEW separator \in S, NEW p \in Seq(S), Without(p, separator)
    PROVE  /\ <<separator>> \o p \in Seq(S)
           /\ Len(<<separator>> \o p) > 0
           /\ (<<separator>> \o p)[1] = separator
           /\ Led({separator}, <<separator>> \o p)
<1> DEFINE a == <<separator>>
<1>1. a \in Seq(S) /\ Len(a) = 1 /\ a[1] = separator
  OBVIOUS
<1> HIDE DEF a
<1>2. /\ a \o p \in Seq(S) /\ Len(a \o p) = 1 + Len(p) /\ Len(p) \in Nat
      /\ \A i \in 1 .. 1 + Len(p) : (a \o p)[i] = IF i <= 1 THEN a[i] ELSE p[i - 1]
  <2>1. /\ a \o p \in Seq(S) /\ Len(a \o p) = Len(a) + Len(p) /\ Len(p) \in Nat
        /\ \A i \in 1 .. Len(a) + Len(p) :
              (a \o p)[i] = IF i <= Len(a) THEN a[i] ELSE p[i - Len(a)]
    BY <1>1, ConcatProperties, LenProperties, Zenon
  <2> QED BY <1>1, <2>1, Zenon
<1>3. ASSUME NEW i \in 1 .. Len(a \o p)
      PROVE  (a \o p)[i] \in {separator} <=> i = 1
  <2>1. CASE i = 1
    BY <1>1, <1>2, <2>1
  <2>2. CASE i # 1
    <3>1. i - 1 \in 1 .. Len(p) /\ (a \o p)[i] = p[i - 1]
      BY <1>2, <2>2
    <3> QED BY <2>2, <3>1 DEF Without
  <2> QED BY <2>1, <2>2
<1>4. Len(a \o p) > 0 /\ (a \o p)[1] = separator
  <2>1. 1 \in 1 .. Len(a \o p) /\ Len(a \o p) > 0
    BY <1>2
  <2> QED BY <1>3, <2>1
<1> QED BY <1>2, <1>3, <1>4 DEF a, Led

\* f[i] joins the first i of texts.
JoiningOf(S, texts, separator, f) ==
    /\ f \in [0 .. Len(texts) -> Seq(S)]
    /\ f[1] = texts[1]
    /\ \A i \in 2 .. Len(texts) : f[i] = f[i - 1] \o (<<separator>> \o texts[i])

\* Joined writes a separator before every text but the first.
LEMMA JoiningExists ==
    ASSUME NEW S, NEW separator \in S, NEW texts \in Seq(Seq(S)), Len(texts) > 0
    PROVE  \E f : /\ JoiningOf(S, texts, separator, f)
                  /\ Joined(texts, separator) = f[Len(texts)]
<1> DEFINE seqs == [i \in DOMAIN texts |->
                        IF i = 1 THEN texts[i] ELSE <<separator>> \o texts[i]]
<1>1. /\ Len(texts) \in Nat /\ DOMAIN texts = 1 .. Len(texts)
      /\ \A i \in 1 .. Len(texts) : texts[i] \in Seq(S)
  OBVIOUS
<1>2. ASSUME NEW i \in 1 .. Len(texts)
      PROVE  <<separator>> \o texts[i] \in Seq(S)
  <2>1. <<separator>> \in Seq(S) /\ texts[i] \in Seq(S)
    BY <1>1
  <2> QED BY <2>1, ConcatProperties
<1>3. seqs \in Seq(Seq(S)) /\ Len(seqs) = Len(texts)
  BY <1>1, <1>2
<1>4. /\ seqs[1] = texts[1]
      /\ \A i \in 2 .. Len(texts) : seqs[i] = <<separator>> \o texts[i]
  BY <1>1
<1>5. Joined(texts, separator) = FlattenSeq(seqs)
  BY Zenon DEF Joined
<1> HIDE DEF seqs
<1>6. PICK f : Concatenations(S, seqs, f) /\ FlattenSeq(seqs) = f[Len(seqs)]
  BY <1>3, FlattenSeqConcatenates, Zenon
<1>7. f[1] = texts[1]
  <2>1. f[1] = f[1 - 1] \o seqs[1] /\ f[0] = <<>> /\ 1 - 1 = 0
    <3>1. 1 \in 1 .. Len(seqs) /\ 1 - 1 = 0
      BY <1>1, <1>3
    <3> QED BY <3>1, <1>6, Zenon DEF Concatenations
  <2>2. <<>> \o texts[1] = texts[1]
    <3>1. texts[1] \in Seq(S)
      BY <1>1
    <3> QED BY <3>1, ConcatEmptySeq
  <2> QED BY <1>4, <2>1, <2>2, Zenon
<1>8. \A i \in 2 .. Len(texts) : i \in 1 .. Len(texts)
  BY <1>1
<1>9. \A i \in 2 .. Len(texts) : f[i] = f[i - 1] \o (<<separator>> \o texts[i])
  BY <1>3, <1>4, <1>6, <1>8, Zenon DEF Concatenations
<1> QED BY <1>3, <1>5, <1>6, <1>7, <1>9, Zenon DEF Concatenations, JoiningOf

\* The last of several joined texts can be told.
LEMMA JoiningStep ==
    ASSUME NEW S, NEW separator \in S, NEW texts \in Seq(Seq(S)), NEW f,
           JoiningOf(S, texts, separator, f),
           Clean(texts, separator), NEW m \in 2 .. Len(texts)
    PROVE  /\ m - 1 \in 1 .. Len(texts) /\ f[m - 1] \in Seq(S) /\ texts[m] \in Seq(S)
           /\ f[m] = f[m - 1] \o (<<separator>> \o texts[m])
           /\ ~ Without(f[m], separator)
<1>1. /\ Len(texts) \in Nat /\ m \in 1 .. Len(texts)
      /\ m - 1 \in 1 .. Len(texts) /\ m - 1 \in 0 .. Len(texts)
  OBVIOUS
<1>2. /\ f[m - 1] \in Seq(S) /\ texts[m] \in Seq(S)
      /\ f[m] = f[m - 1] \o (<<separator>> \o texts[m])
  <2>1. f \in [0 .. Len(texts) -> Seq(S)] /\ f[m] = f[m - 1] \o (<<separator>> \o texts[m])
    BY Zenon DEF JoiningOf
  <2>2. texts[m] \in Seq(S)
    BY <1>1
  <2>3. f[m - 1] \in Seq(S)
    BY <1>1, <2>1, Zenon
  <2> QED BY <2>1, <2>2, <2>3
<1> DEFINE x == f[m - 1]
           u == <<separator>> \o texts[m]
<1>3. u \in Seq(S) /\ Len(u) > 0 /\ u[1] = separator /\ x \in Seq(S) /\ f[m] = x \o u
  <2>1. Without(texts[m], separator)
    BY <1>1 DEF Clean
  <2> QED BY <1>2, <2>1, SeparatorFirst, Zenon
<1> HIDE DEF x, u
<1>4. /\ Len(x) \in Nat /\ Len(u) \in Nat /\ Len(x \o u) = Len(x) + Len(u)
      /\ \A i \in 1 .. Len(x) + Len(u) : (x \o u)[i] = IF i <= Len(x) THEN x[i] ELSE u[i - Len(x)]
  BY <1>3, ConcatProperties, LenProperties
<1>5. Len(x) + 1 \in 1 .. Len(x \o u) /\ (x \o u)[Len(x) + 1] = u[1]
  BY <1>3, <1>4
<1>6. ~ Without(x \o u, separator)
  BY <1>3, <1>5, Zenon DEF Without
<1> QED BY <1>1, <1>2, <1>3, <1>6, Zenon

\* Equal joined texts are of equal texts.
LEMMA JoiningsMatch ==
    ASSUME NEW S, NEW separator \in S, NEW s \in Seq(Seq(S)), NEW t \in Seq(Seq(S)),
           NEW f, NEW g, JoiningOf(S, s, separator, f), JoiningOf(S, t, separator, g),
           Clean(s, separator), Clean(t, separator)
    PROVE  \A m \in 1 .. Len(s), n \in 1 .. Len(t) :
               f[m] = g[n] => m = n /\ \A i \in 1 .. m : s[i] = t[i]
<1> DEFINE Agree(m, n) == m = n /\ \A i \in 1 .. m : s[i] = t[i]
           T == {m \in 1 .. Len(s) : \E n \in 1 .. Len(t) : f[m] = g[n] /\ ~ Agree(m, n)}
<1>1. SUFFICES ASSUME T # {} PROVE FALSE
  BY Zenon
<1>2. Len(s) \in Nat /\ Len(t) \in Nat
  OBVIOUS
<1>3. PICK m \in T : \A y \in T : m <= y
  <2>1. T \in SUBSET Nat
    BY <1>2
  <2> QED BY <2>1, <1>1, LeastNat, Zenon
<1>4. PICK n \in 1 .. Len(t) : f[m] = g[n] /\ ~ Agree(m, n)
  OBVIOUS
<1>5. m \in 1 .. Len(s)
  OBVIOUS
<1>6. f[1] = g[1] => Agree(1, 1)
  <2>1. f[1] = s[1] /\ g[1] = t[1]
    BY Zenon DEF JoiningOf
  <2>2. \A i \in 1 .. 1 : i = 1
    OBVIOUS
  <2> QED BY <2>1, <2>2, Zenon
<1> HIDE DEF Agree, T
<1>7. m # 1 => /\ m - 1 \in 1 .. Len(s) /\ f[m - 1] \in Seq(S) /\ s[m] \in Seq(S)
               /\ f[m] = f[m - 1] \o (<<separator>> \o s[m])
               /\ ~ Without(f[m], separator)
  <2>1. m # 1 => m \in 2 .. Len(s)
    BY <1>2, <1>5
  <2> QED BY <2>1, JoiningStep, Zenon
<1>8. n # 1 => /\ n - 1 \in 1 .. Len(t) /\ g[n - 1] \in Seq(S) /\ t[n] \in Seq(S)
               /\ g[n] = g[n - 1] \o (<<separator>> \o t[n])
               /\ ~ Without(g[n], separator)
  <2>1. n # 1 => n \in 2 .. Len(t)
    BY <1>2, <1>4
  <2> QED BY <2>1, JoiningStep, Zenon
<1>9. m # 1 /\ n # 1
  <2>1. m = 1 => Without(f[m], separator)
    BY <1>5, Zenon DEF JoiningOf, Clean
  <2>2. n = 1 => Without(g[n], separator)
    BY <1>4, Zenon DEF JoiningOf, Clean
  <2> QED BY <1>4, <1>6, <1>7, <1>8, <2>1, <2>2, Zenon
<1> DEFINE x == f[m - 1]
           y == g[n - 1]
           p == s[m]
           q == t[n]
<1>10. /\ x \in Seq(S) /\ y \in Seq(S) /\ p \in Seq(S) /\ q \in Seq(S)
       /\ Without(p, separator) /\ Without(q, separator)
       /\ x \o (<<separator>> \o p) = y \o (<<separator>> \o q)
  BY <1>4, <1>5, <1>7, <1>8, <1>9, Zenon DEF Clean
<1> HIDE DEF x, y, p, q
<1>11. x = y /\ p = q
  <2> DEFINE u == <<separator>> \o p
             v == <<separator>> \o q
  <2>1. u \in Seq(S) /\ Led({separator}, u)
    BY <1>10, SeparatorFirst, Zenon
  <2>2. v \in Seq(S) /\ Led({separator}, v)
    BY <1>10, SeparatorFirst, Zenon
  <2>3. Glued(x, u) = Glued(y, v)
    BY <1>10, Zenon DEF Glued
  <2> HIDE DEF u, v
  <2>4. x = y /\ u = v
    <3> DEFINE D == {separator}
    <3>1. Led(D, u) /\ Led(D, v)
      BY <2>1, <2>2
    <3>2. x \in Seq(S) /\ y \in Seq(S) /\ u \in Seq(S) /\ v \in Seq(S)
      BY <1>10, <2>1, <2>2
    <3> HIDE DEF D
    <3> QED BY <2>3, <3>1, <3>2, LastSplit
  <2>5. <<separator>> \in Seq(S)
    OBVIOUS
  <2>6. p = q
    BY <1>10, <2>4, <2>5, ConcatSimplifications, Zenon DEF u, v
  <2> QED BY <2>4, <2>6
<1>12. Agree(m - 1, n - 1)
  <2>1. m - 1 \notin T
    BY <1>2, <1>3, <1>5, <1>7, <1>9
  <2> QED BY <1>7, <1>8, <1>9, <1>11, <2>1 DEF T, x, y
<1>13. m = n /\ \A i \in 1 .. m : i = m \/ i \in 1 .. m - 1
  BY <1>2, <1>4, <1>5, <1>12 DEF Agree
<1> QED BY <1>4, <1>11, <1>12, <1>13 DEF Agree, p, q

\* Joined loses nothing, when no text holds the separator.
LEMMA JoinedIsExact ==
    ASSUME NEW S, NEW separator \in S, NEW s \in Seq(Seq(S)), Len(s) > 0,
           Clean(s, separator)
    PROVE  /\ Joined(s, separator) \in Seq(S)
           /\ \A t \in Seq(Seq(S)) :
                  /\ Len(t) > 0 /\ Clean(t, separator)
                  /\ Joined(s, separator) = Joined(t, separator)
                  => s = t
<1>1. PICK f : JoiningOf(S, s, separator, f) /\ Joined(s, separator) = f[Len(s)]
  BY JoiningExists
<1>2. Len(s) \in 1 .. Len(s) /\ Len(s) \in 0 .. Len(s)
  OBVIOUS
<1>3. f[Len(s)] \in Seq(S)
  BY <1>1, <1>2, Zenon DEF JoiningOf
<1>4. ASSUME NEW t \in Seq(Seq(S)), Len(t) > 0,
             Clean(t, separator),
             Joined(s, separator) = Joined(t, separator)
      PROVE  s = t
  <2>1. PICK g : JoiningOf(S, t, separator, g) /\ Joined(t, separator) = g[Len(t)]
    BY <1>4, JoiningExists, Zenon
  <2>2. Len(t) \in 1 .. Len(t)
    BY <1>4
  <2>3. \A m \in 1 .. Len(s), n \in 1 .. Len(t) :
            f[m] = g[n] => m = n /\ \A i \in 1 .. m : s[i] = t[i]
    BY <1>1, <1>4, <2>1, JoiningsMatch
  <2>4. f[Len(s)] = g[Len(t)]
    BY <1>1, <1>4, <2>1
  <2>5. Len(s) = Len(t) /\ \A i \in 1 .. Len(s) : s[i] = t[i]
    BY <1>2, <2>2, <2>3, <2>4, Zenon
  <2> QED BY <2>5, SeqEqual
<1> QED BY <1>1, <1>3, <1>4

-----------------------------------------------------------------------------
(* Sorted arguments *)

\* No text comes before itself.
LEMMA OrderIrreflexive ==
    ASSUME NEW t \in Texts
    PROVE  ~ compareCodePoints(t, t)
<1>1. \A i \in DOMAIN t : CodeUnits[t[i]] \in Nat
  BY RegistrationAssumption DEF Texts
<1> QED BY <1>1 DEF compareCodePoints

\* The order of code points is transitive.
LEMMA OrderTransitive ==
    ASSUME NEW l \in Texts, NEW m \in Texts, NEW r \in Texts,
           compareCodePoints(l, m), compareCodePoints(m, r)
    PROVE  compareCodePoints(l, r)
<1> DEFINE a == Len(l)
           b == Len(m)
           c == Len(r)
<1>1. /\ a \in Nat /\ DOMAIN l = 1 .. a /\ \A n \in 1 .. a : CodeUnits[l[n]] \in Nat
      /\ b \in Nat /\ DOMAIN m = 1 .. b /\ \A n \in 1 .. b : CodeUnits[m[n]] \in Nat
      /\ c \in Nat /\ DOMAIN r = 1 .. c /\ \A n \in 1 .. c : CodeUnits[r[n]] \in Nat
  BY RegistrationAssumption DEF Texts
<1> HIDE DEF a, b, c
<1>2. PICK i \in 1 .. b : /\ \A j \in 1 .. (i - 1) : j \in 1 .. a /\ l[j] = m[j]
                          /\ i \in 1 .. a => CodeUnits[l[i]] < CodeUnits[m[i]]
  BY <1>1, Zenon DEF compareCodePoints
<1>3. PICK k \in 1 .. c : /\ \A j \in 1 .. (k - 1) : j \in 1 .. b /\ m[j] = r[j]
                          /\ k \in 1 .. b => CodeUnits[m[k]] < CodeUnits[r[k]]
  BY <1>1, Zenon DEF compareCodePoints
<1>4. SUFFICES \E n \in 1 .. c : /\ \A j \in 1 .. (n - 1) : j \in 1 .. a /\ l[j] = r[j]
                                 /\ n \in 1 .. a => CodeUnits[l[n]] < CodeUnits[r[n]]
  BY <1>1, Zenon DEF compareCodePoints
<1>5. CASE i < k
  <2>1. i \in 1 .. (k - 1) /\ i \in 1 .. c /\ \A j \in 1 .. (i - 1) : j \in 1 .. (k - 1)
    BY <1>1, <1>5
  <2>2. m[i] = r[i]
    BY <1>3, <2>1, Zenon
  <2>3. \A j \in 1 .. (i - 1) : j \in 1 .. a /\ l[j] = r[j]
    BY <1>2, <1>3, <2>1, Zenon
  <2> QED BY <1>2, <2>1, <2>2, <2>3, Zenon
<1>6. CASE i = k
  <2>1. i \in 1 .. a => CodeUnits[l[i]] < CodeUnits[r[i]]
    <3>1. SUFFICES ASSUME i \in 1 .. a PROVE CodeUnits[l[i]] < CodeUnits[r[i]]
      OBVIOUS
    <3>2. CodeUnits[l[i]] < CodeUnits[m[i]] /\ CodeUnits[m[i]] < CodeUnits[r[i]]
      BY <1>2, <1>3, <1>6, <3>1, Zenon
    <3>3. CodeUnits[l[i]] \in Nat /\ CodeUnits[m[i]] \in Nat /\ CodeUnits[r[i]] \in Nat
      BY <1>1, <1>6, <3>1, Zenon
    <3> QED BY <3>2, <3>3
  <2>2. \A j \in 1 .. (i - 1) : j \in 1 .. a /\ l[j] = r[j]
    BY <1>2, <1>3, <1>6, Zenon
  <2> QED BY <1>6, <2>1, <2>2, Zenon
<1>7. CASE k < i
  <2>1. k \in 1 .. (i - 1) /\ k \in 1 .. b /\ \A j \in 1 .. (k - 1) : j \in 1 .. (i - 1)
    BY <1>1, <1>7
  <2>2. l[k] = m[k]
    BY <1>2, <2>1, Zenon
  <2>3. \A j \in 1 .. (k - 1) : j \in 1 .. a /\ l[j] = r[j]
    BY <1>2, <1>3, <2>1, Zenon
  <2> QED BY <1>3, <2>1, <2>2, <2>3, Zenon
<1>8. i < k \/ i = k \/ k < i
  BY <1>1
<1> QED BY <1>5, <1>6, <1>7, <1>8

\* Of two different texts one comes before the other.
LEMMA OrderTotal ==
    ASSUME NEW l \in Texts, NEW r \in Texts, l # r
    PROVE  compareCodePoints(l, r) \/ compareCodePoints(r, l)
<1>1. /\ Len(l) \in Nat /\ DOMAIN l = 1 .. Len(l) /\ \A i \in DOMAIN l : l[i] \in Characters
      /\ Len(r) \in Nat /\ DOMAIN r = 1 .. Len(r) /\ \A i \in DOMAIN r : r[i] \in Characters
  BY DEF Texts
<1> DEFINE Same(i) == i \in DOMAIN l /\ i \in DOMAIN r /\ l[i] = r[i]
           T == {i \in DOMAIN l \cup DOMAIN r : ~ Same(i)}
<1>2. T # {}
  <2>1. SUFFICES ASSUME T = {} PROVE FALSE
    OBVIOUS
  <2>2. \A i \in DOMAIN l \cup DOMAIN r : Same(i)
    BY <2>1
  <2>3. 1 .. Len(l) = 1 .. Len(r) /\ \A i \in 1 .. Len(l) : l[i] = r[i]
    BY <1>1, <2>2, Zenon
  <2>4. Len(l) = Len(r)
    <3> DEFINE p == Len(l)
               q == Len(r)
    <3>1. p \in Nat /\ q \in Nat /\ 1 .. p = 1 .. q
      BY <1>1, <2>3, Zenon
    <3> HIDE DEF p, q
    <3>2. p = q
      BY <3>1
    <3> QED BY <3>2 DEF p, q
  <2> QED BY <2>3, <2>4, SeqEqual DEF Texts
<1>3. PICK i \in T : \A y \in T : i <= y
  <2>1. T \in SUBSET Nat
    BY <1>1
  <2> HIDE DEF T
  <2> QED BY <2>1, <1>2, LeastNat
<1>4. i \in Nat \ {0} /\ i \in DOMAIN l \cup DOMAIN r /\ ~ Same(i)
  BY <1>1
<1>5. \A j \in 1 .. (i - 1) : j \in DOMAIN l /\ j \in DOMAIN r /\ l[j] = r[j]
  <2>1. SUFFICES ASSUME NEW j \in 1 .. (i - 1) PROVE Same(j)
    OBVIOUS
  <2>2. j \in DOMAIN l \cup DOMAIN r
    BY <1>1, <1>4
  <2>3. j \notin T
    BY <1>3, <1>4
  <2> QED BY <2>2, <2>3
<1>6. \A c, d \in Characters : c # d => CodeUnits[c] < CodeUnits[d] \/ CodeUnits[d] < CodeUnits[c]
  <2>1. \A c \in Characters : CodeUnits[c] \in Nat
    BY RegistrationAssumption
  <2>2. \A c, d \in Characters : c # d => CodeUnits[c] # CodeUnits[d]
    BY RegistrationAssumption
  <2> QED BY <2>1, <2>2
<1> HIDE DEF T
<1>7. CASE i \in DOMAIN l /\ i \in DOMAIN r
  <2>1. CodeUnits[l[i]] < CodeUnits[r[i]] \/ CodeUnits[r[i]] < CodeUnits[l[i]]
    BY <1>1, <1>4, <1>6, <1>7
  <2> QED BY <1>5, <1>7, <2>1 DEF compareCodePoints
<1>8. CASE i \notin DOMAIN l
  BY <1>4, <1>5, <1>8 DEF compareCodePoints
<1>9. CASE i \notin DOMAIN r
  BY <1>4, <1>5, <1>9 DEF compareCodePoints
<1> QED BY <1>7, <1>8, <1>9

\* A set of arguments: no name twice, no value undefined.
ArgumentSet(G) ==
    /\ G \in SUBSET (Texts \X Texts) /\ IsFiniteSet(G)
    /\ \A a, b \in G : a[1] = b[1] => a = b

\* The arguments of G that come before a, and G in this order.
Before(G, a) == {other \in G : compareCodePoints(other[1], a[1])}
Sorted(G) ==
    [n \in 1 .. Cardinality(G) |-> CHOOSE a \in G : n - 1 = Cardinality(Before(G, a))]

\* Arguments differ in how many come before them.
LEMMA RanksDiffer ==
    ASSUME NEW G, ArgumentSet(G), NEW a \in G
    PROVE  /\ Cardinality(Before(G, a)) \in 0 .. (Cardinality(G) - 1)
           /\ \A b \in G : Cardinality(Before(G, a)) = Cardinality(Before(G, b)) => a = b
<1>1. \A x \in G : x[1] \in Texts
  BY DEF ArgumentSet
<1>2. /\ IsFiniteSet(G) /\ Cardinality(G) \in Nat
      /\ \A x \in G : /\ Before(G, x) \in SUBSET G /\ IsFiniteSet(Before(G, x))
                     /\ Cardinality(Before(G, x)) \in Nat
                     /\ Cardinality(Before(G, x)) <= Cardinality(G)
                     /\ x \notin Before(G, x)
  <2>1. IsFiniteSet(G) /\ Cardinality(G) \in Nat
    BY FS_CardinalityType DEF ArgumentSet
  <2>2. ASSUME NEW x \in G
        PROVE  Before(G, x) \in SUBSET G /\ x \notin Before(G, x)
    BY <1>1, OrderIrreflexive DEF Before
  <2> QED BY <2>1, <2>2, FS_Subset, FS_CardinalityType
<1>3. Cardinality(Before(G, a)) \in 0 .. (Cardinality(G) - 1)
  <2>1. Cardinality(Before(G, a)) # Cardinality(G)
    BY <1>2, FS_Subset
  <2> QED BY <1>2, <2>1
<1>4. ASSUME NEW x \in G, NEW y \in G, compareCodePoints(x[1], y[1])
      PROVE  Cardinality(Before(G, x)) # Cardinality(Before(G, y))
  <2>1. Before(G, x) \in SUBSET Before(G, y)
    BY <1>1, <1>4, OrderTransitive DEF Before
  <2>2. x \in Before(G, y)
    BY <1>4 DEF Before
  <2> QED BY <1>2, <2>1, <2>2, FS_Subset
<1>5. ASSUME NEW b \in G, Cardinality(Before(G, a)) = Cardinality(Before(G, b)), a # b
      PROVE  FALSE
  <2>1. a[1] # b[1]
    BY <1>5 DEF ArgumentSet
  <2>2. compareCodePoints(a[1], b[1]) \/ compareCodePoints(b[1], a[1])
    BY <1>1, <2>1, OrderTotal
  <2> QED BY <1>4, <1>5, <2>2
<1> QED BY <1>3, <1>5

\* Sorting keeps every argument.
LEMMA SortedIsExact ==
    ASSUME NEW G, ArgumentSet(G)
    PROVE  Sorted(G) \in Seq(G) /\ ToSet(Sorted(G)) = G
<1> DEFINE N == Cardinality(G)
           rank == [a \in G |-> Cardinality(Before(G, a))]
<1>1. N \in Nat /\ IsFiniteSet(G)
  BY FS_CardinalityType DEF ArgumentSet
<1>2. rank \in [G -> 0 .. (N - 1)]
  BY RanksDiffer
<1>3. \A a, b \in G : rank[a] = rank[b] => a = b
  BY RanksDiffer
<1>4. rank \in Injection(G, 0 .. (N - 1))
  BY <1>2, <1>3 DEF Injection, IsInjective
<1>5. IsFiniteSet(0 .. (N - 1)) /\ Cardinality(0 .. (N - 1)) = N
  BY <1>1, FS_Interval
<1>6. rank \in Surjection(G, 0 .. (N - 1))
  <2> HIDE DEF rank
  <2> QED BY <1>4, <1>5, FS_Injection
<1>7. \A k \in 0 .. (N - 1) : \E a \in G : rank[a] = k
  BY <1>6, Zenon DEF Surjection
<1>8. ASSUME NEW n \in 1 .. N
      PROVE  Sorted(G)[n] \in G /\ n - 1 = rank[Sorted(G)[n]]
  <2>1. n - 1 \in 0 .. (N - 1)
    BY <1>1
  <2>2. \E a \in G : n - 1 = Cardinality(Before(G, a))
    BY <1>7, <2>1
  <2>3. Sorted(G)[n] = CHOOSE a \in G : n - 1 = Cardinality(Before(G, a))
    BY DEF Sorted
  <2>4. Sorted(G)[n] \in G /\ n - 1 = Cardinality(Before(G, Sorted(G)[n]))
    BY <2>2, <2>3, Zenon
  <2> QED BY <2>4
<1>9. DOMAIN Sorted(G) = 1 .. N /\ Sorted(G) = [n \in 1 .. N |-> Sorted(G)[n]]
  BY DEF Sorted
<1>10. Sorted(G) \in Seq(G)
  <2> DEFINE q == Sorted(G)
  <2>1. \A n \in 1 .. N : q[n] \in G
    BY <1>8, Zenon
  <2>2. q = [n \in 1 .. N |-> q[n]]
    BY <1>9
  <2> HIDE DEF q, N
  <2>3. q \in [1 .. N -> G]
    BY <2>1, <2>2, Zenon
  <2>4. q \in UNION {[1 .. n -> G] : n \in Nat}
    BY <1>1, <2>3, Zenon
  <2> QED BY <2>4, SeqDef, Zenon DEF q
<1>11. ASSUME NEW a \in G
       PROVE  \E n \in 1 .. N : Sorted(G)[n] = a
  <2>1. rank[a] \in 0 .. (N - 1)
    BY <1>2
  <2> DEFINE n == rank[a] + 1
  <2>2. n \in 1 .. N /\ n - 1 = rank[a]
    BY <1>1, <2>1
  <2> HIDE DEF n, rank
  <2>3. Sorted(G)[n] = a
    BY <1>3, <1>8, <2>2
  <2> QED BY <2>2, <2>3
<1>12. ToSet(Sorted(G)) = G
  <2> DEFINE q == Sorted(G)
  <2>1. (\A n \in DOMAIN q : q[n] \in G) /\ \A a \in G : \E n \in DOMAIN q : q[n] = a
    BY <1>8, <1>9, <1>11, Zenon
  <2> HIDE DEF q
  <2>2. {q[n] : n \in DOMAIN q} = G
    BY <2>1, Zenon
  <2> QED BY <2>2, Zenon DEF ToSet, q
<1> QED BY <1>10, <1>12

\* normalizeArgs sorts the arguments that are given.
LEMMA NormalizedArgs ==
    ASSUME NEW args \in Arguments
    PROVE  \E G : ArgumentSet(G) /\ normalizeArgs(args) = Sorted(G)
<1> DEFINE G == {arg \in ToSet(args) : arg[2] # UndefinedValue}
<1>1. /\ args \in Seq(Texts \X (Texts \cup {UndefinedValue}))
      /\ \A i, j \in DOMAIN args : args[i][1] = args[j][1] => i = j
  BY DEF Arguments
<1>2. \A a \in ToSet(args) : a \in Texts \X (Texts \cup {UndefinedValue})
  BY <1>1 DEF ToSet
<1>3. G \in SUBSET (Texts \X Texts)
  BY <1>2
<1>4. \A a, b \in G : a[1] = b[1] => a = b
  BY <1>1 DEF ToSet
<1>5. IsFiniteSet(G)
  <2>1. Len(args) \in Nat /\ DOMAIN args = 1 .. Len(args)
    BY <1>1
  <2>2. args \in Surjection(1 .. Len(args), ToSet(args))
    BY <1>1, <2>1 DEF Surjection, ToSet
  <2>3. IsFiniteSet(1 .. Len(args))
    BY <2>1, FS_Interval
  <2>4. IsFiniteSet(ToSet(args))
    BY <2>2, <2>3, FS_Surjection
  <2>5. G \in SUBSET ToSet(args)
    OBVIOUS
  <2> QED BY <2>4, <2>5, FS_Subset
<1>6. normalizeArgs(args) = Sorted(G)
  BY Zenon DEF normalizeArgs, Sorted, Before
<1> QED BY <1>3, <1>4, <1>5, <1>6 DEF ArgumentSet

-----------------------------------------------------------------------------
(* Keys *)

\* A text over the symbols of Safe and those of extra holds no other symbol.
LEMMA SafeText ==
    ASSUME NEW extra, NEW text \in Seq(Safe \cup extra), NEW d \in Delimiters,
           d # "%", d \notin extra
    PROVE  Without(text, d)
<1>1. \A i \in 1 .. Len(text) : text[i] \in Safe \cup extra
  OBVIOUS
<1>2. d \notin Safe
  BY SafeSymbols
<1> QED BY <1>1, <1>2 DEF Without

\* An encoded component is text of every larger alphabet, and holds no
\* separator.
LEMMA EncodedComponent ==
    ASSUME NEW t \in Texts, NEW extra
    PROVE  /\ encodeComponent(t) \in Seq(Safe \cup extra)
           /\ \A d \in Delimiters \ {"%"} : Without(encodeComponent(t), d)
<1>1. encodeComponent(t) \in Seq(Safe)
  BY EncodingIsExact
<1>2. encodeComponent(t) \in Seq(Safe \cup extra)
  BY <1>1, SeqMonotonic
<1>3. \A i \in 1 .. Len(encodeComponent(t)) : encodeComponent(t)[i] \in Safe
  BY <1>1, ElementOfSeq
<1>4. \A d \in Delimiters \ {"%"} : d \notin Safe
  BY SafeSymbols
<1> QED BY <1>2, <1>3, <1>4, Zenon DEF Without

\* The entity of a key can be read from its text.
LEMMA EntityIsExact ==
    ASSUME NEW n \in Texts, NEW t \in Texts, NEW i \in Texts,
           NEW m \in Texts, NEW u \in Texts, NEW j \in Texts
    PROVE  /\ joinUrnComponents(n, t, i) \in Seq(Safe \cup {":"})
           /\ joinUrnComponents(n, t, i) = joinUrnComponents(m, u, j)
                  => n = m /\ t = u /\ i = j
<1> DEFINE S == Safe \cup {":"}
           Parts(a, b, c) == <<encodeComponent(a), encodeComponent(b), encodeComponent(c)>>
<1>1. ":" \in S /\ ":" \in Delimiters \ {"%"}
  BY DEF Delimiters
<1>2. ASSUME NEW a \in Texts, NEW b \in Texts, NEW c \in Texts
      PROVE  Parts(a, b, c) \in Seq(Seq(S)) /\ Len(Parts(a, b, c)) = 3 /\ Clean(Parts(a, b, c), ":")
  <2>1. /\ encodeComponent(a) \in Seq(S) /\ Without(encodeComponent(a), ":")
        /\ encodeComponent(b) \in Seq(S) /\ Without(encodeComponent(b), ":")
        /\ encodeComponent(c) \in Seq(S) /\ Without(encodeComponent(c), ":")
    BY <1>1, EncodedComponent, Zenon
  <2> HIDE DEF S
  <2>2. Parts(a, b, c) \in Seq(Seq(S)) /\ Len(Parts(a, b, c)) = 3
    BY <2>1
  <2>3. \A k \in 1 .. 3 : Without(Parts(a, b, c)[k], ":")
    BY <2>1
  <2> QED BY <2>2, <2>3 DEF Clean
<1>3. \A a, b, c : joinUrnComponents(a, b, c) = Joined(Parts(a, b, c), ":")
  BY DEF joinUrnComponents
<1>4. Parts(n, t, i) \in Seq(Seq(S)) /\ Len(Parts(n, t, i)) > 0 /\ Clean(Parts(n, t, i), ":")
  BY <1>2
<1> HIDE DEF S
<1>5. joinUrnComponents(n, t, i) \in Seq(S)
  <2> HIDE DEF Parts
  <2> QED BY <1>1, <1>3, <1>4, JoinedIsExact
<1>6. ASSUME joinUrnComponents(n, t, i) = joinUrnComponents(m, u, j)
      PROVE  n = m /\ t = u /\ i = j
  <2>1. Parts(m, u, j) \in Seq(Seq(S)) /\ Len(Parts(m, u, j)) > 0 /\ Clean(Parts(m, u, j), ":")
    BY <1>2
  <2>2. Parts(n, t, i) = Parts(m, u, j)
    <3> HIDE DEF Parts
    <3> QED BY <1>1, <1>3, <1>4, <1>6, <2>1, JoinedIsExact
  <2>3. /\ encodeComponent(n) = encodeComponent(m)
        /\ encodeComponent(t) = encodeComponent(u)
        /\ encodeComponent(i) = encodeComponent(j)
    BY <2>2
  <2> QED BY <2>3, EncodingIsExact
<1> QED BY <1>5, <1>6 DEF S

\* What a key holds.
KeyRecords ==
    [namespace : Texts, keyType : Texts, id : Texts, args : Seq(Texts \X Texts),
     useCase : Texts, tracked : BOOLEAN]

\* One argument in a key, and all of them.
ArgumentText(arg) == encodeComponent(arg[1]) \o <<"=">> \o encodeComponent(arg[2])
ArgumentsText(args) ==
    IF args = <<>> THEN <<>>
    ELSE <<"?">> \o Joined([i \in DOMAIN args |-> ArgumentText(args[i])], "&")

\* An argument can be read from its text.
LEMMA ArgumentIsExact ==
    ASSUME NEW a \in Texts \X Texts
    PROVE  /\ ArgumentText(a) \in Seq(Safe \cup {"=", "&", "?"})
           /\ Without(ArgumentText(a), "&")
           /\ \A b \in Texts \X Texts : ArgumentText(a) = ArgumentText(b) => a = b
<1> DEFINE S == Safe \cup {"="}
<1>1. ASSUME NEW x \in Texts \X Texts
      PROVE  /\ encodeComponent(x[1]) \in Seq(S) /\ Without(encodeComponent(x[1]), "=")
             /\ encodeComponent(x[2]) \in Seq(S) /\ Without(encodeComponent(x[2]), "=")
             /\ <<"=">> \o encodeComponent(x[2]) \in Seq(S)
             /\ Led({"="}, <<"=">> \o encodeComponent(x[2]))
             /\ ArgumentText(x) = encodeComponent(x[1]) \o (<<"=">> \o encodeComponent(x[2]))
             /\ ArgumentText(x) \in Seq(S)
  <2> DEFINE p == encodeComponent(x[1])
             q == encodeComponent(x[2])
  <2>1. "=" \in Delimiters \ {"%"} /\ x[1] \in Texts /\ x[2] \in Texts /\ "=" \in S
    BY DEF Delimiters
  <2>2. p \in Seq(S) /\ q \in Seq(S) /\ Without(p, "=") /\ Without(q, "=")
    BY <2>1, EncodedComponent, Zenon
  <2>3. ArgumentText(x) = (p \o <<"=">>) \o q
    BY DEF ArgumentText
  <2> HIDE DEF p, q, S
  <2>4. <<"=">> \o q \in Seq(S) /\ Led({"="}, <<"=">> \o q)
    <3> DEFINE e == "="
    <3>1. e \in S /\ q \in Seq(S) /\ Without(q, e)
      BY <2>1, <2>2
    <3> HIDE DEF e
    <3>2. <<e>> \o q \in Seq(S) /\ Led({e}, <<e>> \o q)
      BY ONLY <3>1, SeparatorFirst, Zenon
    <3> QED BY <3>2 DEF e
  <2>5. <<"=">> \in Seq(S)
    BY <2>1
  <2>6. ArgumentText(x) = p \o (<<"=">> \o q)
    <3> DEFINE e == <<"=">>
    <3>1. e \in Seq(S)
      BY <2>5
    <3> HIDE DEF e
    <3>2. Glued(Glued(p, e), q) = Glued(p, Glued(e, q))
      BY <2>2, <3>1, GluedTexts
    <3> QED BY <2>3, <3>2, Zenon DEF Glued, e
  <2>7. ArgumentText(x) \in Seq(S)
    BY <2>2, <2>4, <2>6, ConcatProperties, Zenon
  <2> QED BY <2>2, <2>4, <2>6, <2>7 DEF p, q
<1>2. ArgumentText(a) \in Seq(S)
  BY <1>1
<1>3. ArgumentText(a) \in Seq(Safe \cup {"=", "&", "?"})
  <2>1. S \subseteq Safe \cup {"=", "&", "?"}
    OBVIOUS
  <2> HIDE DEF S
  <2> QED BY <1>2, <2>1, SeqMonotonic
<1>4. Without(ArgumentText(a), "&")
  <2>1. "&" \in Delimiters /\ "&" # "%" /\ "&" \notin {"="}
    BY DEF Delimiters
  <2> QED BY <1>2, <2>1, SafeText, Zenon
<1>5. ASSUME NEW b \in Texts \X Texts, ArgumentText(a) = ArgumentText(b)
      PROVE  a = b
  <2> DEFINE x == encodeComponent(a[1])
             y == encodeComponent(b[1])
             u == <<"=">> \o encodeComponent(a[2])
             v == <<"=">> \o encodeComponent(b[2])
  <2>1. /\ x \in Seq(S) /\ y \in Seq(S) /\ u \in Seq(S) /\ v \in Seq(S)
        /\ Led({"="}, u) /\ Led({"="}, v) /\ x \o u = y \o v
    BY <1>1, <1>5, Zenon
  <2>2. x = y /\ u = v
    <3> DEFINE D == {"="}
    <3>1. Led(D, u) /\ Led(D, v)
      BY <2>1
    <3>2. x \in Seq(S) /\ y \in Seq(S) /\ u \in Seq(S) /\ v \in Seq(S)
      BY <2>1
    <3>3. Glued(x, u) = Glued(y, v)
      BY <2>1, Zenon DEF Glued
    <3> HIDE DEF x, y, u, v, S, D
    <3> QED BY <3>1, <3>2, <3>3, LastSplit
  <2>3. encodeComponent(a[2]) = encodeComponent(b[2])
    <3>1. /\ <<"=">> \in Seq(S) /\ encodeComponent(a[2]) \in Seq(S)
          /\ encodeComponent(b[2]) \in Seq(S)
      BY <1>1
    <3> DEFINE e == <<"=">>
               p == encodeComponent(a[2])
               q == encodeComponent(b[2])
    <3>2. Glued(e, p) = Glued(e, q) /\ e \in Seq(S) /\ p \in Seq(S) /\ q \in Seq(S)
      BY <2>2, <3>1 DEF Glued
    <3> HIDE DEF S, e, p, q
    <3>3. p = q
      BY <3>2, GluedTexts
    <3> QED BY <3>3 DEF p, q
  <2>4. a[1] = b[1] /\ a[2] = b[2]
    BY <2>2, <2>3, EncodingIsExact
  <2> QED BY <2>4
<1> QED BY <1>3, <1>4, <1>5

\* The arguments of a key can be read from its text.
LEMMA ArgumentsAreExact ==
    ASSUME NEW s \in Seq(Texts \X Texts)
    PROVE  /\ ArgumentsText(s) \in Seq(Safe \cup {"=", "&", "?"})
           /\ ArgumentsText(s) = <<>> \/ ArgumentsText(s)[1] = "?"
           /\ \A t \in Seq(Texts \X Texts) : ArgumentsText(s) = ArgumentsText(t) => s = t
<1> DEFINE S == Safe \cup {"=", "&", "?"}
           Parts(args) == [i \in DOMAIN args |-> ArgumentText(args[i])]
           J(args) == Joined(Parts(args), "&")
<1>1. "&" \in S /\ "?" \in S
  OBVIOUS
<1>2. ASSUME NEW args \in Seq(Texts \X Texts)
      PROVE  Parts(args) \in Seq(Seq(S)) /\ Len(Parts(args)) = Len(args) /\ Clean(Parts(args), "&")
  <2>1. /\ Len(args) \in Nat /\ DOMAIN args = 1 .. Len(args)
        /\ \A i \in 1 .. Len(args) : args[i] \in Texts \X Texts
    OBVIOUS
  <2>2. \A i \in 1 .. Len(args) : /\ ArgumentText(args[i]) \in Seq(S)
                                  /\ Without(ArgumentText(args[i]), "&")
    BY <2>1, ArgumentIsExact
  <2> HIDE DEF S
  <2>3. Parts(args) \in Seq(Seq(S)) /\ Len(Parts(args)) = Len(args)
    BY <2>1, <2>2
  <2>4. \A i \in 1 .. Len(args) : Without(Parts(args)[i], "&")
    BY <2>1, <2>2
  <2> QED BY <2>3, <2>4, Zenon DEF Clean
<1>3. \A args \in Seq(Texts \X Texts) : args # <<>> => Len(args) > 0
  BY EmptySeq
<1>4. \A args : ArgumentsText(args) = IF args = <<>> THEN <<>> ELSE <<"?">> \o J(args)
  BY DEF ArgumentsText
<1> HIDE DEF S
<1>5. ASSUME NEW args \in Seq(Texts \X Texts), args # <<>>
      PROVE  J(args) \in Seq(S)
  BY <1>1, <1>2, <1>3, <1>5, JoinedIsExact
<1>6. ASSUME NEW args \in Seq(Texts \X Texts), args # <<>>
      PROVE  /\ <<"?">> \o J(args) \in Seq(S) /\ (<<"?">> \o J(args))[1] = "?"
             /\ <<"?">> \o J(args) # <<>>
  <2>1. <<"?">> \in Seq(S) /\ Len(<<"?">>) = 1 /\ <<"?">>[1] = "?" /\ J(args) \in Seq(S)
    BY <1>1, <1>5, <1>6
  <2> HIDE DEF J
  <2> QED BY <2>1
<1> HIDE DEF Parts
<1>7. ASSUME NEW t \in Seq(Texts \X Texts), ArgumentsText(s) = ArgumentsText(t)
      PROVE  s = t
  <2>1. CASE s = <<>> \/ t = <<>>
    BY <1>4, <1>6, <1>7, <2>1
  <2>2. CASE s # <<>> /\ t # <<>>
    <3>1. J(s) = J(t)
      <4>1. <<"?">> \in Seq(S) /\ J(s) \in Seq(S) /\ J(t) \in Seq(S)
        BY <1>1, <1>5, <2>2
      <4>2. <<"?">> \o J(s) = <<"?">> \o J(t)
        BY <1>4, <1>7, <2>2, Zenon
      <4> HIDE DEF J
      <4> QED BY <4>1, <4>2, ConcatSimplifications, Zenon
    <3>2. Parts(s) = Parts(t)
      BY <1>1, <1>2, <1>3, <2>2, <3>1, JoinedIsExact, Zenon
    <3>3. Len(s) = Len(t) /\ \A i \in 1 .. Len(s) : ArgumentText(s[i]) = ArgumentText(t[i])
      BY <1>2, <3>2 DEF Parts
    <3>4. \A i \in 1 .. Len(s) : s[i] = t[i]
      BY <3>3, ArgumentIsExact
    <3> QED BY <3>3, <3>4, SeqEqual
  <2> QED BY <2>1, <2>2
<1>8. <<>> \in Seq(S)
  OBVIOUS
<1> QED BY <1>4, <1>6, <1>7, <1>8, Zenon DEF S

\* The prefix of a key tells whether it is tracked, and its entity.
LEMMA PrefixIsExact ==
    ASSUME NEW k \in KeyRecords
    PROVE  /\ prefix(k) \in Seq(Safe \cup {":", "{", "}"})
           /\ \A l \in KeyRecords : prefix(k) = prefix(l) =>
                  /\ k.tracked = l.tracked /\ k.namespace = l.namespace
                  /\ k.keyType = l.keyType /\ k.id = l.id
<1> DEFINE S == Safe \cup {":", "{", "}"}
           Raw(x) == joinUrnComponents(x.namespace, x.keyType, x.id)
           open == <<"{">>
           close == <<"}">>
<1>1. \A x \in KeyRecords : /\ x.namespace \in Texts /\ x.keyType \in Texts /\ x.id \in Texts
                            /\ x.tracked \in BOOLEAN
  BY DEF KeyRecords
<1>2. \A x \in KeyRecords : Raw(x) \in Seq(Safe \cup {":"}) /\ Raw(x) \in Seq(S)
  <2>1. \A x \in KeyRecords : Raw(x) \in Seq(Safe \cup {":"})
    BY <1>1, EntityIsExact
  <2>2. Safe \cup {":"} \subseteq S
    BY Zenon
  <2> HIDE DEF S, Raw
  <2> QED BY <2>1, <2>2, SeqMonotonic
<1>3. \A x : prefix(x) = IF x.tracked THEN Glued(Glued(open, Raw(x)), close) ELSE Raw(x)
  BY DEF prefix, redisClusterHashTag, Glued
<1>4. open \in Seq(S) /\ close \in Seq(S)
  OBVIOUS
<1>5. \A x \in KeyRecords : Len(Raw(x)) >= 1 => Raw(x)[1] # "{"
  <2>1. ASSUME NEW x \in KeyRecords PROVE Without(Raw(x), "{")
    <3>1. "{" \in Delimiters /\ "{" # "%" /\ "{" \notin {":"}
      BY DEF Delimiters
    <3> HIDE DEF Raw
    <3> QED BY <1>2, <3>1, SafeText, Zenon
  <2> HIDE DEF Raw
  <2>2. ASSUME NEW x \in KeyRecords, Len(Raw(x)) >= 1 PROVE Raw(x)[1] # "{"
    <3>1. Len(Raw(x)) \in Nat
      BY <1>2, LenProperties, Zenon
    <3>2. 1 \in 1 .. Len(Raw(x))
      BY <2>2, <3>1
    <3> QED BY <2>1, <3>2, Zenon DEF Without
  <2> QED BY <2>2, Zenon
<1>6. ASSUME NEW x \in KeyRecords
      PROVE  LET g == Glued(Glued(open, Raw(x)), close)
             IN  g \in Seq(S) /\ Len(g) >= 1 /\ g[1] = "{"
  <2> DEFINE r == Raw(x)
  <2>1. r \in Seq(S)
    BY <1>2, Zenon
  <2> DEFINE brace == "{"
  <2>2. open \in Seq(S) /\ Len(open) >= 1 /\ open[1] = brace /\ close \in Seq(S)
    BY <1>4
  <2> HIDE DEF r, open, close, S, brace
  <2> DEFINE h == Glued(open, r)
             g == Glued(h, close)
  <2>3. h \in Seq(S)
    BY <2>1, <2>2, GluedTexts
  <2>4. Len(h) >= 1 /\ h[1] = brace
    BY <2>1, <2>2, GluedBegins
  <2> HIDE DEF h
  <2>5. g \in Seq(S)
    BY <2>2, <2>3, GluedTexts
  <2>6. Len(g) >= 1 /\ g[1] = brace
    BY <2>2, <2>3, <2>4, GluedBegins
  <2> QED BY <2>5, <2>6, Zenon DEF g, h, r, brace
<1> HIDE DEF S, open, close
<1>7. prefix(k) \in Seq(S)
  BY <1>2, <1>3, <1>6, Zenon
<1>8. ASSUME NEW l \in KeyRecords, prefix(k) = prefix(l)
      PROVE  k.tracked = l.tracked /\ Raw(k) = Raw(l)
  <2>1. k.tracked \in BOOLEAN /\ l.tracked \in BOOLEAN
    BY <1>1
  <2>2. CASE k.tracked /\ l.tracked
    <3>1. Glued(Glued(open, Raw(k)), close) = Glued(Glued(open, Raw(l)), close)
      BY <1>3, <1>8, <2>2
    <3> HIDE DEF Raw
    <3>2. Raw(k) \in Seq(S) /\ Raw(l) \in Seq(S)
      BY <1>2
    <3>3. Glued(open, Raw(k)) \in Seq(S) /\ Glued(open, Raw(l)) \in Seq(S)
      BY <1>4, <3>2, GluedTexts
    <3>4. Glued(open, Raw(k)) = Glued(open, Raw(l))
      BY <1>4, <3>1, <3>3, GluedTexts
    <3>5. Raw(k) = Raw(l)
      BY <1>4, <3>2, <3>4, GluedTexts
    <3> QED BY <2>2, <3>5
  <2>3. CASE ~ k.tracked /\ ~ l.tracked
    BY <1>3, <1>8, <2>1, <2>3, Zenon
  <2>4. CASE k.tracked /\ ~ l.tracked
    BY <1>3, <1>5, <1>6, <1>8, <2>4, Zenon
  <2>5. CASE ~ k.tracked /\ l.tracked
    BY <1>3, <1>5, <1>6, <1>8, <2>5, Zenon
  <2> QED BY <2>1, <2>2, <2>3, <2>4, <2>5, Zenon
<1>9. ASSUME NEW l \in KeyRecords, prefix(k) = prefix(l)
      PROVE  /\ k.tracked = l.tracked /\ k.namespace = l.namespace
             /\ k.keyType = l.keyType /\ k.id = l.id
  <2>1. k.tracked = l.tracked /\ Raw(k) = Raw(l)
    BY <1>8, <1>9, Zenon
  <2> DEFINE n == k.namespace  t == k.keyType  i == k.id
             m == l.namespace  u == l.keyType  j == l.id
  <2>2. /\ n \in Texts /\ t \in Texts /\ i \in Texts
        /\ m \in Texts /\ u \in Texts /\ j \in Texts
        /\ joinUrnComponents(n, t, i) = joinUrnComponents(m, u, j)
    BY <1>1, <2>1, Zenon
  <2> HIDE DEF n, t, i, m, u, j
  <2>3. n = m /\ t = u /\ i = j
    BY <2>2, EntityIsExact
  <2> QED BY <2>1, <2>3, Zenon DEF n, t, i, m, u, j
<1> QED BY <1>7, <1>9, Zenon DEF S

\* The parts of a Redis key.
UseCaseText(k) == Glued(<<"#">>, encodeComponent(k.useCase))
FrameText == <<":", "dialcache-frame-v1">>
NameSymbols ==
    Safe \cup {":", "{", "}", "=", "&", "?", "#", "dialcache-frame-v1", "watermark"}

LEMMA RedisKeyParts ==
    ASSUME NEW k \in KeyRecords
    PROVE  /\ prefix(k) \in Seq(NameSymbols) /\ Free({"?"}, prefix(k))
           /\ ArgumentsText(k.args) \in Seq(NameSymbols) /\ Opens({"?"}, ArgumentsText(k.args))
           /\ Free({"#"}, Glued(prefix(k), ArgumentsText(k.args)))
           /\ UseCaseText(k) \in Seq(NameSymbols) /\ Opens({"#"}, UseCaseText(k))
           /\ FrameText \in Seq(NameSymbols)
           /\ redisKey(k) = Glued(Glued(Glued(prefix(k), ArgumentsText(k.args)), UseCaseText(k)),
                                  FrameText)
<1> DEFINE P == prefix(k)
           A == ArgumentsText(k.args)
           E == encodeComponent(k.useCase)
           H == <<"#">>
           M == {":", "{", "}", "=", "&", "?"}
<1>1. k.args \in Seq(Texts \X Texts) /\ k.useCase \in Texts
  BY DEF KeyRecords
<1>2. P \in Seq(Safe \cup {":", "{", "}"})
  BY PrefixIsExact, Zenon
<1>3. A \in Seq(Safe \cup {"=", "&", "?"}) /\ (A = <<>> \/ A[1] = "?")
  BY <1>1, ArgumentsAreExact, Zenon
<1>4. E \in Seq(Safe)
  BY <1>1, EncodingIsExact
<1>5. redisKey(k) = Glued(Glued(Glued(Glued(P, A), H), E), FrameText)
  BY Zenon DEF redisKey, urn, Glued, ArgumentsText, ArgumentText, FrameText
<1> HIDE DEF P, A, E
<1>6. /\ Safe \cup {":", "{", "}"} \subseteq Safe \cup M
      /\ Safe \cup {"=", "&", "?"} \subseteq Safe \cup M
      /\ Safe \cup M \subseteq NameSymbols
      /\ Safe \subseteq NameSymbols
  BY Zenon DEF NameSymbols
<1>7. /\ P \in Seq(Safe \cup M) /\ A \in Seq(Safe \cup M)
      /\ P \in Seq(NameSymbols) /\ A \in Seq(NameSymbols) /\ E \in Seq(NameSymbols)
  <2> DEFINE X == Safe \cup {":", "{", "}"}
             Y == Safe \cup {"=", "&", "?"}
             Z == Safe \cup M
  <2>1. /\ P \in Seq(X) /\ A \in Seq(Y) /\ X \subseteq Z /\ Y \subseteq Z
        /\ Z \subseteq NameSymbols
    BY <1>2, <1>3, <1>6, Zenon
  <2> HIDE DEF X, Y, Z
  <2>2. P \in Seq(Z) /\ A \in Seq(Z)
    BY <2>1, SeqMonotonic
  <2>3. P \in Seq(NameSymbols) /\ A \in Seq(NameSymbols)
    BY <2>1, <2>2, SeqMonotonic
  <2>4. E \in Seq(NameSymbols)
    BY <1>4, <1>6, SeqMonotonic, Zenon
  <2> QED BY <2>2, <2>3, <2>4 DEF Z
<1>8. P \in Seq(NameSymbols) /\ A \in Seq(NameSymbols) /\ E \in Seq(NameSymbols)
  BY <1>7, Zenon
<1>9. H \in Seq(NameSymbols) /\ FrameText \in Seq(NameSymbols)
  BY DEF NameSymbols, FrameText
<1>10. Glued(P, A) \in Seq(Safe \cup M)
  <2> HIDE DEF M
  <2> QED BY <1>7, GluedTexts
<1>11. Free({"#"}, Glued(P, A))
  <2>1. "#" \in Delimiters /\ "#" # "%" /\ "#" \notin M
    BY DEF Delimiters
  <2> HIDE DEF M
  <2>2. Without(Glued(P, A), "#")
    BY <1>10, <2>1, SafeText
  <2> QED BY <2>2, Zenon DEF Without, Free
<1>12. Free({"?"}, P)
  <2> DEFINE N == {":", "{", "}"}
  <2>1. "?" \in Delimiters /\ "?" # "%" /\ "?" \notin N
    BY DEF Delimiters
  <2>2. P \in Seq(Safe \cup N)
    BY <1>2, Zenon
  <2> HIDE DEF N
  <2>3. Without(P, "?")
    BY <2>1, <2>2, SafeText
  <2> QED BY <2>3, Zenon DEF Without, Free
<1>13. Opens({"?"}, A)
  BY <1>3, Zenon DEF Opens
<1>14. /\ Glued(H, E) \in Seq(NameSymbols) /\ Opens({"#"}, Glued(H, E))
       /\ Glued(Glued(Glued(P, A), H), E) = Glued(Glued(P, A), Glued(H, E))
  <2> DEFINE mark == "#"
  <2>1. Len(H) >= 1 /\ H[1] = mark
    OBVIOUS
  <2> DEFINE R == Glued(P, A)
  <2> HIDE DEF H, mark
  <2>2. R \in Seq(NameSymbols)
    BY <1>8, GluedTexts
  <2> HIDE DEF R
  <2>3. Glued(H, E) \in Seq(NameSymbols)
    BY <1>8, <1>9, GluedTexts
  <2>4. Glued(Glued(R, H), E) = Glued(R, Glued(H, E))
    BY <1>8, <1>9, <2>2, GluedTexts
  <2>5. Glued(H, E)[1] = mark
    BY <1>8, <1>9, <2>1, GluedBegins
  <2>6. Opens({"#"}, Glued(H, E))
    BY <2>5, Zenon DEF Opens, mark
  <2> QED BY <2>3, <2>4, <2>6, Zenon DEF R
<1> QED BY <1>5, <1>8, <1>9, <1>11, <1>12, <1>13, <1>14, Zenon DEF UseCaseText, P, A, E

\* A Redis key is the key of one record only.
LEMMA RedisKeyIsExact ==
    ASSUME NEW k \in KeyRecords, NEW l \in KeyRecords, redisKey(k) = redisKey(l)
    PROVE  k = l
<1> DEFINE P(x) == prefix(x)
           A(x) == ArgumentsText(x.args)
           U(x) == UseCaseText(x)
           F == FrameText
           S == NameSymbols
<1>1. \A x \in KeyRecords :
          /\ P(x) \in Seq(S) /\ Free({"?"}, P(x)) /\ A(x) \in Seq(S) /\ Opens({"?"}, A(x))
          /\ Free({"#"}, Glued(P(x), A(x))) /\ U(x) \in Seq(S) /\ Opens({"#"}, U(x))
          /\ F \in Seq(S)
          /\ redisKey(x) = Glued(Glued(Glued(P(x), A(x)), U(x)), F)
  BY RedisKeyParts, Zenon
<1> HIDE DEF P, A, U, F, S
<1>2. \A x \in KeyRecords : Glued(P(x), A(x)) \in Seq(S)
  BY <1>1, GluedTexts
<1>3. \A x \in KeyRecords : Glued(Glued(P(x), A(x)), U(x)) \in Seq(S)
  BY <1>1, <1>2, GluedTexts
<1>4. Glued(Glued(P(k), A(k)), U(k)) = Glued(Glued(P(l), A(l)), U(l))
  <2> DEFINE x == Glued(Glued(P(k), A(k)), U(k))
             y == Glued(Glued(P(l), A(l)), U(l))
  <2>1. x \in Seq(S) /\ y \in Seq(S) /\ F \in Seq(S) /\ Glued(x, F) = Glued(y, F)
    BY <1>1, <1>3, Zenon
  <2> HIDE DEF x, y
  <2>2. x = y
    BY <2>1, GluedTexts
  <2> QED BY <2>2 DEF x, y
<1>5. Glued(P(k), A(k)) = Glued(P(l), A(l)) /\ U(k) = U(l)
  <2> DEFINE x == Glued(P(k), A(k))
             y == Glued(P(l), A(l))
             u == U(k)
             v == U(l)
             D == {"#"}
  <2>1. /\ x \in Seq(S) /\ y \in Seq(S) /\ u \in Seq(S) /\ v \in Seq(S)
        /\ Free(D, x) /\ Free(D, y) /\ Opens(D, u) /\ Opens(D, v)
        /\ Glued(x, u) = Glued(y, v)
    BY <1>1, <1>2, <1>4, Zenon
  <2> HIDE DEF x, y, u, v, D
  <2>2. x = y /\ u = v
    BY <2>1, FirstSplit
  <2> QED BY <2>2, Zenon DEF x, y, u, v
<1>6. P(k) = P(l) /\ A(k) = A(l)
  <2> DEFINE D == {"?"}
  <2>1. /\ Free(D, P(k)) /\ Free(D, P(l)) /\ Opens(D, A(k)) /\ Opens(D, A(l))
        /\ P(k) \in Seq(S) /\ P(l) \in Seq(S) /\ A(k) \in Seq(S) /\ A(l) \in Seq(S)
    BY <1>1, Zenon
  <2> HIDE DEF D
  <2> QED BY <1>5, <2>1, FirstSplit
<1>7. /\ k.args \in Seq(Texts \X Texts) /\ k.useCase \in Texts
      /\ l.args \in Seq(Texts \X Texts) /\ l.useCase \in Texts
  BY DEF KeyRecords
<1>8. k.args = l.args
  BY <1>6, <1>7, ArgumentsAreExact, Zenon DEF A
<1>9. k.useCase = l.useCase
  <2> DEFINE H == <<"#">>
             E(x) == encodeComponent(x.useCase)
  <2>1. E(k) \in Seq(Safe) /\ E(l) \in Seq(Safe)
    BY <1>7, EncodingIsExact
  <2>2. Safe \subseteq NameSymbols
    BY Zenon DEF NameSymbols
  <2>3. H \in Seq(NameSymbols)
    BY DEF NameSymbols
  <2>4. Glued(H, E(k)) = Glued(H, E(l))
    BY <1>5, Zenon DEF U, UseCaseText
  <2> HIDE DEF H, E
  <2>5. E(k) \in Seq(NameSymbols) /\ E(l) \in Seq(NameSymbols)
    BY <2>1, <2>2, SeqMonotonic
  <2>6. E(k) = E(l)
    BY <2>3, <2>4, <2>5, GluedTexts
  <2> QED BY <1>7, <2>6, EncodingIsExact DEF E
<1>10. /\ k.tracked = l.tracked /\ k.namespace = l.namespace
       /\ k.keyType = l.keyType /\ k.id = l.id
  BY <1>6, PrefixIsExact, Zenon DEF P
<1> QED BY <1>8, <1>9, <1>10 DEF KeyRecords

\* No Redis key of a value is a watermark's.
LEMMA RedisKeyIsNoWatermark ==
    ASSUME NEW k \in KeyRecords, NEW l \in KeyRecords
    PROVE  redisKey(k) # redisWatermarkKey(l.namespace, l.keyType, l.id)
<1> DEFINE S == NameSymbols
           u == Glued(Glued(prefix(k), ArgumentsText(k.args)), UseCaseText(k))
           f == FrameText
           m == redisWatermarkKey(l.namespace, l.keyType, l.id)
           t == redisClusterHashTag(joinUrnComponents(l.namespace, l.keyType, l.id))
           w == <<"#", "watermark">>
<1>1. redisKey(k) = u \o f /\ m = t \o w
  BY RedisKeyParts, Zenon DEF Glued, redisWatermarkKey
<1>2. u \in Seq(S) /\ f \in Seq(S)
  BY RedisKeyParts, GluedTexts
<1>3. t \in Seq(S)
  <2> DEFINE p == [l EXCEPT !.tracked = TRUE]
  <2>1. p \in KeyRecords /\ p.tracked /\ p.namespace = l.namespace /\ p.keyType = l.keyType
        /\ p.id = l.id
    BY Zenon DEF KeyRecords
  <2> HIDE DEF p
  <2>2. prefix(p) = t
    BY <2>1 DEF prefix
  <2>3. prefix(p) \in Seq(S)
    BY <2>1, RedisKeyParts, Zenon
  <2> QED BY <2>2, <2>3, Zenon
<1>4. w \in Seq(S) /\ Len(w) > 0 /\ w[Len(w)] = "watermark"
  BY DEF NameSymbols
<1>5. Len(f) > 0 /\ f[Len(f)] = "dialcache-frame-v1"
  BY DEF FrameText
<1> HIDE DEF S, u, f, m, t, w
<1>6. (u \o f)[Len(u \o f)] = f[Len(f)]
  BY <1>2, <1>5, LastOfConcat
<1>7. (t \o w)[Len(t \o w)] = w[Len(w)]
  BY <1>3, <1>4, LastOfConcat
<1>8. f[Len(f)] # w[Len(w)]
  BY <1>4, <1>5
<1> QED BY <1>1, <1>6, <1>7, <1>8, Zenon DEF m

\* Where the symbols of two texts are when they are one.
Placed(S, g, s, t, p, q) ==
    /\ g \in Seq(S) /\ Len(g) = p + q
    /\ \A i \in 1 .. p : g[i] = s[i]
    /\ \A i \in 1 .. q : g[p + i] = t[i]

LEMMA GluedSymbols ==
    ASSUME NEW S, NEW s \in Seq(S), NEW t \in Seq(S), NEW p \in Nat, NEW q \in Nat,
           Len(s) = p, Len(t) = q
    PROVE  Placed(S, Glued(s, t), s, t, p, q)
<1>1. /\ s \o t \in Seq(S) /\ Len(s \o t) = p + q
      /\ \A i \in 1 .. p + q : (s \o t)[i] = IF i <= p THEN s[i] ELSE t[i - p]
  BY ConcatProperties
<1> DEFINE g == s \o t
<1> HIDE DEF g
<1>2. /\ g \in Seq(S) /\ Len(g) = p + q
      /\ \A i \in 1 .. p + q : g[i] = IF i <= p THEN s[i] ELSE t[i - p]
  BY <1>1 DEF g
<1>3. \A i \in 1 .. p : i \in 1 .. p + q /\ i <= p
  OBVIOUS
<1>4. \A i \in 1 .. q : p + i \in 1 .. p + q /\ ~ (p + i <= p) /\ (p + i) - p = i
  OBVIOUS
<1>5. \A i \in 1 .. p : g[i] = s[i]
  BY <1>2, <1>3
<1>6. \A i \in 1 .. q : g[p + i] = t[i]
  BY <1>2, <1>4
<1> QED BY <1>2, <1>5, <1>6, Zenon DEF g, Glued, Placed

\* The text between the first o and the next c.
Between(text, o, c) ==
    LET opens == CHOOSE i \in DOMAIN text :
                     text[i] = o /\ \A j \in 1..(i - 1) : text[j] # o
        closes == CHOOSE i \in DOMAIN text :
                     /\ i > opens /\ text[i] = c
                     /\ \A j \in (opens + 1)..(i - 1) : text[j] # c
    IN  SubSeq(text, opens + 1, closes - 1)
Tagged(raw, o, c) == Glued(Glued(<<o>>, raw), <<c>>)

\* What is between two delimiters at the beginning of a text.
LEMMA TagIsBetween ==
    ASSUME NEW S, NEW raw \in Seq(S), NEW rest \in Seq(S), NEW o \in S, NEW c \in S,
           Without(raw, c)
    PROVE  Between(Glued(Tagged(raw, o, c), rest), o, c) = raw
<1> DEFINE text == Glued(Tagged(raw, o, c), rest)
           n == Len(raw)
           open == <<o>>
           close == <<c>>
<1>1. open \in Seq(S) /\ close \in Seq(S) /\ Len(open) = 1 /\ Len(close) = 1
      /\ open[1] = o /\ close[1] = c
  OBVIOUS
<1>2. n \in Nat /\ Len(rest) \in Nat
  BY LenProperties
<1>3. text = Glued(Glued(Glued(open, raw), close), rest)
  BY Zenon DEF Tagged
<1> HIDE DEF open, close, text, n
<1>n. Len(raw) = n
  BY DEF n
<1> DEFINE a == Glued(open, raw)
           b == Glued(a, close)
           q == Len(rest)
<1>4. /\ a \in Seq(S) /\ Len(a) = 1 + n /\ a[1] = o
      /\ \A i \in 1 .. n : a[1 + i] = raw[i]
  <2> DEFINE p == 1
  <2>1. p \in Nat /\ Len(open) = p
    BY <1>1
  <2> HIDE DEF p
  <2>2. Placed(S, a, open, raw, p, n)
    BY <1>1, <1>2, <1>n, <2>1, GluedSymbols
  <2> HIDE DEF a
  <2> QED BY <1>1, <2>2 DEF p, Placed
<1> HIDE DEF a
<1>5. /\ b \in Seq(S) /\ Len(b) = (1 + n) + 1
      /\ \A i \in 1 .. 1 + n : b[i] = a[i]
      /\ b[(1 + n) + 1] = c
  <2> DEFINE p == 1 + n
             t == 1
  <2>1. p \in Nat /\ t \in Nat /\ Len(a) = p /\ Len(close) = t
    BY <1>1, <1>2, <1>4
  <2> HIDE DEF p, t
  <2>2. Placed(S, b, a, close, p, t)
    BY <1>1, <1>4, <2>1, GluedSymbols
  <2> HIDE DEF b
  <2> QED BY <1>1, <2>2 DEF p, t, Placed
<1> HIDE DEF b
<1>6. /\ text \in Seq(S) /\ Len(text) \in Nat /\ Len(text) >= n + 2
      /\ text[1] = o /\ text[n + 2] = c
      /\ \A i \in 1 .. n : text[i + 1] = raw[i]
  <2> DEFINE p == (1 + n) + 1
  <2>1. p \in Nat /\ q \in Nat /\ Len(b) = p
    BY <1>2, <1>5
  <2> HIDE DEF q, p
  <2>2. Len(rest) = q /\ text = Glued(b, rest)
    BY <1>3, Zenon DEF q, a, b
  <2>p. Placed(S, text, b, rest, p, q)
    BY <1>5, <2>1, <2>2, GluedSymbols
  <2>3. /\ text \in Seq(S) /\ Len(text) = ((1 + n) + 1) + q
        /\ \A i \in 1 .. (1 + n) + 1 : text[i] = b[i]
    BY <2>p DEF p, Placed
  <2>4. text[1] = o /\ text[n + 2] = c
    <3>1. /\ 1 \in 1 .. 1 + n /\ 1 \in 1 .. (1 + n) + 1
          /\ n + 2 = (1 + n) + 1 /\ n + 2 \in 1 .. (1 + n) + 1
      BY <1>2
    <3>2. text[1] = o
      BY <1>4, <1>5, <2>3, <3>1
    <3>3. text[n + 2] = c
      BY <1>5, <2>3, <3>1
    <3> QED BY <3>2, <3>3
  <2>5. ASSUME NEW i \in 1 .. n PROVE text[i + 1] = raw[i]
    <3>1. 1 + i = i + 1 /\ i + 1 \in 1 .. 1 + n /\ i + 1 \in 1 .. (1 + n) + 1
      BY <1>2
    <3> QED BY <1>4, <1>5, <2>3, <3>1
  <2> QED BY <1>2, <2>1, <2>3, <2>4, <2>5
<1>7. DOMAIN text = 1 .. Len(text)
  BY <1>6
<1>8. \A i \in 1 .. n : raw[i] # c
  BY DEF Without, n
<1> DEFINE Opening(i) == text[i] = o /\ \A j \in 1..(i - 1) : text[j] # o
           opens == CHOOSE i \in DOMAIN text : Opening(i)
           Closing(i) == /\ i > opens /\ text[i] = c
                         /\ \A j \in (opens + 1)..(i - 1) : text[j] # c
           closes == CHOOSE i \in DOMAIN text : Closing(i)
<1>9. opens = 1
  <2>1. 1 \in DOMAIN text /\ Opening(1)
    BY <1>2, <1>6, <1>7
  <2>2. \A i \in DOMAIN text : Opening(i) => i = 1
    BY <1>2, <1>6, <1>7
  <2> HIDE DEF Opening
  <2> QED BY <2>1, <2>2
<1> HIDE DEF opens
<1>10. closes = n + 2
  <2>1. n + 2 \in DOMAIN text
    BY <1>2, <1>6, <1>7
  <2>2. \A j \in 2 .. n + 1 : text[j] # c
    <3>1. \A j \in 2 .. n + 1 : j - 1 \in 1 .. n /\ (j - 1) + 1 = j
      BY <1>2
    <3> QED BY <1>6, <1>8, <3>1
  <2>3. Closing(n + 2)
    BY <1>2, <1>6, <1>9, <2>2
  <2>4. \A i \in DOMAIN text : Closing(i) => i = n + 2
    BY <1>2, <1>6, <1>7, <1>9, <2>2
  <2> HIDE DEF Closing
  <2> QED BY <2>1, <2>3, <2>4
<1>11. Between(text, o, c) = SubSeq(text, opens + 1, closes - 1)
  BY Zenon DEF Between, opens, closes
<1> HIDE DEF closes
<1>12. opens + 1 = 2 /\ closes - 1 = n + 1
  BY <1>2, <1>9, <1>10
<1>13. Between(text, o, c) = SubSeq(text, 2, n + 1)
  BY <1>11, <1>12, Zenon
<1> DEFINE sub == SubSeq(text, 2, n + 1)
<1>14. sub \in Seq(S) /\ Len(sub) = n /\ \A i \in 1 .. n : sub[i] = text[i + 1]
  <2>1. \A i \in 2 .. n + 1 : text[i] \in S
    BY <1>2, <1>6
  <2>2. 2 \in Int /\ n + 1 \in Int
    BY <1>2
  <2>3. /\ sub \in Seq(S)
        /\ Len(sub) = IF 2 <= n + 1 THEN n + 1 - 2 + 1 ELSE 0
        /\ \A i \in 1 .. n + 1 - 2 + 1 : sub[i] = text[2 + i - 1]
    <3> DEFINE m == 2
               e == n + 1
    <3> HIDE DEF m, e
    <3>1. m \in Int /\ e \in Int /\ \A i \in m .. e : text[i] \in S
      BY <2>1, <2>2 DEF m, e
    <3>2. /\ SubSeq(text, m, e) \in Seq(S)
          /\ Len(SubSeq(text, m, e)) = IF m <= e THEN e - m + 1 ELSE 0
          /\ \A i \in 1 .. e - m + 1 : SubSeq(text, m, e)[i] = text[m + i - 1]
      BY <3>1, SubSeqProperties
    <3>3. sub = SubSeq(text, m, e)
      BY DEF m, e
    <3> HIDE DEF sub
    <3>4. /\ sub \in Seq(S) /\ Len(sub) = IF m <= e THEN e - m + 1 ELSE 0
          /\ \A i \in 1 .. e - m + 1 : sub[i] = text[m + i - 1]
      BY <3>2, <3>3
    <3> QED BY <1>2, <3>4 DEF m, e
  <2> HIDE DEF sub
  <2> QED BY <1>2, <2>3
<1> HIDE DEF sub
<1>15. sub = raw
  <2>1. Len(sub) = Len(raw) /\ \A i \in 1 .. Len(sub) : sub[i] = raw[i]
    BY <1>6, <1>14 DEF n
  <2> QED BY <1>14, <2>1, SeqEqual
<1> QED BY <1>13, <1>15, Zenon DEF text, sub

\* A tracked key and the watermark of its entity have one hash tag.
LEMMA HashTagIsEntity ==
    ASSUME NEW l \in KeyRecords, l.tracked
    PROVE  HashTag(redisKey(l)) = HashTag(redisWatermarkKey(l.namespace, l.keyType, l.id))
<1> DEFINE S == NameSymbols
           raw == joinUrnComponents(l.namespace, l.keyType, l.id)
           open == "{"
           close == "}"
           tag == Tagged(raw, open, close)
           A == ArgumentsText(l.args)
           U == UseCaseText(l)
           F == FrameText
           W == <<"#", "watermark">>
<1>1. /\ prefix(l) = tag
      /\ redisWatermarkKey(l.namespace, l.keyType, l.id) = Glued(tag, W)
  BY Zenon DEF prefix, redisWatermarkKey, redisClusterHashTag, Tagged, Glued
<1>2. /\ tag \in Seq(S) /\ A \in Seq(S) /\ U \in Seq(S) /\ F \in Seq(S)
      /\ redisKey(l) = Glued(Glued(Glued(tag, A), U), F)
  BY <1>1, RedisKeyParts, Zenon
<1>3. W \in Seq(S) /\ open \in S /\ close \in S
  BY DEF NameSymbols
<1>4. raw \in Seq(S) /\ Without(raw, close)
  <2> DEFINE N == {":"}
  <2>1. close \in Delimiters /\ close # "%" /\ close \notin N /\ Safe \cup N \subseteq S
    BY Zenon DEF Delimiters, NameSymbols
  <2>2. l.namespace \in Texts /\ l.keyType \in Texts /\ l.id \in Texts
    BY DEF KeyRecords
  <2>3. raw \in Seq(Safe \cup N)
    BY <2>2, EntityIsExact, Zenon
  <2> HIDE DEF N, raw, S, close
  <2>4. raw \in Seq(S)
    BY <2>1, <2>3, SeqMonotonic
  <2>5. Without(raw, close)
    BY <2>1, <2>3, SafeText
  <2> QED BY <2>4, <2>5
<1>5. \A text : HashTag(text) = Between(text, open, close)
  BY Zenon DEF HashTag, Between
<1> HIDE DEF S, raw, open, close, A, U, F, W
<1>6. Between(Glued(tag, W), open, close) = raw
  BY <1>3, <1>4, TagIsBetween
<1> DEFINE rest == Glued(A, Glued(U, F))
<1>7. rest \in Seq(S) /\ redisKey(l) = Glued(tag, rest)
  <2> HIDE DEF tag
  <2>1. Glued(U, F) \in Seq(S)
    BY <1>2, GluedTexts
  <2>2. rest \in Seq(S)
    BY <1>2, <2>1, GluedTexts
  <2>3. Glued(tag, A) \in Seq(S)
    BY <1>2, GluedTexts
  <2> DEFINE h == Glued(tag, A)
             v == Glued(U, F)
  <2>4. Glued(Glued(tag, A), v) = Glued(tag, Glued(A, v))
    <3> HIDE DEF v
    <3> QED BY <1>2, <2>1, GluedTexts DEF v
  <2>5. Glued(Glued(h, U), F) = Glued(h, v)
    <3>1. h \in Seq(S)
      BY <2>3
    <3> HIDE DEF h
    <3> QED BY <1>2, <3>1, GluedTexts
  <2> QED BY <1>2, <2>2, <2>4, <2>5, Zenon
<1> HIDE DEF rest
<1>8. Between(Glued(tag, rest), open, close) = raw
  BY <1>3, <1>4, <1>7, TagIsBetween
<1> QED BY <1>1, <1>5, <1>6, <1>7, <1>8, Zenon

-----------------------------------------------------------------------------
(* The theorem *)

\* A key as buildKey makes it: its arguments are in the order of their names.
WellBuilt(k) ==
    /\ k \in KeyRecords
    /\ ArgumentSet(ToSet(k.args)) /\ k.args = Sorted(ToSet(k.args))

\* The inductive invariant.  The namespace of the keys is the instance's, so a
\* wrapped function, which makes keys, presumes an instance.
NamesInv ==
    /\ useCases = wrapped
    /\ wrapped # {} => instance # NoInstance
    /\ instance \in Texts \cup {NoInstance}
    /\ \A k \in keys : WellBuilt(k)

\* What it says of names.
LEMMA NamesInvIsExact == NamesInv => NamesAreExact
<1> SUFFICES ASSUME NamesInv PROVE NamesAreExact
  OBVIOUS
<1>1. ASSUME NEW k \in keys, NEW l \in keys
      PROVE  /\ redisKey(k) = redisKey(l) <=>
                    /\ [k EXCEPT !.args = <<>>] = [l EXCEPT !.args = <<>>]
                    /\ ToSet(k.args) = ToSet(l.args)
             /\ redisKey(k) # redisWatermarkKey(l.namespace, l.keyType, l.id)
             /\ l.tracked => HashTag(redisKey(l))
                                 = HashTag(redisWatermarkKey(l.namespace, l.keyType, l.id))
  <2>1. WellBuilt(k) /\ WellBuilt(l)
    BY DEF NamesInv
  <2>2. k \in KeyRecords /\ l \in KeyRecords
    BY <2>1 DEF WellBuilt
  <2>3. redisKey(k) = redisKey(l) => k = l
    BY <2>2, RedisKeyIsExact
  <2>4. ASSUME [k EXCEPT !.args = <<>>] = [l EXCEPT !.args = <<>>],
               ToSet(k.args) = ToSet(l.args)
        PROVE  k = l
    <3>1. k.args = l.args
      BY <2>1, <2>4, Zenon DEF WellBuilt
    <3> DEFINE e == [k EXCEPT !.args = <<>>]
               f == [l EXCEPT !.args = <<>>]
    <3>2. /\ e.namespace = k.namespace /\ e.keyType = k.keyType /\ e.id = k.id
          /\ e.useCase = k.useCase /\ e.tracked = k.tracked
          /\ f.namespace = l.namespace /\ f.keyType = l.keyType /\ f.id = l.id
          /\ f.useCase = l.useCase /\ f.tracked = l.tracked
      BY <2>2 DEF KeyRecords
    <3>3. e = f
      BY <2>4
    <3> HIDE DEF e, f
    <3>4. /\ k.namespace = l.namespace /\ k.keyType = l.keyType /\ k.id = l.id
          /\ k.useCase = l.useCase /\ k.tracked = l.tracked
      BY <3>2, <3>3, Zenon
    <3> QED BY <2>2, <3>1, <3>4 DEF KeyRecords
  <2>5. redisKey(k) # redisWatermarkKey(l.namespace, l.keyType, l.id)
    BY <2>2, RedisKeyIsNoWatermark
  <2>6. l.tracked => HashTag(redisKey(l))
                         = HashTag(redisWatermarkKey(l.namespace, l.keyType, l.id))
    BY <2>2, HashTagIsEntity
  <2> QED BY <2>3, <2>4, <2>5, <2>6, Zenon
<1>2. useCases = wrapped
  BY DEF NamesInv
<1> QED BY <1>1, <1>2, Zenon DEF NamesAreExact

\* The key of a call is well built.
LEMMA BuiltKeys ==
    ASSUME NEW o \in Options, NEW cacheKey \in CacheKeys, instance \in Texts
    PROVE  WellBuilt(buildKey(o, cacheKey))
<1> DEFINE k == buildKey(o, cacheKey)
           args == normalizeArgs(cacheKey.args)
<1>1. /\ o.keyType \in Texts /\ o.useCase \in Texts /\ o.trackForInvalidation \in BOOLEAN
      /\ cacheKey.id.text \in Texts /\ cacheKey.args \in Arguments
  BY RegistrationAssumption
<1>2. PICK G : ArgumentSet(G) /\ args = Sorted(G)
  BY <1>1, NormalizedArgs
<1> HIDE DEF args
<1>3. args \in Seq(G) /\ ToSet(args) = G
  BY <1>2, SortedIsExact
<1>4. args \in Seq(Texts \X Texts)
  <2>1. G \subseteq Texts \X Texts
    BY <1>2 DEF ArgumentSet
  <2> QED BY <1>3, <2>1, SeqMonotonic
<1>5. k = [namespace |-> instance, keyType |-> o.keyType, id |-> cacheKey.id.text,
           args |-> args, useCase |-> o.useCase, tracked |-> o.trackForInvalidation]
  BY DEF buildKey, args
<1> HIDE DEF k
<1>6. k \in KeyRecords /\ k.args = args
  BY <1>1, <1>4, <1>5 DEF KeyRecords
<1>7. WellBuilt(k)
  BY <1>2, <1>3, <1>6, Zenon DEF WellBuilt
<1> QED BY <1>7 DEF k

\* Every behaviour of an instance keeps the invariant.
LEMMA NamesInvHolds == RegistrationSpec => []NamesInv
<1>1. RegistrationInit => NamesInv
  BY DEF RegistrationInit, NamesInv
<1>2. NamesInv /\ [RegistrationNext]_registrationVars => NamesInv'
  <2> SUFFICES ASSUME NamesInv, [RegistrationNext]_registrationVars PROVE NamesInv'
    OBVIOUS
  <2>1. CASE UNCHANGED registrationVars
    BY <2>1 DEF NamesInv, registrationVars
  <2>2. ASSUME NEW config \in Configs, constructor(config) PROVE NamesInv'
    <3>1. config.namespace \in Texts /\ NoInstance \notin Texts
      BY RegistrationAssumption
    <3> QED BY <2>2, <3>1 DEF NamesInv, constructor
  <2>3. ASSUME NEW o \in Options, cached(o) PROVE NamesInv'
    BY <2>3 DEF NamesInv, cached
  <2>4. ASSUME NEW o \in Options, NEW cacheKey \in CacheKeys,
               executeCacheOperation(o, cacheKey), instance # NoInstance
        PROVE  NamesInv'
    <3>1. instance \in Texts
      BY <2>4 DEF NamesInv
    <3>2. WellBuilt(buildKey(o, cacheKey))
      BY <3>1, BuiltKeys
    <3>3. keys' \subseteq keys \cup {buildKey(o, cacheKey)}
      BY <2>4 DEF executeCacheOperation
    <3>4. \A k \in keys' : WellBuilt(k)
      BY <3>2, <3>3 DEF NamesInv
    <3> QED BY <2>4, <3>4 DEF NamesInv, executeCacheOperation
  <2>5. ASSUME NEW o \in Options, NEW cacheKey \in CacheKeys, callCached(o, cacheKey)
        PROVE  NamesInv'
    BY <2>4, <2>5 DEF NamesInv, callCached
  <2>6. ASSUME NEW o \in Options, NEW cacheKey \in CacheKeys, getOrLoad(o, cacheKey)
        PROVE  NamesInv'
    BY <2>4, <2>6 DEF getOrLoad
  <2> QED BY <2>1, <2>2, <2>3, <2>5, <2>6 DEF RegistrationNext
<1> QED BY <1>1, <1>2, PTL DEF RegistrationSpec

\* Two calls share a Redis entry exactly when they name the same value, whatever
\* characters their texts are made of; no value lies under a watermark's key, a
\* tracked one lies in its watermark's slot, and a use case is taken exactly by
\* the registrations that returned (key.ts; redis-cache.ts; dialcache.ts).
THEOREM NamesStayExact == RegistrationSpec => []NamesAreExact
BY NamesInvHolds, NamesInvIsExact, PTL
=============================================================================
