--------------------------- MODULE SequenceLemmas ---------------------------
(***************************************************************************)
(* Lemmas about sequences: what FlattenSeq gives, and what the rejection   *)
(* sampling of module Sampling keeps, for sequences of any length.  They   *)
(* are inductions, which here are done over sets of numbers.               *)
(***************************************************************************)
EXTENDS Sampling, FiniteSetTheorems, SequenceTheorems, SequencesExt, TLAPS

(* Every set of numbers that is not empty has a least one. *)
LEMMA Least ==
    ASSUME NEW T \in SUBSET Nat, T # {}
    PROVE  \E n \in T : \A m \in T : n <= m
<1> DEFINE R == StrictSubsetOrdering(Nat)
           C == {0 .. n : n \in T}
<1>1. IsWellFoundedOn(R, FiniteSubsetsOf(Nat))
  BY FS_StrictSubsetOrderingWellFounded
<1>2. C \subseteq FiniteSubsetsOf(Nat)
  <2> SUFFICES ASSUME NEW n \in T PROVE 0 .. n \in FiniteSubsetsOf(Nat)
    OBVIOUS
  <2>1. IsFiniteSet(0 .. n)
    BY FS_Interval
  <2> QED BY <2>1 DEF FiniteSubsetsOf
<1>3. C # {}
  OBVIOUS
<1> HIDE DEF C, R
<1>4. PICK x \in C : \A y \in C : ~ (<<y, x>> \in R)
  BY <1>1, <1>2, <1>3, WFMin
<1>5. PICK n \in T : x = 0 .. n
  BY DEF C
<1>6. \A m \in T : n <= m
  <2> SUFFICES ASSUME NEW m \in T, m < n PROVE FALSE
    OBVIOUS
  <2>1. 0 .. m \in C
    BY DEF C
  <2>2. 0 .. m \subseteq 0 .. n /\ 0 .. m # 0 .. n /\ 0 .. m \in SUBSET Nat /\ 0 .. n \in SUBSET Nat
    OBVIOUS
  <2> QED BY <1>4, <1>5, <2>1, <2>2 DEF R, StrictSubsetOrdering
<1> QED BY <1>6

(* Induction over the numbers, for a set: the library states it for an
   operator. *)
LEMMA Induction ==
    ASSUME NEW T, 0 \in T, \A n \in Nat : n \in T => n + 1 \in T
    PROVE  Nat \subseteq T
<1> SUFFICES ASSUME NEW k \in Nat, k \notin T PROVE FALSE
  OBVIOUS
<1>1. PICK n \in Nat \ T : \A m \in Nat \ T : n <= m
  BY Least
<1>2. n # 0 /\ n - 1 \in Nat
  BY <1>1
<1>3. n - 1 \in T
  BY <1>1, <1>2
<1> QED BY <1>2, <1>3

(* The same up to a number. *)
LEMMA InductionUpTo ==
    ASSUME NEW m \in Nat, NEW T, 0 \in T,
           \A n \in 0 .. m - 1 : n \in T => n + 1 \in T
    PROVE  0 .. m \subseteq T
<1> DEFINE U == {n \in Nat : n <= m => n \in T}
<1>1. 0 \in U /\ \A n \in Nat : n \in U => n + 1 \in U
  OBVIOUS
<1> HIDE DEF U
<1>2. Nat \subseteq U
  BY <1>1, Induction
<1> QED BY <1>2 DEF U

(* f is defined by its first value and by a step for each number. *)
IsRecursive(f, m, S, first, G) ==
    /\ f \in [0 .. m -> S]
    /\ f[0] = first
    /\ \A n \in 1 .. m : f[n] = G[n][f[n - 1]]

(* A function that is defined from one number to the next exists. *)
LEMMA Recursion ==
    ASSUME NEW m \in Nat, NEW S, NEW first \in S, NEW G \in [1 .. m -> [S -> S]]
    PROVE  \E f : IsRecursive(f, m, S, first, G)
<1> DEFINE Upto(k, f) == f[0] = first /\ \A n \in 1 .. k : f[n] = G[n][f[n - 1]]
           T == {k \in 0 .. m : \E f \in [0 .. m -> S] : Upto(k, f)}
<1>1. 0 \in T
  <2> DEFINE f == [n \in 0 .. m |-> first]
  <2>1. f \in [0 .. m -> S] /\ Upto(0, f) /\ 0 \in 0 .. m
    OBVIOUS
  <2> HIDE DEF f, Upto
  <2> QED BY <2>1
<1>2. ASSUME NEW k \in 0 .. m - 1, k \in T PROVE k + 1 \in T
  <2>1. PICK f \in [0 .. m -> S] : Upto(k, f)
    BY <1>2
  <2> DEFINE g == [f EXCEPT ![k + 1] = G[k + 1][f[k]]]
  <2>2. G[k + 1] \in [S -> S] /\ f[k] \in S
    OBVIOUS
  <2>3. g \in [0 .. m -> S]
    BY <2>2
  <2>4. Upto(k + 1, g)
    BY <2>1
  <2>5. k + 1 \in 0 .. m
    OBVIOUS
  <2> HIDE DEF g, Upto
  <2> QED BY <2>3, <2>4, <2>5
<1> HIDE DEF T
<1>3. 0 .. m \subseteq T
  BY <1>1, <1>2, InductionUpTo
<1> QED BY <1>3 DEF T, IsRecursive

(* Three sequences in a row may be joined from either side. *)
LEMMA Associative ==
    ASSUME NEW S
    PROVE  \A a, b, c \in Seq(S) : (a \o b) \o c = a \o (b \o c)
<1> TAKE a, b, c \in Seq(S)
<1> QED BY ConcatAssociative

-----------------------------------------------------------------------------
(* f[n] is the first n sequences of ss, one after the other. *)
IsFlat(f, ss, S) ==
    /\ f \in [0 .. Len(ss) -> Seq(S)]
    /\ f[0] = <<>>
    /\ \A n \in 1 .. Len(ss) : f[n] = f[n - 1] \o ss[n]

(* FlattenSeq is such a function at the end: each sequence is appended to
   what the ones before it gave. *)
LEMMA FlattenIs ==
    ASSUME NEW S, NEW ss \in Seq(Seq(S))
    PROVE  \E f : IsFlat(f, ss, S) /\ FlattenSeq(ss) = f[Len(ss)]
<1> DEFINE m == Len(ss)
           G == [n \in 1 .. m |-> [q \in Seq(S) |-> q \o ss[n]]]
           Eq(f) == f = [n \in 1 .. m |-> IF n = 1 THEN ss[n] ELSE f[n - 1] \o ss[n]]
<1>1. m \in Nat /\ <<>> \in Seq(S) /\ \A n \in 1 .. m : ss[n] \in Seq(S)
  OBVIOUS
<1>2. G \in [1 .. m -> [Seq(S) -> Seq(S)]]
  BY <1>1
<1>3. PICK f : IsRecursive(f, m, Seq(S), <<>>, G)
  <2> HIDE DEF G, m, Eq
  <2> QED BY <1>1, <1>2, Recursion
<1>4. \A n \in 1 .. m : n - 1 \in 0 .. m /\ f[n - 1] \in Seq(S)
  <2> HIDE DEF G, m
  <2>1. \A n \in 1 .. m : n - 1 \in 0 .. m
    BY <1>1
  <2> QED BY <1>3, <2>1 DEF IsRecursive
<1>5. IsFlat(f, ss, S)
  BY <1>1, <1>3, <1>4 DEF IsFlat, IsRecursive
<1> HIDE DEF G
<1>6. CASE m = 0
  BY <1>5, <1>6 DEF IsFlat, FlattenSeq
<1>7. CASE m # 0
  <2> DEFINE g == [n \in 1 .. m |-> f[n]]
  <2>1. /\ \A n \in 1 .. m : n # 1 => n - 1 \in 1 .. m
        /\ 1 \in 1 .. m /\ m \in 1 .. m
    BY <1>1, <1>7
  <2>2. f[1] = ss[1]
    <3> HIDE DEF g, Eq
    <3>1. f[0] = <<>> /\ f[1] = f[0] \o ss[1]
      <4>1. \A n \in 1 .. m : f[n] = f[n - 1] \o ss[n]
        BY <1>5 DEF IsFlat
      <4>2. f[1] = f[1 - 1] \o ss[1]
        BY <2>1, <4>1, Zenon
      <4>3. 1 - 1 = 0
        OBVIOUS
      <4> QED BY <1>5, <4>2, <4>3 DEF IsFlat
    <3>2. ss[1] \in Seq(S) /\ f[1] = <<>> \o ss[1]
      BY <1>1, <2>1, <3>1
    <3> QED BY <3>2, ConcatEmptySeq
  <2>3. \A n \in 1 .. m : f[n] = IF n = 1 THEN ss[n] ELSE f[n - 1] \o ss[n]
    BY <1>5, <2>2 DEF IsFlat
  <2>4. Eq(g)
    BY <2>1, <2>3
  <2>5. \A h : Eq(h) => h = g
    <3> SUFFICES ASSUME NEW h, Eq(h) PROVE h = g
      OBVIOUS
    <3>1. /\ h = [n \in 1 .. m |-> h[n]]
          /\ \A n \in 1 .. m : h[n] = IF n = 1 THEN ss[n] ELSE h[n - 1] \o ss[n]
      OBVIOUS
    <3> DEFINE T == {n \in 0 .. m : n # 0 => h[n] = f[n]}
    <3>2. 0 \in T
      BY <1>1
    <3>3. ASSUME NEW n \in 0 .. m - 1, n \in T PROVE n + 1 \in T
      <4>1. n + 1 \in 1 .. m /\ n + 1 \in 0 .. m /\ (n + 1) - 1 = n
        BY <1>1
      <4>2. h[n + 1] = IF n + 1 = 1 THEN ss[n + 1] ELSE h[n] \o ss[n + 1]
        BY <3>1, <4>1
      <4>3. f[n + 1] = IF n + 1 = 1 THEN ss[n + 1] ELSE f[n] \o ss[n + 1]
        BY <2>3, <4>1
      <4>4. n + 1 # 1 => h[n] = f[n]
        BY <3>3
      <4>5. h[n + 1] = f[n + 1]
        BY <4>2, <4>3, <4>4
      <4> QED BY <4>1, <4>5
    <3> HIDE DEF T
    <3>4. 0 .. m \subseteq T
      BY <1>1, <3>2, <3>3, InductionUpTo
    <3>5. \A n \in 1 .. m : h[n] = f[n]
      <4> SUFFICES ASSUME NEW n \in 1 .. m PROVE h[n] = f[n]
        OBVIOUS
      <4> HIDE DEF Eq, g, m
      <4>1. n \in 0 .. m /\ n # 0
        BY <1>1
      <4>2. n \in T
        BY <3>4, <4>1
      <4> QED BY <4>1, <4>2 DEF T
    <3> QED BY <3>1, <3>5
  <2>6. FlattenSeq(ss) = (CHOOSE h : Eq(h))[m]
    BY <1>7 DEF FlattenSeq
  <2> HIDE DEF Eq, g
  <2>7. (CHOOSE h : Eq(h)) = g
    BY <2>4, <2>5
  <2>8. FlattenSeq(ss) = f[m]
    BY <2>1, <2>6, <2>7 DEF g
  <2> QED BY <1>5, <2>8
<1> QED BY <1>6, <1>7

(* It is a sequence of the same elements. *)
LEMMA FlattenTyped ==
    ASSUME NEW S, NEW ss \in Seq(Seq(S))
    PROVE  FlattenSeq(ss) \in Seq(S)
<1>1. PICK f : IsFlat(f, ss, S) /\ FlattenSeq(ss) = f[Len(ss)]
  BY FlattenIs
<1>2. Len(ss) \in 0 .. Len(ss)
  OBVIOUS
<1> QED BY <1>1, <1>2 DEF IsFlat

(* Nothing gives nothing. *)
LEMMA FlattenEmpty == FlattenSeq(<<>>) = <<>>
BY DEF FlattenSeq

(* One sequence gives itself. *)
LEMMA FlattenOne ==
    ASSUME NEW S, NEW q \in Seq(S)
    PROVE  FlattenSeq(<<q>>) = q
<1>1. PICK f : IsFlat(f, <<q>>, S) /\ FlattenSeq(<<q>>) = f[1]
  <2>1. <<q>> \in Seq(Seq(S)) /\ Len(<<q>>) = 1
    OBVIOUS
  <2> QED BY <2>1, FlattenIs
<1>2. f[1] = f[0] \o q /\ f[0] = <<>>
  <2>1. Len(<<q>>) = 1 /\ 1 \in 1 .. 1 /\ 1 - 1 = 0 /\ <<q>>[1] = q
    OBVIOUS
  <2> QED BY <1>1, <2>1 DEF IsFlat
<1> QED BY <1>1, <1>2, ConcatEmptySeq

(* Flattening goes on where it ended. *)
LEMMA FlattenConcat ==
    ASSUME NEW S, NEW ss \in Seq(Seq(S)), NEW tt \in Seq(Seq(S))
    PROVE  FlattenSeq(ss \o tt) = FlattenSeq(ss) \o FlattenSeq(tt)
<1> DEFINE k == Len(ss)
           m == Len(tt)
           r == ss \o tt
<1>0. /\ k \in Nat /\ m \in Nat /\ r \in Seq(Seq(S)) /\ Len(r) = k + m
      /\ \A n \in 1 .. k : r[n] = ss[n]
      /\ \A n \in 1 .. m : r[k + n] = tt[n]
  OBVIOUS
<1>1. PICK f : IsFlat(f, ss, S) /\ FlattenSeq(ss) = f[k]
  BY FlattenIs
<1>2. PICK g : IsFlat(g, tt, S) /\ FlattenSeq(tt) = g[m]
  BY FlattenIs
<1> HIDE DEF r
<1>3. PICK h : IsFlat(h, r, S) /\ FlattenSeq(r) = h[k + m]
  BY <1>0, FlattenIs
<1> HIDE DEF k, m
<1>4. h[k] = f[k]
  <2> DEFINE T == {n \in 0 .. k : h[n] = f[n]}
  <2>1. 0 \in T
    BY <1>0, <1>1, <1>3 DEF IsFlat
  <2>2. ASSUME NEW n \in 0 .. k - 1, n \in T PROVE n + 1 \in T
    <3>1. /\ n + 1 \in 1 .. k /\ n + 1 \in 0 .. k /\ (n + 1) - 1 = n
          /\ n + 1 \in 1 .. k + m
      BY <1>0
    <3>2. f[n + 1] = f[n] \o ss[n + 1]
      BY <1>1, <3>1 DEF IsFlat, k
    <3>3. h[n + 1] = h[n] \o r[n + 1]
      BY <1>0, <1>3, <3>1 DEF IsFlat
    <3>4. r[n + 1] = ss[n + 1] /\ h[n] = f[n]
      BY <1>0, <2>2, <3>1
    <3>5. h[n + 1] = f[n + 1]
      BY <3>2, <3>3, <3>4
    <3> QED BY <3>1, <3>5
  <2> HIDE DEF T
  <2>3. 0 .. k \subseteq T
    BY <1>0, <2>1, <2>2, InductionUpTo
  <2> QED BY <1>0, <2>3 DEF T
<1>5. f[k] \in Seq(S)
  <2>1. f \in [0 .. k -> Seq(S)] /\ k \in 0 .. k
    BY <1>0, <1>1 DEF IsFlat, k
  <2> QED BY <2>1
<1>6. h[k + m] = f[k] \o g[m]
  <2> DEFINE T == {n \in 0 .. m : h[k + n] = f[k] \o g[n]}
  <2>1. 0 \in T
    <3>1. g[0] = <<>> /\ k + 0 = k /\ f[k] \o <<>> = f[k] /\ 0 \in 0 .. m
      BY <1>0, <1>2, <1>5 DEF IsFlat
    <3> QED BY <1>4, <3>1
  <2>2. ASSUME NEW n \in 0 .. m - 1, n \in T PROVE n + 1 \in T
    <3>1. /\ n + 1 \in 1 .. m /\ n + 1 \in 0 .. m /\ (n + 1) - 1 = n
          /\ (k + (n + 1)) - 1 = k + n
          /\ k + (n + 1) \in 1 .. k + m /\ n \in 0 .. m
      BY <1>0
    <3>2. g[n + 1] = g[n] \o tt[n + 1]
      BY <1>2, <3>1 DEF IsFlat, m
    <3>3. h[k + (n + 1)] = h[k + n] \o r[k + (n + 1)]
      BY <1>0, <1>3, <3>1 DEF IsFlat
    <3>4. r[k + (n + 1)] = tt[n + 1] /\ h[k + n] = f[k] \o g[n]
      BY <1>0, <2>2, <3>1
    <3>5. g[n] \in Seq(S) /\ tt[n + 1] \in Seq(S)
      <4>1. g \in [0 .. m -> Seq(S)] /\ tt \in [1 .. m -> Seq(S)]
        BY <1>2 DEF IsFlat, m
      <4> QED BY <3>1, <4>1
    <3>6. (f[k] \o g[n]) \o tt[n + 1] = f[k] \o (g[n] \o tt[n + 1])
      <4> HIDE DEF T
      <4> DEFINE u == f[k]
                 v == g[n]
                 w == tt[n + 1]
      <4>1. u \in Seq(S) /\ v \in Seq(S) /\ w \in Seq(S)
        BY <1>5, <3>5
      <4>2. \A a, b, c \in Seq(S) : (a \o b) \o c = a \o (b \o c)
        BY Associative
      <4> HIDE DEF u, v, w
      <4>3. (u \o v) \o w = u \o (v \o w)
        BY <4>1, <4>2
      <4> QED BY <4>3 DEF u, v, w
    <3>7. h[k + (n + 1)] = f[k] \o g[n + 1]
      BY <3>2, <3>3, <3>4, <3>6
    <3> QED BY <3>1, <3>7
  <2> HIDE DEF T
  <2>3. 0 .. m \subseteq T
    BY <1>0, <2>1, <2>2, InductionUpTo
  <2>4. m \in T
    BY <1>0, <2>3
  <2> QED BY <2>4 DEF T
<1> QED BY <1>1, <1>2, <1>3, <1>6 DEF r

(* Window of one length make so many times that length. *)
LEMMA FlattenLength ==
    ASSUME NEW S, NEW ss \in Seq(Seq(S)), NEW c \in Nat,
           \A n \in 1 .. Len(ss) : Len(ss[n]) = c
    PROVE  Len(FlattenSeq(ss)) = c * Len(ss)
<1> DEFINE m == Len(ss)
<1>0. m \in Nat
  OBVIOUS
<1>1. PICK f : IsFlat(f, ss, S) /\ FlattenSeq(ss) = f[m]
  BY FlattenIs
<1> DEFINE T == {n \in 0 .. m : Len(f[n]) = c * n}
<1>2. 0 \in T
  BY <1>0, <1>1 DEF IsFlat
<1>3. ASSUME NEW n \in 0 .. m - 1, n \in T PROVE n + 1 \in T
  <2>1. n + 1 \in 1 .. m /\ n + 1 \in 0 .. m /\ (n + 1) - 1 = n /\ n \in 0 .. m
    BY <1>0
  <2>2. f[n + 1] = f[n] \o ss[n + 1]
    BY <1>1, <2>1 DEF IsFlat
  <2>3. f[n] \in Seq(S) /\ ss[n + 1] \in Seq(S) /\ Len(ss[n + 1]) = c
    <3> HIDE DEF T
    <3>1. f \in [0 .. m -> Seq(S)] /\ ss \in [1 .. m -> Seq(S)]
      BY <1>1 DEF IsFlat
    <3>2. Len(ss[n + 1]) = c
      BY <2>1
    <3> HIDE DEF m
    <3> QED BY <2>1, <3>1, <3>2
  <2>4. Len(f[n]) = c * n
    BY <1>3
  <2>5. Len(f[n] \o ss[n + 1]) = Len(f[n]) + Len(ss[n + 1])
    <3> HIDE DEF T, m
    <3> QED BY <2>3, ConcatProperties
  <2>6. c * n + c = c * (n + 1)
    <3>1. PICK k \in Nat : k = n
      BY <2>1, <1>0
    <3> HIDE DEF T, m
    <3> QED BY <3>1
  <2>7. Len(f[n + 1]) = c * (n + 1)
    <3> HIDE DEF T, m
    <3> QED BY <2>2, <2>3, <2>4, <2>5, <2>6
  <2> QED BY <2>1, <2>7
<1> HIDE DEF T, m
<1>4. 0 .. m \subseteq T
  BY <1>0, <1>2, <1>3, InductionUpTo
<1>5. m \in T
  BY <1>0, <1>4
<1> QED BY <1>1, <1>5 DEF T, m

-----------------------------------------------------------------------------
(* Below, in halves, is one piece for every element. *)
Piece(s, top, n) == IF s[n] < top THEN <<s[n]>> ELSE <<>>

Window(s, top, lo, hi) == [n \in 1 .. hi - lo + 1 |-> Piece(s, top, lo + n - 1)]

(* Each piece has what is below the bound. *)
LEMMA WindowTyped ==
    ASSUME NEW V, NEW s \in Seq(V), NEW top \in Int,
           NEW lo \in 1 .. Len(s) + 1, NEW hi \in lo - 1 .. Len(s)
    PROVE  /\ Window(s, top, lo, hi) \in Seq(Seq({v \in V : v < top}))
           /\ Len(Window(s, top, lo, hi)) = hi - lo + 1
<1> DEFINE W == {v \in V : v < top}
<1>1. hi - lo + 1 \in Nat
  OBVIOUS
<1>2. ASSUME NEW n \in 1 .. hi - lo + 1 PROVE Piece(s, top, lo + n - 1) \in Seq(W)
  <2>1. lo + n - 1 \in 1 .. Len(s)
    OBVIOUS
  <2>2. s[lo + n - 1] \in V
    BY <2>1
  <2> DEFINE x == s[lo + n - 1]
  <2>3. x < top => x \in W
    BY <2>2
  <2> HIDE DEF x, W
  <2>4. (IF x < top THEN <<x>> ELSE <<>>) \in Seq(W)
    BY <2>3
  <2> QED BY <2>4 DEF Piece, x
<1> HIDE DEF W
<1>3. Window(s, top, lo, hi) \in [1 .. hi - lo + 1 -> Seq(W)]
  BY <1>2 DEF Window
<1> QED BY <1>1, <1>3 DEF W

(* Two ranges one after the other. *)
LEMMA WindowConcat ==
    ASSUME NEW V, NEW s \in Seq(V), NEW top \in Int,
           NEW lo \in 1 .. Len(s) + 1, NEW mid \in lo - 1 .. Len(s),
           NEW hi \in mid .. Len(s)
    PROVE  Window(s, top, lo, mid) \o Window(s, top, mid + 1, hi) =
              Window(s, top, lo, hi)
<1> DEFINE a == Window(s, top, lo, mid)
           b == Window(s, top, mid + 1, hi)
           W == Seq({v \in V : v < top})
           k == mid - lo + 1
           m == hi - lo + 1
<1>1. /\ a \in Seq(W) /\ Len(a) = k
      /\ b \in Seq(W) /\ Len(b) = m - k
      /\ k \in Nat /\ m \in Nat /\ k <= m
  <2>1. PICK lo2 \in 1 .. Len(s) + 1 : lo2 = mid + 1
    OBVIOUS
  <2>2. /\ hi \in lo2 - 1 .. Len(s)
        /\ hi - lo2 + 1 = m - k /\ k \in Nat /\ m \in Nat /\ k <= m
    BY <2>1
  <2>3. a \in Seq(W) /\ Len(a) = k
    BY WindowTyped
  <2>4. Window(s, top, lo2, hi) \in Seq(W) /\ Len(Window(s, top, lo2, hi)) = hi - lo2 + 1
    BY <2>2, WindowTyped
  <2> HIDE DEF a, W, k, m
  <2> QED BY <2>1, <2>2, <2>3, <2>4
<1> DEFINE c == a \o b
<1>2. c \in Seq(W) /\ Len(c) = m
  <2> HIDE DEF a, b, W, k, m
  <2> QED BY <1>1
<1>3. ASSUME NEW n \in 1 .. m PROVE c[n] = Piece(s, top, lo + n - 1)
  <2>1. CASE n <= k
    <3>1. c[n] = a[n]
      <4> HIDE DEF a, b, W, k, m
      <4> QED BY <1>1, <2>1
    <3> QED BY <2>1, <3>1 DEF Window
  <2>2. CASE n > k
    <3>1. c[n] = b[n - k] /\ n - k \in 1 .. m - k
      <4> HIDE DEF a, b, W, k, m
      <4>1. n - k \in 1 .. m - k /\ n \in 1 .. Len(a) + Len(b)
        BY <1>1, <2>2
      <4> QED BY <1>1, <2>2, <4>1, ConcatProperties
    <3>2. n - k \in 1 .. hi - (mid + 1) + 1 /\ (mid + 1) + (n - k) - 1 = lo + n - 1
      BY <3>1
    <3>3. b[n - k] = Piece(s, top, (mid + 1) + (n - k) - 1)
      <4> DEFINE i == n - k
      <4>1. i \in 1 .. hi - (mid + 1) + 1
        BY <3>2
      <4> HIDE DEF i
      <4>2. b[i] = Piece(s, top, (mid + 1) + i - 1)
        BY <4>1 DEF Window
      <4> QED BY <4>2 DEF i
    <3> QED BY <3>1, <3>2, <3>3
  <2>3. n <= k \/ n > k
    BY <1>1
  <2> QED BY <2>1, <2>2, <2>3, Zenon
<1> HIDE DEF a, b, W, c
<1>4. c = [n \in 1 .. m |-> c[n]]
  BY <1>1, <1>2
<1>5. c = Window(s, top, lo, hi)
  BY <1>3, <1>4 DEF Window
<1> QED BY <1>5 DEF c, a, b

(* Below, which goes by halves, takes the elements one after the other. *)
LEMMA BelowIs ==
    ASSUME NEW V, NEW s \in Seq(V), NEW top \in Int
    PROVE  Below(s, top) = FlattenSeq(Window(s, top, 1, Len(s)))
<1> DEFINE m == Len(s)
           A == 1 .. m + 1
           B == 0 .. m
           Body(g, lo, hi) ==
              IF lo > hi THEN <<>>
              ELSE IF lo = hi THEN IF s[lo] < top THEN <<s[lo]>> ELSE <<>>
              ELSE g[<<lo, (lo + hi) \div 2>>] \o g[<<(lo + hi) \div 2 + 1, hi>>]
           Eq(g) == g = [r \in A \X B |-> Body(g, r[1], r[2])]
           F(lo, hi) == IF lo > hi THEN <<>> ELSE FlattenSeq(Window(s, top, lo, hi))
           f == [r \in A \X B |-> F(r[1], r[2])]
<1>1. m \in Nat
  OBVIOUS
<1>0. ASSUME NEW lo \in A, NEW hi \in B PROVE f[<<lo, hi>>] = F(lo, hi)
  <2>1. <<lo, hi>> \in A \X B /\ <<lo, hi>>[1] = lo /\ <<lo, hi>>[2] = hi
    OBVIOUS
  <2> HIDE DEF A, B, F
  <2> QED BY <2>1
<1> HIDE DEF f
<1>2. ASSUME NEW lo \in A, NEW hi \in B PROVE f[<<lo, hi>>] = Body(f, lo, hi)
  <2>1. CASE lo > hi
    BY <1>0, <2>1
  <2>2. CASE lo = hi
    <3>1. f[<<lo, hi>>] = FlattenSeq(Window(s, top, lo, hi))
      BY <1>0, <2>2
    <3>2. Window(s, top, lo, hi) = <<Piece(s, top, lo)>>
      <4>1. hi - lo + 1 = 1 /\ lo + 1 - 1 = lo
        BY <1>1, <2>2
      <4>2. Window(s, top, lo, hi) = [n \in 1 .. 1 |-> Piece(s, top, lo)]
        BY <4>1 DEF Window
      <4> QED BY <4>2
    <3>3. Piece(s, top, lo) \in Seq(V)
      BY <1>1, <2>2 DEF Piece
    <3>4. FlattenSeq(<<Piece(s, top, lo)>>) = Piece(s, top, lo)
      BY <3>3, FlattenOne
    <3> QED BY <2>2, <3>1, <3>2, <3>4 DEF Piece
  <2>3. CASE lo < hi
    <3> DEFINE mid == (lo + hi) \div 2
    <3>1. /\ mid \in lo .. hi - 1 /\ mid \in B /\ mid + 1 \in A /\ mid + 1 <= hi
          /\ mid \in lo - 1 .. m /\ hi \in mid .. m
          /\ hi \in (mid + 1) - 1 .. m /\ lo \in 1 .. Len(s) + 1
          /\ lo <= mid
      BY <1>1, <2>3
    <3>2. /\ f[<<lo, hi>>] = FlattenSeq(Window(s, top, lo, hi))
          /\ f[<<lo, mid>>] = FlattenSeq(Window(s, top, lo, mid))
          /\ f[<<mid + 1, hi>>] = FlattenSeq(Window(s, top, mid + 1, hi))
      <4> HIDE DEF mid
      <4> QED BY <1>0, <1>1, <2>3, <3>1
    <3> HIDE DEF mid
    <3> DEFINE a == Window(s, top, lo, mid)
               b == Window(s, top, mid + 1, hi)
    <3>3. a \o b = Window(s, top, lo, hi)
      BY <3>1, WindowConcat
    <3>6. PICK lo2 \in 1 .. Len(s) + 1 : lo2 = mid + 1 /\ hi \in lo2 - 1 .. Len(s)
      BY <3>1
    <3>7. Window(s, top, lo2, hi) \in Seq(Seq({v \in V : v < top}))
      BY <3>6, WindowTyped
    <3>8. a \in Seq(Seq({v \in V : v < top}))
      BY <3>1, WindowTyped
    <3>4. /\ a \in Seq(Seq({v \in V : v < top}))
          /\ b \in Seq(Seq({v \in V : v < top}))
      BY <3>6, <3>7, <3>8
    <3>5. FlattenSeq(a \o b) = FlattenSeq(a) \o FlattenSeq(b)
      BY <3>4, FlattenConcat
    <3>9. f[<<lo, hi>>] = f[<<lo, mid>>] \o f[<<mid + 1, hi>>]
      <4> HIDE DEF a, b
      <4> QED BY <3>2, <3>3, <3>5 DEF a, b
    <3>10. ~ (lo > hi) /\ lo # hi
      BY <1>1, <2>3
    <3> QED BY <3>9, <3>10, Zenon DEF mid
  <2> QED BY <1>1, <2>1, <2>2, <2>3
<1>3. Eq(f)
  <2>1. ASSUME NEW r \in A \X B PROVE f[r] = Body(f, r[1], r[2])
    <3>1. PICK lo \in A, hi \in B : r = <<lo, hi>>
      OBVIOUS
    <3>2. r[1] = lo /\ r[2] = hi
      BY <3>1
    <3> HIDE DEF A, B, Body
    <3> QED BY <1>2, <3>1, <3>2
  <2>2. f = [r \in A \X B |-> f[r]]
    BY DEF f
  <2> HIDE DEF A, B, Body
  <2> QED BY <2>1, <2>2
<1>4. \A g : Eq(g) => g = f
  <2> SUFFICES ASSUME NEW g, Eq(g) PROVE g = f
    OBVIOUS
  <2>1. ASSUME NEW lo \in A, NEW hi \in B PROVE g[<<lo, hi>>] = Body(g, lo, hi)
    <3>1. <<lo, hi>> \in A \X B /\ <<lo, hi>>[1] = lo /\ <<lo, hi>>[2] = hi
      OBVIOUS
    <3>2. \A r \in A \X B : g[r] = Body(g, r[1], r[2])
      <4> HIDE DEF A, B, Body
      <4> QED OBVIOUS
    <3> HIDE DEF A, B, Body
    <3> QED BY <3>1, <3>2
  <2> DEFINE Same(lo, hi) == g[<<lo, hi>>] = f[<<lo, hi>>]
             T == {n \in 0 .. m : \A lo \in A, hi \in B : hi - lo < n => Same(lo, hi)}
  <2>2. 0 \in T
    <3>1. ASSUME NEW lo \in A, NEW hi \in B, hi - lo < 0 PROVE Same(lo, hi)
      <4>1. Body(g, lo, hi) = <<>> /\ Body(f, lo, hi) = <<>>
        BY <1>1, <3>1
      <4> HIDE DEF Body, A, B
      <4> QED BY <1>2, <2>1, <4>1
    <3> HIDE DEF Same, A, B
    <3> QED BY <1>1, <3>1
  <2>3. ASSUME NEW n \in 0 .. m - 1, n \in T PROVE n + 1 \in T
    <3>1. ASSUME NEW lo \in A, NEW hi \in B, hi - lo < n + 1 PROVE Same(lo, hi)
      <4>1. CASE lo >= hi
        <5>1. Body(g, lo, hi) = Body(f, lo, hi)
          BY <1>1, <4>1
        <5> HIDE DEF Body, A, B
        <5> QED BY <1>2, <2>1, <5>1
      <4>2. CASE lo < hi
        <5> DEFINE mid == (lo + hi) \div 2
        <5>1. /\ mid \in B /\ mid + 1 \in A /\ mid - lo < n /\ hi - (mid + 1) < n
          BY <1>1, <3>1, <4>2
        <5>2. Same(lo, mid) /\ Same(mid + 1, hi)
          <6> HIDE DEF Same, mid, Body
          <6>1. \A x \in A, y \in B : y - x < n => Same(x, y)
            BY <2>3
          <6> QED BY <5>1, <6>1
        <5>3. /\ g[<<lo, hi>>] = g[<<lo, mid>>] \o g[<<mid + 1, hi>>]
              /\ f[<<lo, hi>>] = f[<<lo, mid>>] \o f[<<mid + 1, hi>>]
          <6>0. ~ (lo > hi) /\ lo # hi
            BY <1>1, <4>2
          <6>1. /\ Body(g, lo, hi) = g[<<lo, mid>>] \o g[<<mid + 1, hi>>]
                /\ Body(f, lo, hi) = f[<<lo, mid>>] \o f[<<mid + 1, hi>>]
            BY <6>0, Zenon
          <6> HIDE DEF Body, A, B, mid
          <6> QED BY <1>2, <2>1, <6>1
        <5> QED BY <5>2, <5>3
      <4> QED BY <1>1, <4>1, <4>2
    <3> HIDE DEF Same, A, B
    <3> QED BY <1>1, <3>1
  <2> HIDE DEF T
  <2>4. 0 .. m \subseteq T
    BY <1>1, <2>2, <2>3, InductionUpTo
  <2>5. m \in T
    BY <1>1, <2>4
  <2>6. \A lo \in A, hi \in B : Same(lo, hi)
    <3> TAKE lo \in A, hi \in B
    <3>1. CASE hi - lo < m
      BY <2>5, <3>1 DEF T
    <3> QED BY <1>1, <3>1
  <2>7. f = [r \in A \X B |-> f[r]]
    BY DEF f
  <2>8. g = [r \in A \X B |-> g[r]]
    <3> HIDE DEF A, B, Body
    <3> QED OBVIOUS
  <2>9. \A r \in A \X B : g[r] = f[r]
    <3> TAKE r \in A \X B
    <3>1. PICK lo \in A, hi \in B : r = <<lo, hi>>
      OBVIOUS
    <3> HIDE DEF A, B
    <3> QED BY <2>6, <3>1
  <2> HIDE DEF A, B, Eq, Same
  <2> QED BY <2>7, <2>8, <2>9
<1>5. Below(s, top) = (CHOOSE g : Eq(g))[<<1, m>>]
  BY DEF Below
<1>6. f[<<1, m>>] = FlattenSeq(Window(s, top, 1, m))
  <2>0. f[<<1, m>>] = F(1, m)
    BY <1>0, <1>1
  <2>1. CASE m = 0
    <3>1. Window(s, top, 1, m) = <<>>
      BY <2>1 DEF Window
    <3>2. f[<<1, m>>] = <<>>
      BY <2>0, <2>1
    <3> QED BY <3>1, <3>2, FlattenEmpty
  <2>2. CASE m > 0
    BY <1>1, <2>0, <2>2
  <2> QED BY <1>1, <2>1, <2>2
<1> HIDE DEF Eq, f
<1>7. (CHOOSE g : Eq(g)) = f
  BY <1>3, <1>4
<1> QED BY <1>5, <1>6, <1>7

(* What is kept is below the bound, and comes from s. *)
LEMMA BelowTyped ==
    ASSUME NEW V, NEW s \in Seq(V), NEW top \in Int
    PROVE  Below(s, top) \in Seq({v \in V : v < top})
<1>1. PICK lo \in 1 .. Len(s) + 1 : lo = 1 /\ Len(s) \in lo - 1 .. Len(s)
  OBVIOUS
<1>2. Window(s, top, lo, Len(s)) \in Seq(Seq({v \in V : v < top}))
  BY <1>1, WindowTyped
<1>3. FlattenSeq(Window(s, top, lo, Len(s))) \in Seq({v \in V : v < top})
  BY <1>2, FlattenTyped
<1> QED BY <1>1, <1>3, BelowIs

(* Nothing is lost or taken twice where one sequence ends and another begins. *)
LEMMA BelowConcat ==
    ASSUME NEW V, NEW s \in Seq(V), NEW t \in Seq(V), NEW top \in Int
    PROVE  Below(s \o t, top) = Below(s, top) \o Below(t, top)
<1> DEFINE k == Len(s)
           m == Len(t)
           r == s \o t
           a == Window(s, top, 1, k)
           b == Window(t, top, 1, m)
<1>1. /\ k \in Nat /\ m \in Nat /\ r \in Seq(V) /\ Len(r) = k + m
      /\ \A n \in 1 .. k : r[n] = s[n]
      /\ \A n \in 1 .. m : r[k + n] = t[n]
  OBVIOUS
<1> HIDE DEF r
<1>2. Window(r, top, 1, k) = a
  <2>1. k - 1 + 1 = k /\ \A n \in 1 .. k : 1 + n - 1 = n
    BY <1>1
  <2> HIDE DEF k
  <2> QED BY <1>1, <2>1 DEF Window, Piece
<1>3. Window(r, top, k + 1, k + m) = b
  <2>1. /\ (k + m) - (k + 1) + 1 = m /\ m - 1 + 1 = m
        /\ \A n \in 1 .. m : (k + 1) + n - 1 = k + n /\ 1 + n - 1 = n
    BY <1>1
  <2> HIDE DEF k, m
  <2> QED BY <1>1, <2>1 DEF Window, Piece
<1>4. a \o b = Window(r, top, 1, k + m)
  <2>1. PICK lo \in 1 .. Len(r) + 1, mid \in Nat, hi \in Nat :
           /\ lo = 1 /\ mid = k /\ hi = k + m
           /\ mid \in lo - 1 .. Len(r) /\ hi \in mid .. Len(r)
    <3> HIDE DEF k, m, a, b
    <3>1. 1 \in 1 .. Len(r) + 1 /\ k \in 1 - 1 .. Len(r) /\ k + m \in k .. Len(r)
      BY <1>1
    <3> QED BY <1>1, <3>1
  <2>2. Window(r, top, lo, mid) \o Window(r, top, mid + 1, hi) = Window(r, top, lo, hi)
    BY <1>1, <2>1, WindowConcat
  <2> HIDE DEF k, m, a, b
  <2> QED BY <1>2, <1>3, <2>1, <2>2
<1>5. a \in Seq(Seq(V)) /\ b \in Seq(Seq(V))
  <2>1. ASSUME NEW q \in Seq(V) PROVE Window(q, top, 1, Len(q)) \in Seq(Seq(V))
    <3>1. PICK lo \in 1 .. Len(q) + 1 : lo = 1 /\ Len(q) \in lo - 1 .. Len(q)
      OBVIOUS
    <3> DEFINE W == {v \in V : v < top}
    <3>2. Window(q, top, lo, Len(q)) \in Seq(Seq(W))
      BY <3>1, WindowTyped
    <3>3. W \subseteq V
      OBVIOUS
    <3> HIDE DEF W
    <3>4. Seq(W) \subseteq Seq(V)
      BY <3>3, SeqMonotonic
    <3>5. Seq(Seq(W)) \subseteq Seq(Seq(V))
      BY <3>4, SeqMonotonic
    <3> QED BY <3>1, <3>2, <3>5
  <2> QED BY <2>1
<1>6. FlattenSeq(a \o b) = FlattenSeq(a) \o FlattenSeq(b)
  BY <1>5, FlattenConcat
<1>7. Below(s, top) = FlattenSeq(a) /\ Below(t, top) = FlattenSeq(b)
  BY BelowIs
<1>8. Below(r, top) = FlattenSeq(Window(r, top, 1, k + m))
  BY <1>1, BelowIs
<1> HIDE DEF a, b, k, m
<1> QED BY <1>4, <1>6, <1>7, <1>8 DEF r

(* As many of the first as are asked for. *)
LEMMA AtMostTyped ==
    ASSUME NEW S, NEW s \in Seq(S), NEW len \in Nat
    PROVE  /\ AtMost(len, s) \in Seq(S)
           /\ Len(AtMost(len, s)) <= len
           /\ Len(AtMost(len, s)) < len => AtMost(len, s) = s
<1>1. CASE Len(s) > len
  <2>1. SubSeq(s, 1, len) \in Seq(S) /\ Len(SubSeq(s, 1, len)) = len
    BY <1>1
  <2> QED BY <1>1, <2>1 DEF AtMost
<1>2. CASE ~ (Len(s) > len)
  BY <1>2 DEF AtMost
<1> QED BY <1>1, <1>2

(* What lacks some of the first is filled up from the second. *)
LEMMA AtMostConcat ==
    ASSUME NEW S, NEW s \in Seq(S), NEW t \in Seq(S), NEW len \in Nat, Len(s) <= len
    PROVE  AtMost(len, s \o t) = s \o AtMost(len - Len(s), t)
<1> DEFINE k == Len(s)
           m == Len(t)
           r == s \o t
<1>1. /\ k \in Nat /\ m \in Nat /\ r \in Seq(S) /\ Len(r) = k + m
      /\ \A n \in 1 .. k : r[n] = s[n]
      /\ \A n \in 1 .. m : r[k + n] = t[n]
  OBVIOUS
<1>2. CASE m <= len - k
  BY <1>1, <1>2 DEF AtMost
<1>3. CASE m > len - k
  <2> DEFINE a == SubSeq(r, 1, len)
             b == SubSeq(t, 1, len - k)
             c == s \o b
  <2>1. /\ Len(a) = len /\ a \in Seq(S)
        /\ \A n \in 1 .. len : a[n] = r[n]
    <3> HIDE DEF r, k, m
    <3> QED BY <1>1, <1>3
  <2>2. /\ Len(b) = len - k /\ b \in Seq(S)
        /\ \A n \in 1 .. len - k : b[n] = t[n]
    <3> HIDE DEF k
    <3> QED BY <1>1, <1>3
  <2>3. /\ Len(c) = len /\ c \in Seq(S)
        /\ \A n \in 1 .. len : c[n] = IF n <= k THEN s[n] ELSE b[n - k]
    <3> HIDE DEF b
    <3> QED BY <1>1, <2>2, ConcatProperties
  <2>4. \A n \in 1 .. len : a[n] = c[n]
    <3> TAKE n \in 1 .. len
    <3> HIDE DEF a, b, c, r
    <3>1. CASE n <= k
      <4>1. n \in 1 .. k
        BY <1>1, <3>1
      <4>2. a[n] = r[n] /\ c[n] = s[n]
        BY <2>1, <2>3, <3>1
      <4> QED BY <1>1, <4>1, <4>2
    <3>2. CASE n > k
      <4>1. PICK i \in 1 .. len - k : n = k + i /\ n - k = i /\ i \in 1 .. m
        <5> HIDE DEF k, m
        <5>1. n - k \in 1 .. len - k /\ n = k + (n - k) /\ n - k \in 1 .. m
          BY <1>1, <1>3, <3>2
        <5> QED BY <5>1
      <4>2. a[n] = r[n] /\ c[n] = b[n - k]
        BY <1>1, <2>1, <2>3, <3>2
      <4>3. r[k + i] = t[i] /\ b[i] = t[i]
        BY <1>1, <2>2, <4>1
      <4> QED BY <4>1, <4>2, <4>3
    <3> QED BY <1>1, <3>1, <3>2
  <2>5. a = c
    <3> HIDE DEF a, b, c, r
    <3> QED BY <2>1, <2>3, <2>4, SeqEqual
  <2>6. AtMost(len, r) = a /\ AtMost(len - k, t) = b
    <3> HIDE DEF r
    <3> QED BY <1>1, <1>3 DEF AtMost
  <2> QED BY <2>5, <2>6
<1> QED BY <1>1, <1>2, <1>3
=============================================================================
