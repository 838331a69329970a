-------------------------- MODULE PrimitivesProofs --------------------------
(***************************************************************************)
(* What the C primitives promise for every input.  Of Kem: that its        *)
(* arithmetic reduces and that the worst cases it follows are worst cases, *)
(* then that no procedure overflows, that what it samples is looked at     *)
(* once, and that keys and ciphertexts have the bits FIPS 203 gives them.  *)
(* Of Sponge: that the contexts of fips202.c absorb one padded message and *)
(* squeeze one stream, however the calls cut them.                         *)
(***************************************************************************)
EXTENDS Kem, Sponge, SequenceLemmas

(* x lies between -b and b. *)
Within(x, b) == x \in Int /\ -b <= x /\ x <= b

-----------------------------------------------------------------------------
(* Sixteen bits. *)

(* A value that fits 16 bits is kept by the conversion to int16_t. *)
LEMMA Int16Fits ==
    ASSUME NEW x \in Int, Within(x, 32767)
    PROVE  Int16(x) = x
  BY SMT DEF Int16, Within

(* What the conversion to int16_t gives fits 16 bits. *)
LEMMA Int16Range ==
    ASSUME NEW x \in Int
    PROVE  /\ Int16(x) \in Int
           /\ -32768 <= Int16(x)
           /\ Int16(x) <= 32767
  BY SMT DEF Int16

(* The conversion to int16_t changes a value by a multiple of 2^16. *)
LEMMA Int16Congruent ==
    ASSUME NEW x \in Int
    PROVE  \E k \in Int : Int16(x) = x + 65536 * k
<1> DEFINE k == -((x + 32768) \div 65536)
<1>1. k \in Int
  BY SMT
<1>2. x + 32768 = 65536 * ((x + 32768) \div 65536) + ((x + 32768) % 65536)
  BY SMT
<1>3. Int16(x) = x + 65536 * k
  BY <1>2, SMT DEF Int16
<1> QED
  BY <1>1, <1>3

(* A value that fits comes back from any number of wraps. *)
LEMMA Int16Wraps ==
    ASSUME NEW y \in Int, Within(y, 32767), NEW k \in Int
    PROVE  Int16(y + 65536 * k) = y
<1>1. PICK m \in Int : Int16(y + 65536 * k) = (y + 65536 * k) + 65536 * m
  BY Int16Congruent
<1> QED
  BY <1>1, Int16Range, SMT DEF Within

-----------------------------------------------------------------------------
(* The reductions. *)

(* What montgomery_reduce subtracts makes the difference a multiple of 2^16:
   QINV is the inverse of q. *)
LEMMA MontgomeryExact ==
    ASSUME NEW a \in Int
    PROVE  \E k \in Int :
              /\ a - Int16(Int16(a) * QINV) * KYBER_Q = 65536 * k
              /\ (a - Int16(Int16(a) * QINV) * KYBER_Q) \div 65536 = k
<1> DEFINE t == Int16(Int16(a) * (-3327))
<1>1. PICK k1 \in Int : Int16(a) = a + 65536 * k1
  BY Int16Congruent
<1>2. Int16(a) * (-3327) \in Int
  BY <1>1, SMT
<1>3. PICK k2 \in Int : t = Int16(a) * (-3327) + 65536 * k2
  BY Int16Congruent, <1>2
<1>4. t = (a + 65536 * k1) * (-3327) + 65536 * k2
  BY <1>1, <1>3
<1> DEFINE k == (169 * a) - ((-3327) * 3329 * k1) - 3329 * k2
<1>5. a - t * 3329 = 65536 * k
  BY <1>4, SMT
<1>6. k \in Int
  BY SMT
<1>7. (65536 * k) \div 65536 = k
  BY <1>6, SMT
<1>8. (a - t * 3329) \div 65536 = k
  BY <1>5, <1>7
<1> QED
  BY <1>5, <1>6, <1>8 DEF QINV, KYBER_Q

(* montgomery_reduce divides by 2^16 modulo q and never leaves more than the
   worst case that Kem follows, for any product whose worst case fits. *)
THEOREM MontgomeryDivides ==
    ASSUME NEW p \in Int, 0 <= p, FqmulBound(p) <= 32767,
           NEW a \in Int, Within(a, p)
    PROVE  /\ Within(MontgomeryReduce(a), FqmulBound(p))
           /\ \E m \in Int : 65536 * MontgomeryReduce(a) = a + KYBER_Q * m
<1> DEFINE t == Int16(Int16(a) * QINV)
<1>1. PICK k \in Int : /\ a - t * KYBER_Q = 65536 * k
                       /\ (a - t * KYBER_Q) \div 65536 = k
  BY MontgomeryExact
<1>2. Int16(a) * QINV \in Int
  BY Int16Range, SMT DEF QINV
<1>3. /\ t \in Int
      /\ -32768 <= t
      /\ t <= 32767
  BY Int16Range, <1>2
<1>4. Within(k, FqmulBound(p))
  BY <1>1, <1>3, SMT DEF Within, FqmulBound, KYBER_Q
<1>5. Within(k, 32767)
  BY <1>4, SMT DEF Within, FqmulBound, KYBER_Q
<1>6. MontgomeryReduce(a) = k
  BY <1>1, <1>5, Int16Fits DEF MontgomeryReduce
<1>7. 65536 * k = a + KYBER_Q * (-t)
  BY <1>1, <1>3, SMT DEF KYBER_Q
<1>8. -t \in Int
  BY <1>3
<1> QED
  BY <1>4, <1>6, <1>7, <1>8

(* The quotient of barrett_reduce is small, and leaves at most (q - 1) / 2. *)
LEMMA BarrettQuotient ==
    ASSUME NEW a \in Int, -32768 <= a, a <= 32767,
           NEW u \in Int, u = (20159 * a + 33554432) \div 67108864
    PROVE  /\ -10 <= u
           /\ u <= 10
           /\ -1664 <= a - u * 3329
           /\ a - u * 3329 <= 1664
  BY SMT

(* barrett_reduce leaves the representative nearest to zero, for every int16:
   the product with q may wrap around, and the difference wraps it back. *)
THEOREM BarrettCentres ==
    ASSUME NEW a \in Int, -32768 <= a, a <= 32767
    PROVE  /\ Within(BarrettReduce(a), Half)
           /\ \E m \in Int : BarrettReduce(a) = a + KYBER_Q * m
<1>1. (67108864 + KYBER_Q \div 2) \div KYBER_Q = 20159
  BY SMT DEF KYBER_Q
<1>0. PICK u \in Int : u = (20159 * a + 33554432) \div 67108864
  BY SMT
<1>2. /\ Within(u, 10)
      /\ Within(a - u * 3329, 1664)
  <2>1. /\ -10 <= u
        /\ u <= 10
        /\ -1664 <= a - u * 3329
        /\ a - u * 3329 <= 1664
    BY <1>0, BarrettQuotient
  <2> QED
    BY <2>1, SMT DEF Within
<1>3. Int16(u) = u
  BY <1>2, Int16Fits, SMT DEF Within
<1>4. PICK k \in Int : Int16(u * 3329) = u * 3329 + 65536 * k
  BY Int16Congruent
<1>5. Int16(a - Int16(u * 3329)) = a - u * 3329
  <2>1. PICK w \in Int, m \in Int : w = a - u * 3329 /\ m = -k
    BY SMT
  <2>2. a - Int16(u * 3329) = w + 65536 * m
    BY <1>4, <2>1, SMT
  <2>3. Within(w, 32767)
    BY <1>2, <2>1, SMT DEF Within
  <2>4. Int16(w + 65536 * m) = w
    BY <2>3, Int16Wraps
  <2> QED
    BY <2>1, <2>2, <2>4
<1>6. BarrettReduce(a) = a - u * 3329
  BY <1>0, <1>1, <1>3, <1>5 DEF BarrettReduce, KYBER_Q
<1>7. a - u * 3329 = a + 3329 * (-u) /\ -u \in Int
  BY <1>2, SMT
<1> QED
  BY <1>2, <1>6, <1>7 DEF Half, KYBER_Q

-----------------------------------------------------------------------------
(* The transforms and the product, for every input within a worst case. *)

(* No entry of the table of ntt.c is larger than the bound Kem follows. *)
LEMMA ZetaWithin ==
    ASSUME NEW k \in 0 .. 127
    PROVE  Within(Zeta(k), ZetaBound)
  BY SMT DEF Zeta, Zetas, Within, ZetaBound

(* The product of two values lies within the product of their bounds. *)
LEMMA ProductWithin ==
    ASSUME NEW x \in Int, NEW y \in Int, NEW p \in Nat, NEW b \in Nat,
           Within(x, p), Within(y, b)
    PROVE  Within(x * y, p * b)
  BY SMT DEF Within

(* fqmul leaves no more than the worst case of its two factors. *)
LEMMA FqmulWithin ==
    ASSUME NEW x, NEW y, NEW p \in Nat, NEW b \in Nat,
           Within(x, p), Within(y, b), FqmulBound(p * b) <= 32767
    PROVE  Within(Fqmul(x, y), FqmulBound(p * b))
<1>1. x * y \in Int /\ Within(x * y, p * b)
  BY ProductWithin, SMT DEF Within
<1>2. p * b \in Int /\ 0 <= p * b
  BY SMT
<1> QED
  BY <1>1, <1>2, MontgomeryDivides DEF Fqmul

(* The positions a butterfly reads lie in the polynomial, and its zeta in the
   table. *)
Lens == {2, 4, 8, 16, 32, 64, 128}

(* A coefficient of the lower half of a block has its partner in the upper. *)
LEMMA LowerHalf ==
    ASSUME NEW len \in Lens, NEW j \in Coeffs, Lower(j, len)
    PROVE  j + len \in Coeffs
  BY SMT DEF Lens, Coeffs, Lower, KYBER_N

(* A coefficient of the upper half of a block has its partner in the lower. *)
LEMMA UpperHalf ==
    ASSUME NEW len \in Lens, NEW j \in Coeffs, ~Lower(j, len)
    PROVE  j - len \in Coeffs
  BY SMT DEF Lens, Coeffs, Lower, KYBER_N

(* Both transforms of ntt.c read their zetas inside the table. *)
LEMMA ZetaIndices ==
    ASSUME NEW len \in Lens, NEW j \in Coeffs
    PROVE  /\ (128 \div len) + Block(j, len) \in 0 .. 127
           /\ (256 \div len - 1) - Block(j, len) \in 0 .. 127
  BY SMT DEF Lens, Coeffs, Block, KYBER_N

(* A polynomial of the size of b, as every transform keeps it. *)
Bounded(r, b) == \A j \in Coeffs : Within(r[j], b)

(* What lies within a bound lies within a larger one. *)
LEMMA WithinLarger ==
    ASSUME NEW x, NEW a \in Int, NEW b \in Int, a <= b, Within(x, a)
    PROVE  Within(x, b)
  BY SMT DEF Within

(* A layer of the transform adds one product to the worst case.  Nothing
   overflows if the sum fits. *)
THEOREM NttLayerWorst ==
    ASSUME NEW r, NEW b \in Nat, NEW len \in Lens, Bounded(r, b),
           b + FqmulBound(ZetaBound * b) <= 32767
    PROVE  Bounded(NttLayer(r, len), b + FqmulBound(ZetaBound * b))
<1> DEFINE f == FqmulBound(ZetaBound * b)
<1>1. f \in Int /\ 0 <= f /\ f <= 32767 /\ ZetaBound \in Nat
  BY SMT DEF FqmulBound, ZetaBound, KYBER_Q
<1> SUFFICES ASSUME NEW j \in Coeffs
             PROVE  Within(NttLayer(r, len)[j], b + f)
  BY DEF Bounded
<1> DEFINE zeta == Zeta((128 \div len) + Block(j, len))
<1>2. Within(zeta, ZetaBound)
  BY ZetaIndices, ZetaWithin
<1>3. CASE Lower(j, len)
  <2>1. Within(r[j], b) /\ Within(r[j + len], b)
    BY <1>3, LowerHalf DEF Bounded
  <2>2. Within(Fqmul(zeta, r[j + len]), f)
    BY <1>1, <1>2, <2>1, FqmulWithin
  <2>3. Within(r[j] + Fqmul(zeta, r[j + len]), b + f)
    BY <1>1, <2>1, <2>2, SMT DEF Within
  <2>4. Int16(r[j] + Fqmul(zeta, r[j + len])) = r[j] + Fqmul(zeta, r[j + len])
    BY <1>1, <2>3, WithinLarger, Int16Fits DEF Within
  <2> QED
    BY <1>3, <2>3, <2>4 DEF NttLayer
<1>4. CASE ~Lower(j, len)
  <2>1. Within(r[j], b) /\ Within(r[j - len], b)
    BY <1>4, UpperHalf DEF Bounded
  <2>2. Within(Fqmul(zeta, r[j]), f)
    BY <1>1, <1>2, <2>1, FqmulWithin
  <2>3. Within(r[j - len] - Fqmul(zeta, r[j]), b + f)
    BY <1>1, <2>1, <2>2, SMT DEF Within
  <2>4. Int16(r[j - len] - Fqmul(zeta, r[j])) = r[j - len] - Fqmul(zeta, r[j])
    BY <1>1, <2>3, WithinLarger, Int16Fits DEF Within
  <2> QED
    BY <1>4, <2>3, <2>4 DEF NttLayer
<1> QED
  BY <1>3, <1>4

(* A layer of the inverse: the sums are reduced, the differences multiplied.
   Nothing overflows if the sum of two coefficients fits. *)
THEOREM InvNttLayerWorst ==
    ASSUME NEW r, NEW b \in Nat, NEW len \in Lens, Bounded(r, b),
           2 * b <= 32767
    PROVE  Bounded(InvNttLayer(r, len),
                   Larger(Half, FqmulBound(ZetaBound * (2 * b))))
<1> DEFINE f == FqmulBound(ZetaBound * (2 * b))
<1>1. /\ f \in Int /\ 0 <= f /\ f <= 32767
      /\ ZetaBound \in Nat /\ 2 * b \in Nat
  BY SMT DEF FqmulBound, ZetaBound, KYBER_Q
<1>2. /\ Larger(Half, f) \in Int
      /\ Half \in Int
      /\ Half <= Larger(Half, f) /\ f <= Larger(Half, f)
  BY <1>1, SMT DEF Larger, Half
<1> SUFFICES ASSUME NEW j \in Coeffs
             PROVE  Within(InvNttLayer(r, len)[j], Larger(Half, f))
  BY DEF Bounded
<1> DEFINE zeta == Zeta((256 \div len - 1) - Block(j, len))
<1>3. Within(zeta, ZetaBound)
  BY ZetaIndices, ZetaWithin
<1>4. CASE Lower(j, len)
  <2>1. Within(r[j], b) /\ Within(r[j + len], b)
    BY <1>4, LowerHalf DEF Bounded
  <2>2. Within(r[j] + r[j + len], 32767)
    BY <2>1, SMT DEF Within
  <2>3. Int16(r[j] + r[j + len]) = r[j] + r[j + len]
    BY <2>2, Int16Fits DEF Within
  <2>4. PICK s \in Int : s = r[j] + r[j + len] /\ -32768 <= s /\ s <= 32767
    BY <2>2, SMT DEF Within
  <2>5. Within(BarrettReduce(s), Half)
    BY <2>4, BarrettCentres
  <2>6. Within(BarrettReduce(s), Larger(Half, f))
    BY <1>2, <2>5, WithinLarger
  <2> QED
    BY <1>4, <2>3, <2>4, <2>6 DEF InvNttLayer
<1>5. CASE ~Lower(j, len)
  <2>1. Within(r[j], b) /\ Within(r[j - len], b)
    BY <1>5, UpperHalf DEF Bounded
  <2>2. Within(r[j] - r[j - len], 2 * b) /\ Within(r[j] - r[j - len], 32767)
    BY <2>1, SMT DEF Within
  <2>3. Int16(r[j] - r[j - len]) = r[j] - r[j - len]
    BY <2>2, Int16Fits DEF Within
  <2>4. Within(Fqmul(zeta, r[j] - r[j - len]), f)
    BY <1>1, <1>3, <2>2, FqmulWithin
  <2>5. Within(Fqmul(zeta, r[j] - r[j - len]), Larger(Half, f))
    BY <1>1, <1>2, <2>4, WithinLarger
  <2> QED
    BY <1>5, <2>3, <2>5 DEF InvNttLayer
<1> QED
  BY <1>4, <1>5

(* What Once gives is what it is given. *)
LEMMA OnceIs == ASSUME NEW e PROVE Once(e) = e
  BY DEF Once

(* A coefficient that basemul leaves lies within the worst case Kem follows. *)
LEMMA BasemulWithin ==
    ASSUME NEW a, NEW b, NEW zeta, NEW bx \in Nat, NEW by \in Nat,
           Bounded(a, bx), Bounded(b, by), Within(zeta, ZetaBound),
           BasemulBound(bx, by) <= 32767,
           NEW j \in Coeffs
    PROVE  Within(Basemul(a, b, zeta, j), BasemulBound(bx, by))
<1> DEFINE cross == FqmulBound(bx * by)
           turned == FqmulBound(ZetaBound * cross)
<1>0. bx * by \in Nat
  BY SMT
<1>1. /\ cross \in Nat /\ turned \in Nat /\ ZetaBound \in Nat
  BY <1>0, SMT DEF FqmulBound, ZetaBound, KYBER_Q
<1>2. BasemulBound(bx, by) = Larger(2 * cross, turned + cross)
  BY DEF BasemulBound
<1> HIDE DEF cross, turned
<1>3. /\ BasemulBound(bx, by) \in Int
      /\ 2 * cross <= BasemulBound(bx, by)
      /\ turned + cross <= BasemulBound(bx, by)
      /\ cross <= 32767 /\ turned <= 32767
  BY <1>1, <1>2, SMT DEF Larger
<1>4. \A x, y : Within(x, bx) /\ Within(y, by) => Within(Fqmul(x, y), cross)
  BY <1>0, <1>3, FqmulWithin DEF cross
<1>5. CASE j % 2 = 0
  <2>1. j + 1 \in Coeffs
    BY <1>5, SMT DEF Coeffs, KYBER_N
  <2>2. Within(Fqmul(a[j + 1], b[j + 1]), cross) /\ Within(Fqmul(a[j], b[j]), cross)
    BY <1>4, <2>1 DEF Bounded
  <2>3. Within(zeta, ZetaBound) /\ FqmulBound(cross * ZetaBound) = turned
    BY <1>1, SMT DEF turned, FqmulBound, ZetaBound, KYBER_Q
  <2>4. Within(Fqmul(Fqmul(a[j + 1], b[j + 1]), zeta), turned)
    BY <1>1, <1>3, <2>2, <2>3, FqmulWithin
  <2> DEFINE sum == Fqmul(Fqmul(a[j + 1], b[j + 1]), zeta) + Fqmul(a[j], b[j])
  <2>5. Within(sum, BasemulBound(bx, by)) /\ Within(sum, 32767)
    BY <1>1, <1>3, <2>2, <2>4, SMT DEF Within
  <2>6. Int16(sum) = sum
    BY <2>5, Int16Fits DEF Within
  <2> QED
    BY <1>5, <2>5, <2>6 DEF Basemul
<1>6. CASE j % 2 # 0
  <2>1. j - 1 \in Coeffs
    BY <1>6, SMT DEF Coeffs, KYBER_N
  <2>2. Within(Fqmul(a[j - 1], b[j]), cross) /\ Within(Fqmul(a[j], b[j - 1]), cross)
    BY <1>4, <2>1 DEF Bounded
  <2> DEFINE sum == Fqmul(a[j - 1], b[j]) + Fqmul(a[j], b[j - 1])
  <2>3. Within(sum, BasemulBound(bx, by)) /\ Within(sum, 32767)
    BY <1>1, <1>3, <2>2, SMT DEF Within
  <2>4. Int16(sum) = sum
    BY <2>3, Int16Fits DEF Within
  <2> QED
    BY <1>6, <2>3, <2>4 DEF Basemul
<1> QED
  BY <1>5, <1>6

(* So does every coefficient of a product of polynomials. *)
LEMMA ProductWithinBasemul ==
    ASSUME NEW a, NEW b, NEW bx \in Nat, NEW by \in Nat,
           Bounded(a, bx), Bounded(b, by), BasemulBound(bx, by) <= 32767
    PROVE  Bounded(PolyBasemulMontgomery(a, b), BasemulBound(bx, by))
<1> SUFFICES ASSUME NEW j \in Coeffs
             PROVE  Within(PolyBasemulMontgomery(a, b)[j], BasemulBound(bx, by))
  BY DEF Bounded
<1>1. 64 + (j \div 4) \in 0 .. 127
  BY SMT DEF Coeffs, KYBER_N
<1> DEFINE zeta == Zeta(64 + (j \div 4))
<1>2. Within(zeta, ZetaBound)
  BY <1>1, ZetaWithin
<1>3. Within(-zeta, ZetaBound)
  BY <1>2, SMT DEF Within, ZetaBound
<1>4. /\ Within(Basemul(a, b, zeta, j), BasemulBound(bx, by))
      /\ Within(Basemul(a, b, -zeta, j), BasemulBound(bx, by))
  BY <1>2, <1>3, BasemulWithin
<1> QED
  BY <1>4 DEF PolyBasemulMontgomery

(* The worst case of basemul is a natural number. *)
LEMMA BasemulBoundNat ==
    ASSUME NEW bx \in Nat, NEW by \in Nat
    PROVE  BasemulBound(bx, by) \in Nat
<1> DEFINE cross == FqmulBound(bx * by)
           turned == FqmulBound(ZetaBound * cross)
<1>1. bx * by \in Nat
  BY SMT
<1>2. cross \in Nat /\ turned \in Nat
  BY <1>1, SMT DEF FqmulBound, ZetaBound, KYBER_Q
<1>3. BasemulBound(bx, by) = Larger(2 * cross, turned + cross)
  BY DEF BasemulBound
<1> HIDE DEF cross, turned
<1> QED
  BY <1>2, <1>3, SMT DEF Larger

(* The sum of the K products does not overflow if K times the worst case of
   one fits, and what is left of it is reduced. *)
THEOREM AccWorst ==
    ASSUME NEW a, NEW b, NEW bx \in Nat, NEW by \in Nat,
           \A i \in 1 .. KYBER_K : Bounded(a[i], bx) /\ Bounded(b[i], by),
           AccPeak(bx, by) <= 32767
    PROVE  LET t(i) == PolyBasemulMontgomery(a[i], b[i]) IN
           /\ \A j \in Coeffs :
                 PolyAdd(PolyAdd(t(1), t(2)), t(3))[j]
                     = (t(1)[j] + t(2)[j]) + t(3)[j]
           /\ Bounded(PolyvecBasemulAcc(a, b), Half)
<1> DEFINE one == BasemulBound(bx, by)
           t(i) == PolyBasemulMontgomery(a[i], b[i])
<1>1. one \in Nat /\ 3 * one <= 32767
  BY BasemulBoundNat DEF AccPeak, KYBER_K
<1> HIDE DEF one
<1>2. Bounded(t(1), one) /\ Bounded(t(2), one) /\ Bounded(t(3), one)
  <2>1. one <= 32767
    BY <1>1, SMT
  <2> QED
    BY <2>1, ProductWithinBasemul DEF one, KYBER_K
<1> HIDE DEF t
<1> DEFINE two == PolyAdd(t(1), t(2))
           three == PolyAdd(two, t(3))
<1>3. /\ Bounded(two, 2 * one)
      /\ \A j \in Coeffs : two[j] = t(1)[j] + t(2)[j]
  <2> SUFFICES ASSUME NEW j \in Coeffs
               PROVE  Within(two[j], 2 * one) /\ two[j] = t(1)[j] + t(2)[j]
    BY DEF Bounded
  <2>1. Within(t(1)[j], one) /\ Within(t(2)[j], one)
    BY <1>2 DEF Bounded
  <2>2. /\ Within(t(1)[j] + t(2)[j], 2 * one)
        /\ Within(t(1)[j] + t(2)[j], 32767)
    BY <1>1, <2>1, SMT DEF Within
  <2>3. Int16(t(1)[j] + t(2)[j]) = t(1)[j] + t(2)[j]
    BY <2>2, Int16Fits DEF Within
  <2> QED
    BY <2>2, <2>3 DEF PolyAdd
<1> HIDE DEF two
<1>4. \A j \in Coeffs : Within(three[j], 32767) /\ three[j] = two[j] + t(3)[j]
  <2> SUFFICES ASSUME NEW j \in Coeffs
               PROVE  Within(three[j], 32767) /\ three[j] = two[j] + t(3)[j]
    OBVIOUS
  <2>1. Within(two[j], 2 * one) /\ Within(t(3)[j], one)
    BY <1>2, <1>3 DEF Bounded
  <2>2. Within(two[j] + t(3)[j], 32767)
    BY <1>1, <2>1, SMT DEF Within
  <2>3. Int16(two[j] + t(3)[j]) = two[j] + t(3)[j]
    BY <2>2, Int16Fits DEF Within
  <2> QED
    BY <2>2, <2>3 DEF PolyAdd
<1> HIDE DEF three
<1>5. Bounded(PolyReduce(three), Half)
  <2> SUFFICES ASSUME NEW j \in Coeffs
               PROVE  Within(BarrettReduce(three[j]), Half)
    BY DEF Bounded, PolyReduce
  <2>1. three[j] \in Int /\ -32768 <= three[j] /\ three[j] <= 32767
    BY <1>4, SMT DEF Within
  <2> QED
    BY <2>1, BarrettCentres
<1>6. PolyvecBasemulAcc(a, b) = PolyReduce(three)
  BY OnceIs DEF PolyvecBasemulAcc, three, two, t
<1>7. \A j \in Coeffs : three[j] = (t(1)[j] + t(2)[j]) + t(3)[j]
  BY <1>3, <1>4
<1> QED
  BY <1>5, <1>6, <1>7 DEF three, two, t

-----------------------------------------------------------------------------
(* What an operation on a polynomial leaves, from a worst case of its operands. *)

(* A vector of n polynomials below a worst case. *)
Fits(v, n, b) == DOMAIN v = 1 .. n /\ \A k \in 1 .. n : Bounded(v[k], b)

(* poly_reduce leaves the smallest representatives, whatever it is given. *)
LEMMA ReduceWorst ==
    ASSUME NEW r, NEW b \in Nat, b <= 32767, Bounded(r, b)
    PROVE  Bounded(PolyReduce(r), Half)
<1> SUFFICES ASSUME NEW j \in Coeffs PROVE Within(PolyReduce(r)[j], Half)
  BY DEF Bounded
<1>1. r[j] \in Int /\ -32768 <= r[j] /\ r[j] <= 32767
  BY DEF Bounded, Within
<1> QED BY <1>1, BarrettCentres DEF PolyReduce

(* Multiplying every coefficient by a constant leaves one product each. *)
LEMMA ScaleWorst ==
    ASSUME NEW r, NEW b \in Nat, Bounded(r, b), FqmulBound(1441 * b) <= 32767
    PROVE  Bounded(Scale(r), FqmulBound(1441 * b))
<1> SUFFICES ASSUME NEW j \in Coeffs PROVE Within(Scale(r)[j], FqmulBound(1441 * b))
  BY DEF Bounded
<1>1. Within(r[j], b) /\ Within(1441, 1441)
  BY DEF Bounded, Within
<1>2. b * 1441 = 1441 * b
  OBVIOUS
<1>3. Within(Fqmul(r[j], 1441), FqmulBound(b * 1441))
  BY <1>1, <1>2, FqmulWithin
<1> QED BY <1>2, <1>3 DEF Scale

(* So does the conversion to the domain of Montgomery. *)
LEMMA ToMontWorst ==
    ASSUME NEW r, NEW b \in Nat, Bounded(r, b), FqmulBound(1353 * b) <= 32767
    PROVE  Bounded(PolyToMont(r), FqmulBound(1353 * b))
<1> SUFFICES ASSUME NEW j \in Coeffs PROVE Within(PolyToMont(r)[j], FqmulBound(1353 * b))
  BY DEF Bounded
<1>1. Within(r[j], b) /\ Within(1353, 1353)
  BY DEF Bounded, Within
<1>2. b * 1353 = 1353 * b
  OBVIOUS
<1>3. Within(Fqmul(r[j], 1353), FqmulBound(b * 1353))
  BY <1>1, <1>2, FqmulWithin
<1>4. PolyToMont(r)[j] = Fqmul(r[j], 1353)
  BY DEF PolyToMont, Fqmul
<1> QED BY <1>2, <1>3, <1>4

(* A sum lies within the sum of the worst cases. *)
LEMMA AddWorst ==
    ASSUME NEW r, NEW s, NEW a \in Nat, NEW b \in Nat, a + b <= 32767,
           Bounded(r, a), Bounded(s, b)
    PROVE  Bounded(PolyAdd(r, s), a + b)
<1> SUFFICES ASSUME NEW j \in Coeffs PROVE Within(PolyAdd(r, s)[j], a + b)
  BY DEF Bounded
<1>1. Within(r[j], a) /\ Within(s[j], b)
  BY DEF Bounded
<1>2. r[j] + s[j] \in Int /\ Within(r[j] + s[j], a + b) /\ Within(r[j] + s[j], 32767)
  BY <1>1 DEF Within
<1> QED BY <1>2, Int16Fits DEF PolyAdd

(* So does a difference. *)
LEMMA SubWorst ==
    ASSUME NEW r, NEW s, NEW a \in Nat, NEW b \in Nat, a + b <= 32767,
           Bounded(r, a), Bounded(s, b)
    PROVE  Bounded(PolySub(r, s), a + b)
<1> SUFFICES ASSUME NEW j \in Coeffs PROVE Within(PolySub(r, s)[j], a + b)
  BY DEF Bounded
<1>1. Within(r[j], a) /\ Within(s[j], b)
  BY DEF Bounded
<1>2. r[j] - s[j] \in Int /\ Within(r[j] - s[j], a + b) /\ Within(r[j] - s[j], 32767)
  BY <1>1 DEF Within
<1> QED BY <1>2, Int16Fits DEF PolySub

(* Half a byte of a number is a number. *)
LEMMA NibbleInt ==
    ASSUME NEW x \in Int, NEW e \in {0, 1}
    PROVE  x \div 16^e \in Int
<1>1. CASE e = 0
  <2>1. 16^0 = 1
    BY SMT
  <2>2. x \div 1 \in Int
    BY SMT
  <2> QED BY <1>1, <2>1, <2>2
<1>2. CASE e = 1
  <2>1. 16^1 = 16
    BY SMT
  <2>2. x \div 16 \in Int
    BY SMT
  <2> QED BY <1>2, <2>1, <2>2
<1> QED BY <1>1, <1>2

(* A polynomial has half as many bytes, or pairs, as coefficients. *)
LEMMA HalfPlace ==
    ASSUME NEW j \in Coeffs
    PROVE  j \div 2 \in 0 .. 127 /\ j % 2 \in {0, 1}
  BY SMT DEF Coeffs, KYBER_N

(* The first n elements of an array are numbers. *)
Ints(a, n) == \A k \in Nat : k < n => a[k] \in Int

(* What prf writes for a polynomial's noise. *)
NoiseBytes == [0 .. 127 -> 0 .. 255]

(* Bytes are numbers. *)
LEMMA BytesInt ==
    ASSUME NEW buf \in NoiseBytes
    PROVE  Ints(buf, 128)
<1> DEFINE P == 0 .. 127
           B == 0 .. 255
<1>1. buf \in [P -> B]
  BY Zenon DEF NoiseBytes
<1>2. \A k \in Nat : k < 128 => k \in P
  OBVIOUS
<1>3. \A w \in B : w \in Int
  OBVIOUS
<1> HIDE DEF P, B
<1>4. ASSUME NEW k \in Nat, k < 128 PROVE buf[k] \in Int
  BY <1>1, <1>2, <1>3, <1>4, Zenon
<1> QED BY <1>4 DEF Ints

(* The low four bits of a number are bits. *)
LEMMA FourBits ==
    ASSUME NEW t \in Int
    PROVE  /\ Bit(t, 0) \in {0, 1} /\ Bit(t, 1) \in {0, 1}
           /\ Bit(t, 2) \in {0, 1} /\ Bit(t, 3) \in {0, 1}
<1>1. 2^0 = 1 /\ 2^1 = 2 /\ 2^2 = 4 /\ 2^3 = 8
  OBVIOUS
<1>2. \A w \in Int : w % 2 \in {0, 1}
  OBVIOUS
<1>3. t \div 1 \in Int /\ t \div 2 \in Int /\ t \div 4 \in Int /\ t \div 8 \in Int
  OBVIOUS
<1>4. t \div 2^0 \in Int /\ t \div 2^1 \in Int /\ t \div 2^2 \in Int /\ t \div 2^3 \in Int
  BY <1>1, <1>3, Zenon
<1> QED BY <1>2, <1>4, Zenon DEF Bit

(* Two bits less two bits. *)
LEMMA BitsWithin ==
    ASSUME NEW x \in {0, 1}, NEW y \in {0, 1}, NEW z \in {0, 1}, NEW w \in {0, 1}
    PROVE  Within((x + y) - (z + w), 2)
  BY DEF Within

(* Whatever the bytes, a noise polynomial is small. *)
LEMMA CbdWorst ==
    ASSUME NEW buf, Ints(buf, 128)
    PROVE  Bounded(Cbd2(buf), 2)
<1> SUFFICES ASSUME NEW j \in Coeffs PROVE Within(Cbd2(buf)[j], 2)
  BY DEF Bounded
<1>1. j \div 2 \in 0 .. 127 /\ j % 2 \in {0, 1}
  BY HalfPlace
<1>2. buf[j \div 2] \in Int
  BY <1>1 DEF Ints
<1> DEFINE t == buf[j \div 2] \div 16^(j % 2)
<1>3. t \in Int
  BY <1>1, <1>2, NibbleInt, Zenon
<1> HIDE DEF t
<1>4. Bit(t, 0) \in {0, 1} /\ Bit(t, 1) \in {0, 1} /\ Bit(t, 2) \in {0, 1} /\ Bit(t, 3) \in {0, 1}
  BY <1>3, FourBits, Zenon
<1>5. Cbd2(buf)[j] = (Bit(t, 0) + Bit(t, 1)) - (Bit(t, 2) + Bit(t, 3))
  BY Zenon DEF Cbd2, t
<1> DEFINE x == Bit(t, 0)
           y == Bit(t, 1)
           z == Bit(t, 2)
           w == Bit(t, 3)
           c == Cbd2(buf)[j]
<1>6. c = (x + y) - (z + w) /\ x \in {0, 1} /\ y \in {0, 1} /\ z \in {0, 1} /\ w \in {0, 1}
  BY <1>4, <1>5
<1> HIDE DEF x, y, z, w, c
<1>7. Within(c, 2)
  BY <1>6, BitsWithin
<1> QED BY <1>7 DEF c

-----------------------------------------------------------------------------
(* What is read from bytes, whatever they are. *)

(* Twelve bits are below 4096. *)
LEMMA FromBytesWorst ==
    ASSUME NEW a, Ints(a, 1152)
    PROVE  /\ DOMAIN PolyvecFromBytes(a) = 1 .. KYBER_K
           /\ \A i \in 1 .. KYBER_K : Bounded(PolyvecFromBytes(a)[i], 4095)
<1> SUFFICES ASSUME NEW i \in 1 .. KYBER_K, NEW j \in Coeffs
             PROVE  Within(PolyvecFromBytes(a)[i][j], 4095)
  BY DEF Bounded, PolyvecFromBytes
<1> DEFINE n == (i - 1) * KYBER_POLYBYTES + 3 * (j \div 2)
<1>1. n \in 0 .. 1151 /\ n + 1 \in 0 .. 1151 /\ n + 2 \in 0 .. 1151
  BY SMT DEF Coeffs, KYBER_N, KYBER_K, KYBER_POLYBYTES
<1>2. PolyvecFromBytes(a)[i][j] = IF j % 2 = 0 THEN (a[n] + a[n + 1] * 256) % 4096
                         ELSE (a[n + 1] \div 16 + a[n + 2] * 16) % 4096
  BY DEF PolyvecFromBytes
<1> HIDE DEF n
<1>3. a[n] \in Int /\ a[n + 1] \in Int /\ a[n + 2] \in Int
  BY <1>1, SMT DEF Ints
<1> QED BY <1>2, <1>3 DEF Within

(* Ten bits are scaled to less than q. *)
LEMMA DecompressTenWorst ==
    ASSUME NEW a, Ints(a, 1088)
    PROVE  /\ DOMAIN PolyvecDecompress(a) = 1 .. KYBER_K
           /\ \A i \in 1 .. KYBER_K : Bounded(PolyvecDecompress(a)[i], KYBER_Q - 1)
<1> SUFFICES ASSUME NEW i \in 1 .. KYBER_K, NEW j \in Coeffs
             PROVE  Within(PolyvecDecompress(a)[i][j], KYBER_Q - 1)
  BY DEF Bounded, PolyvecDecompress
<1>0. PICK k \in 0 .. 3 : k = j % 4
  BY SMT DEF Coeffs, KYBER_N
<1>1. PICK n \in 0 .. 955 : n = (i - 1) * 320 + 5 * (j \div 4)
  BY SMT DEF Coeffs, KYBER_N, KYBER_K
<1> DEFINE t == a[n + k] \div 4^k + a[n + k + 1] * 4^(4 - k)
<1>2. PolyvecDecompress(a)[i][j] = DecompressTen(t % 1024)
  <2> DEFINE k0 == j % 4
             n0 == (i - 1) * 320 + 5 * (j \div 4)
  <2>1. PolyvecDecompress(a)[i][j] =
           DecompressTen((a[n0 + k0] \div 4^k0 + a[n0 + k0 + 1] * 4^(4 - k0)) % 1024)
    BY DEF PolyvecDecompress
  <2>2. k0 = k /\ n0 = n
    BY <1>0, <1>1
  <2> HIDE DEF k0, n0
  <2> QED BY <2>1, <2>2
<1>3. a[n + k] \in Int /\ a[n + k + 1] \in Int
  BY DEF Ints
<1>4. t \in Int
  <2>1. 4^k \in Nat \ {0} /\ 4^(4 - k) \in Nat
    <3>1. 4^0 = 1 /\ 4^1 = 4 /\ 4^2 = 16 /\ 4^3 = 64 /\ 4^4 = 256
      OBVIOUS
    <3>2. k = 0 \/ k = 1 \/ k = 2 \/ k = 3
      OBVIOUS
    <3>3. CASE k = 0
      <4>1. 4 - k = 4
        BY <3>3
      <4> QED BY <3>1, <3>3, <4>1
    <3>4. CASE k = 1
      <4>1. 4 - k = 3
        BY <3>4
      <4> QED BY <3>1, <3>4, <4>1
    <3>5. CASE k = 2
      <4>1. 4 - k = 2
        BY <3>5
      <4> QED BY <3>1, <3>5, <4>1
    <3>6. CASE k = 3
      <4>1. 4 - k = 1
        BY <3>6
      <4> QED BY <3>1, <3>6, <4>1
    <3> QED BY <3>2, <3>3, <3>4, <3>5, <3>6
  <2> DEFINE u == 4^k
             w == 4^(4 - k)
             x == a[n + k]
             y == a[n + k + 1]
  <2>2. t = x \div u + y * w
    OBVIOUS
  <2>3. u \in Nat \ {0} /\ w \in Nat /\ x \in Int /\ y \in Int
    BY <1>3, <2>1
  <2> HIDE DEF t, u, w, x, y
  <2>4. x \div u \in Int
    BY <2>3
  <2>5. y * w \in Int
    BY <2>3
  <2> QED BY <2>2, <2>4, <2>5
<1> HIDE DEF t
<1> QED BY <1>2, <1>4 DEF Within, DecompressTen, KYBER_Q

(* Four bits too. *)
LEMMA DecompressFourWorst ==
    ASSUME NEW a, Ints(a, 128)
    PROVE  Bounded(PolyDecompress(a), KYBER_Q - 1)
<1> SUFFICES ASSUME NEW j \in Coeffs PROVE Within(PolyDecompress(a)[j], KYBER_Q - 1)
  BY DEF Bounded
<1> DEFINE t == a[j \div 2] \div 16^(j % 2)
<1>1. j \div 2 \in 0 .. 127 /\ j % 2 \in {0, 1}
  BY HalfPlace
<1>2. a[j \div 2] \in Int
  BY <1>1 DEF Ints, Coeffs, KYBER_N
<1>3. t \in Int
  BY <1>1, <1>2, NibbleInt, Zenon
<1>4. PolyDecompress(a)[j] = DecompressFour(t % 16)
  BY DEF PolyDecompress
<1> HIDE DEF t
<1> QED BY <1>3, <1>4 DEF Within, DecompressFour, KYBER_Q

-----------------------------------------------------------------------------
(* What is written to bytes is bytes. *)

(* The bytes of a vector are numbers. *)
LEMMA ToBytesInts ==
    ASSUME NEW v, NEW b \in Nat, \A i \in 1 .. KYBER_K : Bounded(v[i], b)
    PROVE  Ints(PolyvecToBytes(v), 1152)
<1> SUFFICES ASSUME NEW n \in Nat, n < 1152 PROVE PolyvecToBytes(v)[n] \in Int
  BY DEF Ints
<1> DEFINE p == v[n \div KYBER_POLYBYTES + 1]
           i == (n % KYBER_POLYBYTES) \div 3
           t0 == Positive(p[2 * i])
           t1 == Positive(p[2 * i + 1])
<1>1. /\ n \div KYBER_POLYBYTES + 1 \in 1 .. KYBER_K
      /\ 2 * i \in Coeffs /\ 2 * i + 1 \in Coeffs
  BY DEF KYBER_POLYBYTES, KYBER_K, KYBER_N, Coeffs
<1>2. p[2 * i] \in Int /\ p[2 * i + 1] \in Int
  BY <1>1 DEF Bounded, Within
<1>3. t0 \in Int /\ t1 \in Int
  BY <1>2 DEF Positive, KYBER_Q
<1>4. n \in 0 .. KYBER_K * KYBER_POLYBYTES - 1 /\ n % 3 \in {0, 1, 2}
  BY DEF KYBER_POLYBYTES, KYBER_K
<1>5. PolyvecToBytes(v)[n] = CASE n % 3 = 0 -> t0 % 256
              [] n % 3 = 1 -> (t0 \div 256 + t1 * 16) % 256
              [] n % 3 = 2 -> t1 \div 16
  BY <1>4 DEF PolyvecToBytes
<1> HIDE DEF t0, t1
<1> QED BY <1>3, <1>4, <1>5

(* Rounding gives a number. *)
LEMMA CompressInts ==
    ASSUME NEW u \in Int
    PROVE  CompressFour(u) \in Int /\ CompressTen(u) \in Int
<1>1. 2^(28 - 16) = 4096 /\ 2^(32 - 16) = 65536
  BY SMT
<1>2. Positive(u) \in Int
  BY DEF Positive, KYBER_Q
<1>3. CompressFour(u) \in Int
  BY <1>1, <1>2 DEF CompressFour, MulShift
<1>4. CompressTen(u) \in Int
  BY <1>1, <1>2 DEF CompressTen, MulShift
<1> QED BY <1>3, <1>4

(* The ciphertext holds the one array, then the other. *)
LEMMA PackCtLow ==
    ASSUME NEW f, NEW g, NEW n \in Nat, n < 960
    PROVE  PackCt(f, g)[n] = f[n]
<1>1. n \in 0 .. 1087
  OBVIOUS
<1> QED BY <1>1, SMT DEF PackCt

LEMMA PackCtHigh ==
    ASSUME NEW f, NEW g, NEW m \in Nat, m < 128
    PROVE  PackCt(f, g)[m + 960] = g[m]
<1>1. m + 960 \in 0 .. 1087 /\ ~(m + 960 < 960) /\ (m + 960) - 960 = m
  OBVIOUS
<1> QED BY <1>1, SMT DEF PackCt

(* So are the bytes of the ciphertext. *)
LEMMA CompressedInts ==
    ASSUME NEW b, NEW v, NEW x \in Nat, NEW y \in Nat,
           \A i \in 1 .. KYBER_K : Bounded(b[i], x), Bounded(v, y)
    PROVE  LET o == PackCt(PolyvecCompress(b), PolyCompress(v))
           IN  DOMAIN o = 0 .. 1087 /\ Ints(o, 1088)
<1>1. ASSUME NEW n \in 0 .. 959 PROVE PolyvecCompress(b)[n] \in Int
  <2> DEFINE m == 4 * ((n % 320) \div 5)
             c == b[n \div 320 + 1]
             t0 == CompressTen(c[m + 0])
             t1 == CompressTen(c[m + 1])
             t2 == CompressTen(c[m + 2])
             t3 == CompressTen(c[m + 3])
  <2>1. /\ n \div 320 + 1 \in 1 .. KYBER_K
        /\ m + 0 \in Coeffs /\ m + 1 \in Coeffs /\ m + 2 \in Coeffs /\ m + 3 \in Coeffs
    BY SMT DEF KYBER_K, KYBER_N, Coeffs
  <2>2. c[m + 0] \in Int /\ c[m + 1] \in Int /\ c[m + 2] \in Int /\ c[m + 3] \in Int
    BY <2>1 DEF Bounded, Within
  <2>3. t0 \in Int /\ t1 \in Int /\ t2 \in Int /\ t3 \in Int
    BY <2>2, CompressInts
  <2>4. n \in 0 .. KYBER_K * 320 - 1 /\ n % 5 \in {0, 1, 2, 3, 4}
    BY DEF KYBER_K
  <2>5. PolyvecCompress(b)[n] = CASE n % 5 = 0 -> t0 % 256
              [] n % 5 = 1 -> (t0 \div 256 + t1 * 4) % 256
              [] n % 5 = 2 -> (t1 \div 64 + t2 * 16) % 256
              [] n % 5 = 3 -> (t2 \div 16 + t3 * 64) % 256
              [] n % 5 = 4 -> t3 \div 4
    BY <2>4 DEF PolyvecCompress
  <2> HIDE DEF t0, t1, t2, t3
  <2> QED BY <2>3, <2>4, <2>5
<1>2. ASSUME NEW n \in 0 .. 127 PROVE PolyCompress(v)[n] \in Int
  <2>1. 2 * n \in Coeffs /\ 2 * n + 1 \in Coeffs
    BY DEF Coeffs, KYBER_N
  <2>2. v[2 * n] \in Int /\ v[2 * n + 1] \in Int
    BY <2>1 DEF Bounded, Within
  <2>3. CompressFour(v[2 * n]) \in Int /\ CompressFour(v[2 * n + 1]) \in Int
    BY <2>2, CompressInts
  <2> QED BY <2>3 DEF PolyCompress
<1> DEFINE f == PolyvecCompress(b)
           g == PolyCompress(v)
           o == PackCt(f, g)
<1> HIDE DEF f, g
<1>3. DOMAIN o = 0 .. 1087
  BY DEF PackCt
<1>6. ASSUME NEW n \in Nat, n < 1088 PROVE o[n] \in Int
  <2>1. CASE n < 960
    <3>1. o[n] = f[n]
      BY <2>1, PackCtLow
    <3>2. n \in 0 .. 959
      BY <2>1
    <3> HIDE DEF o
    <3> QED BY <1>1, <3>1, <3>2 DEF f
  <2>2. CASE ~(n < 960)
    <3>1. PICK m \in Nat : m = n - 960
      <4>1. n - 960 \in Nat
        BY <2>2
      <4> QED BY <4>1
    <3>2. m < 128 /\ m \in 0 .. 127 /\ n = m + 960
      BY <1>6, <3>1
    <3>3. o[m + 960] = g[m]
      BY <3>2, PackCtHigh
    <3>4. g[m] \in Int
      BY <1>2, <3>2 DEF g
    <3> HIDE DEF o, g
    <3> QED BY <3>2, <3>3, <3>4
  <2> QED BY <2>1, <2>2
<1> HIDE DEF o
<1>7. Ints(o, 1088)
  BY <1>6 DEF Ints
<1> QED BY <1>3, <1>7 DEF o, f, g

-----------------------------------------------------------------------------
(* The place in a procedure, and what each vector holds there. *)

(* The list of statements of a procedure. *)
Prog(s) == IF s = "keypair" THEN IndcpaKeypair
           ELSE IF s = "dec" THEN IndcpaDec ELSE IndcpaEnc

(* How many polynomials a vector has. *)
Size(x) == IF x \in {"epp", "v", "k", "mp"} THEN 1 ELSE KYBER_K

(* The statement of a procedure that first writes x; past the end if none does. *)
First(s, x) ==
    IF s = "keypair"
    THEN CASE x = "skpv" -> 2 [] x = "e" -> 3 [] x = "pkpv" -> 6 [] OTHER -> 99
    ELSE IF s = "dec"
    THEN CASE x = "b" -> 1 [] x = "v" -> 2 [] x = "skpv" -> 3 [] x = "mp" -> 5
           [] OTHER -> 99
    ELSE CASE x = "pkpv" -> 1 [] x = "k" -> 2 [] x = "sp" -> 4 [] x = "ep" -> 5
           [] x = "epp" -> 6 [] x = "b" -> 8 [] x = "v" -> 9 [] OTHER -> 99

(* The worst case of x before statement i. *)
Room(s, i, x) ==
    IF s = "keypair"
    THEN CASE x = "skpv" -> (IF i <= 4 THEN 2 ELSE Half)
           [] x = "e"    -> (IF i <= 5 THEN 2 ELSE Half)
           [] x = "pkpv" -> (IF i <= 7 THEN Half ELSE IF i = 8 THEN 1698
                             ELSE IF i = 9 THEN 3362 ELSE Half)
           [] OTHER      -> 0
    ELSE IF s = "dec"
    THEN CASE x = "b"    -> (IF i <= 4 THEN 3328 ELSE Half)
           [] x = "v"    -> 3328
           [] x = "skpv" -> 4095
           [] x = "mp"   -> (IF i <= 6 THEN Half ELSE IF i = 7 THEN 1703
                             ELSE IF i = 8 THEN 5031 ELSE Half)
           [] OTHER      -> 0
    ELSE CASE x = "pkpv" -> 4095
           [] x = "k"    -> 1665
           [] x = "sp"   -> (IF i <= 7 THEN 2 ELSE Half)
           [] x = "ep"   -> 2
           [] x = "epp"  -> 2
           [] x = "b"    -> (IF i <= 10 THEN Half ELSE IF i <= 12 THEN 1703
                             ELSE IF i <= 15 THEN 1705 ELSE Half)
           [] x = "v"    -> (IF i <= 11 THEN Half ELSE IF i <= 13 THEN 1703
                             ELSE IF i = 14 THEN 1705 ELSE IF i <= 16 THEN 3370
                             ELSE Half)
           [] OTHER      -> 0

(* The statement that samples the matrix, and the nonces used before statement i. *)
GenAt(s) == IF s = "keypair" THEN 1 ELSE IF s = "dec" THEN 99 ELSE 3

NonceAt(s, i) ==
    IF s = "keypair" THEN (IF i <= 2 THEN 0 ELSE IF i = 3 THEN 3 ELSE 6)
    ELSE IF s = "dec" THEN 0
    ELSE IF i <= 4 THEN 0 ELSE IF i = 5 THEN 3 ELSE IF i = 6 THEN 6 ELSE 7

(* The statements that write no vector. *)
Silent == {"gen_a", "gen_at", "pack_keys", "pack_ciphertext", "tomsg"}

(* The calls of the test program, and the procedures they run. *)
Steps == {"keypair", "enc", "dec", "reenc", "done"}
Procedures == {"keypair", "enc", "dec"}

(* The procedure that a step runs, or has run. *)
Proc(st) == IF st \in {"keypair", "dec"} THEN st ELSE "enc"

(* How many statements a procedure has; the last of each writes what it returns. *)
Final(s) == IF s = "keypair" THEN 10 ELSE IF s = "dec" THEN 9 ELSE 17

(* The statements with which a procedure returns. *)
Endings == {"pack_keys", "pack_ciphertext", "tomsg"}

(* What a statement asks of the place it stands at. *)
Placed(s, i, op, x, y, z) ==
    LET writes == op \notin Silent
        after  == Room(s, i + 1, x)
        ready(n) == n \in Names /\ First(s, n) < i
    IN
    /\ writes => x \in Names
    /\ \A n \in Names :
          ~(writes /\ n = x) => /\ Room(s, i + 1, n) = Room(s, i, n)
                                /\ First(s, n) # i
    /\ op \in {"gen_a", "gen_at"} <=> i = GenAt(s)
    /\ op \in Endings <=> i = Final(s)
    /\ op # "getnoise" => NonceAt(s, i + 1) = NonceAt(s, i)
    /\ op = "getnoise" => /\ after = 2
                          /\ Size(x) = (IF x = "epp" THEN 1 ELSE KYBER_K)
                          /\ NonceAt(s, i + 1) = NonceAt(s, i) + Size(x)
    /\ op = "ntt" => ready(x) /\ Room(s, i, x) <= 3328 /\ after = Half
    /\ op = "invntt" => ready(x) /\ Room(s, i, x) = Half /\ after = 1703
    /\ op = "matrix" => /\ ready(y) /\ Size(y) = KYBER_K /\ Size(x) = KYBER_K
                        /\ Room(s, i, y) = Half /\ after = Half /\ GenAt(s) < i
    /\ op = "dot" => /\ ready(y) /\ Size(y) = KYBER_K /\ Size(x) = 1
                     /\ ready(z) /\ Size(z) = KYBER_K
                     /\ Room(s, i, y) = 4095 /\ Room(s, i, z) = Half /\ after = Half
    /\ op = "tomont" => ready(x) /\ Room(s, i, x) = Half /\ after = 1698
    /\ op = "add" => /\ ready(x) /\ ready(y) /\ Size(x) = Size(y)
                     /\ Room(s, i, x) + Room(s, i, y) <= after /\ after <= 5031
    /\ op = "sub" => /\ ready(x) /\ ready(y) /\ z = x /\ Size(x) = Size(y)
                     /\ Room(s, i, y) + Room(s, i, x) <= after /\ after <= 5031
    /\ op = "reduce" => ready(x) /\ after = Half /\ Room(s, i, x) <= 32767
    /\ op = "pack_keys" => /\ s = "keypair" /\ ready("pkpv") /\ ready("skpv")
                           /\ Room(s, i, "pkpv") < KYBER_Q
                           /\ Room(s, i, "skpv") < KYBER_Q
    /\ op = "pack_ciphertext" => /\ ready("b") /\ ready("v") /\ s = "enc"
                                 /\ Room(s, i, "b") < KYBER_Q
                                 /\ Room(s, i, "v") < KYBER_Q
    /\ op = "tomsg" => /\ ready("mp") /\ Room(s, i, "mp") <= Half
                       /\ s = "dec"
    /\ op = "unpack_pk" => x = "pkpv" /\ after = 4095 /\ s = "enc"
    /\ op = "unpack_sk" => x = "skpv" /\ after = 4095 /\ s = "dec"
    /\ op = "unpack_b" => x = "b" /\ after = 3328 /\ s = "dec"
    /\ op = "unpack_v" => x = "v" /\ after = 3328 /\ s = "dec"
    /\ op = "frommsg" => x = "k" /\ after = 1665 /\ s = "enc"

(* Statement i of a procedure stands where it may. *)
Stands(s, i) ==
    Placed(s, i, Prog(s)[i][1], Prog(s)[i][2], Prog(s)[i][3], Prog(s)[i][4])

(* The statements of IndcpaKeypair. *)
LEMMA KeypairStatement ==
    LET p == Prog("keypair") IN
    /\ p[1] = <<"gen_a">>
    /\ p[2] = <<"getnoise", "skpv">>
    /\ p[3] = <<"getnoise", "e">>
    /\ p[4] = <<"ntt", "skpv">>
    /\ p[5] = <<"ntt", "e">>
    /\ p[6] = <<"matrix", "pkpv", "skpv">>
    /\ p[7] = <<"tomont", "pkpv">>
    /\ p[8] = <<"add", "pkpv", "e">>
    /\ p[9] = <<"reduce", "pkpv">>
    /\ p[10] = <<"pack_keys">>
BY DEF Prog, IndcpaKeypair

(* Each statement of IndcpaKeypair stands where it may. *)
LEMMA KeypairStands == \A i \in 1 .. 10 : Stands("keypair", i)
<1>1. Stands("keypair", 1)
  BY KeypairStatement, SMTT(40) DEF Stands, Placed, Size, First, Room, GenAt, NonceAt, Final, Endings, Silent,
     Names, Half, KYBER_K, KYBER_Q
<1>2. Stands("keypair", 2)
  BY KeypairStatement, SMTT(40) DEF Stands, Placed, Size, First, Room, GenAt, NonceAt, Final, Endings, Silent,
     Names, Half, KYBER_K, KYBER_Q
<1>3. Stands("keypair", 3)
  BY KeypairStatement, SMTT(40) DEF Stands, Placed, Size, First, Room, GenAt, NonceAt, Final, Endings, Silent,
     Names, Half, KYBER_K, KYBER_Q
<1>4. Stands("keypair", 4)
  BY KeypairStatement, SMTT(40) DEF Stands, Placed, Size, First, Room, GenAt, NonceAt, Final, Endings, Silent,
     Names, Half, KYBER_K, KYBER_Q
<1>5. Stands("keypair", 5)
  BY KeypairStatement, SMTT(40) DEF Stands, Placed, Size, First, Room, GenAt, NonceAt, Final, Endings, Silent,
     Names, Half, KYBER_K, KYBER_Q
<1>6. Stands("keypair", 6)
  BY KeypairStatement, SMTT(40) DEF Stands, Placed, Size, First, Room, GenAt, NonceAt, Final, Endings, Silent,
     Names, Half, KYBER_K, KYBER_Q
<1>7. Stands("keypair", 7)
  BY KeypairStatement, SMTT(40) DEF Stands, Placed, Size, First, Room, GenAt, NonceAt, Final, Endings, Silent,
     Names, Half, KYBER_K, KYBER_Q
<1>8. Stands("keypair", 8)
  BY KeypairStatement, SMTT(40) DEF Stands, Placed, Size, First, Room, GenAt, NonceAt, Final, Endings, Silent,
     Names, Half, KYBER_K, KYBER_Q
<1>9. Stands("keypair", 9)
  BY KeypairStatement, SMTT(40) DEF Stands, Placed, Size, First, Room, GenAt, NonceAt, Final, Endings, Silent,
     Names, Half, KYBER_K, KYBER_Q
<1>10. Stands("keypair", 10)
  BY KeypairStatement, SMTT(40) DEF Stands, Placed, Size, First, Room, GenAt, NonceAt, Final, Endings, Silent,
     Names, Half, KYBER_K, KYBER_Q
<1> QED BY <1>1, <1>2, <1>3, <1>4, <1>5, <1>6, <1>7, <1>8, <1>9,
           <1>10

(* The statements of IndcpaEnc. *)
LEMMA EncStatement ==
    LET p == Prog("enc") IN
    /\ p[1] = <<"unpack_pk", "pkpv">>
    /\ p[2] = <<"frommsg", "k">>
    /\ p[3] = <<"gen_at">>
    /\ p[4] = <<"getnoise", "sp">>
    /\ p[5] = <<"getnoise", "ep">>
    /\ p[6] = <<"getnoise", "epp">>
    /\ p[7] = <<"ntt", "sp">>
    /\ p[8] = <<"matrix", "b", "sp">>
    /\ p[9] = <<"dot", "v", "pkpv", "sp">>
    /\ p[10] = <<"invntt", "b">>
    /\ p[11] = <<"invntt", "v">>
    /\ p[12] = <<"add", "b", "ep">>
    /\ p[13] = <<"add", "v", "epp">>
    /\ p[14] = <<"add", "v", "k">>
    /\ p[15] = <<"reduce", "b">>
    /\ p[16] = <<"reduce", "v">>
    /\ p[17] = <<"pack_ciphertext">>
BY DEF Prog, IndcpaEnc

(* Each statement of IndcpaEnc stands where it may. *)
LEMMA EncStands == \A i \in 1 .. 17 : Stands("enc", i)
<1>1. Stands("enc", 1)
  BY EncStatement, SMTT(40) DEF Stands, Placed, Size, First, Room, GenAt, NonceAt, Final, Endings, Silent,
     Names, Half, KYBER_K, KYBER_Q
<1>2. Stands("enc", 2)
  BY EncStatement, SMTT(40) DEF Stands, Placed, Size, First, Room, GenAt, NonceAt, Final, Endings, Silent,
     Names, Half, KYBER_K, KYBER_Q
<1>3. Stands("enc", 3)
  BY EncStatement, SMTT(40) DEF Stands, Placed, Size, First, Room, GenAt, NonceAt, Final, Endings, Silent,
     Names, Half, KYBER_K, KYBER_Q
<1>4. Stands("enc", 4)
  BY EncStatement, SMTT(40) DEF Stands, Placed, Size, First, Room, GenAt, NonceAt, Final, Endings, Silent,
     Names, Half, KYBER_K, KYBER_Q
<1>5. Stands("enc", 5)
  BY EncStatement, SMTT(40) DEF Stands, Placed, Size, First, Room, GenAt, NonceAt, Final, Endings, Silent,
     Names, Half, KYBER_K, KYBER_Q
<1>6. Stands("enc", 6)
  BY EncStatement, SMTT(40) DEF Stands, Placed, Size, First, Room, GenAt, NonceAt, Final, Endings, Silent,
     Names, Half, KYBER_K, KYBER_Q
<1>7. Stands("enc", 7)
  BY EncStatement, SMTT(40) DEF Stands, Placed, Size, First, Room, GenAt, NonceAt, Final, Endings, Silent,
     Names, Half, KYBER_K, KYBER_Q
<1>8. Stands("enc", 8)
  BY EncStatement, SMTT(40) DEF Stands, Placed, Size, First, Room, GenAt, NonceAt, Final, Endings, Silent,
     Names, Half, KYBER_K, KYBER_Q
<1>9. Stands("enc", 9)
  BY EncStatement, SMTT(40) DEF Stands, Placed, Size, First, Room, GenAt, NonceAt, Final, Endings, Silent,
     Names, Half, KYBER_K, KYBER_Q
<1>10. Stands("enc", 10)
  BY EncStatement, SMTT(40) DEF Stands, Placed, Size, First, Room, GenAt, NonceAt, Final, Endings, Silent,
     Names, Half, KYBER_K, KYBER_Q
<1>11. Stands("enc", 11)
  BY EncStatement, SMTT(40) DEF Stands, Placed, Size, First, Room, GenAt, NonceAt, Final, Endings, Silent,
     Names, Half, KYBER_K, KYBER_Q
<1>12. Stands("enc", 12)
  BY EncStatement, SMTT(40) DEF Stands, Placed, Size, First, Room, GenAt, NonceAt, Final, Endings, Silent,
     Names, Half, KYBER_K, KYBER_Q
<1>13. Stands("enc", 13)
  BY EncStatement, SMTT(40) DEF Stands, Placed, Size, First, Room, GenAt, NonceAt, Final, Endings, Silent,
     Names, Half, KYBER_K, KYBER_Q
<1>14. Stands("enc", 14)
  BY EncStatement, SMTT(40) DEF Stands, Placed, Size, First, Room, GenAt, NonceAt, Final, Endings, Silent,
     Names, Half, KYBER_K, KYBER_Q
<1>15. Stands("enc", 15)
  BY EncStatement, SMTT(40) DEF Stands, Placed, Size, First, Room, GenAt, NonceAt, Final, Endings, Silent,
     Names, Half, KYBER_K, KYBER_Q
<1>16. Stands("enc", 16)
  BY EncStatement, SMTT(40) DEF Stands, Placed, Size, First, Room, GenAt, NonceAt, Final, Endings, Silent,
     Names, Half, KYBER_K, KYBER_Q
<1>17. Stands("enc", 17)
  <2>1. Prog("enc")[17] = <<"pack_ciphertext">>
    BY EncStatement, SMTT(40)
  <2> QED BY <2>1, SMTT(40) DEF Stands, Placed, Size, First, Room, GenAt, NonceAt, Final, Endings,
     Silent, Names, Half, KYBER_K, KYBER_Q
<1> QED BY <1>1, <1>2, <1>3, <1>4, <1>5, <1>6, <1>7, <1>8, <1>9,
           <1>10, <1>11, <1>12, <1>13, <1>14, <1>15, <1>16, <1>17

(* The statements of IndcpaDec. *)
LEMMA DecStatement ==
    LET p == Prog("dec") IN
    /\ p[1] = <<"unpack_b", "b">>
    /\ p[2] = <<"unpack_v", "v">>
    /\ p[3] = <<"unpack_sk", "skpv">>
    /\ p[4] = <<"ntt", "b">>
    /\ p[5] = <<"dot", "mp", "skpv", "b">>
    /\ p[6] = <<"invntt", "mp">>
    /\ p[7] = <<"sub", "mp", "v", "mp">>
    /\ p[8] = <<"reduce", "mp">>
    /\ p[9] = <<"tomsg", "mp">>
BY DEF Prog, IndcpaDec

(* Each statement of IndcpaDec stands where it may. *)
LEMMA DecStands == \A i \in 1 .. 9 : Stands("dec", i)
<1>1. Stands("dec", 1)
  BY DecStatement, SMTT(40) DEF Stands, Placed, Size, First, Room, GenAt, NonceAt, Final, Endings, Silent,
     Names, Half, KYBER_K, KYBER_Q
<1>2. Stands("dec", 2)
  BY DecStatement, SMTT(40) DEF Stands, Placed, Size, First, Room, GenAt, NonceAt, Final, Endings, Silent,
     Names, Half, KYBER_K, KYBER_Q
<1>3. Stands("dec", 3)
  BY DecStatement, SMTT(40) DEF Stands, Placed, Size, First, Room, GenAt, NonceAt, Final, Endings, Silent,
     Names, Half, KYBER_K, KYBER_Q
<1>4. Stands("dec", 4)
  BY DecStatement, SMTT(40) DEF Stands, Placed, Size, First, Room, GenAt, NonceAt, Final, Endings, Silent,
     Names, Half, KYBER_K, KYBER_Q
<1>5. Stands("dec", 5)
  BY DecStatement, SMTT(40) DEF Stands, Placed, Size, First, Room, GenAt, NonceAt, Final, Endings, Silent,
     Names, Half, KYBER_K, KYBER_Q
<1>6. Stands("dec", 6)
  BY DecStatement, SMTT(40) DEF Stands, Placed, Size, First, Room, GenAt, NonceAt, Final, Endings, Silent,
     Names, Half, KYBER_K, KYBER_Q
<1>7. Stands("dec", 7)
  BY DecStatement, SMTT(40) DEF Stands, Placed, Size, First, Room, GenAt, NonceAt, Final, Endings, Silent,
     Names, Half, KYBER_K, KYBER_Q
<1>8. Stands("dec", 8)
  BY DecStatement, SMTT(40) DEF Stands, Placed, Size, First, Room, GenAt, NonceAt, Final, Endings, Silent,
     Names, Half, KYBER_K, KYBER_Q
<1>9. Stands("dec", 9)
  BY DecStatement, SMTT(40) DEF Stands, Placed, Size, First, Room, GenAt, NonceAt, Final, Endings, Silent,
     Names, Half, KYBER_K, KYBER_Q
<1> QED BY <1>1, <1>2, <1>3, <1>4, <1>5, <1>6, <1>7, <1>8, <1>9

(* A procedure is a sequence, of as many statements as it has. *)
LEMMA ProgTyped ==
    ASSUME NEW s \in Procedures
    PROVE  /\ Prog(s) \in Seq({Prog(s)[i] : i \in 1 .. Final(s)})
           /\ Len(Prog(s)) = Final(s)
<1>1. IndcpaKeypair = [i \in 1 .. 10 |-> IndcpaKeypair[i]]
  BY DEF IndcpaKeypair
<1>2. IndcpaDec = [i \in 1 .. 9 |-> IndcpaDec[i]]
  BY DEF IndcpaDec
<1>3. IndcpaEnc = [i \in 1 .. 17 |-> IndcpaEnc[i]]
  BY DEF IndcpaEnc
<1>4. Prog(s) = [i \in 1 .. Final(s) |-> Prog(s)[i]] /\ Final(s) \in Nat
  BY <1>1, <1>2, <1>3 DEF Prog, Final, Procedures
<1> QED BY <1>4

(* Every statement of every procedure stands where it may. *)
LEMMA AllStand ==
    ASSUME NEW s \in Procedures, NEW i \in 1 .. Final(s)
    PROVE  Stands(s, i)
BY KeypairStands, DecStands, EncStands DEF Procedures, Final

(* What is left of a sequence: its head, and what is left after it. *)
LEMMA RestOf ==
    ASSUME NEW S, NEW p \in Seq(S), NEW i \in 1 .. Len(p) + 1
    PROVE  LET rest == SubSeq(p, i, Len(p)) IN
           /\ i <= Len(p) => /\ rest # <<>> /\ Head(rest) = p[i]
                            /\ Tail(rest) = SubSeq(p, i + 1, Len(p))
           /\ i = Len(p) + 1 => rest = <<>>
<1> DEFINE rest == SubSeq(p, i, Len(p))
           next == SubSeq(p, i + 1, Len(p))
<1>1. CASE i <= Len(p)
  <2>1. /\ rest \in Seq(S) /\ Len(rest) = Len(p) - i + 1
        /\ \A n \in 1 .. Len(p) - i + 1 : rest[n] = p[i + n - 1]
    BY <1>1
  <2>2. /\ next \in Seq(S) /\ Len(next) = Len(p) - i
        /\ \A n \in 1 .. Len(p) - i : next[n] = p[i + 1 + n - 1]
    BY <1>1
  <2> HIDE DEF rest, next
  <2>3. rest # <<>> /\ Head(rest) = p[i]
    BY <1>1, <2>1
  <2>4. /\ Tail(rest) \in Seq(S) /\ Len(Tail(rest)) = Len(p) - i
        /\ \A n \in 1 .. Len(p) - i : Tail(rest)[n] = rest[n + 1]
    BY <1>1, <2>1, <2>3
  <2>5. \A n \in 1 .. Len(p) - i : Tail(rest)[n] = next[n]
    BY <1>1, <2>1, <2>2, <2>4
  <2>6. Tail(rest) = next
    BY <2>2, <2>4, <2>5, SeqEqual
  <2> QED BY <1>1, <2>3, <2>6 DEF rest, next
<1>2. CASE i = Len(p) + 1
  BY <1>2
<1> QED BY <1>1, <1>2

-----------------------------------------------------------------------------
(* The inductive invariant. *)

(* What a transform that runs has added to its vector. *)
Extra(x) == IF layer = 0 \/ x # X THEN 0 ELSE IF At("ntt") THEN 2494 * layer ELSE 96

(* What is left of the procedure that runs starts at its statement i. *)
PlaceAt(i) ==
    /\ step \in Steps
    /\ i \in 1 .. Final(Proc(step)) + 1
    /\ code = SubSeq(Prog(Proc(step)), i, Final(Proc(step)))
    /\ step = "done" => i = Final(Proc(step)) + 1

(* Only a transform has done some of its layers. *)
Layers == layer \in 0 .. 7 /\ (layer # 0 => At("ntt") \/ At("invntt"))

(* Every vector is within its worst case at that place, and is there from
   the statement that first writes it. *)
RoomsAt(i) ==
    \A x \in Names :
        /\ bound[x] <= Room(Proc(step), i, x) + Extra(x)
        /\ First(Proc(step), x) < i => DOMAIN mem[x] = 1 .. Size(x)

(* The nonces before n, in order. *)
FirstNonces(n) == [k \in 1 .. n |-> k - 1]

(* The nonces used are those before the counter. *)
NoisesAt(i) == nonce = NonceAt(Proc(step), i) /\ drawn = FirstNonces(nonce)

(* The matrix is full after the statement that samples it, and not before;
   an entry is under way only in that statement. *)
MatrixAt(i) ==
    /\ GenAt(Proc(step)) < i => Len(entry.done) = KYBER_K * KYBER_K
    /\ i <= GenAt(Proc(step)) => Len(entry.done) < KYBER_K * KYBER_K
    /\ i # GenAt(Proc(step)) => entry.blocks = 0 /\ entry.kept = <<>>

(* All of this, at the place i, and at some place. *)
FlowAt(i) == PlaceAt(i) /\ Layers /\ RoomsAt(i) /\ NoisesAt(i) /\ MatrixAt(i)

Flow == \E i \in Nat : FlowAt(i)

(* No vector leaves its worst case, and nothing overflowed. *)
Vectors ==
    /\ DOMAIN mem = Names
    /\ bound \in [Names -> Nat]
    /\ peak \in Int /\ peak <= 32767
    /\ \A x \in Names : \A i \in DOMAIN mem[x] : Bounded(mem[x][i], bound[x])

(* The matrix, and the entry under way, are below q. *)
Entries ==
    /\ entry \in [done   : Seq([Coeffs -> 0 .. KYBER_Q - 1]),
                  blocks : Nat,
                  kept   : Seq(0 .. KYBER_Q - 1)]
    /\ Len(entry.kept) <= KYBER_N
    /\ Len(entry.done) <= KYBER_K * KYBER_K

(* What one call returns and another reads is bytes or bits. *)
Bytes ==
    /\ DOMAIN sk = {"bytes", "pk", "h", "z"}
    /\ step # "keypair" \/ code = <<>> =>
          Ints(pk.bytes, 1152) /\ Ints(sk.bytes, 1152) /\ Ints(sk.pk.bytes, 1152)
    /\ step \in {"enc", "reenc"} \/ (step = "dec" /\ code = <<>>) =>
          \A j \in Coeffs : msg[j] \in {0, 1}
    /\ step = "enc" /\ code = <<>> => DOMAIN out = 0 .. 1087 /\ Ints(out, 1088)
    /\ step = "dec" => Ints(ct, 1088)

(* The whole. *)
KemInv == Flow /\ Vectors /\ Entries /\ Bytes

-----------------------------------------------------------------------------
(* A step of the test program runs a procedure, or has run one. *)
LEMMA ProcTyped == ASSUME step \in Steps PROVE Proc(step) \in Procedures
BY DEF Steps, Proc, Procedures

(* Every procedure has statements. *)
LEMMA LastNat == ASSUME NEW p \in Procedures PROVE Final(p) \in Nat \ {0}
BY DEF Procedures, Final

(* Where a procedure is not over, its next statement stands at its place. *)
LEMMA AtPlace ==
    ASSUME NEW i \in Nat, FlowAt(i), code # <<>>
    PROVE  LET p == Proc(step) IN
           /\ p \in Procedures /\ i \in 1 .. Final(p)
           /\ Tail(code) = SubSeq(Prog(p), i + 1, Final(p))
           /\ Placed(p, i, Head(code)[1], X, Y, Z)
<1> DEFINE p == Proc(step)
           S == {Prog(p)[n] : n \in 1 .. Final(p)}
<1>1. /\ step \in Steps /\ i \in 1 .. Final(p) + 1
      /\ code = SubSeq(Prog(p), i, Final(p))
  BY DEF FlowAt, PlaceAt
<1>2. p \in Procedures /\ Final(p) \in Nat
  BY <1>1, ProcTyped, LastNat
<1>3. Prog(p) \in Seq(S) /\ Len(Prog(p)) = Final(p)
  BY <1>2, ProgTyped
<1> HIDE DEF S, p
<1>4. LET rest == SubSeq(Prog(p), i, Len(Prog(p))) IN
      /\ i <= Len(Prog(p)) => /\ rest # <<>> /\ Head(rest) = Prog(p)[i]
                              /\ Tail(rest) = SubSeq(Prog(p), i + 1, Len(Prog(p)))
      /\ i = Len(Prog(p)) + 1 => rest = <<>>
  BY <1>1, <1>3, RestOf
<1>5. i \in 1 .. Final(p) /\ Head(code) = Prog(p)[i]
      /\ Tail(code) = SubSeq(Prog(p), i + 1, Final(p))
  BY <1>1, <1>2, <1>3, <1>4
<1>6. Stands(p, i)
  BY <1>2, <1>5, AllStand
<1> QED BY <1>2, <1>5, <1>6 DEF Stands, X, Y, Z, p

(* A procedure that is over has come to its end. *)
LEMMA AtEnd ==
    ASSUME NEW i \in Nat, FlowAt(i), code = <<>>
    PROVE  i = Final(Proc(step)) + 1
<1> DEFINE p == Proc(step)
           S == {Prog(p)[n] : n \in 1 .. Final(p)}
<1>1. /\ step \in Steps /\ i \in 1 .. Final(p) + 1
      /\ code = SubSeq(Prog(p), i, Final(p))
  BY DEF FlowAt, PlaceAt
<1>2. p \in Procedures /\ Final(p) \in Nat
  BY <1>1, ProcTyped, LastNat
<1>3. Prog(p) \in Seq(S) /\ Len(Prog(p)) = Final(p)
  BY <1>2, ProgTyped
<1> HIDE DEF S, p
<1>4. i <= Len(Prog(p)) => SubSeq(Prog(p), i, Len(Prog(p))) # <<>>
  BY <1>1, <1>3, RestOf
<1> QED BY <1>1, <1>2, <1>3, <1>4 DEF p

(* The last of an argument: the start of a procedure. *)
LEMMA AtStart ==
    ASSUME NEW p \in Procedures
    PROVE  SubSeq(Prog(p), 1, Final(p)) = Prog(p)
<1> DEFINE S == {Prog(p)[n] : n \in 1 .. Final(p)}
<1>1. Prog(p) \in Seq(S) /\ Len(Prog(p)) = Final(p)
  BY ProgTyped
<1> HIDE DEF S
<1> QED BY <1>1

-----------------------------------------------------------------------------
(* A statement that writes its vector and is done. *)
LEMMA Written ==
    ASSUME NEW i \in Nat, FlowAt(i), Vectors, code # <<>>,
           Head(code)[1] \notin Silent,
           NEW val, NEW worst \in Nat, NEW top \in Int,
           worst <= 32767, top <= 32767,
           worst <= Room(Proc(step), i + 1, X),
           Fits(val, Size(X), worst),
           Leave(X, val, worst, top), code' = Tail(code), layer' = 0, step' = step,
           nonce' = NonceAt(Proc(step), i + 1),
           drawn' = FirstNonces(nonce'),
           entry' = entry
    PROVE  Flow' /\ Vectors'
<1> DEFINE p == Proc(step)
<1>1. /\ p \in Procedures /\ i \in 1 .. Final(p) /\ Final(p) \in Nat
      /\ Tail(code) = SubSeq(Prog(p), i + 1, Final(p))
      /\ Placed(p, i, Head(code)[1], X, Y, Z)
  BY AtPlace, LastNat
<1>2. X \in Names /\ i # GenAt(p)
      /\ \A n \in Names : n # X => Room(p, i + 1, n) = Room(p, i, n) /\ First(p, n) # i
  BY <1>1 DEF Placed, Silent
<1>3. /\ DOMAIN mem = Names /\ bound \in [Names -> Nat] /\ peak \in Int /\ peak <= 32767
      /\ \A x \in Names : \A n \in DOMAIN mem[x] : Bounded(mem[x][n], bound[x])
  BY DEF Vectors
<1>4. /\ DOMAIN mem' = Names /\ bound' \in [Names -> Nat]
      /\ mem'[X] = val /\ bound'[X] = worst
      /\ \A x \in Names : x # X => mem'[x] = mem[x] /\ bound'[x] = bound[x]
  BY <1>2, <1>3 DEF Leave
<1>5. peak' \in Int /\ peak' <= 32767
  BY <1>3 DEF Leave, Larger
<1>6. Vectors'
  <2>1. ASSUME NEW x \in Names, NEW n \in DOMAIN mem'[x]
        PROVE  Bounded(mem'[x][n], bound'[x])
    <3>1. CASE x = X
      BY <1>4, <3>1 DEF Fits
    <3>2. CASE x # X
      BY <1>3, <1>4, <3>2
    <3> QED BY <3>1, <3>2
  <2>2. (\A x \in Names : \A n \in DOMAIN mem[x] : Bounded(mem[x][n], bound[x]))'
    BY <2>1
  <2> QED BY <1>4, <1>5, <2>2 DEF Vectors
<1>7. Proc(step)' = p
  BY DEF Proc
<1>8. PlaceAt(i + 1)'
  <2>1. /\ step \in Steps
        /\ step = "done" => i = Final(p) + 1
    BY DEF FlowAt, PlaceAt
  <2>2. i + 1 \in 1 .. Final(p) + 1 /\ step # "done"
    BY <1>1, <2>1
  <2> QED BY <1>1, <1>7, <2>1, <2>2 DEF PlaceAt
<1>9. RoomsAt(i + 1)'
  <2>1. ASSUME NEW x \in Names
        PROVE  /\ bound'[x] <= Room(p, i + 1, x)
               /\ First(p, x) < i + 1 => DOMAIN mem'[x] = 1 .. Size(x)
    <3>1. CASE x = X
      BY <1>4, <3>1 DEF Fits
    <3>2. CASE x # X
      <4>1. bound[x] <= Room(p, i, x) + 0 /\ (First(p, x) < i => DOMAIN mem[x] = 1 .. Size(x))
        BY <3>2 DEF FlowAt, RoomsAt, Extra
      <4>2. First(p, x) \in Nat /\ Room(p, i, x) \in Nat
        BY DEF First, Room, Half
      <4>3. First(p, x) < i + 1 => First(p, x) < i
        BY <1>2, <3>2, <4>2
      <4> QED BY <1>2, <1>4, <3>2, <4>1, <4>2, <4>3
    <3> QED BY <3>1, <3>2
  <2>2. ASSUME NEW x \in Names
        PROVE  bound'[x] \in Int /\ Room(p, i + 1, x) \in Int /\ Extra(x)' = 0
    <3>1. bound'[x] \in Int
      BY <1>4
    <3>2. Room(p, i + 1, x) \in Int
      BY DEF Room, Half
    <3> QED BY <3>1, <3>2 DEF Extra
  <2> QED BY <1>7, <2>1, <2>2 DEF RoomsAt
<1>10. MatrixAt(i + 1)'
  <2>1. GenAt(p) \in Nat
    BY DEF GenAt
  <2> QED BY <1>2, <1>7, <2>1 DEF FlowAt, MatrixAt
<1>11. NoisesAt(i + 1)'
  BY <1>7 DEF NoisesAt
<1>12. Layers'
  BY DEF Layers
<1> QED BY <1>6, <1>8, <1>9, <1>10, <1>11, <1>12 DEF Flow, FlowAt

(* What stays where nothing but the matrix changes. *)
SameFlow == UNCHANGED <<mem, bound, peak, layer, nonce, drawn, step>>

(* A statement that writes no vector and is done. *)
LEMMA Noted ==
    ASSUME NEW i \in Nat, FlowAt(i), Vectors, code # <<>>,
           Head(code)[1] \in Silent, SameFlow, code' = Tail(code),
           i # GenAt(Proc(step)) => entry' = entry,
           i = GenAt(Proc(step)) => /\ Len(entry'.done) = KYBER_K * KYBER_K
                                    /\ entry'.blocks = 0 /\ entry'.kept = <<>>
    PROVE  Flow' /\ Vectors'
<1> DEFINE p == Proc(step)
<1>1. /\ p \in Procedures /\ i \in 1 .. Final(p) /\ Final(p) \in Nat
      /\ Tail(code) = SubSeq(Prog(p), i + 1, Final(p))
      /\ Placed(p, i, Head(code)[1], X, Y, Z)
  BY AtPlace, LastNat
<1>2. /\ \A n \in Names : Room(p, i + 1, n) = Room(p, i, n) /\ First(p, n) # i
      /\ NonceAt(p, i + 1) = NonceAt(p, i)
  <2>1. \A n \in Names : Room(p, i + 1, n) = Room(p, i, n) /\ First(p, n) # i
    BY <1>1 DEF Placed
  <2>2. NonceAt(p, i + 1) = NonceAt(p, i)
    BY <1>1 DEF Placed, Silent
  <2> QED BY <2>1, <2>2
<1>3. layer = 0
  BY DEF FlowAt, Layers, At, Silent
<1>4. Vectors'
  BY DEF Vectors, SameFlow
<1>5. Proc(step)' = p
  BY DEF Proc, SameFlow
<1>6. PlaceAt(i + 1)'
  <2>1. /\ step \in Steps
        /\ step = "done" => i = Final(p) + 1
    BY DEF FlowAt, PlaceAt
  <2>2. i + 1 \in 1 .. Final(p) + 1 /\ step # "done"
    BY <1>1, <2>1
  <2> QED BY <1>1, <1>5, <2>1, <2>2 DEF PlaceAt, SameFlow
<1>7. RoomsAt(i + 1)'
  <2>1. ASSUME NEW x \in Names
        PROVE  /\ bound[x] <= Room(p, i + 1, x) + 0
               /\ First(p, x) < i + 1 => DOMAIN mem[x] = 1 .. Size(x)
    <3>1. bound[x] <= Room(p, i, x) + 0 /\ (First(p, x) < i => DOMAIN mem[x] = 1 .. Size(x))
      BY <1>3 DEF FlowAt, RoomsAt, Extra
    <3>2. First(p, x) \in Nat
      BY DEF First
    <3>3. First(p, x) < i + 1 => First(p, x) < i
      BY <1>2, <3>2
    <3> QED BY <1>2, <3>1, <3>3
  <2>2. ASSUME NEW x \in Names PROVE Extra(x)' = 0
    BY <1>3 DEF Extra, SameFlow
  <2> QED BY <1>5, <2>1, <2>2 DEF RoomsAt, SameFlow
<1>8. MatrixAt(i + 1)'
  <2>1. GenAt(p) \in Nat
    BY DEF GenAt
  <2>2. CASE i = GenAt(p)
    BY <1>5, <2>1, <2>2 DEF MatrixAt
  <2>3. CASE i # GenAt(p)
    BY <1>5, <2>1, <2>3 DEF FlowAt, MatrixAt
  <2> QED BY <2>2, <2>3
<1>9. NoisesAt(i + 1)'
  BY <1>2, <1>5 DEF NoisesAt, FlowAt, SameFlow
<1>10. Layers'
  BY <1>3 DEF Layers, SameFlow
<1> QED BY <1>4, <1>6, <1>7, <1>8, <1>9, <1>10 DEF Flow, FlowAt

(* The matrix grows, and is not full yet. *)
LEMMA Filling ==
    ASSUME NEW i \in Nat, FlowAt(i), Vectors, code # <<>>,
           Head(code)[1] \in {"gen_a", "gen_at"}, SameFlow, code' = code,
           Len(entry'.done) < KYBER_K * KYBER_K
    PROVE  Flow' /\ Vectors' /\ i = GenAt(Proc(step))
<1>1. i = GenAt(Proc(step))
  BY AtPlace DEF Placed
<1>2. Vectors'
  BY DEF Vectors, SameFlow
<1>3. PlaceAt(i)' /\ Layers' /\ NoisesAt(i)'
  BY DEF FlowAt, PlaceAt, Layers, NoisesAt, SameFlow, At
<1>4. RoomsAt(i)'
  BY DEF FlowAt, RoomsAt, SameFlow, Extra, At, X
<1>5. MatrixAt(i)'
  BY <1>1 DEF MatrixAt, SameFlow
<1> QED BY <1>1, <1>2, <1>3, <1>4, <1>5 DEF Flow, FlowAt

(* A layer of a transform that goes on. *)
LEMMA Halfway ==
    ASSUME NEW i \in Nat, FlowAt(i), Vectors, code # <<>>,
           At("ntt") \/ At("invntt"), layer < 7,
           NEW val, NEW worst \in Nat, NEW top \in Int,
           worst <= 32767, top <= 32767,
           worst <= Room(Proc(step), i, X) +
                       (IF At("ntt") THEN 2494 * (layer + 1) ELSE 96),
           Fits(val, Size(X), worst), DOMAIN mem[X] = 1 .. Size(X),
           Leave(X, val, worst, top), layer' = layer + 1,
           UNCHANGED <<code, step, nonce, drawn, entry>>
    PROVE  Flow' /\ Vectors'
<1> DEFINE p == Proc(step)
<1>0. At("ntt")' = At("ntt") /\ At("invntt")' = At("invntt") /\ X' = X /\ Proc(step)' = p
  BY DEF At, X, Proc
<1>1. X \in Names
  BY AtPlace DEF Placed, Silent, At
<1>3. /\ DOMAIN mem = Names /\ bound \in [Names -> Nat] /\ peak \in Int /\ peak <= 32767
      /\ \A x \in Names : \A n \in DOMAIN mem[x] : Bounded(mem[x][n], bound[x])
  BY DEF Vectors
<1>4. /\ DOMAIN mem' = Names /\ bound' \in [Names -> Nat]
      /\ mem'[X] = val /\ bound'[X] = worst
      /\ \A x \in Names : x # X => mem'[x] = mem[x] /\ bound'[x] = bound[x]
  BY <1>1, <1>3 DEF Leave
<1>5. peak' \in Int /\ peak' <= 32767
  BY <1>3 DEF Leave, Larger
<1>6. Vectors'
  <2>1. ASSUME NEW x \in Names, NEW n \in DOMAIN mem'[x]
        PROVE  Bounded(mem'[x][n], bound'[x])
    <3>1. CASE x = X
      BY <1>4, <3>1 DEF Fits
    <3>2. CASE x # X
      BY <1>3, <1>4, <3>2
    <3> QED BY <3>1, <3>2
  <2>2. (\A x \in Names : \A n \in DOMAIN mem[x] : Bounded(mem[x][n], bound[x]))'
    BY <2>1
  <2> QED BY <1>4, <1>5, <2>2 DEF Vectors
<1>7. layer \in 0 .. 6
  BY DEF FlowAt, Layers
<1>8. RoomsAt(i)'
  <2>1. ASSUME NEW x \in Names
        PROVE  /\ bound'[x] <= Room(p, i, x) + Extra(x)'
               /\ First(p, x) < i => DOMAIN mem'[x] = 1 .. Size(x)
    <3>0. bound[x] <= Room(p, i, x) + Extra(x) /\ (First(p, x) < i => DOMAIN mem[x] = 1 .. Size(x))
      BY DEF FlowAt, RoomsAt
    <3>1. CASE x = X
      <4>1. Extra(x)' = (IF At("ntt") THEN 2494 * (layer + 1) ELSE 96)
        BY <1>0, <1>7, <3>1 DEF Extra
      <4> QED BY <1>4, <3>0, <3>1, <4>1 DEF Fits
    <3>2. CASE x # X
      <4>1. Extra(x)' = 0 /\ Extra(x) = 0
        BY <1>0, <3>2 DEF Extra
      <4> QED BY <1>4, <3>0, <3>2, <4>1
    <3> QED BY <3>1, <3>2
  <2> QED BY <1>0, <2>1 DEF RoomsAt
<1>9. PlaceAt(i)' /\ NoisesAt(i)' /\ MatrixAt(i)'
  BY DEF FlowAt, PlaceAt, NoisesAt, MatrixAt
<1>10. Layers'
  BY <1>0, <1>7 DEF Layers
<1> QED BY <1>6, <1>8, <1>9, <1>10 DEF Flow, FlowAt

(* The start of a procedure. *)
LEMMA Started ==
    ASSUME step' \in Steps \ {"done"}, NEW s, NEW c,
           Call(Prog(Proc(step')), s, c)
    PROVE  Flow' /\ Vectors' /\ code' # <<>>
<1> DEFINE p == Proc(step')
<1>1. p \in Procedures /\ Final(p) \in Nat \ {0}
  <2>1. p \in Procedures
    BY DEF Steps, Proc, Procedures
  <2> QED BY <2>1, LastNat
<1>2. code' = SubSeq(Prog(p), 1, Final(p)) /\ code' # <<>>
  <2>1. code' = Prog(p)
    BY DEF Call
  <2>2. Prog(p) # <<>>
    BY <1>1, ProgTyped
  <2> QED BY <1>1, <2>1, <2>2, AtStart
<1>3. /\ mem' = [x \in Names |-> <<>>] /\ bound' = [x \in Names |-> 0]
      /\ peak' = 0 /\ layer' = 0 /\ nonce' = 0 /\ drawn' = <<>> /\ entry' = NoEntry
  BY DEF Call
<1>4. Vectors'
  <2>1. \A x \in Names : DOMAIN mem'[x] = {}
    BY <1>3
  <2>2. (\A x \in Names : \A n \in DOMAIN mem[x] : Bounded(mem[x][n], bound[x]))'
    BY <2>1
  <2> QED BY <1>3, <2>2 DEF Vectors
<1>5. PlaceAt(1)' /\ Layers'
  BY <1>1, <1>2, <1>3 DEF PlaceAt, Layers
<1>6. RoomsAt(1)'
  <2>1. ASSUME NEW x \in Names
        PROVE  0 <= Room(p, 1, x) + 0 /\ ~(First(p, x) < 1)
    BY DEF Room, First, Half
  <2>2. \A x \in Names : Extra(x)' = 0 /\ bound'[x] = 0
    BY <1>3 DEF Extra
  <2> QED BY <2>1, <2>2 DEF RoomsAt
<1>7. NoisesAt(1)'
  <2>1. NonceAt(p, 1) = 0
    BY DEF NonceAt
  <2>2. FirstNonces(0) = <<>>
    BY DEF FirstNonces
  <2> QED BY <1>3, <2>1, <2>2 DEF NoisesAt
<1>8. MatrixAt(1)'
  BY <1>3 DEF MatrixAt, GenAt, NoEntry, KYBER_K
<1> QED BY <1>2, <1>4, <1>5, <1>6, <1>7, <1>8 DEF Flow, FlowAt

(* The streams are streams of bytes, whatever they are drawn from. *)
StreamsOfBytes ==
    /\ \A s, x, y : \A n \in Nat : /\ XofBlock(s, x, y, n) \in Seq(0 .. 255)
                                   /\ Len(XofBlock(s, x, y, n)) = 168
    /\ \A k : \A n \in Nat : PrfBytes(k, n) \in [0 .. 127 -> 0 .. 255]

(* A procedure returns with its last statement, and not before. *)
LEMMA NotOver ==
    ASSUME NEW i \in Nat, FlowAt(i), code # <<>>, Head(code)[1] \notin Endings
    PROVE  Tail(code) # <<>>
<1> DEFINE p == Proc(step)
           S == {Prog(p)[n] : n \in 1 .. Final(p)}
<1>1. /\ p \in Procedures /\ i \in 1 .. Final(p) /\ Final(p) \in Nat
      /\ Tail(code) = SubSeq(Prog(p), i + 1, Final(p))
      /\ Placed(p, i, Head(code)[1], X, Y, Z)
  BY AtPlace, LastNat
<1>2. i + 1 \in 1 .. Final(p)
  BY <1>1 DEF Placed
<1>3. Prog(p) \in Seq(S) /\ Len(Prog(p)) = Final(p)
  BY <1>1, ProgTyped
<1> HIDE DEF S, p
<1>4. SubSeq(Prog(p), i + 1, Len(Prog(p))) # <<>>
  BY <1>2, <1>3, RestOf
<1> QED BY <1>1, <1>3, <1>4

(* What has been returned stays as it is until a procedure returns. *)
LEMMA BytesKept ==
    ASSUME NEW i \in Nat, FlowAt(i), Bytes, code # <<>>, Head(code)[1] \notin Endings,
           UNCHANGED keys, code' = code \/ code' = Tail(code)
    PROVE  Bytes'
<1>1. code' # <<>>
  BY NotOver
<1> QED BY <1>1 DEF Bytes, keys

(* A statement that writes its vector and is done keeps the invariant. *)
LEMMA Wrote ==
    ASSUME NEW i \in Nat, FlowAt(i), KemInv, code # <<>>,
           Head(code)[1] \notin Silent,
           NEW val, NEW worst \in Nat, NEW top \in Int,
           worst <= 32767, top <= 32767,
           worst <= Room(Proc(step), i + 1, X),
           Fits(val, Size(X), worst),
           Leave(X, val, worst, top), Done, layer' = 0,
           nonce' = NonceAt(Proc(step), i + 1),
           drawn' = FirstNonces(nonce'),
           entry' = entry, UNCHANGED keys
    PROVE  KemInv'
<1>0. Vectors /\ code' = Tail(code) /\ step' = step
  BY DEF KemInv, Done, keys
<1>1. Flow' /\ Vectors'
  BY <1>0, Written
<1>2. Entries'
  BY DEF KemInv, Entries
<1>3. Bytes'
  <2>1. Head(code)[1] \notin Endings /\ Bytes
    BY DEF Silent, Endings, KemInv
  <2> QED BY <1>0, <2>1, BytesKept
<1> QED BY <1>1, <1>2, <1>3 DEF KemInv

(* The same where no noise is drawn. *)
LEMMA WroteQuietly ==
    ASSUME NEW i \in Nat, FlowAt(i), KemInv, code # <<>>,
           Head(code)[1] \notin Silent, Head(code)[1] # "getnoise",
           NEW val, NEW worst \in Nat, NEW top \in Int,
           worst <= 32767, top <= 32767,
           worst <= Room(Proc(step), i + 1, X),
           Fits(val, Size(X), worst),
           Leave(X, val, worst, top), Done, layer' = 0,
           UNCHANGED <<nonce, drawn, entry, keys>>
    PROVE  KemInv'
<1>1. NonceAt(Proc(step), i + 1) = NonceAt(Proc(step), i)
  BY AtPlace DEF Placed
<1>2. nonce' = NonceAt(Proc(step), i + 1) /\ drawn' = FirstNonces(nonce')
  BY <1>1 DEF FlowAt, NoisesAt
<1>3. keys' = keys /\ entry' = entry
  OBVIOUS
<1> QED BY <1>2, <1>3, Wrote

(* What an operand holds, where a statement is ready for it. *)
LEMMA Operand ==
    ASSUME NEW i \in Nat, FlowAt(i), Vectors, NEW x \in Names,
           First(Proc(step), x) < i
    PROVE  /\ bound[x] \in Nat /\ bound[x] <= Room(Proc(step), i, x) + Extra(x)
           /\ Fits(mem[x], Size(x), bound[x])
<1>1. DOMAIN mem[x] = 1 .. Size(x) /\ bound[x] <= Room(Proc(step), i, x) + Extra(x)
  BY Zenon DEF FlowAt, RoomsAt
<1>2. bound[x] \in Nat
  BY DEF Vectors
<1>3. \A k \in DOMAIN mem[x] : Bounded(mem[x][k], bound[x])
  BY DEF Vectors
<1> QED BY <1>1, <1>2, <1>3 DEF Fits

(* No transform runs while another statement does. *)
LEMMA Still ==
    ASSUME NEW i, FlowAt(i), ~At("ntt"), ~At("invntt")
    PROVE  layer = 0 /\ \A x : Extra(x) = 0
BY DEF FlowAt, Layers, Extra

-----------------------------------------------------------------------------

(* The statement at the head stands where it may. *)
LEMMA Standing ==
    ASSUME NEW i \in Nat, FlowAt(i), NEW op, At(op)
    PROVE  /\ code # <<>> /\ Head(code)[1] = op
           /\ Placed(Proc(step), i, op, X, Y, Z)
<1>1. code # <<>> /\ Head(code)[1] = op
  BY DEF At
<1> QED BY <1>1, AtPlace

(* What an operand of such a statement holds. *)
LEMMA Ready ==
    ASSUME NEW i \in Nat, FlowAt(i), KemInv, ~At("ntt"), ~At("invntt"),
           NEW x \in Names, First(Proc(step), x) < i
    PROVE  /\ bound[x] \in Nat /\ bound[x] <= Room(Proc(step), i, x)
           /\ Room(Proc(step), i, x) \in Nat
           /\ Fits(mem[x], Size(x), bound[x])
<1>1. Vectors
  BY DEF KemInv
<1>2. /\ bound[x] \in Nat /\ bound[x] <= Room(Proc(step), i, x) + Extra(x)
      /\ Fits(mem[x], Size(x), bound[x])
  BY <1>1, Operand
<1>3. Extra(x) = 0
  BY Still
<1>4. Room(Proc(step), i, x) \in Nat
  BY DEF Room, Half
<1> QED BY <1>2, <1>3, <1>4

-----------------------------------------------------------------------------
(* The statements, one after the other. *)

(* polyvec_reduce leaves less than what is asked for after it. *)
LEMMA ReduceKeeps == ASSUME KemInv, Reduce PROVE KemInv'
<1>1. PICK i \in Nat : FlowAt(i)
  BY DEF KemInv, Flow
<1>2. At("reduce") /\ ~At("ntt") /\ ~At("invntt")
  BY DEF Reduce, At
<1>3. /\ code # <<>> /\ Head(code)[1] = "reduce"
      /\ Placed(Proc(step), i, "reduce", X, Y, Z)
  BY <1>1, <1>2, Standing
<1> DEFINE val == Each(PolyReduce, mem[X])
           worst == Half
           top == 0
<1>4. Leave(X, val, worst, top) /\ Done /\ UNCHANGED <<layer, sampling, keys>>
  BY Zenon DEF Reduce
<1>5. layer' = 0 /\ UNCHANGED <<nonce, drawn, entry, keys>>
  BY <1>1, <1>2, <1>4, Still DEF sampling
<1>6. Head(code)[1] \notin Silent /\ Head(code)[1] # "getnoise"
  BY <1>3 DEF Silent
<1>7. /\ X \in Names /\ First(Proc(step), X) < i
      /\ Room(Proc(step), i, X) <= 32767 /\ Room(Proc(step), i + 1, X) = Half
  BY <1>3 DEF Placed, Silent
<1>8. /\ bound[X] \in Nat /\ bound[X] <= Room(Proc(step), i, X)
      /\ Room(Proc(step), i, X) \in Nat
      /\ Fits(mem[X], Size(X), bound[X])
  BY <1>1, <1>2, <1>7, Ready
<1>9. /\ worst \in Nat /\ worst <= 32767 /\ top \in Int /\ top <= 32767
      /\ worst <= Room(Proc(step), i + 1, X)
  BY <1>7, <1>8 DEF Half
<1>10. Fits(val, Size(X), worst)
  <2>1. val = [k \in 1 .. Size(X) |-> PolyReduce(mem[X][k])]
    BY <1>8 DEF Each, Fits
  <2>2. \A k \in 1 .. Size(X) : Bounded(PolyReduce(mem[X][k]), worst)
    BY <1>7, <1>8, <1>9, ReduceWorst DEF Fits
  <2> HIDE DEF val
  <2> QED BY <2>1, <2>2 DEF Fits
<1> HIDE DEF val, worst, top
<1> QED BY <1>1, <1>3, <1>4, <1>5, <1>6, <1>9, <1>10, WroteQuietly

(* poly_tomont multiplies every coefficient by one constant. *)
LEMMA ToMontKeeps == ASSUME KemInv, ToMont PROVE KemInv'
<1>1. PICK i \in Nat : FlowAt(i)
  BY DEF KemInv, Flow
<1>2. At("tomont") /\ ~At("ntt") /\ ~At("invntt")
  BY DEF ToMont, At
<1>3. /\ code # <<>> /\ Head(code)[1] = "tomont"
      /\ Placed(Proc(step), i, "tomont", X, Y, Z)
  BY <1>1, <1>2, Standing
<1> DEFINE val == Each(PolyToMont, mem[X])
           worst == FqmulBound(1353 * bound[X])
           top == 0
<1>4. Leave(X, val, worst, top) /\ Done /\ UNCHANGED <<layer, sampling, keys>>
  BY ZenonT(40) DEF ToMont
<1>5. layer' = 0 /\ UNCHANGED <<nonce, drawn, entry, keys>>
  BY <1>1, <1>2, <1>4, Still DEF sampling
<1>6. Head(code)[1] \notin Silent /\ Head(code)[1] # "getnoise"
  BY <1>3 DEF Silent
<1>7. /\ X \in Names /\ First(Proc(step), X) < i
      /\ Room(Proc(step), i, X) = Half /\ Room(Proc(step), i + 1, X) = 1698
  BY <1>3 DEF Placed, Silent
<1>8. /\ bound[X] \in Nat /\ bound[X] <= Room(Proc(step), i, X)
      /\ Room(Proc(step), i, X) \in Nat
      /\ Fits(mem[X], Size(X), bound[X])
  BY <1>1, <1>2, <1>7, Ready
<1>9. /\ worst \in Nat /\ worst <= 32767 /\ top \in Int /\ top <= 32767
      /\ worst <= Room(Proc(step), i + 1, X)
  BY <1>7, <1>8 DEF FqmulBound, KYBER_Q, Half
<1>10. Fits(val, Size(X), worst)
  <2>1. val = [k \in 1 .. Size(X) |-> PolyToMont(mem[X][k])]
    BY <1>8 DEF Each, Fits
  <2>2. \A k \in 1 .. Size(X) : Bounded(PolyToMont(mem[X][k]), worst)
    BY <1>7, <1>8, <1>9, ToMontWorst DEF Fits
  <2> HIDE DEF val
  <2> QED BY <2>1, <2>2 DEF Fits
<1> HIDE DEF val, worst, top
<1> QED BY <1>1, <1>3, <1>4, <1>5, <1>6, <1>9, <1>10, WroteQuietly

(* A sum is bounded by the sum of the worst cases of what it adds. *)
LEMMA AddKeeps == ASSUME KemInv, Add PROVE KemInv'
<1>1. PICK i \in Nat : FlowAt(i)
  BY DEF KemInv, Flow
<1>2. At("add") /\ ~At("ntt") /\ ~At("invntt")
  BY DEF Add, At
<1>3. /\ code # <<>> /\ Head(code)[1] = "add"
      /\ Placed(Proc(step), i, "add", X, Y, Z)
  BY <1>1, <1>2, Standing
<1> DEFINE val == [k \in DOMAIN mem[X] |-> PolyAdd(mem[X][k], mem[Y][k])]
           worst == bound[X] + bound[Y]
           top == 0
<1>4. Leave(X, val, worst, top) /\ Done /\ UNCHANGED <<layer, sampling, keys>>
  BY Zenon DEF Add
<1>5. layer' = 0 /\ UNCHANGED <<nonce, drawn, entry, keys>>
  BY <1>1, <1>2, <1>4, Still DEF sampling
<1>6. Head(code)[1] \notin Silent /\ Head(code)[1] # "getnoise"
  BY <1>3 DEF Silent
<1>7. /\ X \in Names /\ X \in Names /\ Y \in Names
      /\ First(Proc(step), X) < i /\ First(Proc(step), Y) < i
      /\ Size(X) = Size(X) /\ Size(Y) = Size(X)
      /\ Room(Proc(step), i, X) + Room(Proc(step), i, Y) <= Room(Proc(step), i + 1, X)
      /\ Room(Proc(step), i + 1, X) <= 5031
  BY <1>3 DEF Placed, Silent
<1>8. /\ bound[X] \in Nat /\ bound[X] <= Room(Proc(step), i, X)
      /\ bound[Y] \in Nat /\ bound[Y] <= Room(Proc(step), i, Y)
      /\ Room(Proc(step), i, X) \in Nat /\ Room(Proc(step), i, Y) \in Nat
      /\ Fits(mem[X], Size(X), bound[X]) /\ Fits(mem[Y], Size(X), bound[Y])
  BY <1>1, <1>2, <1>7, Ready
<1>p. Room(Proc(step), i + 1, X) \in Nat
  BY DEF Room, Half
<1>9. /\ worst \in Nat /\ worst <= 32767 /\ top \in Int /\ top <= 32767
      /\ worst <= Room(Proc(step), i + 1, X)
  BY <1>7, <1>8, <1>p
<1>10. Fits(val, Size(X), worst)
  <2>0. DOMAIN mem[X] = 1 .. Size(X)
    BY <1>3, <1>8 DEF Fits, Placed
  <2>1. val = [k \in 1 .. Size(X) |-> PolyAdd(mem[X][k], mem[Y][k])]
    BY <2>0
  <2>2. \A k \in 1 .. Size(X) : Bounded(PolyAdd(mem[X][k], mem[Y][k]), worst)
    BY <1>7, <1>8, <1>9, AddWorst DEF Fits
  <2> HIDE DEF val
  <2> QED BY <2>1, <2>2 DEF Fits
<1> HIDE DEF val, worst, top
<1> QED BY <1>1, <1>3, <1>4, <1>5, <1>6, <1>9, <1>10, WroteQuietly

(* So is a difference. *)
LEMMA SubKeeps == ASSUME KemInv, Sub PROVE KemInv'
<1>1. PICK i \in Nat : FlowAt(i)
  BY DEF KemInv, Flow
<1>2. At("sub") /\ ~At("ntt") /\ ~At("invntt")
  BY DEF Sub, At
<1>3. /\ code # <<>> /\ Head(code)[1] = "sub"
      /\ Placed(Proc(step), i, "sub", X, Y, Z)
  BY <1>1, <1>2, Standing
<1> DEFINE val == [k \in DOMAIN mem[X] |-> PolySub(mem[Y][k], mem[Z][k])]
           worst == bound[Y] + bound[Z]
           top == 0
<1>4. Leave(X, val, worst, top) /\ Done /\ UNCHANGED <<layer, sampling, keys>>
  BY Zenon DEF Sub
<1>5. layer' = 0 /\ UNCHANGED <<nonce, drawn, entry, keys>>
  BY <1>1, <1>2, <1>4, Still DEF sampling
<1>6. Head(code)[1] \notin Silent /\ Head(code)[1] # "getnoise"
  BY <1>3 DEF Silent
<1>7. /\ X \in Names /\ Y \in Names /\ Z \in Names
      /\ First(Proc(step), Y) < i /\ First(Proc(step), Z) < i
      /\ Size(Y) = Size(X) /\ Size(Z) = Size(X)
      /\ Room(Proc(step), i, Y) + Room(Proc(step), i, Z) <= Room(Proc(step), i + 1, X)
      /\ Room(Proc(step), i + 1, X) <= 5031
  BY <1>3 DEF Placed, Silent
<1>8. /\ bound[Y] \in Nat /\ bound[Y] <= Room(Proc(step), i, Y)
      /\ bound[Z] \in Nat /\ bound[Z] <= Room(Proc(step), i, Z)
      /\ Room(Proc(step), i, Y) \in Nat /\ Room(Proc(step), i, Z) \in Nat
      /\ Fits(mem[Y], Size(X), bound[Y]) /\ Fits(mem[Z], Size(X), bound[Z])
  BY <1>1, <1>2, <1>7, Ready
<1>p. Room(Proc(step), i + 1, X) \in Nat
  BY DEF Room, Half
<1>9. /\ worst \in Nat /\ worst <= 32767 /\ top \in Int /\ top <= 32767
      /\ worst <= Room(Proc(step), i + 1, X)
  BY <1>7, <1>8, <1>p
<1>10. Fits(val, Size(X), worst)
  <2>0. DOMAIN mem[X] = 1 .. Size(X)
    BY <1>3, <1>8 DEF Fits, Placed
  <2>1. val = [k \in 1 .. Size(X) |-> PolySub(mem[Y][k], mem[Z][k])]
    BY <2>0
  <2>2. \A k \in 1 .. Size(X) : Bounded(PolySub(mem[Y][k], mem[Z][k]), worst)
    BY <1>7, <1>8, <1>9, SubWorst DEF Fits
  <2> HIDE DEF val
  <2> QED BY <2>1, <2>2 DEF Fits
<1> HIDE DEF val, worst, top
<1> QED BY <1>1, <1>3, <1>4, <1>5, <1>6, <1>9, <1>10, WroteQuietly

(* A product of two bounded numbers is bounded. *)
LEMMA ProductUpTo ==
    ASSUME NEW a \in Nat, NEW b \in Nat, NEW c \in Nat, NEW d \in Nat, a <= c, b <= d
    PROVE  a * b <= c * d
<1>1. a * b <= a * d
  BY SMT
<1>2. a * d <= c * d
  BY SMT
<1> QED BY <1>1, <1>2

(* The sum of the products fits whatever vectors the procedures multiply. *)
LEMMA AccFits ==
    ASSUME NEW a \in Nat, NEW b \in Nat, a <= 4095, b <= Half
    PROVE  AccPeak(a, b) \in Int /\ AccPeak(a, b) <= 32767
<1> DEFINE cross == FqmulBound(a * b)
           turned == FqmulBound(ZetaBound * cross)
<1>1. a * b \in Nat /\ a * b <= 4095 * 1664
  BY ProductUpTo, SMT DEF Half
<1>2. cross \in Nat /\ cross <= 1768
  BY <1>1, SMT DEF FqmulBound, KYBER_Q
<1>3. BasemulBound(a, b) = Larger(2 * cross, turned + cross)
  BY DEF BasemulBound
<1> HIDE DEF cross
<1>4. turned \in Nat /\ turned <= 1710
  BY <1>2, SMT DEF FqmulBound, ZetaBound, KYBER_Q
<1> HIDE DEF turned
<1>5. BasemulBound(a, b) \in Nat /\ BasemulBound(a, b) <= 3536
  BY <1>2, <1>3, <1>4 DEF Larger
<1> QED BY <1>5 DEF AccPeak, KYBER_K

(* The products of two vectors fit before they are reduced. *)
LEMMA DotKeeps == ASSUME KemInv, Dot PROVE KemInv'
<1>1. PICK i \in Nat : FlowAt(i)
  BY DEF KemInv, Flow
<1>2. At("dot") /\ ~At("ntt") /\ ~At("invntt")
  BY DEF Dot, At
<1>3. /\ code # <<>> /\ Head(code)[1] = "dot"
      /\ Placed(Proc(step), i, "dot", X, Y, Z)
  BY <1>1, <1>2, Standing
<1> DEFINE val == <<PolyvecBasemulAcc(mem[Y], mem[Z])>>
           worst == Half
           top == AccPeak(bound[Y], bound[Z])
<1>4. Leave(X, val, worst, top) /\ Done /\ UNCHANGED <<layer, sampling, keys>>
  BY Zenon DEF Dot
<1>5. layer' = 0 /\ UNCHANGED <<nonce, drawn, entry, keys>>
  BY <1>1, <1>2, <1>4, Still DEF sampling
<1>6. Head(code)[1] \notin Silent /\ Head(code)[1] # "getnoise"
  BY <1>3 DEF Silent
<1>7. /\ X \in Names /\ Y \in Names /\ Z \in Names
      /\ First(Proc(step), Y) < i /\ First(Proc(step), Z) < i
      /\ Size(Y) = KYBER_K /\ Size(Z) = KYBER_K /\ Size(X) = 1
      /\ Room(Proc(step), i, Y) = 4095 /\ Room(Proc(step), i, Z) = Half
      /\ Room(Proc(step), i + 1, X) = Half
  BY <1>3 DEF Placed, Silent
<1>8. /\ bound[Y] \in Nat /\ bound[Y] <= 4095
      /\ bound[Z] \in Nat /\ bound[Z] <= Half
      /\ Fits(mem[Y], KYBER_K, bound[Y]) /\ Fits(mem[Z], KYBER_K, bound[Z])
  BY <1>1, <1>2, <1>7, Ready
<1>9. /\ worst \in Nat /\ worst <= 32767 /\ top \in Int /\ top <= 32767
      /\ worst <= Room(Proc(step), i + 1, X)
  BY <1>7, <1>8, AccFits DEF Half
<1>10. Fits(val, Size(X), worst)
  <2>1. Bounded(PolyvecBasemulAcc(mem[Y], mem[Z]), Half)
    <3>1. \A k \in 1 .. KYBER_K : Bounded(mem[Y][k], bound[Y]) /\ Bounded(mem[Z][k], bound[Z])
      BY <1>8 DEF Fits
    <3> QED BY <1>8, <1>9, <3>1, AccWorst
  <2> QED BY <1>7, <2>1 DEF Fits
<1> HIDE DEF val, worst, top
<1> QED BY <1>1, <1>3, <1>4, <1>5, <1>6, <1>9, <1>10, WroteQuietly

(* So do those of the matrix with a vector: it is there when it is used. *)
LEMMA MatrixKeeps == ASSUME KemInv, Matrix PROVE KemInv'
<1>1. PICK i \in Nat : FlowAt(i)
  BY DEF KemInv, Flow
<1>2. At("matrix") /\ ~At("ntt") /\ ~At("invntt")
  BY DEF Matrix, At
<1>3. /\ code # <<>> /\ Head(code)[1] = "matrix"
      /\ Placed(Proc(step), i, "matrix", X, Y, Z)
  BY <1>1, <1>2, Standing
<1> DEFINE val == [k \in 1 .. KYBER_K |->
                      PolyvecBasemulAcc(SubSeq(entry.done, KYBER_K * (k - 1) + 1,
                                               KYBER_K * k), mem[Y])]
           worst == Half
           top == AccPeak(KYBER_Q - 1, bound[Y])
<1>4. Leave(X, val, worst, top) /\ Done /\ UNCHANGED <<layer, sampling, keys>>
  BY Zenon DEF Matrix
<1>5. layer' = 0 /\ UNCHANGED <<nonce, drawn, entry, keys>>
  BY <1>1, <1>2, <1>4, Still DEF sampling
<1>6. Head(code)[1] \notin Silent /\ Head(code)[1] # "getnoise"
  BY <1>3 DEF Silent
<1>7. /\ X \in Names /\ Y \in Names /\ First(Proc(step), Y) < i
      /\ Size(Y) = KYBER_K /\ Size(X) = KYBER_K
      /\ Room(Proc(step), i, Y) = Half /\ Room(Proc(step), i + 1, X) = Half
      /\ GenAt(Proc(step)) < i
  BY <1>3 DEF Placed, Silent
<1>8. /\ bound[Y] \in Nat /\ bound[Y] <= Half
      /\ Fits(mem[Y], KYBER_K, bound[Y])
  BY <1>1, <1>2, <1>7, Ready
<1>9. /\ worst \in Nat /\ worst <= 32767 /\ top \in Int /\ top <= 32767
      /\ worst <= Room(Proc(step), i + 1, X)
  BY <1>7, <1>8, AccFits DEF Half, KYBER_Q
<1>e. /\ entry.done \in Seq([Coeffs -> 0 .. KYBER_Q - 1])
      /\ Len(entry.done) = KYBER_K * KYBER_K
  BY <1>1, <1>7 DEF KemInv, Entries, FlowAt, MatrixAt
<1>10. Fits(val, Size(X), worst)
  <2>1. ASSUME NEW k \in 1 .. KYBER_K
        PROVE  Bounded(PolyvecBasemulAcc(SubSeq(entry.done, KYBER_K * (k - 1) + 1,
                                                KYBER_K * k), mem[Y]), Half)
    <3> DEFINE row == SubSeq(entry.done, KYBER_K * (k - 1) + 1, KYBER_K * k)
           P == [Coeffs -> 0 .. KYBER_Q - 1]
    <3>0. entry.done \in Seq(P) /\ Len(entry.done) = 9
      BY <1>e DEF KYBER_K
    <3> HIDE DEF P
    <3>1. \A n \in 1 .. KYBER_K : row[n] \in P
      BY <3>0 DEF KYBER_K
    <3> HIDE DEF row
    <3>2. ASSUME NEW n \in 1 .. KYBER_K PROVE Bounded(row[n], KYBER_Q - 1)
      <4> SUFFICES ASSUME NEW j \in Coeffs PROVE Within(row[n][j], KYBER_Q - 1)
        BY DEF Bounded
      <4>1. row[n] \in [Coeffs -> 0 .. KYBER_Q - 1]
        BY <3>1 DEF P
      <4>2. row[n][j] \in 0 .. KYBER_Q - 1
        BY <4>1, Zenon
      <4> DEFINE u == row[n][j]
      <4>3. u \in 0 .. KYBER_Q - 1
        BY <4>2
      <4> HIDE DEF u
      <4>4. Within(u, KYBER_Q - 1)
        BY <4>3 DEF Within, KYBER_Q
      <4> QED BY <4>4 DEF u
    <3>3. KYBER_Q - 1 \in Nat
      BY DEF KYBER_Q
    <3>4. Bounded(PolyvecBasemulAcc(row, mem[Y]), Half)
      BY <1>8, <1>9, <3>2, <3>3, AccWorst DEF Fits
    <3> QED BY <3>4 DEF row
  <2> QED BY <1>7, <2>1 DEF Fits
<1> HIDE DEF val, worst, top
<1> QED BY <1>1, <1>3, <1>4, <1>5, <1>6, <1>9, <1>10, WroteQuietly

(* Any twelve bits may come from the bytes of a secret key. *)
LEMMA UnpackSkKeeps == ASSUME KemInv, UnpackSk PROVE KemInv'
<1>1. PICK i \in Nat : FlowAt(i)
  BY DEF KemInv, Flow
<1>2. At("unpack_sk") /\ ~At("ntt") /\ ~At("invntt")
  BY DEF UnpackSk, At
<1>3. /\ code # <<>> /\ Head(code)[1] = "unpack_sk"
      /\ Placed(Proc(step), i, "unpack_sk", X, Y, Z)
  BY <1>1, <1>2, Standing
<1> DEFINE val == PolyvecFromBytes(sk.bytes)
           worst == 4095
           top == 0
<1>4. Leave(X, val, worst, top) /\ Done /\ UNCHANGED <<layer, sampling, keys>>
  <2>1. X = "skpv"
    BY <1>3 DEF Placed
  <2> QED BY <2>1 DEF UnpackSk
<1>5. layer' = 0 /\ UNCHANGED <<nonce, drawn, entry, keys>>
  BY <1>1, <1>2, <1>4, Still DEF sampling
<1>6. Head(code)[1] \notin Silent /\ Head(code)[1] # "getnoise"
  BY <1>3 DEF Silent
<1>7. X = "skpv" /\ Room(Proc(step), i + 1, X) = 4095 /\ Proc(step) = "dec"
  BY <1>3 DEF Placed
<1>9. /\ worst \in Nat /\ worst <= 32767 /\ top \in Int /\ top <= 32767
      /\ worst <= Room(Proc(step), i + 1, X)
  BY <1>7 DEF KYBER_Q
<1>10. Fits(val, Size(X), worst)
  <2>1. step = "dec"
    BY <1>1, <1>7 DEF FlowAt, PlaceAt, Steps, Proc
  <2>2. Ints(sk.bytes, 1152)
    BY <2>1 DEF KemInv, Bytes
  <2> QED BY <1>7, <2>2, FromBytesWorst DEF Fits, Size
<1> HIDE DEF val, worst, top
<1> QED BY <1>1, <1>3, <1>4, <1>5, <1>6, <1>9, <1>10, WroteQuietly

(* Whatever ciphertext was received, what is decompressed is below q. *)
LEMMA UnpackBKeeps == ASSUME KemInv, UnpackB PROVE KemInv'
<1>1. PICK i \in Nat : FlowAt(i)
  BY DEF KemInv, Flow
<1>2. At("unpack_b") /\ ~At("ntt") /\ ~At("invntt")
  BY DEF UnpackB, At
<1>3. /\ code # <<>> /\ Head(code)[1] = "unpack_b"
      /\ Placed(Proc(step), i, "unpack_b", X, Y, Z)
  BY <1>1, <1>2, Standing
<1> DEFINE val == PolyvecDecompress(ct)
           worst == KYBER_Q - 1
           top == 0
<1>4. Leave(X, val, worst, top) /\ Done /\ UNCHANGED <<layer, sampling, keys>>
  <2>1. X = "b"
    BY <1>3 DEF Placed
  <2> QED BY <2>1, Zenon DEF UnpackB
<1>5. layer' = 0 /\ UNCHANGED <<nonce, drawn, entry, keys>>
  BY <1>1, <1>2, <1>4, Still DEF sampling
<1>6. Head(code)[1] \notin Silent /\ Head(code)[1] # "getnoise"
  BY <1>3 DEF Silent
<1>7. X = "b" /\ Room(Proc(step), i + 1, X) = 3328 /\ Proc(step) = "dec"
  BY <1>3 DEF Placed
<1>9. /\ worst \in Nat /\ worst <= 32767 /\ top \in Int /\ top <= 32767
      /\ worst <= Room(Proc(step), i + 1, X)
  BY <1>7 DEF KYBER_Q
<1>10. Fits(val, Size(X), worst)
  <2>1. step = "dec"
    BY <1>1, <1>7 DEF FlowAt, PlaceAt, Steps, Proc
  <2>2. Ints(ct, 1088)
    BY <2>1 DEF KemInv, Bytes
  <2> QED BY <1>7, <2>2, DecompressTenWorst DEF Fits, Size
<1> HIDE DEF val, worst, top
<1> QED BY <1>1, <1>3, <1>4, <1>5, <1>6, <1>9, <1>10, WroteQuietly

(* And so is its last polynomial. *)
LEMMA UnpackVKeeps == ASSUME KemInv, UnpackV PROVE KemInv'
<1>1. PICK i \in Nat : FlowAt(i)
  BY DEF KemInv, Flow
<1>2. At("unpack_v") /\ ~At("ntt") /\ ~At("invntt")
  BY DEF UnpackV, At
<1>3. /\ code # <<>> /\ Head(code)[1] = "unpack_v"
      /\ Placed(Proc(step), i, "unpack_v", X, Y, Z)
  BY <1>1, <1>2, Standing
<1> DEFINE val == <<PolyDecompress([n \in 0 .. 127 |-> ct[960 + n]])>>
           worst == KYBER_Q - 1
           top == 0
<1>4. Leave(X, val, worst, top) /\ Done /\ UNCHANGED <<layer, sampling, keys>>
  <2>1. X = "v"
    BY <1>3 DEF Placed
  <2> QED BY <2>1, Zenon DEF UnpackV
<1>5. layer' = 0 /\ UNCHANGED <<nonce, drawn, entry, keys>>
  BY <1>1, <1>2, <1>4, Still DEF sampling
<1>6. Head(code)[1] \notin Silent /\ Head(code)[1] # "getnoise"
  BY <1>3 DEF Silent
<1>7. X = "v" /\ Room(Proc(step), i + 1, X) = 3328 /\ Proc(step) = "dec"
  BY <1>3 DEF Placed
<1>9. /\ worst \in Nat /\ worst <= 32767 /\ top \in Int /\ top <= 32767
      /\ worst <= Room(Proc(step), i + 1, X)
  BY <1>7 DEF KYBER_Q
<1>10. Fits(val, Size(X), worst)
  <2>1. step = "dec"
    BY <1>1, <1>7 DEF FlowAt, PlaceAt, Steps, Proc
  <2>2. Ints(ct, 1088)
    BY <2>1 DEF KemInv, Bytes
  <2>3. \A n \in 0 .. 127 : ct[960 + n] \in Int
    BY <2>2 DEF Ints
  <2> DEFINE part == [n \in 0 .. 127 |-> ct[960 + n]]
  <2>4. Ints(part, 128)
    BY <2>3 DEF Ints
  <2> HIDE DEF part
  <2>5. Bounded(PolyDecompress(part), KYBER_Q - 1)
    BY <2>4, DecompressFourWorst
  <2>6. val = <<PolyDecompress(part)>>
    BY DEF part
  <2> HIDE DEF val
  <2> QED BY <1>7, <2>5, <2>6 DEF Fits, Size
<1> HIDE DEF val, worst, top
<1> QED BY <1>1, <1>3, <1>4, <1>5, <1>6, <1>9, <1>10, WroteQuietly

(* A message is made of bits. *)
LEMMA FromMsgKeeps == ASSUME KemInv, FromMsg PROVE KemInv'
<1>1. PICK i \in Nat : FlowAt(i)
  BY DEF KemInv, Flow
<1>2. At("frommsg") /\ ~At("ntt") /\ ~At("invntt")
  BY DEF FromMsg, At
<1>3. /\ code # <<>> /\ Head(code)[1] = "frommsg"
      /\ Placed(Proc(step), i, "frommsg", X, Y, Z)
  BY <1>1, <1>2, Standing
<1> DEFINE val == <<[j \in Coeffs |-> FromMsgBit(msg[j])]>>
           worst == 1665
           top == 0
<1>4. Leave(X, val, worst, top) /\ Done /\ UNCHANGED <<layer, sampling, keys>>
  <2>1. X = "k"
    BY <1>3 DEF Placed
  <2> QED BY <2>1, ZenonT(40) DEF FromMsg
<1>5. layer' = 0 /\ UNCHANGED <<nonce, drawn, entry, keys>>
  BY <1>1, <1>2, <1>4, Still DEF sampling
<1>6. Head(code)[1] \notin Silent /\ Head(code)[1] # "getnoise"
  BY <1>3 DEF Silent
<1>7. X = "k" /\ Room(Proc(step), i + 1, X) = 1665 /\ Proc(step) = "enc"
  BY <1>3 DEF Placed
<1>9. /\ worst \in Nat /\ worst <= 32767 /\ top \in Int /\ top <= 32767
      /\ worst <= Room(Proc(step), i + 1, X)
  BY <1>7 DEF KYBER_Q
<1>10. Fits(val, Size(X), worst)
  <2>1. step \in {"enc", "reenc"}
    <3>1. i \in 1 .. Final(Proc(step)) /\ Final(Proc(step)) \in Nat
      BY <1>1, <1>3, AtPlace DEF Final
    <3>2. step \in Steps /\ (step = "done" => i = Final(Proc(step)) + 1)
      BY <1>1 DEF FlowAt, PlaceAt
    <3>3. step # "done"
      BY <3>1, <3>2
    <3> QED BY <1>7, <3>2, <3>3 DEF Steps, Proc
  <2>2. \A j \in Coeffs : msg[j] \in {0, 1}
    BY <2>1 DEF KemInv, Bytes
  <2>3. \A j \in Coeffs : Within(FromMsgBit(msg[j]), 1665)
    <3>1. \A m \in {0, 1} : Within(FromMsgBit(m), 1665)
      BY DEF FromMsgBit, Within, KYBER_Q
    <3>2. ASSUME NEW j \in Coeffs PROVE Within(FromMsgBit(msg[j]), 1665)
      <4>1. msg[j] \in {0, 1}
        BY <2>2
      <4> DEFINE m == msg[j]
      <4> HIDE DEF m
      <4>2. m \in {0, 1} => Within(FromMsgBit(m), 1665)
        BY <3>1
      <4> QED BY <4>1, <4>2 DEF m
    <3> QED BY <3>2
  <2> DEFINE poly == [j \in Coeffs |-> FromMsgBit(msg[j])]
  <2>4. Bounded(poly, 1665)
    BY <2>3 DEF Bounded
  <2> HIDE DEF poly
  <2>5. val = <<poly>>
    BY DEF poly
  <2> HIDE DEF val
  <2> QED BY <1>7, <2>4, <2>5 DEF Fits, Size
<1> HIDE DEF val, worst, top
<1> QED BY <1>1, <1>3, <1>4, <1>5, <1>6, <1>9, <1>10, WroteQuietly

(* Any twelve bits may come from the bytes of a public key. *)
LEMMA UnpackPkKeeps == ASSUME KemInv, UnpackPk PROVE KemInv'
<1>1. PICK i \in Nat : FlowAt(i)
  BY DEF KemInv, Flow
<1>2. At("unpack_pk") /\ ~At("ntt") /\ ~At("invntt")
  BY DEF UnpackPk, At
<1>3. /\ code # <<>> /\ Head(code)[1] = "unpack_pk"
      /\ Placed(Proc(step), i, "unpack_pk", X, Y, Z)
  BY <1>1, <1>2, Standing
<1> DEFINE val == PolyvecFromBytes((IF step = "enc" THEN pk ELSE sk.pk).bytes)
           worst == 4095
           top == 0
<1>4. Leave(X, val, worst, top) /\ Done /\ UNCHANGED <<layer, nonce, drawn, entry, keys>>
  <2>1. X = "pkpv"
    BY <1>3 DEF Placed
  <2> QED BY <2>1, Zenon DEF UnpackPk
<1>5. layer' = 0 /\ UNCHANGED <<nonce, drawn, entry, keys>>
  BY <1>1, <1>2, <1>4, Still
<1>6. Head(code)[1] \notin Silent /\ Head(code)[1] # "getnoise"
  BY <1>3 DEF Silent
<1>7. X = "pkpv" /\ Room(Proc(step), i + 1, X) = 4095 /\ Proc(step) = "enc"
  BY <1>3 DEF Placed
<1>9. /\ worst \in Nat /\ worst <= 32767 /\ top \in Int /\ top <= 32767
      /\ worst <= Room(Proc(step), i + 1, X)
  BY <1>7 DEF KYBER_Q
<1>10. Fits(val, Size(X), worst)
  <2>1. step # "keypair"
    BY <1>7 DEF Proc
  <2>2. Ints(pk.bytes, 1152) /\ Ints(sk.pk.bytes, 1152)
    BY <2>1 DEF KemInv, Bytes
  <2>3. Ints((IF step = "enc" THEN pk ELSE sk.pk).bytes, 1152)
    BY <2>2
  <2> QED BY <1>7, <2>3, FromBytesWorst DEF Fits, Size
<1> HIDE DEF val, worst, top
<1> QED BY <1>1, <1>3, <1>4, <1>5, <1>6, <1>9, <1>10, WroteQuietly

(* They are a sequence of numbers. *)
LEMMA FirstNoncesTyped ==
    ASSUME NEW m \in Nat
    PROVE  /\ FirstNonces(m) \in Seq(Int) /\ Len(FirstNonces(m)) = m
           /\ \A k \in 1 .. m : FirstNonces(m)[k] = k - 1
BY DEF FirstNonces

(* The noise has the nonces that follow those used, one for each polynomial. *)
LEMMA GetNoiseKeeps == ASSUME KemInv, StreamsOfBytes, GetNoise PROVE KemInv'
<1>1. PICK i \in Nat : FlowAt(i)
  BY DEF KemInv, Flow
<1>2. At("getnoise") /\ ~At("ntt") /\ ~At("invntt")
  BY DEF GetNoise, At
<1>3. /\ code # <<>> /\ Head(code)[1] = "getnoise"
      /\ Placed(Proc(step), i, "getnoise", X, Y, Z)
  BY <1>1, <1>2, Standing
<1> DEFINE n == IF X = "epp" THEN 1 ELSE KYBER_K
           val == [k \in 1 .. n |-> Cbd2(PrfBytes(coins, nonce + k - 1))]
           drew == [k \in 1 .. n |-> nonce + k - 1]
<1>4. /\ Leave(X, val, 2, 0) /\ nonce' = NextNonce(n) /\ drawn' = drawn \o drew
      /\ Done /\ UNCHANGED <<layer, seed, coins, entry, keys>>
  BY Zenon DEF GetNoise
<1>5. /\ Room(Proc(step), i + 1, X) = 2 /\ Size(X) = n
      /\ NonceAt(Proc(step), i + 1) = NonceAt(Proc(step), i) + n
  BY <1>3 DEF Placed
<1>6. n \in 1 .. 3
  BY DEF KYBER_K
<1> HIDE DEF n
<1>7. nonce \in 0 .. 7 /\ nonce = NonceAt(Proc(step), i) /\ drawn = FirstNonces(nonce)
  BY <1>1 DEF FlowAt, NoisesAt, NonceAt
<1>8. Fits(val, Size(X), 2)
  <2>1. ASSUME NEW k \in 1 .. n PROVE Bounded(Cbd2(PrfBytes(coins, nonce + k - 1)), 2)
    <3>1. nonce + k - 1 \in Nat
      BY <1>6, <1>7
    <3>2. PrfBytes(coins, nonce + k - 1) \in NoiseBytes
      BY <3>1, Zenon DEF StreamsOfBytes, NoiseBytes
    <3>3. Ints(PrfBytes(coins, nonce + k - 1), 128)
      BY <3>2, BytesInt
    <3> QED BY <3>3, CbdWorst
  <2> QED BY <1>5, <2>1 DEF Fits
<1>9. nonce' = NonceAt(Proc(step), i + 1)
  <2>1. nonce' = (nonce + n) % 256
    BY <1>4 DEF NextNonce
  <2>2. (nonce + n) % 256 = nonce + n
    BY <1>6, <1>7
  <2> QED BY <1>5, <1>7, <2>1, <2>2
<1>10. drawn' = FirstNonces(nonce')
  <2>1. nonce' = nonce + n
    BY <1>5, <1>7, <1>9
  <2>2. FirstNonces(nonce) \in Seq(Int) /\ Len(FirstNonces(nonce)) = nonce
        /\ \A k \in 1 .. nonce : FirstNonces(nonce)[k] = k - 1
    <3>1. nonce \in Nat
      BY <1>7
    <3> QED BY <3>1, FirstNoncesTyped
  <2>3. drew \in Seq(Int) /\ Len(drew) = n /\ \A k \in 1 .. n : drew[k] = nonce + k - 1
    BY <1>6, <1>7
  <2>4. FirstNonces(nonce') \in Seq(Int) /\ Len(FirstNonces(nonce')) = nonce + n
        /\ \A k \in 1 .. nonce + n : FirstNonces(nonce')[k] = k - 1
    <3>1. PICK m \in Nat : m = nonce + n
      BY <1>6, <1>7
    <3>2. FirstNonces(m) \in Seq(Int) /\ Len(FirstNonces(m)) = m
          /\ \A k \in 1 .. m : FirstNonces(m)[k] = k - 1
      BY FirstNoncesTyped
    <3> QED BY <2>1, <3>1, <3>2
  <2> HIDE DEF drew
  <2> DEFINE s == FirstNonces(nonce)
             t == FirstNonces(nonce')
  <2> HIDE DEF s, t
  <2>5. s \o drew \in Seq(Int) /\ Len(s \o drew) = nonce + n
        /\ \A k \in 1 .. nonce + n : (s \o drew)[k] = k - 1
    <3>1. s \in Seq(Int) /\ Len(s) = nonce /\ \A k \in 1 .. nonce : s[k] = k - 1
      BY <2>2 DEF s
    <3>2. /\ s \o drew \in Seq(Int) /\ Len(s \o drew) = Len(s) + Len(drew)
          /\ \A k \in 1 .. Len(s) + Len(drew) :
                (s \o drew)[k] = IF k <= Len(s) THEN s[k] ELSE drew[k - Len(s)]
      BY <2>3, <3>1, ConcatProperties
    <3> DEFINE r == s \o drew
    <3> HIDE DEF r
    <3>4. /\ r \in Seq(Int) /\ Len(r) = nonce + n
          /\ \A k \in 1 .. nonce + n : r[k] = IF k <= nonce THEN s[k] ELSE drew[k - nonce]
      BY <2>3, <3>1, <3>2 DEF r
    <3>3. ASSUME NEW k \in 1 .. nonce + n PROVE r[k] = k - 1
      <4>1. CASE k <= nonce
        BY <1>7, <3>1, <3>4, <4>1
      <4>2. CASE k > nonce
        <5>1. k - nonce \in 1 .. n
          BY <1>6, <1>7, <4>2
        <5>2. drew[k - nonce] = nonce + (k - nonce) - 1
          BY <2>3, <5>1
        <5> QED BY <1>6, <1>7, <3>4, <4>2, <5>2
      <4> QED BY <1>6, <1>7, <4>1, <4>2
    <3>5. r \in Seq(Int) /\ Len(r) = nonce + n /\ \A k \in 1 .. nonce + n : r[k] = k - 1
      BY <3>3, <3>4
    <3> QED BY <3>5 DEF r
  <2>6. s \o drew = t
    BY <2>4, <2>5, SeqEqual DEF t
  <2> QED BY <1>4, <1>7, <2>6 DEF s, t
<1>11. layer' = 0 /\ entry' = entry /\ UNCHANGED keys
  BY <1>1, <1>2, <1>4, Still
<1>12. Head(code)[1] \notin Silent
  BY <1>3 DEF Silent
<1>13. 2 \in Nat /\ 0 \in Int /\ 2 <= 32767 /\ 0 <= 32767 /\ 2 <= Room(Proc(step), i + 1, X)
  BY <1>5
<1> HIDE DEF val, drew
<1> QED BY <1>1, <1>3, <1>4, <1>8, <1>9, <1>10, <1>11, <1>12, <1>13, Wrote

(* A layer of a transform that goes on keeps the invariant. *)
LEMMA WentOn ==
    ASSUME NEW i \in Nat, FlowAt(i), KemInv, At("ntt") \/ At("invntt"), layer < 7,
           NEW val, NEW worst \in Nat, NEW top \in Int,
           worst <= 32767, top <= 32767,
           worst <= Room(Proc(step), i, X) +
                       (IF At("ntt") THEN 2494 * (layer + 1) ELSE 96),
           Fits(val, Size(X), worst), DOMAIN mem[X] = 1 .. Size(X),
           Leave(X, val, worst, top), layer' = layer + 1,
           UNCHANGED <<code, sampling, keys>>
    PROVE  KemInv'
<1>1. code # <<>> /\ Head(code)[1] \notin Endings
  BY DEF At, Endings
<1>2. Vectors /\ Bytes /\ Entries
  BY DEF KemInv
<1>3. code' = code /\ keys' = keys /\ entry' = entry /\ nonce' = nonce /\ drawn' = drawn
      /\ step' = step
  BY DEF sampling, keys
<1>4. UNCHANGED <<code, step, nonce, drawn, entry>>
  BY <1>3
<1>5. Flow' /\ Vectors'
  BY <1>1, <1>2, <1>4, Halfway
<1>6. Entries'
  BY <1>2, <1>3 DEF Entries
<1>7. Bytes'
  BY <1>1, <1>2, <1>3, BytesKept
<1> QED BY <1>5, <1>6, <1>7 DEF KemInv

(* What a transform finds in its vector. *)
LEMMA Transformed ==
    ASSUME NEW i \in Nat, FlowAt(i), KemInv, NEW op \in {"ntt", "invntt"}, At(op)
    PROVE  /\ X \in Names /\ layer \in 0 .. 7
           /\ Room(Proc(step), i, X) \in Nat
           /\ op = "ntt" => Room(Proc(step), i, X) <= 3328 /\ Room(Proc(step), i + 1, X) = Half
           /\ op = "invntt" => Room(Proc(step), i, X) = Half /\ Room(Proc(step), i + 1, X) = 1703
           /\ bound[X] \in Nat
           /\ op = "ntt" => bound[X] <= Room(Proc(step), i, X) + 2494 * layer
           /\ op = "invntt" => bound[X] <= Half + 96
           /\ Fits(mem[X], Size(X), bound[X])
<1>1. code # <<>> /\ Placed(Proc(step), i, op, X, Y, Z)
  BY Standing
<1>2. /\ X \in Names /\ First(Proc(step), X) < i
      /\ op = "ntt" => Room(Proc(step), i, X) <= 3328 /\ Room(Proc(step), i + 1, X) = Half
      /\ op = "invntt" => Room(Proc(step), i, X) = Half /\ Room(Proc(step), i + 1, X) = 1703
  BY <1>1 DEF Placed, Silent
<1>3. Vectors
  BY DEF KemInv
<1>4. /\ bound[X] \in Nat /\ bound[X] <= Room(Proc(step), i, X) + Extra(X)
      /\ Fits(mem[X], Size(X), bound[X])
  BY <1>2, <1>3, Operand
<1>5. layer \in 0 .. 7
  BY DEF FlowAt, Layers
<1>6. Room(Proc(step), i, X) \in Nat
  BY DEF Room, Half
<1>7. Extra(X) \in Nat /\ (op = "ntt" => Extra(X) <= 2494 * layer) /\ (op = "invntt" => Extra(X) <= 96)
  <2>1. At("ntt") => op = "ntt"
    BY DEF At
  <2>2. op = "ntt" => At("ntt")
    OBVIOUS
  <2> QED BY <1>5, <2>1, <2>2 DEF Extra
<1> QED BY <1>2, <1>4, <1>5, <1>6, <1>7 DEF Half

(* The distance of a layer is one of the seven. *)
LEMMA LayerLens ==
    ASSUME NEW n \in 0 .. 6
    PROVE  128 \div 2^n \in Lens /\ 2^(n + 1) \in Lens
<1>1. n = 0 \/ n = 1 \/ n = 2 \/ n = 3 \/ n = 4 \/ n = 5 \/ n = 6
  OBVIOUS
<1>2. CASE n = 0
  <2>1. 2^0 = 1 /\ 2^1 = 2 /\ 128 \div 1 = 128 /\ 0 + 1 = 1
    BY SMT
  <2>2. 128 \div 2^0 = 128 /\ 2^(0 + 1) = 2
    BY <2>1, Zenon
  <2>3. 128 \in Lens /\ 2 \in Lens
    BY DEF Lens
  <2> QED BY <1>2, <2>2, <2>3, Zenon
<1>3. CASE n = 1
  <2>1. 2^1 = 2 /\ 2^2 = 4 /\ 128 \div 2 = 64 /\ 1 + 1 = 2
    BY SMT
  <2>2. 128 \div 2^1 = 64 /\ 2^(1 + 1) = 4
    BY <2>1, Zenon
  <2>3. 64 \in Lens /\ 4 \in Lens
    BY DEF Lens
  <2> QED BY <1>3, <2>2, <2>3, Zenon
<1>4. CASE n = 2
  <2>1. 2^2 = 4 /\ 2^3 = 8 /\ 128 \div 4 = 32 /\ 2 + 1 = 3
    BY SMT
  <2>2. 128 \div 2^2 = 32 /\ 2^(2 + 1) = 8
    BY <2>1, Zenon
  <2>3. 32 \in Lens /\ 8 \in Lens
    BY DEF Lens
  <2> QED BY <1>4, <2>2, <2>3, Zenon
<1>5. CASE n = 3
  <2>1. 2^3 = 8 /\ 2^4 = 16 /\ 128 \div 8 = 16 /\ 3 + 1 = 4
    BY SMT
  <2>2. 128 \div 2^3 = 16 /\ 2^(3 + 1) = 16
    BY <2>1, Zenon
  <2>3. 16 \in Lens /\ 16 \in Lens
    BY DEF Lens
  <2> QED BY <1>5, <2>2, <2>3, Zenon
<1>6. CASE n = 4
  <2>1. 2^4 = 16 /\ 2^5 = 32 /\ 128 \div 16 = 8 /\ 4 + 1 = 5
    BY SMT
  <2>2. 128 \div 2^4 = 8 /\ 2^(4 + 1) = 32
    BY <2>1, Zenon
  <2>3. 8 \in Lens /\ 32 \in Lens
    BY DEF Lens
  <2> QED BY <1>6, <2>2, <2>3, Zenon
<1>7. CASE n = 5
  <2>1. 2^5 = 32 /\ 2^6 = 64 /\ 128 \div 32 = 4 /\ 5 + 1 = 6
    BY SMT
  <2>2. 128 \div 2^5 = 4 /\ 2^(5 + 1) = 64
    BY <2>1, Zenon
  <2>3. 4 \in Lens /\ 64 \in Lens
    BY DEF Lens
  <2> QED BY <1>7, <2>2, <2>3, Zenon
<1>8. CASE n = 6
  <2>1. 2^6 = 64 /\ 2^7 = 128 /\ 128 \div 64 = 2 /\ 6 + 1 = 7
    BY SMT
  <2>2. 128 \div 2^6 = 2 /\ 2^(6 + 1) = 128
    BY <2>1, Zenon
  <2>3. 2 \in Lens /\ 128 \in Lens
    BY DEF Lens
  <2> QED BY <1>8, <2>2, <2>3, Zenon
<1> QED BY <1>1, <1>2, <1>3, <1>4, <1>5, <1>6, <1>7, <1>8

(* The transform: seven layers, then a reduction. *)
LEMMA NttKeeps == ASSUME KemInv, Ntt PROVE KemInv'
<1>1. PICK i \in Nat : FlowAt(i)
  BY DEF KemInv, Flow
<1>2. At("ntt")
  BY DEF Ntt
<1>3. /\ X \in Names /\ layer \in 0 .. 7
      /\ Room(Proc(step), i, X) \in Nat
      /\ Room(Proc(step), i, X) <= 3328 /\ Room(Proc(step), i + 1, X) = Half
      /\ bound[X] \in Nat
      /\ bound[X] <= Room(Proc(step), i, X) + 2494 * layer
      /\ Fits(mem[X], Size(X), bound[X])
  BY <1>1, <1>2, Transformed
<1>4. CASE layer < 7
  <2> DEFINE len == 128 \div 2^layer
             worst == bound[X] + FqmulBound(ZetaBound * bound[X])
             val == Each(LAMBDA p : NttLayer(p, len), mem[X])
  <2>1. /\ Leave(X, val, worst, 0) /\ layer' = layer + 1
        /\ UNCHANGED <<code, sampling, keys>>
    BY <1>4 DEF Ntt
  <2>2. len \in Lens
    <3>1. layer \in 0 .. 6
      BY <1>3, <1>4
    <3> QED BY <3>1, LayerLens, Zenon
  <2>3. /\ worst \in Nat /\ worst <= 32767
        /\ worst <= Room(Proc(step), i, X) + 2494 * (layer + 1)
    <3>1. bound[X] <= 18292
      BY <1>3, <1>4
    <3> DEFINE f == FqmulBound(ZetaBound * bound[X])
    <3>2. f \in Nat /\ f <= 2494
      BY <1>3, <3>1 DEF FqmulBound, ZetaBound, KYBER_Q
    <3> HIDE DEF f
    <3>3. worst = bound[X] + f
      BY DEF f
    <3> QED BY <1>3, <3>1, <3>2, <3>3
  <2>4. Fits(val, Size(X), worst)
    <3>1. val = [k \in 1 .. Size(X) |-> NttLayer(mem[X][k], len)]
      BY <1>3 DEF Each, Fits
    <3>2. \A k \in 1 .. Size(X) : Bounded(NttLayer(mem[X][k], len), worst)
      BY <1>3, <2>2, <2>3, NttLayerWorst DEF Fits
    <3> HIDE DEF val, worst, len
    <3> QED BY <3>1, <3>2 DEF Fits
  <2>5. DOMAIN mem[X] = 1 .. Size(X)
    BY <1>3 DEF Fits
  <2>6. worst <= Room(Proc(step), i, X) + (IF At("ntt") THEN 2494 * (layer + 1) ELSE 96)
    BY <1>2, <2>3
  <2> HIDE DEF val, worst
  <2> QED BY <1>1, <1>2, <1>4, <2>1, <2>3, <2>4, <2>5, <2>6, WentOn
<1>5. CASE ~(layer < 7)
  <2> DEFINE val == Each(PolyReduce, mem[X])
  <2>1. /\ Leave(X, val, Half, 0) /\ layer' = 0 /\ Done
        /\ UNCHANGED <<sampling, keys>>
    BY <1>5 DEF Ntt
  <2>2. bound[X] <= 32767
    BY <1>3
  <2>3. Fits(val, Size(X), Half)
    <3>1. val = [k \in 1 .. Size(X) |-> PolyReduce(mem[X][k])]
      BY <1>3 DEF Each, Fits
    <3>2. \A k \in 1 .. Size(X) : Bounded(PolyReduce(mem[X][k]), Half)
      BY <1>3, <2>2, ReduceWorst DEF Fits
    <3> HIDE DEF val
    <3> QED BY <3>1, <3>2 DEF Fits
  <2>4. Half \in Nat /\ Half <= 32767 /\ Half <= Room(Proc(step), i + 1, X)
    BY <1>3 DEF Half
  <2>5. code # <<>> /\ Head(code)[1] \notin Silent /\ Head(code)[1] # "getnoise"
    BY <1>2 DEF At, Silent
  <2>6. UNCHANGED <<nonce, drawn, entry, keys>>
    BY <2>1 DEF sampling
  <2> HIDE DEF val
  <2> QED BY <1>1, <2>1, <2>3, <2>4, <2>5, <2>6, WroteQuietly
<1> QED BY <1>4, <1>5

(* Its inverse: seven layers, then a multiplication. *)
LEMMA InvNttKeeps == ASSUME KemInv, InvNtt PROVE KemInv'
<1>1. PICK i \in Nat : FlowAt(i)
  BY DEF KemInv, Flow
<1>2. At("invntt") /\ ~At("ntt")
  BY DEF InvNtt, At
<1>3. /\ X \in Names /\ layer \in 0 .. 7
      /\ Room(Proc(step), i, X) = Half /\ Room(Proc(step), i + 1, X) = 1703
      /\ bound[X] \in Nat
      /\ bound[X] <= Half + 96
      /\ Fits(mem[X], Size(X), bound[X])
  BY <1>1, <1>2, Transformed
<1>4. CASE layer < 7
  <2> DEFINE len == 2^(layer + 1)
             worst == Larger(Half, FqmulBound(ZetaBound * 2 * bound[X]))
             top == 2 * bound[X]
             val == Each(LAMBDA p : InvNttLayer(p, len), mem[X])
  <2>1. /\ Leave(X, val, worst, top) /\ layer' = layer + 1
        /\ UNCHANGED <<code, sampling, keys>>
    BY <1>4 DEF InvNtt
  <2>2. len \in Lens
    <3>1. layer \in 0 .. 6
      BY <1>3, <1>4
    <3> QED BY <3>1, LayerLens, Zenon
  <2>p. ZetaBound * 2 * bound[X] = ZetaBound * (2 * bound[X])
    BY <1>3 DEF ZetaBound
  <2>3. /\ worst \in Nat /\ worst <= 32767 /\ top \in Int /\ top <= 32767
        /\ worst <= Half + 96
    <3> DEFINE f == FqmulBound(ZetaBound * 2 * bound[X])
    <3>2. f \in Nat /\ f <= 1760
      BY <1>3 DEF FqmulBound, ZetaBound, KYBER_Q, Half
    <3> HIDE DEF f
    <3>3. worst = Larger(Half, f)
      BY DEF f
    <3> QED BY <1>3, <3>2, <3>3 DEF Larger, Half
  <2>4. Fits(val, Size(X), worst)
    <3>1. val = [k \in 1 .. Size(X) |-> InvNttLayer(mem[X][k], len)]
      BY <1>3 DEF Each, Fits
    <3>2. worst = Larger(Half, FqmulBound(ZetaBound * (2 * bound[X])))
      BY <2>p
    <3>3. \A k \in 1 .. Size(X) : Bounded(InvNttLayer(mem[X][k], len), worst)
      BY <1>3, <2>2, <2>3, <3>2, InvNttLayerWorst DEF Fits
    <3> HIDE DEF val, worst, len
    <3> QED BY <3>1, <3>3 DEF Fits
  <2>5. DOMAIN mem[X] = 1 .. Size(X)
    BY <1>3 DEF Fits
  <2>6. worst <= Room(Proc(step), i, X) + (IF At("ntt") THEN 2494 * (layer + 1) ELSE 96)
    BY <1>2, <1>3, <2>3
  <2> HIDE DEF val, worst, top
  <2> QED BY <1>1, <1>2, <1>4, <2>1, <2>3, <2>4, <2>5, <2>6, WentOn
<1>5. CASE ~(layer < 7)
  <2> DEFINE val == Each(Scale, mem[X])
             worst == FqmulBound(1441 * bound[X])
  <2>1. /\ Leave(X, val, worst, 0) /\ layer' = 0 /\ Done
        /\ UNCHANGED <<sampling, keys>>
    BY <1>5 DEF InvNtt
  <2>2. worst \in Nat /\ worst <= 1703
    BY <1>3 DEF FqmulBound, KYBER_Q, Half
  <2>3. Fits(val, Size(X), worst)
    <3>1. val = [k \in 1 .. Size(X) |-> Scale(mem[X][k])]
      BY <1>3 DEF Each, Fits
    <3>2. \A k \in 1 .. Size(X) : Bounded(Scale(mem[X][k]), worst)
      BY <1>3, <2>2, ScaleWorst DEF Fits
    <3> HIDE DEF val, worst
    <3> QED BY <3>1, <3>2 DEF Fits
  <2>4. worst \in Nat /\ worst <= 32767 /\ worst <= Room(Proc(step), i + 1, X)
    BY <1>3, <2>2
  <2>5. code # <<>> /\ Head(code)[1] \notin Silent /\ Head(code)[1] # "getnoise"
    BY <1>2 DEF At, Silent
  <2>6. UNCHANGED <<nonce, drawn, entry, keys>>
    BY <2>1 DEF sampling
  <2> HIDE DEF val, worst
  <2> QED BY <1>1, <2>1, <2>3, <2>4, <2>5, <2>6, WroteQuietly
<1> QED BY <1>4, <1>5

(* Bytes, numbers of twelve bits, and those below q. *)
Byte0 == 0 .. 255
Twelve == 0 .. 4095
Canonical == 0 .. KYBER_Q - 1

(* The first or the second of the two candidates in three bytes. *)
Field(x, y, z, n) == IF n % 2 = 1 THEN (x + y * 256) % 4096 ELSE (y \div 16 + z * 16) % 4096

(* The candidate from the three bytes after place k. *)
Candidate(s, k, n) == Field(s[k + 1], s[k + 2], s[k + 3], n)

(* Candidate n lies after whole threes. *)
LEMMA CandidateIs ==
    ASSUME NEW s, NEW n \in 1 .. 2 * (Len(s) \div 3)
    PROVE  Candidates(s)[n] = Candidate(s, 3 * ((n - 1) \div 2), n)
<1> DEFINE C(m) == Candidate(s, 3 * ((m - 1) \div 2), m)
<1>1. Candidates(s) = [m \in 1 .. 2 * (Len(s) \div 3) |-> C(m)]
  BY Zenon DEF Candidates, Candidate, Field
<1> HIDE DEF C
<1>2. Candidates(s)[n] = C(n)
  BY <1>1, Zenon
<1> QED BY <1>2 DEF C

(* The bytes of a candidate lie in the buffer. *)
LEMMA CandidatePlace ==
    ASSUME NEW l \in Nat, NEW n \in 1 .. 2 * (l \div 3)
    PROVE  /\ 3 * ((n - 1) \div 2) \in Nat
           /\ 3 * ((n - 1) \div 2) + 3 <= l
BY SMT

(* A candidate is a number of twelve bits. *)
LEMMA CandidateTyped ==
    ASSUME NEW s \in Seq(Byte0), NEW k \in Nat, k + 3 <= Len(s), NEW n \in Int
    PROVE  Candidate(s, k, n) \in Twelve
<1>1. Len(s) \in Nat /\ k + 1 \in 1 .. Len(s) /\ k + 2 \in 1 .. Len(s) /\ k + 3 \in 1 .. Len(s)
  OBVIOUS
<1>2. s[k + 1] \in Int /\ s[k + 2] \in Int /\ s[k + 3] \in Int
  <2>1. s[k + 1] \in Byte0 /\ s[k + 2] \in Byte0 /\ s[k + 3] \in Byte0
    BY <1>1, ElementOfSeq
  <2>2. \A w \in Byte0 : w \in Int
    BY DEF Byte0
  <2> QED BY <2>1, <2>2, Zenon
<1>3. \A x, y, z \in Int : Field(x, y, z, n) \in Twelve
  <2> TAKE x, y, z \in Int
  <2>1. (x + y * 256) % 4096 \in Twelve
    BY SMT DEF Twelve
  <2>2. y \div 16 \in Int
    BY SMT
  <2>3. (y \div 16 + z * 16) % 4096 \in Twelve
    BY <2>2, SMT DEF Twelve
  <2> QED BY <2>1, <2>3 DEF Field
<1> QED BY <1>2, <1>3 DEF Candidate

(* The candidates of a buffer are numbers of twelve bits. *)
LEMMA CandidatesTyped ==
    ASSUME NEW s \in Seq(Byte0)
    PROVE  /\ Candidates(s) \in Seq(Twelve)
           /\ Len(Candidates(s)) = 2 * (Len(s) \div 3)
<1> DEFINE m == 2 * (Len(s) \div 3)
           c(n) == Candidate(s, 3 * ((n - 1) \div 2), n)
<1>1. m \in Nat /\ Len(s) \in Nat
  OBVIOUS
<1>2. Candidates(s) = [n \in 1 .. m |-> c(n)]
  BY Zenon DEF Candidates, Candidate, Field
<1>3. ASSUME NEW n \in 1 .. m PROVE c(n) \in Twelve
  <2>1. 3 * ((n - 1) \div 2) \in Nat /\ 3 * ((n - 1) \div 2) + 3 <= Len(s)
    BY <1>1, CandidatePlace
  <2> QED BY <1>1, <2>1, CandidateTyped
<1> HIDE DEF c, m
<1>4. [n \in 1 .. m |-> c(n)] \in Seq(Twelve) /\ Len([n \in 1 .. m |-> c(n)]) = m
  BY <1>1, <1>3
<1> QED BY <1>2, <1>4 DEF m

(* Three bytes hold two candidates, so none lies across two buffers of whole
   threes. *)
LEMMA CandidatesConcat ==
    ASSUME NEW s \in Seq(Byte0), NEW t \in Seq(Byte0), NEW h \in Nat, Len(s) = 3 * h
    PROVE  Candidates(s \o t) = Candidates(s) \o Candidates(t)
<1> DEFINE r == s \o t
           a == Candidates(s)
           b == Candidates(t)
<1>0. PICK e \in Nat : e = 2 * (Len(t) \div 3)
  OBVIOUS
<1>9. PICK g \in Nat : g = 3 * h
  OBVIOUS
<1>1. /\ r \in Seq(Byte0) /\ Len(r) = g + Len(t)
      /\ \A n \in 1 .. g : r[n] = s[n]
      /\ \A n \in 1 .. Len(t) : r[g + n] = t[n]
  BY <1>9
<1>8. Len(s) = g /\ Len(t) \in Nat
  BY <1>9
<1> HIDE DEF r
<1>2. /\ a \in Seq(Twelve) /\ Len(a) = 2 * h
      /\ b \in Seq(Twelve) /\ Len(b) = e
      /\ Candidates(r) \in Seq(Twelve) /\ Len(Candidates(r)) = 2 * h + e
      /\ 2 * (Len(s) \div 3) = 2 * h /\ 2 * (Len(r) \div 3) = 2 * h + e
  <2>1. 2 * (Len(s) \div 3) = 2 * h /\ 2 * (Len(r) \div 3) = 2 * h + e
    <3>1. \A l \in Nat : 2 * ((3 * h) \div 3) = 2 * h
                         /\ 2 * ((3 * h + l) \div 3) = 2 * h + 2 * (l \div 3)
      BY SMT
    <3>2. Len(s) = 3 * h /\ Len(r) = 3 * h + Len(t)
      BY <1>1, <1>9
    <3>3. /\ 2 * ((3 * h) \div 3) = 2 * h
          /\ 2 * ((3 * h + Len(t)) \div 3) = 2 * h + 2 * (Len(t) \div 3)
      BY <1>8, <3>1
    <3> QED BY <1>0, <3>2, <3>3, Zenon
  <2> QED BY <1>0, <1>1, <2>1, CandidatesTyped
<1>3. /\ a \o b \in Seq(Twelve) /\ Len(a \o b) = 2 * h + e
      /\ \A n \in 1 .. 2 * h : (a \o b)[n] = a[n]
      /\ \A n \in 1 .. e : (a \o b)[2 * h + n] = b[n]
  <2> HIDE DEF a, b
  <2>1. a \in Seq(Twelve) /\ Len(a) = 2 * h /\ b \in Seq(Twelve) /\ Len(b) = e
    BY <1>2
  <2> DEFINE q == a \o b
  <2>2. /\ q \in Seq(Twelve) /\ Len(q) = Len(a) + Len(b)
        /\ \A k \in 1 .. Len(a) + Len(b) :
              q[k] = IF k <= Len(a) THEN a[k] ELSE b[k - Len(a)]
    BY <2>1, ConcatProperties
  <2> HIDE DEF q
  <2>3. /\ q \in Seq(Twelve) /\ Len(q) = 2 * h + e
        /\ \A k \in 1 .. 2 * h + e : q[k] = IF k <= 2 * h THEN a[k] ELSE b[k - 2 * h]
    BY <2>1, <2>2
  <2>4. ASSUME NEW n \in 1 .. 2 * h PROVE q[n] = a[n]
    BY <2>3
  <2>5. ASSUME NEW n \in 1 .. e PROVE q[2 * h + n] = b[n]
    <3>1. PICK k \in 1 .. 2 * h + e : k = 2 * h + n
      OBVIOUS
    <3>2. k - 2 * h = n /\ ~(k <= 2 * h)
      BY <3>1
    <3> QED BY <2>3, <3>1, <3>2
  <2> QED BY <2>3, <2>4, <2>5 DEF q
<1>4. ASSUME NEW n \in 1 .. 2 * h PROVE Candidates(r)[n] = a[n]
  <2>1. PICK k \in Nat : k = 3 * ((n - 1) \div 2) /\ k + 3 <= g
    <3>1. 3 * ((n - 1) \div 2) \in Nat /\ 3 * ((n - 1) \div 2) + 3 <= g
      BY <1>9, SMT
    <3> QED BY <3>1
  <2>2. a[n] = Candidate(s, k, n)
    BY <1>2, <2>1, CandidateIs
  <2>3. Candidates(r)[n] = Candidate(r, k, n)
    <3>1. n \in 1 .. 2 * (Len(r) \div 3)
      BY <1>2
    <3> QED BY <2>1, <3>1, CandidateIs
  <2>4. r[k + 1] = s[k + 1] /\ r[k + 2] = s[k + 2] /\ r[k + 3] = s[k + 3]
    BY <1>1, <2>1
  <2>5. Candidate(r, k, n) = Candidate(s, k, n)
    BY <2>4 DEF Candidate
  <2> HIDE DEF a
  <2> QED BY <2>2, <2>3, <2>5
<1>5. ASSUME NEW n \in 1 .. e PROVE Candidates(r)[2 * h + n] = b[n]
  <2>1. PICK k \in Nat : k = 3 * ((n - 1) \div 2) /\ k + 3 <= Len(t)
    <3>1. 3 * ((n - 1) \div 2) \in Nat /\ 3 * ((n - 1) \div 2) + 3 <= Len(t)
      BY <1>0, <1>8, CandidatePlace
    <3> QED BY <3>1
  <2>2. b[n] = Candidate(t, k, n)
    BY <1>0, <2>1, CandidateIs
  <2>3. PICK o \in Nat : o = 2 * h + n
    OBVIOUS
  <2>4. 3 * ((o - 1) \div 2) = g + k /\ (o % 2 = 1 <=> n % 2 = 1)
    BY <1>9, <2>1, <2>3, SMT
  <2>5. Candidates(r)[o] = Candidate(r, g + k, o)
    <3>1. o \in 1 .. 2 * (Len(r) \div 3)
      BY <1>2, <2>3
    <3> QED BY <2>4, <3>1, CandidateIs
  <2>6. /\ (g + k) + 1 = g + (k + 1) /\ (g + k) + 2 = g + (k + 2) /\ (g + k) + 3 = g + (k + 3)
        /\ k + 1 \in 1 .. Len(t) /\ k + 2 \in 1 .. Len(t) /\ k + 3 \in 1 .. Len(t)
    BY <1>8, <2>1
  <2>7. r[g + (k + 1)] = t[k + 1] /\ r[g + (k + 2)] = t[k + 2] /\ r[g + (k + 3)] = t[k + 3]
    BY <1>1, <2>6
  <2>8. r[(g + k) + 1] = t[k + 1] /\ r[(g + k) + 2] = t[k + 2] /\ r[(g + k) + 3] = t[k + 3]
    BY <2>6, <2>7, Zenon
  <2>9. Candidate(r, g + k, o) = Candidate(t, k, n)
    <3>1. \A x, y, z : Field(x, y, z, o) = Field(x, y, z, n)
      BY <2>4 DEF Field
    <3> QED BY <2>8, <3>1 DEF Candidate
  <2> HIDE DEF b
  <2> QED BY <2>2, <2>3, <2>5, <2>9
<1>6. \A n \in 1 .. 2 * h + e : Candidates(r)[n] = (a \o b)[n]
  <2> DEFINE u == Candidates(r)
             v == a \o b
  <2>1. /\ \A n \in 1 .. 2 * h : u[n] = v[n]
        /\ \A n \in 1 .. e : u[2 * h + n] = v[2 * h + n]
    BY <1>3, <1>4, <1>5
  <2> HIDE DEF u, v
  <2> SUFFICES ASSUME NEW n \in 1 .. 2 * h + e PROVE u[n] = v[n]
    BY DEF u, v
  <2>2. CASE n <= 2 * h
    BY <2>1, <2>2
  <2>3. CASE n > 2 * h
    <3>1. PICK m \in 1 .. e : n = 2 * h + m
      <4>1. n - 2 * h \in 1 .. e /\ n = 2 * h + (n - 2 * h)
        BY <2>3
      <4> QED BY <4>1
    <3> QED BY <2>1, <3>1
  <2> QED BY <2>2, <2>3
<1> HIDE DEF a, b
<1>7. Candidates(r) = a \o b
  BY <1>2, <1>3, <1>6, SeqEqual
<1> QED BY <1>7 DEF r, a, b

(* n blocks of the stream of an entry, from the one after number k. *)
Blocks(k, n) == [b \in 1 .. n |-> Block0(k + b)]

(* They are n blocks of 168 bytes. *)
LEMMA BlocksTyped ==
    ASSUME StreamsOfBytes, NEW k \in Nat, NEW n \in Nat
    PROVE  /\ Blocks(k, n) \in Seq(Seq(Byte0)) /\ Len(Blocks(k, n)) = n
           /\ FlattenSeq(Blocks(k, n)) \in Seq(Byte0)
           /\ Len(FlattenSeq(Blocks(k, n))) = 168 * n
<1> DEFINE s == Blocks(k, n)
<1>1. ASSUME NEW b \in 1 .. n PROVE Block0(k + b) \in Seq(Byte0) /\ Len(Block0(k + b)) = 168
  <2>1. k + b \in Nat
    OBVIOUS
  <2>2. \A m \in Nat : \A x, y : XofBlock(seed, x, y, m) \in Seq(Byte0)
                                 /\ Len(XofBlock(seed, x, y, m)) = 168
    BY Zenon DEF StreamsOfBytes, Byte0
  <2> QED BY <2>1, <2>2, Zenon DEF Block0
<1>2. s = [b \in 1 .. n |-> Block0(k + b)]
  BY DEF Blocks
<1> HIDE DEF s
<1>3. s \in Seq(Seq(Byte0)) /\ Len(s) = n /\ \A b \in 1 .. n : s[b] = Block0(k + b)
  <2> DEFINE B(b) == Block0(k + b)
  <2>1. \A b \in 1 .. n : B(b) \in Seq(Byte0)
    BY <1>1
  <2>2. s = [b \in 1 .. n |-> B(b)]
    BY <1>2
  <2> HIDE DEF B
  <2>3. s \in Seq(Seq(Byte0)) /\ Len(s) = n /\ \A b \in 1 .. n : s[b] = B(b)
    BY <2>1, <2>2
  <2> QED BY <2>3 DEF B
<1>4. \A b \in 1 .. Len(s) : Len(s[b]) = 168
  BY <1>1, <1>3
<1>5. FlattenSeq(s) \in Seq(Byte0) /\ Len(FlattenSeq(s)) = 168 * Len(s)
  BY <1>3, <1>4, FlattenTyped, FlattenLength
<1> QED BY <1>3, <1>5 DEF s

(* What rej_uniform keeps is canonical, and no more than was asked for. *)
LEMMA RejTyped ==
    ASSUME NEW buf \in Seq(Byte0), NEW len \in Nat
    PROVE  /\ Below(Candidates(buf), KYBER_Q) \in Seq(Canonical)
           /\ RejUniform(len, buf) \in Seq(Canonical)
           /\ Len(RejUniform(len, buf)) <= len
<1> DEFINE W == {v \in Twelve : v < KYBER_Q}
           s == Below(Candidates(buf), KYBER_Q)
<1>1. Candidates(buf) \in Seq(Twelve) /\ KYBER_Q \in Int
  BY CandidatesTyped DEF KYBER_Q
<1>2. s \in Seq(W)
  BY <1>1, BelowTyped
<1>3. W \subseteq Canonical
  <2>1. ASSUME NEW v \in Twelve, v < KYBER_Q PROVE v \in Canonical
    BY <2>1, SMT DEF Twelve, Canonical, KYBER_Q
  <2> QED BY <2>1
<1> HIDE DEF W, s
<1>4. s \in Seq(Canonical)
  BY <1>2, <1>3, SeqMonotonic
<1>5. AtMost(len, s) \in Seq(Canonical) /\ Len(AtMost(len, s)) <= len
  BY <1>4, AtMostTyped
<1> QED BY <1>4, <1>5 DEF RejUniform, s

(* The blocks of a step, and what the entry keeps of them. *)
LEMMA BlocksSampled ==
    ASSUME KemInv, SampleBlocks
    PROVE  \E n \in 1 .. 3 :
              entry' = [done |-> entry.done, blocks |-> entry.blocks + n,
                        kept |-> entry.kept \o RejUniform(KYBER_N - Len(entry.kept),
                                     FlattenSeq(Blocks(entry.blocks, n)))]
<1> DEFINE n == IF entry.blocks = 0 THEN GEN_MATRIX_NBLOCKS ELSE 1
           buf == FlattenSeq([b \in 1 .. n |-> Block0(entry.blocks + b)])
<1>1. entry' = [entry EXCEPT !.blocks = @ + n,
                             !.kept = @ \o RejUniform(KYBER_N - Len(@), buf)]
  BY Zenon DEF SampleBlocks
<1>2. n \in 1 .. 3
  BY DEF GEN_MATRIX_NBLOCKS
<1>3. buf = FlattenSeq(Blocks(entry.blocks, n))
  BY Zenon DEF Blocks
<1> HIDE DEF n, buf
<1> DEFINE r == RejUniform(KYBER_N - Len(entry.kept), buf)
<1>4. entry' = [entry EXCEPT !.blocks = entry.blocks + n, !.kept = entry.kept \o r]
  BY <1>1
<1> HIDE DEF r
<1>5. entry = [done |-> entry.done, blocks |-> entry.blocks, kept |-> entry.kept]
  BY DEF KemInv, Entries
<1>6. entry' = [done |-> entry.done, blocks |-> entry.blocks + n, kept |-> entry.kept \o r]
  BY <1>4, <1>5
<1> QED BY <1>2, <1>3, <1>6 DEF r

(* An entry of the matrix is given more candidates, and takes no more
   than it lacks. *)
LEMMA SampleBlocksKeeps == ASSUME KemInv, StreamsOfBytes, SampleBlocks PROVE KemInv'
<1>1. PICK i \in Nat : FlowAt(i)
  BY DEF KemInv, Flow
<1>2. /\ code # <<>> /\ Head(code)[1] \in {"gen_a", "gen_at"}
      /\ Len(entry.kept) < KYBER_N
  BY Zenon DEF SampleBlocks, At
<1>3. UNCHANGED <<code, mem, bound, peak, layer, seed, coins, nonce, drawn, keys>>
  BY Zenon DEF SampleBlocks
<1>4. PICK n \in 1 .. 3 :
              entry' = [done |-> entry.done, blocks |-> entry.blocks + n,
                        kept |-> entry.kept \o RejUniform(KYBER_N - Len(entry.kept),
                                     FlattenSeq(Blocks(entry.blocks, n)))]
  BY BlocksSampled
<1> DEFINE len == KYBER_N - Len(entry.kept)
           r == RejUniform(len, FlattenSeq(Blocks(entry.blocks, n)))
<1>5. /\ entry.done \in Seq([Coeffs -> Canonical]) /\ entry.blocks \in Nat
      /\ entry.kept \in Seq(Canonical) /\ Len(entry.kept) <= KYBER_N
      /\ Len(entry.done) <= KYBER_K * KYBER_K
  BY DEF KemInv, Entries, Canonical
<1>6. len \in Nat
  BY <1>2, <1>5 DEF KYBER_N
<1>7. r \in Seq(Canonical) /\ Len(r) <= len
  <2>1. PICK k \in Nat, m \in Nat : k = entry.blocks /\ m = n
    BY <1>5
  <2>2. FlattenSeq(Blocks(k, m)) \in Seq(Byte0)
    BY BlocksTyped
  <2> QED BY <1>6, <2>1, <2>2, RejTyped
<1> HIDE DEF r
<1>8. entry.kept \o r \in Seq(Canonical) /\ Len(entry.kept \o r) <= KYBER_N
  BY <1>5, <1>7 DEF KYBER_N
<1>9. entry' = [done |-> entry.done, blocks |-> entry.blocks + n, kept |-> entry.kept \o r]
  BY <1>4 DEF r
<1>10. Entries'
  BY <1>5, <1>8, <1>9 DEF Entries, Canonical
<1>11. Len(entry.done) < KYBER_K * KYBER_K
  <2>1. i = GenAt(Proc(step))
    BY <1>1, <1>2, AtPlace DEF Placed
  <2> QED BY <1>1, <2>1 DEF FlowAt, MatrixAt, GenAt
<1>12. Flow' /\ Vectors'
  <2>1. SameFlow /\ code' = code
    BY <1>3 DEF SameFlow, keys
  <2>2. Len(entry'.done) < KYBER_K * KYBER_K
    BY <1>9, <1>11
  <2> QED BY <1>1, <1>2, <2>1, <2>2, Filling DEF KemInv
<1>13. Bytes'
  <2>1. Head(code)[1] \notin Endings /\ UNCHANGED keys /\ code' = code
    BY <1>2, <1>3 DEF Endings
  <2> QED BY <1>1, <1>2, <2>1, BytesKept DEF KemInv
<1> QED BY <1>10, <1>12, <1>13 DEF KemInv

(* An entry that is full is a polynomial, and the next one starts afresh.
   After the ninth the procedure goes on. *)
LEMMA EntryDoneKeeps ==
    ASSUME KemInv, EntryDone
    PROVE  KemInv' /\ entry'.blocks = 0 /\ entry'.kept = <<>>
<1>1. PICK i \in Nat : FlowAt(i)
  BY DEF KemInv, Flow
<1>2. /\ code # <<>> /\ Head(code)[1] \in {"gen_a", "gen_at"}
      /\ Len(entry.kept) = KYBER_N
  BY Zenon DEF EntryDone, At
<1> DEFINE p == [j \in Coeffs |-> entry.kept[j + 1]]
           done == Append(entry.done, p)
<1>3. /\ entry' = [NoEntry EXCEPT !.done = done]
      /\ code' = IF Len(done) = KYBER_K * KYBER_K THEN Tail(code) ELSE code
      /\ UNCHANGED <<mem, bound, peak, layer, seed, coins, nonce, drawn, keys>>
  BY Zenon DEF EntryDone
<1>5. /\ entry.done \in Seq([Coeffs -> Canonical]) /\ entry.kept \in Seq(Canonical)
  BY DEF KemInv, Entries, Canonical
<1>6. p \in [Coeffs -> Canonical]
  <2>1. ASSUME NEW j \in Coeffs PROVE entry.kept[j + 1] \in Canonical
    <3>1. j + 1 \in 1 .. Len(entry.kept)
      BY <1>2 DEF Coeffs, KYBER_N
    <3> QED BY <1>5, <3>1, ElementOfSeq
  <2> QED BY <2>1
<1> HIDE DEF p
<1>7. done \in Seq([Coeffs -> Canonical]) /\ Len(done) = Len(entry.done) + 1
  BY <1>5, <1>6
<1> HIDE DEF done
<1>8. entry' = [done |-> done, blocks |-> 0, kept |-> <<>>]
  BY <1>3 DEF NoEntry
<1>9. i = GenAt(Proc(step))
  BY <1>1, <1>2, AtPlace DEF Placed
<1>10. Len(entry.done) < KYBER_K * KYBER_K /\ Len(entry.done) \in Nat
  BY <1>1, <1>5, <1>9 DEF FlowAt, MatrixAt, GenAt
<1>11. Entries'
  <2>1. Len(done) <= KYBER_K * KYBER_K
    BY <1>7, <1>10 DEF KYBER_K
  <2> QED BY <1>7, <1>8, <2>1 DEF Entries, Canonical, KYBER_N
<1>12. SameFlow
  BY <1>3 DEF SameFlow, keys
<1>13. Vectors
  BY DEF KemInv
<1>14. Flow' /\ Vectors'
  <2>1. CASE Len(done) = KYBER_K * KYBER_K
    <3>1. code' = Tail(code) /\ Head(code)[1] \in Silent
      BY <1>2, <1>3, <2>1 DEF Silent
    <3>2. entry'.blocks = 0 /\ entry'.kept = <<>> /\ Len(entry'.done) = KYBER_K * KYBER_K
      BY <1>8, <2>1
    <3> QED BY <1>1, <1>2, <1>9, <1>12, <1>13, <3>1, <3>2, Noted
  <2>2. CASE Len(done) # KYBER_K * KYBER_K
    <3>1. code' = code
      BY <1>3, <2>2
    <3>2. Len(entry'.done) < KYBER_K * KYBER_K
      BY <1>7, <1>8, <1>10, <2>2 DEF KYBER_K
    <3> QED BY <1>1, <1>2, <1>12, <1>13, <3>1, <3>2, Filling
  <2> QED BY <2>1, <2>2
<1>15. Bytes'
  <2>1. Head(code)[1] \notin Endings /\ UNCHANGED keys
    BY <1>2, <1>3 DEF Endings
  <2>2. code' = code \/ code' = Tail(code)
    BY <1>3
  <2> QED BY <1>1, <1>2, <2>1, <2>2, BytesKept DEF KemInv
<1> QED BY <1>8, <1>11, <1>14, <1>15 DEF KemInv

(* The last statement of a procedure: nothing is left of it, and it was not
   over before. *)
LEMMA Returns ==
    ASSUME NEW i \in Nat, FlowAt(i), code # <<>>, Head(code)[1] \in Endings
    PROVE  /\ Tail(code) = <<>> /\ step # "done"
           /\ i # GenAt(Proc(step)) /\ Head(code)[1] \in Silent
<1> DEFINE p == Proc(step)
           S == {Prog(p)[n] : n \in 1 .. Final(p)}
<1>1. /\ p \in Procedures /\ i \in 1 .. Final(p) /\ Final(p) \in Nat
      /\ Tail(code) = SubSeq(Prog(p), i + 1, Final(p))
      /\ Placed(p, i, Head(code)[1], X, Y, Z)
  BY AtPlace, LastNat
<1>2. i = Final(p) /\ i # GenAt(p) /\ Head(code)[1] \in Silent
  BY <1>1 DEF Placed, Endings, Silent
<1>3. Prog(p) \in Seq(S) /\ Len(Prog(p)) = Final(p)
  BY <1>1, ProgTyped
<1>4. step # "done"
  BY <1>1, <1>2 DEF FlowAt, PlaceAt, p
<1> HIDE DEF S, p
<1>5. SubSeq(Prog(p), i + 1, Len(Prog(p))) = <<>>
  BY <1>1, <1>2, <1>3, RestOf
<1> QED BY <1>1, <1>2, <1>3, <1>4, <1>5 DEF p

(* The keys are bytes. *)
LEMMA PackKeysKeeps == ASSUME KemInv, PackKeys PROVE KemInv'
<1>1. PICK i \in Nat : FlowAt(i)
  BY DEF KemInv, Flow
<1>2. At("pack_keys") /\ ~At("ntt") /\ ~At("invntt")
  BY DEF PackKeys, At
<1>3. /\ code # <<>> /\ Head(code)[1] = "pack_keys"
      /\ Placed(Proc(step), i, "pack_keys", X, Y, Z)
  BY <1>1, <1>2, Standing
<1> DEFINE a == PolyvecToBytes(mem["pkpv"])
           b == PolyvecToBytes(mem["skpv"])
           p == [bytes |-> a, seed |-> seed]
<1>4. /\ pk' = p /\ sk' = [sk EXCEPT !.bytes = b, !.pk = p, !.h = HashH(p)]
      /\ code' = Tail(code)
      /\ UNCHANGED <<mem, bound, peak, layer, sampling,
                     step, msg, kr, out, sent, ct, ssA, ssB>>
  BY Zenon DEF PackKeys, Done
<1>5. /\ Proc(step) = "keypair" /\ "pkpv" \in Names /\ "skpv" \in Names
      /\ First(Proc(step), "pkpv") < i /\ First(Proc(step), "skpv") < i
  BY <1>3 DEF Placed
<1>6. step = "keypair"
  BY <1>5 DEF Proc
<1>7. /\ bound["pkpv"] \in Nat /\ Fits(mem["pkpv"], Size("pkpv"), bound["pkpv"])
      /\ bound["skpv"] \in Nat /\ Fits(mem["skpv"], Size("skpv"), bound["skpv"])
  BY <1>1, <1>2, <1>5, Ready
<1>8. Ints(a, 1152) /\ Ints(b, 1152)
  <2>1. Size("pkpv") = KYBER_K /\ Size("skpv") = KYBER_K
    BY DEF Size
  <2>2. PICK x \in Nat, y \in Nat : x = bound["pkpv"] /\ y = bound["skpv"]
    BY <1>7
  <2>3. /\ \A k \in 1 .. KYBER_K : Bounded(mem["pkpv"][k], x)
        /\ \A k \in 1 .. KYBER_K : Bounded(mem["skpv"][k], y)
    BY <1>7, <2>1, <2>2 DEF Fits
  <2> QED BY <2>3, ToBytesInts
<1> HIDE DEF a, b
<1>9. Head(code)[1] \in Endings
  BY <1>3 DEF Endings
<1>10. /\ Tail(code) = <<>> /\ i # GenAt(Proc(step)) /\ Head(code)[1] \in Silent
  BY <1>1, <1>3, <1>9, Returns
<1>11. SameFlow /\ entry' = entry
  BY <1>4 DEF SameFlow, sampling
<1>12. Vectors /\ Entries /\ Bytes
  BY DEF KemInv
<1>13. Flow' /\ Vectors'
  BY <1>1, <1>3, <1>4, <1>10, <1>11, <1>12, Noted
<1>14. Entries'
  BY <1>11, <1>12 DEF Entries
<1>15. Bytes'
  <2>1. DOMAIN sk' = {"bytes", "pk", "h", "z"} /\ sk'.bytes = b /\ sk'.pk = p
    BY <1>4, <1>12 DEF Bytes
  <2>2. pk'.bytes = a /\ sk'.pk.bytes = a /\ step' = "keypair"
    BY <1>4, <1>6, <2>1
  <2> QED BY <1>8, <2>1, <2>2 DEF Bytes
<1> QED BY <1>13, <1>14, <1>15 DEF KemInv

(* The ciphertext has its length, and is made of bytes. *)
LEMMA PackCiphertextKeeps == ASSUME KemInv, PackCiphertext PROVE KemInv'
<1>1. PICK i \in Nat : FlowAt(i)
  BY DEF KemInv, Flow
<1>2. At("pack_ciphertext") /\ ~At("ntt") /\ ~At("invntt")
  BY DEF PackCiphertext, At
<1>3. /\ code # <<>> /\ Head(code)[1] = "pack_ciphertext"
      /\ Placed(Proc(step), i, "pack_ciphertext", X, Y, Z)
  BY <1>1, <1>2, Standing
<1>4. /\ out' = PackCt(PolyvecCompress(mem["b"]), PolyCompress(mem["v"][1]))
      /\ code' = Tail(code)
      /\ UNCHANGED <<mem, bound, peak, layer, sampling,
                     step, msg, kr, pk, sk, sent, ct, ssA, ssB>>
  BY Zenon DEF PackCiphertext, Done
<1>5. /\ Proc(step) = "enc" /\ "b" \in Names /\ "v" \in Names
      /\ First(Proc(step), "b") < i /\ First(Proc(step), "v") < i
  BY <1>3 DEF Placed
<1>7. /\ bound["b"] \in Nat /\ Fits(mem["b"], Size("b"), bound["b"])
      /\ bound["v"] \in Nat /\ Fits(mem["v"], Size("v"), bound["v"])
  BY <1>1, <1>2, <1>5, Ready
<1>8. DOMAIN out' = 0 .. 1087 /\ Ints(out', 1088)
  <2>1. Size("b") = KYBER_K /\ Size("v") = 1
    BY DEF Size
  <2>2. (\A k \in 1 .. KYBER_K : Bounded(mem["b"][k], bound["b"]))
        /\ Bounded(mem["v"][1], bound["v"])
    BY <1>7, <2>1 DEF Fits
  <2>3. PICK x \in Nat, y \in Nat : x = bound["b"] /\ y = bound["v"]
    BY <1>7
  <2>4. (\A k \in 1 .. KYBER_K : Bounded(mem["b"][k], x)) /\ Bounded(mem["v"][1], y)
    BY <2>2, <2>3
  <2>5. LET o == PackCt(PolyvecCompress(mem["b"]), PolyCompress(mem["v"][1]))
        IN  DOMAIN o = 0 .. 1087 /\ Ints(o, 1088)
    BY <2>4, CompressedInts
  <2> QED BY <1>4, <2>5
<1>9. Head(code)[1] \in Endings
  BY <1>3 DEF Endings
<1>10. /\ Tail(code) = <<>> /\ i # GenAt(Proc(step)) /\ Head(code)[1] \in Silent
       /\ step # "done"
  BY <1>1, <1>3, <1>9, Returns
<1>11. SameFlow /\ entry' = entry
  BY <1>4 DEF SameFlow, sampling
<1>12. Vectors /\ Entries /\ Bytes
  BY DEF KemInv
<1>13. Flow' /\ Vectors'
  BY <1>1, <1>3, <1>4, <1>10, <1>11, <1>12, Noted
<1>14. Entries'
  BY <1>11, <1>12 DEF Entries
<1>15. Bytes'
  <2>1. step \notin {"keypair", "dec"}
    BY <1>5 DEF Proc
  <2> QED BY <1>4, <1>8, <1>12, <2>1 DEF Bytes
<1> QED BY <1>13, <1>14, <1>15 DEF KemInv

(* A message is made of bits. *)
LEMMA ToMsgBitIs == ASSUME NEW t \in Int PROVE ToMsgBit(t) \in {0, 1}
<1>1. 2^28 = 268435456
  BY SMT
<1>2. ((2 * t + 1665) * 80635) \div 268435456 \in Int
  BY SMT
<1> DEFINE u == ((2 * t + 1665) * 80635) \div 268435456
<1>3. ToMsgBit(t) = u % 2
  BY <1>1 DEF ToMsgBit
<1> HIDE DEF u
<1> QED BY <1>2, <1>3 DEF u

(* The decrypted message is made of bits, whatever was decrypted. *)
LEMMA ToMsgKeeps == ASSUME KemInv, ToMsg PROVE KemInv'
<1>1. PICK i \in Nat : FlowAt(i)
  BY DEF KemInv, Flow
<1>2. At("tomsg") /\ ~At("ntt") /\ ~At("invntt")
  BY DEF ToMsg, At
<1>3. /\ code # <<>> /\ Head(code)[1] = "tomsg"
      /\ Placed(Proc(step), i, "tomsg", X, Y, Z)
  BY <1>1, <1>2, Standing
<1>4. /\ msg' = [j \in Coeffs |-> ToMsgBit(mem["mp"][1][j])]
      /\ code' = Tail(code)
      /\ UNCHANGED <<mem, bound, peak, layer, sampling,
                     step, kr, pk, sk, out, sent, ct, ssA, ssB>>
  BY Zenon DEF ToMsg, Done
<1>5. /\ Proc(step) = "dec" /\ "mp" \in Names /\ First(Proc(step), "mp") < i
  BY <1>3 DEF Placed
<1>6. step = "dec"
  BY <1>5 DEF Proc
<1>7. bound["mp"] \in Nat /\ Fits(mem["mp"], Size("mp"), bound["mp"])
  BY <1>1, <1>2, <1>5, Ready
<1>8. \A j \in Coeffs : msg'[j] \in {0, 1}
  <2>1. Bounded(mem["mp"][1], bound["mp"])
    BY <1>7 DEF Fits, Size
  <2>2. \A j \in Coeffs : mem["mp"][1][j] \in Int
    BY <2>1 DEF Bounded, Within
  <2> QED BY <1>4, <2>2, ToMsgBitIs
<1>9. Head(code)[1] \in Endings
  BY <1>3 DEF Endings
<1>10. /\ Tail(code) = <<>> /\ i # GenAt(Proc(step)) /\ Head(code)[1] \in Silent
  BY <1>1, <1>3, <1>9, Returns
<1>11. SameFlow /\ entry' = entry
  BY <1>4 DEF SameFlow, sampling
<1>12. Vectors /\ Entries /\ Bytes
  BY DEF KemInv
<1>13. Flow' /\ Vectors'
  BY <1>1, <1>3, <1>4, <1>10, <1>11, <1>12, Noted
<1>14. Entries'
  BY <1>11, <1>12 DEF Entries
<1>15. Bytes'
  BY <1>4, <1>6, <1>8, <1>12 DEF Bytes
<1> QED BY <1>13, <1>14, <1>15 DEF KemInv

-----------------------------------------------------------------------------
(* The calls of kem.c. *)

(* A call starts with an empty matrix. *)
LEMMA CallEntries ==
    ASSUME NEW p, NEW s, NEW c, Call(p, s, c)
    PROVE  Entries' /\ entry'.blocks = 0 /\ entry'.kept = <<>>
BY DEF Call, NoEntry, Entries, KYBER_N, KYBER_K

(* crypto_kem_enc calls a procedure with fresh locals. *)
LEMMA EncapsulateKeeps ==
    ASSUME KemInv, Encapsulate
    PROVE  KemInv' /\ entry'.blocks = 0 /\ entry'.kept = <<>>
<1>1. PICK m \in Messages : msg' = m /\ Call(IndcpaEnc, <<>>, HashG(m, HashH(pk)).coins)
  BY Zenon DEF Encapsulate
<1>2. step = "keypair" /\ code = <<>> /\ step' = "enc" /\ UNCHANGED <<pk, sk, out, sent, ct>>
  BY Zenon DEF Encapsulate
<1>3. Proc(step') = "enc" /\ Prog(Proc(step')) = IndcpaEnc /\ step' \in Steps \ {"done"}
  BY <1>2 DEF Proc, Prog, Steps
<1>4. Flow' /\ Vectors' /\ code' # <<>>
  BY <1>1, <1>3, Started
<1>5. Entries' /\ entry'.blocks = 0 /\ entry'.kept = <<>>
  BY <1>1, CallEntries
<1>6. Bytes'
  <2>1. \A j \in Coeffs : m[j] \in {0, 1}
    BY KemAssumption
  <2> QED BY <1>1, <1>2, <1>4, <2>1 DEF Bytes, KemInv
<1> QED BY <1>4, <1>5, <1>6 DEF KemInv

(* A changed ciphertext is still one of bytes. *)
LEMMA TransmitKeeps ==
    ASSUME KemInv, Transmit
    PROVE  KemInv' /\ entry'.blocks = 0 /\ entry'.kept = <<>>
<1>1. /\ step = "enc" /\ code = <<>> /\ step' = "dec" /\ UNCHANGED <<pk, sk>>
      /\ Call(IndcpaDec, <<>>, <<>>)
  BY Zenon DEF Transmit
<1>2. PICK c \in Changes : ct' = [out EXCEPT ![c.at] = (@ + c.add) % 256]
  BY Zenon DEF Transmit
<1>3. Proc(step') = "dec" /\ Prog(Proc(step')) = IndcpaDec /\ step' \in Steps \ {"done"}
  BY <1>1 DEF Proc, Prog, Steps
<1>4. Flow' /\ Vectors' /\ code' # <<>>
  BY <1>1, <1>3, Started
<1>5. Entries' /\ entry'.blocks = 0 /\ entry'.kept = <<>>
  BY <1>1, CallEntries
<1>6. Ints(ct', 1088)
  <2>1. DOMAIN out = 0 .. 1087 /\ Ints(out, 1088)
    BY <1>1 DEF KemInv, Bytes
  <2>2. c.add \in Int /\ c.at \in 0 .. 1087
    BY KemAssumption
  <2>3. ASSUME NEW k \in Nat, k < 1088 PROVE ct'[k] \in Int
    <3>1. k \in 0 .. 1087 /\ out[k] \in Int
      BY <2>1, <2>3 DEF Ints
    <3>2. (out[k] + c.add) % 256 \in Int
      BY <2>2, <3>1
    <3>3. ct'[k] = IF k = c.at THEN (out[k] + c.add) % 256 ELSE out[k]
      <4>1. PICK a : a = (out[c.at] + c.add) % 256
        OBVIOUS
      <4>2. ct' = [out EXCEPT ![c.at] = a]
        BY <1>2, <4>1, Zenon
      <4>3. ct'[k] = IF k = c.at THEN a ELSE out[k]
        BY <2>1, <3>1, <4>2, SMTT(40)
      <4>4. k = c.at => a = (out[k] + c.add) % 256
        BY <4>1, Zenon
      <4> QED BY <4>3, <4>4, Zenon
    <3> QED BY <3>1, <3>2, <3>3
  <2> QED BY <2>3 DEF Ints
<1>7. Bytes'
  BY <1>1, <1>4, <1>6 DEF Bytes, KemInv
<1> QED BY <1>4, <1>5, <1>7 DEF KemInv

(* crypto_kem_dec encrypts what it decrypted. *)
LEMMA ReencryptKeeps ==
    ASSUME KemInv, Reencrypt
    PROVE  KemInv' /\ entry'.blocks = 0 /\ entry'.kept = <<>>
<1>1. /\ step = "dec" /\ code = <<>> /\ step' = "reenc" /\ UNCHANGED <<msg, pk, sk, ct>>
      /\ Call(IndcpaEnc, <<>>, HashG(msg, sk.h).coins)
  BY Zenon DEF Reencrypt
<1>3. Proc(step') = "enc" /\ Prog(Proc(step')) = IndcpaEnc /\ step' \in Steps \ {"done"}
  BY <1>1 DEF Proc, Prog, Steps
<1>4. Flow' /\ Vectors' /\ code' # <<>>
  BY <1>1, <1>3, Started
<1>5. Entries' /\ entry'.blocks = 0 /\ entry'.kept = <<>>
  BY <1>1, CallEntries
<1>6. Bytes'
  BY <1>1, <1>4 DEF Bytes, KemInv
<1> QED BY <1>4, <1>5, <1>6 DEF KemInv

(* A procedure that is over has no entry under way. *)
LEMMA NothingUnderWay ==
    ASSUME NEW i \in Nat, FlowAt(i), code = <<>>
    PROVE  entry.blocks = 0 /\ entry.kept = <<>>
<1>1. i = Final(Proc(step)) + 1
  BY AtEnd
<1>2. i # GenAt(Proc(step))
  BY <1>1 DEF Final, GenAt, Proc
<1> QED BY <1>2 DEF FlowAt, MatrixAt

(* The comparison and the copy change neither vectors nor keys. *)
LEMMA DecapsulatedKeeps == ASSUME KemInv, Decapsulated PROVE KemInv'
<1>1. PICK i \in Nat : FlowAt(i)
  BY DEF KemInv, Flow
<1>2. /\ step = "reenc" /\ code = <<>> /\ step' = "done"
      /\ UNCHANGED <<code, mem, bound, peak, layer, sampling,
                     msg, kr, pk, sk, out, sent, ct, ssA>>
  BY Zenon DEF Decapsulated
<1>3. Proc(step) = "enc" /\ Proc(step') = "enc"
  BY <1>2 DEF Proc
<1>4. i = Final("enc") + 1
  BY <1>1, <1>2, <1>3, AtEnd
<1>5. UNCHANGED <<code, mem, bound, peak, layer, nonce, drawn, entry, msg, pk, sk, out, ct>>
  BY <1>2 DEF sampling
<1>6. PlaceAt(i)' /\ Layers'
  BY <1>1, <1>2, <1>3, <1>4, <1>5 DEF FlowAt, PlaceAt, Layers, Steps, At
<1>7. RoomsAt(i)'
  <2>1. Proc(step') = Proc(step)
    BY <1>3
  <2>2. \A x \in Names : Extra(x)' = Extra(x)
    BY <1>5 DEF Extra, X, At
  <2> QED BY <1>1, <1>5, <2>1, <2>2 DEF FlowAt, RoomsAt
<1>8. NoisesAt(i)' /\ MatrixAt(i)'
  BY <1>1, <1>3, <1>5 DEF FlowAt, NoisesAt, MatrixAt
<1>9. Flow' /\ Vectors' /\ Entries'
  BY <1>5, <1>6, <1>7, <1>8 DEF Flow, FlowAt, Vectors, Entries, KemInv
<1>10. Bytes'
  BY <1>2, <1>5 DEF Bytes, KemInv
<1> QED BY <1>9, <1>10 DEF KemInv

(* The invariant holds at the start. *)
LEMMA InitKeeps == ASSUME Init PROVE KemInv /\ entry.blocks = 0 /\ entry.kept = <<>>
<1>1. /\ step = "keypair" /\ code = IndcpaKeypair
      /\ mem = [x \in Names |-> <<>>] /\ bound = [x \in Names |-> 0]
      /\ peak = 0 /\ layer = 0 /\ nonce = 0 /\ drawn = <<>> /\ entry = NoEntry
  BY DEF Init
<1>2. Proc(step) = "keypair" /\ Prog("keypair") = IndcpaKeypair /\ "keypair" \in Procedures
      /\ Final("keypair") = 10
  BY <1>1 DEF Proc, Prog, Procedures, Final
<1>3. code = SubSeq(Prog("keypair"), 1, Final("keypair")) /\ code # <<>>
  <2>1. Prog("keypair") # <<>>
    BY <1>2 DEF IndcpaKeypair
  <2> QED BY <1>1, <1>2, <2>1, AtStart
<1>4. PlaceAt(1) /\ Layers
  BY <1>1, <1>2, <1>3 DEF PlaceAt, Layers, Steps
<1>5. RoomsAt(1)
  <2>1. ASSUME NEW x \in Names
        PROVE  0 <= Room("keypair", 1, x) + 0 /\ ~(First("keypair", x) < 1)
    BY DEF Room, First, Half
  <2>2. \A x \in Names : Extra(x) = 0 /\ bound[x] = 0
    BY <1>1 DEF Extra
  <2> QED BY <1>2, <2>1, <2>2 DEF RoomsAt
<1>6. NoisesAt(1)
  <2>1. NonceAt("keypair", 1) = 0 /\ FirstNonces(0) = <<>>
    BY DEF NonceAt, FirstNonces
  <2> QED BY <1>1, <1>2, <2>1 DEF NoisesAt
<1>7. MatrixAt(1)
  BY <1>1 DEF MatrixAt, GenAt, NoEntry, KYBER_K
<1>8. Vectors
  <2>1. \A x \in Names : DOMAIN mem[x] = {}
    BY <1>1
  <2>2. \A x \in Names : \A n \in DOMAIN mem[x] : Bounded(mem[x][n], bound[x])
    BY <2>1
  <2> QED BY <1>1, <2>2 DEF Vectors
<1>9. Entries /\ entry.blocks = 0 /\ entry.kept = <<>>
  BY <1>1 DEF Entries, NoEntry, KYBER_N, KYBER_K
<1>10. Bytes
  <2>1. DOMAIN sk = {"bytes", "pk", "h", "z"}
    BY DEF Init
  <2> QED BY <1>1, <1>3, <2>1 DEF Bytes
<1> QED BY <1>4, <1>5, <1>6, <1>7, <1>8, <1>9, <1>10 DEF KemInv, Flow, FlowAt

(* Nothing of the matrix entry that is next has been sampled. *)
Untouched == entry.blocks = 0 /\ entry.kept = <<>>

(* The statements but those that sample the matrix. *)
Others ==
    \/ GetNoise \/ Ntt \/ InvNtt \/ Matrix \/ Dot \/ ToMont \/ Add \/ Sub \/ Reduce
    \/ PackKeys \/ UnpackPk \/ UnpackSk \/ FromMsg
    \/ PackCiphertext \/ UnpackB \/ UnpackV \/ ToMsg

(* They leave it alone. *)
LEMMA OthersLeaveEntry ==
    ASSUME KemInv, Others
    PROVE  code # <<>> /\ Head(code)[1] \notin {"gen_a", "gen_at"} /\ entry' = entry
<1> DEFINE G == code # <<>> /\ Head(code)[1] \notin {"gen_a", "gen_at"} /\ entry' = entry
<1>1. CASE GetNoise
  BY <1>1 DEF GetNoise, At
<1>2. CASE Ntt \/ InvNtt \/ Matrix \/ Dot \/ ToMont
  BY <1>2 DEF Ntt, InvNtt, Matrix, Dot, ToMont, At, sampling
<1>3. CASE Add \/ Sub \/ Reduce
  BY <1>3 DEF Add, Sub, Reduce, At, sampling
<1>5. CASE UnpackSk \/ FromMsg
  BY <1>5 DEF UnpackSk, FromMsg, At, sampling
<1>6. CASE UnpackB
  BY <1>6, Zenon DEF UnpackB, At, sampling
<1>7. CASE UnpackV
  BY <1>7, Zenon DEF UnpackV, At, sampling
<1>4. CASE PackKeys \/ PackCiphertext \/ ToMsg \/ UnpackPk
  BY <1>4 DEF PackKeys, PackCiphertext, ToMsg, UnpackPk, At, sampling
<1> QED BY <1>1, <1>2, <1>3, <1>4, <1>5, <1>6, <1>7 DEF Others

(* Every other statement keeps the invariant, and is taken only while no
   entry is under way. *)
LEMMA OthersKeep ==
    ASSUME KemInv, StreamsOfBytes, Others
    PROVE  KemInv' /\ Untouched'
<1>1. KemInv'
  BY GetNoiseKeeps, NttKeeps, InvNttKeeps, MatrixKeeps, DotKeeps, ToMontKeeps,
     AddKeeps, SubKeeps, ReduceKeeps, PackKeysKeeps, UnpackPkKeeps, UnpackSkKeeps,
     FromMsgKeeps, PackCiphertextKeeps, UnpackBKeeps, UnpackVKeeps, ToMsgKeeps
     DEF Others
<1>2. PICK i \in Nat : FlowAt(i)
  BY DEF KemInv, Flow
<1>3. code # <<>> /\ Head(code)[1] \notin {"gen_a", "gen_at"} /\ entry' = entry
  BY OthersLeaveEntry
<1>4. i # GenAt(Proc(step))
  BY <1>2, <1>3, AtPlace DEF Placed
<1>5. Untouched
  BY <1>2, <1>4 DEF FlowAt, MatrixAt, Untouched
<1> QED BY <1>1, <1>3, <1>5 DEF Untouched

(* Every step keeps the invariant, and only a block is kept of an entry. *)
LEMMA StepKeeps ==
    ASSUME KemInv, StreamsOfBytes, Next
    PROVE  KemInv' /\ (SampleBlocks \/ Untouched')
<1>1. CASE SampleBlocks
  BY <1>1, SampleBlocksKeeps
<1>2. CASE EntryDone
  BY <1>2, EntryDoneKeeps DEF Untouched
<1>3. CASE Others
  BY <1>3, OthersKeep
<1>4. CASE Encapsulate
  BY <1>4, EncapsulateKeeps DEF Untouched
<1>5. CASE Transmit
  BY <1>5, TransmitKeeps DEF Untouched
<1>6. CASE Reencrypt
  BY <1>6, ReencryptKeeps DEF Untouched
<1>7. CASE Decapsulated
  <2>1. KemInv'
    BY <1>7, DecapsulatedKeeps
  <2>2. PICK i \in Nat : FlowAt(i)
    BY DEF KemInv, Flow
  <2>3. code = <<>> /\ entry' = entry
    BY <1>7, Zenon DEF Decapsulated, sampling
  <2> QED BY <2>1, <2>2, <2>3, NothingUnderWay DEF Untouched
<1> QED BY <1>1, <1>2, <1>3, <1>4, <1>5, <1>6, <1>7 DEF Next, Statement, Others

(* So does a step in which nothing changes. *)
LEMMA StutterKeeps == ASSUME KemInv, UNCHANGED vars PROVE KemInv'
<1>1. UNCHANGED <<code, mem, bound, peak, layer, nonce, drawn, entry,
                  step, msg, pk, sk, out, ct>>
  BY DEF vars, sampling, keys
<1>2. Flow'
  <2>1. PICK i \in Nat : FlowAt(i)
    BY DEF KemInv, Flow
  <2>2. PlaceAt(i)' /\ Layers' /\ NoisesAt(i)' /\ MatrixAt(i)'
    BY <1>1, <2>1 DEF FlowAt, PlaceAt, Layers, NoisesAt, MatrixAt, At
  <2>3. RoomsAt(i)'
    BY <1>1, <2>1 DEF FlowAt, RoomsAt, Extra, At, X
  <2> QED BY <2>2, <2>3 DEF Flow, FlowAt
<1>3. Vectors' /\ Entries' /\ Bytes'
  BY <1>1 DEF KemInv, Vectors, Entries, Bytes
<1> QED BY <1>2, <1>3 DEF KemInv

(* The invariant holds in every reachable state. *)
LEMMA KemAlways == ASSUME StreamsOfBytes PROVE Spec => []KemInv
<1>1. Init => KemInv
  BY InitKeeps
<1>2. KemInv /\ [Next]_vars => KemInv'
  BY StepKeeps, StutterKeeps
<1> QED BY <1>1, <1>2, PTL DEF Spec

-----------------------------------------------------------------------------
(* What the invariant says of overflow and of nonces. *)

(* In the invariant nothing overflows, and what is packed is reduced. *)
LEMMA InvFits == ASSUME KemInv PROVE WorstCaseFits
<1>1. NoOverflow
  <2>1. ASSUME NEW x \in Names, NEW i \in DOMAIN mem[x], NEW j \in Coeffs
        PROVE  mem[x][i][j] \in -bound[x] .. bound[x]
    <3>1. bound[x] \in Nat /\ Bounded(mem[x][i], bound[x])
      BY DEF KemInv, Vectors
    <3>2. mem[x][i][j] \in Int /\ Within(mem[x][i][j], bound[x])
      BY <3>1 DEF Bounded, Within
    <3> QED BY <3>1, <3>2 DEF Within
  <2>2. peak <= 32767
    BY DEF KemInv, Vectors
  <2> QED BY <2>1, <2>2 DEF NoOverflow
<1>2. PICK i \in Nat : FlowAt(i)
  BY DEF KemInv, Flow
<1>3. ASSUME NEW op, At(op), ~At("ntt"), ~At("invntt"), NEW x \in Names,
             First(Proc(step), x) < i, NEW r \in Int, Room(Proc(step), i, x) <= r
      PROVE  bound[x] <= r
  <2>1. bound[x] \in Nat /\ bound[x] <= Room(Proc(step), i, x)
        /\ Room(Proc(step), i, x) \in Nat
    BY <1>2, <1>3, Ready
  <2> QED BY <1>3, <2>1
<1>4. ASSUME At("pack_keys") PROVE bound["pkpv"] < KYBER_Q /\ bound["skpv"] < KYBER_Q
  <2>1. Placed(Proc(step), i, "pack_keys", X, Y, Z)
    BY <1>2, <1>4, Standing
  <2>2. /\ "pkpv" \in Names /\ "skpv" \in Names
        /\ First(Proc(step), "pkpv") < i /\ First(Proc(step), "skpv") < i
        /\ Room(Proc(step), i, "pkpv") < KYBER_Q /\ Room(Proc(step), i, "skpv") < KYBER_Q
    BY <2>1 DEF Placed
  <2>3. ~At("ntt") /\ ~At("invntt")
    BY <1>4 DEF At
  <2>4. /\ bound["pkpv"] \in Nat /\ bound["pkpv"] <= Room(Proc(step), i, "pkpv")
        /\ bound["skpv"] \in Nat /\ bound["skpv"] <= Room(Proc(step), i, "skpv")
        /\ Room(Proc(step), i, "pkpv") \in Nat /\ Room(Proc(step), i, "skpv") \in Nat
    BY <1>2, <2>2, <2>3, Ready
  <2> QED BY <2>2, <2>4 DEF KYBER_Q
<1>5. ASSUME At("pack_ciphertext") PROVE bound["b"] < KYBER_Q /\ bound["v"] < KYBER_Q
  <2>1. Placed(Proc(step), i, "pack_ciphertext", X, Y, Z)
    BY <1>2, <1>5, Standing
  <2>2. /\ "b" \in Names /\ "v" \in Names
        /\ First(Proc(step), "b") < i /\ First(Proc(step), "v") < i
        /\ Room(Proc(step), i, "b") < KYBER_Q /\ Room(Proc(step), i, "v") < KYBER_Q
    BY <2>1 DEF Placed
  <2>3. ~At("ntt") /\ ~At("invntt")
    BY <1>5 DEF At
  <2>4. /\ bound["b"] \in Nat /\ bound["b"] <= Room(Proc(step), i, "b")
        /\ bound["v"] \in Nat /\ bound["v"] <= Room(Proc(step), i, "v")
        /\ Room(Proc(step), i, "b") \in Nat /\ Room(Proc(step), i, "v") \in Nat
    BY <1>2, <2>2, <2>3, Ready
  <2> QED BY <2>2, <2>4 DEF KYBER_Q
<1>6. ASSUME At("tomsg") PROVE bound["mp"] <= Half
  <2>1. Placed(Proc(step), i, "tomsg", X, Y, Z)
    BY <1>2, <1>6, Standing
  <2>2. /\ "mp" \in Names /\ First(Proc(step), "mp") < i
        /\ Room(Proc(step), i, "mp") <= Half
    BY <2>1 DEF Placed
  <2>3. ~At("ntt") /\ ~At("invntt")
    BY <1>6 DEF At
  <2>4. /\ bound["mp"] \in Nat /\ bound["mp"] <= Room(Proc(step), i, "mp")
        /\ Room(Proc(step), i, "mp") \in Nat
    BY <1>2, <2>2, <2>3, Ready
  <2> QED BY <2>2, <2>4 DEF Half
<1> QED BY <1>1, <1>4, <1>5, <1>6 DEF WorstCaseFits, PacksReduced

(* In the invariant the nonces are counted up from zero. *)
LEMMA InvFresh == ASSUME KemInv PROVE NoncesFresh
<1>1. PICK i \in Nat : FlowAt(i)
  BY DEF KemInv, Flow
<1>2. nonce \in Nat /\ drawn = FirstNonces(nonce)
  BY <1>1 DEF FlowAt, NoisesAt, NonceAt
<1> QED BY <1>2 DEF NoncesFresh, FirstNonces

-----------------------------------------------------------------------------
(* What is kept of an entry, at any block. *)

(* What k blocks of its stream give an entry. *)
Sampled(k) == AtMost(KYBER_N, Below(Candidates(FlattenSeq(Blocks(0, k))), KYBER_Q))

(* That is what is kept, at any block. *)
SampledFull == entry.kept = Sampled(entry.blocks)

(* Nothing is kept of no blocks. *)
LEMMA SampledNone == Sampled(0) = <<>>
<1>1. Blocks(0, 0) = <<>>
  BY DEF Blocks
<1>2. <<>> \in Seq(Byte0) /\ Len(<<>>) = 0
  OBVIOUS
<1>3. Candidates(<<>>) \in Seq(Twelve) /\ Len(Candidates(<<>>)) = 0
  <2>1. PICK s \in Seq(Byte0) : s = <<>>
    BY <1>2
  <2>2. Candidates(s) \in Seq(Twelve) /\ Len(Candidates(s)) = 2 * (Len(s) \div 3)
    BY CandidatesTyped
  <2> QED BY <2>1, <2>2
<1>4. Candidates(<<>>) = <<>>
  BY <1>3
<1>5. Below(<<>>, KYBER_Q) = <<>>
  <2>0. <<>> \in Seq(Twelve) /\ Len(<<>>) = 0
    OBVIOUS
  <2>1. PICK s \in Seq(Twelve) : s = <<>>
    BY <2>0
  <2>2. KYBER_Q \in Int
    BY DEF KYBER_Q
  <2>3. Below(s, KYBER_Q) = FlattenSeq(Window(s, KYBER_Q, 1, Len(s)))
    BY <2>2, BelowIs
  <2>4. Window(<<>>, KYBER_Q, 1, 0) = <<>>
    BY DEF Window
  <2> QED BY <2>0, <2>1, <2>3, <2>4, FlattenEmpty
<1>6. AtMost(KYBER_N, <<>>) = <<>>
  BY DEF AtMost, KYBER_N
<1> QED BY <1>1, <1>4, <1>5, <1>6, FlattenEmpty DEF Sampled

(* The next blocks go on where the last ones ended. *)
LEMMA BlocksConcat ==
    ASSUME StreamsOfBytes, NEW k \in Nat, NEW n \in Nat
    PROVE  FlattenSeq(Blocks(0, k + n)) =
              FlattenSeq(Blocks(0, k)) \o FlattenSeq(Blocks(k, n))
<1> DEFINE a == Blocks(0, k)
           b == Blocks(k, n)
           c == Blocks(0, k + n)
<1>1. /\ a \in Seq(Seq(Byte0)) /\ Len(a) = k
      /\ b \in Seq(Seq(Byte0)) /\ Len(b) = n
      /\ c \in Seq(Seq(Byte0)) /\ Len(c) = k + n
  <2>1. 0 \in Nat /\ k + n \in Nat
    OBVIOUS
  <2>2. a \in Seq(Seq(Byte0)) /\ Len(a) = k
    BY <2>1, BlocksTyped
  <2>3. b \in Seq(Seq(Byte0)) /\ Len(b) = n
    BY BlocksTyped
  <2>4. c \in Seq(Seq(Byte0)) /\ Len(c) = k + n
    BY <2>1, BlocksTyped
  <2> QED BY <2>2, <2>3, <2>4
<1>2. /\ \A m \in 1 .. k : a[m] = Block0(m)
      /\ \A m \in 1 .. n : b[m] = Block0(k + m)
      /\ \A m \in 1 .. k + n : c[m] = Block0(m)
  <2>1. \A m \in Nat : 0 + m = m
    OBVIOUS
  <2> QED BY <2>1 DEF Blocks
<1> HIDE DEF a, b, c
<1> DEFINE q == a \o b
<1>3. /\ q \in Seq(Seq(Byte0)) /\ Len(q) = Len(a) + Len(b)
      /\ \A m \in 1 .. Len(a) + Len(b) : q[m] = IF m <= Len(a) THEN a[m] ELSE b[m - Len(a)]
  BY <1>1, ConcatProperties
<1> HIDE DEF q
<1>4. ASSUME NEW m \in 1 .. k + n PROVE q[m] = c[m]
  <2>1. q[m] = IF m <= k THEN a[m] ELSE b[m - k]
    BY <1>1, <1>3
  <2>2. CASE m <= k
    BY <1>2, <2>1, <2>2
  <2>3. CASE m > k
    <3>1. PICK l \in 1 .. n : m = k + l /\ m - k = l
      <4>1. m - k \in 1 .. n /\ m = k + (m - k)
        BY <2>3
      <4> QED BY <4>1
    <3>2. b[l] = Block0(k + l) /\ c[m] = Block0(m)
      BY <1>2
    <3> QED BY <2>1, <2>3, <3>1, <3>2
  <2> QED BY <2>2, <2>3
<1>5. q = c
  BY <1>1, <1>3, <1>4, SeqEqual
<1>6. FlattenSeq(q) = FlattenSeq(a) \o FlattenSeq(b)
  BY <1>1, FlattenConcat DEF q
<1> QED BY <1>5, <1>6 DEF a, b, c

(* What the next blocks add is what the whole stream gives. *)
LEMMA SampledMore ==
    ASSUME StreamsOfBytes, NEW k \in Nat, NEW n \in Nat, NEW kept,
           kept = Sampled(k), Len(kept) < KYBER_N
    PROVE  kept \o RejUniform(KYBER_N - Len(kept), FlattenSeq(Blocks(k, n))) = Sampled(k + n)
<1> DEFINE s == FlattenSeq(Blocks(0, k))
           t == FlattenSeq(Blocks(k, n))
           a == Below(Candidates(s), KYBER_Q)
           b == Below(Candidates(t), KYBER_Q)
<1>1. s \in Seq(Byte0) /\ t \in Seq(Byte0) /\ Len(s) = 168 * k
  BY BlocksTyped
<1>2. FlattenSeq(Blocks(0, k + n)) = s \o t
  BY BlocksConcat
<1> HIDE DEF s, t
<1>3. Candidates(s \o t) = Candidates(s) \o Candidates(t)
  <2>1. PICK h \in Nat : h = 56 * k
    OBVIOUS
  <2>2. Len(s) = 3 * h
    BY <1>1, <2>1
  <2> QED BY <1>1, <2>2, CandidatesConcat
<1>4. Candidates(s) \in Seq(Twelve) /\ Candidates(t) \in Seq(Twelve) /\ KYBER_Q \in Int
  BY <1>1, CandidatesTyped DEF KYBER_Q
<1>5. Below(Candidates(s) \o Candidates(t), KYBER_Q) = a \o b
  BY <1>4, BelowConcat
<1>6. a \in Seq(Canonical) /\ b \in Seq(Canonical)
  <2>1. 0 \in Nat
    OBVIOUS
  <2> QED BY <1>1, <2>1, RejTyped
<1>7. Sampled(k + n) = AtMost(KYBER_N, a \o b)
  BY <1>2, <1>3, <1>5 DEF Sampled
<1>8. kept = AtMost(KYBER_N, a)
  BY DEF Sampled, s
<1>9. RejUniform(KYBER_N - Len(kept), t) = AtMost(KYBER_N - Len(kept), b)
  BY DEF RejUniform
<1> HIDE DEF a, b
<1>10. PICK len \in Nat : len = KYBER_N
  BY DEF KYBER_N
<1>11. kept = a
  BY <1>6, <1>8, <1>10, AtMostTyped
<1>12. AtMost(len, a \o b) = a \o AtMost(len - Len(a), b)
  <2>1. Len(a) <= len
    BY <1>6, <1>10, <1>11
  <2> QED BY <1>6, <2>1, AtMostConcat
<1> QED BY <1>7, <1>9, <1>10, <1>11, <1>12 DEF t

(* What is kept of an entry is what the blocks it was given hold, one step
   later too. *)
LEMMA SampledNext ==
    ASSUME StreamsOfBytes, KemInv, SampledFull, Next
    PROVE  SampledFull'
<1>1. CASE Untouched'
  <2>1. Sampled(0)' = <<>>
    <3>1. (Sampled(0) = <<>>)'
      BY SampledNone, PTL
    <3> QED BY <3>1
  <2> QED BY <1>1, <2>1 DEF SampledFull, Untouched
<1>2. CASE SampleBlocks
  <2>1. PICK n \in 1 .. 3 :
              entry' = [done |-> entry.done, blocks |-> entry.blocks + n,
                        kept |-> entry.kept \o RejUniform(KYBER_N - Len(entry.kept),
                                     FlattenSeq(Blocks(entry.blocks, n)))]
    BY <1>2, BlocksSampled
  <2>2. /\ Len(entry.kept) < KYBER_N /\ seed' = seed /\ code' = code
    BY <1>2, Zenon DEF SampleBlocks
  <2>3. entry.blocks \in Nat
    BY DEF KemInv, Entries
  <2>4. PICK k \in Nat, m \in Nat : k = entry.blocks /\ m = n
    BY <2>3
  <2>5. entry.kept = Sampled(k)
    BY <2>4 DEF SampledFull
  <2>6. entry'.kept = Sampled(k + m) /\ entry'.blocks = k + m /\ entry'.done = entry.done
    BY <2>1, <2>2, <2>4, <2>5, SampledMore
  <2>7. Sampled(k + m)' = Sampled(k + m)
    BY <2>2, <2>6 DEF Sampled, Blocks, Block0, At, Row, Col
  <2> QED BY <2>6, <2>7 DEF SampledFull
<1> QED BY <1>1, <1>2, StepKeeps

(* This is what the run checks. *)
LEMMA FullInOrder == ASSUME SampledFull PROVE SampledInOrder
<1>1. \A b \in 1 .. entry.blocks : 0 + b = b
  OBVIOUS
<1>2. Blocks(0, entry.blocks) = [n \in 1 .. entry.blocks |-> Block0(n)]
  BY <1>1 DEF Blocks
<1> QED BY <1>2 DEF SampledFull, Sampled, SampledInOrder

(* No coefficient of any vector overflows its 16 bits, in any procedure and
   for every input, and everything is reduced when it is packed: over every
   key pair, message and ciphertext that may be received. *)
THEOREM WorstCaseFitsHolds ==
    ASSUME StreamsOfBytes PROVE Spec => []WorstCaseFits
<1>1. KemInv => WorstCaseFits
  BY InvFits
<1>2. Spec => []KemInv
  BY KemAlways
<1> QED BY <1>1, <1>2, PTL

(* Of the stream of a matrix entry every candidate is looked at once, however
   many blocks it takes, and no procedure uses a nonce twice. *)
THEOREM SampledOnceHolds ==
    ASSUME StreamsOfBytes PROVE Spec => []SampledOnce
<1>1. Init => SampledFull
  BY InitKeeps, SampledNone DEF SampledFull
<1>2. KemInv /\ SampledFull /\ [Next]_vars => SampledFull'
  <2>1. ASSUME KemInv, SampledFull, UNCHANGED vars PROVE SampledFull'
    BY <2>1 DEF SampledFull, Sampled, Blocks, Block0, At, Row, Col, vars, sampling
  <2> QED BY <2>1, SampledNext
<1>3. Spec => []KemInv
  BY KemAlways
<1>4. KemInv /\ SampledFull => SampledOnce
  BY InvFresh, FullInOrder DEF SampledOnce
<1> QED BY <1>1, <1>2, <1>3, <1>4, PTL DEF Spec

-----------------------------------------------------------------------------
(* What is written: the rounding. *)

LEMMA PositiveIs ==
    ASSUME NEW u \in 1 - KYBER_Q .. KYBER_Q - 1
    PROVE  Positive(u) = u % KYBER_Q /\ Positive(u) \in 0 .. KYBER_Q - 1
<1>1. KYBER_Q = 3329 /\ u \in Int /\ -3329 < u /\ u < 3329
  BY DEF KYBER_Q
<1>2. CASE u < 0
  <2>1. Positive(u) = u + 3329
    BY <1>1, <1>2 DEF Positive
  <2>2. u % 3329 = u + 3329
    BY <1>1, <1>2
  <2> QED BY <1>1, <1>2, <2>1, <2>2
<1>3. CASE ~(u < 0)
  <2>1. Positive(u) = u
    BY <1>1, <1>3 DEF Positive
  <2>2. u % 3329 = u
    BY <1>1, <1>3
  <2> QED BY <1>1, <1>3, <2>1, <2>2
<1> QED BY <1>2, <1>3

(* The product and shift that stand for the division, for 4 bits. *)
LEMMA FourRounds ==
    ASSUME NEW r \in 0 .. 3328
    PROVE  MulShift(r * 16 + 1665, 80635, 28) = (16 * r + 1664) \div 3329
<1>1. 2^(28 - 16) = 4096
  BY SMT
<1> QED BY <1>1 DEF MulShift

(* x times the constant is q times 2^32, and t. *)
Splits(x, q, t) ==
    t < 65536 * 65536 /\ x * 1290167 = q * (65536 * 65536) + t

(* The three parts of the product, put together. *)
LEMMA MulShiftTen ==
    ASSUME NEW x \in Nat, x < 16777216, NEW q \in Nat, NEW t \in Nat,
           Splits(x, q, t)
    PROVE  MulShift(x, 1290167, 32) = q
<1>1. 2^(32 - 16) = 65536
  BY SMT
<1>2. PICK a \in 0 .. 255 : a = x % 256
  BY SMT
<1>3. PICK b \in 0 .. 255 : b = (x \div 256) % 256
  BY SMT
<1>4. PICK c \in 0 .. 255 : c = x \div 65536
  BY SMT
<1>5. x = a + 256 * b + 65536 * c
  BY <1>2, <1>3, <1>4, SMT
<1>6. PICK l \in Nat : l = (a * 1290167) \div 256
  BY SMT
<1>7. PICK r \in 0 .. 255 : a * 1290167 = 256 * l + r
  <2>1. (a * 1290167) % 256 \in 0 .. 255
        /\ a * 1290167 = 256 * l + ((a * 1290167) % 256)
    BY <1>6, SMT
  <2> QED BY <2>1, SMT
<1>8. PICK k \in Nat : k = (b * 1290167 + l) \div 256
  BY SMT
<1>9. PICK s \in 0 .. 255 : b * 1290167 + l = 256 * k + s
  <2>1. (b * 1290167 + l) % 256 \in 0 .. 255
        /\ b * 1290167 + l = 256 * k + ((b * 1290167 + l) % 256)
    BY <1>8, SMT
  <2> QED BY <2>1, SMT
<1>10. PICK h \in Nat : h = (c * 1290167 + k) \div 65536
  BY SMT
<1>11. PICK w \in Nat : w < 65536 /\ c * 1290167 + k = 65536 * h + w
  <2>1. (c * 1290167 + k) % 65536 \in Nat /\ (c * 1290167 + k) % 65536 < 65536
        /\ c * 1290167 + k = 65536 * h + ((c * 1290167 + k) % 65536)
    BY <1>10, SMT
  <2> QED BY <2>1, SMT
<1>12. MulShift(x, 1290167, 32) = h
  BY <1>1, <1>2, <1>3, <1>4, <1>6, <1>8, <1>10, SMT DEF MulShift
<1>13. q * (65536 * 65536) + t = h * (65536 * 65536) + (w * 65536 + s * 256 + r)
  BY <1>5, <1>7, <1>9, <1>11, SMT DEF Splits
<1>14. w * 65536 + s * 256 + r >= 0 /\ w * 65536 + s * 256 + r < 65536 * 65536
  BY <1>11, SMT
<1>15. h = q
  BY <1>13, <1>14, SMT DEF Splits
<1> QED BY <1>12, <1>15, SMT

(* So it is for 10 bits, whose product needs 42. *)
LEMMA TenRounds ==
    ASSUME NEW r \in 0 .. 3328
    PROVE  MulShift(r * 1024 + 1665, 1290167, 32) = (1024 * r + 1664) \div 3329
<1>1. r \in Nat /\ r <= 3328
  BY SMT
<1>2. PICK q \in Nat : q = (1024 * r + 1664) \div 3329
  BY <1>1, SMT
<1>3. PICK e \in Nat : e = (1024 * r + 1664) % 3329
  BY <1>1, SMT
<1>4. 1024 * r + 1664 = 3329 * q + e /\ e <= 3328 /\ q <= 1024
  BY <1>1, <1>2, <1>3, SMT
<1>5. q >= 954 => e # 0
  <2> SUFFICES ASSUME q >= 954, e = 0 PROVE FALSE
    BY SMT
  <2>1. PICK s \in Int : s = r - 3 * q
    BY SMT
  <2>2. PICK w \in Int : w = q - 4 * s
    BY SMT
  <2>3. 1024 * s + 1664 = 257 * q
    BY <1>4, <2>1, SMT
  <2>4. 257 * w = 1664 - 4 * s
    BY <2>2, <2>3, SMT
  <2>5. 238 <= s /\ s <= 255
    BY <1>4, <2>3, SMT
  <2> QED BY <2>4, <2>5, SMT
<1>6. PICK t \in Int : t = (e + 1) * 1290167 - 1353 * q
  BY SMT
<1>7. t \in Nat /\ t < 65536 * 65536
  BY <1>5, <1>6, <1>4, SMT
<1>8. PICK x \in Nat : x = r * 1024 + 1665 /\ x < 16777216
  BY SMT
<1>9. Splits(x, q, t)
  BY <1>6, <1>7, <1>8, <1>4, SMT DEF Splits
<1>10. MulShift(x, 1290167, 32) = q
  BY <1>7, <1>8, <1>9, MulShiftTen, SMT
<1> QED BY <1>2, <1>8, <1>10, SMT

(* A bit of the message is taken of the signed representative. *)
LEMMA BitRounds ==
    ASSUME NEW u \in -1664 .. 1664
    PROVE  (((2 * u + 1665) * 80635) \div 268435456) % 2
             = ((2 * (u % 3329) + 1664) \div 3329) % 2
BY SMTT(60)

-----------------------------------------------------------------------------
(* Every rounding is to the nearest. *)
LEMMA RoundsHold == RoundsToNearest
<1> SUFFICES ASSUME NEW u \in 1 - KYBER_Q .. KYBER_Q - 1
    PROVE  LET r == u % KYBER_Q IN
           /\ CompressFour(u) = ((16 * r + Half) \div KYBER_Q) % 16
           /\ CompressTen(u) = ((1024 * r + Half) \div KYBER_Q) % 1024
           /\ u \in -Half .. Half =>
                  ToMsgBit(u) = ((2 * r + Half) \div KYBER_Q) % 2
  BY Zenon DEF RoundsToNearest
<1>1. KYBER_Q = 3329 /\ Half = 1664
  BY DEF KYBER_Q, Half
<1>2. PICK r : r = u % 3329
  BY SMT
<1>3. r \in 0 .. 3328 /\ Positive(u) = r
  <2>1. Positive(u) = u % KYBER_Q /\ Positive(u) \in 0 .. KYBER_Q - 1
    BY PositiveIs
  <2> QED BY <1>1, <1>2, <2>1, SMT
<1>4. CompressFour(u) = ((16 * r + 1664) \div 3329) % 16
  <2>1. MulShift(r * 16 + 1665, 80635, 28) = (16 * r + 1664) \div 3329
    BY <1>3, FourRounds, SMTT(60)
  <2> QED BY <1>3, <2>1, SMT DEF CompressFour
<1>5. CompressTen(u) = ((1024 * r + 1664) \div 3329) % 1024
  <2>1. MulShift(r * 1024 + 1665, 1290167, 32) = (1024 * r + 1664) \div 3329
    BY <1>3, TenRounds, SMTT(60)
  <2> QED BY <1>3, <2>1, SMT DEF CompressTen
<1>6. ASSUME u \in -1664 .. 1664
      PROVE  ToMsgBit(u) = ((2 * r + 1664) \div 3329) % 2
  <2>1. 2^28 = 268435456
    BY SMT
  <2>2. (((2 * u + 1665) * 80635) \div 268435456) % 2
          = ((2 * (u % 3329) + 1664) \div 3329) % 2
    BY <1>6, BitRounds, SMT
  <2> QED BY <1>2, <2>1, <2>2, SMT DEF ToMsgBit
<1> QED BY <1>1, <1>2, <1>4, <1>5, <1>6, SMT

-----------------------------------------------------------------------------
(* What is written: the bits. *)
LEMMA Powers == /\ 2^0 = 1 /\ 2^1 = 2 /\ 2^2 = 4 /\ 2^3 = 8 /\ 2^4 = 16 /\ 2^5 = 32
                /\ 2^6 = 64 /\ 2^7 = 128 /\ 2^8 = 256 /\ 2^9 = 512 /\ 2^10 = 1024
                /\ 2^11 = 2048
BY SMT

(* The lowest bits of a word are those of its lowest byte. *)
LEMMA LowByte ==
    ASSUME NEW t \in Nat, NEW n \in 0 .. 7
    PROVE  Bit(t % 256, n) = Bit(t, n)
<1>0. CASE n = 0
  BY <1>0, Powers, SMTT(60) DEF Bit
<1>1. CASE n = 1
  BY <1>1, Powers, SMTT(60) DEF Bit
<1>2. CASE n = 2
  BY <1>2, Powers, SMTT(60) DEF Bit
<1>3. CASE n = 3
  BY <1>3, Powers, SMTT(60) DEF Bit
<1>4. CASE n = 4
  BY <1>4, Powers, SMTT(60) DEF Bit
<1>5. CASE n = 5
  BY <1>5, Powers, SMTT(60) DEF Bit
<1>6. CASE n = 6
  BY <1>6, Powers, SMTT(60) DEF Bit
<1>7. CASE n = 7
  BY <1>7, Powers, SMTT(60) DEF Bit
<1> QED BY <1>0, <1>1, <1>2, <1>3, <1>4, <1>5, <1>6, <1>7

(* A byte of what is left of one word and of the next. *)
JoinFour(h, y)      == (h + y * 4) % 256
JoinSixteen(h, y)   == (h + y * 16) % 256
JoinSixtyFour(h, y) == (h + y * 64) % 256

(* The bits of such a byte are those of the two words. *)
LEMMA JointSixteen ==
    ASSUME NEW h \in Nat, NEW y \in Nat, NEW n \in 0 .. 7, h < 16
    PROVE  Bit(JoinSixteen(h, y), n) = IF n < 4 THEN Bit(h, n) ELSE Bit(y, n - 4)
<1>0. CASE n = 0
  BY <1>0, Powers, SMTT(60) DEF Bit, JoinSixteen
<1>1. CASE n = 1
  BY <1>1, Powers, SMTT(60) DEF Bit, JoinSixteen
<1>2. CASE n = 2
  BY <1>2, Powers, SMTT(60) DEF Bit, JoinSixteen
<1>3. CASE n = 3
  BY <1>3, Powers, SMTT(60) DEF Bit, JoinSixteen
<1>4. CASE n = 4
  BY <1>4, Powers, SMTT(60) DEF Bit, JoinSixteen
<1>5. CASE n = 5
  BY <1>5, Powers, SMTT(60) DEF Bit, JoinSixteen
<1>6. CASE n = 6
  BY <1>6, Powers, SMTT(60) DEF Bit, JoinSixteen
<1>7. CASE n = 7
  BY <1>7, Powers, SMTT(60) DEF Bit, JoinSixteen
<1> QED BY <1>0, <1>1, <1>2, <1>3, <1>4, <1>5, <1>6, <1>7

(* A word shifted has the bits from that place on. *)
LEMMA PastFour ==
    ASSUME NEW x \in Nat, NEW n \in 0 .. 7
    PROVE  Bit(x \div 4, n) = Bit(x, n + 2)
<1>0. CASE n = 0
  BY <1>0, Powers, SMTT(60) DEF Bit
<1>1. CASE n = 1
  BY <1>1, Powers, SMTT(60) DEF Bit
<1>2. CASE n = 2
  BY <1>2, Powers, SMTT(60) DEF Bit
<1>3. CASE n = 3
  BY <1>3, Powers, SMTT(60) DEF Bit
<1>4. CASE n = 4
  BY <1>4, Powers, SMTT(60) DEF Bit
<1>5. CASE n = 5
  BY <1>5, Powers, SMTT(60) DEF Bit
<1>6. CASE n = 6
  BY <1>6, Powers, SMTT(60) DEF Bit
<1>7. CASE n = 7
  BY <1>7, Powers, SMTT(60) DEF Bit
<1> QED BY <1>0, <1>1, <1>2, <1>3, <1>4, <1>5, <1>6, <1>7

LEMMA PastSixteen ==
    ASSUME NEW x \in Nat, NEW n \in 0 .. 7
    PROVE  Bit(x \div 16, n) = Bit(x, n + 4)
<1>0. CASE n = 0
  BY <1>0, Powers, SMTT(60) DEF Bit
<1>1. CASE n = 1
  BY <1>1, Powers, SMTT(60) DEF Bit
<1>2. CASE n = 2
  BY <1>2, Powers, SMTT(60) DEF Bit
<1>3. CASE n = 3
  BY <1>3, Powers, SMTT(60) DEF Bit
<1>4. CASE n = 4
  BY <1>4, Powers, SMTT(60) DEF Bit
<1>5. CASE n = 5
  BY <1>5, Powers, SMTT(60) DEF Bit
<1>6. CASE n = 6
  <2>1. (x \div 16) \div 64 = x \div 1024
    BY SMT
  <2>2. Bit(x \div 16, 6) = ((x \div 16) \div 64) % 2 /\ Bit(x, 10) = (x \div 1024) % 2
    BY Powers DEF Bit
  <2> QED BY <1>6, <2>1, <2>2
<1>7. CASE n = 7
  BY <1>7, Powers, SMTT(60) DEF Bit
<1> QED BY <1>0, <1>1, <1>2, <1>3, <1>4, <1>5, <1>6, <1>7

LEMMA PastSixtyFour ==
    ASSUME NEW x \in Nat, NEW n \in 0 .. 3
    PROVE  Bit(x \div 64, n) = Bit(x, n + 6)
<1>0. CASE n = 0
  BY <1>0, Powers, SMTT(60) DEF Bit
<1>1. CASE n = 1
  BY <1>1, Powers, SMTT(60) DEF Bit
<1>2. CASE n = 2
  BY <1>2, Powers, SMTT(60) DEF Bit
<1>3. CASE n = 3
  BY <1>3, Powers, SMTT(60) DEF Bit
<1> QED BY <1>0, <1>1, <1>2, <1>3

LEMMA PastTwoFiftySix ==
    ASSUME NEW x \in Nat, NEW n \in 0 .. 3
    PROVE  Bit(x \div 256, n) = Bit(x, n + 8)
<1>0. CASE n = 0
  BY <1>0, Powers, SMTT(60) DEF Bit
<1>1. CASE n = 1
  BY <1>1, Powers, SMTT(60) DEF Bit
<1>2. CASE n = 2
  BY <1>2, Powers, SMTT(60) DEF Bit
<1>3. CASE n = 3
  BY <1>3, Powers, SMTT(60) DEF Bit
<1> QED BY <1>0, <1>1, <1>2, <1>3

LEMMA JointFour ==
    ASSUME NEW h \in Nat, NEW y \in Nat, NEW n \in 0 .. 7, h < 4
    PROVE  Bit(JoinFour(h, y), n) = IF n < 2 THEN Bit(h, n) ELSE Bit(y, n - 2)
<1>0. CASE n = 0
  BY <1>0, Powers, SMTT(60) DEF Bit, JoinFour
<1>1. CASE n = 1
  BY <1>1, Powers, SMTT(60) DEF Bit, JoinFour
<1>2. CASE n = 2
  BY <1>2, Powers, SMTT(60) DEF Bit, JoinFour
<1>3. CASE n = 3
  BY <1>3, Powers, SMTT(60) DEF Bit, JoinFour
<1>4. CASE n = 4
  BY <1>4, Powers, SMTT(60) DEF Bit, JoinFour
<1>5. CASE n = 5
  BY <1>5, Powers, SMTT(60) DEF Bit, JoinFour
<1>6. CASE n = 6
  BY <1>6, Powers, SMTT(60) DEF Bit, JoinFour
<1>7. CASE n = 7
  BY <1>7, Powers, SMTT(60) DEF Bit, JoinFour
<1> QED BY <1>0, <1>1, <1>2, <1>3, <1>4, <1>5, <1>6, <1>7

LEMMA JointSixtyFour ==
    ASSUME NEW h \in Nat, NEW y \in Nat, NEW n \in 0 .. 7, h < 64
    PROVE  Bit(JoinSixtyFour(h, y), n) = IF n < 6 THEN Bit(h, n) ELSE Bit(y, n - 6)
<1>0. CASE n = 0
  BY <1>0, Powers, SMTT(60) DEF Bit, JoinSixtyFour
<1>1. CASE n = 1
  BY <1>1, Powers, SMTT(60) DEF Bit, JoinSixtyFour
<1>2. CASE n = 2
  BY <1>2, Powers, SMTT(60) DEF Bit, JoinSixtyFour
<1>3. CASE n = 3
  BY <1>3, Powers, SMTT(60) DEF Bit, JoinSixtyFour
<1>4. CASE n = 4
  BY <1>4, Powers, SMTT(60) DEF Bit, JoinSixtyFour
<1>5. CASE n = 5
  BY <1>5, Powers, SMTT(60) DEF Bit, JoinSixtyFour
<1>6. CASE n = 6
  BY <1>6, Powers, SMTT(60) DEF Bit, JoinSixtyFour
<1>7. CASE n = 7
  BY <1>7, Powers, SMTT(60) DEF Bit, JoinSixtyFour
<1> QED BY <1>0, <1>1, <1>2, <1>3, <1>4, <1>5, <1>6, <1>7

-----------------------------------------------------------------------------
(* Bit n of word e, of words of d bits, is bit s of byte c. *)
Meets(d, e, n, c, s) == d * e + n = 8 * c + s

(* Two words of 12 bits in three bytes. *)
TwoWords(t) == t[0] \in Nat /\ t[1] \in Nat /\ t[0] < 4096 /\ t[1] < 4096

ThreeBytes(t, c) ==
    CASE c = 0 -> t[0] % 256
      [] c = 1 -> (t[0] \div 256 + t[1] * 16) % 256
      [] c = 2 -> t[1] \div 16

(* Every bit of the two words is in its byte. *)
LEMMA TwelveBits ==
    ASSUME NEW t, TwoWords(t),
           NEW e \in 0 .. 1, NEW n \in 0 .. 11, NEW c \in Nat, NEW s \in 0 .. 7,
           Meets(12, e, n, c, s)
    PROVE  Bit(ThreeBytes(t, c), s) = Bit(t[e], n)
<1>1. 12 * e + n = 8 * c + s
  BY DEF Meets
<1>2. PICK x \in Nat : x = t[0]
  BY DEF TwoWords
<1>3. PICK y \in Nat : y = t[1]
  BY DEF TwoWords
<1>4. /\ c = 0 => ThreeBytes(t, c) = x % 256
      /\ c = 1 => ThreeBytes(t, c) = JoinSixteen(x \div 256, y)
      /\ c = 2 => ThreeBytes(t, c) = y \div 16
  BY <1>2, <1>3 DEF ThreeBytes, JoinSixteen
<1>5. PICK g \in Nat : g = x \div 256
  BY <1>2, SMT DEF TwoWords
<1>6. g < 16
  BY <1>2, <1>5, SMT DEF TwoWords
<1>7. CASE e = 0 /\ n < 8
  <2>1. c = 0 /\ s = n /\ n \in 0 .. 7
    BY <1>1, <1>7, SMT
  <2> QED BY <1>2, <1>4, <1>7, <2>1, LowByte
<1>8. CASE e = 0 /\ n >= 8
  <2>1. c = 1 /\ s = n - 8 /\ n - 8 \in 0 .. 3 /\ s < 4 /\ (n - 8) + 8 = n
    BY <1>1, <1>8, SMT
  <2>2. Bit(JoinSixteen(g, y), s) = Bit(g, s)
    BY <1>6, <2>1, JointSixteen
  <2>3. Bit(x \div 256, n - 8) = Bit(x, n)
    BY <2>1, PastTwoFiftySix
  <2> QED BY <1>2, <1>4, <1>5, <1>8, <2>1, <2>2, <2>3
<1>9. CASE e = 1 /\ n < 4
  <2>1. c = 1 /\ s = n + 4 /\ ~(s < 4) /\ s - 4 = n
    BY <1>1, <1>9, SMT
  <2>2. Bit(JoinSixteen(g, y), s) = Bit(y, s - 4)
    BY <1>6, <2>1, JointSixteen
  <2> QED BY <1>3, <1>4, <1>5, <1>9, <2>1, <2>2
<1>10. CASE e = 1 /\ n >= 4
  <2>1. c = 2 /\ s = n - 4 /\ n - 4 \in 0 .. 7 /\ (n - 4) + 4 = n
    BY <1>1, <1>10, SMT
  <2>2. Bit(y \div 16, n - 4) = Bit(y, n)
    BY <2>1, PastSixteen
  <2> QED BY <1>3, <1>4, <1>10, <2>1, <2>2
<1> QED BY <1>7, <1>8, <1>9, <1>10

(* Four words of 10 bits in five bytes. *)
FourWords(t) == /\ t[0] \in Nat /\ t[1] \in Nat /\ t[2] \in Nat /\ t[3] \in Nat
                /\ t[0] < 1024 /\ t[1] < 1024 /\ t[2] < 1024 /\ t[3] < 1024

FiveBytes(t, c) ==
    CASE c = 0 -> t[0] % 256
      [] c = 1 -> (t[0] \div 256 + t[1] * 4) % 256
      [] c = 2 -> (t[1] \div 64 + t[2] * 16) % 256
      [] c = 3 -> (t[2] \div 16 + t[3] * 64) % 256
      [] c = 4 -> t[3] \div 4

(* Every bit of the four words is in its byte. *)
LEMMA TenBits ==
    ASSUME NEW t, FourWords(t),
           NEW e \in 0 .. 3, NEW n \in 0 .. 9, NEW c \in Nat, NEW s \in 0 .. 7,
           Meets(10, e, n, c, s)
    PROVE  Bit(FiveBytes(t, c), s) = Bit(t[e], n)
<1>1. 10 * e + n = 8 * c + s
  BY DEF Meets
<1>2. PICK w \in Nat : w = t[0]
  BY DEF FourWords
<1>3. PICK x \in Nat : x = t[1]
  BY DEF FourWords
<1>4. PICK y \in Nat : y = t[2]
  BY DEF FourWords
<1>5. PICK z \in Nat : z = t[3]
  BY DEF FourWords
<1>6. /\ c = 0 => FiveBytes(t, c) = w % 256
      /\ c = 1 => FiveBytes(t, c) = JoinFour(w \div 256, x)
      /\ c = 2 => FiveBytes(t, c) = JoinSixteen(x \div 64, y)
      /\ c = 3 => FiveBytes(t, c) = JoinSixtyFour(y \div 16, z)
      /\ c = 4 => FiveBytes(t, c) = z \div 4
  BY <1>2, <1>3, <1>4, <1>5 DEF FiveBytes, JoinFour, JoinSixteen, JoinSixtyFour
<1>7. PICK g \in Nat : g = w \div 256
  BY <1>1, <1>2, SMT
<1>8. g < 4
  BY <1>2, <1>7, SMT DEF FourWords
<1>9. PICK h \in Nat : h = x \div 64
  BY <1>1, <1>3, SMT
<1>10. h < 16
  BY <1>3, <1>9, SMT DEF FourWords
<1>11. PICK k \in Nat : k = y \div 16
  BY <1>1, <1>4, SMT
<1>12. k < 64
  BY <1>4, <1>11, SMT DEF FourWords
<1>13. CASE e = 0
  <2>1. CASE n < 8
    <3>1. c = 0 /\ s = n /\ n \in 0 .. 7
      BY <1>1, <1>13, <2>1, SMT
    <3> QED BY <1>2, <1>6, <1>13, <3>1, LowByte
  <2>2. CASE n >= 8
    <3>1. c = 1 /\ s = n - 8 /\ n - 8 \in 0 .. 3 /\ s < 2 /\ (n - 8) + 8 = n
      BY <1>1, <1>13, <2>2, SMT
    <3>2. Bit(JoinFour(g, x), s) = Bit(g, s)
      BY <1>8, <3>1, JointFour
    <3>3. Bit(w \div 256, n - 8) = Bit(w, n)
      BY <3>1, PastTwoFiftySix
    <3> QED BY <1>2, <1>6, <1>7, <1>9, <1>11, <1>13, <3>1, <3>2, <3>3
  <2> QED BY <2>1, <2>2
<1>14. CASE e = 1
  <2>1. CASE n < 6
    <3>1. c = 1 /\ s = n + 2 /\ ~(s < 2) /\ s - 2 = n
      BY <1>1, <1>14, <2>1, SMT
    <3>2. Bit(JoinFour(g, x), s) = Bit(x, s - 2)
      BY <1>8, <3>1, JointFour
    <3> QED BY <1>3, <1>6, <1>7, <1>9, <1>11, <1>14, <3>1, <3>2
  <2>2. CASE n >= 6
    <3>1. c = 2 /\ s = n - 6 /\ n - 6 \in 0 .. 3 /\ s < 4 /\ (n - 6) + 6 = n
      BY <1>1, <1>14, <2>2, SMT
    <3>2. Bit(JoinSixteen(h, y), s) = Bit(h, s)
      BY <1>10, <3>1, JointSixteen
    <3>3. Bit(x \div 64, n - 6) = Bit(x, n)
      BY <3>1, PastSixtyFour
    <3> QED BY <1>3, <1>6, <1>7, <1>9, <1>11, <1>14, <3>1, <3>2, <3>3
  <2> QED BY <2>1, <2>2
<1>15. CASE e = 2
  <2>1. CASE n < 4
    <3>1. c = 2 /\ s = n + 4 /\ ~(s < 4) /\ s - 4 = n
      BY <1>1, <1>15, <2>1, SMT
    <3>2. Bit(JoinSixteen(h, y), s) = Bit(y, s - 4)
      BY <1>10, <3>1, JointSixteen
    <3> QED BY <1>4, <1>6, <1>7, <1>9, <1>11, <1>15, <3>1, <3>2
  <2>2. CASE n >= 4
    <3>1. c = 3 /\ s = n - 4 /\ n - 4 \in 0 .. 7 /\ s < 6 /\ (n - 4) + 4 = n
      BY <1>1, <1>15, <2>2, SMT
    <3>2. Bit(JoinSixtyFour(k, z), s) = Bit(k, s)
      BY <1>12, <3>1, JointSixtyFour
    <3>3. Bit(y \div 16, n - 4) = Bit(y, n)
      BY <3>1, PastSixteen
    <3> QED BY <1>4, <1>6, <1>7, <1>9, <1>11, <1>15, <3>1, <3>2, <3>3
  <2> QED BY <2>1, <2>2
<1>16. CASE e = 3
  <2>1. CASE n < 2
    <3>1. c = 3 /\ s = n + 6 /\ ~(s < 6) /\ s - 6 = n
      BY <1>1, <1>16, <2>1, SMT
    <3>2. Bit(JoinSixtyFour(k, z), s) = Bit(z, s - 6)
      BY <1>12, <3>1, JointSixtyFour
    <3> QED BY <1>5, <1>6, <1>7, <1>9, <1>11, <1>16, <3>1, <3>2
  <2>2. CASE n >= 2
    <3>1. c = 4 /\ s = n - 2 /\ n - 2 \in 0 .. 7 /\ (n - 2) + 2 = n
      BY <1>1, <1>16, <2>2, SMT
    <3>2. Bit(z \div 4, n - 2) = Bit(z, n)
      BY <3>1, PastFour
    <3> QED BY <1>5, <1>6, <1>7, <1>9, <1>11, <1>16, <3>1, <3>2
  <2> QED BY <2>1, <2>2
<1> QED BY <1>13, <1>14, <1>15, <1>16

(* Two words of 4 bits in a byte. *)
LEMMA NibbleBits ==
    ASSUME NEW x \in Nat, NEW y \in Nat, x < 16, y < 16,
           NEW n \in 0 .. 3
    PROVE  Bit(x + y * 16, n) = Bit(x, n) /\ Bit(x + y * 16, 4 + n) = Bit(y, n)
<1>1. (x + y * 16) % 256 = x + y * 16
  BY SMT
<1>2. JoinSixteen(x, y) = x + y * 16
  BY <1>1 DEF JoinSixteen
<1>3. \A s \in 0 .. 7 : Bit(x + y * 16, s) = IF s < 4 THEN Bit(x, s) ELSE Bit(y, s - 4)
  BY <1>2, JointSixteen
<1>4. Bit(x + y * 16, n) = Bit(x, n)
  BY <1>3, SMT
<1>5. Bit(x + y * 16, 4 + n) = Bit(y, n)
  <2>1. PICK s \in 0 .. 7 : s = 4 + n /\ s - 4 = n /\ ~(s < 4)
    BY SMT
  <2> QED BY <1>3, <2>1
<1> QED BY <1>4, <1>5

-----------------------------------------------------------------------------
(* Where a bit of a coefficient is written. *)

(* The representatives that are written. *)
Reps == 1 - KYBER_Q .. KYBER_Q - 1

(* Such a representative is reduced to a word of 12 bits. *)
LEMMA RepReduced ==
    ASSUME NEW u \in Reps
    PROVE  Positive(u) = u % KYBER_Q /\ Positive(u) \in Nat /\ Positive(u) < 4096
<1>1. Positive(u) = u % KYBER_Q /\ Positive(u) \in 0 .. KYBER_Q - 1
  BY PositiveIs DEF Reps
<1>2. KYBER_Q = 3329
  BY DEF KYBER_Q
<1>3. PICK r : r = Positive(u)
  OBVIOUS
<1>4. r \in 0 .. 3328
  BY <1>1, <1>2, <1>3, SMT
<1>5. r \in Nat /\ r < 4096
  BY <1>4, SMT
<1> QED BY <1>1, <1>3, <1>5

(* The place k of bit n of coefficient j of polynomial i, in words of d bits. *)
BitAt(i, j, d, n) == (256 * (i - 1) + j) * d + n

(* It is bit s of byte c of the group h, which is byte m of all. *)
InThree(i, j, n, h, e, c, s, m) ==
    /\ h \in 0 .. 127 /\ e \in 0 .. 1 /\ c \in 0 .. 2 /\ s \in 0 .. 7
    /\ m \in 0 .. 1151
    /\ j = 2 * h + e /\ 12 * e + n = 8 * c + s
    /\ BitAt(i, j, 12, n) \div 8 = m /\ BitAt(i, j, 12, n) % 8 = s
    /\ m \div 384 + 1 = i /\ (m % 384) \div 3 = h /\ m % 3 = c

(* Every bit of a key has such a place. *)
LEMMA TwelveAt ==
    ASSUME NEW i \in 1 .. 3, NEW j \in 0 .. 255, NEW n \in 0 .. 11
    PROVE  \E h, e, c, s, m : InThree(i, j, n, h, e, c, s, m)
<1>1. PICK h \in 0 .. 127 : h = j \div 2
  BY SMT
<1>2. PICK e \in 0 .. 1 : e = j % 2
  BY SMT
<1>3. j = 2 * h + e
  BY <1>1, <1>2, SMT
<1>4. PICK c \in 0 .. 2 : c = (12 * e + n) \div 8
  BY SMT
<1>5. PICK s \in 0 .. 7 : s = (12 * e + n) % 8
  BY SMT
<1>6. 12 * e + n = 8 * c + s
  BY <1>4, <1>5, SMT
<1>7. PICK m \in 0 .. 1151 : m = 384 * (i - 1) + 3 * h + c
  BY SMT
<1>8. BitAt(i, j, 12, n) = 8 * m + s
  BY <1>3, <1>6, <1>7, SMT DEF BitAt
<1>9. BitAt(i, j, 12, n) \div 8 = m /\ BitAt(i, j, 12, n) % 8 = s
  BY <1>8, SMT
<1>10. m \div 384 + 1 = i /\ (m % 384) \div 3 = h /\ m % 3 = c
  BY <1>7, SMT
<1>11. InThree(i, j, n, h, e, c, s, m)
  BY <1>3, <1>6, <1>9, <1>10, SMT DEF InThree
<1> QED BY <1>11, ZenonT(60)

(* The bytes of a vector hold its bits, whatever representatives it has. *)
LEMMA KeyBits ==
    ASSUME NEW v, DOMAIN v = 1 .. KYBER_K,
           \A i \in 1 .. KYBER_K : \A j \in Coeffs : v[i][j] \in Reps
    PROVE  Bits(PolyvecToBytes(v), 0, v, 12, LAMBDA u : u % KYBER_Q)
<1> SUFFICES ASSUME NEW i \in DOMAIN v, NEW j \in Coeffs, NEW n \in 0 .. 12 - 1
    PROVE  Bit(PolyvecToBytes(v)[0 + BitAt(i, j, 12, n) \div 8],
               BitAt(i, j, 12, n) % 8) = Bit(v[i][j] % KYBER_Q, n)
  BY DEF Bits, BitAt
<1>1. i \in 1 .. 3 /\ j \in 0 .. 255 /\ n \in 0 .. 11
  BY DEF KYBER_K, Coeffs, KYBER_N
<1>2. PICK h, e, c, s, m : InThree(i, j, n, h, e, c, s, m)
  BY <1>1, TwelveAt
<1>3. /\ h \in 0 .. 127 /\ e \in 0 .. 1 /\ c \in 0 .. 2 /\ s \in 0 .. 7
      /\ m \in 0 .. 1151
      /\ j = 2 * h + e /\ 12 * e + n = 8 * c + s
      /\ BitAt(i, j, 12, n) \div 8 = m /\ BitAt(i, j, 12, n) % 8 = s
      /\ m \div 384 + 1 = i /\ (m % 384) \div 3 = h /\ m % 3 = c
  BY <1>2 DEF InThree
<1> DEFINE t == [x \in 0 .. 1 |-> Positive(v[i][2 * h + x])]
<1>4. PolyvecToBytes(v)[m] = ThreeBytes(t, c)
  <2>1. m \in 0 .. KYBER_K * KYBER_POLYBYTES - 1
    BY <1>3, SMT DEF KYBER_K, KYBER_POLYBYTES
  <2>2. t[0] = Positive(v[i][2 * h]) /\ t[1] = Positive(v[i][2 * h + 1])
    BY <1>3, SMT
  <2>3. PICK p : p = v[i]
    OBVIOUS
  <2>4. PolyvecToBytes(v)[m] =
            LET t0 == Positive(p[2 * h])
                t1 == Positive(p[2 * h + 1])
            IN  CASE c = 0 -> t0 % 256
                  [] c = 1 -> (t0 \div 256 + t1 * 16) % 256
                  [] c = 2 -> t1 \div 16
    BY <1>3, <2>1, <2>3, SMTT(60) DEF PolyvecToBytes, KYBER_POLYBYTES
  <2> HIDE DEF t
  <2> QED BY <2>2, <2>3, <2>4, SMT DEF ThreeBytes
<1>5. TwoWords(t)
  <2>1. 2 * h \in Coeffs /\ 2 * h + 1 \in Coeffs
    BY <1>3, SMT DEF Coeffs, KYBER_N
  <2>2. v[i][2 * h] \in Reps /\ v[i][2 * h + 1] \in Reps
    BY <2>1
  <2>3. t[0] = Positive(v[i][2 * h]) /\ t[1] = Positive(v[i][2 * h + 1])
    BY <1>3, SMT
  <2> HIDE DEF t
  <2> QED BY <2>2, <2>3, RepReduced DEF TwoWords
<1>6. t[e] = v[i][j] % KYBER_Q
  <2>1. t[e] = Positive(v[i][j])
    BY <1>3, SMT
  <2>2. v[i][j] \in Reps
    OBVIOUS
  <2> HIDE DEF t
  <2> QED BY <2>1, <2>2, RepReduced
<1> HIDE DEF t
<1>7. Bit(ThreeBytes(t, c), s) = Bit(t[e], n)
  <2>3. 12 * e + n = 8 * c + s
    BY <1>3
  <2>4. c \in Nat
    BY <1>3
  <2>1. c \in Nat /\ n \in 0 .. 11 /\ Meets(12, e, n, c, s)
    BY <1>1, <2>3, <2>4 DEF Meets
  <2>2. e \in 0 .. 1 /\ s \in 0 .. 7
    BY <1>3
  <2> QED BY <1>5, <2>1, <2>2, TwelveBits, Zenon
<1>8. 0 + BitAt(i, j, 12, n) \div 8 = m
  BY <1>3, SMT
<1> QED BY <1>3, <1>4, <1>6, <1>7, <1>8, ZenonT(60)

-----------------------------------------------------------------------------
(* What is rounded fits its bits. *)
LEMMA RoundedFits ==
    ASSUME NEW u \in Reps
    PROVE  /\ CompressTen(u) \in Nat /\ CompressTen(u) < 1024
           /\ CompressFour(u) \in Nat /\ CompressFour(u) < 16
<1>1. PICK r \in Nat : r = Positive(u)
  BY RepReduced
<1>2. u \in Int
  BY DEF Reps, KYBER_Q
<1>3. PICK f \in Int : f = MulShift(r * 16 + 1665, 80635, 28)
  <2>1. 2^(28 - 16) = 4096
    BY SMT
  <2> QED BY <2>1, SMT DEF MulShift
<1>4. PICK t \in Int : t = MulShift(r * 1024 + 1665, 1290167, 32)
  <2>1. 2^(32 - 16) = 65536
    BY SMT
  <2> QED BY <2>1, SMT DEF MulShift
<1>5. CompressFour(u) = f % 16
  BY <1>1, <1>3, SMT DEF CompressFour
<1>6. CompressTen(u) = t % 1024
  BY <1>1, <1>4, SMT DEF CompressTen
<1> QED BY <1>5, <1>6, SMT

(* It is bit s of byte c of the group h, which is byte m of all. *)
InFive(i, j, n, h, e, c, s, m) ==
    /\ h \in 0 .. 63 /\ e \in 0 .. 3 /\ c \in 0 .. 4 /\ s \in 0 .. 7
    /\ m \in 0 .. 959
    /\ j = 4 * h + e /\ 10 * e + n = 8 * c + s
    /\ BitAt(i, j, 10, n) \div 8 = m /\ BitAt(i, j, 10, n) % 8 = s
    /\ m \div 320 + 1 = i /\ (m % 320) \div 5 = h /\ m % 5 = c

(* Every bit of the rounded vector has such a place. *)
LEMMA TenAt ==
    ASSUME NEW i \in 1 .. 3, NEW j \in 0 .. 255, NEW n \in 0 .. 9
    PROVE  \E h, e, c, s, m : InFive(i, j, n, h, e, c, s, m)
<1>1. PICK h \in 0 .. 63 : h = j \div 4
  BY SMT
<1>2. PICK e \in 0 .. 3 : e = j % 4
  BY SMT
<1>3. j = 4 * h + e
  BY <1>1, <1>2, SMT
<1>4. PICK c \in 0 .. 4 : c = (10 * e + n) \div 8
  BY SMT
<1>5. PICK s \in 0 .. 7 : s = (10 * e + n) % 8
  BY SMT
<1>6. 10 * e + n = 8 * c + s
  BY <1>4, <1>5, SMT
<1>7. PICK m \in 0 .. 959 : m = 320 * (i - 1) + 5 * h + c
  BY SMT
<1>8. BitAt(i, j, 10, n) = 8 * m + s
  BY <1>3, <1>6, <1>7, SMT DEF BitAt
<1>9. BitAt(i, j, 10, n) \div 8 = m /\ BitAt(i, j, 10, n) % 8 = s
  BY <1>8, SMT
<1>10. m \div 320 + 1 = i /\ (m % 320) \div 5 = h /\ m % 5 = c
  BY <1>7, SMT
<1>11. InFive(i, j, n, h, e, c, s, m)
  BY <1>3, <1>6, <1>9, <1>10, SMT DEF InFive
<1> QED BY <1>11, Zenon

(* The low part of a ciphertext holds the bits of the rounded vector. *)
LEMMA VectorBits ==
    ASSUME NEW v, NEW w, DOMAIN v = 1 .. KYBER_K,
           \A i \in 1 .. KYBER_K : \A j \in Coeffs : v[i][j] \in Reps
    PROVE  Bits(PackCt(PolyvecCompress(v), w), 0, v, 10, CompressTen)
<1> SUFFICES ASSUME NEW i \in DOMAIN v, NEW j \in Coeffs, NEW n \in 0 .. 10 - 1
    PROVE  Bit(PackCt(PolyvecCompress(v), w)[0 + BitAt(i, j, 10, n) \div 8],
               BitAt(i, j, 10, n) % 8) = Bit(CompressTen(v[i][j]), n)
  BY DEF Bits, BitAt
<1>1. i \in 1 .. 3 /\ j \in 0 .. 255 /\ n \in 0 .. 9
  BY DEF KYBER_K, Coeffs, KYBER_N
<1>2. PICK h, e, c, s, m : InFive(i, j, n, h, e, c, s, m)
  BY <1>1, TenAt
<1>3. /\ h \in 0 .. 63 /\ e \in 0 .. 3 /\ c \in 0 .. 4 /\ s \in 0 .. 7
      /\ m \in 0 .. 959
      /\ j = 4 * h + e /\ 10 * e + n = 8 * c + s
      /\ BitAt(i, j, 10, n) \div 8 = m /\ BitAt(i, j, 10, n) % 8 = s
      /\ m \div 320 + 1 = i /\ (m % 320) \div 5 = h /\ m % 5 = c
  BY <1>2 DEF InFive
<1> DEFINE t == [x \in 0 .. 3 |-> CompressTen(v[i][4 * h + x])]
<1>4. /\ t[0] = CompressTen(v[i][4 * h + 0]) /\ t[1] = CompressTen(v[i][4 * h + 1])
      /\ t[2] = CompressTen(v[i][4 * h + 2]) /\ t[3] = CompressTen(v[i][4 * h + 3])
  BY <1>3, SMT
<1>5. t[e] = CompressTen(v[i][j])
  BY <1>3, SMT
<1> HIDE DEF t
<1>6. PackCt(PolyvecCompress(v), w)[m] = FiveBytes(t, c)
  <2>1. m \in 0 .. KYBER_K * 320 - 1
    BY <1>3, SMT DEF KYBER_K
  <2> DEFINE l  == 4 * ((m % 320) \div 5)
             q  == v[m \div 320 + 1]
             t0 == CompressTen(q[l + 0])
             t1 == CompressTen(q[l + 1])
             t2 == CompressTen(q[l + 2])
             t3 == CompressTen(q[l + 3])
  <2>4. PolyvecCompress(v)[m] = CASE m % 5 = 0 -> t0 % 256
              [] m % 5 = 1 -> (t0 \div 256 + t1 * 4) % 256
              [] m % 5 = 2 -> (t1 \div 64 + t2 * 16) % 256
              [] m % 5 = 3 -> (t2 \div 16 + t3 * 64) % 256
              [] m % 5 = 4 -> t3 \div 4
    BY <2>1 DEF PolyvecCompress
  <2>7. l = 4 * h /\ q = v[i]
    BY <1>3, SMT
  <2> HIDE DEF l, q
  <2>8. t0 = t[0] /\ t1 = t[1] /\ t2 = t[2] /\ t3 = t[3]
    BY <1>4, <2>7
  <2> HIDE DEF t0, t1, t2, t3
  <2>5. PolyvecCompress(v)[m] = FiveBytes(t, c)
    BY <1>3, <2>4, <2>8, SMT DEF FiveBytes
  <2>6. PackCt(PolyvecCompress(v), w)[m] = PolyvecCompress(v)[m]
    <3>1. m \in Nat /\ m < 960
      BY <1>3, SMT
    <3> QED BY <3>1, PackCtLow
  <2> QED BY <2>5, <2>6
<1>7. FourWords(t)
  <2>1. /\ 4 * h + 0 \in Coeffs /\ 4 * h + 1 \in Coeffs
        /\ 4 * h + 2 \in Coeffs /\ 4 * h + 3 \in Coeffs
    BY <1>3, SMT DEF Coeffs, KYBER_N
  <2>2. /\ v[i][4 * h + 0] \in Reps /\ v[i][4 * h + 1] \in Reps
        /\ v[i][4 * h + 2] \in Reps /\ v[i][4 * h + 3] \in Reps
    BY <2>1
  <2> QED BY <1>4, <2>2, RoundedFits DEF FourWords
<1>8. Bit(FiveBytes(t, c), s) = Bit(t[e], n)
  <2>3. 10 * e + n = 8 * c + s
    BY <1>3
  <2>4. c \in Nat
    BY <1>3
  <2>1. c \in Nat /\ n \in 0 .. 9 /\ Meets(10, e, n, c, s)
    BY <1>1, <2>3, <2>4 DEF Meets
  <2>2. e \in 0 .. 3 /\ s \in 0 .. 7
    BY <1>3
  <2> QED BY <1>7, <2>1, <2>2, TenBits, Zenon
<1>9. 0 + BitAt(i, j, 10, n) \div 8 = m
  BY <1>3, SMT
<1> QED BY <1>3, <1>5, <1>6, <1>8, <1>9, ZenonT(60)

(* It is bit s of byte h. *)
InOne(j, n, h, e, s) ==
    /\ h \in 0 .. 127 /\ e \in 0 .. 1 /\ s \in 0 .. 7
    /\ j = 2 * h + e /\ s = 4 * e + n
    /\ BitAt(1, j, 4, n) \div 8 = h /\ BitAt(1, j, 4, n) % 8 = s

(* Every bit of the rounded polynomial has such a place. *)
LEMMA FourAt ==
    ASSUME NEW j \in 0 .. 255, NEW n \in 0 .. 3
    PROVE  \E h, e, s : InOne(j, n, h, e, s)
<1>1. PICK h \in 0 .. 127 : h = j \div 2
  BY SMT
<1>2. PICK e \in 0 .. 1 : e = j % 2
  BY SMT
<1>3. j = 2 * h + e
  BY <1>1, <1>2, SMT
<1>4. PICK s \in 0 .. 7 : s = 4 * e + n
  BY SMT
<1>5. BitAt(1, j, 4, n) = 8 * h + s
  BY <1>3, <1>4, SMT DEF BitAt
<1>6. InOne(j, n, h, e, s)
  BY <1>3, <1>4, <1>5, SMT DEF InOne
<1> QED BY <1>6, Zenon

(* The high part holds those of the rounded polynomial. *)
LEMMA PolyBits ==
    ASSUME NEW v, NEW b, DOMAIN v = 1 .. 1, \A j \in Coeffs : v[1][j] \in Reps
    PROVE  Bits(PackCt(b, PolyCompress(v[1])), 960, v, 4, CompressFour)
<1> SUFFICES ASSUME NEW i \in DOMAIN v, NEW j \in Coeffs, NEW n \in 0 .. 4 - 1
    PROVE  Bit(PackCt(b, PolyCompress(v[1]))[960 + BitAt(i, j, 4, n) \div 8],
               BitAt(i, j, 4, n) % 8) = Bit(CompressFour(v[i][j]), n)
  BY DEF Bits, BitAt
<1>1. i = 1 /\ j \in 0 .. 255 /\ n \in 0 .. 3
  BY DEF KYBER_K, Coeffs, KYBER_N
<1>2. PICK h, e, s : InOne(j, n, h, e, s)
  BY <1>1, FourAt
<1>3. /\ h \in 0 .. 127 /\ e \in 0 .. 1 /\ s \in 0 .. 7
      /\ j = 2 * h + e /\ s = 4 * e + n
      /\ BitAt(i, j, 4, n) \div 8 = h /\ BitAt(i, j, 4, n) % 8 = s
  BY <1>1, <1>2 DEF InOne
<1>4. PICK p : p = v[1]
  OBVIOUS
<1>5. 2 * h \in Coeffs /\ 2 * h + 1 \in Coeffs
  BY <1>3, SMT DEF Coeffs, KYBER_N
<1>6. PICK x : x = CompressFour(p[2 * h])
  OBVIOUS
<1>7. PICK y : y = CompressFour(p[2 * h + 1])
  OBVIOUS
<1>8. x \in Nat /\ x < 16 /\ y \in Nat /\ y < 16
  BY <1>4, <1>5, <1>6, <1>7, RoundedFits
<1>9. PackCt(b, PolyCompress(v[1]))[960 + h] = x + y * 16
  <2>1. PolyCompress(p)[h] = x + y * 16
    BY <1>3, <1>6, <1>7, SMT DEF PolyCompress
  <2>2. PackCt(b, PolyCompress(p))[960 + h] = PolyCompress(p)[h]
    BY <1>3, SMT DEF PackCt
  <2> QED BY <1>4, <2>1, <2>2
<1>10. Bit(x + y * 16, n) = Bit(x, n) /\ Bit(x + y * 16, 4 + n) = Bit(y, n)
  BY <1>1, <1>8, NibbleBits
<1>11. Bit(x + y * 16, s) = Bit(CompressFour(p[j]), n)
  <2>1. CASE e = 0
    <3>1. s = n /\ j = 2 * h
      BY <1>1, <1>3, <2>1, SMT
    <3> QED BY <1>6, <1>10, <3>1
  <2>2. CASE e = 1
    <3>1. s = 4 + n /\ j = 2 * h + 1
      BY <1>1, <1>3, <2>2, SMT
    <3> QED BY <1>7, <1>10, <3>1
  <2> QED BY <1>3, <2>1, <2>2
<1> QED BY <1>1, <1>3, <1>4, <1>9, <1>11

-----------------------------------------------------------------------------
(* What a procedure returns is written by its last statement. *)

(* A key, the vector and the polynomial of a ciphertext, as they are read. *)
KeyEncoded(bytes, v)    == Bits(bytes, 0, v, 12, LAMBDA u : u % KYBER_Q)
VectorEncoded(bytes, v) == Bits(bytes, 0, v, 10, CompressTen)
PolyEncoded(bytes, v)   == Bits(bytes, 960, v, 4, CompressFour)

Encoded ==
    code = <<>> =>
        /\ step = "keypair" => /\ KeyEncoded(pk.bytes, mem["pkpv"])
                               /\ KeyEncoded(sk.bytes, mem["skpv"])
        /\ step \in {"enc", "reenc"} => /\ VectorEncoded(out, mem["b"])
                                        /\ PolyEncoded(out, mem["v"])

(* That is what the bytes are to be. *)
LEMMA EncodedInOrder == ASSUME Encoded PROVE BitsInOrder
BY Zenon DEF Encoded, BitsInOrder, KeyEncoded, VectorEncoded, PolyEncoded

(* After another statement than the last there is one to come. *)
LEMMA GoesOn ==
    ASSUME KemInv, NEW op, At(op), op \notin Endings
    PROVE  code # <<>> /\ Tail(code) # <<>>
<1>1. PICK i \in Nat : FlowAt(i)
  BY DEF KemInv, Flow
<1> DEFINE p == Proc(step)
           S == {Prog(p)[n] : n \in 1 .. Final(p)}
<1>2. code # <<>> /\ Placed(p, i, op, X, Y, Z)
  BY <1>1, Standing
<1>3. /\ p \in Procedures /\ i \in 1 .. Final(p)
      /\ Tail(code) = SubSeq(Prog(p), i + 1, Final(p))
  BY <1>1, <1>2, AtPlace
<1>4. i # Final(p)
  BY <1>2 DEF Placed
<1>5. Prog(p) \in Seq(S) /\ Len(Prog(p)) = Final(p)
  BY <1>3, ProgTyped
<1>6. Final(p) \in Nat
  BY <1>3, LastNat
<1> HIDE DEF S, p
<1>7. i + 1 \in 1 .. Len(Prog(p)) + 1 /\ i + 1 <= Len(Prog(p))
  BY <1>3, <1>4, <1>5, <1>6, SMT
<1>8. SubSeq(Prog(p), i + 1, Len(Prog(p))) # <<>>
  BY <1>5, <1>7, RestOf
<1> QED BY <1>2, <1>3, <1>5, <1>8

(* So no other statement ends a procedure. *)
LEMMA MoreToCome ==
    ASSUME KemInv, Statement
    PROVE  code' # <<>> \/ PackKeys \/ PackCiphertext \/ ToMsg
<1>1. ASSUME NEW op, At(op), op \notin Endings, code' \in {code, Tail(code)}
      PROVE  code' # <<>>
  BY <1>1, GoesOn
<1>2. CASE SampleBlocks
  <2>1. code' = code /\ code # <<>>
    BY <1>2, Zenon DEF SampleBlocks, At
  <2> QED BY <2>1
<1>3. CASE EntryDone
  <2>1. code' \in {code, Tail(code)}
    BY <1>3 DEF EntryDone
  <2>2. At("gen_a") \/ At("gen_at")
    BY <1>3 DEF EntryDone
  <2> QED BY <1>1, <2>1, <2>2 DEF Endings
<1>4. CASE GetNoise
  BY <1>1, <1>4, Zenon DEF GetNoise, Done, Endings
<1>5. CASE Ntt
  <2>1. code' \in {code, Tail(code)}
    BY <1>5 DEF Ntt, Done
  <2>2. At("ntt")
    BY <1>5 DEF Ntt
  <2> QED BY <1>1, <2>1, <2>2 DEF Endings
<1>6. CASE InvNtt
  <2>1. code' \in {code, Tail(code)}
    BY <1>6 DEF InvNtt, Done
  <2>2. At("invntt")
    BY <1>6 DEF InvNtt
  <2> QED BY <1>1, <2>1, <2>2 DEF Endings
<1>7. CASE Matrix \/ Dot \/ ToMont
  BY <1>1, <1>7, ZenonT(60) DEF Matrix, Dot, ToMont, Done, Endings
<1>8. CASE Add \/ Sub \/ Reduce
  BY <1>1, <1>8, Zenon DEF Add, Sub, Reduce, Done, Endings
<1>9. CASE UnpackPk
  <2>1. At("unpack_pk") /\ code' = Tail(code)
    BY <1>9, Zenon DEF UnpackPk, Done
  <2> QED BY <1>1, <2>1 DEF Endings
<1>10. CASE UnpackSk
  <2>1. At("unpack_sk") /\ code' = Tail(code)
    BY <1>10, SMT DEF UnpackSk, Done
  <2> QED BY <1>1, <2>1 DEF Endings
<1>11. CASE FromMsg
  <2>1. At("frommsg") /\ code' = Tail(code)
    BY <1>11, SMT DEF FromMsg, Done
  <2> QED BY <1>1, <2>1 DEF Endings
<1>12. CASE UnpackB
  BY <1>1, <1>12, Zenon DEF UnpackB, Done, Endings
<1>13. CASE UnpackV
  BY <1>1, <1>13, Zenon DEF UnpackV, Done, Endings
<1> QED BY <1>2, <1>3, <1>4, <1>5, <1>6, <1>7, <1>8, <1>9, <1>12, <1>13, <1>10, <1>11
     DEF Statement

(* A vector below q has representatives that are written. *)
LEMMA BelowQ ==
    ASSUME NEW v, NEW n \in Nat, NEW b \in Nat, Fits(v, n, b), b < KYBER_Q
    PROVE  DOMAIN v = 1 .. n /\ \A i \in 1 .. n : \A j \in Coeffs : v[i][j] \in Reps
<1>1. DOMAIN v = 1 .. n
  BY DEF Fits
<1>2. ASSUME NEW i \in 1 .. n, NEW j \in Coeffs PROVE v[i][j] \in Reps
  <2>1. Within(v[i][j], b)
    BY <1>2 DEF Fits, Bounded
  <2>2. PICK u : u = v[i][j]
    OBVIOUS
  <2>3. KYBER_Q = 3329
    BY DEF KYBER_Q
  <2>4. u \in Int /\ -3329 < u /\ u < 3329
    BY <2>1, <2>2, <2>3, SMT DEF Within
  <2>5. u \in 1 - KYBER_Q .. KYBER_Q - 1
    BY <2>3, <2>4, SMT
  <2> QED BY <2>2, <2>5, Zenon DEF Reps
<1> QED BY <1>1, <1>2

(* The keys are written by the last statement of their procedure. *)
LEMMA KeysEncoded == ASSUME KemInv, PackKeys PROVE Encoded'
<1>1. PICK i \in Nat : FlowAt(i)
  BY DEF KemInv, Flow
<1>2. At("pack_keys") /\ ~At("ntt") /\ ~At("invntt")
  BY DEF PackKeys, At
<1>3. Placed(Proc(step), i, "pack_keys", X, Y, Z)
  BY <1>1, <1>2, Standing
<1> DEFINE a == PolyvecToBytes(mem["pkpv"])
           b == PolyvecToBytes(mem["skpv"])
           p == [bytes |-> a, seed |-> seed]
<1>4. /\ pk' = p /\ sk' = [sk EXCEPT !.bytes = b, !.pk = p, !.h = HashH(p)]
      /\ mem' = mem /\ step' = step
  BY Zenon DEF PackKeys
<1>5. /\ Proc(step) = "keypair" /\ "pkpv" \in Names /\ "skpv" \in Names
      /\ First(Proc(step), "pkpv") < i /\ First(Proc(step), "skpv") < i
      /\ Room(Proc(step), i, "pkpv") < KYBER_Q /\ Room(Proc(step), i, "skpv") < KYBER_Q
  BY <1>3 DEF Placed
<1>6. step = "keypair"
  BY <1>5 DEF Proc
<1>7. /\ Room(Proc(step), i, "pkpv") \in Nat /\ bound["pkpv"] \in Nat
      /\ bound["pkpv"] <= Room(Proc(step), i, "pkpv")
      /\ Fits(mem["pkpv"], Size("pkpv"), bound["pkpv"])
  BY <1>1, <1>2, <1>5, Ready
<1>8. /\ Room(Proc(step), i, "skpv") \in Nat /\ bound["skpv"] \in Nat
      /\ bound["skpv"] <= Room(Proc(step), i, "skpv")
      /\ Fits(mem["skpv"], Size("skpv"), bound["skpv"])
  BY <1>1, <1>2, <1>5, Ready
<1>9. Size("pkpv") = KYBER_K /\ Size("skpv") = KYBER_K /\ KYBER_K \in Nat
  BY DEF Size, KYBER_K
<1>10. bound["pkpv"] < KYBER_Q /\ bound["skpv"] < KYBER_Q
  BY <1>5, <1>7, <1>8, SMT DEF KYBER_Q
<1>11. KeyEncoded(a, mem["pkpv"])
  <2>1. PICK x \in Nat : x = bound["pkpv"]
    BY <1>7
  <2>2. /\ DOMAIN mem["pkpv"] = 1 .. KYBER_K
        /\ \A k \in 1 .. KYBER_K : \A j \in Coeffs : mem["pkpv"][k][j] \in Reps
    BY <1>7, <1>9, <1>10, <2>1, BelowQ
  <2> QED BY <2>2, KeyBits DEF KeyEncoded
<1>12. KeyEncoded(b, mem["skpv"])
  <2>1. PICK x \in Nat : x = bound["skpv"]
    BY <1>8
  <2>2. /\ DOMAIN mem["skpv"] = 1 .. KYBER_K
        /\ \A k \in 1 .. KYBER_K : \A j \in Coeffs : mem["skpv"][k][j] \in Reps
    BY <1>8, <1>9, <1>10, <2>1, BelowQ
  <2> QED BY <2>2, KeyBits DEF KeyEncoded
<1> HIDE DEF a, b
<1>13. pk'.bytes = a
  BY <1>4
<1>14. sk'.bytes = b
  <2>1. DOMAIN sk = {"bytes", "pk", "h", "z"}
    BY DEF KemInv, Bytes
  <2> QED BY <1>4, <2>1
<1> QED BY <1>4, <1>6, <1>11, <1>12, <1>13, <1>14 DEF Encoded

(* So is the ciphertext. *)
LEMMA CiphertextEncoded == ASSUME KemInv, PackCiphertext PROVE Encoded'
<1>1. PICK i \in Nat : FlowAt(i)
  BY DEF KemInv, Flow
<1>2. At("pack_ciphertext") /\ ~At("ntt") /\ ~At("invntt")
  BY DEF PackCiphertext, At
<1>3. Placed(Proc(step), i, "pack_ciphertext", X, Y, Z)
  BY <1>1, <1>2, Standing
<1>4. /\ out' = PackCt(PolyvecCompress(mem["b"]), PolyCompress(mem["v"][1]))
      /\ mem' = mem /\ step' = step
  BY Zenon DEF PackCiphertext
<1>5. /\ Proc(step) = "enc" /\ "b" \in Names /\ "v" \in Names
      /\ First(Proc(step), "b") < i /\ First(Proc(step), "v") < i
      /\ Room(Proc(step), i, "b") < KYBER_Q /\ Room(Proc(step), i, "v") < KYBER_Q
  BY <1>3 DEF Placed
<1>6. step # "keypair"
  BY <1>5 DEF Proc
<1>7. /\ Room(Proc(step), i, "b") \in Nat /\ bound["b"] \in Nat
      /\ bound["b"] <= Room(Proc(step), i, "b")
      /\ Fits(mem["b"], Size("b"), bound["b"])
  BY <1>1, <1>2, <1>5, Ready
<1>8. /\ Room(Proc(step), i, "v") \in Nat /\ bound["v"] \in Nat
      /\ bound["v"] <= Room(Proc(step), i, "v")
      /\ Fits(mem["v"], Size("v"), bound["v"])
  BY <1>1, <1>2, <1>5, Ready
<1>9. Size("b") = KYBER_K /\ Size("v") = 1 /\ KYBER_K \in Nat
  BY DEF Size, KYBER_K
<1>10. bound["b"] < KYBER_Q /\ bound["v"] < KYBER_Q
  BY <1>5, <1>7, <1>8, SMT DEF KYBER_Q
<1>11. VectorEncoded(out', mem["b"])
  <2>1. PICK x \in Nat : x = bound["b"]
    BY <1>7
  <2>2. /\ DOMAIN mem["b"] = 1 .. KYBER_K
        /\ \A k \in 1 .. KYBER_K : \A j \in Coeffs : mem["b"][k][j] \in Reps
    BY <1>7, <1>9, <1>10, <2>1, BelowQ
  <2>3. PICK c : c = PolyCompress(mem["v"][1])
    OBVIOUS
  <2>4. VectorEncoded(PackCt(PolyvecCompress(mem["b"]), c), mem["b"])
    BY <2>2, VectorBits DEF VectorEncoded
  <2> QED BY <1>4, <2>3, <2>4
<1>12. PolyEncoded(out', mem["v"])
  <2>1. PICK x \in Nat : x = bound["v"]
    BY <1>8
  <2>2. /\ DOMAIN mem["v"] = 1 .. 1
        /\ \A k \in 1 .. 1 : \A j \in Coeffs : mem["v"][k][j] \in Reps
    BY <1>8, <1>9, <1>10, <2>1, BelowQ
  <2>3. \A j \in Coeffs : mem["v"][1][j] \in Reps
    BY <2>2
  <2>4. PICK c : c = PolyvecCompress(mem["b"])
    OBVIOUS
  <2>5. PolyEncoded(PackCt(c, PolyCompress(mem["v"][1])), mem["v"])
    BY <2>2, <2>3, PolyBits DEF PolyEncoded
  <2> QED BY <1>4, <2>4, <2>5
<1> QED BY <1>4, <1>6, <1>11, <1>12 DEF Encoded

(* Every step keeps what is written. *)
LEMMA EncodedKept == ASSUME KemInv, Encoded, [Next]_vars PROVE Encoded'
<1>1. CASE UNCHANGED vars
  BY <1>1, Zenon DEF vars, keys, Encoded
<1>2. CASE Statement
  <2>1. CASE code' # <<>>
    BY <2>1 DEF Encoded
  <2>2. CASE PackKeys
    BY <2>2, KeysEncoded
  <2>3. CASE PackCiphertext
    BY <2>3, CiphertextEncoded
  <2>4. CASE ToMsg
    <3>1. PICK i \in Nat : FlowAt(i)
      BY DEF KemInv, Flow
    <3>2. At("tomsg") /\ step' = step
      BY <2>4, Zenon DEF ToMsg
    <3>3. Proc(step) = "dec"
      BY <3>1, <3>2, Standing DEF Placed
    <3>4. step' = "dec"
      BY <3>2, <3>3 DEF Proc
    <3> QED BY <3>4 DEF Encoded
  <2> QED BY <1>2, <2>1, <2>2, <2>3, <2>4, MoreToCome
<1>3. CASE Encapsulate \/ Transmit \/ Reencrypt
  <2>1. code' = IndcpaEnc \/ code' = IndcpaDec
    BY <1>3, Zenon DEF Encapsulate, Transmit, Reencrypt, Call
  <2>2. IndcpaEnc # <<>> /\ IndcpaDec # <<>>
    BY DEF IndcpaEnc, IndcpaDec
  <2> QED BY <2>1, <2>2 DEF Encoded
<1>4. CASE Decapsulated
  <2>1. step' = "done"
    BY <1>4 DEF Decapsulated
  <2> QED BY <2>1 DEF Encoded
<1> QED BY <1>1, <1>2, <1>3, <1>4 DEF Next

(* Keys and ciphertexts are written as FIPS 203 has them, whatever the streams,
   the coins and the messages: every coefficient is rounded to the nearest,
   and its bits stand where the other implementation reads them. *)
THEOREM WireFormatHolds ==
    ASSUME StreamsOfBytes PROVE Spec => []WireFormat
<1>1. Init => Encoded
  <2>1. IndcpaKeypair # <<>>
    BY DEF IndcpaKeypair
  <2> QED BY <2>1 DEF Init, Encoded
<1>2. KemInv /\ Encoded /\ [Next]_vars => Encoded'
  BY EncodedKept
<1>3. Spec => []KemInv
  BY KemAlways
<1>4. Encoded => WireFormat
  BY EncodedInOrder, RoundsHold DEF WireFormat
<1> QED BY <1>1, <1>2, <1>3, <1>4, PTL DEF Spec

-----------------------------------------------------------------------------
(* The hash contexts.  A lane is 64 bits, a state 25 lanes. *)

Word  == SUBSET Bits64
State == [Lanes -> Word]

(* The message is bytes. *)
MessageOfBytes == \A i \in Nat : ByteAt(i) \subseteq 0 .. 7

LEMMA XorTyped == ASSUME NEW a \in Word, NEW b \in Word PROVE Xor(a, b) \in Word
BY DEF Xor, Word

LEMMA ROLTyped == ASSUME NEW a \in Word, NEW n \in Nat PROVE ROL(a, n) \in Word
<1>1. \A i \in a : (i + n) % 64 \in 0 .. 63
  <2> SUFFICES ASSUME NEW i \in a PROVE (i + n) % 64 \in 0 .. 63
    OBVIOUS
  <2>1. i \in Int
    BY DEF Word, Bits64
  <2> QED BY <2>1
<1> QED BY <1>1 DEF ROL, Word, Bits64

(* What the round reads: a lane, how far it is turned, and a constant. *)
LEMMA SourceTyped ==
    ASSUME NEW r \in 1 .. 5, NEW c \in 1 .. 5
    PROVE  Sources[r][c] \in Lanes /\ Offsets[r][c] \in Nat
<1>1. CASE r = 1
  BY <1>1 DEF Sources, Offsets, Lanes
<1>2. CASE r = 2
  BY <1>2 DEF Sources, Offsets, Lanes
<1>3. CASE r = 3
  BY <1>3 DEF Sources, Offsets, Lanes
<1>4. CASE r = 4
  BY <1>4 DEF Sources, Offsets, Lanes
<1>5. CASE r = 5
  BY <1>5 DEF Sources, Offsets, Lanes
<1> QED BY <1>1, <1>2, <1>3, <1>4, <1>5

LEMMA ConstantTyped == \A n \in 1 .. 24 : KeccakF_RoundConstants[n] \in Word
<1> SUFFICES ASSUME NEW n \in 1 .. 24, NEW b \in KeccakF_RoundConstants[n]
             PROVE  b \in 0 .. 63
  BY DEF Word, Bits64
<1> QED BY SMTT(60) DEF KeccakF_RoundConstants

LEMMA ValueIs == \A e : Value(e) = e
BY DEF Value

LEMMA RoundTyped ==
    ASSUME NEW A \in State, NEW n \in 0 .. 23
    PROVE  Round(A, n) \in State
<1>1. PICK P : P = Parity(A)
  OBVIOUS
<1>2. P \in [0 .. 4 -> Word]
  <2>1. \A x \in 0 .. 4 : /\ A[x] \in Word /\ A[x + 5] \in Word /\ A[x + 10] \in Word
                          /\ A[x + 15] \in Word /\ A[x + 20] \in Word
    BY DEF State, Lanes
  <2>2. \A x \in 0 .. 4 :
           Xor(Xor(Xor(Xor(A[x], A[x + 5]), A[x + 10]), A[x + 15]), A[x + 20]) \in Word
    BY <2>1, XorTyped, Zenon
  <2> QED BY <1>1, <2>2, Zenon DEF Parity
<1>3. PICK d : d = D(P)
  OBVIOUS
<1>4. d \in [0 .. 4 -> Word]
  <2>1. \A x \in 0 .. 4 : (x + 4) % 5 \in 0 .. 4 /\ (x + 1) % 5 \in 0 .. 4
    OBVIOUS
  <2>2. 1 \in Nat
    OBVIOUS
  <2>3. \A x \in 0 .. 4 : Xor(P[(x + 4) % 5], ROL(P[(x + 1) % 5], 1)) \in Word
    BY <1>2, <2>1, <2>2, XorTyped, ROLTyped, Zenon
  <2> QED BY <1>3, <2>3, Zenon DEF D
<1>5. PICK B : B = Turned(A, d)
  OBVIOUS
<1>6. B \in State
  <2> SUFFICES ASSUME NEW l \in Lanes
      PROVE  LET from == Sources[l \div 5 + 1][(l % 5) + 1]
             IN  ROL(Xor(A[from], d[from % 5]), Offsets[l \div 5 + 1][(l % 5) + 1]) \in Word
    BY <1>5, Zenon DEF Turned, State
  <2>1. PICK r \in 1 .. 5, c \in 1 .. 5 : r = l \div 5 + 1 /\ c = (l % 5) + 1
    BY DEF Lanes
  <2>2. PICK from \in Lanes, n0 \in Nat : from = Sources[r][c] /\ n0 = Offsets[r][c]
    BY SourceTyped
  <2>3. A[from] \in Word /\ d[from % 5] \in Word
    <3>1. from % 5 \in 0 .. 4
      BY DEF Lanes
    <3> QED BY <1>4, <3>1 DEF State
  <2>4. ROL(Xor(A[from], d[from % 5]), n0) \in Word
    BY <2>3, XorTyped, ROLTyped
  <2> QED BY <2>1, <2>2, <2>4, Zenon
<1>7. Mixed(B, n) \in State
  <2> SUFFICES ASSUME NEW l \in Lanes
      PROVE  LET next(k) == B[5 * (l \div 5) + ((l + k) % 5)]
                 chi     == Xor(B[l], next(2) \ next(1))
             IN  (IF l = 0 THEN Xor(chi, KeccakF_RoundConstants[n + 1]) ELSE chi) \in Word
    BY Zenon DEF Mixed, State
  <2>1. PICK i \in Lanes : i = 5 * (l \div 5) + ((l + 2) % 5)
    BY DEF Lanes
  <2>2. PICK j \in Lanes : j = 5 * (l \div 5) + ((l + 1) % 5)
    BY DEF Lanes
  <2>3. B[l] \in Word /\ B[i] \ B[j] \in Word
    BY <1>6 DEF State, Word
  <2>4. Xor(B[l], B[i] \ B[j]) \in Word
    BY <2>3, XorTyped
  <2>5. KeccakF_RoundConstants[n + 1] \in Word
    BY ConstantTyped
  <2>6. Xor(Xor(B[l], B[i] \ B[j]), KeccakF_RoundConstants[n + 1]) \in Word
    BY <2>4, <2>5, XorTyped
  <2> QED BY <2>1, <2>2, <2>4, <2>6, Zenon
<1> QED BY <1>1, <1>3, <1>5, <1>7, ValueIs, ZenonT(60) DEF Round

(* The permutation runs an even number of rounds. *)
Evens == {2 * n : n \in 0 .. 12}

LEMMA TwoRoundsTyped ==
    ASSUME NEW A \in State, NEW n \in Evens, n # 24
    PROVE  TwoRounds(A, n) \in State /\ n + 2 \in Evens
<1>1. n \in 0 .. 23 /\ n + 1 \in 0 .. 23 /\ n + 2 \in Evens
  <2>1. PICK m \in 0 .. 12 : n = 2 * m
    BY DEF Evens
  <2>2. m + 1 \in 0 .. 12 /\ n + 2 = 2 * (m + 1)
    BY <2>1
  <2> QED BY <2>1, <2>2 DEF Evens
<1> QED BY <1>1, RoundTyped DEF TwoRounds
-----------------------------------------------------------------------------
(* Bytes of a lane. *)

(* The bits byte number k of the state has in its lane. *)
Shifted(k, B) == {8 * (k % 8) + b : b \in B}

(* The bits that the bytes K of the state have in lane l, when byte k is B(k). *)
Own(l) == 8 * l .. 8 * l + 7

(* Those of n bytes of the message, from byte number first on. *)
Message(l, first, n) ==
    UNION {Shifted(k, ByteAt(first + k)) : k \in (0 .. n - 1) \cap Own(l)}

(* Those of m bytes behind these. *)
Later(l, first, n, m) ==
    UNION {Shifted(k, ByteAt(first + k)) : k \in (n .. n + m - 1) \cap Own(l)}

(* A bit has one place. *)
LEMMA OwnBytes ==
    ASSUME NEW l \in Lanes, NEW k \in Own(l)
    PROVE  k \in Nat /\ k % 8 \in 0 .. 7 /\ k = 8 * l + (k % 8)
<1>1. l \in 0 .. 24 /\ k \in 8 * l .. 8 * l + 7
  BY DEF Lanes, Own
<1>2. PICK m \in Int : m = k - 8 * l
  BY <1>1
<1>3. k \in Nat /\ m \in 0 .. 7 /\ k = 8 * l + m
  BY <1>1, <1>2
<1>4. k % 8 = m
  BY <1>1, <1>3
<1> QED BY <1>3, <1>4, Zenon

LEMMA Places ==
    ASSUME NEW l \in Lanes, NEW k \in Own(l), NEW b \in 0 .. 7
    PROVE  /\ 8 * (k % 8) + b \in 0 .. 63
           /\ (8 * k + b) \div 64 = l /\ (8 * k + b) % 64 = 8 * (k % 8) + b
<1>1. l \in 0 .. 24
  BY DEF Lanes
<1>2. PICK m \in 0 .. 7 : m = k % 8 /\ k = 8 * l + m
  <2>1. k % 8 \in 0 .. 7 /\ k = 8 * l + (k % 8)
    BY OwnBytes, Zenon
  <2> QED BY <2>1, Zenon
<1>3. PICK w \in 0 .. 63 : w = 8 * m + b
  BY <1>2
<1>4. (64 * l + w) \div 64 = l /\ (64 * l + w) % 64 = w
  BY <1>1
<1>5. 8 * k + b = 64 * l + w
  BY <1>1, <1>2, <1>3
<1>6. 8 * (k % 8) + b = w
  BY <1>2, <1>3
<1> QED BY <1>4, <1>5, <1>6

LEMMA OnePlace ==
    ASSUME NEW l \in Lanes, NEW k \in Own(l), NEW j \in Own(l),
           NEW b \in 0 .. 7, NEW c \in 0 .. 7,
           8 * (k % 8) + b = 8 * (j % 8) + c
    PROVE  k = j /\ b = c
<1>1. PICK m \in 0 .. 7, n \in 0 .. 7 : /\ m = k % 8 /\ k = 8 * l + m
                                       /\ n = j % 8 /\ j = 8 * l + n
  <2>1. /\ k % 8 \in 0 .. 7 /\ k = 8 * l + (k % 8)
        /\ j % 8 \in 0 .. 7 /\ j = 8 * l + (j % 8)
    BY OwnBytes, Zenon
  <2> QED BY <2>1, Zenon
<1>3. 8 * m + b = 8 * n + c
  BY <1>1
<1>4. m = n /\ b = c
  BY <1>3
<1> QED BY <1>1, <1>4

(* The byte of a lane that a bit outside it belongs to. *)
LEMMA InLane ==
    ASSUME NEW l \in Lanes, NEW k \in Nat, NEW b \in 0 .. 7
    PROVE  (8 * k + b) \div 64 = l <=> k \in Own(l)
<1>1. l \in 0 .. 24
  BY DEF Lanes
<1> QED BY <1>1 DEF Own

(* Bits of different bytes are different. *)
LEMMA Apart ==
    ASSUME NEW l \in Lanes, NEW k \in Own(l), NEW j \in Own(l), k # j,
           NEW B \in SUBSET (0 .. 7), NEW C \in SUBSET (0 .. 7)
    PROVE  Shifted(k, B) \cap Shifted(j, C) = {}
<1> SUFFICES ASSUME NEW b \in B, NEW c \in C, 8 * (k % 8) + b = 8 * (j % 8) + c
             PROVE  FALSE
  BY Zenon DEF Shifted
<1>1. b \in 0 .. 7 /\ c \in 0 .. 7
  OBVIOUS
<1> QED BY <1>1, OnePlace

(* Exclusive or with what is apart is a union. *)
LEMMA XorApart ==
    ASSUME NEW a, NEW b, NEW c, b \cap c = {}
    PROVE  Xor(Xor(a, b), c) = Xor(a, b \cup c)
BY Zenon DEF Xor

LEMMA XorNothing == ASSUME NEW a PROVE Xor(a, {}) = a
BY Zenon DEF Xor

LEMMA ShiftedTyped ==
    ASSUME NEW l \in Lanes, NEW k \in Own(l), NEW B \in SUBSET (0 .. 7)
    PROVE  Shifted(k, B) \in Word
<1>1. \A b \in B : 8 * (k % 8) + b \in 0 .. 63
  BY Places
<1> QED BY <1>1, Zenon DEF Shifted, Word, Bits64

(* The message goes on. *)
LEMMA MessageMore ==
    ASSUME MessageOfBytes, NEW l \in Lanes, NEW first \in Nat, NEW n \in Nat, NEW m \in Nat
    PROVE  /\ Message(l, first, n) \cap Later(l, first, n, m) = {}
           /\ Message(l, first, n) \cup Later(l, first, n, m) = Message(l, first, n + m)
<1> DEFINE A == (0 .. n - 1) \cap Own(l)
           B == (n .. n + m - 1) \cap Own(l)
           C == (0 .. n + m - 1) \cap Own(l)
           Part(K) == UNION {Shifted(k, ByteAt(first + k)) : k \in K}
<1>1. A \cap B = {} /\ A \cup B = C
  BY DEF Own, Lanes
<1>2. ASSUME NEW k \in A, NEW j \in B
      PROVE  Shifted(k, ByteAt(first + k)) \cap Shifted(j, ByteAt(first + j)) = {}
  <2>1. k \in Own(l) /\ j \in Own(l) /\ k # j
    BY <1>1
  <2>2. first + k \in Nat /\ first + j \in Nat
    BY DEF Own, Lanes
  <2>3. ByteAt(first + k) \in SUBSET (0 .. 7) /\ ByteAt(first + j) \in SUBSET (0 .. 7)
    BY <2>2, Zenon DEF MessageOfBytes
  <2> QED BY <2>1, <2>3, Apart
<1> HIDE DEF A, B, C
<1>3. Part(A) \cap Part(B) = {}
  <2> SUFFICES ASSUME NEW x \in Part(A), x \in Part(B) PROVE FALSE
    BY Zenon
  <2>1. PICK k \in A : x \in Shifted(k, ByteAt(first + k))
    BY Zenon
  <2>2. PICK j \in B : x \in Shifted(j, ByteAt(first + j))
    BY Zenon
  <2> QED BY <1>2, <2>1, <2>2, Zenon
<1>4. Part(A) \cup Part(B) = Part(C)
  BY <1>1, Zenon
<1> QED BY <1>3, <1>4 DEF A, B, C, Message, Later

LEMMA MessageNone == \A l, first : Message(l, first, 0) = {}
<1>1. 0 .. 0 - 1 = {}
  OBVIOUS
<1> QED BY <1>1, Zenon DEF Message

(* XorBytes, lane by lane. *)
LEMMA MessageTyped ==
    ASSUME MessageOfBytes, NEW l \in Lanes, NEW first \in Nat, NEW n \in Nat, NEW lo \in Nat
    PROVE  UNION {Shifted(k, ByteAt(first + k)) : k \in (lo .. n - 1) \cap Own(l)} \in Word
<1>1. ASSUME NEW k \in (lo .. n - 1) \cap Own(l)
      PROVE  Shifted(k, ByteAt(first + k)) \in Word
  <2>1. first + k \in Nat /\ k \in Own(l)
    BY DEF Own, Lanes
  <2>2. ByteAt(first + k) \in SUBSET (0 .. 7)
    BY <2>1, Zenon DEF MessageOfBytes
  <2> QED BY <2>1, <2>2, ShiftedTyped
<1> QED BY <1>1, Zenon DEF Word
-----------------------------------------------------------------------------
(* What a state has absorbed, and what its last block is. *)

(* s after n bytes of the message, from byte number first on, behind a full
   block. *)
Fed(s, first, n) == [l \in Lanes |-> Xor(s[l], Message(l, first, n))]

(* Byte number k of a last block of n bytes. *)
LastByte(a, first, n, k) ==
    (IF k < n THEN ByteAt(first + k) ELSE IF k = n THEN a.p ELSE {})
        \cup (IF k = a.rate - 1 THEN {7} ELSE {})

Closed(a, s, first, n) ==
    [l \in Lanes |-> Xor(s[l], UNION {Shifted(k, LastByte(a, first, n, k)) :
                                         k \in (0 .. a.rate - 1) \cap Own(l)})]

LEMMA FedIs ==
    \A s, first, n :
        XorBytes(s, 0 .. n - 1, LAMBDA k : ByteAt(first + k)) = Fed(s, first, n)
BY Zenon DEF XorBytes, Fed, Message, Shifted, Own

LEMMA FedNone == ASSUME NEW s \in State, NEW first PROVE Fed(s, first, 0) = s
<1>1. \A l \in Lanes : Xor(s[l], Message(l, first, 0)) = s[l]
  BY MessageNone, XorNothing
<1>2. s = [l \in Lanes |-> s[l]]
  BY DEF State
<1> QED BY <1>1, <1>2 DEF Fed

LEMMA FedMore ==
    ASSUME MessageOfBytes, NEW s, NEW first \in Nat, NEW n \in Nat, NEW m \in Nat,
           lanes = Fed(s, first, n), pos = n, absorbed = first + n
    PROVE  AbsorbAt(m) = Fed(s, first, n + m)
<1>1. ASSUME NEW l \in Lanes
      PROVE  UNION {Shifted(k, ByteAt(absorbed + k - pos)) :
                       k \in (pos .. pos + m - 1) \cap Own(l)} = Later(l, first, n, m)
  <2> DEFINE S == (n .. n + m - 1) \cap Own(l)
             F(k) == Shifted(k, ByteAt(absorbed + k - pos))
             G(k) == Shifted(k, ByteAt(first + k))
  <2>1. ASSUME NEW k \in S PROVE F(k) = G(k)
    <3>1. k \in Int
      OBVIOUS
    <3>2. absorbed + k - pos = first + k
      BY <3>1
    <3> QED BY <3>2
  <2> HIDE DEF S, F, G
  <2>2. {F(k) : k \in S} = {G(k) : k \in S}
    BY <2>1
  <2> QED BY <2>2 DEF S, F, G, Later
<1>2. AbsorbAt(m) = [l \in Lanes |-> Xor(lanes[l],
          UNION {Shifted(k, ByteAt(absorbed + k - pos)) :
                    k \in (pos .. pos + m - 1) \cap Own(l)})]
  BY Zenon DEF AbsorbAt, XorBytes, Shifted, Own
<1>3. ASSUME NEW l \in Lanes
      PROVE  Xor(lanes[l], Later(l, first, n, m)) = Xor(s[l], Message(l, first, n + m))
  <2>1. lanes[l] = Xor(s[l], Message(l, first, n))
    BY Zenon DEF Fed
  <2>2. Message(l, first, n) \cap Later(l, first, n, m) = {}
        /\ Message(l, first, n) \cup Later(l, first, n, m) = Message(l, first, n + m)
    BY MessageMore
  <2>3. PICK u, v, w : /\ u = s[l] /\ v = Message(l, first, n)
                       /\ w = Later(l, first, n, m)
    OBVIOUS
  <2>4. Xor(Xor(u, v), w) = Xor(u, v \cup w)
    BY <2>2, <2>3, XorApart
  <2> QED BY <2>1, <2>2, <2>3, <2>4, Zenon
<1>4. AbsorbAt(m) = [l \in Lanes |-> Xor(lanes[l], Later(l, first, n, m))]
  BY <1>1, <1>2
<1> QED BY <1>3, <1>4 DEF Fed

(* The bits of lane l among those of bytes. *)
LEMMA LaneOf ==
    ASSUME NEW l \in Lanes, NEW K \in SUBSET Nat, NEW f \in [K -> SUBSET (0 .. 7)]
    PROVE  {i % 64 : i \in {o \in UNION {{8 * k + b : b \in f[k]} : k \in K} :
                               o \div 64 = l}}
             = UNION {Shifted(k, f[k]) : k \in K \cap Own(l)}
<1> DEFINE ones == UNION {{8 * k + b : b \in f[k]} : k \in K}
           A == {i % 64 : i \in {o \in ones : o \div 64 = l}}
           B == UNION {Shifted(k, f[k]) : k \in K \cap Own(l)}
<1>1. ASSUME NEW x \in A PROVE x \in B
  <2>1. PICK o \in ones : o \div 64 = l /\ x = o % 64
    BY Zenon
  <2>2. PICK k \in K : \E b \in f[k] : o = 8 * k + b
    BY Zenon
  <2>3. PICK b \in f[k] : o = 8 * k + b
    BY <2>2, Zenon
  <2>4. k \in Nat /\ b \in 0 .. 7
    OBVIOUS
  <2>5. k \in Own(l)
    BY <2>1, <2>3, <2>4, InLane
  <2>6. x = 8 * (k % 8) + b
    BY <2>1, <2>3, <2>4, <2>5, Places
  <2>7. x \in Shifted(k, f[k])
    BY <2>3, <2>6, Zenon DEF Shifted
  <2> QED BY <2>5, <2>7, Zenon
<1>2. ASSUME NEW x \in B PROVE x \in A
  <2>1. PICK k \in K \cap Own(l) : x \in Shifted(k, f[k])
    BY Zenon
  <2>2. PICK b \in f[k] : x = 8 * (k % 8) + b
    BY <2>1, Zenon DEF Shifted
  <2>3. k \in Nat /\ b \in 0 .. 7
    OBVIOUS
  <2>4. (8 * k + b) \div 64 = l /\ (8 * k + b) % 64 = x
    BY <2>2, <2>3, Places
  <2>5. 8 * k + b \in {8 * k + c : c \in f[k]}
    BY Zenon
  <2>6. 8 * k + b \in ones
    BY <2>5
  <2> QED BY <2>4, <2>6, Zenon
<1> QED BY <1>1, <1>2, Zenon
-----------------------------------------------------------------------------
(* The last block. *)

(* The algorithm is one of fips202.c. *)
LEMMA AlgTyped ==
    ASSUME alg \in Algorithms
    PROVE  /\ rate \in Rates /\ rate \in Nat /\ 0 < rate
           /\ alg.p \in SUBSET (0 .. 4) /\ alg.p \in SUBSET (0 .. 7)
           /\ alg.api \in {"inc", "block"} /\ alg.outlen \in Nat
           /\ Pieces(rate) \subseteq Nat
<1>1. rate \in Rates /\ alg.p \in {SHAKE, SHA3} /\ alg.api \in {"inc", "block"}
      /\ alg.outlen \in Nat
  BY SpongeAssumption DEF rate
<1>2. Pieces(rate) \subseteq Nat
  BY <1>1, SpongeAssumption
<1>3. rate \in Nat /\ 0 < rate
  BY <1>1 DEF Rates
<1>4. alg.p \in SUBSET (0 .. 4) /\ alg.p \in SUBSET (0 .. 7)
  BY <1>1 DEF SHAKE, SHA3
<1> QED BY <1>1, <1>2, <1>3, <1>4

LEMMA LastByteTyped ==
    ASSUME MessageOfBytes, alg \in Algorithms, NEW first \in Nat, NEW n \in Nat, NEW k \in Nat
    PROVE  LastByte(alg, first, n, k) \in SUBSET (0 .. 7)
<1>1. first + k \in Nat
  OBVIOUS
<1>2. ByteAt(first + k) \in SUBSET (0 .. 7)
  BY <1>1, Zenon DEF MessageOfBytes
<1>3. 7 \in 0 .. 7
  OBVIOUS
<1> QED BY <1>2, <1>3, AlgTyped, Zenon DEF LastByte, rate

LEMMA ClosedBlock ==
    ASSUME NEW n \in Nat
    PROVE  XorBytes(lanes, 0 .. rate - 1, LAMBDA k : LastBlock(k, n)) = Closed(alg, lanes, absorbed, n)
<1>1. ASSUME NEW l \in Lanes
      PROVE  UNION {Shifted(k, LastBlock(k, n)) : k \in (0 .. rate - 1) \cap Own(l)}
               = UNION {Shifted(k, LastByte(alg, absorbed, n, k)) : k \in (0 .. rate - 1) \cap Own(l)}
  <2> DEFINE S == (0 .. rate - 1) \cap Own(l)
             F(k) == Shifted(k, LastBlock(k, n))
             G(k) == Shifted(k, LastByte(alg, absorbed, n, k))
  <2>1. ASSUME NEW k \in S PROVE F(k) = G(k)
    <3>1. k \in Int
      OBVIOUS
    <3>2. LastBlock(k, n) = LastByte(alg, absorbed, n, k)
      <4>1. CASE k < n
        BY <3>1, <4>1, SMT DEF LastBlock, LastByte, rate
      <4>2. CASE k = n
        BY <3>1, <4>2, SMT DEF LastBlock, LastByte, rate
      <4>3. CASE k > n
        BY <3>1, <4>3, SMT DEF LastBlock, LastByte, rate
      <4> QED BY <3>1, <4>1, <4>2, <4>3
    <3> QED BY <3>2
  <2> HIDE DEF S, F, G
  <2>2. {F(k) : k \in S} = {G(k) : k \in S}
    BY <2>1
  <2> QED BY <2>2 DEF S, F, G
<1>2. XorBytes(lanes, 0 .. rate - 1, LAMBDA k : LastBlock(k, n)) =
        [l \in Lanes |-> Xor(lanes[l],
            UNION {Shifted(k, LastBlock(k, n)) : k \in (0 .. rate - 1) \cap Own(l)})]
  BY Zenon DEF XorBytes, Shifted, Own
<1> QED BY <1>1, <1>2 DEF Closed, rate

LEMMA ClosedInc ==
    ASSUME MessageOfBytes, alg \in Algorithms, NEW s, NEW first \in Nat, NEW n \in Nat,
           n < rate, lanes = Fed(s, first, n), pos = n
    PROVE  XorBytes(XorBytes(lanes, {pos}, LAMBDA k : alg.p), {rate - 1}, LAMBDA k : {7})
             = Closed(alg, s, first, n)
<1> DEFINE U(l) == UNION {Shifted(k, alg.p) : k \in {n} \cap Own(l)}
           V(l) == UNION {Shifted(k, {7}) : k \in {rate - 1} \cap Own(l)}
           W(l) == UNION {Shifted(k, LastByte(alg, first, n, k)) : k \in (0 .. rate - 1) \cap Own(l)}
<1>0. rate \in Nat /\ 0 < rate /\ alg.p \in SUBSET (0 .. 4) /\ alg.p \in SUBSET (0 .. 7)
  BY AlgTyped
<1>1. XorBytes(XorBytes(lanes, {pos}, LAMBDA k : alg.p), {rate - 1}, LAMBDA k : {7})
        = [l \in Lanes |-> Xor(Xor(lanes[l], U(l)), V(l))]
  BY Zenon DEF XorBytes, Shifted, Own
<1>2. ASSUME NEW l \in Lanes
      PROVE  /\ Message(l, first, n) \cap U(l) = {}
             /\ (Message(l, first, n) \cup U(l)) \cap V(l) = {}
             /\ Message(l, first, n) \cup U(l) \cup V(l) = W(l)
  <2>1. ASSUME NEW x \in Message(l, first, n)
        PROVE  \E k \in Own(l) : /\ k \in 0 .. n - 1 /\ first + k \in Nat
                                 /\ ByteAt(first + k) \in SUBSET (0 .. 7)
                                 /\ x \in Shifted(k, ByteAt(first + k))
    <3>1. PICK k \in (0 .. n - 1) \cap Own(l) : x \in Shifted(k, ByteAt(first + k))
      BY <2>1, Zenon DEF Message
    <3>2. first + k \in Nat
      OBVIOUS
    <3> QED BY <3>1, <3>2, Zenon DEF MessageOfBytes
  <2>2. \A x \in U(l) : n \in Own(l) /\ x \in Shifted(n, alg.p)
    OBVIOUS
  <2>3. \A x \in V(l) : rate - 1 \in Own(l) /\ x \in Shifted(rate - 1, {7})
    OBVIOUS
  <2> HIDE DEF U, V
  <2>4. Message(l, first, n) \cap U(l) = {}
    <3> SUFFICES ASSUME NEW x \in Message(l, first, n), x \in U(l) PROVE FALSE
      BY Zenon
    <3>1. PICK k \in Own(l) : /\ k \in 0 .. n - 1 /\ ByteAt(first + k) \in SUBSET (0 .. 7)
                              /\ x \in Shifted(k, ByteAt(first + k))
      BY <2>1
    <3>2. k # n
      BY <3>1
    <3> QED BY <1>0, <2>2, <3>1, <3>2, Apart, Zenon
  <2>5. \A x \in Message(l, first, n) : x \notin V(l)
    <3> SUFFICES ASSUME NEW x \in Message(l, first, n), x \in V(l) PROVE FALSE
      BY Zenon
    <3>1. PICK k \in Own(l) : /\ k \in 0 .. n - 1 /\ ByteAt(first + k) \in SUBSET (0 .. 7)
                              /\ x \in Shifted(k, ByteAt(first + k))
      BY <2>1
    <3>2. k # rate - 1 /\ {7} \in SUBSET (0 .. 7)
      BY <1>0, <3>1
    <3> QED BY <2>3, <3>1, <3>2, Apart, Zenon
  <2>6. \A x \in U(l) : x \notin V(l)
    <3> SUFFICES ASSUME NEW x \in U(l), x \in V(l) PROVE FALSE
      BY Zenon
    <3>1. n \in Own(l) /\ rate - 1 \in Own(l)
          /\ x \in Shifted(n, alg.p) /\ x \in Shifted(rate - 1, {7})
      BY <2>2, <2>3
    <3>2. PICK b \in alg.p : x = 8 * (n % 8) + b
      BY <3>1, Zenon DEF Shifted
    <3>3. x = 8 * ((rate - 1) % 8) + 7
      BY <3>1, Zenon DEF Shifted
    <3>4. b \in 0 .. 7 /\ b # 7 /\ 7 \in 0 .. 7
      BY <1>0
    <3>5. 8 * (n % 8) + b = 8 * ((rate - 1) % 8) + 7
      BY <3>2, <3>3, Zenon
    <3>6. \A k, j \in Own(l), c, d \in 0 .. 7 :
             8 * (k % 8) + c = 8 * (j % 8) + d => c = d
      BY OnePlace
    <3> QED BY <3>1, <3>4, <3>5, <3>6, Zenon
  <2>7. ASSUME NEW x \in Message(l, first, n) PROVE x \in W(l)
    <3>1. PICK k \in Own(l) : k \in 0 .. n - 1 /\ x \in Shifted(k, ByteAt(first + k))
      BY <2>1, <2>7
    <3>2. k \in (0 .. rate - 1) \cap Own(l) /\ k < n
      BY <1>0, <3>1
    <3>3. ByteAt(first + k) \subseteq LastByte(alg, first, n, k)
      BY <3>2 DEF LastByte, rate
    <3>4. x \in Shifted(k, LastByte(alg, first, n, k))
      BY <3>1, <3>3, Zenon DEF Shifted
    <3> QED BY <3>2, <3>4
  <2>8. ASSUME NEW x \in U(l) PROVE x \in W(l)
    <3>1. n \in (0 .. rate - 1) \cap Own(l) /\ x \in Shifted(n, alg.p)
      BY <1>0, <2>2, <2>8
    <3>2. alg.p \subseteq LastByte(alg, first, n, n)
      BY DEF LastByte, rate
    <3>3. x \in Shifted(n, LastByte(alg, first, n, n))
      BY <3>1, <3>2, Zenon DEF Shifted
    <3> QED BY <3>1, <3>3
  <2>9. ASSUME NEW x \in V(l) PROVE x \in W(l)
    <3>1. rate - 1 \in (0 .. rate - 1) \cap Own(l) /\ x \in Shifted(rate - 1, {7})
      BY <1>0, <2>3, <2>9
    <3>2. {7} \subseteq LastByte(alg, first, n, rate - 1)
      BY DEF LastByte, rate
    <3>3. x \in Shifted(rate - 1, LastByte(alg, first, n, rate - 1))
      BY <3>1, <3>2, Zenon DEF Shifted
    <3> QED BY <3>1, <3>3
  <2>10. ASSUME NEW x \in W(l) PROVE x \in Message(l, first, n) \/ x \in U(l) \/ x \in V(l)
    <3>1. PICK k \in (0 .. rate - 1) \cap Own(l) : x \in Shifted(k, LastByte(alg, first, n, k))
      BY <2>10
    <3>2. PICK b \in LastByte(alg, first, n, k) : x = 8 * (k % 8) + b
      BY <3>1, Zenon DEF Shifted
    <3>3. CASE k < n /\ b \in ByteAt(first + k)
      <4>1. k \in (0 .. n - 1) \cap Own(l)
        BY <3>3
      <4>2. x \in Shifted(k, ByteAt(first + k))
        BY <3>2, <3>3, Zenon DEF Shifted
      <4> QED BY <4>1, <4>2, Zenon DEF Message
    <3>4. CASE k = n /\ b \in alg.p
      <4>1. x \in Shifted(n, alg.p)
        BY <3>2, <3>4, Zenon DEF Shifted
      <4> QED BY <3>4, <4>1 DEF U
    <3>5. CASE k = rate - 1 /\ b = 7
      <4>1. x \in Shifted(rate - 1, {7})
        BY <3>2, <3>5, Zenon DEF Shifted
      <4> QED BY <3>5, <4>1 DEF V
    <3>6. \/ k < n /\ b \in ByteAt(first + k)
          \/ k = n /\ b \in alg.p
          \/ k = rate - 1 /\ b = 7
      BY <3>2, Zenon DEF LastByte, rate
    <3> QED BY <3>3, <3>4, <3>5, <3>6
  <2> HIDE DEF W
  <2> QED BY <2>4, <2>5, <2>6, <2>7, <2>8, <2>9, <2>10, Zenon
<1> HIDE DEF U, V, W
<1>3. ASSUME NEW l \in Lanes
      PROVE  Xor(Xor(lanes[l], U(l)), V(l)) = Xor(s[l], W(l))
  <2>1. lanes[l] = Xor(s[l], Message(l, first, n))
    BY Zenon DEF Fed
  <2>2. PICK t, u, v, w : t = s[l] /\ u = Message(l, first, n) /\ v = U(l) /\ w = V(l)
    OBVIOUS
  <2>3. u \cap v = {} /\ (u \cup v) \cap w = {} /\ u \cup v \cup w = W(l)
    BY <1>2, <2>2
  <2>4. Xor(Xor(t, u), v) = Xor(t, u \cup v)
    BY <2>3, XorApart
  <2>5. Xor(Xor(t, u \cup v), w) = Xor(t, u \cup v \cup w)
    BY <2>3, XorApart
  <2> QED BY <2>1, <2>2, <2>3, <2>4, <2>5, Zenon
<1>4. Closed(alg, s, first, n) = [l \in Lanes |-> Xor(s[l], W(l))]
  BY Zenon DEF Closed, W, rate
<1> QED BY <1>1, <1>3, <1>4
-----------------------------------------------------------------------------
(* The invariant. *)

(* A state ls whose last block, behind the q of bs, closes a message of m bytes. *)
PaddedBlock(a, ls, bs, q, m) ==
    LET n    == m % a.rate
        ones == (UNION {{8 * k + b : b \in ByteAt(a.rate * q + k)} : k \in 0 .. n - 1})
                    \union {8 * n + b : b \in a.p} \union {8 * a.rate - 1}
    IN  /\ q = m \div a.rate
        /\ ls = [l \in Lanes |->
                    Xor(bs[l], {i % 64 : i \in {o \in ones : o \div 64 = l}})]

(* The bytes o are those of the states s, in order. *)
GivenBy(r, o, s) ==
    \A i \in DOMAIN o : o[i] = ByteOf(s[(i - 1) \div r + 1], (i - 1) % r)

TypedHash ==
    /\ alg \in Algorithms
    /\ phase \in {"start", "absorb", "squeeze", "released", "exit"}
    /\ lanes \in State /\ base \in State
    /\ pos \in Nat /\ todo \in Nat /\ absorbed \in Nat /\ blocks \in Nat
    /\ round \in Evens
    /\ stream \in Seq(State) /\ output \in Seq(SUBSET (0 .. 7))

(* Only a call that absorbs or squeezes runs the permutation. *)
Resting == phase \in {"start", "released", "exit"} => Idle

(* Before the last block: the full blocks and what is in the unfinished one are
   the message so far.  While the permutation runs, nothing is in the new one. *)
Absorbing ==
    phase \in {"start", "absorb", "exit"} =>
        /\ stream = <<>> /\ output = <<>>
        /\ absorbed = rate * blocks + pos /\ pos < rate
        /\ alg.api = "block" => pos = 0
        /\ Idle => lanes = Fed(base, rate * blocks, pos)
        /\ ~Idle => pos = 0

(* After it: what is given and what is left of the last state squeezed are all
   the bytes squeezed.  While the permutation runs, a block more is promised. *)
Squeezing ==
    phase \in {"squeeze", "released"} =>
        /\ Idle => /\ Len(output) + pos = rate * Len(stream) /\ pos <= rate
                   /\ pos > 0 => lanes = stream[Len(stream)]
        /\ ~Idle => Len(output) = rate * Len(stream) /\ pos = rate

Padded ==
    phase = "squeeze" /\ Idle /\ stream = <<>> =>
        PaddedBlock(alg, lanes, base, blocks, absorbed)

SpongeInv ==
    TypedHash /\ Resting /\ Absorbing /\ Squeezing /\ Padded /\ GivenBy(rate, output, stream)
-----------------------------------------------------------------------------
(* Where byte number m of block number q is. *)
LEMMA InBlock ==
    ASSUME alg \in Algorithms, NEW q \in Nat, NEW m \in Nat, m < rate
    PROVE  (rate * q + m) \div rate = q /\ (rate * q + m) % rate = m
<1>1. rate = 72 \/ rate = 104 \/ rate = 136 \/ rate = 168
  BY AlgTyped DEF Rates
<1>2. CASE rate = 72
  <2>1. m < 72
    BY <1>2
  <2>2. (72 * q + m) \div 72 = q /\ (72 * q + m) % 72 = m
    BY <2>1
  <2> QED BY <1>2, <2>2, Zenon
<1>3. CASE rate = 104
  <2>1. m < 104
    BY <1>3
  <2>2. (104 * q + m) \div 104 = q /\ (104 * q + m) % 104 = m
    BY <2>1
  <2> QED BY <1>3, <2>2, Zenon
<1>4. CASE rate = 136
  <2>1. m < 136
    BY <1>4
  <2>2. (136 * q + m) \div 136 = q /\ (136 * q + m) % 136 = m
    BY <2>1
  <2> QED BY <1>4, <2>2
<1>5. CASE rate = 168
  <2>1. m < 168
    BY <1>5
  <2>2. (168 * q + m) \div 168 = q /\ (168 * q + m) % 168 = m
    BY <2>1
  <2> QED BY <1>5, <2>2
<1> QED BY <1>1, <1>2, <1>3, <1>4, <1>5, Zenon

LEMMA TimesTyped ==
    ASSUME alg \in Algorithms, NEW q \in Nat
    PROVE  rate * q \in Nat /\ rate * (q + 1) = rate * q + rate /\ rate * 0 = 0
<1>1. rate \in Nat
  BY AlgTyped
<1> QED BY <1>1

LEMMA FedTyped ==
    ASSUME MessageOfBytes, NEW s \in State, NEW first \in Nat, NEW n \in Nat
    PROVE  Fed(s, first, n) \in State
<1>1. ASSUME NEW l \in Lanes PROVE Xor(s[l], Message(l, first, n)) \in Word
  <2>1. s[l] \in Word
    BY DEF State
  <2>2. PICK lo \in Nat : lo = 0
    OBVIOUS
  <2>3. Message(l, first, n) \in Word
    <3>1. UNION {Shifted(k, ByteAt(first + k)) : k \in (lo .. n - 1) \cap Own(l)} \in Word
      BY MessageTyped
    <3> QED BY <2>2, <3>1, Zenon DEF Message
  <2> QED BY <2>1, <2>3, XorTyped
<1> QED BY <1>1, Zenon DEF Fed, State

LEMMA ClosedTyped ==
    ASSUME MessageOfBytes, alg \in Algorithms,
           NEW s \in State, NEW first \in Nat, NEW n \in Nat
    PROVE  Closed(alg, s, first, n) \in State
<1>1. ASSUME NEW l \in Lanes
      PROVE  Xor(s[l], UNION {Shifted(k, LastByte(alg, first, n, k)) :
                                 k \in (0 .. rate - 1) \cap Own(l)}) \in Word
  <2>1. s[l] \in Word
    BY DEF State
  <2>2. ASSUME NEW k \in (0 .. rate - 1) \cap Own(l)
        PROVE  Shifted(k, LastByte(alg, first, n, k)) \in Word
    <3>1. k \in Nat /\ k \in Own(l)
      BY OwnBytes
    <3>2. LastByte(alg, first, n, k) \in SUBSET (0 .. 7)
      BY <3>1, LastByteTyped
    <3> QED BY <3>1, <3>2, ShiftedTyped
  <2>3. UNION {Shifted(k, LastByte(alg, first, n, k)) : k \in (0 .. rate - 1) \cap Own(l)} \in Word
    BY <2>2, Zenon DEF Word
  <2> QED BY <2>1, <2>3, XorTyped
<1> QED BY <1>1, Zenon DEF Closed, State, rate

(* The last block is what FIPS 202 absorbs last. *)
LEMMA PaddedIs ==
    ASSUME MessageOfBytes, alg \in Algorithms, NEW bs, NEW q \in Nat, NEW n \in Nat, n < rate
    PROVE  PaddedBlock(alg, Closed(alg, bs, rate * q, n), bs, q, rate * q + n)
<1>0. rate \in Nat /\ 0 < rate /\ rate * q \in Nat
      /\ alg.p \in SUBSET (0 .. 7)
  BY AlgTyped, TimesTyped
<1>1. (rate * q + n) \div rate = q /\ (rate * q + n) % rate = n
  BY InBlock
<1> DEFINE first == rate * q
           ls == Closed(alg, bs, first, n)
           K == 0 .. rate - 1
           f == [k \in K |-> LastByte(alg, first, n, k)]
           all == UNION {{8 * k + b : b \in f[k]} : k \in K}
           said == UNION {{8 * k + b : b \in ByteAt(first + k)} : k \in 0 .. n - 1}
           tail == {8 * n + b : b \in alg.p}
           ones == said \union tail \union {8 * rate - 1}
<1>2. K \in SUBSET Nat /\ f \in [K -> SUBSET (0 .. 7)]
  <2>1. \A k \in K : k \in Nat
    BY <1>0
  <2>2. \A k \in K : LastByte(alg, first, n, k) \in SUBSET (0 .. 7)
    BY <1>0, <2>1, LastByteTyped
  <2> QED BY <2>1, <2>2, Zenon
<1>3. all = ones
  <2>1. ASSUME NEW x \in all PROVE x \in ones
    <3>1. PICK k \in K : \E b \in LastByte(alg, first, n, k) : x = 8 * k + b
      BY Zenon
    <3>2. PICK b \in LastByte(alg, first, n, k) : x = 8 * k + b
      BY <3>1
    <3>3. \/ k < n /\ b \in ByteAt(first + k)
          \/ k = n /\ b \in alg.p
          \/ k = rate - 1 /\ b = 7
      BY <3>2, Zenon DEF LastByte, rate
    <3>4. CASE k < n /\ b \in ByteAt(first + k)
      <4>1. k \in 0 .. n - 1
        BY <3>4
      <4>2. x \in said
        BY <3>2, <3>4, <4>1
      <4> HIDE DEF said, tail
      <4> QED BY <4>2
    <3>5. CASE k = n /\ b \in alg.p
      <4>1. x \in tail
        BY <3>2, <3>5
      <4> HIDE DEF said, tail
      <4> QED BY <4>1
    <3>6. CASE k = rate - 1 /\ b = 7
      <4>1. x = 8 * rate - 1
        BY <1>0, <3>2, <3>6
      <4> HIDE DEF said, tail
      <4> QED BY <4>1
    <3> QED BY <3>3, <3>4, <3>5, <3>6
  <2>2. ASSUME NEW k \in K, NEW b \in LastByte(alg, first, n, k) PROVE 8 * k + b \in all
    <3>1. f[k] = LastByte(alg, first, n, k)
      BY Zenon
    <3>2. 8 * k + b \in {8 * k + c : c \in f[k]}
      BY <3>1
    <3> HIDE DEF f
    <3> QED BY <3>2
  <2>3. ASSUME NEW x \in ones PROVE x \in all
    <3>1. CASE \E k \in 0 .. n - 1 : \E b \in ByteAt(first + k) : x = 8 * k + b
      <4>1. PICK k \in 0 .. n - 1 : \E b \in ByteAt(first + k) : x = 8 * k + b
        BY <3>1
      <4>2. PICK b \in ByteAt(first + k) : x = 8 * k + b
        BY <4>1
      <4>3. k \in K /\ k < n
        BY <1>0
      <4>4. b \in LastByte(alg, first, n, k)
        BY <4>3, Zenon DEF LastByte, rate
      <4> QED BY <2>2, <4>2, <4>3, <4>4, Zenon
    <3>2. CASE \E b \in alg.p : x = 8 * n + b
      <4>1. PICK b \in alg.p : x = 8 * n + b
        BY <3>2
      <4>2. n \in K
        BY <1>0
      <4>3. ~(n < n)
        OBVIOUS
      <4>4. b \in LastByte(alg, first, n, n)
        BY <4>3, Zenon DEF LastByte, rate
      <4> QED BY <2>2, <4>1, <4>2, <4>4, Zenon
    <3>3. CASE x = 8 * rate - 1
      <4>1. rate - 1 \in K /\ x = 8 * (rate - 1) + 7
        BY <1>0, <3>3
      <4>2. 7 \in LastByte(alg, first, n, rate - 1)
        BY Zenon DEF LastByte, rate
      <4> QED BY <2>2, <4>1, <4>2, Zenon
    <3>4. \/ \E k \in 0 .. n - 1 : \E b \in ByteAt(first + k) : x = 8 * k + b
          \/ \E b \in alg.p : x = 8 * n + b
          \/ x = 8 * rate - 1
      <4>1. x \in said \/ x \in tail \/ x = 8 * rate - 1
        <5> HIDE DEF said, tail
        <5> QED BY <2>3
      <4>2. ASSUME x \in said
            PROVE  \E k \in 0 .. n - 1 : \E b \in ByteAt(first + k) : x = 8 * k + b
        BY <4>2
      <4>3. ASSUME x \in tail PROVE \E b \in alg.p : x = 8 * n + b
        BY <4>3
      <4> HIDE DEF said, tail
      <4> QED BY <4>1, <4>2, <4>3, Zenon
    <3> QED BY <3>1, <3>2, <3>3, <3>4
  <2> QED BY <2>1, <2>3, Zenon
<1>4. ASSUME NEW l \in Lanes
      PROVE  UNION {Shifted(k, LastByte(alg, first, n, k)) : k \in K \cap Own(l)}
               = {i % 64 : i \in {o \in ones : o \div 64 = l}}
  <2>1. {i % 64 : i \in {o \in all : o \div 64 = l}}
          = UNION {Shifted(k, f[k]) : k \in K \cap Own(l)}
    <3> HIDE DEF K, f
    <3>1. K \in SUBSET Nat /\ f \in [K -> SUBSET (0 .. 7)]
      BY <1>2
    <3> QED BY <3>1, LaneOf
  <2>2. UNION {Shifted(k, f[k]) : k \in K \cap Own(l)}
          = UNION {Shifted(k, LastByte(alg, first, n, k)) : k \in K \cap Own(l)}
    <3> DEFINE S == K \cap Own(l)
               F(k) == Shifted(k, f[k])
               G(k) == Shifted(k, LastByte(alg, first, n, k))
    <3>1. \A k \in S : F(k) = G(k)
      BY Zenon
    <3> HIDE DEF S, F, G
    <3>2. {F(k) : k \in S} = {G(k) : k \in S}
      BY <3>1
    <3> QED BY <3>2 DEF S, F, G
  <2> HIDE DEF all, ones, f, K
  <2> QED BY <1>3, <2>1, <2>2, Zenon
<1>5. Closed(alg, bs, first, n) = [l \in Lanes |->
          Xor(bs[l], UNION {Shifted(k, LastByte(alg, first, n, k)) : k \in K \cap Own(l)})]
  BY Zenon DEF Closed, rate
<1>6. ls = [l \in Lanes |-> Xor(bs[l], {i % 64 : i \in {o \in ones : o \div 64 = l}})]
  <2> HIDE DEF ones, K
  <2> QED BY <1>4, <1>5
<1> DEFINE Ones(m) ==
               (UNION {{8 * k + b : b \in ByteAt(rate * q + k)} : k \in 0 .. m - 1})
                   \union {8 * m + b : b \in alg.p} \union {8 * rate - 1}
           Sealed(m) == [l \in Lanes |->
               Xor(bs[l], {i % 64 : i \in {o \in Ones(m) : o \div 64 = l}})]
<1>7. ls = Sealed(n)
  BY <1>6, Zenon
<1> HIDE DEF Sealed
<1>8. ls = Sealed((rate * q + n) % rate)
  BY <1>1, <1>7, Zenon
<1> USE DEF Sealed
<1>9. q = (rate * q + n) \div rate
  BY <1>1
<1> QED BY <1>8, <1>9, Zenon DEF PaddedBlock, rate
-----------------------------------------------------------------------------
(* The invariant and the properties. *)

LEMMA PaddedMeans ==
    Padded <=> PaddedLikeFips
BY Zenon DEF Padded, PaddedLikeFips, PaddedBlock, rate

LEMMA GivenMeans == OutputIsStream <=> GivenBy(rate, output, stream)
BY Zenon DEF OutputIsStream, GivenBy

LEMMA InvAbsorbs ==
    ASSUME SpongeInv
    PROVE  AbsorbedLikeFips
<1>1. PaddedLikeFips
  BY PaddedMeans, Zenon DEF SpongeInv
<1>2. ASSUME phase = "absorb", Idle PROVE AbsorbedExactly
  <2>1. absorbed = rate * blocks + pos /\ pos < rate /\ lanes = Fed(base, rate * blocks, pos)
        /\ alg \in Algorithms /\ pos \in Nat /\ blocks \in Nat
    BY <1>2 DEF SpongeInv, TypedHash, Absorbing
  <2>2. (rate * blocks + pos) \div rate = blocks /\ (rate * blocks + pos) % rate = pos
    BY <2>1, InBlock
  <2>3. lanes = XorBytes(base, 0 .. pos - 1, LAMBDA k : ByteAt(rate * blocks + k))
    BY <2>1, FedIs, Zenon
  <2>4. blocks = absorbed \div rate /\ pos = absorbed % rate
    BY <2>1, <2>2, Zenon
  <2> QED BY <2>3, <2>4, Zenon DEF AbsorbedExactly
<1>3. AbsorbedExactly
  BY <1>2, Zenon DEF AbsorbedExactly
<1> QED BY <1>1, <1>3 DEF AbsorbedLikeFips

LEMMA InvGives == SpongeInv => OutputIsStream
BY GivenMeans, Zenon DEF SpongeInv

-----------------------------------------------------------------------------
(* The first state. *)

LEMMA ZeroTyped == Zero \in State
BY DEF Zero, State, Word

LEMMA HashBegins ==
    ASSUME SpongeInit
    PROVE  SpongeInv
<1>1. /\ alg \in Algorithms /\ phase = "start" /\ lanes = Zero /\ pos = 0 /\ todo = 0
      /\ round = 24 /\ output = <<>> /\ absorbed = 0 /\ blocks = 0 /\ base = Zero
      /\ stream = <<>>
  BY Zenon DEF SpongeInit, NROUNDS
<1>2. 24 \in Evens
  <2>1. 12 \in 0 .. 12 /\ 24 = 2 * 12
    OBVIOUS
  <2> QED BY <2>1, Zenon DEF Evens
<1>3. rate \in Nat /\ 0 < rate /\ rate * 0 = 0
  BY <1>1, AlgTyped
<1>4. TypedHash
  BY <1>1, <1>2, ZeroTyped DEF TypedHash
<1>5. Resting
  BY <1>1 DEF Resting, Idle, NROUNDS
<1>6. Absorbing
  <2>1. Fed(Zero, 0, 0) = Zero
    BY FedNone, ZeroTyped
  <2>2. lanes = Fed(base, rate * blocks, pos)
    BY <1>1, <1>3, <2>1, Zenon
  <2>3. absorbed = rate * blocks + pos /\ pos < rate
    BY <1>1, <1>3
  <2>4. Idle
    BY <1>1 DEF Idle, NROUNDS
  <2> QED BY <1>1, <2>2, <2>3, <2>4, Zenon DEF Absorbing
<1>7. Squeezing /\ Padded
  BY <1>1, Zenon DEF Squeezing, Padded
<1>8. GivenBy(rate, output, stream)
  <2>1. DOMAIN output = {}
    BY <1>1
  <2> QED BY <2>1, Zenon DEF GivenBy
<1> QED BY <1>4, <1>5, <1>6, <1>7, <1>8, Zenon DEF SpongeInv

-----------------------------------------------------------------------------
(* The steps that absorb. *)

LEMMA AlgKept == ASSUME alg' = alg PROVE rate' = rate
BY DEF rate

LEMMA StartKeeps ==
    ASSUME SpongeInv, Start
    PROVE  SpongeInv'
<1>1. phase = "start" /\ phase' = "absorb"
      /\ todo' \in (IF alg.api = "block" THEN Pieces(rate) \union {0} ELSE {0})
  BY Zenon DEF Start
<1>2. alg' = alg /\ lanes' = lanes /\ pos' = pos /\ round' = round /\ output' = output
      /\ absorbed' = absorbed /\ blocks' = blocks /\ base' = base /\ stream' = stream
  BY Zenon DEF Start, history
<1>3. TypedHash /\ Absorbing /\ GivenBy(rate, output, stream) /\ rate' = rate
  BY <1>2, AlgKept, Zenon DEF SpongeInv
<1>4. todo' \in Nat
  <2>1. Pieces(rate) \subseteq Nat
    BY <1>3, AlgTyped DEF TypedHash
  <2> QED BY <1>1, <2>1
<1>5. TypedHash'
  BY <1>1, <1>2, <1>3, <1>4, Zenon DEF TypedHash
<1>6. Absorbing'
  BY <1>1, <1>2, <1>3, Zenon DEF Absorbing, Idle
<1>7. Resting' /\ Squeezing' /\ Padded'
  BY <1>1, Zenon DEF Resting, Squeezing, Padded
<1>8. GivenBy(rate, output, stream)'
  BY <1>2, <1>3, Zenon
<1> QED BY <1>5, <1>6, <1>7, <1>8, Zenon DEF SpongeInv

LEMMA OutOfMemoryKeeps ==
    ASSUME SpongeInv, OutOfMemory
    PROVE  SpongeInv'
<1>1. phase = "start" /\ phase' = "exit"
  BY Zenon DEF OutOfMemory
<1>2. alg' = alg /\ lanes' = lanes /\ pos' = pos /\ round' = round /\ output' = output
      /\ absorbed' = absorbed /\ blocks' = blocks /\ base' = base /\ stream' = stream
      /\ todo' = todo
  BY Zenon DEF OutOfMemory, history
<1>3. TypedHash /\ Resting /\ Absorbing /\ GivenBy(rate, output, stream) /\ rate' = rate
  BY <1>2, AlgKept, Zenon DEF SpongeInv
<1>5. TypedHash'
  BY <1>1, <1>2, <1>3, Zenon DEF TypedHash
<1>6. Absorbing'
  BY <1>1, <1>2, <1>3, Zenon DEF Absorbing, Idle
<1>7. Resting' /\ Squeezing' /\ Padded'
  BY <1>1, <1>2, <1>3, Zenon DEF Resting, Squeezing, Padded, Idle
<1>8. GivenBy(rate, output, stream)'
  BY <1>2, <1>3, Zenon
<1> QED BY <1>5, <1>6, <1>7, <1>8, Zenon DEF SpongeInv

LEMMA AbsorbKeeps ==
    ASSUME SpongeInv, Absorb
    PROVE  SpongeInv'
<1>1. phase = "absorb" /\ phase' = "absorb" /\ todo' \in Pieces(rate)
  BY Zenon DEF Absorb
<1>2. alg' = alg /\ lanes' = lanes /\ pos' = pos /\ round' = round /\ output' = output
      /\ absorbed' = absorbed /\ blocks' = blocks /\ base' = base /\ stream' = stream
  BY Zenon DEF Absorb
<1>3. TypedHash /\ Absorbing /\ GivenBy(rate, output, stream) /\ rate' = rate
  BY <1>2, AlgKept, Zenon DEF SpongeInv
<1>4. todo' \in Nat
  <2>1. Pieces(rate) \subseteq Nat
    BY <1>3, AlgTyped DEF TypedHash
  <2> QED BY <1>1, <2>1
<1>5. TypedHash'
  BY <1>1, <1>2, <1>3, <1>4, Zenon DEF TypedHash
<1>6. Absorbing'
  BY <1>1, <1>2, <1>3, Zenon DEF Absorbing, Idle
<1>7. Resting' /\ Squeezing' /\ Padded'
  BY <1>1, Zenon DEF Resting, Squeezing, Padded
<1>8. GivenBy(rate, output, stream)'
  BY <1>2, <1>3, Zenon
<1> QED BY <1>5, <1>6, <1>7, <1>8, Zenon DEF SpongeInv

(* What is known between two steps of a call that absorbs. *)
LEMMA WhileAbsorbing ==
    ASSUME SpongeInv, phase = "absorb", Idle
    PROVE  /\ alg \in Algorithms /\ pos \in Nat /\ todo \in Nat /\ blocks \in Nat
           /\ base \in State /\ rate \in Nat /\ 0 < rate /\ rate * blocks \in Nat
           /\ absorbed \in Nat /\ absorbed = rate * blocks + pos /\ pos < rate
           /\ alg.api = "block" => pos = 0
           /\ lanes = Fed(base, rate * blocks, pos)
           /\ stream = <<>> /\ output = <<>>
           /\ GivenBy(rate, output, stream)
<1>1. TypedHash /\ Absorbing /\ GivenBy(rate, output, stream)
  BY Zenon DEF SpongeInv
<1>2. alg \in Algorithms /\ pos \in Nat /\ todo \in Nat /\ blocks \in Nat
      /\ base \in State /\ absorbed \in Nat
  BY <1>1, Zenon DEF TypedHash
<1>3. rate \in Nat /\ 0 < rate /\ rate * blocks \in Nat
  BY <1>2, AlgTyped, TimesTyped
<1> QED BY <1>1, <1>2, <1>3, Zenon DEF Absorbing

LEMMA AbsorbBlockKeeps ==
    ASSUME MessageOfBytes, SpongeInv, AbsorbBlock
    PROVE  SpongeInv'
<1>1. phase = "absorb" /\ phase' = "absorb" /\ Idle /\ Full(todo)
      /\ lanes' = AbsorbAt(rate - pos) /\ absorbed' = absorbed + rate - pos
      /\ todo' = todo - (rate - pos) /\ pos' = 0 /\ blocks' = blocks + 1 /\ round' = 0
  BY Zenon DEF AbsorbBlock, StartPermute
<1>2. alg' = alg /\ output' = output /\ base' = base /\ stream' = stream
  BY Zenon DEF AbsorbBlock
<1>3. /\ alg \in Algorithms /\ pos \in Nat /\ todo \in Nat /\ blocks \in Nat
      /\ base \in State /\ rate \in Nat /\ 0 < rate /\ rate * blocks \in Nat
      /\ absorbed \in Nat /\ absorbed = rate * blocks + pos /\ pos < rate
      /\ lanes = Fed(base, rate * blocks, pos)
      /\ stream = <<>> /\ output = <<>>
      /\ GivenBy(rate, output, stream) /\ rate' = rate
  BY <1>1, <1>2, WhileAbsorbing, AlgKept, Zenon
<1>4. lanes' \in State
  <2>1. PICK first \in Nat, n \in Nat, m \in Nat :
           first = rate * blocks /\ n = pos /\ m = rate - pos /\ n + m \in Nat
    BY <1>3
  <2>2. lanes = Fed(base, first, n) /\ pos = n /\ absorbed = first + n
    BY <1>3, <2>1
  <2>3. AbsorbAt(m) = Fed(base, first, n + m)
    BY <2>2, FedMore
  <2>4. Fed(base, first, n + m) \in State
    BY <1>3, <2>1, FedTyped
  <2> QED BY <1>1, <2>1, <2>3, <2>4, Zenon
<1>5. /\ absorbed' \in Nat /\ todo' \in Nat /\ blocks' \in Nat
      /\ absorbed' = rate * (blocks + 1)
  <2>1. rate * (blocks + 1) = rate * blocks + rate
    BY <1>3
  <2>2. todo + pos >= rate
    BY <1>1 DEF Full
  <2> QED BY <1>1, <1>3, <2>1, <2>2
<1>6. 0 \in Evens /\ ~Idle'
  <2>1. 0 \in 0 .. 12 /\ 0 = 2 * 0
    OBVIOUS
  <2>2. 0 \in Evens
    BY <2>1, Zenon DEF Evens
  <2> QED BY <1>1, <2>2 DEF Idle, NROUNDS
<1>7. TypedHash'
  <2>1. TypedHash
    BY Zenon DEF SpongeInv
  <2>2. pos' \in Nat
    BY <1>1
  <2> QED BY <1>1, <1>2, <1>4, <1>5, <1>6, <2>1, <2>2, Zenon DEF TypedHash
<1>8. Absorbing'
  <2>1. absorbed' = rate * blocks' + pos' /\ pos' < rate
    BY <1>1, <1>3, <1>5
  <2> QED BY <1>1, <1>2, <1>3, <1>6, <2>1, Zenon DEF Absorbing
<1>9. Resting' /\ Squeezing' /\ Padded'
  BY <1>1, Zenon DEF Resting, Squeezing, Padded
<1>10. GivenBy(rate, output, stream)'
  BY <1>2, <1>3, Zenon
<1> QED BY <1>7, <1>8, <1>9, <1>10, Zenon DEF SpongeInv

LEMMA AbsorbRestKeeps ==
    ASSUME MessageOfBytes, SpongeInv, AbsorbRest
    PROVE  SpongeInv'
<1>1. phase = "absorb" /\ phase' = "absorb" /\ Idle /\ ~Full(todo) /\ alg.api = "inc"
      /\ lanes' = AbsorbAt(todo) /\ absorbed' = absorbed + todo
      /\ pos' = pos + todo /\ todo' = 0
  BY Zenon DEF AbsorbRest
<1>2. alg' = alg /\ output' = output /\ base' = base /\ stream' = stream /\ round' = round
      /\ blocks' = blocks
  BY Zenon DEF AbsorbRest
<1>3. /\ alg \in Algorithms /\ pos \in Nat /\ todo \in Nat /\ blocks \in Nat
      /\ base \in State /\ rate \in Nat /\ 0 < rate /\ rate * blocks \in Nat
      /\ absorbed \in Nat /\ absorbed = rate * blocks + pos /\ pos < rate
      /\ lanes = Fed(base, rate * blocks, pos)
      /\ stream = <<>> /\ output = <<>>
      /\ GivenBy(rate, output, stream) /\ rate' = rate
  BY <1>1, <1>2, WhileAbsorbing, AlgKept, Zenon
<1>4. lanes' \in State /\ lanes' = Fed(base, rate * blocks, pos')
  <2>1. PICK first \in Nat, n \in Nat, m \in Nat :
           first = rate * blocks /\ n = pos /\ m = todo /\ n + m \in Nat
    BY <1>3
  <2>2. lanes = Fed(base, first, n) /\ pos = n /\ absorbed = first + n
    BY <1>3, <2>1
  <2>3. AbsorbAt(m) = Fed(base, first, n + m)
    BY <2>2, FedMore
  <2>4. Fed(base, first, n + m) \in State
    BY <1>3, <2>1, FedTyped
  <2> QED BY <1>1, <2>1, <2>3, <2>4, Zenon
<1>5. /\ absorbed' \in Nat /\ todo' \in Nat /\ pos' \in Nat
      /\ absorbed' = rate * blocks + pos' /\ pos' < rate
  <2>1. ~(todo + pos >= rate)
    BY <1>1 DEF Full
  <2> QED BY <1>1, <1>3, <2>1
<1>7. TypedHash'
  <2>1. TypedHash
    BY Zenon DEF SpongeInv
  <2> QED BY <1>1, <1>2, <1>4, <1>5, <2>1, Zenon DEF TypedHash
<1>8. Absorbing'
  <2>1. alg.api # "block"
    BY <1>1
  <2> QED BY <1>1, <1>2, <1>3, <1>4, <1>5, <2>1, Zenon DEF Absorbing, Idle
<1>9. Resting' /\ Squeezing' /\ Padded'
  BY <1>1, Zenon DEF Resting, Squeezing, Padded
<1>10. GivenBy(rate, output, stream)'
  BY <1>2, <1>3, Zenon
<1> QED BY <1>7, <1>8, <1>9, <1>10, Zenon DEF SpongeInv
-----------------------------------------------------------------------------
LEMMA FinalizeKeeps ==
    ASSUME MessageOfBytes, SpongeInv, Finalize
    PROVE  SpongeInv'
<1>1. phase = "absorb" /\ phase' = "squeeze" /\ Idle /\ pos' = 0
      /\ lanes' = XorBytes(XorBytes(lanes, {pos}, LAMBDA k : alg.p),
                           {rate - 1}, LAMBDA k : {7})
  BY Zenon DEF Finalize
<1>2. alg' = alg /\ todo' = todo /\ round' = round /\ output' = output
      /\ absorbed' = absorbed /\ blocks' = blocks /\ base' = base /\ stream' = stream
  BY Zenon DEF Finalize
<1>3. /\ alg \in Algorithms /\ pos \in Nat /\ todo \in Nat /\ blocks \in Nat
      /\ base \in State /\ rate \in Nat /\ 0 < rate /\ rate * blocks \in Nat
      /\ absorbed \in Nat /\ absorbed = rate * blocks + pos /\ pos < rate
      /\ lanes = Fed(base, rate * blocks, pos)
      /\ stream = <<>> /\ output = <<>>
      /\ GivenBy(rate, output, stream) /\ rate' = rate
  BY <1>1, <1>2, WhileAbsorbing, AlgKept, Zenon
<1>4. lanes' = Closed(alg, base, rate * blocks, pos)
  <2>1. PICK first \in Nat, n \in Nat : first = rate * blocks /\ n = pos
    BY <1>3
  <2>2. lanes = Fed(base, first, n) /\ pos = n /\ n < rate
    BY <1>3, <2>1
  <2>3. XorBytes(XorBytes(lanes, {pos}, LAMBDA k : alg.p), {rate - 1}, LAMBDA k : {7})
          = Closed(alg, base, first, n)
    BY <1>3, <2>2, ClosedInc
  <2> QED BY <1>1, <2>1, <2>3, Zenon
<1>5. lanes' \in State
  BY <1>3, <1>4, ClosedTyped
<1>6. Padded'
  <2>1. PaddedBlock(alg, Closed(alg, base, rate * blocks, pos), base, blocks, rate * blocks + pos)
    BY <1>3, PaddedIs
  <2>2. PaddedBlock(alg', lanes', base', blocks', absorbed')
    BY <1>2, <1>3, <1>4, <2>1, Zenon
  <2> QED BY <2>2, Zenon DEF Padded
<1>7. TypedHash'
  <2>1. TypedHash
    BY Zenon DEF SpongeInv
  <2>2. pos' \in Nat
    BY <1>1
  <2> QED BY <1>1, <1>2, <1>5, <2>1, <2>2, Zenon DEF TypedHash
<1>8. Squeezing'
  <2>1. Idle'
    BY <1>1, <1>2 DEF Idle
  <2>2. Len(output') = 0 /\ Len(stream') = 0
    BY <1>2, <1>3
  <2>3. 0 + 0 = rate * 0 /\ 0 <= rate /\ ~(0 > 0)
    BY <1>3
  <2>4. Len(output') + pos' = rate' * Len(stream') /\ pos' <= rate' /\ ~(pos' > 0)
    BY <1>1, <1>3, <2>2, <2>3, Zenon
  <2> QED BY <2>1, <2>4, Zenon DEF Squeezing
<1>9. Resting' /\ Absorbing'
  BY <1>1, Zenon DEF Resting, Absorbing
<1>10. GivenBy(rate, output, stream)'
  BY <1>2, <1>3, Zenon
<1> QED BY <1>6, <1>7, <1>8, <1>9, <1>10, Zenon DEF SpongeInv

LEMMA AbsorbLastKeeps ==
    ASSUME MessageOfBytes, SpongeInv, AbsorbLast
    PROVE  SpongeInv'
<1>1. phase = "absorb" /\ phase' = "squeeze" /\ Idle /\ alg.api = "block" /\ ~Full(todo)
      /\ lanes' = XorBytes(lanes, 0 .. rate - 1, LAMBDA k : LastBlock(k, todo))
      /\ absorbed' = absorbed + todo /\ todo' = 0
  BY Zenon DEF AbsorbLast
<1>2. alg' = alg /\ pos' = pos /\ round' = round /\ output' = output
      /\ blocks' = blocks /\ base' = base /\ stream' = stream
  BY Zenon DEF AbsorbLast
<1>3. /\ alg \in Algorithms /\ pos = 0 /\ todo \in Nat /\ blocks \in Nat
      /\ base \in State /\ rate \in Nat /\ 0 < rate /\ rate * blocks \in Nat
      /\ absorbed \in Nat /\ absorbed = rate * blocks + pos
      /\ lanes = Fed(base, rate * blocks, pos)
      /\ stream = <<>> /\ output = <<>>
      /\ GivenBy(rate, output, stream) /\ rate' = rate
  BY <1>1, <1>2, WhileAbsorbing, AlgKept, Zenon
<1>4. absorbed = rate * blocks /\ todo < rate
  <2>1. ~(todo + pos >= rate)
    BY <1>1 DEF Full
  <2> QED BY <1>3, <2>1
<1>5. lanes' = Closed(alg, base, rate * blocks, todo)
  <2>1. lanes = base
    BY <1>3, FedNone, Zenon
  <2>2. XorBytes(lanes, 0 .. rate - 1, LAMBDA k : LastBlock(k, todo))
          = Closed(alg, lanes, absorbed, todo)
    BY <1>3, ClosedBlock
  <2> QED BY <1>1, <1>4, <2>1, <2>2, Zenon
<1>6. lanes' \in State
  BY <1>3, <1>5, ClosedTyped
<1>7. Padded'
  <2>1. PaddedBlock(alg, Closed(alg, base, rate * blocks, todo), base, blocks,
                    rate * blocks + todo)
    BY <1>3, <1>4, PaddedIs
  <2>2. PaddedBlock(alg', lanes', base', blocks', absorbed')
    BY <1>1, <1>2, <1>4, <1>5, <2>1, Zenon
  <2> QED BY <2>2, Zenon DEF Padded
<1>8. TypedHash'
  <2>1. TypedHash
    BY Zenon DEF SpongeInv
  <2>2. todo' \in Nat /\ absorbed' \in Nat
    BY <1>1, <1>3
  <2> QED BY <1>1, <1>2, <1>6, <2>1, <2>2, Zenon DEF TypedHash
<1>9. Squeezing'
  <2>1. Idle'
    BY <1>1, <1>2 DEF Idle
  <2>2. Len(output') + pos' = rate' * Len(stream') /\ pos' <= rate' /\ ~(pos' > 0)
    BY <1>2, <1>3
  <2> QED BY <2>1, <2>2, Zenon DEF Squeezing
<1>10. Resting' /\ Absorbing'
  BY <1>1, Zenon DEF Resting, Absorbing
<1>11. GivenBy(rate, output, stream)'
  BY <1>2, <1>3, Zenon
<1> QED BY <1>7, <1>8, <1>9, <1>10, <1>11, Zenon DEF SpongeInv

-----------------------------------------------------------------------------
(* The steps that squeeze. *)

LEMMA SqueezeKeeps ==
    ASSUME SpongeInv, Squeeze
    PROVE  SpongeInv'
<1>1. phase = "squeeze" /\ phase' = "squeeze"
      /\ todo' \in (IF alg.outlen # 0 THEN {alg.outlen}
                    ELSE IF alg.api = "block" THEN {rate, 2 * rate} ELSE Pieces(rate))
  BY Zenon DEF Squeeze
<1>2. alg' = alg /\ lanes' = lanes /\ pos' = pos /\ round' = round /\ output' = output
      /\ absorbed' = absorbed /\ blocks' = blocks /\ base' = base /\ stream' = stream
  BY Zenon DEF Squeeze
<1>3. TypedHash /\ Squeezing /\ Padded /\ GivenBy(rate, output, stream) /\ rate' = rate
  BY <1>2, AlgKept, Zenon DEF SpongeInv
<1>4. todo' \in Nat
  <2>1. Pieces(rate) \subseteq Nat /\ rate \in Nat /\ alg.outlen \in Nat
    BY <1>3, AlgTyped DEF TypedHash
  <2>2. 2 * rate \in Nat
    BY <2>1
  <2> QED BY <1>1, <2>1, <2>2
<1>5. TypedHash'
  BY <1>1, <1>2, <1>3, <1>4, Zenon DEF TypedHash
<1>6. Squeezing'
  BY <1>1, <1>2, <1>3, Zenon DEF Squeezing, Idle
<1>7. Padded'
  BY <1>1, <1>2, <1>3, Zenon DEF Padded, Idle
<1>8. Resting' /\ Absorbing'
  BY <1>1, Zenon DEF Resting, Absorbing
<1>9. GivenBy(rate, output, stream)'
  BY <1>2, <1>3, Zenon
<1> QED BY <1>5, <1>6, <1>7, <1>8, <1>9, Zenon DEF SpongeInv

LEMMA ReleaseKeeps ==
    ASSUME SpongeInv, Release
    PROVE  SpongeInv'
<1>1. phase = "squeeze" /\ phase' = "released" /\ Idle
  BY Zenon DEF Release
<1>2. alg' = alg /\ lanes' = lanes /\ pos' = pos /\ round' = round /\ output' = output
      /\ absorbed' = absorbed /\ blocks' = blocks /\ base' = base /\ stream' = stream
      /\ todo' = todo
  BY Zenon DEF Release, history
<1>3. TypedHash /\ Squeezing /\ GivenBy(rate, output, stream) /\ rate' = rate
  BY <1>2, AlgKept, Zenon DEF SpongeInv
<1>5. TypedHash'
  BY <1>1, <1>2, <1>3, Zenon DEF TypedHash
<1>6. Squeezing'
  BY <1>1, <1>2, <1>3, Zenon DEF Squeezing, Idle
<1>7. Padded' /\ Absorbing'
  BY <1>1, Zenon DEF Padded, Absorbing
<1>8. Resting'
  BY <1>1, <1>2, Zenon DEF Resting, Idle
<1>9. GivenBy(rate, output, stream)'
  BY <1>2, <1>3, Zenon
<1> QED BY <1>5, <1>6, <1>7, <1>8, <1>9, Zenon DEF SpongeInv

LEMMA NextBlockKeeps ==
    ASSUME SpongeInv, NextBlock
    PROVE  SpongeInv'
<1>1. phase = "squeeze" /\ phase' = "squeeze" /\ Idle /\ pos = 0
      /\ pos' = rate /\ round' = 0
  BY Zenon DEF NextBlock, StartPermute
<1>2. alg' = alg /\ lanes' = lanes /\ output' = output /\ todo' = todo
      /\ absorbed' = absorbed /\ blocks' = blocks /\ base' = base /\ stream' = stream
  BY Zenon DEF NextBlock, history
<1>3. TypedHash /\ Squeezing /\ GivenBy(rate, output, stream) /\ rate' = rate
  BY <1>2, AlgKept, Zenon DEF SpongeInv
<1>4. 0 \in Evens /\ ~Idle' /\ rate \in Nat
  <2>1. 0 \in 0 .. 12 /\ 0 = 2 * 0
    OBVIOUS
  <2>2. 0 \in Evens
    BY <2>1, Zenon DEF Evens
  <2>3. rate \in Nat
    BY <1>3, AlgTyped DEF TypedHash
  <2> QED BY <1>1, <2>2, <2>3 DEF Idle, NROUNDS
<1>5. TypedHash'
  BY <1>1, <1>2, <1>3, <1>4, Zenon DEF TypedHash
<1>6. Squeezing'
  <2>1. Len(output) + pos = rate * Len(stream)
    BY <1>1, <1>3, Zenon DEF Squeezing
  <2>2. Len(output) \in Nat
    BY <1>3 DEF TypedHash
  <2>3. Len(output) = rate * Len(stream)
    <3>1. Len(output) + 0 = rate * Len(stream)
      BY <1>1, <2>1, Zenon
    <3>2. Len(output) + 0 = Len(output)
      BY <2>2
    <3> QED BY <3>1, <3>2, Zenon
  <2> QED BY <1>1, <1>2, <1>3, <1>4, <2>3, Zenon DEF Squeezing
<1>7. Padded'
  BY <1>4, Zenon DEF Padded
<1>8. Resting' /\ Absorbing'
  BY <1>1, Zenon DEF Resting, Absorbing
<1>9. GivenBy(rate, output, stream)'
  BY <1>2, <1>3, Zenon
<1> QED BY <1>5, <1>6, <1>7, <1>8, <1>9, Zenon DEF SpongeInv
-----------------------------------------------------------------------------
LEMMA ByteTyped ==
    ASSUME NEW s, NEW k
    PROVE  ByteOf(s, k) \in SUBSET (0 .. 7)
BY Zenon DEF ByteOf

(* A byte of k blocks is in one of them. *)
LEMMA WhichBlock ==
    ASSUME alg \in Algorithms, NEW k \in Nat, NEW i \in 1 .. rate * k
    PROVE  (i - 1) \div rate + 1 \in 1 .. k
<1>1. rate = 72 \/ rate = 104 \/ rate = 136 \/ rate = 168
  BY AlgTyped DEF Rates
<1>2. CASE rate = 72
  <2>1. i \in 1 .. 72 * k
    BY <1>2
  <2>2. (i - 1) \div 72 + 1 \in 1 .. k
    BY <2>1
  <2> QED BY <1>2, <2>2, Zenon
<1>3. CASE rate = 104
  <2>1. i \in 1 .. 104 * k
    BY <1>3
  <2>2. (i - 1) \div 104 + 1 \in 1 .. k
    BY <2>1
  <2> QED BY <1>3, <2>2, Zenon
<1>4. CASE rate = 136
  <2>1. i \in 1 .. 136 * k
    BY <1>4
  <2>2. (i - 1) \div 136 + 1 \in 1 .. k
    BY <2>1
  <2> QED BY <1>4, <2>2
<1>5. CASE rate = 168
  <2>1. i \in 1 .. 168 * k
    BY <1>5
  <2>2. (i - 1) \div 168 + 1 \in 1 .. k
    BY <2>1
  <2> QED BY <1>5, <2>2
<1> QED BY <1>1, <1>2, <1>3, <1>4, <1>5, Zenon

LEMMA Joined ==
    ASSUME NEW S, NEW s \in Seq(S), NEW t \in Seq(S)
    PROVE  /\ s \o t \in Seq(S) /\ Len(s \o t) = Len(s) + Len(t)
           /\ DOMAIN (s \o t) = 1 .. Len(s) + Len(t)
           /\ \A n \in 1 .. Len(s) : (s \o t)[n] = s[n]
           /\ \A n \in 1 .. Len(t) : (s \o t)[Len(s) + n] = t[n]
  OBVIOUS

(* Bytes of the last state, read on from where the output stopped. *)
LEMMA GivenOn ==
    ASSUME alg \in Algorithms, NEW o \in Seq(SUBSET (0 .. 7)), NEW s \in Seq(State),
           NEW p \in Nat, NEW n \in Nat, n <= p, p <= rate, 0 < p,
           Len(o) + p = rate * Len(s), GivenBy(rate, o, s),
           NEW last, last = s[Len(s)]
    PROVE  /\ o \o BytesOf(last, rate - p, n) \in Seq(SUBSET (0 .. 7))
           /\ Len(o \o BytesOf(last, rate - p, n)) = Len(o) + n
           /\ GivenBy(rate, o \o BytesOf(last, rate - p, n), s)
<1> DEFINE b == BytesOf(last, rate - p, n)
           z == o \o b
<1>0. rate \in Nat /\ 0 < rate /\ Len(o) \in Nat /\ Len(s) \in Nat
  BY AlgTyped
<1>1. b \in Seq(SUBSET (0 .. 7)) /\ Len(b) = n
      /\ \A i \in 1 .. n : b[i] = ByteOf(last, (rate - p) + i - 1)
  <2>1. b = [i \in 1 .. n |-> ByteOf(last, (rate - p) + i - 1)]
    BY Zenon DEF BytesOf
  <2>2. \A i \in 1 .. n : ByteOf(last, (rate - p) + i - 1) \in SUBSET (0 .. 7)
    BY ByteTyped, Zenon
  <2> HIDE DEF b
  <2>3. b \in [1 .. n -> SUBSET (0 .. 7)]
    BY <2>1, <2>2, Zenon
  <2>4. b \in Seq(SUBSET (0 .. 7))
    BY <2>3
  <2>5. Len(b) = n
    BY <2>3, <2>4
  <2> QED BY <2>1, <2>4, <2>5, Zenon
<1> HIDE DEF b
<1>2. /\ z \in Seq(SUBSET (0 .. 7)) /\ Len(z) = Len(o) + n
      /\ \A i \in 1 .. Len(o) : z[i] = o[i]
      /\ \A i \in 1 .. n : z[Len(o) + i] = b[i]
      /\ DOMAIN z = 1 .. Len(o) + n
  <2>1. /\ z \in Seq(SUBSET (0 .. 7)) /\ Len(z) = Len(o) + Len(b)
        /\ DOMAIN z = 1 .. Len(o) + Len(b)
        /\ \A i \in 1 .. Len(o) : z[i] = o[i]
        /\ \A i \in 1 .. Len(b) : z[Len(o) + i] = b[i]
    <3>1. b \in Seq(SUBSET (0 .. 7))
      BY <1>1
    <3> QED BY <3>1, Joined
  <2>2. Len(b) = n
    BY <1>1
  <2> HIDE DEF z
  <2> QED BY <2>1, <2>2, Zenon
<1> HIDE DEF z
<1>3. PICK q \in Nat : Len(s) = q + 1 /\ Len(o) = rate * q + (rate - p)
  <2>1. Len(s) # 0
    <3>1. rate * 0 = 0
      BY <1>0
    <3> QED BY <1>0, <3>1
  <2>2. PICK q \in Nat : Len(s) = q + 1
    <3>1. Len(s) - 1 \in Nat /\ Len(s) = (Len(s) - 1) + 1
      BY <1>0, <2>1
    <3> QED BY <3>1, Zenon
  <2>3. rate * (q + 1) = rate * q + rate /\ rate * q \in Nat
    BY TimesTyped
  <2>4. Len(o) + p = rate * q + rate
    BY <2>2, <2>3, Zenon
  <2>5. Len(o) = rate * q + (rate - p)
    BY <1>0, <2>3, <2>4
  <2> QED BY <2>2, <2>5
<1>4. ASSUME NEW i \in DOMAIN z
      PROVE  z[i] = ByteOf(s[(i - 1) \div rate + 1], (i - 1) % rate)
  <2>1. CASE i \in 1 .. Len(o)
    <3>1. i \in DOMAIN o /\ z[i] = o[i]
      BY <1>2, <2>1
    <3> QED BY <3>1, Zenon DEF GivenBy
  <2>2. CASE i \in Len(o) + 1 .. Len(o) + n
    <3>1. PICK j \in 1 .. n : i = Len(o) + j
      <4>1. i - Len(o) \in 1 .. n /\ i = Len(o) + (i - Len(o))
        BY <1>0, <2>2
      <4> QED BY <4>1, Zenon
    <3>2. PICK m \in Nat : m = (rate - p) + j - 1 /\ m < rate
      <4>1. (rate - p) + j - 1 \in Nat /\ (rate - p) + j - 1 < rate
        BY <1>0, <3>1
      <4> QED BY <4>1
    <3>3. i - 1 = rate * q + m
      <4>1. rate * q \in Nat
        BY TimesTyped
      <4> QED BY <1>0, <1>3, <3>1, <3>2, <4>1
    <3>4. (rate * q + m) \div rate = q /\ (rate * q + m) % rate = m
      BY <3>2, InBlock
    <3>5. z[i] = ByteOf(last, m)
      BY <1>1, <1>2, <3>1, <3>2, Zenon
    <3>6. s[(i - 1) \div rate + 1] = last /\ (i - 1) % rate = m
      BY <1>3, <3>3, <3>4, Zenon
    <3> QED BY <3>5, <3>6, Zenon
  <2>3. i \in 1 .. Len(o) \/ i \in Len(o) + 1 .. Len(o) + n
    BY <1>0, <1>2
  <2> QED BY <2>1, <2>2, <2>3
<1>5. GivenBy(rate, z, s)
  BY <1>4, Zenon DEF GivenBy
<1> QED BY <1>2, <1>5 DEF z, b

(* A state more does not change which bytes were given. *)
LEMMA GivenStill ==
    ASSUME alg \in Algorithms, NEW o \in Seq(SUBSET (0 .. 7)), NEW s \in Seq(State),
           NEW e \in State, Len(o) = rate * Len(s), GivenBy(rate, o, s)
    PROVE  GivenBy(rate, o, Append(s, e))
<1>1. ASSUME NEW i \in DOMAIN o
      PROVE  o[i] = ByteOf(Append(s, e)[(i - 1) \div rate + 1], (i - 1) % rate)
  <2>1. i \in 1 .. rate * Len(s) /\ Len(s) \in Nat
    OBVIOUS
  <2>2. (i - 1) \div rate + 1 \in 1 .. Len(s)
    BY <2>1, WhichBlock
  <2>3. \A j \in 1 .. Len(s) : Append(s, e)[j] = s[j]
    OBVIOUS
  <2>4. Append(s, e)[(i - 1) \div rate + 1] = s[(i - 1) \div rate + 1]
    BY <2>2, <2>3, Zenon
  <2> QED BY <2>4, Zenon DEF GivenBy
<1> QED BY <1>1, Zenon DEF GivenBy

LEMMA TakeLeftKeeps ==
    ASSUME SpongeInv, TakeLeft
    PROVE  SpongeInv'
<1> DEFINE n == Lesser(todo, pos)
<1>1. phase = "squeeze" /\ phase' = "squeeze" /\ Idle /\ todo > 0 /\ pos > 0
      /\ output' = output \o LeftOver(n) /\ pos' = pos - n /\ todo' = todo - n
  BY Zenon DEF TakeLeft
<1>2. alg' = alg /\ lanes' = lanes /\ round' = round /\ absorbed' = absorbed
      /\ blocks' = blocks /\ base' = base /\ stream' = stream
  BY Zenon DEF TakeLeft, history
<1>3. TypedHash /\ Squeezing /\ Padded /\ GivenBy(rate, output, stream) /\ rate' = rate
  BY <1>2, AlgKept, Zenon DEF SpongeInv
<1>4. /\ alg \in Algorithms /\ pos \in Nat /\ todo \in Nat
      /\ output \in Seq(SUBSET (0 .. 7)) /\ stream \in Seq(State)
      /\ Len(output) + pos = rate * Len(stream) /\ pos <= rate
      /\ lanes = stream[Len(stream)]
  BY <1>1, <1>3, Zenon DEF Squeezing, TypedHash
<1>5. n \in Nat /\ n <= pos /\ n <= todo
  BY <1>4 DEF Lesser
<1> HIDE DEF n
<1>6. /\ output' \in Seq(SUBSET (0 .. 7)) /\ Len(output') = Len(output) + n
      /\ GivenBy(rate, output', stream)
  <2>0. PICK last : last = lanes
    OBVIOUS
  <2>1. PICK p \in Nat, o \in Seq(SUBSET (0 .. 7)), s \in Seq(State) :
           p = pos /\ o = output /\ s = stream
    BY <1>4, Zenon
  <2>2. /\ n <= p /\ p <= rate /\ 0 < p /\ Len(o) + p = rate * Len(s)
        /\ GivenBy(rate, o, s) /\ last = s[Len(s)]
    BY <1>1, <1>3, <1>4, <1>5, <2>0, <2>1
  <2>3. /\ o \o BytesOf(last, rate - p, n) \in Seq(SUBSET (0 .. 7))
        /\ Len(o \o BytesOf(last, rate - p, n)) = Len(o) + n
        /\ GivenBy(rate, o \o BytesOf(last, rate - p, n), s)
    BY <1>4, <1>5, <2>2, GivenOn, SMTT(30)
  <2>4. output' = o \o BytesOf(last, rate - p, n)
    BY <1>1, <2>0, <2>1, Zenon DEF LeftOver
  <2> QED BY <2>1, <2>3, <2>4, Zenon
<1>7. pos' \in Nat /\ todo' \in Nat /\ Len(output') + pos' = Len(output) + pos
      /\ pos' <= pos
  <2>1. Len(output) \in Nat
    BY <1>4
  <2> QED BY <1>1, <1>4, <1>5, <1>6, <2>1
<1>8. TypedHash'
  BY <1>1, <1>2, <1>3, <1>6, <1>7, Zenon DEF TypedHash
<1>9. Squeezing'
  <2>1. rate \in Nat
    BY <1>4, AlgTyped
  <2>2. pos' <= rate
    BY <1>4, <1>7, <2>1
  <2>3. Idle'
    BY <1>1, <1>2 DEF Idle
  <2>4. Len(output') + pos' = rate' * Len(stream') /\ pos' <= rate'
        /\ lanes' = stream'[Len(stream')]
    BY <1>2, <1>3, <1>4, <1>7, <2>2, Zenon
  <2> QED BY <2>3, <2>4, Zenon DEF Squeezing
<1>10. Padded'
  BY <1>1, <1>2, <1>3, Zenon DEF Padded, Idle
<1>11. Resting' /\ Absorbing'
  BY <1>1, Zenon DEF Resting, Absorbing
<1>12. GivenBy(rate, output, stream)'
  BY <1>2, <1>3, <1>6, Zenon
<1> QED BY <1>8, <1>9, <1>10, <1>11, <1>12, Zenon DEF SpongeInv

-----------------------------------------------------------------------------
(* Two rounds of the permutation. *)

LEMMA PermuteKeeps ==
    ASSUME SpongeInv, Permute
    PROVE  SpongeInv'
<1>1. ~Idle /\ lanes' = TwoRounds(lanes, round) /\ round' = round + 2
  BY Zenon DEF Permute
<1>2. alg' = alg /\ phase' = phase /\ pos' = pos /\ todo' = todo /\ output' = output
      /\ absorbed' = absorbed /\ blocks' = blocks
  BY Zenon DEF Permute
<1>3. /\ base' = (IF phase = "absorb" /\ Idle' THEN lanes' ELSE base)
      /\ stream' = (IF phase = "squeeze" /\ Idle' THEN Append(stream, lanes') ELSE stream)
  BY Zenon DEF Permute, Idle
<1>4. /\ TypedHash /\ Resting /\ Absorbing /\ Squeezing
      /\ GivenBy(rate, output, stream) /\ rate' = rate
  BY <1>2, AlgKept, Zenon DEF SpongeInv
<1>5. /\ alg \in Algorithms /\ output \in Seq(SUBSET (0 .. 7)) /\ stream \in Seq(State)
      /\ base \in State /\ lanes \in State /\ round \in Evens /\ pos \in Nat
      /\ blocks \in Nat /\ phase \in {"absorb", "squeeze"}
  <2>1. phase \notin {"start", "released", "exit"}
    BY <1>1, <1>4, Zenon DEF Resting
  <2> QED BY <1>4, <2>1, Zenon DEF TypedHash
<1>6. lanes' \in State /\ round' \in Evens
  <2>1. round # 24
    BY <1>1 DEF Idle, NROUNDS
  <2> QED BY <1>1, <1>5, <2>1, TwoRoundsTyped
<1>7. base' \in State /\ stream' \in Seq(State)
  <2>1. Append(stream, lanes') \in Seq(State)
    BY <1>5, <1>6
  <2> QED BY <1>3, <1>5, <1>6, <2>1, Zenon
<1>8. TypedHash'
  BY <1>2, <1>4, <1>6, <1>7, Zenon DEF TypedHash
<1>9. Resting'
  BY <1>2, <1>5, Zenon DEF Resting
<1>10. CASE phase = "absorb"
  <2>1. base' = (IF Idle' THEN lanes' ELSE base) /\ stream' = stream
    BY <1>3, <1>10, Zenon
  <2>2. /\ stream = <<>> /\ output = <<>> /\ absorbed = rate * blocks + pos /\ pos < rate
        /\ pos = 0
    BY <1>1, <1>4, <1>10, Zenon DEF Absorbing
  <2>3. Idle' => lanes' = Fed(base', rate * blocks, pos)
    <3>1. Fed(lanes', rate * blocks, 0) = lanes'
      BY <1>6, FedNone
    <3> QED BY <2>1, <2>2, <3>1, Zenon
  <2>4. Absorbing'
    BY <1>2, <1>4, <2>1, <2>2, <2>3, Zenon DEF Absorbing
  <2>5. Squeezing' /\ Padded'
    BY <1>2, <1>10, Zenon DEF Squeezing, Padded
  <2>6. GivenBy(rate, output, stream)'
    BY <1>2, <1>4, <2>1, Zenon
  <2> QED BY <1>8, <1>9, <2>4, <2>5, <2>6, Zenon DEF SpongeInv
<1>11. CASE phase = "squeeze"
  <2>1. stream' = (IF Idle' THEN Append(stream, lanes') ELSE stream)
    BY <1>3, <1>11, Zenon
  <2>2. Len(output) = rate * Len(stream) /\ pos = rate
    BY <1>1, <1>4, <1>11, Zenon DEF Squeezing
  <2>3. Absorbing'
    BY <1>2, <1>11, Zenon DEF Absorbing
  <2>4. CASE Idle'
    <3>1. stream' = Append(stream, lanes')
      BY <2>1, <2>4
    <3>2. /\ stream' # <<>> /\ Len(stream') = Len(stream) + 1 /\ Len(stream) \in Nat
          /\ stream'[Len(stream')] = lanes'
      BY <1>5, <1>6, <3>1
    <3>3. GivenBy(rate, output, stream')
      BY <1>4, <1>5, <1>6, <2>2, <3>1, GivenStill
    <3>4. Len(output) + pos = rate * Len(stream') /\ pos <= rate
      <4>1. rate * (Len(stream) + 1) = rate * Len(stream) + rate /\ rate \in Nat
        BY <1>5, <3>2, AlgTyped, TimesTyped
      <4> QED BY <2>2, <3>2, <4>1
    <3>5. Squeezing'
      BY <1>2, <1>4, <2>4, <3>2, <3>4, Zenon DEF Squeezing
    <3>6. Padded'
      BY <3>2, Zenon DEF Padded
    <3>7. GivenBy(rate, output, stream)'
      BY <1>2, <1>4, <3>3, Zenon
    <3> QED BY <1>8, <1>9, <2>3, <3>5, <3>6, <3>7, Zenon DEF SpongeInv
  <2>5. CASE ~Idle'
    <3>1. stream' = stream
      BY <2>1, <2>5
    <3>2. Squeezing'
      BY <1>2, <1>4, <2>2, <2>5, <3>1, Zenon DEF Squeezing
    <3>3. Padded'
      BY <2>5, Zenon DEF Padded
    <3>4. GivenBy(rate, output, stream)'
      BY <1>2, <1>4, <3>1, Zenon
    <3> QED BY <1>8, <1>9, <2>3, <3>2, <3>3, <3>4, Zenon DEF SpongeInv
  <2> QED BY <2>4, <2>5
<1> QED BY <1>5, <1>10, <1>11

-----------------------------------------------------------------------------
(* Nothing changes. *)
LEMMA HashStutterKeeps ==
    ASSUME SpongeInv, UNCHANGED spongeVars
    PROVE  SpongeInv'
<1>1. alg' = alg /\ phase' = phase /\ lanes' = lanes /\ pos' = pos /\ todo' = todo
      /\ round' = round /\ output' = output /\ absorbed' = absorbed
      /\ blocks' = blocks /\ base' = base /\ stream' = stream
  BY Zenon DEF spongeVars, history
<1>2. rate' = rate
  BY <1>1, AlgKept, Zenon
<1> QED BY <1>1, <1>2, Zenon
    DEF SpongeInv, TypedHash, Resting, Absorbing, Squeezing, Padded, Idle

LEMMA HashStepKeeps ==
    ASSUME MessageOfBytes, SpongeInv, [SpongeNext]_spongeVars
    PROVE  SpongeInv'
<1>1. CASE UNCHANGED spongeVars
  BY <1>1, HashStutterKeeps
<1>2. CASE SpongeNext
  BY <1>2, StartKeeps, OutOfMemoryKeeps, PermuteKeeps, AbsorbKeeps, AbsorbBlockKeeps,
     AbsorbRestKeeps, FinalizeKeeps, AbsorbLastKeeps, SqueezeKeeps, TakeLeftKeeps,
     NextBlockKeeps, ReleaseKeeps, Zenon DEF SpongeNext
<1> QED BY <1>1, <1>2

THEOREM SpongeAlways == ASSUME MessageOfBytes PROVE SpongeSpec => []SpongeInv
<1>1. SpongeInit => SpongeInv
  BY HashBegins
<1>2. SpongeInv /\ [SpongeNext]_spongeVars => SpongeInv'
  BY HashStepKeeps
<1> QED BY <1>1, <1>2, PTL DEF SpongeSpec

(* However a message is cut in pieces, and whether it ends with a block, the
   state absorbs what FIPS 202 says, its padding included. *)
THEOREM AbsorbedLikeFipsHolds ==
    ASSUME MessageOfBytes PROVE SpongeSpec => []AbsorbedLikeFips
<1>1. SpongeInv => AbsorbedLikeFips
  BY InvAbsorbs
<1> QED BY <1>1, SpongeAlways, PTL

(* However the output is cut, no byte of the states squeezed is given twice or
   left out. *)
THEOREM OutputIsStreamHolds ==
    ASSUME MessageOfBytes PROVE SpongeSpec => []OutputIsStream
<1>1. SpongeInv => OutputIsStream
  BY InvGives
<1> QED BY <1>1, SpongeAlways, PTL
=============================================================================
