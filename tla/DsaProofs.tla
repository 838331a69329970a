------------------------------ MODULE DsaProofs ------------------------------
(***************************************************************************)
(* What the arithmetic of ML-DSA promises for every input: that Fqmul is   *)
(* the product the code computes, that the worst cases Dsa follows through *)
(* a procedure are worst cases, that rounding is that of FIPS 204, and     *)
(* that a hint brings the verifier to the signer's challenge.  Of every    *)
(* run: that no mask is drawn twice; that what is sampled is what its      *)
(* stream gives; and that in every procedure, on every input, no vector    *)
(* leaves its worst case and nothing overflows (DsaInv, in the second      *)
(* half: where each statement stands and what each vector holds there,     *)
(* then a lemma per statement).                                            *)
(***************************************************************************)
EXTENDS Dsa, SequenceLemmas, FiniteSetTheorems, TLAPS

(* x lies between -b and b. *)
Within(x, b) == x \in Int /\ -b <= x /\ x <= b

QINV == 58728449                        \* q^-1 mod 2^32

Int32(x) == ((x + 2147483648) % 4294967296) - 2147483648

(* montgomery_reduce as it is written, with a product of up to 64 bits. *)
MontgomeryReduce(a) == (a - Int32(a * QINV) * 8380417) \div 4294967296

-----------------------------------------------------------------------------
(* The words of 16 bits in which Fqmul computes. *)

(* The product of two numbers that were cut in two is a sum of two words and
   what lies above them. *)
LEMMA ProductWords ==
    ASSUME NEW C \in Int, NEW E \in Int, NEW F \in Int, NEW G \in Int,
           NEW s \in Int, s = C + (E % 16) * 4096,
           NEW u \in Int, u = s \div 65536 + E \div 16 + F + (G % 16) * 4096
    PROVE  C + 4096 * E + 65536 * F + 268435456 * G
             = (s % 65536) + 65536 * (u % 65536)
                  + 4294967296 * (u \div 65536 + G \div 16)
<1>1. E = 16 * (E \div 16) + (E % 16) /\ G = 16 * (G \div 16) + (G % 16)
  BY SMT
<1>2. s = 65536 * (s \div 65536) + (s % 65536) /\ u = 65536 * (u \div 65536) + (u % 65536)
  BY SMT
<1> QED
  BY <1>1, <1>2, SMT

(* The word above the lower half of the product of t1, t0 and q. *)
LEMMA TimesQWords ==
    ASSUME NEW t0 \in Int, 0 <= t0, t0 < 65536, NEW t1 \in Int,
           NEW tq \in Int,
           tq = t1 * 57345 + t0 * 127 + (7 * t0 + t0 \div 8192) \div 8
    PROVE  ((t0 + 65536 * t1) * 8380417) \div 4294967296 = 127 * t1 + tq \div 65536
<1>1. PICK c \in Int : c = t0 \div 8192
  BY SMT
<1>2. t0 = 8192 * c + (t0 % 8192) /\ 0 <= (t0 % 8192) /\ (t0 % 8192) < 8192
  BY <1>1, SMT
<1>3. PICK e \in Int : e = (7 * t0 + c) \div 8
  BY <1>1, SMT
<1>4. 8 * e <= 7 * t0 + c /\ 7 * t0 + c < 8 * e + 8
  BY <1>3, SMT
<1>5. 65536 * e <= 57345 * t0 /\ 57345 * t0 < 65536 * e + 65536
  BY <1>2, <1>4, SMT
<1>6. PICK f \in Int : f = tq \div 65536
  BY SMT
<1>7. 65536 * f <= tq /\ tq <= 65536 * f + 65535
  BY <1>6, SMT
<1>8. tq = t1 * 57345 + t0 * 127 + e
  BY <1>1, <1>3
<1>9. /\ 4294967296 * (127 * t1 + f) <= (t0 + 65536 * t1) * 8380417
      /\ (t0 + 65536 * t1) * 8380417 < 4294967296 * (127 * t1 + f) + 4294967296
  BY <1>5, <1>7, <1>8, SMT
<1>10. PICK p \in Int, g \in Int : p = (t0 + 65536 * t1) * 8380417 /\ g = 127 * t1 + f
  BY SMT
<1>11. p \div 4294967296 = g
  BY <1>9, <1>10, SMT
<1> QED
  BY <1>6, <1>10, <1>11

(* lo is the lower word of c, and t that of its product with q^-1. *)
Factor(c, lo, hi, t, m) ==
    /\ c = lo + 4294967296 * hi
    /\ lo * 58728449 = t + 4294967296 * m
    /\ -2147483648 <= t /\ t <= 2147483647

(* Then t is the factor that montgomery_reduce finds for c. *)
LEMMA FactorFound ==
    ASSUME NEW lo \in Int, NEW hi \in Int, NEW t \in Int, NEW m \in Int,
           NEW c \in Int, Factor(c, lo, hi, t, m)
    PROVE  Int32(c * QINV) = t
<1>0. /\ c = lo + 4294967296 * hi
      /\ lo * 58728449 = t + 4294967296 * m
      /\ -2147483648 <= t /\ t <= 2147483647
  BY DEF Factor
<1>1. c * 58728449 = t + 4294967296 * (m + 58728449 * hi)
  BY <1>0, SMT
<1>2. m + 58728449 * hi \in Int /\ c * 58728449 \in Int
  BY SMT
<1>3. PICK k \in Int : k = m + 58728449 * hi
  BY <1>2
<1>4. PICK v \in Int : v = c * 58728449
  BY <1>2
<1>5. v = t + 4294967296 * k
  BY <1>1, <1>3, <1>4
<1>6. ((v + 2147483648) % 4294967296) - 2147483648 = t
  BY <1>0, <1>5, SMT
<1> QED
  BY <1>4, <1>6 DEF Int32, QINV

(* The quotient of a number just above a multiple of 2^32 is that multiple. *)
LEMMA MultipleOf ==
    ASSUME NEW f \in Int, NEW g \in Int, NEW lo \in Int, 0 <= lo, lo < 4294967296,
           f = lo + 4294967296 * g
    PROVE  f \div 4294967296 = g
  BY SMT

(* The words below 2^32 of the product and of t * q cancel, so that what
   montgomery_reduce leaves is the difference of the words above. *)
LEMMA QuotientSplits ==
    ASSUME NEW lo \in Int, 0 <= lo, lo < 4294967296,
           NEW hi \in Int, NEW t \in Int, NEW m \in Int,
           NEW c \in Int, c = lo + 4294967296 * hi,
           lo * 58728449 = t + 4294967296 * m
    PROVE  (c - t * 8380417) \div 4294967296 = hi - (t * 8380417) \div 4294967296
<1>1. t * 8380417 = lo + 4294967296 * (114592 * lo - 8380417 * m)
  BY SMT
<1>2. 114592 * lo - 8380417 * m \in Int /\ t * 8380417 \in Int
  BY SMT
<1> DEFINE g == 114592 * lo - 8380417 * m
           T == t * 8380417
<1>3. g \in Int /\ T \in Int /\ T = lo + 4294967296 * g
  BY <1>1, <1>2
<1> HIDE DEF g, T
<1>4. T \div 4294967296 = g
  BY <1>3, MultipleOf
<1>5. c - T = 0 + 4294967296 * (hi - g)
  BY <1>3, SMT
<1>6. c - T \in Int /\ hi - g \in Int
  BY <1>3, SMT
<1>7. (c - T) \div 4294967296 = hi - g
  BY <1>5, <1>6, MultipleOf, SMT
<1> QED
  BY <1>4, <1>7 DEF T

(* Fqmul is montgomery_reduce of the product: words of 16 bits lose nothing. *)
THEOREM WordsExact ==
    ASSUME NEW a \in Int, NEW b \in Int
    PROVE  Fqmul(a, b) = MontgomeryReduce(a * b)
<1> DEFINE al == a % 65536   ah == a \div 65536
           bl == b % 4096    bh == b \div 4096
<1>1. PICK C \in Int, E \in Int, F \in Int, G \in Int :
         C = al * bl /\ E = al * bh /\ F = ah * bl /\ G = ah * bh
  BY SMT
<1>2. a * b = C + 4096 * E + 65536 * F + 268435456 * G
  <2>1. PICK p \in Int, q \in Int, r \in Int, s \in Int :
           p = al /\ q = ah /\ r = bl /\ s = bh
    BY SMT
  <2>2. a = p + 65536 * q /\ b = r + 4096 * s
    BY <2>1, SMT
  <2>3. C = p * r /\ E = p * s /\ F = q * r /\ G = q * s
    BY <1>1, <2>1
  <2>4. (p + 65536 * q) * (r + 4096 * s)
           = p * r + 4096 * (p * s) + 65536 * (q * r) + 268435456 * (q * s)
    BY SMT
  <2> QED
    BY <2>2, <2>3, <2>4
<1>3. PICK s \in Int : s = C + (E % 16) * 4096
  BY SMT
<1>4. PICK u \in Int : u = s \div 65536 + E \div 16 + F + (G % 16) * 4096
  BY SMT
<1>5. PICK w0 \in Int, w1 \in Int, hi \in Int :
         w0 = s % 65536 /\ w1 = u % 65536 /\ hi = u \div 65536 + G \div 16
  BY SMT
<1>6. /\ 0 <= w0 /\ w0 < 65536
      /\ 0 <= w1 /\ w1 < 65536
  BY <1>5, SMT
<1>7. PICK x \in Int : x = w0 + (w0 % 8) * 8192
  BY SMT
<1>8. PICK y \in Int :
         y = w1 + (w1 % 8) * 8192 + w0 \div 8 + 896 * w0 + x \div 65536
  BY SMT
<1>9. PICK t0 \in Int, t1 \in Int :
         t0 = x % 65536 /\ t1 = ((y + 32768) % 65536) - 32768
  BY SMT
<1>10. 0 <= t0 /\ t0 < 65536 /\ -32768 <= t1 /\ t1 < 32768
  BY <1>9, SMT
<1>11. PICK tq \in Int : tq = t1 * 57345 + t0 * 127 + (7 * t0 + t0 \div 8192) \div 8
  BY SMT
<1>12. Fqmul(a, b) = hi - (127 * t1 + tq \div 65536)
  <2>1. Fqmul(a, b) = hi - Subtrahend(w0, w1)
    BY <1>1, <1>3, <1>4, <1>5 DEF Fqmul
  <2>2. Subtrahend(w0, w1) = TimesQHigh(t0, t1)
    BY <1>7, <1>8, <1>9 DEF Subtrahend
  <2>3. TimesQHigh(t0, t1) = 127 * t1 + tq \div 65536
    BY <1>11 DEF TimesQHigh
  <2> QED
    BY <2>1, <2>2, <2>3
<1>13. a * b = w0 + 65536 * w1 + 4294967296 * hi
  BY <1>2, <1>3, <1>4, <1>5, ProductWords
<1>14. PICK m \in Int : (w0 + 65536 * w1) * 58728449
                          = (t0 + 65536 * t1) + 4294967296 * m
  <2>1. w0 = 8 * (w0 \div 8) + (w0 % 8)
    BY SMT
  <2>2. x = 65536 * (x \div 65536) + t0
    BY <1>9, SMT
  <2>3. PICK k \in Int : k = (y + 32768) \div 65536
    BY SMT
  <2>4. PICK n \in Int : n = w1 \div 8
    BY SMT
  <2>5. y = t1 + 65536 * k
    BY <1>9, <2>3, SMT
  <2>6. w1 = 8 * n + (w1 % 8)
    BY <2>4, SMT
  <2>7. (w0 + 65536 * w1) * 58728449
           = (t0 + 65536 * t1) + 4294967296 * (k + n + 896 * w1)
    BY <1>7, <1>8, <2>1, <2>2, <2>5, <2>6, SMT
  <2>8. k + n + 896 * w1 \in Int
    BY SMT
  <2> QED
    BY <2>7, <2>8
<1>15. PICK t \in Int : t = t0 + 65536 * t1
  BY SMT
<1>16. -2147483648 <= t /\ t <= 2147483647
  BY <1>10, <1>15, SMT
<1>17. PICK lo \in Int, c \in Int : lo = w0 + 65536 * w1 /\ c = a * b
  BY SMT
<1>22. /\ c = lo + 4294967296 * hi
       /\ lo * 58728449 = t + 4294967296 * m
       /\ 0 <= lo /\ lo < 4294967296
  BY <1>6, <1>13, <1>14, <1>15, <1>17, SMT
<1>23. Factor(c, lo, hi, t, m)
  BY <1>16, <1>22 DEF Factor
<1>18. Int32(c * QINV) = t
  BY <1>23, FactorFound
<1>19. MontgomeryReduce(c) = (c - t * 8380417) \div 4294967296
  BY <1>18 DEF MontgomeryReduce
<1>20. (t * 8380417) \div 4294967296 = 127 * t1 + tq \div 65536
  BY <1>10, <1>11, <1>15, TimesQWords
<1>21. (c - t * 8380417) \div 4294967296 = hi - (t * 8380417) \div 4294967296
  BY <1>22, QuotientSplits
<1> QED
  BY <1>12, <1>17, <1>19, <1>20, <1>21
-----------------------------------------------------------------------------
(* Rounding. *)

(* The multiplication that stands for a division by 2 * GAMMA2 finds the
   multiple that is nearest. *)
LEMMA NearestMultiple ==
    ASSUME NEW k \in Int, 0 <= k, k <= 16,
           NEW d \in Int, -261888 < d, d <= 261888,
           NEW a \in Int, a = 523776 * k + d
    PROVE  (((a + 127) \div 128) * 1025 + 2097152) \div 4194304 = k
<1>1. PICK c \in Int : c = (a + 127) \div 128
  BY SMT
<1>2. 128 * c <= a + 127 /\ a + 127 < 128 * c + 128
  BY <1>1, SMT
<1>3. -2045 <= c - 4092 * k /\ c - 4092 * k <= 2046
  BY <1>2, SMT
<1>4. /\ 4194304 * k <= c * 1025 + 2097152
      /\ c * 1025 + 2097152 < 4194304 * k + 4194304
  BY <1>3, SMT
<1>5. (c * 1025 + 2097152) \div 4194304 = k
  BY <1>4, SMT
<1> QED
  BY <1>1, <1>5

(* a is d away from multiple number k, and from no other less far. *)
Near(a, k, d) ==
    /\ 0 <= k /\ k <= 16
    /\ -261888 < d /\ d <= 261888
    /\ a = 523776 * k + d

(* decompose, in terms of the nearest multiple: the last one is joined to the
   first. *)
LEMMA DecomposeAt ==
    ASSUME NEW k \in Int, NEW d \in Int,
           NEW a \in Int, 0 <= a, a < 8380417, Near(a, k, d)
    PROVE  /\ Decompose(a).high = IF k = 16 THEN 0 ELSE k
           /\ Decompose(a).low  = IF k = 16 THEN d - 1 ELSE d
<1>0. /\ 0 <= k /\ k <= 16
      /\ -261888 < d /\ d <= 261888
      /\ a = 523776 * k + d
  BY DEF Near
<1>1. (((a + 127) \div 128) * 1025 + 2097152) \div 4194304 = k
  BY <1>0, NearestMultiple
<1>2. 2 * GAMMA2 = 523776 /\ (Q - 1) \div 2 = 4190208
  BY SMT DEF GAMMA2, Q
<1>3. Decompose(a) =
         [high |-> k % 16,
          low  |-> IF a - (k % 16) * 2 * GAMMA2 > 4190208
                   THEN a - (k % 16) * 2 * GAMMA2 - Q
                   ELSE a - (k % 16) * 2 * GAMMA2]
  BY <1>1, <1>2 DEF Decompose
<1>4. (k % 16) * 2 * GAMMA2 = 523776 * (k % 16)
  BY <1>0, <1>2, SMT DEF GAMMA2, Q
<1>5. k % 16 = IF k = 16 THEN 0 ELSE k
  BY <1>0, SMT
<1>6. CASE k = 16
  BY <1>0, <1>3, <1>4, <1>5, <1>6, SMT DEF Q
<1>7. CASE k # 16
  BY <1>0, <1>3, <1>4, <1>5, <1>7, SMT DEF Q
<1> QED
  BY <1>6, <1>7

(* Every number below q is near some multiple. *)
LEMMA NearSome ==
    ASSUME NEW a \in Int, 0 <= a, a < 8380417
    PROVE  \E k \in Int, d \in Int : Near(a, k, d)
<1>1. PICK k \in Int : k = (a + 261887) \div 523776
  BY SMT
<1>2. PICK d \in Int : d = a - 523776 * k
  BY SMT
<1>3. 523776 * k <= a + 261887 /\ a + 261887 < 523776 * k + 523776
  BY <1>1, SMT
<1>4. 0 <= k /\ k <= 16 /\ -261888 < d /\ d <= 261888 /\ a = 523776 * k + d
  BY <1>2, <1>3, SMT
<1> QED
  BY <1>4 DEF Near

(* decompose of d_rounding.c is Decompose of FIPS 204, for every number below
   q, and not only next to the borders. *)
THEOREM DecomposeIsFips ==
    ASSUME NEW a \in Int, 0 <= a, a < Q
    PROVE  Decompose(a) = FipsDecompose(a)
<1>0. a < 8380417
  BY SMT DEF Q
<1>9. PICK k \in Int, d \in Int : Near(a, k, d)
  BY <1>0, NearSome
<1>1. /\ 0 <= k /\ k <= 16
      /\ -261888 < d /\ d <= 261888
      /\ a = 523776 * k + d
  BY <1>9 DEF Near
<1>2. /\ Decompose(a).high = IF k = 16 THEN 0 ELSE k
      /\ Decompose(a).low  = IF k = 16 THEN d - 1 ELSE d
  BY <1>0, <1>9, DecomposeAt
<1>3. 2 * GAMMA2 = 523776
  BY SMT DEF GAMMA2, Q
<1>4. Centered(a, 523776) = d
  <2>1. CASE d >= 0
    <3>1. a % 523776 = d
      BY <1>1, <2>1, SMT
    <3> QED
      BY <1>1, <3>1, SMT DEF Centered
  <2>2. CASE d < 0
    <3>1. a % 523776 = d + 523776
      BY <1>1, <2>2, SMT
    <3> QED
      BY <1>1, <2>2, <3>1, SMT DEF Centered
  <2> QED
    BY <1>1, <2>1, <2>2, SMT
<1>5. a - d = Q - 1 <=> k = 16
  BY <1>1, SMT DEF Q
<1>6. k # 16 => (a - d) \div 523776 = k
  BY <1>1, SMT
<1>7. FipsDecompose(a) = IF k = 16 THEN [high |-> 0, low |-> d - 1]
                                   ELSE [high |-> k, low |-> d]
  BY <1>3, <1>4, <1>5, <1>6 DEF FipsDecompose
<1>8. Decompose(a) = [high |-> Decompose(a).high, low |-> Decompose(a).low]
  BY DEF Decompose
<1> QED
  BY <1>2, <1>7, <1>8

(* A remainder is a number below the modulus, as SMT reads it. *)
LEMMA BelowNext ==
    ASSUME NEW n \in Int, NEW r \in 0 .. n - 1
    PROVE  r \in Int /\ 0 <= r /\ r < n
  BY SMT

(* power2round cuts a number below q into parts that fit the encodings of the
   public and the secret key. *)
THEOREM Power2RoundFits ==
    ASSUME NEW a \in Int, 0 <= a, a < Q
    PROVE  /\ a = 8192 * Power2Round(a).high + Power2Round(a).low
           /\ 0 <= Power2Round(a).high /\ Power2Round(a).high <= 1023
           /\ -4096 < Power2Round(a).low /\ Power2Round(a).low <= 4096
<1>1. 2^D = 8192 /\ 2^(D - 1) = 4096
  BY SMT DEF D
<1>2. PICK h \in Int : h = (a + 4095) \div 8192
  BY SMT
<1>3. Power2Round(a).high = h /\ Power2Round(a).low = a - h * 8192
  BY <1>1, <1>2, SMT DEF Power2Round
<1> QED
  BY <1>2, <1>3, SMT DEF Q
(* The parts are those of FIPS 204. *)
THEOREM Power2RoundIsFips ==
    ASSUME NEW a \in Int, 0 <= a, a < Q
    PROVE  Power2Round(a) = FipsPower2Round(a)
<1>1. 2^D = 8192 /\ 2^(D - 1) = 4096
  BY SMT DEF D
<1>2. PICK h \in Int : h = (a + 4095) \div 8192
  BY SMT
<1>3. Power2Round(a) = [high |-> h, low |-> a - h * 8192]
  BY <1>1, <1>2 DEF Power2Round
<1>4. Centered(a, 8192) = a - h * 8192
  BY <1>2, SMT DEF Centered
<1>5. (h * 8192) \div 8192 = h
  BY SMT
<1>6. a - (a - h * 8192) = h * 8192
  BY SMT
<1>7. (a - Centered(a, 8192)) \div 8192 = h
  BY <1>4, <1>5, <1>6
<1> QED
  BY <1>1, <1>3, <1>4, <1>7 DEF FipsPower2Round

(* What the run checks next to every border holds in every behaviour. *)
THEOREM RoundsExactlyHolds == Spec => []RoundsExactly
<1>1. RoundsExactly
  <2>1. Q \in Int
    BY SMT DEF Q
  <2>2. ASSUME NEW r \in Borders PROVE Decompose(r) = FipsDecompose(r)
    <3>1. r \in 0 .. Q - 1
      BY DEF Borders
    <3> QED
      BY <2>1, <3>1, BelowNext, DecomposeIsFips
  <2>3. ASSUME NEW r \in Halves PROVE Power2Round(r) = FipsPower2Round(r)
    <3>1. r \in 0 .. Q - 1
      BY DEF Halves
    <3> QED
      BY <2>1, <3>1, BelowNext, Power2RoundIsFips, SMTT(30)
  <2> QED
    BY <2>2, <2>3 DEF RoundsExactly
<1> QED
  BY <1>1, PTL

-----------------------------------------------------------------------------
(* Hints. *)

(* What the verifier computes differs from what the signer rounded by e - w0:
   it is w1 * 2 * GAMMA2 + e modulo q. *)
Shifted(w1, e) ==
    LET r == w1 * 523776 + e
    IN  IF r < 0 THEN r + 8380417 ELSE IF r >= 8380417 THEN r - 8380417 ELSE r

(* use_hint, in terms of the nearest multiple. *)
LEMMA UseHintAt ==
    ASSUME NEW k \in Int, NEW d \in Int,
           NEW a \in Int, 0 <= a, a < 8380417, Near(a, k, d)
    PROVE  /\ UseHint(a, 0) = IF k = 16 THEN 0 ELSE k
           /\ UseHint(a, 1) = IF k = 16 THEN 15
                              ELSE IF d > 0 THEN (k + 1) % 16 ELSE (k - 1) % 16
<1>0. /\ 0 <= k /\ k <= 16
      /\ -261888 < d /\ d <= 261888
  BY DEF Near
<1>1. /\ Decompose(a).high = IF k = 16 THEN 0 ELSE k
      /\ Decompose(a).low  = IF k = 16 THEN d - 1 ELSE d
  BY DecomposeAt
<1>2. UseHint(a, 0) = Decompose(a).high
  BY DEF UseHint
<1>3. UseHint(a, 1) = IF Decompose(a).low > 0 THEN (Decompose(a).high + 1) % 16
                                              ELSE (Decompose(a).high - 1) % 16
  BY DEF UseHint
<1>4. a < 8380417 /\ a = 523776 * k + d
  BY DEF Near
<1>5. k = 16 => d <= 0
  BY <1>4, SMT
<1>6. CASE k = 16
  <2>1. d - 1 > 0 <=> FALSE
    BY <1>5, <1>6, SMT
  <2>2. PICK z \in Int : z = Decompose(a).high - 1
    BY <1>1, <1>6, SMT
  <2>3. z + 1 = 0
    BY <1>1, <1>6, <2>2, SMT
  <2>4. z % 16 = 15
    BY <2>3, SMT
  <2> QED
    BY <1>1, <1>2, <1>3, <1>6, <2>1, <2>2, <2>4
<1>7. CASE k # 16
  BY <1>1, <1>2, <1>3, <1>7
<1> QED
  BY <1>6, <1>7

(* With the hint that make_hint sets for e, use_hint gives the verifier the
   high part that the signer hashed, for every high part and every e that the
   checks before make_hint let through. *)
THEOREM HintsRecover ==
    ASSUME NEW w1 \in Int, 0 <= w1, w1 <= 15,
           NEW e \in Int, -(2 * GAMMA2) < e, e < 2 * GAMMA2
    PROVE  UseHint(Shifted(w1, e), MakeHint(e, w1)) = w1
<1>0. GAMMA2 = 261888
  BY SMT DEF GAMMA2, Q
<1>1. -523776 < e /\ e < 523776
  BY <1>0, SMT
<1>2. PICK a \in Int : a = Shifted(w1, e)
  BY SMT DEF Shifted
<1>3. /\ 0 <= a /\ a < 8380417
      /\ a \in {w1 * 523776 + e, w1 * 523776 + e + 8380417, w1 * 523776 + e - 8380417}
      /\ w1 * 523776 + e < 0 <=> a = w1 * 523776 + e + 8380417
      /\ w1 * 523776 + e >= 8380417 <=> a = w1 * 523776 + e - 8380417
  BY <1>1, <1>2, SMT DEF Shifted
<1>4. PICK k \in Int, d \in Int : Near(a, k, d)
  BY <1>3, NearSome
<1>5. /\ 0 <= k /\ k <= 16
      /\ -261888 < d /\ d <= 261888
      /\ a = 523776 * k + d
  BY <1>4 DEF Near
<1>6. MakeHint(e, w1) = IF e > 261888 \/ e < -261888 \/ (e = -261888 /\ w1 # 0)
                        THEN 1 ELSE 0
  BY <1>0 DEF MakeHint
<1>7. /\ UseHint(a, 0) = IF k = 16 THEN 0 ELSE k
      /\ UseHint(a, 1) = IF k = 16 THEN 15
                         ELSE IF d > 0 THEN (k + 1) % 16 ELSE (k - 1) % 16
  BY <1>3, <1>4, UseHintAt
<1>8. CASE MakeHint(e, w1) = 0
  <2>1. -261888 <= e /\ e <= 261888 /\ (e = -261888 => w1 = 0)
    BY <1>6, <1>8, SMT
  <2>2. w1 = IF k = 16 THEN 0 ELSE k
    BY <1>3, <1>5, <2>1, SMT
  <2> QED
    BY <1>2, <1>7, <1>8, <2>2
<1>9. CASE MakeHint(e, w1) # 0
  <2>1. MakeHint(e, w1) = 1
    BY <1>6, <1>9
  <2>2. e > 261888 \/ e <= -261888
    BY <1>6, <1>9, SMT
  <2>3. CASE e > 261888
    <3>1. w1 = IF k = 16 THEN 15 ELSE IF d > 0 THEN (k + 1) % 16 ELSE (k - 1) % 16
      BY <1>1, <1>3, <1>5, <2>3, SMT
    <3> QED
      BY <1>2, <1>7, <2>1, <3>1
  <2>4. CASE e <= -261888
    <3>2. e = -261888 => w1 # 0
      BY <1>6, <1>9, SMT
    <3>1. w1 = IF k = 16 THEN 15 ELSE IF d > 0 THEN (k + 1) % 16 ELSE (k - 1) % 16
      BY <1>1, <1>3, <1>5, <2>4, <3>2, SMT
    <3> QED
      BY <1>2, <1>7, <2>1, <3>1
  <2> QED
    BY <2>2, <2>3, <2>4
<1> QED
  BY <1>8, <1>9

-----------------------------------------------------------------------------
(* The worst cases. *)

(* poly_reduce leaves what Dsa takes for Reduced, for every number up to the
   limit that d_reduce.c names.  The range that is named there, up to 6283008
   on both sides, is missed by one (Reduce32Least). *)
THEOREM Reduce32Range ==
    ASSUME NEW a \in Int, -2147483648 <= a, a <= 2143289343
    PROVE  /\ Within(Reduce32(a), Reduced)
           /\ \E m \in Int : Reduce32(a) = a + Q * m
<1>1. PICK t \in Int : t = (a + 4194304) \div 8388608
  BY SMT
<1>2. -256 <= t /\ t <= 255
  BY <1>1, SMT
<1>3. -4194304 <= a - 8388608 * t /\ a - 8388608 * t <= 4194303
  BY <1>1, SMT
<1>4. Reduce32(a) = a - t * Q
  BY <1>1 DEF Reduce32
<1>5. Reduce32(a) = a + Q * (-t) /\ -t \in Int
  BY <1>4, SMT DEF Q
<1>6. Within(Reduce32(a), Reduced)
  BY <1>2, <1>3, <1>4, SMT DEF Within, Reduced, Q
<1> QED
  BY <1>5, <1>6

(* The least of them is left of an input within the limit. *)
THEOREM Reduce32Least == Reduce32(-2143289344) = -6283009
<1>1. \A a \in Int : a = -2143289344 => (a + 4194304) \div 8388608 = -255
  BY SMT
<1>2. \A a \in Int : a = -2143289344 => a - (-255) * Q = -6283009
  BY SMT DEF Q
<1> QED
  BY <1>1, <1>2, SMT DEF Reduce32, Q

(* A bound is not larger than what FqmulBound rounds it up to. *)
LEMMA QuotientBound ==
    ASSUME NEW p \in Int, 0 <= p
    PROVE  /\ p \div 65536 + 1 \in Int
           /\ 0 <= p \div 65536 + 1
           /\ p <= 65536 * (p \div 65536 + 1)
  BY SMT

(* The product of two values within bounds lies within their product. *)
LEMMA ProductOfBounds ==
    ASSUME NEW x \in Int, NEW y \in Int, NEW A \in Int, NEW B \in Int,
           0 <= A, 0 <= B,
           -(65536 * A) <= x, x <= 65536 * A, -(65536 * B) <= y, y <= 65536 * B
    PROVE  /\ x * y <= 4294967296 * (A * B)
           /\ -(4294967296 * (A * B)) <= x * y
  BY SMT

(* A product is not larger than what Dsa takes for its worst case. *)
THEOREM FqmulWithin ==
    ASSUME NEW p \in Int, 0 <= p, NEW b \in Int, 0 <= b,
           NEW x, Within(x, p), NEW y, Within(y, b)
    PROVE  Within(Fqmul(x, y), FqmulBound(p, b))
<1>1. x \in Int /\ y \in Int
  BY DEF Within
<1>2. PICK A \in Int, B \in Int : A = p \div 65536 + 1 /\ B = b \div 65536 + 1
  BY SMT
<1>3. /\ 0 <= A /\ p <= 65536 * A
      /\ 0 <= B /\ b <= 65536 * B
  BY <1>2, QuotientBound
<1>4. PICK c \in Int, M \in Int : c = x * y /\ M = A * B
  BY <1>1, SMT
<1>5. c <= 4294967296 * M /\ -(4294967296 * M) <= c
  BY <1>1, <1>3, <1>4, ProductOfBounds, SMT DEF Within
<1>6. PICK t \in Int : t = Int32(c * QINV)
  BY SMT DEF Int32, QINV
<1>7. -2147483648 <= t /\ t <= 2147483647
  BY <1>6, SMT DEF Int32, QINV
<1>8. PICK r \in Int : r = (c - t * 8380417) \div 4294967296
  BY SMT
<1>9. -(M + 4190209) <= r /\ r <= M + 4190209
  BY <1>5, <1>7, <1>8, SMT
<1>10. Fqmul(x, y) = r
  BY <1>1, <1>4, <1>6, <1>8, WordsExact DEF MontgomeryReduce
<1>11. FqmulBound(p, b) = M + 4190209
  BY <1>2, <1>4, SMT DEF FqmulBound, Q
<1> QED
  BY <1>9, <1>10, <1>11 DEF Within
(* The numbers of the table are centred. *)
LEMMA ZetaWithin ==
    ASSUME NEW k \in 0 .. 255
    PROVE  Within(Zeta(k), ZetaBound) /\ Within(-Zeta(k), ZetaBound)
  BY SMT DEF Zeta, Zetas, Within, ZetaBound

(* The positions a butterfly reads lie in the polynomial, and its zeta in the
   table. *)
Lens == {1, 2, 4, 8, 16, 32, 64, 128}

(* A coefficient of the lower half of a block has its partner in the upper. *)
LEMMA LowerHalf ==
    ASSUME NEW len \in Lens, NEW j \in Coeffs, Lower(j, len)
    PROVE  j + len \in Coeffs
  BY SMT DEF Lens, Coeffs, Lower, N

(* A coefficient of the upper half of a block has its partner in the lower. *)
LEMMA UpperHalf ==
    ASSUME NEW len \in Lens, NEW j \in Coeffs, ~Lower(j, len)
    PROVE  j - len \in Coeffs
  BY SMT DEF Lens, Coeffs, Lower, N

(* Both transforms of d_ntt.c read their zetas inside the table. *)
LEMMA ZetaIndices ==
    ASSUME NEW len \in Lens, NEW j \in Coeffs
    PROVE  /\ (128 \div len) + Block(j, len) \in 0 .. 255
           /\ (256 \div len - 1) - Block(j, len) \in 0 .. 255
  BY SMTT(30) DEF Lens, Coeffs, Block, N

(* A polynomial of the size of b. *)
Bounded(r, b) == \A j \in Coeffs : Within(r[j], b)

(* The worst case of a product is a natural number. *)
LEMMA BoundNat ==
    ASSUME NEW p \in Int, 0 <= p, NEW b \in Int, 0 <= b
    PROVE  FqmulBound(p, b) \in Int /\ 0 <= FqmulBound(p, b)
<1>1. PICK A \in Int, B \in Int : A = p \div 65536 + 1 /\ B = b \div 65536 + 1
  BY SMT
<1>2. 0 <= A /\ 0 <= B
  BY <1>1, QuotientBound
<1>3. A * B \in Int /\ 0 <= A * B
  BY <1>2, SMT
<1> QED
  BY <1>1, <1>3, SMT DEF FqmulBound, Q

(* A layer of ntt adds one product to the worst case. *)
THEOREM NttLayerWorst ==
    ASSUME NEW r, NEW b \in Int, 0 <= b, NEW len \in Lens, Bounded(r, b)
    PROVE  Bounded(NttLayer(r, len), b + FqmulBound(b, ZetaBound))
<1> DEFINE f == FqmulBound(b, ZetaBound)
<1>1. ZetaBound \in Int /\ 0 <= ZetaBound
  BY SMT DEF ZetaBound
<1>2. f \in Int /\ 0 <= f
  BY <1>1, BoundNat
<1> HIDE DEF f
<1> SUFFICES ASSUME NEW j \in Coeffs
             PROVE  Within(NttLayer(r, len)[j], b + f)
  BY DEF Bounded, f
<1> DEFINE zeta == Zeta((128 \div len) + Block(j, len))
<1>3. Within(zeta, ZetaBound)
  BY ZetaIndices, ZetaWithin
<1> HIDE DEF zeta
<1>0. \A x, y : Within(x, b) /\ Within(y, ZetaBound) => Within(Fqmul(x, y), f)
  <2> SUFFICES ASSUME NEW x, NEW y, Within(x, b), Within(y, ZetaBound)
               PROVE  Within(Fqmul(x, y), f)
    OBVIOUS
  <2> QED
    BY <1>1, FqmulWithin DEF f
<1>4. CASE Lower(j, len)
  <2>1. Within(r[j], b) /\ Within(r[j + len], b)
    BY <1>4, LowerHalf DEF Bounded
  <2>2. Within(Fqmul(r[j + len], zeta), f)
    BY <1>0, <1>3, <2>1
  <2>3. Within(r[j] + Fqmul(r[j + len], zeta), b + f)
    BY <1>2, <2>1, <2>2, SMT DEF Within
  <2> QED
    BY <1>4, <2>3 DEF NttLayer, zeta
<1>5. CASE ~Lower(j, len)
  <2>1. Within(r[j], b) /\ Within(r[j - len], b)
    BY <1>5, UpperHalf DEF Bounded
  <2>2. Within(Fqmul(r[j], zeta), f)
    BY <1>0, <1>3, <2>1
  <2>3. Within(r[j - len] - Fqmul(r[j], zeta), b + f)
    BY <1>2, <2>1, <2>2, SMT DEF Within
  <2> QED
    BY <1>5, <2>3 DEF NttLayer, zeta
<1> QED
  BY <1>4, <1>5

(* A layer of invntt doubles the worst case, or multiplies a difference. *)
THEOREM InvNttLayerWorst ==
    ASSUME NEW r, NEW b \in Int, 0 <= b, NEW len \in Lens, Bounded(r, b)
    PROVE  Bounded(InvNttLayer(r, len),
                   Larger(2 * b, FqmulBound(2 * b, ZetaBound)))
<1> DEFINE f == FqmulBound(2 * b, ZetaBound)
<1>1. ZetaBound \in Int /\ 0 <= ZetaBound /\ 2 * b \in Int /\ 0 <= 2 * b
  BY SMT DEF ZetaBound
<1>2. f \in Int /\ 0 <= f
  BY <1>1, BoundNat
<1> HIDE DEF f
<1>3. /\ Larger(2 * b, f) \in Int
      /\ 2 * b <= Larger(2 * b, f) /\ f <= Larger(2 * b, f)
  BY <1>1, <1>2, SMT DEF Larger
<1> SUFFICES ASSUME NEW j \in Coeffs
             PROVE  Within(InvNttLayer(r, len)[j], Larger(2 * b, f))
  BY DEF Bounded, f
<1> DEFINE zeta == -Zeta((256 \div len - 1) - Block(j, len))
<1>4. Within(zeta, ZetaBound)
  BY ZetaIndices, ZetaWithin, ZenonT(30)
<1> HIDE DEF zeta
<1>0. \A x, y : Within(x, 2 * b) /\ Within(y, ZetaBound) => Within(Fqmul(x, y), f)
  <2> SUFFICES ASSUME NEW x, NEW y, Within(x, 2 * b), Within(y, ZetaBound)
               PROVE  Within(Fqmul(x, y), f)
    OBVIOUS
  <2> QED
    BY <1>1, FqmulWithin DEF f
<1>5. CASE Lower(j, len)
  <2>1. Within(r[j], b) /\ Within(r[j + len], b)
    BY <1>5, LowerHalf DEF Bounded
  <2>2. Within(r[j] + r[j + len], Larger(2 * b, f))
    BY <1>3, <2>1, SMT DEF Within
  <2> QED
    BY <1>5, <2>2 DEF InvNttLayer
<1>6. CASE ~Lower(j, len)
  <2>1. Within(r[j], b) /\ Within(r[j - len], b)
    BY <1>6, UpperHalf DEF Bounded
  <2>2. Within(r[j - len] - r[j], 2 * b)
    BY <2>1, SMT DEF Within
  <2>3. Within(Fqmul(r[j - len] - r[j], zeta), f)
    BY <1>0, <1>4, <2>2
  <2>4. Within(Fqmul(r[j - len] - r[j], zeta), Larger(2 * b, f))
    BY <1>2, <1>3, <2>3, SMT DEF Within
  <2> QED
    BY <1>6, <2>4 DEF InvNttLayer, zeta
<1> QED
  BY <1>5, <1>6

-----------------------------------------------------------------------------
(* A function on 1 .. n is a sequence. *)
LEMMA FunctionSeq ==
    ASSUME NEW S, NEW n \in Nat, NEW f \in [1 .. n -> S]
    PROVE  f \in Seq(S) /\ Len(f) = n
  OBVIOUS

(* One sequence after another. *)
LEMMA Appended ==
    ASSUME NEW S, NEW s \in Seq(S), NEW t \in Seq(S), NEW r, r = s \o t
    PROVE  /\ r \in Seq(S) /\ Len(r) = Len(s) + Len(t)
           /\ \A n \in 1 .. Len(s) : r[n] = s[n]
           /\ \A n \in 1 .. Len(t) : r[Len(s) + n] = t[n]
  OBVIOUS

-----------------------------------------------------------------------------
(* The masks. *)

(* What 16 bits hold of a number. *)
Wrapped(x) == x % 65536

(* After a attempts the nonces are the numbers from 0 on, L for each, as 16
   bits hold them. *)
MasksAt(a) ==
    /\ nonce = a % 65536
    /\ drawn \in Seq(Nat) /\ Len(drawn) = L * a
    /\ \A n \in 1 .. L * a : drawn[n] = Wrapped(n - 1)

MaskInv == \E a \in Nat : MasksAt(a)

(* A number of 16 bits is what they hold of it. *)
LEMMA WrappedOnce ==
    ASSUME NEW i \in Nat, 1 <= i, i <= 65536, NEW k \in Nat, 1 <= k, k <= 65536,
           Wrapped(i - 1) = Wrapped(k - 1)
    PROVE  i = k
  BY DEF Wrapped

(* The nonces of an attempt go on where those of the one before ended. *)
LEMMA MaskNumber ==
    ASSUME NEW a \in Nat, nonce = a % 65536, NEW i \in 0 .. L - 1
    PROVE  MaskNonce(i) = Wrapped(L * a + i)
  BY SMT DEF MaskNonce, L, Wrapped

(* An attempt takes the next L of them. *)
LEMMA Gamma1Masks == ASSUME MaskInv, Gamma1 PROVE MaskInv'
<1>1. PICK a \in Nat : MasksAt(a)
  BY DEF MaskInv
<1> DEFINE more == [i \in 1 .. L |-> MaskNonce(i - 1)]
<1>2. drawn' = drawn \o more /\ nonce' = (nonce + 1) % 65536
  BY DEF Gamma1
<1>3. PICK m \in Nat : m = L * a /\ L * (a + 1) = m + 5 /\ L = 5
  BY DEF L
<1>4. ASSUME NEW i \in 1 .. L PROVE MaskNonce(i - 1) = Wrapped(m + i - 1)
  <2>1. i - 1 \in 0 .. L - 1 /\ nonce = a % 65536
    BY <1>1, <1>3 DEF MasksAt
  <2>2. MaskNonce(i - 1) = Wrapped(L * a + (i - 1))
    BY <2>1, MaskNumber
  <2>3. i \in Int
    BY <1>3
  <2> QED BY <1>3, <2>2, <2>3
<1>5. /\ more \in [1 .. 5 -> Nat]
      /\ \A i \in 1 .. 5 : more[i] = Wrapped(m + i - 1)
  <2>1. \A i \in 1 .. 5 : Wrapped(m + i - 1) \in Nat
    BY <1>3 DEF Wrapped
  <2> QED BY <1>3, <1>4, <2>1
<1> HIDE DEF more
<1>6. nonce' = (a + 1) % 65536
  BY <1>1, <1>2 DEF MasksAt
<1>7. /\ drawn \in Seq(Nat) /\ Len(drawn) = m
      /\ \A n \in 1 .. m : drawn[n] = Wrapped(n - 1)
  BY <1>1, <1>3 DEF MasksAt
<1>8. more \in Seq(Nat) /\ Len(more) = 5
  BY <1>5, FunctionSeq
<1>9. /\ drawn' \in Seq(Nat) /\ Len(drawn') = m + 5
      /\ \A n \in 1 .. m : drawn'[n] = drawn[n]
      /\ \A i \in 1 .. 5 : drawn'[m + i] = more[i]
  <2>1. /\ drawn' \in Seq(Nat) /\ Len(drawn') = Len(drawn) + Len(more)
        /\ \A n \in 1 .. Len(drawn) : drawn'[n] = drawn[n]
        /\ \A n \in 1 .. Len(more) : drawn'[Len(drawn) + n] = more[n]
    <3>1. drawn \in Seq(Nat) /\ more \in Seq(Nat) /\ drawn' = drawn \o more
      BY <1>2, <1>7, <1>8
    <3> QED BY <3>1, Appended
  <2>2. Len(drawn) = m /\ Len(more) = 5
    BY <1>7, <1>8
  <2> QED BY <2>1, <2>2
<1>10. ASSUME NEW n \in 1 .. m + 5 PROVE drawn'[n] = Wrapped(n - 1)
  <2>1. CASE n \in 1 .. m
    BY <1>7, <1>9, <2>1
  <2>2. CASE n \notin 1 .. m
    <3>1. PICK i \in 1 .. 5 : n = m + i
      <4>1. n - m \in 1 .. 5 /\ n = m + (n - m)
        BY <2>2
      <4> QED BY <4>1
    <3>2. drawn'[n] = Wrapped(m + i - 1)
      BY <1>5, <1>9, <3>1
    <3> QED BY <3>1, <3>2
  <2> QED BY <2>1, <2>2
<1>11. MasksAt(a + 1)'
  BY <1>3, <1>6, <1>9, <1>10 DEF MasksAt
<1> QED BY <1>11 DEF MaskInv

(* A call starts from nothing. *)
LEMMA CallMasks == ASSUME nonce' = 0, drawn' = <<>> PROVE MaskInv'
<1>1. MasksAt(0)'
  BY DEF MasksAt, L
<1> QED BY <1>1 DEF MaskInv

(* No other statement takes a nonce. *)
LEMMA OthersTakeNoMask ==
    ASSUME Statement, ~Gamma1
    PROVE  UNCHANGED <<nonce, drawn>>
<1>1. CASE SampleBlocks
  BY <1>1 DEF SampleBlocks
<1>2. CASE SampleDone
  BY <1>2 DEF SampleDone
<1>3. CASE StartChallenge
  BY <1>3 DEF StartChallenge
<1>4. CASE GrowChallenge
  BY <1>4 DEF GrowChallenge
<1>5. CASE Copy
  BY <1>5 DEF Copy, Rest, draws
<1>6. CASE Ntt
  BY <1>6 DEF Ntt, Rest, draws
<1>7. CASE InvNtt
  BY <1>7 DEF InvNtt, Rest, draws
<1>8. CASE Matrix
  BY <1>8 DEF Matrix, Rest, draws
<1>9. CASE Times
  BY <1>9 DEF Times, Rest, draws
<1>10. CASE Add
  BY <1>10 DEF Add, Rest, draws
<1>11. CASE Sub
  BY <1>11 DEF Sub, Rest, draws
<1>12. CASE Reduce
  BY <1>12 DEF Reduce, Rest, draws
<1>13. CASE CondAddQ
  BY <1>13 DEF CondAddQ, Rest, draws
<1>14. CASE Shiftl
  BY <1>14 DEF Shiftl, Rest, draws
<1>15. CASE Power2RoundStep
  BY <1>15 DEF Power2RoundStep, Rest, draws
<1>16. CASE DecomposeStep
  BY <1>16 DEF DecomposeStep, Rest, draws
<1>17. CASE UseHintStep
  BY <1>17 DEF UseHintStep, Rest, draws
<1>18. CASE Check
  BY <1>18 DEF Check, draws
<1>19. CASE MakeHintStep
  BY <1>19 DEF MakeHintStep, Rest, draws
<1>20. CASE HashMu
  BY <1>20 DEF HashMu, draws
<1>21. CASE HashW1
  BY <1>21 DEF HashW1, draws
<1>22. CASE PackKeys
  BY <1>22 DEF PackKeys, draws
<1>23. CASE UnpackSk
  BY <1>23 DEF UnpackSk, draws
<1>24. CASE UnpackPk
  BY <1>24 DEF UnpackPk, draws
<1>25. CASE PackSig
  BY <1>25 DEF PackSig, draws
<1>26. CASE UnpackSig
  BY <1>26 DEF UnpackSig, draws
<1>27. CASE Compare
  BY <1>27 DEF Compare, draws
<1> QED BY <1>1, <1>2, <1>3, <1>4, <1>5, <1>6, <1>7, <1>8, <1>9, <1>10, <1>11, <1>12, <1>13,
           <1>14, <1>15, <1>16, <1>17, <1>18, <1>19, <1>20, <1>21, <1>22, <1>23, <1>24, <1>25, <1>26, <1>27 DEF Statement

(* A call begins a procedure, or is refused; either way from nothing. *)
LEMMA CallFresh ==
    ASSUME Sign \/ Deliver
    PROVE  \E p : Call(p)
BY Zenon DEF Sign, Deliver

(* Every step keeps the order of the nonces. *)
LEMMA MasksKept == ASSUME MaskInv, [Next]_vars PROVE MaskInv'
<1>1. CASE Gamma1
  BY <1>1, Gamma1Masks
<1>2. CASE Statement /\ ~Gamma1
  BY <1>2, OthersTakeNoMask DEF MaskInv, MasksAt
<1>3. CASE Sign \/ Deliver
  <2>1. PICK p : Call(p)
    BY <1>3, CallFresh
  <2>2. nonce' = 0 /\ drawn' = <<>>
    BY <2>1 DEF Call
  <2> QED BY <2>2, CallMasks
<1>4. CASE Return \/ UNCHANGED vars
  <2>1. UNCHANGED <<nonce, drawn>>
    BY <1>4 DEF Return, vars, draws
  <2> QED BY <2>1 DEF MaskInv, MasksAt
<1> QED BY <1>1, <1>2, <1>3, <1>4 DEF Next

(* So few masks that no nonce came again. *)
FewMasks == Len(drawn) <= 65536

(* Then all are different. *)
LEMMA FewMasksFresh == ASSUME MaskInv, FewMasks PROVE MasksFresh
<1> SUFFICES ASSUME NEW i \in DOMAIN drawn, NEW k \in DOMAIN drawn, drawn[i] = drawn[k]
             PROVE  i = k
  BY DEF MasksFresh
<1>1. PICK a \in Nat : MasksAt(a)
  BY DEF MaskInv
<1>2. PICK m \in Nat : m = L * a
  BY DEF L
<1>3. DOMAIN drawn = 1 .. m /\ m <= 65536
  BY <1>1, <1>2 DEF MasksAt, FewMasks
<1>4. i \in 1 .. m /\ k \in 1 .. m
  BY <1>3
<1>5. drawn[i] = Wrapped(i - 1) /\ drawn[k] = Wrapped(k - 1)
  BY <1>1, <1>2, <1>4 DEF MasksAt
<1>6. Wrapped(i - 1) = Wrapped(k - 1)
  BY <1>5, Zenon
<1>7. i \in Nat /\ k \in Nat /\ 1 <= i /\ i <= 65536 /\ 1 <= k /\ k <= 65536
  BY <1>3, <1>4
<1> QED BY <1>6, <1>7, WrappedOnce

(* No two masking polynomials of a signature come from one nonce, over all its
   attempts, as long as the 16 bits of nonces in poly_uniform_gamma1 do not
   wrap: for 13107 attempts.  (MasksFresh) *)
THEOREM MasksFreshHolds == Spec => [](Len(drawn) <= 65536 => MasksFresh)
<1>1. Init => MaskInv
  <2> SUFFICES ASSUME Init PROVE MaskInv
    OBVIOUS
  <2>1. MasksAt(0)
    BY DEF Init, MasksAt, L
  <2> QED BY <2>1 DEF MaskInv
<1>2. MaskInv /\ [Next]_vars => MaskInv'
  BY MasksKept
<1>3. MaskInv => (Len(drawn) <= 65536 => MasksFresh)
  BY FewMasksFresh DEF FewMasks
<1> QED BY <1>1, <1>2, <1>3, PTL DEF Spec

-----------------------------------------------------------------------------
(* The candidates of a stream. *)

Byte0  == 0 .. 255
Wide   == {v \in Nat : v < 8388608}
Nibble == 0 .. 15

(* 23 bits of three bytes; the second half of a byte, or the first. *)
Word23(x, y, z) == (x + y * 256 + z * 65536) % 8388608
HalfByte(x, n)  == (x \div 16^((n + 1) % 2)) % 16

LEMMA Low23 ==
    ASSUME NEW w \in Int
    PROVE  w % 8388608 \in Wide
<1>1. w % 8388608 \in Int /\ 0 <= w % 8388608 /\ w % 8388608 <= 8388607
  BY SMT
<1> QED BY <1>1 DEF Wide

LEMMA Word23Typed ==
    ASSUME NEW x \in Int, NEW y \in Int, NEW z \in Int
    PROVE  Word23(x, y, z) \in Wide
<1> DEFINE w == x + y * 256 + z * 65536
<1>1. w \in Int
  OBVIOUS
<1>2. Word23(x, y, z) = w % 8388608
  BY SMT DEF Word23
<1> HIDE DEF w
<1>3. w % 8388608 \in Wide
  BY <1>1, Low23
<1> QED BY <1>2, <1>3

LEMMA HalfByteTyped ==
    ASSUME NEW x \in Int, NEW n \in Nat
    PROVE  HalfByte(x, n) \in Nibble
<1>1. (n + 1) % 2 \in {0, 1}
  BY SMT
<1>2. CASE (n + 1) % 2 = 0
  <2>0. 16^0 = 1
    BY SMT
  <2>1. HalfByte(x, n) = (x \div 1) % 16
    BY <1>2, <2>0 DEF HalfByte
  <2>2. (x \div 1) % 16 \in Nibble
    BY SMT DEF Nibble
  <2> QED BY <2>1, <2>2
<1>3. CASE (n + 1) % 2 = 1
  <2>0. 16^1 = 16
    BY SMT
  <2>1. HalfByte(x, n) = (x \div 16) % 16
    BY <1>3, <2>0 DEF HalfByte
  <2>2. (x \div 16) % 16 \in Nibble
    BY SMT DEF Nibble
  <2> QED BY <2>1, <2>2
<1> QED BY <1>1, <1>2, <1>3

LEMMA ByteInt ==
    ASSUME NEW s \in Seq(Byte0), NEW k \in 1 .. Len(s)
    PROVE  s[k] \in Int
<1>1. s[k] \in Byte0
  BY ElementOfSeq
<1>2. Byte0 \subseteq Int
  BY DEF Byte0
<1> QED BY <1>1, <1>2

(* Candidate n lies after whole threes. *)
LEMMA CandidateIs ==
    ASSUME NEW s, NEW n \in 1 .. Len(s) \div 3
    PROVE  Candidates(s)[n] = Word23(s[3 * n - 2], s[3 * n - 1], s[3 * n])
<1> DEFINE C(m) == Word23(s[3 * m - 2], s[3 * m - 1], s[3 * m])
<1>1. Candidates(s) = [m \in 1 .. Len(s) \div 3 |-> C(m)]
  BY DEF Candidates, Word23
<1> HIDE DEF C
<1>2. Candidates(s)[n] = C(n)
  BY <1>1, Zenon
<1> QED BY <1>2 DEF C

LEMMA CandidatesTyped ==
    ASSUME NEW s \in Seq(Byte0)
    PROVE  /\ Candidates(s) \in Seq(Wide)
           /\ Len(Candidates(s)) = Len(s) \div 3
<1> DEFINE m == Len(s) \div 3
           c(n) == Word23(s[3 * n - 2], s[3 * n - 1], s[3 * n])
<1>1. m \in Nat /\ Len(s) \in Nat
  OBVIOUS
<1>2. Candidates(s) = [n \in 1 .. m |-> c(n)]
  BY DEF Candidates, Word23
<1>3. ASSUME NEW n \in 1 .. m PROVE c(n) \in Wide
  <2>1. 3 * n - 2 \in 1 .. Len(s) /\ 3 * n - 1 \in 1 .. Len(s) /\ 3 * n \in 1 .. Len(s)
    BY <1>1, SMT
  <2>2. s[3 * n - 2] \in Int /\ s[3 * n - 1] \in Int /\ s[3 * n] \in Int
    BY <2>1, ByteInt
  <2> QED BY <2>2, Word23Typed
<1> HIDE DEF c, m
<1>4. [n \in 1 .. m |-> c(n)] \in [1 .. m -> Wide]
  BY <1>3
<1> QED BY <1>1, <1>2, <1>4, FunctionSeq DEF m

(* Three bytes hold a candidate, so none lies across two buffers of whole
   threes. *)
LEMMA CandidatesConcat ==
    ASSUME NEW s \in Seq(Byte0), NEW t \in Seq(Byte0), NEW h \in Nat, Len(s) = 3 * h
    PROVE  Candidates(s \o t) = Candidates(s) \o Candidates(t)
<1> DEFINE r == s \o t
           a == Candidates(s)
           b == Candidates(t)
           u == Candidates(r)
           v == a \o b
<1>0. PICK e \in Nat, g \in Nat, l \in Nat : e = Len(t) \div 3 /\ g = 3 * h /\ l = Len(t)
  <2>1. Len(t) \in Nat /\ Len(t) \div 3 \in Nat /\ 3 * h \in Nat
    BY SMT
  <2> QED BY <2>1
<1>1. /\ r \in Seq(Byte0) /\ Len(r) = Len(s) + Len(t)
      /\ \A n \in 1 .. Len(s) : r[n] = s[n]
      /\ \A n \in 1 .. Len(t) : r[Len(s) + n] = t[n]
  BY Appended, SMTT(30)
<1> HIDE DEF r
<1>2. /\ r \in Seq(Byte0) /\ Len(r) = g + l
      /\ \A n \in 1 .. g : r[n] = s[n]
      /\ \A n \in 1 .. l : r[g + n] = t[n]
  BY <1>0, <1>1
<1>3. Len(s) \div 3 = h /\ Len(t) \div 3 = e /\ Len(r) \div 3 = h + e
  <2>1. g \div 3 = h /\ (g + l) \div 3 = h + e
    BY <1>0, SMT
  <2> QED BY <1>0, <1>2, <2>1
<1>4. /\ a \in Seq(Wide) /\ Len(a) = h
      /\ b \in Seq(Wide) /\ Len(b) = e
      /\ u \in Seq(Wide) /\ Len(u) = h + e
  BY <1>2, <1>3, CandidatesTyped
<1>5. ASSUME NEW n \in 1 .. h PROVE u[n] = a[n]
  <2>1. u[n] = Word23(r[3 * n - 2], r[3 * n - 1], r[3 * n])
    <3>1. n \in 1 .. Len(r) \div 3
      BY <1>3
    <3> QED BY <3>1, CandidateIs
  <2>2. a[n] = Word23(s[3 * n - 2], s[3 * n - 1], s[3 * n])
    <3>1. n \in 1 .. Len(s) \div 3
      BY <1>3
    <3> QED BY <3>1, CandidateIs
  <2>3. 3 * n - 2 \in 1 .. g /\ 3 * n - 1 \in 1 .. g /\ 3 * n \in 1 .. g
    BY <1>0, SMT
  <2>4. r[3 * n - 2] = s[3 * n - 2] /\ r[3 * n - 1] = s[3 * n - 1] /\ r[3 * n] = s[3 * n]
    BY <1>2, <2>3
  <2> HIDE DEF a, u
  <2> QED BY <2>1, <2>2, <2>4
<1>6. ASSUME NEW n \in 1 .. e PROVE u[h + n] = b[n]
  <2>0. PICK o \in Nat : o = h + n
    OBVIOUS
  <2>1. u[o] = Word23(r[3 * o - 2], r[3 * o - 1], r[3 * o])
    <3>1. o \in 1 .. Len(r) \div 3
      BY <1>3, <2>0
    <3> QED BY <3>1, CandidateIs
  <2>2. b[n] = Word23(t[3 * n - 2], t[3 * n - 1], t[3 * n])
    <3>1. n \in 1 .. Len(t) \div 3
      BY <1>3
    <3> QED BY <3>1, CandidateIs
  <2>3. /\ 3 * n - 2 \in 1 .. l /\ 3 * n - 1 \in 1 .. l /\ 3 * n \in 1 .. l
        /\ 3 * o - 2 = g + (3 * n - 2) /\ 3 * o - 1 = g + (3 * n - 1) /\ 3 * o = g + 3 * n
    BY <1>0, <2>0, SMT
  <2>4. r[3 * o - 2] = t[3 * n - 2] /\ r[3 * o - 1] = t[3 * n - 1] /\ r[3 * o] = t[3 * n]
    BY <1>2, <2>3
  <2> HIDE DEF b, u
  <2> QED BY <2>0, <2>1, <2>2, <2>4
<1> HIDE DEF a, b, u
<1>7. /\ v \in Seq(Wide) /\ Len(v) = Len(a) + Len(b)
      /\ \A n \in 1 .. Len(a) : v[n] = a[n]
      /\ \A n \in 1 .. Len(b) : v[Len(a) + n] = b[n]
  <2>1. a \in Seq(Wide) /\ b \in Seq(Wide) /\ v = a \o b
    BY <1>4
  <2> HIDE DEF v
  <2> QED BY <2>1, Appended
<1> HIDE DEF v
<1>8. ASSUME NEW n \in 1 .. h + e PROVE u[n] = v[n]
  <2>1. CASE n <= h
    BY <1>4, <1>5, <1>7, <2>1
  <2>2. CASE n > h
    <3>1. PICK m \in 1 .. e : n = h + m
      <4>1. n - h \in 1 .. e /\ n = h + (n - h)
        BY <2>2
      <4> QED BY <4>1
    <3> QED BY <1>4, <1>6, <1>7, <3>1
  <2> QED BY <2>1, <2>2
<1>9. u = v
  BY <1>4, <1>7, <1>8, SeqEqual
<1> QED BY <1>9 DEF r, a, b, u, v
(* Candidate n of four bits is half of byte (n + 1) \div 2. *)
LEMMA NibbleIs ==
    ASSUME NEW s, NEW n \in 1 .. 2 * Len(s)
    PROVE  Nibbles(s)[n] = HalfByte(s[(n + 1) \div 2], n)
<1> DEFINE C(m) == HalfByte(s[(m + 1) \div 2], m)
<1>1. Nibbles(s) = [m \in 1 .. 2 * Len(s) |-> C(m)]
  BY Zenon DEF Nibbles, HalfByte
<1> HIDE DEF C
<1>2. Nibbles(s)[n] = C(n)
  BY <1>1, Zenon
<1> QED BY <1>2 DEF C

LEMMA NibblesTyped ==
    ASSUME NEW s \in Seq(Byte0)
    PROVE  /\ Nibbles(s) \in Seq(Nibble)
           /\ Len(Nibbles(s)) = 2 * Len(s)
<1> DEFINE m == 2 * Len(s)
           c(n) == HalfByte(s[(n + 1) \div 2], n)
<1>1. m \in Nat /\ Len(s) \in Nat
  OBVIOUS
<1>2. Nibbles(s) = [n \in 1 .. m |-> c(n)]
  BY Zenon DEF Nibbles, HalfByte
<1>3. ASSUME NEW n \in 1 .. m PROVE c(n) \in Nibble
  <2>1. n \in Nat /\ (n + 1) \div 2 \in 1 .. Len(s)
    BY <1>1, SMT
  <2>2. s[(n + 1) \div 2] \in Int
    BY <2>1, ByteInt
  <2> QED BY <2>1, <2>2, HalfByteTyped
<1> HIDE DEF c, m
<1>4. [n \in 1 .. m |-> c(n)] \in [1 .. m -> Nibble]
  BY <1>3
<1> QED BY <1>1, <1>2, <1>4, FunctionSeq DEF m

(* A byte holds two candidates, so none lies across two buffers. *)
LEMMA NibblesConcat ==
    ASSUME NEW s \in Seq(Byte0), NEW t \in Seq(Byte0)
    PROVE  Nibbles(s \o t) = Nibbles(s) \o Nibbles(t)
<1> DEFINE r == s \o t
           a == Nibbles(s)
           b == Nibbles(t)
           u == Nibbles(r)
           v == a \o b
<1>0. PICK g \in Nat, l \in Nat : g = Len(s) /\ l = Len(t)
  OBVIOUS
<1>1. /\ r \in Seq(Byte0) /\ Len(r) = Len(s) + Len(t)
      /\ \A n \in 1 .. Len(s) : r[n] = s[n]
      /\ \A n \in 1 .. Len(t) : r[Len(s) + n] = t[n]
  BY Appended
<1> HIDE DEF r
<1>2. /\ r \in Seq(Byte0) /\ Len(r) = g + l
      /\ \A n \in 1 .. g : r[n] = s[n]
      /\ \A n \in 1 .. l : r[g + n] = t[n]
  BY <1>0, <1>1
<1>4. /\ a \in Seq(Nibble) /\ Len(a) = 2 * g
      /\ b \in Seq(Nibble) /\ Len(b) = 2 * l
      /\ u \in Seq(Nibble) /\ Len(u) = 2 * g + 2 * l
  <2>1. Len(a) = 2 * Len(s) /\ Len(b) = 2 * Len(t) /\ Len(u) = 2 * Len(r)
    BY <1>2, NibblesTyped
  <2>2. a \in Seq(Nibble) /\ b \in Seq(Nibble) /\ u \in Seq(Nibble)
    BY <1>2, NibblesTyped
  <2> HIDE DEF a, b, u
  <2> QED BY <1>0, <1>2, <2>1, <2>2
<1>5. ASSUME NEW n \in 1 .. 2 * g PROVE u[n] = a[n]
  <2>1. u[n] = HalfByte(r[(n + 1) \div 2], n)
    <3>1. n \in 1 .. 2 * Len(r)
      BY <1>2
    <3> QED BY <3>1, NibbleIs
  <2>2. a[n] = HalfByte(s[(n + 1) \div 2], n)
    <3>1. n \in 1 .. 2 * Len(s)
      BY <1>0
    <3> QED BY <3>1, NibbleIs
  <2>3. (n + 1) \div 2 \in 1 .. g
    BY SMT
  <2>4. r[(n + 1) \div 2] = s[(n + 1) \div 2]
    BY <1>2, <2>3
  <2> HIDE DEF a, u
  <2> QED BY <2>1, <2>2, <2>4
<1>6. ASSUME NEW n \in 1 .. 2 * l PROVE u[2 * g + n] = b[n]
  <2>0. PICK o \in Nat : o = 2 * g + n
    OBVIOUS
  <2>1. u[o] = HalfByte(r[(o + 1) \div 2], o)
    <3>1. o \in 1 .. 2 * Len(r)
      BY <1>2, <2>0
    <3> QED BY <3>1, NibbleIs
  <2>2. b[n] = HalfByte(t[(n + 1) \div 2], n)
    <3>1. n \in 1 .. 2 * Len(t)
      BY <1>0
    <3> QED BY <3>1, NibbleIs
  <2>3. PICK k \in 1 .. l : k = (n + 1) \div 2
    <3>1. (n + 1) \div 2 \in 1 .. l
      BY SMT
    <3> QED BY <3>1
  <2>4. (o + 1) \div 2 = g + k /\ (o + 1) % 2 = (n + 1) % 2
    BY <2>0, <2>3, SMT
  <2>5. r[(o + 1) \div 2] = t[k]
    BY <1>2, <2>4
  <2>6. \A x : HalfByte(x, o) = HalfByte(x, n)
    BY <2>4, Zenon DEF HalfByte
  <2> HIDE DEF b, u
  <2> QED BY <2>0, <2>1, <2>2, <2>3, <2>5, <2>6
<1> HIDE DEF a, b, u
<1>7. /\ v \in Seq(Nibble) /\ Len(v) = Len(a) + Len(b)
      /\ \A n \in 1 .. Len(a) : v[n] = a[n]
      /\ \A n \in 1 .. Len(b) : v[Len(a) + n] = b[n]
  <2>1. a \in Seq(Nibble) /\ b \in Seq(Nibble) /\ v = a \o b
    BY <1>4
  <2> HIDE DEF v
  <2> QED BY <2>1, Appended
<1> HIDE DEF v
<1>8. ASSUME NEW n \in 1 .. 2 * g + 2 * l PROVE u[n] = v[n]
  <2>1. CASE n <= 2 * g
    BY <1>4, <1>5, <1>7, <2>1
  <2>2. CASE n > 2 * g
    <3>1. PICK m \in 1 .. 2 * l : n = 2 * g + m
      <4>1. n - 2 * g \in 1 .. 2 * l /\ n = 2 * g + (n - 2 * g)
        BY <2>2
      <4> QED BY <4>1
    <3> QED BY <1>4, <1>6, <1>7, <3>1
  <2> QED BY <2>1, <2>2
<1>9. u = v
  BY <1>4, <1>7, <1>8, SeqEqual
<1> QED BY <1>9 DEF r, a, b, u, v

-----------------------------------------------------------------------------
(* What is kept of them. *)

(* What rej_eta writes for the candidates it takes. *)
Eta(s) == [n \in DOMAIN s |-> 4 - s[n]]

LEMMA EtaTyped ==
    ASSUME NEW s \in Seq(Nibble)
    PROVE  /\ Eta(s) \in Seq(Int) /\ Len(Eta(s)) = Len(s)
           /\ \A n \in 1 .. Len(s) : Eta(s)[n] = 4 - s[n]
<1>1. \A x \in Nibble : 4 - x \in Int
  BY DEF Nibble
<1>2. ASSUME NEW n \in 1 .. Len(s) PROVE 4 - s[n] \in Int
  <2>1. s[n] \in Nibble
    BY ElementOfSeq
  <2> QED BY <1>1, <2>1, Zenon
<1>3. DOMAIN s = 1 .. Len(s)
  OBVIOUS
<1>4. Len(s) \in Nat /\ Eta(s) \in [1 .. Len(s) -> Int]
  BY <1>2, <1>3 DEF Eta
<1>5. Eta(s) \in Seq(Int) /\ Len(Eta(s)) = Len(s)
  BY <1>4, FunctionSeq
<1>6. \A n \in 1 .. Len(s) : Eta(s)[n] = 4 - s[n]
  BY <1>3 DEF Eta
<1> QED BY <1>5, <1>6

LEMMA EtaConcat ==
    ASSUME NEW s \in Seq(Nibble), NEW t \in Seq(Nibble)
    PROVE  Eta(s \o t) = Eta(s) \o Eta(t)
<1> DEFINE r == s \o t
           v == Eta(s) \o Eta(t)
<1>1. /\ r \in Seq(Nibble) /\ Len(r) = Len(s) + Len(t)
      /\ \A n \in 1 .. Len(s) : r[n] = s[n]
      /\ \A n \in 1 .. Len(t) : r[Len(s) + n] = t[n]
  BY Appended
<1> HIDE DEF r
<1>2. /\ Eta(s) \in Seq(Int) /\ Len(Eta(s)) = Len(s)
      /\ Eta(t) \in Seq(Int) /\ Len(Eta(t)) = Len(t)
      /\ Eta(r) \in Seq(Int) /\ Len(Eta(r)) = Len(r)
      /\ \A n \in 1 .. Len(s) : Eta(s)[n] = 4 - s[n]
      /\ \A n \in 1 .. Len(t) : Eta(t)[n] = 4 - t[n]
      /\ \A n \in 1 .. Len(r) : Eta(r)[n] = 4 - r[n]
  BY <1>1, EtaTyped
<1>3. PICK k \in Nat, m \in Nat : k = Len(s) /\ m = Len(t)
  OBVIOUS
<1>4. /\ v \in Seq(Int) /\ Len(v) = Len(Eta(s)) + Len(Eta(t))
      /\ \A n \in 1 .. Len(Eta(s)) : v[n] = Eta(s)[n]
      /\ \A n \in 1 .. Len(Eta(t)) : v[Len(Eta(s)) + n] = Eta(t)[n]
  <2>1. Eta(s) \in Seq(Int) /\ Eta(t) \in Seq(Int) /\ v = Eta(s) \o Eta(t)
    BY <1>2
  <2> HIDE DEF v
  <2> QED BY <2>1, Appended
<1> HIDE DEF v
<1>5. ASSUME NEW n \in 1 .. k + m PROVE Eta(r)[n] = v[n]
  <2>1. CASE n <= k
    BY <1>1, <1>2, <1>3, <1>4, <2>1
  <2>2. CASE n > k
    <3>1. PICK o \in 1 .. m : n = k + o
      <4>1. n - k \in 1 .. m /\ n = k + (n - k)
        BY <2>2
      <4> QED BY <4>1
    <3> QED BY <1>1, <1>2, <1>3, <1>4, <3>1
  <2> QED BY <2>1, <2>2
<1>6. Eta(r) = v
  BY <1>1, <1>2, <1>3, <1>4, <1>5, SeqEqual
<1> QED BY <1>6 DEF r, v
(* What a buffer is given after another is what both together are given. *)
LEMMA UniformMore ==
    ASSUME NEW s \in Seq(Byte0), NEW t \in Seq(Byte0), NEW h \in Nat, Len(s) = 3 * h,
           NEW len \in Nat, NEW kept, kept = RejUniform(len, s), Len(kept) < len
    PROVE  /\ Len(kept) \in Nat
           /\ kept \o RejUniform(len - Len(kept), t) = RejUniform(len, s \o t)
<1> DEFINE a == Below(Candidates(s), Q)
           b == Below(Candidates(t), Q)
           W == {v \in Wide : v < Q}
<1>1. Q \in Int
  BY DEF Q
<1>2. Candidates(s) \in Seq(Wide) /\ Candidates(t) \in Seq(Wide)
  BY CandidatesTyped
<1>3. Below(Candidates(s \o t), Q) = a \o b
  <2>1. Candidates(s \o t) = Candidates(s) \o Candidates(t)
    BY CandidatesConcat
  <2> QED BY <1>1, <1>2, <2>1, BelowConcat, SMTT(30)
<1>4. a \in Seq(W) /\ b \in Seq(W)
  BY <1>1, <1>2, BelowTyped
<1>5. /\ kept = AtMost(len, a)
      /\ RejUniform(len - Len(kept), t) = AtMost(len - Len(kept), b)
      /\ RejUniform(len, s \o t) = AtMost(len, a \o b)
  BY <1>3 DEF RejUniform
<1> HIDE DEF a, b, W
<1>6. kept = a /\ Len(a) \in Nat /\ Len(a) <= len
  <2>1. Len(a) \in Nat
    BY <1>4
  <2>2. kept = a
    BY <1>4, <1>5, AtMostTyped
  <2> QED BY <2>1, <2>2
<1>7. AtMost(len, a \o b) = a \o AtMost(len - Len(a), b)
  BY <1>4, <1>6, AtMostConcat
<1> QED BY <1>5, <1>6, <1>7

LEMMA EtaMore ==
    ASSUME NEW s \in Seq(Byte0), NEW t \in Seq(Byte0),
           NEW len \in Nat, NEW kept, kept = RejEta(len, s), Len(kept) < len
    PROVE  /\ Len(kept) \in Nat
           /\ kept \o RejEta(len - Len(kept), t) = RejEta(len, s \o t)
<1> DEFINE a == Below(Nibbles(s), 9)
           b == Below(Nibbles(t), 9)
           W == {v \in Nibble : v < 9}
<1>2. Nibbles(s) \in Seq(Nibble) /\ Nibbles(t) \in Seq(Nibble)
  BY NibblesTyped
<1>3. Below(Nibbles(s \o t), 9) = a \o b
  <2>1. Nibbles(s \o t) = Nibbles(s) \o Nibbles(t)
    BY NibblesConcat
  <2>2. 9 \in Int
    OBVIOUS
  <2> QED BY <1>2, <2>1, <2>2, BelowConcat, SMTT(30)
<1>4. a \in Seq(Nibble) /\ b \in Seq(Nibble)
  <2>1. 9 \in Int
    OBVIOUS
  <2>2. a \in Seq(W) /\ b \in Seq(W)
    BY <1>2, <2>1, BelowTyped
  <2>3. W \subseteq Nibble
    OBVIOUS
  <2> HIDE DEF W, a, b
  <2> QED BY <2>2, <2>3, SeqMonotonic
<1>5. /\ kept = Eta(AtMost(len, a))
      /\ RejEta(len - Len(kept), t) = Eta(AtMost(len - Len(kept), b))
      /\ RejEta(len, s \o t) = Eta(AtMost(len, a \o b))
  BY <1>3, Zenon DEF RejEta, Eta
<1> HIDE DEF a, b, W
<1>6. AtMost(len, a) \in Seq(Nibble) /\ Len(a) \in Nat
  BY <1>4, AtMostTyped
<1>7. Len(kept) = Len(AtMost(len, a))
  BY <1>5, <1>6, EtaTyped
<1>8. AtMost(len, a) = a
  BY <1>4, <1>7, AtMostTyped
<1>9. kept = Eta(a) /\ Len(kept) = Len(a) /\ Len(a) <= len
  BY <1>5, <1>6, <1>7, <1>8
<1>10. AtMost(len, a \o b) = a \o AtMost(len - Len(a), b)
  BY <1>4, <1>9, AtMostConcat
<1>11. AtMost(len - Len(a), b) \in Seq(Nibble)
  <2>1. len - Len(a) \in Nat
    BY <1>6, <1>9
  <2> QED BY <1>4, <2>1, AtMostTyped
<1>12. Eta(a \o AtMost(len - Len(a), b)) = Eta(a) \o Eta(AtMost(len - Len(a), b))
  BY <1>4, <1>11, EtaConcat
<1> QED BY <1>5, <1>6, <1>9, <1>10, <1>12

-----------------------------------------------------------------------------
(* The streams of a state. *)

(* The streams are bytes, in blocks of the rate of their hash: 168 of shake128
   and 136 of shake256. *)
StreamsOfBytes ==
    \A b \in Nat :
        /\ \A s, n : Stream128(s, n, b) \in Seq(Byte0) /\ Len(Stream128(s, n, b)) = 168
        /\ \A s, n : Stream256(s, n, b) \in Seq(Byte0) /\ Len(Stream256(s, n, b)) = 136
        /\ \A c : BallBlock(c, b) \in Seq(Byte0) /\ Len(BallBlock(c, b)) = 136

(* Block number b of the stream that is sampled. *)
StreamBlock(b) == IF At("gen_a") THEN Stream128(rho, EntryNonce, b)
                                 ELSE Stream256(rhoprime, EntryNonce, b)

BlockLength == IF At("gen_a") THEN 168 ELSE 136

LEMMA StreamBlockTyped ==
    ASSUME StreamsOfBytes, NEW b \in Nat
    PROVE  StreamBlock(b) \in Seq(Byte0) /\ Len(StreamBlock(b)) = BlockLength
<1>1. \A s, n : Stream128(s, n, b) \in Seq(Byte0) /\ Len(Stream128(s, n, b)) = 168
  BY ZenonT(60) DEF StreamsOfBytes
<1>2. \A s, n : Stream256(s, n, b) \in Seq(Byte0) /\ Len(Stream256(s, n, b)) = 136
  BY ZenonT(60) DEF StreamsOfBytes
<1>3. CASE At("gen_a")
  BY <1>1, <1>3, Zenon DEF StreamBlock, BlockLength
<1>4. CASE ~At("gen_a")
  BY <1>2, <1>4, Zenon DEF StreamBlock, BlockLength
<1> QED BY <1>3, <1>4

(* n of them, from number k on. *)
Stretch(k, n) == [b \in 1 .. n |-> StreamBlock(k + b - 1)]

LEMMA BlocksAre == \A k, n : Blocks(k, n) = FlattenSeq(Stretch(k, n))
BY Zenon DEF Blocks, Stretch, StreamBlock

LEMMA StretchTyped ==
    ASSUME StreamsOfBytes, NEW k \in Nat, NEW n \in Nat
    PROVE  /\ Stretch(k, n) \in Seq(Seq(Byte0)) /\ Len(Stretch(k, n)) = n
           /\ \A b \in 1 .. n : Stretch(k, n)[b] = StreamBlock(k + b - 1)
           /\ Blocks(k, n) \in Seq(Byte0)
           /\ Len(Blocks(k, n)) = BlockLength * n
<1> DEFINE s == Stretch(k, n)
           B(b) == StreamBlock(k + b - 1)
<1>1. ASSUME NEW b \in 1 .. n PROVE B(b) \in Seq(Byte0) /\ Len(B(b)) = BlockLength
  <2>1. k + b - 1 \in Nat
    OBVIOUS
  <2> QED BY <2>1, StreamBlockTyped
<1>2. s = [b \in 1 .. n |-> B(b)]
  BY DEF Stretch
<1> HIDE DEF s, B
<1>3. s \in Seq(Seq(Byte0)) /\ Len(s) = n /\ \A b \in 1 .. n : s[b] = B(b)
  <2>1. s \in [1 .. n -> Seq(Byte0)]
    BY <1>1, <1>2
  <2> QED BY <1>2, <2>1, FunctionSeq
<1>4. PICK c \in Nat : c = BlockLength
  BY DEF BlockLength
<1>5. \A b \in 1 .. Len(s) : Len(s[b]) = c
  BY <1>1, <1>3, <1>4
<1>6. FlattenSeq(s) \in Seq(Byte0) /\ Len(FlattenSeq(s)) = c * Len(s)
  BY <1>3, <1>5, FlattenTyped, FlattenLength
<1>7. Blocks(k, n) = FlattenSeq(s)
  BY BlocksAre DEF s
<1> QED BY <1>3, <1>4, <1>6, <1>7 DEF s, B

(* The next blocks go on where the last ones ended. *)
LEMMA BlocksConcat ==
    ASSUME StreamsOfBytes, NEW k \in Nat, NEW n \in Nat
    PROVE  Blocks(0, k + n) = Blocks(0, k) \o Blocks(k, n)
<1> DEFINE a == Stretch(0, k)
           b == Stretch(k, n)
           c == Stretch(0, k + n)
           q == a \o b
<1>0. 0 \in Nat /\ k + n \in Nat
  OBVIOUS
<1>1. /\ a \in Seq(Seq(Byte0)) /\ Len(a) = k
      /\ b \in Seq(Seq(Byte0)) /\ Len(b) = n
      /\ c \in Seq(Seq(Byte0)) /\ Len(c) = k + n
      /\ \A m \in 1 .. k : a[m] = StreamBlock(0 + m - 1)
      /\ \A m \in 1 .. n : b[m] = StreamBlock(k + m - 1)
      /\ \A m \in 1 .. k + n : c[m] = StreamBlock(0 + m - 1)
  BY <1>0, StretchTyped
<1>2. FlattenSeq(c) = Blocks(0, k + n) /\ FlattenSeq(a) = Blocks(0, k)
      /\ FlattenSeq(b) = Blocks(k, n)
  BY BlocksAre
<1> HIDE DEF a, b, c
<1>3. /\ q \in Seq(Seq(Byte0)) /\ Len(q) = Len(a) + Len(b)
      /\ \A m \in 1 .. Len(a) : q[m] = a[m]
      /\ \A m \in 1 .. Len(b) : q[Len(a) + m] = b[m]
  <2>1. a \in Seq(Seq(Byte0)) /\ b \in Seq(Seq(Byte0)) /\ q = a \o b
    BY <1>1
  <2> HIDE DEF q
  <2> QED BY <2>1, Appended
<1>6. FlattenSeq(q) = FlattenSeq(a) \o FlattenSeq(b)
  BY <1>1, FlattenConcat
<1> HIDE DEF q
<1>4. ASSUME NEW m \in 1 .. k + n PROVE q[m] = c[m]
  <2>2. CASE m <= k
    BY <1>1, <1>3, <2>2
  <2>3. CASE m > k
    <3>1. PICK l \in 1 .. n : m = k + l
      <4>1. m - k \in 1 .. n /\ m = k + (m - k)
        BY <2>3
      <4> QED BY <4>1
    <3>2. k + l - 1 = 0 + m - 1
      BY <3>1
    <3>3. b[l] = StreamBlock(k + l - 1) /\ c[m] = StreamBlock(0 + m - 1) /\ q[m] = b[l]
      BY <1>1, <1>3, <3>1
    <3> QED BY <3>2, <3>3, Zenon
  <2> QED BY <2>2, <2>3
<1>5. q = c
  BY <1>1, <1>3, <1>4, SeqEqual
<1> QED BY <1>2, <1>5, <1>6
-----------------------------------------------------------------------------
(* Sampling goes on at gen_a and eta only; what is kept is then what the blocks
   drawn so far are given, and no byte is left over. *)

Sampled(k) == Accept(N, Blocks(0, k))

Drawing == At("gen_a") \/ At("eta")

SampleInv ==
    /\ sample = [done |-> sample.done, blocks |-> sample.blocks,
                 kept |-> sample.kept, left |-> <<>>]
    /\ sample.blocks \in Nat
    /\ sample.kept = Sampled(sample.blocks)
    /\ ~Drawing => sample = NoSample

(* Nothing is kept of no blocks. *)
LEMMA SampledNone == Sampled(0) = <<>>
<1>1. Stretch(0, 0) = <<>>
  BY DEF Stretch
<1>2. Blocks(0, 0) = <<>>
  BY <1>1, BlocksAre, FlattenEmpty
<1>0. <<>> \in Seq(Byte0) /\ Len(<<>>) = 0
  OBVIOUS
<1>3. PICK s \in Seq(Byte0) : s = <<>> /\ Len(s) = 0
  BY <1>0
<1>4. Candidates(s) = <<>> /\ Candidates(s) \in Seq(Wide)
  <2>1. Candidates(s) \in Seq(Wide) /\ Len(Candidates(s)) = Len(s) \div 3
    BY CandidatesTyped
  <2>2. Len(Candidates(s)) = 0
    BY <1>3, <2>1
  <2> QED BY <2>1, <2>2
<1>5. Nibbles(s) = <<>> /\ Nibbles(s) \in Seq(Nibble)
  <2>1. Nibbles(s) \in Seq(Nibble) /\ Len(Nibbles(s)) = 2 * Len(s)
    BY NibblesTyped
  <2>2. Len(Nibbles(s)) = 0
    BY <1>3, <2>1
  <2> QED BY <2>1, <2>2
<1>6. ASSUME NEW V, NEW r \in Seq(V), r = <<>>, NEW top \in Int PROVE Below(r, top) = <<>>
  <2>1. Below(r, top) = FlattenSeq(Window(r, top, 1, Len(r)))
    BY BelowIs
  <2>2. Window(<<>>, top, 1, 0) = <<>>
    BY DEF Window
  <2>3. Len(r) = 0
    BY <1>6
  <2> QED BY <1>6, <2>1, <2>2, <2>3, FlattenEmpty
<1>7. Below(<<>>, Q) = <<>> /\ Below(<<>>, 9) = <<>>
  <2>1. Q \in Int /\ 9 \in Int
    BY DEF Q
  <2>2. Below(Candidates(s), Q) = <<>>
    BY <1>4, <1>6, <2>1
  <2>3. Below(Nibbles(s), 9) = <<>>
    BY <1>5, <1>6, <2>1
  <2> QED BY <1>4, <1>5, <2>2, <2>3
<1>8. AtMost(N, <<>>) = <<>> /\ Eta(<<>>) = <<>>
  BY DEF AtMost, N, Eta
<1>9. RejUniform(N, <<>>) = <<>>
  BY <1>3, <1>4, <1>7, <1>8 DEF RejUniform
<1>10. RejEta(N, <<>>) = <<>>
  <2>1. RejEta(N, s) = Eta(AtMost(N, Below(Nibbles(s), 9)))
    BY Zenon DEF RejEta, Eta
  <2> QED BY <1>3, <1>5, <1>7, <1>8, <2>1
<1> QED BY <1>2, <1>9, <1>10 DEF Sampled, Accept

(* What the next blocks add is what the whole stream gives. *)
LEMMA UniformGoesOn ==
    ASSUME NEW s \in Seq(Byte0), NEW t \in Seq(Byte0), Len(s) % 3 = 0,
           NEW len \in Nat, NEW kept, kept = RejUniform(len, s), Len(kept) < len
    PROVE  kept \o RejUniform(len - Len(kept), t) = RejUniform(len, s \o t)
<1>0. PICK h \in Nat : Len(s) = 3 * h
  <2>1. PICK n \in Nat : n = Len(s)
    OBVIOUS
  <2>2. n \div 3 \in Nat /\ n = 3 * (n \div 3)
    BY <2>1, SMT
  <2> QED BY <2>1, <2>2
<1>1. /\ Len(kept) \in Nat
      /\ kept \o RejUniform(len - Len(kept), t) = RejUniform(len, s \o t)
  BY <1>0, UniformMore, ZenonT(60)
<1> QED BY <1>1

LEMMA EtaGoesOn ==
    ASSUME NEW s \in Seq(Byte0), NEW t \in Seq(Byte0),
           NEW len \in Nat, NEW kept, kept = RejEta(len, s), Len(kept) < len
    PROVE  kept \o RejEta(len - Len(kept), t) = RejEta(len, s \o t)
<1>1. /\ Len(kept) \in Nat
      /\ kept \o RejEta(len - Len(kept), t) = RejEta(len, s \o t)
  BY EtaMore, ZenonT(60)
<1> QED BY <1>1

(* What the candidates of v add to those of u. *)
GoesOn(r, l, u, v) == r \o Accept(l - Len(r), v) = Accept(l, u \o v)

LEMMA AcceptedMore ==
    ASSUME NEW s \in Seq(Byte0), NEW t \in Seq(Byte0), At("gen_a") => Len(s) % 3 = 0,
           NEW len \in Nat, NEW kept, kept = Accept(len, s), Len(kept) < len
    PROVE  GoesOn(kept, len, s, t)
<1>1. CASE At("gen_a")
  <2>1. \A l, b : Accept(l, b) = RejUniform(l, b)
    BY <1>1 DEF Accept
  <2>2. kept = RejUniform(len, s)
    BY <2>1
  <2>3. kept \o RejUniform(len - Len(kept), t) = RejUniform(len, s \o t)
    BY <1>1, <2>2, UniformGoesOn, ZenonT(60)
  <2> QED BY <2>1, <2>3 DEF GoesOn
<1>2. CASE ~At("gen_a")
  <2>1. \A l, b : Accept(l, b) = RejEta(l, b)
    BY <1>2 DEF Accept
  <2>2. kept = RejEta(len, s)
    BY <2>1
  <2>3. kept \o RejEta(len - Len(kept), t) = RejEta(len, s \o t)
    BY <2>2, EtaGoesOn, ZenonT(60)
  <2> QED BY <2>1, <2>3 DEF GoesOn
<1> QED BY <1>1, <1>2

LEMMA SampledMore ==
    ASSUME StreamsOfBytes, NEW k \in Nat, NEW n \in Nat, NEW kept,
           kept = Sampled(k), Len(kept) < N
    PROVE  kept \o Accept(N - Len(kept), Blocks(k, n)) = Sampled(k + n)
<1>0. Blocks(0, k) \in Seq(Byte0) /\ Blocks(k, n) \in Seq(Byte0) /\ Len(Blocks(0, k)) = BlockLength * k
  <2>1. 0 \in Nat
    OBVIOUS
  <2> QED BY <2>1, StretchTyped
<1>1. PICK s \in Seq(Byte0), t \in Seq(Byte0) : s = Blocks(0, k) /\ t = Blocks(k, n)
  BY <1>0
<1>2. At("gen_a") => Len(s) % 3 = 0
  <2> SUFFICES ASSUME At("gen_a") PROVE Len(s) % 3 = 0
    OBVIOUS
  <2>1. Len(s) = 168 * k
    BY <1>0, <1>1 DEF BlockLength
  <2>2. (168 * k) % 3 = 0
    BY SMT
  <2> QED BY <2>1, <2>2
<1>3. Blocks(0, k + n) = s \o t
  BY <1>1, BlocksConcat
<1>4. kept = Accept(N, s) /\ Sampled(k + n) = Accept(N, s \o t)
  BY <1>1, <1>3 DEF Sampled
<1>5. PICK len \in Nat : len = N
  BY DEF N
<1>6. kept = Accept(len, s) /\ Len(kept) < len
  BY <1>4, <1>5
<1>7. GoesOn(kept, len, s, t)
  BY <1>2, <1>6, AcceptedMore
<1> QED BY <1>1, <1>4, <1>5, <1>7 DEF GoesOn

(* Nothing is under way. *)
LEMMA NoneSampled == ASSUME sample' = NoSample PROVE SampleInv'
<1>1. (Sampled(0) = <<>>)'
  BY SampledNone, PTL
<1>2. sample'.kept = <<>> /\ sample'.blocks = 0 /\ sample'.left = <<>> /\ sample'.done = <<>>
  BY DEF NoSample
<1>3. sample'.kept = Sampled(sample.blocks)'
  BY <1>1, <1>2
<1> QED BY <1>2, <1>3 DEF SampleInv, NoSample
(* The other statements sample nothing, and change nothing of that. *)
LEMMA OthersSampleNothing ==
    ASSUME Statement, ~SampleBlocks, ~SampleDone
    PROVE  sample' = sample /\ ~Drawing
<1>1. CASE Gamma1
  BY <1>1 DEF Gamma1, At, Drawing
<1>2. CASE StartChallenge
  BY <1>2 DEF StartChallenge, At, Drawing
<1>3. CASE GrowChallenge
  BY <1>3 DEF GrowChallenge, At, Drawing
<1>4. CASE Copy
  BY <1>4 DEF Copy, Rest, draws, At, Drawing
<1>5. CASE Ntt
  BY <1>5 DEF Ntt, Rest, draws, At, Drawing
<1>6. CASE InvNtt
  BY <1>6 DEF InvNtt, Rest, draws, At, Drawing
<1>7. CASE Matrix
  BY <1>7 DEF Matrix, Rest, draws, At, Drawing
<1>8. CASE Times
  BY <1>8 DEF Times, Rest, draws, At, Drawing
<1>9. CASE Add
  BY <1>9 DEF Add, Rest, draws, At, Drawing
<1>10. CASE Sub
  BY <1>10 DEF Sub, Rest, draws, At, Drawing
<1>11. CASE Reduce
  BY <1>11 DEF Reduce, Rest, draws, At, Drawing
<1>12. CASE CondAddQ
  BY <1>12 DEF CondAddQ, Rest, draws, At, Drawing
<1>13. CASE Shiftl
  BY <1>13 DEF Shiftl, Rest, draws, At, Drawing
<1>14. CASE Power2RoundStep
  BY <1>14 DEF Power2RoundStep, Rest, draws, At, Drawing
<1>15. CASE DecomposeStep
  BY <1>15 DEF DecomposeStep, Rest, draws, At, Drawing
<1>16. CASE UseHintStep
  BY <1>16 DEF UseHintStep, Rest, draws, At, Drawing
<1>17. CASE Check
  BY <1>17 DEF Check, draws, At, Drawing
<1>18. CASE MakeHintStep
  BY <1>18 DEF MakeHintStep, Rest, draws, At, Drawing
<1>19. CASE HashMu
  BY <1>19 DEF HashMu, draws, At, Drawing
<1>20. CASE HashW1
  BY <1>20 DEF HashW1, draws, At, Drawing
<1>21. CASE PackKeys
  BY <1>21 DEF PackKeys, draws, At, Drawing
<1>22. CASE UnpackSk
  BY <1>22 DEF UnpackSk, draws, At, Drawing
<1>23. CASE UnpackPk
  BY <1>23 DEF UnpackPk, draws, At, Drawing
<1>24. CASE PackSig
  BY <1>24 DEF PackSig, draws, At, Drawing
<1>25. CASE UnpackSig
  BY <1>25 DEF UnpackSig, draws, At, Drawing
<1>26. CASE Compare
  BY <1>26 DEF Compare, draws, At, Drawing
<1> QED BY <1>1, <1>2, <1>3, <1>4, <1>5, <1>6, <1>7, <1>8, <1>9, <1>10, <1>11, <1>12, <1>13, <1>14, <1>15, <1>16, <1>17, <1>18, <1>19, <1>20, <1>21, <1>22, <1>23, <1>24, <1>25, <1>26 DEF Statement

(* Some blocks more, and what they are given. *)
LEMMA BlocksSampled ==
    ASSUME StreamsOfBytes, SampleInv, SampleBlocks
    PROVE  SampleInv'
<1> DEFINE n == IF sample.blocks = 0 THEN FirstBlocks ELSE 1
           buf == sample.left \o Blocks(sample.blocks, n)
           off == IF At("gen_a") THEN Len(buf) % 3 ELSE 0
<1>1. /\ Drawing /\ Len(sample.kept) < N
      /\ sample' = [sample EXCEPT !.blocks = @ + n,
                                  !.kept = @ \o Accept(N - Len(@), buf),
                                  !.left = SubSeq(buf, Len(buf) - off + 1, Len(buf))]
      /\ UNCHANGED <<code, texts>>
  BY Zenon DEF SampleBlocks, Drawing
<1>2. PICK k \in Nat, m \in Nat : k = sample.blocks /\ m = n
  BY DEF SampleInv, FirstBlocks, POLY_UNIFORM_NBLOCKS, POLY_UNIFORM_ETA_NBLOCKS
<1>3. /\ sample = [done |-> sample.done, blocks |-> sample.blocks,
                   kept |-> sample.kept, left |-> <<>>]
      /\ sample.kept = Sampled(k)
  BY <1>2 DEF SampleInv
<1> DEFINE t == Blocks(k, m)
<1>4. t \in Seq(Byte0) /\ Len(t) = BlockLength * m
  BY StretchTyped
<1> HIDE DEF n, t
<1>5. buf = t
  <2>1. sample.left = <<>>
    BY <1>3
  <2>2. buf = <<>> \o t
    BY <1>2, <2>1 DEF t
  <2> HIDE DEF buf
  <2> QED BY <1>4, <2>2, ConcatEmptySeq
<1>6. off = 0
  <2>1. CASE At("gen_a")
    <3>1. Len(t) = 168 * m
      BY <1>4, <2>1 DEF BlockLength
    <3>2. (168 * m) % 3 = 0
      BY SMT
    <3> QED BY <1>5, <2>1, <3>1, <3>2
  <2>2. CASE ~At("gen_a")
    BY <2>2
  <2> QED BY <2>1, <2>2
<1>7. SubSeq(buf, Len(buf) - off + 1, Len(buf)) = <<>>
  <2>1. SubSeq(t, Len(t) + 1, Len(t)) = <<>> /\ Len(t) \in Nat
    BY <1>4
  <2>2. Len(buf) - off + 1 = Len(t) + 1
    BY <1>5, <1>6, <2>1
  <2> QED BY <1>5, <2>1, <2>2
<1> DEFINE r == Accept(N - Len(sample.kept), t)
<1>8. sample' = [done |-> sample.done, blocks |-> k + m, kept |-> sample.kept \o r,
                 left |-> <<>>]
  <2>1. sample' = [sample EXCEPT !.blocks = k + m, !.kept = sample.kept \o r, !.left = <<>>]
    <3> HIDE DEF buf, off
    <3> QED BY <1>1, <1>2, <1>5, <1>7
  <2> HIDE DEF r
  <2> QED BY <1>3, <2>1
<1>9. sample.kept \o r = Sampled(k + m)
  BY <1>1, <1>3, SampledMore DEF t
<1>10. Sampled(k + m)' = Sampled(k + m) /\ Drawing'
  BY <1>1, <1>8, ZenonT(60) DEF Sampled, Accept, Blocks, At, EntryNonce, Entry, X, texts, Drawing
<1> HIDE DEF r
<1>11. /\ sample'.blocks = k + m /\ sample'.kept = Sampled(k + m)' /\ k + m \in Nat
       /\ sample' = [done |-> sample'.done, blocks |-> sample'.blocks,
                     kept |-> sample'.kept, left |-> <<>>]
  BY <1>8, <1>9, <1>10
<1>12. Sampled(sample.blocks)' = Sampled(k + m)'
  BY <1>11, Zenon
<1> QED BY <1>10, <1>11, <1>12 DEF SampleInv

(* A polynomial that is done makes room for the next one. *)
LEMMA DoneSampled ==
    ASSUME SampleInv, SampleDone
    PROVE  SampleInv'
<1> DEFINE done == Append(sample.done, [j \in Coeffs |-> sample.kept[j + 1]])
<1>1. \/ sample' = [NoSample EXCEPT !.done = done] /\ UNCHANGED code
      \/ sample' = NoSample
  BY Zenon DEF SampleDone
<1>2. CASE sample' = [NoSample EXCEPT !.done = done] /\ UNCHANGED code
  <2>1. (Sampled(0) = <<>>)'
    BY SampledNone, PTL
  <2>2. sample' = [done |-> done, blocks |-> 0, kept |-> <<>>, left |-> <<>>]
    BY <1>2 DEF NoSample
  <2>3. Drawing'
    BY <1>2 DEF SampleDone, At, Drawing
  <2> HIDE DEF done
  <2>4. sample'.kept = Sampled(sample.blocks)'
    BY <2>1, <2>2
  <2> QED BY <2>2, <2>3, <2>4 DEF SampleInv
<1>3. CASE sample' = NoSample
  BY <1>3, NoneSampled
<1> QED BY <1>1, <1>2, <1>3

(* Every step keeps to the streams. *)
LEMMA SampleKept == ASSUME StreamsOfBytes, SampleInv, [Next]_vars PROVE SampleInv'
<1>1. CASE SampleBlocks
  BY <1>1, BlocksSampled
<1>2. CASE SampleDone
  BY <1>2, DoneSampled
<1>3. CASE Statement /\ ~SampleBlocks /\ ~SampleDone
  <2>1. sample' = NoSample
    BY <1>3, OthersSampleNothing DEF SampleInv
  <2> QED BY <2>1, NoneSampled
<1>4. CASE Sign \/ Deliver
  <2>1. PICK p : Call(p)
    BY <1>4, CallFresh
  <2>2. sample' = NoSample
    BY <2>1 DEF Call
  <2> QED BY <2>2, NoneSampled
<1>5. CASE Return
  <2>1. sample' = NoSample
    BY <1>5 DEF Return, draws, SampleInv, Drawing, At
  <2> QED BY <2>1, NoneSampled
<1>6. CASE UNCHANGED vars
  <2>1. UNCHANGED <<sample, code, texts>>
    BY <1>6 DEF vars, draws
  <2>2. \A k : Sampled(k)' = Sampled(k)
    BY <2>1, ZenonT(60) DEF Sampled, Accept, Blocks, At, EntryNonce, Entry, X, texts
  <2> QED BY <2>1, <2>2 DEF SampleInv, Drawing, At
<1> QED BY <1>1, <1>2, <1>3, <1>4, <1>5, <1>6 DEF Next

LEMMA SampleAlways == ASSUME StreamsOfBytes PROVE Spec => []SampleInv
<1>1. Init => SampleInv
  <2> SUFFICES ASSUME Init PROVE SampleInv
    OBVIOUS
  <2>1. sample = NoSample
    BY DEF Init
  <2>2. sample.kept = Sampled(sample.blocks)
    BY <2>1, SampledNone DEF NoSample
  <2> QED BY <2>1, <2>2 DEF SampleInv, NoSample
<1>2. SampleInv /\ [Next]_vars => SampleInv'
  BY SampleKept
<1> QED BY <1>1, <1>2, PTL DEF Spec

(* This is what the run checks. *)
LEMMA InvInOrder == ASSUME SampleInv PROVE SampledInOrder
BY DEF SampleInv, Sampled, SampledInOrder

-----------------------------------------------------------------------------
(* The place in a procedure, and what each vector holds there. *)

Steps == {"keypair", "sign", "verify", "done"}

(* The list of statements of a procedure, and how many they are. *)
Prog(s) == IF s = "keypair" THEN Keypair ELSE IF s = "sign" THEN Signature ELSE Verify

Final(s) == IF s = "keypair" THEN 12 ELSE IF s = "sign" THEN 34 ELSE 18

(* The statement that comes next. *)
Here == Final(step) + 1 - Len(code)

(* How many polynomials a vector has. *)
Size(x) == IF x = "cp" THEN 1 ELSE IF x \in {"s1", "s1hat", "y", "z"} THEN L ELSE K

(* The worst cases after the statements that matter. *)
Small   == 524288               \* what is sampled, unpacked, rounded or checked
Scaled  == 4214753              \* invntt
Full    == 8380416              \* caddq, and the sums: q - 1
Product == 21400000             \* matrix
Spread  == 42400000             \* ntt

(* The statement of a procedure that first writes x; past the end if none does. *)
KeypairFirst(x) ==
    CASE x = "s1" -> 2 [] x = "s2" -> 3 [] x = "s1hat" -> 4 [] x = "t1" -> 6
        [] x = "t0" -> 11 [] OTHER -> 99

SignFirst(x) ==
    CASE x = "s1" -> 1 [] x = "s2" -> 1 [] x = "t0" -> 1 [] x = "y" -> 7
        [] x = "z" -> 8 [] x = "w1" -> 10 [] x = "w0" -> 14 [] x = "cp" -> 16
        [] x = "h" -> 23 [] OTHER -> 99

VerifyFirst(x) ==
    CASE x = "t1" -> 1 [] x = "z" -> 2 [] x = "h" -> 2 [] x = "cp" -> 5
        [] x = "w1" -> 8 [] OTHER -> 99

First(s, x) == IF s = "keypair" THEN KeypairFirst(x)
               ELSE IF s = "sign" THEN SignFirst(x) ELSE VerifyFirst(x)

(* The worst case of x before statement i. *)
KeypairRoom(i, x) ==
    CASE x = "s1hat" -> (IF i <= 5 THEN Small ELSE Spread)
        [] x = "t1"    -> (IF i <= 7 THEN Product ELSE IF i = 8 THEN Reduced
                           ELSE IF i = 9 THEN Scaled ELSE IF i <= 11 THEN Full
                           ELSE Small)
        [] OTHER       -> Small

SignRoom(i, x) ==
    CASE x = "s1" -> (IF i <= 4 THEN Small ELSE Spread)
        [] x = "s2" -> (IF i <= 5 THEN Small ELSE Spread)
        [] x = "t0" -> (IF i <= 6 THEN Small ELSE Spread)
        [] x = "z"  -> (IF i <= 9 THEN Small ELSE IF i <= 18 THEN Spread
                        ELSE IF i = 19 THEN Reduced ELSE IF i = 20 THEN Scaled
                        ELSE IF i = 21 THEN Full ELSE IF i = 22 THEN Reduced
                        ELSE Small)
        [] x = "w1" -> (IF i <= 11 THEN Product ELSE IF i = 12 THEN Reduced
                        ELSE IF i = 13 THEN Scaled ELSE IF i = 14 THEN Full
                        ELSE Small)
        [] x = "w0" -> (IF i <= 25 THEN Small ELSE IF i = 26 THEN Full
                        ELSE IF i = 27 THEN Reduced ELSE IF i <= 32 THEN Small
                        ELSE Full)
        [] x = "cp" -> (IF i <= 17 THEN Small ELSE Spread)
        [] x = "h"  -> (IF i <= 24 THEN Reduced ELSE IF i <= 28 THEN Scaled
                        ELSE IF i = 29 THEN Reduced ELSE IF i = 30 THEN Scaled
                        ELSE IF i = 31 THEN Reduced ELSE Small)
        [] OTHER    -> Small

VerifyRoom(i, x) ==
    CASE x = "t1" -> (IF i <= 10 THEN 1023 ELSE IF i = 11 THEN Full
                        ELSE IF i = 12 THEN Spread ELSE Reduced)
        [] x = "z"  -> (IF i <= 7 THEN Small ELSE Spread)
        [] x = "cp" -> (IF i <= 9 THEN Small ELSE Spread)
        [] x = "w1" -> (IF i <= 13 THEN Product ELSE IF i = 14 THEN Spread
                        ELSE IF i = 15 THEN Reduced ELSE IF i = 16 THEN Scaled
                        ELSE IF i = 17 THEN Full ELSE Small)
        [] OTHER    -> Small

Room(s, i, x) == IF s = "keypair" THEN KeypairRoom(i, x)
                 ELSE IF s = "sign" THEN SignRoom(i, x) ELSE VerifyRoom(i, x)

(* Where the matrix is sampled, the challenge, and where it is transformed. *)
GenAt(s)  == IF s = "keypair" THEN 1 ELSE IF s = "sign" THEN 3 ELSE 6
BallAt(s) == IF s = "keypair" THEN 99 ELSE IF s = "sign" THEN 16 ELSE 5
CpAt(s)   == IF s = "keypair" THEN 99 ELSE IF s = "sign" THEN 17 ELSE 9

(* Where a vector is rounded, and which. *)
RoundAt(s) == IF s = "keypair" THEN 11 ELSE IF s = "sign" THEN 14 ELSE 17
RoundOf(s) == IF s = "keypair" THEN "t1" ELSE "w1"

Roundings == {"power2round", "decompose", "use_hint"}

(* The statements that write no vector, and those with which a call returns. *)
Silent  == {"gen_a", "pack_keys", "hash_mu", "hash_w1", "pack_sig", "compare"}
Endings == {"pack_keys", "pack_sig", "compare"}

(* The vectors a statement writes. *)
Writes(op, x) ==
    IF op \in Silent THEN {}
    ELSE IF op = "power2round" THEN {"t1", "t0"}
    ELSE IF op = "decompose" THEN {"w1", "w0"}
    ELSE IF op = "unpack_sk" THEN {"s1", "s2", "t0"}
    ELSE IF op = "unpack_pk" THEN {"t1"}
    ELSE IF op = "unpack_sig" THEN {"z", "h"}
    ELSE IF op = "make_hint" THEN {"h"}
    ELSE IF op = "challenge" THEN {"cp"}
    ELSE {x}

(* What a statement asks of the place it stands at. *)
Placed(s, i, op, x, y) ==
    LET room     == Room(s, i, x)
        after    == Room(s, i + 1, x)
        ready(n) == n \in Names /\ First(s, n) < i
        small(n) == Room(s, i + 1, n) = Small
    IN
    /\ \A n \in Writes(op, x) : n \in Names
    /\ \A n \in Names : n \notin Writes(op, x) =>
           Room(s, i + 1, n) = Room(s, i, n) /\ First(s, n) # i
    /\ op = "gen_a" <=> i = GenAt(s)
    /\ op = "challenge" <=> i = BallAt(s)
    /\ op = "ntt" /\ x = "cp" <=> i = CpAt(s)
    /\ "cp" \in Writes(op, x) => i = BallAt(s) \/ i = CpAt(s)
    /\ op \in Roundings <=> i = RoundAt(s)
    /\ op \in Roundings => x = RoundOf(s)
    /\ op = "caddq" <=> i + 1 = RoundAt(s)
    /\ op = "caddq" => x = RoundOf(s) /\ ready(x) /\ room <= Full /\ after = Full
    /\ op \in Endings <=> i = Final(s)
    /\ op = "eta" => s = "keypair" /\ x \in {"s1", "s2"} /\ after = Small
    /\ op = "copy" => ready(y) /\ Size(x) = Size(y) /\ after = Room(s, i, y)
    /\ op = "ntt" => ready(x) /\ room <= Full /\ after = Spread
    /\ op = "invntt" => ready(x) /\ room = Reduced /\ after = Scaled
    /\ op = "matrix" => /\ ready(y) /\ Size(y) = L /\ Size(x) = K /\ GenAt(s) < i
                        /\ Room(s, i, y) = Spread /\ after = Product
    /\ op = "times" => /\ ready(y) /\ ready("cp") /\ Size(x) = Size(y)
                       /\ Room(s, i, y) = Spread /\ Room(s, i, "cp") = Spread
                       /\ after = Reduced
    /\ op \in {"add", "sub"} =>
           /\ ready(x) /\ ready(y) /\ Size(x) = Size(y)
           /\ room + Room(s, i, y) <= after /\ after <= Spread
    /\ op = "reduce" => ready(x) /\ room <= Spread /\ after = Reduced
    /\ op = "shiftl" => ready(x) /\ room = 1023 /\ after = Full
    /\ op = "check" => /\ ready(x) /\ x \in {"z", "w0", "h"}
                       /\ room <= Reduced /\ after = Small
    /\ op = "power2round" => s = "keypair" /\ ready("t1") /\ small("t1") /\ small("t0")
    /\ op = "decompose" => ready("w1") /\ small("w1") /\ small("w0")
    /\ op = "use_hint" => ready("w1") /\ ready("h") /\ small("w1")
    /\ op = "make_hint" => ready("w1") /\ ready("w0") /\ small("h")
    /\ op = "gamma1" => x = "y" /\ small("y")
    /\ op = "challenge" => small("cp")
    /\ op = "unpack_sk" => s = "sign" /\ small("s1") /\ small("s2") /\ small("t0")
    /\ op = "unpack_pk" => s = "verify" /\ Room(s, i + 1, "t1") = 1023
    /\ op = "unpack_sig" => s = "verify" /\ small("z") /\ small("h")
    /\ op = "pack_keys" => /\ s = "keypair" /\ ready("t1") /\ ready("t0")
                           /\ ready("s1") /\ ready("s2")
    /\ op = "pack_sig" => s = "sign" /\ ready("z")
    /\ op = "compare" => s = "verify"
    (* Another attempt begins with what is left from before the first. *)
    /\ op = "make_hint" \/ (op = "check" /\ s # "verify") =>
           /\ s = "sign"
           /\ \A n \in Names : First(s, n) < 7 =>
                  Room(s, 7, n) = Room(s, i, n) /\ n \notin Writes(op, x)

(* Statement i of a procedure stands where it may. *)
Stands(s, i) == Placed(s, i, Prog(s)[i][1], Prog(s)[i][2], Prog(s)[i][3])

(* The statements of crypto_sign_keypair. *)
LEMMA KeypairStatement ==
    LET p == Prog("keypair") IN
    /\ p[1] = <<"gen_a">>
    /\ p[2] = <<"eta", "s1">>
    /\ p[3] = <<"eta", "s2">>
    /\ p[4] = <<"copy", "s1hat", "s1">>
    /\ p[5] = <<"ntt", "s1hat">>
    /\ p[6] = <<"matrix", "t1", "s1hat">>
    /\ p[7] = <<"reduce", "t1">>
    /\ p[8] = <<"invntt", "t1">>
    /\ p[9] = <<"add", "t1", "s2">>
    /\ p[10] = <<"caddq", "t1">>
    /\ p[11] = <<"power2round", "t1">>
    /\ p[12] = <<"pack_keys">>
BY DEF Prog, Keypair

(* Each of them stands where it may. *)
LEMMA KeypairStands == \A i \in 1 .. 12 : Stands("keypair", i)
<1> USE DEF KeypairFirst, KeypairRoom,
            Placed, Writes, Size, First, Room, GenAt, BallAt, CpAt,
            RoundAt, RoundOf, Final, Silent, Endings, Roundings, Names, Small, Scaled, Full,
            Product, Spread, Reduced, K, L
<1>1. \A x, y : Placed("keypair", 1, "gen_a", x, y)
  BY SMTT(60)
<1>2. \A y : Placed("keypair", 2, "eta", "s1", y)
  BY SMTT(60)
<1>3. \A y : Placed("keypair", 3, "eta", "s2", y)
  BY SMTT(60)
<1>4. Placed("keypair", 4, "copy", "s1hat", "s1")
  BY SMTT(60)
<1>5. \A y : Placed("keypair", 5, "ntt", "s1hat", y)
  BY SMTT(60)
<1>6. Placed("keypair", 6, "matrix", "t1", "s1hat")
  BY SMTT(60)
<1>7. \A y : Placed("keypair", 7, "reduce", "t1", y)
  BY SMTT(60)
<1>8. \A y : Placed("keypair", 8, "invntt", "t1", y)
  BY SMTT(60)
<1>9. Placed("keypair", 9, "add", "t1", "s2")
  BY SMTT(60)
<1>10. \A y : Placed("keypair", 10, "caddq", "t1", y)
  BY SMTT(60)
<1>11. \A y : Placed("keypair", 11, "power2round", "t1", y)
  BY SMTT(60)
<1>12. \A x, y : Placed("keypair", 12, "pack_keys", x, y)
  BY SMTT(60)
<1> HIDE DEF KeypairFirst, KeypairRoom,
             Placed, Writes, Size, First, Room, GenAt, BallAt, CpAt,
             RoundAt, RoundOf, Final, Silent, Endings, Roundings, Names, Small, Scaled, Full,
             Product, Spread, Reduced, K, L
<1> QED BY KeypairStatement, <1>1, <1>2, <1>3, <1>4, <1>5, <1>6, <1>7, <1>8,
           <1>9, <1>10, <1>11, <1>12 DEF Stands

(* The statements of crypto_sign_signature_ctx. *)
LEMMA SignStatement ==
    LET p == Prog("sign") IN
    /\ p[1] = <<"unpack_sk">>
    /\ p[2] = <<"hash_mu">>
    /\ p[3] = <<"gen_a">>
    /\ p[4] = <<"ntt", "s1">>
    /\ p[5] = <<"ntt", "s2">>
    /\ p[6] = <<"ntt", "t0">>
    /\ p[7] = <<"gamma1", "y">>
    /\ p[8] = <<"copy", "z", "y">>
    /\ p[9] = <<"ntt", "z">>
    /\ p[10] = <<"matrix", "w1", "z">>
    /\ p[11] = <<"reduce", "w1">>
    /\ p[12] = <<"invntt", "w1">>
    /\ p[13] = <<"caddq", "w1">>
    /\ p[14] = <<"decompose", "w1">>
    /\ p[15] = <<"hash_w1">>
    /\ p[16] = <<"challenge">>
    /\ p[17] = <<"ntt", "cp">>
    /\ p[18] = <<"times", "z", "s1">>
    /\ p[19] = <<"invntt", "z">>
    /\ p[20] = <<"add", "z", "y">>
    /\ p[21] = <<"reduce", "z">>
    /\ p[22] = <<"check", "z">>
    /\ p[23] = <<"times", "h", "s2">>
    /\ p[24] = <<"invntt", "h">>
    /\ p[25] = <<"sub", "w0", "h">>
    /\ p[26] = <<"reduce", "w0">>
    /\ p[27] = <<"check", "w0">>
    /\ p[28] = <<"times", "h", "t0">>
    /\ p[29] = <<"invntt", "h">>
    /\ p[30] = <<"reduce", "h">>
    /\ p[31] = <<"check", "h">>
    /\ p[32] = <<"add", "w0", "h">>
    /\ p[33] = <<"make_hint">>
    /\ p[34] = <<"pack_sig">>
BY DEF Prog, Signature, Attempt

(* Each of them stands where it may. *)
LEMMA SignStands == \A i \in 1 .. 34 : Stands("sign", i)
<1> USE DEF SignFirst, SignRoom,
            Placed, Writes, Size, First, Room, GenAt, BallAt, CpAt,
            RoundAt, RoundOf, Final, Silent, Endings, Roundings, Names, Small, Scaled, Full,
            Product, Spread, Reduced, K, L
<1>1. \A x, y : Placed("sign", 1, "unpack_sk", x, y)
  BY SMTT(60)
<1>2. \A x, y : Placed("sign", 2, "hash_mu", x, y)
  BY SMTT(60)
<1>3. \A x, y : Placed("sign", 3, "gen_a", x, y)
  BY SMTT(60)
<1>4. \A y : Placed("sign", 4, "ntt", "s1", y)
  BY SMTT(60)
<1>5. \A y : Placed("sign", 5, "ntt", "s2", y)
  BY SMTT(60)
<1>6. \A y : Placed("sign", 6, "ntt", "t0", y)
  BY SMTT(60)
<1>7. \A y : Placed("sign", 7, "gamma1", "y", y)
  BY SMTT(60)
<1>8. Placed("sign", 8, "copy", "z", "y")
  BY SMTT(60)
<1>9. \A y : Placed("sign", 9, "ntt", "z", y)
  BY SMTT(60)
<1>10. Placed("sign", 10, "matrix", "w1", "z")
  BY SMTT(60)
<1>11. \A y : Placed("sign", 11, "reduce", "w1", y)
  BY SMTT(60)
<1>12. \A y : Placed("sign", 12, "invntt", "w1", y)
  BY SMTT(60)
<1>13. \A y : Placed("sign", 13, "caddq", "w1", y)
  BY SMTT(60)
<1>14. \A y : Placed("sign", 14, "decompose", "w1", y)
  BY SMTT(60)
<1>15. \A x, y : Placed("sign", 15, "hash_w1", x, y)
  BY SMTT(60)
<1>16. \A x, y : Placed("sign", 16, "challenge", x, y)
  BY SMTT(60)
<1>17. \A y : Placed("sign", 17, "ntt", "cp", y)
  BY SMTT(60)
<1>18. Placed("sign", 18, "times", "z", "s1")
  BY SMTT(60)
<1>19. \A y : Placed("sign", 19, "invntt", "z", y)
  BY SMTT(60)
<1>20. Placed("sign", 20, "add", "z", "y")
  BY SMTT(60)
<1>21. \A y : Placed("sign", 21, "reduce", "z", y)
  BY SMTT(60)
<1>22. \A y : Placed("sign", 22, "check", "z", y)
  BY SMTT(60)
<1>23. Placed("sign", 23, "times", "h", "s2")
  BY SMTT(60)
<1>24. \A y : Placed("sign", 24, "invntt", "h", y)
  BY SMTT(60)
<1>25. Placed("sign", 25, "sub", "w0", "h")
  BY SMTT(60)
<1>26. \A y : Placed("sign", 26, "reduce", "w0", y)
  BY SMTT(60)
<1>27. \A y : Placed("sign", 27, "check", "w0", y)
  BY SMTT(60)
<1>28. Placed("sign", 28, "times", "h", "t0")
  BY SMTT(60)
<1>29. \A y : Placed("sign", 29, "invntt", "h", y)
  BY SMTT(60)
<1>30. \A y : Placed("sign", 30, "reduce", "h", y)
  BY SMTT(60)
<1>31. \A y : Placed("sign", 31, "check", "h", y)
  BY SMTT(60)
<1>32. Placed("sign", 32, "add", "w0", "h")
  BY SMTT(60)
<1>33. \A x, y : Placed("sign", 33, "make_hint", x, y)
  BY SMTT(60)
<1>34. \A x, y : Placed("sign", 34, "pack_sig", x, y)
  BY SMTT(60)
<1> HIDE DEF SignFirst, SignRoom,
             Placed, Writes, Size, First, Room, GenAt, BallAt, CpAt,
             RoundAt, RoundOf, Final, Silent, Endings, Roundings, Names, Small, Scaled, Full,
             Product, Spread, Reduced, K, L
<1> QED BY SignStatement, <1>1, <1>2, <1>3, <1>4, <1>5, <1>6, <1>7, <1>8,
           <1>9, <1>10, <1>11, <1>12, <1>13, <1>14, <1>15, <1>16, <1>17,
           <1>18, <1>19, <1>20, <1>21, <1>22, <1>23, <1>24, <1>25, <1>26,
           <1>27, <1>28, <1>29, <1>30, <1>31, <1>32, <1>33, <1>34 DEF Stands

(* The statements of crypto_sign_verify_ctx. *)
LEMMA VerifyStatement ==
    LET p == Prog("verify") IN
    /\ p[1] = <<"unpack_pk">>
    /\ p[2] = <<"unpack_sig">>
    /\ p[3] = <<"check", "z">>
    /\ p[4] = <<"hash_mu">>
    /\ p[5] = <<"challenge">>
    /\ p[6] = <<"gen_a">>
    /\ p[7] = <<"ntt", "z">>
    /\ p[8] = <<"matrix", "w1", "z">>
    /\ p[9] = <<"ntt", "cp">>
    /\ p[10] = <<"shiftl", "t1">>
    /\ p[11] = <<"ntt", "t1">>
    /\ p[12] = <<"times", "t1", "t1">>
    /\ p[13] = <<"sub", "w1", "t1">>
    /\ p[14] = <<"reduce", "w1">>
    /\ p[15] = <<"invntt", "w1">>
    /\ p[16] = <<"caddq", "w1">>
    /\ p[17] = <<"use_hint", "w1">>
    /\ p[18] = <<"compare">>
BY DEF Prog, Verify

(* Each of them stands where it may. *)
LEMMA VerifyStands == \A i \in 1 .. 18 : Stands("verify", i)
<1> USE DEF VerifyFirst, VerifyRoom,
            Placed, Writes, Size, First, Room, GenAt, BallAt, CpAt,
            RoundAt, RoundOf, Final, Silent, Endings, Roundings, Names, Small, Scaled, Full,
            Product, Spread, Reduced, K, L
<1>1. \A x, y : Placed("verify", 1, "unpack_pk", x, y)
  BY SMTT(60)
<1>2. \A x, y : Placed("verify", 2, "unpack_sig", x, y)
  BY SMTT(60)
<1>3. \A y : Placed("verify", 3, "check", "z", y)
  BY SMTT(60)
<1>4. \A x, y : Placed("verify", 4, "hash_mu", x, y)
  BY SMTT(60)
<1>5. \A x, y : Placed("verify", 5, "challenge", x, y)
  BY SMTT(60)
<1>6. \A x, y : Placed("verify", 6, "gen_a", x, y)
  BY SMTT(60)
<1>7. \A y : Placed("verify", 7, "ntt", "z", y)
  BY SMTT(60)
<1>8. Placed("verify", 8, "matrix", "w1", "z")
  BY SMTT(60)
<1>9. \A y : Placed("verify", 9, "ntt", "cp", y)
  BY SMTT(60)
<1>10. \A y : Placed("verify", 10, "shiftl", "t1", y)
  BY SMTT(60)
<1>11. \A y : Placed("verify", 11, "ntt", "t1", y)
  BY SMTT(60)
<1>12. Placed("verify", 12, "times", "t1", "t1")
  BY SMTT(60)
<1>13. Placed("verify", 13, "sub", "w1", "t1")
  BY SMTT(60)
<1>14. \A y : Placed("verify", 14, "reduce", "w1", y)
  BY SMTT(60)
<1>15. \A y : Placed("verify", 15, "invntt", "w1", y)
  BY SMTT(60)
<1>16. \A y : Placed("verify", 16, "caddq", "w1", y)
  BY SMTT(60)
<1>17. \A y : Placed("verify", 17, "use_hint", "w1", y)
  BY SMTT(60)
<1>18. \A x, y : Placed("verify", 18, "compare", x, y)
  BY SMTT(60)
<1> HIDE DEF VerifyFirst, VerifyRoom,
             Placed, Writes, Size, First, Room, GenAt, BallAt, CpAt,
             RoundAt, RoundOf, Final, Silent, Endings, Roundings, Names, Small, Scaled, Full,
             Product, Spread, Reduced, K, L
<1> QED BY VerifyStatement, <1>1, <1>2, <1>3, <1>4, <1>5, <1>6, <1>7, <1>8,
           <1>9, <1>10, <1>11, <1>12, <1>13, <1>14, <1>15, <1>16, <1>17, <1>18 DEF Stands

Procedures == {"keypair", "sign", "verify"}

(* The statements of Attempt end those of Signature. *)
LEMMA AttemptTyped ==
    /\ Attempt \in Seq({Attempt[i] : i \in 1 .. 28}) /\ Len(Attempt) = 28
    /\ Signature \in Seq({Signature[i] : i \in 1 .. 34}) /\ Len(Signature) = 34
    /\ \A n \in 1 .. 28 : Signature[6 + n] = Attempt[n]
<1> DEFINE first == << <<"unpack_sk">>, <<"hash_mu">>, <<"gen_a">>,
                       <<"ntt", "s1">>, <<"ntt", "s2">>, <<"ntt", "t0">> >>
           A == {Attempt[i] : i \in 1 .. 28}
           S == A \cup {first[i] : i \in 1 .. 6}
<1>1. Attempt \in Seq(A) /\ Len(Attempt) = 28
  <2>1. Attempt = [i \in 1 .. 28 |-> Attempt[i]]
    BY DEF Attempt
  <2> QED BY <2>1
<1>2. first \in Seq(S) /\ Len(first) = 6
  <2>1. first = [i \in 1 .. 6 |-> first[i]]
    OBVIOUS
  <2> HIDE DEF first
  <2> QED BY <2>1
<1> HIDE DEF A
<1>3. Attempt \in Seq(S)
  <2>1. A \subseteq S
    OBVIOUS
  <2> HIDE DEF S
  <2> QED BY <1>1, <2>1, SeqMonotonic
<1>4. Signature = first \o Attempt
  BY DEF Signature
<1> HIDE DEF first, S
<1>5. /\ Signature \in Seq(S) /\ Len(Signature) = Len(first) + Len(Attempt)
      /\ \A n \in 1 .. Len(Attempt) : Signature[Len(first) + n] = Attempt[n]
  <2>1. PICK s \in Seq(S), t \in Seq(S) : s = first /\ t = Attempt
    BY <1>2, <1>3
  <2>2. PICK r : r = s \o t
    OBVIOUS
  <2>3. /\ r \in Seq(S) /\ Len(r) = Len(s) + Len(t)
        /\ \A n \in 1 .. Len(t) : r[Len(s) + n] = t[n]
    BY <2>2, Appended
  <2>4. r = Signature
    BY <1>4, <2>1, <2>2
  <2> QED BY <2>1, <2>3, <2>4
<1>6. /\ Signature \in Seq(S) /\ Len(Signature) = 34
      /\ \A n \in 1 .. 28 : Signature[6 + n] = Attempt[n]
  BY <1>1, <1>2, <1>5
<1>7. Signature \in Seq({Signature[i] : i \in 1 .. 34})
  <2>1. Signature = [i \in 1 .. 34 |-> Signature[i]]
    BY <1>6
  <2> QED BY <2>1
<1> QED BY <1>1, <1>6, <1>7 DEF A

(* A procedure is a sequence, of as many statements as it has. *)
LEMMA ProgTyped ==
    ASSUME NEW s \in Procedures
    PROVE  /\ Prog(s) \in Seq({Prog(s)[i] : i \in 1 .. Final(s)})
           /\ Len(Prog(s)) = Final(s)
<1>1. Keypair = [i \in 1 .. 12 |-> Keypair[i]]
  BY DEF Keypair
<1>2. Verify = [i \in 1 .. 18 |-> Verify[i]]
  BY DEF Verify
<1>3. Signature = [i \in 1 .. 34 |-> Signature[i]]
  BY AttemptTyped
<1>4. Prog(s) = [i \in 1 .. Final(s) |-> Prog(s)[i]] /\ Final(s) \in Nat
  BY <1>1, <1>2, <1>3 DEF Prog, Final, Procedures
<1> QED BY <1>4

(* Every statement of every procedure stands where it may. *)
LEMMA AllStand ==
    ASSUME NEW s \in Procedures, NEW i \in 1 .. Final(s)
    PROVE  Stands(s, i)
BY KeypairStands, SignStands, VerifyStands DEF Procedures, Final

(* What is left of a sequence: its head, and what is left after it. *)
LEMMA LeftOver ==
    ASSUME NEW S, NEW p \in Seq(S), NEW i \in 1 .. Len(p) + 1
    PROVE  LET rest == SubSeq(p, i, Len(p)) IN
           /\ Len(rest) = Len(p) + 1 - i
           /\ i <= Len(p) => /\ rest # <<>> /\ Head(rest) = p[i]
                            /\ Tail(rest) = SubSeq(p, i + 1, Len(p))
           /\ i = Len(p) + 1 => rest = <<>>
<1> DEFINE rest == SubSeq(p, i, Len(p))
           next == SubSeq(p, i + 1, Len(p))
<1>1. CASE i <= Len(p)
  <2>1. /\ rest \in Seq(S) /\ Len(rest) = Len(p) - i + 1
        /\ \A n \in 1 .. Len(p) - i + 1 : rest[n] = p[i + n - 1]
    BY <1>1
  <2>2. /\ next \in Seq(S) /\ Len(next) = Len(p) - i
        /\ \A n \in 1 .. Len(p) - i : next[n] = p[i + 1 + n - 1]
    BY <1>1
  <2> HIDE DEF rest, next
  <2>3. rest # <<>> /\ Head(rest) = p[i]
    BY <1>1, <2>1
  <2>4. /\ Tail(rest) \in Seq(S) /\ Len(Tail(rest)) = Len(p) - i
        /\ \A n \in 1 .. Len(p) - i : Tail(rest)[n] = rest[n + 1]
    BY <1>1, <2>1, <2>3
  <2>5. \A n \in 1 .. Len(p) - i : Tail(rest)[n] = next[n]
    BY <1>1, <2>1, <2>2, <2>4
  <2>6. Tail(rest) = next
    BY <2>2, <2>4, <2>5, SeqEqual
  <2> QED BY <1>1, <2>1, <2>3, <2>6 DEF rest, next
<1>2. CASE i = Len(p) + 1
  BY <1>2
<1> QED BY <1>1, <1>2

-----------------------------------------------------------------------------
(* The inductive invariant. *)

(* Numbers in the first n places of an array. *)
Ints(a, n) == \A k \in Nat : k < n => a[k] \in Int

(* What is left of the procedure that runs starts at its statement Here, and
   only a transform has done some of its layers. *)
Flow ==
    /\ step \in Steps
    /\ step = "done" => code = <<>>
    /\ Here \in 1 .. Final(step) + 1
    /\ code = SubSeq(Prog(step), Here, Final(step))
    /\ layer \in 0 .. 8
    /\ layer # 0 => (At("ntt") /\ layer < 8) \/ At("invntt")

(* The worst case of x: the one of the place, or the one of the layer. *)
RoomNow(x) ==
    IF layer = 0 \/ x # X THEN Room(step, Here, x)
    ELSE IF At("ntt") THEN Full + 4231745 * layer ELSE Reduced * 2^layer

(* Every vector is within it, and there from the statement that first writes it. *)
Rooms ==
    code # <<>> =>
        \A x \in Names : First(step, x) < Here =>
            bound[x] <= RoomNow(x) /\ DOMAIN mem[x] = 1 .. Size(x)

(* No vector leaves its worst case, and nothing overflowed. *)
Vectors ==
    /\ DOMAIN mem = Names
    /\ bound \in [Names -> Nat]
    /\ peak \in Int /\ peak < TooLarge
    /\ \A x \in Names : \A k \in DOMAIN mem[x] : Bounded(mem[x][k], bound[x])

(* What is rounded is between 0 and q. *)
Canon ==
    code # <<>> /\ Here = RoundAt(step) =>
        \A k \in 1 .. K : \A j \in Coeffs : mem[RoundOf(step)][k][j] \in 0 .. Q - 1

Uniform == [Coeffs -> 0 .. Q - 1]
Noise   == [Coeffs -> -ETA .. ETA]

(* What is sampled has the range it should, and the matrix is there when it was
   sampled. *)
Matrices ==
    /\ At("gen_a") => sample.done \in Seq(Uniform) /\ Len(sample.done) < K * L
    /\ At("eta") => sample.done \in Seq(Noise) /\ Len(sample.done) < Size(X)
    /\ code # <<>> /\ GenAt(step) < Here => mat \in Seq(Uniform) /\ Len(mat) = K * L

(* c has n coefficients of one or minus one. *)
InBall(c, n) == c \in [Coeffs -> {0, 1, -1}] /\ Cardinality(Nonzero(c)) = n

BallInv ==
    /\ ball \in [i : Nat, pos : Nat, block : Nat, signs : Seq({0, 1})]
    /\ ball.i # 0 =>
          /\ At("challenge") /\ ball.i \in N - TAU .. N - 1
          /\ ball.pos \in 0 .. 136
          /\ Len(ball.signs) = N - ball.i
          /\ InBall(mem["cp"][1], ball.i - (N - TAU))
          /\ \A j \in Nonzero(mem["cp"][1]) : j < ball.i
    /\ code # <<>> /\ BallAt(step) < Here /\ Here <= CpAt(step)
          /\ (Here = CpAt(step) => layer = 0) => InBall(mem["cp"][1], TAU)

(* What one call returns and another reads is numbers. *)
Bytes ==
    /\ DOMAIN sk = {"rho", "key", "tr", "s1", "s2", "t0"}
    /\ DOMAIN sig = {"c", "z", "h"}
    /\ step # "keypair" \/ code = <<>> =>
          /\ Ints(pk.t1, 320 * K) /\ Ints(sk.s1, 128 * L) /\ Ints(sk.s2, 128 * K)
          /\ Ints(sk.t0, 416 * K)
    /\ step = "sign" /\ ret = 0 => Ints(sig.z, 640 * L) /\ DOMAIN sig.z = 0 .. 640 * L - 1
    /\ step = "verify" /\ code # <<>> => Ints(got.sig.z, 640 * L)

(* The whole. *)
DsaInv ==
    /\ Flow /\ Rooms /\ Vectors /\ Canon
    /\ Matrices /\ BallInv /\ Bytes

-----------------------------------------------------------------------------
(* What is left, and where the next statement stands. *)
LEMMA Standing ==
    ASSUME Flow, code # <<>>
    PROVE  /\ step \in Procedures /\ Here \in 1 .. Final(step) /\ Final(step) \in Nat
           /\ Tail(code) = SubSeq(Prog(step), Here + 1, Final(step))
           /\ Len(Tail(code)) = Final(step) - Here
           /\ Here < Final(step) => Tail(code) # <<>>
           /\ Placed(step, Here, Head(code)[1], X, Y)
<1> DEFINE p == step
           S == {Prog(p)[n] : n \in 1 .. Final(p)}
<1>1. /\ p \in Procedures /\ Here \in 1 .. Final(p) + 1
      /\ code = SubSeq(Prog(p), Here, Final(p))
  BY DEF Flow, Steps, Procedures
<1>2. Final(p) \in Nat
  BY DEF Final
<1>3. Prog(p) \in Seq(S) /\ Len(Prog(p)) = Final(p)
  BY <1>1, ProgTyped
<1> HIDE DEF S
<1>4. LET rest == SubSeq(Prog(p), Here, Len(Prog(p))) IN
      /\ Here <= Len(Prog(p)) => /\ rest # <<>> /\ Head(rest) = Prog(p)[Here]
                                /\ Tail(rest) = SubSeq(Prog(p), Here + 1, Len(Prog(p)))
      /\ Here = Len(Prog(p)) + 1 => rest = <<>>
  BY <1>1, <1>3, LeftOver
<1>5. Here \in 1 .. Final(p) /\ Head(code) = Prog(p)[Here]
      /\ Tail(code) = SubSeq(Prog(p), Here + 1, Final(p))
  BY <1>1, <1>2, <1>3, <1>4
<1>6. Stands(p, Here)
  BY <1>1, <1>5, AllStand
<1>7. /\ Len(Tail(code)) = Final(p) - Here
      /\ Here < Final(p) => Tail(code) # <<>>
  <2>1. PICK n \in 1 .. Len(Prog(p)) + 1 : n = Here + 1
    BY <1>2, <1>3, <1>5
  <2>2. LET rest == SubSeq(Prog(p), n, Len(Prog(p))) IN
        /\ Len(rest) = Len(Prog(p)) + 1 - n
        /\ n <= Len(Prog(p)) => rest # <<>>
    BY <1>3, LeftOver
  <2> QED BY <1>2, <1>3, <1>5, <2>1, <2>2
<1> QED BY <1>1, <1>2, <1>5, <1>6, <1>7 DEF Stands, X, Y

(* The statement after it. *)
LEMMA NextPlace ==
    ASSUME Flow, code # <<>>, code' = Tail(code), layer' = 0, step' = step
    PROVE  Flow' /\ Here' = Here + 1
<1>1. /\ step \in Procedures /\ Here \in 1 .. Final(step) /\ Final(step) \in Nat
      /\ Tail(code) = SubSeq(Prog(step), Here + 1, Final(step))
      /\ Len(Tail(code)) = Final(step) - Here
  BY Standing
<1>2. Here' = Here + 1
  <2>1. Here' = Final(step) + 1 - Len(Tail(code))
    BY Zenon DEF Here
  <2> QED BY <1>1, <2>1
<1> QED BY <1>1, <1>2 DEF Flow, Steps, Procedures

(* The first statement of a procedure. *)
LEMMA FirstPlace ==
    ASSUME step' \in Procedures, code' = Prog(step'), layer' = 0
    PROVE  Flow' /\ Here' = 1 /\ code' # <<>>
<1> DEFINE p == step'
           S == {Prog(p)[n] : n \in 1 .. Final(p)}
<1>1. Prog(p) \in Seq(S) /\ Len(Prog(p)) = Final(p)
  BY ProgTyped
<1>2. Final(p) \in Nat \ {0}
  BY DEF Final
<1> HIDE DEF S
<1>3. Here' = 1
  <2>1. Here' = Final(p) + 1 - Len(Prog(p))
    BY Zenon DEF Here
  <2> QED BY <1>1, <1>2, <2>1
<1>4. code' = SubSeq(Prog(p), 1, Final(p)) /\ code' # <<>>
  BY <1>1, <1>2
<1> QED BY <1>2, <1>3, <1>4 DEF Flow, Steps, Procedures

(* The end of one. *)
LEMMA LastPlace ==
    ASSUME step' \in Steps, code' = <<>>, layer' = 0
    PROVE  Flow' /\ Here' = Final(step') + 1
<1> DEFINE p == IF step' = "done" THEN "verify" ELSE step'
           S == {Prog(p)[n] : n \in 1 .. Final(p)}
<1>0. p \in Procedures /\ Prog(p) = Prog(step') /\ Final(p) = Final(step')
  BY DEF Procedures, Steps, Prog, Final
<1>1. Prog(p) \in Seq(S) /\ Len(Prog(p)) = Final(p)
  BY <1>0, ProgTyped
<1>2. Final(p) \in Nat
  BY DEF Final
<1> HIDE DEF S, p
<1>3. Here' = Final(p) + 1
  <2>1. Here' = Final(step') + 1 - Len(<<>>)
    BY Zenon DEF Here
  <2> QED BY <1>0, <1>2, <2>1
<1>4. SubSeq(Prog(p), Final(p) + 1, Final(p)) = <<>>
  BY <1>1, <1>2
<1> QED BY <1>0, <1>2, <1>3, <1>4 DEF Flow

(* Another attempt. *)
LEMMA AgainPlace ==
    ASSUME step' = "sign", code' = Attempt, layer' = 0
    PROVE  Flow' /\ Here' = 7
<1>1. Len(Attempt) = 28
  BY AttemptTyped
<1>2. Here' = 7
  <2>1. Here' = Final("sign") + 1 - Len(Attempt)
    BY Zenon DEF Here
  <2> QED BY <1>1, <2>1 DEF Final
<1>3. Attempt = SubSeq(Prog("sign"), 7, 34)
  <2> DEFINE S == {Signature[i] : i \in 1 .. 34}
  <2>1. PICK r \in Seq(S) : r = Signature
    BY AttemptTyped
  <2> HIDE DEF S
  <2>2. Len(r) = 34 /\ Len(Attempt) = 28 /\ \A n \in 1 .. 28 : Attempt[n] = r[6 + n]
    BY <2>1, AttemptTyped
  <2> DEFINE t == SubSeq(r, 7, 34)
  <2>3. PICK m \in Int, l \in Int : m = 7 /\ l = 34
    OBVIOUS
  <2>4. t \in Seq(S) /\ Len(t) = 28 /\ \A n \in 1 .. 28 : t[n] = r[6 + n]
    <3>0. r \in Seq(S) /\ Len(r) = l /\ 1 <= m
      BY <2>1, <2>2, <2>3
    <3>1. \A n \in m .. l : r[n] \in S
      <4> SUFFICES ASSUME NEW n \in m .. l PROVE r[n] \in S
        OBVIOUS
      <4>1. n \in 1 .. Len(r)
        BY <3>0
      <4> QED BY <3>0, <4>1
    <3>2. /\ SubSeq(r, m, l) \in Seq(S)
          /\ Len(SubSeq(r, m, l)) = (IF m <= l THEN l - m + 1 ELSE 0)
          /\ \A n \in 1 .. l - m + 1 : SubSeq(r, m, l)[n] = r[m + n - 1]
      BY <3>1, SubSeqProperties
    <3>3. t = SubSeq(r, m, l)
      BY <2>3
    <3> HIDE DEF t
    <3>4. t \in Seq(S) /\ Len(t) = 28 /\ \A n \in 1 .. 28 : t[n] = r[7 + n - 1]
      BY <2>3, <3>2, <3>3
    <3> QED BY <3>4
  <2> HIDE DEF t
  <2>5. t = Attempt
    <3>1. t = [n \in 1 .. 28 |-> t[n]]
      BY <2>4
    <3>2. Attempt = [n \in 1 .. 28 |-> Attempt[n]]
      BY AttemptTyped
    <3> QED BY <2>2, <2>4, <3>1, <3>2
  <2> QED BY <2>1, <2>5 DEF t, Prog
<1> QED BY <1>2, <1>3 DEF Flow, Final, Steps

(* The tables give numbers. *)
LEMMA RoomNat ==
    ASSUME NEW s, NEW i \in Nat, NEW x
    PROVE  /\ Room(s, i, x) \in Nat /\ Room(s, i, x) <= Spread
           /\ First(s, x) \in Nat
<1>0. Small <= Spread /\ Scaled <= Spread /\ Full <= Spread /\ Product <= Spread
      /\ Reduced <= Spread /\ 1023 <= Spread
      /\ Small \in Nat /\ Scaled \in Nat /\ Full \in Nat /\ Product \in Nat
      /\ Reduced \in Nat /\ Spread \in Nat
  BY SMT DEF Small, Scaled, Full, Product, Reduced, Spread
<1>1. KeypairRoom(i, x) \in Nat /\ KeypairRoom(i, x) <= Spread
  BY <1>0, SMT DEF KeypairRoom
<1>2. SignRoom(i, x) \in Nat /\ SignRoom(i, x) <= Spread
  <2>1. CASE x = "s1"
    BY <1>0, <2>1, SMT DEF SignRoom
  <2>2. CASE x = "s2"
    BY <1>0, <2>2, SMT DEF SignRoom
  <2>3. CASE x = "t0"
    BY <1>0, <2>3, SMT DEF SignRoom
  <2>4. CASE x = "z"
    BY <1>0, <2>4, SMT DEF SignRoom
  <2>5. CASE x = "w1"
    BY <1>0, <2>5, SMT DEF SignRoom
  <2>6. CASE x = "w0"
    BY <1>0, <2>6, SMT DEF SignRoom
  <2>7. CASE x = "cp"
    BY <1>0, <2>7, SMT DEF SignRoom
  <2>8. CASE x = "h"
    BY <1>0, <2>8, SMT DEF SignRoom
  <2>9. CASE x \notin {"s1", "s2", "t0", "z", "w1", "w0", "cp", "h"}
    <3>1. SignRoom(i, x) = Small
      BY <2>9, Zenon DEF SignRoom
    <3> QED BY <1>0, <3>1
  <2> QED BY <2>1, <2>2, <2>3, <2>4, <2>5, <2>6, <2>7, <2>8, <2>9
<1>3. VerifyRoom(i, x) \in Nat /\ VerifyRoom(i, x) <= Spread
  <2>1. CASE x = "t1"
    BY <1>0, <2>1, SMT DEF VerifyRoom
  <2>2. CASE x = "z"
    BY <1>0, <2>2, SMT DEF VerifyRoom
  <2>3. CASE x = "cp"
    BY <1>0, <2>3, SMT DEF VerifyRoom
  <2>4. CASE x = "w1"
    BY <1>0, <2>4, SMT DEF VerifyRoom
  <2>5. CASE x \notin {"t1", "z", "cp", "w1"}
    <3>1. VerifyRoom(i, x) = Small
      BY <2>5, Zenon DEF VerifyRoom
    <3> QED BY <1>0, <3>1
  <2> QED BY <2>1, <2>2, <2>3, <2>4, <2>5
<1>4. KeypairFirst(x) \in Nat
  BY SMT DEF KeypairFirst
<1>5. SignFirst(x) \in Nat
  BY SMT DEF SignFirst
<1>6. VerifyFirst(x) \in Nat
  BY SMT DEF VerifyFirst
<1> QED BY <1>1, <1>2, <1>3, <1>4, <1>5, <1>6, SMT DEF Room, First

(* A vector of n polynomials of the size of b. *)
Fits(val, n, b) == DOMAIN val = 1 .. n /\ \A k \in 1 .. n : Bounded(val[k], b)

(* The vectors that a statement writes fit the place behind it, the others stay. *)
Wrote ==
    LET written == Writes(Head(code)[1], X) IN
    /\ DOMAIN mem' = Names /\ bound' \in [Names -> Nat]
    /\ peak' \in Int /\ peak' < TooLarge
    /\ \A x \in Names : x \in written =>
          bound'[x] <= Room(step, Here + 1, x) /\ Fits(mem'[x], Size(x), bound'[x])
    /\ \A x \in Names : x \notin written => mem'[x] = mem[x] /\ bound'[x] = bound[x]

(* A transform that runs writes its vector. *)
LEMMA TransformWrites ==
    ASSUME Flow, layer # 0
    PROVE  code # <<>> /\ X \in Writes(Head(code)[1], X)
BY DEF Flow, At, Writes, Silent

(* A vector that is not written has the room of the place. *)
LEMMA RoomLeft ==
    ASSUME Flow, Rooms, code # <<>>, NEW x \in Names, x \notin Writes(Head(code)[1], X),
           First(step, x) < Here
    PROVE  bound[x] <= Room(step, Here, x) /\ DOMAIN mem[x] = 1 .. Size(x)
<1>1. bound[x] <= RoomNow(x) /\ DOMAIN mem[x] = 1 .. Size(x)
  BY DEF Rooms
<1>2. layer = 0 \/ x # X
  BY TransformWrites
<1> QED BY <1>1, <1>2 DEF RoomNow

(* Then the vectors are as they should be at the next place. *)
LEMMA Written ==
    ASSUME Flow, Rooms, Vectors, code # <<>>,
           code' = Tail(code), layer' = 0, step' = step, Wrote
    PROVE  Flow' /\ Rooms' /\ Vectors' /\ Here' = Here + 1
<1> DEFINE written == Writes(Head(code)[1], X)
<1>1. /\ step \in Procedures /\ Here \in 1 .. Final(step) /\ Final(step) \in Nat
      /\ Placed(step, Here, Head(code)[1], X, Y)
  BY Standing
<1>2. Flow' /\ Here' = Here + 1
  BY NextPlace
<1>3. \A n \in Names : n \notin written =>
          Room(step, Here + 1, n) = Room(step, Here, n) /\ First(step, n) # Here
  BY <1>1 DEF Placed
<1>4. /\ DOMAIN mem' = Names /\ bound' \in [Names -> Nat]
      /\ peak' \in Int /\ peak' < TooLarge
      /\ \A x \in Names : x \in written =>
            bound'[x] <= Room(step, Here + 1, x) /\ Fits(mem'[x], Size(x), bound'[x])
      /\ \A x \in Names : x \notin written => mem'[x] = mem[x] /\ bound'[x] = bound[x]
  BY DEF Wrote
<1> HIDE DEF written
<1>5. Vectors'
  <2>1. ASSUME NEW x \in Names, NEW n \in DOMAIN mem'[x]
        PROVE  Bounded(mem'[x][n], bound'[x])
    <3>1. CASE x \in written
      BY <1>4, <3>1 DEF Fits
    <3>2. CASE x \notin written
      BY <1>4, <3>2 DEF Vectors
    <3> QED BY <3>1, <3>2
  <2>2. (\A x \in Names : \A n \in DOMAIN mem[x] : Bounded(mem[x][n], bound[x]))'
    BY <2>1
  <2> QED BY <1>4, <2>2 DEF Vectors
<1>6. Rooms'
  <2>1. ASSUME NEW x \in Names, First(step, x) < Here + 1
        PROVE  bound'[x] <= Room(step, Here + 1, x) /\ DOMAIN mem'[x] = 1 .. Size(x)
    <3>1. CASE x \in written
      BY <1>4, <3>1 DEF Fits
    <3>2. CASE x \notin written
      <4>1. First(step, x) \in Nat
        BY <1>1, RoomNat
      <4>2. First(step, x) < Here
        BY <1>1, <1>3, <2>1, <3>2, <4>1
      <4>3. bound[x] <= Room(step, Here, x) /\ DOMAIN mem[x] = 1 .. Size(x)
        BY <3>2, <4>2, RoomLeft DEF written
      <4> QED BY <1>3, <1>4, <3>2, <4>3
    <3> QED BY <3>1, <3>2
  <2>2. \A x : RoomNow(x)' = Room(step', Here', x)
    BY DEF RoomNow
  <2>3. \A x \in Names : First(step', x) < Here' =>
            bound'[x] <= RoomNow(x)' /\ DOMAIN mem'[x] = 1 .. Size(x)
    BY <1>2, <2>1, <2>2
  <2> QED BY <2>3 DEF Rooms
<1> QED BY <1>2, <1>5, <1>6

(* Leave writes one vector. *)
LEMMA Left ==
    ASSUME Vectors, code # <<>>, NEW x \in Names, Writes(Head(code)[1], X) = {x},
           NEW val, NEW worst \in Nat, NEW top \in Int, worst < TooLarge, top < TooLarge,
           worst <= Room(step, Here + 1, x), Fits(val, Size(x), worst),
           Leave(x, val, worst, top)
    PROVE  Wrote
<1>1. DOMAIN mem = Names /\ bound \in [Names -> Nat] /\ peak \in Int /\ peak < TooLarge
  BY DEF Vectors
<1>2. /\ DOMAIN mem' = Names /\ bound' \in [Names -> Nat]
      /\ mem'[x] = val /\ bound'[x] = worst
      /\ \A n \in Names : n # x => mem'[n] = mem[n] /\ bound'[n] = bound[n]
  BY <1>1 DEF Leave
<1>3. peak' \in Int /\ peak' < TooLarge
  BY <1>1 DEF Leave, Larger
<1> QED BY <1>2, <1>3 DEF Wrote

(* Nothing is written. *)
LEMMA NoneWritten ==
    ASSUME Vectors, UNCHANGED <<mem, bound, peak>>, Writes(Head(code)[1], X) = {}
    PROVE  Wrote
BY DEF Vectors, Wrote

(* What a vector holds that a statement reads. *)
LEMMA Ready ==
    ASSUME Flow, Rooms, Vectors, code # <<>>, layer = 0,
           NEW x \in Names, First(step, x) < Here
    PROVE  /\ bound[x] \in Nat /\ bound[x] <= Room(step, Here, x)
           /\ Room(step, Here, x) \in Nat /\ Room(step, Here, x) <= Spread
           /\ Fits(mem[x], Size(x), bound[x])
<1>1. bound[x] <= Room(step, Here, x) /\ DOMAIN mem[x] = 1 .. Size(x)
  BY DEF Rooms, RoomNow
<1>2. bound[x] \in Nat /\ \A k \in DOMAIN mem[x] : Bounded(mem[x][k], bound[x])
  BY DEF Vectors
<1>3. Here \in Nat
  BY DEF Flow
<1>4. Room(step, Here, x) \in Nat /\ Room(step, Here, x) <= Spread
  BY <1>3, RoomNat
<1> QED BY <1>1, <1>2, <1>4 DEF Fits

(* No transform runs while another statement does. *)
LEMMA Still == ASSUME Flow, ~At("ntt"), ~At("invntt") PROVE layer = 0
BY DEF Flow

-----------------------------------------------------------------------------
(* What a statement does not touch stays as it should be. *)

(* A procedure returns with its last statement, and not before. *)
LEMMA NotOver ==
    ASSUME Flow, code # <<>>, Head(code)[1] \notin Endings
    PROVE  Tail(code) # <<>>
<1>1. /\ Here \in 1 .. Final(step) /\ Final(step) \in Nat
      /\ Here < Final(step) => Tail(code) # <<>>
      /\ Placed(step, Here, Head(code)[1], X, Y)
  BY Standing
<1>2. Here # Final(step)
  BY <1>1 DEF Placed
<1> QED BY <1>1, <1>2

(* What has been returned stays as it is until a procedure returns. *)
LEMMA BytesKept ==
    ASSUME Flow, Bytes, code # <<>>, UNCHANGED <<step, pk, sk, sig, got>>,
           ret' = ret \/ step = "verify",
           step = "keypair" => code' # <<>>
    PROVE  Bytes'
BY DEF Bytes

LEMMA CanonKept ==
    ASSUME Flow, code # <<>>, Head(code)[1] # "caddq", code' = Tail(code),
           step' = step, Here' = Here + 1
    PROVE  Canon'
<1>1. Placed(step, Here, Head(code)[1], X, Y) /\ step \in Procedures
  BY Standing
<1>2. Here + 1 # RoundAt(step)
  BY <1>1 DEF Placed
<1> QED BY <1>2 DEF Canon

LEMMA MatricesKept ==
    ASSUME Flow, Matrices, SampleInv, code # <<>>, ~Drawing, code' = Tail(code),
           step' = step, Here' = Here + 1, UNCHANGED <<mat, sample>>
    PROVE  Matrices'
<1>1. /\ Placed(step, Here, Head(code)[1], X, Y) /\ step \in Procedures
      /\ Here \in Nat
  BY Standing
<1>2. sample' = NoSample
  BY DEF SampleInv
<1>3. sample'.done = <<>>
  BY <1>2 DEF NoSample
<1>4. Here # GenAt(step) /\ GenAt(step) \in Nat
  BY <1>1 DEF Placed, Drawing, At, GenAt
<1>5. sample'.done \in Seq(Uniform) /\ sample'.done \in Seq(Noise)
      /\ Len(sample'.done) = 0
  BY <1>3
<1>6. 0 < K * L /\ \A x : 0 < Size(x)
  BY DEF K, L, Size
<1>7. (code # <<>> /\ GenAt(step) < Here => mat \in Seq(Uniform) /\ Len(mat) = K * L)'
  BY <1>1, <1>4 DEF Matrices
<1>8. (At("gen_a") => sample.done \in Seq(Uniform) /\ Len(sample.done) < K * L)'
  BY <1>5, <1>6
<1>9. (At("eta") => sample.done \in Seq(Noise) /\ Len(sample.done) < Size(X))'
  BY <1>5, <1>6
<1> QED BY <1>7, <1>8, <1>9 DEF Matrices

LEMMA BallKept ==
    ASSUME Flow, BallInv, code # <<>>, Head(code)[1] # "challenge", code' = Tail(code),
           step' = step, layer' = 0, Here' = Here + 1, ball' = ball, Wrote
    PROVE  BallInv'
<1>1. /\ Placed(step, Here, Head(code)[1], X, Y) /\ step \in Procedures
      /\ Here \in Nat
  BY Standing
<1>2. ball.i = 0
  BY DEF BallInv, At
<1>3. /\ Here # BallAt(step)
      /\ "cp" \in Writes(Head(code)[1], X) => Here = CpAt(step)
  BY <1>1 DEF Placed
<1>4. BallAt(step) \in Nat /\ CpAt(step) \in Nat /\ "cp" \in Names
  BY DEF BallAt, CpAt, Names
<1>5. (code # <<>> /\ BallAt(step) < Here /\ Here <= CpAt(step)
          /\ (Here = CpAt(step) => layer = 0) => InBall(mem["cp"][1], TAU))'
  <2> SUFFICES ASSUME BallAt(step) < Here + 1, Here + 1 <= CpAt(step)
               PROVE  InBall(mem'["cp"][1], TAU)
    OBVIOUS
  <2>1. BallAt(step) < Here /\ Here < CpAt(step)
    BY <1>1, <1>3, <1>4
  <2>2. InBall(mem["cp"][1], TAU)
    BY <1>1, <1>4, <2>1 DEF BallInv
  <2>3. mem'["cp"] = mem["cp"]
    BY <1>3, <1>4, <2>1 DEF Wrote
  <2> QED BY <2>2, <2>3
<1> QED BY <1>2, <1>5 DEF BallInv

(* A statement that is done keeps the invariant, if its vectors fit. *)
LEMMA Advances ==
    ASSUME DsaInv, SampleInv, code # <<>>,
           Head(code)[1] \notin Endings \cup {"gen_a", "eta", "challenge", "caddq"},
           code' = Tail(code), layer' = 0, Wrote,
           UNCHANGED <<step, mat, sample, ball, pk, sk, sig, got, ret>>
    PROVE  DsaInv'
<1>1. Flow /\ Rooms /\ Vectors /\ Canon /\ Matrices /\ BallInv /\ Bytes
  BY DEF DsaInv
<1>2. Flow' /\ Rooms' /\ Vectors' /\ Here' = Here + 1
  BY <1>1, Written
<1>3. Canon'
  BY <1>1, <1>2, CanonKept
<1>4. Matrices'
  BY <1>1, <1>2, MatricesKept DEF Drawing, At
<1>5. BallInv'
  BY <1>1, <1>2, BallKept
<1>6. Bytes'
  BY <1>1, NotOver, BytesKept
<1> QED BY <1>2, <1>3, <1>4, <1>5, <1>6 DEF DsaInv

-----------------------------------------------------------------------------
(* The worst case of what a statement leaves, a polynomial each. *)

LEMMA Sizes ==
    /\ Small = 524288 /\ Scaled = 4214753 /\ Full = 8380416 /\ Product = 21400000
    /\ Spread = 42400000 /\ Reduced = 6283009 /\ TooLarge = 2147483647
    /\ GAMMA1 = 524288 /\ GAMMA2 = 261888 /\ Q = 8380417 /\ ZetaBound = 4190208
BY SMT DEF Small, Scaled, Full, Product, Spread, Reduced, TooLarge, GAMMA1, GAMMA2, Q,
       ZetaBound

(* So that no interval becomes one of literals. *)
LEMMA QIs == Q \in Int /\ 8380417 <= Q /\ Q <= 8380417
BY SMT DEF Q

LEMMA Powers == 2^(D - 1) = 4096 /\ 2^D = 8192
<1>1. 2^12 = 4096 /\ 2^13 = 8192
  BY SMT
<1> QED BY <1>1, SMT DEF D

LEMMA PolyReduceWorst ==
    ASSUME NEW r, NEW b \in Nat, b <= Spread, Bounded(r, b)
    PROVE  Bounded(PolyReduce(r), Reduced)
<1> SUFFICES ASSUME NEW j \in Coeffs PROVE Within(PolyReduce(r)[j], Reduced)
  BY DEF Bounded
<1>1. r[j] \in Int /\ -2147483648 <= r[j] /\ r[j] <= 2143289343
  BY Sizes, SMT DEF Bounded, Within
<1>2. Within(Reduce32(r[j]), Reduced)
  BY <1>1, Reduce32Range
<1> QED BY <1>2 DEF PolyReduce

LEMMA PolyAddWorst ==
    ASSUME NEW r, NEW s, NEW a \in Nat, NEW b \in Nat, Bounded(r, a), Bounded(s, b)
    PROVE  Bounded(PolyAdd(r, s), a + b) /\ Bounded(PolySub(r, s), a + b)
BY DEF Bounded, Within, PolyAdd, PolySub

LEMMA PolyPointwiseWorst ==
    ASSUME NEW r, NEW s, NEW a \in Nat, NEW b \in Nat, Bounded(r, a), Bounded(s, b)
    PROVE  Bounded(PolyPointwise(r, s), FqmulBound(a, b))
<1> SUFFICES ASSUME NEW j \in Coeffs
             PROVE  Within(PolyPointwise(r, s)[j], FqmulBound(a, b))
  BY DEF Bounded
<1>1. Within(r[j], a) /\ Within(s[j], b)
  BY DEF Bounded
<1>2. Within(Fqmul(r[j], s[j]), FqmulBound(a, b))
  BY <1>1, FqmulWithin
<1> QED BY <1>2 DEF PolyPointwise

LEMMA ScaleWorst ==
    ASSUME NEW r, NEW b \in Nat, Bounded(r, b)
    PROVE  Bounded(Scale(r), FqmulBound(41978, b))
<1> SUFFICES ASSUME NEW j \in Coeffs PROVE Within(Scale(r)[j], FqmulBound(41978, b))
  BY DEF Bounded
<1>1. Within(r[j], b)
  BY DEF Bounded
<1>2. PICK p \in Int : p = 41978 /\ 0 <= p
  BY SMT
<1>3. Within(p, p)
  BY <1>2 DEF Within
<1>4. Within(Fqmul(p, r[j]), FqmulBound(p, b))
  BY <1>1, <1>2, <1>3, FqmulWithin
<1>5. Within(Fqmul(r[j], p), FqmulBound(b, p))
  BY <1>1, <1>2, <1>3, FqmulWithin
<1>6. FqmulBound(b, p) = FqmulBound(p, b)
  <2>1. PICK B \in Int, P \in Int : B = b \div 65536 + 1 /\ P = p \div 65536 + 1
    BY SMT
  <2>2. B * P = P * B
    BY <2>1, SMT
  <2> QED BY <2>1, <2>2 DEF FqmulBound
<1> QED BY <1>2, <1>5, <1>6 DEF Scale

LEMMA PolyShiftlWorst ==
    ASSUME NEW r, NEW b \in Nat, Bounded(r, b)
    PROVE  Bounded(PolyShiftl(r), b * 2^D) /\ b * 2^D \in Nat
BY Powers, SMT DEF Bounded, Within, PolyShiftl

LEMMA PolyCaddqWorst ==
    ASSUME NEW r, NEW b \in Nat, b <= Full, Bounded(r, b)
    PROVE  /\ Bounded(PolyCaddq(r), Larger(b, Q - 1))
           /\ \A j \in Coeffs : PolyCaddq(r)[j] \in 0 .. Q - 1
<1>0. Q \in Int /\ b <= Q - 1
  BY QIs, SMT DEF Full
<1>1. ASSUME NEW j \in Coeffs
      PROVE  /\ PolyCaddq(r)[j] \in Int /\ 0 <= PolyCaddq(r)[j]
             /\ PolyCaddq(r)[j] <= Q - 1
  <2>1. r[j] \in Int /\ -b <= r[j] /\ r[j] <= b
    BY DEF Bounded, Within
  <2>2. PolyCaddq(r)[j] = Caddq(r[j])
    BY DEF PolyCaddq
  <2> QED BY <1>0, <2>1, <2>2 DEF Caddq
<1>2. Larger(b, Q - 1) = Q - 1
  <2>1. ~(b > Q - 1)
    BY <1>0
  <2> QED BY <2>1, Zenon DEF Larger
<1> QED BY <1>0, <1>1, <1>2 DEF Bounded, Within

(* The norm bounds what passes the check. *)
LEMMA NormWorst ==
    ASSUME NEW r, NEW b \in Nat, Bounded(r, b), NEW B \in Nat \ {0}, ~PolyChknorm(r, B)
    PROVE  Bounded(r, B - 1)
BY DEF Bounded, Within, PolyChknorm

-----------------------------------------------------------------------------
(* The worst cases of the products, as numbers. *)
LEMMA ProductsFit ==
    ASSUME NEW a \in Nat, NEW b \in Nat, a <= Spread, b <= Spread
    PROVE  /\ FqmulBound(a, b) \in Nat /\ FqmulBound(a, b) <= Reduced
           /\ FqmulBound(b, ZetaBound) \in Nat /\ FqmulBound(b, ZetaBound) <= 4231745
           /\ FqmulBound(Q - 1, b) \in Nat /\ L * FqmulBound(Q - 1, b) <= Product
           /\ L * FqmulBound(Q - 1, b) \in Nat
<1>1. PICK A \in Nat, B \in Nat : /\ A = a \div 65536 + 1 /\ B = b \div 65536 + 1
                                  /\ A <= 647 /\ B <= 647
  BY Sizes, SMT
<1>2. A * B \in Nat /\ A * B <= 647 * 647
  BY <1>1, SMT
<1>3. PICK M \in Nat : M = A * B /\ M <= 418609
  BY <1>2, SMT
<1>4. FqmulBound(a, b) = M + 4190209
  BY <1>1, <1>3, SMT DEF FqmulBound, Q
<1>5. FqmulBound(b, ZetaBound) = B * 64 + 4190209
  BY <1>1, SMT DEF FqmulBound, Q, ZetaBound
<1>6. FqmulBound(Q - 1, b) = 128 * B + 4190209
  BY <1>1, SMT DEF FqmulBound, Q
<1> QED BY <1>1, <1>3, <1>4, <1>5, <1>6, Sizes, SMT DEF L

(* The sum of the products grows by one of them a turn. *)
LEMMA AccWorst ==
    ASSUME NEW u, NEW v, NEW a \in Nat, NEW b \in Nat,
           \A i \in 1 .. L : Bounded(u[i], a) /\ Bounded(v[i], b)
    PROVE  Bounded(PointwiseAcc(u, v), L * FqmulBound(a, b))
<1> DEFINE f == FqmulBound(a, b)
           t(i) == Once(PolyPointwise(u[i], v[i]))
           Step(h, i) == IF i = 1 THEN t(1) ELSE Once(PolyAdd(h, t(i)))
           Eq(g) == g = [i \in 1 .. L |-> IF i = 1 THEN t(1)
                                          ELSE Once(PolyAdd(g[i - 1], t(i)))]
           sum == CHOOSE g : Eq(g)
           s1 == t(1)
           s2 == Once(PolyAdd(s1, t(2)))
           s3 == Once(PolyAdd(s2, t(3)))
           s4 == Once(PolyAdd(s3, t(4)))
           s5 == Once(PolyAdd(s4, t(5)))
           w == [i \in 1 .. L |-> IF i = 1 THEN s1 ELSE IF i = 2 THEN s2
                                  ELSE IF i = 3 THEN s3 ELSE IF i = 4 THEN s4 ELSE s5]
<1>0. \A e : Once(e) = e
  BY DEF Once
<1>1. f \in Nat
  BY BoundNat
<1>2. \A i \in 1 .. L : Bounded(t(i), f)
  <2> SUFFICES ASSUME NEW i \in 1 .. L PROVE Bounded(t(i), f)
    OBVIOUS
  <2>1. Bounded(u[i], a) /\ Bounded(v[i], b)
    OBVIOUS
  <2>2. Bounded(PolyPointwise(u[i], v[i]), f)
    BY <2>1, PolyPointwiseWorst
  <2> QED BY <1>0, <2>2
<1>3. PointwiseAcc(u, v) = sum[L]
  BY Zenon DEF PointwiseAcc
<1>4. L = 5
  BY DEF L
<1>5. Eq(w)
  <2> HIDE DEF t
  <2>1. \A i \in 1 .. 5 : w[i] = IF i = 1 THEN t(1) ELSE Once(PolyAdd(w[i - 1], t(i)))
    <3>1. w[1] = s1 /\ w[2] = s2 /\ w[3] = s3 /\ w[4] = s4 /\ w[5] = s5
      BY <1>4
    <3> HIDE DEF w
    <3> QED BY <3>1
  <2> QED BY <1>4, <2>1
<1>6. Eq(sum)
  <2> HIDE DEF Eq
  <2> QED BY <1>5
<1> HIDE DEF sum, w, f, t
<1>7. /\ sum[1] = t(1)
      /\ sum[2] = Once(PolyAdd(sum[1], t(2)))
      /\ sum[3] = Once(PolyAdd(sum[2], t(3)))
      /\ sum[4] = Once(PolyAdd(sum[3], t(4)))
      /\ sum[5] = Once(PolyAdd(sum[4], t(5)))
  <2>1. \A i \in 1 .. 5 : sum[i] = IF i = 1 THEN t(1) ELSE Once(PolyAdd(sum[i - 1], t(i)))
    BY <1>4, <1>6
  <2> QED BY <2>1
<1>8. Bounded(sum[1], f)
  BY <1>2, <1>4, <1>7
<1>9. Bounded(sum[2], f + f)
  BY <1>0, <1>1, <1>2, <1>4, <1>7, <1>8, PolyAddWorst
<1>10. Bounded(sum[3], f + f + f)
  BY <1>0, <1>1, <1>2, <1>4, <1>7, <1>9, PolyAddWorst
<1>11. Bounded(sum[4], f + f + f + f)
  BY <1>0, <1>1, <1>2, <1>4, <1>7, <1>10, PolyAddWorst
<1>12. Bounded(sum[5], f + f + f + f + f)
  BY <1>0, <1>1, <1>2, <1>4, <1>7, <1>11, PolyAddWorst
<1>13. f + f + f + f + f = 5 * f
  BY <1>1
<1> QED BY <1>3, <1>4, <1>12, <1>13 DEF f

-----------------------------------------------------------------------------
(* The worst cases of what is unpacked. *)

LEMMA ShiftPositive == \A e \in 0 .. 7 : 2^e \in Int /\ 2^e > 0
<1>1. 2^0 = 1 /\ 2^1 = 2 /\ 2^2 = 4 /\ 2^3 = 8 /\ 2^4 = 16 /\ 2^5 = 32 /\ 2^6 = 64
      /\ 2^7 = 128
  BY SMT
<1> SUFFICES ASSUME NEW e \in 0 .. 7 PROVE 2^e \in Int /\ 2^e > 0
  OBVIOUS
<1>2. CASE e = 0
  BY <1>1, <1>2
<1>3. CASE e = 1
  BY <1>1, <1>3
<1>4. CASE e = 2
  BY <1>1, <1>4
<1>5. CASE e = 3
  BY <1>1, <1>5
<1>6. CASE e = 4
  BY <1>1, <1>6
<1>7. CASE e = 5
  BY <1>1, <1>7
<1>8. CASE e = 6
  BY <1>1, <1>8
<1>9. CASE e = 7
  BY <1>1, <1>9
<1> QED BY <1>2, <1>3, <1>4, <1>5, <1>6, <1>7, <1>8, <1>9

(* d bits of a number. *)
Cut(x, e, d) == (x \div 2^e) % 2^d

LEMMA CutWithin ==
    ASSUME NEW x \in Int, NEW e \in 0 .. 7, NEW d \in {4, 10, 13, 20}
    PROVE  Cut(x, e, d) \in Int /\ 0 <= Cut(x, e, d) /\ Cut(x, e, d) < 2^d
<1>1. PICK m \in Int : m = 2^e /\ m > 0
  BY ShiftPositive
<1>2. PICK y \in Int : y = x \div m
  BY <1>1
<1>3. Cut(x, e, d) = y % 2^d
  BY <1>1, <1>2 DEF Cut
<1>4. 2^4 = 16 /\ 2^10 = 1024 /\ 2^13 = 8192 /\ 2^20 = 1048576
  BY SMT
<1>5. CASE d = 4
  <2>1. Cut(x, e, d) = y % 16 /\ 2^d = 16
    BY <1>3, <1>4, <1>5
  <2> QED BY <2>1, SMT
<1>6. CASE d = 10
  <2>1. Cut(x, e, d) = y % 1024 /\ 2^d = 1024
    BY <1>3, <1>4, <1>6, SMT
  <2> QED BY <2>1, SMT
<1>7. CASE d = 13
  <2>1. Cut(x, e, d) = y % 8192 /\ 2^d = 8192
    BY <1>3, <1>4, <1>7, SMT
  <2> QED BY <2>1, SMT
<1>8. CASE d = 20
  <2>1. Cut(x, e, d) = y % 1048576 /\ 2^d = 1048576
    BY <1>3, <1>4, <1>8, SMT
  <2> QED BY <2>1, SMT
<1> QED BY <1>5, <1>6, <1>7, <1>8

(* len polynomials of numbers below m. *)
Unpacked(v, len, m) ==
    /\ DOMAIN v = 1 .. len
    /\ \A i \in 1 .. len : \A j \in Coeffs : v[i][j] \in Int /\ 0 <= v[i][j] /\ v[i][j] < m

LEMMA UnpackWithin ==
    ASSUME NEW d \in {4, 10, 13, 20}, NEW len \in Nat, NEW a, NEW z \in Nat,
           z = 32 * d * len, Ints(a, z)
    PROVE  Unpacked(UnpackAll(d, len, a), len, 2^d)
<1>1. DOMAIN UnpackAll(d, len, a) = 1 .. len
  BY DEF UnpackAll
<1> SUFFICES ASSUME NEW i \in 1 .. len, NEW j \in Coeffs
             PROVE  LET c == UnpackAll(d, len, a)[i][j] IN c \in Int /\ 0 <= c /\ c < 2^d
  BY <1>1 DEF Unpacked
<1> DEFINE p == [n \in 0 .. 32 * d - 1 |-> a[32 * d * (i - 1) + n]]
           byte(k) == IF k \in DOMAIN p THEN p[k] ELSE 0
           n == (d * j) \div 8
           x == byte(n) + byte(n + 1) * 256 + byte(n + 2) * 65536
<1>2. UnpackAll(d, len, a)[i] = Unpack(d, p)
  BY Zenon DEF UnpackAll
<1>3. \A k : byte(k) \in Int
  <2>0. DOMAIN p = 0 .. 32 * d - 1 /\ \A k \in 0 .. 32 * d - 1 : p[k] = a[32 * d * (i - 1) + k]
    BY Zenon
  <2> HIDE DEF p
  <2>1. ASSUME NEW k \in 0 .. 32 * d - 1 PROVE p[k] \in Int
    <3>1. PICK m \in Nat : m = 32 * d /\ m > 0
      OBVIOUS
    <3>2. m * (i - 1) + k \in Nat /\ m * (i - 1) + k < m * len
      <4>1. PICK g \in Nat : g = len - i
        OBVIOUS
      <4>2. m * len = m * (i - 1) + m * g + m /\ m * g >= 0 /\ m * (i - 1) >= 0
        BY <3>1, <4>1
      <4>3. k < m
        BY <3>1
      <4>4. PICK y \in Int, q \in Int : y = m * (i - 1) /\ q = m * g
        BY <3>1, <4>1
      <4> QED BY <4>2, <4>3, <4>4
    <3>3. m * len = z
      BY <3>1
    <3> QED BY <2>0, <3>1, <3>2, <3>3 DEF Ints
  <2> QED BY <2>0, <2>1
<1> HIDE DEF p
<1>4. Unpack(d, p)[j] = Cut(x, (d * j) % 8, d)
  BY SMT DEF Unpack, Cut
<1> HIDE DEF byte
<1>5. x \in Int
  BY <1>3
<1>6. (d * j) % 8 \in 0 .. 7
  <2>1. d * j \in Int
    BY DEF Coeffs
  <2>2. PICK bit \in Int : bit = d * j
    BY <2>1
  <2> QED BY <2>2, SMT
<1>7. PICK y \in Int, e \in 0 .. 7 : y = x /\ e = (d * j) % 8
  BY <1>5, <1>6
<1>8. Cut(y, e, d) \in Int /\ 0 <= Cut(y, e, d) /\ Cut(y, e, d) < 2^d
  BY CutWithin
<1> HIDE DEF x
<1>9. UnpackAll(d, len, a)[i][j] = Cut(y, e, d)
  BY <1>2, <1>4, <1>7, Zenon
<1> QED BY <1>8, <1>9

(* Flipped, they are within the larger of top and what lies below. *)
LEMMA FlipWithin ==
    ASSUME NEW v, NEW len \in Nat, NEW top \in Nat, NEW m \in Nat, NEW b \in Nat,
           top <= b, m <= b + top + 1, Unpacked(v, len, m)
    PROVE  Fits(Flip(top, v), len, b)
<1>1. DOMAIN Flip(top, v) = 1 .. len
  BY DEF Flip, Unpacked
<1>2. \A i \in 1 .. len : \A j \in Coeffs : Flip(top, v)[i][j] = top - v[i][j]
  BY DEF Flip, Unpacked
<1>3. ASSUME NEW i \in 1 .. len, NEW j \in Coeffs
      PROVE  Within(Flip(top, v)[i][j], b)
  <2>1. PICK c \in Int : c = v[i][j] /\ 0 <= c /\ c < m
    BY DEF Unpacked
  <2>2. Flip(top, v)[i][j] = top - c
    BY <1>2, <2>1
  <2> QED BY <2>1, <2>2 DEF Within
<1> QED BY <1>1, <1>3 DEF Fits, Bounded

LEMMA UnpackEtaFits ==
    ASSUME NEW n \in Nat, NEW a, Ints(a, 128 * n)
    PROVE  Fits(UnpackEta(n, a), n, 11)
<1>1. PICK d \in {4, 10, 13, 20}, len \in Nat, z \in Nat :
          d = 4 /\ len = n /\ z = 32 * d * len /\ z = 128 * n
  BY DEF K
<1>2. Ints(a, z)
  BY <1>1
<1>3. PICK v : v = UnpackAll(d, len, a)
  OBVIOUS
<1>4. PICK m \in Nat : m = 2^d /\ m = 16
  <2>1. 2^4 = 16
    BY SMT
  <2> QED BY <1>1, <2>1, SMT
<1>5. Unpacked(v, len, m)
  BY <1>1, <1>2, <1>3, <1>4, UnpackWithin
<1>6. PICK top \in Nat, b \in Nat : top = ETA /\ b = 11 /\ top <= b /\ m <= b + top + 1
  BY <1>4, SMT DEF ETA
<1>7. Fits(Flip(top, v), len, b)
  BY <1>5, <1>6, FlipWithin
<1> QED BY <1>1, <1>3, <1>6, <1>7, SMT DEF UnpackEta

LEMMA UnpackT1Fits ==
    ASSUME NEW a, Ints(a, 320 * K)
    PROVE  Fits(UnpackT1(a), K, 1023)
<1>1. PICK d \in {4, 10, 13, 20}, len \in Nat, z \in Nat :
          d = 10 /\ len = K /\ z = 32 * d * len /\ z = 320 * K
  BY DEF K
<1>2. Ints(a, z)
  BY <1>1
<1>3. PICK v : v = UnpackAll(d, len, a)
  OBVIOUS
<1>4. PICK m \in Nat : m = 2^d /\ m = 1024
  <2>1. 2^10 = 1024
    BY SMT
  <2> QED BY <1>1, <2>1, SMT
<1>5. Unpacked(v, len, m)
  BY <1>1, <1>2, <1>3, <1>4, UnpackWithin
<1>6. Fits(v, len, 1023)
  BY <1>4, <1>5, SMT DEF Fits, Bounded, Within, Unpacked
<1> QED BY <1>1, <1>3, <1>6, SMT DEF UnpackT1

LEMMA UnpackT0Fits ==
    ASSUME NEW a, Ints(a, 416 * K)
    PROVE  Fits(UnpackT0(a), K, 2^(D - 1))
<1>1. PICK d \in {4, 10, 13, 20}, len \in Nat, z \in Nat :
          d = 13 /\ len = K /\ z = 32 * d * len /\ z = 416 * K
  BY DEF K
<1>2. Ints(a, z)
  BY <1>1
<1>3. PICK v : v = UnpackAll(d, len, a)
  OBVIOUS
<1>4. PICK m \in Nat : m = 2^d /\ m = 8192
  <2>1. 2^13 = 8192
    BY SMT
  <2> QED BY <1>1, <2>1, SMT
<1>5. Unpacked(v, len, m)
  BY <1>1, <1>2, <1>3, <1>4, UnpackWithin
<1>6. PICK top \in Nat, b \in Nat : top = 2^(D - 1) /\ b = 2^(D - 1) /\ top <= b /\ m <= b + top + 1
  BY <1>4, Powers, SMT
<1>7. Fits(Flip(top, v), len, b)
  BY <1>5, <1>6, FlipWithin
<1> QED BY <1>1, <1>3, <1>6, <1>7, SMT DEF UnpackT0

LEMMA UnpackZFits ==
    ASSUME NEW n \in Nat, NEW a, Ints(a, 640 * n)
    PROVE  Fits(UnpackZ(n, a), n, GAMMA1)
<1>1. PICK d \in {4, 10, 13, 20}, len \in Nat, z \in Nat :
          d = 20 /\ len = n /\ z = 32 * d * len /\ z = 640 * n
  BY DEF K
<1>2. Ints(a, z)
  BY <1>1
<1>3. PICK v : v = UnpackAll(d, len, a)
  OBVIOUS
<1>4. PICK m \in Nat : m = 2^d /\ m = 1048576
  <2>1. 2^20 = 1048576
    BY SMT
  <2> QED BY <1>1, <2>1, SMT
<1>5. Unpacked(v, len, m)
  BY <1>1, <1>2, <1>3, <1>4, UnpackWithin
<1>6. PICK top \in Nat, b \in Nat : top = GAMMA1 /\ b = GAMMA1 /\ top <= b /\ m <= b + top + 1
  BY <1>4, Sizes, SMT
<1>7. Fits(Flip(top, v), len, b)
  BY <1>5, <1>6, FlipWithin
<1> QED BY <1>1, <1>3, <1>6, <1>7, SMT DEF UnpackZ

-----------------------------------------------------------------------------
(* The worst cases of what is rounded. *)
LEMMA Gamma2Is == GAMMA2 \in Int /\ 261888 <= GAMMA2 /\ GAMMA2 <= 261888
BY SMT DEF GAMMA2, Q

LEMMA DecomposeFits ==
    ASSUME NEW a \in 0 .. Q - 1
    PROVE  Within(Decompose(a).high, 15) /\ Within(Decompose(a).low, GAMMA2)
           /\ Decompose(a).high \in 0 .. 15
<1>1. a \in Int /\ 0 <= a /\ a < 8380417
  <2>1. a \in Int /\ 0 <= a /\ a < Q
    BY QIs, BelowNext
  <2> QED BY <2>1, QIs, SMT
<1>2. PICK k \in Int, d \in Int : Near(a, k, d)
  BY <1>1, NearSome
<1>3. /\ Decompose(a).high = IF k = 16 THEN 0 ELSE k
      /\ Decompose(a).low  = IF k = 16 THEN d - 1 ELSE d
  BY <1>1, <1>2, DecomposeAt
<1> QED BY <1>1, <1>2, <1>3, Gamma2Is, SMT DEF Near, Within

LEMMA RoundFits ==
    ASSUME NEW a \in 0 .. Q - 1
    PROVE  Within(Power2Round(a).high, 1023) /\ Within(Power2Round(a).low, 2^(D - 1))
<1>1. a \in Int /\ 0 <= a /\ a < Q
  BY QIs, BelowNext
<1>2. /\ a = 8192 * Power2Round(a).high + Power2Round(a).low
      /\ 0 <= Power2Round(a).high /\ Power2Round(a).high <= 1023
      /\ -4096 < Power2Round(a).low /\ Power2Round(a).low <= 4096
  BY <1>1, Power2RoundFits
<1>3. PICK h \in Int : h = (a + 4095) \div 8192
  BY <1>1, SMT
<1>4. Power2Round(a).high = h /\ Power2Round(a).low = a - h * 8192
  BY <1>1, <1>3, Powers, SMT DEF Power2Round
<1> QED BY <1>1, <1>2, <1>3, <1>4, Powers, SMT DEF Within

LEMMA UseHintFits ==
    ASSUME NEW a \in 0 .. Q - 1, NEW h
    PROVE  Within(UseHint(a, h), 15)
<1>1. PICK k \in 0 .. 15 : k = Decompose(a).high
  BY DecomposeFits
<1>2. (k + 1) % 16 \in 0 .. 15 /\ (k - 1) % 16 \in 0 .. 15
  BY SMT
<1>3. UseHint(a, h) \in {k, (k + 1) % 16, (k - 1) % 16}
  BY <1>1 DEF UseHint
<1>4. UseHint(a, h) \in 0 .. 15
  BY <1>2, <1>3
<1> QED BY <1>4, SMT DEF Within

LEMMA HintsFit == Fits(Hints, K, 1)
<1>1. \A a, b : Within(MakeHint(a, b), 1)
  BY SMT DEF MakeHint, Within
<1>2. DOMAIN Hints = 1 .. K
  BY DEF Hints
<1>3. \A i \in 1 .. K : \A j \in Coeffs :
          Hints[i][j] = MakeHint(mem["w0"][i][j], mem["w1"][i][j])
  BY DEF Hints
<1> QED BY <1>1, <1>2, <1>3 DEF Fits, Bounded

-----------------------------------------------------------------------------
(* The bytes of what is packed are numbers. *)

LEMMA PackInts ==
    ASSUME NEW d \in {4, 10, 13, 20}, NEW t, \A j \in Coeffs : t[j] \in Int,
           NEW m \in 0 .. 32 * d - 1
    PROVE  Pack(d, t)[m] \in Int
<1> DEFINE i == (8 * m) \div d
           o == (8 * m) % d
<1>1. i \in Coeffs /\ o \in 0 .. d - 1 /\ (o + 8 > d => i + 1 \in Coeffs)
  <2>1. Coeffs = 0 .. 255
    BY DEF Coeffs, N
  <2>2. CASE d = 4
    BY <2>1, <2>2
  <2>3. CASE d = 10
    BY <2>1, <2>3
  <2>4. CASE d = 13
    BY <2>1, <2>4
  <2>5. CASE d = 20
    BY <2>1, <2>5
  <2> QED BY <2>2, <2>3, <2>4, <2>5
<1>2. Pack(d, t)[m] = IF o + 8 <= d THEN (t[i] \div 2^o) % 256
                      ELSE (t[i] \div 2^o + t[i + 1] * 2^(d - o)) % 256
  BY DEF Pack
<1> HIDE DEF i, o
<1>3. CASE o + 8 <= d
  <2>1. PICK x \in Int : x = t[i]
    BY <1>1
  <2>2. (x \div 2^o) % 256 \in Int
    BY <1>1, SMT
  <2> QED BY <1>2, <1>3, <2>1, <2>2
<1>4. CASE o + 8 > d
  <2>1. PICK x \in Int, y \in Int, p \in Int : x = t[i] /\ y = t[i + 1] /\ p = 2^(d - o)
    BY <1>1, <1>4, SMT
  <2>2. (x \div 2^o + y * p) % 256 \in Int
    BY <1>1, SMT
  <2>3. ~(o + 8 <= d)
    BY <1>1, <1>4
  <2> QED BY <1>2, <2>1, <2>2, <2>3
<1> QED BY <1>1, <1>3, <1>4

LEMMA PackAllInts ==
    ASSUME NEW d \in {4, 10, 13, 20}, NEW n \in Nat, NEW v, DOMAIN v = 1 .. n,
           \A i \in 1 .. n : \A j \in Coeffs : v[i][j] \in Int, NEW z \in Nat, z = 32 * d * n
    PROVE  Ints(PackAll(d, v), z) /\ DOMAIN PackAll(d, v) = 0 .. z - 1
<1> DEFINE p == [i \in DOMAIN v |-> Pack(d, v[i])]
<1>1. Len(v) = n
  OBVIOUS
<1>2. Once(p) = p
  BY DEF Once
<1>3. PackAll(d, v) = [k \in 0 .. 32 * d * Len(v) - 1 |-> Once(p)[k \div (32 * d) + 1][k % (32 * d)]]
  BY Zenon DEF PackAll
<1> HIDE DEF p
<1>4. PICK w \in Nat : w = 32 * d /\ w > 0
  OBVIOUS
<1>5. z = w * n /\ PackAll(d, v) = [k \in 0 .. z - 1 |-> p[k \div w + 1][k % w]]
  BY <1>1, <1>2, <1>3, <1>4
<1>6. ASSUME NEW k \in 0 .. z - 1 PROVE p[k \div w + 1][k % w] \in Int
  <2>1. PICK i \in Int, m \in Int : i = k \div w /\ m = k % w
    BY <1>4
  <2>2. 0 <= m /\ m < w /\ k = w * i + m /\ 0 <= i
    BY <1>4, <2>1
  <2>3. i < n
    <3>1. w * i + m < w * n /\ k < z
      BY <1>5, <2>2
    <3>2. ASSUME i >= n PROVE FALSE
      <4>1. i - n \in Nat
        BY <2>1, <3>2
      <4>2. PICK g \in Nat : g = i - n
        BY <4>1
      <4>3. w * i = w * n + w * g /\ w * g >= 0
        BY <1>4, <4>2
      <4>4. PICK x \in Int, y \in Int, u \in Int : x = w * i /\ y = w * n /\ u = w * g
        BY <1>4, <2>1, <4>2
      <4> QED BY <2>1, <2>2, <3>1, <4>3, <4>4
    <3> QED BY <2>1, <3>2
  <2>4. i + 1 \in 1 .. n /\ m \in 0 .. 32 * d - 1
    BY <1>4, <2>1, <2>2, <2>3
  <2>5. p[i + 1] = Pack(d, v[i + 1])
    BY <2>4 DEF p
  <2>6. Pack(d, v[i + 1])[m] \in Int
    BY <2>4, PackInts
  <2> QED BY <2>1, <2>5, <2>6
<1> QED BY <1>5, <1>6 DEF Ints

(* A vector whose coefficients are numbers, packed as it is or from top down. *)
LEMMA PackedInts ==
    ASSUME NEW d \in {4, 10, 13, 20}, NEW n \in Nat, NEW v, NEW b, Fits(v, n, b),
           NEW top \in Int, NEW z \in Nat, z = 32 * d * n
    PROVE  /\ Ints(PackAll(d, v), z)
           /\ Ints(PackAll(d, Flip(top, v)), z)
           /\ DOMAIN PackAll(d, Flip(top, v)) = 0 .. z - 1
<1>1. DOMAIN v = 1 .. n /\ \A i \in 1 .. n : \A j \in Coeffs : v[i][j] \in Int
  BY DEF Fits, Bounded, Within
<1>2. PICK f : f = Flip(top, v)
  OBVIOUS
<1>3. DOMAIN f = 1 .. n /\ \A i \in 1 .. n : \A j \in Coeffs : f[i][j] \in Int
  BY <1>1, <1>2 DEF Flip
<1>4. Ints(PackAll(d, f), z) /\ DOMAIN PackAll(d, f) = 0 .. z - 1
  BY <1>3, PackAllInts
<1>5. Ints(PackAll(d, v), z)
  BY <1>1, PackAllInts
<1> QED BY <1>2, <1>4, <1>5

-----------------------------------------------------------------------------
(* What a statement other than a transform starts from. *)
LEMMA Begins ==
    ASSUME DsaInv, NEW op, At(op), op # "ntt", op # "invntt"
    PROVE  /\ code # <<>> /\ Head(code)[1] = op /\ layer = 0
           /\ Here \in Nat /\ step \in Procedures /\ Vectors
           /\ Placed(step, Here, op, X, Y)
           /\ \A x \in Names : First(step, x) < Here =>
                 /\ bound[x] \in Nat /\ bound[x] <= Room(step, Here, x)
                 /\ Room(step, Here, x) \in Nat /\ Room(step, Here, x) <= Spread
                 /\ Fits(mem[x], Size(x), bound[x])
<1>1. Flow /\ Rooms /\ Vectors
  BY DEF DsaInv
<1>2. code # <<>> /\ Head(code)[1] = op
  BY DEF At
<1>3. layer = 0
  BY <1>1, <1>2, Still DEF At
<1>4. /\ step \in Procedures /\ Here \in Nat
      /\ Placed(step, Here, op, X, Y)
  BY <1>1, <1>2, Standing
<1> QED BY <1>1, <1>2, <1>3, <1>4, Ready

(* What most statements leave alone. *)
Quiet == UNCHANGED <<step, mat, sample, ball, pk, sk, sig, got, ret>>

Usual(op) == op \notin Endings \cup {"gen_a", "eta", "challenge", "caddq", "ntt", "invntt"}

(* Done with its only vector. *)
LEMMA Keeps ==
    ASSUME DsaInv, SampleInv, NEW op, At(op), Usual(op), NEW x \in Names,
           Writes(op, X) = {x}, NEW val, NEW worst \in Nat, NEW top \in Int, top < TooLarge,
           worst <= Room(step, Here + 1, x), Fits(val, Size(x), worst),
           Leave(x, val, worst, top), Done, UNCHANGED layer, Quiet
    PROVE  DsaInv'
<1>1. /\ code # <<>> /\ Head(code)[1] = op /\ layer = 0 /\ Vectors /\ Here \in Nat
  BY Begins DEF Usual
<1>2. worst < TooLarge
  <2>1. Room(step, Here + 1, x) \in Nat /\ Room(step, Here + 1, x) <= Spread
    BY <1>1, RoomNat
  <2>2. Spread \in Int /\ TooLarge \in Int /\ Spread < TooLarge
    BY Sizes, SMT
  <2> QED BY <2>1, <2>2
<1>3. Wrote
  BY <1>1, <1>2, Left
<1>4. code' = Tail(code) /\ layer' = 0
  BY <1>1 DEF Done
<1>5. op \notin Endings \cup {"gen_a", "eta", "challenge", "caddq"}
  BY DEF Usual
<1> QED BY <1>1, <1>3, <1>4, <1>5, Advances DEF Quiet

LEMMA TopFits == /\ 0 \in Int /\ 0 < TooLarge
                 /\ \A b \in Nat : b <= Spread => b + 4194304 \in Int /\ b + 4194304 < TooLarge
BY Sizes, SMT

LEMMA CopyKeeps == ASSUME DsaInv, SampleInv, Copy PROVE DsaInv'
<1> DEFINE op == "copy"
<1>1. /\ At(op) /\ Leave(X, mem[Y], bound[Y], 0) /\ Done /\ UNCHANGED layer /\ Quiet
  BY Zenon DEF Copy, Rest, draws, texts, world, Quiet
<1>2. /\ Placed(step, Here, op, X, Y)
      /\ \A x \in Names : First(step, x) < Here =>
            /\ bound[x] \in Nat /\ bound[x] <= Room(step, Here, x)
            /\ Fits(mem[x], Size(x), bound[x])
  BY <1>1, Begins
<1>3. Usual(op) /\ Writes(op, X) = {X}
  BY DEF Usual, Writes, Silent, Endings
<1>4. /\ X \in Names /\ Y \in Names /\ First(step, Y) < Here /\ Size(X) = Size(Y)
      /\ Room(step, Here + 1, X) = Room(step, Here, Y)
  BY <1>2, <1>3 DEF Placed
<1> QED BY <1>1, <1>2, <1>3, <1>4, TopFits, Keeps

LEMMA MatrixKeeps == ASSUME DsaInv, SampleInv, Matrix PROVE DsaInv'
<1> DEFINE op == "matrix"
           row(i) == SubSeq(mat, L * (i - 1) + 1, L * i)
<1>0. PICK v : v = [i \in 1 .. K |-> PointwiseAcc(row(i), mem[Y])]
  OBVIOUS
<1>1. /\ At(op) /\ Leave(X, v, L * FqmulBound(Q - 1, bound[Y]), 0)
      /\ Done /\ UNCHANGED layer /\ Quiet
  BY <1>0, Zenon DEF Matrix, Rest, draws, texts, world, Quiet
<1>2. /\ Placed(step, Here, op, X, Y) /\ code # <<>> /\ Here \in Nat
      /\ \A x \in Names : First(step, x) < Here =>
            /\ bound[x] \in Nat /\ bound[x] <= Room(step, Here, x)
            /\ Fits(mem[x], Size(x), bound[x])
  BY <1>1, Begins
<1>3. Usual(op) /\ Writes(op, X) = {X}
  BY DEF Usual, Writes, Silent, Endings
<1>4. /\ X \in Names /\ Y \in Names /\ First(step, Y) < Here /\ GenAt(step) < Here
      /\ Size(X) = K /\ Size(Y) = L
      /\ Room(step, Here, Y) = Spread /\ Room(step, Here + 1, X) = Product
  BY <1>2, <1>3 DEF Placed
<1>5. /\ bound[Y] \in Nat /\ bound[Y] <= Spread /\ Fits(mem[Y], L, bound[Y])
  BY <1>2, <1>4
<1>6. /\ L * FqmulBound(Q - 1, bound[Y]) \in Nat
      /\ L * FqmulBound(Q - 1, bound[Y]) <= Product
  <2>1. PICK b \in Nat : b = bound[Y] /\ b <= Spread
    BY <1>5
  <2> QED BY <2>1, ProductsFit
<1>7. mat \in Seq(Uniform) /\ Len(mat) = K * L
  BY <1>2, <1>4 DEF DsaInv, Matrices
<1>8. ASSUME NEW i \in 1 .. K PROVE Bounded(v[i], L * FqmulBound(Q - 1, bound[Y]))
  <2>1. PICK a \in Nat, b \in Nat : a = Q - 1 /\ b = bound[Y]
    BY <1>5, QIs
  <2>2. ASSUME NEW k \in 1 .. L PROVE Bounded(row(i)[k], a)
    <3>1. PICK m \in Int, l \in Int : m = L * (i - 1) + 1 /\ l = L * i
      BY DEF L
    <3>2. 1 <= m /\ l <= Len(mat) /\ l - m + 1 = L /\ m + k - 1 \in 1 .. Len(mat)
      BY <1>7, <3>1 DEF K, L
    <3>3. \A n \in m .. l : mat[n] \in Uniform
      BY <1>7, <3>2
    <3>4. \A n \in 1 .. l - m + 1 : SubSeq(mat, m, l)[n] = mat[m + n - 1]
      BY <1>7, <3>2, <3>3, SubSeqProperties
    <3>5. row(i)[k] = mat[m + k - 1]
      BY <3>1, <3>2, <3>4
    <3>6. mat[m + k - 1] \in Uniform
      BY <1>7, <3>2
    <3>7. PICK r \in Uniform : r = row(i)[k]
      BY <3>5, <3>6
    <3>8. \A j \in Coeffs : r[j] \in Int /\ 0 <= r[j] /\ r[j] <= Q - 1
      BY QIs DEF Uniform
    <3>9. Bounded(r, a)
      BY <2>1, <3>8 DEF Bounded, Within
    <3> QED BY <3>7, <3>9
  <2>3. \A k \in 1 .. L : Bounded(mem[Y][k], b)
    BY <1>5, <2>1 DEF Fits
  <2>4. PICK u, w : u = row(i) /\ w = mem[Y]
    OBVIOUS
  <2>5. Bounded(PointwiseAcc(u, w), L * FqmulBound(a, b))
    BY <2>2, <2>3, <2>4, AccWorst
  <2>6. v[i] = PointwiseAcc(u, w)
    BY <1>0, <2>4
  <2> QED BY <2>1, <2>5, <2>6
<1>9. Fits(v, Size(X), L * FqmulBound(Q - 1, bound[Y]))
  BY <1>0, <1>4, <1>8 DEF Fits
<1> QED BY <1>1, <1>3, <1>4, <1>6, <1>9, TopFits, Keeps

LEMMA SizeNat == \A x : Size(x) \in Nat
BY DEF Size, K, L

LEMMA TimesKeeps == ASSUME DsaInv, SampleInv, Times PROVE DsaInv'
<1> DEFINE op == "times"
<1>0. PICK v : v = [i \in DOMAIN mem[Y] |-> PolyPointwise(mem["cp"][1], mem[Y][i])]
  OBVIOUS
<1>1. /\ At(op) /\ Leave(X, v, FqmulBound(bound["cp"], bound[Y]), 0)
      /\ Done /\ UNCHANGED layer /\ Quiet
  BY <1>0, Zenon DEF Times, Each, Rest, draws, texts, world, Quiet
<1>2. /\ Placed(step, Here, op, X, Y)
      /\ \A x \in Names : First(step, x) < Here =>
            /\ bound[x] \in Nat /\ bound[x] <= Room(step, Here, x)
            /\ Fits(mem[x], Size(x), bound[x])
  BY <1>1, Begins
<1>3. Usual(op) /\ Writes(op, X) = {X}
  BY DEF Usual, Writes, Silent, Endings
<1>4. /\ X \in Names /\ Y \in Names /\ First(step, Y) < Here /\ Size(X) = Size(Y)
      /\ "cp" \in Names /\ First(step, "cp") < Here /\ Room(step, Here, "cp") = Spread
      /\ Room(step, Here, Y) = Spread /\ Room(step, Here + 1, X) = Reduced
  BY <1>2, <1>3 DEF Placed
<1>5. /\ bound[Y] \in Nat /\ bound[Y] <= Spread /\ Fits(mem[Y], Size(Y), bound[Y])
      /\ bound["cp"] \in Nat /\ bound["cp"] <= Spread /\ Bounded(mem["cp"][1], bound["cp"])
  BY <1>2, <1>4 DEF Fits, Size
<1>6. PICK f \in Nat : f = FqmulBound(bound["cp"], bound[Y]) /\ f <= Reduced
  <2>1. PICK a \in Nat, b \in Nat : a = bound["cp"] /\ b = bound[Y] /\ a <= Spread /\ b <= Spread
    BY <1>5
  <2> QED BY <2>1, ProductsFit
<1>7. Fits(v, Size(X), f)
  <2>1. ASSUME NEW i \in DOMAIN v PROVE Bounded(v[i], f)
    <3>0. PICK r, s : r = mem["cp"][1] /\ s = mem[Y][i]
      OBVIOUS
    <3>1. PICK a \in Nat, b \in Nat : a = bound["cp"] /\ b = bound[Y]
      BY <1>5
    <3>2. Bounded(r, a) /\ Bounded(s, b)
      BY <1>0, <1>5, <2>1, <3>0, <3>1 DEF Fits
    <3>3. Bounded(PolyPointwise(r, s), FqmulBound(a, b))
      BY <3>2, PolyPointwiseWorst
    <3> QED BY <1>0, <1>6, <2>1, <3>0, <3>1, <3>3
  <2>2. DOMAIN v = 1 .. Size(X)
    BY <1>0, <1>4, <1>5 DEF Fits
  <2> QED BY <2>1, <2>2 DEF Fits
<1> QED BY <1>1, <1>3, <1>4, <1>6, <1>7, TopFits, Keeps

LEMMA AddKeeps == ASSUME DsaInv, SampleInv, Add PROVE DsaInv'
<1> DEFINE op == "add"
<1>0. PICK v : v = [i \in DOMAIN mem[X] |-> PolyAdd(mem[X][i], mem[Y][i])]
  OBVIOUS
<1>1. /\ At(op) /\ Leave(X, v, bound[X] + bound[Y], 0)
      /\ Done /\ UNCHANGED layer /\ Quiet
  BY <1>0, Zenon DEF Add, Pairwise, Rest, draws, texts, world, Quiet
<1>2. /\ Placed(step, Here, op, X, Y)
      /\ \A x \in Names : First(step, x) < Here =>
            /\ bound[x] \in Nat /\ bound[x] <= Room(step, Here, x)
            /\ Room(step, Here, x) \in Nat /\ Fits(mem[x], Size(x), bound[x])
  BY <1>1, Begins
<1>3. Usual(op) /\ Writes(op, X) = {X}
  BY DEF Usual, Writes, Silent, Endings
<1>4. /\ X \in Names /\ First(step, X) < Here /\ Y \in Names /\ First(step, Y) < Here
      /\ Size(X) = Size(Y)
      /\ Room(step, Here, X) + Room(step, Here, Y) <= Room(step, Here + 1, X)
  BY <1>2, <1>3 DEF Placed
<1>50. PICK r, s : r = mem[X] /\ s = mem[Y]
  OBVIOUS
<1>5. PICK a \in Nat, b \in Nat :
          /\ a = bound[X] /\ b = bound[Y]
          /\ Fits(r, Size(X), a) /\ Fits(s, Size(X), b)
  BY <1>2, <1>4, <1>50
<1>6. Fits(v, Size(X), a + b)
  <2>1. ASSUME NEW i \in DOMAIN v PROVE Bounded(v[i], a + b)
    <3>1. Bounded(r[i], a) /\ Bounded(s[i], b)
      BY <1>0, <1>5, <1>50, <2>1 DEF Fits
    <3>2. Bounded(PolyAdd(r[i], s[i]), a + b)
      BY <3>1, PolyAddWorst
    <3> QED BY <1>0, <1>5, <1>50, <2>1, <3>2
  <2> QED BY <1>0, <1>5, <1>50, <2>1 DEF Fits
<1>7. a + b <= Room(step, Here + 1, X)
  <2>1. Here \in Nat /\ Room(step, Here + 1, X) \in Nat
    BY <1>1, Begins, RoomNat
  <2> QED BY <1>2, <1>4, <1>5, <2>1
<1> QED BY <1>1, <1>3, <1>4, <1>5, <1>6, <1>7, TopFits, Keeps

LEMMA SubKeeps == ASSUME DsaInv, SampleInv, Sub PROVE DsaInv'
<1> DEFINE op == "sub"
<1>0. PICK v : v = [i \in DOMAIN mem[X] |-> PolySub(mem[X][i], mem[Y][i])]
  OBVIOUS
<1>1. /\ At(op) /\ Leave(X, v, bound[X] + bound[Y], 0)
      /\ Done /\ UNCHANGED layer /\ Quiet
  BY <1>0, Zenon DEF Sub, Pairwise, Rest, draws, texts, world, Quiet
<1>2. /\ Placed(step, Here, op, X, Y)
      /\ \A x \in Names : First(step, x) < Here =>
            /\ bound[x] \in Nat /\ bound[x] <= Room(step, Here, x)
            /\ Room(step, Here, x) \in Nat /\ Fits(mem[x], Size(x), bound[x])
  BY <1>1, Begins
<1>3. Usual(op) /\ Writes(op, X) = {X}
  BY DEF Usual, Writes, Silent, Endings
<1>4. /\ X \in Names /\ First(step, X) < Here /\ Y \in Names /\ First(step, Y) < Here
      /\ Size(X) = Size(Y)
      /\ Room(step, Here, X) + Room(step, Here, Y) <= Room(step, Here + 1, X)
  BY <1>2, <1>3 DEF Placed
<1>50. PICK r, s : r = mem[X] /\ s = mem[Y]
  OBVIOUS
<1>5. PICK a \in Nat, b \in Nat :
          /\ a = bound[X] /\ b = bound[Y]
          /\ Fits(r, Size(X), a) /\ Fits(s, Size(X), b)
  BY <1>2, <1>4, <1>50
<1>6. Fits(v, Size(X), a + b)
  <2>1. ASSUME NEW i \in DOMAIN v PROVE Bounded(v[i], a + b)
    <3>1. Bounded(r[i], a) /\ Bounded(s[i], b)
      BY <1>0, <1>5, <1>50, <2>1 DEF Fits
    <3>2. Bounded(PolySub(r[i], s[i]), a + b)
      BY <3>1, PolyAddWorst
    <3> QED BY <1>0, <1>5, <1>50, <2>1, <3>2
  <2> QED BY <1>0, <1>5, <1>50, <2>1 DEF Fits
<1>7. a + b <= Room(step, Here + 1, X)
  <2>1. Here \in Nat /\ Room(step, Here + 1, X) \in Nat
    BY <1>1, Begins, RoomNat
  <2> QED BY <1>2, <1>4, <1>5, <2>1
<1> QED BY <1>1, <1>3, <1>4, <1>5, <1>6, <1>7, TopFits, Keeps

LEMMA ReduceKeeps == ASSUME DsaInv, SampleInv, Reduce PROVE DsaInv'
<1> DEFINE op == "reduce"
<1>0. PICK v : v = [i \in DOMAIN mem[X] |-> PolyReduce(mem[X][i])]
  OBVIOUS
<1>1. /\ At(op) /\ Leave(X, v, Reduced, bound[X] + 4194304)
      /\ Done /\ UNCHANGED layer /\ Quiet
  BY <1>0, SMT DEF Reduce, Each, Rest, draws, texts, world, Quiet
<1>2. /\ Placed(step, Here, op, X, Y)
      /\ \A x \in Names : First(step, x) < Here =>
            /\ bound[x] \in Nat /\ bound[x] <= Room(step, Here, x)
            /\ Room(step, Here, x) \in Nat /\ Room(step, Here, x) <= Spread
            /\ Fits(mem[x], Size(x), bound[x])
  BY <1>1, Begins
<1>3. Usual(op) /\ Writes(op, X) = {X}
  BY DEF Usual, Writes, Silent, Endings
<1>4. /\ X \in Names /\ First(step, X) < Here
      /\ Room(step, Here + 1, X) = Reduced
  BY <1>2, <1>3 DEF Placed
<1>5. PICK r : r = mem[X]
  OBVIOUS
<1>6. PICK b \in Nat : b = bound[X] /\ b <= Room(step, Here, X) /\ b <= Spread
                      /\ Fits(r, Size(X), b)
  <2>1. /\ bound[X] \in Nat /\ bound[X] <= Room(step, Here, X)
        /\ Room(step, Here, X) \in Nat /\ Room(step, Here, X) <= Spread
        /\ Fits(mem[X], Size(X), bound[X])
    BY <1>2, <1>4
  <2>2. Spread \in Nat
    BY DEF Spread
  <2>3. bound[X] <= Spread
    BY <2>1, <2>2
  <2> QED BY <1>5, <2>1, <2>3
<1>7. Fits(v, Size(X), Reduced)
  <2>1. ASSUME NEW i \in DOMAIN v PROVE Bounded(v[i], Reduced)
    <3>1. Bounded(r[i], b)
      BY <1>0, <1>5, <1>6, <2>1 DEF Fits
    <3>2. Bounded(PolyReduce(r[i]), Reduced)
      BY <1>6, <3>1, PolyReduceWorst
    <3> QED BY <1>0, <1>5, <2>1, <3>2
  <2> QED BY <1>0, <1>5, <1>6, <2>1 DEF Fits
<1>8. Reduced \in Nat /\ b + 4194304 \in Int /\ b + 4194304 < TooLarge
  BY <1>6, Sizes, SMT
<1>9. PICK top \in Int : top = bound[X] + 4194304 /\ top < TooLarge
  BY <1>6, <1>8, SMT
<1> QED BY <1>1, <1>3, <1>4, <1>7, <1>8, <1>9, Keeps

LEMMA ShiftlKeeps == ASSUME DsaInv, SampleInv, Shiftl PROVE DsaInv'
<1> DEFINE op == "shiftl"
<1>0. PICK v : v = [i \in DOMAIN mem[X] |-> PolyShiftl(mem[X][i])]
  OBVIOUS
<1>1. /\ At(op) /\ Leave(X, v, bound[X] * 2^D, 0)
      /\ Done /\ UNCHANGED layer /\ Quiet
  BY <1>0, Zenon DEF Shiftl, Each, Rest, draws, texts, world, Quiet
<1>2. /\ Placed(step, Here, op, X, Y)
      /\ \A x \in Names : First(step, x) < Here =>
            /\ bound[x] \in Nat /\ bound[x] <= Room(step, Here, x)
            /\ Room(step, Here, x) \in Nat /\ Room(step, Here, x) <= Spread
            /\ Fits(mem[x], Size(x), bound[x])
  BY <1>1, Begins
<1>3. Usual(op) /\ Writes(op, X) = {X}
  BY DEF Usual, Writes, Silent, Endings
<1>4. /\ X \in Names /\ First(step, X) < Here
      /\ Room(step, Here, X) = 1023 /\ Room(step, Here + 1, X) = Full
  BY <1>2, <1>3 DEF Placed
<1>5. PICK r : r = mem[X]
  OBVIOUS
<1>6. PICK b \in Nat : b = bound[X] /\ b <= Room(step, Here, X) /\ b <= Spread
                      /\ Fits(r, Size(X), b)
  <2>1. /\ bound[X] \in Nat /\ bound[X] <= Room(step, Here, X)
        /\ Room(step, Here, X) \in Nat /\ Room(step, Here, X) <= Spread
        /\ Fits(mem[X], Size(X), bound[X])
    BY <1>2, <1>4
  <2>2. Spread \in Nat
    BY DEF Spread
  <2>3. bound[X] <= Spread
    BY <2>1, <2>2
  <2> QED BY <1>5, <2>1, <2>3
<1>7. PICK w \in Nat : w = b * 2^D /\ w <= Full
  <2>1. b * 2^D \in Nat /\ b * 2^D <= Full
    BY <1>4, <1>6, Powers, SMT DEF Full
  <2> QED BY <2>1
<1>8. Fits(v, Size(X), w)
  <2>1. ASSUME NEW i \in DOMAIN v PROVE Bounded(v[i], w)
    <3>1. Bounded(r[i], b)
      BY <1>0, <1>5, <1>6, <2>1 DEF Fits
    <3>2. Bounded(PolyShiftl(r[i]), b * 2^D)
      BY <3>1, PolyShiftlWorst
    <3> QED BY <1>0, <1>5, <1>7, <2>1, <3>2
  <2> QED BY <1>0, <1>5, <1>6, <2>1 DEF Fits
<1> QED BY <1>1, <1>3, <1>4, <1>6, <1>7, <1>8, TopFits, Keeps

-----------------------------------------------------------------------------
(* Statements that write several vectors, or none. *)
LEMMA KeepsAll ==
    ASSUME DsaInv, SampleInv, NEW op, At(op), Usual(op), Wrote, Done, UNCHANGED layer, Quiet
    PROVE  DsaInv'
<1>1. code # <<>> /\ Head(code)[1] = op /\ layer = 0
  BY Begins DEF Usual
<1>2. op \notin Endings \cup {"gen_a", "eta", "challenge", "caddq"}
  BY DEF Usual
<1> QED BY <1>1, <1>2, Advances DEF Quiet, Done

(* What is rounded at this place. *)
LEMMA Roundable ==
    ASSUME DsaInv, NEW op \in Roundings, At(op)
    PROVE  /\ RoundOf(step) = IF op = "power2round" THEN "t1" ELSE "w1"
           /\ DOMAIN mem[RoundOf(step)] = 1 .. K
           /\ \A k \in 1 .. K : \A j \in Coeffs : mem[RoundOf(step)][k][j] \in 0 .. Q - 1
<1>0. /\ code # <<>> /\ Placed(step, Here, op, X, Y)
      /\ \A x \in Names : First(step, x) < Here => Fits(mem[x], Size(x), bound[x])
  BY Begins DEF Roundings
<1>1. Here \in 1 .. Final(step) /\ Final(step) \in Nat
  BY <1>0, Standing DEF DsaInv
<1>2. Here = RoundAt(step)
  BY <1>0 DEF Placed
<1>3. /\ RoundOf(step) = IF op = "power2round" THEN "t1" ELSE "w1"
      /\ RoundOf(step) \in Names /\ First(step, RoundOf(step)) < Here
  <2>1. CASE op = "power2round"
    <3>1. step = "keypair" /\ "t1" \in Names /\ First(step, "t1") < Here
      BY <1>0, <2>1 DEF Placed
    <3> QED BY <2>1, <3>1 DEF RoundOf
  <2>2. CASE op # "power2round"
    <3>1. "w1" \in Names /\ First(step, "w1") < Here
      BY <1>0, <2>2 DEF Placed, Roundings
    <3>2. step = "keypair" => First(step, "w1") = 99 /\ Final(step) = 12
      BY DEF First, KeypairFirst, Final
    <3>3. step # "keypair"
      <4> SUFFICES ASSUME step = "keypair" PROVE FALSE
        OBVIOUS
      <4>1. PICK i \in Nat : i = Here /\ i <= 12 /\ 99 < i
        BY <1>1, <3>1, <3>2
      <4> QED BY <4>1
    <3> QED BY <2>2, <3>1, <3>3 DEF RoundOf
  <2> QED BY <2>1, <2>2
<1>4. Size(RoundOf(step)) = K
  BY DEF Size, RoundOf
<1> QED BY <1>0, <1>2, <1>3, <1>4 DEF DsaInv, Canon, Fits

LEMMA RoundedFits ==
    ASSUME NEW v, DOMAIN v = 1 .. K,
           \A k \in 1 .. K : \A j \in Coeffs : v[k][j] \in 0 .. Q - 1
    PROVE  /\ Fits(High(Power2Round, v), K, 1023) /\ Fits(Low(Power2Round, v), K, 2^(D - 1))
           /\ Fits(High(Decompose, v), K, 15) /\ Fits(Low(Decompose, v), K, GAMMA2)
<1>1. ASSUME NEW k \in 1 .. K, NEW j \in Coeffs
      PROVE  /\ Within(Power2Round(v[k][j]).high, 1023)
             /\ Within(Power2Round(v[k][j]).low, 2^(D - 1))
             /\ Within(Decompose(v[k][j]).high, 15)
             /\ Within(Decompose(v[k][j]).low, GAMMA2)
  <2>1. PICK a \in 0 .. Q - 1 : a = v[k][j]
    OBVIOUS
  <2> QED BY <2>1, RoundFits, DecomposeFits
<1>2. PICK f : f = High(Power2Round, v)
  OBVIOUS
<1>3. Fits(f, K, 1023)
  BY <1>1, <1>2 DEF Fits, Bounded, High
<1>4. PICK g : g = Low(Power2Round, v)
  OBVIOUS
<1>5. Fits(g, K, 2^(D - 1))
  BY <1>1, <1>4 DEF Fits, Bounded, Low
<1>6. PICK h : h = High(Decompose, v)
  OBVIOUS
<1>7. Fits(h, K, 15)
  BY <1>1, <1>6 DEF Fits, Bounded, High
<1>8. PICK l : l = Low(Decompose, v)
  OBVIOUS
<1>9. Fits(l, K, GAMMA2)
  BY <1>1, <1>8 DEF Fits, Bounded, Low
<1> QED BY <1>2, <1>3, <1>4, <1>5, <1>6, <1>7, <1>8, <1>9

LEMMA Power2RoundKeeps == ASSUME DsaInv, SampleInv, Power2RoundStep PROVE DsaInv'
<1> DEFINE op == "power2round"
<1>0. PICK h, l : h = High(Power2Round, mem["t1"]) /\ l = Low(Power2Round, mem["t1"])
  OBVIOUS
<1>1. /\ At(op) /\ Done /\ UNCHANGED layer /\ Quiet /\ peak' = peak
      /\ mem' = [mem EXCEPT !["t1"] = h, !["t0"] = l]
      /\ bound' = [bound EXCEPT !["t1"] = 1023, !["t0"] = 2^(D - 1)]
  BY <1>0, SMT DEF Power2RoundStep, Rest, draws, texts, world, Quiet
<1>2. Vectors /\ Placed(step, Here, op, X, Y) /\ code # <<>> /\ Head(code)[1] = op
  BY <1>1, Begins
<1>3. Usual(op) /\ Writes(op, X) = {"t1", "t0"}
  BY DEF Usual, Writes, Silent, Endings
<1>4. step = "keypair" /\ Room(step, Here + 1, "t1") = Small /\ Room(step, Here + 1, "t0") = Small
  BY <1>2, <1>3 DEF Placed
<1>5. Fits(h, K, 1023) /\ Fits(l, K, 2^(D - 1))
  <2>2. op \in Roundings
    BY DEF Roundings
  <2>1. RoundOf(step) = "t1"
    BY <1>1, <2>2, Roundable
  <2>3. DOMAIN mem["t1"] = 1 .. K /\ \A k \in 1 .. K : \A j \in Coeffs : mem["t1"][k][j] \in 0 .. Q - 1
    BY <1>1, <2>1, <2>2, Roundable
  <2> QED BY <1>0, <2>3, RoundedFits
<1>6. PICK p \in Nat, q \in Nat : p = 1023 /\ q = 2^(D - 1) /\ p <= Small /\ q <= Small
  BY Powers, SMT DEF Small
<1>7. Wrote
  <2>1. /\ DOMAIN mem = Names /\ bound \in [Names -> Nat] /\ peak \in Int /\ peak < TooLarge
        /\ "t1" \in Names /\ "t0" \in Names
    BY <1>2 DEF Vectors, Names
  <2>2. Size("t1") = K /\ Size("t0") = K
    BY DEF Size
  <2>3. bound' = [bound EXCEPT !["t1"] = p, !["t0"] = q] /\ Fits(h, K, p) /\ Fits(l, K, q)
    BY <1>1, <1>5, <1>6
  <2>4. /\ mem'["t1"] = h /\ mem'["t0"] = l /\ bound'["t1"] = p /\ bound'["t0"] = q
        /\ \A x \in Names : x \notin {"t1", "t0"} => mem'[x] = mem[x] /\ bound'[x] = bound[x]
        /\ DOMAIN mem' = Names /\ bound' \in [Names -> Nat]
    BY <1>1, <2>1, <2>3
  <2> QED BY <1>1, <1>2, <1>3, <1>4, <1>6, <2>1, <2>2, <2>3, <2>4 DEF Wrote
<1> QED BY <1>1, <1>3, <1>7, KeepsAll

LEMMA DecomposeKeeps == ASSUME DsaInv, SampleInv, DecomposeStep PROVE DsaInv'
<1> DEFINE op == "decompose"
<1>0. PICK h, l : h = High(Decompose, mem["w1"]) /\ l = Low(Decompose, mem["w1"])
  OBVIOUS
<1>1. /\ At(op) /\ Done /\ UNCHANGED layer /\ Quiet /\ peak' = peak
      /\ mem' = [mem EXCEPT !["w1"] = h, !["w0"] = l]
      /\ bound' = [bound EXCEPT !["w1"] = 15, !["w0"] = GAMMA2]
  BY <1>0, SMT DEF DecomposeStep, Rest, draws, texts, world, Quiet
<1>2. Vectors /\ Placed(step, Here, op, X, Y) /\ code # <<>> /\ Head(code)[1] = op
      /\ step \in Procedures
  BY <1>1, Begins
<1>3. Usual(op) /\ Writes(op, X) = {"w1", "w0"}
  BY DEF Usual, Writes, Silent, Endings
<1>4. Room(step, Here + 1, "w1") = Small /\ Room(step, Here + 1, "w0") = Small
  BY <1>2, <1>3 DEF Placed
<1>5. Fits(h, K, 15) /\ Fits(l, K, GAMMA2)
  <2>2. op \in Roundings
    BY DEF Roundings
  <2>1. RoundOf(step) = "w1"
    BY <1>1, <2>2, Roundable
  <2>3. DOMAIN mem["w1"] = 1 .. K /\ \A k \in 1 .. K : \A j \in Coeffs : mem["w1"][k][j] \in 0 .. Q - 1
    BY <1>1, <2>1, <2>2, Roundable
  <2> QED BY <1>0, <2>3, RoundedFits
<1>6. PICK p \in Nat, q \in Nat : p = 15 /\ q = GAMMA2 /\ p <= Small /\ q <= Small
  BY Gamma2Is, SMT DEF Small
<1>7. Wrote
  <2>1. /\ DOMAIN mem = Names /\ bound \in [Names -> Nat] /\ peak \in Int /\ peak < TooLarge
        /\ "w1" \in Names /\ "w0" \in Names
    BY <1>2 DEF Vectors, Names
  <2>2. Size("w1") = K /\ Size("w0") = K
    BY DEF Size
  <2>3. bound' = [bound EXCEPT !["w1"] = p, !["w0"] = q] /\ Fits(h, K, p) /\ Fits(l, K, q)
    BY <1>1, <1>5, <1>6
  <2>4. /\ mem'["w1"] = h /\ mem'["w0"] = l /\ bound'["w1"] = p /\ bound'["w0"] = q
        /\ \A x \in Names : x \notin {"w1", "w0"} => mem'[x] = mem[x] /\ bound'[x] = bound[x]
        /\ DOMAIN mem' = Names /\ bound' \in [Names -> Nat]
    BY <1>1, <2>1, <2>3
  <2> QED BY <1>1, <1>2, <1>3, <1>4, <1>6, <2>1, <2>2, <2>3, <2>4 DEF Wrote
<1> QED BY <1>1, <1>3, <1>7, KeepsAll

LEMMA UseHintKeeps == ASSUME DsaInv, SampleInv, UseHintStep PROVE DsaInv'
<1> DEFINE op == "use_hint"
<1>0. PICK v : v = [i \in 1 .. K |-> [j \in Coeffs |-> UseHint(mem["w1"][i][j], mem["h"][i][j])]]
  OBVIOUS
<1>1. /\ At(op) /\ Leave("w1", v, 15, 0) /\ Done /\ UNCHANGED layer /\ Quiet
  BY <1>0, Zenon DEF UseHintStep, Rest, draws, texts, world, Quiet
<1>2. Placed(step, Here, op, X, Y) /\ Here \in Nat
  BY <1>1, Begins
<1>3. Usual(op) /\ op \in Roundings
  BY DEF Usual, Endings, Roundings
<1>4. X = RoundOf(step) /\ Room(step, Here + 1, "w1") = Small
  BY <1>2, <1>3 DEF Placed
<1>5. RoundOf(step) = "w1"
  BY <1>1, <1>3, Roundable
<1>6. Writes(op, X) = {"w1"} /\ "w1" \in Names
  BY <1>4, <1>5 DEF Writes, Silent, Names
<1>7. Fits(v, Size("w1"), 15)
  <2>1. \A k \in 1 .. K : \A j \in Coeffs : mem["w1"][k][j] \in 0 .. Q - 1
    BY <1>1, <1>3, <1>5, Roundable
  <2>2. ASSUME NEW k \in 1 .. K, NEW j \in Coeffs
        PROVE  Within(UseHint(mem["w1"][k][j], mem["h"][k][j]), 15)
    <3>1. PICK a \in 0 .. Q - 1 : a = mem["w1"][k][j]
      BY <2>1
    <3> QED BY <3>1, UseHintFits
  <2>3. Size("w1") = K
    BY DEF Size
  <2> QED BY <1>0, <2>2, <2>3 DEF Fits, Bounded
<1>8. PICK w \in Nat : w = 15 /\ w <= Small
  BY SMT DEF Small
<1> QED BY <1>1, <1>3, <1>4, <1>6, <1>7, <1>8, TopFits, Keeps

LEMMA HashMuKeeps == ASSUME DsaInv, SampleInv, HashMu PROVE DsaInv'
<1> DEFINE op == "hash_mu"
<1>1. /\ At(op) /\ Done /\ UNCHANGED <<mem, bound, peak, layer>> /\ Quiet
  BY Zenon DEF HashMu, ring, draws, world, Quiet
<1>2. Vectors /\ Head(code)[1] = op
  BY <1>1, Begins
<1>3. Usual(op) /\ Writes(op, X) = {}
  BY DEF Usual, Writes, Silent, Endings
<1>4. Wrote
  BY <1>1, <1>2, <1>3, NoneWritten
<1> QED BY <1>1, <1>3, <1>4, KeepsAll

LEMMA HashW1Keeps == ASSUME DsaInv, SampleInv, HashW1 PROVE DsaInv'
<1> DEFINE op == "hash_w1"
<1>1. /\ At(op) /\ Done /\ UNCHANGED <<mem, bound, peak, layer>> /\ Quiet
  BY Zenon DEF HashW1, ring, draws, world, Quiet
<1>2. Vectors /\ Head(code)[1] = op
  BY <1>1, Begins
<1>3. Usual(op) /\ Writes(op, X) = {}
  BY DEF Usual, Writes, Silent, Endings
<1>4. Wrote
  BY <1>1, <1>2, <1>3, NoneWritten
<1> QED BY <1>1, <1>3, <1>4, KeepsAll

-----------------------------------------------------------------------------
(* Statements that read bytes. *)

(* The masking polynomial of a nonce. *)
MaskOf(m) ==
    LET s == FlattenSeq([b \in 1 .. POLY_UNIFORM_GAMMA1_NBLOCKS |->
                            Stream256(rhoprime, m, b - 1)])
    IN  UnpackZ(1, Once([n \in 0 .. 639 |-> Once(s)[n + 1]]))[1]

LEMMA MaskFits == ASSUME StreamsOfBytes, NEW m PROVE Bounded(MaskOf(m), GAMMA1)
<1> DEFINE B(b) == Stream256(rhoprime, m, b - 1)
           t == [b \in 1 .. POLY_UNIFORM_GAMMA1_NBLOCKS |-> B(b)]
           s == FlattenSeq(t)
           a == [n \in 0 .. 639 |-> s[n + 1]]
<1>1. ASSUME NEW b \in 1 .. 5 PROVE B(b) \in Seq(Byte0) /\ Len(B(b)) = 136
  <2>1. PICK q \in Nat : q = b - 1
    OBVIOUS
  <2>2. \A r, n : Stream256(r, n, q) \in Seq(Byte0) /\ Len(Stream256(r, n, q)) = 136
    BY ZenonT(60) DEF StreamsOfBytes
  <2> QED BY <2>1, <2>2
<1>2. t \in Seq(Seq(Byte0)) /\ Len(t) = 5 /\ \A b \in 1 .. 5 : t[b] = B(b)
  <2>1. PICK l \in Nat : l = 5
    OBVIOUS
  <2>2. POLY_UNIFORM_GAMMA1_NBLOCKS = l
    BY <2>1 DEF POLY_UNIFORM_GAMMA1_NBLOCKS
  <2> HIDE DEF B
  <2>3. t = [b \in 1 .. l |-> B(b)]
    BY <2>2
  <2>4. t \in [1 .. l -> Seq(Byte0)]
    BY <1>1, <2>1, <2>3
  <2>5. t \in Seq(Seq(Byte0)) /\ Len(t) = l
    BY <2>4, FunctionSeq
  <2> QED BY <2>1, <2>3, <2>5
<1> HIDE DEF t, B
<1>2a. s \in Seq(Byte0) /\ Len(s) = 680
  <2>1. PICK c \in Nat : c = 136
    OBVIOUS
  <2>2. \A b \in 1 .. Len(t) : Len(t[b]) = c
    BY <1>1, <1>2, <2>1
  <2>3. s \in Seq(Byte0) /\ Len(s) = c * Len(t)
    BY <1>2, <2>2, FlattenTyped, FlattenLength
  <2> QED BY <1>2, <2>1, <2>3
<1> HIDE DEF s
<1>3. s \in Seq(Byte0)
  BY <1>2a
<1>4. Ints(a, 640 * 1)
  <2>1. ASSUME NEW n \in 0 .. 639 PROVE s[n + 1] \in Int
    <3>1. PICK k \in 1 .. Len(s) : k = n + 1
      BY <1>2a
    <3>2. s[k] \in Int
      BY <1>3, ByteInt, SMTT(30)
    <3> QED BY <3>1, <3>2
  <2> QED BY <2>1 DEF Ints
<1>5. Once(s) = s /\ Once(a) = a
  BY ZenonT(30) DEF Once
<1>6. PICK c : c = a
  OBVIOUS
<1>7. PICK k \in Nat : k = 1
  OBVIOUS
<1>8. Fits(UnpackZ(k, c), k, GAMMA1)
  <2>1. Ints(c, 640 * k)
    BY <1>4, <1>6, <1>7
  <2> QED BY <2>1, UnpackZFits
<1>9. Bounded(UnpackZ(1, c)[1], GAMMA1)
  BY <1>7, <1>8 DEF Fits
<1>10. Once([n \in 0 .. 639 |-> Once(s)[n + 1]]) = c
  BY <1>5, <1>6
<1> QED BY <1>9, <1>10 DEF MaskOf, s, t, B

LEMMA Gamma1Keeps == ASSUME StreamsOfBytes, DsaInv, SampleInv, Gamma1 PROVE DsaInv'
<1> DEFINE op == "gamma1"
<1>0. PICK v : v = [i \in 1 .. L |-> MaskOf(MaskNonce(i - 1))]
  OBVIOUS
<1>1. /\ At(op) /\ Leave("y", v, GAMMA1, 0) /\ Done /\ UNCHANGED layer /\ Quiet
  <2>1. UNCHANGED <<sk, step, pk, sig, got, ret, mat, sample, ball, layer>> /\ At(op) /\ Done
    BY SMT DEF Gamma1, world
  <2>2. Leave("y", v, GAMMA1, 0)
    BY <1>0, SMT DEF Gamma1, MaskOf
  <2> QED BY <2>1, <2>2 DEF Quiet
<1>2. Placed(step, Here, op, X, Y)
  BY <1>1, Begins
<1>3. Usual(op)
  BY DEF Usual, Endings
<1>4. X = "y" /\ Room(step, Here + 1, "y") = Small
  BY <1>2 DEF Placed
<1>5. Writes(op, X) = {"y"} /\ "y" \in Names
  BY <1>4 DEF Writes, Silent, Names
<1>6. Fits(v, Size("y"), GAMMA1)
  <2>1. \A i : Bounded(MaskOf(MaskNonce(i)), GAMMA1)
    BY MaskFits
  <2>2. Size("y") = L
    BY DEF Size
  <2> QED BY <1>0, <2>1, <2>2 DEF Fits
<1>7. GAMMA1 \in Nat /\ GAMMA1 <= Small
  BY SMT DEF GAMMA1, Small
<1> QED BY <1>1, <1>3, <1>4, <1>5, <1>6, <1>7, TopFits, Keeps

LEMMA UnpackPkKeeps == ASSUME DsaInv, SampleInv, UnpackPk PROVE DsaInv'
<1> DEFINE op == "unpack_pk"
<1>0. PICK v : v = UnpackT1(pk.t1)
  OBVIOUS
<1>1. /\ At(op) /\ Leave("t1", v, 1023, 0) /\ Done /\ UNCHANGED layer /\ Quiet
  BY <1>0, SMT DEF UnpackPk, draws, world, Quiet
<1>2. Placed(step, Here, op, X, Y)
  BY <1>1, Begins
<1>3. Usual(op) /\ Writes(op, X) = {"t1"} /\ "t1" \in Names
  BY DEF Usual, Endings, Writes, Silent, Names
<1>4. step = "verify" /\ Room(step, Here + 1, "t1") = 1023
  BY <1>2 DEF Placed
<1>5. Ints(pk.t1, 320 * K)
  BY <1>4 DEF DsaInv, Bytes
<1>6. Fits(v, Size("t1"), 1023)
  <2>1. Fits(UnpackT1(pk.t1), K, 1023)
    BY <1>5, UnpackT1Fits
  <2> QED BY <1>0, <2>1 DEF Size
<1>7. PICK w \in Nat : w = 1023
  OBVIOUS
<1>8. /\ Leave("t1", v, w, 0) /\ Fits(v, Size("t1"), w) /\ w <= Room(step, Here + 1, "t1")
  BY <1>1, <1>4, <1>6, <1>7
<1> QED BY <1>1, <1>3, <1>8, TopFits, Keeps

LEMMA UnpackSkKeeps == ASSUME DsaInv, SampleInv, UnpackSk PROVE DsaInv'
<1> DEFINE op == "unpack_sk"
<1>0. PICK u, v, w : u = UnpackEta(L, sk.s1) /\ v = UnpackEta(K, sk.s2) /\ w = UnpackT0(sk.t0)
  OBVIOUS
<1>1. /\ At(op) /\ Done /\ UNCHANGED layer /\ Quiet /\ peak' = peak
      /\ mem' = [mem EXCEPT !["s1"] = u, !["s2"] = v, !["t0"] = w]
      /\ bound' = [bound EXCEPT !["s1"] = 11, !["s2"] = 11, !["t0"] = 2^(D - 1)]
  BY <1>0, SMT DEF UnpackSk, draws, world, Quiet
<1>2. Vectors /\ Placed(step, Here, op, X, Y) /\ Head(code)[1] = op
  BY <1>1, Begins
<1>3. Usual(op) /\ Writes(op, X) = {"s1", "s2", "t0"}
  BY DEF Usual, Writes, Silent, Endings
<1>4. /\ step = "sign" /\ Room(step, Here + 1, "s1") = Small
      /\ Room(step, Here + 1, "s2") = Small /\ Room(step, Here + 1, "t0") = Small
  BY <1>2, <1>3 DEF Placed
<1>5. Ints(sk.s1, 128 * L) /\ Ints(sk.s2, 128 * K) /\ Ints(sk.t0, 416 * K)
  BY <1>4 DEF DsaInv, Bytes
<1>6. Fits(u, L, 11) /\ Fits(v, K, 11) /\ Fits(w, K, 2^(D - 1))
  <2>1. L \in Nat /\ K \in Nat
    BY DEF L, K
  <2> QED BY <1>0, <1>5, <2>1, UnpackEtaFits, UnpackT0Fits
<1>7. PICK p \in Nat, q \in Nat : p = 11 /\ q = 2^(D - 1) /\ p <= Small /\ q <= Small
  BY Powers, SMT DEF Small
<1>8. Wrote
  <2>1. /\ DOMAIN mem = Names /\ bound \in [Names -> Nat] /\ peak \in Int /\ peak < TooLarge
        /\ "s1" \in Names /\ "s2" \in Names /\ "t0" \in Names
    BY <1>2 DEF Vectors, Names
  <2>2. Size("s1") = L /\ Size("s2") = K /\ Size("t0") = K
    BY DEF Size
  <2>3. bound' = [bound EXCEPT !["s1"] = p, !["s2"] = p, !["t0"] = q]
        /\ Fits(u, L, p) /\ Fits(v, K, p) /\ Fits(w, K, q)
    BY <1>1, <1>6, <1>7
  <2>4. /\ mem'["s1"] = u /\ mem'["s2"] = v /\ mem'["t0"] = w
        /\ bound'["s1"] = p /\ bound'["s2"] = p /\ bound'["t0"] = q
        /\ \A x \in Names : x \notin {"s1", "s2", "t0"} => mem'[x] = mem[x] /\ bound'[x] = bound[x]
        /\ DOMAIN mem' = Names /\ bound' \in [Names -> Nat]
    BY <1>1, <2>1, <2>3
  <2>5. \A x \in Names : x \in Writes(op, X) =>
          bound'[x] <= Room(step, Here + 1, x) /\ Fits(mem'[x], Size(x), bound'[x])
    BY <1>3, <1>4, <1>7, <2>2, <2>3, <2>4
  <2> QED BY <1>1, <1>2, <1>3, <2>1, <2>4, <2>5 DEF Wrote
<1> QED BY <1>1, <1>3, <1>8, KeepsAll

-----------------------------------------------------------------------------
(* Statements after which another attempt begins. *)
LEMMA Again ==
    ASSUME DsaInv, SampleInv, NEW op, At(op), step # "verify", op = "check" \/ op = "make_hint",
           code' = Attempt, UNCHANGED layer, Quiet, Vectors',
           \A x \in Names : x \notin Writes(op, X) => mem'[x] = mem[x] /\ bound'[x] = bound[x]
    PROVE  DsaInv'
<1>1. /\ code # <<>> /\ Head(code)[1] = op /\ layer = 0 /\ Here \in Nat
      /\ Placed(step, Here, op, X, Y)
      /\ \A x \in Names : First(step, x) < Here =>
            /\ bound[x] \in Nat /\ bound[x] <= Room(step, Here, x)
            /\ Fits(mem[x], Size(x), bound[x])
  BY Begins
<1>2. /\ step = "sign"
      /\ \A x \in Names : First(step, x) < 7 =>
            Room(step, 7, x) = Room(step, Here, x) /\ x \notin Writes(op, X)
  BY <1>1 DEF Placed
<1>3. 7 < Here
  <2>1. CASE op = "check"
    <3>1. X \in {"z", "w0", "h"} /\ First(step, X) < Here
      BY <1>1, <2>1 DEF Placed
    <3>2. First(step, X) \in Nat /\ First(step, X) >= 8
      BY <1>2, <3>1 DEF First, SignFirst
    <3> QED BY <1>1, <3>1, <3>2
  <2>2. CASE op = "make_hint"
    <3>1. First(step, "w1") < Here
      BY <1>1, <2>2 DEF Placed
    <3>2. First(step, "w1") = 10
      BY <1>2 DEF First, SignFirst
    <3> QED BY <1>1, <3>1, <3>2
  <2> QED BY <2>1, <2>2
<1>4. Flow' /\ Here' = 7 /\ layer' = 0 /\ step' = "sign"
  <2>1. layer' = 0 /\ step' = "sign"
    BY <1>1, <1>2 DEF Quiet
  <2> QED BY <2>1, AgainPlace
<1>5. Rooms'
  <2>1. ASSUME NEW x \in Names, First(step, x) < 7
        PROVE  bound'[x] <= Room(step, 7, x) /\ DOMAIN mem'[x] = 1 .. Size(x)
    <3>1. First(step, x) < Here
      <4>1. First(step, x) \in Nat
        BY <1>1, RoomNat
      <4> QED BY <1>1, <1>3, <2>1, <4>1
    <3> QED BY <1>1, <1>2, <2>1, <3>1 DEF Fits
  <2>2. \A x : RoomNow(x)' = Room("sign", 7, x)
    BY <1>4 DEF RoomNow
  <2> QED BY <1>2, <1>4, <2>1, <2>2 DEF Rooms
<1>6. Canon'
  BY <1>4 DEF Canon, RoundAt
<1>7. code'[1] = <<"gamma1", "y">> /\ code' # <<>>
  BY DEF Attempt
<1>8. ~At("gen_a")' /\ ~At("eta")' /\ ~At("challenge")'
  BY <1>7 DEF At
<1>9. Matrices'
  <2>1. GenAt("sign") = 3
    BY DEF GenAt
  <2>2. mat \in Seq(Uniform) /\ Len(mat) = K * L
    BY <1>1, <1>2, <1>3, <2>1 DEF DsaInv, Matrices
  <2> QED BY <1>4, <1>8, <2>2 DEF Matrices, Quiet
<1>10. BallInv'
  <2>1. ball.i = 0
    BY <1>1 DEF DsaInv, BallInv, At
  <2>2. BallAt("sign") = 16
    BY DEF BallAt
  <2>3. ~(BallAt(step) < Here)'
    BY <1>4, <2>2
  <2> QED BY <1>4, <2>1, <2>3 DEF DsaInv, BallInv, Quiet
<1>11. Bytes'
  BY <1>1, <1>2, BytesKept DEF DsaInv, Quiet
<1> QED BY <1>4, <1>5, <1>6, <1>9, <1>10, <1>11 DEF DsaInv

(* A procedure that returns. *)
LEMMA Ends ==
    ASSUME DsaInv, NEW op, At(op), op \notin {"challenge", "ntt", "invntt"},
           code' = <<>>, UNCHANGED <<layer, step, ball>>, Vectors', Bytes'
    PROVE  DsaInv'
<1>1. layer = 0 /\ step \in Procedures /\ code # <<>> /\ Head(code)[1] = op
  BY Begins
<1>2. Flow'
  BY <1>1, LastPlace DEF Steps, Procedures
<1>3. Rooms' /\ Canon' /\ Matrices'
  BY DEF Rooms, Canon, Matrices, At
<1>4. BallInv'
  <2>1. ball.i = 0
    BY <1>1 DEF DsaInv, BallInv, At
  <2> QED BY <2>1 DEF DsaInv, BallInv
<1> QED BY <1>2, <1>3, <1>4 DEF DsaInv

(* The vectors that a step leaves alone. *)
LEMMA VectorsKept ==
    ASSUME Vectors, UNCHANGED <<mem, bound>>, peak' \in Int, peak' < TooLarge
    PROVE  Vectors'
BY DEF Vectors

-----------------------------------------------------------------------------
(* Statements that may begin another attempt, or return. *)

LEMMA LimitIs ==
    ASSUME NEW x \in {"z", "w0", "h"}
    PROVE  Limit(x) \in Nat \ {0} /\ Limit(x) - 1 <= Small
<1>1. Limit("z") = GAMMA1 - BETA /\ Limit("w0") = GAMMA2 - BETA /\ Limit("h") = GAMMA2
  BY DEF Limit
<1> QED BY <1>1, Gamma2Is, SMT DEF GAMMA1, BETA, Small

LEMMA CheckKeeps == ASSUME DsaInv, SampleInv, Check PROVE DsaInv'
<1> DEFINE op == "check"
<1>1. /\ At(op) /\ peak' = Larger(peak, Twice(bound[X]))
      /\ UNCHANGED <<mem, layer, step, mat, sample, ball, pk, sk, sig, got>>
      /\ \/ /\ Chknorm(X) /\ UNCHANGED bound
            /\ step = "verify" => code' = <<>> /\ ret' = -1
            /\ step # "verify" => code' = Attempt /\ ret' = ret
         \/ /\ ~Chknorm(X) /\ Done /\ bound' = [bound EXCEPT ![X] = Limit(X) - 1]
            /\ ret' = ret
  BY SMT DEF Check, draws
<1>2. /\ Placed(step, Here, op, X, Y) /\ Vectors /\ code # <<>> /\ Head(code)[1] = op
      /\ \A x \in Names : First(step, x) < Here =>
            /\ bound[x] \in Nat /\ bound[x] <= Room(step, Here, x)
            /\ Room(step, Here, x) \in Nat /\ Fits(mem[x], Size(x), bound[x])
  BY <1>1, Begins
<1>3. Usual(op) /\ Writes(op, X) = {X}
  BY DEF Usual, Writes, Silent, Endings
<1>4. /\ X \in Names /\ First(step, X) < Here /\ X \in {"z", "w0", "h"}
      /\ Room(step, Here, X) <= Reduced /\ Room(step, Here + 1, X) = Small
  BY <1>2, <1>3 DEF Placed
<1>5. peak' \in Int /\ peak' < TooLarge
  <2>1. PICK b \in Nat : b = bound[X] /\ b <= Reduced
    <3>1. bound[X] \in Nat /\ bound[X] <= Room(step, Here, X) /\ Room(step, Here, X) \in Nat
      BY <1>2, <1>4
    <3>2. Reduced \in Nat
      BY DEF Reduced
    <3> QED BY <1>4, <3>1, <3>2
  <2>2. Twice(b) \in Int /\ Twice(b) < TooLarge
    BY <2>1, SMT DEF Twice, TooLarge, Reduced
  <2>3. peak \in Int /\ peak < TooLarge
    BY <1>2 DEF Vectors
  <2> QED BY <1>1, <2>1, <2>2, <2>3 DEF Larger
<1>6. CASE Chknorm(X) /\ UNCHANGED bound /\ step = "verify" /\ code' = <<>> /\ ret' = -1
  <2>1. Vectors'
    BY <1>1, <1>2, <1>5, <1>6, VectorsKept
  <2>2. Bytes'
    BY <1>1, <1>2, <1>6, BytesKept DEF DsaInv
  <2> QED BY <1>1, <1>6, <2>1, <2>2, Ends
<1>7. CASE Chknorm(X) /\ UNCHANGED bound /\ step # "verify" /\ code' = Attempt /\ ret' = ret
  <2>1. Vectors'
    BY <1>1, <1>2, <1>5, <1>7, VectorsKept
  <2>2. Quiet
    BY <1>1, <1>7 DEF Quiet
  <2> QED BY <1>1, <1>7, <2>1, <2>2, Again
<1>8. CASE /\ ~Chknorm(X) /\ Done /\ bound' = [bound EXCEPT ![X] = Limit(X) - 1]
           /\ ret' = ret
  <2>1. PICK l \in Nat \ {0} : l = Limit(X) /\ l - 1 <= Small
    BY <1>4, LimitIs
  <2>2. Fits(mem[X], Size(X), l - 1)
    <3>1. bound[X] \in Nat /\ Fits(mem[X], Size(X), bound[X])
      BY <1>2, <1>4
    <3>2. ASSUME NEW i \in 1 .. Size(X) PROVE Bounded(mem[X][i], l - 1)
      <4>1. ~PolyChknorm(mem[X][i], l)
        BY <1>8, <2>1, <3>1 DEF Chknorm, Fits
      <4>2. Bounded(mem[X][i], bound[X])
        BY <3>1 DEF Fits
      <4>3. PICK r : r = mem[X][i]
        OBVIOUS
      <4>4. PICK b \in Nat : b = bound[X]
        BY <3>1
      <4> QED BY <4>1, <4>2, <4>3, <4>4, NormWorst
    <3> QED BY <3>1, <3>2 DEF Fits
  <2>3. /\ bound \in [Names -> Nat] /\ DOMAIN mem = Names
    BY <1>2 DEF Vectors
  <2>4. l - 1 \in Nat
    OBVIOUS
  <2>5. Wrote
    BY <1>1, <1>2, <1>3, <1>4, <1>5, <1>8, <2>1, <2>2, <2>3, <2>4 DEF Wrote
  <2> QED BY <1>1, <1>3, <1>8, <2>5, KeepsAll DEF Quiet
<1> QED BY <1>1, <1>6, <1>7, <1>8

LEMMA MakeHintKeeps == ASSUME DsaInv, SampleInv, MakeHintStep PROVE DsaInv'
<1> DEFINE op == "make_hint"
<1>0. PICK v : v = Hints
  OBVIOUS
<1>1. /\ At(op) /\ Leave("h", v, 1, 0) /\ UNCHANGED layer /\ Quiet
      /\ code' = Attempt \/ Done
  <2>1. Once(Hints) = Hints
    BY DEF Once
  <2> QED BY <1>0, <2>1, SMT DEF MakeHintStep, Rest, draws, texts, world, Quiet, Done
<1>2. Placed(step, Here, op, X, Y) /\ Vectors /\ code # <<>> /\ Head(code)[1] = op
      /\ Here \in Nat
  BY <1>1, Begins
<1>3. Usual(op) /\ Writes(op, X) = {"h"} /\ "h" \in Names
  BY DEF Usual, Writes, Silent, Endings, Names
<1>4. step = "sign" /\ Room(step, Here + 1, "h") = Small
  BY <1>2 DEF Placed
<1>5. Fits(v, Size("h"), 1)
  BY <1>0, HintsFit DEF Size
<1>6. 1 \in Nat /\ 1 <= Small /\ 1 < TooLarge
  BY SMT DEF Small, TooLarge
<1>7. CASE Done
  BY <1>1, <1>3, <1>4, <1>5, <1>6, <1>7, TopFits, Keeps
<1>8. CASE code' = Attempt
  <2>1. Wrote
    BY <1>1, <1>2, <1>3, <1>4, <1>5, <1>6, TopFits, Left
  <2>2. Vectors'
    BY <1>2, <2>1 DEF Wrote, Vectors, Fits
  <2>3. \A x \in Names : x \notin Writes(op, X) => mem'[x] = mem[x] /\ bound'[x] = bound[x]
    BY <1>2, <2>1 DEF Wrote
  <2> QED BY <1>1, <1>4, <1>8, <2>2, <2>3, Again
<1> QED BY <1>1, <1>7, <1>8

LEMMA UnpackSigKeeps == ASSUME DsaInv, SampleInv, UnpackSig PROVE DsaInv'
<1> DEFINE op == "unpack_sig"
<1>0. PICK u, v : u = UnpackZ(L, got.sig.z) /\ v = DecodeHints(got.sig.h)
  OBVIOUS
<1>1. /\ At(op) /\ UNCHANGED <<peak, layer, step, mat, sample, ball, pk, sk, sig, got>>
      /\ \/ /\ mem' = [mem EXCEPT !["z"] = u, !["h"] = v]
            /\ bound' = [bound EXCEPT !["z"] = GAMMA1, !["h"] = 1]
            /\ Done /\ ret' = ret
         \/ code' = <<>> /\ UNCHANGED <<mem, bound>>
  BY <1>0, SMT DEF UnpackSig, draws
<1>2. Placed(step, Here, op, X, Y) /\ Vectors /\ code # <<>> /\ Head(code)[1] = op
  BY <1>1, Begins
<1>3. Usual(op) /\ Writes(op, X) = {"z", "h"}
  BY DEF Usual, Writes, Silent, Endings
<1>4. step = "verify" /\ Room(step, Here + 1, "z") = Small /\ Room(step, Here + 1, "h") = Small
  BY <1>2 DEF Placed
<1>5. CASE code' = <<>> /\ UNCHANGED <<mem, bound>>
  <2>1. Vectors'
    BY <1>1, <1>2, <1>5 DEF Vectors
  <2>2. Bytes'
    BY <1>1, <1>2, <1>4, <1>5, BytesKept DEF DsaInv
  <2> QED BY <1>1, <1>5, <2>1, <2>2, Ends
<1>6. CASE /\ mem' = [mem EXCEPT !["z"] = u, !["h"] = v]
           /\ bound' = [bound EXCEPT !["z"] = GAMMA1, !["h"] = 1]
           /\ Done /\ ret' = ret
  <2>1. Fits(u, L, GAMMA1)
    <3>1. Ints(got.sig.z, 640 * L)
      BY <1>2, <1>4 DEF DsaInv, Bytes
    <3>2. L \in Nat
      BY DEF L
    <3> QED BY <1>0, <3>1, <3>2, UnpackZFits
  <2>2. Fits(v, K, 1)
    BY <1>0, SMT DEF DecodeHints, Fits, Bounded, Within
  <2>3. PICK p \in Nat, q \in Nat : p = GAMMA1 /\ q = 1 /\ p <= Small /\ q <= Small
    BY SMT DEF Small, GAMMA1
  <2>4. /\ DOMAIN mem = Names /\ bound \in [Names -> Nat] /\ peak \in Int /\ peak < TooLarge
        /\ "z" \in Names /\ "h" \in Names
    BY <1>2 DEF Vectors, Names
  <2>5. Size("z") = L /\ Size("h") = K
    BY DEF Size
  <2>6. bound' = [bound EXCEPT !["z"] = p, !["h"] = q] /\ Fits(u, L, p) /\ Fits(v, K, q)
    BY <1>6, <2>1, <2>2, <2>3
  <2>7. /\ mem'["z"] = u /\ mem'["h"] = v /\ bound'["z"] = p /\ bound'["h"] = q
        /\ \A x \in Names : x \notin {"z", "h"} => mem'[x] = mem[x] /\ bound'[x] = bound[x]
        /\ DOMAIN mem' = Names /\ bound' \in [Names -> Nat]
    BY <1>6, <2>4, <2>6
  <2>8. Wrote
    BY <1>1, <1>2, <1>3, <1>4, <2>3, <2>4, <2>5, <2>6, <2>7 DEF Wrote
  <2> QED BY <1>1, <1>3, <1>6, <2>8, KeepsAll DEF Quiet
<1> QED BY <1>1, <1>5, <1>6

-----------------------------------------------------------------------------
(* The conditional addition leaves what is rounded next. *)
LEMMA CondAddQKeeps == ASSUME DsaInv, SampleInv, CondAddQ PROVE DsaInv'
<1> DEFINE op == "caddq"
<1>0. PICK v : v = [i \in DOMAIN mem[X] |-> PolyCaddq(mem[X][i])]
  OBVIOUS
<1>1. /\ At(op) /\ Leave(X, v, Larger(bound[X], Q - 1), 0)
      /\ Done /\ UNCHANGED layer /\ Quiet
  BY <1>0, Zenon DEF CondAddQ, Each, Rest, draws, texts, world, Quiet
<1>2. /\ Placed(step, Here, op, X, Y) /\ Vectors /\ code # <<>> /\ Head(code)[1] = op
      /\ layer = 0 /\ Here \in Nat
      /\ \A x \in Names : First(step, x) < Here =>
            /\ bound[x] \in Nat /\ bound[x] <= Room(step, Here, x)
            /\ Room(step, Here, x) \in Nat /\ Fits(mem[x], Size(x), bound[x])
  BY <1>1, Begins
<1>3. Writes(op, X) = {X}
  BY DEF Writes, Silent
<1>4. /\ X \in Names /\ First(step, X) < Here /\ X = RoundOf(step)
      /\ Here + 1 = RoundAt(step)
      /\ Room(step, Here, X) <= Full /\ Room(step, Here + 1, X) = Full
  BY <1>2, <1>3 DEF Placed
<1>5. PICK b \in Nat : b = bound[X] /\ b <= Full /\ Fits(mem[X], Size(X), b)
  <2>1. bound[X] \in Nat /\ bound[X] <= Room(step, Here, X) /\ Room(step, Here, X) \in Nat
        /\ Fits(mem[X], Size(X), bound[X])
    BY <1>2, <1>4
  <2>2. Full \in Nat
    BY DEF Full
  <2> QED BY <1>4, <2>1, <2>2
<1>6. PICK w \in Nat : w = Larger(b, Q - 1) /\ w <= Full /\ w < TooLarge
  BY <1>5, QIs, SMT DEF Larger, Full, TooLarge
<1>7. ASSUME NEW i \in 1 .. Size(X)
      PROVE  Bounded(v[i], w) /\ \A j \in Coeffs : v[i][j] \in 0 .. Q - 1
  <2>1. PICK r : r = mem[X][i]
    OBVIOUS
  <2>2. Bounded(r, b) /\ v[i] = PolyCaddq(r)
    BY <1>0, <1>5, <2>1 DEF Fits
  <2>3. /\ Bounded(PolyCaddq(r), Larger(b, Q - 1))
        /\ \A j \in Coeffs : PolyCaddq(r)[j] \in 0 .. Q - 1
    BY <1>5, <2>2, PolyCaddqWorst
  <2> QED BY <1>6, <2>2, <2>3
<1>8. Fits(v, Size(X), w)
  BY <1>0, <1>5, <1>7 DEF Fits
<1>9. Leave(X, v, w, 0)
  BY <1>1, <1>5, <1>6
<1>10. Wrote
  BY <1>2, <1>3, <1>4, <1>6, <1>8, <1>9, TopFits, Left
<1>11. code' = Tail(code) /\ layer' = 0 /\ step' = step /\ Flow /\ Rooms
  BY <1>1, <1>2 DEF Done, Quiet, DsaInv
<1>12. Flow' /\ Rooms' /\ Vectors' /\ Here' = Here + 1
  BY <1>2, <1>10, <1>11, Written
<1>13. Canon'
  <2>1. Size(X) = K
    BY <1>4 DEF Size, RoundOf
  <2>2. mem'[X] = v
    BY <1>2, <1>4, <1>9 DEF Leave, Vectors
  <2>3. \A k \in 1 .. K : \A j \in Coeffs : mem'[X][k][j] \in 0 .. Q - 1
    BY <1>7, <2>1, <2>2
  <2>4. RoundOf(step)' = X
    BY <1>4, <1>11 DEF RoundOf
  <2> QED BY <2>3, <2>4 DEF Canon
<1>14. Matrices'
  BY <1>1, <1>2, <1>11, <1>12, MatricesKept DEF Drawing, At, DsaInv, Quiet
<1>15. BallInv'
  BY <1>1, <1>2, <1>10, <1>11, <1>12, BallKept DEF DsaInv, Quiet
<1>16. Bytes'
  <2>1. Tail(code) # <<>>
    BY <1>2, <1>11, NotOver DEF Endings
  <2> QED BY <1>1, <1>2, <1>11, <2>1, BytesKept DEF DsaInv, Quiet
<1> QED BY <1>12, <1>13, <1>14, <1>15, <1>16 DEF DsaInv

-----------------------------------------------------------------------------
(* Statements with which a procedure returns. *)
LEMMA Over ==
    ASSUME DsaInv, NEW op \in Endings, At(op), Done
    PROVE  code' = <<>>
<1> DEFINE S == {Prog(step)[n] : n \in 1 .. Final(step)}
<1>1. code # <<>> /\ Head(code)[1] = op
  BY DEF At
<1>2. /\ step \in Procedures /\ Final(step) \in Nat
      /\ Tail(code) = SubSeq(Prog(step), Here + 1, Final(step))
      /\ Placed(step, Here, op, X, Y)
  BY <1>1, Standing DEF DsaInv
<1>3. Here = Final(step)
  BY <1>2 DEF Placed
<1>4. Prog(step) \in Seq(S) /\ Len(Prog(step)) = Final(step)
  BY <1>2, ProgTyped
<1> HIDE DEF S
<1>5. SubSeq(Prog(step), Final(step) + 1, Final(step)) = <<>>
  BY <1>2, <1>4
<1> QED BY <1>2, <1>3, <1>5 DEF Done

LEMMA PackKeysKeeps == ASSUME DsaInv, PackKeys PROVE DsaInv'
<1> DEFINE op == "pack_keys"
<1>0. PICK p, s1, s2, t0, tr : /\ p = [rho |-> rho, t1 |-> PackT1(mem["t1"])]
                               /\ s1 = PackEta(mem["s1"]) /\ s2 = PackEta(mem["s2"])
                               /\ t0 = PackT0(mem["t0"]) /\ tr = Tr(p)
  OBVIOUS
<1>1. /\ At(op) /\ Done /\ UNCHANGED <<mem, bound, peak, layer, step, ball, sig, got, ret>>
      /\ pk' = p
      /\ sk' = [sk EXCEPT !.rho = rho, !.tr = tr, !.s1 = s1, !.s2 = s2, !.t0 = t0]
  BY <1>0, SMT DEF PackKeys, ring, draws
<1>2. /\ Placed(step, Here, op, X, Y) /\ Vectors
      /\ \A x \in Names : First(step, x) < Here => Fits(mem[x], Size(x), bound[x])
  BY <1>1, Begins
<1>3. /\ step = "keypair" /\ {"t1", "t0", "s1", "s2"} \subseteq Names
      /\ First(step, "t1") < Here /\ First(step, "t0") < Here
      /\ First(step, "s1") < Here /\ First(step, "s2") < Here
  BY <1>2 DEF Placed
<1>4. /\ Fits(mem["t1"], K, bound["t1"]) /\ Fits(mem["t0"], K, bound["t0"])
      /\ Fits(mem["s1"], L, bound["s1"]) /\ Fits(mem["s2"], K, bound["s2"])
  BY <1>2, <1>3 DEF Size
<1>5. Ints(p.t1, 320 * K)
  <2>1. 320 * K \in Nat /\ K \in Nat /\ 320 * K = 32 * 10 * K /\ 0 \in Int
    BY DEF K
  <2>2. Ints(PackAll(10, mem["t1"]), 320 * K)
    BY <1>4, <2>1, PackedInts
  <2> QED BY <1>0, <2>2 DEF PackT1
<1>6. Ints(t0, 416 * K)
  <2>1. 416 * K \in Nat /\ K \in Nat /\ 416 * K = 32 * 13 * K
    BY DEF K
  <2>2. PICK top \in Int : top = 2^(D - 1)
    BY Powers
  <2>3. Ints(PackAll(13, Flip(top, mem["t0"])), 416 * K)
    BY <1>4, <2>1, PackedInts
  <2> QED BY <1>0, <2>2, <2>3 DEF PackT0
<1>7. Ints(s1, 128 * L) /\ Ints(s2, 128 * K)
  <2>1. 128 * L \in Nat /\ L \in Nat /\ 128 * L = 32 * 4 * L /\ ETA \in Int
    BY DEF L, ETA
  <2>2. 128 * K \in Nat /\ K \in Nat /\ 128 * K = 32 * 4 * K
    BY DEF K
  <2>3. Ints(PackAll(4, Flip(ETA, mem["s1"])), 128 * L)
    BY <1>4, <2>1, PackedInts
  <2>4. Ints(PackAll(4, Flip(ETA, mem["s2"])), 128 * K)
    BY <1>4, <2>1, <2>2, PackedInts
  <2> QED BY <1>0, <2>3, <2>4 DEF PackEta
<1>8. code' = <<>>
  <2>1. op \in Endings
    BY DEF Endings
  <2> QED BY <1>1, <2>1, Over
<1>9. Vectors'
  BY <1>1, <1>2, VectorsKept DEF Vectors
<1>10. Bytes'
  <2>1. DOMAIN sk = {"rho", "key", "tr", "s1", "s2", "t0"} /\ DOMAIN sig = {"c", "z", "h"}
    BY DEF DsaInv, Bytes
  <2>2. /\ DOMAIN sk' = {"rho", "key", "tr", "s1", "s2", "t0"}
        /\ sk'.s1 = s1 /\ sk'.s2 = s2 /\ sk'.t0 = t0
    BY <1>1, <2>1
  <2> QED BY <1>1, <1>3, <1>5, <1>6, <1>7, <2>1, <2>2 DEF Bytes
<1> QED BY <1>1, <1>8, <1>9, <1>10, Ends

LEMMA PackSigKeeps == ASSUME DsaInv, PackSig PROVE DsaInv'
<1> DEFINE op == "pack_sig"
<1>0. PICK z, h : z = PackZ(mem["z"]) /\ h = EncodeHints(mem["h"])
  OBVIOUS
<1>1. /\ At(op) /\ Done /\ UNCHANGED <<mem, bound, peak, layer, step, ball, pk, sk, got>>
      /\ sig' = [c |-> ctilde, z |-> z, h |-> h]
  BY <1>0, SMT DEF PackSig, ring, draws
<1>2. /\ Placed(step, Here, op, X, Y) /\ Vectors /\ code # <<>>
      /\ \A x \in Names : First(step, x) < Here => Fits(mem[x], Size(x), bound[x])
  BY <1>1, Begins
<1>3. step = "sign" /\ "z" \in Names /\ First(step, "z") < Here
  BY <1>2 DEF Placed
<1>4. Fits(mem["z"], L, bound["z"])
  BY <1>2, <1>3 DEF Size
<1>5. Ints(z, 640 * L) /\ DOMAIN z = 0 .. 640 * L - 1
  <2>1. 640 * L \in Nat /\ L \in Nat /\ 640 * L = 32 * 20 * L
    BY DEF L
  <2>2. PICK top \in Int : top = GAMMA1
    BY DEF GAMMA1
  <2>3. Ints(PackAll(20, Flip(top, mem["z"])), 640 * L)
        /\ DOMAIN PackAll(20, Flip(top, mem["z"])) = 0 .. 640 * L - 1
    BY <1>4, <2>1, PackedInts
  <2> QED BY <1>0, <2>2, <2>3 DEF PackZ
<1>8. code' = <<>>
  <2>1. op \in Endings
    BY DEF Endings
  <2> QED BY <1>1, <2>1, Over
<1>9. Vectors'
  BY <1>1, <1>2, VectorsKept DEF Vectors
<1>10. Bytes'
  <2>1. DOMAIN sig' = {"c", "z", "h"} /\ sig'.z = z
    BY <1>1
  <2> QED BY <1>1, <1>3, <1>5, <2>1 DEF DsaInv, Bytes
<1> QED BY <1>1, <1>8, <1>9, <1>10, Ends

LEMMA CompareKeeps == ASSUME DsaInv, Compare PROVE DsaInv'
<1> DEFINE op == "compare"
<1>1. At(op) /\ Done /\ UNCHANGED <<mem, bound, peak, layer, step, ball, pk, sk, sig, got>>
  BY SMT DEF Compare, ring, draws
<1>2. Placed(step, Here, op, X, Y) /\ Vectors /\ code # <<>>
  BY <1>1, Begins
<1>3. step = "verify"
  BY <1>2 DEF Placed
<1>8. code' = <<>>
  <2>1. op \in Endings
    BY DEF Endings
  <2> QED BY <1>1, <2>1, Over
<1>9. Vectors'
  BY <1>1, <1>2, VectorsKept DEF Vectors
<1>10. Bytes'
  BY <1>1, <1>2, <1>3, BytesKept DEF DsaInv
<1> QED BY <1>1, <1>8, <1>9, <1>10, Ends

-----------------------------------------------------------------------------
(* The transforms, a layer a step. *)

(* The worst case while a transform runs, when n layers are done. *)
LayerRoom(op, n) == IF op = "ntt" THEN Full + 4231745 * n ELSE Reduced * 2^n

LEMMA LayerPowers ==
    ASSUME NEW n \in 0 .. 7
    PROVE  2^n \in Lens /\ 128 \div 2^n \in Lens /\ 2^(n + 1) = 2 * 2^n
<1>1. /\ 2^0 = 1 /\ 2^1 = 2 /\ 2^2 = 4 /\ 2^3 = 8 /\ 2^4 = 16 /\ 2^5 = 32 /\ 2^6 = 64
      /\ 2^7 = 128 /\ 2^8 = 256
  BY SMT
<1>2. CASE n = 0
  BY <1>1, <1>2, SMT DEF Lens
<1>3. CASE n = 1
  BY <1>1, <1>3, SMT DEF Lens
<1>4. CASE n = 2
  BY <1>1, <1>4, SMT DEF Lens
<1>5. CASE n = 3
  BY <1>1, <1>5, SMT DEF Lens
<1>6. CASE n = 4
  BY <1>1, <1>6, SMT DEF Lens
<1>7. CASE n = 5
  BY <1>1, <1>7, SMT DEF Lens
<1>8. CASE n = 6
  BY <1>1, <1>8, SMT DEF Lens
<1>9. CASE n = 7
  BY <1>1, <1>9, SMT DEF Lens
<1> QED BY <1>2, <1>3, <1>4, <1>5, <1>6, <1>7, <1>8, <1>9, SMT

(* What a transform starts from, or goes on from. *)
LEMMA TransformBegins ==
    ASSUME DsaInv, NEW op \in {"ntt", "invntt"}, At(op)
    PROVE  /\ code # <<>> /\ Head(code)[1] = op /\ layer \in 0 .. 8 /\ Here \in Nat
           /\ op = "ntt" => layer < 8
           /\ Placed(step, Here, op, X, Y) /\ Vectors
           /\ X \in Names /\ First(step, X) < Here /\ Writes(op, X) = {X}
           /\ bound[X] \in Nat /\ bound[X] <= LayerRoom(op, layer)
           /\ Fits(mem[X], Size(X), bound[X])
<1>1. Flow /\ Rooms /\ Vectors
  BY DEF DsaInv
<1>2. code # <<>> /\ Head(code)[1] = op
  BY DEF At
<1>3. Placed(step, Here, op, X, Y) /\ Here \in Nat
  BY <1>1, <1>2, Standing
<1>4. layer \in 0 .. 8 /\ (op = "ntt" => layer < 8)
  <2>1. layer \in 0 .. 8 /\ (layer # 0 => (At("ntt") /\ layer < 8) \/ At("invntt"))
    BY <1>1 DEF Flow
  <2>2. op = "ntt" => ~At("invntt")
    BY <1>2 DEF At
  <2> QED BY <2>1, <2>2
<1>5. X \in Names /\ First(step, X) < Here /\ Writes(op, X) = {X}
  BY <1>3 DEF Placed, Writes, Silent
<1>6. bound[X] <= RoomNow(X) /\ DOMAIN mem[X] = 1 .. Size(X)
  BY <1>1, <1>2, <1>5 DEF Rooms
<1>7. bound[X] \in Nat /\ Fits(mem[X], Size(X), bound[X])
  BY <1>1, <1>5, <1>6 DEF Vectors, Fits
<1>8. bound[X] <= LayerRoom(op, layer)
  <2>1. CASE layer # 0
    BY <1>2, <1>6, <2>1 DEF RoomNow, LayerRoom, At
  <2>2. CASE layer = 0 /\ op = "ntt"
    <3>1. RoomNow(X) = Room(step, Here, X) /\ Room(step, Here, X) <= Full
      BY <1>3, <2>2 DEF RoomNow, Placed
    <3>2. Room(step, Here, X) \in Nat
      BY <1>3, RoomNat
    <3>3. Full \in Nat /\ LayerRoom(op, layer) = Full
      BY <2>2, SMT DEF LayerRoom, Full
    <3> QED BY <1>6, <1>7, <3>1, <3>2, <3>3
  <2>3. CASE layer = 0 /\ op = "invntt"
    <3>1. RoomNow(X) = Reduced
      BY <1>3, <2>3 DEF RoomNow, Placed
    <3>2. 2^0 = 1
      BY SMT
    <3>3. LayerRoom(op, layer) = Reduced
      BY <2>3, <3>2, SMT DEF LayerRoom, Reduced
    <3> QED BY <1>6, <3>1, <3>3
  <2> QED BY <2>1, <2>2, <2>3
<1> QED BY <1>1, <1>2, <1>3, <1>4, <1>5, <1>7, <1>8

(* A layer that is not the last. *)
LEMMA Halfway ==
    ASSUME DsaInv, SampleInv, NEW op \in {"ntt", "invntt"}, At(op), layer < 8,
           op = "ntt" => layer < 7, NEW val, NEW worst \in Nat, worst < TooLarge,
           worst <= LayerRoom(op, layer + 1), Fits(val, Size(X), worst),
           Leave(X, val, worst, 0), layer' = layer + 1, code' = code, Quiet
    PROVE  DsaInv'
<1>1. /\ Flow /\ Rooms /\ Vectors /\ Matrices /\ BallInv /\ Bytes
      /\ code # <<>> /\ Head(code)[1] = op /\ layer \in 0 .. 8 /\ Here \in Nat
      /\ Placed(step, Here, op, X, Y) /\ X \in Names /\ Writes(op, X) = {X}
  BY TransformBegins DEF DsaInv
<1>2. /\ step' = step /\ Here' = Here /\ X' = X /\ code' # <<>>
      /\ \A o : At(o)' = At(o)
  <2>1. step' = step
    BY DEF Quiet
  <2>2. Here' = Final(step') + 1 - Len(code')
    BY Zenon DEF Here
  <2>3. Here' = Here
    BY <2>1, <2>2, Zenon DEF Here
  <2> QED BY <1>1, <2>1, <2>3, Zenon DEF X, At
<1>3. /\ DOMAIN mem = Names /\ bound \in [Names -> Nat] /\ peak \in Int /\ peak < TooLarge
      /\ \A x \in Names : \A n \in DOMAIN mem[x] : Bounded(mem[x][n], bound[x])
  BY <1>1 DEF Vectors
<1>4. /\ DOMAIN mem' = Names /\ bound' \in [Names -> Nat]
      /\ mem'[X] = val /\ bound'[X] = worst
      /\ \A x \in Names : x # X => mem'[x] = mem[x] /\ bound'[x] = bound[x]
  BY <1>1, <1>3 DEF Leave
<1>5. peak' \in Int /\ peak' < TooLarge
  BY <1>3, TopFits DEF Leave, Larger
<1>6. Vectors'
  <2>1. ASSUME NEW x \in Names, NEW n \in DOMAIN mem'[x]
        PROVE  Bounded(mem'[x][n], bound'[x])
    <3>1. CASE x = X
      BY <1>4, <3>1 DEF Fits
    <3>2. CASE x # X
      BY <1>3, <1>4, <3>2
    <3> QED BY <3>1, <3>2
  <2>2. (\A x \in Names : \A n \in DOMAIN mem[x] : Bounded(mem[x][n], bound[x]))'
    BY <2>1
  <2> QED BY <1>4, <1>5, <2>2 DEF Vectors
<1>7. layer' \in 1 .. 8 /\ (op = "ntt" => layer' < 8)
  BY <1>1
<1>8. Flow'
  BY <1>1, <1>2, <1>7 DEF Flow
<1>9. Rooms'
  <2>1. ASSUME NEW x \in Names, First(step, x) < Here
        PROVE  bound'[x] <= RoomNow(x)' /\ DOMAIN mem'[x] = 1 .. Size(x)
    <3>1. CASE x = X
      <4>1. RoomNow(x)' = LayerRoom(op, layer + 1)
        BY <1>1, <1>2, <1>7, <3>1 DEF RoomNow, LayerRoom, At
      <4> QED BY <1>4, <3>1, <4>1 DEF Fits
    <3>2. CASE x # X
      <4>1. bound[x] <= Room(step, Here, x) /\ DOMAIN mem[x] = 1 .. Size(x)
        BY <1>1, <2>1, <3>2, RoomLeft
      <4>2. RoomNow(x)' = Room(step, Here, x)
        BY <1>2, <3>2 DEF RoomNow
      <4> QED BY <1>4, <3>2, <4>1, <4>2
    <3> QED BY <3>1, <3>2
  <2>2. \A x \in Names : First(step', x) < Here' =>
            bound'[x] <= RoomNow(x)' /\ DOMAIN mem'[x] = 1 .. Size(x)
    BY <1>2, <2>1
  <2> QED BY <2>2 DEF Rooms
<1>10. Canon'
  <2>1. Here # RoundAt(step)
    BY <1>1 DEF Placed, Roundings
  <2> QED BY <1>2, <2>1 DEF Canon
<1>11. Matrices'
  <2>1. ~At("gen_a") /\ ~At("eta")
    BY <1>1 DEF At
  <2> QED BY <1>1, <1>2, <2>1 DEF Matrices, Quiet
<1>12. BallInv'
  <2>1. ball.i = 0
    BY <1>1 DEF BallInv, At
  <2>2. (code # <<>> /\ BallAt(step) < Here /\ Here <= CpAt(step)
          /\ (Here = CpAt(step) => layer = 0) => InBall(mem["cp"][1], TAU))'
    <3> SUFFICES ASSUME BallAt(step) < Here, Here <= CpAt(step), Here # CpAt(step)
                 PROVE  InBall(mem'["cp"][1], TAU)
      BY <1>2, <1>7
    <3>1. InBall(mem["cp"][1], TAU)
      BY <1>1 DEF BallInv
    <3>2. "cp" \in Writes(op, X) => Here = BallAt(step) \/ Here = CpAt(step)
      BY <1>1 DEF Placed
    <3>3. BallAt(step) \in Nat
      BY DEF BallAt
    <3>4. X # "cp" /\ "cp" \in Names
      BY <1>1, <3>2, <3>3 DEF Names
    <3> QED BY <1>4, <3>1, <3>4
  <2> QED BY <1>1, <2>1, <2>2 DEF BallInv, Quiet
<1>13. Bytes'
  BY <1>1, <1>2, BytesKept DEF Quiet
<1> QED BY <1>6, <1>8, <1>9, <1>10, <1>11, <1>12, <1>13 DEF DsaInv

(* The last. *)
LEMMA TransformDone ==
    ASSUME DsaInv, SampleInv, NEW op \in {"ntt", "invntt"}, At(op),
           NEW val, NEW worst \in Nat, worst <= Room(step, Here + 1, X),
           Fits(val, Size(X), worst), Leave(X, val, worst, 0), layer' = 0, Done, Quiet
    PROVE  DsaInv'
<1>1. /\ code # <<>> /\ Head(code)[1] = op /\ Here \in Nat /\ Vectors
      /\ X \in Names /\ Writes(op, X) = {X}
  BY TransformBegins
<1>2. worst < TooLarge
  <2>1. Room(step, Here + 1, X) \in Nat /\ Room(step, Here + 1, X) <= Spread
    BY <1>1, RoomNat
  <2>2. Spread \in Int /\ TooLarge \in Int /\ Spread < TooLarge
    BY Sizes, SMT
  <2> QED BY <2>1, <2>2
<1>3. Wrote
  BY <1>1, <1>2, TopFits, Left
<1>4. op \notin Endings \cup {"gen_a", "eta", "challenge", "caddq"}
  BY DEF Endings
<1> QED BY <1>1, <1>3, <1>4, Advances DEF Quiet, Done

LEMMA NttFits ==
    ASSUME NEW n \in 0 .. 7, NEW b \in Nat, b <= LayerRoom("ntt", n)
    PROVE  LET w == b + FqmulBound(b, ZetaBound) IN
           w \in Nat /\ w <= LayerRoom("ntt", n + 1) /\ w <= Spread /\ w < TooLarge
<1>1. PICK c \in Nat : c = LayerRoom("ntt", n) /\ c = 8380416 + 4231745 * n
  BY SMT DEF LayerRoom, Full
<1>2. LayerRoom("ntt", n + 1) = c + 4231745
  BY <1>1, SMT DEF LayerRoom, Full
<1>3. b <= Spread
  BY <1>1, SMT DEF Spread
<1>4. PICK f \in Nat : f = FqmulBound(b, ZetaBound) /\ f <= 4231745
  BY <1>3, ProductsFit
<1>5. b + f <= c + 4231745 /\ c + 4231745 <= 42234376
  BY <1>1, <1>4, SMT
<1> QED BY <1>2, <1>4, <1>5, SMT DEF Spread, TooLarge

LEMMA InvNttFits ==
    ASSUME NEW n \in 0 .. 7, NEW b \in Nat, b <= LayerRoom("invntt", n)
    PROVE  LET w == Larger(Twice(b), FqmulBound(Twice(b), ZetaBound)) IN
           /\ Twice(b) = 2 * b
           /\ w \in Nat /\ w <= LayerRoom("invntt", n + 1) /\ w < TooLarge
<1>1. PICK p \in Nat : p = 2^n /\ 1 <= p /\ p <= 128 /\ 2^(n + 1) = 2 * p
  <2>1. 2^n \in Lens /\ 2^(n + 1) = 2 * 2^n
    BY LayerPowers
  <2>2. PICK p \in Lens : p = 2^n
    BY <2>1
  <2>3. p \in Nat /\ 1 <= p /\ p <= 128
    BY SMT DEF Lens
  <2> QED BY <2>1, <2>2, <2>3
<1>2. b <= 6283009 * p /\ LayerRoom("invntt", n + 1) = 6283009 * (2 * p)
  BY <1>1, SMT DEF LayerRoom, Reduced
<1>3. PICK m \in Nat : /\ m = 6283009 * (2 * p) /\ 12566018 <= m /\ m <= 1608450304
                       /\ 2 * b <= m
  BY <1>1, <1>2, SMT
<1>4. Twice(b) = 2 * b
  BY <1>3, SMT DEF Twice, TooLarge
<1>5. PICK f \in Nat : f = FqmulBound(Twice(b), ZetaBound) /\ f <= m
  <2>1. FqmulBound(2 * b, ZetaBound) = ((2 * b) \div 65536 + 1) * 64 + 4190209
    BY SMT DEF FqmulBound, ZetaBound, Q
  <2>2. PICK d \in Nat : d = (2 * b) \div 65536 /\ 65536 * d <= 2 * b
    BY SMT
  <2>3. (d + 1) * 64 + 4190209 <= m
    BY <1>3, <2>2, SMT
  <2> QED BY <1>4, <2>1, <2>2, <2>3
<1>6. PICK t \in Nat : t = 2 * b /\ t <= m
  BY <1>3
<1>7. Larger(t, f) \in Nat /\ Larger(t, f) <= m
  BY <1>5, <1>6 DEF Larger
<1>8. m < TooLarge /\ TooLarge \in Int
  BY <1>3, SMT DEF TooLarge
<1>9. Larger(Twice(b), FqmulBound(Twice(b), ZetaBound)) = Larger(t, f)
  BY <1>4, <1>5, <1>6
<1> QED BY <1>2, <1>3, <1>4, <1>7, <1>8, <1>9

LEMMA ScaleFits ==
    ASSUME NEW b \in Nat, b <= LayerRoom("invntt", 8)
    PROVE  FqmulBound(41978, b) \in Nat /\ FqmulBound(41978, b) <= Scaled
<1>1. 2^8 = 256
  BY SMT
<1>2. b <= 1608450304
  BY <1>1, SMT DEF LayerRoom, Reduced
<1>3. PICK d \in Nat : d = b \div 65536 /\ d <= 24543
  BY <1>2, SMT
<1>4. FqmulBound(41978, b) = d + 1 + 4190209
  BY <1>3, SMT DEF FqmulBound, Q
<1> QED BY <1>3, <1>4, SMT DEF Scaled

LEMMA NttKeeps == ASSUME DsaInv, SampleInv, Ntt PROVE DsaInv'
<1> DEFINE op == "ntt"
<1>0. PICK v : v = [i \in DOMAIN mem[X] |-> NttLayer(mem[X][i], 128 \div 2^layer)]
  OBVIOUS
<1>1. /\ At(op) /\ Leave(X, v, bound[X] + FqmulBound(bound[X], ZetaBound), 0) /\ Quiet
      /\ IF layer < 7 THEN layer' = layer + 1 /\ code' = code ELSE layer' = 0 /\ Done
  BY <1>0, Zenon DEF Ntt, Each, Rest, draws, texts, world, Quiet
<1>2. /\ code # <<>> /\ layer \in 0 .. 7 /\ Here \in Nat
      /\ Placed(step, Here, op, X, Y)
      /\ bound[X] \in Nat /\ bound[X] <= LayerRoom(op, layer)
      /\ Fits(mem[X], Size(X), bound[X])
  BY <1>1, TransformBegins
<1>3. PICK w \in Nat : /\ w = bound[X] + FqmulBound(bound[X], ZetaBound)
                       /\ w <= LayerRoom(op, layer + 1) /\ w <= Spread /\ w < TooLarge
  <2>1. PICK b \in Nat : b = bound[X] /\ b <= LayerRoom(op, layer)
    BY <1>2
  <2> QED BY <1>2, <2>1, NttFits
<1>4. Fits(v, Size(X), w)
  <2>1. PICK len \in Lens : len = 128 \div 2^layer
    BY <1>2, LayerPowers
  <2>2. ASSUME NEW i \in 1 .. Size(X) PROVE Bounded(v[i], w)
    <3>1. PICK r : r = mem[X][i]
      OBVIOUS
    <3>2. PICK b \in Int : b = bound[X] /\ 0 <= b /\ Bounded(r, b)
      BY <1>2, <3>1 DEF Fits
    <3>3. Bounded(NttLayer(r, len), b + FqmulBound(b, ZetaBound))
      BY <3>2, NttLayerWorst
    <3>4. v[i] = NttLayer(r, len)
      BY <1>0, <1>2, <2>1, <3>1 DEF Fits
    <3> QED BY <1>3, <3>2, <3>3, <3>4
  <2> QED BY <1>0, <1>2, <2>2 DEF Fits
<1>5. CASE layer < 7
  BY <1>1, <1>2, <1>3, <1>4, <1>5, Halfway
<1>6. CASE ~(layer < 7)
  <2>1. Room(step, Here + 1, X) = Spread
    BY <1>2 DEF Placed
  <2> QED BY <1>1, <1>2, <1>3, <1>4, <1>6, <2>1, TransformDone
<1> QED BY <1>5, <1>6

LEMMA InvNttKeeps == ASSUME DsaInv, SampleInv, InvNtt PROVE DsaInv'
<1> DEFINE op == "invntt"
<1>0. PICK v, u : /\ v = [i \in DOMAIN mem[X] |-> InvNttLayer(mem[X][i], 2^layer)]
                  /\ u = [i \in DOMAIN mem[X] |-> Scale(mem[X][i])]
  OBVIOUS
<1>1. /\ At(op) /\ Quiet
      /\ IF layer < 8
         THEN /\ Leave(X, v, Larger(Twice(bound[X]), FqmulBound(Twice(bound[X]), ZetaBound)), 0)
              /\ layer' = layer + 1 /\ code' = code
         ELSE /\ Leave(X, u, FqmulBound(41978, bound[X]), 0)
              /\ layer' = 0 /\ Done
  BY <1>0, SMT DEF InvNtt, Each, Rest, draws, texts, world, Quiet
<1>2. /\ code # <<>> /\ layer \in 0 .. 8 /\ Here \in Nat
      /\ Placed(step, Here, op, X, Y)
      /\ bound[X] \in Nat /\ bound[X] <= LayerRoom(op, layer)
      /\ Fits(mem[X], Size(X), bound[X])
  BY <1>1, TransformBegins
<1>3. CASE layer < 8
  <2>0. layer \in 0 .. 7
    BY <1>2, <1>3
  <2>1. PICK b \in Nat : b = bound[X] /\ b <= LayerRoom(op, layer)
    BY <1>2
  <2>2. PICK w \in Nat : /\ w = Larger(Twice(b), FqmulBound(Twice(b), ZetaBound))
                         /\ w <= LayerRoom(op, layer + 1) /\ w < TooLarge
    BY <2>0, <2>1, InvNttFits
  <2>3. Fits(v, Size(X), w)
    <3>1. PICK len \in Lens : len = 2^layer
      BY <2>0, LayerPowers
    <3>2. ASSUME NEW i \in 1 .. Size(X) PROVE Bounded(v[i], w)
      <4>1. PICK r : r = mem[X][i]
        OBVIOUS
      <4>2. b \in Int /\ 0 <= b /\ Bounded(r, b)
        BY <1>2, <2>1, <4>1 DEF Fits
      <4>3. Bounded(InvNttLayer(r, len), Larger(2 * b, FqmulBound(2 * b, ZetaBound)))
        BY <4>2, InvNttLayerWorst
      <4>4. v[i] = InvNttLayer(r, len)
        BY <1>0, <1>2, <3>1, <4>1 DEF Fits
      <4>5. Twice(b) = 2 * b
        BY <2>0, <2>1, InvNttFits
      <4> QED BY <2>2, <4>3, <4>4, <4>5
    <3> QED BY <1>0, <1>2, <3>2 DEF Fits
  <2>4. Leave(X, v, w, 0)
    BY <1>1, <1>3, <2>1, <2>2
  <2> QED BY <1>1, <1>2, <1>3, <2>2, <2>3, <2>4, Halfway
<1>4. CASE ~(layer < 8)
  <2>0. layer = 8
    BY <1>2, <1>4
  <2>1. PICK b \in Nat : b = bound[X] /\ b <= LayerRoom(op, 8)
    BY <1>2, <2>0
  <2>2. PICK w \in Nat : w = FqmulBound(41978, b) /\ w <= Scaled
    BY <2>1, ScaleFits
  <2>3. Fits(u, Size(X), w)
    <3>2. ASSUME NEW i \in 1 .. Size(X) PROVE Bounded(u[i], w)
      <4>1. PICK r : r = mem[X][i]
        OBVIOUS
      <4>2. Bounded(r, b)
        BY <1>2, <2>1, <4>1 DEF Fits
      <4>3. Bounded(Scale(r), FqmulBound(41978, b))
        BY <4>2, ScaleWorst
      <4>4. u[i] = Scale(r)
        BY <1>0, <1>2, <4>1 DEF Fits
      <4> QED BY <2>2, <4>3, <4>4
    <3> QED BY <1>0, <1>2, <3>2 DEF Fits
  <2>4. Leave(X, u, w, 0)
    BY <1>1, <1>4, <2>1, <2>2
  <2>5. Room(step, Here + 1, X) = Scaled
    BY <1>2 DEF Placed
  <2> QED BY <1>1, <1>2, <1>4, <2>2, <2>3, <2>4, <2>5, TransformDone
<1> QED BY <1>3, <1>4

-----------------------------------------------------------------------------
(* What is sampled. *)

LEMMA KeptUniform ==
    ASSUME StreamsOfBytes, SampleInv, At("gen_a"), Len(sample.kept) = N
    PROVE  [j \in Coeffs |-> sample.kept[j + 1]] \in Uniform
<1> DEFINE W == {v \in Wide : v < Q}
<1>1. PICK k \in Nat : k = sample.blocks /\ sample.kept = Sampled(k)
  BY DEF SampleInv
<1>2. PICK buf \in Seq(Byte0) : buf = Blocks(0, k)
  <2>1. 0 \in Nat
    OBVIOUS
  <2> QED BY <2>1, StretchTyped
<1>3. sample.kept = AtMost(N, Below(Candidates(buf), Q))
  BY <1>1, <1>2, Zenon DEF Sampled, Accept, RejUniform
<1>4. Below(Candidates(buf), Q) \in Seq(W)
  BY QIs, CandidatesTyped, BelowTyped
<1>5. W \subseteq 0 .. Q - 1
  BY QIs DEF Wide
<1> HIDE DEF W
<1>6. sample.kept \in Seq(W)
  <2>1. PICK n \in Nat : n = N
    BY DEF N
  <2> QED BY <1>3, <1>4, <2>1, AtMostTyped
<1>7. ASSUME NEW j \in Coeffs PROVE sample.kept[j + 1] \in 0 .. Q - 1
  <2>1. j + 1 \in 1 .. Len(sample.kept)
    BY DEF Coeffs, N
  <2>2. sample.kept[j + 1] \in W
    BY <1>6, <2>1, ElementOfSeq
  <2> QED BY <1>5, <2>2
<1> QED BY <1>7 DEF Uniform

LEMMA KeptNoise ==
    ASSUME StreamsOfBytes, SampleInv, ~At("gen_a"), Len(sample.kept) = N
    PROVE  [j \in Coeffs |-> sample.kept[j + 1]] \in Noise
<1> DEFINE W == {v \in Nibble : v < 9}
<1>1. PICK k \in Nat : k = sample.blocks /\ sample.kept = Sampled(k)
  BY DEF SampleInv
<1>2. PICK buf \in Seq(Byte0) : buf = Blocks(0, k)
  <2>1. 0 \in Nat
    OBVIOUS
  <2> QED BY <2>1, StretchTyped
<1>3. PICK good : good = AtMost(N, Below(Nibbles(buf), 9))
  OBVIOUS
<1>4. sample.kept = [n \in DOMAIN good |-> 4 - good[n]]
  BY <1>1, <1>2, <1>3, Zenon DEF Sampled, Accept, RejEta
<1>5. Below(Nibbles(buf), 9) \in Seq(W)
  <2>1. 9 \in Int
    OBVIOUS
  <2> QED BY <2>1, NibblesTyped, BelowTyped
<1>6. \A v \in W : 4 - v \in -ETA .. ETA
  BY SMT DEF Nibble, ETA
<1> HIDE DEF W
<1>7. good \in Seq(W)
  <2>1. PICK n \in Nat : n = N
    BY DEF N
  <2> QED BY <1>3, <1>5, <2>1, AtMostTyped
<1>8. Len(good) = N
  <2>1. DOMAIN good = 1 .. Len(good) /\ Len(good) \in Nat
    BY <1>7
  <2>2. PICK s : s = sample.kept
    OBVIOUS
  <2>3. Len(s) = Len(good)
    BY <1>4, <2>1, <2>2
  <2> QED BY <2>2, <2>3
<1>9. ASSUME NEW j \in Coeffs PROVE sample.kept[j + 1] \in -ETA .. ETA
  <2>1. j + 1 \in 1 .. Len(good)
    BY <1>8 DEF Coeffs, N
  <2>2. good[j + 1] \in W /\ j + 1 \in DOMAIN good
    BY <1>7, <2>1, ElementOfSeq
  <2>3. sample.kept[j + 1] = 4 - good[j + 1]
    BY <1>4, <2>2
  <2> QED BY <1>6, <2>2, <2>3
<1> QED BY <1>9 DEF Noise

(* While something is sampled only that changes. *)
LEMMA Unmoved ==
    ASSUME DsaInv, UNCHANGED <<code, step, mem, bound, peak, layer, mat, ball,
                               pk, sk, sig, got, ret>>, Matrices'
    PROVE  DsaInv'
<1>1. /\ \A o : At(o)' = At(o)
      /\ X' = X /\ Here' = Here
  BY Zenon DEF At, X, Here
<1>2. Flow'
  BY <1>1, Zenon DEF DsaInv, Flow
<1>3. \A x : RoomNow(x)' = RoomNow(x)
  BY <1>1 DEF RoomNow
<1>4. Rooms' /\ Vectors' /\ Canon'
  BY <1>1, <1>3, Zenon DEF DsaInv, Rooms, Vectors, Canon
<1>5. BallInv'
  BY <1>1, Zenon DEF DsaInv, BallInv
<1>6. Bytes
  BY DEF DsaInv
<1>7. Bytes'
  BY <1>6, SMT DEF Bytes
<1> QED BY <1>2, <1>4, <1>5, <1>7, Zenon DEF DsaInv

(* Nothing is under way, and the matrix there where it should be. *)
LEMMA NothingDrawn ==
    ASSUME sample' = NoSample,
           (code # <<>> /\ GenAt(step) < Here => mat \in Seq(Uniform) /\ Len(mat) = K * L)'
    PROVE  Matrices'
<1>1. sample'.done = <<>>
  BY DEF NoSample
<1>2. sample'.done \in Seq(Uniform) /\ sample'.done \in Seq(Noise)
      /\ Len(sample'.done) = 0
  BY <1>1
<1>3. 0 < K * L /\ \A x : 0 < Size(x)
  BY DEF K, L, Size
<1> QED BY <1>2, <1>3 DEF Matrices

(* A step that ends the sampling of a vector, or of the matrix. *)
LEMMA Drawn ==
    ASSUME DsaInv, NEW op \in {"gen_a", "eta"}, At(op), Wrote, Done, UNCHANGED layer,
           UNCHANGED <<step, ball, pk, sk, sig, got, ret>>, Matrices'
    PROVE  DsaInv'
<1>1. /\ Flow /\ Rooms /\ Vectors /\ Canon /\ BallInv /\ Bytes
      /\ code # <<>> /\ Head(code)[1] = op /\ layer = 0
  BY Begins DEF DsaInv
<1>2. Flow' /\ Rooms' /\ Vectors' /\ Here' = Here + 1
  BY <1>1, Written DEF Done
<1>3. Canon'
  BY <1>1, <1>2, CanonKept DEF Done
<1>4. BallInv'
  BY <1>1, <1>2, BallKept DEF Done
<1>5. Bytes'
  <2>1. op \notin Endings
    BY DEF Endings
  <2> QED BY <1>1, <2>1, NotOver, BytesKept DEF Done
<1> QED BY <1>2, <1>3, <1>4, <1>5 DEF DsaInv

LEMMA SampleBlocksKeeps == ASSUME DsaInv, SampleInv, SampleBlocks PROVE DsaInv'
<1> DEFINE n == IF sample.blocks = 0 THEN FirstBlocks ELSE 1
           buf == sample.left \o Blocks(sample.blocks, n)
           off == IF At("gen_a") THEN Len(buf) % 3 ELSE 0
<1>1. /\ sample' = [sample EXCEPT !.blocks = @ + n,
                                  !.kept = @ \o Accept(N - Len(@), buf),
                                  !.left = SubSeq(buf, Len(buf) - off + 1, Len(buf))]
      /\ UNCHANGED <<code, step, mem, bound, peak, layer, mat, ball, pk, sk, sig, got, ret>>
  BY Zenon DEF SampleBlocks, ring, world
<1> HIDE DEF n, buf, off
<1>2. sample'.done = sample.done
  <2>1. sample = [done |-> sample.done, blocks |-> sample.blocks,
                  kept |-> sample.kept, left |-> <<>>]
    BY DEF SampleInv
  <2> QED BY <1>1, <2>1
<1>3. (\A o : At(o)' = At(o)) /\ X' = X /\ Here' = Here
  BY <1>1, Zenon DEF At, X, Here
<1>4. Matrices'
  BY <1>1, <1>2, <1>3, Zenon DEF DsaInv, Matrices
<1> QED BY <1>1, <1>4, Unmoved

LEMMA SampleDoneKeeps == ASSUME StreamsOfBytes, DsaInv, SampleInv, SampleDone PROVE DsaInv'
<1>0. PICK p : p = [j \in Coeffs |-> sample.kept[j + 1]]
  OBVIOUS
<1>00. PICK done : done = Append(sample.done, p)
  OBVIOUS
<1>1. /\ At("gen_a") \/ At("eta")
      /\ Len(sample.kept) = N
      /\ UNCHANGED <<step, ball, pk, sk, sig, got, ret>>
      /\ IF Len(done) < Entries
         THEN /\ sample' = [NoSample EXCEPT !.done = done]
              /\ UNCHANGED <<code, mem, bound, peak, layer, mat>>
         ELSE /\ sample' = NoSample
              /\ Done
              /\ IF At("gen_a")
                 THEN mat' = done /\ UNCHANGED <<mem, bound, peak, layer>>
                 ELSE Leave(X, done, ETA, 0) /\ UNCHANGED <<mat, layer>>
  BY <1>0, <1>00, SMT DEF SampleDone, ring, world
<1>2. PICK op \in {"gen_a", "eta"} : At(op)
  BY <1>1
<1>3. /\ Placed(step, Here, op, X, Y) /\ Vectors /\ code # <<>> /\ Head(code)[1] = op
      /\ layer = 0 /\ Here \in Nat /\ step \in Procedures
  BY <1>2, Begins
<1>4. Flow /\ Matrices
  BY DEF DsaInv
<1>5. op = "eta" => /\ Entries = Size(X) /\ step = "keypair" /\ X \in {"s1", "s2"}
                    /\ Room(step, Here + 1, X) = Small /\ ~At("gen_a")
  BY <1>3 DEF Placed, Entries, Size, At
<1>6. op = "gen_a" => Entries = K * L
  BY <1>2 DEF Entries
<1>70. PICK S : S = IF op = "gen_a" THEN Uniform ELSE Noise
  OBVIOUS
<1>71. PICK n \in Nat : n = IF op = "gen_a" THEN K * L ELSE Size(X)
  BY SizeNat DEF K, L
<1>7. /\ op = "gen_a" => S = Uniform /\ n = K * L
      /\ op = "eta" => S = Noise /\ n = Size(X)
  BY <1>70, <1>71
<1>8. p \in S
  <2>1. op = "gen_a" => p \in Uniform
    BY <1>0, <1>1, <1>2, KeptUniform
  <2>2. op = "eta" => p \in Noise
    BY <1>0, <1>1, <1>5, KeptNoise
  <2> QED BY <1>7, <2>1, <2>2
<1>9. sample.done \in Seq(S) /\ Len(sample.done) < n
  BY <1>2, <1>4, <1>7 DEF Matrices
<1>10. done \in Seq(S) /\ Len(done) = Len(sample.done) + 1 /\ Len(done) <= n
  BY <1>00, <1>8, <1>9
<1>11. Entries = n
  BY <1>5, <1>6, <1>7
<1>12. CASE Len(done) < Entries
  <2>1. sample'.done = done
    BY <1>1, <1>12 DEF NoSample
  <2>2. (\A o : At(o)' = At(o)) /\ X' = X /\ Here' = Here
    BY <1>1, <1>12, Zenon DEF At, X, Here
  <2>3. Matrices'
    <3>1. At("gen_a") => op = "gen_a"
      BY <1>3 DEF At
    <3>2. At("eta") => op = "eta"
      BY <1>3 DEF At
    <3>3. At("gen_a") => sample'.done \in Seq(Uniform) /\ Len(sample'.done) < K * L
      BY <1>6, <1>7, <1>10, <1>12, <2>1, <3>1
    <3>4. At("eta") => sample'.done \in Seq(Noise) /\ Len(sample'.done) < Size(X)
      BY <1>5, <1>7, <1>10, <1>12, <2>1, <3>2
    <3> QED BY <1>1, <1>4, <1>12, <2>2, <3>3, <3>4, Zenon DEF Matrices
  <2> QED BY <1>1, <1>12, <2>3, Unmoved
<1>13. CASE ~(Len(done) < Entries)
  <2>0. Len(done) = n /\ n \in Nat
    BY <1>10, <1>11, <1>13
  <2>1. Flow' /\ Here' = Here + 1 /\ step' = step
    BY <1>1, <1>3, <1>4, <1>13, NextPlace DEF Done
  <2>2. CASE op = "gen_a"
    <3>1. mat' = done /\ UNCHANGED <<mem, bound, peak, layer>>
      BY <1>1, <1>2, <1>13, <2>2
    <3>2. Writes(op, X) = {}
      BY <2>2 DEF Writes, Silent
    <3>3. Wrote
      BY <1>3, <3>1, <3>2, NoneWritten
    <3>4. Matrices'
      BY <1>1, <1>7, <1>10, <1>13, <2>0, <2>2, <3>1, NothingDrawn
    <3> QED BY <1>1, <1>2, <1>13, <3>1, <3>3, <3>4, Drawn
  <2>3. CASE op = "eta"
    <3>1. Leave(X, done, ETA, 0) /\ UNCHANGED <<mat, layer>>
      BY <1>1, <1>5, <1>13, <2>3
    <3>2. Writes(op, X) = {X} /\ X \in Names
      BY <1>5, <2>3 DEF Writes, Silent, Names
    <3>3. Fits(done, Size(X), ETA)
      <4>1. ASSUME NEW i \in 1 .. n PROVE Bounded(done[i], ETA)
        <5>1. done[i] \in Noise
          BY <1>7, <1>10, <2>0, <2>3, <4>1, ElementOfSeq
        <5> QED BY <5>1 DEF Noise, Bounded, Within, ETA
      <4>2. DOMAIN done = 1 .. n
        BY <1>10, <2>0
      <4> QED BY <1>7, <2>3, <4>1, <4>2 DEF Fits
    <3>4. ETA \in Nat /\ ETA <= Small /\ ETA < TooLarge
      BY SMT DEF ETA, Small, TooLarge
    <3>5. Wrote
      BY <1>3, <1>5, <2>3, <3>1, <3>2, <3>3, <3>4, TopFits, Left
    <3>6. Matrices'
      <4>1. GenAt(step) = 1 /\ Here # GenAt(step) /\ Here \in 1 .. Final(step)
        BY <1>3, <1>4, <1>5, <2>3, Standing DEF Placed, GenAt
      <4>2. mat \in Seq(Uniform) /\ Len(mat) = K * L
        BY <1>3, <1>4, <4>1 DEF Matrices
      <4> QED BY <1>1, <1>13, <3>1, <4>2, NothingDrawn
    <3> QED BY <1>1, <1>2, <1>13, <3>1, <3>5, <3>6, Drawn
  <2> QED BY <2>2, <2>3
<1> QED BY <1>12, <1>13

-----------------------------------------------------------------------------
(* The challenge. *)

Signed == {0, 1, -1}

(* A sign that is written moves the coefficient that was there: one more is not
   zero, and none beyond the position. *)
LEMMA PlaceAdds ==
    ASSUME NEW c \in [Coeffs -> Signed], NEW i \in Coeffs, NEW b \in Coeffs, b <= i,
           \A j \in Nonzero(c) : j < i, NEW s \in {1, -1}
    PROVE  /\ Place(c, i, b, s) \in [Coeffs -> Signed]
           /\ Cardinality(Nonzero(Place(c, i, b, s))) = Cardinality(Nonzero(c)) + 1
           /\ \A j \in Nonzero(Place(c, i, b, s)) : j < i + 1
           /\ Cardinality(Nonzero(c)) \in Nat
<1>1. PICK d : d = Place(c, i, b, s)
  OBVIOUS
<1>2. /\ d \in [Coeffs -> Signed] /\ d[b] = s
      /\ b # i => d[i] = c[b]
      /\ \A j \in Coeffs : j # i /\ j # b => d[j] = c[j]
  BY <1>1 DEF Place, Signed
<1>3. IsFiniteSet(Nonzero(c))
  <2>1. IsFiniteSet(0 .. N - 1)
    <3>1. PICK m \in Int, n \in Int : m = 0 /\ n = N - 1
      BY DEF N
    <3>2. IsFiniteSet(m .. n)
      BY FS_Interval
    <3> QED BY <3>1, <3>2
  <2>2. Nonzero(c) \subseteq 0 .. N - 1
    BY DEF Nonzero, Coeffs
  <2> QED BY <2>1, <2>2, FS_Subset
<1>4. c[i] = 0
  <2>1. i \notin Nonzero(c)
    BY DEF Coeffs
  <2> QED BY <2>1 DEF Nonzero
<1>5. PICK n \in Coeffs : /\ Nonzero(d) = Nonzero(c) \cup {n} /\ n \notin Nonzero(c) /\ n <= i
  <2>0. s # 0
    OBVIOUS
  <2>1. CASE b = i \/ c[b] # 0
    <3>1. Nonzero(d) = Nonzero(c) \cup {i}
      BY <1>2, <1>4, <2>0, <2>1 DEF Nonzero
    <3>2. i \notin Nonzero(c)
      BY <1>4 DEF Nonzero
    <3> QED BY <3>1, <3>2 DEF Coeffs
  <2>2. CASE b # i /\ c[b] = 0
    <3>1. Nonzero(d) = Nonzero(c) \cup {b}
      BY <1>2, <1>4, <2>0, <2>2 DEF Nonzero
    <3>2. b \notin Nonzero(c)
      BY <2>2 DEF Nonzero
    <3> QED BY <3>1, <3>2
  <2> QED BY <2>1, <2>2
<1>6. Cardinality(Nonzero(d)) = Cardinality(Nonzero(c)) + 1
  BY <1>3, <1>5, FS_AddElement
<1>7. Cardinality(Nonzero(c)) \in Nat
  BY <1>3, FS_CardinalityType
<1>8. \A j \in Nonzero(d) : j < i + 1
  <2>1. ASSUME NEW j \in Nonzero(d) PROVE j < i + 1
    <3>1. j \in Nonzero(c) \/ j = n
      BY <1>5
    <3>2. j \in Int /\ n \in Int /\ i \in Int
      BY <2>1 DEF Nonzero, Coeffs
    <3> QED BY <1>5, <3>1, <3>2
  <2> QED BY <2>1
<1> QED BY <1>1, <1>2, <1>6, <1>7, <1>8

(* What grows is of the size of one. *)
LEMMA SignedFits == ASSUME NEW c \in [Coeffs -> Signed] PROVE Fits(<<c>>, 1, 1)
<1>1. Bounded(c, 1)
  BY DEF Signed, Bounded, Within
<1> QED BY <1>1 DEF Fits

(* The place of the challenge, and what is not there yet. *)
LEMMA BallPlace ==
    ASSUME DsaInv, At("challenge")
    PROVE  /\ code # <<>> /\ Head(code)[1] = "challenge" /\ layer = 0 /\ Here \in Nat
           /\ step \in Procedures /\ First(step, "cp") = Here /\ Here = BallAt(step)
           /\ Here # RoundAt(step) /\ Room(step, Here + 1, "cp") = Small
           /\ "cp" \in Names /\ Size("cp") = 1 /\ Writes("challenge", X) = {"cp"}
           /\ Placed(step, Here, "challenge", X, Y)
<1> DEFINE op == "challenge"
<1>1. /\ code # <<>> /\ Head(code)[1] = op /\ layer = 0 /\ Here \in Nat
      /\ step \in Procedures /\ Placed(step, Here, op, X, Y)
  BY Begins
<1>2. Here = BallAt(step) /\ Here # RoundAt(step) /\ Room(step, Here + 1, "cp") = Small
  BY <1>1 DEF Placed, Roundings
<1>3. First(step, "cp") = BallAt(step)
  BY <1>1 DEF First, KeypairFirst, SignFirst, VerifyFirst, BallAt, Procedures
<1>4. "cp" \in Names /\ Size("cp") = 1 /\ Writes(op, X) = {"cp"}
  BY DEF Names, Size, Writes, Silent
<1> QED BY <1>1, <1>2, <1>3, <1>4

(* While the challenge grows only it changes. *)
LEMMA Grows ==
    ASSUME DsaInv, At("challenge"),
           UNCHANGED <<code, step, layer, mat, sample, pk, sk, sig, got, ret>>,
           \A x \in Names : x # "cp" => mem'[x] = mem[x] /\ bound'[x] = bound[x],
           Vectors', BallInv'
    PROVE  DsaInv'
<1>1. (\A o : At(o)' = At(o)) /\ X' = X /\ Here' = Here
  BY Zenon DEF At, X, Here
<1>2. Flow'
  BY <1>1, Zenon DEF DsaInv, Flow
<1>3. /\ layer = 0 /\ First(step, "cp") = Here /\ Here \in Nat /\ Here # RoundAt(step)
  BY BallPlace
<1>4. \A x : RoomNow(x)' = RoomNow(x)
  BY <1>1, <1>3 DEF RoomNow
<1>5. Rooms'
  <2>1. ASSUME NEW x \in Names, code # <<>>, First(step, x) < Here
        PROVE  bound'[x] <= RoomNow(x) /\ DOMAIN mem'[x] = 1 .. Size(x)
    <3>1. x # "cp"
      BY <1>3, <2>1
    <3> QED BY <2>1, <3>1 DEF DsaInv, Rooms
  <2> QED BY <1>1, <1>4, <2>1 DEF Rooms
<1>6. Canon'
  BY <1>1, <1>3 DEF Canon
<1>7. Matrices'
  BY <1>1, Zenon DEF DsaInv, Matrices
<1>8. Bytes'
  BY DEF DsaInv, Bytes
<1> QED BY <1>2, <1>5, <1>6, <1>7, <1>8 DEF DsaInv

(* The polynomial that is written. *)
LEMMA CpWritten ==
    ASSUME Vectors, NEW c \in [Coeffs -> Signed], Leave("cp", <<c>>, 1, 0)
    PROVE  /\ Vectors' /\ mem'["cp"][1] = c /\ bound'["cp"] = 1
           /\ Fits(mem'["cp"], 1, 1)
           /\ \A x \in Names : x # "cp" => mem'[x] = mem[x] /\ bound'[x] = bound[x]
<1>1. DOMAIN mem = Names /\ bound \in [Names -> Nat] /\ peak \in Int /\ peak < TooLarge
      /\ \A x \in Names : \A n \in DOMAIN mem[x] : Bounded(mem[x][n], bound[x])
  BY DEF Vectors
<1>2. PICK u : u = <<c>>
  OBVIOUS
<1>3. "cp" \in Names
  BY DEF Names
<1>4. /\ DOMAIN mem' = Names /\ bound' \in [Names -> Nat]
      /\ mem'["cp"] = u /\ bound'["cp"] = 1
      /\ \A x \in Names : x # "cp" => mem'[x] = mem[x] /\ bound'[x] = bound[x]
  BY <1>1, <1>2, <1>3 DEF Leave
<1>5. peak' \in Int /\ peak' < TooLarge
  <2>1. 1 \in Int /\ 0 \in Int /\ 1 < TooLarge /\ 0 < TooLarge
    BY SMT DEF TooLarge
  <2> QED BY <1>1, <2>1 DEF Leave, Larger
<1>6. Fits(u, 1, 1) /\ u[1] = c
  BY <1>2, SignedFits
<1>7. \A x \in Names : \A n \in DOMAIN mem'[x] : Bounded(mem'[x][n], bound'[x])
  BY <1>1, <1>4, <1>6 DEF Fits
<1>8. Vectors'
  BY <1>4, <1>5, <1>7 DEF Vectors
<1> QED BY <1>4, <1>6, <1>8

LEMMA StartChallengeKeeps ==
    ASSUME StreamsOfBytes, DsaInv, SampleInv, StartChallenge PROVE DsaInv'
<1>0. PICK c, g, buf : /\ c = [j \in Coeffs |-> 0]
                       /\ buf = BallBlock(ctilde, 0)
                       /\ g = [n \in 1 .. TAU |->
                                 (buf[(n - 1) \div 8 + 1] \div 2^((n - 1) % 8)) % 2]
  OBVIOUS
<1>1. /\ At("challenge") /\ Leave("cp", <<c>>, 1, 0)
      /\ ball' = [i |-> N - TAU, pos |-> 8, block |-> 0, signs |-> g]
      /\ UNCHANGED <<code, step, layer, mat, sample, pk, sk, sig, got, ret>>
  BY <1>0, Zenon DEF StartChallenge, world
<1>2. c \in [Coeffs -> Signed] /\ Nonzero(c) = {}
  BY <1>0 DEF Signed, Nonzero
<1>3. Vectors
  BY DEF DsaInv
<1>4. /\ Vectors' /\ mem'["cp"][1] = c
      /\ \A x \in Names : x # "cp" => mem'[x] = mem[x] /\ bound'[x] = bound[x]
  BY <1>1, <1>2, <1>3, CpWritten
<1>5. g \in Seq({0, 1}) /\ Len(g) = TAU
  <2>1. buf \in Seq(Byte0) /\ Len(buf) = 136
    <3>1. PICK z \in Nat : z = 0
      OBVIOUS
    <3>2. \A a : BallBlock(a, z) \in Seq(Byte0) /\ Len(BallBlock(a, z)) = 136
      BY ZenonT(60) DEF StreamsOfBytes
    <3> QED BY <1>0, <3>1, <3>2
  <2>2. PICK t \in Nat : t = TAU /\ t = 49
    BY DEF TAU
  <2> DEFINE F(n) == (buf[(n - 1) \div 8 + 1] \div 2^((n - 1) % 8)) % 2
  <2>3. ASSUME NEW n \in 1 .. t PROVE F(n) \in {0, 1}
    <3>1. (n - 1) \div 8 + 1 \in 1 .. Len(buf) /\ (n - 1) % 8 \in 0 .. 7
      BY <2>1, <2>2, <2>3, SMT
    <3>2. PICK k \in 1 .. Len(buf), e \in 0 .. 7 : k = (n - 1) \div 8 + 1 /\ e = (n - 1) % 8
      BY <3>1
    <3>3. PICK v \in Int : v = buf[k]
      <4>1. buf[k] \in Int
        <5>1. buf \in Seq(Byte0)
          BY <2>1
        <5> QED BY <3>2, <5>1, ByteInt
      <4> QED BY <4>1
    <3>4. PICK l \in Lens : l = 2^e
      BY LayerPowers
    <3>5. l \in Int /\ 0 < l
      BY SMT DEF Lens
    <3>6. (v \div l) % 2 \in {0, 1}
      BY <3>5, SMT
    <3>7. F(n) = (v \div l) % 2
      BY <3>2, <3>3, <3>4
    <3> QED BY <3>6, <3>7
  <2> HIDE DEF F
  <2>4. g = [n \in 1 .. t |-> F(n)]
    BY <1>0, <2>2 DEF F
  <2>5. g \in [1 .. t -> {0, 1}]
    BY <2>3, <2>4
  <2> QED BY <2>2, <2>5, FunctionSeq
<1>6. Here' = Here /\ At("challenge")'
  BY <1>1, Zenon DEF At, Here
<1>7. BallInv'
  <2>1. ball' \in [i : Nat, pos : Nat, block : Nat, signs : Seq({0, 1})]
    BY <1>1, <1>5 DEF N, TAU
  <2>2. /\ ball'.i = N - TAU /\ ball'.pos = 8 /\ ball'.signs = g
    BY <1>1
  <2>3. InBall(c, 0)
    BY <1>2, FS_EmptySet DEF InBall, Signed
  <2>4. Here = BallAt(step) /\ Here \in Nat
    BY <1>1, BallPlace
  <2>5. /\ N - TAU \in N - TAU .. N - 1 /\ Len(g) = N - (N - TAU)
        /\ N - TAU - (N - TAU) = 0 /\ N - TAU # 0
    BY <1>5 DEF N, TAU
  <2>6. ~(BallAt(step) < Here)'
    BY <1>1, <1>6, <2>4
  <2>7. InBall(mem'["cp"][1], ball'.i - (N - TAU))
    BY <1>4, <2>2, <2>3, <2>5
  <2> QED BY <1>2, <1>4, <1>6, <2>1, <2>2, <2>5, <2>6, <2>7 DEF BallInv
<1> QED BY <1>1, <1>4, <1>7, Grows

(* The byte that comes next. *)
LEMMA BallByte ==
    ASSUME StreamsOfBytes, NEW n \in Nat, NEW p \in 0 .. 135
    PROVE  BallBlock(ctilde, n)[p + 1] \in 0 .. 255
<1>1. \A a : BallBlock(a, n) \in Seq(Byte0) /\ Len(BallBlock(a, n)) = 136
  BY ZenonT(60) DEF StreamsOfBytes
<1>2. PICK buf : buf = BallBlock(ctilde, n)
  OBVIOUS
<1>3. buf \in Seq(Byte0) /\ p + 1 \in 1 .. Len(buf)
  <2>1. buf \in Seq(Byte0) /\ Len(buf) = 136
    BY <1>1, <1>2, Zenon
  <2> QED BY <2>1
<1>4. buf[p + 1] \in Byte0
  BY <1>3, ElementOfSeq
<1> QED BY <1>2, <1>4 DEF Byte0

LEMMA GrowChallengeKeeps ==
    ASSUME StreamsOfBytes, DsaInv, SampleInv, GrowChallenge PROVE DsaInv'
<1> DEFINE op == "challenge"
           full == ball.pos >= STREAM256_BLOCKBYTES
           block == IF full THEN ball.block + 1 ELSE ball.block
           pos == IF full THEN 0 ELSE ball.pos
           b == BallBlock(ctilde, block)[pos + 1]
           sign == 1 - 2 * Head(ball.signs)
           c == mem["cp"][1]
           d == Place(c, ball.i, b, sign)
<1>1. /\ At(op) /\ ball.i # 0
      /\ UNCHANGED <<step, mat, sample, pk, sk, sig, got, ret>>
      /\ IF b > ball.i
         THEN /\ ball' = [ball EXCEPT !.pos = pos + 1, !.block = block]
              /\ UNCHANGED <<code, mem, bound, peak, layer>>
         ELSE /\ Leave("cp", <<d>>, 1, 0)
              /\ ball' = IF ball.i = N - 1 THEN NoBall
                         ELSE [i |-> ball.i + 1, pos |-> pos + 1, block |-> block,
                               signs |-> Tail(ball.signs)]
              /\ code' = IF ball.i = N - 1 THEN Tail(code) ELSE code
              /\ UNCHANGED layer
  BY Zenon DEF GrowChallenge, ring, world
<1>2. /\ ball \in [i : Nat, pos : Nat, block : Nat, signs : Seq({0, 1})]
      /\ ball.i \in N - TAU .. N - 1 /\ ball.pos \in 0 .. 136
      /\ Len(ball.signs) = N - ball.i
      /\ InBall(c, ball.i - (N - TAU))
      /\ \A j \in Nonzero(c) : j < ball.i
  BY <1>1 DEF DsaInv, BallInv
<1>2a. ball.i \in 207 .. 255
  BY <1>2 DEF N, TAU
<1>2b. /\ ball.pos \in 0 .. 136 /\ ball.block \in Nat
       /\ ball.signs \in Seq({0, 1})
  BY <1>2
<1>2c. PICK at \in Nat : at = ball.i /\ 207 <= at /\ at <= 255
  BY <1>2a
<1>3. block \in Nat /\ pos \in 0 .. 135
  <2>1. CASE full
    BY <1>2b, <2>1
  <2>2. CASE ~full
    BY <1>2b, <2>2 DEF STREAM256_BLOCKBYTES
  <2> QED BY <2>1, <2>2
<1> HIDE DEF block, pos, full
<1>4. b \in 0 .. 255
  BY <1>3, BallByte
<1>5. sign \in {1, -1} /\ Tail(ball.signs) \in Seq({0, 1})
      /\ Len(Tail(ball.signs)) = N - (ball.i + 1)
  <2>1. PICK s \in Seq({0, 1}) : s = ball.signs
    BY <1>2b
  <2>2. PICK n \in Nat : n = Len(s) /\ n = 256 - at
    <3>1. Len(s) = 256 - at /\ Len(s) \in Nat
      BY <1>2, <1>2c, <2>1 DEF N
    <3> QED BY <3>1
  <2>3. s # <<>>
    <3>1. 0 < n
      BY <1>2c, <2>2
    <3> SUFFICES ASSUME s = <<>> PROVE FALSE
      OBVIOUS
    <3> QED BY <2>2, <3>1
  <2>4. Head(s) \in {0, 1} /\ Tail(s) \in Seq({0, 1}) /\ Len(Tail(s)) = Len(s) - 1
    BY <2>3
  <2>5. sign \in {1, -1}
    BY <2>1, <2>4
  <2>6. n - 1 = N - (ball.i + 1)
    BY <1>2c, <2>2 DEF N
  <2> QED BY <2>1, <2>2, <2>4, <2>5, <2>6
<1> HIDE DEF b, sign
<1>6. /\ code # <<>> /\ Head(code)[1] = op /\ layer = 0 /\ Here \in Nat
      /\ Here = BallAt(step) /\ Room(step, Here + 1, "cp") = Small
      /\ "cp" \in Names /\ Size("cp") = 1 /\ Writes(op, X) = {"cp"}
  BY <1>1, BallPlace
<1>7. /\ Flow /\ Rooms /\ Vectors /\ Canon /\ Matrices /\ BallInv /\ Bytes
  BY DEF DsaInv
<1>8. CASE b > ball.i
  <2>1. ball' = [ball EXCEPT !.pos = pos + 1, !.block = block]
        /\ UNCHANGED <<code, mem, bound, peak, layer>>
    BY <1>1, <1>8
  <2>2. /\ ball' \in [i : Nat, pos : Nat, block : Nat, signs : Seq({0, 1})]
        /\ ball'.i = ball.i /\ ball'.signs = ball.signs /\ ball'.pos \in 0 .. 136
    <3>1. pos + 1 \in 0 .. 136 /\ pos + 1 \in Nat
      BY <1>3
    <3>2. PICK p \in Nat : p = pos + 1
      BY <3>1
    <3>3. PICK r \in [i : Nat, pos : Nat, block : Nat, signs : Seq({0, 1})] : r = ball
      BY <1>2
    <3>4. ball' = [r EXCEPT !.pos = p, !.block = block]
      BY <2>1, <3>2, <3>3
    <3>5. /\ ball' \in [i : Nat, pos : Nat, block : Nat, signs : Seq({0, 1})]
          /\ ball'.i = r.i /\ ball'.signs = r.signs /\ ball'.pos = p
      BY <1>3, <3>4
    <3> QED BY <3>1, <3>2, <3>3, <3>5
  <2>3. Here' = Here /\ At(op)'
    BY <1>1, <2>1, Zenon DEF At, Here
  <2>4. ~(BallAt(step) < Here)'
    BY <1>1, <1>6, <2>3
  <2>5. BallInv'
    BY <1>1, <1>2, <2>1, <2>2, <2>3, <2>4 DEF BallInv
  <2>6. Vectors'
    BY <1>7, <2>1 DEF Vectors
  <2> QED BY <1>1, <2>1, <2>5, <2>6, Grows
<1>9. CASE ~(b > ball.i)
  <2>1. /\ d \in [Coeffs -> Signed]
        /\ Cardinality(Nonzero(d)) = Cardinality(Nonzero(c)) + 1
        /\ \A j \in Nonzero(d) : j < ball.i + 1
    <3>1. ball.i \in Coeffs /\ b \in Coeffs /\ b <= ball.i
      BY <1>2a, <1>4, <1>9 DEF Coeffs, N
    <3>2. c \in [Coeffs -> Signed]
      BY <1>2 DEF InBall, Signed
    <3> QED BY <1>2, <1>5, <3>1, <3>2, PlaceAdds
  <2>2. InBall(d, (ball.i + 1) - (N - TAU))
    <3>1. Cardinality(Nonzero(c)) = ball.i - (N - TAU) /\ ball.i \in Nat
      BY <1>2 DEF InBall
    <3>2. (ball.i - (N - TAU)) + 1 = (ball.i + 1) - (N - TAU)
      BY <3>1 DEF N, TAU
    <3> QED BY <2>1, <3>1, <3>2 DEF InBall, Signed
  <2> HIDE DEF c, d
  <2>3. /\ Leave("cp", <<d>>, 1, 0) /\ layer' = layer
        /\ ball' = IF ball.i = N - 1 THEN NoBall
                   ELSE [i |-> ball.i + 1, pos |-> pos + 1, block |-> block,
                         signs |-> Tail(ball.signs)]
        /\ code' = IF ball.i = N - 1 THEN Tail(code) ELSE code
    BY <1>1, <1>9
  <2>4. /\ Vectors' /\ mem'["cp"][1] = d /\ bound'["cp"] = 1
        /\ Fits(mem'["cp"], 1, 1)
        /\ \A x \in Names : x # "cp" => mem'[x] = mem[x] /\ bound'[x] = bound[x]
    BY <1>7, <2>1, <2>3, CpWritten
  <2>5. CASE ball.i # N - 1
    <3>1. /\ ball' = [i |-> ball.i + 1, pos |-> pos + 1, block |-> block,
                      signs |-> Tail(ball.signs)]
          /\ code' = code
      BY <2>3, <2>5
    <3>2. /\ ball' \in [i : Nat, pos : Nat, block : Nat, signs : Seq({0, 1})]
          /\ ball'.i = ball.i + 1 /\ ball'.signs = Tail(ball.signs)
          /\ ball'.pos \in 0 .. 136 /\ ball'.i \in N - TAU .. N - 1
      <4>1. ball.i + 1 \in N - TAU .. N - 1 /\ ball.i + 1 \in Nat
        <5>2. at + 1 \in 207 .. 255 /\ at + 1 \in Nat
          BY <1>2c, <2>5 DEF N
        <5>3. N - TAU = 207 /\ N - 1 = 255
          BY DEF N, TAU
        <5> QED BY <1>2c, <5>2, <5>3
      <4>2. pos + 1 \in 0 .. 136 /\ pos + 1 \in Nat
        BY <1>3
      <4> QED BY <1>3, <1>5, <3>1, <4>1, <4>2
    <3>3. Here' = Here /\ At(op)'
      BY <1>1, <3>1, Zenon DEF At, Here
    <3>4. ~(BallAt(step) < Here)'
      BY <1>1, <1>6, <3>3
    <3>5. BallInv'
      <4>1. Len(ball'.signs) = N - ball'.i
        BY <1>5, <3>2
      <4>2. InBall(mem'["cp"][1], ball'.i - (N - TAU))
        <5>1. mem'["cp"][1] = d /\ ball'.i = ball.i + 1
          BY <2>4, <3>2
        <5>2. PICK w : w = ball.i + 1
          OBVIOUS
        <5>3. InBall(d, w - (N - TAU))
          BY <2>2, <5>2, Zenon
        <5> QED BY <5>1, <5>2, <5>3, Zenon
      <4>3. \A j \in Nonzero(mem'["cp"][1]) : j < ball'.i
        BY <2>1, <2>4, <3>2
      <4> QED BY <3>2, <3>3, <3>4, <4>1, <4>2, <4>3 DEF BallInv
    <3> QED BY <1>1, <2>3, <2>4, <3>1, <3>5, Grows
  <2>6. CASE ball.i = N - 1
    <3>1. ball' = NoBall /\ code' = Tail(code)
      BY <2>3, <2>6
    <3>2. Wrote
      <4>1. bound' \in [Names -> Nat] /\ DOMAIN mem' = Names /\ peak' \in Int
            /\ peak' < TooLarge
        BY <2>4 DEF Vectors
      <4>2. 1 <= Small
        BY SMT DEF Small
      <4> QED BY <1>6, <2>4, <4>1, <4>2 DEF Wrote
    <3>3. Flow' /\ Rooms' /\ Here' = Here + 1
      BY <1>1, <1>6, <1>7, <2>3, <3>1, <3>2, Written
    <3>4. Canon'
      BY <1>1, <1>6, <1>7, <3>1, <3>3, CanonKept
    <3>5. Matrices'
      <4>1. ~Drawing
        BY <1>6 DEF Drawing, At
      <4> QED BY <1>1, <1>6, <1>7, <3>1, <3>3, <4>1, MatricesKept
    <3>6. BallInv'
      <4>1. /\ ball'.i = 0
            /\ ball' \in [i : Nat, pos : Nat, block : Nat, signs : Seq({0, 1})]
        BY <3>1 DEF NoBall
      <4>2. InBall(d, TAU)
        <5>1. (ball.i + 1) - (N - TAU) = TAU
          BY <2>6 DEF N, TAU
        <5> QED BY <2>2, <5>1
      <4> QED BY <2>4, <4>1, <4>2 DEF BallInv
    <3>7. Bytes'
      <4>1. op \notin Endings
        BY DEF Endings
      <4>2. Tail(code) # <<>>
        BY <1>6, <1>7, <4>1, NotOver
      <4> QED BY <1>1, <1>6, <1>7, <3>1, <4>2, BytesKept
    <3> QED BY <2>4, <3>3, <3>4, <3>5, <3>6, <3>7 DEF DsaInv
  <2> QED BY <2>5, <2>6
<1> QED BY <1>8, <1>9

-----------------------------------------------------------------------------
(* The calls. *)

LEMMA FirstPositive ==
    ASSUME NEW s, NEW x
    PROVE  First(s, x) \in Nat /\ 1 <= First(s, x)
<1>1. KeypairFirst(x) \in Nat /\ 1 <= KeypairFirst(x)
  BY SMT DEF KeypairFirst
<1>2. SignFirst(x) \in Nat /\ 1 <= SignFirst(x)
  BY SMT DEF SignFirst
<1>3. VerifyFirst(x) \in Nat /\ 1 <= VerifyFirst(x)
  BY SMT DEF VerifyFirst
<1> QED BY <1>1, <1>2, <1>3 DEF First

(* The locals of a procedure that starts, or returns at once. *)
LEMMA Called ==
    ASSUME step' \in Procedures, NEW p, p = Prog(step') \/ p = <<>>, Call(p), Bytes'
    PROVE  DsaInv'
<1>1. /\ code' = p /\ mem' = Empty(<<>>) /\ bound' = Empty(0) /\ peak' = 0 /\ layer' = 0
      /\ sample' = NoSample /\ ball' = NoBall
  BY DEF Call
<1>2. Vectors'
  <2>1. PICK e : e = <<>> /\ DOMAIN e = {}
    OBVIOUS
  <2>2. mem' = [x \in Names |-> e] /\ bound' = [x \in Names |-> 0]
    BY <1>1, <2>1 DEF Empty
  <2>3. DOMAIN mem' = Names /\ bound' \in [Names -> Nat]
    BY <2>2
  <2>4. \A x \in Names : \A k \in DOMAIN mem'[x] : Bounded(mem'[x][k], bound'[x])
    BY <2>1, <2>2
  <2>5. peak' \in Int /\ peak' < TooLarge
    BY <1>1, TopFits
  <2> QED BY <2>3, <2>4, <2>5 DEF Vectors
<1>3. ball'.i = 0 /\ ball' \in [i : Nat, pos : Nat, block : Nat, signs : Seq({0, 1})]
  BY <1>1 DEF NoBall
<1>4. CASE p = <<>>
  <2>1. Flow'
    BY <1>1, <1>4, LastPlace DEF Procedures, Steps
  <2>2. Rooms' /\ Canon' /\ Matrices' /\ BallInv'
    BY <1>1, <1>3, <1>4 DEF Rooms, Canon, Matrices, BallInv, At
  <2> QED BY <1>2, <2>1, <2>2 DEF DsaInv
<1>5. CASE p = Prog(step')
  <2>1. Flow' /\ Here' = 1 /\ code' # <<>>
    BY <1>1, <1>5, FirstPlace
  <2>2. Rooms'
    <3>1. \A x : ~(First(step', x) < 1)
      BY FirstPositive
    <3> QED BY <2>1, <3>1 DEF Rooms
  <2>3. Canon'
    BY <2>1 DEF Canon, RoundAt
  <2>4. Matrices'
    BY <1>1, <2>1, NothingDrawn DEF GenAt
  <2>5. BallInv'
    <3>1. ~(BallAt(step') < 1)
      BY DEF BallAt
    <3> QED BY <1>3, <2>1, <3>1 DEF BallInv
  <2> QED BY <1>2, <2>1, <2>2, <2>3, <2>4, <2>5 DEF DsaInv
<1> QED BY <1>4, <1>5

LEMMA SignCalls == ASSUME DsaInv, Sign PROVE DsaInv'
<1>1. /\ step = "keypair" /\ code = <<>> /\ step' = "sign"
      /\ UNCHANGED <<pk, sk, sig>>
      /\ \E p \in {<<>>, Signature} : Call(p)
      /\ ret' \in {-1, None}
  BY Zenon DEF Sign
<1>2. PICK p \in {<<>>, Signature} : Call(p)
  BY <1>1
<1>3. Bytes'
  <2>1. ret' # 0
    BY <1>1, SMT DEF None
  <2> QED BY <1>1, <2>1 DEF DsaInv, Bytes
<1>4. Signature = Prog(step')
  BY <1>1 DEF Prog
<1> QED BY <1>1, <1>2, <1>3, <1>4, Called DEF Procedures

(* What is put in the place of the bytes of z. *)
LEMMA ByteArrives ==
    ASSUME NEW d \in Deliveries, d.part \in {"z", "all"}
    PROVE  d.val \in Int
<1>1. d.val \in 0 .. 255
  BY DsaAssumption, SMT
<1> QED BY <1>1, SMT

(* The z that arrives is numbers. *)
LEMMA ReceivedInts ==
    ASSUME NEW d \in Deliveries, DOMAIN sig = {"c", "z", "h"},
           Ints(sig.z, 640 * L), DOMAIN sig.z = 0 .. 640 * L - 1
    PROVE  Ints(Received(d).sig.z, 640 * L)
<1> DEFINE bytes(a) == [n \in DOMAIN a |-> IF n \in d.at THEN d.val ELSE a[n]]
           s == CASE d.part = "c" -> [sig EXCEPT !.c = <<d.val, @>>]
                  [] d.part = "z" -> [sig EXCEPT !.z = bytes(@)]
                  [] d.part = "h" -> [sig EXCEPT !.h = bytes(@)]
                  [] OTHER -> sig
<1>1. Received(d).sig = s
  BY Zenon DEF Received
<1>2. CASE d.part = "z"
  <2>1. s.z = bytes(sig.z)
    BY <1>2, ZenonT(30)
  <2>2. d.val \in Int
    BY <1>2, ByteArrives
  <2>3. Ints(bytes(sig.z), 640 * L)
    <3>1. ASSUME NEW k \in Nat, k < 640 * L PROVE bytes(sig.z)[k] \in Int
      <4>0. k \in 0 .. 640 * L - 1
        BY <3>1 DEF L
      <4>1. k \in DOMAIN sig.z /\ sig.z[k] \in Int
        BY <3>1, <4>0, ZenonT(60) DEF Ints
      <4> QED BY <2>2, <4>1
    <3> QED BY <3>1 DEF Ints
  <2> HIDE DEF s
  <2> QED BY <1>1, <2>1, <2>3
<1>3. CASE d.part # "z"
  <2>1. s.z = sig.z
    <3>1. CASE d.part = "c"
      BY <3>1
    <3>2. CASE d.part = "h"
      BY <3>2
    <3>3. CASE d.part \notin {"c", "h", "z"}
      BY <3>3
    <3> QED BY <1>3, <3>1, <3>2, <3>3
  <2> HIDE DEF s
  <2> QED BY <1>1, <2>1
<1> QED BY <1>2, <1>3

LEMMA UnsignedInts ==
    ASSUME NEW d \in Deliveries, d.part = "all"
    PROVE  Ints(Unsigned(d).sig.z, 640 * L)
<1>1. d.val \in Int
  BY ByteArrives
<1>2. PICK z : z = [n \in 0 .. 640 * L - 1 |-> d.val]
  OBVIOUS
<1>3. Unsigned(d).sig.z = z
  BY <1>2 DEF Unsigned
<1>4. ASSUME NEW k \in Nat, k < 640 * L PROVE z[k] \in Int
  <2>1. k \in 0 .. 640 * L - 1
    BY <1>4 DEF L
  <2> QED BY <1>1, <1>2, <2>1
<1> QED BY <1>3, <1>4 DEF Ints

LEMMA DeliverCalls == ASSUME DsaInv, Deliver PROVE DsaInv'
<1>1. PICK d \in Deliveries :
         /\ (d.part = "all") = (step = "keypair")
         /\ got' = IF step = "sign" THEN Received(d) ELSE Unsigned(d)
         /\ \E p \in {<<>>, Verify} : Call(p)
  BY Zenon DEF Deliver
<1>2. /\ code = <<>> /\ (step = "keypair" \/ (step = "sign" /\ ret = 0))
      /\ step' = "verify" /\ UNCHANGED <<pk, sk, sig>>
  BY Zenon DEF Deliver
<1>3. PICK p \in {<<>>, Verify} : Call(p)
  BY <1>1
<1>4. Bytes
  BY DEF DsaInv
<1>5. Ints(got'.sig.z, 640 * L)
  <2>1. CASE step = "sign"
    BY <1>1, <1>2, <1>4, <2>1, ReceivedInts DEF Bytes
  <2>2. CASE step = "keypair"
    BY <1>1, <2>2, UnsignedInts
  <2> QED BY <1>2, <2>1, <2>2
<1>6. Bytes'
  BY <1>2, <1>4, <1>5 DEF Bytes
<1>7. Verify = Prog(step')
  BY <1>2 DEF Prog
<1> QED BY <1>2, <1>3, <1>6, <1>7, Called DEF Procedures

LEMMA ReturnKeeps == ASSUME DsaInv, Return PROVE DsaInv'
<1>1. /\ code = <<>> /\ step' = "done" /\ step = "verify"
      /\ UNCHANGED <<code, mem, bound, peak, layer, ball, pk, sk, sig, got, ret>>
  BY Zenon DEF Return, ring, draws
<1>2. Flow /\ Vectors /\ BallInv /\ Bytes
  BY DEF DsaInv
<1>3. layer = 0
  BY <1>1, <1>2 DEF Flow, At
<1>4. Flow'
  BY <1>1, <1>3, LastPlace DEF Steps
<1>5. Rooms' /\ Canon' /\ Matrices'
  BY <1>1 DEF Rooms, Canon, Matrices, At
<1>6. ball.i = 0
  BY <1>1, <1>2 DEF BallInv, At
<1>7. BallInv'
  BY <1>1, <1>2, <1>6 DEF BallInv
<1>8. Vectors'
  BY <1>1, <1>2, Zenon DEF Vectors
<1>9. Bytes'
  BY <1>1, <1>2 DEF Bytes
<1> QED BY <1>4, <1>5, <1>7, <1>8, <1>9 DEF DsaInv

LEMMA StutterKeeps == ASSUME DsaInv, UNCHANGED vars PROVE DsaInv'
<1>1. UNCHANGED <<code, step, mem, bound, peak, layer, mat, sample, ball,
                  pk, sk, sig, got, ret>>
  BY Zenon DEF vars, ring, draws, world
<1>2. (\A o : At(o)' = At(o)) /\ X' = X /\ Here' = Here
  BY <1>1, Zenon DEF At, X, Here
<1>3. Matrices'
  BY <1>1, <1>2, Zenon DEF DsaInv, Matrices
<1> QED BY <1>1, <1>3, Unmoved

(* The start. *)
LEMMA StartPlace ==
    ASSUME NEW p \in Procedures, step = p, code = Prog(p), layer = 0
    PROVE  Flow /\ Here = 1 /\ code # <<>>
<1> DEFINE S == {Prog(p)[n] : n \in 1 .. Final(p)}
<1>1. Prog(p) \in Seq(S) /\ Len(Prog(p)) = Final(p)
  BY ProgTyped
<1>2. Final(p) \in Nat \ {0}
  BY DEF Final
<1> HIDE DEF S
<1>3. Here = 1
  <2>1. Here = Final(p) + 1 - Len(Prog(p))
    BY Zenon DEF Here
  <2> QED BY <1>1, <1>2, <2>1
<1>4. code = SubSeq(Prog(p), 1, Final(p)) /\ code # <<>>
  BY <1>1, <1>2
<1> QED BY <1>2, <1>3, <1>4 DEF Flow, Steps, Procedures

LEMMA StartsWell == ASSUME Init PROVE DsaInv
<1>1. /\ step = "keypair" /\ code = Keypair
      /\ mem = Empty(<<>>) /\ bound = Empty(0) /\ peak = 0 /\ layer = 0
      /\ mat = <<>> /\ sample = NoSample /\ ball = NoBall /\ sig = NoSig
      /\ \E s \in Seeds :
          sk = [rho |-> <<>>, key |-> Expand(s).key, tr |-> <<>>,
                s1 |-> <<>>, s2 |-> <<>>, t0 |-> <<>>]
  BY Zenon DEF Init
<1>2. Flow /\ Here = 1 /\ code # <<>>
  <2>1. PICK p \in Procedures : p = "keypair"
    BY DEF Procedures
  <2>2. step = p /\ code = Prog(p) /\ layer = 0
    BY <1>1, <2>1 DEF Prog
  <2> QED BY <2>2, StartPlace
<1>3. Rooms
  <2>1. \A x : ~(First(step, x) < 1)
    BY FirstPositive
  <2> QED BY <1>2, <2>1 DEF Rooms
<1>4. Vectors
  <2>1. PICK e : e = <<>> /\ DOMAIN e = {}
    OBVIOUS
  <2>2. mem = [x \in Names |-> e] /\ bound = [x \in Names |-> 0]
    BY <1>1, <2>1 DEF Empty
  <2>3. DOMAIN mem = Names /\ bound \in [Names -> Nat]
    BY <2>2
  <2>4. \A x \in Names : \A k \in DOMAIN mem[x] : Bounded(mem[x][k], bound[x])
    BY <2>1, <2>2
  <2>5. peak \in Int /\ peak < TooLarge
    BY <1>1, TopFits
  <2> QED BY <2>3, <2>4, <2>5 DEF Vectors
<1>5. Canon
  BY <1>2 DEF Canon, RoundAt
<1>6. Matrices
  <2>1. sample.done = <<>>
    BY <1>1 DEF NoSample
  <2>2. sample.done \in Seq(Uniform) /\ sample.done \in Seq(Noise) /\ Len(sample.done) = 0
    BY <2>1
  <2>3. 0 < K * L /\ \A x : 0 < Size(x)
    BY DEF K, L, Size
  <2> QED BY <1>2, <2>2, <2>3 DEF Matrices, GenAt
<1>7. BallInv
  <2>1. ball.i = 0 /\ ball \in [i : Nat, pos : Nat, block : Nat, signs : Seq({0, 1})]
    BY <1>1 DEF NoBall
  <2>2. ~(BallAt(step) < 1)
    BY DEF BallAt
  <2> QED BY <1>2, <2>1, <2>2 DEF BallInv
<1>8. Bytes
  <2>1. DOMAIN sk = {"rho", "key", "tr", "s1", "s2", "t0"} /\ DOMAIN sig = {"c", "z", "h"}
    BY <1>1 DEF NoSig
  <2> QED BY <1>1, <1>2, <2>1 DEF Bytes
<1> QED BY <1>2, <1>3, <1>4, <1>5, <1>6, <1>7, <1>8 DEF DsaInv

-----------------------------------------------------------------------------
(* Every step keeps the invariant. *)

LEMMA DsaKept ==
    ASSUME StreamsOfBytes, DsaInv, SampleInv, [Next]_vars
    PROVE  DsaInv'
<1>1. CASE SampleBlocks \/ SampleDone \/ Gamma1 \/ StartChallenge \/ GrowChallenge
  BY <1>1, SampleBlocksKeeps, SampleDoneKeeps, Gamma1Keeps, StartChallengeKeeps,
     GrowChallengeKeeps
<1>2. CASE Copy \/ Ntt \/ InvNtt \/ Matrix \/ Times \/ Add \/ Sub \/ Reduce
  BY <1>2, CopyKeeps, NttKeeps, InvNttKeeps, MatrixKeeps, TimesKeeps, AddKeeps,
     SubKeeps, ReduceKeeps
<1>3. CASE \/ CondAddQ \/ Shiftl \/ Power2RoundStep \/ DecomposeStep \/ UseHintStep
           \/ Check \/ MakeHintStep
  BY <1>3, CondAddQKeeps, ShiftlKeeps, Power2RoundKeeps, DecomposeKeeps, UseHintKeeps,
     CheckKeeps, MakeHintKeeps
<1>4. CASE \/ HashMu \/ HashW1 \/ PackKeys \/ UnpackSk \/ UnpackPk \/ PackSig \/ UnpackSig
           \/ Compare
  BY <1>4, HashMuKeeps, HashW1Keeps, PackKeysKeeps, UnpackSkKeeps, UnpackPkKeeps,
     PackSigKeeps, UnpackSigKeeps, CompareKeeps
<1>5. CASE Sign \/ Deliver \/ Return
  BY <1>5, SignCalls, DeliverCalls, ReturnKeeps
<1>6. CASE UNCHANGED vars
  BY <1>6, StutterKeeps
<1> QED BY <1>1, <1>2, <1>3, <1>4, <1>5, <1>6 DEF Next, Statement

(* In every run the procedures are where the invariant says, if the streams
   are bytes. *)
LEMMA DsaAlways ==
    ASSUME StreamsOfBytes
    PROVE  Spec => [](DsaInv /\ SampleInv)
<1>1. Init => DsaInv
  BY StartsWell
<1>2. DsaInv /\ SampleInv /\ [Next]_vars => DsaInv'
  BY DsaKept
<1>3. Spec => []SampleInv
  BY SampleAlways
<1> QED BY <1>1, <1>2, <1>3, PTL DEF Spec

-----------------------------------------------------------------------------
(* What it says. *)

LEMMA FullIs == Full \in Nat /\ Q \in Nat /\ Full < Q
BY SMT DEF Full, Q

LEMMA InvFits == ASSUME DsaInv PROVE WorstCaseFits
<1>1. Vectors
  BY DEF DsaInv
<1>2. NoOverflow
  BY <1>1 DEF Vectors, NoOverflow, Bounded, Within
<1>3. ASSUME At("caddq") PROVE bound[X] < Q
  <2>1. PICK op : op = "caddq"
    OBVIOUS
  <2>2. At(op) /\ op # "ntt" /\ op # "invntt"
    BY <1>3, <2>1
  <2>3. /\ Placed(step, Here, op, X, Y)
        /\ \A x \in Names : First(step, x) < Here =>
              bound[x] \in Nat /\ bound[x] <= Room(step, Here, x)
              /\ Room(step, Here, x) \in Nat
    BY <2>2, Begins
  <2>4. X \in Names /\ First(step, X) < Here /\ Room(step, Here, X) <= Full
    BY <2>1, <2>3 DEF Placed
  <2>5. bound[X] \in Nat /\ bound[X] <= Full
    BY <2>3, <2>4, FullIs
  <2> QED BY <2>5, FullIs
<1>4. ASSUME NEW op \in Roundings, At(op)
      PROVE  \A i \in DOMAIN mem[X] : \A j \in Coeffs : mem[X][i][j] \in 0 .. Q - 1
  <2>1. Placed(step, Here, op, X, Y)
    BY <1>4, Begins DEF Roundings
  <2>2. X = RoundOf(step)
    BY <2>1 DEF Placed
  <2> QED BY <1>4, <2>2, Roundable
<1>5. RoundsCanonical
  BY <1>3, <1>4, Zenon DEF RoundsCanonical, Roundings
<1> QED BY <1>2, <1>5 DEF WorstCaseFits

LEMMA InvBall == ASSUME DsaInv PROVE ChallengeInBall
<1>1. BallInv /\ Flow
  BY DEF DsaInv
<1>2. ASSUME ball.i # 0
      PROVE  /\ Cardinality(Nonzero(mem["cp"][1])) = ball.i - (N - TAU)
             /\ \A j \in Nonzero(mem["cp"][1]) : j < ball.i /\ mem["cp"][1][j] \in {1, -1}
  <2>1. /\ InBall(mem["cp"][1], ball.i - (N - TAU))
        /\ \A j \in Nonzero(mem["cp"][1]) : j < ball.i
    BY <1>1, <1>2 DEF BallInv
  <2> QED BY <2>1 DEF InBall, Nonzero
<1>3. ASSUME At("ntt"), X = "cp", layer = 0
      PROVE  Cardinality(Nonzero(mem["cp"][1])) = TAU
  <2>1. PICK op : op = "ntt"
    OBVIOUS
  <2>2. /\ code # <<>> /\ Placed(step, Here, op, X, Y) /\ step \in Procedures
        /\ Here \in 1 .. Final(step)
    BY <1>1, <1>3, <2>1, Standing DEF At
  <2>3. Here = CpAt(step)
    BY <1>3, <2>1, <2>2 DEF Placed
  <2>4. BallAt(step) < CpAt(step)
    BY <2>2, <2>3 DEF BallAt, CpAt, Final, Procedures
  <2>5. InBall(mem["cp"][1], TAU)
    BY <1>1, <1>3, <2>2, <2>3, <2>4 DEF BallInv, CpAt
  <2> QED BY <2>5 DEF InBall
<1> QED BY <1>2, <1>3, Zenon DEF ChallengeInBall

(* Whatever the bytes of the streams and of what arrives, no input of a step of
   key generation, signing or verification leaves the worst case that step was
   given, none of them overflows 32 bits, and what Power2Round, Decompose and
   UseHint are given is between 0 and q (d_sign.c, d_poly.c, rounding.c). *)
THEOREM WorstCaseFitsHolds ==
    ASSUME StreamsOfBytes
    PROVE  Spec => []WorstCaseFits
<1>1. DsaInv => WorstCaseFits
  BY InvFits
<1>2. Spec => [](DsaInv /\ SampleInv)
  BY DsaAlways
<1> QED BY <1>1, <1>2, PTL

(* Whatever the bytes of the streams, every polynomial that is sampled by
   rejection is the accepted candidates of its stream in order, over any number
   of blocks, and the challenge grows by one coefficient of one or minus one per
   position to TAU of them (d_poly.c: poly_uniform, poly_uniform_eta,
   poly_challenge). *)
THEOREM SampledLikeFipsHolds ==
    ASSUME StreamsOfBytes
    PROVE  Spec => []SampledLikeFips
<1>1. DsaInv /\ SampleInv => SampledLikeFips
  BY InvBall, InvInOrder DEF SampledLikeFips
<1>2. Spec => [](DsaInv /\ SampleInv)
  BY DsaAlways
<1> QED BY <1>1, <1>2, PTL
=============================================================================
