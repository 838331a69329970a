------------------------------ MODULE DsaRing ------------------------------
(***************************************************************************)
(* The ring arithmetic of ML-DSA-65 in firmware/pqc/src: d_reduce.c,       *)
(* d_ntt.c, d_rounding.c, d_poly.c and the encoding of d_packing.c.        *)
(*                                                                         *)
(* A polynomial is a function on 0 .. 255, a vector a sequence of          *)
(* polynomials, an array of bytes a function on its indices.  Nothing here *)
(* wraps at 32 bits: that no input comes so far is a property of Dsa.      *)
(***************************************************************************)
EXTENDS Integers, Sequences, FiniteSets, SequencesExt, Sampling

N      == 256
Q      == 8380417
D      == 13
K      == 6
L      == 5
ETA    == 4
TAU    == 49
BETA   == 196
GAMMA1 == 524288
GAMMA2 == (Q - 1) \div 32
OMEGA  == 55

Coeffs == 0 .. N - 1

(* The value of e.  A transform is a tower of functions, each built from the
   one below; this has TLC work out each once. *)
Once(e) == CHOOSE v \in {e} : v = v

-----------------------------------------------------------------------------
(* Reductions. *)

(* The word above the lower half of t * q, t in words of 16 bits.  q is
   2^23 - 2^13 + 1. *)
TimesQHigh(t0, t1) ==
    127 * t1 + (t1 * 57345 + t0 * 127 + (7 * t0 + t0 \div 8192) \div 8) \div 65536

(* What montgomery_reduce subtracts: t is the product of the lower half and
   q^-1, which mod 2^32 is 7 * 2^23 + 2^13 + 1. *)
Subtrahend(w0, w1) ==
    LET x == w0 + (w0 % 8) * 8192
        y == w1 + (w1 % 8) * 8192 + w0 \div 8 + 896 * w0 + x \div 65536
    IN  TimesQHigh(x % 65536, ((y + 32768) % 65536) - 32768)

(* montgomery_reduce of the product of a and b, in words that TLC's integers
   can hold (DsaProofs: WordsExact). *)
Fqmul(a, b) ==
    LET al == a % 65536   ah == a \div 65536
        bl == b % 4096    bh == b \div 4096
        s  == al * bl + ((al * bh) % 16) * 4096
        u  == s \div 65536 + (al * bh) \div 16 + ah * bl + ((ah * bh) % 16) * 4096
    IN  (u \div 65536 + (ah * bh) \div 16) - Subtrahend(s % 65536, u % 65536)

Reduce32(a) == a - ((a + 4194304) \div 8388608) * Q

Caddq(a) == IF a < 0 THEN a + Q ELSE a

-----------------------------------------------------------------------------
(* The number-theoretic transform. *)

Zetas == <<
         0,    25847, -2608894,  -518909,   237124,  -777960,  -876248,   466468,
   1826347,  2353451,  -359251, -2091905,  3119733, -2884855,  3111497,  2680103,
   2725464,  1024112, -1079900,  3585928,  -549488, -1119584,  2619752, -2108549,
  -2118186, -3859737, -1399561, -3277672,  1757237,   -19422,  4010497,   280005,
   2706023,    95776,  3077325,  3530437, -1661693, -3592148, -2537516,  3915439,
  -3861115, -3043716,  3574422, -2867647,  3539968,  -300467,  2348700,  -539299,
  -1699267, -1643818,  3505694, -3821735,  3507263, -2140649, -1600420,  3699596,
    811944,   531354,   954230,  3881043,  3900724, -2556880,  2071892, -2797779,
  -3930395, -1528703, -3677745, -3041255, -1452451,  3475950,  2176455, -1585221,
  -1257611,  1939314, -4083598, -1000202, -3190144, -3157330, -3632928,   126922,
   3412210,  -983419,  2147896,  2715295, -2967645, -3693493,  -411027, -2477047,
   -671102, -1228525,   -22981, -1308169,  -381987,  1349076,  1852771, -1430430,
  -3343383,   264944,   508951,  3097992,    44288, -1100098,   904516,  3958618,
  -3724342,    -8578,  1653064, -3249728,  2389356,  -210977,   759969, -1316856,
    189548, -3553272,  3159746, -1851402, -2409325,  -177440,  1315589,  1341330,
   1285669, -1584928,  -812732, -1439742, -3019102, -3881060, -3628969,  3839961,
   2091667,  3407706,  2316500,  3817976, -3342478,  2244091, -2446433, -3562462,
    266997,  2434439, -1235728,  3513181, -3520352, -3759364, -1197226, -3193378,
    900702,  1859098,   909542,   819034,   495491, -1613174,   -43260,  -522500,
   -655327, -3122442,  2031748,  3207046, -3556995,  -525098,  -768622, -3595838,
    342297,   286988, -2437823,  4108315,  3437287, -3342277,  1735879,   203044,
   2842341,  2691481, -2590150,  1265009,  4055324,  1247620,  2486353,  1595974,
  -3767016,  1250494,  2635921, -3548272, -2994039,  1869119,  1903435, -1050970,
  -1333058,  1237275, -3318210, -1430225,  -451100,  1312455,  3306115, -1962642,
  -1279661,  1917081, -2546312, -1374803,  1500165,   777191,  2235880,  3406031,
   -542412, -2831860, -1671176, -1846953, -2584293, -3724270,   594136, -3776993,
  -2013608,  2432395,  2454455,  -164721,  1957272,  3369112,   185531, -1207385,
  -3183426,   162844,  1616392,  3014001,   810149,  1652634, -3694233, -1799107,
  -3038916,  3523897,  3866901,   269760,  2213111,  -975884,  1717735,   472078,
   -426683,  1723600, -1803090,  1910376, -1667432, -1104333,  -260646, -3833893,
  -2939036, -2235985,  -420899, -2286327,   183443,  -976891,  1612842, -3545687,
   -554416,  3919660,   -48306, -1362209,  3937738,  1400424,  -846154,  1976782 >>

Zeta(k) == Zetas[k + 1]

(* Position j of a layer lies in the lower or the upper half of its block. *)
Lower(j, len) == j % (2 * len) < len
Block(j, len) == j \div (2 * len)

(* One turn of the loop over len: every block has a zeta of its own. *)
NttLayer(a, len) ==
    [j \in Coeffs |->
        LET zeta == Zeta(128 \div len + Block(j, len)) IN
        IF Lower(j, len) THEN a[j] + Fqmul(a[j + len], zeta)
                         ELSE a[j - len] - Fqmul(a[j], zeta)]

(* The zetas are taken from the last to the first, negated. *)
InvNttLayer(a, len) ==
    [j \in Coeffs |->
        LET zeta == -Zeta(256 \div len - 1 - Block(j, len)) IN
        IF Lower(j, len) THEN a[j] + a[j + len]
                         ELSE Fqmul(a[j - len] - a[j], zeta)]

(* The last loop: 2^64 / 256, which leaves a factor of 2^32. *)
Scale(a) == [j \in Coeffs |-> Fqmul(a[j], 41978)]

-----------------------------------------------------------------------------
(* Polynomials, coefficient by coefficient. *)

PolyReduce(a) == [j \in Coeffs |-> Reduce32(a[j])]
PolyCaddq(a)  == [j \in Coeffs |-> Caddq(a[j])]
PolyAdd(a, b) == [j \in Coeffs |-> a[j] + b[j]]
PolySub(a, b) == [j \in Coeffs |-> a[j] - b[j]]
PolyShiftl(a) == [j \in Coeffs |-> a[j] * 2^D]

PolyPointwise(a, b) == [j \in Coeffs |-> Fqmul(a[j], b[j])]

(* The sum of the products of two vectors of length L. *)
PointwiseAcc(u, v) ==
    LET t(i) == Once(PolyPointwise(u[i], v[i]))
        sum[i \in 1 .. L] == IF i = 1 THEN t(1) ELSE Once(PolyAdd(sum[i - 1], t(i)))
    IN  sum[L]

(* Some coefficient is not smaller than B in absolute value. *)
PolyChknorm(a, B) == \E j \in Coeffs : (IF a[j] < 0 THEN -a[j] ELSE a[j]) >= B

-----------------------------------------------------------------------------
(* Rounding. *)

Power2Round(a) ==
    LET a1 == (a + 2^(D - 1) - 1) \div 2^D
    IN  [high |-> a1, low |-> a - a1 * 2^D]

(* With a bug: the last interval is not joined to the first. *)
DecomposeNoWrap(a) ==
    LET a1 == (((a + 127) \div 128) * 1025 + 2097152) \div 4194304
    IN  [high |-> a1, low |-> a - a1 * 2 * GAMMA2]

Decompose(a) ==
    LET a1 == ((((a + 127) \div 128) * 1025 + 2097152) \div 4194304) % 16
        a0 == a - a1 * 2 * GAMMA2
    IN  [high |-> a1, low |-> IF a0 > (Q - 1) \div 2 THEN a0 - Q ELSE a0]

MakeHint(a0, a1) ==
    IF a0 > GAMMA2 \/ a0 < -GAMMA2 \/ (a0 = -GAMMA2 /\ a1 # 0) THEN 1 ELSE 0

UseHint(a, hint) ==
    LET d == Decompose(a) IN
    IF hint = 0 THEN d.high ELSE IF d.low > 0 THEN (d.high + 1) % 16
                                              ELSE (d.high - 1) % 16

-----------------------------------------------------------------------------
(* Sampling.  buf is a sequence of bytes; at most len candidates are kept.    *)

(* 23 bits of every three bytes. *)
Candidates(buf) ==
    [n \in 1 .. Len(buf) \div 3 |->
        (buf[3 * n - 2] + buf[3 * n - 1] * 256 + buf[3 * n] * 65536) % 8388608]

RejUniform(len, buf) == AtMost(len, Below(Candidates(buf), Q))

(* Two candidates of four bits in every byte. *)
Nibbles(buf) ==
    [n \in 1 .. 2 * Len(buf) |-> (buf[(n + 1) \div 2] \div 16^((n + 1) % 2)) % 16]

RejEta(len, buf) ==
    LET good == AtMost(len, Below(Nibbles(buf), 9))
    IN  [n \in DOMAIN good |-> 4 - good[n]]

-----------------------------------------------------------------------------
(* Bytes: d bits for each of the 256 numbers, the lowest first.               *)

Pack(d, t) ==
    [n \in 0 .. 32 * d - 1 |->
        LET i == (8 * n) \div d
            o == (8 * n) % d
        IN  IF o + 8 <= d THEN (t[i] \div 2^o) % 256
            ELSE (t[i] \div 2^o + t[i + 1] * 2^(d - o)) % 256]

Unpack(d, a) ==
    [j \in Coeffs |->
        LET n == (d * j) \div 8
            byte(k) == IF k \in DOMAIN a THEN a[k] ELSE 0
        IN  ((byte(n) + byte(n + 1) * 256 + byte(n + 2) * 65536)
                \div 2^((d * j) % 8)) % 2^d]

(* A vector of them, and what is in slot i of an array. *)
PackAll(d, v) ==
    LET p == Once([i \in DOMAIN v |-> Pack(d, v[i])])
    IN  [n \in 0 .. 32 * d * Len(v) - 1 |-> p[n \div (32 * d) + 1][n % (32 * d)]]

UnpackAll(d, len, a) ==
    [i \in 1 .. len |-> Unpack(d, [n \in 0 .. 32 * d - 1 |-> a[32 * d * (i - 1) + n]])]

(* A coefficient that may be negative is stored as its distance from top. *)
Flip(top, v) == [i \in DOMAIN v |-> [j \in Coeffs |-> top - v[i][j]]]

PackEta(v)        == PackAll(4, Flip(ETA, v))
UnpackEta(len, a) == Flip(ETA, UnpackAll(4, len, a))
PackT1(v)         == PackAll(10, v)
UnpackT1(a)       == UnpackAll(10, K, a)
PackT0(v)         == PackAll(13, Flip(2^(D - 1), v))
UnpackT0(a)       == Flip(2^(D - 1), UnpackAll(13, K, a))
PackZ(v)          == PackAll(20, Flip(GAMMA1, v))
UnpackZ(len, a)   == Flip(GAMMA1, UnpackAll(20, len, a))
PackW1(v)         == PackAll(4, v)

-----------------------------------------------------------------------------
(* The hints of a signature: OMEGA bytes for the positions of the ones, then  *)
(* K bytes that say where each polynomial's end.                              *)

Ones(h) == [i \in 1 .. K |-> SelectSeq([j \in 1 .. N |-> j - 1], LAMBDA j : h[i][j] # 0)]

EncodeHints(h) ==
    LET ones == Once(Ones(h))
        all  == FlattenSeq(ones)
    IN  [n \in 0 .. OMEGA + K - 1 |->
            IF n >= OMEGA THEN Len(FlattenSeq(SubSeq(ones, 1, n - OMEGA + 1)))
            ELSE IF n < Len(all) THEN all[n + 1] ELSE 0]

Start(b, i) == IF i = 1 THEN 0 ELSE b[OMEGA + i - 2]
End(b, i)   == b[OMEGA + i - 1]

(* Only one array of bytes stands for a set of hints: the positions of a
   polynomial ascend, and those that are not used are zero. *)
Canonical(b) ==
    /\ \A i \in 1 .. K :
        /\ Start(b, i) <= End(b, i) /\ End(b, i) <= OMEGA
        /\ \A n \in Start(b, i) + 1 .. End(b, i) - 1 : b[n] > b[n - 1]
    /\ \A n \in End(b, K) .. OMEGA - 1 : b[n] = 0

DecodeHints(b) ==
    [i \in 1 .. K |->
        LET ones == {b[n] : n \in Start(b, i) .. End(b, i) - 1}
        IN  [j \in Coeffs |-> IF j \in ones THEN 1 ELSE 0]]
=============================================================================
