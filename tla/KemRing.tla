------------------------------- MODULE KemRing -------------------------------
(***************************************************************************)
(* The ring arithmetic of ML-KEM-768 in firmware/pqc/src: reduce.c, ntt.c, *)
(* cbd.c, verify.c, poly.c and polyvec.c, in the widths of C.              *)
(*                                                                         *)
(* A polynomial is a function on 0 .. 255, a vector a sequence of          *)
(* polynomials, an array of bytes a function on its indices.               *)
(***************************************************************************)
EXTENDS Integers, Sequences, FiniteSets, Sampling

KYBER_N == 256
KYBER_Q == 3329
KYBER_K == 3
QINV    == -3327                \* q^-1 mod 2^16

Coeffs == 0 .. KYBER_N - 1

(* The value of e.  A transform is a tower of functions, each built from the
   one below; this has TLC work out each once. *)
Once(e) == CHOOSE v \in {e} : v = v

Int16(x) == ((x + 32768) % 65536) - 32768

-----------------------------------------------------------------------------
(* Reductions. *)

MontgomeryReduce(a) ==
    LET t == Int16(Int16(a) * QINV)
    IN  Int16((a - t * KYBER_Q) \div 65536)

BarrettReduce(a) ==
    LET v == (67108864 + KYBER_Q \div 2) \div KYBER_Q
        t == Int16((v * a + 33554432) \div 67108864)
    IN  Int16(a - Int16(t * KYBER_Q))

(* (u >> 15) & q added: a negative representative becomes positive. *)
Positive(u) == IF u < 0 THEN u + KYBER_Q ELSE u

-----------------------------------------------------------------------------
(* The number-theoretic transform. *)

Zetas == <<
  -1044,  -758,  -359, -1517,  1493,  1422,   287,   202,
   -171,   622,  1577,   182,   962, -1202, -1474,  1468,
    573, -1325,   264,   383,  -829,  1458, -1602,  -130,
   -681,  1017,   732,   608, -1542,   411,  -205, -1571,
   1223,   652,  -552,  1015, -1293,  1491,  -282, -1544,
    516,    -8,  -320,  -666, -1618, -1162,   126,  1469,
   -853,   -90,  -271,   830,   107, -1421,  -247,  -951,
   -398,   961, -1508,  -725,   448, -1065,   677, -1275,
  -1103,   430,   555,   843, -1251,   871,  1550,   105,
    422,   587,   177,  -235,  -291,  -460,  1574,  1653,
   -246,   778,  1159,  -147,  -777,  1483,  -602,  1119,
  -1590,   644,  -872,   349,   418,   329,  -156,   -75,
    817,  1097,   603,   610,  1322, -1285, -1465,   384,
  -1215,  -136,  1218, -1335,  -874,   220, -1187, -1659,
  -1185, -1530, -1278,   794, -1510,  -854,  -870,   478,
   -108,  -308,   996,   991,   958, -1460,  1522,  1628 >>

Zeta(k) == Zetas[k + 1]

Fqmul(a, b) == MontgomeryReduce(a * b)

(* Position j of a layer lies in the lower or the upper half of its block. *)
Lower(j, len) == j % (2 * len) < len
Block(j, len) == j \div (2 * len)

(* One turn of the loop over len: every block has a zeta of its own, the
   first of a layer is number 128 / len. *)
NttLayer(r, len) ==
    [j \in Coeffs |->
        LET zeta == Zeta(128 \div len + Block(j, len)) IN
        IF Lower(j, len) THEN Int16(r[j] + Fqmul(zeta, r[j + len]))
                         ELSE Int16(r[j - len] - Fqmul(zeta, r[j]))]

(* The zetas are taken from the last to the first. *)
InvNttLayer(r, len) ==
    [j \in Coeffs |->
        LET zeta == Zeta(256 \div len - 1 - Block(j, len)) IN
        IF Lower(j, len) THEN BarrettReduce(Int16(r[j] + r[j + len]))
                         ELSE Fqmul(zeta, Int16(r[j] - r[j - len]))]

(* The last loop: 2^32 / 128, which leaves a factor of 2^16. *)
Scale(r) == [j \in Coeffs |-> Fqmul(r[j], 1441)]

(* Both halves of basemul, for the pair of coefficients that holds j. *)
Basemul(a, b, zeta, j) ==
    IF j % 2 = 0
    THEN Int16(Fqmul(Fqmul(a[j + 1], b[j + 1]), zeta) + Fqmul(a[j], b[j]))
    ELSE Int16(Fqmul(a[j - 1], b[j]) + Fqmul(a[j], b[j - 1]))

PolyBasemulMontgomery(a, b) ==
    [j \in Coeffs |->
        LET zeta == Zeta(64 + j \div 4)
        IN  Basemul(a, b, IF j % 4 < 2 THEN zeta ELSE -zeta, j)]

-----------------------------------------------------------------------------
(* Polynomials, coefficient by coefficient. *)

PolyReduce(r) == [j \in Coeffs |-> BarrettReduce(r[j])]
PolyAdd(a, b) == [j \in Coeffs |-> Int16(a[j] + b[j])]
PolySub(a, b) == [j \in Coeffs |-> Int16(a[j] - b[j])]
PolyToMont(r) == [j \in Coeffs |-> MontgomeryReduce(r[j] * 1353)]  \* 2^32 % q

(* The sum of the products of two vectors in the domain of the transform. *)
PolyvecBasemulAcc(a, b) ==
    LET t(i) == Once(PolyBasemulMontgomery(a[i], b[i]))
    IN  Once(PolyReduce(Once(PolyAdd(Once(PolyAdd(t(1), t(2))), t(3)))))

(* Two fields of two bits are added without a carry between them. *)
Bit(x, n) == (x \div 2^n) % 2

Cbd2(buf) ==
    [j \in Coeffs |->
        LET t == buf[j \div 2] \div 16^(j % 2)
        IN  (Bit(t, 0) + Bit(t, 1)) - (Bit(t, 2) + Bit(t, 3))]

-----------------------------------------------------------------------------
(* Rounding.  floor(x * m / 2^s) without a product over 31 bits, for          *)
(* x < 2^24, m < 2^23 and s >= 16.                                           *)
MulShift(x, m, s) ==
    LET low == (x % 256) * m
        mid == ((x \div 256) % 256) * m + low \div 256
        top == (x \div 65536) * m + mid \div 256
    IN  top \div 2^(s - 16)

(* With a bug: the constant that rounds is forgotten. *)
CompressFourDown(u) == MulShift(Positive(u) * 16, 80635, 28) % 16

CompressFour(u) == MulShift(Positive(u) * 16 + 1665, 80635, 28) % 16
CompressTen(u)  == MulShift(Positive(u) * 1024 + 1665, 1290167, 32) % 1024

DecompressFour(t) == (t * KYBER_Q + 8) \div 16
DecompressTen(t)  == (t * KYBER_Q + 512) \div 1024

FromMsgBit(bit) == bit * ((KYBER_Q + 1) \div 2)

(* A negative t is not made positive first; bit 28 of the product mod 2^32. *)
ToMsgBit(t) == (((2 * t + 1665) * 80635) \div 2^28) % 2

-----------------------------------------------------------------------------
(* Bytes.  A vector of polynomials of d bits each is an array of 32 * d bytes *)
(* for each; "|" joins fields that do not overlap.                            *)

KYBER_POLYBYTES == 384

PolyvecToBytes(v) ==
    [n \in 0 .. KYBER_K * KYBER_POLYBYTES - 1 |->
        LET p  == v[n \div KYBER_POLYBYTES + 1]
            i  == (n % KYBER_POLYBYTES) \div 3
            t0 == Positive(p[2 * i])
            t1 == Positive(p[2 * i + 1])
        IN  CASE n % 3 = 0 -> t0 % 256
              [] n % 3 = 1 -> (t0 \div 256 + t1 * 16) % 256
              [] n % 3 = 2 -> t1 \div 16]

PolyvecFromBytes(a) ==
    [i \in 1 .. KYBER_K |->
        [j \in Coeffs |->
            LET n == (i - 1) * KYBER_POLYBYTES + 3 * (j \div 2) IN
            IF j % 2 = 0 THEN (a[n] + a[n + 1] * 256) % 4096
                         ELSE (a[n + 1] \div 16 + a[n + 2] * 16) % 4096]]

(* Four coefficients of ten bits to five bytes. *)
PolyvecCompress(v) ==
    [n \in 0 .. KYBER_K * 320 - 1 |->
        LET t(k) == CompressTen(v[n \div 320 + 1][4 * ((n % 320) \div 5) + k])
        IN  CASE n % 5 = 0 -> t(0) % 256
              [] n % 5 = 1 -> (t(0) \div 256 + t(1) * 4) % 256
              [] n % 5 = 2 -> (t(1) \div 64 + t(2) * 16) % 256
              [] n % 5 = 3 -> (t(2) \div 16 + t(3) * 64) % 256
              [] n % 5 = 4 -> t(3) \div 4]

PolyvecDecompress(a) ==
    [i \in 1 .. KYBER_K |->
        [j \in Coeffs |->
            LET n == (i - 1) * 320 + 5 * (j \div 4)
                k == j % 4
                t == a[n + k] \div 4^k + a[n + k + 1] * 4^(4 - k)
            IN  DecompressTen(t % 1024)]]

PolyCompress(p) ==
    [n \in 0 .. 127 |-> CompressFour(p[2 * n]) + CompressFour(p[2 * n + 1]) * 16]

PolyDecompress(a) ==
    [j \in Coeffs |-> DecompressFour((a[j \div 2] \div 16^(j % 2)) % 16)]

-----------------------------------------------------------------------------
(* rej_uniform: two candidates of twelve bits in every three bytes, those     *)
(* below q kept, at most len of them.  buf is a sequence of bytes.            *)
Candidates(buf) ==
    [n \in 1 .. 2 * (Len(buf) \div 3) |->
        LET k == 3 * ((n - 1) \div 2) IN
        IF n % 2 = 1 THEN (buf[k + 1] + buf[k + 2] * 256) % 4096
                     ELSE (buf[k + 2] \div 16 + buf[k + 3] * 16) % 4096]

(* With a bug: the last three bytes of a buffer are not looked at. *)
RejUniformShort(len, buf) ==
    AtMost(len, Below(Candidates(SubSeq(buf, 1, Len(buf) - 3)), KYBER_Q))

RejUniform(len, buf) == AtMost(len, Below(Candidates(buf), KYBER_Q))
=============================================================================
