--------------------------------- MODULE Kem ---------------------------------
(***************************************************************************)
(* ML-KEM-768 as firmware/pqc runs it: kem.c, indcpa.c and                 *)
(* symmetric-shake.c over the ring of module KemRing, at full size.        *)
(*                                                                         *)
(* A procedure of indcpa.c is the list of its statements; "code" is what   *)
(* is left of the one that runs, and each statement is a step on the       *)
(* vectors in "mem".  "bound" is the worst case of each vector over every  *)
(* input, so that an overflow is found on inputs nobody tried.             *)
(*                                                                         *)
(* The hashes are ideal: HashG tells different inputs apart, and the bytes *)
(* of the two streams are given.  The ciphertext may be changed on its way. *)
(***************************************************************************)
EXTENDS KemRing, FiniteSetsExt, SequencesExt

CONSTANTS
    Coins,                  \* what randombytes may return for a key pair: [d, z]
    Messages,               \* and for an encapsulation: 256 bits
    Changes,                \* changes to a ciphertext: [at, add]
    Expand(_),              \* hash_g of the coins of a key pair: [seed, noise]
    HashG(_, _),            \* hash_g of message and hash: [key, coins]
    HashH(_),               \* hash_h of a public key
    Rkprf(_, _),            \* shake256 of z and a ciphertext
    XofBlock(_, _, _, _),   \* block number n of shake128(seed, x, y)
    PrfBytes(_, _)          \* shake256(key, nonce): 128 bytes

GEN_MATRIX_NBLOCKS == 3

ASSUME KemAssumption ==
    /\ Messages \subseteq [Coeffs -> {0, 1}]
    /\ Changes \subseteq [at : 0 .. 1087, add : Int]

VARIABLES
    step,                   \* the call of the test program that runs
    code,                   \* what is left of the procedure it is in
    mem,                    \* the local vectors, by name
    bound,                  \* the largest absolute value each can hold
    peak,                   \* history: the largest intermediate value possible
    layer,                  \* layers done of the transform that runs
    nonce,                  \* the counter of the noise polynomials
    drawn,                  \* history: the nonces this procedure used
    seed, coins,            \* of the matrix and of the noise
    entry,                  \* the matrix: [done, blocks, kept]
    msg,                    \* the message of the inner scheme
    kr,                     \* hash_g of the message: the key and the coins
    pk, sk,                 \* [bytes, seed], [bytes, pk, h, z]
    out,                    \* the ciphertext indcpa_enc writes
    sent, ct,               \* the ciphertext before and after the channel
    ssA, ssB                \* the two shared secrets

sampling == <<seed, coins, nonce, drawn, entry>>
keys     == <<step, msg, kr, pk, sk, out, sent, ct, ssA, ssB>>
vars     == <<code, mem, bound, peak, layer, sampling, keys>>

Names   == {"skpv", "e", "pkpv", "sp", "ep", "epp", "b", "v", "k", "mp"}
NoEntry == [done |-> <<>>, blocks |-> 0, kept |-> <<>>]
-----------------------------------------------------------------------------
(* The procedures of indcpa.c, a statement a tuple: its name, the vector it
   writes, those it reads. *)

(* With a bug: the sum is not reduced before it is packed. *)
IndcpaKeypairUnreduced ==
    << <<"gen_a">>,
       <<"getnoise", "skpv">>, <<"getnoise", "e">>,
       <<"ntt", "skpv">>, <<"ntt", "e">>,
       <<"matrix", "pkpv", "skpv">>, <<"tomont", "pkpv">>,
       <<"add", "pkpv", "e">>, <<"pack_keys">> >>

IndcpaKeypair ==
    << <<"gen_a">>,
       <<"getnoise", "skpv">>, <<"getnoise", "e">>,
       <<"ntt", "skpv">>, <<"ntt", "e">>,
       <<"matrix", "pkpv", "skpv">>, <<"tomont", "pkpv">>,
       <<"add", "pkpv", "e">>, <<"reduce", "pkpv">>,
       <<"pack_keys">> >>

IndcpaEnc ==
    << <<"unpack_pk", "pkpv">>, <<"frommsg", "k">>, <<"gen_at">>,
       <<"getnoise", "sp">>, <<"getnoise", "ep">>, <<"getnoise", "epp">>,
       <<"ntt", "sp">>,
       <<"matrix", "b", "sp">>, <<"dot", "v", "pkpv", "sp">>,
       <<"invntt", "b">>, <<"invntt", "v">>,
       <<"add", "b", "ep">>, <<"add", "v", "epp">>, <<"add", "v", "k">>,
       <<"reduce", "b">>, <<"reduce", "v">>,
       <<"pack_ciphertext">> >>

IndcpaDec ==
    << <<"unpack_b", "b">>, <<"unpack_v", "v">>, <<"unpack_sk", "skpv">>,
       <<"ntt", "b">>, <<"dot", "mp", "skpv", "b">>, <<"invntt", "mp">>,
       <<"sub", "mp", "v", "mp">>, <<"reduce", "mp">>,
       <<"tomsg", "mp">> >>

-----------------------------------------------------------------------------
(* The worst case of the arithmetic, over every input. *)

Half == 1664                            \* (q - 1) / 2: what BarrettReduce leaves

FqmulBound(product) == (product + 32768 * KYBER_Q) \div 65536

ZetaBound == 1659

Larger(a, b) == IF a > b THEN a ELSE b

-----------------------------------------------------------------------------
(* One statement of a procedure. *)

At(op) == code # <<>> /\ Head(code)[1] = op

X == Head(code)[2]
Y == Head(code)[3]
Z == Head(code)[4]

(* The statement leaves val in the vector x, below worst, and its arithmetic
   stays below top. *)
Leave(x, val, worst, top) ==
    /\ mem' = [mem EXCEPT ![x] = val]
    /\ bound' = [bound EXCEPT ![x] = worst]
    /\ peak' = Larger(peak, Larger(worst, top))

Done == code' = Tail(code)

Each(F(_), v) == [i \in DOMAIN v |-> F(v[i])]

(* gen_matrix: an entry is sampled from three blocks of its own stream, then
   from one block at a time until it is full.  Entries are taken row by row. *)
Row == Len(entry.done) \div KYBER_K
Col == Len(entry.done) % KYBER_K

Block0(n) == IF At("gen_at") THEN XofBlock(seed, Row, Col, n)
                             ELSE XofBlock(seed, Col, Row, n)

SampleBlocks ==
    /\ At("gen_a") \/ At("gen_at")
    /\ Len(entry.kept) < KYBER_N
    /\ LET n   == IF entry.blocks = 0 THEN GEN_MATRIX_NBLOCKS ELSE 1
           buf == FlattenSeq([b \in 1 .. n |-> Block0(entry.blocks + b)])
       IN  entry' = [entry EXCEPT
               !.blocks = @ + n,
               !.kept = @ \o RejUniform(KYBER_N - Len(@), buf)]
    /\ UNCHANGED <<code, mem, bound, peak, layer, seed, coins, nonce, drawn, keys>>

EntryDone ==
    /\ At("gen_a") \/ At("gen_at")
    /\ Len(entry.kept) = KYBER_N
    /\ LET done == Append(entry.done, [j \in Coeffs |-> entry.kept[j + 1]]) IN
       /\ entry' = [NoEntry EXCEPT !.done = done]
       /\ code' = IF Len(done) = KYBER_K * KYBER_K THEN Tail(code) ELSE code
    /\ UNCHANGED <<mem, bound, peak, layer, seed, coins, nonce, drawn, keys>>

NextNonce(n) == (nonce + n) % 256

(* One noise polynomial for every element of the vector. *)
GetNoise ==
    /\ At("getnoise")
    /\ LET n == IF X = "epp" THEN 1 ELSE KYBER_K IN
       /\ Leave(X, [i \in 1 .. n |-> Cbd2(PrfBytes(coins, nonce + i - 1))], 2, 0)
       /\ nonce' = NextNonce(n)
       /\ drawn' = drawn \o [i \in 1 .. n |-> nonce + i - 1]
    /\ Done
    /\ UNCHANGED <<layer, seed, coins, entry, keys>>

Ntt ==
    /\ At("ntt")
    /\ IF layer < 7
       THEN /\ Leave(X, Each(LAMBDA p : NttLayer(p, 128 \div 2^layer), mem[X]),
                     bound[X] + FqmulBound(ZetaBound * bound[X]), 0)
            /\ layer' = layer + 1
            /\ UNCHANGED code
       ELSE /\ Leave(X, Each(PolyReduce, mem[X]), Half, 0)
            /\ layer' = 0
            /\ Done
    /\ UNCHANGED <<sampling, keys>>

InvNtt ==
    /\ At("invntt")
    /\ IF layer < 7
       THEN /\ Leave(X, Each(LAMBDA p : InvNttLayer(p, 2^(layer + 1)), mem[X]),
                     Larger(Half, FqmulBound(ZetaBound * 2 * bound[X])),
                     2 * bound[X])
            /\ layer' = layer + 1
            /\ UNCHANGED code
       ELSE /\ Leave(X, Each(Scale, mem[X]), FqmulBound(1441 * bound[X]), 0)
            /\ layer' = 0
            /\ Done
    /\ UNCHANGED <<sampling, keys>>

(* The pairs are multiplied with the two factors and a zeta, and K of them
   are summed before they are reduced. *)
BasemulBound(bx, by) ==
    LET cross == FqmulBound(bx * by)
    IN  Larger(2 * cross, FqmulBound(ZetaBound * cross) + cross)

AccPeak(bx, by) == KYBER_K * BasemulBound(bx, by)

Matrix ==
    /\ At("matrix")
    /\ Leave(X, [i \in 1 .. KYBER_K |->
                    PolyvecBasemulAcc(SubSeq(entry.done, KYBER_K * (i - 1) + 1,
                                             KYBER_K * i), mem[Y])],
             Half, AccPeak(KYBER_Q - 1, bound[Y]))
    /\ Done
    /\ UNCHANGED <<layer, sampling, keys>>

Dot ==
    /\ At("dot")
    /\ Leave(X, <<PolyvecBasemulAcc(mem[Y], mem[Z])>>,
             Half, AccPeak(bound[Y], bound[Z]))
    /\ Done
    /\ UNCHANGED <<layer, sampling, keys>>

ToMont ==
    /\ At("tomont")
    /\ Leave(X, Each(PolyToMont, mem[X]), FqmulBound(1353 * bound[X]), 0)
    /\ Done
    /\ UNCHANGED <<layer, sampling, keys>>

Add ==
    /\ At("add")
    /\ Leave(X, [i \in DOMAIN mem[X] |-> PolyAdd(mem[X][i], mem[Y][i])],
             bound[X] + bound[Y], 0)
    /\ Done
    /\ UNCHANGED <<layer, sampling, keys>>

Sub ==
    /\ At("sub")
    /\ Leave(X, [i \in DOMAIN mem[X] |-> PolySub(mem[Y][i], mem[Z][i])],
             bound[Y] + bound[Z], 0)
    /\ Done
    /\ UNCHANGED <<layer, sampling, keys>>

Reduce ==
    /\ At("reduce")
    /\ Leave(X, Each(PolyReduce, mem[X]), Half, 0)
    /\ Done
    /\ UNCHANGED <<layer, sampling, keys>>

-----------------------------------------------------------------------------
(* Statements that read or write bytes. *)

PackKeys ==
    /\ At("pack_keys")
    /\ LET p == [bytes |-> PolyvecToBytes(mem["pkpv"]), seed |-> seed] IN
       /\ pk' = p
       /\ sk' = [sk EXCEPT !.bytes = PolyvecToBytes(mem["skpv"]),
                           !.pk = p, !.h = HashH(p)]
    /\ Done
    /\ UNCHANGED <<mem, bound, peak, layer, sampling,
                   step, msg, kr, out, sent, ct, ssA, ssB>>

(* The encapsulation is given the key; a decapsulation takes it from sk. *)
UnpackPk ==
    /\ At("unpack_pk")
    /\ LET p == IF step = "enc" THEN pk ELSE sk.pk IN
       /\ Leave("pkpv", PolyvecFromBytes(p.bytes), 4095, 0)
       /\ seed' = p.seed
    /\ Done
    /\ UNCHANGED <<layer, coins, nonce, drawn, entry, keys>>

UnpackSk ==
    /\ At("unpack_sk")
    /\ Leave("skpv", PolyvecFromBytes(sk.bytes), 4095, 0)
    /\ Done
    /\ UNCHANGED <<layer, sampling, keys>>

FromMsg ==
    /\ At("frommsg")
    /\ Leave("k", <<[j \in Coeffs |-> FromMsgBit(msg[j])]>>, 1665, 0)
    /\ Done
    /\ UNCHANGED <<layer, sampling, keys>>

PackCt(b, v) ==
    [n \in 0 .. 1087 |-> IF n < 960 THEN b[n] ELSE v[n - 960]]

PackCiphertext ==
    /\ At("pack_ciphertext")
    /\ out' = PackCt(PolyvecCompress(mem["b"]), PolyCompress(mem["v"][1]))
    /\ Done
    /\ UNCHANGED <<mem, bound, peak, layer, sampling,
                   step, msg, kr, pk, sk, sent, ct, ssA, ssB>>

UnpackB ==
    /\ At("unpack_b")
    /\ Leave("b", PolyvecDecompress(ct), KYBER_Q - 1, 0)
    /\ Done
    /\ UNCHANGED <<layer, sampling, keys>>

UnpackV ==
    /\ At("unpack_v")
    /\ Leave("v", <<PolyDecompress([n \in 0 .. 127 |-> ct[960 + n]])>>, KYBER_Q - 1, 0)
    /\ Done
    /\ UNCHANGED <<layer, sampling, keys>>

ToMsg ==
    /\ At("tomsg")
    /\ msg' = [j \in Coeffs |-> ToMsgBit(mem["mp"][1][j])]
    /\ Done
    /\ UNCHANGED <<mem, bound, peak, layer, sampling,
                   step, kr, pk, sk, out, sent, ct, ssA, ssB>>

Statement ==
    \/ SampleBlocks \/ EntryDone \/ GetNoise
    \/ Ntt \/ InvNtt \/ Matrix \/ Dot \/ ToMont \/ Add \/ Sub \/ Reduce
    \/ PackKeys \/ UnpackPk \/ UnpackSk \/ FromMsg
    \/ PackCiphertext \/ UnpackB \/ UnpackV \/ ToMsg

-----------------------------------------------------------------------------
(* kem.c.  A procedure starts with locals that nothing has been written to. *)

Call(procedure, s, c) ==
    /\ code' = procedure
    /\ mem' = [x \in Names |-> <<>>]
    /\ bound' = [x \in Names |-> 0]
    /\ peak' = 0 /\ layer' = 0 /\ nonce' = 0 /\ drawn' = <<>>
    /\ seed' = s /\ coins' = c
    /\ entry' = NoEntry

Init ==
    /\ step = "keypair"
    /\ \E c \in Coins :
          /\ seed = Expand(c.d).seed
          /\ coins = Expand(c.d).noise
          /\ sk = [bytes |-> <<>>, pk |-> <<>>, h |-> <<>>, z |-> c.z]
    /\ code = IndcpaKeypair
    /\ mem = [x \in Names |-> <<>>]
    /\ bound = [x \in Names |-> 0]
    /\ peak = 0 /\ layer = 0 /\ nonce = 0 /\ drawn = <<>>
    /\ entry = NoEntry
    /\ msg = <<>> /\ kr = <<>> /\ pk = <<>>
    /\ out = <<>> /\ sent = <<>> /\ ct = <<>>
    /\ ssA = <<>> /\ ssB = <<>>

(* crypto_kem_enc: the coins of the encryption come from the message and the
   key it is for. *)
Encapsulate ==
    /\ step = "keypair" /\ code = <<>>
    /\ step' = "enc"
    /\ \E m \in Messages :
          LET g == HashG(m, HashH(pk)) IN
          /\ msg' = m
          /\ kr' = g
          /\ Call(IndcpaEnc, <<>>, g.coins)
    /\ UNCHANGED <<pk, sk, out, sent, ct, ssA, ssB>>

(* The ciphertext and the secret are returned; the ciphertext is received as
   it was sent or with a byte of it changed. *)
Transmit ==
    /\ step = "enc" /\ code = <<>>
    /\ step' = "dec"
    /\ ssA' = kr.key
    /\ sent' = out
    /\ \E c \in Changes :
          ct' = [out EXCEPT ![c.at] = (@ + c.add) % 256]
    /\ msg' = <<>> /\ kr' = <<>>
    /\ Call(IndcpaDec, <<>>, <<>>)
    /\ UNCHANGED <<pk, sk, out, ssB>>

(* crypto_kem_dec encrypts again what it decrypted. *)
Reencrypt ==
    /\ step = "dec" /\ code = <<>>
    /\ step' = "reenc"
    /\ LET g == HashG(msg, sk.h) IN
       /\ kr' = g
       /\ Call(IndcpaEnc, <<>>, g.coins)
    /\ out' = <<>>
    /\ UNCHANGED <<msg, pk, sk, sent, ct, ssA, ssB>>

(* With a bug: the part of v is not compared. *)
VerifyB(a, b) == \A n \in 0 .. 959 : a[n] = b[n]

Verify(a, b) == \A n \in DOMAIN a : a[n] = b[n]

Cmov(r, x, take) == IF take THEN x ELSE r

(* The key of the message only if the two ciphertexts agree. *)
Decapsulated ==
    /\ step = "reenc" /\ code = <<>>
    /\ step' = "done"
    /\ ssB' = Cmov(Rkprf(sk.z, ct), kr.key, Verify(ct, out))
    /\ UNCHANGED <<code, mem, bound, peak, layer, sampling,
                   msg, kr, pk, sk, out, sent, ct, ssA>>

Next == Statement \/ Encapsulate \/ Transmit \/ Reencrypt \/ Decapsulated

Spec == Init /\ [][Next]_vars

-----------------------------------------------------------------------------
(* Properties. *)

(* No input overflows the 16 bits of a coefficient, in any procedure: the
   worst case stays below 2^15, and no vector leaves its worst case. *)
NoOverflow ==
    /\ peak <= 32767
    /\ \A x \in Names : \A i \in DOMAIN mem[x] : \A j \in Coeffs :
          mem[x][i][j] \in -bound[x] .. bound[x]

(* What is written to bytes has a representative between -q and q for every
   input: one conditional addition of q makes it canonical.  The message is
   rounded without that addition, and needs the smallest representative. *)
PacksReduced ==
    /\ At("pack_keys") => bound["pkpv"] < KYBER_Q /\ bound["skpv"] < KYBER_Q
    /\ At("pack_ciphertext") => bound["b"] < KYBER_Q /\ bound["v"] < KYBER_Q
    /\ At("tomsg") => bound["mp"] <= Half

(* So whatever the input, every value fits where it is held and written. *)
WorstCaseFits == NoOverflow /\ PacksReduced

(* A matrix entry is the first accepted candidates of its stream, none lost or
   taken twice where a block ends. *)
SampledInOrder ==
    entry.blocks > 0 =>
        LET bytes == FlattenSeq([n \in 1 .. entry.blocks |-> Block0(n)])
        IN  entry.kept = AtMost(KYBER_N, Below(Candidates(bytes), KYBER_Q))

(* No two noise polynomials of a procedure come from one nonce. *)
NoncesFresh == \A i, k \in DOMAIN drawn : drawn[i] = drawn[k] => i = k

(* No byte of a stream is used twice, or lost, by the matrix or by the noise. *)
SampledOnce == SampledInOrder /\ NoncesFresh

(* The bytes of a vector are its coefficients' bits, the lowest first, as the
   other implementation of the link reads them. *)
Bits(bytes, at, v, d, F(_)) ==
    \A i \in DOMAIN v : \A j \in Coeffs : \A n \in 0 .. d - 1 :
        LET k == (256 * (i - 1) + j) * d + n
        IN  Bit(bytes[at + k \div 8], k % 8) = Bit(F(v[i][j]), n)

BitsInOrder ==
    code = <<>> =>
        /\ step = "keypair" =>
              /\ Bits(pk.bytes, 0, mem["pkpv"], 12, LAMBDA u : u % KYBER_Q)
              /\ Bits(sk.bytes, 0, mem["skpv"], 12, LAMBDA u : u % KYBER_Q)
        /\ step \in {"enc", "reenc"} =>
              /\ Bits(out, 0, mem["b"], 10, CompressTen)
              /\ Bits(out, 960, mem["v"], 4, CompressFour)

(* The multiplications that stand for divisions by q round to the nearest, for
   every coefficient, in every representative they are given. *)
RoundsToNearest ==
    step = "done" =>
        \A u \in 1 - KYBER_Q .. KYBER_Q - 1 :
            LET r == u % KYBER_Q IN
            /\ CompressFour(u) = ((16 * r + Half) \div KYBER_Q) % 16
            /\ CompressTen(u) = ((1024 * r + Half) \div KYBER_Q) % 1024
            /\ u \in -Half .. Half =>
                  ToMsgBit(u) = ((2 * r + Half) \div KYBER_Q) % 2

(* A key and a ciphertext are written as FIPS 203 has them: each coefficient
   rounded to the nearest and in its own bits. *)
WireFormat == BitsInOrder /\ RoundsToNearest

(* An untouched ciphertext gives both sides one secret. *)
SecretsAgree == step = "done" /\ ct = sent => ssB = ssA

(* A changed one gives the holder of sk a secret of z and of that ciphertext,
   whatever message it decrypts to. *)
ImplicitRejection ==
    step = "done" /\ ct # sent => ssB = Rkprf(sk.z, ct) /\ ssB # ssA

(* Decapsulation never fails: it gives the one or the other. *)
Decapsulates == SecretsAgree /\ ImplicitRejection
=============================================================================
