--------------------------------- MODULE Dsa ---------------------------------
(***************************************************************************)
(* ML-DSA-65 as firmware/pqc runs it: d_sign.c, d_polyvec.c, d_packing.c   *)
(* and the sampling of d_poly.c over the ring of module DsaRing, at full   *)
(* size.                                                                   *)
(*                                                                         *)
(* A procedure of d_sign.c is the list of its statements; "code" is what   *)
(* is left of the one that runs, and each statement is a step on the       *)
(* vectors in "mem".  "bound" is the worst case of each vector over every  *)
(* input, so that an overflow is found on inputs nobody tried.             *)
(*                                                                         *)
(* The hashes are ideal: a digest is the tuple of what was hashed, and the *)
(* bytes of the streams are given.  What the verifier receives may differ  *)
(* from what was signed.                                                   *)
(***************************************************************************)
EXTENDS DsaRing, FiniteSetsExt

CONSTANTS
    Seeds,                  \* what randombytes may return for a key pair
    Requests,               \* signatures asked for: [m, ctx, ctxlen, rnd]
    Deliveries,             \* what is received: [api, part, at, val]
    Expand(_),              \* shake256 of a seed, K and L: [rho, rhoprime, key]
    Stream128(_, _, _),     \* block number n of shake128(seed, nonce)
    Stream256(_, _, _),     \* of shake256(seed, nonce)
    BallBlock(_, _)         \* of shake256(challenge)

(* What arrives in the place of the bytes of z is bytes. *)
ASSUME DsaAssumption ==
    \A d \in Deliveries : d.part \in {"z", "all"} => d.val \in 0 .. 255

POLY_UNIFORM_NBLOCKS        == 5
POLY_UNIFORM_ETA_NBLOCKS    == 2
POLY_UNIFORM_GAMMA1_NBLOCKS == 5
STREAM256_BLOCKBYTES        == 136

VARIABLES
    step,                   \* the call of the test program that runs
    code,                   \* what is left of the procedure it is in
    mem,                    \* the local vectors, by name
    bound,                  \* the largest absolute value each can hold
    peak,                   \* history: the largest intermediate value possible
    layer,                  \* layers done of the transform that runs
    mat,                    \* the matrix, row by row
    sample,                 \* of the vector that is sampled: [done, blocks,
                            \*   kept, left]
    nonce,                  \* of the next attempt to sign
    drawn,                  \* history: the nonces of the masking vectors
    ball,                   \* of the challenge: [i, pos, block, signs]
    rho, rhoprime, mu,      \* the seeds and the message digest of the call
    ctilde,                 \* the challenge, before it is a polynomial
    pk, sk,                 \* [rho, t1], [rho, key, tr, s1, s2, t0]
    request, sig,           \* what was signed, and the signature
    got,                    \* what the verifier received: [api, sig, siglen,
                            \*   m, ctx, ctxlen]
    ret,                    \* what the call returned, None before
    opened                  \* what crypto_sign_open left: [m, mlen]

ring  == <<mem, bound, peak, layer>>
draws == <<mat, sample, nonce, drawn, ball>>
texts == <<rho, rhoprime, mu, ctilde>>
world == <<step, pk, sk, request, sig, got, ret, opened>>
vars  == <<code, ring, draws, texts, world>>

Names    == {"s1", "s1hat", "s2", "t0", "t1", "y", "z", "w1", "w0", "h", "cp"}
NoSample == [done |-> <<>>, blocks |-> 0, kept |-> <<>>, left |-> <<>>]
NoSig    == [c |-> <<>>, z |-> <<>>, h |-> <<>>]
NoBall   == [i |-> 0, pos |-> 0, block |-> 0, signs |-> <<>>]
None     == 1

-----------------------------------------------------------------------------
(* The procedures of d_sign.c, a statement a tuple: its name, the vector it
   writes, those it reads. *)

Keypair ==
    << <<"gen_a">>, <<"eta", "s1">>, <<"eta", "s2">>,
       <<"copy", "s1hat", "s1">>, <<"ntt", "s1hat">>,
       <<"matrix", "t1", "s1hat">>, <<"reduce", "t1">>, <<"invntt", "t1">>,
       <<"add", "t1", "s2">>, <<"caddq", "t1">>, <<"power2round", "t1">>,
       <<"pack_keys">> >>

(* With a bug: what is rounded may be negative. *)
AttemptNoCaddq ==
    << <<"gamma1", "y">>, <<"copy", "z", "y">>, <<"ntt", "z">>,
       <<"matrix", "w1", "z">>, <<"reduce", "w1">>, <<"invntt", "w1">>,
       <<"decompose", "w1">>,
       <<"hash_w1">>, <<"challenge">>, <<"ntt", "cp">>,
       <<"times", "z", "s1">>, <<"invntt", "z">>, <<"add", "z", "y">>,
       <<"reduce", "z">>, <<"check", "z">>,
       <<"times", "h", "s2">>, <<"invntt", "h">>, <<"sub", "w0", "h">>,
       <<"reduce", "w0">>, <<"check", "w0">>,
       <<"times", "h", "t0">>, <<"invntt", "h">>, <<"reduce", "h">>,
       <<"check", "h">>,
       <<"add", "w0", "h">>, <<"make_hint">>, <<"pack_sig">> >>

(* From the label rej. *)
Attempt ==
    << <<"gamma1", "y">>, <<"copy", "z", "y">>, <<"ntt", "z">>,
       <<"matrix", "w1", "z">>, <<"reduce", "w1">>, <<"invntt", "w1">>,
       <<"caddq", "w1">>, <<"decompose", "w1">>,
       <<"hash_w1">>, <<"challenge">>, <<"ntt", "cp">>,
       <<"times", "z", "s1">>, <<"invntt", "z">>, <<"add", "z", "y">>,
       <<"reduce", "z">>, <<"check", "z">>,
       <<"times", "h", "s2">>, <<"invntt", "h">>, <<"sub", "w0", "h">>,
       <<"reduce", "w0">>, <<"check", "w0">>,
       <<"times", "h", "t0">>, <<"invntt", "h">>, <<"reduce", "h">>,
       <<"check", "h">>,
       <<"add", "w0", "h">>, <<"make_hint">>, <<"pack_sig">> >>

Signature ==
    << <<"unpack_sk">>, <<"hash_mu">>, <<"gen_a">>,
       <<"ntt", "s1">>, <<"ntt", "s2">>, <<"ntt", "t0">> >> \o Attempt

Verify ==
    << <<"unpack_pk">>, <<"unpack_sig">>, <<"check", "z">>, <<"hash_mu">>,
       <<"challenge">>, <<"gen_a">>,
       <<"ntt", "z">>, <<"matrix", "w1", "z">>, <<"ntt", "cp">>,
       <<"shiftl", "t1">>, <<"ntt", "t1">>, <<"times", "t1", "t1">>,
       <<"sub", "w1", "t1">>, <<"reduce", "w1">>, <<"invntt", "w1">>,
       <<"caddq", "w1">>, <<"use_hint", "w1">>, <<"compare">> >>

-----------------------------------------------------------------------------
(* The worst case of the arithmetic, over every input. *)

FqmulBound(a, b) == (a \div 65536 + 1) * (b \div 65536 + 1) + Q \div 2 + 1

TooLarge == 2147483647          \* one less than what 32 bits no longer hold

Twice(b) == IF b > TooLarge \div 2 THEN TooLarge ELSE 2 * b

ZetaBound == 4190208
Reduced   == 6283009            \* what Reduce32 leaves (DsaProofs: Reduce32Range)

Larger(a, b) == IF a > b THEN a ELSE b

-----------------------------------------------------------------------------
(* One statement of a procedure. *)

At(op) == code # <<>> /\ Head(code)[1] = op

X == Head(code)[2]
Y == Head(code)[3]

(* The statement leaves val in the vector x, below worst, and its arithmetic
   stays below top. *)
Leave(x, val, worst, top) ==
    /\ mem' = [mem EXCEPT ![x] = val]
    /\ bound' = [bound EXCEPT ![x] = worst]
    /\ peak' = Larger(peak, Larger(worst, top))

Done == code' = Tail(code)

Pairwise(F(_, _), u, v) == [i \in DOMAIN u |-> F(u[i], v[i])]
Each(F(_), v) == [i \in DOMAIN v |-> F(v[i])]

Rest == UNCHANGED <<draws, texts, world>>

Copy ==
    /\ At("copy")
    /\ Leave(X, mem[Y], bound[Y], 0)
    /\ Done /\ UNCHANGED layer /\ Rest

Ntt ==
    /\ At("ntt")
    /\ Leave(X, Each(LAMBDA p : NttLayer(p, 128 \div 2^layer), mem[X]),
             bound[X] + FqmulBound(bound[X], ZetaBound), 0)
    /\ IF layer < 7 THEN layer' = layer + 1 /\ UNCHANGED code
                    ELSE layer' = 0 /\ Done
    /\ Rest

InvNtt ==
    /\ At("invntt")
    /\ IF layer < 8
       THEN /\ Leave(X, Each(LAMBDA p : InvNttLayer(p, 2^layer), mem[X]),
                     Larger(Twice(bound[X]), FqmulBound(Twice(bound[X]), ZetaBound)),
                     0)
            /\ layer' = layer + 1
            /\ UNCHANGED code
       ELSE /\ Leave(X, Each(Scale, mem[X]), FqmulBound(41978, bound[X]), 0)
            /\ layer' = 0
            /\ Done
    /\ Rest

Matrix ==
    /\ At("matrix")
    /\ Leave(X, [i \in 1 .. K |->
                    PointwiseAcc(SubSeq(mat, L * (i - 1) + 1, L * i), mem[Y])],
             L * FqmulBound(Q - 1, bound[Y]), 0)
    /\ Done /\ UNCHANGED layer /\ Rest

(* The product with the challenge. *)
Times ==
    /\ At("times")
    /\ Leave(X, Each(LAMBDA p : PolyPointwise(mem["cp"][1], p), mem[Y]),
             FqmulBound(bound["cp"], bound[Y]), 0)
    /\ Done /\ UNCHANGED layer /\ Rest

Add ==
    /\ At("add")
    /\ Leave(X, Pairwise(PolyAdd, mem[X], mem[Y]), bound[X] + bound[Y], 0)
    /\ Done /\ UNCHANGED layer /\ Rest

Sub ==
    /\ At("sub")
    /\ Leave(X, Pairwise(PolySub, mem[X], mem[Y]), bound[X] + bound[Y], 0)
    /\ Done /\ UNCHANGED layer /\ Rest

Reduce ==
    /\ At("reduce")
    /\ Leave(X, Each(PolyReduce, mem[X]), Reduced, bound[X] + 4194304)
    /\ Done /\ UNCHANGED layer /\ Rest

CondAddQ ==
    /\ At("caddq")
    /\ Leave(X, Each(PolyCaddq, mem[X]), Larger(bound[X], Q - 1), 0)
    /\ Done /\ UNCHANGED layer /\ Rest

Shiftl ==
    /\ At("shiftl")
    /\ Leave(X, Each(PolyShiftl, mem[X]), bound[X] * 2^D, 0)
    /\ Done /\ UNCHANGED layer /\ Rest

-----------------------------------------------------------------------------
(* Rounding. *)

High(F(_), v) == [i \in DOMAIN v |-> [j \in Coeffs |-> F(v[i][j]).high]]
Low(F(_), v)  == [i \in DOMAIN v |-> [j \in Coeffs |-> F(v[i][j]).low]]

Power2RoundStep ==
    /\ At("power2round")
    /\ mem' = [mem EXCEPT !["t1"] = High(Power2Round, @),
                          !["t0"] = Low(Power2Round, mem["t1"])]
    /\ bound' = [bound EXCEPT !["t1"] = 1023, !["t0"] = 2^(D - 1)]
    /\ Done /\ UNCHANGED <<peak, layer>> /\ Rest

DecomposeStep ==
    /\ At("decompose")
    /\ mem' = [mem EXCEPT !["w1"] = High(Decompose, @),
                          !["w0"] = Low(Decompose, mem["w1"])]
    /\ bound' = [bound EXCEPT !["w1"] = 15, !["w0"] = GAMMA2]
    /\ Done /\ UNCHANGED <<peak, layer>> /\ Rest

UseHintStep ==
    /\ At("use_hint")
    /\ Leave("w1", [i \in 1 .. K |->
                     [j \in Coeffs |-> UseHint(mem["w1"][i][j], mem["h"][i][j])]],
             15, 0)
    /\ Done /\ UNCHANGED layer /\ Rest

(* From which size on a vector is thrown away. *)
Limit(x) == CASE x = "z"  -> GAMMA1 - BETA
              [] x = "w0" -> GAMMA2 - BETA
              [] x = "h"  -> GAMMA2

Chknorm(x) == \E i \in DOMAIN mem[x] : PolyChknorm(mem[x][i], Limit(x))

(* A check that fails begins another attempt, or ends the verification. *)
Check ==
    /\ At("check")
    /\ IF Chknorm(X)
       THEN /\ code' = IF step = "verify" THEN <<>> ELSE Attempt
            /\ ret' = IF step = "verify" THEN -1 ELSE ret
            /\ UNCHANGED bound
       ELSE /\ Done
            /\ bound' = [bound EXCEPT ![X] = Limit(X) - 1]
            /\ UNCHANGED ret
    /\ peak' = Larger(peak, Twice(bound[X]))
    /\ UNCHANGED <<mem, layer, draws, texts, step, pk, sk, request, sig, got, opened>>

Hints == [i \in 1 .. K |->
             [j \in Coeffs |-> MakeHint(mem["w0"][i][j], mem["w1"][i][j])]]

MakeHintStep ==
    /\ At("make_hint")
    /\ LET h == Once(Hints) IN
       /\ Leave("h", h, 1, 0)
       /\ code' = IF Len(FlattenSeq(Ones(h))) > OMEGA THEN Attempt ELSE Tail(code)
    /\ UNCHANGED layer /\ Rest
-----------------------------------------------------------------------------
(* Sampling. *)

(* What is sampled, how many polynomials, and the nonce of the next. *)
Entries == IF At("gen_a") THEN K * L ELSE IF X = "s1" THEN L ELSE K

Entry == Len(sample.done)

EntryNonce == IF At("gen_a") THEN 256 * (Entry \div L) + (Entry % L)
              ELSE IF X = "s1" THEN Entry ELSE L + Entry

FirstBlocks == IF At("gen_a") THEN POLY_UNIFORM_NBLOCKS ELSE POLY_UNIFORM_ETA_NBLOCKS

Blocks(first, n) ==
    FlattenSeq([b \in 1 .. n |->
        IF At("gen_a") THEN Stream128(rho, EntryNonce, first + b - 1)
                       ELSE Stream256(rhoprime, EntryNonce, first + b - 1)])

Accept(len, buf) == IF At("gen_a") THEN RejUniform(len, buf) ELSE RejEta(len, buf)

(* poly_uniform and poly_uniform_eta: some blocks at once, then one at a time.
   poly_uniform carries the bytes that do not make a candidate along. *)
SampleBlocks ==
    /\ At("gen_a") \/ At("eta")
    /\ Len(sample.kept) < N
    /\ LET n   == IF sample.blocks = 0 THEN FirstBlocks ELSE 1
           buf == sample.left \o Blocks(sample.blocks, n)
           off == IF At("gen_a") THEN Len(buf) % 3 ELSE 0
       IN  sample' = [sample EXCEPT
               !.blocks = @ + n,
               !.kept = @ \o Accept(N - Len(@), buf),
               !.left = SubSeq(buf, Len(buf) - off + 1, Len(buf))]
    /\ UNCHANGED <<code, ring, mat, nonce, drawn, ball, texts, world>>

SampleDone ==
    /\ At("gen_a") \/ At("eta")
    /\ Len(sample.kept) = N
    /\ LET done == Append(sample.done, [j \in Coeffs |-> sample.kept[j + 1]]) IN
       IF Len(done) < Entries
       THEN /\ sample' = [NoSample EXCEPT !.done = done]
            /\ UNCHANGED <<code, ring, mat>>
       ELSE /\ sample' = NoSample
            /\ Done
            /\ IF At("gen_a")
               THEN mat' = done /\ UNCHANGED ring
               ELSE Leave(X, done, ETA, 0) /\ UNCHANGED <<mat, layer>>
    /\ UNCHANGED <<nonce, drawn, ball, texts, world>>

(* With a bug: every attempt begins at the next number. *)
MaskNonceOverlaps(i) == (nonce + i) % 65536

MaskNonce(i) == (L * nonce + i) % 65536

(* polyvecl_uniform_gamma1, and the nonce++ of its argument. *)
Gamma1 ==
    /\ At("gamma1")
    /\ LET bytes(i) == FlattenSeq([b \in 1 .. POLY_UNIFORM_GAMMA1_NBLOCKS |->
                                      Stream256(rhoprime, MaskNonce(i), b - 1)])
           buf(s)   == [n \in 0 .. 639 |-> s[n + 1]]
       IN  Leave("y", [i \in 1 .. L |-> UnpackZ(1, Once(buf(Once(bytes(i - 1)))))[1]],
                 GAMMA1, 0)
    /\ drawn' = drawn \o [i \in 1 .. L |-> MaskNonce(i - 1)]
    /\ nonce' = (nonce + 1) % 65536
    /\ Done
    /\ UNCHANGED <<layer, mat, sample, ball, texts, world>>

(* poly_challenge.  The first eight bytes are the signs; then the polynomial
   grows from position N - TAU on, one byte a step: a byte beyond the position
   is passed over. *)
StartChallenge ==
    /\ At("challenge") /\ ball.i = 0
    /\ LET buf == BallBlock(ctilde, 0) IN
       ball' = [i |-> N - TAU, pos |-> 8, block |-> 0,
                signs |-> [n \in 1 .. TAU |->
                              (buf[(n - 1) \div 8 + 1] \div 2^((n - 1) % 8)) % 2]]
    /\ Leave("cp", <<[j \in Coeffs |-> 0]>>, 1, 0)
    /\ UNCHANGED <<code, layer, mat, sample, nonce, drawn, texts, world>>

(* With a bug: the sign is written before the old coefficient is moved. *)
PlaceFirst(c, i, b, s) == [c EXCEPT ![b] = s, ![i] = s]

Place(c, i, b, s) == [c EXCEPT ![i] = c[b], ![b] = s]

GrowChallenge ==
    /\ At("challenge") /\ ball.i # 0
    /\ LET full  == ball.pos >= STREAM256_BLOCKBYTES
           block == IF full THEN ball.block + 1 ELSE ball.block
           pos   == IF full THEN 0 ELSE ball.pos
           b     == BallBlock(ctilde, block)[pos + 1]
       IN  IF b > ball.i
           THEN /\ ball' = [ball EXCEPT !.pos = pos + 1, !.block = block]
                /\ UNCHANGED <<code, ring>>
           ELSE /\ Leave("cp", <<Place(mem["cp"][1], ball.i, b,
                                       1 - 2 * Head(ball.signs))>>, 1, 0)
                /\ ball' = IF ball.i = N - 1 THEN NoBall
                           ELSE [i |-> ball.i + 1, pos |-> pos + 1, block |-> block,
                                 signs |-> Tail(ball.signs)]
                /\ code' = IF ball.i = N - 1 THEN Tail(code) ELSE code
                /\ UNCHANGED layer
    /\ UNCHANGED <<mat, sample, nonce, drawn, texts, world>>

-----------------------------------------------------------------------------
(* Statements that hash, or read or write bytes. *)

Tr(key) == <<"tr", key>>

HashMu ==
    /\ At("hash_mu")
    /\ IF step = "sign"
       THEN /\ mu' = <<sk.tr, request.ctxlen, request.ctx, request.m>>
            /\ rhoprime' = <<sk.key, request.rnd, mu'>>
       ELSE /\ mu' = <<Tr(pk), got.ctxlen, got.ctx, got.m>>
            /\ UNCHANGED rhoprime
    /\ Done
    /\ UNCHANGED <<ring, draws, rho, ctilde, world>>

HashW1 ==
    /\ At("hash_w1")
    /\ ctilde' = <<mu, PackW1(mem["w1"])>>
    /\ Done
    /\ UNCHANGED <<ring, draws, rho, rhoprime, mu, world>>

PackKeys ==
    /\ At("pack_keys")
    /\ LET p == [rho |-> rho, t1 |-> PackT1(mem["t1"])] IN
       /\ pk' = p
       /\ sk' = [sk EXCEPT !.rho = rho, !.tr = Tr(p),
                           !.s1 = PackEta(mem["s1"]), !.s2 = PackEta(mem["s2"]),
                           !.t0 = PackT0(mem["t0"])]
    /\ Done
    /\ UNCHANGED <<ring, draws, texts, step, request, sig, got, ret, opened>>

UnpackSk ==
    /\ At("unpack_sk")
    /\ rho' = sk.rho
    /\ mem' = [mem EXCEPT !["s1"] = UnpackEta(L, sk.s1), !["s2"] = UnpackEta(K, sk.s2),
                          !["t0"] = UnpackT0(sk.t0)]
    /\ bound' = [bound EXCEPT !["s1"] = 11, !["s2"] = 11, !["t0"] = 2^(D - 1)]
    /\ Done
    /\ UNCHANGED <<peak, layer, draws, rhoprime, mu, ctilde, world>>

UnpackPk ==
    /\ At("unpack_pk")
    /\ rho' = pk.rho
    /\ Leave("t1", UnpackT1(pk.t1), 1023, 0)
    /\ Done
    /\ UNCHANGED <<layer, draws, rhoprime, mu, ctilde, world>>

PackSig ==
    /\ At("pack_sig")
    /\ sig' = [c |-> ctilde, z |-> PackZ(mem["z"]), h |-> EncodeHints(mem["h"])]
    /\ ret' = 0
    /\ Done
    /\ UNCHANGED <<ring, draws, texts, step, pk, sk, request, got, opened>>

UnpackSig ==
    /\ At("unpack_sig")
    /\ ctilde' = got.sig.c
    /\ IF Canonical(got.sig.h)
       THEN /\ mem' = [mem EXCEPT !["z"] = UnpackZ(L, got.sig.z),
                                  !["h"] = DecodeHints(got.sig.h)]
            /\ bound' = [bound EXCEPT !["z"] = GAMMA1, !["h"] = 1]
            /\ Done
            /\ UNCHANGED ret
       ELSE /\ code' = <<>> /\ ret' = -1
            /\ UNCHANGED <<mem, bound>>
    /\ UNCHANGED <<peak, layer, draws, rho, rhoprime, mu,
                   step, pk, sk, request, sig, got, opened>>

Compare ==
    /\ At("compare")
    /\ ret' = IF <<mu, PackW1(mem["w1"])>> = ctilde THEN 0 ELSE -1
    /\ Done
    /\ UNCHANGED <<ring, draws, texts, step, pk, sk, request, sig, got, opened>>

Statement ==
    \/ SampleBlocks \/ SampleDone \/ Gamma1 \/ StartChallenge \/ GrowChallenge
    \/ Copy \/ Ntt \/ InvNtt \/ Matrix \/ Times \/ Add \/ Sub \/ Reduce
    \/ CondAddQ \/ Shiftl \/ Power2RoundStep \/ DecomposeStep \/ UseHintStep
    \/ Check \/ MakeHintStep
    \/ HashMu \/ HashW1 \/ PackKeys \/ UnpackSk \/ UnpackPk \/ PackSig \/ UnpackSig
    \/ Compare

-----------------------------------------------------------------------------
(* The calls.  A procedure starts with locals that nothing has been written to. *)

CRYPTO_BYTES == 48 + L * 640 + OMEGA + K

Empty(value) == [x \in Names |-> value]

Init ==
    /\ step = "keypair"
    /\ \E s \in Seeds :
          /\ rho = Expand(s).rho /\ rhoprime = Expand(s).rhoprime
          /\ sk = [rho |-> <<>>, key |-> Expand(s).key, tr |-> <<>>,
                   s1 |-> <<>>, s2 |-> <<>>, t0 |-> <<>>]
    /\ code = Keypair
    /\ mem = Empty(<<>>) /\ bound = Empty(0) /\ peak = 0 /\ layer = 0
    /\ mat = <<>> /\ sample = NoSample /\ nonce = 0 /\ drawn = <<>> /\ ball = NoBall
    /\ mu = <<>> /\ ctilde = <<>>
    /\ pk = <<>> /\ request = <<>> /\ sig = NoSig /\ got = <<>>
    /\ ret = None /\ opened = <<>>

Call(procedure) ==
    /\ code' = procedure
    /\ mem' = Empty(<<>>) /\ bound' = Empty(0) /\ peak' = 0 /\ layer' = 0
    /\ mat' = <<>> /\ sample' = NoSample /\ nonce' = 0 /\ drawn' = <<>>
    /\ ball' = NoBall
    /\ rho' = <<>> /\ rhoprime' = <<>> /\ mu' = <<>> /\ ctilde' = <<>>

(* crypto_sign_signature_ctx, called by crypto_sign_ctx too, which puts the
   message behind the signature. *)
Sign ==
    /\ step = "keypair" /\ code = <<>>
    /\ step' = "sign"
    /\ \E r \in Requests :
          /\ request' = r
          /\ IF r.ctxlen > 255 THEN Call(<<>>) /\ ret' = -1
                               ELSE Call(Signature) /\ ret' = None
    /\ UNCHANGED <<pk, sk, sig, got, opened>>

(* What arrives of what was signed, and bytes that nobody signed. *)
Received(d) ==
    LET bytes(a) == [n \in DOMAIN a |-> IF n \in d.at THEN d.val ELSE a[n]] IN
    [api    |-> d.api,
     sig    |-> CASE d.part = "c" -> [sig EXCEPT !.c = <<d.val, @>>]
                  [] d.part = "z" -> [sig EXCEPT !.z = bytes(@)]
                  [] d.part = "h" -> [sig EXCEPT !.h = bytes(@)]
                  [] OTHER -> sig,
     siglen |-> IF d.part = "siglen" THEN d.val ELSE CRYPTO_BYTES,
     m      |-> IF d.part = "m" THEN d.val ELSE request.m,
     ctx    |-> IF d.part = "ctx" THEN d.val ELSE request.ctx,
     ctxlen |-> IF d.part = "ctxlen" THEN d.val ELSE request.ctxlen]

Unsigned(d) ==
    [api |-> d.api, siglen |-> CRYPTO_BYTES, m |-> [text |-> "none", len |-> 0],
     ctx |-> <<>>, ctxlen |-> 0,
     sig |-> [c |-> <<<<>>, [n \in 0 .. 3 |-> d.val]>>,
              z |-> [n \in 0 .. 640 * L - 1 |-> d.val],
              h |-> [n \in 0 .. OMEGA + K - 1 |-> 0]]]

(* crypto_sign_verify_ctx, or crypto_sign_open_ctx, which looks at the length
   before it calls it: a signed message is refused when it is shorter than a
   signature, and what is behind the signature is the message. *)
Deliver ==
    /\ code = <<>> /\ (step = "keypair" \/ (step = "sign" /\ ret = 0))
    /\ step' = "verify"
    /\ \E d \in Deliveries :
          LET g == IF step = "sign" THEN Received(d) ELSE Unsigned(d) IN
          /\ (d.part = "all") = (step = "keypair")
          /\ got' = g
          /\ IF g.ctxlen > 255 \/ g.siglen # CRYPTO_BYTES
             THEN Call(<<>>) /\ ret' = -1
             ELSE Call(Verify) /\ ret' = None
    /\ UNCHANGED <<pk, sk, request, sig, opened>>

(* With a bug: crypto_sign_open_ctx does not clear what it was given. *)
ReturnUncleared ==
    /\ step = "verify" /\ code = <<>>
    /\ step' = "done"
    /\ opened' = IF got.api = "verify" THEN <<>> ELSE [m |-> got.m, mlen |-> got.m.len]
    /\ UNCHANGED <<code, ring, draws, texts, pk, sk, request, sig, got, ret>>

(* crypto_sign_open_ctx copies the message, or clears what it was given. *)
Return ==
    /\ step = "verify" /\ code = <<>>
    /\ step' = "done"
    /\ opened' = CASE got.api = "verify" -> <<>>
                   [] got.api = "open" /\ ret = 0 -> [m |-> got.m, mlen |-> got.m.len]
                   [] got.api = "open" /\ ret # 0 -> [m |-> <<>>, mlen |-> 0]
    /\ UNCHANGED <<code, ring, draws, texts, pk, sk, request, sig, got, ret>>

Next == Statement \/ Sign \/ Deliver \/ Return

Spec == Init /\ [][Next]_vars

-----------------------------------------------------------------------------
(* Properties. *)

(* No input overflows 32 bits, in any procedure: the worst case stays below
   2^31, and no vector leaves its worst case. *)
NoOverflow ==
    /\ peak < TooLarge
    /\ \A x \in Names : \A i \in DOMAIN mem[x] : \A j \in Coeffs :
          -bound[x] <= mem[x][i][j] /\ mem[x][i][j] <= bound[x]

(* What is rounded is the representative between 0 and q: on no input does the
   conditional addition before it leave another. *)
RoundsCanonical ==
    /\ At("caddq") => bound[X] < Q
    /\ At("decompose") \/ At("power2round") \/ At("use_hint") =>
          \A i \in DOMAIN mem[X] : \A j \in Coeffs : mem[X][i][j] \in 0 .. Q - 1

(* So whatever the input, every value fits where it is held and rounded. *)
WorstCaseFits == NoOverflow /\ RoundsCanonical

(* A sampled polynomial is the first accepted candidates of its stream, none
   lost or taken twice where a block ends. *)
SampledInOrder ==
    sample.blocks > 0 =>
        sample.kept = Accept(N, Blocks(0, sample.blocks))

(* No two masking polynomials of a signature come from one nonce, over all its
   attempts, as long as the 16 bits of the counter do not wrap (after 13107
   rejections). *)
MasksFresh == \A i, k \in DOMAIN drawn : drawn[i] = drawn[k] => i = k

(* The challenge has TAU coefficients of one or minus one in the end, and on the
   way one for every position it has grown by. *)
Nonzero(c) == {j \in Coeffs : c[j] # 0}

ChallengeInBall ==
    /\ ball.i # 0 =>
          /\ Cardinality(Nonzero(mem["cp"][1])) = ball.i - (N - TAU)
          /\ \A j \in Nonzero(mem["cp"][1]) : j < ball.i /\ mem["cp"][1][j] \in {1, -1}
    /\ At("ntt") /\ X = "cp" /\ layer = 0 => Cardinality(Nonzero(mem["cp"][1])) = TAU

(* What is sampled is what FIPS 204 says of its streams, wherever a block ends. *)
SampledLikeFips == SampledInOrder /\ ChallengeInBall

(* The multiplications and shifts that stand for divisions find the interval of
   FIPS 204 next to every border. *)
Centered(r, m) == IF r % m > m \div 2 THEN (r % m) - m ELSE r % m

FipsDecompose(r) ==
    LET r0 == Centered(r, 2 * GAMMA2) IN
    IF r - r0 = Q - 1 THEN [high |-> 0, low |-> r0 - 1]
                      ELSE [high |-> (r - r0) \div (2 * GAMMA2), low |-> r0]

FipsPower2Round(r) ==
    LET r0 == Centered(r, 2^D) IN [high |-> (r - r0) \div 2^D, low |-> r0]

Borders ==
    {r \in {k * GAMMA2 + d : k \in 0 .. 32, d \in -130 .. 130} : r \in 0 .. Q - 1}

Halves ==
    {r \in {k * 2^(D - 1) + d : k \in 0 .. 2047, d \in -1 .. 1} : r \in 0 .. Q - 1}

RoundsExactly ==
    At("power2round") =>
        /\ \A r \in Borders : Decompose(r) = FipsDecompose(r)
        /\ \A r \in Halves : Power2Round(r) = FipsPower2Round(r)

(* A signature verifies where it was not touched, and crypto_sign_open gives
   the message back. *)
Untouched ==
    /\ got.sig = sig /\ got.siglen = CRYPTO_BYTES
    /\ got.m = request.m /\ got.ctx = request.ctx /\ got.ctxlen = request.ctxlen

SignedVerifies ==
    step = "done" /\ Untouched =>
        /\ ret = 0
        /\ got.api = "open" => opened = [m |-> request.m, mlen |-> request.m.len]

(* Anything else is refused, another encoding of the same hints too, and
   crypto_sign_open leaves nothing of the message. *)
TamperedRejected ==
    step = "done" /\ ~Untouched =>
        /\ ret = -1
        /\ got.api = "open" => opened = [m |-> <<>>, mlen |-> 0]

(* What was signed verifies, and nothing else does. *)
OnlySignedVerifies == SignedVerifies /\ TamperedRejected
=============================================================================
