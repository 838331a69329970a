-------------------------------- MODULE Sponge --------------------------------
(***************************************************************************)
(* The hash contexts of firmware/pqc/src/fips202.c: the incremental ones,  *)
(* fed and read in pieces of any length, and those that take a whole       *)
(* message and give whole blocks.                                          *)
(*                                                                         *)
(* A byte is the set of its ones.  The message is an endless one, of which *)
(* the calls take so much; the permutation runs two rounds a step.         *)
(***************************************************************************)
EXTENDS Keccak, FiniteSetsExt

CONSTANTS
    Algorithms,     \* the functions that are computed
    Pieces(_),      \* the lengths a call may have, for a rate
    MaxCalls,       \* bound on the calls that absorb, and that squeeze
    ByteAt(_)       \* the message

VARIABLES
    alg,            \* the function that is computed
    phase,          \* start, absorb, squeeze, released or exit
    lanes,          \* the state
    pos,            \* s_inc[25]: bytes absorbed in, or left of, the block
    todo,           \* bytes the call that runs has still to absorb or to give
    round,          \* of the permutation; NROUNDS when none runs
    output,         \* the bytes given
    absorbed,       \* history: bytes of the message absorbed
    blocks,         \* history: blocks of the message permuted
    base,           \* history: the state as the last of them left it
    stream,         \* history: the states squeezed from
    register,       \* history: the register of FIPS 202's round constants
    calls           \* bound: calls made in this phase

history    == <<absorbed, blocks, base, stream, calls>>
spongeVars == <<alg, phase, lanes, pos, todo, round, output, history, register>>

Idle == round = NROUNDS

rate == alg.rate

Lesser(a, b) == IF a < b THEN a ELSE b

-----------------------------------------------------------------------------
(* The functions of fips202.c: the rate, the suffix of the message, whether it
   may come in pieces, the bytes given at once (0: as many as are asked for),
   and whether the state lives on the heap. *)

Hash(r, p, api, outlen, heap) ==
    [rate |-> r, p |-> p, api |-> api, outlen |-> outlen, heap |-> heap]

SHAKE == {0, 1, 2, 3, 4}            \* 0x1F
SHA3  == {1, 2}                     \* 0x06

Shake128Inc      == Hash(168, SHAKE, "inc", 0, TRUE)
Shake256Inc      == Hash(136, SHAKE, "inc", 0, TRUE)
Shake128Blocks   == Hash(168, SHAKE, "block", 0, TRUE)
Shake256Blocks   == Hash(136, SHAKE, "block", 0, TRUE)
Shake128(outlen) == Hash(168, SHAKE, "block", outlen, TRUE)
Shake256(outlen) == Hash(136, SHAKE, "block", outlen, TRUE)
Sha256Inc        == Hash(136, SHA3, "inc", 32, TRUE)
Sha256           == Hash(136, SHA3, "block", 32, FALSE)
Sha384Inc        == Hash(104, SHA3, "inc", 48, TRUE)
Sha384           == Hash(104, SHA3, "block", 48, FALSE)
Sha512Inc        == Hash(72, SHA3, "inc", 64, TRUE)
Sha512           == Hash(72, SHA3, "block", 64, FALSE)

Rates == {72, 104, 136, 168}

ASSUME SpongeAssumption ==
    /\ \A a \in Algorithms : /\ a.rate \in Rates /\ a.p \in {SHAKE, SHA3}
                             /\ a.api \in {"inc", "block"} /\ a.outlen \in Nat
    /\ \A r \in Rates : Pieces(r) \subseteq Nat

-----------------------------------------------------------------------------
(* Bytes of the state. *)

(* Byte number k of the state gains the ones of B[k], for k in a set K. *)
XorBytes(s, K, B(_)) ==
    [l \in Lanes |->
        Xor(s[l], UNION {{8 * (k % 8) + b : b \in B(k)} :
                            k \in K \cap (8 * l .. 8 * l + 7)})]

ByteOf(s, k) == {b \in 0 .. 7 : 8 * (k % 8) + b \in s[k \div 8]}

BytesOf(s, first, n) == [i \in 1 .. n |-> ByteOf(s, first + i - 1)]

(* n more bytes of the message, behind those the block has. *)
AbsorbAt(n) ==
    XorBytes(lanes, pos .. pos + n - 1, LAMBDA k : ByteAt(absorbed + k - pos))

Full(n) == n + pos >= rate

-----------------------------------------------------------------------------
(* KeccakF1600_StatePermute, started by a call and run to its end. *)

StartPermute == round' = 0 /\ register' = {0}

Permute ==
    /\ ~Idle
    /\ lanes' = TwoRounds(lanes, round)
    /\ round' = round + 2
    /\ register' = After[7, After[7, register]]
    /\ base' = IF phase = "absorb" /\ round' = NROUNDS THEN lanes' ELSE base
    /\ stream' = IF phase = "squeeze" /\ round' = NROUNDS THEN Append(stream, lanes')
                 ELSE stream
    /\ UNCHANGED <<alg, phase, pos, todo, output, absorbed, blocks, calls>>

-----------------------------------------------------------------------------
(* keccak_inc_init and the zeroing of keccak_absorb.  A program that gets no
   memory for a context ends. *)

SpongeInit ==
    /\ alg \in Algorithms
    /\ phase = "start"
    /\ lanes = Zero /\ pos = 0 /\ todo = 0 /\ round = NROUNDS
    /\ output = <<>>
    /\ absorbed = 0 /\ blocks = 0 /\ base = Zero /\ stream = <<>>
    /\ register = {0}
    /\ calls = 0

Start ==
    /\ phase = "start"
    /\ phase' = "absorb"
    /\ todo' \in IF alg.api = "block" THEN Pieces(rate) \union {0} ELSE {0}
    /\ UNCHANGED <<alg, lanes, pos, round, output, history, register>>

OutOfMemory ==
    /\ phase = "start" /\ alg.heap
    /\ phase' = "exit"
    /\ UNCHANGED <<alg, lanes, pos, todo, round, output, history, register>>

-----------------------------------------------------------------------------
(* keccak_inc_absorb: a block that is full is permuted, the rest is left in an
   unfinished one.  keccak_absorb does the same with full blocks. *)

Absorb ==
    /\ phase = "absorb" /\ alg.api = "inc" /\ Idle /\ todo = 0
    /\ calls < MaxCalls
    /\ calls' = calls + 1
    /\ todo' \in Pieces(rate)
    /\ UNCHANGED <<alg, phase, lanes, pos, round, output, absorbed, blocks, base,
                   stream, register>>

AbsorbBlock ==
    /\ phase = "absorb" /\ Idle /\ Full(todo)
    /\ lanes' = AbsorbAt(rate - pos)
    /\ absorbed' = absorbed + rate - pos
    /\ todo' = todo - (rate - pos)
    /\ pos' = 0
    /\ blocks' = blocks + 1
    /\ StartPermute
    /\ UNCHANGED <<alg, phase, output, base, stream, calls>>

AbsorbRest ==
    /\ phase = "absorb" /\ alg.api = "inc" /\ Idle
    /\ todo > 0 /\ ~Full(todo)
    /\ lanes' = AbsorbAt(todo)
    /\ absorbed' = absorbed + todo
    /\ pos' = pos + todo
    /\ todo' = 0
    /\ UNCHANGED <<alg, phase, round, output, blocks, base, stream, calls, register>>

(* keccak_inc_finalize: the first and the last bit of the padding may share a
   byte. *)
Finalize ==
    /\ phase = "absorb" /\ alg.api = "inc" /\ Idle /\ todo = 0
    /\ phase' = "squeeze"
    /\ lanes' = XorBytes(XorBytes(lanes, {pos}, LAMBDA k : alg.p),
                         {rate - 1}, LAMBDA k : {7})
    /\ pos' = 0
    /\ calls' = 0
    /\ UNCHANGED <<alg, todo, round, output, absorbed, blocks, base, stream, register>>

(* With a bug: the last byte of the buffer is set, whatever it holds. *)
LastBlockSet(k, n) ==
    CASE k = rate - 1 -> {7}
      [] k < n -> ByteAt(absorbed + k)
      [] k = n -> alg.p
      [] OTHER -> {}

(* The buffer t of keccak_absorb: what is left of the message, padded. *)
LastBlock(k, n) ==
    (CASE k < n -> ByteAt(absorbed + k)
       [] k = n -> alg.p
       [] OTHER -> {}) \union (IF k = rate - 1 THEN {7} ELSE {})

AbsorbLast ==
    /\ phase = "absorb" /\ alg.api = "block" /\ Idle /\ ~Full(todo)
    /\ phase' = "squeeze"
    /\ lanes' = XorBytes(lanes, 0 .. rate - 1, LAMBDA k : LastBlock(k, todo))
    /\ absorbed' = absorbed + todo
    /\ todo' = 0
    /\ calls' = 0
    /\ UNCHANGED <<alg, pos, round, output, blocks, base, stream, register>>

-----------------------------------------------------------------------------
(* keccak_inc_squeeze: first what is left of a block, then new ones.  A
   context of whole blocks has nothing left between two calls. *)

Squeeze ==
    /\ phase = "squeeze" /\ Idle /\ todo = 0
    /\ calls < (IF alg.outlen = 0 THEN MaxCalls ELSE 1)
    /\ calls' = calls + 1
    /\ todo' \in IF alg.outlen # 0 THEN {alg.outlen}
                 ELSE IF alg.api = "block" THEN {rate, 2 * rate} ELSE Pieces(rate)
    /\ UNCHANGED <<alg, phase, lanes, pos, round, output, absorbed, blocks, base,
                   stream, register>>

(* With a bug: what is left is read from where it was counted. *)
LeftFromCount(n) == BytesOf(lanes, pos, n)

LeftOver(n) == BytesOf(lanes, rate - pos, n)

TakeLeft ==
    /\ phase = "squeeze" /\ Idle /\ todo > 0 /\ pos > 0
    /\ LET n == Lesser(todo, pos) IN
       /\ output' = output \o LeftOver(n)
       /\ pos' = pos - n
       /\ todo' = todo - n
    /\ UNCHANGED <<alg, phase, lanes, round, history, register>>

(* The permutation, and when it has ended the bytes of the block. *)
NextBlock ==
    /\ phase = "squeeze" /\ Idle /\ todo > 0 /\ pos = 0
    /\ pos' = rate
    /\ StartPermute
    /\ UNCHANGED <<alg, phase, lanes, todo, output, history>>

Release ==
    /\ phase = "squeeze" /\ Idle /\ todo = 0
    /\ alg.outlen = 0 \/ calls = 1
    /\ phase' = "released"
    /\ UNCHANGED <<alg, lanes, pos, todo, round, output, history, register>>

SpongeNext ==
    \/ Start \/ OutOfMemory \/ Permute
    \/ Absorb \/ AbsorbBlock \/ AbsorbRest \/ Finalize \/ AbsorbLast
    \/ Squeeze \/ TakeLeft \/ NextBlock \/ Release

SpongeSpec == SpongeInit /\ [][SpongeNext]_spongeVars

-----------------------------------------------------------------------------
(* Properties. *)

(* Two rounds of the code are two rounds of FIPS 202, with the round constants
   its register makes. *)
RoundsAreFips ==
    [][round # NROUNDS => lanes' = FipsTwoRounds(lanes, register)]_spongeVars

(* Between two calls the state is what the last permutation left plus the bytes
   of the message behind the last full block, however the message was cut. *)
AbsorbedExactly ==
    phase = "absorb" /\ Idle =>
        /\ blocks = absorbed \div rate
        /\ pos = absorbed % rate
        /\ lanes = XorBytes(base, 0 .. pos - 1,
                            LAMBDA k : ByteAt(rate * blocks + k))

(* The last block holds the rest of the message, the suffix behind it, and the
   last bit of the padding at its end. *)
PaddedLikeFips ==
    phase = "squeeze" /\ Idle /\ stream = <<>> =>
        LET n    == absorbed % rate
            ones == (UNION {{8 * k + b : b \in ByteAt(rate * blocks + k)} : k \in 0 .. n - 1})
                        \union {8 * n + b : b \in alg.p} \union {8 * rate - 1}
        IN  /\ blocks = absorbed \div rate
            /\ lanes = [l \in Lanes |->
                          Xor(base[l], {i % 64 : i \in {o \in ones : o \div 64 = l}})]

(* So the state absorbs what FIPS 202 says, whether a piece, a block or the
   message ends there. *)
AbsorbedLikeFips == AbsorbedExactly /\ PaddedLikeFips

(* The bytes given are those of the squeezed states, in order, none twice and
   none left out, however the output was cut. *)
OutputIsStream ==
    \A i \in DOMAIN output :
        output[i] = ByteOf(stream[(i - 1) \div rate + 1], (i - 1) % rate)
=============================================================================
