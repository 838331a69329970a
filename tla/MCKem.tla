-------------------------------- MODULE MCKem --------------------------------
(* Streams of bytes and messages for Kem. *)
EXTENDS Kem

(* Below keeps what SelectSeq keeps, in the same order. *)
ASSUME BelowSelects ==
    \A n \in 0 .. 6 : \A s \in [1 .. n -> 0 .. 2] : \A top \in 0 .. 3 :
        Below(s, top) = SelectSeq(s, LAMBDA v : v < top)

Mix(x) == ((x % 32749) * 65521) % 65537

Byte(s, n) == (Mix(Mix(s + 211 * n) + 7 * n) \div 3) % 256

MCCoins == {[d |-> 1, z |-> 9], [d |-> 2, z |-> 9]}

Bits256(F(_)) == [j \in Coeffs |-> F(j)]

MCMessages ==
    {Bits256(LAMBDA j : IF j % 7 < 3 THEN 1 ELSE 0), Bits256(LAMBDA j : 1)}

(* None, a byte of b, the lowest bit of v that is sent, its last byte. *)
MCChanges == {[at |-> 0, add |-> 0], [at |-> 5, add |-> 1],
              [at |-> 960, add |-> 1], [at |-> 1087, add |-> 128]}

MCExpand(d) ==
    [seed |-> 2 * d, noise |-> [n |-> d, m |-> [j \in Coeffs |-> 0]]]

MCHashG(m, h) == [key |-> <<m, h>>, coins |-> [n |-> 100, m |-> m]]

MCHashH(p) == <<"H", p>>

MCRkprf(z, c) == <<"reject", z, c>>

(* The stream of one entry is nearly all rejected at first. *)
MCXofBlock(s, x, y, n) ==
    [k \in 1 .. 168 |->
        LET b == Byte(1000 * s + 30 * x + 10 * y, 168 * n + k)
        IN  IF x = 2 /\ y = 0 /\ n < 3 /\ k % 6 < 4 THEN 255 ELSE b]

(* Every bit of the message has a part in the noise. *)
MCPrfBytes(key, no) ==
    [k \in 0 .. 127 |->
        Byte(500 * key.n + 17 * no + 3 * key.m[2 * k] + 5 * key.m[2 * k + 1], k)]
=============================================================================
