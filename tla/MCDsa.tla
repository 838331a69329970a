-------------------------------- MODULE MCDsa --------------------------------
(***************************************************************************)
(* Streams of bytes, requests and deliveries for Dsa.  The four attempts   *)
(* at the signature draw from streams that were looked for: the first is   *)
(* rejected for z, the second for w0, the third for its hints; the third   *)
(* and the fourth need a second block for the challenge.                   *)
(***************************************************************************)
EXTENDS Dsa

Mix(x) == ((x % 32749) * 65521) % 65537

Byte(s, n) == (Mix(Mix(s + 211 * n) + 7 * n) \div 3) % 256

MCSeeds == {1}

MCExpand(s) == [rho |-> 1000 * s, rhoprime |-> <<"eta", s>>, key |-> s]

(* The stream of one polynomial begins with bytes of which none is accepted, so
   that it needs more blocks than are drawn at once. *)
MCStream128(r, no, n) ==
    [k \in 1 .. 168 |-> IF no = 257 /\ 168 * n + k <= 200 THEN 255
                        ELSE Byte(r + 37 * no, 168 * n + k)]

Attempts == <<7, 5, 121, 10>>

Number(r, no) == IF Len(r) = 2 THEN 5000 + 13 * no
                 ELSE Attempts[((no \div 5) % 4) + 1] + 13 * (no % 5)

MCStream256(r, no, n) ==
    [k \in 1 .. 136 |-> IF Len(r) = 2 /\ no = 3 /\ n = 0 THEN 255
                        ELSE Byte(Number(r, no), 136 * n + k)]

(* Every other challenge finds nothing it can use after its first 20 bytes. *)
MCBallBlock(c, n) ==
    LET w == c[2]
    IN  [k \in 1 .. 136 |->
            IF w[0] % 2 = 0 /\ n = 0 /\ k > 20 THEN 255
            ELSE Byte(w[0] + 3 * w[1] + 5 * w[2] + 7 * w[3], 136 * n + k)]

Message(text) == [text |-> text, len |-> 5]

MCRequests ==
    {[m |-> Message("m"), ctx |-> <<>>, ctxlen |-> 0, rnd |-> 1],
     [m |-> Message("m"), ctx |-> <<>>, ctxlen |-> 256, rnd |-> 1]}

Delivery(api, part, at, val) == [api |-> api, part |-> part, at |-> at, val |-> val]

MCDeliveries ==
    {Delivery("open", "all", {}, 0),                \* bytes that nobody signed
     Delivery("verify", "all", {}, 136),            \* with a z that is small
     Delivery("verify", "none", {}, 0),
     Delivery("open", "none", {}, 0),
     Delivery("open", "m", {}, Message("n")),
     Delivery("verify", "ctx", {}, <<"c">>),
     Delivery("verify", "ctxlen", {}, 1),
     Delivery("verify", "ctxlen", {}, 256),
     Delivery("verify", "siglen", {}, 3308),
     Delivery("open", "siglen", {}, 100),
     Delivery("verify", "z", {100}, 0),             \* another z
     Delivery("verify", "z", {0, 1, 2}, 0),         \* one that is too large
     Delivery("verify", "h", {0}, 9),               \* a hint that was moved
     Delivery("verify", "h", {1}, 5),               \* positions that descend
     Delivery("verify", "h", {54}, 1),              \* one that is not used
     Delivery("verify", "h", {56}, 1),              \* ends that descend
     Delivery("verify", "h", {60}, 56)}             \* an end beyond the last
=============================================================================
