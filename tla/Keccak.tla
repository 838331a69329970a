-------------------------------- MODULE Keccak --------------------------------
(***************************************************************************)
(* The permutation of firmware/pqc/src/fips202.c, and the one FIPS 202     *)
(* defines by its five step mappings.                                      *)
(*                                                                         *)
(* A lane is the set of the positions of its ones, so that exclusive or is *)
(* the symmetric difference; lane number x + 5 * y lies in column x and    *)
(* row y.                                                                  *)
(***************************************************************************)
EXTENDS Integers, Sequences, FiniteSets

Bits64 == 0 .. 63
Lanes  == 0 .. 24

(* The value of e, worked out once. *)
Value(e) == CHOOSE v \in {e} : v = v

Xor(a, b) == (a \ b) \union (b \ a)

ROL(a, n) == {(i + n) % 64 : i \in a}

Zero == [l \in Lanes |-> {}]

-----------------------------------------------------------------------------
(* The code: a round written out lane by lane. *)

NROUNDS == 24

KeccakF_RoundConstants == <<
   {0}, {1, 7, 15},
   {1, 3, 7, 15, 63}, {15, 31, 63},
   {0, 1, 3, 7, 15}, {0, 31},
   {0, 7, 15, 31, 63}, {0, 3, 15, 63},
   {1, 3, 7}, {3, 7},
   {0, 3, 15, 31}, {1, 3, 31},
   {0, 1, 3, 7, 15, 31}, {0, 1, 3, 7, 63},
   {0, 3, 7, 15, 63}, {0, 1, 15, 63},
   {1, 15, 63}, {7, 63},
   {1, 3, 15}, {1, 3, 31, 63},
   {0, 7, 15, 31, 63}, {7, 15, 63},
   {0, 31}, {3, 15, 31, 63} >>

(* Down by row, the lanes that BCa, BCe, BCi, BCo and BCu are taken from, and
   by how many places each is turned. *)
Sources == << <<0, 6, 12, 18, 24>>, <<3, 9, 10, 16, 22>>, <<1, 7, 13, 19, 20>>,
              <<4, 5, 11, 17, 23>>, <<2, 8, 14, 15, 21>> >>

(* With a bug: two offsets of the last row are exchanged. *)
OffsetsSwapped ==
           << <<0, 44, 43, 21, 14>>, <<28, 20, 3, 45, 61>>, <<1, 6, 25, 8, 18>>,
              <<27, 36, 10, 15, 56>>, <<62, 55, 39, 2, 41>> >>

Offsets == << <<0, 44, 43, 21, 14>>, <<28, 20, 3, 45, 61>>, <<1, 6, 25, 8, 18>>,
              <<27, 36, 10, 15, 56>>, <<62, 55, 39, 41, 2>> >>

(* prepareTheta. *)
Parity(A) ==
    [x \in 0 .. 4 |-> Xor(Xor(Xor(Xor(A[x], A[x + 5]), A[x + 10]), A[x + 15]), A[x + 20])]

D(BC) == [x \in 0 .. 4 |-> Xor(BC[(x + 4) % 5], ROL(BC[(x + 1) % 5], 1))]

(* thetaRhoPiChiIota. *)
Turned(A, d) ==
    [l \in Lanes |->
        LET from == Sources[l \div 5 + 1][(l % 5) + 1]
        IN  ROL(Xor(A[from], d[from % 5]), Offsets[l \div 5 + 1][(l % 5) + 1])]

Mixed(B, round) ==
    [l \in Lanes |->
        LET next(n) == B[5 * (l \div 5) + ((l + n) % 5)]
            chi     == Xor(B[l], next(2) \ next(1))
        IN  IF l = 0 THEN Xor(chi, KeccakF_RoundConstants[round + 1]) ELSE chi]

Round(A, round) ==
    Value(Mixed(Value(Turned(A, Value(D(Value(Parity(A)))))), round))

(* One turn of the loop: from A to E and back. *)
TwoRounds(A, round) == Round(Round(A, round), round + 1)

-----------------------------------------------------------------------------
(* FIPS 202, section 3.2: theta, rho, pi, chi and iota. *)

Lane(x, y) == (x % 5) + 5 * (y % 5)
Across(l) == l % 5
Down(l) == l \div 5

Column(A, x) ==
    {z \in Bits64 : ((((z \in A[x]) # (z \in A[x + 5])) # (z \in A[x + 10]))
                        # (z \in A[x + 15])) # (z \in A[x + 20])}

ThetaWith(A, C) ==
    [l \in Lanes |->
        LET before == C[(Across(l) + 4) % 5]
            after  == C[(Across(l) + 1) % 5]
        IN  {z \in Bits64 : ((z \in A[l]) # (z \in before)) # ((z + 63) % 64 \in after)}]

Theta(A) == ThetaWith(A, Value([x \in 0 .. 4 |-> Column(A, x)]))

(* Table 2, a row for each y. *)
RhoOffset ==
    << << 0,  1, 62, 28, 27>>, <<36, 44,  6, 55, 20>>, << 3, 10, 43, 25, 39>>,
       <<41, 45, 15, 21,  8>>, <<18,  2, 61, 56, 14>> >>

Rho(A) == [l \in Lanes |-> ROL(A[l], RhoOffset[Down(l) + 1][Across(l) + 1])]

Pi(A) == [l \in Lanes |-> A[Lane(Across(l) + 3 * Down(l), Across(l))]]

Chi(A) ==
    [l \in Lanes |->
        LET next   == A[Lane(Across(l) + 1, Down(l))]
            second == A[Lane(Across(l) + 2, Down(l))]
        IN  {z \in Bits64 : (z \in A[l]) # (z \notin next /\ z \in second)}]

(* The register that makes the round constants; it runs for seven bits a
   round, the first of each of its states. *)
Clock(R) == IF 7 \in R THEN Xor({i + 1 : i \in R \ {7}}, {0, 4, 5, 6})
                       ELSE {i + 1 : i \in R}

After[i \in 0 .. 7, R \in SUBSET (0 .. 7)] ==
    IF i = 0 THEN R ELSE After[i - 1, Clock(R)]

IotaBits(R) == {2^i - 1 : i \in {k \in 0 .. 5 : 0 \in After[k, R]}}
                   \union (IF 0 \in After[6, R] THEN {63} ELSE {})

Iota(A, R) == [A EXCEPT ![0] = Xor(@, IotaBits(R))]

FipsRound(A, R) ==
    Value(Iota(Value(Chi(Value(Pi(Value(Rho(Value(Theta(A)))))))), R))

FipsTwoRounds(A, R) == FipsRound(FipsRound(A, R), After[7, R])
=============================================================================
