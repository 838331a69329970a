------------------------------- MODULE MCSponge -------------------------------
(* Algorithms and lengths for Sponge. *)
EXTENDS Sponge

(* All of them; two of the lengths do not end with a block. *)
MCAlgorithms ==
    {Shake128Inc, Shake256Inc, Shake128Blocks, Shake256Blocks,
     Shake128(200), Shake256(200),
     Sha256Inc, Sha256, Sha384Inc, Sha384, Sha512Inc, Sha512}

(* Around the length of a block. *)
MCPieces(r) == {1, r - 1, r, r + 1}

MCByteAt(i) == {b \in 0 .. 7 : (i \div (b + 1) + b) % 3 = 0}
=============================================================================
