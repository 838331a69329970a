----------------------------- MODULE MCPrimitives -----------------------------
(* The key encapsulation and the hashing of firmware/pqc: one of the two runs, *)
(* the other stays where it began, one function or one key pair for all.       *)
EXTENDS MCKem, MCSponge

VARIABLE part

PartsInit ==
    /\ part \in {"kem", "hash"}
    /\ Init /\ SpongeInit
    /\ IF part = "kem" THEN alg = Sha512 ELSE seed = Expand(1).seed

PartsNext ==
    /\ UNCHANGED part
    /\ \/ part = "kem" /\ Next /\ UNCHANGED spongeVars
       \/ part = "hash" /\ SpongeNext /\ UNCHANGED vars

PartsSpec == PartsInit /\ [][PartsNext]_<<part, vars, spongeVars>>
===============================================================================
