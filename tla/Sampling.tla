------------------------------ MODULE Sampling ------------------------------
(***************************************************************************)
(* Rejection sampling, as rej_uniform and rej_eta of firmware/pqc do it:   *)
(* candidates are taken in order, those not below a bound passed over.     *)
(***************************************************************************)
EXTENDS Integers, Sequences

(* The elements of s below top, in order.  One half after the other: a buffer
   has hundreds of candidates, too many for a recursion of one each. *)
Below(s, top) ==
    LET kept[r \in (1 .. Len(s) + 1) \X (0 .. Len(s))] ==
            LET lo  == r[1]
                hi  == r[2]
                mid == (lo + hi) \div 2
            IN  IF lo > hi THEN <<>>
                ELSE IF lo = hi THEN IF s[lo] < top THEN <<s[lo]>> ELSE <<>>
                ELSE kept[<<lo, mid>>] \o kept[<<mid + 1, hi>>]
    IN  kept[<<1, Len(s)>>]

AtMost(len, s) == IF Len(s) > len THEN SubSeq(s, 1, len) ELSE s
=============================================================================
