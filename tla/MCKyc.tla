-------------------------------- MODULE MCKyc --------------------------------
(* Instances of Kyc. *)
EXTENDS Kyc
CONSTANTS u1, u2, doc, w1, w2
Words2 == {"approved", "declined"}
Words3 == Words2 \union {Unheard}
=============================================================================
