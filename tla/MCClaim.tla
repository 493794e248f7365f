------------------------------- MODULE MCClaim ------------------------------
(* Instance: four transactions in two blocks, one of them with a log that  *)
(* cannot be decoded and one with a proof that is too large.               *)
EXTENDS Claim
CONSTANTS t1, t2, t3, t4

MCBlockOf == [t \in Txs |-> IF t \in {t1, t2} THEN 1 ELSE 2]
=============================================================================
