-------------------------- MODULE MCDurableHandoff --------------------------
(* Small instances of DurableHandoff: three messages, one of them from an  *)
(* Outbox that is not authorised, one per block.                                   *)
EXTENDS DurableHandoff, TLC

CONSTANTS m1, m2, m3

MCBlockOf == (m1 :> 1) @@ (m2 :> 2) @@ (m3 :> 3)
MCAuthorized == {m1, m3}
=============================================================================
