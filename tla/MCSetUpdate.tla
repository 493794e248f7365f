----------------------------- MODULE MCSetUpdate ----------------------------
(* Instance: three attestors, two of them in force, and two elections. *)
EXTENDS SetUpdate
CONSTANTS a1, a2, a3

MCWorkers == {"aggregator", "delivery"}
MCFirst == [attestors |-> {a1, a2}, threshold |-> 2]
MCRegimes == {MCFirst, [attestors |-> {a2}, threshold |-> 1]}
MCElections == <<{a2, a3}, {a1, a3}>>
=============================================================================
