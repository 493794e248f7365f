------------------------------ MODULE Custody ------------------------------
(***************************************************************************)
(* What the durable hand-off promises the source chain, with nothing of    *)
(* how: each message of a route is unknown, held by the relayer, or        *)
(* settled. Holding ends only in settlement, whatever crashes, and the     *)
(* source may be passed over only for messages held or settled.            *)
(***************************************************************************)
CONSTANT Messages

VARIABLES
    held,     \* the relayer answers for these
    settled,  \* delivered, or given up for good
    passed    \* a restarted relayer would not look for these at the source

vars == <<held, settled, passed>>

Init ==
    /\ held = {} /\ settled = {}
    /\ passed = {}

(* Take some messages into custody, settle some, move the scan. *)
Step ==
    /\ settled \subseteq settled' /\ settled' \subseteq Messages
    /\ held \subseteq held' \cup settled'
    /\ held' \subseteq Messages \ settled'
    /\ passed' \subseteq held' \cup settled'

Spec == Init /\ [][Step]_vars

=============================================================================
