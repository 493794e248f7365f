---------------------------- MODULE MCSupervision ---------------------------
(* Instance: the constants of the code in minutes, rounded up: deferrals   *)
(* of 5, 10, 20, 40 and 80 seconds, polls every 6 to 30 seconds, a         *)
(* liveness tick every 15.                                                 *)
EXTENDS Supervision

MCWindows == <<1, 1, 1, 1, 2>>

\* No wait of the code reaches half of the deadline.
ASSUME CodeWaitsFit ==
  /\ 2 * HealthTick < Deadline
  /\ \A i \in DOMAIN Windows : 2 * (PollInterval + Windows[i]) <= Deadline
=============================================================================
