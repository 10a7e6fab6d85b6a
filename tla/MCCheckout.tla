------------------------------ MODULE MCCheckout ------------------------------
(* An instance of CheckoutScheduling: two independent tasks of a track.      *)
EXTENDS CheckoutScheduling

NoDependencies == [t \in Tasks |-> {}]

Play(writers, gated, nCrashes, nReboots, closable, nRegates) ==
  [writers |-> writers, gated |-> gated, crashes |-> nCrashes, reboots |-> nReboots,
   closable |-> closable, regates |-> nRegates]

(* A writer and a reader with a track that closes, with a crash and with a   *)
(* reboot, and two writers.                                                  *)
Plays ==
  {Play({1}, {1}, 0, 0, TRUE, 1), Play({1}, {1}, 1, 0, FALSE, 1),
   Play({1}, {}, 0, 1, FALSE, 0), Play({1, 2}, {1}, 0, 0, FALSE, 1)}
=============================================================================
