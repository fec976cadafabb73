--------------------------- MODULE MCNotifications ---------------------------
(* Two events about one target in one window, and two delivery sweeps. *)
EXTENDS Notifications

CONSTANTS e1, e2, w1, w2

SharedKey == [e \in Events |-> e1]
=============================================================================
