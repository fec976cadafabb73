---------------------------- MODULE MCOutboxRelay ----------------------------
(* Three events, two relays; events and relays are interchangeable. *)
EXTENDS OutboxRelay

CONSTANTS o1, o2, o3, r1, r2
=============================================================================
