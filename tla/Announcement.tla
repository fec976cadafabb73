---------------------------- MODULE Announcement ----------------------------
(***************************************************************************)
(* What the transactional outbox promises about the events of committed    *)
(* facts: an event that is owed stays owed until the enterprise fabric has *)
(* heard it or it is put aside for an operator, and it does not stay owed  *)
(* for ever.  It may be heard more than once, and never before it is owed. *)
(***************************************************************************)
CONSTANT Events
VARIABLES owed, heard, setAside

vars == <<owed, heard, setAside>>

Init == owed = {} /\ heard = {} /\ setAside = {}

(* A transaction commits facts, and with them the events that tell of them. *)
Owe ==
  /\ owed \subseteq owed' /\ owed' \subseteq Events
  /\ (owed' \ owed) \cap (heard \cup setAside) = {}
  /\ UNCHANGED <<heard, setAside>>

Hear ==
  /\ \E e \in owed : heard' = heard \cup {e}
  /\ UNCHANGED <<owed, setAside>>

(* What was heard is done, what was put aside is recorded, the rest is still owed. *)
Settle ==
  /\ owed' \subseteq owed
  /\ setAside \subseteq setAside'
  /\ setAside' \ setAside \subseteq owed \ owed'
  /\ owed \ (owed' \cup setAside') \subseteq heard
  /\ UNCHANGED heard

Next == Owe \/ Hear \/ Settle

Spec == Init /\ [][Next]_vars

(* Nothing stays owed: the fabric hears it, or an operator does. *)
Settles == \A e \in Events : e \in owed ~> e \notin owed
=============================================================================
