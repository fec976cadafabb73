----------------------------- MODULE MCMessaging -----------------------------
(***************************************************************************)
(* Small instances of Messaging: one customer conversation, its owner, a   *)
(* colleague and the customer.                                             *)
(***************************************************************************)
EXTENDS Messaging, TLC

CONSTANTS c1, agent, colleague, customer, m1, m2, m3, t1, t2, q1, q2

\* Requests are interchangeable, and so are the texts of an edit.
Interchangeable == Permutations({q1, q2}) \cup Permutations({t1, t2})

Owners == [c \in Conversations |-> agent]

(* The customer asks (m3), the owner answers (m1) quoting the question and naming
   the colleague, who leaves a note (m2) that names the owner. *)
ThreadDraft ==
  [k \in Keys |->
     CASE k = m1 -> [by |-> agent, conv |-> c1, note |-> FALSE,
                     quotes |-> m3, names |-> {colleague}]
       [] k = m2 -> [by |-> colleague, conv |-> c1, note |-> TRUE,
                     quotes |-> None, names |-> {agent}]
       [] OTHER -> [by |-> customer, conv |-> c1, note |-> FALSE,
                    quotes |-> None, names |-> {}]]
=============================================================================
