------------------------------ MODULE MCGateway ------------------------------
(* Two sockets that present a session of an employee or of a customer, on one
   conversation; two of one principal meet the ceiling. *)
EXTENDS Gateway

CONSTANTS e1, u1, w1, w2, c1
=============================================================================
