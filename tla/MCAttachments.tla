---------------------------- MODULE MCAttachments ----------------------------
(* Small instances of Attachments for TLC. *)
EXTENDS Attachments, TLC

CONSTANTS f1, f2, m1, m2, c1, c2, w1, w2, s1, s2

\* A message of another conversation is there to be refused.
TwoThreads == [x \in {f1, f2, m1, m2} |-> IF x = m2 THEN c2 ELSE c1]
FitAndInfected == (f1 :> "fit") @@ (f2 :> "infected")
=============================================================================
