---------------------------- MODULE MCOwnership ----------------------------
(***************************************************************************)
(* Small instances of Ownership.  The run of the sweeps starts in the      *)
(* middle of a history, in a state that the steps named beside it lead to, *)
(* so that the later life of a conversation fits a small instance.         *)
(***************************************************************************)
EXTENDS Ownership, TLC

CONSTANTS c1, c2, k1, e1, e2, s1, s2, d1, d2, r1

(* Conversation ids are interchangeable: no definition names one. *)
ConversationSymmetry == Permutations(Conversations)

AtRest ==
  /\ waiting = [c \in Conversations |-> None]
  /\ afterHours = [c \in Conversations |-> FALSE]
  /\ level = [k \in Cases |-> 0]
  /\ stateDated = [c \in Conversations |-> {}]
  /\ ownerDated = [c \in Conversations |-> {}]
  /\ before = [q \in Requests |-> {}]
  /\ holds = {}
  /\ status = [e \in Employees |-> "ACTIVE"]
  /\ sweep = [s \in Sweepers |-> IdleSweep]
  /\ desk = [d \in Desks |-> IdleDesk]
  /\ reply = [r \in Replies |-> IdleReply]
  /\ closer = {}
  /\ claimed = [c \in Conversations |-> c = c1]

(* c1 was claimed by e2, reassigned to e1 when e2 was leaving, resolved by a
   lead and closed; the customer wrote again, which forked c2. *)
ForkedInit ==
  LET seats == [e \in Employees |-> IF e = e1 THEN "OWNER" ELSE "PARTICIPANT"]
      known == {c1, c2}
  IN /\ AtRest
     /\ convState = [c \in Conversations |-> IF c = c1 THEN "CLOSED"
                                             ELSE IF c = c2 THEN "NEW" ELSE "NONE"]
     /\ caseOf = [c \in Conversations |-> IF c \in known THEN k1 ELSE None]
     /\ continues = [c \in Conversations |-> IF c = c2 THEN c1 ELSE None]
     /\ successor = [c \in Conversations |-> IF c = c1 THEN c2 ELSE None]
     /\ owner = [c \in Conversations |-> None]
     /\ seat = [c \in Conversations |-> IF c \in known THEN seats
                                        ELSE [e \in Employees |-> "NONE"]]
     /\ caseState = [k \in Cases |-> IF k = k1 THEN "ACTIVE" ELSE "NONE"]
     /\ caseOwner = [k \in Cases |-> IF k = k1 THEN e1 ELSE None]
     /\ designated = [k \in Cases |-> IF k = k1 THEN e1 ELSE None]
     /\ resolvedAt = [k \in Cases |-> "NONE"]
     /\ reopenCount = [k \in Cases |-> IF k = k1 THEN 1 ELSE 0]
     /\ stateEpisode = [c \in Conversations |-> IF c = c1 THEN "CLOSED"
                                                ELSE IF c = c2 THEN "NEW" ELSE "NONE"]

ForkedSpec == ForkedInit /\ [][Next]_vars /\ SweepFairness /\ ClosureFairness
=============================================================================
