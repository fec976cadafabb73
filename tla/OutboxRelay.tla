----------------------------- MODULE OutboxRelay -----------------------------
(***************************************************************************)
(* The relays that drain the transactional outbox.  A relay claims a batch *)
(* of due rows with FOR UPDATE SKIP LOCKED, publishes them one by one and  *)
(* settles all of them in the transaction that locked them: one that dies  *)
(* in the middle leaves every row as it was, published or not.             *)
(***************************************************************************)
EXTENDS Naturals, FiniteSets

CONSTANTS Events,        \* events of committed transactions
          Relays,        \* one per API instance
          MaxAttempts,   \* attempts before an event is dead-lettered
          MaxCrashes     \* bound on the relays that die in the middle of a batch

ASSUME RelayAssumption == MaxAttempts \in Nat \ {0} /\ MaxCrashes \in Nat

VARIABLES
  state,      \* outbox.state, "ABSENT" before the row is committed
  attempts,   \* outbox.attempts
  relay,      \* per relay, the rows it has locked and what became of them so far
  heard,      \* events the enterprise publisher has accepted
  repeated,   \* those it accepted again
  crashes     \* relays that died in the middle of a batch

vars == <<state, attempts, relay, heard, repeated, crashes>>

IdleRelay == [claimed |-> {}, ok |-> {}, failed |-> {}]
RowsIn(s) == {e \in Events : state[e] = s}
LockedBy(R) == UNION {relay[r].claimed : r \in R}

TypeOK ==
  /\ state \in [Events -> {"ABSENT", "PENDING", "PUBLISHED", "DEAD_LETTER"}]
  /\ attempts \in [Events -> 0..MaxAttempts]
  /\ relay \in [Relays -> [claimed : SUBSET Events, ok : SUBSET Events,
                           failed : SUBSET Events]]
  /\ heard \subseteq Events
  /\ repeated \subseteq Events
  /\ crashes \in 0..MaxCrashes

Init ==
  /\ state = [e \in Events |-> "ABSENT"]
  /\ attempts = [e \in Events |-> 0]
  /\ relay = [r \in Relays |-> IdleRelay]
  /\ heard = {}
  /\ repeated = {}
  /\ crashes = 0

(* A transaction that changed something commits, and the row of its event with it. *)
Append(e) ==
  /\ state[e] = "ABSENT"
  /\ state' = [state EXCEPT ![e] = "PENDING"]
  /\ UNCHANGED <<attempts, relay, heard, repeated, crashes>>

LockedIgnored == {}                 \* mutant: the claim does not look at others' locks
LockedRows == LockedBy(Relays)

NeverAgain(free) == {}              \* mutant: next_attempt_at is compared the wrong way
FailedBefore(free) == {e \in free : attempts[e] > 0}

(* New rows are due at once, a row that failed when its backoff is over. *)
Claim(r) ==
  LET free == RowsIn("PENDING") \ LockedRows
      fresh == {e \in free : attempts[e] = 0}
  IN /\ relay[r] = IdleRelay
     /\ \E retried \in SUBSET FailedBefore(free) :
          /\ fresh \cup retried # {}
          /\ relay' = [relay EXCEPT ![r].claimed = fresh \cup retried]
     /\ UNCHANGED <<state, attempts, heard, repeated, crashes>>

(* The realtime publish comes first, is best effort and decides nothing. *)
Deliver(r, e) ==
  /\ e \in relay[r].claimed \ (relay[r].ok \cup relay[r].failed)
  /\ \/ /\ relay' = [relay EXCEPT ![r].ok = @ \cup {e}]
        /\ heard' = heard \cup {e}
        /\ repeated' = repeated \cup ({e} \cap heard)
     \/ /\ relay' = [relay EXCEPT ![r].failed = @ \cup {e}]
        /\ UNCHANGED <<heard, repeated>>
  /\ UNCHANGED <<state, attempts, crashes>>

PublishedAnyway(r, e) == "PUBLISHED" \* mutant: the realtime publish counts as delivery
Settled(r, e) ==
  IF e \in relay[r].ok THEN "PUBLISHED"
  ELSE IF attempts[e] + 1 >= MaxAttempts THEN "DEAD_LETTER" ELSE "PENDING"

(* Counting past the ceiling is impossible: such a row is no longer PENDING. *)
Commit(r) ==
  LET batch == relay[r].claimed
  IN /\ batch # {}
     /\ batch = relay[r].ok \cup relay[r].failed
     /\ state' = [e \in Events |-> IF e \in batch THEN Settled(r, e) ELSE state[e]]
     /\ attempts' = [e \in Events |-> IF e \in batch THEN attempts[e] + 1 ELSE attempts[e]]
     /\ relay' = [relay EXCEPT ![r] = IdleRelay]
     /\ UNCHANGED <<heard, repeated, crashes>>

Dies(r) ==
  /\ relay[r] # IdleRelay
  /\ crashes < MaxCrashes
  /\ crashes' = crashes + 1
  /\ relay' = [relay EXCEPT ![r] = IdleRelay]
  /\ UNCHANGED <<state, attempts, heard, repeated>>

RelayStep(r) == Claim(r) \/ (\E e \in Events : Deliver(r, e)) \/ Commit(r)

Next ==
  \/ \E e \in Events : Append(e)
  \/ \E r \in Relays : RelayStep(r) \/ Dies(r)

Spec == Init /\ [][Next]_vars

(* Each relay's timer keeps firing, a publish returns, and backoffs elapse. *)
FairSpec == Spec /\ \A r \in Relays : WF_vars(RelayStep(r))

-----------------------------------------------------------------------------
(* An event reaches the enterprise twice only if a relay died between the
   publish and the commit: two live relays never publish the same row. *)
RepeatsNeedACrash == repeated # {} => crashes > 0

(* The outbox keeps the promise of Announcement. *)
Promise == INSTANCE Announcement WITH
             owed <- RowsIn("PENDING"), setAside <- RowsIn("DEAD_LETTER")

OwedUntilHeard == Promise!Spec
EventsSettle == Promise!Settles
=============================================================================
