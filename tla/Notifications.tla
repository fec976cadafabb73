---------------------------- MODULE Notifications ----------------------------
(***************************************************************************)
(* The notification outbox and the delivery sweeps of the API instances.   *)
(* A row is named after the event that inserted it; events of one key      *)
(* (channel, recipient, event, target and window) share a row while it     *)
(* waits.  Unlike the transactional outbox, a claim commits at once and    *)
(* nothing but the row's state says that somebody works on it.             *)
(***************************************************************************)
EXTENDS Naturals, FiniteSets

CONSTANTS Events,        \* things one recipient is to be told
          KeyOf,         \* the dedupe key of an event
          Workers,       \* delivery sweeps, one per API instance
          MaxAttempts,
          MaxCrashes, MaxSlow, MaxReplays,   \* bounds on what goes wrong
          None

ASSUME NotificationAssumption ==
  /\ MaxAttempts \in Nat \ {0} /\ MaxCrashes \in Nat /\ MaxSlow \in Nat /\ MaxReplays \in Nat
  /\ IsFiniteSet(Events) /\ None \notin Events

VARIABLES
  state,      \* of the row an event inserted, "ABSENT" when there is none
  attempts,   \* as stored in the row
  keyed,      \* rows that still have their dedupe key
  counted,    \* the events a row stands for: its own and those folded into it
  suppressed, \* events that left no trace
  told,       \* events of notifications a transport has accepted
  retold,     \* rows a transport accepted more than once
  worker,     \* a sweep: its phase, the rows it claimed as it read them, its answer
  built,      \* the channel has a transport
  crashes, slow, replays

vars == <<state, attempts, keyed, counted, suppressed, told, retold, worker, built,
          crashes, slow, replays>>

Live == {"PENDING", "PROCESSING", "RETRYING", "SENT"}
Unclaimed == [events |-> {}, attempts |-> 0]
IdleWorker == [phase |-> "idle", batch |-> {}, row |-> [n \in Events |-> Unclaimed],
               at |-> None, outcome |-> None]
RowsIn(S) == {n \in Events : state[n] \in S}
HeldBy(W) == UNION {worker[w].batch : w \in W}

TypeOK ==
  /\ state \in [Events -> Live \cup {"ABSENT", "DEAD_LETTER"}]
  /\ attempts \in [Events -> 0..MaxAttempts]
  /\ keyed \subseteq Events
  /\ counted \in [Events -> SUBSET Events]
  /\ suppressed \subseteq Events
  /\ told \subseteq Events
  /\ retold \subseteq Events
  /\ worker \in [Workers ->
       [phase : {"idle", "reclaimed", "delivering"}, batch : SUBSET Events,
        row : [Events -> [events : SUBSET Events, attempts : 0..MaxAttempts]],
        at : Events \cup {None},
        outcome : {"DELIVERED", "RETRYABLE", "PERMANENT_FAILURE", "NO_TRANSPORT", None}]]
  /\ built \in BOOLEAN
  /\ crashes \in 0..MaxCrashes /\ slow \in 0..MaxSlow /\ replays \in 0..MaxReplays
  /\ \A n, m \in RowsIn(Live) \cap keyed : KeyOf[n] = KeyOf[m] => n = m  \* notification_dedupe_idx

Init ==
  /\ state = [n \in Events |-> "ABSENT"]
  /\ attempts = [n \in Events |-> 0]
  /\ keyed = {}
  /\ counted = [n \in Events |-> {}]
  /\ suppressed = {} /\ told = {} /\ retold = {}
  /\ worker = [w \in Workers |-> IdleWorker]
  /\ built \in BOOLEAN
  /\ crashes = 0 /\ slow = 0 /\ replays = 0

Sweeps == <<worker, built, crashes, slow, replays>>

-----------------------------------------------------------------------------
Holders(k) == {n \in RowsIn(Live) : n \in keyed /\ KeyOf[n] = k}
FoldsWhileLive(n) == state[n] # "SENT"   \* mutant: a claimed row is counted up as well
StillWaits(n) == state[n] = "PENDING"

(* A new row, or a fold into the row that waits, or nothing: one statement, and
   the partial unique index decides which. *)
Raise(e) ==
  /\ e \notin suppressed /\ \A n \in Events : e \notin counted[n]
  /\ IF Holders(KeyOf[e]) = {}
     THEN /\ state' = [state EXCEPT ![e] = "PENDING"]
          /\ keyed' = keyed \cup {e}
          /\ counted' = [counted EXCEPT ![e] = {e}]
          /\ UNCHANGED suppressed
     ELSE \E n \in Holders(KeyOf[e]) :
            /\ IF StillWaits(n)
               THEN /\ counted' = [counted EXCEPT ![n] = @ \cup {e}]
                    /\ UNCHANGED suppressed
               ELSE /\ suppressed' = suppressed \cup {e}
                    /\ UNCHANGED counted
            /\ UNCHANGED <<state, keyed>>
  /\ UNCHANGED <<attempts, told, retold, Sweeps>>

WithoutItsKey(n) == keyed \ {n}

(* An administrator sends a dead letter again, without its key. *)
Replay(n) ==
  /\ state[n] = "DEAD_LETTER"
  /\ replays < MaxReplays
  /\ replays' = replays + 1
  /\ state' = [state EXCEPT ![n] = "PENDING"]
  /\ attempts' = [attempts EXCEPT ![n] = 0]
  /\ keyed' = WithoutItsKey(n)
  /\ UNCHANGED <<counted, suppressed, told, retold, worker, built, crashes, slow>>

ChannelBuilt ==
  /\ ~built
  /\ built' = TRUE
  /\ UNCHANGED <<state, attempts, keyed, counted, suppressed, told, retold, worker, crashes,
                 slow, replays>>

-----------------------------------------------------------------------------
NothingAbandoned == {}           \* mutant: rows of a dead worker are not looked for
Abandoned == RowsIn({"PROCESSING"}) \ HeldBy(Workers)

(* Rows that have been PROCESSING for too long go back: those of dead workers, and
   those of a worker that is merely slow. *)
ReclaimStalled(w) ==
  /\ worker[w] = IdleWorker
  /\ \E late \in SUBSET (RowsIn({"PROCESSING"}) \cap HeldBy(Workers)) :
       /\ slow + Cardinality(late) <= MaxSlow
       /\ slow' = slow + Cardinality(late)
       /\ state' = [n \in Events |-> IF n \in Abandoned \cup late THEN "PENDING" ELSE state[n]]
  /\ worker' = [worker EXCEPT ![w].phase = "reclaimed"]
  /\ UNCHANGED <<attempts, keyed, counted, suppressed, told, retold, built, crashes, replays>>

ClaimedOrDue == RowsIn({"PENDING", "RETRYING", "PROCESSING"})  \* mutant: claims what is claimed
Claimable == RowsIn({"PENDING", "RETRYING"})

(* Claim what is due, as it is now; a sweep that finds nothing is over. *)
ClaimDue(w) ==
  /\ worker[w].phase = "reclaimed"
  /\ LET due == Claimable
     IN /\ state' = [n \in Events |-> IF n \in due THEN "PROCESSING" ELSE state[n]]
        /\ worker' = [worker EXCEPT ![w] =
             IF due = {} THEN IdleWorker
             ELSE [IdleWorker EXCEPT
                     !.phase = "delivering", !.batch = due,
                     !.row = [n \in Events |-> IF n \in due
                                THEN [events |-> counted[n], attempts |-> attempts[n]]
                                ELSE Unclaimed]]]
  /\ UNCHANGED <<attempts, keyed, counted, suppressed, told, retold, built, crashes, slow,
                 replays>>

(* Hand one row, as it was claimed, to the transport, and wait for the answer. *)
Deliver(w, n) ==
  /\ worker[w].phase = "delivering" /\ worker[w].at = None /\ n \in worker[w].batch
  /\ \E outcome \in IF built THEN {"DELIVERED", "RETRYABLE", "PERMANENT_FAILURE"}
                    ELSE {"NO_TRANSPORT"} :
       /\ worker' = [worker EXCEPT ![w].at = n, ![w].outcome = outcome]
       /\ IF outcome = "DELIVERED"
          THEN /\ told' = told \cup worker[w].row[n].events
               /\ retold' = retold \cup (IF n \in told THEN {n} ELSE {})
          ELSE UNCHANGED <<told, retold>>
  /\ UNCHANGED <<state, attempts, keyed, counted, suppressed, built, crashes, slow, replays>>

AfterAttempt(outcome, before) ==
  CASE outcome = "DELIVERED" -> "SENT"
    [] outcome = "PERMANENT_FAILURE" -> "DEAD_LETTER"
    [] outcome = "NO_TRANSPORT" -> "RETRYING"
    [] OTHER -> IF before + 1 >= MaxAttempts THEN "DEAD_LETTER" ELSE "RETRYING"

MarkApplies(n) == state[n] = "PROCESSING"

(* Each mark applies to a row that is PROCESSING, whoever it is that processes it. *)
Mark(w) ==
  LET n == worker[w].at
      left == worker[w].batch \ {n}
  IN /\ n # None
     /\ IF MarkApplies(n)
        THEN /\ state' = [state EXCEPT ![n] =
                            AfterAttempt(worker[w].outcome, worker[w].row[n].attempts)]
             /\ attempts' = [attempts EXCEPT ![n] = IF @ < MaxAttempts THEN @ + 1 ELSE @]
        ELSE UNCHANGED <<state, attempts>>
     /\ worker' = [worker EXCEPT ![w] =
          IF left = {} THEN IdleWorker
          ELSE [worker[w] EXCEPT !.batch = left, !.at = None, !.outcome = None,
                                 !.row[n] = Unclaimed]]
     /\ UNCHANGED <<keyed, counted, suppressed, told, retold, built, crashes, slow, replays>>

(* The instance dies, or a statement of the sweep fails: the rest of its batch
   stays PROCESSING and is held by nobody. *)
Dies(w) ==
  /\ worker[w] # IdleWorker
  /\ crashes < MaxCrashes
  /\ crashes' = crashes + 1
  /\ worker' = [worker EXCEPT ![w] = IdleWorker]
  /\ UNCHANGED <<state, attempts, keyed, counted, suppressed, told, retold, built, slow,
                 replays>>

-----------------------------------------------------------------------------
SweepStep(w) == ReclaimStalled(w) \/ ClaimDue(w) \/ (\E n \in Events : Deliver(w, n)) \/ Mark(w)

Next ==
  \/ \E e \in Events : Raise(e) \/ Replay(e)
  \/ ChannelBuilt
  \/ \E w \in Workers : SweepStep(w) \/ Dies(w)

Spec == Init /\ [][Next]_vars

(* Every instance's timer keeps firing and transports answer. *)
FairSpec == Spec /\ \A w \in Workers : WF_vars(SweepStep(w))

-----------------------------------------------------------------------------
(* A notification marked as sent told all the events it was counted for, as long as
   no row was taken back from a worker that was still at work on it. *)
CountedEventsAreTold ==
  slow = 0 => \A n \in RowsIn({"SENT"}) : counted[n] \subseteq told

(* The recipient is told twice only after a crash, a slow worker or a replay. *)
RepeatsHaveAReason == retold # {} => crashes + slow + replays > 0

(* What was sent stays sent, whatever a worker that lost the row reports later. *)
SentIsFinal == [][\A n \in Events : state[n] = "SENT" => state'[n] = "SENT"]_vars

(* Once the channel is built every notification is sent or set aside. *)
NotificationsSettle ==
  \A n \in Events :
    (built /\ state[n] \in {"PENDING", "PROCESSING", "RETRYING"})
      ~> (state[n] \in {"SENT", "DEAD_LETTER"})
=============================================================================
