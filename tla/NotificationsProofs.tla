------------------------- MODULE NotificationsProofs -------------------------
(***************************************************************************)
(* Theorems about Notifications, for any number of events and sweeps.  The *)
(* mark of a sweep applies to a row that is PROCESSING, whoever processes  *)
(* it.  What makes that right, as long as no sweep is taken for dead while *)
(* it works, is the agreement Held: a row in a batch is PROCESSING, is in  *)
(* one batch only, and is as it was when it was claimed.                   *)
(***************************************************************************)
EXTENDS Notifications, FiniteSetTheorems, TLAPS

-----------------------------------------------------------------------------
(* What is known whatever goes wrong. *)

RowStates == Live \cup {"ABSENT", "DEAD_LETTER"}
Outcomes == {"DELIVERED", "RETRYABLE", "PERMANENT_FAILURE", "NO_TRANSPORT", None}
WorkerType ==
  [phase : {"idle", "reclaimed", "delivering"}, batch : SUBSET Events,
   row : [Events -> [events : SUBSET Events, attempts : 0..MaxAttempts]],
   at : Events \cup {None}, outcome : Outcomes]

RowsTyped ==
  /\ state \in [Events -> RowStates]
  /\ attempts \in [Events -> 0..MaxAttempts]
  /\ keyed \subseteq Events
  /\ counted \in [Events -> SUBSET Events]
  /\ suppressed \subseteq Events /\ told \subseteq Events /\ retold \subseteq Events

CountsTyped ==
  /\ built \in BOOLEAN
  /\ crashes \in 0..MaxCrashes /\ slow \in 0..MaxSlow /\ replays \in 0..MaxReplays

(* notification_dedupe_idx: two live rows with their key have different keys. *)
KeysDiffer ==
  \A n, m \in Events :
    state[n] \in Live /\ state[m] \in Live /\ n \in keyed /\ m \in keyed /\ KeyOf[n] = KeyOf[m]
      => n = m

(* A row that is being handed over is in the batch of the sweep that does it. *)
AtWork ==
  \A w \in Workers : /\ worker[w].at # None => worker[w].at \in worker[w].batch
                     /\ worker[w].phase # "delivering" => worker[w].batch = {}

Typed == /\ RowsTyped /\ worker \in [Workers -> WorkerType] /\ CountsTyped
         /\ KeysDiffer /\ AtWork

LEMMA IdleTyped ==
  /\ IdleWorker \in WorkerType
  /\ IdleWorker.at = None /\ IdleWorker.batch = {} /\ IdleWorker.phase = "idle"
<1>1. Unclaimed \in [events : SUBSET Events, attempts : 0..MaxAttempts]
  BY NotificationAssumption DEF Unclaimed
<1>2. [n \in Events |-> Unclaimed] \in [Events -> [events : SUBSET Events,
                                                   attempts : 0..MaxAttempts]]
  BY <1>1
<1> QED BY <1>2 DEF IdleWorker, WorkerType, Outcomes

LEMMA InitTyped == ASSUME Init PROVE Typed
<1>1. RowsTyped /\ CountsTyped /\ KeysDiffer
  BY NotificationAssumption
     DEF Init, RowsTyped, CountsTyped, KeysDiffer, RowStates, Live
<1>2. worker \in [Workers -> WorkerType] /\ AtWork
  BY IdleTyped DEF Init, AtWork
<1> QED BY <1>1, <1>2 DEF Typed

LEMMA RaiseTyped == ASSUME Typed, NEW e \in Events, Raise(e) PROVE Typed'
<1>1. UNCHANGED <<attempts, told, retold, Sweeps>>
  BY DEF Raise
<1>2. CASE Holders(KeyOf[e]) = {}
  <2>1. /\ state' = [state EXCEPT ![e] = "PENDING"] /\ keyed' = keyed \cup {e}
        /\ counted' = [counted EXCEPT ![e] = {e}] /\ suppressed' = suppressed
    BY <1>2 DEF Raise
  <2>2. \A n \in Events : state[n] \in Live /\ n \in keyed => KeyOf[n] # KeyOf[e]
    BY <1>2 DEF Holders, RowsIn
  <2>3. KeysDiffer'
    BY <2>1, <2>2 DEF Typed, RowsTyped, KeysDiffer, RowStates, Live
  <2> QED BY <1>1, <2>1, <2>3
          DEF Typed, RowsTyped, CountsTyped, AtWork, Sweeps, RowStates, Live
<1>3. CASE Holders(KeyOf[e]) # {}
  <2>1. /\ state' = state /\ keyed' = keyed
        /\ counted' \in [Events -> SUBSET Events] /\ suppressed' \subseteq Events
    BY <1>3 DEF Raise, Typed, RowsTyped
  <2> QED BY <1>1, <2>1 DEF Typed, RowsTyped, CountsTyped, AtWork, Sweeps, KeysDiffer
<1> QED BY <1>2, <1>3

LEMMA ReplayTyped == ASSUME Typed, NEW n \in Events, Replay(n) PROVE Typed'
<1>1. /\ state' = [state EXCEPT ![n] = "PENDING"] /\ attempts' = [attempts EXCEPT ![n] = 0]
      /\ keyed' = keyed \ {n} /\ replays' \in 0..MaxReplays
      /\ UNCHANGED <<counted, suppressed, told, retold, worker, built, crashes, slow>>
  BY NotificationAssumption DEF Replay, WithoutItsKey, Typed, CountsTyped
<1>2. KeysDiffer'
  BY <1>1 DEF Typed, RowsTyped, KeysDiffer, RowStates, Live
<1> QED BY <1>1, <1>2, NotificationAssumption
        DEF Typed, RowsTyped, CountsTyped, AtWork, RowStates, Live

(* A sweep changes no key, and a row it moves between live states stays live. *)
LEMMA KeysStay ==
  ASSUME Typed, keyed' = keyed, \A n \in Events : state'[n] \in Live => state[n] \in Live
  PROVE  KeysDiffer'
  BY DEF Typed, KeysDiffer

(* What a reclaim takes back. *)
LEMMA ReclaimTakes ==
  ASSUME Typed, NEW w \in Workers, ReclaimStalled(w)
  PROVE  \E late \in SUBSET HeldBy(Workers) :
           /\ slow' \in 0..MaxSlow /\ slow' >= slow
           /\ slow' = slow => late = {}
           /\ state' = [n \in Events |-> IF n \in Abandoned \cup late THEN "PENDING"
                                        ELSE state[n]]
           /\ \A n \in Abandoned \cup late : state[n] = "PROCESSING"
<1>1. PICK late \in SUBSET (RowsIn({"PROCESSING"}) \cap HeldBy(Workers)) :
        /\ slow + Cardinality(late) <= MaxSlow
        /\ slow' = slow + Cardinality(late)
        /\ state' = [n \in Events |-> IF n \in Abandoned \cup late THEN "PENDING" ELSE state[n]]
  BY DEF ReclaimStalled
<1>2. IsFiniteSet(late)
  BY FS_Subset, NotificationAssumption DEF RowsIn
<1>3. Cardinality(late) \in Nat /\ (Cardinality(late) = 0 <=> late = {})
  BY <1>2, FS_CardinalityType, FS_EmptySet
<1>4. slow \in 0..MaxSlow
  BY DEF Typed, CountsTyped
<1>5. \A n \in Abandoned \cup late : state[n] = "PROCESSING"
  BY DEF Abandoned, RowsIn
<1>6. slow' \in 0..MaxSlow /\ slow' >= slow /\ (slow' = slow => late = {})
  <2> DEFINE size == Cardinality(late)
  <2>1. size \in Nat /\ (size = 0 => late = {}) /\ slow + size <= MaxSlow /\ slow' = slow + size
    BY <1>1, <1>3
  <2> HIDE DEF size
  <2> QED BY <1>4, <2>1, NotificationAssumption
<1>7. late \in SUBSET HeldBy(Workers)
  OBVIOUS
<1> QED BY <1>1, <1>5, <1>6, <1>7

LEMMA ReclaimTyped == ASSUME Typed, NEW w \in Workers, ReclaimStalled(w) PROVE Typed'
<1>1. PICK late \in SUBSET HeldBy(Workers) :
        /\ slow' \in 0..MaxSlow
        /\ state' = [n \in Events |-> IF n \in Abandoned \cup late THEN "PENDING" ELSE state[n]]
        /\ \A n \in Abandoned \cup late : state[n] = "PROCESSING"
  BY ReclaimTakes
<1>2. /\ worker' = [worker EXCEPT ![w].phase = "reclaimed"] /\ worker[w] = IdleWorker
      /\ UNCHANGED <<attempts, keyed, counted, suppressed, told, retold, built, crashes,
                     replays>>
  BY DEF ReclaimStalled
<1>3. \A n \in Events : state'[n] \in RowStates /\ (state'[n] \in Live => state[n] \in Live)
  BY <1>1 DEF Typed, RowsTyped, RowStates, Live
<1>4. KeysDiffer'
  BY <1>2, <1>3, KeysStay
<1>5. RowsTyped' /\ CountsTyped'
  BY <1>1, <1>2, <1>3 DEF Typed, RowsTyped, CountsTyped
<1>6. worker' \in [Workers -> WorkerType] /\ AtWork'
  BY <1>2, IdleTyped DEF Typed, WorkerType, AtWork
<1> QED BY <1>4, <1>5, <1>6 DEF Typed

(* The batch of a claim: the rows as they are. *)
LEMMA BatchTyped ==
  ASSUME Typed, NEW w \in Workers, ClaimDue(w)
  PROVE  /\ worker' = [worker EXCEPT ![w] = worker'[w]]
         /\ worker'[w] \in WorkerType /\ worker'[w].at = None
         /\ worker'[w].phase # "delivering" => worker'[w].batch = {}
         /\ worker'[w].batch = Claimable
         /\ \A n \in Claimable : worker'[w].row[n].events = counted[n]
<1> DEFINE rows == [n \in Events |-> IF n \in Claimable
                      THEN [events |-> counted[n], attempts |-> attempts[n]] ELSE Unclaimed]
           full == [IdleWorker EXCEPT !.phase = "delivering", !.batch = Claimable, !.row = rows]
<1>1. Claimable \subseteq Events
  BY DEF Claimable, RowsIn
<1>2. rows \in [Events -> [events : SUBSET Events, attempts : 0..MaxAttempts]]
      /\ \A n \in Claimable : rows[n].events = counted[n]
  BY <1>1, NotificationAssumption DEF Typed, RowsTyped, Unclaimed
<1> HIDE DEF rows
<1>3. /\ full \in WorkerType /\ full.at = None /\ full.batch = Claimable
      /\ full.phase = "delivering" /\ full.row = rows
  BY <1>1, <1>2, IdleTyped DEF WorkerType
<1>4. worker' = [worker EXCEPT ![w] = IF Claimable = {} THEN IdleWorker ELSE full]
  BY DEF ClaimDue, rows
<1> HIDE DEF full
<1>5. worker'[w] = IF Claimable = {} THEN IdleWorker ELSE full
  BY <1>4 DEF Typed
<1>6. CASE Claimable = {}
  BY <1>4, <1>5, <1>6, IdleTyped
<1>7. CASE Claimable # {}
  BY <1>2, <1>3, <1>4, <1>5, <1>7
<1> QED BY <1>6, <1>7

LEMMA ClaimTyped == ASSUME Typed, NEW w \in Workers, ClaimDue(w) PROVE Typed'
<1>1. /\ state' = [n \in Events |-> IF n \in Claimable THEN "PROCESSING" ELSE state[n]]
      /\ UNCHANGED <<attempts, keyed, counted, suppressed, told, retold, built, crashes, slow,
                     replays>>
  BY DEF ClaimDue
<1>2. \A n \in Events : state'[n] \in RowStates /\ (state'[n] \in Live => state[n] \in Live)
  BY <1>1 DEF Typed, RowsTyped, RowStates, Live, Claimable, RowsIn
<1>3. KeysDiffer'
  BY <1>1, <1>2, KeysStay
<1>4. RowsTyped' /\ CountsTyped'
  BY <1>1, <1>2 DEF Typed, RowsTyped, CountsTyped
<1>5. worker' \in [Workers -> WorkerType] /\ AtWork'
  BY BatchTyped DEF Typed, AtWork
<1> QED BY <1>3, <1>4, <1>5 DEF Typed

LEMMA DeliverTyped ==
  ASSUME Typed, NEW w \in Workers, NEW n \in Events, Deliver(w, n) PROVE Typed'
<1>1. PICK outcome \in {"DELIVERED", "RETRYABLE", "PERMANENT_FAILURE", "NO_TRANSPORT"} :
        worker' = [worker EXCEPT ![w].at = n, ![w].outcome = outcome]
  BY DEF Deliver
<1>2. n \in worker[w].batch /\ worker[w].phase = "delivering"
  BY DEF Deliver
<1>3. worker' \in [Workers -> WorkerType] /\ AtWork'
  <2>1. worker \in [Workers -> WorkerType] /\ n \in Events /\ outcome \in Outcomes
    BY DEF Typed, Outcomes
  <2>2. worker'[w] = [worker[w] EXCEPT !.at = n, !.outcome = outcome]
    BY <1>1, <2>1
  <2>3. worker[w] \in WorkerType
    BY <2>1
  <2>4. worker'[w] \in WorkerType
    BY <2>1, <2>2, <2>3 DEF WorkerType
  <2>5. worker' = [worker EXCEPT ![w] = worker'[w]]
    BY <1>1, <2>1, <2>2
  <2>6. worker' \in [Workers -> WorkerType]
    BY <2>1, <2>4, <2>5
  <2>7. /\ worker'[w].at = n /\ worker'[w].batch = worker[w].batch
        /\ worker'[w].phase = worker[w].phase
    BY <2>2, <2>3 DEF WorkerType
  <2>8. \A v \in Workers : v # w => worker'[v] = worker[v]
    BY <2>1, <2>5
  <2> QED BY <1>2, <2>6, <2>7, <2>8 DEF Typed, AtWork
<1>4. told' \subseteq Events /\ retold' \subseteq Events
  BY DEF Deliver, Typed, RowsTyped, WorkerType
<1>5. UNCHANGED <<state, attempts, keyed, counted, suppressed, built, crashes, slow, replays>>
  BY DEF Deliver
<1> QED BY <1>3, <1>4, <1>5 DEF Typed, RowsTyped, CountsTyped, KeysDiffer

LEMMA AfterAttemptTyped ==
  ASSUME NEW outcome, NEW before
  PROVE  /\ AfterAttempt(outcome, before) \in {"SENT", "RETRYING", "DEAD_LETTER"}
         /\ AfterAttempt(outcome, before) = "SENT" <=> outcome = "DELIVERED"
  BY DEF AfterAttempt

(* A mark lets go of one row, and the sweep of its batch with the last. *)
LEMMA MarkLetsGo ==
  ASSUME Typed, NEW w \in Workers, Mark(w)
  PROVE  /\ worker[w].at \in Events /\ worker[w].at \in worker[w].batch
         /\ worker' = [worker EXCEPT ![w] = worker'[w]]
         /\ worker'[w] \in WorkerType /\ worker'[w].at = None
         /\ worker'[w].batch = worker[w].batch \ {worker[w].at}
         /\ worker'[w].phase # "delivering" => worker'[w].batch = {}
         /\ \A n \in worker'[w].batch : worker'[w].row[n] = worker[w].row[n]
<1> DEFINE n == worker[w].at
           left == worker[w].batch \ {n}
           less == [worker[w] EXCEPT !.batch = left, !.at = None, !.outcome = None,
                                     !.row[n] = Unclaimed]
<1>1. n \in Events /\ n \in worker[w].batch
  BY DEF Mark, Typed, AtWork, WorkerType
<1>2. worker[w] \in WorkerType /\ worker[w].phase = "delivering"
  BY <1>1 DEF Typed, AtWork
<1>3. Unclaimed \in [events : SUBSET Events, attempts : 0..MaxAttempts]
  BY NotificationAssumption DEF Unclaimed
<1>4. less \in WorkerType /\ less.at = None /\ less.batch = left
      /\ \A m \in left : less.row[m] = worker[w].row[m]
  BY <1>1, <1>2, <1>3 DEF WorkerType, Outcomes
<1>5. less.phase = "delivering"
  BY <1>2 DEF WorkerType
<1>6. worker' = [worker EXCEPT ![w] = IF left = {} THEN IdleWorker ELSE less]
  BY DEF Mark
<1> HIDE DEF less
<1>7. worker'[w] = IF left = {} THEN IdleWorker ELSE less
  BY <1>6 DEF Typed
<1>8. CASE left = {}
  BY <1>1, <1>6, <1>7, <1>8, IdleTyped
<1>9. CASE left # {}
  BY <1>1, <1>4, <1>5, <1>6, <1>7, <1>9
<1> QED BY <1>8, <1>9

LEMMA MarkTyped == ASSUME Typed, NEW w \in Workers, Mark(w) PROVE Typed'
<1> DEFINE n == worker[w].at
<1>1. /\ n \in Events /\ worker' = [worker EXCEPT ![w] = worker'[w]]
      /\ worker'[w] \in WorkerType /\ worker'[w].at = None
      /\ worker'[w].phase # "delivering" => worker'[w].batch = {}
  BY MarkLetsGo
<1>2. UNCHANGED <<keyed, counted, suppressed, told, retold, built, crashes, slow, replays>>
  BY DEF Mark
<1>3. /\ attempts' \in [Events -> 0..MaxAttempts]
      /\ state' \in [Events -> RowStates]
      /\ \A m \in Events : state'[m] \in Live => state[m] \in Live
  <2>1. CASE MarkApplies(n)
    <3>1. PICK new \in {"SENT", "RETRYING", "DEAD_LETTER"} :
            state' = [state EXCEPT ![n] = new]
      BY <2>1, AfterAttemptTyped DEF Mark
    <3>2. attempts' = [attempts EXCEPT ![n] = IF attempts[n] < MaxAttempts
                                              THEN attempts[n] + 1 ELSE attempts[n]]
      BY <2>1 DEF Mark
    <3>3. attempts' \in [Events -> 0..MaxAttempts]
      BY <1>1, <3>2, NotificationAssumption DEF Typed, RowsTyped
    <3> QED BY <1>1, <2>1, <3>1, <3>3
            DEF MarkApplies, Typed, RowsTyped, RowStates, Live
  <2>2. CASE ~MarkApplies(n)
    BY <2>2 DEF Mark, Typed, RowsTyped
  <2> QED BY <2>1, <2>2
<1>4. KeysDiffer'
  BY <1>2, <1>3, KeysStay
<1>5. worker' \in [Workers -> WorkerType] /\ AtWork'
  BY <1>1 DEF Typed, AtWork
<1> QED BY <1>2, <1>3, <1>4, <1>5 DEF Typed, RowsTyped, CountsTyped

LEMMA DiesTyped == ASSUME Typed, NEW w \in Workers, Dies(w) PROVE Typed'
<1>1. /\ crashes' \in 0..MaxCrashes /\ worker' = [worker EXCEPT ![w] = IdleWorker]
      /\ UNCHANGED <<state, attempts, keyed, counted, suppressed, told, retold, built, slow,
                     replays>>
  BY NotificationAssumption DEF Dies, Typed, CountsTyped
<1> QED BY <1>1, IdleTyped DEF Typed, RowsTyped, CountsTyped, KeysDiffer, AtWork

LEMMA ChannelTyped == ASSUME Typed, ChannelBuilt PROVE Typed'
  BY DEF ChannelBuilt, Typed, RowsTyped, CountsTyped, KeysDiffer, AtWork

LEMMA TypedAlways == Spec => []Typed
<1>1. ASSUME Typed, [Next]_vars PROVE Typed'
  <2>1. ASSUME UNCHANGED vars PROVE Typed'
    BY <1>1, <2>1 DEF vars, Typed, RowsTyped, CountsTyped, KeysDiffer, AtWork
  <2> QED BY <1>1, <2>1, RaiseTyped, ReplayTyped, ChannelTyped, ReclaimTyped, ClaimTyped,
             DeliverTyped, MarkTyped, DiesTyped
          DEF Next, SweepStep
<1> QED BY <1>1, InitTyped, PTL DEF Spec

-----------------------------------------------------------------------------
(* Rows and sweeps have their types, and no two live rows share a dedupe key. *)
THEOREM TypeCorrect == Spec => []TypeOK
<1>1. Typed => TypeOK
  BY DEF Typed, TypeOK, RowsTyped, CountsTyped, KeysDiffer, RowStates, WorkerType, Outcomes,
         RowsIn
<1> QED BY <1>1, TypedAlways, PTL

-----------------------------------------------------------------------------
(* What a row stands for: its own event, and events that got no row. *)
Folds ==
  \A n \in Events :
    /\ state[n] = "ABSENT" <=> n \notin counted[n]
    /\ state[n] = "ABSENT" => counted[n] = {}
    /\ \A m \in Events : m # n => counted[n] \cap counted[m] = {}

LEMMA FoldsStay ==
  ASSUME Folds, counted' = counted,
         \A n \in Events : state'[n] = "ABSENT" <=> state[n] = "ABSENT"
  PROVE  Folds'
  BY DEF Folds

(* An event inserts a row or is folded into one that waits; all else is as it was. *)
LEMMA RaiseAdds ==
  ASSUME Typed, Folds, NEW e \in Events, Raise(e)
  PROVE  /\ \E n \in Events : /\ state[n] \in {"ABSENT", "PENDING"}
                              /\ state' = [state EXCEPT ![n] = "PENDING"]
                              /\ counted' = [counted EXCEPT ![n] = counted[n] \cup {e}]
                              /\ state[n] = "ABSENT" => n = e
           \/ UNCHANGED <<state, counted>>
         /\ \A n \in Events : e \notin counted[n]
         /\ UNCHANGED <<attempts, told, retold, Sweeps>>
<1>1. /\ \A n \in Events : e \notin counted[n]
      /\ UNCHANGED <<attempts, told, retold, Sweeps>>
  BY DEF Raise
<1>2. state[e] = "ABSENT" /\ counted[e] = {}
  BY <1>1 DEF Folds
<1>3. CASE Holders(KeyOf[e]) = {}
  <2>1. state' = [state EXCEPT ![e] = "PENDING"] /\ counted' = [counted EXCEPT ![e] = {e}]
    BY <1>3 DEF Raise
  <2> QED BY <1>1, <1>2, <2>1
<1>4. CASE Holders(KeyOf[e]) # {}
  <2>1. PICK n \in Holders(KeyOf[e]) :
          /\ IF StillWaits(n) THEN counted' = [counted EXCEPT ![n] = counted[n] \cup {e}]
             ELSE counted' = counted
          /\ state' = state
    BY <1>4 DEF Raise
  <2>2. n \in Events
    BY DEF Holders, RowsIn
  <2>3. CASE StillWaits(n)
    <3>1. state[n] = "PENDING" /\ state' = [state EXCEPT ![n] = "PENDING"]
      BY <2>1, <2>2, <2>3 DEF StillWaits, Typed, RowsTyped
    <3> QED BY <1>1, <2>1, <2>2, <2>3, <3>1
  <2>4. CASE ~StillWaits(n)
    BY <1>1, <2>1, <2>4
  <2> QED BY <2>3, <2>4
<1> QED BY <1>3, <1>4

LEMMA RaiseFolds == ASSUME Typed, Folds, NEW e \in Events, Raise(e) PROVE Folds'
<1>1. CASE UNCHANGED <<state, counted>>
  BY <1>1 DEF Folds
<1>2. ASSUME NEW n \in Events, state[n] \in {"ABSENT", "PENDING"},
             state' = [state EXCEPT ![n] = "PENDING"],
             counted' = [counted EXCEPT ![n] = counted[n] \cup {e}],
             state[n] = "ABSENT" => n = e
      PROVE  Folds'
  <2>1. \A m \in Events : e \notin counted[m]
    BY RaiseAdds
  <2>2. \A m \in Events : /\ state'[m] = IF m = n THEN "PENDING" ELSE state[m]
                          /\ counted'[m] = IF m = n THEN counted[n] \cup {e} ELSE counted[m]
    BY <1>2 DEF Typed, RowsTyped
  <2> QED BY <1>2, <2>1, <2>2 DEF Folds
<1> QED BY <1>1, <1>2, RaiseAdds

(* How the sweeps move rows: from waiting to claimed, back, or on. *)
LEMMA SweepMoves ==
  ASSUME Typed, NEW w \in Workers, SweepStep(w) \/ Dies(w)
  PROVE  /\ counted' = counted
         /\ \A n \in Events : /\ state'[n] = "ABSENT" <=> state[n] = "ABSENT"
                              /\ state[n] = "SENT" => state'[n] = "SENT"
<1>1. CASE ReclaimStalled(w)
  <2>1. PICK late \in SUBSET HeldBy(Workers) :
          /\ state' = [n \in Events |-> IF n \in Abandoned \cup late THEN "PENDING" ELSE state[n]]
          /\ \A n \in Abandoned \cup late : state[n] = "PROCESSING"
    BY <1>1, ReclaimTakes
  <2> QED BY <1>1, <2>1 DEF ReclaimStalled
<1>2. CASE ClaimDue(w)
  <2>1. state' = [n \in Events |-> IF n \in Claimable THEN "PROCESSING" ELSE state[n]]
    BY <1>2 DEF ClaimDue
  <2> QED BY <1>2, <2>1 DEF ClaimDue, Claimable, RowsIn
<1>3. ASSUME NEW n \in Events, Deliver(w, n)
      PROVE  UNCHANGED <<state, counted>>
  BY <1>3 DEF Deliver
<1>4. CASE Mark(w)
  <2> DEFINE n == worker[w].at
  <2>1. CASE MarkApplies(n)
    <3>1. PICK new \in {"SENT", "RETRYING", "DEAD_LETTER"} :
            state' = [state EXCEPT ![n] = new]
      BY <1>4, <2>1, AfterAttemptTyped DEF Mark
    <3> QED BY <1>4, <2>1, <3>1 DEF Mark, MarkApplies, Typed, RowsTyped
  <2>2. CASE ~MarkApplies(n)
    BY <1>4, <2>2 DEF Mark
  <2> QED BY <2>1, <2>2
<1>5. CASE Dies(w)
  BY <1>5 DEF Dies
<1> QED BY <1>1, <1>2, <1>3, <1>4, <1>5 DEF SweepStep

LEMMA FoldsAlways == Spec => []Folds
<1>1. Init => Folds
  BY DEF Init, Folds
<1>2. ASSUME Typed, Folds, [Next]_vars PROVE Folds'
  <2>1. ASSUME NEW n \in Events, Replay(n) PROVE Folds'
    <3>1. counted' = counted /\ state[n] = "DEAD_LETTER"
          /\ state' = [state EXCEPT ![n] = "PENDING"]
      BY <2>1 DEF Replay
    <3>2. \A m \in Events : state'[m] = "ABSENT" <=> state[m] = "ABSENT"
      BY <3>1 DEF Typed, RowsTyped
    <3> QED BY <1>2, <3>1, <3>2, FoldsStay
  <2>2. ASSUME NEW w \in Workers, SweepStep(w) \/ Dies(w) PROVE Folds'
    BY <1>2, <2>2, SweepMoves, FoldsStay
  <2>3. ASSUME ChannelBuilt \/ UNCHANGED vars PROVE Folds'
    BY <1>2, <2>3, FoldsStay DEF ChannelBuilt, vars
  <2> QED BY <1>2, <2>1, <2>2, <2>3, RaiseFolds DEF Next
<1> QED BY <1>1, <1>2, TypedAlways, PTL DEF Spec

(* Whatever a sweep that lost a row reports later, and however often a row is taken
   back, replayed or folded into, what was sent stays sent. *)
THEOREM WhatIsSentIsFinal == Spec => SentIsFinal
<1>1. ASSUME Typed, Folds, [Next]_vars, NEW n \in Events, state[n] = "SENT"
      PROVE  state'[n] = "SENT"
  <2>1. ASSUME NEW e \in Events, Raise(e) PROVE state'[n] = "SENT"
    BY <1>1, <2>1, RaiseAdds DEF Typed, RowsTyped
  <2>2. ASSUME NEW e \in Events, Replay(e) PROVE state'[n] = "SENT"
    BY <1>1, <2>2 DEF Replay, Typed, RowsTyped
  <2>3. ASSUME NEW w \in Workers, SweepStep(w) \/ Dies(w) PROVE state'[n] = "SENT"
    BY <1>1, <2>3, SweepMoves
  <2>4. ASSUME ChannelBuilt \/ UNCHANGED vars PROVE state'[n] = "SENT"
    BY <1>1, <2>4 DEF ChannelBuilt, vars
  <2> QED BY <1>1, <2>1, <2>2, <2>3, <2>4 DEF Next
<1>2. Typed /\ Folds /\ [Next]_vars
        => [\A n \in Events : state[n] = "SENT" => state'[n] = "SENT"]_vars
  BY <1>1
<1> QED BY <1>2, TypedAlways, FoldsAlways, PTL DEF Spec, SentIsFinal

-----------------------------------------------------------------------------
(* While no sweep is taken for dead, a row in a batch is PROCESSING, is in one
   batch only, and is as it was read; and what was sent told all it stands for. *)
InHand ==
  \A w \in Workers :
    /\ \A n \in worker[w].batch : /\ state[n] = "PROCESSING"
                                  /\ worker[w].row[n].events = counted[n]
    /\ worker[w].at # None /\ worker[w].outcome = "DELIVERED" => counted[worker[w].at] \subseteq told
    /\ \A v \in Workers : v # w => worker[v].batch \cap worker[w].batch = {}

SentToldAll == \A n \in Events : state[n] = "SENT" => counted[n] \subseteq told

Held == slow = 0 => InHand /\ SentToldAll

Known == Typed /\ Folds

LEMMA RaiseHeld ==
  ASSUME Known, InHand, SentToldAll, NEW e \in Events, Raise(e) PROVE (InHand /\ SentToldAll)'
<1>1. UNCHANGED <<told, worker>>
  BY DEF Raise, Sweeps
<1>2. \A n \in Events : state[n] \in {"PROCESSING", "SENT"} =>
        state'[n] = state[n] /\ counted'[n] = counted[n]
  BY RaiseAdds DEF Known, Typed, RowsTyped
<1>3. \A n \in Events : state'[n] = "SENT" => state[n] = "SENT"
  BY RaiseAdds DEF Known, Typed, RowsTyped
<1>4. \A w \in Workers : /\ worker[w].batch \subseteq Events
                         /\ worker[w].at # None => worker[w].at \in worker[w].batch
  BY DEF Known, Typed, AtWork, WorkerType
<1>5. SentToldAll'
  BY <1>1, <1>2, <1>3 DEF SentToldAll
<1>6. InHand'
  BY <1>1, <1>2, <1>4 DEF InHand
<1> QED BY <1>5, <1>6

LEMMA ReplayHeld ==
  ASSUME Known, InHand, SentToldAll, NEW e \in Events, Replay(e) PROVE (InHand /\ SentToldAll)'
<1>1. UNCHANGED <<told, worker, counted>> /\ state[e] = "DEAD_LETTER"
      /\ state' = [state EXCEPT ![e] = "PENDING"]
  BY DEF Replay
<1>2. \A n \in Events : state'[n] = IF n = e THEN "PENDING" ELSE state[n]
  BY <1>1 DEF Known, Typed, RowsTyped
<1>3. \A w \in Workers : worker[w].batch \subseteq Events
  BY DEF Known, Typed, WorkerType
<1> QED BY <1>1, <1>2, <1>3 DEF InHand, SentToldAll

(* Rows without a sweep go back; nothing was late. *)
LEMMA ReclaimHeld ==
  ASSUME Known, InHand, SentToldAll, NEW w \in Workers, ReclaimStalled(w), slow' = slow
  PROVE  (InHand /\ SentToldAll)'
<1>1. state' = [n \in Events |-> IF n \in Abandoned THEN "PENDING" ELSE state[n]]
  BY ReclaimTakes DEF Known
<1>2. UNCHANGED <<told, counted>> /\ worker[w] = IdleWorker
      /\ worker' = [worker EXCEPT ![w].phase = "reclaimed"]
  BY DEF ReclaimStalled
<1>3. \A v \in Workers : /\ worker'[v].batch = worker[v].batch /\ worker'[v].row = worker[v].row
                         /\ worker'[v].at = worker[v].at /\ worker'[v].outcome = worker[v].outcome
  BY <1>2 DEF Known, Typed, WorkerType
<1>4. \A v \in Workers : /\ worker[v].batch \subseteq Events
                         /\ worker[v].batch \cap Abandoned = {}
  BY DEF Known, Typed, WorkerType, Abandoned, HeldBy
<1>5. InHand'
  BY <1>1, <1>2, <1>3, <1>4 DEF InHand
<1>6. SentToldAll'
  BY <1>1, <1>2 DEF SentToldAll
<1> QED BY <1>5, <1>6

(* What is claimed was in no batch. *)
LEMMA ClaimHeld ==
  ASSUME Known, InHand, SentToldAll, NEW w \in Workers, ClaimDue(w)
  PROVE  (InHand /\ SentToldAll)'
<1>1. UNCHANGED <<told, counted>>
      /\ state' = [n \in Events |-> IF n \in Claimable THEN "PROCESSING" ELSE state[n]]
  BY DEF ClaimDue
<1>2. /\ worker' = [worker EXCEPT ![w] = worker'[w]] /\ worker'[w].at = None
      /\ worker'[w].batch = Claimable
      /\ \A n \in Claimable : worker'[w].row[n].events = counted[n]
  BY BatchTyped DEF Known
<1>3. \A v \in Workers \ {w} : worker'[v] = worker[v]
  BY <1>2 DEF Known, Typed
<1>4. \A v \in Workers : /\ worker[v].batch \subseteq Events
                         /\ worker[v].batch \cap Claimable = {}
  BY DEF Known, Typed, WorkerType, Claimable, RowsIn, InHand
<1>5. InHand'
  BY <1>1, <1>2, <1>3, <1>4 DEF InHand, Claimable, RowsIn
<1>6. SentToldAll'
  BY <1>1 DEF SentToldAll
<1> QED BY <1>5, <1>6

LEMMA DeliverHeld ==
  ASSUME Known, InHand, SentToldAll, NEW w \in Workers, NEW n \in Events, Deliver(w, n)
  PROVE  (InHand /\ SentToldAll)'
<1>1. PICK outcome \in {"DELIVERED", "RETRYABLE", "PERMANENT_FAILURE", "NO_TRANSPORT"} :
        /\ worker' = [worker EXCEPT ![w].at = n, ![w].outcome = outcome]
        /\ outcome = "DELIVERED" => told' = told \cup worker[w].row[n].events
        /\ outcome # "DELIVERED" => told' = told
  BY DEF Deliver
<1>2. n \in worker[w].batch /\ UNCHANGED <<state, counted>>
  BY DEF Deliver
<1>3. \A v \in Workers : /\ worker'[v].batch = worker[v].batch /\ worker'[v].row = worker[v].row
                         /\ v # w => worker'[v].at = worker[v].at
                                     /\ worker'[v].outcome = worker[v].outcome
  BY <1>1 DEF Known, Typed, WorkerType
<1>4. worker'[w].at = n /\ worker'[w].outcome = outcome
  BY <1>1 DEF Known, Typed, WorkerType
<1>5. outcome = "DELIVERED" => counted[n] \subseteq told'
  BY <1>1, <1>2 DEF InHand
<1>6. told \subseteq told'
  BY <1>1
<1>7. InHand'
  BY <1>2, <1>3, <1>4, <1>5, <1>6 DEF InHand
<1>8. SentToldAll'
  BY <1>2, <1>6 DEF SentToldAll
<1> QED BY <1>7, <1>8

(* A mark sets SENT what its own sweep handed over, and lets go of it. *)
LEMMA MarkHeld ==
  ASSUME Known, InHand, SentToldAll, NEW w \in Workers, Mark(w)
  PROVE  /\ (InHand /\ SentToldAll)'
         /\ state'[worker[w].at] = "SENT" <=> worker[w].outcome = "DELIVERED"
<1> DEFINE n == worker[w].at
<1>1. /\ n \in Events /\ n \in worker[w].batch
      /\ worker' = [worker EXCEPT ![w] = worker'[w]] /\ worker'[w].at = None
      /\ worker'[w].batch = worker[w].batch \ {n}
      /\ \A m \in worker'[w].batch : worker'[w].row[m] = worker[w].row[m]
  BY MarkLetsGo DEF Known
<1>2. MarkApplies(n) /\ n # None
  BY <1>1 DEF InHand, MarkApplies, Mark
<1>3. PICK new \in {"SENT", "RETRYING", "DEAD_LETTER"} :
        /\ state' = [state EXCEPT ![n] = new]
        /\ new = "SENT" <=> worker[w].outcome = "DELIVERED"
  BY <1>2, AfterAttemptTyped DEF Mark
<1>4. UNCHANGED <<told, counted>>
  BY DEF Mark
<1>5. \A m \in Events : state'[m] = IF m = n THEN new ELSE state[m]
  BY <1>3 DEF Known, Typed, RowsTyped
<1>6. \A v \in Workers \ {w} : worker'[v] = worker[v] /\ n \notin worker[v].batch
  BY <1>1 DEF Known, Typed, InHand
<1>7. \A v \in Workers : worker[v].batch \subseteq Events
  BY DEF Known, Typed, WorkerType
<1>8. InHand'
  BY <1>1, <1>4, <1>5, <1>6, <1>7 DEF InHand
<1>9. SentToldAll'
  BY <1>1, <1>2, <1>3, <1>4, <1>5 DEF InHand, SentToldAll
<1> QED BY <1>1, <1>3, <1>5, <1>8, <1>9

LEMMA DiesHeld ==
  ASSUME Known, InHand, SentToldAll, NEW w \in Workers, Dies(w) PROVE (InHand /\ SentToldAll)'
<1>1. UNCHANGED <<state, told, counted>> /\ worker' = [worker EXCEPT ![w] = IdleWorker]
  BY DEF Dies
<1>2. \A v \in Workers : worker'[v] = IF v = w THEN IdleWorker ELSE worker[v]
  BY <1>1 DEF Known, Typed
<1> QED BY <1>1, <1>2, IdleTyped DEF InHand, SentToldAll

(* The count of rows that were taken back too early never falls. *)
LEMMA SlowOnlyGrows == ASSUME Known, [Next]_vars, slow' = 0 PROVE slow = 0
<1>1. ASSUME NEW w \in Workers, ReclaimStalled(w) PROVE slow = 0
  BY <1>1, ReclaimTakes DEF Known, Typed, CountsTyped
<1>2. ASSUME ChannelBuilt \/ UNCHANGED vars PROVE slow = 0
  BY <1>2 DEF ChannelBuilt, vars
<1>3. ASSUME NEW e \in Events, Raise(e) \/ Replay(e) PROVE slow = 0
  BY <1>3 DEF Raise, Replay, Sweeps
<1>4. ASSUME NEW w \in Workers, ClaimDue(w) \/ Mark(w) \/ Dies(w) PROVE slow = 0
  BY <1>4 DEF ClaimDue, Mark, Dies
<1>5. ASSUME NEW w \in Workers, NEW n \in Events, Deliver(w, n) PROVE slow = 0
  BY <1>5 DEF Deliver
<1> QED BY <1>1, <1>2, <1>3, <1>4, <1>5 DEF Next, SweepStep

LEMMA HeldAlways == Spec => []Held
<1>1. Init => Held
  BY IdleTyped DEF Init, Held, InHand, SentToldAll
<1>2. ASSUME Known, Held, [Next]_vars PROVE Held'
  <2> SUFFICES ASSUME slow' = 0 PROVE (InHand /\ SentToldAll)'
    BY DEF Held
  <2>1. slow = 0 /\ InHand /\ SentToldAll
    BY <1>2, SlowOnlyGrows DEF Held
  <2>2. ASSUME ChannelBuilt \/ UNCHANGED vars PROVE (InHand /\ SentToldAll)'
    BY <2>1, <2>2 DEF ChannelBuilt, vars, InHand, SentToldAll
  <2> QED BY <1>2, <2>1, <2>2, RaiseHeld, ReplayHeld, ReclaimHeld, ClaimHeld, DeliverHeld,
             MarkHeld, DiesHeld
          DEF Next, SweepStep
<1> QED BY <1>1, <1>2, TypedAlways, FoldsAlways, PTL DEF Spec, Known

(* A notification marked as sent told all the events it was counted for, as long as
   no row was taken back from a sweep that was still at work on it. *)
THEOREM CountedWasTold == Spec => []CountedEventsAreTold
<1>1. Held => CountedEventsAreTold
  BY DEF Held, SentToldAll, CountedEventsAreTold, RowsIn
<1> QED BY <1>1, HeldAlways, PTL

-----------------------------------------------------------------------------
(* With no crash, no slow sweep and no replay, what was told was told by one row,
   which is SENT or about to be. *)
HasTold(n) == state[n] = "SENT"
              \/ \E w \in Workers : worker[w].at = n /\ worker[w].outcome = "DELIVERED"
ToldByOne == \A e \in told : \E n \in Events : e \in counted[n] /\ HasTold(n)

Untroubled == crashes = 0 /\ slow = 0 /\ replays = 0
Calm == Untroubled => retold = {} /\ ToldByOne

(* Counts keep what they have, sent rows stay sent, and the others' work goes on. *)
LEMMA ToldStays ==
  ASSUME ToldByOne, told' = told,
         \A n \in Events : counted[n] \subseteq counted'[n],
         \A n \in Events : state[n] = "SENT" => state'[n] = "SENT",
         \A w \in Workers : worker[w].at \in Events /\ worker[w].outcome = "DELIVERED" =>
           \/ worker'[w].at = worker[w].at /\ worker'[w].outcome = worker[w].outcome
           \/ state'[worker[w].at] = "SENT"
  PROVE  ToldByOne'
<1> SUFFICES ASSUME NEW e \in told PROVE \E n \in Events : e \in counted'[n] /\ HasTold(n)'
  BY DEF ToldByOne
<1>1. PICK n \in Events : e \in counted[n] /\ HasTold(n)
  BY DEF ToldByOne
<1>2. HasTold(n)'
  BY <1>1 DEF HasTold
<1> QED BY <1>1, <1>2

LEMMA CalmStep ==
  ASSUME Known, Held, Calm, [Next]_vars PROVE Calm'
<1> SUFFICES ASSUME Untroubled' PROVE (retold = {} /\ ToldByOne)'
  BY DEF Calm
<1>1. Typed /\ Folds /\ slow = 0 /\ InHand /\ SentToldAll
  BY SlowOnlyGrows DEF Known, Held, Untroubled
<1>2. ASSUME NEW e \in Events, Raise(e) PROVE (retold = {} /\ ToldByOne)'
  <2>1. UNCHANGED <<told, retold, worker, crashes, slow, replays>>
    BY <1>2 DEF Raise, Sweeps
  <2>2. \A n \in Events : /\ counted[n] \subseteq counted'[n]
                          /\ state[n] = "SENT" => state'[n] = "SENT"
    BY <1>1, <1>2, RaiseAdds DEF Typed, RowsTyped
  <2> QED BY <2>1, <2>2, ToldStays DEF Calm, Untroubled
<1>3. ASSUME NEW e \in Events, Replay(e) PROVE FALSE
  BY <1>1, <1>3 DEF Replay, Untroubled, Typed, CountsTyped
<1>4. ASSUME NEW w \in Workers, Dies(w) PROVE FALSE
  BY <1>1, <1>4 DEF Dies, Untroubled, Typed, CountsTyped
<1>5. ASSUME NEW w \in Workers, ReclaimStalled(w) \/ ClaimDue(w) \/ Mark(w)
      PROVE  (retold = {} /\ ToldByOne)'
  <2>1. UNCHANGED <<told, retold, crashes, replays>>
    BY <1>5 DEF ReclaimStalled, ClaimDue, Mark
  <2>2. /\ \A n \in Events : counted[n] \subseteq counted'[n]
        /\ \A n \in Events : state[n] = "SENT" => state'[n] = "SENT"
    BY <1>1, <1>5, SweepMoves DEF SweepStep
  <2>3. \A v \in Workers \ {w} : worker'[v] = worker[v]
    BY <1>1, <1>5, BatchTyped, MarkLetsGo DEF ReclaimStalled, Typed
  <2>4. worker[w].at \in Events /\ worker[w].outcome = "DELIVERED" =>
          state'[worker[w].at] = "SENT"
    <3>1. CASE ReclaimStalled(w)
      BY <3>1, IdleTyped, NotificationAssumption DEF ReclaimStalled
    <3>2. CASE ClaimDue(w)
      BY <1>1, <3>2, NotificationAssumption DEF ClaimDue, Typed, AtWork
    <3>3. CASE Mark(w)
      BY <1>1, <3>3, MarkHeld
    <3> QED BY <1>5, <3>1, <3>2, <3>3
  <2> QED BY <1>1, <2>1, <2>2, <2>3, <2>4, ToldStays DEF Calm, Untroubled
<1>6. ASSUME NEW w \in Workers, NEW n \in Events, Deliver(w, n)
      PROVE  (retold = {} /\ ToldByOne)'
  <2>1. PICK outcome \in {"DELIVERED", "RETRYABLE", "PERMANENT_FAILURE", "NO_TRANSPORT"} :
          /\ worker' = [worker EXCEPT ![w].at = n, ![w].outcome = outcome]
          /\ outcome = "DELIVERED" =>
               /\ told' = told \cup worker[w].row[n].events
               /\ retold' = retold \cup (IF n \in told THEN {n} ELSE {})
          /\ outcome # "DELIVERED" => UNCHANGED <<told, retold>>
    BY <1>6 DEF Deliver
  <2>2. /\ n \in worker[w].batch /\ worker[w].at = None
        /\ UNCHANGED <<state, counted, crashes, slow, replays>>
    BY <1>6 DEF Deliver
  <2>3. retold = {} /\ ToldByOne
    BY <2>2 DEF Calm, Untroubled
  <2>4. state[n] = "PROCESSING" /\ worker[w].row[n].events = counted[n]
    BY <1>1, <2>2 DEF InHand
  <2>5. n \notin told
    <3> SUFFICES ASSUME n \in told PROVE FALSE
      OBVIOUS
    <3>1. PICK m \in Events : n \in counted[m] /\ HasTold(m)
      BY <2>3 DEF ToldByOne
    <3>2. m = n
      <4>1. n \in counted[n] /\ (m # n => counted[n] \cap counted[m] = {})
        BY <1>1, <2>4 DEF Folds
      <4> QED BY <3>1, <4>1
    <3>3. PICK v \in Workers : worker[v].at = n
      BY <2>4, <3>1, <3>2 DEF HasTold
    <3>4. n \in worker[v].batch
      BY <1>1, <3>3, NotificationAssumption DEF Typed, AtWork
    <3>5. v = w
      BY <1>1, <2>2, <3>4 DEF InHand
    <3> QED BY <2>2, <3>3, <3>5, NotificationAssumption
  <2>6. \A v \in Workers : /\ v # w => worker'[v] = worker[v]
                           /\ v = w => worker'[v].at = n /\ worker'[v].outcome = outcome
    BY <1>1, <2>1 DEF Typed, WorkerType
  <2>7. CASE outcome = "DELIVERED"
    <3>1. retold' = {} /\ told' = told \cup counted[n]
      BY <2>1, <2>3, <2>4, <2>5, <2>7
    <3>2. ASSUME NEW m \in Events, HasTold(m) PROVE HasTold(m)'
      <4>1. \A v \in Workers : worker[v].at = m => worker'[v] = worker[v]
        BY <2>2, <2>6, NotificationAssumption
      <4> QED BY <2>2, <3>2, <4>1 DEF HasTold
    <3>3. HasTold(n)'
      BY <2>6, <2>7 DEF HasTold
    <3>4. ToldByOne'
      BY <2>2, <2>3, <3>1, <3>2, <3>3 DEF ToldByOne
    <3> QED BY <3>1, <3>4
  <2>8. CASE outcome # "DELIVERED"
    <3>1. UNCHANGED <<told, retold>>
      BY <2>1, <2>8
    <3> QED BY <2>2, <2>3, <2>6, <3>1, ToldStays, NotificationAssumption
  <2> QED BY <2>7, <2>8
<1>7. ASSUME ChannelBuilt \/ UNCHANGED vars PROVE (retold = {} /\ ToldByOne)'
  BY <1>7 DEF ChannelBuilt, vars, Calm, Untroubled, ToldByOne, HasTold
<1> QED BY <1>2, <1>3, <1>4, <1>5, <1>6, <1>7 DEF Next, SweepStep

(* A recipient is told of the same row twice only after a crash, a sweep that was
   taken for dead while it worked, or an administrator's replay. *)
THEOREM RepeatsHadAReason == Spec => []RepeatsHaveAReason
<1>1. Init => Calm
  BY DEF Init, Calm, ToldByOne
<1>2. Known /\ Held /\ Calm /\ [Next]_vars => Calm'
  BY CalmStep
<1>3. Typed /\ Calm => RepeatsHaveAReason
  BY DEF Typed, CountsTyped, Calm, Untroubled, RepeatsHaveAReason
<1> QED BY <1>1, <1>2, <1>3, TypedAlways, FoldsAlways, HeldAlways, PTL DEF Spec, Known
=============================================================================
