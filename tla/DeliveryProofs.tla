--------------------------- MODULE DeliveryProofs ---------------------------
(***************************************************************************)
(* Theorems about the two ends of an event's way: OutboxRelay, which hands *)
(* it over, and ThreadView, the page that asks for the thread when it      *)
(* hears of it.  The first for any number of events, relays, attempts and  *)
(* crashes, the second for any number of messages, of copies of a frame,   *)
(* of messages composed here and of interruptions.  What lies in between   *)
(* is Gateway's.  The modules share no variable.                           *)
(***************************************************************************)
EXTENDS OutboxRelay, ThreadView, TLAPS

-----------------------------------------------------------------------------
(* OutboxRelay: what is true between any two steps.  TypeOK is not inductive: a
   settled batch raises attempts, which stays in range because a row that is still
   owed has one left. *)

AttemptLeft == \A e \in Events : state[e] \in {"ABSENT", "PENDING"} => attempts[e] < MaxAttempts

(* A relay works on rows that are still owed, and only what was accepted is ok. *)
BatchesOwed ==
  \A r \in Relays :
    /\ relay[r].claimed \subseteq RowsIn("PENDING")
    /\ relay[r].ok \cup relay[r].failed \subseteq relay[r].claimed
    /\ relay[r].ok \subseteq heard

BatchesDisjoint ==
  \A r, q \in Relays : r # q => relay[r].claimed \cap relay[q].claimed = {}

HeardWereOwed == \A e \in heard : state[e] # "ABSENT"

(* As long as nobody died, what was heard is settled or will be by who published it. *)
Accounted ==
  crashes = 0 =>
    /\ repeated = {}
    /\ \A e \in heard : state[e] = "PUBLISHED" \/ \E r \in Relays : e \in relay[r].ok

Inv ==
  /\ TypeOK /\ AttemptLeft /\ BatchesOwed /\ BatchesDisjoint /\ HeardWereOwed /\ Accounted

LEMMA InitInv == ASSUME Init PROVE Inv
  BY RelayAssumption
  DEF Init, Inv, TypeOK, AttemptLeft, BatchesOwed, BatchesDisjoint, HeardWereOwed,
      Accounted, IdleRelay, RowsIn

-----------------------------------------------------------------------------
(* One lemma per kind of step. *)

LEMMA AppendInv == ASSUME Inv, NEW e \in Events, Append(e) PROVE Inv'
  BY DEF Append, Inv, TypeOK, AttemptLeft, BatchesOwed, BatchesDisjoint, HeardWereOwed,
         Accounted, RowsIn

LEMMA ClaimInv == ASSUME Inv, NEW r \in Relays, Claim(r) PROVE Inv'
<1> DEFINE free == RowsIn("PENDING") \ LockedRows
<1>0. PICK retried \in SUBSET FailedBefore(free) :
        /\ relay' = [relay EXCEPT ![r].claimed = {e \in free : attempts[e] = 0} \cup retried]
        /\ UNCHANGED <<state, attempts, heard, repeated, crashes>>
  BY Zenon DEF Claim
<1> DEFINE batch == {e \in free : attempts[e] = 0} \cup retried
<1>1. /\ batch \subseteq free
      /\ relay' = [relay EXCEPT ![r].claimed = batch]
      /\ UNCHANGED <<state, attempts, heard, repeated, crashes>>
  BY <1>0 DEF FailedBefore
<1> HIDE DEF batch
<1>2. relay[r] = IdleRelay
  BY DEF Claim
<1>3. \A q \in Relays : batch \cap relay[q].claimed = {}
  BY <1>1 DEF LockedRows, LockedBy
<1>4. batch \subseteq RowsIn("PENDING") /\ RowsIn("PENDING") \subseteq Events
  BY <1>1 DEF RowsIn
<1>5. TypeOK'
  BY <1>1, <1>4 DEF Inv, TypeOK
<1>6. \A q \in Relays : /\ relay'[q].claimed = IF q = r THEN batch ELSE relay[q].claimed
                        /\ relay'[q].ok = relay[q].ok /\ relay'[q].failed = relay[q].failed
  BY <1>1 DEF Inv, TypeOK
<1>7. BatchesOwed'
  BY <1>1, <1>2, <1>4, <1>6 DEF Inv, BatchesOwed, IdleRelay, RowsIn
<1>8. BatchesDisjoint'
  BY <1>3, <1>6 DEF Inv, BatchesDisjoint
<1>9. (AttemptLeft /\ HeardWereOwed /\ Accounted)'
  BY <1>1, <1>6 DEF Inv, AttemptLeft, HeardWereOwed, Accounted
<1> QED BY <1>5, <1>7, <1>8, <1>9 DEF Inv

LEMMA DeliverInv ==
  ASSUME Inv, NEW r \in Relays, NEW e \in Events, Deliver(r, e) PROVE Inv'
<1>1. /\ e \in relay[r].claimed /\ state[e] = "PENDING"
      /\ \A q \in Relays : e \notin relay[q].ok
  BY DEF Deliver, Inv, BatchesOwed, BatchesDisjoint, RowsIn
<1>2. UNCHANGED <<state, attempts, crashes>>
  BY DEF Deliver
<1>3. CASE /\ relay' = [relay EXCEPT ![r].ok = @ \cup {e}]
           /\ heard' = heard \cup {e}
           /\ repeated' = repeated \cup ({e} \cap heard)
  <2>1. \A q \in Relays : /\ relay'[q].claimed = relay[q].claimed
                          /\ relay'[q].failed = relay[q].failed
                          /\ relay'[q].ok = IF q = r THEN relay[q].ok \cup {e} ELSE relay[q].ok
    BY <1>3 DEF Inv, TypeOK
  <2>2. TypeOK'
    BY <1>2, <1>3 DEF Inv, TypeOK
  <2>3. (AttemptLeft /\ BatchesDisjoint /\ HeardWereOwed)'
    BY <1>1, <1>2, <1>3, <2>1 DEF Inv, AttemptLeft, BatchesDisjoint, HeardWereOwed
  <2>4. BatchesOwed'
    BY <1>1, <1>2, <1>3, <2>1 DEF Inv, BatchesOwed, RowsIn
  <2>5. Accounted'
    <3>1. SUFFICES ASSUME crashes = 0
                   PROVE  /\ repeated' = {}
                          /\ \A i \in heard' : state[i] = "PUBLISHED" \/ \E q \in Relays : i \in relay'[q].ok
      BY <1>2, Zenon DEF Accounted
    <3>2. /\ repeated = {}
          /\ \A i \in heard : state[i] = "PUBLISHED" \/ \E q \in Relays : i \in relay[q].ok
      BY <3>1 DEF Inv, Accounted
    <3>3. e \notin heard
      BY <1>1, <3>2
    <3>4. repeated' = {}
      BY <1>3, <3>2, <3>3
    <3>5. \A q \in Relays : relay[q].ok \subseteq relay'[q].ok
      BY <2>1
    <3>6. e \in relay'[r].ok
      BY <2>1
    <3> QED BY <1>3, <3>2, <3>4, <3>5, <3>6, Zenon
  <2> QED BY <2>2, <2>3, <2>4, <2>5 DEF Inv
<1>4. CASE /\ relay' = [relay EXCEPT ![r].failed = @ \cup {e}]
           /\ UNCHANGED <<heard, repeated>>
  <2>1. \A q \in Relays : /\ relay'[q].claimed = relay[q].claimed
                          /\ relay'[q].ok = relay[q].ok
                          /\ relay'[q].failed = IF q = r THEN relay[q].failed \cup {e}
                                                         ELSE relay[q].failed
    BY <1>4 DEF Inv, TypeOK
  <2>2. TypeOK'
    BY <1>2, <1>4 DEF Inv, TypeOK
  <2>3. (AttemptLeft /\ BatchesDisjoint /\ HeardWereOwed /\ Accounted)'
    BY <1>2, <1>4, <2>1 DEF Inv, AttemptLeft, BatchesDisjoint, HeardWereOwed, Accounted
  <2>4. BatchesOwed'
    BY <1>1, <1>2, <1>4, <2>1 DEF Inv, BatchesOwed, RowsIn
  <2> QED BY <2>2, <2>3, <2>4 DEF Inv
<1> QED BY <1>3, <1>4 DEF Deliver

LEMMA CommitInv == ASSUME Inv, NEW r \in Relays, Commit(r) PROVE Inv'
<1> DEFINE batch == relay[r].claimed
<1>1. /\ state' = [e \in Events |-> IF e \in batch THEN Settled(r, e) ELSE state[e]]
      /\ attempts' = [e \in Events |-> IF e \in batch THEN attempts[e] + 1 ELSE attempts[e]]
      /\ relay' = [relay EXCEPT ![r] = IdleRelay]
      /\ UNCHANGED <<heard, repeated, crashes>>
  BY DEF Commit
<1>2. \A e \in batch : /\ e \in Events /\ state[e] = "PENDING" /\ attempts[e] < MaxAttempts
  BY DEF Inv, BatchesOwed, AttemptLeft, RowsIn
<1>3. \A e \in Events : Settled(r, e) \in {"PENDING", "PUBLISHED", "DEAD_LETTER"}
  BY DEF Settled
<1>4. \A q \in Relays : relay'[q] = IF q = r THEN IdleRelay ELSE relay[q]
  BY <1>1 DEF Inv, TypeOK
<1>5. TypeOK'
  BY <1>1, <1>2, <1>3, RelayAssumption DEF Inv, TypeOK, IdleRelay
<1>6. AttemptLeft'
  BY <1>1, <1>2, RelayAssumption DEF Inv, TypeOK, AttemptLeft, Settled
<1>7. BatchesDisjoint'
  BY <1>4 DEF Inv, BatchesDisjoint, IdleRelay
<1>8. BatchesOwed'
  BY <1>1, <1>4 DEF Inv, BatchesOwed, BatchesDisjoint, IdleRelay, RowsIn
<1>9. HeardWereOwed'
  BY <1>1, <1>3 DEF Inv, TypeOK, HeardWereOwed
<1>10. Accounted'
  <2> SUFFICES ASSUME crashes = 0, repeated = {}, NEW e \in heard
               PROVE  state'[e] = "PUBLISHED" \/ \E q \in Relays : e \in relay'[q].ok
    BY <1>1 DEF Inv, Accounted
  <2>1. state[e] = "PUBLISHED" \/ \E q \in Relays : e \in relay[q].ok
    BY DEF Inv, Accounted
  <2>2. e \in Events
    BY DEF Inv, TypeOK
  <2>3. CASE state[e] = "PUBLISHED"
    BY <1>1, <1>2, <2>1, <2>2, <2>3
  <2>4. CASE e \in relay[r].ok
    BY <1>1, <2>1, <2>2, <2>4 DEF Inv, BatchesOwed, Settled
  <2>5. CASE \E q \in Relays \ {r} : e \in relay[q].ok
    BY <1>4, <2>1, <2>5
  <2> QED BY <2>1, <2>3, <2>4, <2>5
<1> QED BY <1>5, <1>6, <1>7, <1>8, <1>9, <1>10 DEF Inv

LEMMA DiesInv == ASSUME Inv, NEW r \in Relays, Dies(r) PROVE Inv'
<1>1. \A q \in Relays : relay'[q] = IF q = r THEN IdleRelay ELSE relay[q]
  BY DEF Dies, Inv, TypeOK
<1>2. TypeOK' /\ crashes' # 0
  BY RelayAssumption DEF Dies, Inv, TypeOK, IdleRelay
<1>3. (AttemptLeft /\ HeardWereOwed /\ Accounted)'
  BY <1>2 DEF Dies, Inv, AttemptLeft, HeardWereOwed, Accounted
<1>4. BatchesOwed' /\ BatchesDisjoint'
  BY <1>1 DEF Dies, Inv, BatchesOwed, BatchesDisjoint, IdleRelay, RowsIn
<1> QED BY <1>2, <1>3, <1>4 DEF Inv

LEMMA StutterInv == ASSUME Inv, UNCHANGED vars PROVE Inv'
  BY DEF vars, Inv, TypeOK, AttemptLeft, BatchesOwed, BatchesDisjoint, HeardWereOwed,
         Accounted, RowsIn

LEMMA InvAlways == Spec => []Inv
<1>1. Init => Inv
  BY InitInv
<1>2. Inv /\ [Next]_vars => Inv'
  BY AppendInv, ClaimInv, DeliverInv, CommitInv, DiesInv, StutterInv DEF Next, RelayStep
<1> QED BY <1>1, <1>2, PTL DEF Spec

-----------------------------------------------------------------------------
(* Every row and every relay keeps its type; no row is attempted too often. *)
THEOREM TypeCorrect == Spec => []TypeOK
  BY InvAlways, PTL DEF Inv

(* However many relays drain one outbox, an event is published twice only if one
   of them died between the publish and the commit. *)
THEOREM RepeatsWereCrashes == Spec => []RepeatsNeedACrash
<1>1. Inv => RepeatsNeedACrash
  BY DEF Inv, TypeOK, Accounted, RepeatsNeedACrash
<1> QED BY <1>1, InvAlways, PTL

-----------------------------------------------------------------------------
(* The refinement: every step of a relay keeps the promise or leaves it alone. *)

LEMMA CommitSettles ==
  ASSUME Inv, NEW r \in Relays, Commit(r) PROVE Promise!Settle
<1> DEFINE batch == relay[r].claimed
<1>1. /\ state' = [e \in Events |-> IF e \in batch THEN Settled(r, e) ELSE state[e]]
      /\ UNCHANGED heard
  BY DEF Commit
<1>2. /\ batch \subseteq RowsIn("PENDING")
      /\ relay[r].ok \subseteq heard
  BY DEF Inv, BatchesOwed
<1>3. \A e \in Events : \/ Settled(r, e) = "PUBLISHED" /\ e \in relay[r].ok
                        \/ Settled(r, e) \in {"PENDING", "DEAD_LETTER"}
  BY DEF Settled
<1>4. RowsIn("PENDING")' \subseteq RowsIn("PENDING")
  BY <1>1, <1>2 DEF RowsIn
<1>5. RowsIn("DEAD_LETTER") \subseteq RowsIn("DEAD_LETTER")'
  BY <1>1, <1>2 DEF RowsIn
<1>6. RowsIn("DEAD_LETTER")' \ RowsIn("DEAD_LETTER") \subseteq RowsIn("PENDING") \ RowsIn("PENDING")'
  BY <1>1, <1>2 DEF RowsIn
<1>7. RowsIn("PENDING") \ (RowsIn("PENDING")' \cup RowsIn("DEAD_LETTER")') \subseteq heard
  BY <1>1, <1>2, <1>3 DEF RowsIn
<1> QED BY <1>1, <1>4, <1>5, <1>6, <1>7 DEF Promise!Settle

LEMMA StepKeepsPromise ==
  ASSUME Inv, [Next]_vars PROVE [Promise!Next]_(Promise!vars)
<1>1. ASSUME NEW e \in Events, Append(e) PROVE Promise!Owe
  BY <1>1 DEF Append, Promise!Owe, RowsIn, Inv, TypeOK, HeardWereOwed
<1>2. ASSUME NEW r \in Relays, NEW e \in Events, Deliver(r, e)
      PROVE  Promise!Hear \/ UNCHANGED Promise!vars
  <2>1. e \in RowsIn("PENDING") /\ UNCHANGED <<RowsIn("PENDING"), RowsIn("DEAD_LETTER")>>
    BY <1>2 DEF Deliver, Inv, BatchesOwed, RowsIn
  <2>2. heard' = heard \cup {e} \/ UNCHANGED heard
    BY <1>2 DEF Deliver
  <2> QED BY <2>1, <2>2 DEF Promise!Hear, Promise!vars
<1>3. ASSUME NEW r \in Relays, Claim(r) \/ Dies(r) PROVE UNCHANGED Promise!vars
  BY <1>3 DEF Claim, Dies, Promise!vars, RowsIn
<1>4. ASSUME UNCHANGED vars PROVE UNCHANGED Promise!vars
  BY <1>4 DEF vars, Promise!vars, RowsIn
<1> QED BY <1>1, <1>2, <1>3, <1>4, CommitSettles DEF Next, RelayStep, Promise!Next

(* The relays implement Announcement: an event stays owed until the fabric heard it
   or it was put aside. *)
THEOREM PromiseIsKept == Spec => OwedUntilHeard
<1>1. Init => Promise!Init
  BY DEF Init, Promise!Init, RowsIn
<1>2. Inv /\ [Next]_vars => [Promise!Next]_(Promise!vars)
  BY StepKeepsPromise
<1> QED BY <1>1, <1>2, InvAlways, PTL DEF Spec, OwedUntilHeard, Promise!Spec

-----------------------------------------------------------------------------
(* ThreadView: what is true between any two steps. *)

(* Of the reads in flight one at most will be believed. *)
OneNewest == \A r, q \in reads : r.newest /\ q.newest => r = q

(* What is in flight, shown or stored is a message that exists, and a message that
   was stored from here has a number. *)
Grounded ==
  /\ \A r \in reads : r.saw \in 0..lastSeq \cup {None}
  /\ shown \subseteq 1..lastSeq
  /\ due <= lastSeq
  /\ \A k \in Own : /\ own[k].seq <= lastSeq
                    /\ own[k].at \in {"answering", "confirmed"} => own[k].seq # 0

(* The answer that will be believed lacks nothing that others wrote and the screen
   shows. *)
NothingIsLacking ==
  \A r \in reads : r.newest /\ r.saw # None => shown \ OwnSeqs \subseteq 1..r.saw

(* A socket whose join was admitted is in the room for as long as it lives. *)
AdmittedMeansListening == join.at = "admitted" /\ socket = "open" => room

ThreadInv ==
  /\ ThreadTypeOK /\ OneNewest /\ Grounded /\ NothingIsLacking
  /\ AdmittedMeansListening /\ LiveMeansListening

OwnTypes ==
  [Own -> [at : {"unsent", "posting", "answering", "failed", "dropped", "confirmed"},
           seq : 0..MaxSeq]]

LEMMA ThreadInitInv == ASSUME ThreadInit PROVE ThreadInv
<1>1. /\ lastSeq \in 0..MaxSeq /\ turns \in 0..MaxTurns /\ due \in 0..MaxSeq
      /\ copies \in [Seqs -> 0..MaxCopies]
  BY ThreadAssumption DEF ThreadInit
<1>2. join \in [at : {"idle", "asked", "admitted", "later"}, attempt : 0..JoinAttempts]
  BY ThreadAssumption DEF ThreadInit, NoJoin
<1>3. reads \subseteq Reads
  BY DEF ThreadInit, Reads
<1>4. own \in OwnTypes
  BY ThreadAssumption DEF ThreadInit, OwnTypes
<1>5. ThreadTypeOK
  BY <1>1, <1>2, <1>3, <1>4 DEF ThreadInit, ThreadTypeOK, OwnTypes
<1>6. OneNewest /\ Grounded /\ NothingIsLacking
  BY DEF ThreadInit, OneNewest, Grounded, NothingIsLacking
<1>7. AdmittedMeansListening /\ LiveMeansListening
  BY DEF ThreadInit, AdmittedMeansListening, LiveMeansListening
<1> QED BY <1>5, <1>6, <1>7 DEF ThreadInv

(* A new ticket is the only one that counts, and has seen nothing yet. *)
LEMMA RefetchedReads ==
  ASSUME ThreadInv
  PROVE  /\ Refetched \subseteq Reads
         /\ \A r \in Refetched : r.newest => r = [newest |-> TRUE, saw |-> None]
         /\ \A r \in Refetched : r.saw = None \/ \E q \in reads : r.saw = q.saw
<1>1. \A r \in Overtaken : \E q \in reads : r = [q EXCEPT !.newest = FALSE]
  BY DEF Overtaken
<1>2. \A q \in reads : q = [newest |-> q.newest, saw |-> q.saw] /\ q \in Reads
  BY DEF ThreadInv, ThreadTypeOK, Reads
<1>3. \A r \in Overtaken : r \in Reads /\ ~r.newest /\ \E q \in reads : r.saw = q.saw
  BY <1>1, <1>2 DEF Reads
<1>4. [newest |-> TRUE, saw |-> None] \in Reads
  BY DEF Reads
<1> DEFINE ticket == [newest |-> TRUE, saw |-> None]
<1>5. ticket \in Reads /\ ticket.saw = None
  BY <1>4
<1>6. \A r \in Refetched : r \in Overtaken \/ r = ticket
  BY DEF Refetched
<1> HIDE DEF ticket
<1>7. /\ Refetched \subseteq Reads
      /\ \A r \in Refetched : r.newest => r = ticket
      /\ \A r \in Refetched : r.saw = None \/ \E q \in reads : r.saw = q.saw
  BY <1>3, <1>5, <1>6
<1> QED BY <1>7 DEF ticket

LEMMA ThreadUntouched ==
  ASSUME ThreadInv, reads' = Refetched, UNCHANGED <<lastSeq, shown, own>>, due' \in 0..lastSeq
  PROVE  reads' \subseteq Reads /\ OneNewest' /\ Grounded' /\ NothingIsLacking'
<1>1. \A r \in reads' : r.newest => r.saw = None
  BY RefetchedReads
<1>2. OneNewest'
  BY RefetchedReads DEF OneNewest
<1>3. NothingIsLacking'
  BY <1>1 DEF NothingIsLacking
<1>4. \A r \in reads' : r.saw \in 0..lastSeq \cup {None}
  BY RefetchedReads DEF ThreadInv, Grounded
<1>5. due' <= lastSeq
  BY DEF ThreadInv, ThreadTypeOK
<1>6. Grounded'
  BY <1>4, <1>5 DEF ThreadInv, Grounded
<1> QED BY <1>2, <1>3, <1>6, RefetchedReads

-----------------------------------------------------------------------------
(* Reading. *)

LEMMA ReadThreadInv == ASSUME ThreadInv, NEW r \in reads, ReadThread(r) PROVE ThreadInv'
<1> DEFINE answer == [r EXCEPT !.saw = lastSeq]
<1>1. /\ reads' = (reads \ {r}) \cup {answer} /\ r.saw = None
      /\ UNCHANGED <<lastSeq, copies, link, socket, room, join, status, shown, high, own, turns, due>>
  BY DEF ReadThread, serverVars, socketVars
<1>2. answer.newest = r.newest /\ answer.saw = lastSeq /\ answer \in Reads
  BY DEF ThreadInv, ThreadTypeOK, Reads
<1> HIDE DEF answer
<1>3. ThreadTypeOK'
  BY <1>1, <1>2 DEF ThreadInv, ThreadTypeOK, Seqs
<1>4. OneNewest'
  BY <1>1, <1>2 DEF ThreadInv, OneNewest
<1>5. lastSeq \in 0..lastSeq
  BY DEF ThreadInv, ThreadTypeOK
<1>6. Grounded'
  BY <1>1, <1>2, <1>5 DEF ThreadInv, Grounded
<1>7. \A q \in reads' : q.newest /\ q.saw # None => shown \ OwnSeqs \subseteq 1..q.saw
  BY <1>1, <1>2 DEF ThreadInv, Grounded, NothingIsLacking
<1>8. NothingIsLacking'
  BY <1>1, <1>7 DEF NothingIsLacking, OwnSeqs
<1>9. (AdmittedMeansListening /\ LiveMeansListening)'
  BY <1>1 DEF ThreadInv, AdmittedMeansListening, LiveMeansListening
<1> QED BY <1>3, <1>4, <1>6, <1>8, <1>9 DEF ThreadInv

LEMMA ReadLeavesInv ==
  ASSUME ThreadInv, NEW r \in reads, reads' = reads \ {r},
         UNCHANGED <<lastSeq, copies, link, socket, room, join, status, shown, high, own, turns, due>>
  PROVE  ThreadInv'
<1>1. ThreadTypeOK'
  BY DEF ThreadInv, ThreadTypeOK, Seqs
<1>2. (OneNewest /\ Grounded /\ NothingIsLacking)'
  BY DEF ThreadInv, OneNewest, Grounded, NothingIsLacking, OwnSeqs
<1>3. (AdmittedMeansListening /\ LiveMeansListening)'
  BY DEF ThreadInv, AdmittedMeansListening, LiveMeansListening
<1> QED BY <1>1, <1>2, <1>3 DEF ThreadInv

LEMMA ReadAnsweredInv == ASSUME ThreadInv, NEW r \in reads, ReadAnswered(r) PROVE ThreadInv'
<1>1. /\ reads' = reads \ {r} /\ r.saw # None
      /\ UNCHANGED <<lastSeq, copies, link, socket, room, join, status, own, turns, due>>
  BY DEF ReadAnswered, serverVars, socketVars
<1>2. CASE ~r.newest
  BY <1>1, <1>2, ReadLeavesInv DEF ReadAnswered, Superseded
<1>3. CASE r.newest
  <2>1. /\ shown' = 1..r.saw
        /\ high' = IF r.saw = 0 THEN high ELSE r.saw
    BY <1>3 DEF ReadAnswered, Superseded
  <2>2. r.saw \in 0..lastSeq /\ lastSeq \in 0..MaxSeq
    BY <1>1 DEF ThreadInv, ThreadTypeOK, Grounded
  <2>3. shown' \subseteq 1..lastSeq /\ shown' \subseteq Seqs /\ high' \in 0..MaxSeq \cup {None}
    BY <2>1, <2>2, ThreadAssumption DEF ThreadInv, ThreadTypeOK, Seqs
  <2>4. ThreadTypeOK'
    BY <1>1, <2>3 DEF ThreadInv, ThreadTypeOK, Seqs
  <2>5. \A q \in reads' : ~q.newest
    BY <1>1, <1>3 DEF ThreadInv, OneNewest
  <2>6. (OneNewest /\ Grounded /\ NothingIsLacking)'
    BY <1>1, <2>3, <2>5 DEF ThreadInv, OneNewest, Grounded, NothingIsLacking
  <2>7. (AdmittedMeansListening /\ LiveMeansListening)'
    BY <1>1 DEF ThreadInv, AdmittedMeansListening, LiveMeansListening
  <2> QED BY <2>4, <2>6, <2>7 DEF ThreadInv
<1> QED BY <1>2, <1>3 DEF ThreadInv, ThreadTypeOK, Reads

LEMMA NudgeInv == ASSUME ThreadInv, Nudge PROVE ThreadInv'
<1>1. /\ reads' = Refetched /\ turns < MaxTurns /\ turns' = turns + 1
      /\ UNCHANGED <<lastSeq, copies, link, socket, room, join, status, shown, high, own, due>>
  BY DEF Nudge, Turn, serverVars, socketVars
<1>2. due' \in 0..lastSeq
  BY <1>1 DEF ThreadInv, ThreadTypeOK, Grounded
<1>3. reads' \subseteq Reads /\ OneNewest' /\ Grounded' /\ NothingIsLacking'
  BY <1>1, <1>2, ThreadUntouched
<1>4. turns' \in 0..MaxTurns
  BY <1>1, ThreadAssumption DEF ThreadInv, ThreadTypeOK
<1>5. ThreadTypeOK'
  BY <1>1, <1>3, <1>4 DEF ThreadInv, ThreadTypeOK, Seqs
<1>6. (AdmittedMeansListening /\ LiveMeansListening)'
  BY <1>1 DEF ThreadInv, AdmittedMeansListening, LiveMeansListening
<1> QED BY <1>3, <1>5, <1>6 DEF ThreadInv

LEMMA SomeoneWritesInv == ASSUME ThreadInv, SomeoneWrites PROVE ThreadInv'
<1>1. /\ lastSeq < MaxSeq /\ lastSeq' = lastSeq + 1
      /\ UNCHANGED <<copies, link, socket, room, join, status, reads, shown, high, own, turns, due>>
  BY DEF SomeoneWrites, socketVars, screenVars
<1>2. lastSeq \in 0..MaxSeq /\ lastSeq' \in 0..MaxSeq /\ 0..lastSeq \subseteq 0..lastSeq'
      /\ 1..lastSeq \subseteq 1..lastSeq'
  BY <1>1, ThreadAssumption DEF ThreadInv, ThreadTypeOK
<1>3. ThreadTypeOK'
  BY <1>1, <1>2 DEF ThreadInv, ThreadTypeOK, Seqs
<1>4. due \in Nat /\ \A k \in Own : own[k].seq \in Nat
  BY DEF ThreadInv, ThreadTypeOK
<1>5. Grounded'
  BY <1>1, <1>2, <1>4 DEF ThreadInv, Grounded
<1>6. (OneNewest /\ NothingIsLacking)'
  BY <1>1 DEF ThreadInv, OneNewest, NothingIsLacking, OwnSeqs
<1>7. (AdmittedMeansListening /\ LiveMeansListening)'
  BY <1>1 DEF ThreadInv, AdmittedMeansListening, LiveMeansListening
<1> QED BY <1>3, <1>5, <1>6, <1>7 DEF ThreadInv

LEMMA FrameInv == ASSUME ThreadInv, NEW n \in Seqs, Frame(n) PROVE ThreadInv'
<1>1. /\ n <= lastSeq /\ copies[n] < MaxCopies
      /\ copies' = [copies EXCEPT ![n] = @ + 1]
      /\ due' = IF Announces(n) THEN n ELSE due
      /\ reads' = IF Verdict(n) = "DISCARD" THEN reads ELSE Refetched
      /\ high' = IF Verdict(n) = "APPLY" THEN n ELSE high
      /\ UNCHANGED <<lastSeq, link, socket, room, join, status, shown, own, turns>>
  BY DEF Frame, socketVars
<1>2. n \in 0..lastSeq /\ n \in 0..MaxSeq /\ due \in 0..lastSeq
  BY <1>1, ThreadAssumption DEF Seqs, ThreadInv, ThreadTypeOK, Grounded
<1>3. due' \in 0..lastSeq /\ due' \in 0..MaxSeq /\ high' \in 0..MaxSeq \cup {None}
  BY <1>1, <1>2 DEF ThreadInv, ThreadTypeOK
<1>4. copies' \in [Seqs -> 0..MaxCopies]
  BY <1>1, ThreadAssumption DEF ThreadInv, ThreadTypeOK
<1>5. reads' \subseteq Reads /\ OneNewest' /\ Grounded' /\ NothingIsLacking'
  <2>1. CASE reads' = Refetched
    BY <1>1, <1>3, <2>1, ThreadUntouched
  <2>2. CASE reads' = reads
    <3>1. due' <= lastSeq
      BY <1>3, ThreadAssumption DEF ThreadInv, ThreadTypeOK
    <3> QED BY <1>1, <2>2, <3>1
            DEF ThreadInv, ThreadTypeOK, OneNewest, Grounded, NothingIsLacking, OwnSeqs
  <2> QED BY <1>1, <2>1, <2>2
<1>6. ThreadTypeOK'
  BY <1>1, <1>3, <1>4, <1>5 DEF ThreadInv, ThreadTypeOK
<1>7. (AdmittedMeansListening /\ LiveMeansListening)'
  BY <1>1 DEF ThreadInv, AdmittedMeansListening, LiveMeansListening
<1> QED BY <1>5, <1>6, <1>7 DEF ThreadInv

-----------------------------------------------------------------------------
(* The socket and its room. *)

(* A connection, and a network that came back: both read at once. *)
LEMMA CatchUpInv ==
  ASSUME ThreadInv, reads' = Refetched, due' = lastSeq,
         link' \in {"up", "down"}, socket' \in {"open", "dead", "closed"},
         join' \in [at : {"idle", "asked", "admitted", "later"}, attempt : 0..JoinAttempts],
         status' \in {"CONNECTING", "LIVE", "RECONNECTING"},
         UNCHANGED <<lastSeq, copies, room, shown, high, own, turns>>,
         (AdmittedMeansListening /\ LiveMeansListening)'
  PROVE  ThreadInv'
<1>1. due' \in 0..lastSeq /\ due' \in 0..MaxSeq
  BY ThreadAssumption DEF ThreadInv, ThreadTypeOK
<1>2. reads' \subseteq Reads /\ OneNewest' /\ Grounded' /\ NothingIsLacking'
  BY <1>1, ThreadUntouched
<1>3. ThreadTypeOK'
  BY <1>1, <1>2 DEF ThreadInv, ThreadTypeOK, Seqs
<1> QED BY <1>2, <1>3 DEF ThreadInv

LEMMA ConnectInv == ASSUME ThreadInv, Connect PROVE ThreadInv'
<1>1. /\ socket' = "open" /\ join' = [at |-> "asked", attempt |-> 0]
      /\ status' = "RECONNECTING" /\ reads' = Refetched /\ due' = lastSeq
      /\ link = "up" /\ UNCHANGED <<lastSeq, copies, link, room, shown, high, own, turns>>
  BY DEF Connect, StatusOnConnect, serverVars
<1>2. join' \in [at : {"idle", "asked", "admitted", "later"}, attempt : 0..JoinAttempts]
  BY <1>1, ThreadAssumption
<1>3. (AdmittedMeansListening /\ LiveMeansListening)'
  BY <1>1 DEF AdmittedMeansListening, LiveMeansListening
<1> QED BY <1>1, <1>2, <1>3, CatchUpInv

LEMMA LinkReturnsInv == ASSUME ThreadInv, LinkReturns PROVE ThreadInv'
<1>1. /\ link' = "up" /\ reads' = Refetched /\ due' = lastSeq
      /\ UNCHANGED <<lastSeq, copies, socket, room, join, status, shown, high, own, turns>>
  BY DEF LinkReturns, ReadOnReturn, serverVars, socketVars
<1>2. (AdmittedMeansListening /\ LiveMeansListening)'
  BY <1>1 DEF ThreadInv, AdmittedMeansListening, LiveMeansListening
<1> QED BY <1>1, <1>2, CatchUpInv DEF ThreadInv, ThreadTypeOK

(* Everything else that happens to a socket leaves the thread alone. *)
LEMMA SocketInv ==
  ASSUME ThreadInv, UNCHANGED <<lastSeq, copies, reads, shown, high, own, due>>,
         link' \in {"up", "down"}, socket' \in {"open", "dead", "closed"}, room' \in BOOLEAN,
         join' \in [at : {"idle", "asked", "admitted", "later"}, attempt : 0..JoinAttempts],
         status' \in {"CONNECTING", "LIVE", "RECONNECTING"}, turns' \in 0..MaxTurns,
         (AdmittedMeansListening /\ LiveMeansListening)'
  PROVE  ThreadInv'
<1>1. ThreadTypeOK'
  BY DEF ThreadInv, ThreadTypeOK, Seqs
<1>2. (OneNewest /\ Grounded /\ NothingIsLacking)'
  BY DEF ThreadInv, OneNewest, Grounded, NothingIsLacking, OwnSeqs
<1> QED BY <1>1, <1>2 DEF ThreadInv

LEMMA AdmitInv == ASSUME ThreadInv, Admit PROVE ThreadInv'
<1>1. /\ room' = TRUE /\ join' = [join EXCEPT !.at = "admitted"]
      /\ UNCHANGED <<lastSeq, copies, link, socket, status, reads, shown, high, own, turns, due>>
  BY DEF Admit, serverVars, screenVars
<1>2. join' \in [at : {"idle", "asked", "admitted", "later"}, attempt : 0..JoinAttempts]
  BY <1>1 DEF ThreadInv, ThreadTypeOK
<1>3. (AdmittedMeansListening /\ LiveMeansListening)'
  BY <1>1 DEF AdmittedMeansListening, LiveMeansListening
<1> QED BY <1>1, <1>2, <1>3, SocketInv DEF ThreadInv, ThreadTypeOK

LEMMA AcknowledgedInv == ASSUME ThreadInv, Acknowledged PROVE ThreadInv'
<1>1. /\ status' = "LIVE" /\ join.at = "admitted" /\ join' = NoJoin
      /\ UNCHANGED <<lastSeq, copies, link, socket, room, reads, shown, high, own, turns, due>>
  BY DEF Acknowledged, serverVars, screenVars
<1>2. join' \in [at : {"idle", "asked", "admitted", "later"}, attempt : 0..JoinAttempts]
      /\ join'.at = "idle"
  BY <1>1, ThreadAssumption DEF NoJoin
<1>3. (AdmittedMeansListening /\ LiveMeansListening)'
  BY <1>1, <1>2 DEF ThreadInv, AdmittedMeansListening, LiveMeansListening
<1> QED BY <1>1, <1>2, <1>3, SocketInv DEF ThreadInv, ThreadTypeOK

LEMMA JoinFailsInv == ASSUME ThreadInv, JoinFails PROVE ThreadInv'
<1>1. /\ status' = "RECONNECTING"
      /\ join' = IF join.attempt + 1 < JoinAttempts
                 THEN [at |-> "later", attempt |-> join.attempt + 1] ELSE NoJoin
      /\ UNCHANGED <<lastSeq, copies, link, socket, room, reads, shown, high, own, turns, due>>
  BY DEF JoinFails, serverVars, screenVars
<1>2. join.attempt \in Nat
  BY DEF ThreadInv, ThreadTypeOK
<1>3. join' \in [at : {"idle", "asked", "admitted", "later"}, attempt : 0..JoinAttempts]
      /\ join'.at # "admitted"
  BY <1>1, <1>2, ThreadAssumption DEF NoJoin
<1>4. (AdmittedMeansListening /\ LiveMeansListening)'
  BY <1>1, <1>3 DEF AdmittedMeansListening, LiveMeansListening
<1> QED BY <1>1, <1>3, <1>4, SocketInv DEF ThreadInv, ThreadTypeOK

LEMMA JoinAgainInv == ASSUME ThreadInv, JoinAgain PROVE ThreadInv'
<1>1. /\ join' = [join EXCEPT !.at = "asked"]
      /\ UNCHANGED <<lastSeq, copies, link, socket, room, status, reads, shown, high, own, turns, due>>
  BY DEF JoinAgain, serverVars, screenVars
<1>2. join' \in [at : {"idle", "asked", "admitted", "later"}, attempt : 0..JoinAttempts]
      /\ join'.at = "asked"
  BY <1>1 DEF ThreadInv, ThreadTypeOK
<1>3. (AdmittedMeansListening /\ LiveMeansListening)'
  BY <1>1, <1>2 DEF ThreadInv, AdmittedMeansListening, LiveMeansListening
<1> QED BY <1>1, <1>2, <1>3, SocketInv DEF ThreadInv, ThreadTypeOK

(* A socket that dies, is seen to be dead, or loses the network below it. *)
LEMMA LossInv == ASSUME ThreadInv, SocketDies \/ Disconnected \/ LinkDrops PROVE ThreadInv'
<1>1. CASE SocketDies
  <2>1. /\ socket' = "dead" /\ room' = FALSE /\ turns < MaxTurns /\ turns' = turns + 1
        /\ UNCHANGED <<lastSeq, copies, link, join, status, reads, shown, high, own, due>>
    BY <1>1 DEF SocketDies, Turn, serverVars, screenVars
  <2>2. turns' \in 0..MaxTurns
    BY <2>1, ThreadAssumption DEF ThreadInv, ThreadTypeOK
  <2>3. (AdmittedMeansListening /\ LiveMeansListening)'
    BY <2>1 DEF AdmittedMeansListening, LiveMeansListening
  <2> QED BY <2>1, <2>2, <2>3, SocketInv DEF ThreadInv, ThreadTypeOK
<1>2. CASE Disconnected
  <2>1. /\ socket' = "closed" /\ status' = "RECONNECTING" /\ join' = NoJoin
        /\ UNCHANGED <<lastSeq, copies, link, room, reads, shown, high, own, turns, due>>
    BY <1>2 DEF Disconnected, serverVars, screenVars
  <2>2. join' \in [at : {"idle", "asked", "admitted", "later"}, attempt : 0..JoinAttempts]
    BY <2>1, ThreadAssumption DEF NoJoin
  <2>3. (AdmittedMeansListening /\ LiveMeansListening)'
    BY <2>1 DEF AdmittedMeansListening, LiveMeansListening
  <2> QED BY <2>1, <2>2, <2>3, SocketInv DEF ThreadInv, ThreadTypeOK
<1>3. CASE LinkDrops
  <2>1. /\ link' = "down" /\ turns < MaxTurns /\ turns' = turns + 1
        /\ UNCHANGED <<lastSeq, copies, socket, room, join, status, reads, shown, high, own, due>>
    BY <1>3 DEF LinkDrops, Turn, serverVars, socketVars, screenVars
  <2>2. turns' \in 0..MaxTurns
    BY <2>1, ThreadAssumption DEF ThreadInv, ThreadTypeOK
  <2>3. (AdmittedMeansListening /\ LiveMeansListening)'
    BY <2>1 DEF ThreadInv, AdmittedMeansListening, LiveMeansListening
  <2> QED BY <2>1, <2>2, <2>3, SocketInv DEF ThreadInv, ThreadTypeOK
<1> QED BY <1>1, <1>2, <1>3

-----------------------------------------------------------------------------
(* Sending from here. *)

(* A message composed here keeps the number it has; one that gets a number was not
   on the screen under another. *)
LEMMA OwnStepInv ==
  ASSUME ThreadInv, own' \in OwnTypes, lastSeq' \in {lastSeq, lastSeq + 1}, lastSeq' <= MaxSeq,
         \A k \in Own : /\ own'[k].seq = own[k].seq \/ own[k].seq = 0
                        /\ own'[k].seq <= lastSeq'
                        /\ own'[k].at \in {"answering", "confirmed"} => own'[k].seq # 0,
         UNCHANGED <<copies, link, socket, room, join, status, reads, shown, high, turns, due>>
  PROVE  ThreadInv'
<1>1. lastSeq \in 0..MaxSeq /\ lastSeq' \in 0..MaxSeq /\ 0..lastSeq \subseteq 0..lastSeq'
      /\ 1..lastSeq \subseteq 1..lastSeq'
  BY ThreadAssumption DEF ThreadInv, ThreadTypeOK
<1>2. ThreadTypeOK'
  BY <1>1 DEF ThreadInv, ThreadTypeOK, Seqs, OwnTypes
<1>3. due \in Nat
  BY DEF ThreadInv, ThreadTypeOK
<1>4. Grounded'
  BY <1>1, <1>3 DEF ThreadInv, Grounded
<1>5. \A m \in OwnSeqs : m # 0 => m \in OwnSeqs'
  BY DEF OwnSeqs
<1>6. shown \ OwnSeqs' \subseteq shown \ OwnSeqs
  BY <1>5, ThreadAssumption DEF ThreadInv, ThreadTypeOK, Seqs
<1>7. (OneNewest /\ NothingIsLacking)'
  BY <1>6 DEF ThreadInv, OneNewest, NothingIsLacking
<1>8. (AdmittedMeansListening /\ LiveMeansListening)'
  BY DEF ThreadInv, AdmittedMeansListening, LiveMeansListening
<1> QED BY <1>2, <1>4, <1>7, <1>8 DEF ThreadInv

LEMMA SendOwnInv == ASSUME ThreadInv, NEW k \in Own, SendOwn(k) PROVE ThreadInv'
<1>1. /\ own' = [j \in Own |-> IF j = k THEN [own[j] EXCEPT !.at = "posting"]
                               ELSE IF own[j].at = "failed" THEN [own[j] EXCEPT !.at = "dropped"]
                               ELSE own[j]]
      /\ UNCHANGED <<lastSeq, copies, link, socket, room, join, status, reads, shown, high, turns, due>>
  BY DEF SendOwn, serverVars, socketVars, screenVars
<1>2. own' \in OwnTypes
  BY <1>1 DEF ThreadInv, ThreadTypeOK, OwnTypes
<1>3. \A j \in Own : /\ own'[j].seq = own[j].seq
                     /\ own'[j].at \in {"posting", "dropped"} \/ own'[j] = own[j]
  BY <1>1 DEF ThreadInv, ThreadTypeOK
<1>4. lastSeq <= MaxSeq
  BY ThreadAssumption DEF ThreadInv, ThreadTypeOK
<1> QED BY <1>1, <1>2, <1>3, <1>4, OwnStepInv DEF ThreadInv, Grounded

LEMMA PostCommitsInv == ASSUME ThreadInv, NEW k \in Own, PostCommits(k) PROVE ThreadInv'
<1>1. UNCHANGED <<copies, link, socket, room, join, status, reads, shown, high, turns, due>>
  BY DEF PostCommits, socketVars, screenVars
<1>2. lastSeq \in 0..MaxSeq /\ own \in OwnTypes /\ \A j \in Own : own[j].seq \in Nat
  BY DEF ThreadInv, ThreadTypeOK, OwnTypes
<1>3. CASE own[k].seq # 0
  <2>1. own' = [own EXCEPT ![k].at = "answering"] /\ lastSeq' = lastSeq
    BY <1>3 DEF PostCommits
  <2>2. own' \in OwnTypes
    BY <1>2, <2>1 DEF OwnTypes
  <2>3. \A j \in Own : own'[j].seq = own[j].seq /\ (j # k => own'[j] = own[j])
    BY <1>2, <2>1 DEF OwnTypes
  <2>4. lastSeq <= MaxSeq
    BY <1>2, ThreadAssumption
  <2> QED BY <1>1, <1>3, <2>1, <2>2, <2>3, <2>4, OwnStepInv DEF ThreadInv, Grounded
<1>4. CASE own[k].seq = 0
  <2>1. /\ own' = [own EXCEPT ![k] = [at |-> "answering", seq |-> lastSeq + 1]]
        /\ lastSeq < MaxSeq /\ lastSeq' = lastSeq + 1
    BY <1>4 DEF PostCommits
  <2>2. lastSeq' \in 0..MaxSeq /\ lastSeq' # 0
    BY <1>2, <2>1, ThreadAssumption
  <2>3. own' \in OwnTypes
    BY <1>2, <2>1, <2>2 DEF OwnTypes
  <2>4. \A j \in Own : own'[j] = IF j = k THEN [at |-> "answering", seq |-> lastSeq']
                                          ELSE own[j]
    BY <1>2, <2>1 DEF OwnTypes
  <2>5. \A j \in Own : own'[j].seq <= lastSeq'
    BY <1>2, <2>1, <2>4 DEF ThreadInv, Grounded
  <2>6. \A j \in Own : own'[j].seq = own[j].seq \/ own[j].seq = 0
    BY <1>4, <2>4
  <2>7. \A j \in Own : own'[j].at \in {"answering", "confirmed"} => own'[j].seq # 0
    BY <2>2, <2>4 DEF ThreadInv, Grounded
  <2>8. lastSeq' \in {lastSeq, lastSeq + 1} /\ lastSeq' <= MaxSeq
    BY <1>2, <2>1, ThreadAssumption
  <2> QED BY <1>1, <2>3, <2>5, <2>6, <2>7, <2>8, OwnStepInv
<1> QED BY <1>3, <1>4

LEMMA PostFailsInv == ASSUME ThreadInv, NEW k \in Own, PostFails(k) PROVE ThreadInv'
<1>1. /\ own' = [own EXCEPT ![k].at = "failed"]
      /\ UNCHANGED <<lastSeq, copies, link, socket, room, join, status, reads, shown, high, turns, due>>
  BY DEF PostFails, serverVars, socketVars, screenVars
<1>2. own' \in OwnTypes
  BY <1>1 DEF ThreadInv, ThreadTypeOK, OwnTypes
<1>3. \A j \in Own : /\ own'[j].seq = own[j].seq
                     /\ own'[j].at = "failed" \/ own'[j] = own[j]
  BY <1>1 DEF ThreadInv, ThreadTypeOK
<1>4. lastSeq <= MaxSeq
  BY ThreadAssumption DEF ThreadInv, ThreadTypeOK
<1> QED BY <1>1, <1>2, <1>3, <1>4, OwnStepInv DEF ThreadInv, Grounded

(* What joins the screen this way was sent from here. *)
LEMMA PostAnsweredInv == ASSUME ThreadInv, NEW k \in Own, PostAnswered(k) PROVE ThreadInv'
<1>1. /\ own[k].at = "answering" /\ own' = [own EXCEPT ![k].at = "confirmed"]
      /\ shown' = shown \cup {own[k].seq} /\ high' = own[k].seq
      /\ UNCHANGED <<lastSeq, copies, link, socket, room, join, status, reads, turns, due>>
  BY DEF PostAnswered, serverVars, socketVars
<1>2. \A j \in Own : /\ own'[j].seq = own[j].seq
                     /\ j # k => own'[j] = own[j]
  BY <1>1 DEF ThreadInv, ThreadTypeOK
<1>3. own' \in OwnTypes
  BY <1>1 DEF ThreadInv, ThreadTypeOK, OwnTypes
<1>4. own[k].seq \in 1..lastSeq /\ own[k].seq \in Seqs /\ own[k].seq \in 0..MaxSeq
  BY <1>1, ThreadAssumption DEF ThreadInv, ThreadTypeOK, Grounded, Seqs
<1>5. ThreadTypeOK'
  BY <1>1, <1>3, <1>4 DEF ThreadInv, ThreadTypeOK, OwnTypes, Seqs
<1>6. Grounded'
  BY <1>1, <1>2, <1>4 DEF ThreadInv, Grounded
<1>7. OwnSeqs' = OwnSeqs /\ own[k].seq \in OwnSeqs
  BY <1>2 DEF OwnSeqs
<1>8. shown' \ OwnSeqs' \subseteq shown \ OwnSeqs
  BY <1>1, <1>7
<1>9. (OneNewest /\ NothingIsLacking)'
  BY <1>1, <1>8 DEF ThreadInv, OneNewest, NothingIsLacking
<1>10. (AdmittedMeansListening /\ LiveMeansListening)'
  BY <1>1 DEF ThreadInv, AdmittedMeansListening, LiveMeansListening
<1> QED BY <1>5, <1>6, <1>9, <1>10 DEF ThreadInv

LEMMA ThreadInvAlways == ThreadSpec => []ThreadInv
<1>1. ThreadInit => ThreadInv
  BY ThreadInitInv
<1>2. ASSUME ThreadInv, NEW r \in reads, ReadFails(r) PROVE ThreadInv'
  BY <1>2, ReadLeavesInv DEF ReadFails, serverVars, socketVars
<1>3. ASSUME ThreadInv, UNCHANGED threadVars PROVE ThreadInv'
  <2>1. UNCHANGED <<lastSeq, copies, link, socket, room, join, status, reads, shown, high, own, turns, due>>
    BY <1>3 DEF threadVars, serverVars, socketVars, screenVars
  <2>2. (AdmittedMeansListening /\ LiveMeansListening)'
    BY <1>3, <2>1 DEF ThreadInv, AdmittedMeansListening, LiveMeansListening
  <2> QED BY <1>3, <2>1, <2>2, SocketInv DEF ThreadInv, ThreadTypeOK
<1>4. ThreadInv /\ [ThreadNext]_threadVars => ThreadInv'
  BY <1>2, <1>3, ReadThreadInv, ReadAnsweredInv, NudgeInv, SomeoneWritesInv, FrameInv,
     ConnectInv, AdmitInv, AcknowledgedInv, JoinFailsInv, JoinAgainInv, LossInv, LinkReturnsInv,
     SendOwnInv, PostCommitsInv, PostFailsInv, PostAnsweredInv
  DEF ThreadNext, ReadStep
<1> QED BY <1>1, <1>4, PTL DEF ThreadSpec

(* The page's state keeps its type: no join is tried too often, and nothing that is
   shown is a message which does not exist. *)
THEOREM ThreadTypeCorrect == ThreadSpec => []ThreadTypeOK
  BY ThreadInvAlways, PTL DEF ThreadInv

(* The header says "live" only of a socket that the room knows, whatever order joins,
   refusals, timeouts and disconnections come in (joinRoom in use-realtime.ts). *)
THEOREM LiveIsSaidOfListeners == ThreadSpec => []LiveMeansListening
  BY ThreadInvAlways, PTL DEF ThreadInv

(* No answer that was overtaken takes back a message of somebody else: the tickets of
   refetch (page.tsx) leave one answer to be believed, and it lacks nothing shown. *)
THEOREM NoAnswerReverts == ThreadSpec => TheThreadNeverReverts
<1>1. ThreadInv /\ [ThreadNext]_threadVars => [shown \ shown' \subseteq OwnSeqs]_threadVars
  <2> SUFFICES ASSUME ThreadInv, ThreadNext PROVE shown \ shown' \subseteq OwnSeqs
    OBVIOUS
  <2>1. ASSUME NEW r \in reads, ReadAnswered(r) PROVE shown \ shown' \subseteq OwnSeqs
    BY <2>1 DEF ReadAnswered, Superseded, ThreadInv, NothingIsLacking
  <2>2. ASSUME NEW r \in reads, ReadThread(r) \/ ReadFails(r) PROVE shown' = shown
    BY <2>2 DEF ReadThread, ReadFails
  <2>3. ASSUME Nudge \/ SomeoneWrites PROVE shown' = shown
    BY <2>3 DEF Nudge, SomeoneWrites, screenVars
  <2>4. ASSUME NEW n \in Seqs, Frame(n) PROVE shown' = shown
    BY <2>4 DEF Frame
  <2>5. ASSUME Connect \/ Admit \/ Acknowledged \/ JoinFails \/ JoinAgain PROVE shown' = shown
    BY <2>5 DEF Connect, Admit, Acknowledged, JoinFails, JoinAgain, screenVars
  <2>6. ASSUME SocketDies \/ Disconnected \/ LinkDrops \/ LinkReturns PROVE shown' = shown
    BY <2>6 DEF SocketDies, Disconnected, LinkDrops, LinkReturns, screenVars
  <2>7. ASSUME NEW k \in Own, SendOwn(k) \/ PostCommits(k) \/ PostFails(k) PROVE shown' = shown
    BY <2>7 DEF SendOwn, PostCommits, PostFails, screenVars
  <2>8. ASSUME NEW k \in Own, PostAnswered(k) PROVE shown \subseteq shown'
    BY <2>8 DEF PostAnswered
  <2> QED BY <2>1, <2>2, <2>3, <2>4, <2>5, <2>6, <2>7, <2>8 DEF ThreadNext, ReadStep
<1> QED BY <1>1, ThreadInvAlways, PTL DEF ThreadSpec, TheThreadNeverReverts
=============================================================================
