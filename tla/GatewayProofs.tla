---------------------------- MODULE GatewayProofs ----------------------------
(***************************************************************************)
(* Theorems about Gateway, for any number of principals, sockets, channels *)
(* and revocations.  What a fan-out looks at (the watchers of a channel)   *)
(* and what a connection is recorded in are two structures that different  *)
(* handlers change; the invariant says how far they are one relation.      *)
(***************************************************************************)
EXTENDS Gateway, FiniteSetTheorems, TLAPS

-----------------------------------------------------------------------------
(* What is true between any two steps. *)

(* A socket that has not been admitted yet is in nobody's books. *)
Fresh(s) == transport[s] = "unborn" \/ s \in handshake
FreshAreUnknown ==
  /\ \A s \in Sockets : Fresh(s) =>
       s \notin registered /\ task[s] = IdleTask /\ \A c \in Channels : s \notin watchers[c]
  /\ \A s \in handshake : transport[s] # "unborn"

(* A slot is held by an open socket that presented somebody's session. *)
SlotsNamed ==
  /\ \A s \in registered \cup handshake : presents[s] \in Principals
  /\ registered \subseteq OpenSockets

TasksNameChannels == \A s \in Sockets : task[s] = IdleTask \/ task[s].on \in Channels

(* Watching and being on record are the same for a socket that holds a slot,
   but for channels the backplane refused. *)
RecordsAgree ==
  \A c \in Channels, s \in Sockets :
    /\ s \in watchers[c] => c \in subscribed
    /\ c \in joined[s] => s \in registered /\ (s \in watchers[c] \/ c \in refused)
    /\ s \in watchers[c] \cap registered => c \in joined[s]

(* Sockets need not be finite, the slots of one principal are. *)
SlotsBounded ==
  \A p \in Principals : IsFiniteSet(SlotsOf(p)) /\ Cardinality(SlotsOf(p)) <= Ceiling

(* A pass dooms only sockets that had a slot when it looked. *)
DoomedWereAdmitted == \A s \in pass.doomed : ~Fresh(s)

Inv ==
  /\ TypeOK /\ FreshAreUnknown /\ SlotsNamed /\ TasksNameChannels /\ RecordsAgree
  /\ SlotsBounded

TaskTypes ==
  [Sockets -> [at : {"idle", "deciding", "allowed", "subscribing"}, on : Channels \cup {None}]]
PassTypes ==
  [running : BOOLEAN, visited : SUBSET Sockets, versions : [Principals -> 0..MaxVersion \cup {None}],
   access : [Principals -> (SUBSET Channels) \cup {None}],
   doomed : SUBSET Sockets, revoked : SUBSET (Sockets \X Channels)]

LEMMA InitInv == ASSUME Init PROVE Inv
<1>1. TypeOK
  <2>1. 0 \in 0..MaxVersion /\ 0 \in 0..MaxFailures
    BY GatewayAssumption
  <2>2. /\ version \in [Principals -> 0..MaxVersion]
        /\ session \in [Sockets -> 0..MaxVersion]
        /\ failures \in 0..MaxFailures
        /\ access \in [Principals -> SUBSET Channels]
    BY <2>1 DEF Init
  <2>3. pass \in PassTypes
    BY DEF Init, IdlePass, Unread, PassTypes
  <2>4. task \in TaskTypes
    BY DEF Init, IdleTask, TaskTypes
  <2> QED BY <2>2, <2>3, <2>4 DEF Init, TypeOK, TaskTypes, PassTypes
<1>2. FreshAreUnknown /\ SlotsNamed /\ TasksNameChannels /\ RecordsAgree
  BY DEF Init, FreshAreUnknown, Fresh, SlotsNamed, OpenSockets, TasksNameChannels, RecordsAgree
<1>3. SlotsBounded
  <2> SUFFICES ASSUME NEW p \in Principals
               PROVE IsFiniteSet(SlotsOf(p)) /\ Cardinality(SlotsOf(p)) <= Ceiling
    BY DEF SlotsBounded
  <2>1. SlotsOf(p) = {}
    BY DEF Init, SlotsOf
  <2> QED BY <2>1, FS_EmptySet, GatewayAssumption
<1> QED BY <1>1, <1>2, <1>3 DEF Inv

-----------------------------------------------------------------------------
(* Slots. *)

(* Nobody new takes a slot. *)
LEMMA SlotsShrink ==
  ASSUME Inv, registered' \subseteq registered,
         \A s \in registered' : presents'[s] = presents[s]
  PROVE  SlotsBounded'
<1> SUFFICES ASSUME NEW p \in Principals
             PROVE (IsFiniteSet(SlotsOf(p)) /\ Cardinality(SlotsOf(p)) <= Ceiling)'
  BY DEF SlotsBounded
<1>1. SlotsOf(p)' \subseteq SlotsOf(p)
  BY DEF SlotsOf
<1>2. IsFiniteSet(SlotsOf(p)) /\ Cardinality(SlotsOf(p)) <= Ceiling
  BY DEF Inv, SlotsBounded
<1>3. /\ IsFiniteSet(SlotsOf(p)') /\ Cardinality(SlotsOf(p)') <= Cardinality(SlotsOf(p))
  BY <1>1, <1>2, FS_Subset
<1>4. Cardinality(SlotsOf(p)) \in Nat /\ Cardinality(SlotsOf(p)') \in Nat
  BY <1>2, <1>3, FS_CardinalityType
<1> QED BY <1>2, <1>3, <1>4, GatewayAssumption

-----------------------------------------------------------------------------
(* Leaving and entering. *)

(* Whoever gives up a slot leaves every channel, and the two structures stay one. *)
LEMMA LeaveKeeps ==
  ASSUME Inv, NEW leaving \in [Channels -> SUBSET Sockets], Leave(leaving),
         registered' \subseteq registered,
         \A s \in registered \ registered' : \A c \in joined[s] : s \in leaving[c]
  PROVE  /\ RecordsAgree'
         /\ joined' \in [Sockets -> SUBSET Channels] /\ subscribed' \subseteq Channels
         /\ watchers' \in [Channels -> SUBSET Sockets]
         /\ \A s \in Sockets \ registered' : joined'[s] = {}
         /\ \A c \in Channels \ subscribed' : watchers'[c] = {}
         /\ \A c \in Channels : watchers'[c] \subseteq watchers[c]
<1>1. /\ \A s \in Sockets : joined'[s] = joined[s] \ {c \in Channels : s \in leaving[c]}
      /\ \A c \in Channels : watchers'[c] = watchers[c] \ leaving[c]
      /\ joined' \in [Sockets -> SUBSET Channels] /\ watchers' \in [Channels -> SUBSET Sockets]
      /\ subscribed' = {c \in subscribed : leaving[c] = {} \/ watchers'[c] # {}}
      /\ refused' = refused
  BY DEF Leave, WithoutThem, Inv, TypeOK
<1>2. \A c \in Channels, s \in Sockets :
        /\ c \in joined'[s] <=> (c \in joined[s] /\ s \notin leaving[c])
        /\ s \in watchers'[c] <=> (s \in watchers[c] /\ s \notin leaving[c])
  BY <1>1
<1>3. RecordsAgree'
  <2> SUFFICES ASSUME NEW c \in Channels, NEW s \in Sockets
               PROVE (/\ s \in watchers[c] => c \in subscribed
                      /\ c \in joined[s] => s \in registered /\ (s \in watchers[c] \/ c \in refused)
                      /\ s \in watchers[c] \cap registered => c \in joined[s])'
    BY DEF RecordsAgree
  <2>1. /\ s \in watchers[c] => c \in subscribed
        /\ c \in joined[s] => s \in registered /\ (s \in watchers[c] \/ c \in refused)
        /\ s \in watchers[c] \cap registered => c \in joined[s]
    BY DEF Inv, RecordsAgree
  <2> QED BY <1>1, <1>2, <2>1
<1>4. \A s \in Sockets \ registered' : joined'[s] = {}
  <2> SUFFICES ASSUME NEW s \in Sockets \ registered', NEW c \in joined'[s] PROVE FALSE
    OBVIOUS
  <2>1. c \in Channels /\ c \in joined[s] /\ s \notin leaving[c]
    BY <1>1, <1>2
  <2> QED BY <2>1 DEF Inv, RecordsAgree
<1>5. \A c \in Channels \ subscribed' : watchers'[c] = {}
  BY <1>1 DEF Inv, TypeOK
<1> QED BY <1>1, <1>3, <1>4, <1>5 DEF Inv, TypeOK

(* Sockets that asked for c enter, if there is a subscription or it was refused. *)
LEMMA EnterKeeps ==
  ASSUME Inv, NEW c \in Channels, NEW S \in SUBSET Sockets, Enter(S, c),
         subscribed \subseteq subscribed', subscribed' \subseteq subscribed \cup {c},
         refused \subseteq refused', c \in subscribed' \cup refused',
         UNCHANGED registered
  PROVE  /\ RecordsAgree'
         /\ joined' \in [Sockets -> SUBSET Channels] /\ subscribed' \subseteq Channels
         /\ watchers' \in [Channels -> SUBSET Sockets]
         /\ \A s \in Sockets \ registered' : joined'[s] = {}
         /\ \A d \in Channels \ subscribed' : watchers'[d] = {}
         /\ \A d \in Channels : watchers'[d] \subseteq watchers[d] \cup S
<1>1. /\ \A s \in Sockets : joined'[s] = IF s \in S \cap registered THEN joined[s] \cup {c}
                                                                   ELSE joined[s]
      /\ \A d \in Channels : watchers'[d] = IF d = c /\ c \in subscribed'
                                              THEN watchers[d] \cup S ELSE watchers[d]
      /\ joined' \in [Sockets -> SUBSET Channels] /\ watchers' \in [Channels -> SUBSET Sockets]
  BY DEF Enter, Inv, TypeOK
<1>2. RecordsAgree'
  <2> SUFFICES ASSUME NEW d \in Channels, NEW s \in Sockets
               PROVE (/\ s \in watchers[d] => d \in subscribed
                      /\ d \in joined[s] => s \in registered /\ (s \in watchers[d] \/ d \in refused)
                      /\ s \in watchers[d] \cap registered => d \in joined[s])'
    BY DEF RecordsAgree
  <2>1. /\ s \in watchers[d] => d \in subscribed
        /\ d \in joined[s] => s \in registered /\ (s \in watchers[d] \/ d \in refused)
        /\ s \in watchers[d] \cap registered => d \in joined[s]
    BY DEF Inv, RecordsAgree
  <2>2. d # c => /\ s \in watchers'[d] <=> s \in watchers[d]
                 /\ d \in joined'[s] <=> d \in joined[s]
    BY <1>1
  <2>3. /\ s \in watchers'[c] <=> s \in watchers[c] \/ (c \in subscribed' /\ s \in S)
        /\ c \in joined'[s] <=> c \in joined[s] \/ s \in S \cap registered
    BY <1>1
  <2>4. CASE d = c
    BY <2>1, <2>3, <2>4
  <2>5. CASE d # c
    BY <2>1, <2>2, <2>5
  <2> QED BY <2>4, <2>5
<1>3. \A s \in Sockets \ registered' : joined'[s] = {}
  BY <1>1 DEF Inv, TypeOK
<1>4. \A d \in Channels \ subscribed' : watchers'[d] = {}
  BY <1>1 DEF Inv, TypeOK
<1> QED BY <1>1, <1>2, <1>3, <1>4 DEF Inv, TypeOK

-----------------------------------------------------------------------------
(* One lemma per kind of step. *)

LEMMA FactsInv ==
  ASSUME Inv, NEW p \in Principals,
         RevokeSessions(p) \/ \E c \in Channels : AccessChanges(p, c)
  PROVE  Inv'
<1>1. /\ UNCHANGED <<transport, handshake, registered, identity, rooms, task, pass, failures,
                     draining>>
      /\ version' \in [Principals -> 0..MaxVersion] /\ access' \in [Principals -> SUBSET Channels]
  <2>1. CASE RevokeSessions(p)
    BY <2>1, GatewayAssumption DEF RevokeSessions, Inv, TypeOK
  <2>2. CASE \E c \in Channels : AccessChanges(p, c)
    BY <2>2 DEF AccessChanges, Inv, TypeOK
  <2> QED BY <2>1, <2>2
<1>2. TypeOK'
  BY <1>1 DEF Inv, TypeOK, identity, rooms
<1>3. (FreshAreUnknown /\ SlotsNamed /\ TasksNameChannels /\ RecordsAgree)'
  BY <1>1 DEF Inv, FreshAreUnknown, Fresh, SlotsNamed, OpenSockets, TasksNameChannels,
              RecordsAgree, identity, rooms
<1>4. SlotsBounded'
  BY <1>1, SlotsShrink DEF identity
<1> QED BY <1>2, <1>3, <1>4 DEF Inv

LEMMA ConnectInv ==
  ASSUME Inv, NEW s \in Sockets, NEW p \in Principals, Connect(s, p) PROVE Inv'
<1>1. TypeOK'
  BY DEF Connect, Inv, TypeOK, facts, rooms
<1>0. handshake \subseteq Sockets /\ registered \subseteq Sockets
  BY DEF Inv, TypeOK
<1>2. /\ UNCHANGED <<registered, rooms, task>>
      /\ \A r \in Sockets : /\ transport'[r] = IF r = s THEN "open" ELSE transport[r]
                            /\ presents'[r] = IF r = s THEN p ELSE presents[r]
      /\ handshake' = handshake \cup {s} /\ transport[s] = "unborn"
  <2>1. /\ transport \in [Sockets -> {"unborn", "open", "closed"}]
        /\ presents \in [Sockets -> Principals \cup {None}]
    BY DEF Inv, TypeOK
  <2> QED BY <2>1 DEF Connect
<1>3. FreshAreUnknown'
  BY <1>0, <1>2 DEF Inv, FreshAreUnknown, Fresh, rooms
<1>4. SlotsNamed'
  <2>1. \A r \in registered \cup handshake : presents[r] \in Principals
    BY DEF Inv, SlotsNamed
  <2>2. \A r \in registered : transport[r] = "open"
    BY DEF Inv, SlotsNamed, OpenSockets
  <2> QED BY <1>0, <1>2, <2>1, <2>2 DEF SlotsNamed, OpenSockets
<1>5. TasksNameChannels' /\ RecordsAgree'
  BY <1>2 DEF Inv, TasksNameChannels, RecordsAgree, rooms
<1>6. s \notin registered
  BY <1>2 DEF Inv, FreshAreUnknown, Fresh
<1>7. SlotsBounded'
  <2>1. \A r \in registered' : presents'[r] = presents[r]
    BY <1>0, <1>2, <1>6
  <2> QED BY <1>2, <2>1, SlotsShrink
<1> QED BY <1>1, <1>3, <1>4, <1>5, <1>7 DEF Inv

LEMMA AdmitInv == ASSUME Inv, NEW s \in Sockets, Admit(s) PROVE Inv'
<1>1. /\ s \in handshake /\ handshake' = handshake \ {s} /\ s \notin registered
      /\ UNCHANGED <<facts, rooms, task, pass, failures, draining>>
      /\ transport[s] # "unborn" /\ presents[s] \in Principals
  BY DEF Admit, Inv, FreshAreUnknown, Fresh, SlotsNamed
<1>2. CASE HasRoom(s) /\ StillOpen(s)
  <2>1. registered' = registered \cup {s} /\ UNCHANGED <<transport, identity>>
    BY <1>2 DEF Admit
  <2>2. joined[s] = {}
    BY <1>1 DEF Inv, TypeOK
  <2>3. TypeOK'
    BY <1>1, <2>1 DEF Inv, TypeOK, facts, rooms, identity
  <2>4. FreshAreUnknown' /\ SlotsNamed' /\ TasksNameChannels'
    BY <1>1, <1>2, <2>1 DEF Inv, FreshAreUnknown, Fresh, SlotsNamed, OpenSockets, StillOpen,
                            TasksNameChannels, rooms, identity
  <2>5. \A c \in Channels : s \notin watchers[c]
    BY <1>1 DEF Inv, FreshAreUnknown, Fresh
  <2>6. RecordsAgree'
    BY <1>1, <2>1, <2>2, <2>5 DEF Inv, RecordsAgree, rooms
  <2>7. SlotsBounded'
    <3> SUFFICES ASSUME NEW p \in Principals
                 PROVE (IsFiniteSet(SlotsOf(p)) /\ Cardinality(SlotsOf(p)) <= Ceiling)'
      BY DEF SlotsBounded
    <3>1. /\ IsFiniteSet(SlotsOf(p)) /\ Cardinality(SlotsOf(p)) <= Ceiling
          /\ Cardinality(SlotsOf(p)) \in Nat
      BY FS_CardinalityType DEF Inv, SlotsBounded
    <3>2. CASE p = presents[s]
      <4>1. SlotsOf(p)' = SlotsOf(p) \cup {s} /\ s \notin SlotsOf(p)
        BY <1>1, <2>1, <3>2 DEF SlotsOf, identity
      <4>2. Cardinality(SlotsOf(p)) < Ceiling
        BY <1>2, <3>2 DEF HasRoom
      <4>3. /\ IsFiniteSet(SlotsOf(p) \cup {s})
            /\ Cardinality(SlotsOf(p) \cup {s}) = Cardinality(SlotsOf(p)) + 1
        BY <3>1, <4>1, FS_AddElement
      <4> HIDE DEF SlotsOf
      <4>4. Cardinality(SlotsOf(p)) + 1 <= Ceiling
        BY <3>1, <4>2, GatewayAssumption
      <4> QED BY <4>1, <4>3, <4>4
    <3>3. CASE p # presents[s]
      <4>1. SlotsOf(p)' = SlotsOf(p)
        BY <1>1, <2>1, <3>3 DEF SlotsOf, identity
      <4> QED BY <3>1, <4>1
    <3> QED BY <3>2, <3>3
  <2> QED BY <2>3, <2>4, <2>6, <2>7 DEF Inv
<1>3. CASE ~(HasRoom(s) /\ StillOpen(s))
  <2>1. /\ transport' = [transport EXCEPT ![s] = "closed"]
        /\ Forget({s}) /\ registered' = registered
    BY <1>3 DEF Admit
  <2>2. /\ presents' \in [Sockets -> Principals \cup {None}]
        /\ session' \in [Sockets -> 0..MaxVersion]
        /\ \A r \in Sockets \ {s} : presents'[r] = presents[r]
    BY <2>1, GatewayAssumption DEF Forget, Inv, TypeOK
  <2>3. TypeOK'
    BY <1>1, <2>1, <2>2 DEF Inv, TypeOK, facts, rooms
  <2>4. \A r \in Sockets : transport'[r] = IF r = s THEN "closed" ELSE transport[r]
    BY <2>1 DEF Inv, TypeOK
  <2>5. FreshAreUnknown'
    BY <1>1, <2>1, <2>4 DEF Inv, TypeOK, FreshAreUnknown, Fresh, rooms
  <2>6. SlotsNamed'
    BY <1>1, <2>1, <2>2, <2>4 DEF Inv, TypeOK, SlotsNamed, OpenSockets
  <2>7. TasksNameChannels' /\ RecordsAgree'
    BY <1>1, <2>1 DEF Inv, TasksNameChannels, RecordsAgree, rooms
  <2>8. SlotsBounded'
    BY <1>1, <2>1, <2>2, SlotsShrink DEF Inv, TypeOK
  <2> QED BY <2>3, <2>5, <2>6, <2>7, <2>8 DEF Inv
<1> QED BY <1>2, <1>3

(* Sockets close: with their slots they give up every channel. *)
LEMMA ClosingKeeps ==
  ASSUME Inv, NEW S \in SUBSET OpenSockets,
         NEW leaving \in [Channels -> SUBSET Sockets], Leave(leaving),
         \A c \in Channels : \A s \in S : c \in joined[s] => s \in leaving[c],
         transport' = [s \in Sockets |-> IF s \in S THEN "closed" ELSE transport[s]],
         registered' = registered \ S, Forget(S \ handshake),
         UNCHANGED <<facts, handshake>>
  PROVE  /\ RecordsAgree' /\ SlotsNamed' /\ SlotsBounded'
         /\ (\A r \in Sockets : task'[r] \in {task[r], IdleTask}) =>
              FreshAreUnknown' /\ TasksNameChannels'
         /\ task' \in TaskTypes /\ pass' \in PassTypes /\ UNCHANGED <<failures, draining>>
              => TypeOK'
<1>1. /\ RecordsAgree'
      /\ joined' \in [Sockets -> SUBSET Channels] /\ subscribed' \subseteq Channels
      /\ watchers' \in [Channels -> SUBSET Sockets]
      /\ \A s \in Sockets \ registered' : joined'[s] = {}
      /\ \A c \in Channels \ subscribed' : watchers'[c] = {}
      /\ \A c \in Channels : watchers'[c] \subseteq watchers[c]
  <2>1. \A s \in registered \ registered' : \A c \in joined[s] : s \in leaving[c]
    BY DEF Inv, TypeOK
  <2> QED BY <2>1, LeaveKeeps
<1>2. /\ presents' \in [Sockets -> Principals \cup {None}]
      /\ session' \in [Sockets -> 0..MaxVersion]
      /\ \A r \in Sockets : r \notin S \ handshake => presents'[r] = presents[r]
  BY GatewayAssumption DEF Forget, Inv, TypeOK
<1>3. SlotsNamed'
  BY <1>2 DEF Inv, TypeOK, SlotsNamed, OpenSockets
<1>4. SlotsBounded'
  BY <1>2, SlotsShrink DEF Inv, TypeOK
<1>5. UNCHANGED <<pending, refused>>
  BY DEF Leave
<1>6. ASSUME \A r \in Sockets : task'[r] \in {task[r], IdleTask}
      PROVE  FreshAreUnknown' /\ TasksNameChannels'
  <2>1. \A r \in Sockets : Fresh(r)' => Fresh(r)
    BY DEF Fresh, OpenSockets
  <2>2. FreshAreUnknown'
    BY <1>1, <1>6, <2>1 DEF Inv, TypeOK, FreshAreUnknown, OpenSockets
  <2> QED BY <1>6, <2>2 DEF Inv, TasksNameChannels
<1>7. transport' \in [Sockets -> {"unborn", "open", "closed"}]
  BY DEF Inv, TypeOK
<1> QED BY <1>1, <1>2, <1>3, <1>4, <1>5, <1>6, <1>7 DEF Inv, TypeOK, TaskTypes, PassTypes, facts

LEMMA CloseInv == ASSUME Inv, NEW s \in Sockets, Close(s) PROVE Inv'
<1> DEFINE leaving == [c \in Channels |-> {r \in {s} : c \in joined[r]}]
<1>1. s \in OpenSockets /\ UNCHANGED <<facts, handshake, task, pass, failures, draining>>
      /\ CloseAll({s})
  BY DEF Close
<1>2. leaving \in [Channels -> SUBSET Sockets] /\ Leave(leaving)
  BY <1>1 DEF CloseAll
<1>3. \A c \in Channels : \A r \in {s} : c \in joined[r] => r \in leaving[c]
  OBVIOUS
<1>4. /\ task' \in TaskTypes /\ pass' \in PassTypes
      /\ \A r \in Sockets : task'[r] \in {task[r], IdleTask}
  BY <1>1 DEF Inv, TypeOK, TaskTypes, PassTypes
<1>5. /\ transport' = [r \in Sockets |-> IF r \in {s} THEN "closed" ELSE transport[r]]
      /\ registered' = registered \ {s} /\ Forget({s} \ handshake) /\ {s} \in SUBSET OpenSockets
  BY <1>1 DEF CloseAll
<1> HIDE DEF leaving
<1> QED BY <1>1, <1>2, <1>3, <1>4, <1>5, ClosingKeeps DEF Inv

LEMMA SubscribeInv ==
  ASSUME Inv, NEW s \in Sockets, NEW c \in Channels, Subscribe(s, c) PROVE Inv'
<1>1. TypeOK'
  BY DEF Subscribe, Inv, TypeOK, facts, identity, rooms
<1>2. /\ UNCHANGED <<transport, handshake, registered, identity, rooms>>
      /\ s \in registered /\ \A r \in Sockets : r # s => task'[r] = task[r]
      /\ task'[s].on = c
  BY DEF Subscribe, Inv, TypeOK
<1>3. FreshAreUnknown'
  BY <1>2 DEF Inv, FreshAreUnknown, Fresh, rooms
<1>4. (SlotsNamed /\ TasksNameChannels /\ RecordsAgree)'
  BY <1>2 DEF Inv, SlotsNamed, OpenSockets, TasksNameChannels, RecordsAgree, rooms, identity
<1>5. SlotsBounded'
  BY <1>2, SlotsShrink DEF identity
<1> QED BY <1>1, <1>3, <1>4, <1>5 DEF Inv

LEMMA AuthorizeInv == ASSUME Inv, NEW s \in Sockets, AuthorizeJoin(s) PROVE Inv'
<1>1. UNCHANGED <<facts, handshake, pass, failures, draining>> /\ task[s].at = "deciding"
  BY DEF AuthorizeJoin
<1>2. CASE /\ task' = [task EXCEPT ![s].at = "allowed"] \/ task' = [task EXCEPT ![s] = IdleTask]
           /\ UNCHANGED <<transport, registered, identity, rooms>>
  <2>1. task' \in TaskTypes
    BY <1>2 DEF Inv, TypeOK, TaskTypes, IdleTask
  <2>2. TypeOK'
    BY <1>1, <1>2, <2>1 DEF Inv, TypeOK, TaskTypes, facts, identity, rooms
  <2>3. \A r \in Sockets : /\ r # s => task'[r] = task[r]
                           /\ task'[s] = IdleTask \/ task'[s].on = task[s].on
    BY <1>2 DEF Inv, TypeOK
  <2>4. task[s] # IdleTask
    BY <1>1 DEF IdleTask
  <2>5. FreshAreUnknown' /\ TasksNameChannels'
    BY <1>1, <1>2, <2>3, <2>4 DEF Inv, FreshAreUnknown, Fresh, TasksNameChannels, rooms
  <2>6. (SlotsNamed /\ RecordsAgree)'
    BY <1>1, <1>2 DEF Inv, SlotsNamed, OpenSockets, RecordsAgree, rooms, identity
  <2>7. SlotsBounded'
    BY <1>2, SlotsShrink DEF identity
  <2> QED BY <2>2, <2>5, <2>6, <2>7 DEF Inv
<1>3. CASE task' = [task EXCEPT ![s] = IdleTask] /\ CloseAll({s} \cap OpenSockets)
  <2> DEFINE S == {s} \cap OpenSockets
             leaving == [c \in Channels |-> {r \in S : c \in joined[r]}]
  <2>1. leaving \in [Channels -> SUBSET Sockets] /\ Leave(leaving)
    BY <1>3 DEF CloseAll
  <2>2. \A c \in Channels : \A r \in S : c \in joined[r] => r \in leaving[c]
    OBVIOUS
  <2>3. task' \in TaskTypes /\ pass' \in PassTypes /\ \A r \in Sockets : task'[r] \in {task[r], IdleTask}
    BY <1>1, <1>3 DEF Inv, TypeOK, TaskTypes, PassTypes, IdleTask
  <2>4. /\ transport' = [r \in Sockets |-> IF r \in S THEN "closed" ELSE transport[r]]
        /\ registered' = registered \ S /\ Forget(S \ handshake) /\ S \in SUBSET OpenSockets
    BY <1>3 DEF CloseAll
  <2> HIDE DEF leaving, S
  <2> QED BY <1>1, <2>1, <2>2, <2>3, <2>4, ClosingKeeps DEF Inv
<1> QED BY <1>2, <1>3, Zenon DEF AuthorizeJoin, Decision

(* A request that has waited, or need not, goes on. *)
LEMMA EnteringInv ==
  ASSUME Inv, NEW c \in Channels, NEW S \in SUBSET Sockets, Enter(S, c),
         \A s \in S : task[s] # IdleTask,
         task' \in TaskTypes, \A s \in Sockets : task'[s] \in {task[s], IdleTask},
         subscribed \subseteq subscribed', subscribed' \subseteq subscribed \cup {c},
         refused' \in {refused, refused \cup {c}}, c \in subscribed' \cup refused',
         pending' \subseteq Channels,
         UNCHANGED <<facts, transport, handshake, registered, identity, pass, failures, draining>>
  PROVE  Inv'
<1>0. refused \subseteq refused'
  OBVIOUS
<1>1. /\ RecordsAgree'
      /\ joined' \in [Sockets -> SUBSET Channels] /\ subscribed' \subseteq Channels
      /\ watchers' \in [Channels -> SUBSET Sockets]
      /\ \A s \in Sockets \ registered' : joined'[s] = {}
      /\ \A d \in Channels \ subscribed' : watchers'[d] = {}
      /\ \A d \in Channels : watchers'[d] \subseteq watchers[d] \cup S
  BY <1>0, EnterKeeps
<1>2. TypeOK'
  BY <1>1 DEF Inv, TypeOK, TaskTypes, facts, identity
<1>3. FreshAreUnknown'
  BY <1>1 DEF Inv, FreshAreUnknown, Fresh
<1>4. (SlotsNamed /\ TasksNameChannels)'
  BY DEF Inv, SlotsNamed, OpenSockets, TasksNameChannels, identity
<1>5. SlotsBounded'
  BY SlotsShrink DEF identity
<1> QED BY <1>1, <1>2, <1>3, <1>4, <1>5 DEF Inv

LEMMA JoinInv == ASSUME Inv, NEW s \in Sockets, JoinChannel(s) PROVE Inv'
<1> DEFINE c == task[s].on
<1>1. task[s] # IdleTask /\ c \in Channels
      /\ UNCHANGED <<facts, transport, handshake, registered, identity, pass, refused, failures,
                     draining>>
  BY DEF JoinChannel, IdleTask, Inv, TasksNameChannels
<1>2. CASE HasSubscription(c)
  <2>1. /\ UNCHANGED <<subscribed, pending>> /\ Enter({s}, c)
        /\ task' = [task EXCEPT ![s] = IdleTask] /\ c \in subscribed
    BY <1>2 DEF JoinChannel, HasSubscription
  <2>2. task' \in TaskTypes /\ \A r \in Sockets : task'[r] \in {task[r], IdleTask}
    BY <2>1 DEF Inv, TypeOK, TaskTypes, IdleTask
  <2>3. pending' \subseteq Channels
    BY <2>1 DEF Inv, TypeOK
  <2>4. {s} \in SUBSET Sockets /\ \A r \in {s} : task[r] # IdleTask
    BY <1>1
  <2>5. /\ subscribed' = subscribed /\ refused' = refused
        /\ UNCHANGED <<facts, transport, handshake, registered, identity, pass, failures, draining>>
    BY <1>1, <2>1
  <2> HIDE DEF c
  <2> QED BY <1>1, <2>1, <2>2, <2>3, <2>4, <2>5, EnteringInv
<1>3. CASE ~HasSubscription(c)
  <2>1. /\ pending' = pending \cup {c} /\ task' = [task EXCEPT ![s].at = "subscribing"]
        /\ UNCHANGED <<subscribed, watchers, joined>>
    BY <1>3 DEF JoinChannel
  <2>2. TypeOK'
    BY <1>1, <2>1 DEF Inv, TypeOK, facts, identity
  <2>3. \A r \in Sockets : (r # s => task'[r] = task[r]) /\ task'[s].on = task[s].on
    BY <2>1 DEF Inv, TypeOK
  <2>4. FreshAreUnknown' /\ TasksNameChannels'
    BY <1>1, <2>1, <2>3 DEF Inv, FreshAreUnknown, Fresh, TasksNameChannels
  <2>5. (SlotsNamed /\ RecordsAgree)'
    BY <1>1, <2>1 DEF Inv, SlotsNamed, OpenSockets, RecordsAgree, identity
  <2>6. SlotsBounded'
    BY <1>1, SlotsShrink DEF identity
  <2> QED BY <2>2, <2>4, <2>5, <2>6 DEF Inv
<1> QED BY <1>2, <1>3

LEMMA BackplaneInv == ASSUME Inv, NEW c \in Channels, BackplaneAnswers(c) PROVE Inv'
<1> DEFINE waiting == {s \in Sockets : task[s] = [at |-> "subscribing", on |-> c]}
<1>1. /\ pending' = pending \ {c} /\ Enter(waiting, c)
      /\ task' = [s \in Sockets |-> IF s \in waiting THEN IdleTask ELSE task[s]]
      /\ UNCHANGED <<facts, transport, handshake, registered, identity, pass, failures, draining>>
  BY DEF BackplaneAnswers
<1>2. \/ subscribed' = subscribed \cup {c} /\ refused' = refused
      \/ subscribed' = subscribed /\ refused' = refused \cup {c}
  BY DEF BackplaneAnswers
<1>3. \A s \in waiting : task[s] # IdleTask
  BY DEF IdleTask
<1>4. task' \in TaskTypes /\ \A s \in Sockets : task'[s] \in {task[s], IdleTask}
  BY <1>1 DEF Inv, TypeOK, TaskTypes, IdleTask
<1>5. pending' \subseteq Channels
  BY <1>1 DEF Inv, TypeOK
<1> HIDE DEF waiting
<1>6. waiting \in SUBSET Sockets
  BY DEF waiting
<1> QED BY <1>1, <1>2, <1>3, <1>4, <1>5, <1>6, EnteringInv

LEMMA UnsubscribeInv ==
  ASSUME Inv, NEW s \in Sockets, NEW c \in Channels, Unsubscribe(s, c) PROVE Inv'
<1> DEFINE leaving == [d \in Channels |-> IF d = c THEN {s} ELSE {}]
<1>1. /\ Leave(leaving)
      /\ UNCHANGED <<facts, transport, handshake, registered, identity, task, pass, failures,
                     draining>>
  BY DEF Unsubscribe
<1>2. /\ RecordsAgree'
      /\ joined' \in [Sockets -> SUBSET Channels] /\ subscribed' \subseteq Channels
      /\ watchers' \in [Channels -> SUBSET Sockets]
      /\ \A r \in Sockets \ registered' : joined'[r] = {}
      /\ \A d \in Channels \ subscribed' : watchers'[d] = {}
      /\ \A d \in Channels : watchers'[d] \subseteq watchers[d]
  <2>1. leaving \in [Channels -> SUBSET Sockets]
    OBVIOUS
  <2>2. registered' \subseteq registered /\ registered \ registered' = {}
    BY <1>1
  <2> HIDE DEF leaving
  <2> QED BY <1>1, <2>1, <2>2, LeaveKeeps
<1>3. UNCHANGED <<pending, refused>>
  BY <1>1 DEF Leave
<1>4. TypeOK'
  BY <1>1, <1>2, <1>3 DEF Inv, TypeOK, facts, identity
<1>5. FreshAreUnknown'
  BY <1>1, <1>2 DEF Inv, FreshAreUnknown, Fresh
<1>6. (SlotsNamed /\ TasksNameChannels)'
  BY <1>1 DEF Inv, SlotsNamed, OpenSockets, TasksNameChannels, identity
<1>7. SlotsBounded'
  BY <1>1, SlotsShrink DEF identity
<1> QED BY <1>2, <1>4, <1>5, <1>6, <1>7 DEF Inv

(* What a pass reads and remembers touches nobody until it ends. *)
LEMMA PassOnlyInv ==
  ASSUME Inv, pass' \in PassTypes, failures' \in 0..MaxFailures,
         UNCHANGED <<facts, transport, handshake, registered, identity, rooms, task, draining>>
  PROVE  Inv'
<1>1. TypeOK'
  BY DEF Inv, TypeOK, PassTypes, facts, identity, rooms
<1>2. (FreshAreUnknown /\ SlotsNamed /\ TasksNameChannels /\ RecordsAgree)'
  BY DEF Inv, FreshAreUnknown, Fresh, SlotsNamed, OpenSockets, TasksNameChannels, RecordsAgree,
         identity, rooms
<1>3. SlotsBounded'
  BY SlotsShrink DEF identity
<1> QED BY <1>1, <1>2, <1>3 DEF Inv

LEMMA IdlePassTyped == IdlePass \in PassTypes
  BY DEF IdlePass, PassTypes, Unread

LEMMA PassStartsInv == ASSUME Inv, PassStarts PROVE Inv'
<1>1. pass' \in PassTypes
  BY DEF PassStarts, Inv, TypeOK, PassTypes
<1>2. failures' \in 0..MaxFailures
  BY DEF PassStarts, Inv, TypeOK
<1> QED BY <1>1, <1>2, PassOnlyInv DEF PassStarts

LEMMA PassVisitsInv == ASSUME Inv, NEW s \in Sockets, PassVisits(s) PROVE Inv'
<1> DEFINE p == presents[s]
           v == Cached(pass.versions[p], version[p])
           may == Cached(pass.access[p], access[p])
           seen == [pass EXCEPT !.visited = @ \cup {s}, !.versions[p] = v]
<1>1. /\ pass \in PassTypes /\ p \in Principals
      /\ version[p] \in 0..MaxVersion /\ access[p] \in SUBSET Channels
      /\ joined[s] \in SUBSET Channels
  BY DEF PassVisits, Inv, TypeOK, PassTypes, SlotsNamed
<1>2. v \in 0..MaxVersion /\ may \in (SUBSET Channels) \cup {None}
  BY <1>1 DEF PassTypes, Cached
<1>3. seen \in PassTypes
  <2> HIDE DEF v, p
  <2> QED BY <1>1, <1>2 DEF PassTypes
<1>4. Lapsed(s, may) \in SUBSET (Sockets \X Channels)
  <2> HIDE DEF may
  <2> QED BY <1>1 DEF Lapsed
<1>5. pass' \in PassTypes
  <2>1. \/ pass' = [seen EXCEPT !.doomed = @ \cup {s}]
        \/ pass' = [seen EXCEPT !.revoked = @ \cup Lapsed(s, may),
                                !.access[p] = IF joined[s] = {} THEN @ ELSE may]
    BY DEF PassVisits
  <2> DEFINE known == IF joined[s] = {} THEN seen.access[p] ELSE may
  <2> HIDE DEF seen, may, p
  <2>2. known \in (SUBSET Channels) \cup {None}
    BY <1>1, <1>2, <1>3 DEF PassTypes
  <2>3. CASE pass' = [seen EXCEPT !.doomed = @ \cup {s}]
    BY <1>3, <2>3 DEF PassTypes
  <2>4. CASE pass' = [seen EXCEPT !.revoked = @ \cup Lapsed(s, may), !.access[p] = known]
    <3> HIDE DEF known
    <3> QED BY <1>1, <1>3, <1>4, <2>2, <2>4 DEF PassTypes
  <2> QED BY <2>1, <2>3, <2>4
<1>6. failures' \in 0..MaxFailures
  BY DEF PassVisits, Inv, TypeOK
<1>7. UNCHANGED <<facts, transport, handshake, registered, identity, rooms, task, draining>>
  BY DEF PassVisits
<1> QED BY <1>5, <1>6, <1>7, PassOnlyInv

LEMMA PassFailsInv == ASSUME Inv, PassFails PROVE Inv'
<1>1. pass' \in PassTypes
  BY IdlePassTyped DEF PassFails, PassOver
<1>2. failures' \in 0..MaxFailures
  BY GatewayAssumption DEF PassFails, Inv, TypeOK
<1> QED BY <1>1, <1>2, PassOnlyInv DEF PassFails

LEMMA PassEndsInv == ASSUME Inv, DoomedWereAdmitted, PassEnds PROVE Inv'
<1> DEFINE doomed == pass.doomed \cap OpenSockets
           left == {s \in OpenSockets : s \notin doomed}
           leaving == [c \in Channels |-> {s \in doomed : c \in joined[s]}
                                            \cup {s \in left : <<s, c>> \in pass.revoked}]
<1>1. /\ transport' = [s \in Sockets |-> IF s \in doomed THEN "closed" ELSE transport[s]]
      /\ registered' = registered \ doomed /\ Forget(doomed) /\ Leave(leaving)
      /\ pass' = IdlePass /\ UNCHANGED <<facts, handshake, task, failures, draining>>
  BY DEF PassEnds, PassOver
<1>2. doomed \in SUBSET OpenSockets /\ leaving \in [Channels -> SUBSET Sockets]
  BY DEF OpenSockets
<1>3. \A c \in Channels : \A s \in doomed : c \in joined[s] => s \in leaving[c]
  OBVIOUS
<1>4. task' \in TaskTypes /\ pass' \in PassTypes /\ \A r \in Sockets : task'[r] \in {task[r], IdleTask}
  BY <1>1, IdlePassTyped DEF Inv, TypeOK, TaskTypes
<1>5. doomed \ handshake = doomed
  BY DEF DoomedWereAdmitted, Fresh
<1> HIDE DEF leaving, doomed
<1>6. Forget(doomed \ handshake)
  BY <1>1, <1>5
<1> QED BY <1>1, <1>2, <1>3, <1>4, <1>6, ClosingKeeps DEF Inv

LEMMA DrainInv == ASSUME Inv, Drain PROVE Inv'
<1>1. /\ pass' = IdlePass /\ registered' = {} /\ Forget(Sockets \ handshake)
      /\ transport' = [s \in Sockets |-> IF s \in OpenSockets THEN "closed" ELSE transport[s]]
      /\ joined' = [s \in Sockets |-> {}] /\ subscribed' = {}
      /\ watchers' = [c \in Channels |-> {}] /\ draining' = TRUE
      /\ UNCHANGED <<facts, handshake, pending, refused, task, failures>>
  BY DEF Drain
<1>2. /\ presents' \in [Sockets -> Principals \cup {None}]
      /\ session' \in [Sockets -> 0..MaxVersion]
      /\ \A s \in handshake : presents'[s] = presents[s]
  BY <1>1, GatewayAssumption DEF Forget, Inv, TypeOK
<1>3. TypeOK'
  <2>1. transport' \in [Sockets -> {"unborn", "open", "closed"}]
    BY <1>1 DEF Inv, TypeOK
  <2>2. pass' \in PassTypes
    BY <1>1, IdlePassTyped
  <2> QED BY <1>1, <1>2, <2>1, <2>2 DEF Inv, TypeOK, PassTypes, facts
<1>4. FreshAreUnknown'
  BY <1>1 DEF Inv, TypeOK, FreshAreUnknown, Fresh, OpenSockets
<1>5. (SlotsNamed /\ TasksNameChannels /\ RecordsAgree)'
  BY <1>1, <1>2 DEF Inv, SlotsNamed, OpenSockets, TasksNameChannels, RecordsAgree
<1>6. SlotsBounded'
  BY <1>1, SlotsShrink
<1> QED BY <1>3, <1>4, <1>5, <1>6 DEF Inv

-----------------------------------------------------------------------------
(* Nobody becomes fresh again. *)
LEMMA DoomedStep ==
  ASSUME Inv, DoomedWereAdmitted, [Next]_vars PROVE DoomedWereAdmitted'
<1>1. ASSUME pass'.doomed \subseteq pass.doomed,
             \A s \in pass.doomed : Fresh(s)' => Fresh(s)
      PROVE  DoomedWereAdmitted'
  BY <1>1 DEF DoomedWereAdmitted
<1>2. IdlePass.doomed = {} /\ pass.doomed \subseteq Sockets
  BY DEF IdlePass, Inv, TypeOK
<1>3. ASSUME NEW p \in Principals,
             RevokeSessions(p) \/ \E c \in Channels : AccessChanges(p, c)
      PROVE  DoomedWereAdmitted'
  BY <1>1, <1>3 DEF RevokeSessions, AccessChanges, Fresh
<1>4. ASSUME NEW s \in Sockets, NEW p \in Principals, Connect(s, p) PROVE DoomedWereAdmitted'
  BY <1>1, <1>2, <1>4 DEF Connect, Fresh, Inv, TypeOK
<1>5. ASSUME NEW s \in Sockets, Admit(s) PROVE DoomedWereAdmitted'
  BY <1>1, <1>2, <1>5 DEF Admit, Fresh, Inv, TypeOK
<1>6. ASSUME NEW S \in SUBSET Sockets, CloseAll(S), UNCHANGED <<handshake, pass>>
      PROVE  DoomedWereAdmitted'
  BY <1>1, <1>2, <1>6 DEF CloseAll, Fresh
<1>7. ASSUME NEW s \in Sockets, Close(s) \/ AuthorizeJoin(s) PROVE DoomedWereAdmitted'
  <2>1. CASE Close(s)
    BY <1>6, <2>1 DEF Close
  <2>2. CASE AuthorizeJoin(s) /\ CloseAll({s} \cap OpenSockets)
    BY <1>6, <2>2 DEF AuthorizeJoin
  <2>3. CASE AuthorizeJoin(s) /\ UNCHANGED <<transport, registered, identity, rooms>>
    BY <1>1, <2>3 DEF AuthorizeJoin, Fresh
  <2> QED BY <1>7, <2>1, <2>2, <2>3, Zenon DEF AuthorizeJoin, Decision
<1>8. CASE \/ \E s \in Sockets : JoinChannel(s)
           \/ \E s \in Sockets, c \in Channels : Subscribe(s, c) \/ Unsubscribe(s, c)
           \/ \E c \in Channels : BackplaneAnswers(c)
  <2>1. UNCHANGED <<transport, handshake, pass>>
    BY <1>8 DEF JoinChannel, Subscribe, Unsubscribe, BackplaneAnswers
  <2> QED BY <1>1, <2>1 DEF Fresh
<1>9. CASE PassStarts
  BY <1>1, <1>9 DEF PassStarts, Fresh, Inv, TypeOK
<1>10. ASSUME NEW s \in Sockets, PassVisits(s) PROVE DoomedWereAdmitted'
  <2>1. pass'.doomed \subseteq pass.doomed \cup {s} /\ UNCHANGED <<transport, handshake>>
    BY <1>10 DEF PassVisits, Inv, TypeOK
  <2>2. ~Fresh(s)
    BY <1>10 DEF PassVisits, Inv, FreshAreUnknown
  <2> QED BY <2>1, <2>2 DEF DoomedWereAdmitted, Fresh
<1>11. CASE PassEnds \/ PassFails \/ Drain
  <2>1. pass' = IdlePass
    BY <1>11 DEF PassEnds, PassFails, Drain, PassOver
  <2> QED BY <1>2, <2>1 DEF DoomedWereAdmitted
<1>12. CASE UNCHANGED vars
  BY <1>1, <1>12 DEF vars, Fresh
<1> QED BY <1>3, <1>4, <1>5, <1>7, <1>8, <1>9, <1>10, <1>11, <1>12 DEF Next, PassStep

LEMMA StepInv == ASSUME Inv, DoomedWereAdmitted, [Next]_vars PROVE Inv'
<1>1. CASE \E p \in Principals : RevokeSessions(p) \/ \E c \in Channels : AccessChanges(p, c)
  BY <1>1, FactsInv
<1>2. CASE \E s \in Sockets :
              \/ (\E p \in Principals : Connect(s, p)) \/ Admit(s) \/ Close(s)
              \/ AuthorizeJoin(s) \/ JoinChannel(s)
              \/ \E c \in Channels : Subscribe(s, c) \/ Unsubscribe(s, c)
  BY <1>2, ConnectInv, AdmitInv, CloseInv, AuthorizeInv, JoinInv, SubscribeInv, UnsubscribeInv
<1>3. CASE \E c \in Channels : BackplaneAnswers(c)
  BY <1>3, BackplaneInv
<1>4. CASE PassStep \/ PassFails \/ Drain
  BY <1>4, PassStartsInv, PassVisitsInv, PassEndsInv, PassFailsInv, DrainInv DEF PassStep
<1>5. CASE UNCHANGED vars
  <2>1. pass' \in PassTypes /\ failures' \in 0..MaxFailures
    BY <1>5 DEF vars, Inv, TypeOK, PassTypes
  <2> QED BY <1>5, <2>1, PassOnlyInv DEF vars, facts, identity, rooms
<1> QED BY <1>1, <1>2, <1>3, <1>4, <1>5 DEF Next

LEMMA InvAlways == Spec => [](Inv /\ DoomedWereAdmitted)
<1>1. Init => Inv /\ DoomedWereAdmitted
  <2>1. ASSUME Init PROVE DoomedWereAdmitted
    BY <2>1 DEF Init, DoomedWereAdmitted, IdlePass
  <2> QED BY <2>1, InitInv
<1>2. Inv /\ DoomedWereAdmitted /\ [Next]_vars => Inv' /\ DoomedWereAdmitted'
  BY StepInv, DoomedStep
<1> QED BY <1>1, <1>2, PTL DEF Spec

(* Every variable keeps its type, and a socket without a slot is in no room. *)
THEOREM TypeCorrect == Spec => []TypeOK
<1>1. Inv => TypeOK
  BY DEF Inv
<1> QED BY <1>1, InvAlways, PTL

(* However joins, departures, passes and deploys overlap, an event reaches only
   sockets on record in its channel, and a staff-only one only employees. *)
THEOREM TheRoomAloneHears == Spec => []OnlyTheRoomHears
<1>1. Inv => OnlyTheRoomHears
  BY DEF Inv, TypeOK, RecordsAgree, OnlyTheRoomHears, Audience, MayReceive
<1> QED BY <1>1, InvAlways, PTL

(* Whoever was told of having joined hears, unless the backplane refused. *)
THEOREM JoinedSocketsHear == Spec => []NobodyIsDeaf
<1>1. Inv => NobodyIsDeaf
  BY DEF Inv, TypeOK, RecordsAgree, NobodyIsDeaf, Audience, MayReceive
<1> QED BY <1>1, InvAlways, PTL

(* The ceiling holds for each principal, and only open sockets count. *)
THEOREM SlotsStayLive == Spec => []SlotsAreLive
<1>1. Inv => SlotsAreLive
  BY DEF Inv, SlotsNamed, SlotsBounded, SlotsAreLive, SlotsOf
<1> QED BY <1>1, InvAlways, PTL

=============================================================================
