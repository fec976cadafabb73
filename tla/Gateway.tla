------------------------------- MODULE Gateway -------------------------------
(***************************************************************************)
(* One realtime gateway process: handshakes, the registry of connections,  *)
(* the channels each has joined, the backplane subscriptions they share,   *)
(* and the pass that takes back access which has lapsed.                   *)
(*                                                                         *)
(* The process is single threaded: an action is what runs between two      *)
(* answers from outside (the session store, the database, the backplane).  *)
(* A connection id is never used again, so a socket that is closed stays   *)
(* closed; a client that reconnects is another member of Sockets.          *)
(***************************************************************************)
EXTENDS Naturals, FiniteSets

CONSTANTS Principals,
          Employees,     \* the principals that are staff
          Settled,       \* bound: the principals whose session and access never change
          Sockets,
          Channels,      \* conversations
          Ceiling,       \* maxConnectionsPerPrincipal
          MaxVersion,    \* bound on the revocations of one principal's sessions
          MaxFailures,   \* bound on the passes that a failing read aborts
          None

ASSUME GatewayAssumption ==
  /\ Employees \subseteq Principals /\ Settled \subseteq Principals
  /\ Ceiling \in Nat \ {0} /\ MaxVersion \in Nat /\ MaxFailures \in Nat
  /\ None \notin Nat /\ None \notin Channels /\ None \notin Principals

VARIABLES
  version,     \* the live session version of a principal
  access,      \* the channels decide() lets a principal read now
  transport,   \* of a socket: "unborn", "open" or "closed"
  handshake,   \* sockets whose session is being verified
  registered,  \* connections: those that hold a slot
  presents,    \* the principal whose session a socket presented
  session,     \* the version of that session
  joined,      \* per socket, the channels it is recorded in
  subscribed,  \* channels with a subscription to the backplane
  watchers,    \* subscription.sockets
  pending,     \* pendingSubscriptions: channels being subscribed
  task,        \* per socket, the subscribe request it has in flight
  pass,        \* the revalidation in progress
  refused,     \* channels for which the backplane once refused
  failures,    \* passes aborted so far
  draining

facts == <<version, access>>
identity == <<presents, session>>
rooms == <<joined, subscribed, watchers, pending, refused>>
vars == <<version, access, transport, handshake, registered, presents, session, joined, subscribed,
          watchers, pending, task, pass, refused, failures, draining>>

IdleTask == [at |-> "idle", on |-> None]
Unread == [p \in Principals |-> None]
IdlePass == [running |-> FALSE, visited |-> {}, versions |-> Unread, access |-> Unread,
             doomed |-> {}, revoked |-> {}]

OpenSockets == {s \in Sockets : transport[s] = "open"}
SlotsOf(p) == {s \in registered : presents[s] = p}
IsEmployee(s) == presents[s] \in Employees

TypeOK ==
  /\ version \in [Principals -> 0..MaxVersion]
  /\ access \in [Principals -> SUBSET Channels]
  /\ transport \in [Sockets -> {"unborn", "open", "closed"}]
  /\ handshake \subseteq Sockets
  /\ registered \subseteq Sockets
  /\ presents \in [Sockets -> Principals \cup {None}]
  /\ session \in [Sockets -> 0..MaxVersion]
  /\ joined \in [Sockets -> SUBSET Channels]
  /\ subscribed \subseteq Channels
  /\ watchers \in [Channels -> SUBSET Sockets]
  /\ pending \subseteq Channels
  /\ task \in [Sockets -> [at : {"idle", "deciding", "allowed", "subscribing"}, on : Channels \cup {None}]]
  /\ pass \in [running : BOOLEAN, visited : SUBSET Sockets,
               versions : [Principals -> 0..MaxVersion \cup {None}],
               access : [Principals -> (SUBSET Channels) \cup {None}],
               doomed : SUBSET Sockets, revoked : SUBSET (Sockets \X Channels)]
  /\ refused \subseteq Channels
  /\ failures \in 0..MaxFailures
  /\ draining \in BOOLEAN
  /\ \A s \in Sockets \ registered : joined[s] = {}
  /\ \A c \in Channels \ subscribed : watchers[c] = {}

Init ==
  /\ version = [p \in Principals |-> 0]
  /\ access = [p \in Principals |-> IF p \in Settled THEN Channels ELSE {}]
  /\ transport = [s \in Sockets |-> "unborn"]
  /\ handshake = {}
  /\ registered = {}
  /\ presents = [s \in Sockets |-> None]
  /\ session = [s \in Sockets |-> 0]
  /\ joined = [s \in Sockets |-> {}]
  /\ subscribed = {}
  /\ watchers = [c \in Channels |-> {}]
  /\ pending = {}
  /\ task = [s \in Sockets |-> IdleTask]
  /\ pass = IdlePass
  /\ refused = {}
  /\ failures = 0
  /\ draining = FALSE

-----------------------------------------------------------------------------
(* What happens elsewhere. *)

(* Deactivation, a role change or a raised assurance ends a principal's sessions. *)
RevokeSessions(p) ==
  /\ p \notin Settled /\ version[p] < MaxVersion
  /\ version' = [version EXCEPT ![p] = @ + 1]
  /\ UNCHANGED <<access, transport, handshake, registered, identity, rooms, task, pass,
                 failures, draining>>

(* A grant, a participation or an ownership begins or ends: no version moves. *)
AccessChanges(p, c) ==
  /\ p \notin Settled
  /\ access' = [access EXCEPT ![p] = IF c \in @ THEN @ \ {c} ELSE @ \cup {c}]
  /\ UNCHANGED <<version, transport, handshake, registered, identity, rooms, task, pass,
                 failures, draining>>

-----------------------------------------------------------------------------
(* Connecting and closing. *)

(* The handshake presents a live session; one that does not is refused and leaves nothing. *)
Connect(s, p) ==
  /\ ~draining
  /\ transport[s] = "unborn"
  /\ transport' = [transport EXCEPT ![s] = "open"]
  /\ handshake' = handshake \cup {s}
  /\ presents' = [presents EXCEPT ![s] = p]
  /\ session' = [session EXCEPT ![s] = version[p]]
  /\ UNCHANGED <<facts, registered, rooms, task, pass, failures, draining>>

(* Nobody asks a closed socket about its principal, except a handshake that has yet to end. *)
Forget(S) ==
  /\ presents' = [s \in Sockets |-> IF s \in S THEN None ELSE presents[s]]
  /\ session' = [s \in Sockets |-> IF s \in S THEN 0 ELSE session[s]]

HasRoom(s) == Cardinality(SlotsOf(presents[s])) < Ceiling

StillOpenIgnored(s) == TRUE      \* mutant: no look at the transport after registering
StillOpen(s) == transport[s] = "open"

(* verify answers; the ceiling, the slot and the last look at the transport come at once. *)
Admit(s) ==
  /\ s \in handshake
  /\ handshake' = handshake \ {s}
  /\ IF HasRoom(s) /\ StillOpen(s)
     THEN /\ registered' = registered \cup {s}
          /\ UNCHANGED <<transport, identity>>
     ELSE /\ transport' = [transport EXCEPT ![s] = "closed"]
          /\ Forget({s})
          /\ UNCHANGED registered
  /\ UNCHANGED <<facts, rooms, task, pass, failures, draining>>

KeepsListening(w, S) == w        \* mutant: leaving only forgets the channel on the connection
WithoutThem(w, S) == w \ S

(* Sockets in leaving[c] leave channel c; a subscription nobody watches is released. *)
Leave(leaving) ==
  /\ joined' = [s \in Sockets |-> joined[s] \ {c \in Channels : s \in leaving[c]}]
  /\ watchers' = [c \in Channels |-> WithoutThem(watchers[c], leaving[c])]
  /\ subscribed' = {c \in subscribed : leaving[c] = {} \/ watchers'[c] # {}}
  /\ UNCHANGED <<pending, refused>>

(* onDisconnect leaves every channel and gives the slot back; a socket in its
   handshake holds neither yet. *)
CloseAll(S) ==
  /\ transport' = [s \in Sockets |-> IF s \in S THEN "closed" ELSE transport[s]]
  /\ registered' = registered \ S
  /\ Forget(S \ handshake)
  /\ Leave([c \in Channels |-> {s \in S : c \in joined[s]}])

Close(s) ==
  /\ s \in OpenSockets
  /\ CloseAll({s})
  /\ UNCHANGED <<facts, handshake, task, pass, failures, draining>>

-----------------------------------------------------------------------------
(* Joining and leaving a channel. *)

Subscribe(s, c) ==
  /\ s \in registered
  /\ task[s] = IdleTask
  /\ task' = [task EXCEPT ![s] = [at |-> "deciding", on |-> c]]
  /\ UNCHANGED <<facts, transport, handshake, registered, identity, rooms, pass, failures,
                 draining>>

(* authorizeJoin, live: the session version, then the decision of conversation.read.
   A refused join is acknowledged; a revoked session loses its socket as well. *)
Decision(s, c) ==
  IF s \notin registered \/ version[presents[s]] # session[s] THEN "revoked"
  ELSE IF c \in access[presents[s]] THEN "allowed" ELSE "refused"

AuthorizeJoin(s) ==
  LET c == task[s].on
  IN /\ task[s].at = "deciding"
     /\ CASE Decision(s, c) = "allowed" ->
                /\ task' = [task EXCEPT ![s].at = "allowed"]
                /\ UNCHANGED <<transport, registered, identity, rooms>>
          [] Decision(s, c) = "refused" ->
                /\ task' = [task EXCEPT ![s] = IdleTask]
                /\ UNCHANGED <<transport, registered, identity, rooms>>
          [] Decision(s, c) = "revoked" ->
                /\ task' = [task EXCEPT ![s] = IdleTask]
                /\ CloseAll({s} \cap OpenSockets)
     /\ UNCHANGED <<facts, handshake, pass, failures, draining>>

(* The sockets in S go on: into the subscription if there is one, and onto the
   record of their connection if they still have one. *)
Enter(S, c) ==
  /\ watchers' = [watchers EXCEPT ![c] = IF c \in subscribed' THEN @ \cup S ELSE @]
  /\ joined' = [s \in Sockets |->
                  IF s \in S \cap registered THEN joined[s] \cup {c} ELSE joined[s]]

NoWaiting(c) == c \in subscribed \cup pending  \* mutant: goes on while a subscribe is in flight
HasSubscription(c) == c \in subscribed

(* ensureChannelSubscription: join the subscription there is, or wait for the
   one attempt in flight, which this request starts when there is none. *)
JoinChannel(s) ==
  LET c == task[s].on
  IN /\ task[s].at = "allowed"
     /\ IF HasSubscription(c)
        THEN /\ UNCHANGED <<subscribed, pending>>
             /\ Enter({s}, c)
             /\ task' = [task EXCEPT ![s] = IdleTask]
        ELSE /\ pending' = pending \cup {c}
             /\ task' = [task EXCEPT ![s].at = "subscribing"]
             /\ UNCHANGED <<subscribed, watchers, joined>>
     /\ UNCHANGED <<facts, transport, handshake, registered, identity, pass, refused,
                    failures, draining>>

(* The backplane answers: whoever waited goes on, even when it refused. *)
BackplaneAnswers(c) ==
  LET waiting == {s \in Sockets : task[s] = [at |-> "subscribing", on |-> c]}
  IN /\ c \in pending
     /\ pending' = pending \ {c}
     /\ \/ /\ subscribed' = subscribed \cup {c}
           /\ UNCHANGED refused
        \/ /\ refused' = refused \cup {c}
           /\ UNCHANGED subscribed
     /\ Enter(waiting, c)
     /\ task' = [s \in Sockets |-> IF s \in waiting THEN IdleTask ELSE task[s]]
     /\ UNCHANGED <<facts, transport, handshake, registered, identity, pass, failures,
                    draining>>

Unsubscribe(s, c) ==
  /\ s \in registered
  /\ c \in joined[s]
  /\ Leave([d \in Channels |-> IF d = c THEN {s} ELSE {}])
  /\ UNCHANGED <<facts, transport, handshake, registered, identity, task, pass, failures,
                 draining>>

-----------------------------------------------------------------------------
(* The revalidation pass. *)

(* The timer fires; a tick during a pass is skipped.  A pass over no connection does nothing. *)
PassStarts ==
  /\ ~draining
  /\ ~pass.running
  /\ registered # {}
  /\ pass' = [pass EXCEPT !.running = TRUE]
  /\ UNCHANGED <<facts, transport, handshake, registered, identity, rooms, task, failures,
                 draining>>

Cached(seen, live) == IF seen = None THEN live ELSE seen

OnlyVersions(s, may) == {}       \* mutant: the pass compares session versions and stops there
Lapsed(s, may) == {s} \X (joined[s] \ may)

(* One connection, with what this pass has read already about its principal. *)
PassVisits(s) ==
  LET p == presents[s]
      v == Cached(pass.versions[p], version[p])
      may == Cached(pass.access[p], access[p])
      seen == [pass EXCEPT !.visited = @ \cup {s}, !.versions[p] = v]
  IN /\ pass.running
     /\ s \in registered \ pass.visited
     /\ pass' = IF v # session[s]
                THEN [seen EXCEPT !.doomed = @ \cup {s}]
                ELSE [seen EXCEPT !.revoked = @ \cup Lapsed(s, may),
                                  !.access[p] = IF joined[s] = {} THEN @ ELSE may]
     /\ UNCHANGED <<facts, transport, handshake, registered, identity, rooms, task, failures,
                    draining>>

KeptCache ==                     \* mutant: the cache outlives the pass
  [IdlePass EXCEPT !.versions = pass.versions, !.access = pass.access]
PassOver == IdlePass

(* The pass is over: close what it doomed, then leave what has lapsed. *)
PassEnds ==
  LET doomed == pass.doomed \cap OpenSockets
      left == {s \in OpenSockets : s \notin doomed}
  IN /\ pass.running
     /\ registered \subseteq pass.visited
     /\ transport' = [s \in Sockets |-> IF s \in doomed THEN "closed" ELSE transport[s]]
     /\ registered' = registered \ doomed
     /\ Forget(doomed)
     /\ Leave([c \in Channels |-> {s \in doomed : c \in joined[s]}
                                    \cup {s \in left : <<s, c>> \in pass.revoked}])
     /\ pass' = PassOver
     /\ UNCHANGED <<facts, handshake, task, failures, draining>>

(* A read throws: nothing is applied, and the next tick starts another pass. *)
PassFails ==
  /\ pass.running
  /\ failures < MaxFailures
  /\ failures' = failures + 1
  /\ pass' = PassOver
  /\ UNCHANGED <<facts, transport, handshake, registered, identity, rooms, task, draining>>

(* A rolling deploy: no new connection, no timer, every subscription released and
   every socket closed. *)
Drain ==
  /\ ~draining
  /\ draining' = TRUE
  /\ pass' = IdlePass
  /\ transport' = [s \in Sockets |-> IF s \in OpenSockets THEN "closed" ELSE transport[s]]
  /\ registered' = {}
  /\ Forget(Sockets \ handshake)
  /\ joined' = [s \in Sockets |-> {}]
  /\ subscribed' = {}
  /\ watchers' = [c \in Channels |-> {}]
  /\ UNCHANGED <<facts, handshake, pending, refused, task, failures>>

-----------------------------------------------------------------------------
PassStep == PassStarts \/ (\E s \in Sockets : PassVisits(s)) \/ PassEnds

Next ==
  \/ \E p \in Principals : RevokeSessions(p) \/ \E c \in Channels : AccessChanges(p, c)
  \/ \E s \in Sockets :
       \/ (\E p \in Principals : Connect(s, p)) \/ Admit(s) \/ Close(s)
       \/ AuthorizeJoin(s) \/ JoinChannel(s)
       \/ \E c \in Channels : Subscribe(s, c) \/ Unsubscribe(s, c)
  \/ \E c \in Channels : BackplaneAnswers(c)
  \/ PassStep \/ PassFails \/ Drain

Spec == Init /\ [][Next]_vars

(* The timer keeps firing, and the reads of a pass are answered. *)
FairSpec == Spec /\ WF_vars(PassStep)

-----------------------------------------------------------------------------
MayReceive(s, staffOnly) == s \in registered /\ (staffOnly => IsEmployee(s))

(* fanOut: the check is made for each socket that watches the channel. *)
Audience(c, staffOnly) ==
  IF c \in subscribed THEN {s \in watchers[c] : MayReceive(s, staffOnly)} ELSE {}

(* An event reaches only sockets that are on record as having joined its channel
   and, if it is marked staff only, only sockets of employees. *)
OnlyTheRoomHears ==
  \A c \in Channels : \A staffOnly \in BOOLEAN : \A s \in Audience(c, staffOnly) :
    c \in joined[s] /\ (staffOnly => IsEmployee(s))

(* A socket that was told it has joined a channel hears its events, however the
   joins of several sockets overlap, unless the backplane refused to subscribe. *)
NobodyIsDeaf ==
  \A s \in Sockets : \A c \in joined[s] : s \in Audience(c, FALSE) \/ c \in refused

(* Only open transports hold a slot, and never more of them than the ceiling:
   a client that goes away during its handshake costs its principal nothing. *)
SlotsAreLive ==
  \A p \in Principals :
    SlotsOf(p) \subseteq OpenSockets /\ Cardinality(SlotsOf(p)) <= Ceiling

(* Access that has lapsed without the session changing ends with the next passes. *)
LapsedAccessIsRevoked ==
  \A s \in Sockets : \A c \in Channels :
    (c \in joined[s] /\ c \notin access[presents[s]])
      ~> (c \notin joined[s] \/ c \in access[presents[s]])

(* A socket of a session that was revoked is closed even if no event said so. *)
RevokedSessionsAreClosed ==
  \A s \in Sockets :
    (s \in registered /\ session[s] # version[presents[s]]) ~> (s \notin registered)
=============================================================================
