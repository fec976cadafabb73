------------------------------ MODULE Ownership ------------------------------
(***************************************************************************)
(* Who is accountable for a customer conversation, and in which state it   *)
(* is: the rows of conversations, service_cases, queue_entries,            *)
(* ownership_episodes, participants, case_state_episodes and reservations  *)
(* that the routing sweep, the staff commands, the customer's reply and    *)
(* the closure sweep read and write.                                       *)
(*                                                                         *)
(* One action is one database transaction, or one read a request acts on   *)
(* later.  A request that has read and not yet written is in sweep, desk,  *)
(* reply or closer; every such request may also die before it writes.      *)
(*                                                                         *)
(* Time: a request reads its clock once, when it starts, and stamps its    *)
(* rows with that reading when it writes.  The period constraints of the   *)
(* database (effective_to > effective_from, no two overlapping periods)    *)
(* then refuse a request that was overtaken: one whose reading is not      *)
(* later than the last boundary of the history it writes to.  The model    *)
(* keeps the order in which the requests in flight read their clocks, and  *)
(* for each history the requests that its last boundary has overtaken.     *)
(***************************************************************************)
EXTENDS Naturals, FiniteSets

CONSTANTS Conversations,  \* conversation ids, those of later forks included
          Cases,          \* service case ids
          Employees,      \* employee principals
          Leads,          \* the employees whose scope grant lets them manage others' work
          Sweepers,       \* API instances, each running one routing sweep at a time
          Desks,          \* staff requests that may be in flight together
          Replies,        \* customer replies that may be in flight together
          Commands,       \* the staff commands the instance exercises
          Hours,          \* the answers the business calendar may give
          Capacity,       \* ceiling of reservation weight per employee
          MaxReopens,     \* bound on reopen_count
          MaxLevel,       \* bound on escalation_level
          None            \* SQL NULL

ReassignOps == {"transfer", "escalate", "exit"}
StaffOps == ReassignOps \cup {"claim", "resolve", "reopen", "add", "remove"}

ASSUME ConstantsAssumption ==
  /\ Leads \subseteq Employees
  /\ Commands \subseteq StaffOps
  /\ Hours \subseteq {"OPEN", "AFTER_HOURS"}
  /\ Capacity \in Nat /\ MaxReopens \in Nat /\ MaxLevel \in Nat
  /\ IsFiniteSet(Conversations) /\ IsFiniteSet(Employees)
  /\ None \notin Conversations \cup Cases \cup Employees \cup Sweepers \cup {"settled"}
  /\ "settled" \notin Sweepers

VARIABLES
  convState,     \* conversations.state, "NONE" before the row exists
  caseOf,        \* conversations.case_id
  continues,     \* business_links CONTINUES: the conversation this one was forked from
  successor,     \* the CONTINUES link that latestSuccessorOf's query answers
  waiting,       \* the WAITING queue entry: who inserted it, or None
  afterHours,    \* queue_entries.after_hours of that entry
  claimed,       \* whether a CLAIMED queue entry exists
  owner,         \* owner of the open ownership episode, or None
  seat,          \* live participants.role; "OWNER" carries reply_authority
  caseState, caseOwner, designated, resolvedAt, reopenCount, level,
                 \* service_cases
  stateEpisode,  \* state of the open case_state_episode, or "NONE"
  stateDated,    \* requests in flight that its last boundary has overtaken
  ownerDated,    \* likewise for the ownership episodes
  before,        \* requests in flight that read their clock earlier
  holds,         \* unreleased reservations, as <<conversation, employee>>
  status,        \* principals.status
  sweep,         \* routing sweep in progress, per API instance
  desk,          \* staff request in flight
  reply,         \* customer reply in flight
  closer         \* conversations the closure sweep has closed but not yet dated

threadVars == <<convState, caseOf, continues, successor>>
queueVars  == <<waiting, afterHours, claimed>>
peopleVars == <<owner, seat>>
caseVars   == <<caseState, caseOwner, designated, resolvedAt, reopenCount, level>>
dateVars   == <<stateEpisode, stateDated, ownerDated, before>>
vars == <<threadVars, queueVars, peopleVars, caseVars, dateVars, holds, status,
          sweep, desk, reply, closer>>

States == {"NEW", "QUEUED", "ASSIGNED", "ACTIVE", "WAITING_CUSTOMER",
           "WAITING_INTERNAL", "RESOLVED", "CLOSED"}

(* The state table of the domain. *)
Transitions ==
  {<<"NEW", "QUEUED">>, <<"NEW", "ASSIGNED">>, <<"QUEUED", "ASSIGNED">>,
   <<"ASSIGNED", "ACTIVE">>,
   <<"ACTIVE", "WAITING_CUSTOMER">>, <<"WAITING_CUSTOMER", "ACTIVE">>,
   <<"ACTIVE", "WAITING_INTERNAL">>, <<"WAITING_INTERNAL", "ACTIVE">>,
   <<"ACTIVE", "RESOLVED">>, <<"WAITING_CUSTOMER", "RESOLVED">>,
   <<"WAITING_INTERNAL", "RESOLVED">>,
   <<"RESOLVED", "ACTIVE">>, <<"RESOLVED", "CLOSED">>}

(* What transition() answers when the actor and the reason are in order. *)
MayMove(from, to) == from # to /\ from # "CLOSED" /\ <<from, to>> \in Transitions

AssignableFrom == {"NEW", "QUEUED"}
Finished == {"RESOLVED", "CLOSED"}

Exists(c) == convState[c] # "NONE"
CaseOf(c) == caseOf[c]

OrNone(S) == S \cup {None}
Requests == Sweepers \cup Desks \cup Replies
IdleSweep == [todo |-> {}, hours |-> "OPEN", conv |-> None, to |-> None]
IdleDesk  == [op |-> "idle", conv |-> None, who |-> None, from |-> "NONE"]
IdleReply == [at |-> "idle", conv |-> None, heir |-> None]

Items == [conv : Conversations, designated : OrNone(Employees)]

ThreadsOK ==
  /\ convState \in [Conversations -> States \cup {"NONE"}]
  /\ caseOf \in [Conversations -> OrNone(Cases)]
  /\ continues \in [Conversations -> OrNone(Conversations)]
  /\ successor \in [Conversations -> OrNone(Conversations)]
QueueOK ==
  /\ waiting \in [Conversations -> OrNone(Sweepers) \cup {"settled"}]
  /\ afterHours \in [Conversations -> BOOLEAN]
  /\ claimed \in [Conversations -> BOOLEAN]
PeopleOK ==
  /\ owner \in [Conversations -> OrNone(Employees)]
  /\ seat \in [Conversations -> [Employees -> {"NONE", "PARTICIPANT", "OWNER"}]]
  /\ holds \subseteq Conversations \X Employees
  /\ status \in [Employees -> {"ACTIVE", "EXITED"}]
CasesOK ==
  /\ caseState \in [Cases -> States \cup {"NONE"}]
  /\ caseOwner \in [Cases -> OrNone(Employees)]
  /\ designated \in [Cases -> OrNone(Employees)]
  /\ resolvedAt \in [Cases -> {"NONE", "FRESH", "EXPIRED"}]
  /\ reopenCount \in [Cases -> 0..MaxReopens]
  /\ level \in [Cases -> 0..MaxLevel]
DatesOK ==
  /\ stateEpisode \in [Conversations -> States \cup {"NONE"}]
  /\ stateDated \in [Conversations -> SUBSET Requests]
  /\ ownerDated \in [Conversations -> SUBSET Requests]
  /\ before \in [Requests -> SUBSET Requests]
RequestsOK ==
  /\ sweep \in [Sweepers -> [todo : SUBSET Items, hours : {"OPEN", "AFTER_HOURS"},
                             conv : OrNone(Conversations), to : OrNone(Employees)]]
  /\ desk \in [Desks -> [op : StaffOps \cup {"idle", "escalated"},
                         conv : OrNone(Conversations), who : OrNone(Employees),
                         from : States \cup {"NONE"}]]
  /\ reply \in [Replies -> [at : {"idle", "followed", "revive", "fork"},
                            conv : OrNone(Conversations), heir : OrNone(Employees)]]
  /\ closer \subseteq Conversations

TypeOK ==
  ThreadsOK /\ QueueOK /\ PeopleOK /\ CasesOK /\ DatesOK /\ RequestsOK

Init ==
  /\ convState = [c \in Conversations |-> "NONE"]
  /\ caseOf = [c \in Conversations |-> None]
  /\ continues = [c \in Conversations |-> None]
  /\ successor = [c \in Conversations |-> None]
  /\ waiting = [c \in Conversations |-> None]
  /\ afterHours = [c \in Conversations |-> FALSE]
  /\ claimed = [c \in Conversations |-> FALSE]
  /\ owner = [c \in Conversations |-> None]
  /\ seat = [c \in Conversations |-> [e \in Employees |-> "NONE"]]
  /\ caseState = [k \in Cases |-> "NONE"]
  /\ caseOwner = [k \in Cases |-> None]
  /\ designated = [k \in Cases |-> None]
  /\ resolvedAt = [k \in Cases |-> "NONE"]
  /\ reopenCount = [k \in Cases |-> 0]
  /\ level = [k \in Cases |-> 0]
  /\ stateEpisode = [c \in Conversations |-> "NONE"]
  /\ stateDated = [c \in Conversations |-> {}]
  /\ ownerDated = [c \in Conversations |-> {}]
  /\ before = [q \in Requests |-> {}]
  /\ holds = {}
  /\ status = [e \in Employees |-> "ACTIVE"]
  /\ sweep = [s \in Sweepers |-> IdleSweep]
  /\ desk = [d \in Desks |-> IdleDesk]
  /\ reply = [r \in Replies |-> IdleReply]
  /\ closer = {}

-----------------------------------------------------------------------------
(* Clock readings. *)

(* A claim reads its clock in the statement that writes, so it is never overtaken. *)
InFlight ==
  {s \in Sweepers : sweep[s].conv # None}
    \cup {d \in Desks : desk[d].op \notin {"idle", "claim"}}
    \cup {r \in Replies : reply[r].at # "idle"}

Started(q) == before' = [before EXCEPT ![q] = InFlight]

(* A write stamped now bounds the state history of C and the ownership of D. *)
DatedNow(C, D) ==
  /\ stateDated' = [c \in Conversations |-> IF c \in C THEN InFlight ELSE stateDated[c]]
  /\ ownerDated' = [c \in Conversations |-> IF c \in D THEN InFlight ELSE ownerDated[c]]
  /\ UNCHANGED before

(* A request writes with its reading, and is over. *)
DatedBy(q, C, D) ==
  /\ stateDated' = [c \in Conversations |->
                      (IF c \in C THEN before[q] ELSE stateDated[c]) \ {q}]
  /\ ownerDated' = [c \in Conversations |->
                      (IF c \in D THEN before[q] ELSE ownerDated[c]) \ {q}]
  /\ before' = [x \in Requests |-> IF x = q THEN {} ELSE before[x] \ {q}]

Over(q) == DatedBy(q, {}, {})

-----------------------------------------------------------------------------
(* Statements several transactions share. *)

AdvanceUndated(c, from, to) ==      \* mutant: the history is left alone
  /\ IF convState[c] \in from
     THEN /\ convState' = [convState EXCEPT ![c] = to]
          /\ caseState' = [caseState EXCEPT ![CaseOf(c)] = to]
     ELSE UNCHANGED <<convState, caseState>>
  /\ UNCHANGED stateEpisode

(* advanceStateIn: a conditional move; nothing at all when the row has moved on. *)
Advance(c, from, to) ==
  IF convState[c] \in from
  THEN /\ convState' = [convState EXCEPT ![c] = to]
       /\ caseState' = [caseState EXCEPT ![CaseOf(c)] = to]
       /\ stateEpisode' = [stateEpisode EXCEPT ![c] = to]
  ELSE UNCHANGED <<convState, caseState, stateEpisode>>
Advanced(c, from) == IF convState[c] \in from THEN {c} ELSE {}

SeatIfAbsent(c, e) ==               \* mutant: a live participant row is left as it is
  [seat EXCEPT ![c][e] = IF @ = "NONE" THEN "OWNER" ELSE @]

(* ensureOwnerParticipantIn *)
SeatOwner(c, e) == [seat EXCEPT ![c][e] = "OWNER"]

HandOverKeepingSeat(c, from, to) == SeatOwner(c, to)  \* mutant: nobody is demoted
(* reassign: the new owner is seated, and a previous one who is still in the
   thread stays there without reply authority. *)
HandOverSeat(c, from, to) ==
  [seat EXCEPT ![c] =
     [e \in Employees |-> IF e = to THEN "OWNER"
                          ELSE IF e = from /\ @[e] # "NONE" THEN "PARTICIPANT"
                          ELSE @[e]]]

DeleteEntry(c) ==                   \* mutant: the consumed entry leaves no row
  /\ waiting' = [waiting EXCEPT ![c] = None]
  /\ afterHours' = [afterHours EXCEPT ![c] = FALSE]
  /\ UNCHANGED claimed

(* The WAITING entry becomes a CLAIMED one. *)
ConsumeEntry(c) ==
  /\ waiting' = [waiting EXCEPT ![c] = None]
  /\ afterHours' = [afterHours EXCEPT ![c] = FALSE]
  /\ claimed' = [claimed EXCEPT ![c] = TRUE]

OwnWithoutCase(c, e) ==             \* mutant: only the first owner is named on the case
  /\ owner' = [owner EXCEPT ![c] = e]
  /\ caseOwner' = [caseOwner EXCEPT ![CaseOf(c)] = IF @ = None THEN e ELSE @]

(* openEpisodeIn, and the case's current_owner_id that every writer sets with it. *)
Own(c, e) ==
  /\ owner' = [owner EXCEPT ![c] = e]
  /\ caseOwner' = [caseOwner EXCEPT ![CaseOf(c)] = e]

CountReopenOnly(k) ==               \* mutant: the resolution instant survives
  /\ caseState' = [caseState EXCEPT ![k] = "ACTIVE"]
  /\ reopenCount' = [reopenCount EXCEPT ![k] = @ + 1]
  /\ UNCHANGED resolvedAt

(* The case is worked again: both reopen paths and the fork write this. *)
CountReopen(k) ==
  /\ caseState' = [caseState EXCEPT ![k] = "ACTIVE"]
  /\ resolvedAt' = [resolvedAt EXCEPT ![k] = "NONE"]
  /\ reopenCount' = [reopenCount EXCEPT ![k] = @ + 1]

ReturnToActiveIfFinished(c) ==      \* mutant: CLOSED is reopened too
  /\ convState[c] \in Finished
  /\ convState' = [convState EXCEPT ![c] = "ACTIVE"]
  /\ stateEpisode' = [stateEpisode EXCEPT ![c] = "ACTIVE"]
  /\ CountReopen(CaseOf(c))
(* The conditional UPDATE both reopen paths share: a RESOLVED row, or nothing. *)
ReturnToActive(c) ==
  /\ convState[c] = "RESOLVED"
  /\ convState' = [convState EXCEPT ![c] = "ACTIVE"]
  /\ stateEpisode' = [stateEpisode EXCEPT ![c] = "ACTIVE"]
  /\ CountReopen(CaseOf(c))

(* mayActOn for the actions an owner has over their work and a lead by grant. *)
MayActOn(e, c) ==
  status[e] = "ACTIVE" /\ (caseOwner[CaseOf(c)] = e \/ e \in Leads)

-----------------------------------------------------------------------------
(* Arrival. *)

(* intake: a new case with its first conversation, accepted and placed later. *)
Intake(c, k) ==
  /\ ~Exists(c)
  /\ caseState[k] = "NONE"
  /\ convState' = [convState EXCEPT ![c] = "NEW"]
  /\ caseOf' = [caseOf EXCEPT ![c] = k]
  /\ caseState' = [caseState EXCEPT ![k] = "NEW"]
  /\ UNCHANGED <<continues, successor, queueVars, peopleVars, caseOwner, designated,
                 resolvedAt, reopenCount, level, dateVars, holds, status,
                 sweep, desk, reply, closer>>

-----------------------------------------------------------------------------
(* The routing sweep: select once, then enqueue and perhaps assign, item by item. *)

UnplacedOriginals ==                \* mutant: a fork is taken for placed work
  {c \in Conversations :
     /\ Exists(c) /\ convState[c] \notin Finished
     /\ waiting[c] = None /\ ~claimed[c]
     /\ owner[c] = None /\ continues[c] = None}

Unplaced ==
  {c \in Conversations :
     /\ Exists(c) /\ convState[c] \notin Finished
     /\ waiting[c] = None /\ ~claimed[c]
     /\ owner[c] = None}

Sweeping(s) == sweep[s].todo # {} \/ sweep[s].conv # None

SweepSelect(s) ==
  /\ ~Sweeping(s)
  /\ Unplaced # {}
  /\ \E hours \in Hours :
       sweep' = [sweep EXCEPT ![s] =
                   [todo |-> {[conv |-> c, designated |-> designated[CaseOf(c)]] :
                                c \in Unplaced},
                    hours |-> hours, conv |-> None, to |-> None]]
  /\ UNCHANGED <<threadVars, queueVars, peopleVars, caseVars, dateVars, holds, status,
                 desk, reply, closer>>

InsertOrTakeOver(c, tag, deferred) ==  \* mutant: an existing entry is taken for its own
  /\ waiting' = [waiting EXCEPT ![c] = tag]
  /\ afterHours' = [afterHours EXCEPT ![c] = (waiting[c] = None /\ deferred) \/ @]

(* The unique index lets the insert do nothing when a WAITING row is there
   already; a CLAIMED row does not stop it. *)
InsertEntry(c, tag, deferred) ==
  IF waiting[c] = None
  THEN /\ waiting' = [waiting EXCEPT ![c] = tag]
       /\ afterHours' = [afterHours EXCEPT ![c] = deferred]
  ELSE UNCHANGED <<waiting, afterHours>>

(* The enqueue transaction. *)
Enqueue(s, item, tag) ==
  /\ item \in sweep[s].todo
  /\ sweep[s].conv = None
  /\ InsertEntry(item.conv, tag, sweep[s].hours = "AFTER_HOURS")
  /\ Advance(item.conv, {"NEW"}, "QUEUED")
  /\ UNCHANGED <<caseOf, continues, successor, claimed, peopleVars, caseOwner,
                 designated, resolvedAt, reopenCount, level, holds, status,
                 desk, reply, closer>>

(* Deferred after hours, or no advisor that routing may pick: the entry waits. *)
EnqueueOnly(s) ==
  \E item \in sweep[s].todo :
    /\ Enqueue(s, item, "settled")
    /\ DatedNow(Advanced(item.conv, {"NEW"}), {})
    /\ sweep' = [sweep EXCEPT ![s].todo = @ \ {item}]

(* Relationship-shaped work whose designated advisor is available: an assignment
   follows, with the queue entry's id and the very clock reading of the enqueue,
   which is why the enqueue overtakes its own request. *)
EnqueueForAdvisor(s) ==
  \E item \in sweep[s].todo :
    /\ sweep[s].hours = "OPEN"
    /\ item.designated # None
    /\ status[item.designated] = "ACTIVE"
    /\ Enqueue(s, item, s)
    /\ Started(s)
    /\ stateDated' = [c \in Conversations |->
                        IF c \in Advanced(item.conv, {"NEW"})
                        THEN InFlight \cup {s} ELSE stateDated[c]]
    /\ UNCHANGED ownerDated
    /\ sweep' = [sweep EXCEPT ![s].todo = @ \ {item},
                              ![s].conv = item.conv,
                              ![s].to = item.designated]

(* The item is done: the entry it inserted is a row like any other. *)
ItemDone(s) ==
  sweep' = [sweep EXCEPT ![s].conv = None, ![s].to = None]
Settled(s) ==
  waiting' = [c \in Conversations |-> IF waiting[c] = s THEN "settled" ELSE waiting[c]]

HeldBy(e) == {h \in holds : h[2] = e}
AtCapacity(e) == Cardinality(HeldBy(e)) + 1 > Capacity

(* case_state_period_valid and ownership_no_overlap. *)
PeriodRefuses(s, c) ==
  \/ convState[c] \in AssignableFrom /\ s \in stateDated[c]
  \/ owner[c] # None
  \/ s \in ownerDated[c]

AssignFromRouting(s) ==
  LET c == sweep[s].conv
      e == sweep[s].to
  IN /\ c # None
     /\ ~AtCapacity(e)
     /\ waiting[c] = s
     /\ ~PeriodRefuses(s, c)
     /\ ConsumeEntry(c)
     /\ Own(c, e)
     /\ holds' = holds \cup {<<c, e>>}
     /\ seat' = SeatOwner(c, e)
     /\ Advance(c, AssignableFrom, "ASSIGNED")
     /\ DatedBy(s, Advanced(c, AssignableFrom), {c})
     /\ ItemDone(s)
     /\ UNCHANGED <<caseOf, continues, successor, designated, resolvedAt,
                    reopenCount, level, status, desk, reply, closer>>

(* AT_CAPACITY, NO_LONGER_WAITING, or a constraint refuses the transaction. *)
AssignRefused(s) ==
  LET c == sweep[s].conv
  IN /\ c # None
     /\ AtCapacity(sweep[s].to) \/ waiting[c] # s \/ PeriodRefuses(s, c)
     /\ ItemDone(s)
     /\ Settled(s)
     /\ Over(s)
     /\ UNCHANGED <<threadVars, afterHours, claimed, peopleVars, caseVars, stateEpisode,
                    holds, status, desk, reply, closer>>

(* The instance dies or the database refuses: what was selected is forgotten,
   what was committed stays. *)
SweepDies(s) ==
  /\ Sweeping(s)
  /\ sweep' = [sweep EXCEPT ![s] = IdleSweep]
  /\ Settled(s)
  /\ Over(s)
  /\ UNCHANGED <<threadVars, afterHours, claimed, peopleVars, caseVars, stateEpisode,
                 holds, status, desk, reply, closer>>

(* ReservationExpirySweep; no code writes a RESERVED queue entry for it to requeue. *)
ReservationExpires(h) ==
  /\ h \in holds
  /\ holds' = holds \ {h}
  /\ UNCHANGED <<threadVars, queueVars, peopleVars, caseVars, dateVars, status,
                 sweep, desk, reply, closer>>

-----------------------------------------------------------------------------
(* Staff commands: authorised and read first, written afterwards. *)

Request(d, op, c, who, from) ==
  /\ op \in Commands
  /\ desk[d] = IdleDesk
  /\ Exists(c)
  /\ desk' = [desk EXCEPT ![d] = [op |-> op, conv |-> c, who |-> who, from |-> from]]
  /\ IF op = "claim" THEN UNCHANGED before ELSE Started(d)
  /\ UNCHANGED <<threadVars, queueVars, peopleVars, caseVars, stateEpisode, stateDated,
                 ownerDated, holds, status, sweep, reply, closer>>

Answered(d) == desk' = [desk EXCEPT ![d] = IdleDesk]
Unanswered(d) ==
  /\ Answered(d)
  /\ Over(d)
  /\ UNCHANGED <<threadVars, queueVars, peopleVars, caseVars, stateEpisode, holds,
                 status, sweep, reply, closer>>

(* Any active employee of the team may claim. *)
ClaimRequest(d, c, e) ==
  /\ status[e] = "ACTIVE"
  /\ Request(d, "claim", c, e, "NONE")

ClaimConversation(d) ==
  LET c == desk[d].conv
      e == desk[d].who
  IN /\ desk[d].op = "claim"
     /\ waiting[c] # None
     /\ owner[c] = None          \* ownership_no_overlap
     /\ ConsumeEntry(c)
     /\ Own(c, e)
     /\ seat' = SeatOwner(c, e)
     /\ Advance(c, AssignableFrom, "ASSIGNED")
     /\ DatedNow(Advanced(c, AssignableFrom), {c})
     /\ Answered(d)
     /\ UNCHANGED <<caseOf, continues, successor, designated, resolvedAt,
                    reopenCount, level, holds, status, sweep, reply, closer>>

(* NOT_QUEUED, ALREADY_ASSIGNED, or the exclusion constraint rolls it back. *)
ClaimRefused(d) ==
  /\ desk[d].op = "claim"
  /\ waiting[desk[d].conv] = None \/ owner[desk[d].conv] # None
  /\ Unanswered(d)

(* transfer, escalate, reassignOnExit: the target is active and the
   conversation has an owner; only an escalation may name that same owner. *)
ReassignRequest(d, op, c, to) ==
  /\ op \in ReassignOps
  /\ Exists(c)
  /\ \E by \in Employees : MayActOn(by, c)
  /\ status[to] = "ACTIVE"
  /\ owner[c] # None
  /\ op # "escalate" => owner[c] # to
  /\ Request(d, op, c, to, "NONE")

(* escalate raises the level in a transaction of its own, first. *)
RaiseEscalationLevel(d) ==
  LET k == CaseOf(desk[d].conv)
  IN /\ desk[d].op = "escalate"
     /\ level[k] < MaxLevel
     /\ level' = [level EXCEPT ![k] = @ + 1]
     /\ desk' = [desk EXCEPT ![d].op = "escalated"]
     /\ UNCHANGED <<threadVars, queueVars, peopleVars, caseState, caseOwner, designated,
                    resolvedAt, reopenCount, dateVars, holds, status, sweep, reply, closer>>

Reassign(d) ==
  LET c == desk[d].conv
      to == desk[d].who
  IN /\ desk[d].op \in {"transfer", "exit", "escalated"}
     /\ d \notin ownerDated[c]
     /\ Own(c, to)
     /\ seat' = HandOverSeat(c, owner[c], to)
     /\ designated' = IF desk[d].op = "exit"
                      THEN [designated EXCEPT ![CaseOf(c)] = to]
                      ELSE designated
     /\ DatedBy(d, {}, {c})
     /\ Answered(d)
     /\ UNCHANGED <<threadVars, queueVars, caseState, resolvedAt, reopenCount, level,
                    stateEpisode, holds, status, sweep, reply, closer>>

ResolveRequest(d, c) ==
  /\ Exists(c)
  /\ \E by \in Employees : MayActOn(by, c)
  /\ MayMove(convState[c], "RESOLVED")
  /\ Request(d, "resolve", c, None, convState[c])

Resolve(d) ==
  LET c == desk[d].conv
  IN /\ desk[d].op = "resolve"
     /\ convState[c] = desk[d].from
     /\ d \notin stateDated[c]
     /\ convState' = [convState EXCEPT ![c] = "RESOLVED"]
     /\ caseState' = [caseState EXCEPT ![CaseOf(c)] = "RESOLVED"]
     /\ resolvedAt' = [resolvedAt EXCEPT ![CaseOf(c)] = "FRESH"]
     /\ stateEpisode' = [stateEpisode EXCEPT ![c] = "RESOLVED"]
     /\ DatedBy(d, {c}, {})
     /\ holds' = {h \in holds : h[1] # c}
     /\ Answered(d)
     /\ UNCHANGED <<caseOf, continues, successor, queueVars, peopleVars, caseOwner,
                    designated, reopenCount, level, status, sweep, reply, closer>>

ReopenRequest(d, c) ==
  /\ Exists(c)
  /\ \E by \in Employees : MayActOn(by, c)
  /\ MayMove(convState[c], "ACTIVE")
  /\ Request(d, "reopen", c, None, "NONE")

StaffReopen(d) ==
  LET c == desk[d].conv
  IN /\ desk[d].op = "reopen"
     /\ d \notin stateDated[c]
     /\ reopenCount[CaseOf(c)] < MaxReopens
     /\ ReturnToActive(c)
     /\ DatedBy(d, {c}, {})
     /\ Answered(d)
     /\ UNCHANGED <<caseOf, continues, successor, queueVars, peopleVars, caseOwner,
                    designated, level, holds, status, sweep, reply, closer>>

(* STATE_CHANGED: the conversation moved between the read and the write. *)
LifecycleRefused(d) ==
  /\ \/ desk[d].op = "resolve" /\ convState[desk[d].conv] # desk[d].from
     \/ desk[d].op = "reopen" /\ convState[desk[d].conv] # "RESOLVED"
  /\ Unanswered(d)

(* The request dies before its write: a crash, a deadlock, or a period
   constraint that a concurrent write with a later clock reading trips. *)
RequestDies(d) ==
  /\ desk[d] # IdleDesk
  /\ Unanswered(d)

(* participants.add: a colleague joins without reply authority; a live row is kept. *)
AddParticipant(c, by, e) ==
  /\ "add" \in Commands
  /\ Exists(c)
  /\ MayActOn(by, c) /\ seat[c][by] # "NONE"
  /\ seat[c][e] = "NONE"
  /\ seat' = [seat EXCEPT ![c][e] = "PARTICIPANT"]
  /\ UNCHANGED <<threadVars, queueVars, owner, caseVars, dateVars, holds, status,
                 sweep, desk, reply, closer>>

(* participants.remove: anyone but oneself, and never the customer. *)
RemoveParticipant(c, by, e) ==
  /\ "remove" \in Commands
  /\ Exists(c)
  /\ MayActOn(by, c) /\ seat[c][by] # "NONE"
  /\ e # by
  /\ seat[c][e] # "NONE"
  /\ seat' = [seat EXCEPT ![c][e] = "NONE"]
  /\ UNCHANGED <<threadVars, queueVars, owner, caseVars, dateVars, holds, status,
                 sweep, desk, reply, closer>>

(* The first customer-visible reply of the case owner makes assigned work active. *)
OwnerReply(c, e) ==
  /\ Exists(c)
  /\ status[e] = "ACTIVE"
  /\ caseOwner[CaseOf(c)] = e
  /\ convState[c] = "ASSIGNED"
  /\ Advance(c, {"ASSIGNED"}, "ACTIVE")
  /\ DatedNow({c}, {})
  /\ UNCHANGED <<caseOf, continues, successor, queueVars, peopleVars, caseOwner,
                 designated, resolvedAt, reopenCount, level, holds, status,
                 sweep, desk, reply, closer>>

(* Nothing gives a principal back its ACTIVE status. *)
Deactivate(e) ==
  /\ status[e] = "ACTIVE"
  /\ status' = [status EXCEPT ![e] = "EXITED"]
  /\ UNCHANGED <<threadVars, queueVars, peopleVars, caseVars, dateVars, holds,
                 sweep, desk, reply, closer>>

-----------------------------------------------------------------------------
(* The customer's reply: follow the links, read the head, then revive or fork. *)

LatestSuccessor[c \in Conversations] ==
  IF successor[c] = None THEN c ELSE LatestSuccessor[successor[c]]

ReplyStep(r, new) ==
  /\ reply' = [reply EXCEPT ![r] = new]
  /\ IF new = IdleReply THEN Over(r) ELSE UNCHANGED <<stateDated, ownerDated, before>>
  /\ UNCHANGED <<threadVars, queueVars, peopleVars, caseVars, stateEpisode, holds, status,
                 sweep, desk, closer>>

ReplyFollow(r, c) ==
  /\ reply[r] = IdleReply
  /\ Exists(c)
  /\ \E head \in Conversations :
       /\ head = LatestSuccessor[c]
       /\ reply' = [reply EXCEPT ![r] = [at |-> "followed", conv |-> head, heir |-> None]]
  /\ Started(r)
  /\ UNCHANGED <<threadVars, queueVars, peopleVars, caseVars, stateEpisode, stateDated,
                 ownerDated, holds, status, sweep, desk, closer>>

(* decideReopen, and the one case it cannot see: a CLOSED thread is not revived. *)
ReopenDecision(c) ==
  LET resolved == resolvedAt[CaseOf(c)]
  IN IF convState[c] \notin Finished \/ resolved = "NONE" THEN "idle"
     ELSE IF resolved = "EXPIRED" \/ convState[c] = "CLOSED" THEN "fork"
     ELSE "revive"

(* BR-13: only an owner who is still active is carried over. *)
ActiveOwner(k) ==
  IF caseOwner[k] # None /\ status[caseOwner[k]] = "ACTIVE" THEN caseOwner[k] ELSE None

(* STILL_OPEN leaves the message to the thread as it is. *)
ReplyReadHead(r) ==
  LET c == reply[r].conv
      what == ReopenDecision(c)
  IN /\ reply[r].at = "followed"
     /\ ReplyStep(r, IF what = "idle" THEN IdleReply
                     ELSE [at |-> what, conv |-> c, heir |-> ActiveOwner(CaseOf(c))])

ReviveInPlace(r) ==
  LET c == reply[r].conv
      heir == reply[r].heir
      drops == heir = None /\ owner[c] # None
  IN /\ reply[r].at = "revive"
     /\ r \notin stateDated[c]
     /\ drops => r \notin ownerDated[c]
     /\ reopenCount[CaseOf(c)] < MaxReopens
     /\ ReturnToActive(c)
     /\ caseOwner' = [caseOwner EXCEPT ![CaseOf(c)] = heir]
     /\ owner' = IF drops THEN [owner EXCEPT ![c] = None] ELSE owner
     /\ DatedBy(r, {c}, IF drops THEN {c} ELSE {})
     /\ reply' = [reply EXCEPT ![r] = IdleReply]
     /\ UNCHANGED <<caseOf, continues, successor, queueVars, seat, designated, level,
                    holds, status, sweep, desk, closer>>

(* The row is no longer RESOLVED: nothing is written, the message still follows. *)
ReviveRefused(r) ==
  /\ reply[r].at = "revive"
  /\ convState[reply[r].conv] # "RESOLVED"
  /\ ReplyStep(r, IdleReply)

(* A new conversation on the same case.  Nothing in the transaction looks at
   the previous conversation again: it is decided on what was read. *)
ForkConversation(r, new) ==
  LET c == reply[r].conv
  IN /\ reply[r].at = "fork"
     /\ ~Exists(new)
     /\ owner[c] # None => r \notin ownerDated[c]
     /\ reopenCount[CaseOf(c)] < MaxReopens
     /\ convState' = [convState EXCEPT ![new] = "NEW"]
     /\ caseOf' = [caseOf EXCEPT ![new] = CaseOf(c)]
     /\ seat' = [seat EXCEPT ![new] = seat[c]]
     /\ continues' = [continues EXCEPT ![new] = c]
     /\ \/ successor' = [successor EXCEPT ![c] = new]
        \/ successor[c] # None /\ UNCHANGED successor  \* the other link is dated later
     /\ CountReopen(CaseOf(c))
     /\ caseOwner' = [caseOwner EXCEPT ![CaseOf(c)] = reply[r].heir]
     /\ owner' = [owner EXCEPT ![c] = None]
     /\ stateEpisode' = [stateEpisode EXCEPT ![new] = "NEW"]
     /\ DatedBy(r, {new}, IF owner[c] # None THEN {c} ELSE {})
     /\ reply' = [reply EXCEPT ![r] = IdleReply]
     /\ UNCHANGED <<queueVars, designated, level, holds, status, sweep, desk, closer>>

ReplyDies(r) ==
  /\ reply[r] # IdleReply
  /\ ReplyStep(r, IdleReply)

-----------------------------------------------------------------------------
(* The reopen window and the closure sweep. *)

WindowExpires(k) ==
  /\ resolvedAt[k] = "FRESH"
  /\ resolvedAt' = [resolvedAt EXCEPT ![k] = "EXPIRED"]
  /\ UNCHANGED <<threadVars, queueVars, peopleVars, caseState, caseOwner, designated,
                 reopenCount, level, dateVars, holds, status, sweep, desk, reply, closer>>

ClosableWithinWindow ==             \* mutant: the comparison with the cutoff is inverted
  {c \in Conversations : convState[c] = "RESOLVED" /\ resolvedAt[CaseOf(c)] = "FRESH"}

Closable ==
  {c \in Conversations : convState[c] = "RESOLVED" /\ resolvedAt[CaseOf(c)] = "EXPIRED"}

(* One UPDATE closes them all; service_cases.state is left alone. *)
CloseExpired ==
  /\ Closable # {}
  /\ convState' = [c \in Conversations |->
                     IF c \in Closable THEN "CLOSED" ELSE convState[c]]
  /\ closer' = closer \cup Closable
  /\ UNCHANGED <<caseOf, continues, successor, queueVars, peopleVars, caseVars, dateVars,
                 holds, status, sweep, desk, reply>>

(* Row by row, outside any transaction, the history catches up. *)
DateClosure(c) ==
  /\ c \in closer
  /\ stateEpisode' = [stateEpisode EXCEPT ![c] = "CLOSED"]
  /\ DatedNow({c}, {})
  /\ closer' = closer \ {c}
  /\ UNCHANGED <<threadVars, queueVars, peopleVars, caseVars, holds, status,
                 sweep, desk, reply>>

(* The instance dies between two rows, or between the two statements of one. *)
CloserDies ==
  /\ closer # {}
  /\ closer' = {}
  /\ \/ UNCHANGED dateVars
     \/ \E c \in closer : /\ stateEpisode' = [stateEpisode EXCEPT ![c] = "NONE"]
                          /\ DatedNow({c}, {})
  /\ UNCHANGED <<threadVars, queueVars, peopleVars, caseVars, holds, status,
                 sweep, desk, reply>>

-----------------------------------------------------------------------------
SweepStep(s) ==
  \/ SweepSelect(s) \/ EnqueueOnly(s) \/ EnqueueForAdvisor(s)
  \/ AssignFromRouting(s) \/ AssignRefused(s) \/ SweepDies(s)

DeskStep(d) ==
  \/ \E c \in Conversations :
       \/ \E e \in Employees :
            \/ ClaimRequest(d, c, e)
            \/ \E op \in ReassignOps : ReassignRequest(d, op, c, e)
       \/ ResolveRequest(d, c)
       \/ ReopenRequest(d, c)
  \/ ClaimConversation(d) \/ ClaimRefused(d)
  \/ RaiseEscalationLevel(d) \/ Reassign(d)
  \/ Resolve(d) \/ StaffReopen(d) \/ LifecycleRefused(d)
  \/ RequestDies(d)

ReplyStepOf(r) ==
  \/ \E c \in Conversations : ReplyFollow(r, c) \/ ForkConversation(r, c)
  \/ ReplyReadHead(r) \/ ReviveInPlace(r) \/ ReviveRefused(r) \/ ReplyDies(r)

PeopleStep ==
  \/ \E c \in Conversations, by, e \in Employees :
       AddParticipant(c, by, e) \/ RemoveParticipant(c, by, e)
  \/ \E c \in Conversations, e \in Employees : OwnerReply(c, e)
  \/ \E e \in Employees : Deactivate(e)

Next ==
  \/ \E c \in Conversations, k \in Cases : Intake(c, k)
  \/ \E s \in Sweepers : SweepStep(s)
  \/ \E d \in Desks : DeskStep(d)
  \/ \E r \in Replies : ReplyStepOf(r)
  \/ PeopleStep
  \/ \E h \in holds : ReservationExpires(h)
  \/ \E k \in Cases : WindowExpires(k)
  \/ CloseExpired
  \/ \E c \in Conversations : DateClosure(c)
  \/ CloserDies

Spec == Init /\ [][Next]_vars

(* The sweep's timer keeps firing in a live instance, and a fault that keeps an
   item from being enqueued does not come back for ever. *)
SweepFairness ==
  \A s \in Sweepers : /\ WF_vars(SweepSelect(s))
                      /\ SF_vars(EnqueueOnly(s) \/ EnqueueForAdvisor(s))
                      /\ SF_vars(AssignFromRouting(s) \/ AssignRefused(s))

(* Time passes, and the closure sweep's timer keeps firing. *)
ClosureFairness == WF_vars(CloseExpired) /\ \A k \in Cases : WF_vars(WindowExpires(k))

FairSpec == Spec /\ SweepFairness /\ ClosureFairness

-----------------------------------------------------------------------------
(* What the code keeps.                                                     *)

(* Work that waits can be reached: a NEW conversation is one the next sweep
   selects, and a QUEUED one is owned by nobody and has the WAITING entry that
   a claim needs - whatever sweeps, claims, forks and deaths happened. *)
WaitingWorkIsReachable ==
  \A c \in Conversations :
    /\ convState[c] = "NEW" => c \in Unplaced
    /\ convState[c] = "QUEUED" => waiting[c] # None /\ ~claimed[c] /\ owner[c] = None

(* ASSIGNED is never a state without an accountable owner, and the queue
   entry that was consumed for it is on record. *)
AssignedWorkIsOwned ==
  \A c \in Conversations :
    convState[c] = "ASSIGNED" => owner[c] # None /\ claimed[c]

(* The state history that the clocks are computed from is in the state the
   conversation is in.  Two exceptions: intake writes no history row for NEW,
   and the closure sweep dates a CLOSED row later, or never if it dies. *)
HistoryFollowsState ==
  \A c \in Conversations :
    /\ convState[c] \notin {"NONE", "NEW", "CLOSED"} => stateEpisode[c] = convState[c]
    /\ convState[c] = "NEW" => stateEpisode[c] \in {"NONE", "NEW"}

(* The resolution clock of a case, which several threads share: a case that
   reads RESOLVED has its instant, and an instant belongs to a finished thread. *)
ResolutionIsCoherent ==
  \A k \in Cases :
    /\ caseState[k] = "RESOLVED" => resolvedAt[k] # "NONE"
    /\ resolvedAt[k] # "NONE" =>
         \E c \in Conversations : caseOf[c] = k /\ convState[c] \in Finished

(* Every move any writer makes is a row of the domain's state table: a claim
   in flight does not undo a revival, and nothing leaves CLOSED. *)
LifecycleConforms ==
  [][\A c \in Conversations :
       Exists(c) /\ convState'[c] # convState[c] => MayMove(convState[c], convState'[c])]_vars

(* Work that has an owner goes to another one only by a staff command naming
   that other, and the one who loses it loses the reply authority with it: no
   claim and no routing takes work somebody holds. *)
HandOverIsComplete ==
  [][\A c \in Conversations :
       owner[c] # None /\ owner'[c] \notin {None, owner[c]} =>
         /\ \E d \in Desks : /\ desk[d].conv = c /\ desk[d].who = owner'[c]
                             /\ desk[d].op \in ReassignOps \cup {"escalated"}
         /\ seat'[c][owner[c]] # "OWNER"
         /\ seat'[c][owner'[c]] = "OWNER"]_vars

(* As long as nobody is removed from a thread, the open ownership episode and
   the seat with reply authority are the same person's, whichever of claim,
   routing, hand-over, revival and fork wrote last. *)
OwnerHoldsTheSeat ==
  \A c \in Conversations : owner[c] # None => seat[c][owner[c]] = "OWNER"

(* However many staff requests race, episode and case name one owner: decisions
   read the case, notifications the episode.  A revival writes back the owner it
   read before its transaction, so this is promised only without replies. *)
EpisodeAgreesWithCase ==
  \A c \in Conversations : owner[c] # None => caseOwner[CaseOf(c)] = owner[c]

(* Work deferred after hours is a human's to take: the entry keeps every later
   sweep away from it, so no routing assigns it, opening hours or not. *)
DeferredWorkWaitsForAClaim ==
  [][\A c \in Conversations :
       waiting[c] # None /\ afterHours[c] /\ waiting'[c] = None =>
         \E d \in Desks : desk[d].op = "claim" /\ desk[d].conv = c]_vars

(* An arrival, and a fork, is placed: the sweep gets to it whatever dies. *)
ArrivalsAreQueued ==
  \A c \in Conversations : convState[c] = "NEW" ~> convState[c] \notin {"NONE", "NEW"}

(* The thread the customer would reopen does not stay resolved: it is reopened,
   forked or, its window once expired, closed by the sweep.  (One that was forked
   while still RESOLVED has lost its instant and waits for the case's next one.) *)
ResolutionEnds ==
  \A c \in Conversations :
    convState[c] = "RESOLVED" /\ successor[c] = None
      ~> convState[c] # "RESOLVED" \/ successor[c] # None

-----------------------------------------------------------------------------
(* What the comments of the code say, and the code does not keep.           *)

(* reopen-on-reply: a conversation whose owner has left reopens unowned "and
   the routing sweep places it like any other waiting work". *)
UnownedOpenWorkIsPlaceable ==
  \A c \in Conversations :
    Exists(c) /\ convState[c] \notin Finished /\ owner[c] = None
      => c \in Unplaced \/ waiting[c] # None
=============================================================================
