--------------------------- MODULE OwnershipProofs ---------------------------
(***************************************************************************)
(* Theorems about Ownership, for any number of conversations, cases,       *)
(* employees, API instances and requests in flight.                        *)
(*                                                                         *)
(* Typed is the type invariant together with what requests in flight point *)
(* at; Placed adds what keeps waiting and assigned work reachable.  Over   *)
(* them stand Dated (history and transitions), Entered (deferred work),    *)
(* Resolved (the resolution instant), Seated (the owner's seat) and Agreed *)
(* (episodes and cases).  Each is preserved by one lemma per kind of step. *)
(***************************************************************************)
EXTENDS Ownership, TLAPS

-----------------------------------------------------------------------------
(* The inductive strengthening of TypeOK: a conversation that exists is on a
   case, and what a request in flight remembers exists. *)

ThreadsAnchored == \A c \in Conversations : Exists(c) => caseOf[c] \in Cases

SweepsAnchored ==
  \A s \in Sweepers :
    /\ sweep[s].conv # None => Exists(sweep[s].conv) /\ sweep[s].to \in Employees
    /\ \A item \in sweep[s].todo : Exists(item.conv)

DesksAnchored ==
  \A d \in Desks :
    /\ desk[d].op # "idle" => desk[d].conv \in Conversations /\ Exists(desk[d].conv)
    /\ desk[d].op \in ReassignOps \cup {"claim", "escalated"} => desk[d].who \in Employees

RepliesAnchored ==
  \A r \in Replies :
    /\ reply[r].at # "idle" => reply[r].conv \in Conversations
    /\ reply[r].at \in {"revive", "fork"} => Exists(reply[r].conv)

Typed ==
  /\ TypeOK
  /\ ThreadsAnchored /\ SweepsAnchored /\ DesksAnchored /\ RepliesAnchored

LEMMA InitTyped == ASSUME Init PROVE Typed
  BY ConstantsAssumption
  DEF Init, Typed, TypeOK, ThreadsOK, QueueOK, PeopleOK, CasesOK, DatesOK, RequestsOK,
      ThreadsAnchored, SweepsAnchored, DesksAnchored, RepliesAnchored, States, OrNone,
      Requests, IdleSweep, IdleDesk, IdleReply, StaffOps, ReassignOps, Items, Exists

-----------------------------------------------------------------------------
(* What the shared operators return and preserve. *)

LEMMA InFlightTyped == InFlight \subseteq Requests
  BY DEF InFlight, Requests

LEMMA DatedNowTyped ==
  ASSUME DatesOK, NEW C, NEW D, DatedNow(C, D),
         stateEpisode' \in [Conversations -> States \cup {"NONE"}]
  PROVE  DatesOK'
  BY InFlightTyped DEF DatesOK, DatedNow

LEMMA DatedByTyped ==
  ASSUME DatesOK, NEW q \in Requests, NEW C, NEW D, DatedBy(q, C, D),
         stateEpisode' \in [Conversations -> States \cup {"NONE"}]
  PROVE  DatesOK'
  BY DEF DatesOK, DatedBy

LEMMA OverTyped ==
  ASSUME DatesOK, NEW q \in Requests, Over(q), UNCHANGED stateEpisode
  PROVE  DatesOK'
  BY DatedByTyped DEF DatesOK, Over

LEMMA StartedTyped ==
  ASSUME DatesOK, NEW q \in Requests, Started(q),
         UNCHANGED <<stateEpisode, stateDated, ownerDated>>
  PROVE  DatesOK'
  BY InFlightTyped DEF DatesOK, Started

LEMMA AdvanceTyped ==
  ASSUME ThreadsOK, CasesOK, DatesOK, NEW c, NEW from, NEW to \in States,
         Advance(c, from, to)
  PROVE  /\ convState' \in [Conversations -> States \cup {"NONE"}]
         /\ caseState' \in [Cases -> States \cup {"NONE"}]
         /\ stateEpisode' \in [Conversations -> States \cup {"NONE"}]
  BY DEF ThreadsOK, CasesOK, DatesOK, Advance

(* Nothing removes a conversation, whatever state it is given. *)
Persistent == \A c \in Conversations : Exists(c) => Exists(c)'

LEMMA AdvancePersistent ==
  ASSUME ThreadsOK, NEW c, NEW from, NEW to \in States, Advance(c, from, to)
  PROVE  Persistent
  BY DEF ThreadsOK, Advance, Exists, States, Persistent

LEMMA ReturnToActiveTyped ==
  ASSUME ThreadsOK, CasesOK, DatesOK, NEW c,
         reopenCount[CaseOf(c)] < MaxReopens, ReturnToActive(c)
  PROVE  /\ convState' \in [Conversations -> States \cup {"NONE"}]
         /\ caseState' \in [Cases -> States \cup {"NONE"}]
         /\ resolvedAt' \in [Cases -> {"NONE", "FRESH", "EXPIRED"}]
         /\ reopenCount' \in [Cases -> 0..MaxReopens]
         /\ stateEpisode' \in [Conversations -> States \cup {"NONE"}]
         /\ Persistent
<1> DEFINE k == CaseOf(c)
<1>1. reopenCount' \in [Cases -> 0..MaxReopens]
  <2>1. reopenCount' = [reopenCount EXCEPT ![k] = @ + 1]
    BY DEF ReturnToActive, CountReopen
  <2>2. k \in Cases => reopenCount[k] + 1 \in 0..MaxReopens
    BY ConstantsAssumption DEF CasesOK
  <2> QED BY <2>1, <2>2 DEF CasesOK
<1>2. /\ convState' \in [Conversations -> States \cup {"NONE"}]
      /\ caseState' \in [Cases -> States \cup {"NONE"}]
      /\ resolvedAt' \in [Cases -> {"NONE", "FRESH", "EXPIRED"}]
      /\ stateEpisode' \in [Conversations -> States \cup {"NONE"}]
  BY DEF ThreadsOK, CasesOK, DatesOK, ReturnToActive, CountReopen, States
<1>3. Persistent
  BY DEF ThreadsOK, ReturnToActive, Exists, Persistent
<1> QED BY <1>1, <1>2, <1>3

LEMMA SeatOwnerTyped ==
  ASSUME PeopleOK, NEW c, NEW e
  PROVE  SeatOwner(c, e) \in [Conversations -> [Employees -> {"NONE", "PARTICIPANT", "OWNER"}]]
  BY DEF PeopleOK, SeatOwner

LEMMA HandOverSeatTyped ==
  ASSUME PeopleOK, NEW c, NEW from, NEW to
  PROVE  HandOverSeat(c, from, to)
           \in [Conversations -> [Employees -> {"NONE", "PARTICIPANT", "OWNER"}]]
  BY DEF PeopleOK, HandOverSeat

LEMMA ConsumeEntryTyped ==
  ASSUME QueueOK, NEW c, ConsumeEntry(c)
  PROVE  QueueOK'
<1>1. waiting' \in [Conversations -> OrNone(Sweepers) \cup {"settled"}]
  BY DEF QueueOK, ConsumeEntry, OrNone
<1>2. /\ afterHours' \in [Conversations -> BOOLEAN]
      /\ claimed' \in [Conversations -> BOOLEAN]
  BY Zenon DEF QueueOK, ConsumeEntry
<1> QED BY <1>1, <1>2 DEF QueueOK

LEMMA SweepUpdated ==
  ASSUME RequestsOK, NEW s \in Sweepers, NEW todo \in SUBSET Items,
         NEW c \in OrNone(Conversations), NEW e \in OrNone(Employees),
         sweep' = [sweep EXCEPT ![s].todo = todo, ![s].conv = c, ![s].to = e],
         UNCHANGED <<desk, reply, closer>>
  PROVE  RequestsOK'
<1>1. sweep[s] \in [todo : SUBSET Items, hours : {"OPEN", "AFTER_HOURS"},
                    conv : OrNone(Conversations), to : OrNone(Employees)]
  BY DEF RequestsOK
<1>2. [[[sweep[s] EXCEPT !.todo = todo] EXCEPT !.conv = c] EXCEPT !.to = e]
        \in [todo : SUBSET Items, hours : {"OPEN", "AFTER_HOURS"},
             conv : OrNone(Conversations), to : OrNone(Employees)]
  BY <1>1
<1>3. sweep' = [sweep EXCEPT ![s] =
                  [[[sweep[s] EXCEPT !.todo = todo] EXCEPT !.conv = c] EXCEPT !.to = e]]
  BY DEF RequestsOK
<1> QED BY <1>2, <1>3 DEF RequestsOK

LEMMA ItemDoneTyped ==
  ASSUME RequestsOK, NEW s \in Sweepers, ItemDone(s), UNCHANGED <<desk, reply, closer>>
  PROVE  RequestsOK'
<1>1. sweep' = [sweep EXCEPT ![s].todo = sweep[s].todo, ![s].conv = None, ![s].to = None]
  BY DEF ItemDone, RequestsOK
<1>2. sweep[s].todo \in SUBSET Items
  BY DEF RequestsOK
<1> QED BY <1>1, <1>2, SweepUpdated DEF OrNone

(* What a step leaves alone stays anchored. *)
LEMMA SweepsStayAnchored ==
  ASSUME RequestsOK, SweepsAnchored, Persistent, UNCHANGED sweep
  PROVE  SweepsAnchored'
  BY ConstantsAssumption DEF RequestsOK, SweepsAnchored, Persistent, OrNone, Items

LEMMA DesksStayAnchored ==
  ASSUME DesksAnchored, Persistent, UNCHANGED desk
  PROVE  DesksAnchored'
  BY DEF DesksAnchored, Persistent

LEMMA DeskAnswered ==
  ASSUME RequestsOK, DesksAnchored, Persistent, NEW d \in Desks, Answered(d)
  PROVE  /\ DesksAnchored'
         /\ desk' \in [Desks -> [op : StaffOps \cup {"idle", "escalated"},
                                 conv : OrNone(Conversations), who : OrNone(Employees),
                                 from : States \cup {"NONE"}]]
<1>1. IdleDesk \in [op : StaffOps \cup {"idle", "escalated"},
                    conv : OrNone(Conversations), who : OrNone(Employees),
                    from : States \cup {"NONE"}]
  BY DEF IdleDesk, OrNone
<1>2. \A x \in Desks : desk'[x] = IF x = d THEN IdleDesk ELSE desk[x]
  BY DEF RequestsOK, Answered
<1>3. IdleDesk.op = "idle" /\ "idle" \notin ReassignOps \cup {"claim", "escalated"}
  BY DEF IdleDesk, ReassignOps
<1>4. DesksAnchored'
  BY <1>2, <1>3 DEF DesksAnchored, Persistent
<1> QED BY <1>1, <1>4 DEF RequestsOK, Answered

LEMMA RepliesStayAnchored ==
  ASSUME RepliesAnchored, Persistent, UNCHANGED reply
  PROVE  RepliesAnchored'
  BY DEF RepliesAnchored, Persistent

LEMMA ReplyAnswered ==
  ASSUME RequestsOK, RepliesAnchored, Persistent, NEW r \in Replies,
         reply' = [reply EXCEPT ![r] = IdleReply]
  PROVE  /\ RepliesAnchored'
         /\ reply' \in [Replies -> [at : {"idle", "followed", "revive", "fork"},
                                    conv : OrNone(Conversations), heir : OrNone(Employees)]]
<1>1. \A x \in Replies : reply'[x] = IF x = r THEN IdleReply ELSE reply[x]
  BY DEF RequestsOK
<1>2. RepliesAnchored'
  BY <1>1 DEF RepliesAnchored, Persistent, IdleReply
<1> QED BY <1>2 DEF RequestsOK, IdleReply, OrNone

LEMMA SamePersistent == ASSUME UNCHANGED convState PROVE Persistent
  BY DEF Persistent, Exists

-----------------------------------------------------------------------------
(* Every kind of step keeps Typed. *)

LEMMA IntakeTyped ==
  ASSUME Typed, NEW c \in Conversations, NEW k \in Cases, Intake(c, k)
  PROVE  Typed'
<1> USE DEF Typed, TypeOK
<1>1. Persistent
  BY DEF Intake, Persistent, Exists, ThreadsOK
<1>2. ThreadsOK' /\ QueueOK' /\ PeopleOK' /\ CasesOK'
  BY DEF Intake, ThreadsOK, QueueOK, PeopleOK, CasesOK, States, OrNone, queueVars, peopleVars
<1>3. DatesOK' /\ RequestsOK'
  BY DEF Intake, DatesOK, RequestsOK, dateVars
<1>4. ThreadsAnchored'
  BY DEF Intake, ThreadsAnchored, ThreadsOK, Exists
<1> QED
  BY <1>1, <1>2, <1>3, <1>4, SweepsStayAnchored, DesksStayAnchored, RepliesStayAnchored DEF Intake

LEMMA SweepSelectTyped ==
  ASSUME Typed, NEW s \in Sweepers, SweepSelect(s)
  PROVE  Typed'
<1> USE DEF Typed, TypeOK
<1> DEFINE found == {[conv |-> c, designated |-> designated[CaseOf(c)]] : c \in Unplaced}
<1>1. PICK hours \in Hours :
        sweep' = [sweep EXCEPT ![s] =
                    [todo |-> found, hours |-> hours, conv |-> None, to |-> None]]
  BY DEF SweepSelect
<1>2. /\ found \in SUBSET Items
      /\ \A item \in found : Exists(item.conv)
  BY DEF Unplaced, ThreadsAnchored, CasesOK, Items, CaseOf
<1>3. RequestsOK'
  BY <1>1, <1>2, ConstantsAssumption DEF SweepSelect, RequestsOK, OrNone
<1>4. \A x \in Sweepers : x # s => sweep'[x] = sweep[x]
  BY <1>1 DEF RequestsOK
<1>5. sweep'[s].todo = found /\ sweep'[s].conv = None
  BY <1>1 DEF RequestsOK
<1>6. Persistent
  BY SamePersistent DEF SweepSelect, threadVars
<1>7. SweepsAnchored'
  <2>1. UNCHANGED convState
    BY DEF SweepSelect, threadVars
  <2>2. \A item \in sweep'[s].todo : Exists(item.conv)
    BY <1>2, <1>5
  <2> HIDE DEF found
  <2> QED BY <1>4, <1>5, <2>1, <2>2 DEF SweepsAnchored, Exists
<1>8. /\ ThreadsOK' /\ QueueOK' /\ PeopleOK' /\ CasesOK' /\ DatesOK'
      /\ ThreadsAnchored'
  BY DEF SweepSelect, ThreadsOK, QueueOK, PeopleOK, CasesOK, DatesOK, ThreadsAnchored, Exists,
         threadVars, queueVars, peopleVars, caseVars, dateVars
<1> QED BY <1>3, <1>6, <1>7, <1>8, DesksStayAnchored, RepliesStayAnchored DEF SweepSelect

LEMMA EnqueueTyped ==
  ASSUME Typed, NEW s \in Sweepers, NEW item \in sweep[s].todo,
         NEW tag \in Sweepers \cup {"settled"}, Enqueue(s, item, tag)
  PROVE  /\ item \in Items
         /\ ThreadsOK' /\ QueueOK' /\ PeopleOK' /\ CasesOK'
         /\ stateEpisode' \in [Conversations -> States \cup {"NONE"}]
         /\ Persistent /\ ThreadsAnchored' /\ DesksAnchored' /\ RepliesAnchored'
<1> USE DEF Typed, TypeOK
<1>1. item \in Items
  BY DEF RequestsOK
<1>2. Advance(item.conv, {"NEW"}, "QUEUED") /\ "QUEUED" \in States
  BY DEF Enqueue, InsertEntry, States
<1>3. Persistent
  BY <1>2, AdvancePersistent
<1>4. ThreadsOK' /\ PeopleOK' /\ CasesOK'
  BY <1>2, AdvanceTyped DEF Enqueue, InsertEntry, ThreadsOK, PeopleOK, CasesOK, peopleVars
<1>5. waiting' \in [Conversations -> OrNone(Sweepers) \cup {"settled"}]
  BY DEF Enqueue, InsertEntry, QueueOK, OrNone
<1>6. /\ afterHours' \in [Conversations -> BOOLEAN]
      /\ claimed' \in [Conversations -> BOOLEAN]
  BY DEF Enqueue, InsertEntry, QueueOK
<1>7. ThreadsAnchored'
  BY <1>1, <1>2 DEF Enqueue, InsertEntry, Advance, ThreadsAnchored, SweepsAnchored, ThreadsOK, Items, Exists
<1> QED
  BY <1>1, <1>2, <1>3, <1>4, <1>5, <1>6, <1>7, AdvanceTyped, DesksStayAnchored,
     RepliesStayAnchored DEF Enqueue, InsertEntry, QueueOK

LEMMA EnqueueOnlyTyped ==
  ASSUME Typed, NEW s \in Sweepers, EnqueueOnly(s)
  PROVE  Typed'
<1> USE DEF Typed, TypeOK
<1>1. PICK item \in sweep[s].todo :
        /\ Enqueue(s, item, "settled")
        /\ DatedNow(Advanced(item.conv, {"NEW"}), {})
        /\ sweep' = [sweep EXCEPT ![s].todo = @ \ {item}]
  BY DEF EnqueueOnly
<1>2. /\ ThreadsOK' /\ QueueOK' /\ PeopleOK' /\ CasesOK'
      /\ stateEpisode' \in [Conversations -> States \cup {"NONE"}]
      /\ Persistent /\ ThreadsAnchored' /\ DesksAnchored' /\ RepliesAnchored'
  BY <1>1, EnqueueTyped
<1>3. DatesOK'
  BY <1>1, <1>2, DatedNowTyped
<1>4. \A x \in Sweepers : /\ sweep'[x].todo \subseteq sweep[x].todo
                          /\ sweep'[x].conv = sweep[x].conv
                          /\ sweep'[x].to = sweep[x].to
  BY <1>1 DEF RequestsOK
<1>5. RequestsOK'
  BY <1>1 DEF RequestsOK, Enqueue, InsertEntry
<1>6. SweepsAnchored'
  BY <1>2, <1>4, ConstantsAssumption DEF SweepsAnchored, RequestsOK, Persistent, Items, OrNone
<1> QED BY <1>2, <1>3, <1>5, <1>6

LEMMA EnqueueForAdvisorTyped ==
  ASSUME Typed, NEW s \in Sweepers, EnqueueForAdvisor(s)
  PROVE  Typed'
<1> USE DEF Typed, TypeOK
<1>1. PICK item \in sweep[s].todo :
        /\ item.designated # None
        /\ Enqueue(s, item, s)
        /\ Started(s)
        /\ stateDated' = [c \in Conversations |->
                            IF c \in Advanced(item.conv, {"NEW"})
                            THEN InFlight \cup {s} ELSE stateDated[c]]
        /\ UNCHANGED ownerDated
        /\ sweep' = [sweep EXCEPT ![s].todo = @ \ {item},
                                  ![s].conv = item.conv,
                                  ![s].to = item.designated]
  BY DEF EnqueueForAdvisor
<1>2. /\ item \in Items
      /\ ThreadsOK' /\ QueueOK' /\ PeopleOK' /\ CasesOK'
      /\ stateEpisode' \in [Conversations -> States \cup {"NONE"}]
      /\ Persistent /\ ThreadsAnchored' /\ DesksAnchored' /\ RepliesAnchored'
  BY <1>1, EnqueueTyped
<1>3. DatesOK'
  BY <1>1, <1>2, InFlightTyped DEF DatesOK, Started, Requests
<1>4. item.designated \in Employees /\ item.conv \in Conversations
  BY <1>1, <1>2 DEF Items, OrNone
<1>5. \A x \in Sweepers :
        /\ sweep'[x].todo \subseteq sweep[x].todo
        /\ x # s => sweep'[x].conv = sweep[x].conv /\ sweep'[x].to = sweep[x].to
        /\ x = s => sweep'[x].conv = item.conv /\ sweep'[x].to = item.designated
  BY <1>1 DEF RequestsOK
<1>6. RequestsOK'
  <2>1. sweep[s].todo \ {item} \in SUBSET Items
    BY DEF RequestsOK
  <2> QED BY <1>1, <1>4, <2>1, SweepUpdated DEF Enqueue, InsertEntry, OrNone
<1>7. SweepsAnchored'
  BY <1>2, <1>4, <1>5, ConstantsAssumption
  DEF SweepsAnchored, RequestsOK, Persistent, Items, OrNone
<1> QED BY <1>2, <1>3, <1>6, <1>7

LEMMA AssignFromRoutingTyped ==
  ASSUME Typed, NEW s \in Sweepers, AssignFromRouting(s)
  PROVE  Typed'
<1> USE DEF Typed, TypeOK
<1> DEFINE c == sweep[s].conv
           e == sweep[s].to
<1>1. c \in Conversations /\ Exists(c) /\ e \in Employees
  BY DEF AssignFromRouting, SweepsAnchored, RequestsOK, OrNone
<1>2. /\ Advance(c, AssignableFrom, "ASSIGNED") /\ "ASSIGNED" \in States
      /\ DatedBy(s, Advanced(c, AssignableFrom), {c})
      /\ s \in Requests
  BY DEF AssignFromRouting, States, Requests
<1>3. Persistent
  BY <1>2, AdvancePersistent
<1>4. ThreadsOK' /\ CasesOK'
  BY <1>1, <1>2, AdvanceTyped DEF AssignFromRouting, ThreadsOK, CasesOK, Own, OrNone
<1>5. QueueOK'
  BY ConsumeEntryTyped DEF AssignFromRouting
<1>6. PeopleOK'
  BY <1>1, SeatOwnerTyped DEF AssignFromRouting, PeopleOK, Own, OrNone
<1>7. DatesOK'
  BY <1>2, AdvanceTyped, DatedByTyped
<1>8. \A x \in Sweepers :
        /\ sweep'[x].todo = sweep[x].todo
        /\ x # s => sweep'[x].conv = sweep[x].conv /\ sweep'[x].to = sweep[x].to
        /\ x = s => sweep'[x].conv = None
  BY DEF AssignFromRouting, ItemDone, RequestsOK
<1>9. RequestsOK'
  BY ItemDoneTyped DEF AssignFromRouting
<1>10. SweepsAnchored'
  BY <1>3, <1>8, ConstantsAssumption DEF SweepsAnchored, RequestsOK, Persistent, Items, OrNone
<1>11. ThreadsAnchored'
  BY <1>1, <1>2 DEF AssignFromRouting, Advance, ThreadsAnchored, ThreadsOK, Exists
<1> QED
  BY <1>3, <1>4, <1>5, <1>6, <1>7, <1>9, <1>10, <1>11, DesksStayAnchored, RepliesStayAnchored
  DEF AssignFromRouting

LEMMA SweepOverTyped ==
  ASSUME Typed, NEW s \in Sweepers, AssignRefused(s) \/ SweepDies(s)
  PROVE  Typed'
<1> USE DEF Typed, TypeOK
<1>1. /\ Settled(s) /\ Over(s) /\ s \in Requests
      /\ UNCHANGED <<threadVars, afterHours, claimed, peopleVars, caseVars, stateEpisode,
                     holds, status, desk, reply, closer>>
  BY DEF AssignRefused, SweepDies, Requests
<1>2. Persistent
  BY <1>1, SamePersistent DEF threadVars
<1>3. ThreadsOK' /\ PeopleOK' /\ CasesOK' /\ ThreadsAnchored'
  BY <1>1 DEF ThreadsOK, PeopleOK, CasesOK, ThreadsAnchored, Exists, threadVars, peopleVars, caseVars
<1>4. QueueOK'
  BY <1>1 DEF Settled, QueueOK, OrNone
<1>5. DatesOK'
  BY <1>1, OverTyped
<1>6. RequestsOK'
  <2>1. CASE AssignRefused(s)
    BY <1>1, <2>1, ItemDoneTyped DEF AssignRefused
  <2>2. CASE SweepDies(s)
    BY <1>1, <2>2 DEF SweepDies, RequestsOK, IdleSweep, OrNone
  <2> QED BY <2>1, <2>2
<1>7. SweepsAnchored'
  <2>1. \A x \in Sweepers :
          /\ sweep'[x].todo \subseteq sweep[x].todo
          /\ x # s => sweep'[x].conv = sweep[x].conv /\ sweep'[x].to = sweep[x].to
          /\ x = s => sweep'[x].conv = None
    BY DEF AssignRefused, SweepDies, ItemDone, IdleSweep, RequestsOK
  <2> QED
    BY <1>2, <2>1, ConstantsAssumption DEF SweepsAnchored, RequestsOK, Persistent, Items, OrNone
<1> QED
  BY <1>1, <1>2, <1>3, <1>4, <1>5, <1>6, <1>7, DesksStayAnchored, RepliesStayAnchored

(* Any of the requests whose only effect is the record in desk. *)
LEMMA RequestTyped ==
  ASSUME Typed, NEW d \in Desks, NEW op \in StaffOps, NEW c \in Conversations,
         NEW who \in OrNone(Employees), NEW from \in States \cup {"NONE"},
         op \in ReassignOps \cup {"claim"} => who \in Employees,
         Request(d, op, c, who, from)
  PROVE  Typed'
<1> USE DEF Typed, TypeOK
<1>1. Persistent
  BY SamePersistent DEF Request, threadVars
<1>2. /\ ThreadsOK' /\ QueueOK' /\ PeopleOK' /\ CasesOK'
      /\ ThreadsAnchored'
  BY DEF Request, ThreadsOK, QueueOK, PeopleOK, CasesOK, ThreadsAnchored, Exists,
         threadVars, queueVars, peopleVars, caseVars
<1>3. DatesOK'
  BY StartedTyped DEF Request, DatesOK, Requests
<1>4. RequestsOK'
  BY DEF Request, RequestsOK, OrNone
<1>5. \A x \in Desks : desk'[x] = IF x = d THEN [op |-> op, conv |-> c, who |-> who, from |-> from]
                                  ELSE desk[x]
  BY DEF Request, RequestsOK
<1>6. DesksAnchored'
  BY <1>1, <1>5 DEF Request, DesksAnchored, Persistent, Exists, StaffOps
<1> QED
  BY <1>1, <1>2, <1>3, <1>4, <1>6, SweepsStayAnchored, RepliesStayAnchored DEF Request

LEMMA StaffRequestsTyped ==
  ASSUME Typed, NEW d \in Desks, NEW c \in Conversations,
         \/ \E e \in Employees : \/ ClaimRequest(d, c, e)
                                 \/ \E op \in ReassignOps : ReassignRequest(d, op, c, e)
         \/ ResolveRequest(d, c)
         \/ ReopenRequest(d, c)
  PROVE  Typed'
<1>1. CASE \E e \in Employees : ClaimRequest(d, c, e)
  BY <1>1, RequestTyped DEF ClaimRequest, StaffOps, OrNone
<1>2. CASE \E e \in Employees, op \in ReassignOps : ReassignRequest(d, op, c, e)
  BY <1>2, RequestTyped DEF ReassignRequest, StaffOps, OrNone
<1>3. CASE ResolveRequest(d, c)
  <2>1. convState[c] \in States \cup {"NONE"}
    BY DEF Typed, TypeOK, ThreadsOK
  <2> QED BY <1>3, <2>1, RequestTyped DEF ResolveRequest, StaffOps, ReassignOps, OrNone
<1>4. CASE ReopenRequest(d, c)
  BY <1>4, RequestTyped DEF ReopenRequest, StaffOps, ReassignOps, OrNone
<1> QED BY <1>1, <1>2, <1>3, <1>4

LEMMA ClaimConversationTyped ==
  ASSUME Typed, NEW d \in Desks, ClaimConversation(d)
  PROVE  Typed'
<1> USE DEF Typed, TypeOK
<1> DEFINE c == desk[d].conv
           e == desk[d].who
<1>1. c \in Conversations /\ Exists(c) /\ e \in Employees
  BY DEF ClaimConversation, DesksAnchored
<1>2. /\ Advance(c, AssignableFrom, "ASSIGNED") /\ "ASSIGNED" \in States
      /\ DatedNow(Advanced(c, AssignableFrom), {c})
  BY DEF ClaimConversation, States
<1>3. Persistent
  BY <1>2, AdvancePersistent
<1>4. ThreadsOK' /\ CasesOK'
  BY <1>1, <1>2, AdvanceTyped DEF ClaimConversation, ThreadsOK, CasesOK, Own, OrNone
<1>5. QueueOK'
  BY ConsumeEntryTyped DEF ClaimConversation
<1>6. PeopleOK'
  BY <1>1, SeatOwnerTyped DEF ClaimConversation, PeopleOK, Own, OrNone
<1>7. DatesOK'
  BY <1>2, AdvanceTyped, DatedNowTyped
<1>8. RequestsOK' /\ DesksAnchored'
  BY <1>3, DeskAnswered DEF ClaimConversation, RequestsOK
<1>9. ThreadsAnchored'
  BY <1>1, <1>2 DEF ClaimConversation, Advance, ThreadsAnchored, ThreadsOK, Exists
<1> QED
  BY <1>3, <1>4, <1>5, <1>6, <1>7, <1>8, <1>9, SweepsStayAnchored, RepliesStayAnchored
  DEF ClaimConversation

LEMMA UnansweredTyped ==
  ASSUME Typed, NEW d \in Desks, Unanswered(d)
  PROVE  Typed'
<1> USE DEF Typed, TypeOK
<1>1. Persistent
  BY SamePersistent DEF Unanswered, threadVars
<1>2. /\ ThreadsOK' /\ QueueOK' /\ PeopleOK' /\ CasesOK'
      /\ ThreadsAnchored'
  BY DEF Unanswered, ThreadsOK, QueueOK, PeopleOK, CasesOK, ThreadsAnchored, Exists,
         threadVars, queueVars, peopleVars, caseVars
<1>3. DatesOK'
  BY OverTyped DEF Unanswered, Requests
<1>4. RequestsOK' /\ DesksAnchored'
  BY <1>1, DeskAnswered DEF Unanswered, RequestsOK
<1> QED
  BY <1>1, <1>2, <1>3, <1>4, SweepsStayAnchored, RepliesStayAnchored DEF Unanswered

LEMMA RaiseEscalationLevelTyped ==
  ASSUME Typed, NEW d \in Desks, RaiseEscalationLevel(d)
  PROVE  Typed'
<1> USE DEF Typed, TypeOK
<1>1. Persistent
  BY SamePersistent DEF RaiseEscalationLevel, threadVars
<1>2. /\ ThreadsOK' /\ QueueOK' /\ PeopleOK' /\ DatesOK'
      /\ ThreadsAnchored'
  BY DEF RaiseEscalationLevel, ThreadsOK, QueueOK, PeopleOK, DatesOK, ThreadsAnchored, Exists,
         threadVars, queueVars, peopleVars, dateVars
<1>3. CasesOK'
  <2> DEFINE k == CaseOf(desk[d].conv)
  <2>1. level' = [level EXCEPT ![k] = @ + 1] /\ level[k] < MaxLevel
    BY DEF RaiseEscalationLevel
  <2>2. k \in Cases => level[k] + 1 \in 0..MaxLevel
    BY <2>1, ConstantsAssumption DEF CasesOK
  <2>3. level' \in [Cases -> 0..MaxLevel]
    BY <2>1, <2>2 DEF CasesOK
  <2> QED BY <2>3 DEF RaiseEscalationLevel, CasesOK
<1>4. RequestsOK'
  BY DEF RaiseEscalationLevel, RequestsOK
<1>5. \A x \in Desks : /\ desk'[x].conv = desk[x].conv /\ desk'[x].who = desk[x].who
                       /\ desk'[x].op = IF x = d THEN "escalated" ELSE desk[x].op
  BY DEF RaiseEscalationLevel, RequestsOK
<1>6. DesksAnchored'
  BY <1>1, <1>5 DEF RaiseEscalationLevel, DesksAnchored, Persistent, ReassignOps
<1> QED
  BY <1>1, <1>2, <1>3, <1>4, <1>6, SweepsStayAnchored, RepliesStayAnchored
  DEF RaiseEscalationLevel

LEMMA ReassignTyped ==
  ASSUME Typed, NEW d \in Desks, Reassign(d)
  PROVE  Typed'
<1> USE DEF Typed, TypeOK
<1> DEFINE c == desk[d].conv
           to == desk[d].who
<1>1. to \in Employees
  BY DEF Reassign, DesksAnchored, ReassignOps
<1>2. Persistent
  BY SamePersistent DEF Reassign, threadVars
<1>3. ThreadsOK' /\ QueueOK' /\ ThreadsAnchored'
  BY DEF Reassign, ThreadsOK, QueueOK, ThreadsAnchored, Exists, threadVars, queueVars
<1>4. PeopleOK'
  BY <1>1, HandOverSeatTyped DEF Reassign, PeopleOK, Own, OrNone
<1>5. CasesOK'
  BY <1>1 DEF Reassign, CasesOK, Own, OrNone
<1>6. DatesOK'
  BY DatedByTyped DEF Reassign, DatesOK, Requests
<1>7. RequestsOK' /\ DesksAnchored'
  BY <1>2, DeskAnswered DEF Reassign, RequestsOK
<1> QED
  BY <1>2, <1>3, <1>4, <1>5, <1>6, <1>7, SweepsStayAnchored, RepliesStayAnchored DEF Reassign

LEMMA ResolveTyped ==
  ASSUME Typed, NEW d \in Desks, Resolve(d)
  PROVE  Typed'
<1> USE DEF Typed, TypeOK
<1>1. Persistent
  BY DEF Resolve, Persistent, Exists, ThreadsOK
<1>2. ThreadsOK' /\ QueueOK' /\ PeopleOK' /\ CasesOK'
  BY DEF Resolve, ThreadsOK, QueueOK, PeopleOK, CasesOK, States, queueVars, peopleVars
<1>3. stateEpisode' \in [Conversations -> States \cup {"NONE"}]
  BY DEF Resolve, DatesOK, States
<1>4. DatesOK'
  BY <1>3, DatedByTyped DEF Resolve, Requests
<1>5. RequestsOK' /\ DesksAnchored'
  BY <1>1, DeskAnswered DEF Resolve, RequestsOK
<1>6. ThreadsAnchored'
  BY DEF Resolve, ThreadsAnchored, DesksAnchored, ThreadsOK, Exists
<1> QED
  BY <1>1, <1>2, <1>4, <1>5, <1>6, SweepsStayAnchored, RepliesStayAnchored DEF Resolve

LEMMA StaffReopenTyped ==
  ASSUME Typed, NEW d \in Desks, StaffReopen(d)
  PROVE  Typed'
<1> USE DEF Typed, TypeOK
<1> DEFINE c == desk[d].conv
<1>1. /\ reopenCount[CaseOf(c)] < MaxReopens /\ ReturnToActive(c)
      /\ DatedBy(d, {c}, {}) /\ d \in Requests
  BY DEF StaffReopen, Requests
<1>2. Persistent
  BY <1>1, ReturnToActiveTyped
<1>3. ThreadsOK' /\ QueueOK' /\ PeopleOK' /\ CasesOK'
  BY <1>1, ReturnToActiveTyped
  DEF StaffReopen, ThreadsOK, QueueOK, PeopleOK, CasesOK, queueVars, peopleVars
<1>4. DatesOK'
  BY <1>1, ReturnToActiveTyped, DatedByTyped
<1>5. RequestsOK' /\ DesksAnchored'
  BY <1>2, DeskAnswered DEF StaffReopen, RequestsOK
<1>6. ThreadsAnchored'
  BY <1>1 DEF StaffReopen, ReturnToActive, ThreadsAnchored, ThreadsOK, Exists
<1> QED
  BY <1>2, <1>3, <1>4, <1>5, <1>6, SweepsStayAnchored, RepliesStayAnchored DEF StaffReopen

LEMMA PeopleStepTyped ==
  ASSUME Typed, PeopleStep
  PROVE  Typed'
<1> USE DEF Typed, TypeOK
<1>1. CASE \E c \in Conversations, by, e \in Employees :
             AddParticipant(c, by, e) \/ RemoveParticipant(c, by, e)
  <2>1. /\ PeopleOK'
        /\ UNCHANGED <<threadVars, queueVars, caseVars, dateVars, sweep, desk, reply, closer>>
    BY <1>1 DEF AddParticipant, RemoveParticipant, PeopleOK
  <2>2. Persistent
    BY <2>1, SamePersistent DEF threadVars
  <2>3. ThreadsOK' /\ QueueOK' /\ CasesOK' /\ DatesOK' /\ RequestsOK' /\ ThreadsAnchored'
    BY <2>1 DEF ThreadsOK, QueueOK, CasesOK, DatesOK, RequestsOK, ThreadsAnchored, Exists,
                threadVars, queueVars, caseVars, dateVars
  <2> QED
    BY <2>1, <2>2, <2>3, SweepsStayAnchored, DesksStayAnchored, RepliesStayAnchored
<1>2. ASSUME NEW c \in Conversations, NEW e \in Employees, OwnerReply(c, e)
      PROVE  Typed'
  <2>1. /\ Advance(c, {"ASSIGNED"}, "ACTIVE") /\ "ACTIVE" \in States
        /\ DatedNow({c}, {})
    BY <1>2 DEF OwnerReply, States
  <2>2. Persistent
    BY <2>1, AdvancePersistent
  <2>3. ThreadsOK' /\ QueueOK' /\ PeopleOK' /\ CasesOK' /\ RequestsOK'
    BY <1>2, <2>1, AdvanceTyped
    DEF OwnerReply, ThreadsOK, QueueOK, PeopleOK, CasesOK, RequestsOK, queueVars, peopleVars
  <2>4. DatesOK'
    BY <2>1, AdvanceTyped, DatedNowTyped
  <2>5. ThreadsAnchored'
    BY <1>2, <2>1 DEF OwnerReply, Advance, ThreadsAnchored, ThreadsOK, Exists
  <2> QED
    BY <1>2, <2>2, <2>3, <2>4, <2>5, SweepsStayAnchored, DesksStayAnchored, RepliesStayAnchored
    DEF OwnerReply
<1>3. CASE \E e \in Employees : Deactivate(e)
  <2>1. /\ PeopleOK'
        /\ UNCHANGED <<threadVars, queueVars, caseVars, dateVars, sweep, desk, reply, closer>>
    BY <1>3 DEF Deactivate, PeopleOK, peopleVars
  <2>2. Persistent
    BY <2>1, SamePersistent DEF threadVars
  <2>3. ThreadsOK' /\ QueueOK' /\ CasesOK' /\ DatesOK' /\ RequestsOK' /\ ThreadsAnchored'
    BY <2>1 DEF ThreadsOK, QueueOK, CasesOK, DatesOK, RequestsOK, ThreadsAnchored, Exists,
                threadVars, queueVars, caseVars, dateVars
  <2> QED
    BY <2>1, <2>2, <2>3, SweepsStayAnchored, DesksStayAnchored, RepliesStayAnchored
<1> QED BY <1>1, <1>2, <1>3 DEF PeopleStep

LEMMA ReplyStepTyped ==
  ASSUME Typed, NEW r \in Replies, NEW conv \in OrNone(Conversations),
         NEW at \in {"idle", "revive", "fork"}, NEW heir \in OrNone(Employees),
         at # "idle" => conv \in Conversations /\ Exists(conv),
         ReplyStep(r, [at |-> at, conv |-> conv, heir |-> heir])
  PROVE  Typed'
<1> USE DEF Typed, TypeOK
<1> DEFINE new == [at |-> at, conv |-> conv, heir |-> heir]
<1>1. Persistent
  BY SamePersistent DEF ReplyStep, threadVars
<1>2. /\ ThreadsOK' /\ QueueOK' /\ PeopleOK' /\ CasesOK'
      /\ ThreadsAnchored'
  BY DEF ReplyStep, ThreadsOK, QueueOK, PeopleOK, CasesOK, ThreadsAnchored, Exists,
         threadVars, queueVars, peopleVars, caseVars
<1>3. DatesOK'
  <2>1. CASE new = IdleReply
    BY <2>1, OverTyped DEF ReplyStep, Requests
  <2>2. CASE new # IdleReply
    BY <2>2 DEF ReplyStep, DatesOK
  <2> QED BY <2>1, <2>2
<1>4. RequestsOK'
  BY DEF ReplyStep, RequestsOK
<1>5. \A x \in Replies : reply'[x] = IF x = r THEN new ELSE reply[x]
  BY DEF ReplyStep, RequestsOK
<1>6. RepliesAnchored'
  BY <1>1, <1>5 DEF RepliesAnchored, Persistent
<1> QED
  BY <1>1, <1>2, <1>3, <1>4, <1>6, SweepsStayAnchored, DesksStayAnchored DEF ReplyStep

LEMMA ReplyOverTyped ==
  ASSUME Typed, NEW r \in Replies, ReviveRefused(r) \/ ReplyDies(r)
  PROVE  Typed'
  BY ReplyStepTyped DEF ReviveRefused, ReplyDies, IdleReply, OrNone

LEMMA ReplyFollowTyped ==
  ASSUME Typed, NEW r \in Replies, NEW c \in Conversations, ReplyFollow(r, c)
  PROVE  Typed'
<1> USE DEF Typed, TypeOK
<1>1. PICK head \in Conversations :
        reply' = [reply EXCEPT ![r] = [at |-> "followed", conv |-> head, heir |-> None]]
  BY DEF ReplyFollow
<1>2. Persistent
  BY SamePersistent DEF ReplyFollow, threadVars
<1>3. /\ ThreadsOK' /\ QueueOK' /\ PeopleOK' /\ CasesOK'
      /\ ThreadsAnchored'
  BY DEF ReplyFollow, ThreadsOK, QueueOK, PeopleOK, CasesOK, ThreadsAnchored, Exists,
         threadVars, queueVars, peopleVars, caseVars
<1>4. DatesOK'
  BY StartedTyped DEF ReplyFollow, Requests
<1>5. RequestsOK'
  BY <1>1 DEF ReplyFollow, RequestsOK, OrNone
<1>6. \A x \in Replies : reply'[x] = IF x = r THEN [at |-> "followed", conv |-> head, heir |-> None]
                                     ELSE reply[x]
  BY <1>1 DEF RequestsOK
<1>7. RepliesAnchored'
  BY <1>2, <1>6 DEF RepliesAnchored, Persistent
<1> QED
  BY <1>2, <1>3, <1>4, <1>5, <1>7, SweepsStayAnchored, DesksStayAnchored DEF ReplyFollow

LEMMA ReplyReadHeadTyped ==
  ASSUME Typed, NEW r \in Replies, ReplyReadHead(r)
  PROVE  Typed'
<1> USE DEF Typed, TypeOK
<1> DEFINE c == reply[r].conv
           what == ReopenDecision(c)
<1>1. c \in Conversations
  BY DEF ReplyReadHead, RepliesAnchored
<1>2. CASE what = "idle"
  BY <1>2, ReplyStepTyped DEF ReplyReadHead, IdleReply, OrNone
<1>3. CASE what # "idle"
  <2>1. what \in {"revive", "fork"} /\ Exists(c)
    BY <1>1, <1>3 DEF ReopenDecision, Exists, Finished
  <2>2. ActiveOwner(CaseOf(c)) \in OrNone(Employees)
    BY <1>1, <2>1 DEF ActiveOwner, CaseOf, CasesOK, ThreadsAnchored, OrNone
  <2> QED BY <1>1, <1>3, <2>1, <2>2, ReplyStepTyped DEF ReplyReadHead, OrNone
<1> QED BY <1>2, <1>3

LEMMA ReviveInPlaceTyped ==
  ASSUME Typed, NEW r \in Replies, ReviveInPlace(r)
  PROVE  Typed'
<1> USE DEF Typed, TypeOK
<1> DEFINE c == reply[r].conv
           heir == reply[r].heir
           drops == heir = None /\ owner[c] # None
<1>1. /\ reopenCount[CaseOf(c)] < MaxReopens /\ ReturnToActive(c)
      /\ caseOwner' = [caseOwner EXCEPT ![CaseOf(c)] = heir]
      /\ owner' = IF drops THEN [owner EXCEPT ![c] = None] ELSE owner
      /\ DatedBy(r, {c}, IF drops THEN {c} ELSE {}) /\ r \in Requests
      /\ heir \in OrNone(Employees)
  BY DEF ReviveInPlace, Requests, RequestsOK
<1>2. Persistent
  BY <1>1, ReturnToActiveTyped
<1>3. ThreadsOK' /\ QueueOK'
  BY <1>1, ReturnToActiveTyped DEF ReviveInPlace, ThreadsOK, QueueOK, queueVars
<1>4. PeopleOK'
  BY <1>1 DEF ReviveInPlace, PeopleOK, OrNone
<1>5. caseOwner' \in [Cases -> OrNone(Employees)]
  BY <1>1 DEF CasesOK
<1>6. CasesOK'
  BY <1>1, <1>5, ReturnToActiveTyped DEF ReviveInPlace, CasesOK
<1>7. DatesOK'
  BY <1>1, ReturnToActiveTyped, DatedByTyped
<1>8. RequestsOK' /\ RepliesAnchored'
  BY <1>2, ReplyAnswered DEF ReviveInPlace, RequestsOK
<1>9. ThreadsAnchored'
  BY <1>1 DEF ReviveInPlace, ReturnToActive, ThreadsAnchored, ThreadsOK, Exists
<1> QED
  BY <1>2, <1>3, <1>4, <1>6, <1>7, <1>8, <1>9, SweepsStayAnchored, DesksStayAnchored DEF ReviveInPlace

LEMMA ForkConversationTyped ==
  ASSUME Typed, NEW r \in Replies, NEW new \in Conversations, ForkConversation(r, new)
  PROVE  Typed'
<1> USE DEF Typed, TypeOK
<1> DEFINE c == reply[r].conv
           k == CaseOf(c)
<1>1. c \in Conversations /\ Exists(c) /\ k \in Cases /\ reply[r].heir \in OrNone(Employees)
  BY DEF ForkConversation, RepliesAnchored, ThreadsAnchored, CaseOf, RequestsOK
<1>2. Persistent
  BY DEF ForkConversation, Persistent, Exists, ThreadsOK
<1>3. ThreadsOK' /\ ThreadsAnchored'
  BY <1>1 DEF ForkConversation, ThreadsOK, ThreadsAnchored, Exists, States, OrNone
<1>4. QueueOK' /\ PeopleOK'
  BY <1>1 DEF ForkConversation, QueueOK, PeopleOK, OrNone, queueVars
<1>5. CasesOK'
  <2>1. reopenCount' = [reopenCount EXCEPT ![k] = @ + 1] /\ reopenCount[k] < MaxReopens
    BY DEF ForkConversation, CountReopen
  <2>2. reopenCount[k] + 1 \in 0..MaxReopens
    BY <1>1, <2>1, ConstantsAssumption DEF CasesOK
  <2>3. reopenCount' \in [Cases -> 0..MaxReopens]
    BY <2>1, <2>2 DEF CasesOK
  <2> QED BY <1>1, <2>3 DEF ForkConversation, CountReopen, CasesOK, States
<1>6. stateEpisode' \in [Conversations -> States \cup {"NONE"}]
  BY DEF ForkConversation, DatesOK, States
<1>7. DatesOK'
  BY <1>6, DatedByTyped DEF ForkConversation, Requests
<1>8. RequestsOK' /\ RepliesAnchored'
  BY <1>2, ReplyAnswered DEF ForkConversation, RequestsOK
<1> QED
  BY <1>2, <1>3, <1>4, <1>5, <1>7, <1>8, SweepsStayAnchored, DesksStayAnchored
  DEF ForkConversation

LEMMA ClockStepsTyped ==
  ASSUME Typed,
         (\E h \in holds : ReservationExpires(h)) \/ (\E k \in Cases : WindowExpires(k))
  PROVE  Typed'
<1> USE DEF Typed, TypeOK
<1>1. UNCHANGED <<threadVars, queueVars, dateVars, sweep, desk, reply, closer>>
  BY DEF ReservationExpires, WindowExpires
<1>2. PeopleOK' /\ CasesOK'
  BY DEF ReservationExpires, WindowExpires, PeopleOK, CasesOK, peopleVars, caseVars
<1>3. Persistent
  BY <1>1, SamePersistent DEF threadVars
<1>4. ThreadsOK' /\ QueueOK' /\ DatesOK' /\ RequestsOK' /\ ThreadsAnchored'
  BY <1>1 DEF ThreadsOK, QueueOK, DatesOK, RequestsOK, ThreadsAnchored, Exists,
              threadVars, queueVars, dateVars
<1> QED
  BY <1>1, <1>2, <1>3, <1>4, SweepsStayAnchored, DesksStayAnchored, RepliesStayAnchored

LEMMA ClosureStepsTyped ==
  ASSUME Typed, CloseExpired \/ (\E c \in Conversations : DateClosure(c)) \/ CloserDies
  PROVE  Typed'
<1> USE DEF Typed, TypeOK
<1>1. /\ UNCHANGED <<caseOf, continues, successor, queueVars, peopleVars, caseVars, holds,
                     status, sweep, desk, reply>>
      /\ convState' = convState \/ convState' = [c \in Conversations |->
                                     IF c \in Closable THEN "CLOSED" ELSE convState[c]]
  BY DEF CloseExpired, DateClosure, CloserDies, threadVars
<1>2. Persistent
  BY <1>1 DEF Persistent, Exists
<1>3. ThreadsOK' /\ QueueOK' /\ PeopleOK' /\ CasesOK'
  BY <1>1 DEF ThreadsOK, QueueOK, PeopleOK, CasesOK, States, queueVars, peopleVars, caseVars
<1>4. RequestsOK'
  BY <1>1 DEF RequestsOK, CloseExpired, DateClosure, CloserDies, Closable
<1>5. ThreadsAnchored'
  BY <1>1 DEF ThreadsAnchored, Exists, Closable
<1>6. DatesOK'
  <2>1. CASE CloseExpired
    BY <2>1 DEF CloseExpired, DatesOK, dateVars
  <2>2. CASE \E c \in Conversations : DateClosure(c)
    BY <2>2, DatedNowTyped DEF DateClosure, DatesOK, States
  <2>3. CASE CloserDies
    BY <2>3, DatedNowTyped DEF CloserDies, DatesOK, dateVars
  <2> QED BY <2>1, <2>2, <2>3
<1> QED
  BY <1>1, <1>2, <1>3, <1>4, <1>5, <1>6, SweepsStayAnchored, DesksStayAnchored,
     RepliesStayAnchored

LEMMA NextTyped == ASSUME Typed, [Next]_vars PROVE Typed'
<1>1. CASE UNCHANGED vars
  BY <1>1 DEF Typed, TypeOK, ThreadsOK, QueueOK, PeopleOK, CasesOK, DatesOK, RequestsOK,
              ThreadsAnchored, SweepsAnchored, DesksAnchored, RepliesAnchored, Exists,
              vars, threadVars, queueVars, peopleVars, caseVars, dateVars
<1>2. CASE \E c \in Conversations, k \in Cases : Intake(c, k)
  BY <1>2, IntakeTyped
<1>3. ASSUME NEW s \in Sweepers, SweepStep(s) PROVE Typed'
  BY <1>3, SweepSelectTyped, EnqueueOnlyTyped, EnqueueForAdvisorTyped, AssignFromRoutingTyped,
     SweepOverTyped DEF SweepStep
<1>4. ASSUME NEW d \in Desks, DeskStep(d) PROVE Typed'
  <2>1. CASE ClaimRefused(d) \/ LifecycleRefused(d) \/ RequestDies(d)
    BY <2>1, UnansweredTyped DEF ClaimRefused, LifecycleRefused, RequestDies
  <2> QED
    BY <1>4, <2>1, StaffRequestsTyped, ClaimConversationTyped, RaiseEscalationLevelTyped,
       ReassignTyped, ResolveTyped, StaffReopenTyped DEF DeskStep
<1>5. ASSUME NEW r \in Replies, ReplyStepOf(r) PROVE Typed'
  BY <1>5, ReplyFollowTyped, ReplyReadHeadTyped, ReviveInPlaceTyped, ForkConversationTyped,
     ReplyOverTyped DEF ReplyStepOf
<1> QED
  BY <1>1, <1>2, <1>3, <1>4, <1>5, PeopleStepTyped, ClockStepsTyped, ClosureStepsTyped
  DEF Next

THEOREM TypedAlways == Spec => []Typed
  BY InitTyped, NextTyped, PTL DEF Spec

(* TypeOK of Ownership: every row and every request in flight keeps its type. *)
THEOREM TypeCorrect == Spec => []TypeOK
<1>1. Typed => TypeOK
  BY DEF Typed
<1> QED BY <1>1, TypedAlways, PTL

-----------------------------------------------------------------------------
(* The inductive strengthening of WaitingWorkIsReachable and AssignedWorkIsOwned.

   A hand-over writes an owner without looking at the state, and a reply that
   was read long ago takes the owner away: both are harmless only because what
   they were read from cannot have come back to NEW or QUEUED, or to ASSIGNED. *)

PastAssignment == States \ {"NEW", "QUEUED", "ASSIGNED"}

ThreadsPlaced ==
  \A c \in Conversations :
    /\ convState[c] \in {"NONE", "NEW"} => waiting[c] = None /\ ~claimed[c] /\ owner[c] = None
    /\ convState[c] = "QUEUED" => waiting[c] # None /\ ~claimed[c] /\ owner[c] = None
    /\ convState[c] = "ASSIGNED" => owner[c] # None
    /\ owner[c] # None => claimed[c]

HandOversAreOfClaimedWork ==
  \A d \in Desks : desk[d].op \in ReassignOps \cup {"escalated"} => claimed[desk[d].conv]

RepliesAreToAnsweredWork ==
  \A r \in Replies :
    reply[r].at \in {"revive", "fork"} => convState[reply[r].conv] \in PastAssignment

Placed ==
  /\ Typed
  /\ ThreadsPlaced /\ HandOversAreOfClaimedWork /\ RepliesAreToAnsweredWork

LEMMA InitPlaced == ASSUME Init PROVE Placed
  BY InitTyped
  DEF Init, Placed, ThreadsPlaced, HandOversAreOfClaimedWork,
      RepliesAreToAnsweredWork, IdleDesk, IdleReply, ReassignOps

(* No step takes a claim back, or an answered conversation to where it waits. *)
Onward ==
  \A c \in Conversations :
    /\ claimed[c] => claimed'[c]
    /\ convState[c] \in PastAssignment => convState'[c] \in PastAssignment

LEMMA HandOversStay ==
  ASSUME DesksAnchored, HandOversAreOfClaimedWork, Onward,
         \A d \in Desks : desk'[d] = desk[d] \/ desk'[d].op \notin ReassignOps \cup {"escalated"}
  PROVE  HandOversAreOfClaimedWork'
  BY DEF DesksAnchored, HandOversAreOfClaimedWork, Onward, ReassignOps

LEMMA RepliesStay ==
  ASSUME RepliesAnchored, RepliesAreToAnsweredWork, Onward,
         \A r \in Replies : reply'[r] = reply[r] \/ reply'[r].at \notin {"revive", "fork"}
  PROVE  RepliesAreToAnsweredWork'
  BY DEF RepliesAnchored, RepliesAreToAnsweredWork, Onward

LEMMA DesksIdle ==
  ASSUME RequestsOK, NEW d \in Desks, Answered(d)
  PROVE  \A x \in Desks : desk'[x] = desk[x] \/ desk'[x].op \notin ReassignOps \cup {"escalated"}
  BY DEF RequestsOK, Answered, IdleDesk, ReassignOps

(* Steps that touch neither the state, the queue nor the owner of any thread. *)
LEMMA SameThreads ==
  ASSUME ThreadsPlaced, UNCHANGED <<convState, waiting, claimed, owner>>
  PROVE  ThreadsPlaced' /\ Onward
  BY DEF ThreadsPlaced, Onward

LEMMA IntakePlaced ==
  ASSUME Placed, NEW c \in Conversations, NEW k \in Cases, Intake(c, k)
  PROVE  ThreadsPlaced' /\ Onward
<1>1. /\ convState[c] = "NONE"
      /\ \A x \in Conversations : convState'[x] = IF x = c THEN "NEW" ELSE convState[x]
      /\ UNCHANGED <<waiting, claimed, owner>>
  BY DEF Placed, Typed, TypeOK, ThreadsOK, Intake, Exists, queueVars, peopleVars
<1> QED BY <1>1 DEF Placed, ThreadsPlaced, Onward, PastAssignment, States

LEMMA EnqueuePlaced ==
  ASSUME Placed, NEW s \in Sweepers, NEW item \in sweep[s].todo,
         NEW tag \in Sweepers \cup {"settled"}, Enqueue(s, item, tag)
  PROVE  ThreadsPlaced' /\ Onward
<1> DEFINE c == item.conv
<1> USE DEF Placed, Typed, TypeOK
<1>1. c \in Conversations /\ convState[c] # "NONE" /\ tag # None
  BY ConstantsAssumption DEF RequestsOK, Items, SweepsAnchored, Exists
<1>2. /\ \A x \in Conversations : x # c => convState'[x] = convState[x] /\ waiting'[x] = waiting[x]
      /\ waiting'[c] # None
      /\ convState'[c] = IF convState[c] = "NEW" THEN "QUEUED" ELSE convState[c]
      /\ claimed' = claimed /\ owner' = owner
  BY <1>1 DEF Enqueue, InsertEntry, Advance, ThreadsOK, QueueOK, peopleVars
<1> HIDE DEF c, Placed, Typed, TypeOK
<1>3. ThreadsPlaced
  BY DEF Placed
<1>4. ThreadsPlaced'
  BY <1>1, <1>2, <1>3 DEF ThreadsPlaced
<1>5. Onward
  BY <1>1, <1>2 DEF Onward, PastAssignment, States
<1> QED BY <1>4, <1>5

(* Taking the waiting entry of an unowned conversation, by routing or by claim. *)
LEMMA TakePlaced ==
  ASSUME Placed, NEW c \in Conversations, NEW e \in Employees,
         Exists(c), waiting[c] # None, owner[c] = None,
         ConsumeEntry(c), Own(c, e), Advance(c, AssignableFrom, "ASSIGNED")
  PROVE  ThreadsPlaced' /\ Onward
<1>1. e # None
  BY ConstantsAssumption
<1>2. /\ \A x \in Conversations : x # c => /\ convState'[x] = convState[x]
                                           /\ waiting'[x] = waiting[x]
                                           /\ claimed'[x] = claimed[x]
                                           /\ owner'[x] = owner[x]
      /\ claimed'[c] /\ owner'[c] = e
      /\ convState'[c] = IF convState[c] \in {"NEW", "QUEUED"} THEN "ASSIGNED" ELSE convState[c]
  BY DEF Placed, Typed, TypeOK, ThreadsOK, QueueOK, PeopleOK, ConsumeEntry, Own, Advance,
         AssignableFrom
<1>3. ThreadsPlaced
  BY DEF Placed
<1>4. ThreadsPlaced'
  BY <1>1, <1>2, <1>3 DEF ThreadsPlaced, Exists
<1>5. Onward
  BY <1>2 DEF Onward, PastAssignment, States
<1> QED BY <1>4, <1>5

LEMMA ReassignPlaced ==
  ASSUME Placed, NEW d \in Desks, Reassign(d)
  PROVE  ThreadsPlaced' /\ Onward
<1> DEFINE c == desk[d].conv
           to == desk[d].who
<1>1. /\ c \in Conversations /\ to \in Employees /\ to # None /\ claimed[c]
  BY ConstantsAssumption
  DEF Placed, Typed, Reassign, DesksAnchored, HandOversAreOfClaimedWork, ReassignOps
<1>2. /\ \A x \in Conversations : owner'[x] = IF x = c THEN to ELSE owner[x]
      /\ UNCHANGED <<convState, waiting, claimed>>
  BY <1>1 DEF Placed, Typed, TypeOK, PeopleOK, Reassign, Own, threadVars, queueVars
<1>3. ThreadsPlaced
  BY DEF Placed
<1> HIDE DEF c, to
<1>4. ThreadsPlaced'
  BY <1>1, <1>2, <1>3 DEF ThreadsPlaced
<1> QED BY <1>2, <1>4 DEF Onward

(* Moves between the states past assignment. *)
LEMMA LaterMovePlaced ==
  ASSUME Placed, UNCHANGED <<waiting, claimed, owner>>,
         \A c \in Conversations :
           convState'[c] = convState[c] \/ convState'[c] \in PastAssignment
  PROVE  ThreadsPlaced' /\ Onward
<1>1. ThreadsPlaced
  BY DEF Placed
<1>2. ThreadsPlaced'
  BY <1>1 DEF ThreadsPlaced, PastAssignment, States
<1> QED BY <1>2 DEF Onward

LEMMA RevivePlaced ==
  ASSUME Placed, NEW r \in Replies, ReviveInPlace(r)
  PROVE  ThreadsPlaced' /\ Onward
<1> DEFINE c == reply[r].conv
<1>1. /\ c \in Conversations
      /\ UNCHANGED <<waiting, claimed>>
      /\ \A x \in Conversations : x # c => owner'[x] = owner[x] /\ convState'[x] = convState[x]
      /\ owner'[c] = owner[c] \/ owner'[c] = None
      /\ convState'[c] = "ACTIVE"
  BY DEF Placed, Typed, TypeOK, ThreadsOK, PeopleOK, RepliesAnchored, ReviveInPlace,
         ReturnToActive, queueVars
<1>2. ThreadsPlaced
  BY DEF Placed
<1> HIDE DEF c
<1>3. ThreadsPlaced'
  BY <1>1, <1>2 DEF ThreadsPlaced
<1>4. Onward
  BY <1>1 DEF Onward, PastAssignment, States
<1> QED BY <1>3, <1>4

LEMMA ForkPlaced ==
  ASSUME Placed, NEW r \in Replies, NEW new \in Conversations, ForkConversation(r, new)
  PROVE  ThreadsPlaced' /\ Onward
<1> DEFINE c == reply[r].conv
<1>1. /\ c \in Conversations /\ c # new
      /\ convState[new] = "NONE" /\ convState[c] \in PastAssignment
      /\ UNCHANGED <<waiting, claimed>>
      /\ \A x \in Conversations : /\ owner'[x] = IF x = c THEN None ELSE owner[x]
                                  /\ convState'[x] = IF x = new THEN "NEW" ELSE convState[x]
  BY DEF Placed, Typed, TypeOK, ThreadsOK, PeopleOK, RepliesAnchored, RepliesAreToAnsweredWork,
         ForkConversation, Exists, queueVars
<1>2. ThreadsPlaced
  BY DEF Placed
<1> HIDE DEF c
<1>3. ThreadsPlaced'
  BY <1>1, <1>2 DEF ThreadsPlaced, PastAssignment
<1>4. Onward
  BY <1>1 DEF Onward, PastAssignment, States
<1> QED BY <1>3, <1>4

LEMMA SweepStepPlaced ==
  ASSUME Placed, NEW s \in Sweepers, SweepStep(s)
  PROVE  Placed'
<1>1. ThreadsPlaced' /\ Onward
  <2>1. CASE SweepSelect(s)
    BY <2>1, SameThreads DEF SweepSelect, Placed, threadVars, queueVars, peopleVars
  <2>2. CASE EnqueueOnly(s)
    BY <2>2, EnqueuePlaced DEF EnqueueOnly
  <2>3. CASE EnqueueForAdvisor(s)
    BY <2>3, EnqueuePlaced DEF EnqueueForAdvisor
  <2>4. CASE AssignFromRouting(s)
    <3>1. /\ sweep[s].conv \in Conversations /\ Exists(sweep[s].conv)
          /\ sweep[s].to \in Employees /\ s # None
      BY <2>4, ConstantsAssumption
      DEF AssignFromRouting, Placed, Typed, TypeOK, RequestsOK, SweepsAnchored, OrNone
    <3> QED BY <2>4, <3>1, TakePlaced DEF AssignFromRouting, PeriodRefuses
  <2>5. CASE AssignRefused(s) \/ SweepDies(s)
    <3>1. /\ UNCHANGED <<convState, claimed, owner>>
          /\ \A x \in Conversations : waiting'[x] = waiting[x]
                                      \/ (waiting[x] # None /\ waiting'[x] # None)
      <4>1. /\ UNCHANGED <<convState, claimed, owner>>
            /\ Settled(s)
        BY <2>5 DEF AssignRefused, SweepDies, threadVars, peopleVars
      <4>2. s # None /\ "settled" # None
        BY ConstantsAssumption
      <4>3. \A x \in Conversations :
              waiting'[x] = IF waiting[x] = s THEN "settled" ELSE waiting[x]
        BY <4>1 DEF Settled
      <4>4. \A x \in Conversations : waiting'[x] = waiting[x]
                                      \/ (waiting[x] # None /\ waiting'[x] # None)
        BY <4>2, <4>3
      <4> QED BY <4>1, <4>4
    <3>2. ThreadsPlaced
      BY DEF Placed
    <3>3. ThreadsPlaced'
      BY <3>1, <3>2 DEF ThreadsPlaced
    <3> QED BY <3>1, <3>3 DEF Onward
  <2> QED BY <2>1, <2>2, <2>3, <2>4, <2>5 DEF SweepStep
<1>2. UNCHANGED <<desk, reply>>
  BY DEF SweepStep, SweepSelect, EnqueueOnly, EnqueueForAdvisor, Enqueue, AssignFromRouting,
         AssignRefused, SweepDies
<1>3. Typed'
  BY NextTyped DEF Next, Placed
<1> QED BY <1>1, <1>2, <1>3, HandOversStay, RepliesStay DEF Placed, Typed

LEMMA DeskStepPlaced ==
  ASSUME Placed, NEW d \in Desks, DeskStep(d)
  PROVE  Placed'
<1> USE DEF Placed, Typed, TypeOK
<1>1. Typed'
  BY NextTyped DEF Next
<1>2. ASSUME NEW c \in Conversations, NEW e \in Employees, NEW op \in ReassignOps,
             ReassignRequest(d, op, c, e)
      PROVE  Placed'
  <2>1. claimed[c]
    BY <1>2 DEF ReassignRequest, ThreadsPlaced
  <2>2. /\ UNCHANGED <<convState, waiting, claimed, owner, reply>>
        /\ \A x \in Desks : desk'[x] = desk[x] \/ desk'[x].conv = c
    BY <1>2 DEF ReassignRequest, Request, RequestsOK, threadVars, queueVars, peopleVars
  <2>3. HandOversAreOfClaimedWork'
    BY <2>1, <2>2 DEF HandOversAreOfClaimedWork
  <2> QED BY <1>1, <2>2, <2>3, SameThreads, RepliesStay
<1>3. CASE \E c \in Conversations :
             (\E e \in Employees : ClaimRequest(d, c, e)) \/ ResolveRequest(d, c) \/ ReopenRequest(d, c)
  <2>1. /\ UNCHANGED <<convState, waiting, claimed, owner, reply>>
        /\ \A x \in Desks : desk'[x] = desk[x]
                            \/ desk'[x].op \notin ReassignOps \cup {"escalated"}
    BY <1>3 DEF ClaimRequest, ResolveRequest, ReopenRequest, Request, RequestsOK, ReassignOps,
                threadVars, queueVars, peopleVars
  <2> QED BY <1>1, <2>1, SameThreads, HandOversStay, RepliesStay
<1>4. CASE ClaimConversation(d)
  <2>1. /\ desk[d].conv \in Conversations /\ Exists(desk[d].conv)
        /\ desk[d].who \in Employees
    BY <1>4 DEF ClaimConversation, DesksAnchored
  <2>2. ThreadsPlaced' /\ Onward
    BY <1>4, <2>1, TakePlaced DEF ClaimConversation
  <2> QED BY <1>1, <1>4, <2>2, DesksIdle, HandOversStay, RepliesStay DEF ClaimConversation
<1>5. CASE ClaimRefused(d) \/ LifecycleRefused(d) \/ RequestDies(d)
  <2>1. Answered(d) /\ UNCHANGED <<convState, waiting, claimed, owner, reply>>
    BY <1>5 DEF ClaimRefused, LifecycleRefused, RequestDies, Unanswered, threadVars, queueVars,
                peopleVars
  <2> QED BY <1>1, <2>1, SameThreads, DesksIdle, HandOversStay, RepliesStay
<1>6. CASE RaiseEscalationLevel(d)
  <2>1. /\ UNCHANGED <<convState, waiting, claimed, owner, reply>>
        /\ desk[d].op = "escalate"
        /\ \A x \in Desks : desk'[x] = desk[x] \/ (x = d /\ desk'[x].conv = desk[x].conv)
    BY <1>6 DEF RaiseEscalationLevel, RequestsOK, threadVars, queueVars, peopleVars
  <2>2. HandOversAreOfClaimedWork'
    BY <2>1 DEF HandOversAreOfClaimedWork, ReassignOps
  <2> QED BY <1>1, <2>1, <2>2, SameThreads, RepliesStay
<1>7. CASE Reassign(d)
  BY <1>1, <1>7, ReassignPlaced, DesksIdle, HandOversStay, RepliesStay DEF Reassign
<1>8. CASE Resolve(d) \/ StaffReopen(d)
  <2>1. /\ UNCHANGED <<waiting, claimed, owner, reply>> /\ Answered(d)
        /\ \A x \in Conversations : convState'[x] = convState[x]
                                    \/ convState'[x] \in PastAssignment
    BY <1>8 DEF Resolve, StaffReopen, ReturnToActive, ThreadsOK, PastAssignment, States, queueVars,
                peopleVars
  <2> QED BY <1>1, <2>1, LaterMovePlaced, DesksIdle, HandOversStay, RepliesStay
<1> QED BY <1>2, <1>3, <1>4, <1>5, <1>6, <1>7, <1>8 DEF DeskStep

LEMMA ReplyStepPlaced ==
  ASSUME Placed, NEW r \in Replies, ReplyStepOf(r)
  PROVE  Placed'
<1> USE DEF Placed, Typed, TypeOK
<1>1. Typed'
  BY NextTyped DEF Next
<1>2. /\ UNCHANGED desk
      /\ \A x \in Replies : x # r => reply'[x] = reply[x]
  BY DEF ReplyStepOf, ReplyFollow, ReplyReadHead, ReviveInPlace, ReviveRefused, ForkConversation,
         ReplyDies, ReplyStep, RequestsOK
<1>3. CASE ReplyReadHead(r)
  <2>1. UNCHANGED <<convState, waiting, claimed, owner>>
    BY <1>3 DEF ReplyReadHead, ReplyStep, threadVars, queueVars, peopleVars
  <2>2. reply'[r].at \in {"revive", "fork"} => convState[reply'[r].conv] \in PastAssignment
    <3> DEFINE what == ReopenDecision(reply[r].conv)
    <3>1. what # "idle" => convState[reply[r].conv] \in PastAssignment
      BY DEF ReopenDecision, Finished, PastAssignment, States
    <3>2. reply'[r] = IF what = "idle" THEN IdleReply
                      ELSE [at |-> what, conv |-> reply[r].conv,
                            heir |-> ActiveOwner(CaseOf(reply[r].conv))]
      BY <1>3 DEF ReplyReadHead, ReplyStep, RequestsOK
    <3> HIDE DEF what
    <3> QED BY <3>1, <3>2 DEF IdleReply
  <2>3. RepliesAreToAnsweredWork'
    BY <1>2, <2>1, <2>2 DEF RepliesAreToAnsweredWork
  <2> QED BY <1>1, <1>2, <2>1, <2>3, SameThreads, HandOversStay
<1>4. CASE ReviveRefused(r) \/ ReplyDies(r) \/ (\E c \in Conversations : ReplyFollow(r, c))
  <2>1. /\ UNCHANGED <<convState, waiting, claimed, owner>>
        /\ reply'[r].at \notin {"revive", "fork"}
    BY <1>4 DEF ReviveRefused, ReplyDies, ReplyFollow, ReplyStep, RequestsOK, IdleReply,
                threadVars, queueVars, peopleVars
  <2> QED BY <1>1, <1>2, <2>1, SameThreads, HandOversStay, RepliesStay
<1>5. CASE ReviveInPlace(r) \/ (\E new \in Conversations : ForkConversation(r, new))
  <2>1. ThreadsPlaced' /\ Onward
    BY <1>5, RevivePlaced, ForkPlaced
  <2>2. reply'[r].at \notin {"revive", "fork"}
    <3>1. reply'[r] = IdleReply
      BY <1>5 DEF ReviveInPlace, ForkConversation, RequestsOK
    <3> QED BY <3>1 DEF IdleReply
  <2> QED BY <1>1, <1>2, <2>1, <2>2, HandOversStay, RepliesStay
<1> QED BY <1>3, <1>4, <1>5 DEF ReplyStepOf

LEMMA OtherStepPlaced ==
  ASSUME Placed,
         \/ \E c \in Conversations, k \in Cases : Intake(c, k)
         \/ PeopleStep
         \/ \E h \in holds : ReservationExpires(h)
         \/ \E k \in Cases : WindowExpires(k)
         \/ CloseExpired \/ (\E c \in Conversations : DateClosure(c)) \/ CloserDies
  PROVE  Placed'
<1>1. Typed'
  BY NextTyped DEF Next, Placed
<1>2. UNCHANGED <<desk, reply>>
  BY DEF Intake, PeopleStep, AddParticipant, RemoveParticipant, OwnerReply, Deactivate,
         ReservationExpires, WindowExpires, CloseExpired, DateClosure, CloserDies
<1>3. ThreadsPlaced' /\ Onward
  <2>1. CASE \E c \in Conversations, k \in Cases : Intake(c, k)
    BY <2>1, IntakePlaced
  <2>2. CASE \/ \E c \in Conversations, e \in Employees : OwnerReply(c, e)
             \/ CloseExpired
    <3>1. /\ UNCHANGED <<waiting, claimed, owner>>
          /\ \A x \in Conversations : convState'[x] = convState[x]
                                      \/ convState'[x] \in PastAssignment
      BY <2>2 DEF OwnerReply, Advance, CloseExpired, Placed, Typed, TypeOK, ThreadsOK,
                  PastAssignment, States, queueVars, peopleVars
    <3> QED BY <3>1, LaterMovePlaced
  <2>3. CASE UNCHANGED <<convState, waiting, claimed, owner>>
    BY <2>3, SameThreads DEF Placed
  <2> QED
    BY <2>1, <2>2, <2>3
    DEF PeopleStep, AddParticipant, RemoveParticipant, Deactivate, ReservationExpires,
        WindowExpires, DateClosure, CloserDies, threadVars, queueVars, peopleVars
<1> QED BY <1>1, <1>2, <1>3, HandOversStay, RepliesStay DEF Placed, Typed

LEMMA NextPlaced == ASSUME Placed, [Next]_vars PROVE Placed'
<1>1. CASE UNCHANGED vars
  <2>1. Typed'
    BY NextTyped DEF Placed
  <2>2. UNCHANGED <<convState, waiting, claimed, owner, desk, reply>>
    BY <1>1 DEF vars, threadVars, queueVars, peopleVars
  <2> QED BY <2>1, <2>2, SameThreads, HandOversStay, RepliesStay DEF Placed, Typed
<1> QED BY <1>1, SweepStepPlaced, DeskStepPlaced, ReplyStepPlaced, OtherStepPlaced DEF Next

THEOREM PlacedAlways == Spec => []Placed
  BY InitPlaced, NextPlaced, PTL DEF Spec

(* WaitingWorkIsReachable: whatever sweeps, claims, hand-overs, replies and deaths
   interleave, a NEW conversation is one the next sweep selects and a QUEUED one
   can be claimed. *)
THEOREM WaitingWorkStaysReachable == Spec => []WaitingWorkIsReachable
<1>1. Placed => WaitingWorkIsReachable
  BY DEF Placed, ThreadsPlaced, WaitingWorkIsReachable, Unplaced, Exists, Finished
<1> QED BY <1>1, PlacedAlways, PTL

(* AssignedWorkIsOwned: an ASSIGNED conversation always has an accountable owner. *)
THEOREM AssignedWorkStaysOwned == Spec => []AssignedWorkIsOwned
<1>1. Placed => AssignedWorkIsOwned
  BY DEF Placed, ThreadsPlaced, AssignedWorkIsOwned
<1> QED BY <1>1, PlacedAlways, PTL

-----------------------------------------------------------------------------
(* The lifecycle: every move is a row of the state table, and the history moves
   with the state. *)

(* No history before the row exists, and the closure sweep dates closed rows. *)
HistoryStarts == \A c \in Conversations : convState[c] = "NONE" => stateEpisode[c] = "NONE"
ClosuresAreDated == \A c \in closer : convState[c] = "CLOSED"

(* A resolution in flight was permitted from the state it read. *)
ResolutionsArePermitted ==
  \A d \in Desks : desk[d].op = "resolve" => MayMove(desk[d].from, "RESOLVED")

Dated ==
  /\ Typed
  /\ HistoryFollowsState /\ HistoryStarts /\ ClosuresAreDated /\ ResolutionsArePermitted

LEMMA InitDated == ASSUME Init PROVE Dated
  BY InitTyped
  DEF Init, Dated, HistoryFollowsState, HistoryStarts, ClosuresAreDated,
      ResolutionsArePermitted, IdleDesk

(* What any step does to one conversation: nothing that shows, unless the row is
   closed; its creation; or a permitted move that the history, or the closure
   sweep after it, records. *)
StaysPut(c) ==
  convState'[c] = convState[c]
    /\ (stateEpisode'[c] = stateEpisode[c] \/ convState[c] = "CLOSED")
Arrives(c) ==
  convState[c] = "NONE" /\ convState'[c] = "NEW" /\ stateEpisode'[c] \in {"NONE", "NEW"}
Moves(c) ==
  MayMove(convState[c], convState'[c])
    /\ (convState'[c] = "CLOSED" \/ stateEpisode'[c] = convState'[c])
Conforms == \A c \in Conversations : StaysPut(c) \/ Arrives(c) \/ Moves(c)

LEMMA PermittedMoves ==
  /\ MayMove("NEW", "QUEUED") /\ MayMove("NEW", "ASSIGNED") /\ MayMove("QUEUED", "ASSIGNED")
  /\ MayMove("ASSIGNED", "ACTIVE")
  /\ MayMove("RESOLVED", "ACTIVE") /\ MayMove("RESOLVED", "CLOSED")
  /\ \A x, y : MayMove(x, y) => x \notin {"CLOSED", "NONE"} /\ y \notin {"NONE", "NEW"}
  BY DEF MayMove, Transitions

LEMMA HistoryKept ==
  ASSUME HistoryFollowsState, HistoryStarts, Conforms
  PROVE  HistoryFollowsState' /\ HistoryStarts'
<1>1. ASSUME NEW c \in Conversations, StaysPut(c)
      PROVE  /\ convState'[c] \notin {"NONE", "NEW", "CLOSED"} => stateEpisode'[c] = convState'[c]
             /\ convState'[c] = "NEW" => stateEpisode'[c] \in {"NONE", "NEW"}
             /\ convState'[c] = "NONE" => stateEpisode'[c] = "NONE"
  BY <1>1 DEF StaysPut, HistoryFollowsState, HistoryStarts
<1>2. ASSUME NEW c \in Conversations, Arrives(c) \/ Moves(c)
      PROVE  /\ convState'[c] \notin {"NONE", "NEW", "CLOSED"} => stateEpisode'[c] = convState'[c]
             /\ convState'[c] = "NEW" => stateEpisode'[c] \in {"NONE", "NEW"}
             /\ convState'[c] # "NONE"
  BY <1>2, PermittedMoves DEF Arrives, Moves
<1> QED BY <1>1, <1>2 DEF Conforms, HistoryFollowsState, HistoryStarts

LEMMA ClosuresKept ==
  ASSUME ThreadsOK, RequestsOK, ClosuresAreDated, Conforms,
         \A c \in closer' : c \in closer \/ (c \in Conversations /\ convState'[c] = "CLOSED")
  PROVE  ClosuresAreDated'
<1>1. ASSUME NEW c \in Conversations, convState[c] = "CLOSED"
      PROVE  convState'[c] = "CLOSED"
  BY <1>1, PermittedMoves DEF Conforms, StaysPut, Arrives, Moves
<1> QED BY <1>1 DEF ClosuresAreDated, RequestsOK

LEMMA DatedKept ==
  ASSUME Dated, Typed', Conforms, ResolutionsArePermitted',
         \A c \in closer' : c \in closer \/ (c \in Conversations /\ convState'[c] = "CLOSED")
  PROVE  Dated'
  BY HistoryKept, ClosuresKept DEF Dated, Typed, TypeOK

(* Steps that touch neither the states nor the histories. *)
LEMMA SameStates ==
  ASSUME UNCHANGED <<convState, stateEpisode>>
  PROVE  Conforms
  BY DEF Conforms, StaysPut

LEMMA AdvanceConforms ==
  ASSUME ThreadsOK, DatesOK, NEW c \in Conversations, NEW from, NEW to \in States,
         \A x \in from : MayMove(x, to),
         Advance(c, from, to)
  PROVE  Conforms
<1>1. CASE convState[c] \in from
  <2>1. /\ \A x \in Conversations : x # c => /\ convState'[x] = convState[x]
                                             /\ stateEpisode'[x] = stateEpisode[x]
        /\ convState'[c] = to /\ stateEpisode'[c] = to
    BY <1>1 DEF Advance, ThreadsOK, DatesOK
  <2> QED BY <1>1, <2>1 DEF Conforms, StaysPut, Moves
<1>2. CASE convState[c] \notin from
  BY <1>2, SameStates DEF Advance
<1> QED BY <1>1, <1>2

LEMMA ReturnConforms ==
  ASSUME ThreadsOK, DatesOK, NEW c \in Conversations, ReturnToActive(c)
  PROVE  Conforms
<1>1. /\ convState[c] = "RESOLVED"
      /\ \A x \in Conversations : x # c => /\ convState'[x] = convState[x]
                                           /\ stateEpisode'[x] = stateEpisode[x]
      /\ convState'[c] = "ACTIVE" /\ stateEpisode'[c] = "ACTIVE"
  BY DEF ReturnToActive, ThreadsOK, DatesOK
<1> QED BY <1>1, PermittedMoves DEF Conforms, StaysPut, Moves

LEMMA ResolveConforms ==
  ASSUME Dated, NEW d \in Desks, Resolve(d)
  PROVE  Conforms
<1> DEFINE c == desk[d].conv
<1>1. c \in Conversations /\ MayMove(convState[c], "RESOLVED")
  BY DEF Resolve, Dated, ResolutionsArePermitted, Typed, DesksAnchored
<1>2. /\ \A x \in Conversations : x # c => /\ convState'[x] = convState[x]
                                           /\ stateEpisode'[x] = stateEpisode[x]
      /\ convState'[c] = "RESOLVED" /\ stateEpisode'[c] = "RESOLVED"
  BY <1>1 DEF Resolve, Dated, Typed, TypeOK, ThreadsOK, DatesOK
<1> QED BY <1>1, <1>2 DEF Conforms, StaysPut, Moves

LEMMA SweepStepDated ==
  ASSUME Dated, NEW s \in Sweepers, SweepStep(s)
  PROVE  Dated' /\ Conforms
<1> USE DEF Dated, Typed, TypeOK
<1>1. Conforms
  <2>1. CASE SweepSelect(s) \/ AssignRefused(s) \/ SweepDies(s)
    BY <2>1, SameStates DEF SweepSelect, AssignRefused, SweepDies, threadVars, dateVars
  <2>2. ASSUME NEW item \in sweep[s].todo, NEW tag, Enqueue(s, item, tag)
        PROVE  Conforms
    <3>1. item.conv \in Conversations
      BY DEF RequestsOK, Items
    <3>2. Advance(item.conv, {"NEW"}, "QUEUED") /\ \A x \in {"NEW"} : MayMove(x, "QUEUED")
      BY <2>2, PermittedMoves DEF Enqueue
    <3> QED BY <3>1, <3>2, AdvanceConforms DEF States
  <2>3. CASE AssignFromRouting(s)
    <3>1. /\ sweep[s].conv \in Conversations
          /\ Advance(sweep[s].conv, AssignableFrom, "ASSIGNED")
      BY <2>3 DEF AssignFromRouting, RequestsOK, OrNone
    <3>2. \A x \in AssignableFrom : MayMove(x, "ASSIGNED")
      BY PermittedMoves DEF AssignableFrom
    <3> QED BY <3>1, <3>2, AdvanceConforms DEF States
  <2> QED BY <2>1, <2>2, <2>3 DEF SweepStep, EnqueueOnly, EnqueueForAdvisor
<1>2. UNCHANGED <<desk, closer>>
  BY DEF SweepStep, SweepSelect, EnqueueOnly, EnqueueForAdvisor, Enqueue, AssignFromRouting,
         AssignRefused, SweepDies
<1>3. ResolutionsArePermitted'
  BY <1>2 DEF ResolutionsArePermitted
<1>4. Typed'
  BY NextTyped DEF Next
<1> QED BY <1>1, <1>2, <1>3, <1>4, DatedKept

LEMMA DeskStepDated ==
  ASSUME Dated, NEW d \in Desks, DeskStep(d)
  PROVE  Dated' /\ Conforms
<1> USE DEF Dated, Typed, TypeOK
<1>1. Conforms
  <2>1. CASE ClaimConversation(d)
    <3>1. /\ desk[d].conv \in Conversations
          /\ Advance(desk[d].conv, AssignableFrom, "ASSIGNED")
      BY <2>1 DEF ClaimConversation, DesksAnchored
    <3>2. \A x \in AssignableFrom : MayMove(x, "ASSIGNED")
      BY PermittedMoves DEF AssignableFrom
    <3> QED BY <3>1, <3>2, AdvanceConforms DEF States
  <2>2. CASE Resolve(d)
    BY <2>2, ResolveConforms
  <2>3. CASE StaffReopen(d)
    BY <2>3, ReturnConforms DEF StaffReopen, DesksAnchored
  <2>4. CASE UNCHANGED <<convState, stateEpisode>>
    BY <2>4, SameStates
  <2> QED
    BY <2>1, <2>2, <2>3, <2>4
    DEF DeskStep, ClaimRequest, ReassignRequest, ResolveRequest, ReopenRequest, Request,
        ClaimRefused, LifecycleRefused, RequestDies, Unanswered, RaiseEscalationLevel, Reassign,
        threadVars, dateVars
<1>2. UNCHANGED closer
  BY DEF DeskStep, ClaimRequest, ReassignRequest, ResolveRequest, ReopenRequest, Request,
         ClaimConversation, ClaimRefused, LifecycleRefused, RequestDies, Unanswered,
         RaiseEscalationLevel, Reassign, Resolve, StaffReopen
<1>3. ResolutionsArePermitted'
  <2>1. ASSUME NEW c \in Conversations, ResolveRequest(d, c)
        PROVE  ResolutionsArePermitted'
    BY <2>1 DEF ResolveRequest, Request, RequestsOK, ResolutionsArePermitted
  <2>2. CASE \A x \in Desks : desk'[x] = desk[x] \/ desk'[x].op # "resolve"
    BY <2>2 DEF ResolutionsArePermitted
  <2>3. Answered(d) => \A x \in Desks : desk'[x] = desk[x] \/ desk'[x].op # "resolve"
    BY DEF Answered, IdleDesk, RequestsOK
  <2>4. ASSUME NEW c, NEW op \in StaffOps \ {"resolve"}, NEW who, NEW from,
               Request(d, op, c, who, from)
        PROVE  \A x \in Desks : desk'[x] = desk[x] \/ desk'[x].op # "resolve"
    BY <2>4 DEF Request, RequestsOK
  <2>5. RaiseEscalationLevel(d) => \A x \in Desks : desk'[x] = desk[x] \/ desk'[x].op # "resolve"
    BY DEF RaiseEscalationLevel, RequestsOK
  <2>6. CASE \E c \in Conversations :
               \/ \E e \in Employees : \/ ClaimRequest(d, c, e)
                                       \/ \E op \in ReassignOps : ReassignRequest(d, op, c, e)
               \/ ReopenRequest(d, c)
    BY <2>2, <2>4, <2>6 DEF ClaimRequest, ReassignRequest, ReopenRequest, StaffOps, ReassignOps
  <2>7. CASE \/ ClaimConversation(d) \/ ClaimRefused(d) \/ Reassign(d)
             \/ Resolve(d) \/ StaffReopen(d) \/ LifecycleRefused(d) \/ RequestDies(d)
    BY <2>2, <2>3, <2>7 DEF ClaimConversation, ClaimRefused, Reassign, Resolve, StaffReopen,
                            LifecycleRefused, RequestDies, Unanswered
  <2> QED BY <2>1, <2>2, <2>5, <2>6, <2>7 DEF DeskStep
<1>4. Typed'
  BY NextTyped DEF Next
<1> QED BY <1>1, <1>2, <1>3, <1>4, DatedKept

LEMMA ReplyStepDated ==
  ASSUME Dated, NEW r \in Replies, ReplyStepOf(r)
  PROVE  Dated' /\ Conforms
<1> USE DEF Dated, Typed, TypeOK
<1>1. Conforms
  <2>1. CASE ReviveInPlace(r)
    BY <2>1, ReturnConforms DEF ReviveInPlace, RepliesAnchored
  <2>2. ASSUME NEW new \in Conversations, ForkConversation(r, new)
        PROVE  Conforms
    <3>1. /\ convState[new] = "NONE"
          /\ \A x \in Conversations : x # new => /\ convState'[x] = convState[x]
                                                 /\ stateEpisode'[x] = stateEpisode[x]
          /\ convState'[new] = "NEW" /\ stateEpisode'[new] = "NEW"
      BY <2>2 DEF ForkConversation, Exists, ThreadsOK, DatesOK
    <3> QED BY <3>1 DEF Conforms, StaysPut, Arrives
  <2>3. CASE UNCHANGED <<convState, stateEpisode>>
    BY <2>3, SameStates
  <2> QED BY <2>1, <2>2, <2>3
          DEF ReplyStepOf, ReplyFollow, ReplyReadHead, ReviveRefused, ReplyDies, ReplyStep, threadVars
<1>2. UNCHANGED <<desk, closer>>
  BY DEF ReplyStepOf, ReplyFollow, ReplyReadHead, ReviveInPlace, ReviveRefused, ForkConversation,
         ReplyDies, ReplyStep
<1>3. ResolutionsArePermitted'
  BY <1>2 DEF ResolutionsArePermitted
<1>4. Typed'
  BY NextTyped DEF Next
<1> QED BY <1>1, <1>2, <1>3, <1>4, DatedKept

LEMMA ClosureConforms ==
  ASSUME Dated, CloseExpired
  PROVE  /\ Conforms
         /\ \A c \in closer' : c \in closer \/ (c \in Conversations /\ convState'[c] = "CLOSED")
<1>1. /\ \A x \in Conversations :
           convState'[x] = IF x \in Closable THEN "CLOSED" ELSE convState[x]
      /\ \A x \in Closable : x \in Conversations /\ convState[x] = "RESOLVED"
      /\ stateEpisode' = stateEpisode /\ closer' = closer \cup Closable
  BY DEF CloseExpired, Closable, dateVars
<1>2. Conforms
  BY <1>1, PermittedMoves DEF Conforms, StaysPut, Moves
<1> QED BY <1>1, <1>2

LEMMA OtherStepDated ==
  ASSUME Dated,
         \/ \E c \in Conversations, k \in Cases : Intake(c, k)
         \/ PeopleStep
         \/ \E h \in holds : ReservationExpires(h)
         \/ \E k \in Cases : WindowExpires(k)
         \/ CloseExpired \/ (\E c \in Conversations : DateClosure(c)) \/ CloserDies
  PROVE  Dated' /\ Conforms
<1> USE DEF Dated, Typed, TypeOK
<1>1. Conforms
  <2>1. ASSUME NEW c \in Conversations, NEW k \in Cases, Intake(c, k)
        PROVE  Conforms
    <3>1. /\ convState[c] = "NONE"
          /\ \A x \in Conversations : convState'[x] = IF x = c THEN "NEW" ELSE convState[x]
          /\ stateEpisode' = stateEpisode
      BY <2>1 DEF Intake, Exists, ThreadsOK, dateVars
    <3> QED BY <3>1 DEF Conforms, StaysPut, Arrives, HistoryStarts
  <2>2. ASSUME NEW c \in Conversations, NEW e \in Employees, OwnerReply(c, e)
        PROVE  Conforms
    <3>1. \A x \in {"ASSIGNED"} : MayMove(x, "ACTIVE")
      BY PermittedMoves
    <3> QED BY <2>2, <3>1, AdvanceConforms DEF OwnerReply, States
  <2>3. CASE CloseExpired
    BY <2>3, ClosureConforms
  <2>4. CASE (\E c \in Conversations : DateClosure(c)) \/ CloserDies
    <3>1. /\ convState' = convState
          /\ \A x \in Conversations : stateEpisode'[x] = stateEpisode[x] \/ x \in closer
      BY <2>4 DEF DateClosure, CloserDies, DatesOK, threadVars, dateVars
    <3> QED BY <3>1 DEF Conforms, StaysPut, ClosuresAreDated
  <2>5. CASE UNCHANGED <<convState, stateEpisode>>
    BY <2>5, SameStates
  <2> QED BY <2>1, <2>2, <2>3, <2>4, <2>5
          DEF PeopleStep, AddParticipant, RemoveParticipant, Deactivate, ReservationExpires,
              WindowExpires, threadVars, dateVars
<1>2. \A c \in closer' : c \in closer \/ (c \in Conversations /\ convState'[c] = "CLOSED")
  BY ClosureConforms
  DEF Intake, PeopleStep, AddParticipant, RemoveParticipant, OwnerReply, Deactivate,
      ReservationExpires, WindowExpires, DateClosure, CloserDies
<1>3. UNCHANGED desk
  BY DEF Intake, PeopleStep, AddParticipant, RemoveParticipant, OwnerReply, Deactivate,
         ReservationExpires, WindowExpires, CloseExpired, DateClosure, CloserDies
<1>4. ResolutionsArePermitted'
  BY <1>3 DEF ResolutionsArePermitted
<1>5. Typed'
  BY NextTyped DEF Next
<1> QED BY <1>1, <1>2, <1>4, <1>5, DatedKept

LEMMA NextDated == ASSUME Dated, [Next]_vars PROVE Dated' /\ Conforms
<1>1. CASE UNCHANGED vars
  <2>1. Typed'
    BY NextTyped DEF Dated
  <2>2. UNCHANGED <<convState, stateEpisode, desk, closer>>
    BY <1>1 DEF vars, threadVars, dateVars
  <2>3. Conforms /\ ResolutionsArePermitted'
    BY <2>2, SameStates DEF ResolutionsArePermitted, Dated
  <2> QED BY <2>1, <2>2, <2>3, DatedKept
<1> QED BY <1>1, SweepStepDated, DeskStepDated, ReplyStepDated, OtherStepDated DEF Next

THEOREM DatedAlways == Spec => []Dated
<1>1. Dated /\ [Next]_vars => Dated'
  BY NextDated
<1> QED BY <1>1, InitDated, PTL DEF Spec

(* HistoryFollowsState: the history the clocks are computed from is in the state
   the conversation is in, whichever writers interleave. *)
THEOREM HistoryStaysWithState == Spec => []HistoryFollowsState
<1>1. Dated => HistoryFollowsState
  BY DEF Dated
<1> QED BY <1>1, DatedAlways, PTL

(* LifecycleConforms: no step of any writer leaves the state table. *)
THEOREM EveryMoveConforms == Spec => LifecycleConforms
<1>1. Dated /\ [Next]_vars =>
        [\A c \in Conversations :
           Exists(c) /\ convState'[c] # convState[c] => MayMove(convState[c], convState'[c])]_vars
  BY NextDated DEF Conforms, StaysPut, Arrives, Moves, Exists
<1> QED BY <1>1, DatedAlways, PTL DEF Spec, LifecycleConforms

-----------------------------------------------------------------------------
(* Hand-overs: of all steps, only the write of a reassignment gives work that has
   an owner to another one. *)

OwnersStay == \A c \in Conversations : owner[c] # None => owner'[c] \in {None, owner[c]}

LEMMA SameOwners == ASSUME UNCHANGED owner PROVE OwnersStay
  BY DEF OwnersStay

(* Routing and claims take only what nobody owns. *)
LEMMA TakingKeepsOwners ==
  ASSUME PeopleOK, NEW c, NEW e, owner[c] = None, Own(c, e)
  PROVE  OwnersStay
<1>1. \A x \in Conversations : x # c => owner'[x] = owner[x]
  BY DEF PeopleOK, Own
<1> QED BY <1>1 DEF OwnersStay

LEMMA SweepKeepsOwners == ASSUME Typed, NEW s \in Sweepers, SweepStep(s) PROVE OwnersStay
<1>1. CASE AssignFromRouting(s)
  <2>1. owner[sweep[s].conv] = None /\ Own(sweep[s].conv, sweep[s].to)
    BY <1>1 DEF AssignFromRouting, PeriodRefuses
  <2> QED BY <2>1, TakingKeepsOwners DEF Typed, TypeOK
<1>2. CASE UNCHANGED owner
  BY <1>2, SameOwners
<1> QED BY <1>1, <1>2
        DEF SweepStep, SweepSelect, EnqueueOnly, EnqueueForAdvisor, Enqueue, AssignRefused,
            SweepDies, peopleVars

LEMMA DeskKeepsOwners ==
  ASSUME Typed, NEW d \in Desks, DeskStep(d), ~Reassign(d)
  PROVE  OwnersStay
<1>1. CASE ClaimConversation(d)
  <2>1. owner[desk[d].conv] = None /\ Own(desk[d].conv, desk[d].who)
    BY <1>1 DEF ClaimConversation
  <2> QED BY <2>1, TakingKeepsOwners DEF Typed, TypeOK
<1>2. CASE UNCHANGED owner
  BY <1>2, SameOwners
<1> QED BY <1>1, <1>2
        DEF DeskStep, ClaimRequest, ReassignRequest, ResolveRequest, ReopenRequest, Request,
            ClaimRefused, LifecycleRefused, RequestDies, Unanswered, RaiseEscalationLevel,
            Resolve, StaffReopen, peopleVars

LEMMA ReplyKeepsOwners == ASSUME Typed, NEW r \in Replies, ReplyStepOf(r) PROVE OwnersStay
<1> USE DEF Typed, TypeOK, PeopleOK
<1>1. CASE \E c : owner' = [owner EXCEPT ![c] = None]
  BY <1>1 DEF OwnersStay
<1>2. CASE UNCHANGED owner
  BY <1>2, SameOwners
<1> HIDE DEF Typed, TypeOK, PeopleOK
<1> QED BY <1>1, <1>2
        DEF ReplyStepOf, ReplyFollow, ReplyReadHead, ReviveInPlace, ReviveRefused,
            ForkConversation, ReplyDies, ReplyStep, peopleVars

LEMMA OtherStepKeepsOwner ==
  ASSUME \/ \E c \in Conversations, k \in Cases : Intake(c, k)
         \/ PeopleStep
         \/ \E h \in holds : ReservationExpires(h)
         \/ \E k \in Cases : WindowExpires(k)
         \/ CloseExpired \/ (\E c \in Conversations : DateClosure(c)) \/ CloserDies
  PROVE  UNCHANGED owner
  BY DEF Intake, PeopleStep, AddParticipant, RemoveParticipant, OwnerReply, Deactivate,
         ReservationExpires, WindowExpires, CloseExpired, DateClosure, CloserDies, peopleVars

(* What a reassignment does to the owner, to the one before, and to their seats. *)
LEMMA ReassignHandsOver ==
  ASSUME Typed, NEW d \in Desks, Reassign(d), NEW c \in Conversations,
         owner'[c] \notin {None, owner[c]}
  PROVE  /\ desk[d].conv = c /\ desk[d].who = owner'[c]
         /\ desk[d].op \in ReassignOps \cup {"escalated"}
         /\ owner[c] # None => seat'[c][owner[c]] # "OWNER"
         /\ seat'[c][owner'[c]] = "OWNER"
<1> DEFINE to == desk[d].who
<1>1. /\ desk[d].op \in ReassignOps \cup {"escalated"} /\ to \in Employees
      /\ owner' = [owner EXCEPT ![desk[d].conv] = to]
      /\ seat' = HandOverSeat(desk[d].conv, owner[desk[d].conv], to)
  BY DEF Reassign, Own, ReassignOps, Typed, DesksAnchored
<1>2. /\ owner \in [Conversations -> OrNone(Employees)]
      /\ seat \in [Conversations -> [Employees -> {"NONE", "PARTICIPANT", "OWNER"}]]
  BY DEF Typed, TypeOK, PeopleOK
<1>3. desk[d].conv = c /\ owner'[c] = to
  BY <1>1, <1>2
<1>4. \A e \in Employees :
        seat'[c][e] = IF e = to THEN "OWNER"
                      ELSE IF e = owner[c] /\ seat[c][e] # "NONE" THEN "PARTICIPANT"
                      ELSE seat[c][e]
  BY <1>1, <1>2, <1>3 DEF HandOverSeat
<1>5. owner[c] # None => owner[c] \in Employees /\ owner[c] # to
  BY <1>2, <1>3 DEF OrNone
<1> QED BY <1>1, <1>3, <1>4, <1>5

LEMMA NextHandsOver ==
  ASSUME Typed, [Next]_vars, NEW c \in Conversations,
         owner[c] # None, owner'[c] \notin {None, owner[c]}
  PROVE  \E d \in Desks : Reassign(d)
<1>1. ~OwnersStay
  BY DEF OwnersStay
<1>2. ~UNCHANGED vars
  BY <1>1, SameOwners DEF vars, peopleVars
<1> QED BY <1>1, <1>2, SameOwners, SweepKeepsOwners, DeskKeepsOwners, ReplyKeepsOwners,
           OtherStepKeepsOwner DEF Next

(* HandOverIsComplete: work that has an owner goes to another one only by a staff
   command that names that other, and the reply authority goes with it. *)
THEOREM HandOversAreComplete == Spec => HandOverIsComplete
<1>1. Typed /\ [Next]_vars =>
        [\A c \in Conversations :
           owner[c] # None /\ owner'[c] \notin {None, owner[c]} =>
             /\ \E d \in Desks : /\ desk[d].conv = c /\ desk[d].who = owner'[c]
                                 /\ desk[d].op \in ReassignOps \cup {"escalated"}
             /\ seat'[c][owner[c]] # "OWNER"
             /\ seat'[c][owner'[c]] = "OWNER"]_vars
  <2>1. SUFFICES ASSUME Typed, [Next]_vars, NEW c \in Conversations,
                        owner[c] # None, owner'[c] \notin {None, owner[c]}
                 PROVE  /\ \E d \in Desks : /\ desk[d].conv = c /\ desk[d].who = owner'[c]
                                            /\ desk[d].op \in ReassignOps \cup {"escalated"}
                        /\ seat'[c][owner[c]] # "OWNER"
                        /\ seat'[c][owner'[c]] = "OWNER"
    OBVIOUS
  <2>2. PICK d \in Desks : Reassign(d)
    BY <2>1, NextHandsOver
  <2> QED BY <2>1, <2>2, ReassignHandsOver, Zenon
<1> QED BY <1>1, TypedAlways, PTL DEF Spec, HandOverIsComplete

-----------------------------------------------------------------------------
(* Deferred work: an entry that its sweep may still assign was never deferred. *)

AssignableNow == \A c \in Conversations : waiting[c] \in Sweepers => ~afterHours[c]
Entered == Typed /\ AssignableNow

LEMMA InitEntered == ASSUME Init PROVE Entered
  BY InitTyped, ConstantsAssumption DEF Init, Entered, AssignableNow

(* A step that inserts an entry, marks entries done or leaves them alone takes no
   entry away. *)
EntriesStay == \A c \in Conversations : waiting[c] # None => waiting'[c] # None

LEMMA SameEntries ==
  ASSUME AssignableNow, UNCHANGED <<waiting, afterHours>>
  PROVE  AssignableNow' /\ EntriesStay
  BY DEF AssignableNow, EntriesStay

LEMMA EnqueueEnters ==
  ASSUME Entered, NEW s \in Sweepers, NEW item \in sweep[s].todo,
         NEW tag \in Sweepers \cup {"settled"}, Enqueue(s, item, tag),
         tag \in Sweepers => sweep[s].hours = "OPEN"
  PROVE  AssignableNow' /\ EntriesStay
<1>1. InsertEntry(item.conv, tag, sweep[s].hours = "AFTER_HOURS")
  BY DEF Enqueue
<1>2. CASE waiting[item.conv] # None
  BY <1>1, <1>2, SameEntries DEF InsertEntry, Entered
<1>3. CASE waiting[item.conv] = None
  <2>1. /\ waiting' = [waiting EXCEPT ![item.conv] = tag]
        /\ afterHours' = [afterHours EXCEPT ![item.conv] = (sweep[s].hours = "AFTER_HOURS")]
    BY <1>1, <1>3 DEF InsertEntry
  <2>2. \A x \in Conversations : x # item.conv => /\ waiting'[x] = waiting[x]
                                                  /\ afterHours'[x] = afterHours[x]
    BY <2>1 DEF Entered, Typed, TypeOK, QueueOK
  <2>3. item.conv \in Conversations
    BY DEF Entered, Typed, TypeOK, RequestsOK, Items
  <2>4. /\ waiting'[item.conv] = tag
        /\ afterHours'[item.conv] = (sweep[s].hours = "AFTER_HOURS")
    BY <2>1, <2>3 DEF Entered, Typed, TypeOK, QueueOK
  <2>5. tag # None
    BY ConstantsAssumption
  <2>6. AssignableNow'
    BY <2>2, <2>4 DEF AssignableNow, Entered
  <2> QED BY <1>3, <2>2, <2>5, <2>6 DEF EntriesStay
<1> QED BY <1>2, <1>3

LEMMA SettledEnters ==
  ASSUME Entered, NEW s \in Sweepers, Settled(s), UNCHANGED afterHours
  PROVE  AssignableNow' /\ EntriesStay
<1>1. \A c \in Conversations : waiting'[c] = IF waiting[c] = s THEN "settled" ELSE waiting[c]
  BY DEF Settled
<1>2. "settled" \notin Sweepers \cup {None} /\ s # None
  BY ConstantsAssumption
<1> QED BY <1>1, <1>2 DEF Entered, AssignableNow, EntriesStay

LEMMA ConsumeEnters ==
  ASSUME Entered, NEW c, ConsumeEntry(c)
  PROVE  /\ AssignableNow'
         /\ \A x \in Conversations : x # c => waiting'[x] = waiting[x]
<1>1. \A x \in Conversations : IF x = c THEN waiting'[x] = None
                               ELSE waiting'[x] = waiting[x] /\ afterHours'[x] = afterHours[x]
  BY DEF ConsumeEntry, Entered, Typed, TypeOK, QueueOK
<1>2. None \notin Sweepers
  BY ConstantsAssumption
<1> QED BY <1>1, <1>2 DEF Entered, AssignableNow

(* Whatever takes a deferred entry away is a claim of that very conversation. *)
ClaimsOnly ==
  \A c \in Conversations :
    waiting[c] # None /\ afterHours[c] /\ waiting'[c] = None =>
      \E d \in Desks : desk[d].op = "claim" /\ desk[d].conv = c

LEMMA SweepStepEntered ==
  ASSUME Entered, NEW s \in Sweepers, SweepStep(s)
  PROVE  AssignableNow' /\ ClaimsOnly
<1>1. CASE SweepSelect(s)
  BY <1>1, SameEntries DEF SweepSelect, Entered, EntriesStay, ClaimsOnly, queueVars
<1>2. CASE EnqueueOnly(s)
  BY <1>2, EnqueueEnters, ConstantsAssumption DEF EnqueueOnly, EntriesStay, ClaimsOnly
<1>3. CASE EnqueueForAdvisor(s)
  BY <1>3, EnqueueEnters DEF EnqueueForAdvisor, EntriesStay, ClaimsOnly
<1>4. CASE AssignFromRouting(s)
  <2>1. ConsumeEntry(sweep[s].conv) /\ waiting[sweep[s].conv] = s
    BY <1>4 DEF AssignFromRouting
  <2>2. /\ AssignableNow'
        /\ \A x \in Conversations : x # sweep[s].conv => waiting'[x] = waiting[x]
    BY <2>1, ConsumeEnters
  <2>3. sweep[s].conv \in Conversations => ~afterHours[sweep[s].conv]
    BY <2>1 DEF Entered, AssignableNow
  <2> QED BY <2>2, <2>3 DEF ClaimsOnly
<1>5. CASE AssignRefused(s) \/ SweepDies(s)
  BY <1>5, SettledEnters DEF AssignRefused, SweepDies, EntriesStay, ClaimsOnly
<1> QED BY <1>1, <1>2, <1>3, <1>4, <1>5 DEF SweepStep

LEMMA DeskStepEntered ==
  ASSUME Entered, NEW d \in Desks, DeskStep(d)
  PROVE  AssignableNow' /\ ClaimsOnly
<1>1. CASE ClaimConversation(d)
  <2>1. ConsumeEntry(desk[d].conv) /\ desk[d].op = "claim"
    BY <1>1 DEF ClaimConversation
  <2>2. /\ AssignableNow'
        /\ \A x \in Conversations : x # desk[d].conv => waiting'[x] = waiting[x]
    BY <2>1, ConsumeEnters
  <2> QED BY <2>1, <2>2 DEF ClaimsOnly
<1>2. CASE UNCHANGED queueVars
  BY <1>2, SameEntries DEF Entered, EntriesStay, ClaimsOnly, queueVars
<1> QED BY <1>1, <1>2
        DEF DeskStep, ClaimRequest, ReassignRequest, ResolveRequest, ReopenRequest, Request,
            ClaimRefused, LifecycleRefused, RequestDies, Unanswered, RaiseEscalationLevel,
            Reassign, Resolve, StaffReopen

LEMMA QueueLeftAlone ==
  ASSUME \/ \E c \in Conversations, k \in Cases : Intake(c, k)
         \/ \E r \in Replies : ReplyStepOf(r)
         \/ PeopleStep
         \/ \E h \in holds : ReservationExpires(h)
         \/ \E k \in Cases : WindowExpires(k)
         \/ CloseExpired \/ (\E c \in Conversations : DateClosure(c)) \/ CloserDies
  PROVE  UNCHANGED queueVars
  BY DEF Intake, ReplyStepOf, ReplyFollow, ReplyReadHead, ReviveInPlace, ReviveRefused,
         ForkConversation, ReplyDies, ReplyStep, PeopleStep, AddParticipant, RemoveParticipant,
         OwnerReply, Deactivate, ReservationExpires, WindowExpires, CloseExpired, DateClosure,
         CloserDies

LEMMA NextEntered == ASSUME Entered, [Next]_vars PROVE Entered' /\ ClaimsOnly
<1>1. Typed'
  BY NextTyped DEF Entered
<1>2. CASE UNCHANGED queueVars
  BY <1>1, <1>2, SameEntries DEF Entered, EntriesStay, ClaimsOnly, queueVars
<1>3. CASE \/ \E s \in Sweepers : SweepStep(s)
           \/ \E d \in Desks : DeskStep(d)
  BY <1>1, <1>3, SweepStepEntered, DeskStepEntered DEF Entered
<1>4. UNCHANGED vars => UNCHANGED queueVars
  BY DEF vars
<1> QED BY <1>2, <1>3, <1>4, QueueLeftAlone DEF Next

(* DeferredWorkWaitsForAClaim: an entry inserted after hours leaves the queue by a
   staff claim and in no other way, whichever sweep reads the calendar later. *)
THEOREM DeferredWorkIsOnlyClaimed == Spec => DeferredWorkWaitsForAClaim
<1>1. Init => Entered
  BY InitEntered
<1>2. Entered /\ [Next]_vars => Entered'
  BY NextEntered
<1>3. Entered /\ [Next]_vars =>
        [\A c \in Conversations :
           waiting[c] # None /\ afterHours[c] /\ waiting'[c] = None =>
             \E d \in Desks : desk[d].op = "claim" /\ desk[d].conv = c]_vars
  BY NextEntered DEF ClaimsOnly
<1> QED BY <1>1, <1>2, <1>3, PTL DEF Spec, DeferredWorkWaitsForAClaim

-----------------------------------------------------------------------------
(* Seats.  A hand-over moves the authority with the ownership, a revival and a
   fork only take ownership away, and who joins had no seat. *)

Seated == Placed /\ OwnerHoldsTheSeat

LEMMA SameSeats ==
  ASSUME OwnerHoldsTheSeat, UNCHANGED peopleVars
  PROVE  OwnerHoldsTheSeat'
  BY DEF OwnerHoldsTheSeat, peopleVars

LEMMA TakingSeats ==
  ASSUME PeopleOK, OwnerHoldsTheSeat, NEW c \in Conversations, NEW e \in Employees,
         Own(c, e), seat' = SeatOwner(c, e)
  PROVE  OwnerHoldsTheSeat'
<1>1. /\ owner'[c] = e /\ seat'[c][e] = "OWNER"
      /\ \A x \in Conversations : x # c => owner'[x] = owner[x] /\ seat'[x] = seat[x]
  BY DEF PeopleOK, Own, SeatOwner
<1> QED BY <1>1 DEF OwnerHoldsTheSeat

LEMMA SweepStepSeats ==
  ASSUME Seated, NEW s \in Sweepers, SweepStep(s)
  PROVE  OwnerHoldsTheSeat'
<1>1. CASE AssignFromRouting(s)
  <2>1. /\ sweep[s].conv \in Conversations /\ sweep[s].to \in Employees
        /\ Own(sweep[s].conv, sweep[s].to)
        /\ seat' = SeatOwner(sweep[s].conv, sweep[s].to)
    BY <1>1 DEF AssignFromRouting, Seated, Placed, Typed, TypeOK, RequestsOK, SweepsAnchored,
                OrNone
  <2> QED BY <2>1, TakingSeats DEF Seated, Placed, Typed, TypeOK
<1>2. CASE UNCHANGED peopleVars
  BY <1>2, SameSeats DEF Seated
<1> QED BY <1>1, <1>2
        DEF SweepStep, SweepSelect, EnqueueOnly, EnqueueForAdvisor, Enqueue, AssignRefused,
            SweepDies

LEMMA ReassignSeats ==
  ASSUME Seated, NEW d \in Desks, Reassign(d)
  PROVE  OwnerHoldsTheSeat'
<1> DEFINE c == desk[d].conv
           to == desk[d].who
<1>1. /\ c \in Conversations /\ to \in Employees
      /\ owner' = [owner EXCEPT ![c] = to] /\ seat' = HandOverSeat(c, owner[c], to)
  BY DEF Reassign, Own, Seated, Placed, Typed, DesksAnchored, ReassignOps
<1>2. PeopleOK /\ OwnerHoldsTheSeat
  BY DEF Seated, Placed, Typed, TypeOK
<1> HIDE DEF c, to
<1>3. /\ owner'[c] = to /\ seat'[c][to] = "OWNER"
      /\ \A x \in Conversations : x # c => owner'[x] = owner[x] /\ seat'[x] = seat[x]
  BY <1>1, <1>2 DEF PeopleOK, HandOverSeat
<1> QED BY <1>2, <1>3 DEF OwnerHoldsTheSeat

LEMMA DeskStepSeats ==
  ASSUME Seated, NEW d \in Desks, DeskStep(d)
  PROVE  OwnerHoldsTheSeat'
<1>1. CASE ClaimConversation(d)
  <2>1. /\ desk[d].conv \in Conversations /\ desk[d].who \in Employees
        /\ Own(desk[d].conv, desk[d].who)
        /\ seat' = SeatOwner(desk[d].conv, desk[d].who)
    BY <1>1 DEF ClaimConversation, Seated, Placed, Typed, DesksAnchored
  <2> QED BY <2>1, TakingSeats DEF Seated, Placed, Typed, TypeOK
<1>2. CASE Reassign(d)
  BY <1>2, ReassignSeats
<1>3. CASE UNCHANGED peopleVars
  BY <1>3, SameSeats DEF Seated
<1> QED BY <1>1, <1>2, <1>3
        DEF DeskStep, ClaimRequest, ReassignRequest, ResolveRequest, ReopenRequest, Request,
            ClaimRefused, LifecycleRefused, RequestDies, Unanswered, RaiseEscalationLevel,
            Resolve, StaffReopen

LEMMA ReplyStepSeats ==
  ASSUME Seated, NEW r \in Replies, ReplyStepOf(r)
  PROVE  OwnerHoldsTheSeat'
<1>1. CASE ReviveInPlace(r)
  <2>1. /\ UNCHANGED seat
        /\ \A x \in Conversations : owner'[x] \in {None, owner[x]}
    BY <1>1 DEF ReviveInPlace, Seated, Placed, Typed, TypeOK, PeopleOK
  <2> QED BY <2>1 DEF Seated, OwnerHoldsTheSeat
<1>2. ASSUME NEW new \in Conversations, ForkConversation(r, new)
      PROVE  OwnerHoldsTheSeat'
  <2>1. owner[new] = None
    BY <1>2 DEF ForkConversation, Exists, Seated, Placed, ThreadsPlaced
  <2>2. /\ \A x \in Conversations : owner'[x] \in {None, owner[x]}
        /\ \A x \in Conversations : x # new => seat'[x] = seat[x]
    BY <1>2 DEF ForkConversation, Seated, Placed, Typed, TypeOK, PeopleOK
  <2> QED BY <2>1, <2>2 DEF Seated, OwnerHoldsTheSeat
<1>3. CASE UNCHANGED peopleVars
  BY <1>3, SameSeats DEF Seated
<1> QED BY <1>1, <1>2, <1>3
        DEF ReplyStepOf, ReplyFollow, ReplyReadHead, ReviveRefused, ReplyDies, ReplyStep

LEMMA OtherStepSeats ==
  ASSUME Seated, "remove" \notin Commands,
         \/ \E c \in Conversations, k \in Cases : Intake(c, k)
         \/ PeopleStep
         \/ \E h \in holds : ReservationExpires(h)
         \/ \E k \in Cases : WindowExpires(k)
         \/ CloseExpired \/ (\E c \in Conversations : DateClosure(c)) \/ CloserDies
  PROVE  OwnerHoldsTheSeat'
<1>1. ASSUME NEW c \in Conversations, NEW by \in Employees, NEW e \in Employees,
             AddParticipant(c, by, e)
      PROVE  OwnerHoldsTheSeat'
  <2>1. /\ seat[c][e] = "NONE" /\ UNCHANGED owner
        /\ \A x \in Conversations, y \in Employees :
             x # c \/ y # e => seat'[x][y] = seat[x][y]
    BY <1>1 DEF AddParticipant, Seated, Placed, Typed, TypeOK, PeopleOK
  <2>2. \A x \in Conversations : owner[x] # None => owner[x] \in Employees
    BY DEF Seated, Placed, Typed, TypeOK, PeopleOK, OrNone
  <2> QED BY <2>1, <2>2 DEF Seated, OwnerHoldsTheSeat
<1>2. CASE UNCHANGED peopleVars
  BY <1>2, SameSeats DEF Seated
<1> QED BY <1>1, <1>2
        DEF Intake, PeopleStep, RemoveParticipant, OwnerReply, Deactivate, ReservationExpires,
            WindowExpires, CloseExpired, DateClosure, CloserDies, peopleVars

(* OwnerHoldsTheSeat, as long as no command removes a participant: the open episode
   and the seat with reply authority are the same person's, whichever of claim,
   routing, hand-over, revival and fork wrote last. *)
THEOREM OwnersHoldTheSeat ==
  ASSUME "remove" \notin Commands
  PROVE  Spec => []OwnerHoldsTheSeat
<1>1. Init => Seated
  <2>1. Init => OwnerHoldsTheSeat
    BY DEF Init, OwnerHoldsTheSeat
  <2> QED BY <2>1, InitPlaced DEF Seated
<1>2. Seated /\ [Next]_vars => Seated'
  <2>1. SUFFICES ASSUME Seated, [Next]_vars PROVE OwnerHoldsTheSeat'
    BY NextPlaced DEF Seated
  <2>2. CASE UNCHANGED vars
    BY <2>1, <2>2, SameSeats DEF Seated, vars
  <2> QED BY <2>1, <2>2, SweepStepSeats, DeskStepSeats, ReplyStepSeats, OtherStepSeats DEF Next
<1>3. Seated => OwnerHoldsTheSeat
  BY DEF Seated
<1> QED BY <1>1, <1>2, <1>3, PTL DEF Spec

-----------------------------------------------------------------------------
(* The resolution clock of a case, which every thread forked on it shares. *)

Resolved == Typed /\ ResolutionIsCoherent

LEMMA SameResolution ==
  ASSUME ResolutionIsCoherent, UNCHANGED <<convState, caseOf, caseState, resolvedAt>>
  PROVE  ResolutionIsCoherent'
  BY DEF ResolutionIsCoherent

(* A conditional move of unfinished work neither resolves nor unfinishes anything. *)
LEMMA AdvanceCoherent ==
  ASSUME Resolved, NEW c \in Conversations, NEW from, NEW to \in States \ {"RESOLVED"},
         from \cap Finished = {}, Advance(c, from, to), UNCHANGED <<caseOf, resolvedAt>>
  PROVE  ResolutionIsCoherent'
<1>1. /\ \A x \in Conversations : convState[x] \in Finished => convState'[x] = convState[x]
      /\ \A k \in Cases : caseState'[k] = caseState[k] \/ caseState'[k] # "RESOLVED"
  BY DEF Advance, Resolved, Typed, TypeOK, ThreadsOK, CasesOK
<1>2. ResolutionIsCoherent
  BY DEF Resolved
<1>3. ASSUME NEW k \in Cases, caseState'[k] = "RESOLVED"
      PROVE  resolvedAt'[k] # "NONE"
  BY <1>1, <1>2, <1>3 DEF ResolutionIsCoherent
<1>4. ASSUME NEW k \in Cases, resolvedAt'[k] # "NONE"
      PROVE  \E x \in Conversations : caseOf'[x] = k /\ convState'[x] \in Finished
  <2>1. PICK x \in Conversations : caseOf[x] = k /\ convState[x] \in Finished
    BY <1>2, <1>4 DEF ResolutionIsCoherent
  <2> QED BY <1>1, <2>1
<1> QED BY <1>3, <1>4 DEF ResolutionIsCoherent

(* A case that is worked again has no instant, and no other case loses its
   finished thread: only a thread of that case comes back. *)
LEMMA CountReopenCoherent ==
  ASSUME Resolved, NEW k \in Cases, CountReopen(k),
         \A x \in Conversations :
           convState[x] \in Finished /\ caseOf[x] # k =>
             convState'[x] = convState[x] /\ caseOf'[x] = caseOf[x]
  PROVE  ResolutionIsCoherent'
<1>1. /\ caseState'[k] = "ACTIVE" /\ resolvedAt'[k] = "NONE"
      /\ \A y \in Cases : y # k => caseState'[y] = caseState[y] /\ resolvedAt'[y] = resolvedAt[y]
  BY DEF CountReopen, Resolved, Typed, TypeOK, CasesOK
<1>2. ASSUME NEW y \in Cases, y # k, resolvedAt[y] # "NONE"
      PROVE  \E x \in Conversations : caseOf'[x] = y /\ convState'[x] \in Finished
  <2>1. PICK x \in Conversations : caseOf[x] = y /\ convState[x] \in Finished
    BY <1>2 DEF Resolved, ResolutionIsCoherent
  <2> QED BY <1>2, <2>1
<1> QED BY <1>1, <1>2 DEF Resolved, ResolutionIsCoherent

LEMMA ResolveCoherent == ASSUME Resolved, NEW d \in Desks, Resolve(d) PROVE ResolutionIsCoherent'
<1> DEFINE c == desk[d].conv
           k == CaseOf(c)
<1>1. c \in Conversations /\ k \in Cases
  BY DEF Resolve, Resolved, Typed, DesksAnchored, ThreadsAnchored, CaseOf
<1>2. /\ \A y \in Cases : /\ caseState'[y] = IF y = k THEN "RESOLVED" ELSE caseState[y]
                          /\ resolvedAt'[y] = IF y = k THEN "FRESH" ELSE resolvedAt[y]
      /\ \A x \in Conversations : convState'[x] = IF x = c THEN "RESOLVED" ELSE convState[x]
      /\ caseOf' = caseOf
  BY <1>1 DEF Resolve, Resolved, Typed, TypeOK, ThreadsOK, CasesOK
<1>3. caseOf[c] = k
  BY DEF CaseOf
<1> HIDE DEF c, k
<1>4. ResolutionIsCoherent
  BY DEF Resolved
<1>5. ASSUME NEW y \in Cases, resolvedAt'[y] # "NONE"
      PROVE  \E x \in Conversations : caseOf'[x] = y /\ convState'[x] \in Finished
  <2>1. CASE y = k
    BY <1>1, <1>2, <1>3, <2>1 DEF Finished
  <2>2. CASE y # k
    <3>1. PICK x \in Conversations : caseOf[x] = y /\ convState[x] \in Finished
      BY <1>2, <1>4, <1>5, <2>2 DEF ResolutionIsCoherent
    <3> QED BY <1>2, <3>1 DEF Finished
  <2> QED BY <2>1, <2>2
<1>6. \A y \in Cases : caseState'[y] = "RESOLVED" => resolvedAt'[y] # "NONE"
  BY <1>2, <1>4 DEF ResolutionIsCoherent
<1> QED BY <1>5, <1>6 DEF ResolutionIsCoherent

LEMMA ReturnCoherent ==
  ASSUME Resolved, NEW c \in Conversations, Exists(c), ReturnToActive(c), UNCHANGED caseOf
  PROVE  ResolutionIsCoherent'
<1>1. /\ CaseOf(c) \in Cases /\ CountReopen(CaseOf(c))
      /\ \A x \in Conversations : x # c => convState'[x] = convState[x]
  BY DEF ReturnToActive, Resolved, Typed, TypeOK, ThreadsOK, ThreadsAnchored, CaseOf
<1>2. caseOf[c] = CaseOf(c)
  BY DEF CaseOf
<1> QED BY <1>1, <1>2, CountReopenCoherent

LEMMA ForkCoherent ==
  ASSUME Resolved, NEW r \in Replies, NEW new \in Conversations, ForkConversation(r, new)
  PROVE  ResolutionIsCoherent'
<1>1. /\ CaseOf(reply[r].conv) \in Cases /\ CountReopen(CaseOf(reply[r].conv))
      /\ convState[new] = "NONE"
      /\ \A x \in Conversations : x # new => convState'[x] = convState[x] /\ caseOf'[x] = caseOf[x]
  BY DEF ForkConversation, Resolved, Typed, TypeOK, ThreadsOK, ThreadsAnchored, RepliesAnchored,
         CaseOf, Exists
<1>2. convState[new] \notin Finished
  BY <1>1 DEF Finished
<1> QED BY <1>1, <1>2, CountReopenCoherent

LEMMA SweepStepCoherent ==
  ASSUME Resolved, NEW s \in Sweepers, SweepStep(s)
  PROVE  ResolutionIsCoherent'
<1>1. ASSUME NEW item \in sweep[s].todo, NEW tag, Enqueue(s, item, tag)
      PROVE  ResolutionIsCoherent'
  <2>1. /\ item.conv \in Conversations /\ Advance(item.conv, {"NEW"}, "QUEUED")
        /\ UNCHANGED <<caseOf, resolvedAt>>
    BY <1>1 DEF Enqueue, Resolved, Typed, TypeOK, RequestsOK, Items
  <2>2. {"NEW"} \cap Finished = {} /\ "QUEUED" \in States \ {"RESOLVED"}
    BY DEF Finished, States
  <2> QED BY <2>1, <2>2, AdvanceCoherent
<1>2. CASE AssignFromRouting(s)
  <2>1. /\ sweep[s].conv \in Conversations
        /\ Advance(sweep[s].conv, AssignableFrom, "ASSIGNED")
        /\ UNCHANGED <<caseOf, resolvedAt>>
    BY <1>2 DEF AssignFromRouting, Resolved, Typed, TypeOK, RequestsOK, OrNone
  <2>2. AssignableFrom \cap Finished = {} /\ "ASSIGNED" \in States \ {"RESOLVED"}
    BY DEF Finished, AssignableFrom, States
  <2> QED BY <2>1, <2>2, AdvanceCoherent
<1>3. CASE UNCHANGED <<threadVars, caseVars>>
  BY <1>3, SameResolution DEF Resolved, threadVars, caseVars
<1> QED BY <1>1, <1>2, <1>3
        DEF SweepStep, SweepSelect, EnqueueOnly, EnqueueForAdvisor, AssignRefused, SweepDies

LEMMA DeskStepCoherent ==
  ASSUME Resolved, NEW d \in Desks, DeskStep(d)
  PROVE  ResolutionIsCoherent'
<1>1. CASE ClaimConversation(d)
  <2>1. /\ desk[d].conv \in Conversations
        /\ Advance(desk[d].conv, AssignableFrom, "ASSIGNED")
        /\ UNCHANGED <<caseOf, resolvedAt>>
    BY <1>1 DEF ClaimConversation, Resolved, Typed, DesksAnchored
  <2>2. AssignableFrom \cap Finished = {} /\ "ASSIGNED" \in States \ {"RESOLVED"}
    BY DEF Finished, AssignableFrom, States
  <2> QED BY <2>1, <2>2, AdvanceCoherent
<1>2. CASE Resolve(d)
  BY <1>2, ResolveCoherent
<1>3. CASE StaffReopen(d)
  BY <1>3, ReturnCoherent DEF StaffReopen, Resolved, Typed, DesksAnchored
<1>4. CASE UNCHANGED <<convState, caseOf, caseState, resolvedAt>>
  BY <1>4, SameResolution DEF Resolved
<1> QED BY <1>1, <1>2, <1>3, <1>4
        DEF DeskStep, ClaimRequest, ReassignRequest, ResolveRequest, ReopenRequest, Request,
            ClaimRefused, LifecycleRefused, RequestDies, Unanswered, RaiseEscalationLevel,
            Reassign, threadVars, caseVars

LEMMA ReplyStepCoherent ==
  ASSUME Resolved, NEW r \in Replies, ReplyStepOf(r)
  PROVE  ResolutionIsCoherent'
<1>1. CASE ReviveInPlace(r)
  BY <1>1, ReturnCoherent DEF ReviveInPlace, Resolved, Typed, RepliesAnchored
<1>2. CASE \E new \in Conversations : ForkConversation(r, new)
  BY <1>2, ForkCoherent
<1>3. CASE UNCHANGED <<threadVars, caseVars>>
  BY <1>3, SameResolution DEF Resolved, threadVars, caseVars
<1> QED BY <1>1, <1>2, <1>3
        DEF ReplyStepOf, ReplyFollow, ReplyReadHead, ReviveRefused, ReplyDies, ReplyStep

LEMMA OtherStepCoherent ==
  ASSUME Resolved,
         \/ \E c \in Conversations, k \in Cases : Intake(c, k)
         \/ PeopleStep
         \/ \E h \in holds : ReservationExpires(h)
         \/ \E k \in Cases : WindowExpires(k)
         \/ CloseExpired \/ (\E c \in Conversations : DateClosure(c)) \/ CloserDies
  PROVE  ResolutionIsCoherent'
<1>0. ResolutionIsCoherent /\ Typed
  BY DEF Resolved
<1>1. ASSUME NEW c \in Conversations, NEW k \in Cases, Intake(c, k)
      PROVE  ResolutionIsCoherent'
  <2>1. /\ convState[c] = "NONE" /\ UNCHANGED resolvedAt
        /\ \A x \in Conversations : x # c => convState'[x] = convState[x] /\ caseOf'[x] = caseOf[x]
        /\ \A y \in Cases : caseState'[y] = IF y = k THEN "NEW" ELSE caseState[y]
    BY <1>0, <1>1 DEF Intake, Exists, Typed, TypeOK, ThreadsOK, CasesOK
  <2>2. ASSUME NEW y \in Cases, resolvedAt'[y] # "NONE"
        PROVE  \E x \in Conversations : caseOf'[x] = y /\ convState'[x] \in Finished
    <3>1. PICK x \in Conversations : caseOf[x] = y /\ convState[x] \in Finished
      BY <1>0, <2>1, <2>2 DEF ResolutionIsCoherent
    <3> QED BY <2>1, <3>1 DEF Finished
  <2> QED BY <1>0, <2>1, <2>2 DEF ResolutionIsCoherent
<1>2. ASSUME NEW c \in Conversations, NEW e \in Employees, OwnerReply(c, e)
      PROVE  ResolutionIsCoherent'
  <2>1. {"ASSIGNED"} \cap Finished = {} /\ "ACTIVE" \in States \ {"RESOLVED"}
    BY DEF Finished, States
  <2> QED BY <1>2, <2>1, AdvanceCoherent DEF OwnerReply
<1>3. CASE \E k \in Cases : WindowExpires(k)
  <2>1. /\ UNCHANGED <<convState, caseOf, caseState>>
        /\ \A y \in Cases : resolvedAt'[y] = "NONE" <=> resolvedAt[y] = "NONE"
    BY <1>0, <1>3 DEF WindowExpires, Typed, TypeOK, CasesOK, threadVars
  <2> QED BY <1>0, <2>1 DEF ResolutionIsCoherent
<1>4. CASE CloseExpired
  <2>1. /\ UNCHANGED <<caseOf, caseState, resolvedAt>>
        /\ \A x \in Conversations : convState[x] \in Finished => convState'[x] \in Finished
    BY <1>4 DEF CloseExpired, Finished, caseVars
  <2> QED BY <1>0, <2>1 DEF ResolutionIsCoherent
<1>5. CASE UNCHANGED <<threadVars, caseVars>>
  BY <1>0, <1>5, SameResolution DEF threadVars, caseVars
<1> QED BY <1>1, <1>2, <1>3, <1>4, <1>5
        DEF PeopleStep, AddParticipant, RemoveParticipant, Deactivate, ReservationExpires,
            DateClosure, CloserDies

(* ResolutionIsCoherent: however many threads of a case are resolved, revived, forked
   and closed together, a case that reads RESOLVED has its instant, and an instant
   belongs to a finished thread. *)
THEOREM ResolutionStaysCoherent == Spec => []ResolutionIsCoherent
<1>1. Init => Resolved
  <2>1. Init => ResolutionIsCoherent
    BY DEF Init, ResolutionIsCoherent
  <2> QED BY <2>1, InitTyped DEF Resolved
<1>2. Resolved /\ [Next]_vars => Resolved'
  <2>1. SUFFICES ASSUME Resolved, [Next]_vars PROVE ResolutionIsCoherent'
    BY NextTyped DEF Resolved
  <2>2. CASE UNCHANGED vars
    BY <2>1, <2>2, SameResolution DEF Resolved, vars, threadVars, caseVars
  <2> QED BY <2>1, <2>2, SweepStepCoherent, DeskStepCoherent, ReplyStepCoherent,
             OtherStepCoherent DEF Next
<1>3. Resolved => ResolutionIsCoherent
  BY DEF Resolved
<1> QED BY <1>1, <1>2, <1>3, PTL DEF Spec

-----------------------------------------------------------------------------
(* One owner on the episode and on the case.  Staff requests keep the two together
   because they write both, and because without forks a case has one conversation. *)

CasesApart ==
  \A c, x \in Conversations : Exists(c) /\ Exists(x) /\ caseOf[c] = caseOf[x] => c = x
CasesOpen == \A c \in Conversations : Exists(c) => caseState[caseOf[c]] # "NONE"

Agreed == Placed /\ CasesApart /\ CasesOpen /\ EpisodeAgreesWithCase

(* No conversation arrives, and no case is forgotten. *)
CasesStay ==
  /\ caseOf' = caseOf
  /\ \A c \in Conversations : Exists(c)' => Exists(c)
  /\ \A k \in Cases : caseState[k] # "NONE" => caseState'[k] # "NONE"

LEMMA StayApart ==
  ASSUME Typed, CasesApart, CasesOpen, CasesStay
  PROVE  CasesApart' /\ CasesOpen'
<1>1. CasesApart'
  BY DEF CasesApart, CasesStay
<1>2. CasesOpen'
  BY DEF CasesOpen, CasesStay, Typed, ThreadsAnchored
<1> QED BY <1>1, <1>2

LEMMA SameCases == ASSUME UNCHANGED <<convState, caseOf, caseState>> PROVE CasesStay
  BY DEF CasesStay, Exists

LEMMA AdvanceKeepsCases ==
  ASSUME Typed, NEW c, NEW from, NEW to \in States, "NONE" \notin from,
         Advance(c, from, to), UNCHANGED caseOf
  PROVE  CasesStay
<1>1. \A x \in Conversations : convState'[x] # "NONE" => convState[x] # "NONE"
  BY DEF Advance, Typed, TypeOK, ThreadsOK
<1>2. \A k \in Cases : caseState[k] # "NONE" => caseState'[k] # "NONE"
  BY DEF Advance, Typed, TypeOK, CasesOK, States
<1> QED BY <1>1, <1>2 DEF CasesStay, Exists

LEMMA SameOwnership ==
  ASSUME Agreed, UNCHANGED <<owner, caseOwner, caseOf>>
  PROVE  EpisodeAgreesWithCase'
  BY DEF Agreed, EpisodeAgreesWithCase, CaseOf

LEMMA OwnAgrees ==
  ASSUME Agreed, NEW c \in Conversations, Exists(c), NEW e \in Employees, Own(c, e),
         UNCHANGED caseOf
  PROVE  EpisodeAgreesWithCase'
<1>1. caseOf[c] \in Cases
  BY DEF Agreed, Placed, Typed, ThreadsAnchored
<1>2. /\ \A x \in Conversations : owner'[x] = IF x = c THEN e ELSE owner[x]
      /\ \A k \in Cases : caseOwner'[k] = IF k = caseOf[c] THEN e ELSE caseOwner[k]
  BY <1>1 DEF Own, CaseOf, Agreed, Placed, Typed, TypeOK, PeopleOK, CasesOK
<1>3. \A x \in Conversations : owner[x] # None => Exists(x)
  BY DEF Agreed, Placed, ThreadsPlaced, Exists
<1>4. \A x \in Conversations : Exists(x) /\ x # c => caseOf[x] \in Cases /\ caseOf[x] # caseOf[c]
  BY DEF Agreed, CasesApart, Placed, Typed, ThreadsAnchored
<1> QED BY <1>1, <1>2, <1>3, <1>4 DEF Agreed, EpisodeAgreesWithCase, CaseOf

LEMMA IntakeAgrees ==
  ASSUME Agreed, NEW c \in Conversations, NEW k \in Cases, Intake(c, k)
  PROVE  CasesApart' /\ CasesOpen' /\ EpisodeAgreesWithCase'
<1>1. /\ convState[c] = "NONE" /\ caseState[k] = "NONE"
      /\ \A x \in Conversations : /\ convState'[x] = IF x = c THEN "NEW" ELSE convState[x]
                                  /\ caseOf'[x] = IF x = c THEN k ELSE caseOf[x]
      /\ \A y \in Cases : caseState'[y] = IF y = k THEN "NEW" ELSE caseState[y]
      /\ UNCHANGED <<owner, caseOwner>>
  BY DEF Intake, Exists, Agreed, Placed, Typed, TypeOK, ThreadsOK, CasesOK, peopleVars
<1>2. /\ \A x \in Conversations : Exists(x) => caseOf[x] \in Cases /\ caseState[caseOf[x]] # "NONE"
      /\ owner[c] = None
  BY <1>1 DEF Agreed, CasesOpen, Placed, Typed, ThreadsAnchored, ThreadsPlaced
<1>3. CasesApart'
  BY <1>1, <1>2 DEF Agreed, CasesApart, Exists
<1>4. CasesOpen'
  BY <1>1, <1>2 DEF CasesOpen, Exists
<1>5. EpisodeAgreesWithCase'
  BY <1>1, <1>2 DEF Agreed, EpisodeAgreesWithCase, CaseOf
<1> QED BY <1>3, <1>4, <1>5

LEMMA SweepStepAgrees ==
  ASSUME Agreed, NEW s \in Sweepers, SweepStep(s)
  PROVE  CasesStay /\ EpisodeAgreesWithCase'
<1>0. Typed
  BY DEF Agreed, Placed
<1>1. ASSUME NEW item, NEW tag, Enqueue(s, item, tag)
      PROVE  CasesStay /\ EpisodeAgreesWithCase'
  <2>1. /\ Advance(item.conv, {"NEW"}, "QUEUED") /\ "QUEUED" \in States
        /\ UNCHANGED <<caseOf, owner, caseOwner>>
    BY <1>1 DEF Enqueue, States, peopleVars
  <2> QED BY <1>0, <2>1, AdvanceKeepsCases, SameOwnership
<1>2. CASE AssignFromRouting(s)
  <2>1. /\ sweep[s].conv \in Conversations /\ Exists(sweep[s].conv)
        /\ sweep[s].to \in Employees /\ Own(sweep[s].conv, sweep[s].to)
        /\ Advance(sweep[s].conv, AssignableFrom, "ASSIGNED") /\ UNCHANGED caseOf
    BY <1>0, <1>2 DEF AssignFromRouting, Typed, TypeOK, RequestsOK, SweepsAnchored, OrNone
  <2>2. "NONE" \notin AssignableFrom /\ "ASSIGNED" \in States
    BY DEF AssignableFrom, States
  <2> QED BY <1>0, <2>1, <2>2, AdvanceKeepsCases, OwnAgrees
<1>3. CASE UNCHANGED <<threadVars, peopleVars, caseVars>>
  BY <1>3, SameCases, SameOwnership DEF threadVars, peopleVars, caseVars
<1> QED BY <1>1, <1>2, <1>3
        DEF SweepStep, SweepSelect, EnqueueOnly, EnqueueForAdvisor, AssignRefused, SweepDies

LEMMA DeskStepAgrees ==
  ASSUME Agreed, NEW d \in Desks, DeskStep(d)
  PROVE  CasesStay /\ EpisodeAgreesWithCase'
<1>0. Typed
  BY DEF Agreed, Placed
<1> DEFINE c == desk[d].conv
           to == desk[d].who
<1>1. CASE ClaimConversation(d)
  <2>1. /\ c \in Conversations /\ Exists(c) /\ to \in Employees /\ Own(c, to)
        /\ Advance(c, AssignableFrom, "ASSIGNED") /\ UNCHANGED caseOf
    BY <1>0, <1>1 DEF ClaimConversation, Typed, DesksAnchored
  <2>2. "NONE" \notin AssignableFrom /\ "ASSIGNED" \in States
    BY DEF AssignableFrom, States
  <2> HIDE DEF c, to
  <2> QED BY <1>0, <2>1, <2>2, AdvanceKeepsCases, OwnAgrees
<1>2. CASE Reassign(d)
  <2>1. /\ c \in Conversations /\ Exists(c) /\ to \in Employees /\ Own(c, to)
        /\ UNCHANGED <<convState, caseOf, caseState>>
    BY <1>0, <1>2 DEF Reassign, Typed, DesksAnchored, ReassignOps, threadVars
  <2> QED BY <2>1, SameCases, OwnAgrees
<1>3. CASE Resolve(d) \/ StaffReopen(d)
  <2>1. /\ c \in Conversations /\ convState[c] # "NONE"
        /\ \E state \in {"RESOLVED", "ACTIVE"} :
             /\ convState' = [convState EXCEPT ![c] = state]
             /\ caseState' = [caseState EXCEPT ![CaseOf(c)] = state]
        /\ UNCHANGED <<caseOf, owner, caseOwner>>
    BY <1>0, <1>3 DEF Resolve, StaffReopen, ReturnToActive, CountReopen, Typed, DesksAnchored,
                      Exists, peopleVars
  <2>2. CasesStay
    BY <1>0, <2>1 DEF CasesStay, Exists, Typed, TypeOK, ThreadsOK, CasesOK
  <2> QED BY <2>1, <2>2, SameOwnership
<1>4. CASE UNCHANGED <<convState, caseOf, caseState, owner, caseOwner>>
  BY <1>4, SameCases, SameOwnership
<1> QED BY <1>1, <1>2, <1>3, <1>4
        DEF DeskStep, ClaimRequest, ReassignRequest, ResolveRequest, ReopenRequest, Request,
            ClaimRefused, LifecycleRefused, RequestDies, Unanswered, RaiseEscalationLevel,
            threadVars, peopleVars, caseVars

LEMMA OtherStepAgrees ==
  ASSUME Agreed,
         \/ PeopleStep
         \/ \E h \in holds : ReservationExpires(h)
         \/ \E k \in Cases : WindowExpires(k)
         \/ CloseExpired \/ (\E c \in Conversations : DateClosure(c)) \/ CloserDies
  PROVE  CasesStay /\ EpisodeAgreesWithCase'
<1>1. ASSUME NEW c \in Conversations, NEW e \in Employees, OwnerReply(c, e)
      PROVE  CasesStay /\ EpisodeAgreesWithCase'
  <2>1. /\ Advance(c, {"ASSIGNED"}, "ACTIVE") /\ "ACTIVE" \in States
        /\ UNCHANGED <<caseOf, owner, caseOwner>>
    BY <1>1 DEF OwnerReply, States, peopleVars
  <2> QED BY <2>1, AdvanceKeepsCases, SameOwnership DEF Agreed, Placed
<1>2. CASE CloseExpired
  <2>1. /\ UNCHANGED <<caseOf, caseState, owner, caseOwner>>
        /\ \A x \in Conversations : Exists(x)' => Exists(x)
    BY <1>2 DEF CloseExpired, Closable, Exists, caseVars, peopleVars
  <2> QED BY <2>1, SameOwnership DEF CasesStay
<1>3. CASE UNCHANGED <<convState, caseOf, caseState, owner, caseOwner>>
  BY <1>3, SameCases, SameOwnership
<1> QED BY <1>1, <1>2, <1>3
        DEF PeopleStep, AddParticipant, RemoveParticipant, Deactivate, ReservationExpires,
            WindowExpires, DateClosure, CloserDies, threadVars, peopleVars, caseVars

LEMMA NextAgrees == ASSUME Replies = {}, Agreed, [Next]_vars PROVE Agreed'
<1>1. Placed' /\ Typed
  BY NextPlaced DEF Agreed, Placed
<1>2. CASE \E c \in Conversations, k \in Cases : Intake(c, k)
  BY <1>1, <1>2, IntakeAgrees DEF Agreed
<1>3. CASE CasesStay /\ EpisodeAgreesWithCase'
  BY <1>1, <1>3, StayApart DEF Agreed
<1>4. UNCHANGED vars => CasesStay /\ EpisodeAgreesWithCase'
  BY SameCases, SameOwnership DEF vars, threadVars, peopleVars, caseVars
<1> QED BY <1>2, <1>3, <1>4, SweepStepAgrees, DeskStepAgrees, OtherStepAgrees DEF Next

(* EpisodeAgreesWithCase, where no customer replies: however many sweeps, claims and
   hand-overs race, the open ownership episode and the case name one owner. *)
THEOREM EpisodesAgreeWithCases ==
  ASSUME Replies = {}
  PROVE  Spec => []EpisodeAgreesWithCase
<1>1. Init => Agreed
  <2>1. Init => CasesApart /\ CasesOpen /\ EpisodeAgreesWithCase
    BY DEF Init, CasesApart, CasesOpen, EpisodeAgreesWithCase, Exists
  <2> QED BY <2>1, InitPlaced DEF Agreed
<1>2. Agreed /\ [Next]_vars => Agreed'
  BY NextAgrees
<1>3. Agreed => EpisodeAgreesWithCase
  BY DEF Agreed
<1> QED BY <1>1, <1>2, <1>3, PTL DEF Spec
=============================================================================
