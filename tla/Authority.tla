------------------------------ MODULE Authority ------------------------------
(***************************************************************************)
(* The authorisation decision: which actions one principal may perform on  *)
(* one conversation, given the facts about both.  A fact with a period is  *)
(* among the facts exactly while the clock is within that period.  The     *)
(* state machine lets the facts of one principal begin and end.            *)
(***************************************************************************)
EXTENDS Naturals

CONSTANTS Grants,        \* role grants: [role, may, scope, on]
          Delegations,   \* [may, scope, on]
          Temporary,     \* time-boxed grants: [may, on], on = None for any conversation
          Rooms,         \* conversations: [type, id, team, department, sensitivity]
          Actions,       \* the vocabulary of permissions
          AdminRoles,    \* roles of a seat that administers a channel
          SensitivityRoles,  \* per sensitivity, the roles that unlock it, {} for all
          None

Types == {"CUSTOMER_SERVICE", "INTERNAL_DIRECT", "INTERNAL_GROUP", "INTERNAL_ANNOUNCEMENT",
          "INTERNAL_CHANNEL"}
Scopes == {"GLOBAL", "DEPARTMENT", "TEAM", "CONVERSATION"}

ASSUME AuthorityAssumption ==
  /\ \A g \in Grants : g.may \subseteq Actions /\ g.scope \in Scopes
  /\ \A d \in Delegations : d.may \subseteq Actions /\ d.scope \in Scopes
  /\ \A t \in Temporary : t.may \in Actions
  /\ \A r \in Rooms : r.type \in Types

VARIABLES room,      \* the conversation decided about
          facts      \* what is in force now about the principal and the conversation

vars == <<room, facts>>

Read == "conversation.read"
AuditRead == "privileged.conversation.read"

ParticipantActions ==
  {Read, "conversation.message.send", "conversation.note.internal",
   "conversation.attachment.upload", "conversation.attachment.download", "case.read"}
MembershipActions == {"conversation.participant.add", "conversation.participant.remove"}
OwnerActions ==
  ParticipantActions \cup MembershipActions \cup
  {"conversation.reply.customer", "conversation.transfer", "conversation.escalate",
   "conversation.resolve", "conversation.reopen"}
AnnouncementActions == {Read, "conversation.attachment.download", "conversation.message.react"}
AuditReadActions == {Read, AuditRead, "conversation.attachment.download", "case.read"}
ChannelReadActions == {Read, "conversation.attachment.download", "case.read"}
ChannelPostActions ==
  {"conversation.message.send", "conversation.note.internal", "conversation.attachment.upload"}
ChannelAdminActions == MembershipActions \cup {"conversation.rename", "channel.manage"}
CustomerActions ==
  {Read, "conversation.reply.customer", "conversation.attachment.upload",
   "conversation.attachment.download", "conversation.reopen"}
PrivateTypes == {"INTERNAL_DIRECT", "INTERNAL_GROUP"}

-----------------------------------------------------------------------------
(* An absent team or department matches nothing, another absent one included. *)
Covers(g, r, f) ==
  \/ g.scope = "GLOBAL"
  \/ g.scope = "DEPARTMENT" /\ g.on # None /\ g.on = r.department /\ g.on \in f.departments
  \/ g.scope = "TEAM" /\ g.on # None /\ g.on = r.team /\ g.on \in f.teams
  \/ g.scope = "CONVERSATION" /\ g.on = r.id

(* A role that unlocks restricted detail must itself be held here and now. *)
PassesSensitivity(r, f) ==
  \/ SensitivityRoles[r.sensitivity] = {}
  \/ \E g \in f.grants : g.role \in SensitivityRoles[r.sensitivity] /\ Covers(g, r, f)

Seated(f) == f.seat # None

(* Standing authority: a delegation or a role grant that was never about this room. *)
StandingCovers(r, f, a) ==
  \E g \in f.delegations \cup f.grants : a \in g.may /\ Covers(g, r, f)

TemporarilyGranted(r, f, a) ==
  \E t \in f.temporary : t.may = a /\ t.on \in {None, r.id}

AuditsAnyway(r, f, a) ==         \* mutant: the audit is consulted for every action
  ~f.owns /\ ~Seated(f)
    /\ \E g \in f.grants : AuditRead \in g.may /\ g.scope = "GLOBAL"
Audits(r, f, a) ==
  /\ a \in AuditReadActions /\ ~f.owns /\ ~Seated(f)
  /\ \E g \in f.grants : AuditRead \in g.may /\ g.scope = "GLOBAL"

MayReadChannel(f) == (f.visible \/ Seated(f)) /\ (f.policy.read = "ANYONE_WHO_CAN_SEE" \/ Seated(f))
Administers(f) == Seated(f) /\ f.seat.role \in AdminRoles
MayPostInChannel(f) ==
  /\ MayReadChannel(f)
  /\ ~f.policy.archived
  /\ \/ f.policy.post = "ANYONE_WHO_CAN_READ"
     \/ f.policy.post = "MEMBERS" /\ Seated(f)
     \/ f.policy.post = "ADMINISTRATORS" /\ Administers(f)

ChannelVerdict(f, a) ==
  CASE a \in ChannelReadActions -> IF MayReadChannel(f) THEN "ALLOW" ELSE "DENY"
    [] a \in ChannelPostActions -> IF MayPostInChannel(f) THEN "ALLOW" ELSE "DENY"
    [] a = "conversation.message.react" ->
         IF MayReadChannel(f) /\ ~f.policy.archived THEN "ALLOW" ELSE "DENY"
    [] a \in ChannelAdminActions -> IF Administers(f) THEN "ALLOW" ELSE "FALL_THROUGH"
    [] OTHER -> "FALL_THROUGH"

ParticipationGrants(r, f, a) ==
  /\ Seated(f)
  /\ \/ a \in ParticipantActions /\ (r.type = "INTERNAL_ANNOUNCEMENT" => a \in AnnouncementActions)
     \/ a = "conversation.reply.customer" /\ f.seat.reply
     \/ a \in MembershipActions /\ r.type \in PrivateTypes

StandingReachesAll(r, f) == FALSE     \* mutant: standing authority reaches private threads
ClosedToStanding(r, f) == ~Seated(f) /\ r.type \in PrivateTypes

(* The rungs below the channel's own policy, in the order the code consults them. *)
Ladder(r, f, a) ==
  IF ParticipationGrants(r, f, a) THEN "PARTICIPANT"
  ELSE IF TemporarilyGranted(r, f, a) THEN "TEMPORARY_GRANT"
  ELSE IF StandingCovers(r, f, a) /\ ~ClosedToStanding(r, f) /\ PassesSensitivity(r, f)
       THEN "STANDING" ELSE "NOTHING"

OutsidersFallThrough(r, f, a) ==  \* mutant: a channel refuses only its members
  CASE ChannelVerdict(f, a) = "ALLOW" -> IF Seated(f) THEN "PARTICIPANT" ELSE "CHANNEL_POLICY"
    [] ChannelVerdict(f, a) = "DENY" /\ Seated(f) -> "NOTHING"
    [] OTHER -> Ladder(r, f, a)
ChannelDecides(r, f, a) ==
  CASE ChannelVerdict(f, a) = "ALLOW" -> IF Seated(f) THEN "PARTICIPANT" ELSE "CHANNEL_POLICY"
    [] ChannelVerdict(f, a) = "DENY" -> IF TemporarilyGranted(r, f, a) THEN "TEMPORARY_GRANT"
                                        ELSE "NOTHING"
    [] OTHER -> Ladder(r, f, a)

(* The basis on which an employee may perform a, "NOTHING" when there is none. *)
EmployeeBasis(r, f, a) ==
  IF Audits(r, f, a) THEN "COMMUNICATION_AUDIT"
  ELSE IF f.owns /\ a \in OwnerActions THEN "OWNER"
  ELSE IF r.type = "INTERNAL_CHANNEL" THEN ChannelDecides(r, f, a) ELSE Ladder(r, f, a)

(* A customer is decided by kind before anything an employee could hold. *)
CustomerBasis(f, a) ==
  IF a \in CustomerActions /\ f.mine /\ f.assured THEN "CUSTOMER_OWN" ELSE "NOTHING"

(* decide *)
Basis(r, f, a) ==
  IF ~f.active THEN "NOTHING"
  ELSE IF f.kind = "CUSTOMER" THEN CustomerBasis(f, a) ELSE EmployeeBasis(r, f, a)

May(r, f, a) == Basis(r, f, a) # "NOTHING"
Permitted(r, f) == {a \in Actions : May(r, f, a)}

(* decideForTeam: only standing authority, of any scope but a conversation's. *)
TeamCovers(g, team, department, f) ==
  \/ g.scope = "GLOBAL"
  \/ g.scope = "DEPARTMENT" /\ g.on # None /\ g.on = department /\ g.on \in f.departments
  \/ g.scope = "TEAM" /\ g.on # None /\ g.on = team /\ g.on \in f.teams

MayForTeam(team, department, f, a) ==
  /\ f.active /\ f.kind # "CUSTOMER"
  /\ \E g \in f.delegations \cup f.grants : a \in g.may /\ TeamCovers(g, team, department, f)

(* holdsAction: the permission in principle, for operations without a resource. *)
Holds(f, a) ==
  f.active /\ f.kind # "CUSTOMER" /\ \E g \in f.delegations \cup f.grants : a \in g.may

-----------------------------------------------------------------------------
Seats == [role : AdminRoles \cup {"MEMBER"}, reply : BOOLEAN] \cup {None}
Policies == [read : {"ANYONE_WHO_CAN_SEE", "MEMBERS"},
             post : {"ANYONE_WHO_CAN_READ", "MEMBERS", "ADMINISTRATORS"}, archived : BOOLEAN]
Teams == {r.team : r \in Rooms} \ {None}
Departments == {r.department : r \in Rooms} \ {None}

Facts == [active : BOOLEAN, kind : {"EMPLOYEE", "CUSTOMER"}, teams : SUBSET Teams,
          departments : SUBSET Departments, grants : SUBSET Grants,
          delegations : SUBSET Delegations, temporary : SUBSET Temporary, owns : BOOLEAN,
          seat : Seats, policy : Policies, visible : BOOLEAN, mine : BOOLEAN,
          assured : BOOLEAN]

TypeOK == room \in Rooms /\ facts \in Facts

(* A newcomer, on each conversation; the facts accrue from there. *)
Init ==
  /\ room \in Rooms
  /\ \E k \in {"EMPLOYEE", "CUSTOMER"} : \E p \in Policies : \E mine \in BOOLEAN :
       /\ (room.type # "INTERNAL_CHANNEL") => p = [read |-> "MEMBERS", post |-> "MEMBERS",
                                                   archived |-> FALSE]
       /\ mine => k = "CUSTOMER"
       /\ k = "CUSTOMER" => room.type = "CUSTOMER_SERVICE"
       /\ facts = [active |-> TRUE, kind |-> k, teams |-> {}, departments |-> {},
                   grants |-> {}, delegations |-> {}, temporary |-> {}, owns |-> FALSE,
                   seat |-> None, policy |-> p, visible |-> FALSE, mine |-> mine,
                   assured |-> FALSE]

Becomes(f) == facts' = f /\ UNCHANGED room

(* Facts begin: assigned, delegated, granted, added, transferred to, shown a channel. *)
Gain ==
  \/ facts.kind = "CUSTOMER" /\ ~facts.assured /\ Becomes([facts EXCEPT !.assured = TRUE])
  \/ /\ facts.kind = "EMPLOYEE"
     /\ \/ \E g \in Grants \ facts.grants : Becomes([facts EXCEPT !.grants = @ \cup {g}])
        \/ \E d \in Delegations \ facts.delegations : Becomes([facts EXCEPT !.delegations = @ \cup {d}])
        \/ \E t \in Temporary \ facts.temporary : Becomes([facts EXCEPT !.temporary = @ \cup {t}])
        \/ \E t \in Teams \ facts.teams : Becomes([facts EXCEPT !.teams = @ \cup {t}])
        \/ \E d \in Departments \ facts.departments : Becomes([facts EXCEPT !.departments = @ \cup {d}])
        \/ room.type = "CUSTOMER_SERVICE" /\ ~facts.owns /\ Becomes([facts EXCEPT !.owns = TRUE])
        \/ \E s \in Seats \ {None} : facts.seat = None /\ Becomes([facts EXCEPT !.seat = s])
        \/ room.type = "INTERNAL_CHANNEL" /\ ~facts.visible /\ Becomes([facts EXCEPT !.visible = TRUE])

(* Facts end: a period runs out, or somebody takes the fact back. *)
Lose ==
  \/ facts.active /\ Becomes([facts EXCEPT !.active = FALSE])
  \/ facts.assured /\ Becomes([facts EXCEPT !.assured = FALSE])
  \/ \E g \in facts.grants : Becomes([facts EXCEPT !.grants = @ \ {g}])
  \/ \E d \in facts.delegations : Becomes([facts EXCEPT !.delegations = @ \ {d}])
  \/ \E t \in facts.temporary : Becomes([facts EXCEPT !.temporary = @ \ {t}])
  \/ \E t \in facts.teams : Becomes([facts EXCEPT !.teams = @ \ {t}])
  \/ \E d \in facts.departments : Becomes([facts EXCEPT !.departments = @ \ {d}])
  \/ facts.owns /\ Becomes([facts EXCEPT !.owns = FALSE])
  \/ facts.seat # None /\ Becomes([facts EXCEPT !.seat = None])
  \/ facts.visible /\ Becomes([facts EXCEPT !.visible = FALSE])
  \/ ~facts.policy.archived /\ room.type = "INTERNAL_CHANNEL"
       /\ Becomes([facts EXCEPT !.policy.archived = TRUE])

Next == Gain \/ Lose

Spec == Init /\ [][Next]_vars

-----------------------------------------------------------------------------
AuditGrants(f) == {g \in f.grants : AuditRead \in g.may}
WithoutStanding(f) == [f EXCEPT !.grants = AuditGrants(f), !.delegations = {}]
WithoutAudit(f) == [f EXCEPT !.grants = @ \ AuditGrants(f)]

(* When a fact ends, its holder can do no more than before: in the conversation, on
   a team's queue, or where no resource is named.  The one exception is the auditor
   who leaves a conversation, and reads it as an auditor again. *)
LosingNeverGives ==
  [][Lose => \A a \in Actions :
       /\ May(room, facts', a) /\ ~May(room, facts, a) =>
            Basis(room, facts', a) = "COMMUNICATION_AUDIT" /\ (facts.owns \/ Seated(facts))
       /\ Holds(facts', a) => Holds(facts, a)
       /\ \A t \in Teams : \A d \in Departments \cup {None} :
            MayForTeam(t, d, facts', a) => MayForTeam(t, d, facts, a)]_vars

(* Who may do what in a private thread they have no seat in, and who may read,
   post or react in a channel, does not depend on roles or delegations at all. *)
StandingStaysOut ==
  \A a \in Actions :
    \/ room.type \in PrivateTypes /\ ~Seated(facts)
    \/ room.type = "INTERNAL_CHANNEL"
         /\ a \in ChannelReadActions \cup ChannelPostActions \cup {"conversation.message.react"}
    => (May(room, facts, a) <=> May(room, WithoutStanding(facts), a))

(* What somebody can do only because they audit is to read, and the decision says
   so: such an access is never recorded as an ordinary one. *)
AuditIsAccountable ==
  \A a \in Actions :
    May(room, facts, a) /\ ~May(room, WithoutAudit(facts), a)
      => \/ Basis(room, facts, a) = "COMMUNICATION_AUDIT" /\ a \in AuditReadActions
         \/ \E g \in AuditGrants(facts) : a \in g.may
=============================================================================
