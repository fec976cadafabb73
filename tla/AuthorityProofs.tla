--------------------------- MODULE AuthorityProofs ---------------------------
(***************************************************************************)
(* Theorems about Authority, for any grants, delegations, rooms and        *)
(* actions.  The argument for LosingNeverGives is that every rung of the   *)
(* ladder is monotone in the facts, with one exception, the audit rung,    *)
(* which opens when a seat or the ownership is lost.                       *)
(***************************************************************************)
EXTENDS Authority, TLAPS

-----------------------------------------------------------------------------
LEMMA InitTyped == ASSUME Init PROVE TypeOK
  BY DEF Init, TypeOK, Facts, Seats, Policies

(* Each step changes one field of the record of facts. *)
LEMMA FieldTyped ==
  ASSUME TypeOK
  PROVE  /\ \A b \in BOOLEAN : /\ [facts EXCEPT !.active = b] \in Facts
                              /\ [facts EXCEPT !.assured = b] \in Facts
                              /\ [facts EXCEPT !.owns = b] \in Facts
                              /\ [facts EXCEPT !.visible = b] \in Facts
         /\ \A G \in SUBSET Grants : [facts EXCEPT !.grants = G] \in Facts
         /\ \A D \in SUBSET Delegations : [facts EXCEPT !.delegations = D] \in Facts
         /\ \A T \in SUBSET Temporary : [facts EXCEPT !.temporary = T] \in Facts
         /\ \A T \in SUBSET Teams : [facts EXCEPT !.teams = T] \in Facts
         /\ \A D \in SUBSET Departments : [facts EXCEPT !.departments = D] \in Facts
         /\ \A s \in Seats : [facts EXCEPT !.seat = s] \in Facts
         /\ \A p \in Policies : [facts EXCEPT !.policy = p] \in Facts
  BY DEF TypeOK, Facts

LEMMA SetsTyped ==
  ASSUME TypeOK
  PROVE  /\ facts.grants \subseteq Grants /\ facts.delegations \subseteq Delegations
         /\ facts.temporary \subseteq Temporary /\ facts.teams \subseteq Teams
         /\ facts.departments \subseteq Departments /\ facts.policy \in Policies
         /\ None \in Seats
  BY DEF TypeOK, Facts, Seats

LEMMA GainTyped == ASSUME TypeOK, Gain PROVE TypeOK'
<1>1. SUFFICES facts' \in Facts /\ room' = room
  BY DEF TypeOK
<1>2. CASE \E g \in Grants \ facts.grants : Becomes([facts EXCEPT !.grants = @ \cup {g}])
  BY <1>2, FieldTyped, SetsTyped DEF Becomes
<1>3. CASE \E d \in Delegations \ facts.delegations :
             Becomes([facts EXCEPT !.delegations = @ \cup {d}])
  BY <1>3, FieldTyped, SetsTyped DEF Becomes
<1>4. CASE \E t \in Temporary \ facts.temporary :
             Becomes([facts EXCEPT !.temporary = @ \cup {t}])
  BY <1>4, FieldTyped, SetsTyped DEF Becomes
<1>5. CASE \E t \in Teams \ facts.teams : Becomes([facts EXCEPT !.teams = @ \cup {t}])
  BY <1>5, FieldTyped, SetsTyped DEF Becomes
<1>6. CASE \E d \in Departments \ facts.departments :
             Becomes([facts EXCEPT !.departments = @ \cup {d}])
  BY <1>6, FieldTyped, SetsTyped DEF Becomes
<1>7. CASE \E s \in Seats \ {None} : Becomes([facts EXCEPT !.seat = s])
  BY <1>7, FieldTyped DEF Becomes
<1>8. CASE \/ Becomes([facts EXCEPT !.assured = TRUE])
           \/ Becomes([facts EXCEPT !.owns = TRUE])
           \/ Becomes([facts EXCEPT !.visible = TRUE])
  BY <1>8, FieldTyped DEF Becomes
<1> QED BY <1>2, <1>3, <1>4, <1>5, <1>6, <1>7, <1>8 DEF Gain

LEMMA LoseTyped == ASSUME TypeOK, Lose PROVE TypeOK'
<1>1. SUFFICES facts' \in Facts /\ room' = room
  BY DEF TypeOK
<1>2. CASE \E g \in facts.grants : Becomes([facts EXCEPT !.grants = @ \ {g}])
  BY <1>2, FieldTyped, SetsTyped DEF Becomes
<1>3. CASE \E d \in facts.delegations : Becomes([facts EXCEPT !.delegations = @ \ {d}])
  BY <1>3, FieldTyped, SetsTyped DEF Becomes
<1>4. CASE \E t \in facts.temporary : Becomes([facts EXCEPT !.temporary = @ \ {t}])
  BY <1>4, FieldTyped, SetsTyped DEF Becomes
<1>5. CASE \E t \in facts.teams : Becomes([facts EXCEPT !.teams = @ \ {t}])
  BY <1>5, FieldTyped, SetsTyped DEF Becomes
<1>6. CASE \E d \in facts.departments : Becomes([facts EXCEPT !.departments = @ \ {d}])
  BY <1>6, FieldTyped, SetsTyped DEF Becomes
<1>7. CASE Becomes([facts EXCEPT !.seat = None])
  BY <1>7, FieldTyped, SetsTyped DEF Becomes
<1>8. CASE \/ Becomes([facts EXCEPT !.active = FALSE])
           \/ Becomes([facts EXCEPT !.assured = FALSE])
           \/ Becomes([facts EXCEPT !.owns = FALSE])
           \/ Becomes([facts EXCEPT !.visible = FALSE])
  BY <1>8, FieldTyped DEF Becomes
<1>9. CASE Becomes([facts EXCEPT !.policy.archived = TRUE])
  <2>1. [facts.policy EXCEPT !.archived = TRUE] \in Policies
    BY SetsTyped DEF Policies
  <2>2. [facts EXCEPT !.policy.archived = TRUE]
          = [facts EXCEPT !.policy = [facts.policy EXCEPT !.archived = TRUE]]
    BY DEF TypeOK, Facts
  <2> QED BY <1>9, <2>1, <2>2, FieldTyped DEF Becomes
<1> QED BY <1>2, <1>3, <1>4, <1>5, <1>6, <1>7, <1>8, <1>9 DEF Lose

(* Every fact keeps its type, whichever begin and end. *)
THEOREM TypeCorrect == Spec => []TypeOK
<1>1. TypeOK /\ [Next]_vars => TypeOK'
  BY GainTyped, LoseTyped DEF Next, vars, TypeOK
<1> QED BY <1>1, InitTyped, PTL DEF Spec

-----------------------------------------------------------------------------
(* Roles and delegations do not reach what is closed to them. *)

LEMMA SameWithoutStanding ==
  ASSUME NEW f \in Facts
  PROVE  LET g == WithoutStanding(f)
         IN /\ g.active = f.active /\ g.kind = f.kind /\ g.temporary = f.temporary
            /\ g.owns = f.owns /\ g.seat = f.seat /\ g.policy = f.policy
            /\ g.visible = f.visible /\ g.mine = f.mine /\ g.assured = f.assured
            /\ g.delegations = {} /\ g.grants = AuditGrants(f)
  BY DEF WithoutStanding, Facts

LEMMA AuditsTheSame ==
  ASSUME NEW r \in Rooms, NEW f \in Facts, NEW a \in Actions
  PROVE  Audits(r, WithoutStanding(f), a) <=> Audits(r, f, a)
  BY SameWithoutStanding DEF Audits, Seated, AuditGrants

LEMMA VerdictTheSame ==
  ASSUME NEW f \in Facts, NEW a \in Actions
  PROVE  ChannelVerdict(WithoutStanding(f), a) = ChannelVerdict(f, a)
  BY SameWithoutStanding
  DEF ChannelVerdict, MayReadChannel, MayPostInChannel, Administers, Seated

LEMMA PrivateLadder ==
  ASSUME NEW r \in Rooms, NEW f \in Facts, NEW a \in Actions,
         r.type \in PrivateTypes, ~Seated(f)
  PROVE  Ladder(r, WithoutStanding(f), a) = Ladder(r, f, a)
  BY SameWithoutStanding
  DEF Ladder, ParticipationGrants, TemporarilyGranted, ClosedToStanding, Seated

LEMMA ChannelDecided ==
  ASSUME NEW r \in Rooms, NEW f \in Facts,
         NEW a \in ChannelReadActions \cup ChannelPostActions \cup {"conversation.message.react"}
  PROVE  /\ ChannelVerdict(f, a) \in {"ALLOW", "DENY"}
         /\ a \in Actions => ChannelDecides(r, WithoutStanding(f), a) = ChannelDecides(r, f, a)
<1>1. ChannelVerdict(f, a) \in {"ALLOW", "DENY"}
  <2>1. CASE a \in ChannelReadActions
    BY <2>1 DEF ChannelVerdict, ChannelReadActions, ChannelPostActions, ChannelAdminActions,
                MembershipActions, Read
  <2>2. CASE a \in ChannelPostActions
    BY <2>2 DEF ChannelVerdict, ChannelReadActions, ChannelPostActions, ChannelAdminActions,
                MembershipActions, Read
  <2>3. CASE a = "conversation.message.react"
    BY <2>3 DEF ChannelVerdict, ChannelReadActions, ChannelPostActions, ChannelAdminActions,
                MembershipActions, Read
  <2> QED BY <2>1, <2>2, <2>3
<1>2. CASE a \in Actions
  BY <1>1, <1>2, SameWithoutStanding, VerdictTheSame
  DEF ChannelDecides, TemporarilyGranted, Seated
<1> QED BY <1>1, <1>2

LEMMA StandingOut ==
  ASSUME NEW r \in Rooms, NEW f \in Facts, NEW a \in Actions,
         \/ r.type \in PrivateTypes /\ ~Seated(f)
         \/ r.type = "INTERNAL_CHANNEL"
              /\ a \in ChannelReadActions \cup ChannelPostActions \cup {"conversation.message.react"}
  PROVE  May(r, f, a) <=> May(r, WithoutStanding(f), a)
<1> DEFINE g == WithoutStanding(f)
<1>1. /\ g.active = f.active /\ g.kind = f.kind /\ g.owns = f.owns
      /\ CustomerBasis(g, a) = CustomerBasis(f, a)
      /\ Audits(r, g, a) <=> Audits(r, f, a)
  BY SameWithoutStanding, AuditsTheSame DEF CustomerBasis
<1>2. CASE r.type \in PrivateTypes /\ ~Seated(f)
  <2>1. r.type # "INTERNAL_CHANNEL" /\ Ladder(r, g, a) = Ladder(r, f, a)
    BY <1>2, PrivateLadder DEF PrivateTypes
  <2> QED BY <1>1, <2>1 DEF May, Basis, EmployeeBasis
<1>3. CASE r.type = "INTERNAL_CHANNEL"
             /\ a \in ChannelReadActions \cup ChannelPostActions \cup {"conversation.message.react"}
  <2>1. ChannelDecides(r, g, a) = ChannelDecides(r, f, a)
    BY <1>3, ChannelDecided
  <2> QED BY <1>1, <1>3, <2>1 DEF May, Basis, EmployeeBasis
<1> QED BY <1>2, <1>3

(* Roles and delegations reach neither a private thread from outside nor what a
   channel's policy decides. *)
THEOREM StandingIsKeptOut == Spec => []StandingStaysOut
<1>1. TypeOK => StandingStaysOut
  BY StandingOut DEF TypeOK, StandingStaysOut
<1> QED BY <1>1, TypeCorrect, PTL

-----------------------------------------------------------------------------
(* g is what is left of f when some facts have ended. *)
Less(g, f) ==
  /\ g.active => f.active
  /\ g.kind = f.kind /\ g.mine = f.mine
  /\ g.assured => f.assured
  /\ g.owns => f.owns
  /\ g.visible => f.visible
  /\ g.grants \subseteq f.grants /\ g.delegations \subseteq f.delegations
  /\ g.temporary \subseteq f.temporary
  /\ g.teams \subseteq f.teams /\ g.departments \subseteq f.departments
  /\ g.seat \in {f.seat, None}
  /\ g.policy.read = f.policy.read /\ g.policy.post = f.policy.post
  /\ f.policy.archived => g.policy.archived

LEMMA LosingIsLess == ASSUME TypeOK, Lose PROVE Less(facts', facts) /\ room' = room
<1>1. CASE Becomes([facts EXCEPT !.policy.archived = TRUE])
  BY <1>1 DEF Becomes, TypeOK, Facts, Policies, Less
<1> QED BY <1>1 DEF Lose, Becomes, TypeOK, Facts, Less

LEMMA CoversLess ==
  ASSUME NEW g \in Facts, NEW f \in Facts, Less(g, f), NEW r \in Rooms,
         NEW x \in Grants \cup Delegations, Covers(x, r, g)
  PROVE  Covers(x, r, f)
  BY DEF Covers, Less

LEMMA StandingLess ==
  ASSUME NEW g \in Facts, NEW f \in Facts, Less(g, f), NEW r \in Rooms, NEW a \in Actions
  PROVE  /\ StandingCovers(r, g, a) => StandingCovers(r, f, a)
         /\ PassesSensitivity(r, g) => PassesSensitivity(r, f)
         /\ ClosedToStanding(r, f) => ClosedToStanding(r, g)
<1>1. ASSUME StandingCovers(r, g, a) PROVE StandingCovers(r, f, a)
  <2>1. PICK x \in g.delegations \cup g.grants : a \in x.may /\ Covers(x, r, g)
    BY <1>1 DEF StandingCovers
  <2>2. x \in f.delegations \cup f.grants /\ x \in Grants \cup Delegations
    BY DEF Less, Facts
  <2> QED BY <2>1, <2>2, CoversLess DEF StandingCovers
<1>2. ASSUME PassesSensitivity(r, g) PROVE PassesSensitivity(r, f)
  <2>1. CASE SensitivityRoles[r.sensitivity] = {}
    BY <2>1 DEF PassesSensitivity
  <2>2. CASE \E x \in g.grants : x.role \in SensitivityRoles[r.sensitivity] /\ Covers(x, r, g)
    <3>1. PICK x \in g.grants : x.role \in SensitivityRoles[r.sensitivity] /\ Covers(x, r, g)
      BY <2>2
    <3>2. x \in f.grants /\ x \in Grants
      BY DEF Less, Facts
    <3> QED BY <3>1, <3>2, CoversLess DEF PassesSensitivity
  <2> QED BY <1>2, <2>1, <2>2 DEF PassesSensitivity
<1>3. ClosedToStanding(r, f) => ClosedToStanding(r, g)
  BY DEF ClosedToStanding, Seated, Less
<1> QED BY <1>1, <1>2, <1>3

LEMMA LadderLess ==
  ASSUME NEW g \in Facts, NEW f \in Facts, Less(g, f), NEW r \in Rooms, NEW a \in Actions,
         Ladder(r, g, a) # "NOTHING"
  PROVE  Ladder(r, f, a) # "NOTHING"
<1>1. ParticipationGrants(r, g, a) => ParticipationGrants(r, f, a)
  BY DEF ParticipationGrants, Seated, Less
<1>2. TemporarilyGranted(r, g, a) => TemporarilyGranted(r, f, a)
  BY DEF TemporarilyGranted, Less
<1> QED BY <1>1, <1>2, StandingLess DEF Ladder

LEMMA ChannelLess ==
  ASSUME NEW g \in Facts, NEW f \in Facts, Less(g, f), NEW r \in Rooms, NEW a \in Actions,
         ChannelDecides(r, g, a) # "NOTHING"
  PROVE  ChannelDecides(r, f, a) # "NOTHING"
<1>1. /\ MayReadChannel(g) => MayReadChannel(f)
      /\ Administers(g) => Administers(f)
      /\ MayPostInChannel(g) => MayPostInChannel(f)
  BY DEF MayReadChannel, Administers, MayPostInChannel, Seated, Less
<1>2. /\ ChannelVerdict(g, a) \in {"ALLOW", "DENY", "FALL_THROUGH"}
      /\ ChannelVerdict(g, a) = "ALLOW" => ChannelVerdict(f, a) = "ALLOW"
      /\ ChannelVerdict(f, a) = "DENY" => ChannelVerdict(g, a) = "DENY"
  BY <1>1
  DEF ChannelVerdict, ChannelReadActions, ChannelPostActions, ChannelAdminActions,
      MembershipActions, Less
<1>3. TemporarilyGranted(r, g, a) => TemporarilyGranted(r, f, a)
  BY DEF TemporarilyGranted, Less
<1>4. CASE ChannelVerdict(f, a) = "ALLOW"
  BY <1>4 DEF ChannelDecides
<1>5. CASE ChannelVerdict(f, a) = "DENY"
  BY <1>2, <1>3, <1>5 DEF ChannelDecides
<1>6. CASE ChannelVerdict(f, a) \notin {"ALLOW", "DENY"}
  <2>1. ChannelVerdict(g, a) = "FALL_THROUGH"
    BY <1>2, <1>6
       DEF ChannelVerdict, ChannelReadActions, ChannelPostActions, ChannelAdminActions,
           MembershipActions
  <2>2. Ladder(r, g, a) # "NOTHING"
    BY <2>1 DEF ChannelDecides
  <2> QED BY <1>6, <2>2, LadderLess DEF ChannelDecides
<1> QED BY <1>4, <1>5, <1>6

LEMMA MayLess ==
  ASSUME NEW g \in Facts, NEW f \in Facts, Less(g, f), NEW r \in Rooms, NEW a \in Actions,
         May(r, g, a), ~May(r, f, a)
  PROVE  Basis(r, g, a) = "COMMUNICATION_AUDIT" /\ (f.owns \/ Seated(f))
<1>1. g.active /\ f.active /\ g.kind = f.kind
  BY DEF May, Basis, Less
<1>2. g.kind # "CUSTOMER"
  BY <1>1 DEF May, Basis, CustomerBasis, Less
<1>3. /\ Basis(r, g, a) = EmployeeBasis(r, g, a) /\ EmployeeBasis(r, g, a) # "NOTHING"
      /\ EmployeeBasis(r, f, a) = "NOTHING"
  BY <1>1, <1>2 DEF May, Basis
<1>4. ~Audits(r, f, a) /\ ~(f.owns /\ a \in OwnerActions)
  BY <1>3 DEF EmployeeBasis
<1>5. Audits(r, g, a)
  <2> SUFFICES ASSUME ~Audits(r, g, a) PROVE FALSE
    OBVIOUS
  <2>1. ~(g.owns /\ a \in OwnerActions)
    BY <1>4 DEF Less
  <2>2. CASE r.type = "INTERNAL_CHANNEL"
    BY <1>3, <1>4, <2>1, <2>2, ChannelLess DEF EmployeeBasis
  <2>3. CASE r.type # "INTERNAL_CHANNEL"
    BY <1>3, <1>4, <2>1, <2>3, LadderLess DEF EmployeeBasis
  <2> QED BY <2>2, <2>3
<1>6. f.owns \/ Seated(f)
  BY <1>4, <1>5 DEF Audits, Less
<1> QED BY <1>3, <1>5, <1>6 DEF EmployeeBasis

LEMMA HoldsLess ==
  ASSUME NEW g \in Facts, NEW f \in Facts, Less(g, f), NEW a \in Actions
  PROVE  /\ Holds(g, a) => Holds(f, a)
         /\ \A t \in Teams : \A d \in Departments \cup {None} :
              MayForTeam(t, d, g, a) => MayForTeam(t, d, f, a)
  BY DEF Holds, MayForTeam, TeamCovers, Less

(* Taking a fact away from somebody gives them nothing, the auditor who leaves a
   conversation excepted. *)
THEOREM NothingIsWonByLosing == Spec => LosingNeverGives
<1> DEFINE Step ==
      Lose => \A a \in Actions :
        /\ May(room, facts', a) /\ ~May(room, facts, a) =>
             Basis(room, facts', a) = "COMMUNICATION_AUDIT" /\ (facts.owns \/ Seated(facts))
        /\ Holds(facts', a) => Holds(facts, a)
        /\ \A t \in Teams : \A d \in Departments \cup {None} :
             MayForTeam(t, d, facts', a) => MayForTeam(t, d, facts, a)
<1>1. ASSUME TypeOK, Lose PROVE Step
  <2>1. Less(facts', facts) /\ facts' \in Facts /\ facts \in Facts /\ room \in Rooms
    BY <1>1, LosingIsLess, LoseTyped DEF TypeOK
  <2> QED BY <2>1, MayLess, HoldsLess
<1>2. TypeOK /\ [Next]_vars => [Step]_vars
  BY <1>1
<1> QED BY <1>2, TypeCorrect, PTL DEF Spec, LosingNeverGives

-----------------------------------------------------------------------------
(* What an audit grant adds, other than the audit itself: the actions it names.  It
   would also lend its role to somebody's other grants, were that role one that
   unlocks restricted detail; the roles of the catalogue that audit are not. *)

LEMMA SameWithoutAudit ==
  ASSUME NEW f \in Facts
  PROVE  LET w == WithoutAudit(f)
         IN /\ w.active = f.active /\ w.kind = f.kind /\ w.temporary = f.temporary
            /\ w.owns = f.owns /\ w.seat = f.seat /\ w.policy = f.policy
            /\ w.visible = f.visible /\ w.mine = f.mine /\ w.assured = f.assured
            /\ w.teams = f.teams /\ w.departments = f.departments
            /\ w.delegations = f.delegations /\ w.grants = f.grants \ AuditGrants(f)
  BY DEF WithoutAudit, Facts

LEMMA AuditAddsItsActions ==
  ASSUME NEW r \in Rooms, NEW f \in Facts, NEW a \in Actions,
         \A g \in Grants : AuditRead \in g.may =>
           g.role \notin SensitivityRoles[r.sensitivity],
         \A g \in AuditGrants(f) : a \notin g.may
  PROVE  Ladder(r, WithoutAudit(f), a) = Ladder(r, f, a)
<1> DEFINE w == WithoutAudit(f)
<1>1. \A g : Covers(g, r, w) <=> Covers(g, r, f)
  BY SameWithoutAudit DEF Covers
<1>2. StandingCovers(r, w, a) <=> StandingCovers(r, f, a)
  BY <1>1, SameWithoutAudit DEF StandingCovers
<1>3. PassesSensitivity(r, w) <=> PassesSensitivity(r, f)
  <2>1. \A g \in f.grants : g.role \in SensitivityRoles[r.sensitivity] => g \in w.grants
    BY SameWithoutAudit DEF AuditGrants, Facts
  <2> QED BY <1>1, <2>1, SameWithoutAudit DEF PassesSensitivity
<1>4. /\ ParticipationGrants(r, w, a) <=> ParticipationGrants(r, f, a)
      /\ TemporarilyGranted(r, w, a) <=> TemporarilyGranted(r, f, a)
      /\ ClosedToStanding(r, w) <=> ClosedToStanding(r, f)
  BY SameWithoutAudit DEF ParticipationGrants, TemporarilyGranted, ClosedToStanding, Seated
<1> QED BY <1>2, <1>3, <1>4 DEF Ladder

LEMMA AuditAccounted ==
  ASSUME NEW r \in Rooms, NEW f \in Facts, NEW a \in Actions,
         \A g \in Grants : AuditRead \in g.may =>
           g.role \notin SensitivityRoles[r.sensitivity],
         May(r, f, a), ~May(r, WithoutAudit(f), a)
  PROVE  \/ Basis(r, f, a) = "COMMUNICATION_AUDIT" /\ a \in AuditReadActions
         \/ \E g \in AuditGrants(f) : a \in g.may
<1> DEFINE w == WithoutAudit(f)
<1>1. SUFFICES ASSUME \A g \in AuditGrants(f) : a \notin g.may
               PROVE  Basis(r, f, a) = "COMMUNICATION_AUDIT" /\ a \in AuditReadActions
  OBVIOUS
<1>2. f.active /\ f.kind # "CUSTOMER"
  BY SameWithoutAudit DEF May, Basis, CustomerBasis
<1>3. /\ Basis(r, f, a) = EmployeeBasis(r, f, a) /\ EmployeeBasis(r, f, a) # "NOTHING"
      /\ EmployeeBasis(r, w, a) = "NOTHING"
  BY <1>2, SameWithoutAudit DEF May, Basis
<1>4. ~Audits(r, w, a)
  BY SameWithoutAudit DEF Audits, AuditGrants
<1>5. Ladder(r, w, a) = Ladder(r, f, a)
  BY <1>1, AuditAddsItsActions
<1>6. ChannelDecides(r, w, a) = ChannelDecides(r, f, a)
  <2>1. ChannelVerdict(w, a) = ChannelVerdict(f, a)
    BY SameWithoutAudit
    DEF ChannelVerdict, MayReadChannel, MayPostInChannel, Administers, Seated
  <2>2. TemporarilyGranted(r, w, a) <=> TemporarilyGranted(r, f, a)
    BY SameWithoutAudit DEF TemporarilyGranted
  <2> QED BY <1>5, <2>1, <2>2, SameWithoutAudit DEF ChannelDecides, Seated
<1>7. Audits(r, f, a)
  BY <1>3, <1>4, <1>5, <1>6, SameWithoutAudit DEF EmployeeBasis
<1> QED BY <1>3, <1>7 DEF EmployeeBasis, Audits

(* AuditIsAccountable, where no role that audits unlocks restricted detail (the
   catalogue gives the audit to ADMIN alone, which is in no class of
   SENSITIVITY_ROLES): what somebody can do only because they audit is a read that
   the decision records as one, or an action their audit grant itself names. *)
THEOREM AuditsAreAccountable ==
  ASSUME \A g \in Grants, r \in Rooms :
           AuditRead \in g.may => g.role \notin SensitivityRoles[r.sensitivity]
  PROVE  Spec => []AuditIsAccountable
<1>1. TypeOK => AuditIsAccountable
  BY AuditAccounted DEF TypeOK, AuditIsAccountable
<1> QED BY <1>1, TypeCorrect, PTL
=============================================================================
