----------------------------- MODULE MCAuthority -----------------------------
(***************************************************************************)
(* An agent, a claims specialist of another team and an auditor in one     *)
(* person, whose facts come and go, on conversations of every type.        *)
(***************************************************************************)
EXTENDS Authority

CONSTANTS motor, health, sales, support, x1, x2

Vocabulary ==
  OwnerActions \cup ChannelAdminActions \cup AuditReadActions
    \cup {"conversation.message.react", "queue.read"}

Agent == [role |-> "AGENT", may |-> {Read, "conversation.rename", "conversation.message.react",
                                    "channel.manage"},
          scope |-> "GLOBAL", on |-> None]
Lead == [role |-> "TEAM_LEAD", may |-> {Read, "queue.read", "conversation.transfer"},
         scope |-> "TEAM", on |-> motor]
Claims == [role |-> "CLAIMS", may |-> {"case.read"}, scope |-> "TEAM", on |-> motor]
ClaimsElsewhere == [role |-> "CLAIMS", may |-> {"case.read"}, scope |-> "TEAM", on |-> health]
Auditor == [role |-> "AUDITOR", may |-> {AuditRead}, scope |-> "GLOBAL", on |-> None]
AllGrants == {Agent, Lead, ClaimsElsewhere, Claims, Auditor}

Cover == [may |-> {"conversation.reply.customer", "conversation.message.send", "queue.read"},
          scope |-> "DEPARTMENT", on |-> sales]
AllDelegations == {Cover}

Investigation == [may |-> Read, on |-> x1]
AllTemporary == {Investigation}

Room(t) == [type |-> t, id |-> x1, team |-> None, department |-> None,
            sensitivity |-> "ORDINARY"]
AllRooms ==
  {Room("INTERNAL_DIRECT"), Room("INTERNAL_ANNOUNCEMENT"), Room("INTERNAL_CHANNEL"),
   [type |-> "CUSTOMER_SERVICE", id |-> x2, team |-> motor, department |-> sales,
    sensitivity |-> "MEDICAL"]}

Unlocking == [s \in {"ORDINARY", "MEDICAL"} |->
                IF s = "MEDICAL" THEN {"CLAIMS", "COMPLIANCE", "LEGAL"} ELSE {}]
=============================================================================
