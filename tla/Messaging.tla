------------------------------ MODULE Messaging ------------------------------
(***************************************************************************)
(* Writing into a conversation: the send and edit transactions over the    *)
(* rows of conversations, participants, messages and message_revisions,    *)
(* with the events they append to the outbox, which OutboxRelay drains.    *)
(*                                                                         *)
(* One action is one stretch of a transaction between two points where     *)
(* others can be seen: taking the lock on the conversation or on the       *)
(* message, and the commit.  What a transaction writes appears with its    *)
(* commit.  A transaction may die at any point and then wrote nothing; a   *)
(* client without an answer sends again with the same client_message_id.   *)
(***************************************************************************)
EXTENDS Naturals, Sequences, FiniteSets

CONSTANTS Conversations,  \* conversation ids
          Internal,       \* those that are colleague threads, without a customer
          People,         \* principals who may take part
          Restless,       \* those whose participation and archive change in the instance
          OwnerOf,        \* the current owner of each conversation's case, or None
          Keys,           \* client_message_id: one composed message each
          Draft,          \* what each key carries
          Texts,          \* texts a sender may put in place of a message's own
          Requests,       \* send and edit requests that may be in flight together
          MaxEdits,       \* bound on the edits of one message
          None            \* SQL NULL, or an empty preview

Drafts == [by : People, conv : Conversations, note : BOOLEAN,
           quotes : Keys \cup {None}, names : SUBSET People]

ASSUME MessagingAssumption ==
  /\ Internal \subseteq Conversations
  /\ Restless \subseteq People
  /\ OwnerOf \in [Conversations -> People \cup {None}]
  /\ Draft \in [Keys -> Drafts]
  /\ MaxEdits \in Nat
  /\ IsFiniteSet(Keys)
  /\ None \notin People \cup Keys \cup Texts \cup Requests

VARIABLES
  members,    \* live participants of each conversation
  archived,   \* those of them, or who were, with an archived_at
  messages,   \* rows of messages, each with its previous texts in message_revisions
  lastSeq,    \* conversations.last_seq
  preview,    \* conversations.last_message_preview
  assigned,   \* conversations still in ASSIGNED
  lock,       \* the request that holds the conversation row
  request,    \* requests in flight
  answered,   \* keys whose sender has the acknowledgement
  outbox      \* events appended to the outbox

peopleVars == <<members, archived>>
threadVars == <<messages, lastSeq, preview, assigned>>
requestVars == <<lock, request, answered>>
vars == <<peopleVars, threadVars, requestVars, outbox>>

Idle == [at |-> "idle", key |-> None, text |-> None, read |-> None, sees |-> None]

Events == [kind : {"created", "mentioned", "revised"}, key : Keys, nth : 0..MaxEdits]
Event(kind, key, nth) == [kind |-> kind, key |-> key, nth |-> nth]

AllTexts == Keys \cup Texts
In(c) == {m \in messages : Draft[m.key].conv = c}

TypeOK ==
  /\ members \in [Conversations -> SUBSET People]
  /\ archived \in [Conversations -> SUBSET People]
  /\ messages \subseteq [key : Keys, seq : Nat, text : AllTexts, was : Seq(AllTexts)]
  /\ lastSeq \in [Conversations -> Nat]
  /\ preview \in [Conversations -> AllTexts \cup {None}]
  /\ assigned \subseteq Conversations
  /\ lock \in [Conversations -> Requests \cup {None}]
  /\ request \in [Requests -> [at : {"idle", "waiting", "sending", "editing", "refreshing",
                                     "refreshed"},
                               key : Keys \cup {None}, text : Texts \cup {None},
                               read : AllTexts \cup {None}, sees : AllTexts \cup {None}]]
  /\ answered \subseteq Keys
  /\ outbox \subseteq Events

Init ==
  /\ members = [c \in Conversations |-> People]
  /\ archived = [c \in Conversations |-> {}]
  /\ messages = {}
  /\ lastSeq = [c \in Conversations |-> 0]
  /\ preview = [c \in Conversations |-> None]
  /\ assigned = {c \in Conversations : OwnerOf[c] # None}
  /\ lock = [c \in Conversations |-> None]
  /\ request = [q \in Requests |-> Idle]
  /\ answered = {}
  /\ outbox = {}

-----------------------------------------------------------------------------
(* Participation and the archive. *)

EndParticipation(c, p) ==
  /\ p \in Restless \cap members[c]
  /\ members' = [members EXCEPT ![c] = @ \ {p}]
  /\ UNCHANGED <<archived, threadVars, requestVars, outbox>>

(* A dead row is revived; archived_at is not among the columns that are reset. *)
AddParticipant(c, p) ==
  /\ p \in Restless \ members[c]
  /\ members' = [members EXCEPT ![c] = @ \cup {p}]
  /\ UNCHANGED <<archived, threadVars, requestVars, outbox>>

SetArchived(c, p) ==
  /\ p \in Restless \cap members[c]
  /\ archived' = [archived EXCEPT ![c] = IF p \in @ THEN @ \ {p} ELSE @ \cup {p}]
  /\ UNCHANGED <<members, threadVars, requestVars, outbox>>

-----------------------------------------------------------------------------
(* Sending. *)

StepTo(q, new) == request' = [request EXCEPT ![q] = new]

(* A client sends, or sends again as long as it has no answer. *)
SendRequest(q, k) ==
  /\ request[q] = Idle
  /\ k \notin answered
  /\ StepTo(q, [Idle EXCEPT !.at = "waiting", !.key = k])
  /\ UNCHANGED <<peopleVars, threadVars, lock, answered, outbox>>

LockIgnored(c) == TRUE              \* mutant: the conversation is read without FOR UPDATE

(* The conversation row can be locked. *)
Lockable(c) == lock[c] = None

(* findByClientMessageId, asked with the conversation locked. *)
AlreadyStored(k) == \E m \in messages : m.key = k

(* The participant row and the key are read once the conversation is locked. *)
SendLock(q) ==
  LET k == request[q].key
      c == Draft[k].conv
      admitted == Draft[k].by \in members[c]
  IN /\ request[q].at = "waiting"
     /\ Lockable(c)
     /\ IF admitted /\ ~AlreadyStored(k)
        THEN /\ lock' = [lock EXCEPT ![c] = q]
             /\ StepTo(q, [request[q] EXCEPT !.at = "sending"])
             /\ UNCHANGED answered
        ELSE /\ StepTo(q, Idle)
             /\ \/ admitted /\ answered' = answered \cup {k}
                \/ UNCHANGED answered
             /\ UNCHANGED lock
     /\ UNCHANGED <<peopleVars, threadVars, outbox>>

(* A reply quotes a message of its own conversation, and no note to the customer. *)
QuoteAllowed(k) ==
  LET d == Draft[k]
  IN d.quotes # None =>
       \E m \in In(d.conv) : m.key = d.quotes /\ (Draft[m.key].note => d.note)

(* unarchiveForOthers: live participants only. *)
UnarchiveForOthers(c, p) ==
  [archived EXCEPT ![c] = @ \ (members[c] \ {p})]

(* The rest of the transaction, with its commit and the answer, which may be lost. *)
SendCommit(q) ==
  LET k == request[q].key
      d == Draft[k]
      c == d.conv
      visible == ~d.note
      number == lastSeq[c] + 1
      notified == d.names \ {d.by}
  IN /\ request[q].at = "sending"
     /\ QuoteAllowed(k) /\ d.names \subseteq members[c]
     /\ messages' = messages \cup {[key |-> k, seq |-> number, text |-> k, was |-> <<>>]}
     /\ lastSeq' = [lastSeq EXCEPT ![c] = number]
     /\ archived' = UnarchiveForOthers(c, d.by)
     /\ outbox' = outbox \cup {Event("created", k, 0)}
                    \cup (IF notified = {} THEN {} ELSE {Event("mentioned", k, 0)})
     /\ assigned' = IF visible /\ d.by = OwnerOf[c] THEN assigned \ {c} ELSE assigned
     /\ preview' = [preview EXCEPT ![c] = IF visible \/ c \in Internal THEN k ELSE None]
     /\ lock' = [lock EXCEPT ![c] = None]
     /\ StepTo(q, Idle)
     /\ answered' \in {answered, answered \cup {k}}
     /\ UNCHANGED <<members>>

(* Refused on its quote or its mentions: rolled back and answered with a refusal. *)
SendRefused(q) ==
  LET d == Draft[request[q].key]
  IN /\ request[q].at = "sending"
     /\ ~(QuoteAllowed(request[q].key) /\ d.names \subseteq members[d.conv])
     /\ lock' = [lock EXCEPT ![d.conv] = None]
     /\ StepTo(q, Idle)
     /\ UNCHANGED <<peopleVars, threadVars, answered, outbox>>

-----------------------------------------------------------------------------
(* Editing. *)

RowIgnored(k) == TRUE               \* mutant: the message is read without FOR UPDATE

(* No other edit holds the message row. *)
RowFree(k) ==
  \A q \in Requests : request[q].key = k => request[q].at \notin {"editing", "refreshing", "refreshed"}

(* The sender, still allowed to react here, locks the message and reads its text. *)
EditLock(q, m, text) ==
  /\ request[q] = Idle
  /\ RowFree(m.key)
  /\ Draft[m.key].by \in members[Draft[m.key].conv]
  /\ text # m.text
  /\ Len(m.was) < MaxEdits
  /\ StepTo(q, [Idle EXCEPT !.at = "editing", !.key = m.key, !.text = text, !.read = m.text])
  /\ UNCHANGED <<peopleVars, threadVars, lock, answered, outbox>>

(* What refreshPreview's subquery finds: the newest message, of any visibility. *)
NewestText(rows) == (CHOOSE m \in rows : \A n \in rows : n.seq <= m.seq).text

EditedOver(m, q) == [m EXCEPT !.text = request[q].text]  \* mutant: no revision is kept
Edited(m, q) ==
  [m EXCEPT !.text = request[q].text, !.was = Append(@, request[q].read)]

AfterEdit(q) ==
  {IF m.key = request[q].key THEN Edited(m, q) ELSE m : m \in messages}

(* The preview that the UPDATE of the conversation computes from what it sees. *)
PreviewSeen(q) ==
  NewestText({m \in AfterEdit(q) : Draft[m.key].conv = Draft[request[q].key].conv})

(* The UPDATE of the preview holds the conversation until the commit.  If another
   transaction holds it, the UPDATE has read the messages by the time it waits, and
   does not read them again. *)
RefreshPreview(q) ==
  LET c == Draft[request[q].key].conv
  IN /\ request[q].at = "editing"
     /\ IF Lockable(c)
        THEN /\ lock' = [lock EXCEPT ![c] = q]
             /\ StepTo(q, [request[q] EXCEPT !.at = "refreshed", !.sees = PreviewSeen(q)])
        ELSE /\ StepTo(q, [request[q] EXCEPT !.at = "refreshing", !.sees = PreviewSeen(q)])
             /\ UNCHANGED lock
     /\ UNCHANGED <<peopleVars, threadVars, answered, outbox>>

RefreshGoesOn(q) ==
  LET c == Draft[request[q].key].conv
  IN /\ request[q].at = "refreshing"
     /\ Lockable(c)
     /\ lock' = [lock EXCEPT ![c] = q]
     /\ StepTo(q, [request[q] EXCEPT !.at = "refreshed"])
     /\ UNCHANGED <<peopleVars, threadVars, answered, outbox>>

EditCommit(q) ==
  LET k == request[q].key
      c == Draft[k].conv
      edits == {Len(m.was) : m \in {n \in messages : n.key = k}}
  IN /\ request[q].at = "refreshed"
     /\ messages' = AfterEdit(q)
     /\ preview' = [preview EXCEPT ![c] = request[q].sees]
     /\ outbox' = outbox \cup {Event("revised", k, n + 1) : n \in edits}
     /\ lock' = [lock EXCEPT ![c] = None]
     /\ StepTo(q, Idle)
     /\ UNCHANGED <<peopleVars, lastSeq, assigned, answered>>

-----------------------------------------------------------------------------
(* Any request may die before its commit; the database undoes and unlocks. *)

NumberAnyway(c) ==                  \* mutant: the number came from outside the transaction
  [lastSeq EXCEPT ![c] = IF lock[c] = None THEN @ ELSE @ + 1]
RolledBack(c) == lastSeq

RequestDies(q) ==
  LET c == Draft[request[q].key].conv
  IN /\ request[q] # Idle
     /\ lastSeq' = RolledBack(c)
     /\ lock' = [lock EXCEPT ![c] = IF @ = q THEN None ELSE @]
     /\ StepTo(q, Idle)
     /\ UNCHANGED <<peopleVars, messages, preview, assigned, answered, outbox>>

-----------------------------------------------------------------------------
Next ==
  \/ \E c \in Conversations, p \in People :
       EndParticipation(c, p) \/ AddParticipant(c, p) \/ SetArchived(c, p)
  \/ \E q \in Requests :
       \/ \E k \in Keys : SendRequest(q, k)
       \/ SendLock(q) \/ SendCommit(q) \/ SendRefused(q)
       \/ \E m \in messages, text \in Texts : EditLock(q, m, text)
       \/ RefreshPreview(q) \/ RefreshGoesOn(q) \/ EditCommit(q) \/ RequestDies(q)

Spec == Init /\ [][Next]_vars

-----------------------------------------------------------------------------
(* A message a client retries is stored once, whichever attempts overlap, die
   or lose their answer: the lock lets the lookup find it, and the unique index
   on client_message_id, which is left out here, never has to refuse one. *)
OneMessagePerKey == \A m, n \in messages : m.key = n.key => m = n

(* The numbers of a conversation are 1 to last_seq without a gap or a repeat,
   though senders overlap and die: a gap makes every client re-read for ever. *)
NumberingIsGapFree ==
  \A c \in Conversations :
    /\ {m.seq : m \in In(c)} = 1..lastSeq[c]
    /\ Cardinality(In(c)) = lastSeq[c]

(* Facts and events commit together: there is an event for a message and for
   each of its revisions, and none for what was rolled back. *)
EventsMatchFacts ==
  LET told(kind) == {<<e.key, e.nth>> : e \in {o \in outbox : o.kind = kind}}
  IN /\ told("created") = {<<m.key, 0>> : m \in messages}
     /\ told("revised") = UNION {{<<m.key, n>> : n \in 1..Len(m.was)} : m \in messages}

(* The revision history is the sequence of texts the message really had: two
   edits that overlap do not record each other's text as the previous one. *)
RevisionsTellTheTruth ==
  [][\A m \in messages, n \in messages' :
       m.key = n.key /\ m # n => n.was = Append(m.was, m.text)]_vars
=============================================================================
