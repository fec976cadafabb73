--------------------------- MODULE MessagingProofs ---------------------------
(***************************************************************************)
(* Theorems about Messaging, for any number of conversations, composed     *)
(* messages, overlapping requests and edits.  They rest on two locks: of   *)
(* the requests that write in a conversation one holds its row, and of the *)
(* edits of a message one holds the message's.                             *)
(***************************************************************************)
EXTENDS Messaging, FiniteSetTheorems, SequenceTheorems, TLAPS

-----------------------------------------------------------------------------
(* What is true between any two steps. *)

Revising(q) == request[q].at \in {"editing", "refreshing", "refreshed"}

(* A request in flight names a message; an edit has read the text the message
   still has, and leaves room for one more revision. *)
RequestsAreTrue ==
  \A q \in Requests :
    /\ request[q] = Idle \/ (request[q].at # "idle" /\ request[q].key \in Keys)
    /\ Revising(q) =>
         /\ request[q].text \in Texts
         /\ \E m \in messages :
              m.key = request[q].key /\ m.text = request[q].read /\ Len(m.was) < MaxEdits

(* Who is about to write into a conversation holds its row. *)
WritersHoldTheLock ==
  \A q \in Requests :
    request[q].at \in {"sending", "refreshed"} => lock[Draft[request[q].key].conv] = q

(* Who edits a message holds its row. *)
OneEditPerMessage ==
  \A q, r \in Requests :
    Revising(q) /\ Revising(r) /\ request[q].key = request[r].key => q = r

(* A message that is being sent is not there yet. *)
SendingIsNew == \A q \in Requests : request[q].at = "sending" => ~AlreadyStored(request[q].key)

ThreadsAreFinite == \A c \in Conversations : IsFiniteSet(In(c))

Guarded == RequestsAreTrue /\ WritersHoldTheLock /\ OneEditPerMessage /\ SendingIsNew
Recorded == OneMessagePerKey /\ NumberingIsGapFree /\ ThreadsAreFinite /\ EventsMatchFacts
Inv == TypeOK /\ Guarded /\ Recorded

RequestTypes ==
  [Requests -> [at : {"idle", "waiting", "sending", "editing", "refreshing", "refreshed"},
                key : Keys \cup {None}, text : Texts \cup {None},
                read : AllTexts \cup {None}, sees : AllTexts \cup {None}]]
Rows == [key : Keys, seq : Nat, text : AllTexts, was : Seq(AllTexts)]

-----------------------------------------------------------------------------
(* Rows of one conversation. *)

(* A conversation with a message has a newest one, so the preview has a text. *)
LEMMA NewestExists ==
  ASSUME Inv, NEW c \in Conversations, NEW f, f \in [messages -> Rows],
         \A m \in messages : f[m].seq = m.seq,
         In(c) # {}
  PROVE  NewestText({f[m] : m \in In(c)}) \in AllTexts
<1> DEFINE rows == {f[m] : m \in In(c)}
<1>1. /\ {m.seq : m \in In(c)} = 1..lastSeq[c] /\ lastSeq[c] \in Nat
      /\ In(c) \subseteq messages /\ messages \subseteq Rows
  BY DEF Inv, Recorded, NumberingIsGapFree, In, TypeOK, Rows
<1>2. PICK m0 \in In(c) : TRUE
  OBVIOUS
<1>3. m0.seq \in 1..lastSeq[c]
  BY <1>1
<1>4. lastSeq[c] \in 1..lastSeq[c]
  BY <1>1, <1>3
<1>5. PICK m1 \in In(c) : m1.seq = lastSeq[c]
  BY <1>1, <1>4
<1>6. \A m \in In(c) : m.seq <= lastSeq[c]
  BY <1>1
<1>7. f[m1] \in rows /\ \A n \in rows : n.seq <= f[m1].seq
  BY <1>1, <1>5, <1>6
<1>8. rows \subseteq Rows
  BY <1>1
<1> HIDE DEF rows
<1>9. (CHOOSE m \in rows : \A n \in rows : n.seq <= m.seq) \in rows
  BY <1>7
<1>10. NewestText(rows) \in AllTexts
  BY <1>8, <1>9 DEF NewestText, Rows
<1> QED BY <1>10 DEF rows

-----------------------------------------------------------------------------
LEMMA InitInv == ASSUME Init PROVE Inv
<1>1. TypeOK
  <2>1. request \in RequestTypes
    BY DEF Init, Idle, RequestTypes
  <2> QED BY <2>1 DEF Init, TypeOK, RequestTypes
<1>2. Guarded
  BY DEF Init, Idle, Guarded, RequestsAreTrue, Revising, WritersHoldTheLock, OneEditPerMessage,
         SendingIsNew
<1>3. \A c \in Conversations : In(c) = {} /\ lastSeq[c] = 0
  BY DEF Init, In
<1>4. OneMessagePerKey /\ NumberingIsGapFree /\ ThreadsAreFinite
  <2>1. 1..0 = {}
    OBVIOUS
  <2> QED BY <1>3, <2>1, FS_EmptySet DEF Init, OneMessagePerKey, NumberingIsGapFree, ThreadsAreFinite
<1>5. EventsMatchFacts
  BY DEF Init, EventsMatchFacts
<1> QED BY <1>1, <1>2, <1>4, <1>5 DEF Inv, Recorded

(* A step that writes no message and no event keeps the record. *)
LEMMA RecordKept ==
  ASSUME Inv, UNCHANGED <<messages, lastSeq, outbox>> PROVE Recorded'
<1>1. \A c \in Conversations : In(c)' = In(c)
  BY DEF In
<1>2. OneMessagePerKey'
  BY DEF Inv, Recorded, OneMessagePerKey
<1>3. NumberingIsGapFree'
  <2> SUFFICES ASSUME NEW c \in Conversations
               PROVE  /\ {m.seq : m \in In(c)'} = 1..lastSeq'[c]
                      /\ Cardinality(In(c)') = lastSeq'[c]
    BY DEF NumberingIsGapFree
  <2>1. {m.seq : m \in In(c)} = 1..lastSeq[c] /\ Cardinality(In(c)) = lastSeq[c]
    BY DEF Inv, Recorded, NumberingIsGapFree
  <2> QED BY <1>1, <2>1
<1>4. ThreadsAreFinite'
  BY <1>1 DEF Inv, Recorded, ThreadsAreFinite
<1>5. EventsMatchFacts'
  BY DEF Inv, Recorded, EventsMatchFacts
<1> QED BY <1>2, <1>3, <1>4, <1>5 DEF Recorded

LEMMA PeopleInv ==
  ASSUME Inv, NEW c \in Conversations, NEW p \in People,
         EndParticipation(c, p) \/ AddParticipant(c, p) \/ SetArchived(c, p)
  PROVE  Inv'
<1>1. /\ UNCHANGED <<threadVars, requestVars, outbox>>
      /\ members' \in [Conversations -> SUBSET People]
      /\ archived' \in [Conversations -> SUBSET People]
  <2>0. /\ members \in [Conversations -> SUBSET People]
        /\ archived \in [Conversations -> SUBSET People]
    BY DEF Inv, TypeOK
  <2>1. CASE EndParticipation(c, p)
    BY <2>0, <2>1 DEF EndParticipation
  <2>2. CASE AddParticipant(c, p)
    BY <2>0, <2>2 DEF AddParticipant
  <2>3. CASE SetArchived(c, p)
    BY <2>0, <2>3 DEF SetArchived
  <2> QED BY <2>1, <2>2, <2>3
<1>2. TypeOK'
  BY <1>1 DEF Inv, TypeOK, threadVars, requestVars, Events
<1>3. Guarded'
  BY <1>1 DEF Inv, Guarded, RequestsAreTrue, Revising, WritersHoldTheLock, OneEditPerMessage,
              SendingIsNew, AlreadyStored, threadVars, requestVars
<1>4. Recorded'
  BY <1>1, RecordKept DEF threadVars
<1> QED BY <1>2, <1>3, <1>4 DEF Inv

-----------------------------------------------------------------------------
(* Requests. *)

(* A request takes a step of its own and writes nothing. *)
LEMMA RequestStep ==
  ASSUME Inv, NEW q \in Requests, NEW new, StepTo(q, new),
         UNCHANGED <<members, archived, messages, lastSeq, preview, assigned, outbox>>,
         new = Idle \/ (new.at # "idle" /\ new.key \in Keys),
         request' \in RequestTypes, lock' \in [Conversations -> Requests \cup {None}],
         answered' \subseteq Keys,
         new.at \in {"sending", "refreshed"} => lock'[Draft[new.key].conv] = q,
         \A r \in Requests : r # q /\ request[r].at \in {"sending", "refreshed"} =>
            lock'[Draft[request[r].key].conv] = r,
         new.at \in {"editing", "refreshing", "refreshed"} =>
           /\ new.text \in Texts
           /\ \E m \in messages : m.key = new.key /\ m.text = new.read /\ Len(m.was) < MaxEdits
           /\ \A r \in Requests : r # q /\ Revising(r) => request[r].key # new.key,
         new.at = "sending" => ~AlreadyStored(new.key)
  PROVE  Inv'
<1>1. \A r \in Requests : request'[r] = IF r = q THEN new ELSE request[r]
  BY DEF StepTo, Inv, TypeOK
<1>2. TypeOK'
  BY DEF Inv, TypeOK, RequestTypes, Events
<1>3. RequestsAreTrue'
  BY <1>1 DEF Inv, Guarded, RequestsAreTrue, Revising
<1>4. WritersHoldTheLock'
  BY <1>1 DEF Inv, Guarded, WritersHoldTheLock
<1>5. OneEditPerMessage'
  BY <1>1 DEF Inv, Guarded, OneEditPerMessage, Revising
<1>6. SendingIsNew'
  BY <1>1 DEF Inv, Guarded, SendingIsNew, AlreadyStored
<1> QED BY <1>2, <1>3, <1>4, <1>5, <1>6, RecordKept DEF Inv, Guarded

LEMMA SendRequestInv ==
  ASSUME Inv, NEW q \in Requests, NEW k \in Keys, SendRequest(q, k) PROVE Inv'
<1> DEFINE new == [Idle EXCEPT !.at = "waiting", !.key = k]
<1>1. StepTo(q, new) /\ UNCHANGED <<peopleVars, threadVars, lock, answered, outbox>>
  BY DEF SendRequest
<1>2. new.at = "waiting" /\ new.key = k
  BY DEF Idle
<1>3. request' \in RequestTypes
  BY <1>1 DEF StepTo, Idle, Inv, TypeOK, RequestTypes
<1>4. /\ lock' \in [Conversations -> Requests \cup {None}] /\ answered' \subseteq Keys
      /\ UNCHANGED <<members, archived, messages, lastSeq, preview, assigned, outbox>>
  BY <1>1 DEF Inv, TypeOK, peopleVars, threadVars
<1>5. \A r \in Requests : r # q /\ request[r].at \in {"sending", "refreshed"} =>
         lock'[Draft[request[r].key].conv] = r
  BY <1>1 DEF Inv, Guarded, WritersHoldTheLock
<1> HIDE DEF new
<1> QED BY <1>1, <1>2, <1>3, <1>4, <1>5, RequestStep

(* A request that ends without having written. *)
LEMMA RequestEnds ==
  ASSUME Inv, NEW q \in Requests, StepTo(q, Idle), NEW c \in Conversations,
         UNCHANGED <<members, archived, messages, lastSeq, preview, assigned, outbox>>,
         lock' = lock \/ (lock' = [lock EXCEPT ![c] = None] /\ lock[c] = q),
         answered' \subseteq Keys
  PROVE  Inv'
<1>1. request' \in RequestTypes
  BY DEF StepTo, Idle, Inv, TypeOK, RequestTypes
<1>2. lock' \in [Conversations -> Requests \cup {None}]
  BY DEF Inv, TypeOK
<1>3. \A d \in Conversations : lock[d] = q \/ lock'[d] = lock[d]
  BY DEF Inv, TypeOK
<1>4. ASSUME NEW r \in Requests, r # q, request[r].at \in {"sending", "refreshed"}
      PROVE  lock'[Draft[request[r].key].conv] = r
  <2>1. request[r].key \in Keys /\ lock[Draft[request[r].key].conv] = r
    BY <1>4 DEF Inv, Guarded, RequestsAreTrue, WritersHoldTheLock, Idle
  <2>2. Draft[request[r].key].conv \in Conversations
    BY <2>1, MessagingAssumption DEF Drafts
  <2> QED BY <1>3, <1>4, <2>1, <2>2
<1>5. Idle.at = "idle"
  BY DEF Idle
<1> QED BY <1>1, <1>2, <1>4, <1>5, RequestStep

LEMMA SendLockInv == ASSUME Inv, NEW q \in Requests, SendLock(q) PROVE Inv'
<1> DEFINE k == request[q].key
           c == Draft[k].conv
           admitted == Draft[k].by \in members[c]
           new == [request[q] EXCEPT !.at = "sending"]
<1>1. /\ request[q].at = "waiting" /\ lock[c] = None
      /\ UNCHANGED <<members, archived, messages, lastSeq, preview, assigned, outbox>>
  BY DEF SendLock, Lockable, peopleVars, threadVars
<1>2. k \in Keys /\ c \in Conversations
  <2>1. k \in Keys
    BY <1>1 DEF Inv, Guarded, RequestsAreTrue, Idle
  <2> QED BY <2>1, MessagingAssumption DEF Drafts
<1>3. CASE admitted /\ ~AlreadyStored(k)
  <2>1. lock' = [lock EXCEPT ![c] = q] /\ StepTo(q, new) /\ UNCHANGED answered
    BY <1>3 DEF SendLock
  <2>2. request' \in RequestTypes /\ new.at = "sending" /\ new.key = k
    <3>1. request \in RequestTypes
      BY DEF Inv, TypeOK, RequestTypes
    <3>2. new = [at |-> "sending", key |-> k, text |-> request[q].text,
                 read |-> request[q].read, sees |-> request[q].sees]
      BY <3>1 DEF RequestTypes
    <3> HIDE DEF new
    <3> QED BY <2>1, <3>1, <3>2 DEF StepTo, RequestTypes
  <2>3. lock' \in [Conversations -> Requests \cup {None}] /\ answered' \subseteq Keys
        /\ lock'[c] = q /\ \A d \in Conversations : d # c => lock'[d] = lock[d]
    BY <1>2, <2>1 DEF Inv, TypeOK
  <2>4. ASSUME NEW r \in Requests, r # q, request[r].at \in {"sending", "refreshed"}
        PROVE  lock'[Draft[request[r].key].conv] = r
    <3>1. request[r].key \in Keys /\ lock[Draft[request[r].key].conv] = r
      BY <2>4 DEF Inv, Guarded, RequestsAreTrue, WritersHoldTheLock, Idle
    <3>2. Draft[request[r].key].conv \in Conversations
      BY <3>1, MessagingAssumption DEF Drafts
    <3>3. Draft[request[r].key].conv # c
      BY <1>1, <3>1, MessagingAssumption
    <3> QED BY <2>3, <3>1, <3>2, <3>3
  <2> HIDE DEF new
  <2> QED BY <1>1, <1>2, <1>3, <2>1, <2>2, <2>3, <2>4, RequestStep
<1>4. CASE ~(admitted /\ ~AlreadyStored(k))
  <2>1. StepTo(q, Idle) /\ UNCHANGED lock /\ answered' \subseteq answered \cup {k}
    BY <1>4 DEF SendLock
  <2>2. answered' \subseteq Keys
    BY <1>2, <2>1 DEF Inv, TypeOK
  <2> QED BY <1>1, <1>2, <2>1, <2>2, RequestEnds
<1> QED BY <1>3, <1>4

LEMMA SendRefusedInv == ASSUME Inv, NEW q \in Requests, SendRefused(q) PROVE Inv'
<1> DEFINE c == Draft[request[q].key].conv
<1>1. /\ request[q].at = "sending" /\ lock' = [lock EXCEPT ![c] = None] /\ StepTo(q, Idle)
      /\ UNCHANGED <<members, archived, messages, lastSeq, preview, assigned, outbox, answered>>
  BY DEF SendRefused, peopleVars, threadVars
<1>2. request[q].key \in Keys /\ lock[c] = q /\ answered' \subseteq Keys
  BY <1>1 DEF Inv, TypeOK, Guarded, RequestsAreTrue, WritersHoldTheLock, Idle
<1>3. c \in Conversations
  BY <1>2, MessagingAssumption DEF Drafts
<1> QED BY <1>1, <1>2, <1>3, RequestEnds

LEMMA DiesInv == ASSUME Inv, NEW q \in Requests, RequestDies(q) PROVE Inv'
<1> DEFINE c == Draft[request[q].key].conv
<1>1. /\ request[q] # Idle /\ StepTo(q, Idle)
      /\ lock' = [lock EXCEPT ![c] = IF @ = q THEN None ELSE @]
      /\ UNCHANGED <<members, archived, messages, lastSeq, preview, assigned, outbox, answered>>
  BY DEF RequestDies, RolledBack, peopleVars
<1>2. request[q].key \in Keys /\ answered' \subseteq Keys
  BY <1>1 DEF Inv, TypeOK, Guarded, RequestsAreTrue
<1>3. c \in Conversations
  BY <1>2, MessagingAssumption DEF Drafts
<1>4. lock' = lock \/ (lock' = [lock EXCEPT ![c] = None] /\ lock[c] = q)
  <2>1. CASE lock[c] = q
    BY <1>1, <2>1
  <2>2. CASE lock[c] # q
    BY <1>1, <1>3, <2>2 DEF Inv, TypeOK
  <2> QED BY <2>1, <2>2
<1> QED BY <1>1, <1>2, <1>3, <1>4, RequestEnds

LEMMA EditLockInv ==
  ASSUME Inv, NEW q \in Requests, NEW m \in messages, NEW text \in Texts, EditLock(q, m, text)
  PROVE  Inv'
<1> DEFINE new == [Idle EXCEPT !.at = "editing", !.key = m.key, !.text = text, !.read = m.text]
<1>1. /\ request[q] = Idle /\ RowFree(m.key) /\ Len(m.was) < MaxEdits /\ StepTo(q, new)
      /\ UNCHANGED <<members, archived, messages, lastSeq, preview, assigned, outbox, lock, answered>>
  BY DEF EditLock, peopleVars, threadVars
<1>2. m.key \in Keys /\ m.text \in AllTexts
  BY DEF Inv, TypeOK
<1>3. new.at = "editing" /\ new.key = m.key /\ new.text = text /\ new.read = m.text
  BY DEF Idle
<1>4. request' \in RequestTypes
  BY <1>1, <1>2 DEF StepTo, Idle, Inv, TypeOK, RequestTypes
<1>5. lock' \in [Conversations -> Requests \cup {None}] /\ answered' \subseteq Keys
  BY <1>1 DEF Inv, TypeOK
<1>6. \A r \in Requests : r # q /\ request[r].at \in {"sending", "refreshed"} =>
         lock'[Draft[request[r].key].conv] = r
  BY <1>1 DEF Inv, Guarded, WritersHoldTheLock
<1>7. \A r \in Requests : Revising(r) => request[r].key # m.key
  BY <1>1 DEF RowFree, Revising
<1> HIDE DEF new
<1> QED BY <1>1, <1>2, <1>3, <1>4, <1>5, <1>6, <1>7, RequestStep

(* The text the preview would show: some message's, with the edit in it. *)
LEMMA PreviewIsText ==
  ASSUME Inv, NEW q \in Requests, Revising(q) PROVE PreviewSeen(q) \in AllTexts
<1> DEFINE k == request[q].key
           c == Draft[k].conv
           after == [m \in messages |-> IF m.key = k THEN Edited(m, q) ELSE m]
<1>1. k \in Keys /\ request[q].text \in Texts /\ request[q].read \in AllTexts
  <2>1. PICK m \in messages : m.key = k /\ m.text = request[q].read
    BY DEF Inv, Guarded, RequestsAreTrue
  <2> QED BY <2>1 DEF Inv, TypeOK, Guarded, RequestsAreTrue
<1>2. c \in Conversations
  BY <1>1, MessagingAssumption DEF Drafts
<1>3. \A m \in messages : /\ Edited(m, q) \in Rows /\ Edited(m, q).key = m.key
                          /\ Edited(m, q).seq = m.seq
  <2> SUFFICES ASSUME NEW m \in messages
               PROVE /\ Edited(m, q) \in Rows /\ Edited(m, q).key = m.key
                     /\ Edited(m, q).seq = m.seq
    OBVIOUS
  <2>1. m \in Rows
    BY DEF Inv, TypeOK, Rows
  <2>2. Append(m.was, request[q].read) \in Seq(AllTexts)
    BY <1>1, <2>1 DEF Rows
  <2> QED BY <1>1, <2>1, <2>2 DEF Edited, Rows, AllTexts
<1>4. after \in [messages -> Rows] /\ \A m \in messages : after[m].seq = m.seq
  BY <1>3 DEF Inv, TypeOK, Rows
<1>5. In(c) # {}
  BY DEF Inv, Guarded, RequestsAreTrue, In
<1>6. {m \in AfterEdit(q) : Draft[m.key].conv = c} = {after[m] : m \in In(c)}
  BY <1>3 DEF AfterEdit, In
<1>7. NewestText({after[m] : m \in In(c)}) \in AllTexts
  <2> HIDE DEF after, c
  <2> QED BY <1>2, <1>4, <1>5, NewestExists
<1> HIDE DEF after
<1> QED BY <1>6, <1>7 DEF PreviewSeen

LEMMA RefreshInv ==
  ASSUME Inv, NEW q \in Requests, RefreshPreview(q) \/ RefreshGoesOn(q) PROVE Inv'
<1> DEFINE k == request[q].key
           c == Draft[k].conv
<1>1. /\ request[q].at \in {"editing", "refreshing"} /\ Revising(q)
      /\ UNCHANGED <<members, archived, messages, lastSeq, preview, assigned, outbox, answered>>
  BY DEF RefreshPreview, RefreshGoesOn, Revising, peopleVars, threadVars
<1>2. k \in Keys /\ answered' \subseteq Keys
  BY <1>1 DEF Inv, TypeOK, Guarded, RequestsAreTrue, Idle
<1>3. c \in Conversations
  BY <1>2, MessagingAssumption DEF Drafts
<1>4. PICK sees \in AllTexts \cup {None}, at \in {"refreshing", "refreshed"} :
        /\ StepTo(q, [request[q] EXCEPT !.at = at, !.sees = sees])
        /\ \/ at = "refreshed" /\ lock[c] = None /\ lock' = [lock EXCEPT ![c] = q]
           \/ at = "refreshing" /\ lock' = lock
  <2>1. CASE RefreshPreview(q)
    <3>1. PreviewSeen(q) \in AllTexts
      BY <1>1, PreviewIsText
    <3> QED BY <2>1, <3>1 DEF RefreshPreview, Lockable
  <2>2. CASE RefreshGoesOn(q)
    <3>1. /\ lock[c] = None /\ lock' = [lock EXCEPT ![c] = q]
          /\ StepTo(q, [request[q] EXCEPT !.at = "refreshed"])
      BY <2>2 DEF RefreshGoesOn, Lockable
    <3>2. /\ request[q].sees \in AllTexts \cup {None}
          /\ [request[q] EXCEPT !.at = "refreshed"]
               = [request[q] EXCEPT !.at = "refreshed", !.sees = request[q].sees]
      BY DEF Inv, TypeOK
    <3> QED BY <3>1, <3>2
  <2> QED BY <2>1, <2>2
<1> DEFINE new == [request[q] EXCEPT !.at = at, !.sees = sees]
<1>5. /\ new.at = at /\ new.key = k /\ new.text = request[q].text /\ new.read = request[q].read
      /\ request' \in RequestTypes
  <2>1. request \in RequestTypes
    BY DEF Inv, TypeOK, RequestTypes
  <2>2. /\ new.at = at /\ new.key = k
        /\ new.text = request[q].text /\ new.read = request[q].read
    BY <2>1 DEF RequestTypes
  <2>3. request' = [request EXCEPT ![q] = new]
    BY <1>4 DEF StepTo
  <2>4. [request EXCEPT ![q] = new] \in RequestTypes
    BY <2>1 DEF RequestTypes
  <2> QED BY <2>2, <2>3, <2>4
<1>6. /\ lock' \in [Conversations -> Requests \cup {None}]
      /\ at = "refreshed" => lock'[c] = q
      /\ \A d \in Conversations : lock'[d] = lock[d] \/ (d = c /\ lock[c] = None)
  BY <1>3, <1>4 DEF Inv, TypeOK
<1>7. ASSUME NEW r \in Requests, r # q, request[r].at \in {"sending", "refreshed"}
      PROVE  lock'[Draft[request[r].key].conv] = r
  <2>1. request[r].key \in Keys /\ lock[Draft[request[r].key].conv] = r
    BY <1>7 DEF Inv, Guarded, RequestsAreTrue, WritersHoldTheLock, Idle
  <2>2. Draft[request[r].key].conv \in Conversations
    BY <2>1, MessagingAssumption DEF Drafts
  <2> QED BY <1>6, <2>1, <2>2, MessagingAssumption
<1>8. /\ request[q].text \in Texts
      /\ \E m \in messages : m.key = k /\ m.text = request[q].read /\ Len(m.was) < MaxEdits
      /\ \A r \in Requests : r # q /\ Revising(r) => request[r].key # k
  BY <1>1 DEF Inv, Guarded, RequestsAreTrue, OneEditPerMessage
<1>9. StepTo(q, new)
  BY <1>4
<1> HIDE DEF new
<1> QED BY <1>1, <1>2, <1>5, <1>6, <1>7, <1>8, <1>9, RequestStep

-----------------------------------------------------------------------------
(* The two sides of EventsMatchFacts, as operators on a set of events and on a
   set of messages: the pairs of key and number that the events of a kind name,
   and those the histories of the messages hold.                            *)
Announced(events, kind) == {<<e.key, e.nth>> : e \in {o \in events : o.kind = kind}}
RevisionsOf(M) == UNION {{<<m.key, n>> : n \in 1..Len(m.was)} : m \in M}

LEMMA RevisionsOfMembers ==
  ASSUME NEW M
  PROVE  \A x : x \in RevisionsOf(M) <=> \E m \in M : \E n \in 1..Len(m.was) : x = <<m.key, n>>
BY DEF RevisionsOf

(* One more text in the history of one message is one more pair.            *)
LEMMA RevisionsGrow ==
  ASSUME NEW M, NEW a \in M, NEW b, b.key = a.key,
         NEW L \in Nat, Len(a.was) = L, Len(b.was) = L + 1
  PROVE  RevisionsOf((M \ {a}) \cup {b}) = RevisionsOf(M) \cup {<<a.key, L + 1>>}
<1> DEFINE N == (M \ {a}) \cup {b}
<1>1. 1..(L + 1) = (1..L) \cup {L + 1}
  OBVIOUS
<1>2. ASSUME NEW x PROVE x \in RevisionsOf(N) <=> x \in RevisionsOf(M) \/ x = <<a.key, L + 1>>
  <2>1. x \in RevisionsOf(N) <=> \E m \in N : \E n \in 1..Len(m.was) : x = <<m.key, n>>
    BY RevisionsOfMembers
  <2>2. x \in RevisionsOf(M) <=> \E m \in M : \E n \in 1..Len(m.was) : x = <<m.key, n>>
    BY RevisionsOfMembers
  <2>3. (\E n \in 1..Len(b.was) : x = <<b.key, n>>)
          <=> (\E n \in 1..Len(a.was) : x = <<a.key, n>>) \/ x = <<a.key, L + 1>>
    BY <1>1
  <2> QED BY <2>1, <2>2, <2>3
<1> HIDE DEF N
<1>3. RevisionsOf(N) = RevisionsOf(M) \cup {<<a.key, L + 1>>}
  BY <1>2
<1> QED BY <1>3 DEF N

LEMMA AnnouncedGrows ==
  ASSUME NEW S, NEW e, NEW kind
  PROVE  /\ e.kind = kind => Announced(S \cup {e}, kind) = Announced(S, kind) \cup {<<e.key, e.nth>>}
         /\ e.kind # kind => Announced(S \cup {e}, kind) = Announced(S, kind)
<1>1. ASSUME NEW x
      PROVE  x \in Announced(S \cup {e}, kind)
               <=> x \in Announced(S, kind) \/ (e.kind = kind /\ x = <<e.key, e.nth>>)
  BY DEF Announced
<1>2. CASE e.kind = kind
  BY <1>1, <1>2
<1>3. CASE e.kind # kind
  BY <1>1, <1>3
<1> QED BY <1>2, <1>3

-----------------------------------------------------------------------------
(* Commits. *)

(* A commit of q releases the conversation c it wrote in; nobody else is between
   its lock on c and its own commit. *)
LEMMA CommitReleases ==
  ASSUME Inv, NEW q \in Requests, NEW c \in Conversations, lock[c] = q,
         lock' = [lock EXCEPT ![c] = None], StepTo(q, Idle)
  PROVE  /\ request' \in RequestTypes /\ lock' \in [Conversations -> Requests \cup {None}]
         /\ \A r \in Requests : request'[r] = IF r = q THEN Idle ELSE request[r]
         /\ \A r \in Requests : r # q /\ request[r].at \in {"sending", "refreshed"} =>
              /\ Draft[request[r].key].conv # c
              /\ lock'[Draft[request[r].key].conv] = r
<1>1. /\ request' \in RequestTypes
      /\ \A r \in Requests : request'[r] = IF r = q THEN Idle ELSE request[r]
  BY DEF StepTo, Idle, Inv, TypeOK, RequestTypes
<1>2. /\ lock' \in [Conversations -> Requests \cup {None}]
      /\ \A d \in Conversations : d # c => lock'[d] = lock[d]
  BY DEF Inv, TypeOK
<1>3. ASSUME NEW r \in Requests, r # q, request[r].at \in {"sending", "refreshed"}
      PROVE  /\ Draft[request[r].key].conv # c
             /\ lock'[Draft[request[r].key].conv] = r
  <2>1. request[r].key \in Keys /\ lock[Draft[request[r].key].conv] = r
    BY <1>3 DEF Inv, Guarded, RequestsAreTrue, WritersHoldTheLock, Idle
  <2>2. Draft[request[r].key].conv \in Conversations
    BY <2>1, MessagingAssumption DEF Drafts
  <2> QED BY <1>2, <1>3, <2>1, <2>2
<1> QED BY <1>1, <1>2, <1>3

LEMMA SendCommitInv ==
  ASSUME Inv, NEW q \in Requests, NEW k \in Keys, request[q].key = k, SendCommit(q) PROVE Inv'
<1> DEFINE c == Draft[k].conv
           number == lastSeq[c] + 1
           fresh == [key |-> k, seq |-> number, text |-> k, was |-> <<>>]
<1>1. request[q].at = "sending" /\ lock[c] = q /\ ~AlreadyStored(k)
  BY DEF SendCommit, Inv, Guarded, RequestsAreTrue, WritersHoldTheLock, SendingIsNew, Idle
<1>2. c \in Conversations /\ Draft[k] \in Drafts
  BY <1>1, MessagingAssumption DEF Drafts
<1>3. /\ messages' = messages \cup {fresh} /\ lastSeq' = [lastSeq EXCEPT ![c] = number]
      /\ lock' = [lock EXCEPT ![c] = None] /\ StepTo(q, Idle) /\ UNCHANGED members
      /\ outbox' = outbox \cup {Event("created", k, 0)}
                     \cup (IF Draft[k].names \ {Draft[k].by} = {} THEN {} ELSE {Event("mentioned", k, 0)})
  BY DEF SendCommit
<1>4. /\ request' \in RequestTypes /\ lock' \in [Conversations -> Requests \cup {None}]
      /\ \A r \in Requests : request'[r] = IF r = q THEN Idle ELSE request[r]
      /\ \A r \in Requests : r # q /\ request[r].at \in {"sending", "refreshed"} =>
            /\ Draft[request[r].key].conv # c
            /\ lock'[Draft[request[r].key].conv] = r
  <2> HIDE DEF c
  <2>1. lock[c] = q /\ lock' = [lock EXCEPT ![c] = None] /\ StepTo(q, Idle) /\ c \in Conversations
    BY <1>1, <1>2, <1>3, Zenon
  <2> QED BY <2>1, CommitReleases, Zenon
<1>5. lastSeq[c] \in Nat /\ number \in Nat /\ lastSeq \in [Conversations -> Nat]
  BY <1>2 DEF Inv, TypeOK
<1>6. fresh \in Rows
  BY <1>1, <1>5 DEF Rows, AllTexts
<1>7. TypeOK'
  <2>1. /\ archived' \in [Conversations -> SUBSET People]
        /\ assigned' \subseteq Conversations
    BY DEF SendCommit, UnarchiveForOthers, Inv, TypeOK
  <2>2. preview' \in [Conversations -> AllTexts \cup {None}]
    BY <1>1 DEF SendCommit, Inv, TypeOK, AllTexts
  <2>3. answered' \subseteq Keys
    BY <1>1 DEF SendCommit, Inv, TypeOK
  <2>4. outbox' \subseteq Events
    <3>1. 0 \in 0..MaxEdits
      BY MessagingAssumption
    <3>2. Event("created", k, 0) \in Events /\ Event("mentioned", k, 0) \in Events
      BY <1>1, <3>1 DEF Event, Events
    <3> QED BY <1>3, <3>2 DEF Inv, TypeOK
  <2>5. messages' \subseteq Rows /\ lastSeq' \in [Conversations -> Nat] /\ members' \in [Conversations -> SUBSET People]
    BY <1>3, <1>5, <1>6 DEF Inv, TypeOK, Rows
  <2> QED BY <1>4, <2>1, <2>2, <2>3, <2>4, <2>5 DEF TypeOK, RequestTypes, Rows
<1>8. RequestsAreTrue'
  <2>1. Idle.at = "idle"
    BY DEF Idle
  <2> QED BY <1>3, <1>4, <2>1 DEF Inv, Guarded, RequestsAreTrue, Revising
<1>9. WritersHoldTheLock'
  BY <1>4 DEF Inv, Guarded, WritersHoldTheLock, Idle
<1>10. OneEditPerMessage'
  BY <1>4 DEF Inv, Guarded, OneEditPerMessage, Revising, Idle
<1>11. SendingIsNew'
  <2> SUFFICES ASSUME NEW r \in Requests, request'[r].at = "sending",
                      NEW m \in messages', m.key = request'[r].key
               PROVE  FALSE
    BY DEF SendingIsNew, AlreadyStored
  <2>1. r # q /\ request'[r] = request[r]
    BY <1>4 DEF Idle
  <2>2. m \notin messages
    BY <2>1 DEF Inv, Guarded, SendingIsNew, AlreadyStored
  <2>3. request[r].key = k
    BY <1>3, <2>1, <2>2
  <2> QED BY <1>4, <2>1, <2>3
<1>12. OneMessagePerKey'
  BY <1>1, <1>3 DEF Inv, Recorded, OneMessagePerKey, AlreadyStored
<1>13. /\ In(c)' = In(c) \cup {fresh} /\ fresh \notin In(c)
       /\ \A d \in Conversations : d # c => In(d)' = In(d)
  BY <1>1, <1>3 DEF In, AlreadyStored
<1>14. (NumberingIsGapFree /\ ThreadsAreFinite)'
  <2> SUFFICES ASSUME NEW d \in Conversations
               PROVE  /\ {m.seq : m \in In(d)'} = 1..lastSeq'[d]
                      /\ Cardinality(In(d)') = lastSeq'[d]
                      /\ IsFiniteSet(In(d)')
    BY DEF NumberingIsGapFree, ThreadsAreFinite
  <2>1. /\ {m.seq : m \in In(d)} = 1..lastSeq[d]
        /\ Cardinality(In(d)) = lastSeq[d] /\ IsFiniteSet(In(d))
    BY DEF Inv, Recorded, NumberingIsGapFree, ThreadsAreFinite
  <2>2. CASE d # c
    BY <1>3, <1>5, <1>13, <2>1, <2>2
  <2>3. CASE d = c
    <3>1. lastSeq'[d] = number
      BY <1>3, <1>5, <2>3
    <3>2. IsFiniteSet(In(d)') /\ Cardinality(In(d)') = Cardinality(In(d)) + 1
      <4> HIDE DEF fresh, c
      <4> QED BY <1>13, <2>1, <2>3, FS_AddElement
    <3>3. {m.seq : m \in In(d)'} = {m.seq : m \in In(d)} \cup {number}
      BY <1>13, <2>3
    <3>4. 1..number = (1..lastSeq[c]) \cup {number}
      BY <1>5
    <3> QED BY <2>1, <2>3, <3>1, <3>2, <3>3, <3>4
  <2> QED BY <2>2, <2>3
<1>15. EventsMatchFacts'
  <2> DEFINE pairs(S) == {<<e.key, e.nth>> : e \in S}
             told(kind) == pairs({o \in outbox : o.kind = kind})
             after(kind) == pairs({o \in outbox' : o.kind = kind})
  <2>0. ASSUME NEW S PROVE pairs(S \cup {Event("created", k, 0)}) = pairs(S) \cup {<<k, 0>>}
    <3> DEFINE created == Event("created", k, 0)
    <3>1. created.key = k /\ created.nth = 0
      BY DEF Event
    <3> HIDE DEF created
    <3>2. pairs(S \cup {created}) = pairs(S) \cup {<<created.key, created.nth>>}
      OBVIOUS
    <3> QED BY <3>1, <3>2 DEF created
  <2>1. /\ told("created") = {<<m.key, 0>> : m \in messages}
        /\ told("revised") = UNION {{<<m.key, n>> : n \in 1..Len(m.was)} : m \in messages}
    BY DEF Inv, Recorded, EventsMatchFacts
  <2>2. /\ {o \in outbox' : o.kind = "created"}
             = {o \in outbox : o.kind = "created"} \cup {Event("created", k, 0)}
        /\ {o \in outbox' : o.kind = "revised"} = {o \in outbox : o.kind = "revised"}
    BY <1>3 DEF Event
  <2> HIDE DEF pairs
  <2>3. after("created") = told("created") \cup {<<k, 0>>}
    BY <2>0, <2>2
  <2>4. after("revised") = told("revised")
    BY <2>2
  <2>5. {<<m.key, 0>> : m \in messages'} = {<<m.key, 0>> : m \in messages} \cup {<<k, 0>>}
    <3>1. fresh.key = k
      OBVIOUS
    <3> HIDE DEF fresh
    <3>2. {<<m.key, 0>> : m \in messages \cup {fresh}}
            = {<<m.key, 0>> : m \in messages} \cup {<<fresh.key, 0>>}
      OBVIOUS
    <3> QED BY <1>3, <3>1, <3>2
  <2>6. UNION {{<<m.key, n>> : n \in 1..Len(m.was)} : m \in messages'}
          = UNION {{<<m.key, n>> : n \in 1..Len(m.was)} : m \in messages}
    <3>1. {<<fresh.key, n>> : n \in 1..Len(fresh.was)} = {}
      BY DEF fresh
    <3> HIDE DEF fresh
    <3> QED BY <1>3, <3>1
  <2> QED BY <2>1, <2>3, <2>4, <2>5, <2>6 DEF EventsMatchFacts, pairs
<1> QED BY <1>7, <1>8, <1>9, <1>10, <1>11, <1>12, <1>14, <1>15 DEF Inv, Guarded, Recorded

(* An edit that has read m0 and holds its row replaces m0 by its successor. *)
LEMMA EditedRow ==
  ASSUME Inv, NEW q \in Requests, NEW k \in Keys, request[q].key = k, Revising(q),
         NEW m0 \in messages, m0.key = k, m0.text = request[q].read, Len(m0.was) < MaxEdits
  PROVE  LET m1 == Edited(m0, q)
         IN /\ AfterEdit(q) = (messages \ {m0}) \cup {m1}
            /\ m1 \in Rows /\ m1 \notin messages /\ m1.key = k /\ m1.seq = m0.seq
            /\ m1.was = Append(m0.was, m0.text)
            /\ Len(m0.was) \in Nat /\ Len(m1.was) = Len(m0.was) + 1
            /\ {n \in messages : n.key = k} = {m0}
<1> DEFINE m1 == Edited(m0, q)
<1>1. m0 \in Rows /\ request[q].text \in AllTexts
  BY DEF Inv, TypeOK, Rows, Guarded, RequestsAreTrue, AllTexts
<1>2. /\ Append(m0.was, m0.text) \in Seq(AllTexts)
      /\ Len(m0.was) \in Nat /\ Len(Append(m0.was, m0.text)) = Len(m0.was) + 1
  BY <1>1 DEF Rows
<1>3. /\ m1 \in Rows /\ m1.key = k /\ m1.seq = m0.seq /\ m1.was = Append(m0.was, m0.text)
  BY <1>1, <1>2 DEF Edited, Rows
<1>4. \A m \in messages : m.key = k => m = m0
  BY DEF Inv, Recorded, OneMessagePerKey
<1>5. AfterEdit(q) = (messages \ {m0}) \cup {m1}
  BY <1>4 DEF AfterEdit
<1>6. m1 \notin messages
  BY <1>2, <1>3, <1>4
<1> QED BY <1>2, <1>3, <1>4, <1>5, <1>6

LEMMA EditCommitInv ==
  ASSUME Inv, NEW q \in Requests, NEW k \in Keys, request[q].key = k, EditCommit(q) PROVE Inv'
<1> DEFINE c == Draft[k].conv
<1>1. request[q].at = "refreshed" /\ lock[c] = q /\ Revising(q)
  BY DEF EditCommit, Inv, Guarded, WritersHoldTheLock, Revising
<1>2. c \in Conversations
  BY MessagingAssumption DEF Drafts
<1>3. PICK m0 \in messages : m0.key = k /\ m0.text = request[q].read /\ Len(m0.was) < MaxEdits
  BY <1>1 DEF Inv, Guarded, RequestsAreTrue
<1> DEFINE m1 == Edited(m0, q)
           L == Len(m0.was)
           revised == Event("revised", k, L + 1)
<1>4. /\ AfterEdit(q) = (messages \ {m0}) \cup {m1}
      /\ m1 \in Rows /\ m1 \notin messages /\ m1.key = k /\ m1.seq = m0.seq
      /\ m1.was = Append(m0.was, m0.text) /\ L \in Nat /\ Len(m1.was) = L + 1
      /\ {n \in messages : n.key = k} = {m0}
  BY <1>1, <1>3, EditedRow
<1>5. /\ messages' = (messages \ {m0}) \cup {m1} /\ outbox' = outbox \cup {revised}
      /\ preview' = [preview EXCEPT ![c] = request[q].sees]
      /\ lock' = [lock EXCEPT ![c] = None] /\ StepTo(q, Idle)
      /\ UNCHANGED <<peopleVars, lastSeq, assigned, answered>>
  <2>1. outbox' = outbox \cup {Event("revised", k, n + 1) : n \in {Len(m.was) : m \in {m0}}}
    BY <1>4 DEF EditCommit
  <2>2. {Event("revised", k, n + 1) : n \in {Len(m.was) : m \in {m0}}} = {revised}
    <3>1. {Len(m.was) : m \in {m0}} = {L}
      OBVIOUS
    <3> HIDE DEF L
    <3> QED BY <3>1
  <2> QED BY <1>4, <2>1, <2>2 DEF EditCommit
<1>6. /\ request' \in RequestTypes /\ lock' \in [Conversations -> Requests \cup {None}]
      /\ \A r \in Requests : request'[r] = IF r = q THEN Idle ELSE request[r]
      /\ \A r \in Requests : r # q /\ request[r].at \in {"sending", "refreshed"} =>
            /\ Draft[request[r].key].conv # c
            /\ lock'[Draft[request[r].key].conv] = r
  <2> HIDE DEF c
  <2> QED BY <1>1, <1>2, <1>5, CommitReleases
<1>7. m0 \in Rows /\ revised \in Events
  <2>1. L + 1 \in 0..MaxEdits
    BY <1>3, <1>4, MessagingAssumption
  <2> QED BY <2>1 DEF Inv, TypeOK, Rows, Event, Events
<1> HIDE DEF m1, L
<1>8. TypeOK'
  <2>1. messages' \subseteq Rows
    BY <1>4, <1>5 DEF Inv, TypeOK, Rows
  <2>2. preview' \in [Conversations -> AllTexts \cup {None}]
    BY <1>5 DEF Inv, TypeOK
  <2>3. outbox' \subseteq Events
    BY <1>5, <1>7 DEF Inv, TypeOK
  <2> QED BY <1>5, <1>6, <2>1, <2>2, <2>3 DEF Inv, TypeOK, RequestTypes, Rows, peopleVars
<1>9. RequestsAreTrue'
  <2> SUFFICES ASSUME NEW r \in Requests
               PROVE (/\ request[r] = Idle \/ (request[r].at # "idle" /\ request[r].key \in Keys)
                      /\ Revising(r) =>
                           /\ request[r].text \in Texts
                           /\ \E m \in messages : /\ m.key = request[r].key /\ m.text = request[r].read
                                                  /\ Len(m.was) < MaxEdits)'
    BY DEF RequestsAreTrue
  <2>1. CASE r = q
    BY <1>6, <2>1 DEF Revising, Idle
  <2>2. CASE r # q
    <3>1. request'[r] = request[r]
      BY <1>6, <2>2
    <3>2. request[r] = Idle \/ (request[r].at # "idle" /\ request[r].key \in Keys)
      BY DEF Inv, Guarded, RequestsAreTrue
    <3>3. ASSUME Revising(r)
          PROVE  /\ request[r].text \in Texts
                 /\ \E m \in messages' : /\ m.key = request[r].key /\ m.text = request[r].read
                                         /\ Len(m.was) < MaxEdits
      <4>1. request[r].key # k
        BY <1>1, <2>2, <3>3 DEF Inv, Guarded, OneEditPerMessage
      <4>2. PICK m \in messages : /\ m.key = request[r].key /\ m.text = request[r].read
                                 /\ Len(m.was) < MaxEdits
        BY <3>3 DEF Inv, Guarded, RequestsAreTrue
      <4>3. m # m0
        BY <1>3, <4>1, <4>2
      <4> QED BY <1>5, <3>3, <4>2, <4>3 DEF Inv, Guarded, RequestsAreTrue
    <3> QED BY <3>1, <3>2, <3>3 DEF Revising
  <2> QED BY <2>1, <2>2
<1>10. (WritersHoldTheLock /\ OneEditPerMessage)'
  BY <1>6 DEF Inv, Guarded, WritersHoldTheLock, OneEditPerMessage, Revising, Idle
<1>11. SendingIsNew'
  BY <1>3, <1>4, <1>5, <1>6 DEF Inv, Guarded, SendingIsNew, AlreadyStored, Idle
<1>12. OneMessagePerKey'
  BY <1>3, <1>4, <1>5 DEF Inv, Recorded, OneMessagePerKey
<1>13. /\ In(c)' = (In(c) \ {m0}) \cup {m1} /\ m0 \in In(c) /\ m1 \notin In(c)
       /\ \A d \in Conversations : d # c => In(d)' = In(d)
  BY <1>3, <1>4, <1>5 DEF In
<1>14. (NumberingIsGapFree /\ ThreadsAreFinite)'
  <2> SUFFICES ASSUME NEW d \in Conversations
               PROVE  /\ {m.seq : m \in In(d)'} = 1..lastSeq'[d]
                      /\ Cardinality(In(d)') = lastSeq'[d]
                      /\ IsFiniteSet(In(d)')
    BY DEF NumberingIsGapFree, ThreadsAreFinite
  <2>1. /\ {m.seq : m \in In(d)} = 1..lastSeq[d] /\ lastSeq[d] \in Nat
        /\ Cardinality(In(d)) = lastSeq[d] /\ IsFiniteSet(In(d))
    BY DEF Inv, TypeOK, Recorded, NumberingIsGapFree, ThreadsAreFinite
  <2>2. CASE d # c
    BY <1>5, <1>13, <2>1, <2>2
  <2>3. CASE d = c
    <3>1. /\ IsFiniteSet(In(d) \ {m0}) /\ Cardinality(In(d) \ {m0}) = Cardinality(In(d)) - 1
      <4> HIDE DEF c
      <4> QED BY <1>13, <2>1, <2>3, FS_RemoveElement
    <3>2. /\ IsFiniteSet(In(d)') /\ Cardinality(In(d)') = Cardinality(In(d)) - 1 + 1
      <4> HIDE DEF c
      <4> QED BY <1>13, <2>3, <3>1, FS_AddElement
    <3>3. {m.seq : m \in In(d)'} = {m.seq : m \in In(d)}
      BY <1>4, <1>13, <2>3
    <3> QED BY <1>5, <2>1, <3>2, <3>3
  <2> QED BY <2>2, <2>3
<1>15. EventsMatchFacts'
  <2>1. /\ Announced(outbox, "created") = {<<m.key, 0>> : m \in messages}
        /\ Announced(outbox, "revised") = RevisionsOf(messages)
    BY DEF Inv, Recorded, EventsMatchFacts, Announced, RevisionsOf
  <2>2. revised.key = k /\ revised.nth = L + 1 /\ revised.kind = "revised"
    BY DEF Event
  <2>3. outbox' = outbox \cup {revised}
    BY <1>5
  <2>4. /\ Announced(outbox', "revised") = Announced(outbox, "revised") \cup {<<k, L + 1>>}
        /\ Announced(outbox', "created") = Announced(outbox, "created")
    <3>1. ASSUME NEW e, e.kind = "revised"
          PROVE  /\ Announced(outbox \cup {e}, "revised") = Announced(outbox, "revised") \cup {<<e.key, e.nth>>}
                 /\ Announced(outbox \cup {e}, "created") = Announced(outbox, "created")
      <4>1. e.kind # "created"
        BY <3>1
      <4> QED BY <3>1, <4>1, AnnouncedGrows
    <3> HIDE DEF revised, L
    <3>2. /\ Announced(outbox \cup {revised}, "revised")
               = Announced(outbox, "revised") \cup {<<revised.key, revised.nth>>}
          /\ Announced(outbox \cup {revised}, "created") = Announced(outbox, "created")
      BY <2>2, <3>1
    <3> QED BY <2>2, <2>3, <3>2
  <2>5. {<<m.key, 0>> : m \in messages'} = {<<m.key, 0>> : m \in messages}
    BY <1>3, <1>4, <1>5
  <2>6. RevisionsOf(messages') = RevisionsOf(messages) \cup {<<k, L + 1>>}
    <3>1. /\ Len(m1.was) = L + 1 /\ Len(m0.was) = L /\ m1.key = k /\ m0.key = k
          /\ L \in Nat /\ messages' = (messages \ {m0}) \cup {m1}
      BY <1>3, <1>4, <1>5 DEF L
    <3> HIDE DEF m1, L
    <3>2. RevisionsOf((messages \ {m0}) \cup {m1}) = RevisionsOf(messages) \cup {<<m0.key, L + 1>>}
      BY <3>1, RevisionsGrow
    <3> QED BY <3>1, <3>2
  <2> HIDE DEF L, revised
  <2>7. /\ Announced(outbox', "created") = {<<m.key, 0>> : m \in messages'}
        /\ Announced(outbox', "revised") = RevisionsOf(messages')
    <3>1. Announced(outbox', "created") = {<<m.key, 0>> : m \in messages'}
      BY <2>1, <2>4, <2>5
    <3>2. Announced(outbox', "revised") = RevisionsOf(messages')
      BY <2>1, <2>4, <2>6
    <3> QED BY <3>1, <3>2
  <2> QED BY <2>7 DEF EventsMatchFacts, Announced, RevisionsOf
<1> QED BY <1>8, <1>9, <1>10, <1>11, <1>12, <1>14, <1>15 DEF Inv, Guarded, Recorded

-----------------------------------------------------------------------------
LEMMA KeyOfWriter ==
  ASSUME Inv, NEW q \in Requests, SendCommit(q) \/ EditCommit(q) PROVE request[q].key \in Keys
<1>1. request[q].at = "sending" \/ request[q].at = "refreshed"
  BY Zenon DEF SendCommit, EditCommit
<1>2. request[q] # Idle
  BY <1>1 DEF Idle
<1> QED BY <1>2, Zenon DEF Inv, Guarded, RequestsAreTrue

LEMMA StepInv == ASSUME Inv, [Next]_vars PROVE Inv'
<1>1. CASE \E c \in Conversations, p \in People :
              EndParticipation(c, p) \/ AddParticipant(c, p) \/ SetArchived(c, p)
  BY <1>1, PeopleInv
<1>2. CASE \E q \in Requests : SendCommit(q) \/ EditCommit(q)
  BY <1>2, KeyOfWriter, SendCommitInv, EditCommitInv
<1>3. CASE \E q \in Requests :
              \/ \E k \in Keys : SendRequest(q, k)
              \/ SendLock(q) \/ SendRefused(q)
              \/ \E m \in messages, text \in Texts : EditLock(q, m, text)
              \/ RefreshPreview(q) \/ RefreshGoesOn(q) \/ RequestDies(q)
  BY <1>3, SendRequestInv, SendLockInv, SendRefusedInv, EditLockInv, RefreshInv, DiesInv
<1>4. CASE UNCHANGED vars
  <2>1. TypeOK'
    BY <1>4 DEF vars, peopleVars, threadVars, requestVars, Inv, TypeOK, Events
  <2>2. Guarded'
    BY <1>4 DEF vars, threadVars, requestVars, Inv, Guarded, RequestsAreTrue, Revising,
                WritersHoldTheLock, OneEditPerMessage, SendingIsNew, AlreadyStored
  <2>3. Recorded'
    BY <1>4, RecordKept DEF vars, threadVars
  <2> QED BY <2>1, <2>2, <2>3 DEF Inv
<1> QED BY <1>1, <1>2, <1>3, <1>4 DEF Next

LEMMA InvAlways == Spec => []Inv
<1>1. Init => Inv
  BY InitInv
<1>2. Inv /\ [Next]_vars => Inv'
  BY StepInv
<1> QED BY <1>1, <1>2, PTL DEF Spec

(* Every variable keeps its type; the bound on edits holds though it is tested
   when an edit begins, and the preview always has a text to show. *)
THEOREM TypeCorrect == Spec => []TypeOK
<1>1. Inv => TypeOK
  BY DEF Inv
<1> QED BY <1>1, InvAlways, PTL

(* A client that retries stores one message. *)
THEOREM StoredOnce == Spec => []OneMessagePerKey
<1>1. Inv => OneMessagePerKey
  BY DEF Inv, Recorded
<1> QED BY <1>1, InvAlways, PTL

(* Numbers have no gap and no repeat, whichever senders overlap and die. *)
THEOREM NumberedWithoutGap == Spec => []NumberingIsGapFree
<1>1. Inv => NumberingIsGapFree
  BY DEF Inv, Recorded
<1> QED BY <1>1, InvAlways, PTL

(* There is an event for every fact, and none without one. *)
THEOREM EventsFollowFacts == Spec => []EventsMatchFacts
<1>1. Inv => EventsMatchFacts
  BY DEF Inv, Recorded
<1> QED BY <1>1, InvAlways, PTL

LEMMA StepIsTruthful ==
  ASSUME Inv, [Next]_vars, NEW m \in messages, NEW n \in messages', m.key = n.key, m # n
  PROVE  n.was = Append(m.was, m.text)
<1>1. n \notin messages
  BY DEF Inv, Recorded, OneMessagePerKey
<1>2. PICK q \in Requests : SendCommit(q) \/ EditCommit(q)
  <2>1. messages' # messages
    BY <1>1
  <2> QED BY <2>1, Zenon DEF Next, vars, threadVars, EndParticipation, AddParticipant, SetArchived, SendRequest,
             SendLock, SendRefused, EditLock, RefreshPreview, RefreshGoesOn, RequestDies
<1>3. CASE SendCommit(q)
  <2>1. messages' = messages \cup {[key |-> request[q].key, seq |-> lastSeq[Draft[request[q].key].conv] + 1,
                                    text |-> request[q].key, was |-> <<>>]}
        /\ request[q].at = "sending"
    BY <1>3 DEF SendCommit
  <2>2. n.key = request[q].key
    BY <1>1, <2>1
  <2> QED BY <2>1, <2>2 DEF Inv, Guarded, SendingIsNew, AlreadyStored
<1>4. CASE EditCommit(q)
  <2>1. request[q].key \in Keys /\ Revising(q) /\ messages' = AfterEdit(q)
    BY <1>4, KeyOfWriter DEF EditCommit, Revising
  <2>2. PICK m0 \in messages :
          m0.key = request[q].key /\ m0.text = request[q].read /\ Len(m0.was) < MaxEdits
    BY <2>1 DEF Inv, Guarded, RequestsAreTrue
  <2> DEFINE m1 == Edited(m0, q)
  <2>3. /\ AfterEdit(q) = (messages \ {m0}) \cup {m1} /\ m1.key = request[q].key
        /\ m1.was = Append(m0.was, m0.text)
        /\ {r \in messages : r.key = request[q].key} = {m0}
    BY <2>1, <2>2, EditedRow
  <2> HIDE DEF m1
  <2>4. n = m1
    BY <1>1, <2>1, <2>3
  <2>5. m = m0
    BY <2>3, <2>4
  <2> QED BY <2>3, <2>4, <2>5
<1> QED BY <1>2, <1>3, <1>4

(* Every revision records the text the message had, whichever edits overlap. *)
THEOREM HistoryIsTrue == Spec => RevisionsTellTheTruth
<1>1. Inv /\ [Next]_vars =>
        \A m \in messages, n \in messages' : m.key = n.key /\ m # n => n.was = Append(m.was, m.text)
  BY StepIsTruthful
<1>2. Inv /\ [Next]_vars =>
        [\A m \in messages, n \in messages' :
           m.key = n.key /\ m # n => n.was = Append(m.was, m.text)]_vars
  BY <1>1
<1> QED BY <1>2, InvAlways, PTL DEF Spec, RevisionsTellTheTruth

=============================================================================
