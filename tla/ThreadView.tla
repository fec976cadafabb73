----------------------------- MODULE ThreadView -----------------------------
(***************************************************************************)
(* The open thread of an employee: what is on the screen, and how the page *)
(* keeps it in step with the conversation that Messaging writes and whose  *)
(* events OutboxRelay publishes and Gateway passes on.                     *)
(*                                                                         *)
(* A frame names a sequence number and carries no text.  Every text comes  *)
(* from a read of the whole thread, several of which may be in flight, or  *)
(* from the answer to a message sent from here.  An action is what runs    *)
(* between two answers; the thread fits one page.                          *)
(***************************************************************************)
EXTENDS Naturals, FiniteSets

CONSTANTS MaxSeq,       \* bound on the messages of the conversation
          Own,          \* messages composed here: the localId of each
          JoinAttempts, \* JOIN_ATTEMPTS
          MaxCopies,    \* bound on the frames that arrive for one message
          MaxTurns,     \* bound on networks that drop, sockets that die and reads
                        \* that are asked for without any event, together
          None

ASSUME ThreadAssumption ==
  /\ MaxSeq \in Nat /\ MaxCopies \in Nat /\ MaxTurns \in Nat
  /\ JoinAttempts \in Nat \ {0}
  /\ None \notin Nat

VARIABLES
  lastSeq,   \* messages 1..lastSeq are committed
  copies,    \* frames that have come for each message
  link,      \* the device's network
  socket,    \* "open", "dead" before the client notices, or "closed"
  room,      \* the gateway counts this socket among the room's
  join,      \* the join in flight, with its attempt
  status,    \* what the header says
  reads,     \* GET /messages in flight
  shown,     \* the messages on the screen
  high,      \* SequenceTracker's high-water mark, None without a baseline
  own,       \* the messages composed here
  turns,     \* how much of MaxTurns has happened
  due        \* messages up to this one were announced to the page

serverVars == <<lastSeq, copies>>
socketVars == <<socket, room, join, status>>
screenVars == <<reads, shown, high>>
threadVars == <<serverVars, link, socketVars, screenVars, own, turns, due>>

Seqs == 1..MaxSeq
NoJoin == [at |-> "idle", attempt |-> 0]
Reads == [newest : BOOLEAN, saw : 0..MaxSeq \cup {None}]
OwnSeqs == {own[k].seq : k \in Own}

ThreadTypeOK ==
  /\ lastSeq \in 0..MaxSeq
  /\ copies \in [Seqs -> 0..MaxCopies]
  /\ link \in {"up", "down"}
  /\ socket \in {"open", "dead", "closed"}
  /\ room \in BOOLEAN
  /\ join \in [at : {"idle", "asked", "admitted", "later"}, attempt : 0..JoinAttempts]
  /\ status \in {"CONNECTING", "LIVE", "RECONNECTING"}
  /\ reads \subseteq Reads
  /\ shown \subseteq Seqs
  /\ high \in 0..MaxSeq \cup {None}
  /\ own \in [Own -> [at : {"unsent", "posting", "answering", "failed", "dropped", "confirmed"},
                      seq : 0..MaxSeq]]
  /\ turns \in 0..MaxTurns
  /\ due \in 0..MaxSeq

-----------------------------------------------------------------------------
(* Reading the thread. *)

(* refetch: a new ticket, which supersedes the read in flight.  One that was
   superseded before that is not followed any further: two of them are one too many
   for the same reason. *)
Overtaken == {[r EXCEPT !.newest = FALSE] : r \in {x \in reads : x.newest}}
Refetched == Overtaken \cup {[newest |-> TRUE, saw |-> None]}

ThreadInit ==
  /\ lastSeq = 0
  /\ copies = [n \in Seqs |-> 0]
  /\ link = "up"
  /\ socket = "closed"
  /\ room = FALSE
  /\ join = NoJoin
  /\ status = "CONNECTING"
  /\ reads = {[newest |-> TRUE, saw |-> None]}
  /\ shown = {}
  /\ high = None
  /\ own = [k \in Own |-> [at |-> "unsent", seq |-> 0]]
  /\ turns = 0
  /\ due = 0

Turn == turns < MaxTurns /\ turns' = turns + 1

(* The API reads the thread for a request that reached it. *)
ReadThread(r) ==
  /\ link = "up" /\ r.saw = None
  /\ reads' = (reads \ {r}) \cup {[r EXCEPT !.saw = lastSeq]}
  /\ UNCHANGED <<serverVars, link, socketVars, shown, high, own, turns, due>>

NeverSuperseded(r) == FALSE          \* mutant: no ticket, the answer that lands last wins
Superseded(r) == ~r.newest

(* The answer replaces the thread, and its newest message becomes the baseline. *)
ReadAnswered(r) ==
  /\ link = "up" /\ r.saw # None
  /\ reads' = reads \ {r}
  /\ IF Superseded(r)
     THEN UNCHANGED <<shown, high>>
     ELSE /\ shown' = 1..r.saw
          /\ high' = IF r.saw = 0 THEN high ELSE r.saw
  /\ UNCHANGED <<serverVars, link, socketVars, own, turns, due>>

(* The page says that it could not load, and does not ask again by itself. *)
ReadFails(r) ==
  /\ link = "down"
  /\ reads' = reads \ {r}
  /\ UNCHANGED <<serverVars, link, socketVars, shown, high, own, turns, due>>

(* A reaction, an edit of one's own, "try again", or the tab that becomes visible. *)
Nudge ==
  /\ Turn
  /\ reads' = Refetched
  /\ UNCHANGED <<serverVars, link, socketVars, shown, high, own, due>>

-----------------------------------------------------------------------------
(* The conversation goes on elsewhere, and its frames arrive: in any order, more
   than once, or never. *)

SomeoneWrites ==
  /\ lastSeq < MaxSeq
  /\ lastSeq' = lastSeq + 1
  /\ UNCHANGED <<copies, link, socketVars, screenVars, own, turns, due>>

Verdict(n) ==
  IF high = None THEN "REFETCH"
  ELSE IF n <= high THEN "DISCARD"
  ELSE IF n = high + 1 THEN "APPLY" ELSE "REFETCH"

(* A message newer than all that is on the screen and all that was sent from here. *)
Announces(n) == n > due /\ \A m \in shown \cup OwnSeqs : m < n

(* An event that is next in order is a reason to read as well, having no text. *)
Frame(n) ==
  /\ n <= lastSeq
  /\ copies[n] < MaxCopies
  /\ link = "up" /\ socket = "open" /\ room
  /\ copies' = [copies EXCEPT ![n] = @ + 1]
  /\ due' = IF Announces(n) THEN n ELSE due
  /\ reads' = IF Verdict(n) = "DISCARD" THEN reads ELSE Refetched
  /\ high' = IF Verdict(n) = "APPLY" THEN n ELSE high
  /\ UNCHANGED <<lastSeq, link, socketVars, shown, own, turns>>

-----------------------------------------------------------------------------
(* The socket and its room. *)

LiveOnConnect == "LIVE"              \* mutant: the open socket is taken for the room
StatusOnConnect == "RECONNECTING"

(* connect: join the room, and read what was missed while the socket was away. *)
Connect ==
  /\ link = "up" /\ socket = "closed"
  /\ socket' = "open"
  /\ join' = [at |-> "asked", attempt |-> 0]
  /\ status' = StatusOnConnect
  /\ reads' = Refetched
  /\ due' = lastSeq
  /\ UNCHANGED <<serverVars, link, room, shown, high, own, turns>>

(* The gateway admits this socket, and acknowledges. *)
Admit ==
  /\ link = "up" /\ socket = "open" /\ join.at = "asked"
  /\ room' = TRUE
  /\ join' = [join EXCEPT !.at = "admitted"]
  /\ UNCHANGED <<serverVars, link, socket, status, screenVars, own, turns, due>>

Acknowledged ==
  /\ link = "up" /\ join.at = "admitted"
  /\ status' = "LIVE"
  /\ join' = NoJoin
  /\ UNCHANGED <<serverVars, link, socket, room, screenVars, own, turns, due>>

(* Refused, or not acknowledged in time: a few more attempts, then none. *)
JoinFails ==
  /\ join.at \in {"asked", "admitted"}
  /\ status' = "RECONNECTING"
  /\ join' = IF join.attempt + 1 < JoinAttempts
             THEN [at |-> "later", attempt |-> join.attempt + 1] ELSE NoJoin
  /\ UNCHANGED <<serverVars, link, socket, room, screenVars, own, turns, due>>

JoinAgain ==
  /\ join.at = "later"
  /\ join' = [join EXCEPT !.at = "asked"]
  /\ UNCHANGED <<serverVars, link, socket, room, status, screenVars, own, turns, due>>

(* The gateway's process goes away, or the network between; the client notices later. *)
SocketDies ==
  /\ socket = "open"
  /\ Turn
  /\ socket' = "dead"
  /\ room' = FALSE
  /\ UNCHANGED <<serverVars, link, join, status, screenVars, own, due>>

(* A retry that was waiting comes to nothing: the next connection asks first. *)
Disconnected ==
  /\ socket = "dead"
  /\ socket' = "closed"
  /\ status' = "RECONNECTING"
  /\ join' = NoJoin
  /\ UNCHANGED <<serverVars, link, room, screenVars, own, turns, due>>

-----------------------------------------------------------------------------
(* The device's network. *)

LinkDrops ==
  /\ link = "up"
  /\ Turn
  /\ link' = "down"
  /\ UNCHANGED <<serverVars, socketVars, screenVars, own, due>>

ReadOnlyOnConnect == reads           \* mutant: a socket that survived means nothing was missed
ReadOnReturn == Refetched

(* "online": the frames of the interruption are gone, though the socket may not be. *)
LinkReturns ==
  /\ link = "down"
  /\ link' = "up"
  /\ reads' = ReadOnReturn
  /\ due' = lastSeq
  /\ UNCHANGED <<serverVars, socketVars, shown, high, own, turns>>

-----------------------------------------------------------------------------
(* Sending from here. *)

(* Send, or Retry under the same localId; rows that failed make room for it. *)
SendOwn(k) ==
  /\ own[k].at \in {"unsent", "failed"}
  /\ own' = [j \in Own |-> IF j = k THEN [own[j] EXCEPT !.at = "posting"]
                           ELSE IF own[j].at = "failed" THEN [own[j] EXCEPT !.at = "dropped"]
                           ELSE own[j]]
  /\ UNCHANGED <<serverVars, link, socketVars, screenVars, turns, due>>

(* The API stores it, or finds it stored already. *)
PostCommits(k) ==
  /\ link = "up" /\ own[k].at = "posting"
  /\ IF own[k].seq # 0
     THEN /\ own' = [own EXCEPT ![k].at = "answering"]
          /\ UNCHANGED lastSeq
     ELSE /\ lastSeq < MaxSeq
          /\ lastSeq' = lastSeq + 1
          /\ own' = [own EXCEPT ![k] = [at |-> "answering", seq |-> lastSeq + 1]]
  /\ UNCHANGED <<copies, link, socketVars, screenVars, turns, due>>

PostFails(k) ==
  /\ link = "down" /\ own[k].at \in {"posting", "answering"}
  /\ own' = [own EXCEPT ![k].at = "failed"]
  /\ UNCHANGED <<serverVars, link, socketVars, screenVars, turns, due>>

(* onSent: the message joins the thread, and its number becomes the baseline. *)
PostAnswered(k) ==
  /\ link = "up" /\ own[k].at = "answering"
  /\ own' = [own EXCEPT ![k].at = "confirmed"]
  /\ shown' = shown \cup {own[k].seq}
  /\ high' = own[k].seq
  /\ UNCHANGED <<serverVars, link, socketVars, reads, turns, due>>

-----------------------------------------------------------------------------
ReadStep(r) == ReadThread(r) \/ ReadAnswered(r)

ThreadNext ==
  \/ \E r \in reads : ReadStep(r) \/ ReadFails(r)
  \/ Nudge \/ SomeoneWrites
  \/ \E n \in Seqs : Frame(n)
  \/ Connect \/ Admit \/ Acknowledged \/ JoinFails \/ JoinAgain
  \/ SocketDies \/ Disconnected \/ LinkDrops \/ LinkReturns
  \/ \E k \in Own : SendOwn(k) \/ PostCommits(k) \/ PostFails(k) \/ PostAnswered(k)

ThreadSpec == ThreadInit /\ [][ThreadNext]_threadVars

(* Interruptions end, and a request that reaches the API is answered. *)
NewestRead == \E r \in reads : r.newest /\ ReadStep(r)
FairThreadSpec == ThreadSpec /\ WF_threadVars(LinkReturns) /\ WF_threadVars(NewestRead)

-----------------------------------------------------------------------------
(* A message of somebody else, once on the screen, stays there: no answer of
   the API that was overtaken puts an earlier thread back. *)
TheThreadNeverReverts == [][shown \ shown' \subseteq OwnSeqs]_threadVars

(* "Live" is said only of a socket that the room knows, as far as the client can tell. *)
LiveMeansListening == status = "LIVE" /\ socket = "open" => room

(* What was announced is shown in the end, with everything before it: by a frame
   of a message newer than all the page knows, by a connection, or by a network that came
   back, whatever is lost, repeated, overtaken or answered late in between. *)
AnnouncedIsShown == \A n \in Seqs : n <= due ~> n \in shown
=============================================================================
