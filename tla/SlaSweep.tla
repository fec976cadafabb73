------------------------------- MODULE SlaSweep -------------------------------
(***************************************************************************)
(* The SLA sweep: every tick each API instance evaluates the clocks of the *)
(* open cases and fires the stages of section 23.6 (a warning, a breach,   *)
(* an automatic escalation) at most once per case and clock.  The facts it *)
(* reads (an arrival, the first visible reply, waiting spans, a            *)
(* resolution) are changed by other handlers while it runs.                *)
(***************************************************************************)
EXTENDS BusinessClock, Sequences

CONSTANTS Cases, Sweepers,
          Histories,    \* the calendar histories a team may have
          Promises,     \* the sets of sla_targets that may apply to the cases
          Automatic,    \* the cases whose category escalates by itself
          BatchSize,    \* how many open cases a run looks at
          Horizon,      \* bound: the last instant
          MaxWaits,     \* bound: waiting spans of a case
          MaxLag,       \* bound: how far the clock moves during a run
          MaxCrashes    \* bound: instances that die in a run

ASSUME SweepAssumption ==
  /\ {BatchSize, Horizon} \subseteq Nat \ {0} /\ {MaxWaits, MaxLag, MaxCrashes} \subseteq Nat
  /\ Horizon < Never /\ Automatic \subseteq Cases

VARIABLES now, history, targets,
          facts,    \* factsFor(): what the tables say of each case
          told,     \* conversation.sla_notifications
          sent,     \* how often each stage was acted on
          sweep,    \* per instance: its run
          crashes

vars == <<now, history, targets, facts, told, sent, sweep, crashes>>

Clocks == {"FIRST_RESPONSE", "RESOLUTION"}
Levels == {"WARNING", "BREACH", "ESCALATION"}
Stages == Cases \X Clocks \X Levels
Instants == 0..Horizon

NotArrived == [arrived |-> Never, afterHours |-> FALSE, replied |-> Never,
               resolved |-> Never, waits |-> {}]
IdleRun == [phase |-> "idle", at |-> 0, todo |-> {}, work |-> <<>>]

Init ==
  /\ now = 0 /\ history \in Histories /\ targets \in Promises
  /\ facts = [c \in Cases |-> NotArrived]
  /\ told = {} /\ sent = [x \in Stages |-> 0]
  /\ sweep = [s \in Sweepers |-> IdleRun]
  /\ crashes = 0

-----------------------------------------------------------------------------
(* The facts, changed by other handlers.  A fact that no promise reads is not  *)
(* tracked.                                                                    *)

Promised(clock) == SelectTarget(targets, clock) # {}

Open(c) == facts[c].arrived # Never /\ facts[c].resolved = Never
Waiting(c) == \E p \in facts[c].waits : p.to = Never
StopWaiting(c) == {IF p.to = Never THEN [p EXCEPT !.to = now] ELSE p : p \in facts[c].waits}

Tick ==
  /\ now < Horizon /\ now' = now + 1
  /\ \A s \in Sweepers : sweep[s].phase # "idle" => now < sweep[s].at + MaxLag
  /\ UNCHANGED <<history, targets, facts, told, sent, sweep, crashes>>

\* afterHours is decided once, by the calendar of the moment.
Arrive(c) ==
  /\ facts[c].arrived = Never
  /\ facts' = [facts EXCEPT ![c].arrived = now,
                            ![c].afterHours = ~DoorOpen(history, now)]
  /\ UNCHANGED <<now, history, targets, told, sent, sweep, crashes>>

\* The first message of a human that the customer can see.
Reply(c) ==
  /\ Open(c) /\ facts[c].replied = Never /\ Promised("FIRST_RESPONSE")
  /\ facts' = [facts EXCEPT ![c].replied = now]
  /\ UNCHANGED <<now, history, targets, told, sent, sweep, crashes>>

\* A WAITING_CUSTOMER episode opens, and the customer ends it: read and counted by
\* the code, though no handler opens one yet.
AskCustomer(c) ==
  /\ Open(c) /\ ~Waiting(c) /\ Promised("RESOLUTION") /\ Cardinality(facts[c].waits) < MaxWaits
  /\ facts' = [facts EXCEPT ![c].waits = @ \cup {[from |-> now, to |-> Never]}]
  /\ UNCHANGED <<now, history, targets, told, sent, sweep, crashes>>

CustomerAnswers(c) ==
  /\ Open(c) /\ Waiting(c)
  /\ facts' = [facts EXCEPT ![c].waits = StopWaiting(c)]
  /\ UNCHANGED <<now, history, targets, told, sent, sweep, crashes>>

Resolve(c) ==
  /\ Open(c)
  /\ facts' = [facts EXCEPT ![c].resolved = now, ![c].waits = StopWaiting(c)]
  /\ UNCHANGED <<now, history, targets, told, sent, sweep, crashes>>

-----------------------------------------------------------------------------
(* A run *)

\* mutant: work that arrived at night is on the clock at once
FromArrival(f) == f.arrived

\* Became routable: at once, or at the opening that followed (case B of 23.5).
StartOf(f) == IF f.afterHours THEN NextOpening(history, f.arrived) ELSE f.arrived

StateOf(f, target, at) ==
  SlaState(target, history, StartOf(f),
           IF target.clock = "FIRST_RESPONSE" THEN f.replied ELSE f.resolved, f.waits, at)

\* mutant: a case is escalated only by the run that notified its breach
Coupled(c, clock, status) ==
  IF status = "BREACHED"
    THEN IF c \in Automatic /\ <<c, clock, "BREACH">> \notin told
           THEN <<"BREACH", "ESCALATION">> ELSE <<"BREACH">>
  ELSE IF status = "WARNING" THEN <<"WARNING">> ELSE <<>>

\* What a status asks for; the escalation does not depend on who notified.
LevelsFor(c, clock, status) ==
  IF status = "BREACHED"
    THEN IF c \in Automatic THEN <<"BREACH", "ESCALATION">> ELSE <<"BREACH">>
  ELSE IF status = "WARNING" THEN <<"WARNING">> ELSE <<>>

WorkFor(c, clock, at) ==
  LET chosen == SelectTarget(targets, clock)
      levels(t) == LevelsFor(c, clock, StateOf(facts[c], t, at).status)
  IN IF chosen = {} \/ StartOf(facts[c]) = Never THEN <<>>
     ELSE LET ls == levels(CHOOSE t \in chosen : TRUE)
          IN [i \in DOMAIN ls |-> <<c, clock, ls[i]>>]

\* The oldest open cases, at most a batch of them.
Batches ==
  LET open == {c \in Cases : Open(c)}
      older(a, b) == facts[a].arrived <= facts[b].arrived
  IN {B \in SUBSET open : /\ Cardinality(B) = Earlier(BatchSize, Cardinality(open))
                          /\ \A a \in B, b \in open \ B : older(a, b)}

\* A run with nothing left to do is over.
Rest(run) == IF run.todo = {} /\ run.work = <<>> THEN IdleRun ELSE run

Begin(s) ==
  /\ sweep[s].phase = "idle"
  /\ \E B \in Batches \ {{}} : sweep' = [sweep EXCEPT ![s] =
                                    [phase |-> "run", at |-> now, todo |-> B, work |-> <<>>]]
  /\ UNCHANGED <<now, history, targets, facts, told, sent, crashes>>

\* Read the facts of the next case, oldest first, and evaluate both clocks.
Evaluate(s) ==
  LET run == sweep[s]
      work(c) == WorkFor(c, "FIRST_RESPONSE", run.at) \o WorkFor(c, "RESOLUTION", run.at)
  IN /\ run.phase = "run" /\ run.work = <<>>
     /\ \E c \in run.todo :
          /\ \A d \in run.todo : facts[c].arrived <= facts[d].arrived
          /\ sweep' = [sweep EXCEPT ![s] = Rest([run EXCEPT !.todo = run.todo \ {c}, !.work = work(c)])]
     /\ UNCHANGED <<now, history, targets, facts, told, sent, crashes>>

\* mutant: the insert does not say whether it claimed the row
ClaimedAnyway(stage) == TRUE

\* alreadyNotified, then INSERT ... ON CONFLICT DO NOTHING, which decides.
Claimed(stage) == stage \notin told

Claim(s) ==
  LET run == sweep[s]
      stage == Head(run.work)
  IN /\ run.phase = "run" /\ run.work # <<>>
     /\ told' = told \cup {stage}
     /\ sweep' = [sweep EXCEPT ![s] = IF Claimed(stage) THEN [run EXCEPT !.phase = "act"]
                                      ELSE Rest([run EXCEPT !.work = Tail(run.work)])]
     /\ UNCHANGED <<now, history, targets, facts, sent, crashes>>

\* Notify, or raise the level.
Act(s) ==
  LET run == sweep[s]
  IN /\ run.phase = "act"
     /\ sent' = [sent EXCEPT ![Head(run.work)] = @ + 1]
     /\ sweep' = [sweep EXCEPT ![s] = Rest([run EXCEPT !.phase = "run", !.work = Tail(run.work)])]
     /\ UNCHANGED <<now, history, targets, facts, told, crashes>>

\* The instance dies, or a call throws and the rest of the run is dropped.
Break(s) ==
  /\ sweep[s].phase # "idle" /\ crashes < MaxCrashes /\ crashes' = crashes + 1
  /\ sweep' = [sweep EXCEPT ![s] = IdleRun]
  /\ UNCHANGED <<now, history, targets, facts, told, sent>>

Run(s) == Begin(s) \/ Evaluate(s) \/ Claim(s) \/ Act(s)

Next ==
  \/ Tick
  \/ \E c \in Cases : Arrive(c) \/ Reply(c) \/ AskCustomer(c) \/ CustomerAnswers(c) \/ Resolve(c)
  \/ \E s \in Sweepers : Run(s) \/ Break(s)

Spec == Init /\ [][Next]_vars

-----------------------------------------------------------------------------
\* Rows and runs keep their type, no fact lies in the future, and an instance that
\* acts on a stage holds its row (case-sweeps.ts:395, claim).
TypeOK ==
  /\ now \in Instants /\ history \in Histories /\ targets \in Promises /\ crashes \in 0..MaxCrashes
  /\ \A c \in Cases :
       /\ {facts[c].arrived, facts[c].replied, facts[c].resolved} \subseteq 0..now \cup {Never}
       /\ \A p \in facts[c].waits : p.from <= Earlier(p.to, now)
  /\ told \subseteq Stages /\ sent \in [Stages -> Nat]
  /\ \A s \in Sweepers : sweep[s].phase = "act" => Head(sweep[s].work) \in told

\* Elapsed working time is the number of instants at which the door was open, and
\* the next opening is the first such instant: clock.ts walks intervals clipped to
\* versions and days, calendar.ts looks at one instant, and they must agree.
ClockAgreesWithTheDoor ==
  \A t \in 0..now :
    /\ ElapsedWorking(history, t, now) = Cardinality({u \in t..(now - 1) : DoorOpen(history, u)})
    /\ (\E u \in t..now : DoorOpen(history, u)) =>
         NextOpening(history, t) = Min({u \in t..now : DoorOpen(history, u)})

\* A running clock is breached exactly when its breach instant has come, for every
\* clock that nothing has paused (clock.ts:182: breach is a flag with a timestamp).
BreachInstantAgrees ==
  \A c \in Cases, t \in targets :
    LET st == StateOf(facts[c], t, now)
    IN (Open(c) /\ facts[c].waits = {}) =>
         ((st.status \in {"BREACHED", "MISSED"}) => (st.breachAt <= now))
         /\ ((st.status \in {"RUNNING", "WARNING"}) => (st.breachAt > now))

\* However instances race, a stage of a case is acted on at most once
\* (case-sweeps.ts:202).
StagesFireOnce == \A x \in Stages : sent[x] <= 1

\* The instants that count against a clock of a case: after it became routable,
\* before it stopped, with the door open where the promise is in business hours,
\* and for a resolution not while the customer was waited for.
Chargeable(c, t) ==
  LET f == facts[c]
      stop == IF t.clock = "FIRST_RESPONSE" THEN f.replied ELSE f.resolved
      routable(u) == f.afterHours => \E o \in f.arrived..u : DoorOpen(history, o)
  IN {u \in f.arrived..(Earlier(stop, now) - 1) :
        /\ routable(u)
        /\ t.basis = "BUSINESS_HOURS" => DoorOpen(history, u)
        /\ t.clock = "RESOLUTION" => ~\E p \in f.waits : p.from <= u /\ u < p.to}

\* The promise that holds for a case: its category's, else its team's.
Applies(t) == t.scope = "TEAM" => ~\E u \in targets : u.clock = t.clock /\ u.scope = "CATEGORY"

\* A breach that was told is one, counted instant by instant, whatever reply, wait
\* or resolution lands between reading the facts and acting (sla-state.ts:27).
BreachesAreReal ==
  \A c \in Cases, clock \in Clocks : sent[<<c, clock, "BREACH">>] > 0 =>
    \E t \in targets : /\ t.clock = clock /\ Applies(t)
                       /\ Cardinality(Chargeable(c, t)) >= t.seconds

\* The clock of a promise was over at an instant, for a case that is still unanswered.
BreachedAt(c, t, at) ==
  /\ Open(c) /\ (t.clock = "FIRST_RESPONSE" => facts[c].replied = Never)
  /\ Cardinality({u \in Chargeable(c, t) : u < at}) >= t.seconds

\* A run that ends by itself leaves no breach behind that was there when it began:
\* the breach is recorded, and the escalation where the category asks for one, also
\* when an earlier run died between the two (case-sweeps.ts:360).
RunsLeaveNoBreach ==
  [][\A s \in Sweepers :
       (sweep[s].phase # "idle" /\ sweep'[s].phase = "idle" /\ crashes' = crashes) =>
         \A c \in Cases : \A t \in {u \in targets : Applies(u)} :
           BreachedAt(c, t, sweep[s].at) =>
             /\ <<c, t.clock, "BREACH">> \in told'
             /\ c \in Automatic => <<c, t.clock, "ESCALATION">> \in told']_vars
=============================================================================
