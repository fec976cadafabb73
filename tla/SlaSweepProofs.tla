--------------------------- MODULE SlaSweepProofs ---------------------------
(***************************************************************************)
(* Theorems about SlaSweep and BusinessClock, for any number of cases and  *)
(* instances.  First the runs, for any calendar: whatever a run finds, it  *)
(* acts only on a stage whose row it inserted itself.  Then the clock, for *)
(* calendars that read well: a walk over days, versions and shifts counts  *)
(* the instants at which the door is open, and a search ahead finds the    *)
(* first of them.  Then both: a breach that is told is one, and a run      *)
(* leaves none behind.                                                     *)
(***************************************************************************)
EXTENDS SlaSweep, FiniteSetTheorems, WellFoundedInduction, TLAPS

-----------------------------------------------------------------------------
Times == Instants \cup {Never}
FactsOK ==
  /\ now \in Instants
  /\ facts \in [Cases -> [arrived : Times, afterHours : BOOLEAN, replied : Times,
                          resolved : Times, waits : SUBSET [from : Instants, to : Times]]]
  /\ \A c \in Cases :
       /\ {facts[c].arrived, facts[c].replied, facts[c].resolved} \subseteq 0..now \cup {Never}
       /\ \A p \in facts[c].waits : p.from <= p.to /\ p.from <= now

RunsOK ==
  /\ sweep \in [Sweepers -> [phase : {"idle", "run", "act"}, at : Instants,
                             todo : SUBSET Cases, work : Seq(Stages)]]
  /\ told \subseteq Stages
  /\ sent \in [Stages -> Nat]

(* An instance that is about to act inserted the row itself, and nobody acted on it. *)
ClaimsHeld ==
  \A s \in Sweepers : sweep[s].phase = "act" =>
    /\ sweep[s].work # <<>>
    /\ Head(sweep[s].work) \in told
    /\ sent[Head(sweep[s].work)] = 0

ClaimsDiffer ==
  \A s, r \in Sweepers :
    s # r /\ sweep[s].phase = "act" /\ sweep[r].phase = "act"
      => Head(sweep[s].work) # Head(sweep[r].work)

SentOnce == \A x \in Stages : sent[x] > 0 => x \in told /\ sent[x] = 1

Inv == FactsOK /\ RunsOK /\ ClaimsHeld /\ ClaimsDiffer /\ SentOnce

LEMMA InitInv == ASSUME Init PROVE Inv
  BY SweepAssumption
  DEF Init, Inv, FactsOK, RunsOK, ClaimsHeld, ClaimsDiffer, SentOnce, NotArrived, IdleRun,
      Times, Instants

-----------------------------------------------------------------------------
(* The facts change, the runs do not. *)

LEMMA TickFacts == ASSUME FactsOK, Tick PROVE FactsOK'
  BY SweepAssumption DEF Tick, FactsOK, Times, Instants

LEMMA StopWaitingTyped ==
  ASSUME FactsOK, NEW c \in Cases
  PROVE  /\ StopWaiting(c) \in SUBSET [from : Instants, to : Times]
         /\ \A p \in StopWaiting(c) : p.from <= p.to /\ p.from <= now
<1> SUFFICES ASSUME NEW p \in facts[c].waits, NEW q,
                    q = IF p.to = Never THEN [p EXCEPT !.to = now] ELSE p
             PROVE  q \in [from : Instants, to : Times] /\ q.from <= q.to /\ q.from <= now
  BY DEF StopWaiting
<1>1. p \in [from : Instants, to : Times] /\ p.from <= p.to /\ p.from <= now /\ now \in Instants
  BY DEF FactsOK
<1> QED BY <1>1 DEF Times

LEMMA CaseFacts ==
  ASSUME FactsOK, NEW c \in Cases,
         Arrive(c) \/ Reply(c) \/ AskCustomer(c) \/ CustomerAnswers(c) \/ Resolve(c)
  PROVE  FactsOK'
<1>1. /\ now \in Instants /\ now \in Times /\ now' = now
      /\ Never \in Nat /\ now <= Never
  BY SweepAssumption, CalendarAssumption
     DEF FactsOK, Times, Instants, Arrive, Reply, AskCustomer, CustomerAnswers, Resolve
<1>2. CASE Arrive(c)
  <2>1. (~DoorOpen(history, now)) \in BOOLEAN
    <3>1. CASE DoorOpen(history, now)
      BY <3>1, Zenon
    <3>2. CASE ~DoorOpen(history, now)
      BY <3>2, Zenon
    <3> QED BY <3>1, <3>2
  <2>2. PICK late \in BOOLEAN :
          facts' = [facts EXCEPT ![c].arrived = now, ![c].afterHours = late]
    BY <1>2, <2>1, Zenon DEF Arrive
  <2> DEFINE new == [facts[c] EXCEPT !.arrived = now, !.afterHours = late]
  <2>3. facts' = [facts EXCEPT ![c] = new]
    BY <2>2 DEF FactsOK
  <2>4. /\ new \in [arrived : Times, afterHours : BOOLEAN, replied : Times,
                    resolved : Times, waits : SUBSET [from : Instants, to : Times]]
        /\ new.arrived = now /\ new.replied = facts[c].replied
        /\ new.resolved = facts[c].resolved /\ new.waits = facts[c].waits
    BY <1>1 DEF FactsOK
  <2>5. {new.arrived, new.replied, new.resolved} \subseteq 0..now \cup {Never}
    BY <1>1, <2>4 DEF FactsOK, Instants
  <2> HIDE DEF new
  <2> QED BY <1>1, <2>3, <2>4, <2>5 DEF FactsOK
<1>3. CASE Reply(c)
  BY <1>1, <1>3 DEF Reply, FactsOK, Instants
<1>4. CASE AskCustomer(c)
  <2>1. [from |-> now, to |-> Never] \in [from : Instants, to : Times]
    BY <1>1 DEF Times
  <2> QED BY <1>1, <1>4, <2>1 DEF AskCustomer, FactsOK, Instants
<1>5. CASE CustomerAnswers(c)
  BY <1>1, <1>5, StopWaitingTyped DEF CustomerAnswers, FactsOK
<1>6. CASE Resolve(c)
  <2> DEFINE new == [facts[c] EXCEPT !.resolved = now, !.waits = StopWaiting(c)]
  <2>1. facts' = [facts EXCEPT ![c] = new]
    BY <1>6 DEF Resolve, FactsOK
  <2>2. /\ new \in [arrived : Times, afterHours : BOOLEAN, replied : Times,
                    resolved : Times, waits : SUBSET [from : Instants, to : Times]]
        /\ new.arrived = facts[c].arrived /\ new.replied = facts[c].replied
        /\ new.resolved = now /\ new.waits = StopWaiting(c)
    BY <1>1, StopWaitingTyped DEF FactsOK
  <2>3. {new.arrived, new.replied, new.resolved} \subseteq 0..now \cup {Never}
    BY <1>1, <2>2 DEF FactsOK, Instants
  <2> HIDE DEF new
  <2> QED BY <1>1, <2>1, <2>2, <2>3, StopWaitingTyped DEF FactsOK
<1> QED BY <1>2, <1>3, <1>4, <1>5, <1>6

LEMMA RunsUntouched ==
  ASSUME Inv, UNCHANGED <<told, sent, sweep>>, FactsOK' PROVE Inv'
  BY DEF Inv, RunsOK, ClaimsHeld, ClaimsDiffer, SentOnce

-----------------------------------------------------------------------------
(* What an evaluation finds to do is a sequence of stages. *)
LEMMA WorkTyped ==
  ASSUME NEW c \in Cases, NEW clock \in Clocks, NEW at PROVE WorkFor(c, clock, at) \in Seq(Stages)
<1>1. \A status : LevelsFor(c, clock, status) \in Seq(Levels)
  <2>1. /\ <<"BREACH">> \in Seq(Levels) /\ <<"BREACH", "ESCALATION">> \in Seq(Levels)
        /\ <<"WARNING">> \in Seq(Levels) /\ <<>> \in Seq(Levels)
    BY DEF Levels
  <2> QED BY <2>1 DEF LevelsFor
<1>2. ASSUME NEW ls \in Seq(Levels)
      PROVE  [i \in DOMAIN ls |-> <<c, clock, ls[i]>>] \in Seq(Stages)
  <2>1. DOMAIN ls = 1..Len(ls) /\ Len(ls) \in Nat
    OBVIOUS
  <2>2. \A i \in 1..Len(ls) : <<c, clock, ls[i]>> \in Stages
    BY DEF Stages
  <2> QED BY <2>1, <2>2
<1> QED BY <1>1, <1>2 DEF WorkFor

LEMMA IdleTyped == IdleRun \in [phase : {"idle", "run", "act"}, at : Instants,
                                todo : SUBSET Cases, work : Seq(Stages)]
                   /\ IdleRun.phase = "idle"
  BY SweepAssumption DEF IdleRun, Instants

(* A run that is not about to act claims nothing. *)
LEMMA CalmStep ==
  ASSUME Inv, NEW s \in Sweepers, RunsOK', UNCHANGED <<now, facts, told, sent>>,
         sweep'[s].phase # "act", \A r \in Sweepers \ {s} : sweep'[r] = sweep[r]
  PROVE  Inv'
  BY DEF Inv, FactsOK, ClaimsHeld, ClaimsDiffer, SentOnce

LEMMA BeginInv == ASSUME Inv, NEW s \in Sweepers, Begin(s) PROVE Inv'
<1>1. PICK B \in SUBSET Cases :
        sweep' = [sweep EXCEPT ![s] = [phase |-> "run", at |-> now, todo |-> B, work |-> <<>>]]
  BY DEF Begin, Batches
<1>2. RunsOK'
  BY <1>1 DEF Begin, Inv, RunsOK, FactsOK
<1> QED BY <1>1, <1>2, CalmStep DEF Begin, Inv, RunsOK

LEMMA EvaluateInv == ASSUME Inv, NEW s \in Sweepers, Evaluate(s) PROVE Inv'
<1> DEFINE run == sweep[s]
           work(c) == WorkFor(c, "FIRST_RESPONSE", run.at) \o WorkFor(c, "RESOLUTION", run.at)
           next(c) == [run EXCEPT !.todo = run.todo \ {c}, !.work = work(c)]
<1>1. PICK c \in run.todo : sweep' = [sweep EXCEPT ![s] = Rest(next(c))]
  BY DEF Evaluate
<1>2. run.phase = "run" /\ UNCHANGED <<now, facts, told, sent>>
  BY DEF Evaluate
<1>3. run \in [phase : {"idle", "run", "act"}, at : Instants, todo : SUBSET Cases,
              work : Seq(Stages)]
  BY DEF Inv, RunsOK
<1>4. work(c) \in Seq(Stages)
  <2>1. \A clock \in Clocks : WorkFor(c, clock, run.at) \in Seq(Stages)
    BY <1>3, WorkTyped
  <2> QED BY <2>1 DEF Clocks
<1> HIDE DEF work
<1>5. next(c) \in [phase : {"idle", "run", "act"}, at : Instants, todo : SUBSET Cases,
                  work : Seq(Stages)] /\ next(c).phase = "run"
  BY <1>2, <1>3, <1>4
<1> HIDE DEF next
<1>6. RunsOK' /\ sweep'[s].phase # "act"
  BY <1>1, <1>2, <1>5, IdleTyped DEF Inv, RunsOK, Rest
<1> QED BY <1>1, <1>2, <1>6, CalmStep DEF Inv, RunsOK

LEMMA BreakInv == ASSUME Inv, NEW s \in Sweepers, Break(s) PROVE Inv'
<1>1. RunsOK' /\ sweep'[s].phase # "act"
  BY IdleTyped DEF Break, Inv, RunsOK
<1> QED BY <1>1, CalmStep DEF Break, Inv, RunsOK

(* The insert decides: only an instance that inserted the row goes on to act. *)
LEMMA ClaimInv == ASSUME Inv, NEW s \in Sweepers, Claim(s) PROVE Inv'
<1> DEFINE run == sweep[s]
           stage == Head(run.work)
<1>1. /\ run \in [phase : {"idle", "run", "act"}, at : Instants, todo : SUBSET Cases,
                 work : Seq(Stages)]
      /\ run.work # <<>> /\ stage \in Stages /\ Tail(run.work) \in Seq(Stages)
  BY DEF Claim, Inv, RunsOK
<1>2. CASE stage \in told
  <2>1. told' = told /\ UNCHANGED <<now, facts, sent>>
    BY <1>2 DEF Claim
  <2>2. sweep' = [sweep EXCEPT ![s] = Rest([run EXCEPT !.work = Tail(run.work)])]
    BY <1>2 DEF Claim, Claimed
  <2>3. [run EXCEPT !.work = Tail(run.work)] \in [phase : {"idle", "run", "act"}, at : Instants,
                                          todo : SUBSET Cases, work : Seq(Stages)]
        /\ [run EXCEPT !.work = Tail(run.work)].phase = "run"
    BY <1>1 DEF Claim
  <2>4. RunsOK' /\ sweep'[s].phase # "act"
    BY <2>1, <2>2, <2>3, IdleTyped DEF Inv, RunsOK, Rest
  <2> QED BY <2>1, <2>2, <2>4, CalmStep DEF Inv, RunsOK
<1>3. CASE stage \notin told
  <2>1. /\ told' = told \cup {stage} /\ UNCHANGED <<now, facts, sent>>
        /\ sweep' = [sweep EXCEPT ![s] = [run EXCEPT !.phase = "act"]]
    BY <1>3 DEF Claim, Claimed
  <2>2. /\ \A r \in Sweepers : sweep'[r].work = sweep[r].work
        /\ \A r \in Sweepers \ {s} : sweep'[r].phase = sweep[r].phase
        /\ sweep'[s].phase = "act"
    BY <2>1 DEF Inv, RunsOK
  <2>3. FactsOK' /\ RunsOK'
    BY <1>1, <2>1 DEF Inv, FactsOK, RunsOK
  <2>4. sent[stage] = 0
    BY <1>1, <1>3 DEF Inv, RunsOK, SentOnce
  <2>5. ClaimsHeld' /\ SentOnce'
    BY <1>1, <2>1, <2>2, <2>4 DEF Inv, ClaimsHeld, SentOnce
  <2>6. ClaimsDiffer'
    BY <1>3, <2>2 DEF Inv, ClaimsHeld, ClaimsDiffer
  <2> QED BY <2>3, <2>5, <2>6 DEF Inv
<1> QED BY <1>2, <1>3

LEMMA ActInv == ASSUME Inv, NEW s \in Sweepers, Act(s) PROVE Inv'
<1> DEFINE run == sweep[s]
           stage == Head(run.work)
           next == [run EXCEPT !.phase = "run", !.work = Tail(run.work)]
<1>1. /\ run \in [phase : {"idle", "run", "act"}, at : Instants, todo : SUBSET Cases,
                 work : Seq(Stages)]
      /\ run.phase = "act" /\ run.work # <<>> /\ stage \in Stages
      /\ Tail(run.work) \in Seq(Stages) /\ stage \in told /\ sent[stage] = 0
  BY DEF Act, Inv, RunsOK, ClaimsHeld
<1>2. /\ sent' = [sent EXCEPT ![stage] = @ + 1] /\ UNCHANGED <<now, facts, told>>
      /\ sweep' = [sweep EXCEPT ![s] = Rest(next)]
  BY DEF Act
<1>3. next \in [phase : {"idle", "run", "act"}, at : Instants, todo : SUBSET Cases,
               work : Seq(Stages)] /\ next.phase = "run"
  BY <1>1
<1> HIDE DEF next
<1>4. RunsOK' /\ sweep'[s].phase # "act"
  BY <1>1, <1>2, <1>3, IdleTyped DEF Inv, RunsOK, Rest
<1>5. \A r \in Sweepers \ {s} : sweep'[r] = sweep[r]
  BY <1>2 DEF Inv, RunsOK
<1>6. \A x \in Stages : sent'[x] = IF x = stage THEN 1 ELSE sent[x]
  BY <1>1, <1>2 DEF Inv, RunsOK
<1>7. SentOnce'
  BY <1>1, <1>2, <1>6 DEF Inv, SentOnce
<1>8. ClaimsDiffer'
  BY <1>4, <1>5 DEF Inv, ClaimsDiffer
<1>9. ClaimsHeld'
  <2> SUFFICES ASSUME NEW r \in Sweepers, sweep'[r].phase = "act"
               PROVE  /\ sweep'[r].work # <<>> /\ Head(sweep'[r].work) \in told'
                      /\ sent'[Head(sweep'[r].work)] = 0
    BY DEF ClaimsHeld
  <2>1. r # s /\ sweep'[r] = sweep[r]
    BY <1>4, <1>5
  <2>2. Head(sweep[r].work) # stage
    BY <1>1, <2>1 DEF Inv, ClaimsDiffer
  <2>3. sweep[r].work # <<>> /\ Head(sweep[r].work) \in told /\ sent[Head(sweep[r].work)] = 0
    BY <2>1 DEF Inv, ClaimsHeld
  <2>4. Head(sweep[r].work) \in Stages
    BY <2>3 DEF Inv, RunsOK
  <2> QED BY <1>2, <1>6, <2>1, <2>2, <2>3, <2>4
<1> QED BY <1>2, <1>4, <1>7, <1>8, <1>9 DEF Inv, FactsOK

LEMMA InvAlways == Spec => []Inv
<1>1. ASSUME Inv, [Next]_vars PROVE Inv'
  <2>1. ASSUME Tick PROVE Inv'
    BY <1>1, <2>1, TickFacts, RunsUntouched DEF Inv, Tick
  <2>2. ASSUME NEW c \in Cases,
               Arrive(c) \/ Reply(c) \/ AskCustomer(c) \/ CustomerAnswers(c) \/ Resolve(c)
        PROVE  Inv'
    BY <1>1, <2>2, CaseFacts, RunsUntouched
       DEF Inv, Arrive, Reply, AskCustomer, CustomerAnswers, Resolve
  <2>3. ASSUME UNCHANGED vars PROVE Inv'
    BY <1>1, <2>3, RunsUntouched DEF Inv, FactsOK, vars
  <2> QED BY <1>1, <2>1, <2>2, <2>3, BeginInv, EvaluateInv, ClaimInv, ActInv, BreakInv
          DEF Next, Run
<1> QED BY <1>1, InitInv, PTL DEF Spec

-----------------------------------------------------------------------------
(* The calendar and the promises never change, and crashes are counted. *)
Settings == history \in Histories /\ targets \in Promises /\ crashes \in 0..MaxCrashes

LEMMA SettingsAlways == Spec => []Settings
<1>1. Init => Settings
  BY SweepAssumption DEF Init, Settings
<1>2. Settings /\ [Next]_vars => Settings'
  <2> SUFFICES ASSUME Settings, [Next]_vars PROVE Settings'
    OBVIOUS
  <2>1. ASSUME UNCHANGED <<history, targets>>,
               crashes' = crashes \/ (crashes < MaxCrashes /\ crashes' = crashes + 1)
        PROVE  Settings'
    BY <2>1, SweepAssumption DEF Settings
  <2>2. ASSUME Tick PROVE Settings'
    BY <2>1, <2>2 DEF Tick
  <2>3. ASSUME NEW c \in Cases,
               Arrive(c) \/ Reply(c) \/ AskCustomer(c) \/ CustomerAnswers(c) \/ Resolve(c)
        PROVE  Settings'
    BY <2>1, <2>3, Zenon DEF Arrive, Reply, AskCustomer, CustomerAnswers, Resolve
  <2>4. ASSUME NEW s \in Sweepers, Run(s) \/ Break(s) PROVE Settings'
    BY <2>1, <2>4, Zenon DEF Run, Begin, Evaluate, Claim, Act, Break
  <2>5. ASSUME UNCHANGED vars PROVE Settings'
    BY <2>1, <2>5 DEF vars
  <2> QED BY <2>2, <2>3, <2>4, <2>5 DEF Next
<1> QED BY <1>1, <1>2, PTL DEF Spec

(* Rows and runs keep their type, no fact lies in the future, and an instance that acts
   on a stage holds its row. *)
THEOREM TypeCorrect == Spec => []TypeOK
<1>1. Inv /\ Settings => TypeOK
  <2> SUFFICES ASSUME Inv, Settings PROVE TypeOK
    OBVIOUS
  <2>1. \A c \in Cases : \A p \in facts[c].waits : p.from <= Earlier(p.to, now)
    BY DEF Inv, FactsOK, Earlier
  <2> QED BY <2>1 DEF Inv, Settings, FactsOK, RunsOK, ClaimsHeld, TypeOK
<1> QED BY <1>1, InvAlways, SettingsAlways, PTL

(* However many instances sweep at once and die, a warning is given, a breach is
   told and a case is escalated at most once per clock. *)
THEOREM StagesFiredOnce == Spec => []StagesFireOnce
<1>1. Inv => StagesFireOnce
  BY DEF Inv, RunsOK, SentOnce, StagesFireOnce
<1> QED BY <1>1, InvAlways, PTL

-----------------------------------------------------------------------------
(* Sums over finite sets.  The library sums by recursion on the subsets of a set; that
   such a sum exists, and what it counts, follow from a least counterexample. *)

LEMMA LeastExists ==
  ASSUME NEW T \in SUBSET Nat, T # {}
  PROVE  \E x \in T : \A y \in T : x <= y
<1>1. IsWellFoundedOn(OpToRel(<, Nat), Nat)
  BY NatLessThanWellFounded
<1>2. PICK x \in T : \A y \in T : ~(<<y, x>> \in OpToRel(<, Nat))
  BY <1>1, WFMin, Zenon
<1>3. \A y \in T : <<y, x>> \in OpToRel(<, Nat) <=> y < x
  BY DEF OpToRel
<1>4. \A y \in T : y \in Nat /\ x \in Nat /\ ~(y < x)
  BY <1>2, <1>3
<1>5. \A y \in T : x <= y
  BY <1>4
<1> QED BY <1>5

(* FoldSet takes out the element that CHOOSE picks. *)
Pick(s) == CHOOSE x \in s : TRUE

LEMMA PickIn == \A s : s # {} => Pick(s) \in s
  BY DEF Pick

(* The recursion of a sum with weights g over the subsets of S that have at most n
   elements. *)
SmallOf(S, n) == {s \in SUBSET S : Cardinality(s) <= n}
IsSum(f, g, D) ==
  f = [s \in D |-> IF s = {} THEN 0 ELSE g[Pick(s)] + f[s \ {Pick(s)}]]

LEMMA SumsExist ==
  ASSUME NEW S, IsFiniteSet(S), NEW g
  PROVE  \E f : IsSum(f, g, SUBSET S)
<1> DEFINE Bad == {n \in Nat : ~\E f : IsSum(f, g, SmallOf(S, n))}
<1>1. \A s \in SUBSET S : /\ IsFiniteSet(s) /\ Cardinality(s) \in Nat
                          /\ Cardinality(s) <= Cardinality(S)
                          /\ (Cardinality(s) = 0 <=> s = {})
  BY FS_Subset, FS_CardinalityType, FS_EmptySet
<1>2. \A s \in SUBSET S : s # {} => /\ Pick(s) \in S /\ s \ {Pick(s)} \in SUBSET S
                                    /\ Cardinality(s \ {Pick(s)}) = Cardinality(s) - 1
  BY <1>1, PickIn, FS_RemoveElement
<1>3. \E f : IsSum(f, g, SmallOf(S, 0))
  <2> DEFINE z == [s \in SmallOf(S, 0) |-> 0]
  <2>1. \A s \in SmallOf(S, 0) : s = {}
    BY <1>1 DEF SmallOf
  <2>2. IsSum(z, g, SmallOf(S, 0))
    BY <2>1 DEF IsSum
  <2> QED BY <2>2
<1>4. ASSUME NEW n \in Nat, NEW f, IsSum(f, g, SmallOf(S, n))
      PROVE  \E h : IsSum(h, g, SmallOf(S, n + 1))
  <2> DEFINE next(e, s) == IF s = {} THEN 0 ELSE g[Pick(s)] + e[s \ {Pick(s)}]
             h == [s \in SmallOf(S, n + 1) |-> next(f, s)]
  <2>1. \A s \in SmallOf(S, n + 1) : s # {} => s \ {Pick(s)} \in SmallOf(S, n)
    BY <1>1, <1>2 DEF SmallOf
  <2>2. \A s \in SmallOf(S, n) : s \in SmallOf(S, n + 1)
    BY <1>1 DEF SmallOf
  <2>3. \A s \in SmallOf(S, n) : f[s] = next(f, s)
    BY <1>4 DEF IsSum
  <2>4. \A s \in SmallOf(S, n) : h[s] = f[s]
    <3> HIDE DEF next
    <3> QED BY <2>2, <2>3
  <2>5. \A s \in SmallOf(S, n + 1) : next(f, s) = next(h, s)
    <3> HIDE DEF h
    <3> QED BY <2>1, <2>4
  <2>6. h = [s \in SmallOf(S, n + 1) |-> next(h, s)]
    <3> HIDE DEF next
    <3> QED BY <2>5
  <2> HIDE DEF h
  <2> QED BY <2>6 DEF IsSum
<1>5. Bad = {}
  <2> SUFFICES ASSUME Bad # {} PROVE FALSE
    OBVIOUS
  <2>1. PICK n \in Bad : \A m \in Bad : n <= m
    <3>1. Bad \in SUBSET Nat
      OBVIOUS
    <3> HIDE DEF Bad
    <3> QED BY <3>1, LeastExists
  <2>2. n # 0 /\ n \in Nat
    BY <1>3
  <2>3. n - 1 \in Nat /\ n - 1 \notin Bad
    BY <2>1, <2>2
  <2>4. \E h : IsSum(h, g, SmallOf(S, (n - 1) + 1))
    BY <1>4, <2>3
  <2>5. (n - 1) + 1 = n
    BY <2>2
  <2> QED BY <2>1, <2>4, <2>5
<1>6. Cardinality(S) \in Nat /\ SmallOf(S, Cardinality(S)) = SUBSET S
  BY <1>1, FS_CardinalityType DEF SmallOf
<1> QED BY <1>5, <1>6

(* What a sum of sizes counts: the elements of the sets, each under the name of the set
   it comes from. *)
Tagged(P, s) == UNION {{x} \X P[x] : x \in s}

LEMMA TaggedSum ==
  ASSUME NEW S, IsFiniteSet(S), NEW P, \A x \in S : IsFiniteSet(P[x]),
         NEW f, NEW g, IsSum(f, g, SUBSET S), \A x \in S : g[x] = Cardinality(P[x])
  PROVE  IsFiniteSet(Tagged(P, S)) /\ f[S] = Cardinality(Tagged(P, S))
<1> DEFINE Right(s) == IsFiniteSet(Tagged(P, s)) /\ f[s] = Cardinality(Tagged(P, s))
           Wrong == {n \in Nat : \E s \in SUBSET S : Cardinality(s) = n /\ ~Right(s)}
<1>1. \A s \in SUBSET S : IsFiniteSet(s) /\ Cardinality(s) \in Nat /\ (Cardinality(s) = 0 <=> s = {})
  BY FS_Subset, FS_CardinalityType, FS_EmptySet
<1>2. \A s \in SUBSET S : s # {} => /\ Pick(s) \in s /\ s \ {Pick(s)} \in SUBSET S
                                    /\ Cardinality(s \ {Pick(s)}) = Cardinality(s) - 1
  BY <1>1, PickIn, FS_RemoveElement
<1>3. Right({})
  <2>1. Tagged(P, {}) = {}
    BY DEF Tagged
  <2>2. f[{}] = 0
    BY DEF IsSum
  <2> QED BY <2>1, <2>2, FS_EmptySet
<1>4. ASSUME NEW s \in SUBSET S, s # {}, Right(s \ {Pick(s)}) PROVE Right(s)
  <2> DEFINE x == Pick(s)
             r == s \ {x}
             mine == {x} \X P[x]
  <2>1. x \in s /\ x \in S /\ r \in SUBSET S
    BY <1>2, <1>4
  <2>2. f[s] = Cardinality(P[x]) + f[r]
    BY <1>4, <2>1 DEF IsSum
  <2>3. Tagged(P, s) = mine \cup Tagged(P, r)
    BY <2>1 DEF Tagged
  <2>4. mine \cap Tagged(P, r) = {}
    BY DEF Tagged
  <2>5. IsFiniteSet(mine) /\ Cardinality(mine) = Cardinality(P[x])
    <3>1. IsFiniteSet({x}) /\ Cardinality({x}) = 1 /\ IsFiniteSet(P[x])
      BY <2>1, FS_Singleton
    <3>2. Cardinality(P[x]) \in Nat
      BY <3>1, FS_CardinalityType
    <3> QED BY <3>1, <3>2, FS_Product
  <2>6. IsFiniteSet(Tagged(P, r)) /\ f[r] = Cardinality(Tagged(P, r))
    BY <1>4
  <2>7. /\ IsFiniteSet(mine \cup Tagged(P, r))
        /\ Cardinality(mine \cup Tagged(P, r))
             = Cardinality(mine) + Cardinality(Tagged(P, r)) - Cardinality({})
    <3> HIDE DEF mine, r
    <3> QED BY <2>4, <2>5, <2>6, FS_Union
  <2>8. Cardinality(mine) \in Nat /\ Cardinality(Tagged(P, r)) \in Nat
    BY <2>5, <2>6, FS_CardinalityType
  <2>9. Cardinality(mine \cup Tagged(P, r)) = Cardinality(mine) + Cardinality(Tagged(P, r))
    BY <2>7, <2>8, FS_EmptySet
  <2> QED BY <2>2, <2>3, <2>5, <2>6, <2>7, <2>9
<1>5. Wrong = {}
  <2> SUFFICES ASSUME Wrong # {} PROVE FALSE
    OBVIOUS
  <2>1. PICK n \in Wrong : \A m \in Wrong : n <= m
    <3>1. Wrong \in SUBSET Nat
      OBVIOUS
    <3> HIDE DEF Wrong
    <3> QED BY <3>1, LeastExists
  <2>2. PICK s \in SUBSET S : Cardinality(s) = n /\ ~Right(s)
    BY <2>1
  <2> HIDE DEF Right
  <2>3. s # {}
    BY <1>3, <2>2
  <2>4. Cardinality(s \ {Pick(s)}) = n - 1 /\ n - 1 \in Nat /\ s \ {Pick(s)} \in SUBSET S
    BY <1>1, <1>2, <2>2, <2>3
  <2>5. n - 1 \notin Wrong
    BY <2>1, <2>4
  <2>6. Right(s \ {Pick(s)})
    BY <2>4, <2>5
  <2> QED BY <1>4, <2>2, <2>3, <2>6
<1>6. Cardinality(S) \in Nat
  BY <1>1
<1>7. Right(S)
  BY <1>5, <1>6
<1> QED BY <1>7

(* Length of a set of intervals counts their instants, each under its interval. *)
InstantsOf(S) == Tagged([i \in S |-> i.from..(i.to - 1)], S)

LEMMA LengthCounts ==
  ASSUME NEW S, IsFiniteSet(S),
         \A i \in S : i.from \in Int /\ i.to \in Int /\ i.from <= i.to
  PROVE  IsFiniteSet(InstantsOf(S)) /\ Length(S) = Cardinality(InstantsOf(S))
<1> DEFINE P == [i \in S |-> i.from..(i.to - 1)]
           g == [i \in S |-> i.to - i.from]
           F == CHOOSE f : f = [s \in SUBSET S |->
                  IF s = {} THEN 0
                  ELSE Pick(s).to - Pick(s).from + f[s \ {Pick(s)}]]
<1>1. \A i \in S : IsFiniteSet(P[i]) /\ g[i] = Cardinality(P[i])
  <2> SUFFICES ASSUME NEW i \in S PROVE IsFiniteSet(P[i]) /\ g[i] = Cardinality(P[i])
    OBVIOUS
  <2>1. i.from \in Int /\ i.to - 1 \in Int /\ i.from <= i.to
    OBVIOUS
  <2>2. IsFiniteSet(i.from..(i.to - 1))
        /\ Cardinality(i.from..(i.to - 1))
             = IF i.from > i.to - 1 THEN 0 ELSE (i.to - 1) - i.from + 1
    BY <2>1, FS_Interval
  <2> QED BY <2>1, <2>2
<1>2. PICK f : IsSum(f, g, SUBSET S)
  BY SumsExist
<1>3. \A s \in SUBSET S : s # {} => g[Pick(s)] = Pick(s).to - Pick(s).from
  BY PickIn
<1>4. \A e : IsSum(e, g, SUBSET S) <=>
              e = [s \in SUBSET S |-> IF s = {} THEN 0
                                     ELSE Pick(s).to - Pick(s).from + e[s \ {Pick(s)}]]
  <2> HIDE DEF g
  <2> QED BY <1>3 DEF IsSum
<1>5. IsSum(F, g, SUBSET S)
  <2> HIDE DEF g
  <2> QED BY <1>2, <1>4
<1>6. Length(S) = F[S]
  BY DEF Length, MapThenSumSet, MapThenFoldSet, Pick
<1> HIDE DEF F, g, P
<1>7. IsFiniteSet(Tagged(P, S)) /\ F[S] = Cardinality(Tagged(P, S))
  BY <1>1, <1>5, TaggedSum
<1> QED BY <1>6, <1>7 DEF InstantsOf, P

-----------------------------------------------------------------------------
(* The walk over days and the sign on the door. *)

(* What calendar-reader.ts lets through: minutes of two days, in order. *)
IsShift(w) ==
  w.open \in Nat /\ w.close \in Nat /\ w.open < w.close /\ w.close <= DayLength + DayLength
Parsed(v) ==
  /\ v.from \in Nat /\ v.until \in Nat
  /\ \A w \in v.windows : IsShift(w)
  /\ \A day \in DOMAIN v.exceptions : \A w \in v.exceptions[day] : IsShift(w)

(* A window of a day has an instant, in a version that is in force. *)
Covers(v, day, w, u) ==
  InForce(v, u) /\ day * DayLength + w.open <= u /\ u < day * DayLength + w.close
DaysAt(u) == {u \div DayLength, u \div DayLength - 1}

(* As far as a search can see that starts where another one ended. *)
Sight == Horizon + Lookahead + Lookahead

(* No instant is two shifts' at once. *)
OneShiftAtATime(h) ==
  \A u \in 0..Sight : \A v, x \in h : \A d, e \in DaysAt(u) :
    \A w \in WindowsOn(v, d), y \in WindowsOn(x, e) :
      Covers(v, d, w, u) /\ Covers(x, e, y, u) => v = x /\ d = e /\ w = y

Rostered(h) == (\A v \in h : Parsed(v)) /\ OneShiftAtATime(h)

LEMMA DivMod ==
  ASSUME NEW D \in Nat \ {0}, NEW u \in Int
  PROVE  u \div D \in Int /\ (u % D) \in 0..(D - 1) /\ u = D * (u \div D) + (u % D)
<1>1. u \div D \in Int /\ (u % D) \in 0..(D - 1)
  OBVIOUS
<1>2. u = D * (u \div D) + (u % D)
  OBVIOUS
<1> QED BY <1>1, <1>2

LEMMA TimesMonotone ==
  ASSUME NEW D \in Nat \ {0}, NEW p \in Int, NEW q \in Int, p <= q
  PROVE  D * p \in Int /\ D * q \in Int /\ D * p <= D * q
  OBVIOUS

LEMMA TimesStep ==
  ASSUME NEW D \in Nat \ {0}, NEW p \in Int
  PROVE  /\ D * p \in Int /\ D * p = p * D
         /\ D * (p + 1) = D * p + D /\ D * (p - 1) = D * p - D
         /\ D * (p - 2) = D * p - D - D
  OBVIOUS

LEMMA ShiftsOfADay ==
  ASSUME NEW v, Parsed(v), NEW day, NEW w \in WindowsOn(v, day)
  PROVE  IsShift(w)
<1>1. CASE day \in DOMAIN v.exceptions
  BY <1>1 DEF WindowsOn, Parsed
<1>2. CASE day \notin DOMAIN v.exceptions
  <2>1. PICK x \in v.windows : w = [open |-> x.open, close |-> x.close]
    BY <1>2 DEF WindowsOn
  <2>2. IsShift(x)
    BY DEF Parsed
  <2> QED BY <2>1, <2>2 DEF IsShift
<1> QED BY <1>1, <1>2

(* A window of two days at most reaches the day it began and the next. *)
LEMMA CoveringDays ==
  ASSUME NEW v, Parsed(v), NEW day \in Int, NEW w \in WindowsOn(v, day), NEW u \in Nat,
         Covers(v, day, w, u)
  PROVE  day \in DaysAt(u)
<1> DEFINE D == DayLength
           q == u \div D
           m == u % D
<1>1. D \in Nat \ {0}
  BY CalendarAssumption
<1>2. q \in Int /\ m \in 0..(D - 1) /\ u = D * q + m
  BY <1>1, DivMod
<1>3. IsShift(w)
  BY ShiftsOfADay
<1>4. day * D = D * day /\ D * day \in Int /\ D * q \in Int
  BY <1>1, <1>2, TimesStep
<1>5. D * day + w.open <= u /\ u < D * day + w.close
  BY <1>4 DEF Covers
<1> HIDE DEF D, q, m
<1>6. day <= q
  <2> SUFFICES ASSUME q + 1 <= day PROVE FALSE
    BY <1>2
  <2>1. D * (q + 1) <= D * day
    BY <1>1, <1>2, TimesMonotone
  <2>2. D * (q + 1) = D * q + D
    BY <1>1, <1>2, TimesStep
  <2> QED BY <1>1, <1>2, <1>3, <1>4, <1>5, <2>1, <2>2 DEF IsShift
<1>7. day >= q - 1
  <2> SUFFICES ASSUME day <= q - 2 PROVE FALSE
    BY <1>2
  <2>1. D * day <= D * (q - 2)
    BY <1>1, <1>2, TimesMonotone
  <2>2. D * (q - 2) = D * q - D - D
    BY <1>1, <1>2, TimesStep
  <2>3. w.close <= D + D /\ w.close \in Nat
    BY <1>3 DEF IsShift, D
  <2> QED BY <1>1, <1>2, <1>4, <1>5, <2>1, <2>2, <2>3
<1> QED BY <1>2, <1>6, <1>7 DEF DaysAt, q, D

LEMMA DoorIsCover ==
  ASSUME NEW h, \A v \in h : Parsed(v), NEW u \in Nat
  PROVE  DoorOpen(h, u) <=>
           \E v \in h : \E day \in DaysAt(u) : \E w \in WindowsOn(v, day) : Covers(v, day, w, u)
<1> DEFINE D == DayLength
           q == u \div D
           m == u % D
<1>1. D \in Nat \ {0}
  BY CalendarAssumption
<1>2. q \in Int /\ m \in 0..(D - 1) /\ u = D * q + m
  BY <1>1, DivMod
<1>3. /\ D * q \in Int /\ q * D = D * q /\ (q - 1) * D = D * q - D
  <2>1. q - 1 \in Int /\ D * (q - 1) = (q - 1) * D
    BY <1>1, <1>2, TimesStep
  <2> QED BY <1>1, <1>2, <2>1, TimesStep
<1>4. ASSUME NEW v \in h, NEW w \in WindowsOn(v, q)
      PROVE  (q * D + w.open <= u /\ u < q * D + w.close) <=> (w.open <= m /\ m < w.close)
  <2>1. w.open \in Nat /\ w.close \in Nat
    BY ShiftsOfADay DEF IsShift
  <2> HIDE DEF q, m, D
  <2> QED BY <1>1, <1>2, <1>3, <2>1
<1>5. ASSUME NEW v \in h, NEW w \in WindowsOn(v, q - 1)
      PROVE  ((q - 1) * D + w.open <= u /\ u < (q - 1) * D + w.close)
               <=> (w.close > D /\ w.open <= m + D /\ m + D < w.close)
  <2>1. w.open \in Nat /\ w.close \in Nat
    BY ShiftsOfADay DEF IsShift
  <2> HIDE DEF q, m, D
  <2> QED BY <1>1, <1>2, <1>3, <2>1
<1>6. DaysAt(u) = {q, q - 1}
  BY DEF DaysAt
<1>7. ASSUME NEW v \in h
      PROVE  IsOpenAt(v, u) <=>
               \/ \E w \in WindowsOn(v, q) : w.open <= m /\ m < w.close
               \/ \E w \in WindowsOn(v, q - 1) :
                    w.close > D /\ w.open <= m + D /\ m + D < w.close
  BY DEF IsOpenAt
<1> HIDE DEF q, m
<1>8. ASSUME NEW v \in h
      PROVE  InForce(v, u) /\ IsOpenAt(v, u) <=>
               \E day \in DaysAt(u) : \E w \in WindowsOn(v, day) : Covers(v, day, w, u)
  BY <1>4, <1>5, <1>6, <1>7 DEF Covers
<1> QED BY <1>8 DEF DoorOpen

(* One window of one day, clipped to the query and to the version. *)
Stretch(v, day, w, from, to) ==
  [version |-> v, day |-> day,
   from |-> Later(day * DayLength + w.open, Later(from, v.from)),
   to |-> Earlier(day * DayLength + w.close, Earlier(to, v.until))]

LEMMA StretchCovers ==
  ASSUME NEW v, Parsed(v), NEW day \in Int, NEW w \in WindowsOn(v, day),
         NEW from \in Nat, NEW to \in Nat
  PROVE  LET i == Stretch(v, day, w, from, to)
         IN  /\ i.from \in Nat /\ i.to \in Int /\ from <= i.from /\ i.to <= to
             /\ \A u \in Int : i.from <= u /\ u < i.to
                                 <=> from <= u /\ u < to /\ Covers(v, day, w, u)
<1>1. DayLength \in Nat /\ v.from \in Nat /\ v.until \in Nat /\ w.open \in Nat /\ w.close \in Nat
  BY CalendarAssumption, ShiftsOfADay DEF Parsed, IsShift
<1> DEFINE a == day * DayLength
<1>2. a \in Int
  BY <1>1
<1> HIDE DEF a
<1>3. /\ Later(a + w.open, Later(from, v.from)) \in Nat
      /\ Earlier(a + w.close, Earlier(to, v.until)) \in Int
      /\ from <= Later(a + w.open, Later(from, v.from))
      /\ Earlier(a + w.close, Earlier(to, v.until)) <= to
      /\ \A u \in Int : Later(a + w.open, Later(from, v.from)) <= u
                          <=> a + w.open <= u /\ from <= u /\ v.from <= u
      /\ \A u \in Int : u < Earlier(a + w.close, Earlier(to, v.until))
                          <=> u < a + w.close /\ u < to /\ u < v.until
  BY <1>1, <1>2 DEF Later, Earlier
<1> QED BY <1>3 DEF Stretch, Covers, InForce, a

(* Intervals are the stretches that are not empty, and no window that has an instant of
   the query is missed. *)
LEMMA IntervalsAreStretches ==
  ASSUME NEW h, NEW from, NEW to, NEW i \in Intervals(h, from, to)
  PROVE  \E v \in h : \E day \in Int : \E w \in WindowsOn(v, day) :
           i = Stretch(v, day, w, from, to) /\ i.from < i.to
<1>1. PICK v \in h : \E day \in Int : \E w \in WindowsOn(v, day) :
                       i = Stretch(v, day, w, from, to)
  BY DEF Intervals, Stretch
<1>2. i.from < i.to
  BY DEF Intervals
<1> QED BY <1>1, <1>2

LEMMA DivMonotone ==
  ASSUME NEW D \in Nat \ {0}, NEW a \in Int, NEW b \in Int, a <= b
  PROVE  a \div D <= b \div D
<1> DEFINE p == a \div D
           q == b \div D
<1>1. p \in Int /\ (a % D) \in 0..(D - 1) /\ a = D * p + (a % D)
  BY DivMod
<1>2. q \in Int /\ (b % D) \in 0..(D - 1) /\ b = D * q + (b % D)
  BY DivMod
<1> SUFFICES ASSUME q + 1 <= p PROVE FALSE
  BY <1>1, <1>2
<1>3. D * (q + 1) <= D * p /\ D * (q + 1) = D * q + D /\ D * q \in Int /\ D * p \in Int
  BY <1>1, <1>2, TimesMonotone, TimesStep
<1> HIDE DEF p, q
<1> QED BY <1>1, <1>2, <1>3

LEMMA CoveredIsWalked ==
  ASSUME NEW h, NEW from \in Nat, NEW to \in Nat, NEW v \in h, Parsed(v),
         NEW day \in Int, NEW w \in WindowsOn(v, day),
         NEW u \in from..(to - 1), Covers(v, day, w, u)
  PROVE  Stretch(v, day, w, from, to) \in Intervals(h, from, to)
<1> DEFINE i == Stretch(v, day, w, from, to)
           first == FirstDay(Later(from, v.from))
           last == Earlier(to, v.until) \div DayLength
<1>1. DayLength \in Nat \ {0} /\ v.from \in Nat /\ v.until \in Nat /\ u \in Nat
  BY CalendarAssumption DEF Parsed
<1>2. i.from <= u /\ u < i.to /\ i.from \in Nat /\ i.to \in Int
  BY <1>1, StretchCovers
<1>3. i.from < i.to
  BY <1>1, <1>2
<1>4. day \in DaysAt(u)
  BY <1>1, CoveringDays
<1>5. /\ Later(from, v.from) \in Nat /\ Later(from, v.from) <= u
      /\ Earlier(to, v.until) \in Nat /\ u <= Earlier(to, v.until)
  BY <1>1 DEF Covers, InForce, Later, Earlier
<1> DEFINE a == Later(from, v.from)
           b == Earlier(to, v.until)
<1>6. /\ a \div DayLength <= u \div DayLength /\ u \div DayLength <= b \div DayLength
      /\ a \div DayLength \in Int /\ u \div DayLength \in Int /\ b \div DayLength \in Int
  <2> HIDE DEF a, b
  <2>1. a \in Int /\ b \in Int /\ u \in Int /\ a <= u /\ u <= b
    BY <1>1, <1>5 DEF a, b
  <2>2. a \div DayLength <= u \div DayLength
    BY <1>1, <2>1, DivMonotone
  <2>3. u \div DayLength <= b \div DayLength
    BY <1>1, <2>1, DivMonotone
  <2> QED BY <1>1, <2>1, <2>2, <2>3, DivMod
<1>7. day \in first..last
  BY <1>4, <1>6 DEF FirstDay, DaysAt
<1> HIDE DEF first, last
<1>8. i \in UNION {{Stretch(v, d, y, from, to) : y \in WindowsOn(v, d)} : d \in first..last}
  BY <1>7
<1> QED BY <1>3, <1>8 DEF Intervals, Stretch, first, last

-----------------------------------------------------------------------------
(* What a walk adds up to. *)

(* The instants of a query at which the door was open. *)
OpenIn(h, from, to) == {u \in from..(to - 1) : DoorOpen(h, u)}

LEMMA IntervalsOpen ==
  ASSUME NEW h, Rostered(h), NEW from \in Nat, NEW to \in Nat, NEW i \in Intervals(h, from, to)
  PROVE  /\ i.from \in Nat /\ i.to \in Nat /\ from <= i.from /\ i.from < i.to /\ i.to <= to
         /\ \A u \in i.from..(i.to - 1) : u \in OpenIn(h, from, to)
<1>0. PICK v \in h, day \in Int :
        \E w \in WindowsOn(v, day) : i = Stretch(v, day, w, from, to) /\ i.from < i.to
  BY IntervalsAreStretches
<1>1. PICK w \in WindowsOn(v, day) : i = Stretch(v, day, w, from, to) /\ i.from < i.to
  BY <1>0
<1>2. Parsed(v) /\ \A x \in h : Parsed(x)
  BY DEF Rostered
<1>3. /\ i.from \in Nat /\ i.to \in Int /\ from <= i.from /\ i.to <= to
      /\ \A u \in Int : i.from <= u /\ u < i.to
                          <=> from <= u /\ u < to /\ Covers(v, day, w, u)
  BY <1>1, <1>2, StretchCovers
<1>4. ASSUME NEW u \in i.from..(i.to - 1) PROVE u \in OpenIn(h, from, to)
  <2>1. u \in Nat /\ from <= u /\ u < to /\ Covers(v, day, w, u)
    BY <1>3
  <2>2. day \in DaysAt(u)
    BY <1>2, <2>1, CoveringDays
  <2>3. DoorOpen(h, u)
    BY <1>2, <2>1, <2>2, DoorIsCover
  <2> QED BY <2>1, <2>3 DEF OpenIn
<1> QED BY <1>1, <1>3, <1>4

LEMMA OpenIsWalked ==
  ASSUME NEW h, Rostered(h), NEW from \in Nat, NEW to \in Nat, NEW u \in OpenIn(h, from, to)
  PROVE  \E i \in Intervals(h, from, to) : i.from <= u /\ u < i.to
<1>1. u \in Nat /\ u \in from..(to - 1) /\ from <= u /\ u < to /\ DoorOpen(h, u)
  BY DEF OpenIn
<1> PICK v \in h, day \in DaysAt(u) : \E w \in WindowsOn(v, day) : Covers(v, day, w, u)
  BY <1>1, DoorIsCover DEF Rostered
<1>2. PICK w \in WindowsOn(v, day) : Covers(v, day, w, u)
  OBVIOUS
<1>3. Parsed(v) /\ day \in Int
  <2>1. u \div DayLength \in Int
    BY <1>1, CalendarAssumption, DivMod
  <2> QED BY <2>1 DEF Rostered, DaysAt
<1>4. Stretch(v, day, w, from, to) \in Intervals(h, from, to)
  BY <1>1, <1>2, <1>3, CoveredIsWalked
<1>5. Stretch(v, day, w, from, to).from <= u /\ u < Stretch(v, day, w, from, to).to
  BY <1>1, <1>2, <1>3, StretchCovers
<1> QED BY <1>4, <1>5

LEMMA IntervalsApart ==
  ASSUME NEW h, Rostered(h), NEW from \in Nat, NEW to \in Nat, to <= Sight,
         NEW i \in Intervals(h, from, to), NEW j \in Intervals(h, from, to),
         NEW u \in Nat, i.from <= u, u < i.to, j.from <= u, u < j.to
  PROVE  i = j
<1> PICK v \in h, day \in Int : \E w \in WindowsOn(v, day) : i = Stretch(v, day, w, from, to)
  BY IntervalsAreStretches
<1> PICK x \in h, e \in Int : \E y \in WindowsOn(x, e) : j = Stretch(x, e, y, from, to)
  BY IntervalsAreStretches
<1>1. PICK w \in WindowsOn(v, day) : i = Stretch(v, day, w, from, to)
  OBVIOUS
<1>2. PICK y \in WindowsOn(x, e) : j = Stretch(x, e, y, from, to)
  OBVIOUS
<1>3. Parsed(v) /\ Parsed(x)
  BY DEF Rostered
<1>4. Covers(v, day, w, u) /\ u < to
  BY <1>1, <1>3, StretchCovers
<1>5. Covers(x, e, y, u)
  BY <1>2, <1>3, StretchCovers
<1>6. day \in DaysAt(u) /\ e \in DaysAt(u)
  BY <1>3, <1>4, <1>5, CoveringDays
<1>7. u \in 0..Sight
  BY <1>4, SweepAssumption, CalendarAssumption DEF Sight
<1>8. v = x /\ day = e /\ w = y
  BY <1>4, <1>5, <1>6, <1>7 DEF Rostered, OneShiftAtATime
<1> QED BY <1>1, <1>2, <1>8

LEMMA IntervalsFinite ==
  ASSUME NEW h, Rostered(h), NEW from \in Nat, NEW to \in Nat, to <= Sight
  PROVE  IsFiniteSet(Intervals(h, from, to))
<1> DEFINE I == Intervals(h, from, to)
           f == [i \in I |-> i.from]
<1>1. \A i \in I : i.from \in Nat /\ i.from \in from..to /\ i.from < i.to /\ i.to \in Nat
  <2> SUFFICES ASSUME NEW i \in I
               PROVE  i.from \in Nat /\ i.from \in from..to /\ i.from < i.to /\ i.to \in Nat
    OBVIOUS
  <2>1. /\ i.from \in Nat /\ i.to \in Nat /\ from <= i.from /\ i.from < i.to /\ i.to <= to
    BY IntervalsOpen
  <2> QED BY <2>1
<1>2. \A i, j \in I : f[i] = f[j] => i = j
  <2> SUFFICES ASSUME NEW i \in I, NEW j \in I, i.from = j.from PROVE i = j
    OBVIOUS
  <2>1. i.from \in Nat /\ i.from <= i.from /\ i.from < i.to /\ j.from <= i.from /\ i.from < j.to
    BY <1>1
  <2> QED BY <2>1, IntervalsApart
<1>3. f \in [I -> from..to]
  BY <1>1
<1> HIDE DEF f, I
<1>4. f \in Injection(I, from..to)
  BY <1>2, <1>3 DEF Injection, IsInjective
<1>5. IsFiniteSet(from..to)
  BY FS_Interval
<1> QED BY <1>4, <1>5, FS_Injection DEF I

LEMMA OpenInFinite ==
  ASSUME NEW h, NEW from \in Int, NEW to \in Int
  PROVE  IsFiniteSet(OpenIn(h, from, to)) /\ Cardinality(OpenIn(h, from, to)) \in Nat
<1>1. IsFiniteSet(from..(to - 1))
  BY FS_Interval
<1>2. OpenIn(h, from, to) \in SUBSET (from..(to - 1))
  BY DEF OpenIn
<1> QED BY <1>1, <1>2, FS_Subset, FS_CardinalityType

(* Of some of the intervals of a query, the length is the number of open instants that
   they have between them. *)
LEMMA LengthIsCount ==
  ASSUME NEW h, Rostered(h), NEW from \in Nat, NEW to \in Nat, to <= Sight,
         NEW S \in SUBSET Intervals(h, from, to)
  PROVE  Length(S) = Cardinality({u \in OpenIn(h, from, to) : \E i \in S : i.from <= u /\ u < i.to})
<1> DEFINE T == {u \in OpenIn(h, from, to) : \E i \in S : i.from <= u /\ u < i.to}
           P == InstantsOf(S)
           f == [p \in P |-> p[2]]
<1>1. \A i \in S : /\ i \in Intervals(h, from, to)
                   /\ i.from \in Nat /\ i.to \in Nat /\ i.from <= i.to
                   /\ \A u \in i.from..(i.to - 1) : u \in OpenIn(h, from, to)
  BY IntervalsOpen
<1>2. IsFiniteSet(S)
  BY IntervalsFinite, FS_Subset
<1>3. IsFiniteSet(P) /\ Length(S) = Cardinality(P)
  BY <1>1, <1>2, LengthCounts
<1>4. P = UNION {{i} \X (i.from..(i.to - 1)) : i \in S}
  BY DEF InstantsOf, Tagged
<1>5. \A p \in P : \E i \in S : p = <<i, p[2]>> /\ p[2] \in i.from..(i.to - 1)
  BY <1>4
<1>6. \A p \in P : p[2] \in T
  <2> SUFFICES ASSUME NEW p \in P PROVE p[2] \in T
    OBVIOUS
  <2>1. PICK i \in S : p[2] \in i.from..(i.to - 1)
    BY <1>5
  <2>2. p[2] \in OpenIn(h, from, to) /\ i.from <= p[2] /\ p[2] < i.to
    BY <1>1, <2>1
  <2> QED BY <2>2
<1>7. \A p, q \in P : p[2] = q[2] => p = q
  <2> SUFFICES ASSUME NEW p \in P, NEW q \in P, p[2] = q[2] PROVE p = q
    OBVIOUS
  <2>1. PICK i \in S : p = <<i, p[2]>> /\ p[2] \in i.from..(i.to - 1)
    BY <1>5
  <2>2. PICK j \in S : q = <<j, q[2]>> /\ q[2] \in j.from..(j.to - 1)
    BY <1>5
  <2>3. p[2] \in Nat /\ i.from <= p[2] /\ p[2] < i.to /\ j.from <= p[2] /\ p[2] < j.to
    BY <1>1, <2>1, <2>2
  <2>4. i = j
    BY <1>1, <2>3, IntervalsApart
  <2> QED BY <2>1, <2>2, <2>4
<1>8. \A u \in T : \E p \in P : p[2] = u
  <2> SUFFICES ASSUME NEW u \in T PROVE \E p \in P : p[2] = u
    OBVIOUS
  <2>1. PICK i \in S : i.from <= u /\ u < i.to
    OBVIOUS
  <2>2. u \in Int
    BY DEF OpenIn
  <2>3. u \in i.from..(i.to - 1)
    BY <1>1, <2>1, <2>2
  <2>4. <<i, u>> \in P
    BY <1>4, <2>3
  <2> QED BY <2>4
<1> HIDE DEF T, P
<1>9. f \in Bijection(P, T)
  BY <1>6, <1>7, <1>8 DEF Bijection, Injection, IsInjective, Surjection
<1>10. ExistsBijection(P, T)
  BY <1>9 DEF ExistsBijection
<1> QED BY <1>3, <1>10, FS_Bijection DEF T

(* Elapsed working time is the number of instants at which the door was open. *)
LEMMA ElapsedIsCount ==
  ASSUME NEW h, Rostered(h), NEW from \in Nat, NEW to \in Nat, to <= Sight
  PROVE  ElapsedWorking(h, from, to) = Cardinality(OpenIn(h, from, to))
<1>1. ElapsedWorking(h, from, to)
        = Cardinality({u \in OpenIn(h, from, to) :
                         \E i \in Intervals(h, from, to) : i.from <= u /\ u < i.to})
  BY LengthIsCount DEF ElapsedWorking
<1>2. {u \in OpenIn(h, from, to) : \E i \in Intervals(h, from, to) : i.from <= u /\ u < i.to}
        = OpenIn(h, from, to)
  BY OpenIsWalked
<1> QED BY <1>1, <1>2

-----------------------------------------------------------------------------
(* What a search forward finds. *)

LEMMA SearchBounds ==
  ASSUME NEW from \in Nat, from <= Horizon + Lookahead
  PROVE  /\ from + Lookahead \in Nat /\ from < from + Lookahead /\ from + Lookahead <= Sight
         /\ Lookahead \in Nat \ {0} /\ Horizon \in Nat \ {0} /\ Never \in Nat /\ Horizon < Never
  BY SweepAssumption, CalendarAssumption DEF Sight

(* The next opening is the first instant ahead at which the door is open. *)
LEMMA NextOpeningIsFirst ==
  ASSUME NEW h, Rostered(h), NEW t \in Nat, t <= Horizon + Lookahead
  PROVE  /\ OpenIn(h, t, t + Lookahead) = {} => NextOpening(h, t) = Never
         /\ OpenIn(h, t, t + Lookahead) # {} =>
              /\ NextOpening(h, t) \in OpenIn(h, t, t + Lookahead)
              /\ \A u \in OpenIn(h, t, t + Lookahead) : NextOpening(h, t) <= u
<1> DEFINE to == t + Lookahead
           all == Intervals(h, t, to)
           starts == {i.from : i \in all}
<1>1. to \in Nat
  BY SearchBounds
<1>2. \A i \in all : i.from \in Nat /\ i.from \in OpenIn(h, t, to)
  <2> SUFFICES ASSUME NEW i \in all PROVE i.from \in Nat /\ i.from \in OpenIn(h, t, to)
    OBVIOUS
  <2>1. /\ i.from \in Nat /\ i.to \in Nat /\ i.from < i.to
        /\ \A u \in i.from..(i.to - 1) : u \in OpenIn(h, t, to)
    BY <1>1, IntervalsOpen
  <2>2. i.from \in i.from..(i.to - 1)
    BY <2>1
  <2> QED BY <2>1, <2>2
<1>3. \A u \in OpenIn(h, t, to) : \E i \in all : i.from <= u
  <2> HIDE DEF to
  <2> QED BY <1>1, OpenIsWalked
<1>4. starts \in SUBSET Nat
  BY <1>2
<1>5. NextOpening(h, t) = IF starts = {} THEN Never ELSE Min(starts)
  BY DEF NextOpening
<1> HIDE DEF to, all
<1>6. CASE starts = {}
  <2>1. OpenIn(h, t, to) = {} /\ NextOpening(h, t) = Never
    BY <1>3, <1>5, <1>6
  <2> QED BY <2>1 DEF to
<1>7. CASE starts # {}
  <2>1. \E x \in starts : \A y \in starts : x <= y
    <3> HIDE DEF starts
    <3> QED BY <1>4, <1>7, LeastExists
  <2>2. Min(starts) \in starts /\ \A y \in starts : Min(starts) <= y
    BY <2>1 DEF Min
  <2>3. Min(starts) \in OpenIn(h, t, to)
    BY <1>2, <2>2
  <2>4. \A u \in OpenIn(h, t, to) : Min(starts) <= u
    <3> SUFFICES ASSUME NEW u \in OpenIn(h, t, to) PROVE Min(starts) <= u
      OBVIOUS
    <3>1. PICK i \in all : i.from <= u
      BY <1>3
    <3>2. Min(starts) <= i.from
      BY <2>2
    <3>3. u \in Int /\ i.from \in Nat /\ Min(starts) \in Nat
      BY <1>2, <1>4, <2>2 DEF OpenIn
    <3> QED BY <3>1, <3>2, <3>3
  <2>5. NextOpening(h, t) = Min(starts)
    BY <1>5, <1>7
  <2>6. OpenIn(h, t, to) # {}
    BY <2>3
  <2> HIDE DEF starts
  <2>7. NextOpening(h, t) \in OpenIn(h, t, to) /\ \A u \in OpenIn(h, t, to) : NextOpening(h, t) <= u
    BY <2>3, <2>4, <2>5
  <2> QED BY <2>6, <2>7 DEF to
<1> HIDE DEF starts
<1> QED BY <1>6, <1>7

(* How many instants of [from, to) the door is open. *)
OpenFor(h, from, to) == Cardinality(OpenIn(h, from, to))

LEMMA OpenForGrows ==
  ASSUME NEW h, NEW from \in Nat, NEW a \in Nat, NEW b \in Nat, a <= b
  PROVE  /\ OpenFor(h, from, a) \in Nat /\ OpenFor(h, from, b) \in Nat
         /\ OpenFor(h, from, a) <= OpenFor(h, from, b)
<1>1. IsFiniteSet(OpenIn(h, from, b)) /\ OpenFor(h, from, b) \in Nat /\ OpenFor(h, from, a) \in Nat
  BY OpenInFinite DEF OpenFor
<1>2. OpenIn(h, from, a) \in SUBSET OpenIn(h, from, b)
  BY DEF OpenIn
<1> QED BY <1>1, <1>2, FS_Subset DEF OpenFor

LEMMA OpenForStarts ==
  ASSUME NEW h, NEW from \in Nat PROVE OpenFor(h, from, from) = 0
<1>1. OpenIn(h, from, from) = {}
  BY DEF OpenIn
<1> QED BY <1>1, FS_EmptySet DEF OpenFor

LEMMA OpenForStep ==
  ASSUME NEW h, NEW from \in Nat, NEW u \in Nat, from <= u
  PROVE  OpenFor(h, from, u + 1) = OpenFor(h, from, u) + (IF DoorOpen(h, u) THEN 1 ELSE 0)
<1>1. IsFiniteSet(OpenIn(h, from, u)) /\ OpenFor(h, from, u) \in Nat
  BY OpenInFinite DEF OpenFor
<1>2. u \notin OpenIn(h, from, u)
  BY DEF OpenIn
<1>3. CASE DoorOpen(h, u)
  <2>1. OpenIn(h, from, u + 1) = OpenIn(h, from, u) \cup {u}
    BY <1>3 DEF OpenIn
  <2> QED BY <1>1, <1>2, <1>3, <2>1, FS_AddElement DEF OpenFor
<1>4. CASE ~DoorOpen(h, u)
  <2>1. OpenIn(h, from, u + 1) = OpenIn(h, from, u)
    BY <1>4 DEF OpenIn
  <2> QED BY <1>1, <1>4, <2>1 DEF OpenFor
<1> QED BY <1>3, <1>4

(* A query adds an interval that is wholly open. *)
LEMMA OpenForInterval ==
  ASSUME NEW h, NEW from \in Nat, NEW a \in Nat, NEW b \in Nat, from <= a, a <= b,
         \A u \in a..(b - 1) : DoorOpen(h, u)
  PROVE  OpenFor(h, from, b) = OpenFor(h, from, a) + (b - a)
<1>1. IsFiniteSet(OpenIn(h, from, a)) /\ OpenFor(h, from, a) \in Nat
  BY OpenInFinite DEF OpenFor
<1>2. IsFiniteSet(a..(b - 1)) /\ Cardinality(a..(b - 1)) = b - a
  <2>1. a \in Int /\ b - 1 \in Int
    OBVIOUS
  <2>2. /\ IsFiniteSet(a..(b - 1))
        /\ Cardinality(a..(b - 1)) = IF a > b - 1 THEN 0 ELSE (b - 1) - a + 1
    BY <2>1, FS_Interval
  <2> QED BY <2>2
<1>3. OpenIn(h, from, b) = OpenIn(h, from, a) \cup a..(b - 1)
  <2>1. \A u : u \in from..(b - 1) <=> u \in from..(a - 1) \/ u \in a..(b - 1)
    OBVIOUS
  <2> QED BY <2>1 DEF OpenIn
<1>4. OpenIn(h, from, a) \cap a..(b - 1) = {}
  BY DEF OpenIn
<1>5. Cardinality(OpenIn(h, from, a) \cup a..(b - 1))
        = Cardinality(OpenIn(h, from, a)) + Cardinality(a..(b - 1)) - Cardinality({})
  <2> DEFINE A == OpenIn(h, from, a)
             B == a..(b - 1)
  <2>1. IsFiniteSet(A) /\ IsFiniteSet(B) /\ A \cap B = {}
    BY <1>1, <1>2, <1>4
  <2> HIDE DEF A, B
  <2>2. Cardinality(A \cup B) = Cardinality(A) + Cardinality(B) - Cardinality({})
    BY <2>1, FS_Union
  <2> QED BY <2>2 DEF A, B
<1> QED BY <1>1, <1>2, <1>3, <1>5, FS_EmptySet DEF OpenFor

(* The intervals before one of a walk add up to the open instants before it. *)
LEMMA BeforeIsOpenFor ==
  ASSUME NEW h, Rostered(h), NEW from \in Nat, NEW to \in Nat, to <= Sight,
         NEW i \in Intervals(h, from, to)
  PROVE  /\ Length({j \in Intervals(h, from, to) : j.from < i.from}) = OpenFor(h, from, i.from)
         /\ OpenFor(h, from, i.to) = OpenFor(h, from, i.from) + (i.to - i.from)
<1> DEFINE all == Intervals(h, from, to)
           S == {j \in all : j.from < i.from}
<1>1. \A j \in all : /\ j.from \in Nat /\ j.to \in Nat /\ from <= j.from /\ j.from < j.to /\ j.to <= to
                     /\ \A u \in j.from..(j.to - 1) : u \in OpenIn(h, from, to)
  BY IntervalsOpen
<1>2. Length(S) = Cardinality({u \in OpenIn(h, from, to) : \E j \in S : j.from <= u /\ u < j.to})
  <2>1. S \in SUBSET Intervals(h, from, to)
    OBVIOUS
  <2> HIDE DEF S
  <2> QED BY <2>1, LengthIsCount
<1>3. ASSUME NEW u \in OpenIn(h, from, to), NEW j \in S, j.from <= u, u < j.to
      PROVE  u \in OpenIn(h, from, i.from)
  <2>0. u \in Nat /\ j \in all /\ j.from < i.from
    BY DEF OpenIn
  <2>1. u < i.from
    <3> SUFFICES ASSUME i.from <= u PROVE FALSE
      BY <1>1, <2>0
    <3>1. /\ i.from \in Nat /\ j.from <= i.from /\ i.from < j.to /\ i.from <= i.from /\ i.from < i.to
      BY <1>1, <1>3, <2>0
    <3>2. i = j
      BY <2>0, <3>1, IntervalsApart
    <3> QED BY <2>0, <3>1, <3>2
  <2> QED BY <1>1, <2>0, <2>1 DEF OpenIn
<1>4. ASSUME NEW u \in OpenIn(h, from, i.from)
      PROVE  u \in OpenIn(h, from, to) /\ \E j \in S : j.from <= u /\ u < j.to
  <2>1. u \in Nat /\ u < i.from /\ u \in OpenIn(h, from, to)
    BY <1>1 DEF OpenIn
  <2>2. PICK j \in all : j.from <= u /\ u < j.to
    BY <2>1, OpenIsWalked
  <2>3. j \in S
    BY <1>1, <2>1, <2>2
  <2> QED BY <2>1, <2>2, <2>3
<1>5. {u \in OpenIn(h, from, to) : \E j \in S : j.from <= u /\ u < j.to} = OpenIn(h, from, i.from)
  <2> HIDE DEF S
  <2> QED BY <1>3, <1>4
<1>6. Length(S) = OpenFor(h, from, i.from)
  BY <1>2, <1>5 DEF OpenFor
<1>7. OpenFor(h, from, i.to) = OpenFor(h, from, i.from) + (i.to - i.from)
  <2>1. /\ i.from \in Nat /\ i.to \in Nat /\ from <= i.from /\ i.from <= i.to
        /\ \A u \in i.from..(i.to - 1) : DoorOpen(h, u)
    BY <1>1 DEF OpenIn
  <2> DEFINE a == i.from
             b == i.to
  <2>2. a \in Nat /\ b \in Nat /\ from <= a /\ a <= b /\ \A u \in a..(b - 1) : DoorOpen(h, u)
    BY <2>1
  <2> HIDE DEF a, b
  <2>3. OpenFor(h, from, b) = OpenFor(h, from, a) + (b - a)
    BY <2>2, OpenForInterval
  <2> QED BY <2>3 DEF a, b
<1> QED BY <1>6, <1>7

(* The instant after so much working time is the first by which the door has been open for
   so long. *)
LEMMA InstantAfterIsFirst ==
  ASSUME NEW h, Rostered(h), NEW from \in Nat, from <= Horizon + Lookahead,
         NEW s \in Nat \ {0}
  PROVE  \/ /\ InstantAfter(h, from, s) = Never
            /\ \A e \in from..(from + Lookahead) : OpenFor(h, from, e) < s
         \/ /\ InstantAfter(h, from, s) \in from..(from + Lookahead)
            /\ OpenFor(h, from, InstantAfter(h, from, s)) >= s
            /\ \A e \in from..(from + Lookahead) :
                 OpenFor(h, from, e) >= s => InstantAfter(h, from, s) <= e
<1> DEFINE to == from + Lookahead
           all == Intervals(h, from, to)
           N(e) == OpenFor(h, from, e)
           before(i) == Length({j \in all : j.from < i.from})
           ends == {i \in all : Reached(before(i) + (i.to - i.from), s)}
           late == {e \in from..to : N(e) >= s}
<1>1. to \in Nat /\ to <= Sight /\ from < to
  BY SearchBounds
<1>2. /\ \A i \in all : /\ i.from \in Nat /\ i.to \in Nat
                        /\ from <= i.from /\ i.from < i.to /\ i.to <= to
                        /\ \A u \in i.from..(i.to - 1) : u \in OpenIn(h, from, to)
  <2> HIDE DEF to
  <2> QED BY <1>1, IntervalsOpen
<1>3. \A i \in all : before(i) = N(i.from) /\ N(i.to) = N(i.from) + (i.to - i.from)
  <2> HIDE DEF to
  <2> QED BY <1>1, BeforeIsOpenFor
<1>4. \A a, b \in Nat : a <= b => N(a) \in Nat /\ N(b) \in Nat /\ N(a) <= N(b)
  BY OpenForGrows
<1>5. InstantAfter(h, from, s)
        = IF ends = {} THEN Never
          ELSE LET i == CHOOSE x \in ends : \A y \in ends : x.from <= y.from
               IN i.from + (s - before(i))
  BY DEF InstantAfter
<1> HIDE DEF to, N, before, all
<1>6. ends = {i \in all : N(i.to) >= s}
  BY <1>2, <1>3, <1>4 DEF Reached
<1> HIDE DEF ends
<1>7. CASE late = {}
  <2>1. ends = {}
    <3> SUFFICES ASSUME NEW i \in ends PROVE FALSE
      OBVIOUS
    <3>1. i \in all /\ N(i.to) >= s
      BY <1>6
    <3>2. i.to \in from..to
      BY <1>1, <1>2, <3>1
    <3> QED BY <1>7, <3>1, <3>2
  <2>2. \A e \in from..to : N(e) < s
    <3>1. \A e \in from..to : N(e) \in Nat
      BY <1>4
    <3> QED BY <1>7, <3>1
  <2> QED BY <1>5, <2>1, <2>2 DEF to, N
<1>8. CASE late # {}
  <2>1. PICK e \in late : \A d \in late : e <= d
    <3>1. late \in SUBSET Nat
      BY <1>1
    <3> HIDE DEF late
    <3> QED BY <1>8, <3>1, LeastExists
  <2>2. e \in Nat /\ from <= e /\ e <= to /\ N(e) >= s /\ N(e) \in Nat
    BY <1>1, <1>4, <2>1
  <2>3. from < e
    <3>1. N(from) = 0
      BY OpenForStarts DEF N
    <3> QED BY <2>2, <3>1
  <2> DEFINE u == e - 1
  <2>4. u \in Nat /\ from <= u /\ u + 1 = e /\ u \in from..to /\ N(u) \in Nat /\ N(u) < s
    <3>1. u \in Nat /\ from <= u /\ u + 1 = e /\ u < e /\ u \in from..to
      BY <1>1, <2>2, <2>3
    <3>2. N(u) \in Nat
      BY <1>4, <3>1
    <3>3. u \notin late
      <4> HIDE DEF u
      <4> QED BY <2>1, <2>2, <3>1
    <3> QED BY <3>1, <3>2, <3>3
  <2> HIDE DEF u
  <2>5. N(e) = N(u) + (IF DoorOpen(h, u) THEN 1 ELSE 0)
    BY <2>4, OpenForStep DEF N
  <2>6. DoorOpen(h, u) /\ N(e) = s
    BY <2>2, <2>4, <2>5
  <2>7. u \in OpenIn(h, from, to)
    BY <1>1, <2>2, <2>4, <2>6 DEF OpenIn
  <2>8. PICK j \in all : j.from <= u /\ u < j.to
    BY <1>1, <2>7, OpenIsWalked DEF all
  <2>9. j \in ends
    <3>1. e <= j.to /\ j.to \in Nat
      BY <1>2, <2>4, <2>8
    <3>2. N(e) <= N(j.to) /\ N(j.to) \in Nat
      BY <1>4, <2>2, <3>1
    <3> QED BY <1>6, <2>6, <3>2
  <2>10. ASSUME NEW k \in ends PROVE j.from <= k.from /\ (k.from <= j.from => k = j)
    <3>1. k \in all /\ N(k.to) >= s
      BY <1>6
    <3>2. /\ k.from \in Nat /\ k.to \in Nat /\ k.from < k.to /\ from <= k.from /\ k.to <= to
          /\ j.from \in Nat /\ j.to \in Nat /\ j.from < j.to
      BY <1>2, <3>1
    <3>3. k.to \in late
      BY <1>1, <3>1, <3>2
    <3>4. e <= k.to
      BY <2>1, <3>3
    <3>5. k.from <= j.from => k = j
      <4> SUFFICES ASSUME k.from <= j.from PROVE k = j
        OBVIOUS
      <4>1. j.from < k.to
        BY <2>4, <2>8, <3>2, <3>4
      <4>2. k.from <= j.from /\ j.from <= j.from /\ j.from < j.to
        BY <3>2
      <4> QED BY <1>1, <3>1, <3>2, <4>1, <4>2, IntervalsApart DEF all
    <3> QED BY <3>2, <3>5
  <2> DEFINE first == CHOOSE x \in ends : \A y \in ends : x.from <= y.from
  <2>11. first \in ends /\ \A y \in ends : first.from <= y.from
    BY <2>9, <2>10
  <2> HIDE DEF first
  <2>12. first = j
    BY <2>9, <2>10, <2>11
  <2>13. InstantAfter(h, from, s) = j.from + (s - N(j.from))
    <3>1. ends # {}
      BY <2>9
    <3>2. before(j) = N(j.from)
      BY <1>3
    <3> QED BY <1>5, <2>12, <3>1, <3>2 DEF first
  <2>14. N(e) = N(j.from) + (e - j.from)
    <3>1. /\ j.from \in Nat /\ from <= j.from /\ j.from <= e /\ j.to \in Nat /\ e <= j.to
          /\ \A x \in j.from..(j.to - 1) : x \in OpenIn(h, from, to)
      BY <1>2, <2>4, <2>8
    <3>2. \A x \in j.from..(e - 1) : DoorOpen(h, x)
      <4>1. \A x \in j.from..(e - 1) : x \in j.from..(j.to - 1)
        BY <2>2, <3>1
      <4> QED BY <3>1, <4>1 DEF OpenIn
    <3> QED BY <2>2, <3>1, <3>2, OpenForInterval DEF N
  <2>15. InstantAfter(h, from, s) = e
    <3>1. j.from \in Nat /\ N(j.from) \in Nat
      BY <1>2, <1>4
    <3> QED BY <2>2, <2>6, <2>13, <2>14, <3>1
  <2>16. e \in from..to /\ \A d \in from..to : N(d) >= s => e <= d
    BY <2>1
  <2> QED BY <2>2, <2>15, <2>16 DEF to, N
<1> QED BY <1>7, <1>8

-----------------------------------------------------------------------------
(* The clock of a case. *)

(* What sla_targets holds. *)
IsPromise(t) ==
  /\ t.clock \in Clocks /\ t.basis \in {"BUSINESS_HOURS", "CALENDAR_24X7"}
  /\ t.seconds \in Nat \ {0}

(* The instants of [from, to) that a clock on a basis counts. *)
Counted(basis, h, from, to) ==
  {u \in from..(to - 1) : basis = "BUSINESS_HOURS" => DoorOpen(h, u)}

LEMMA OnBasisCounts ==
  ASSUME NEW h, Rostered(h), NEW basis \in {"BUSINESS_HOURS", "CALENDAR_24X7"},
         NEW from \in Nat, NEW to \in Nat, to <= Sight
  PROVE  /\ IsFiniteSet(Counted(basis, h, from, to))
         /\ OnBasis(basis, h, from, to) = Cardinality(Counted(basis, h, from, to))
         /\ OnBasis(basis, h, from, to) \in Nat
<1>1. from..(to - 1) \in SUBSET Int /\ IsFiniteSet(from..(to - 1))
      /\ Cardinality(from..(to - 1)) = IF from > to - 1 THEN 0 ELSE (to - 1) - from + 1
  <2>1. to - 1 \in Int /\ from \in Int
    OBVIOUS
  <2> QED BY <2>1, FS_Interval
<1>2. IsFiniteSet(Counted(basis, h, from, to)) /\ Cardinality(Counted(basis, h, from, to)) \in Nat
  <2>1. Counted(basis, h, from, to) \in SUBSET (from..(to - 1))
    BY DEF Counted
  <2> QED BY <1>1, <2>1, FS_Subset, FS_CardinalityType
<1>3. CASE from >= to
  <2>1. Counted(basis, h, from, to) = {}
    BY <1>3 DEF Counted
  <2> QED BY <1>2, <1>3, <2>1, FS_EmptySet DEF OnBasis
<1>4. CASE from < to /\ basis = "CALENDAR_24X7"
  <2>1. Counted(basis, h, from, to) = from..(to - 1)
    BY <1>4 DEF Counted
  <2> QED BY <1>1, <1>2, <1>4, <2>1 DEF OnBasis
<1>5. CASE from < to /\ basis = "BUSINESS_HOURS"
  <2>1. Counted(basis, h, from, to) = OpenIn(h, from, to)
    BY <1>5 DEF Counted, OpenIn
  <2> QED BY <1>2, <1>5, <2>1, ElapsedIsCount DEF OnBasis
<1> QED BY <1>3, <1>4, <1>5

(* How long each pause of a clock lasts, and that they are added up. *)
PauseTimes(t, h, W, start, end) ==
  [p \in W |-> OnBasis(t.basis, h, Later(p.from, start), Earlier(p.to, end))]

(* What the fold over the pauses adds up, set by set. *)
PauseSum(t, h, W, start, end) ==
  CHOOSE f : f = [s \in SUBSET W |->
    IF s = {} THEN 0
    ELSE OnBasis(t.basis, h, Later(Pick(s).from, start), Earlier(Pick(s).to, end))
         + f[s \ {Pick(s)}]]

LEMMA PausedIsSum ==
  ASSUME NEW t, t.clock = "RESOLUTION", NEW h, NEW W, IsFiniteSet(W), NEW start, NEW end
  PROVE  /\ IsSum(PauseSum(t, h, W, start, end), PauseTimes(t, h, W, start, end), SUBSET W)
         /\ Paused(t, h, W, start, end) = PauseSum(t, h, W, start, end)[W]
<1> DEFINE pause(p) == OnBasis(t.basis, h, Later(p.from, start), Earlier(p.to, end))
           g == [p \in W |-> pause(p)]
           F == CHOOSE f : f = [s \in SUBSET W |->
                  IF s = {} THEN 0 ELSE pause(Pick(s)) + f[s \ {Pick(s)}]]
<1>1. Paused(t, h, W, start, end) = F[W]
  BY DEF Paused, MapThenSumSet, MapThenFoldSet, Pick
<1>2. PICK f : IsSum(f, g, SUBSET W)
  BY SumsExist
<1> HIDE DEF pause
<1>3. \A s \in SUBSET W : s # {} => g[Pick(s)] = pause(Pick(s))
  BY PickIn
<1>4. \A e : IsSum(e, g, SUBSET W) <=>
              e = [s \in SUBSET W |-> IF s = {} THEN 0 ELSE pause(Pick(s)) + e[s \ {Pick(s)}]]
  <2> HIDE DEF g
  <2> QED BY <1>3 DEF IsSum
<1>5. IsSum(F, g, SUBSET W)
  <2> HIDE DEF g
  <2> QED BY <1>2, <1>4
<1>6. F = PauseSum(t, h, W, start, end)
  BY DEF pause, PauseSum
<1> HIDE DEF F, g
<1>7. g = PauseTimes(t, h, W, start, end)
  BY DEF g, pause, PauseTimes
<1> QED BY <1>1, <1>5, <1>6, <1>7

LEMMA NoPauses ==
  ASSUME NEW t, NEW h, NEW start, NEW end PROVE Paused(t, h, {}, start, end) = 0
<1>1. CASE t.clock # "RESOLUTION"
  BY <1>1 DEF Paused
<1>2. CASE t.clock = "RESOLUTION"
  <2>1. IsFiniteSet({})
    BY FS_EmptySet
  <2>2. /\ IsSum(PauseSum(t, h, {}, start, end), PauseTimes(t, h, {}, start, end), SUBSET {})
        /\ Paused(t, h, {}, start, end) = PauseSum(t, h, {}, start, end)[{}]
    BY <1>2, <2>1, PausedIsSum
  <2>3. PauseSum(t, h, {}, start, end)[{}] = 0
    BY <2>2 DEF IsSum
  <2> QED BY <2>2, <2>3
<1> QED BY <1>1, <1>2

-----------------------------------------------------------------------------
(* The theorems about the clock: for calendars that read well, and while no case is older
   than a search ahead reaches. *)

LEMMA ClockAgrees ==
  ASSUME \A h \in Histories : Rostered(h), Horizon < Lookahead, Inv, Settings
  PROVE  ClockAgreesWithTheDoor
<1>1. now \in Nat /\ now <= Horizon /\ Rostered(history)
  BY SweepAssumption DEF Inv, FactsOK, Instants, Settings
<1> SUFFICES ASSUME NEW t \in 0..now
             PROVE  /\ ElapsedWorking(history, t, now)
                         = Cardinality({u \in t..(now - 1) : DoorOpen(history, u)})
                    /\ (\E u \in t..now : DoorOpen(history, u)) =>
                         NextOpening(history, t) = Min({u \in t..now : DoorOpen(history, u)})
  BY DEF ClockAgreesWithTheDoor
<1>2. t \in Nat /\ t <= now /\ t <= Horizon + Lookahead
  BY <1>1, SweepAssumption, CalendarAssumption
<1>3. now <= Sight /\ now < t + Lookahead /\ Lookahead \in Nat
  BY <1>1, <1>2, SweepAssumption, CalendarAssumption DEF Sight
<1>4. ElapsedWorking(history, t, now) = Cardinality({u \in t..(now - 1) : DoorOpen(history, u)})
  BY <1>1, <1>2, <1>3, ElapsedIsCount DEF OpenIn
<1>5. ASSUME NEW u \in t..now, DoorOpen(history, u)
      PROVE  NextOpening(history, t) = Min({x \in t..now : DoorOpen(history, x)})
  <2> DEFINE open == {x \in t..now : DoorOpen(history, x)}
             next == NextOpening(history, t)
             ahead == OpenIn(history, t, t + Lookahead)
  <2>1. \A x \in open : x \in ahead
    <3>1. \A x \in t..now : x \in t..((t + Lookahead) - 1)
      BY <1>1, <1>2, <1>3
    <3> QED BY <3>1 DEF OpenIn
  <2>2. u \in open
    BY <1>5
  <2>3. next \in ahead /\ \A x \in ahead : next <= x
    BY <1>1, <1>2, <2>1, <2>2, NextOpeningIsFirst
  <2>4. next \in open
    BY <1>1, <1>2, <1>3, <2>1, <2>2, <2>3 DEF OpenIn
  <2>5. \A x \in open : next <= x
    BY <2>1, <2>3
  <2>6. open \in SUBSET Nat
    BY <1>1, <1>2
  <2> HIDE DEF open, next
  <2>7. Min(open) \in open /\ \A x \in open : Min(open) <= x
    BY <2>4, <2>5 DEF Min
  <2>8. Min(open) \in Nat /\ next \in Nat /\ Min(open) <= next /\ next <= Min(open)
    BY <2>4, <2>5, <2>6, <2>7
  <2> QED BY <2>8 DEF open, next
<1> QED BY <1>4, <1>5

(* Elapsed working time is the number of instants at which the door was open, and the next
   opening is the first of them: the walk over days, versions and shifts of clock.ts and
   the sign on the door of calendar.ts are the same calendar. *)
THEOREM ClockKeepsTheDoor ==
  ASSUME \A h \in Histories : Rostered(h), Horizon < Lookahead
  PROVE  Spec => []ClockAgreesWithTheDoor
<1>1. Inv /\ Settings => ClockAgreesWithTheDoor
  BY ClockAgrees
<1> QED BY <1>1, InvAlways, SettingsAlways, PTL

(* A clock that is not paused is over exactly from the instant of its breach on. *)
LEMMA BreachHasItsInstant ==
  ASSUME NEW h, Rostered(h), NEW t, IsPromise(t), NEW start \in Nat, start <= Horizon + Lookahead,
         NEW end \in Nat, end <= Horizon, Horizon < Lookahead,
         NEW at, at = IF t.basis = "CALENDAR_24X7" THEN start + t.seconds
                      ELSE InstantAfter(h, start, t.seconds)
  PROVE  OnBasis(t.basis, h, start, end) >= t.seconds <=> at <= end
<1>1. /\ t.seconds \in Nat \ {0} /\ t.basis \in {"BUSINESS_HOURS", "CALENDAR_24X7"}
      /\ end <= Sight /\ Horizon \in Nat /\ Lookahead \in Nat /\ Never \in Nat /\ Horizon < Never
  BY SweepAssumption, CalendarAssumption DEF IsPromise, Sight
<1>2. CASE t.basis = "CALENDAR_24X7"
  BY <1>1, <1>2 DEF OnBasis
<1>3. CASE t.basis = "BUSINESS_HOURS"
  <2>1. at = InstantAfter(h, start, t.seconds)
    BY <1>3
  <2>2. \/ /\ at = Never
           /\ \A e \in start..(start + Lookahead) : OpenFor(h, start, e) < t.seconds
        \/ /\ at \in start..(start + Lookahead)
           /\ OpenFor(h, start, at) >= t.seconds
           /\ \A e \in start..(start + Lookahead) : OpenFor(h, start, e) >= t.seconds => at <= e
    BY <1>1, <2>1, InstantAfterIsFirst
  <2>3. CASE start >= end
    <3>1. OnBasis(t.basis, h, start, end) = 0
      BY <2>3 DEF OnBasis
    <3>2. OpenFor(h, start, start) = 0
      BY OpenForStarts
    <3>3. ~(at <= end)
      BY <1>1, <2>2, <2>3, <3>2
    <3> QED BY <1>1, <3>1, <3>3
  <2>4. CASE start < end
    <3>1. OnBasis(t.basis, h, start, end) = OpenFor(h, start, end)
      BY <1>1, <1>3, <2>4, ElapsedIsCount DEF OnBasis, OpenFor
    <3>2. end \in start..(start + Lookahead)
      BY <1>1, <2>4
    <3>3. at \in Nat
      BY <1>1, <2>2
    <3>4. at <= end /\ at >= start =>
            OpenFor(h, start, at) <= OpenFor(h, start, end)
      BY <3>3, OpenForGrows
    <3>5. OpenFor(h, start, end) \in Nat /\ OpenFor(h, start, at) \in Nat
      BY <3>3, OpenForGrows
    <3>6. at = Never => ~(at <= end)
      BY <1>1
    <3> QED BY <1>1, <2>2, <3>1, <3>2, <3>3, <3>4, <3>5, <3>6
  <2> QED BY <2>3, <2>4
<1> QED BY <1>1, <1>2, <1>3

(* Where the clock of a case starts: at its arrival, or at the first opening after it. *)
LEMMA StartIsAhead ==
  ASSUME \A h \in Histories : Rostered(h), Inv, Settings, NEW c \in Cases,
         facts[c].arrived # Never, StartOf(facts[c]) # Never
  PROVE  /\ facts[c].arrived \in 0..now /\ StartOf(facts[c]) \in Nat
         /\ facts[c].arrived <= StartOf(facts[c]) /\ StartOf(facts[c]) <= Horizon + Lookahead
         /\ \A u \in Nat : u <= Horizon /\ Horizon < Lookahead /\ facts[c].arrived <= u =>
              (StartOf(facts[c]) <= u <=>
                (facts[c].afterHours => \E o \in facts[c].arrived..u : DoorOpen(history, o)))
<1> DEFINE f == facts[c]
           ahead == OpenIn(history, f.arrived, f.arrived + Lookahead)
<1>1. f.arrived \in 0..now /\ now <= Horizon /\ now \in Nat /\ f.afterHours \in BOOLEAN
  BY SweepAssumption DEF Inv, FactsOK, Instants
<1>2. f.arrived \in Nat /\ f.arrived <= Horizon + Lookahead /\ Lookahead \in Nat /\ Horizon \in Nat
  BY <1>1, SweepAssumption, CalendarAssumption
<1> HIDE DEF f
<1>3. CASE ~f.afterHours
  <2>1. StartOf(f) = f.arrived
    BY <1>3 DEF StartOf
  <2> QED BY <1>1, <1>2, <1>3, <2>1 DEF f
<1>4. CASE f.afterHours
  <2>1. StartOf(f) = NextOpening(history, f.arrived) /\ StartOf(f) # Never
    BY <1>4 DEF StartOf, f
  <2>2. Rostered(history)
    BY DEF Settings
  <2>3. StartOf(f) \in ahead /\ \A u \in ahead : StartOf(f) <= u
    BY <1>2, <2>1, <2>2, NextOpeningIsFirst
  <2>4. /\ StartOf(f) \in Nat /\ f.arrived <= StartOf(f) /\ StartOf(f) < f.arrived + Lookahead
        /\ DoorOpen(history, StartOf(f))
    BY <1>2, <2>3 DEF OpenIn
  <2>5. ASSUME NEW u \in Nat, u <= Horizon, Horizon < Lookahead, f.arrived <= u
        PROVE  StartOf(f) <= u <=> \E o \in f.arrived..u : DoorOpen(history, o)
    <3>1. ASSUME NEW o \in f.arrived..u, DoorOpen(history, o) PROVE StartOf(f) <= u
      <4>1. o \in ahead
        BY <1>2, <2>5, <3>1 DEF OpenIn
      <4> QED BY <1>2, <2>3, <2>4, <4>1
    <3>2. ASSUME StartOf(f) <= u PROVE \E o \in f.arrived..u : DoorOpen(history, o)
      BY <1>2, <2>4, <3>2
    <3> QED BY <3>1, <3>2
  <2>6. StartOf(f) <= Horizon + Lookahead
    BY <1>1, <1>2, <2>4
  <2> QED BY <1>1, <1>4, <2>4, <2>5, <2>6 DEF f
<1> QED BY <1>1, <1>3, <1>4

LEMMA BreachAgrees ==
  ASSUME \A h \in Histories : Rostered(h), \A P \in Promises : \A t \in P : IsPromise(t),
         Horizon < Lookahead, Inv, Settings
  PROVE  BreachInstantAgrees
<1> SUFFICES ASSUME NEW c \in Cases, NEW t \in targets, Open(c), facts[c].waits = {}
             PROVE  LET st == StateOf(facts[c], t, now)
                    IN  /\ (st.status \in {"BREACHED", "MISSED"}) => (st.breachAt <= now)
                        /\ (st.status \in {"RUNNING", "WARNING"}) => (st.breachAt > now)
  BY Zenon DEF BreachInstantAgrees
<1> DEFINE f == facts[c]
           start == StartOf(f)
           stop == IF t.clock = "FIRST_RESPONSE" THEN f.replied ELSE f.resolved
           end == IF stop # Never THEN stop ELSE now
           spent == OnBasis(t.basis, history, start, end)
           at == IF t.basis = "CALENDAR_24X7" THEN start + t.seconds
                 ELSE InstantAfter(history, start, t.seconds)
           st == StateOf(f, t, now)
<1>1. /\ now \in Nat /\ now <= Horizon /\ Rostered(history) /\ IsPromise(t)
      /\ t.seconds \in Nat \ {0} /\ t.basis \in {"BUSINESS_HOURS", "CALENDAR_24X7"}
      /\ f.arrived # Never /\ f.waits = {}
  BY SweepAssumption DEF Inv, FactsOK, Instants, Settings, IsPromise, Open
<1>2. end \in Nat /\ end <= now
  BY <1>1 DEF Inv, FactsOK
<1>3. st = SlaState(t, history, start, stop, {}, now)
  BY <1>1 DEF StateOf
<1> HIDE DEF f, start, stop, st
<1>4. CASE start = Never
  <2>1. st.status = "NOT_STARTED"
    BY <1>3, <1>4 DEF SlaState
  <2> QED BY <2>1 DEF st, f
<1>5. CASE start # Never
  <2>1. start \in Nat /\ start <= Horizon + Lookahead
    BY <1>1, <1>5, StartIsAhead DEF f, start
  <2>2. spent \in Nat
    <3>1. end <= Sight
      BY <1>1, <1>2, SweepAssumption, CalendarAssumption DEF Sight
    <3> HIDE DEF end
    <3> QED BY <1>1, <1>2, <2>1, <3>1, OnBasisCounts
  <2>3. spent >= t.seconds <=> at <= end
    <3>1. at = IF t.basis = "CALENDAR_24X7" THEN start + t.seconds
               ELSE InstantAfter(history, start, t.seconds)
      OBVIOUS
    <3> HIDE DEF end, at
    <3>2. end <= Horizon
      BY <1>1, <1>2, SweepAssumption
    <3> QED BY <1>1, <1>2, <2>1, <3>1, <3>2, BreachHasItsInstant
  <2>4. Paused(t, history, {}, start, end) = 0
    BY NoPauses
  <2> DEFINE elapsed == Later(0, spent - Paused(t, history, {}, start, end))
             over == elapsed >= t.seconds
             breachAt == IF t.basis = "CALENDAR_24X7"
                           THEN start + t.seconds + Paused(t, history, {}, start, end)
                         ELSE InstantAfter(history, start,
                                           t.seconds + Paused(t, history, {}, start, end))
  <2>5. /\ st.status = IF stop # Never THEN (IF over THEN "MISSED" ELSE "MET")
                       ELSE IF over THEN "BREACHED"
                       ELSE IF elapsed * 100 >= t.seconds * t.warningPct
                              THEN "WARNING" ELSE "RUNNING"
        /\ st.breachAt = breachAt
    BY <1>3, <1>5 DEF SlaState
  <2> HIDE DEF spent, at
  <2>6. over <=> spent >= t.seconds
    BY <2>2, <2>4 DEF Later
  <2>7. breachAt = at
    <3>1. t.seconds + Paused(t, history, {}, start, end) = t.seconds
      BY <1>1, <2>4
    <3>2. start + t.seconds + Paused(t, history, {}, start, end) = start + t.seconds
      BY <1>1, <2>1, <2>4
    <3> QED BY <3>1, <3>2 DEF at
  <2> HIDE DEF over, breachAt, elapsed
  <2>8. at \in Int
    <3>1. CASE t.basis = "CALENDAR_24X7"
      BY <1>1, <2>1, <3>1 DEF at
    <3>2. CASE t.basis # "CALENDAR_24X7"
      <4>1. Lookahead \in Nat /\ Never \in Nat
        BY CalendarAssumption
      <4>2. InstantAfter(history, start, t.seconds) = Never
            \/ InstantAfter(history, start, t.seconds) \in start..(start + Lookahead)
        BY <1>1, <2>1, InstantAfterIsFirst
      <4> QED BY <2>1, <3>2, <4>1, <4>2 DEF at
    <3> QED BY <3>1, <3>2
  <2>9. st.status \in {"BREACHED", "MISSED"} => st.breachAt <= now
    BY <1>1, <1>2, <2>3, <2>5, <2>6, <2>7, <2>8
  <2>10. st.status \in {"RUNNING", "WARNING"} => st.breachAt > now
    BY <1>1, <1>2, <2>3, <2>5, <2>6, <2>7, <2>8
  <2> QED BY <2>9, <2>10 DEF st, f
<1> QED BY <1>4, <1>5

(* A clock that nothing has paused is over exactly from the instant on that the very same
   state says it breaches at: the flag sums the walk, the instant searches it. *)
THEOREM BreachesHaveTheirInstant ==
  ASSUME \A h \in Histories : Rostered(h), \A P \in Promises : \A t \in P : IsPromise(t),
         Horizon < Lookahead
  PROVE  Spec => []BreachInstantAgrees
<1>1. Inv /\ Settings => BreachInstantAgrees
  BY BreachAgrees
<1> QED BY <1>1, InvAlways, SettingsAlways, PTL

-----------------------------------------------------------------------------
(* A breach that was told is one. *)

(* Pauses take at least the instants they cover: each is under some span, whose length is
   summed in full. *)
LEMMA PausesCover ==
  ASSUME NEW h, Rostered(h), NEW t, IsPromise(t), NEW W, IsFiniteSet(W),
         \A p \in W : p.from \in Nat /\ p.to \in Nat,
         NEW start \in Nat, NEW end \in Nat, end <= Sight
  PROVE  /\ Paused(t, h, W, start, end) \in Nat
         /\ t.clock = "RESOLUTION" =>
              Cardinality({u \in Counted(t.basis, h, start, end) : \E p \in W : p.from <= u /\ u < p.to})
                <= Paused(t, h, W, start, end)
<1> DEFINE from(p) == Later(p.from, start)
           to(p) == Earlier(p.to, end)
           g == PauseTimes(t, h, W, start, end)
           P == [p \in W |-> Counted(t.basis, h, from(p), to(p))]
           B == {u \in Counted(t.basis, h, start, end) : \E p \in W : p.from <= u /\ u < p.to}
           under(u) == CHOOSE p \in W : p.from <= u /\ u < p.to
<1>1. CASE t.clock # "RESOLUTION"
  BY <1>1 DEF Paused
<1>2. CASE t.clock = "RESOLUTION"
  <2>1. \A p \in W : from(p) \in Nat /\ to(p) \in Nat /\ to(p) <= Sight
    BY SweepAssumption, CalendarAssumption DEF Later, Earlier, Sight
  <2> HIDE DEF from, to
  <2>2. \A p \in W : IsFiniteSet(P[p]) /\ g[p] = Cardinality(P[p])
    <3>1. \A p \in W : g[p] = OnBasis(t.basis, h, from(p), to(p))
      BY DEF PauseTimes, from, to
    <3> HIDE DEF g
    <3> QED BY <2>1, <3>1, OnBasisCounts DEF IsPromise
  <2> DEFINE f == PauseSum(t, h, W, start, end)
  <2> HIDE DEF f
  <2>3. IsSum(f, g, SUBSET W) /\ Paused(t, h, W, start, end) = f[W]
    BY <1>2, PausedIsSum DEF f
  <2> DEFINE all == Tagged(P, W)
  <2>4. IsFiniteSet(all) /\ f[W] = Cardinality(all)
    <3> HIDE DEF g, P
    <3> QED BY <2>2, <2>3, TaggedSum
  <2>5. ASSUME NEW u \in B PROVE <<under(u), u>> \in all
    <3>1. under(u) \in W /\ under(u).from <= u /\ u < under(u).to
      OBVIOUS
    <3>2. u \in Int /\ start <= u /\ u < end /\ (t.basis = "BUSINESS_HOURS" => DoorOpen(h, u))
      BY DEF Counted
    <3> HIDE DEF under, B
    <3>3. u \in from(under(u))..(to(under(u)) - 1)
      BY <3>1, <3>2 DEF from, to, Later, Earlier
    <3>4. u \in P[under(u)]
      BY <3>1, <3>2, <3>3 DEF Counted
    <3> HIDE DEF P
    <3> QED BY <3>1, <3>4 DEF Tagged
  <2> DEFINE inj == [u \in B |-> <<under(u), u>>]
  <2> HIDE DEF all, B, under
  <2>6. inj \in Injection(B, all)
    BY <2>5 DEF Injection, IsInjective
  <2>7. Cardinality(B) <= Cardinality(all)
    <3> HIDE DEF inj
    <3> QED BY <2>4, <2>6, FS_Injection
  <2>8. Cardinality(all) \in Nat
    BY <2>4, FS_CardinalityType
  <2> QED BY <2>3, <2>4, <2>7, <2>8 DEF B
<1> QED BY <1>1, <1>2

(* A case has finitely many waiting spans, and nothing is known of one before it arrives. *)
FactsWritten ==
  \A c \in Cases : /\ IsFiniteSet(facts[c].waits)
                   /\ facts[c].arrived = Never => ~facts[c].afterHours

(* The promise of a clock was over for a case, counted instant by instant. *)
Real(c, clock) ==
  \E t \in targets : /\ t.clock = clock /\ Applies(t)
                     /\ Cardinality(Chargeable(c, t)) >= t.seconds

LEMMA ChargeableFinite ==
  ASSUME Inv, NEW c \in Cases, NEW t
  PROVE  IsFiniteSet(Chargeable(c, t)) /\ Cardinality(Chargeable(c, t)) \in Nat
<1> DEFINE stop == IF t.clock = "FIRST_RESPONSE" THEN facts[c].replied ELSE facts[c].resolved
           range == facts[c].arrived..(Earlier(stop, now) - 1)
<1>1. facts[c].arrived \in Int /\ stop \in Int /\ now \in Int
  BY SweepAssumption, CalendarAssumption DEF Inv, FactsOK, Instants
<1>2. Earlier(stop, now) - 1 \in Int
  BY <1>1 DEF Earlier
<1>3. IsFiniteSet(range)
  BY <1>1, <1>2, FS_Interval
<1>4. Chargeable(c, t) \in SUBSET range
  BY DEF Chargeable
<1> HIDE DEF range
<1> QED BY <1>3, <1>4, FS_Subset, FS_CardinalityType

(* What an evaluation tells is so. *)
LEMMA EvaluationIsReal ==
  ASSUME \A h \in Histories : Rostered(h), \A P \in Promises : \A t \in P : IsPromise(t),
         Horizon < Lookahead, Inv, Settings, FactsWritten,
         NEW c \in Cases, NEW clock \in Clocks, NEW at \in Nat, at <= now,
         NEW i \in DOMAIN WorkFor(c, clock, at), WorkFor(c, clock, at)[i][3] = "BREACH"
  PROVE  Real(c, clock)
<1> DEFINE f == facts[c]
           chosen == SelectTarget(targets, clock)
           t == CHOOSE x \in chosen : TRUE
           start == StartOf(f)
           stop == IF t.clock = "FIRST_RESPONSE" THEN f.replied ELSE f.resolved
           st == StateOf(f, t, at)
<1>1. /\ chosen # {} /\ start # Never
      /\ i \in DOMAIN LevelsFor(c, clock, st.status) /\ LevelsFor(c, clock, st.status)[i] = "BREACH"
  BY DEF WorkFor
<1>2. t \in chosen
  BY <1>1
<1> HIDE DEF t
<1>3. t \in targets /\ t.clock = clock /\ Applies(t)
  BY <1>2 DEF SelectTarget, Applies
<1>4. IsPromise(t) /\ t.seconds \in Nat \ {0} /\ t.basis \in {"BUSINESS_HOURS", "CALENDAR_24X7"}
  BY <1>3 DEF Settings, IsPromise
<1>5. st.status = "BREACHED"
  <2> HIDE DEF st
  <2> QED BY <1>1 DEF LevelsFor
<1>6. st = SlaState(t, history, start, stop, f.waits, at)
  BY DEF StateOf
<1> DEFINE spent == OnBasis(t.basis, history, start, at)
           paused == Paused(t, history, f.waits, start, at)
<1> HIDE DEF f, start, stop, st, chosen
<1>7. stop = Never /\ Later(0, spent - paused) >= t.seconds
  BY <1>1, <1>5, <1>6, Zenon DEF SlaState
<1>8. /\ f.arrived \in Times /\ Rostered(history)
      /\ now \in Nat /\ now <= Horizon /\ Horizon \in Nat /\ at <= Sight /\ at <= Horizon
      /\ \A p \in f.waits : p.from \in Nat /\ p.to \in Nat
      /\ IsFiniteSet(f.waits)
  BY SweepAssumption, CalendarAssumption
     DEF Inv, FactsOK, Settings, Instants, Times, Sight, FactsWritten, f
<1>9. f.arrived # Never
  BY <1>1 DEF FactsWritten, StartOf, f, start
<1>10. /\ f.arrived \in 0..now /\ start \in Nat /\ f.arrived <= start
       /\ \A u \in Nat : u <= Horizon /\ f.arrived <= u =>
            (start <= u <=> (f.afterHours => \E o \in f.arrived..u : DoorOpen(history, o)))
  BY <1>1, <1>9, StartIsAhead DEF f, start
<1> DEFINE A == Counted(t.basis, history, start, at)
           B == {u \in A : \E p \in f.waits : p.from <= u /\ u < p.to}
<1>11. IsFiniteSet(A) /\ spent = Cardinality(A) /\ spent \in Nat
  BY <1>4, <1>8, <1>10, OnBasisCounts
<1>12. paused \in Nat /\ (clock = "RESOLUTION" => Cardinality(B) <= paused)
  BY <1>3, <1>4, <1>8, <1>10, PausesCover
<1>13. ASSUME NEW u \in A, clock = "RESOLUTION" => u \notin B PROVE u \in Chargeable(c, t)
  <2>1. /\ u \in Nat /\ start <= u /\ u < at
        /\ t.basis = "BUSINESS_HOURS" => DoorOpen(history, u)
    BY <1>10 DEF Counted
  <2>2. f.arrived <= u /\ u <= Horizon /\ u <= now - 1 /\ f.arrived \in Nat
    BY <1>8, <1>10, <2>1
  <2>3. f.afterHours => \E o \in f.arrived..u : DoorOpen(history, o)
    BY <1>10, <2>1, <2>2
  <2>4. Earlier(stop, now) = now
    BY <1>7, <1>8, SweepAssumption, CalendarAssumption DEF Earlier
  <2>5. u \in f.arrived..(Earlier(stop, now) - 1)
    BY <1>8, <2>1, <2>2, <2>4
  <2>6. t.clock = "RESOLUTION" => ~\E p \in f.waits : p.from <= u /\ u < p.to
    BY <1>3, <1>13
  <2> HIDE DEF A
  <2> QED BY <2>1, <2>3, <2>5, <2>6 DEF Chargeable, f, stop
<1> HIDE DEF A, spent, paused
<1>14. IsFiniteSet(Chargeable(c, t)) /\ Cardinality(Chargeable(c, t)) \in Nat
  BY ChargeableFinite
<1>15. spent - paused >= t.seconds
  BY <1>4, <1>7, <1>11, <1>12 DEF Later
<1>16. Cardinality(Chargeable(c, t)) >= t.seconds
  <2>1. CASE clock # "RESOLUTION"
    <3>1. A \in SUBSET Chargeable(c, t)
      BY <1>13, <2>1
    <3>2. Cardinality(A) <= Cardinality(Chargeable(c, t))
      BY <1>14, <3>1, FS_Subset
    <3> QED BY <1>4, <1>11, <1>12, <1>14, <1>15, <3>2
  <2>2. CASE clock = "RESOLUTION"
    <3>1. A \ B \in SUBSET Chargeable(c, t)
      BY <1>13, <2>2
    <3>2. Cardinality(A \ B) <= Cardinality(Chargeable(c, t))
      BY <1>14, <3>1, FS_Subset
    <3>3. B \in SUBSET A
      OBVIOUS
    <3> HIDE DEF B
    <3>4. IsFiniteSet(B) /\ Cardinality(B) \in Nat
      BY <1>11, <3>3, FS_Subset, FS_CardinalityType
    <3>5. Cardinality(A \ B) = Cardinality(A) - Cardinality(A \cap B) /\ A \cap B = B
      BY <1>11, <3>3, FS_Difference
    <3>6. Cardinality(A \ B) = spent - Cardinality(B)
      BY <1>11, <3>5
    <3>7. Cardinality(B) <= paused
      BY <1>12, <2>2 DEF B
    <3> QED BY <1>4, <1>11, <1>12, <1>14, <1>15, <3>2, <3>4, <3>6, <3>7
  <2> QED BY <2>1, <2>2
<1> QED BY <1>3, <1>16 DEF Real

-----------------------------------------------------------------------------
(* Facts change only at the instant of the change: what was chargeable stays so. *)

LEMMA FactsAdvance ==
  ASSUME Inv, [Next]_vars, NEW c \in Cases
  PROVE  /\ history' = history /\ targets' = targets /\ now' \in {now, now + 1}
         /\ \/ facts[c].arrived = Never /\ facts'[c].arrived \in {now, Never}
            \/ /\ facts'[c].arrived = facts[c].arrived /\ facts'[c].afterHours = facts[c].afterHours
               /\ \/ facts'[c].replied = facts[c].replied
                  \/ (facts[c].replied = Never /\ facts'[c].replied = now)
               /\ \/ facts'[c].resolved = facts[c].resolved
                  \/ (facts[c].resolved = Never /\ facts'[c].resolved = now)
               /\ \A p \in facts'[c].waits :
                    p.from = now \/ \E q \in facts[c].waits : q.from = p.from /\ p.to <= q.to
               /\ \A q \in facts[c].waits : \E p \in facts'[c].waits :
                    p.from = q.from /\ (p.to = q.to \/ (q.to = Never /\ p.to = now))
<1> DEFINE Kept ==
             /\ history' = history /\ targets' = targets /\ now' \in {now, now + 1}
             /\ facts'[c] = facts[c]
<1>1. /\ now \in Nat /\ now <= Never /\ facts \in [Cases -> [arrived : Times, afterHours : BOOLEAN,
              replied : Times, resolved : Times, waits : SUBSET [from : Instants, to : Times]]]
      /\ \A p \in facts[c].waits : p.to \in Nat
  BY SweepAssumption, CalendarAssumption DEF Inv, FactsOK, Instants, Times
<1>2. ASSUME Kept
      PROVE  /\ \A p \in facts'[c].waits : \E q \in facts[c].waits : q.from = p.from /\ p.to <= q.to
             /\ \A q \in facts[c].waits : \E p \in facts'[c].waits : p.from = q.from /\ p.to = q.to
  BY <1>1, <1>2
<1>3. CASE Kept
  BY <1>2, <1>3
<1>4. CASE Tick
  BY <1>3, <1>4 DEF Tick
<1>5. ASSUME NEW d \in Cases, d # c,
             Arrive(d) \/ Reply(d) \/ AskCustomer(d) \/ CustomerAnswers(d) \/ Resolve(d)
      PROVE  Kept
  BY <1>1, <1>5 DEF Arrive, Reply, AskCustomer, CustomerAnswers, Resolve
<1>6. CASE Arrive(c)
  BY <1>1, <1>6 DEF Arrive
<1>7. CASE Reply(c)
  <2>1. \A p \in facts[c].waits : \E q \in facts[c].waits : q.from = p.from /\ p.to <= q.to
    BY <1>1
  <2> QED BY <1>1, <1>7, <2>1 DEF Reply
<1>8. CASE AskCustomer(c)
  <2>1. \A p \in facts[c].waits : \E q \in facts[c].waits : q.from = p.from /\ p.to <= q.to
    BY <1>1
  <2> QED BY <1>1, <1>8, <2>1 DEF AskCustomer
<1>9. \A p \in StopWaiting(c) : \E q \in facts[c].waits : q.from = p.from /\ p.to <= q.to
  <2> SUFFICES ASSUME NEW q \in facts[c].waits, NEW p,
                      p = IF q.to = Never THEN [q EXCEPT !.to = now] ELSE q
               PROVE  q.from = p.from /\ p.to <= q.to
    BY DEF StopWaiting
  <2>1. q \in [from : Instants, to : Times]
    BY <1>1
  <2> QED BY <1>1, <2>1
<1>10. \A q \in facts[c].waits : \E p \in StopWaiting(c) :
         p.from = q.from /\ (p.to = q.to \/ (q.to = Never /\ p.to = now))
  <2> SUFFICES ASSUME NEW q \in facts[c].waits
               PROVE  \E p \in StopWaiting(c) :
                        p.from = q.from /\ (p.to = q.to \/ (q.to = Never /\ p.to = now))
    OBVIOUS
  <2> DEFINE p == IF q.to = Never THEN [q EXCEPT !.to = now] ELSE q
  <2>1. q \in [from : Instants, to : Times]
    BY <1>1
  <2>2. p \in StopWaiting(c)
    BY DEF StopWaiting
  <2>3. p.from = q.from /\ (p.to = q.to \/ (q.to = Never /\ p.to = now))
    BY <2>1
  <2> HIDE DEF p
  <2> QED BY <2>2, <2>3
<1>11. CASE CustomerAnswers(c)
  BY <1>1, <1>9, <1>10, <1>11 DEF CustomerAnswers
<1>12. CASE Resolve(c)
  BY <1>1, <1>9, <1>10, <1>12 DEF Resolve, Open
<1>13. ASSUME NEW s \in Sweepers, Run(s) \/ Break(s) PROVE Kept
  BY <1>13 DEF Run, Begin, Evaluate, Claim, Act, Break
<1>14. CASE UNCHANGED vars
  BY <1>3, <1>14 DEF vars
<1> HIDE DEF Kept
<1> QED BY <1>3, <1>4, <1>5, <1>6, <1>7, <1>8, <1>11, <1>12, <1>13, <1>14 DEF Next

LEMMA ChargeableGrows ==
  ASSUME Inv, Inv', [Next]_vars, NEW c \in Cases, NEW t
  PROVE  Chargeable(c, t) \subseteq Chargeable(c, t)'
<1> DEFINE f == facts[c]
           g == facts'[c]
           stop == IF t.clock = "FIRST_RESPONSE" THEN f.replied ELSE f.resolved
           later == IF t.clock = "FIRST_RESPONSE" THEN g.replied ELSE g.resolved
<1>1. /\ now \in Nat /\ now < Never /\ Never \in Nat /\ f.arrived \in Nat
      /\ f.replied \in Nat /\ f.resolved \in Nat
      /\ \A p \in f.waits : p.from \in Nat /\ p.to \in Nat
  BY SweepAssumption, CalendarAssumption DEF Inv, FactsOK, Instants, Times
<1> SUFFICES ASSUME NEW u \in Chargeable(c, t) PROVE u \in Chargeable(c, t)'
  OBVIOUS
<1>2. /\ u \in f.arrived..(Earlier(stop, now) - 1)
      /\ f.afterHours => \E o \in f.arrived..u : DoorOpen(history, o)
      /\ t.basis = "BUSINESS_HOURS" => DoorOpen(history, u)
      /\ t.clock = "RESOLUTION" => ~\E p \in f.waits : p.from <= u /\ u < p.to
  BY DEF Chargeable
<1>3. f.arrived # Never /\ u \in Nat /\ f.arrived <= u /\ u < stop /\ u < now
  BY <1>1, <1>2 DEF Earlier
<1>4. /\ history' = history /\ now' \in {now, now + 1}
      /\ g.arrived = f.arrived /\ g.afterHours = f.afterHours
      /\ later = stop \/ later = now
      /\ \A p \in g.waits : p.from = now \/ \E q \in f.waits : q.from = p.from /\ p.to <= q.to
  <2>1. f.arrived # Never
    BY <1>3
  <2> QED BY <2>1, FactsAdvance
<1>5. \A p \in g.waits : p.from \in Nat /\ p.to \in Nat
  BY SweepAssumption, CalendarAssumption DEF Inv, FactsOK, Instants, Times
<1> HIDE DEF f, g, stop, later
<1>6. u \in g.arrived..(Earlier(later, now') - 1)
  <2>1. stop \in Nat
    BY <1>1 DEF stop
  <2>2. u < later /\ u < now' /\ later \in Nat /\ now' \in Nat
    BY <1>1, <1>3, <1>4, <2>1
  <2>3. Earlier(later, now') \in Nat /\ u < Earlier(later, now')
    BY <2>2 DEF Earlier
  <2> HIDE DEF Earlier
  <2>4. g.arrived \in Nat /\ g.arrived <= u
    BY <1>1, <1>3, <1>4
  <2> QED BY <1>3, <2>3, <2>4
<1>7. t.clock = "RESOLUTION" => ~\E p \in g.waits : p.from <= u /\ u < p.to
  <2> SUFFICES ASSUME t.clock = "RESOLUTION", NEW p \in g.waits, p.from <= u, u < p.to PROVE FALSE
    OBVIOUS
  <2>1. p.from # now
    BY <1>1, <1>3
  <2>2. PICK q \in f.waits : q.from = p.from /\ p.to <= q.to
    BY <1>4, <2>1
  <2> QED BY <1>1, <1>2, <1>3, <1>5, <2>2
<1>8. g.afterHours => \E o \in g.arrived..u : DoorOpen(history, o)'
  BY <1>2, <1>4 DEF DoorOpen, IsOpenAt, InForce, WindowsOn
<1>9. t.basis = "BUSINESS_HOURS" => DoorOpen(history', u)
  BY <1>2, <1>4
<1> QED BY <1>6, <1>7, <1>8, <1>9 DEF Chargeable, g, later

LEMMA RealStays ==
  ASSUME \A P \in Promises : \A t \in P : IsPromise(t), Inv, Inv', Settings, [Next]_vars,
         NEW c \in Cases, NEW clock, Real(c, clock)
  PROVE  Real(c, clock)'
<1>1. PICK t \in targets : /\ t.clock = clock /\ Applies(t)
                           /\ Cardinality(Chargeable(c, t)) >= t.seconds
  BY DEF Real
<1>2. t \in targets' /\ Applies(t)' /\ t.seconds \in Nat
  BY <1>1, FactsAdvance DEF Applies, Settings, IsPromise
<1>3. /\ IsFiniteSet(Chargeable(c, t)) /\ Cardinality(Chargeable(c, t)) \in Nat
      /\ IsFiniteSet(Chargeable(c, t)') /\ Cardinality(Chargeable(c, t)') \in Nat
  <2>1. IsFiniteSet(Chargeable(c, t)) /\ Cardinality(Chargeable(c, t)) \in Nat
    BY ChargeableFinite
  <2>2. (IsFiniteSet(Chargeable(c, t)) /\ Cardinality(Chargeable(c, t)) \in Nat)'
    BY ChargeableFinite, PTL
  <2> QED BY <2>1, <2>2
<1>4. Chargeable(c, t) \in SUBSET (Chargeable(c, t)')
  BY ChargeableGrows
<1>5. Cardinality(Chargeable(c, t)) <= Cardinality(Chargeable(c, t)')
  BY <1>3, <1>4, FS_Subset
<1>6. Cardinality(Chargeable(c, t))' >= t.seconds
  BY <1>1, <1>2, <1>3, <1>5
<1> QED BY <1>1, <1>2, <1>6 DEF Real

LEMMA FactsWrittenStays ==
  ASSUME Inv, FactsWritten, [Next]_vars PROVE FactsWritten'
<1> SUFFICES ASSUME NEW c \in Cases
             PROVE  /\ IsFiniteSet(facts'[c].waits)
                    /\ facts'[c].arrived = Never => ~facts'[c].afterHours
  BY DEF FactsWritten
<1>1. /\ IsFiniteSet(facts[c].waits) /\ (facts[c].arrived = Never => ~facts[c].afterHours)
      /\ now # Never
      /\ facts \in [Cases -> [arrived : Times, afterHours : BOOLEAN,
              replied : Times, resolved : Times, waits : SUBSET [from : Instants, to : Times]]]
  BY SweepAssumption, CalendarAssumption DEF Inv, FactsOK, FactsWritten, Instants
<1>2. IsFiniteSet(StopWaiting(c))
  <2> DEFINE stopped(p) == IF p.to = Never THEN [p EXCEPT !.to = now] ELSE p
             stop == [p \in facts[c].waits |-> stopped(p)]
  <2>1. StopWaiting(c) = {stopped(p) : p \in facts[c].waits}
    BY DEF StopWaiting
  <2> HIDE DEF stopped
  <2>2. stop \in Surjection(facts[c].waits, StopWaiting(c))
    BY <2>1 DEF Surjection
  <2> HIDE DEF stop
  <2> QED BY <1>1, <2>2, FS_Surjection
<1>3. CASE facts'[c] = facts[c]
  BY <1>1, <1>3
<1>4. ASSUME NEW d \in Cases, d # c,
             Arrive(d) \/ Reply(d) \/ AskCustomer(d) \/ CustomerAnswers(d) \/ Resolve(d)
      PROVE  facts'[c] = facts[c]
  BY <1>1, <1>4 DEF Arrive, Reply, AskCustomer, CustomerAnswers, Resolve
<1>5. CASE Arrive(c)
  BY <1>1, <1>5 DEF Arrive
<1>6. CASE Reply(c)
  BY <1>1, <1>6 DEF Reply
<1>7. CASE AskCustomer(c)
  <2>1. IsFiniteSet(facts[c].waits \cup {[from |-> now, to |-> Never]})
    BY <1>1, FS_AddElement
  <2> QED BY <1>1, <1>7, <2>1 DEF AskCustomer
<1>8. CASE CustomerAnswers(c)
  BY <1>1, <1>2, <1>8 DEF CustomerAnswers
<1>9. CASE Resolve(c)
  BY <1>1, <1>2, <1>9 DEF Resolve
<1>10. ASSUME Tick \/ (\E s \in Sweepers : Run(s) \/ Break(s)) \/ UNCHANGED vars
       PROVE  facts'[c] = facts[c]
  BY <1>10 DEF Tick, Run, Begin, Evaluate, Claim, Act, Break, vars
<1> QED BY <1>3, <1>4, <1>5, <1>6, <1>7, <1>8, <1>9, <1>10 DEF Next

(* What a run is about to tell, and what was told, is so. *)
RealStages == {x \in Stages : x[3] = "BREACH" => Real(x[1], x[2])}
BreachesKnown ==
  /\ \A s \in Sweepers : sweep[s].at <= now /\ sweep[s].work \in Seq(RealStages)
  /\ told \subseteq RealStages

LEMMA WorkIsReal ==
  ASSUME \A h \in Histories : Rostered(h), \A P \in Promises : \A t \in P : IsPromise(t),
         Horizon < Lookahead, Inv, Settings, FactsWritten,
         NEW c \in Cases, NEW clock \in Clocks, NEW at \in Nat, at <= now
  PROVE  WorkFor(c, clock, at) \in Seq(RealStages)
<1> DEFINE w == WorkFor(c, clock, at)
<1>1. w \in Seq(Stages)
  BY WorkTyped
<1>2. \A i \in DOMAIN w : w[i][1] = c /\ w[i][2] = clock
  BY DEF WorkFor
<1>3. \A i \in DOMAIN w : w[i][3] = "BREACH" => Real(c, clock)
  BY EvaluationIsReal
<1> HIDE DEF w
<1>4. \A i \in 1..Len(w) : w[i] \in RealStages
  BY <1>1, <1>2, <1>3 DEF RealStages
<1>5. w \in Seq(RealStages)
  BY <1>1, <1>4
<1> QED BY <1>5 DEF w

LEMMA BreachesKnownStays ==
  ASSUME \A h \in Histories : Rostered(h), \A P \in Promises : \A t \in P : IsPromise(t),
         Horizon < Lookahead, Inv, Inv', Settings, FactsWritten, BreachesKnown, [Next]_vars
  PROVE  BreachesKnown'
<1>1. /\ sweep \in [Sweepers -> [phase : {"idle", "run", "act"}, at : Instants,
                                 todo : SUBSET Cases, work : Seq(Stages)]]
      /\ now \in Nat /\ Instants \subseteq Nat
  BY SweepAssumption DEF Inv, RunsOK, FactsOK, Instants
<1>2. RealStages \subseteq RealStages'
  <2>1. \A c \in Cases, clock \in Clocks : Real(c, clock) => Real(c, clock)'
    BY RealStays
  <2> QED BY <2>1 DEF RealStages, Stages
<1>3. now' \in Nat /\ now <= now'
  <2>1. now' = now \/ now' = now + 1
    BY SweepAssumption, Zenon
       DEF Next, Tick, Arrive, Reply, AskCustomer, CustomerAnswers, Resolve, Run, Begin,
           Evaluate, Claim, Act, Break, vars
  <2> QED BY <1>1, <2>1
<1>4. \A s \in Sweepers : /\ sweep[s].at \in Nat /\ sweep[s].at <= now'
                          /\ sweep[s].work \in Seq(RealStages')
  <2> SUFFICES ASSUME NEW s \in Sweepers
               PROVE  /\ sweep[s].at \in Nat /\ sweep[s].at <= now'
                      /\ sweep[s].work \in Seq(RealStages')
    OBVIOUS
  <2>1. sweep[s].at \in Nat /\ sweep[s].at <= now /\ sweep[s].work \in Seq(RealStages)
    BY <1>1 DEF BreachesKnown
  <2> QED BY <1>1, <1>2, <1>3, <2>1
<1>5. told \subseteq RealStages'
  BY <1>2 DEF BreachesKnown
<1>6. ASSUME told' \subseteq RealStages', NEW s \in Sweepers, NEW run,
             sweep' = [sweep EXCEPT ![s] = run],
             run.at <= now', run.work \in Seq(RealStages')
      PROVE  BreachesKnown'
  BY <1>1, <1>4, <1>6 DEF BreachesKnown
<1>7. IdleRun.at <= now' /\ IdleRun.work \in Seq(RealStages')
  BY <1>3 DEF IdleRun
<1>8. \A run : run.at <= now' /\ run.work \in Seq(RealStages') =>
                 Rest(run).at <= now' /\ Rest(run).work \in Seq(RealStages')
  BY <1>7 DEF Rest
<1>9. ASSUME UNCHANGED <<sweep, told>> PROVE BreachesKnown'
  BY <1>4, <1>5, <1>9 DEF BreachesKnown
<1>10. ASSUME NEW s \in Sweepers, Begin(s) PROVE BreachesKnown'
  <2> DEFINE begun(B) == [phase |-> "run", at |-> now, todo |-> B, work |-> <<>>]
  <2>1. PICK B : sweep' = [sweep EXCEPT ![s] = begun(B)]
    BY <1>10 DEF Begin
  <2>2. told' = told
    BY <1>10 DEF Begin
  <2>3. begun(B).at <= now' /\ begun(B).work \in Seq(RealStages')
    BY <1>3
  <2> HIDE DEF begun
  <2> QED BY <1>5, <1>6, <2>1, <2>2, <2>3
<1>11. ASSUME NEW s \in Sweepers, Evaluate(s) PROVE BreachesKnown'
  <2> DEFINE run == sweep[s]
             work(c) == WorkFor(c, "FIRST_RESPONSE", run.at) \o WorkFor(c, "RESOLUTION", run.at)
             next(c) == [run EXCEPT !.todo = run.todo \ {c}, !.work = work(c)]
  <2>1. PICK c \in run.todo : sweep' = [sweep EXCEPT ![s] = Rest(next(c))]
    BY <1>11 DEF Evaluate
  <2>2. told' = told
    BY <1>11 DEF Evaluate
  <2>3. c \in Cases /\ run.at \in Nat /\ run.at <= now
    BY <1>1 DEF BreachesKnown
  <2>4. WorkFor(c, "FIRST_RESPONSE", run.at) \in Seq(RealStages)
    BY <2>3, WorkIsReal DEF Clocks
  <2>5. WorkFor(c, "RESOLUTION", run.at) \in Seq(RealStages)
    BY <2>3, WorkIsReal DEF Clocks
  <2>6. work(c) \in Seq(RealStages')
    <3>1. WorkFor(c, "FIRST_RESPONSE", run.at) \in Seq(RealStages')
          /\ WorkFor(c, "RESOLUTION", run.at) \in Seq(RealStages')
      BY <1>2, <2>4, <2>5
    <3> QED BY <3>1
  <2> HIDE DEF work
  <2>7. next(c).at = run.at /\ next(c).work = work(c)
    BY <1>1
  <2>8. Rest(next(c)).at <= now' /\ Rest(next(c)).work \in Seq(RealStages')
    <3> HIDE DEF next
    <3> QED BY <1>4, <1>8, <2>6, <2>7
  <2> HIDE DEF next
  <2> QED BY <1>5, <1>6, <2>1, <2>2, <2>8
<1>12. ASSUME NEW s \in Sweepers, sweep[s].work # <<>>
       PROVE  /\ Head(sweep[s].work) \in RealStages'
              /\ Tail(sweep[s].work) \in Seq(RealStages')
  BY <1>4, <1>12
<1>13. ASSUME NEW s \in Sweepers, Claim(s) PROVE BreachesKnown'
  <2> DEFINE run == sweep[s]
             stage == Head(run.work)
             acting == [run EXCEPT !.phase = "act"]
             rest == [run EXCEPT !.work = Tail(run.work)]
  <2>1. stage \in RealStages' /\ Tail(run.work) \in Seq(RealStages')
    BY <1>12, <1>13 DEF Claim
  <2>2. told' \subseteq RealStages'
    BY <1>5, <1>13, <2>1 DEF Claim
  <2>3. sweep' = [sweep EXCEPT ![s] = IF Claimed(stage) THEN acting ELSE Rest(rest)]
    BY <1>13 DEF Claim
  <2>4. acting.at <= now' /\ acting.work \in Seq(RealStages')
    BY <1>1, <1>4
  <2>5. rest.at <= now' /\ rest.work \in Seq(RealStages')
    BY <1>1, <1>4, <2>1
  <2> HIDE DEF acting, rest
  <2> QED BY <1>6, <1>8, <2>2, <2>3, <2>4, <2>5
<1>14. ASSUME NEW s \in Sweepers, Act(s) PROVE BreachesKnown'
  <2> DEFINE run == sweep[s]
             rest == [run EXCEPT !.phase = "run", !.work = Tail(run.work)]
  <2>1. run.work # <<>>
    BY <1>14 DEF Act, Inv, ClaimsHeld
  <2>2. told' = told /\ sweep' = [sweep EXCEPT ![s] = Rest(rest)]
    BY <1>14 DEF Act
  <2>3. rest.at <= now' /\ rest.work \in Seq(RealStages')
    BY <1>1, <1>4, <1>12, <2>1
  <2> HIDE DEF rest
  <2> QED BY <1>5, <1>6, <1>8, <2>2, <2>3
<1>15. ASSUME NEW s \in Sweepers, Break(s) PROVE BreachesKnown'
  BY <1>5, <1>6, <1>7, <1>15 DEF Break
<1>16. ASSUME Tick \/ UNCHANGED vars PROVE BreachesKnown'
  BY <1>9, <1>16 DEF Tick, vars
<1>17. ASSUME NEW c \in Cases,
              Arrive(c) \/ Reply(c) \/ AskCustomer(c) \/ CustomerAnswers(c) \/ Resolve(c)
       PROVE  BreachesKnown'
  BY <1>9, <1>17 DEF Arrive, Reply, AskCustomer, CustomerAnswers, Resolve
<1> QED BY <1>10, <1>11, <1>13, <1>14, <1>15, <1>16, <1>17 DEF Next, Run

LEMMA BreachesKnownAlways ==
  ASSUME \A h \in Histories : Rostered(h), \A P \in Promises : \A t \in P : IsPromise(t),
         Horizon < Lookahead
  PROVE  Spec => [](FactsWritten /\ BreachesKnown)
<1>1. Init => FactsWritten /\ BreachesKnown
  <2>1. IsFiniteSet({})
    BY FS_EmptySet
  <2>2. ASSUME Init PROVE FactsWritten
    <3>1. \A c \in Cases : facts[c].waits = {} /\ facts[c].afterHours = FALSE
      BY <2>2 DEF Init, NotArrived
    <3> QED BY <2>1, <3>1 DEF FactsWritten
  <2>3. ASSUME Init PROVE BreachesKnown
    <3>1. now = 0 /\ told = {} /\ \A s \in Sweepers : sweep[s].at = 0 /\ sweep[s].work = <<>>
      BY <2>3 DEF Init, IdleRun
    <3>2. <<>> \in Seq(RealStages)
      OBVIOUS
    <3>3. \A s \in Sweepers : sweep[s].at <= now
      BY <3>1
    <3>4. \A s \in Sweepers : sweep[s].work \in Seq(RealStages)
      BY <3>1, <3>2
    <3> QED BY <3>1, <3>3, <3>4 DEF BreachesKnown
  <2> QED BY <2>2, <2>3
<1>2. Inv /\ Inv' /\ Settings /\ FactsWritten /\ BreachesKnown /\ [Next]_vars
        => FactsWritten' /\ BreachesKnown'
  BY FactsWrittenStays, BreachesKnownStays
<1> QED BY <1>1, <1>2, InvAlways, SettingsAlways, PTL DEF Spec

(* A breach that was told is one, counted instant by instant: no reply, wait or resolution
   that lands between reading the facts and acting makes it a false alarm, and however the
   spans a customer was waited for overlap, the pauses taken off are never fewer than the
   instants those spans cover. *)
THEOREM ToldBreachesAreReal ==
  ASSUME \A h \in Histories : Rostered(h), \A P \in Promises : \A t \in P : IsPromise(t),
         Horizon < Lookahead
  PROVE  Spec => []BreachesAreReal
<1>1. Inv /\ BreachesKnown => BreachesAreReal
  <2> SUFFICES ASSUME Inv, BreachesKnown, NEW c \in Cases, NEW clock \in Clocks,
                      sent[<<c, clock, "BREACH">>] > 0
               PROVE  Real(c, clock)
    BY DEF BreachesAreReal, Real
  <2>1. <<c, clock, "BREACH">> \in Stages
    BY DEF Stages, Levels
  <2>2. <<c, clock, "BREACH">> \in RealStages
    BY <2>1 DEF Inv, SentOnce, BreachesKnown
  <2> QED BY <2>2 DEF RealStages
<1> QED BY <1>1, BreachesKnownAlways, InvAlways, PTL

-----------------------------------------------------------------------------
(* A run leaves no breach behind: while the open cases fit in a batch and one promise at
   most is in force for a clock and scope. *)

OnePromise(P) ==
  \A t, u \in P : /\ t.scope \in {"TEAM", "CATEGORY"}
                  /\ t.clock = u.clock /\ t.scope = u.scope => t = u

(* A customer is waited for once at a time. *)
WaitsApart ==
  \A c \in Cases : \A p \in facts[c].waits :
    /\ p.to = Never \/ p.to <= now
    /\ \A q \in facts[c].waits : p = q \/ p.to <= q.from \/ q.to <= p.from

(* Pauses that do not overlap take no more than the instants they cover. *)
LEMMA PausesExact ==
  ASSUME NEW h, Rostered(h), NEW t, IsPromise(t), t.clock = "RESOLUTION", NEW W, IsFiniteSet(W),
         \A p \in W : p.from \in Nat /\ p.to \in Nat,
         \A p, q \in W : p = q \/ p.to <= q.from \/ q.to <= p.from,
         NEW start \in Nat, NEW end \in Nat, end <= Sight
  PROVE  Paused(t, h, W, start, end)
           <= Cardinality({u \in Counted(t.basis, h, start, end) : \E p \in W : p.from <= u /\ u < p.to})
<1> DEFINE from(p) == Later(p.from, start)
           to(p) == Earlier(p.to, end)
           g == PauseTimes(t, h, W, start, end)
           P == [p \in W |-> Counted(t.basis, h, from(p), to(p))]
           B == {u \in Counted(t.basis, h, start, end) : \E p \in W : p.from <= u /\ u < p.to}
           all == Tagged(P, W)
<1>1. \A p \in W : from(p) \in Nat /\ to(p) \in Nat /\ to(p) <= Sight
  BY SweepAssumption, CalendarAssumption DEF Later, Earlier, Sight
<1> HIDE DEF from, to
<1>2. \A p \in W : IsFiniteSet(P[p]) /\ g[p] = Cardinality(P[p])
  <2>1. \A p \in W : g[p] = OnBasis(t.basis, h, from(p), to(p))
    BY DEF PauseTimes, from, to
  <2> HIDE DEF g
  <2> QED BY <1>1, <2>1, OnBasisCounts DEF IsPromise
<1> DEFINE f == PauseSum(t, h, W, start, end)
<1> HIDE DEF f
<1>3. IsSum(f, g, SUBSET W) /\ Paused(t, h, W, start, end) = f[W]
  BY PausedIsSum DEF f
<1>4. IsFiniteSet(all) /\ f[W] = Cardinality(all)
  <2> HIDE DEF g, P
  <2> QED BY <1>2, <1>3, TaggedSum
<1>5. \A x \in all : \E p \in W : x = <<p, x[2]>> /\ x[2] \in P[p]
  <2> HIDE DEF P
  <2> QED BY DEF Tagged
<1>6. ASSUME NEW p \in W, NEW u \in P[p] PROVE u \in B /\ u \in Int /\ p.from <= u /\ u < p.to
  <2>1. u \in from(p)..(to(p) - 1) /\ (t.basis = "BUSINESS_HOURS" => DoorOpen(h, u))
    BY DEF Counted
  <2>2. u \in Int /\ start <= u /\ u < end /\ p.from <= u /\ u < p.to
    BY <1>1, <2>1 DEF from, to, Later, Earlier
  <2>3. u \in start..(end - 1)
    BY <2>2
  <2> QED BY <2>1, <2>2, <2>3 DEF Counted
<1> HIDE DEF P, B, all
<1>7. \A x \in all : x[2] \in B
  BY <1>5, <1>6
<1>8. \A x, y \in all : x[2] = y[2] => x = y
  <2> SUFFICES ASSUME NEW x \in all, NEW y \in all, x[2] = y[2] PROVE x = y
    OBVIOUS
  <2>1. PICK p \in W : x = <<p, x[2]>> /\ x[2] \in P[p]
    BY <1>5
  <2>2. PICK q \in W : y = <<q, y[2]>> /\ y[2] \in P[q]
    BY <1>5
  <2>3. x[2] \in Int /\ p.from <= x[2] /\ x[2] < p.to
    BY <1>6, <2>1
  <2>4. q.from <= x[2] /\ x[2] < q.to
    BY <1>6, <2>2
  <2>5. p = q
    BY <2>3, <2>4
  <2> QED BY <2>1, <2>2, <2>5
<1>9. IsFiniteSet(B)
  <2>1. IsFiniteSet(Counted(t.basis, h, start, end))
    BY OnBasisCounts DEF IsPromise
  <2>2. B \in SUBSET Counted(t.basis, h, start, end)
    BY DEF B
  <2> QED BY <2>1, <2>2, FS_Subset
<1> DEFINE inj == [x \in all |-> x[2]]
<1>10. inj \in Injection(all, B)
  BY <1>7, <1>8 DEF Injection, IsInjective
<1>11. Cardinality(all) <= Cardinality(B)
  <2> HIDE DEF inj
  <2> QED BY <1>9, <1>10, FS_Injection
<1> QED BY <1>3, <1>4, <1>11 DEF B

LEMMA WaitsApartStays ==
  ASSUME Inv, WaitsApart, [Next]_vars PROVE WaitsApart'
<1> DEFINE Apart(W, t) == \A p \in W : /\ p.to = Never \/ p.to <= t
                                       /\ \A q \in W : p = q \/ p.to <= q.from \/ q.to <= p.from
<1> SUFFICES ASSUME NEW c \in Cases PROVE Apart(facts'[c].waits, now')
  BY DEF WaitsApart
<1> DEFINE W == facts[c].waits
<1>1. /\ now \in Nat /\ Never \in Nat /\ now < Never
      /\ \A p \in W : /\ p \in [from : Instants, to : Times]
                      /\ p.from \in Nat /\ p.to \in Nat /\ p.from <= now /\ p.from <= p.to
      /\ facts \in [Cases -> [arrived : Times, afterHours : BOOLEAN,
              replied : Times, resolved : Times, waits : SUBSET [from : Instants, to : Times]]]
  BY SweepAssumption, CalendarAssumption DEF Inv, FactsOK, Instants, Times
<1>2. Apart(W, now)
  BY DEF WaitsApart
<1>3. CASE facts'[c] = facts[c] /\ now' \in {now, now + 1}
  BY <1>1, <1>2, <1>3
<1>4. ASSUME NEW d \in Cases, d # c,
             Arrive(d) \/ Reply(d) \/ AskCustomer(d) \/ CustomerAnswers(d) \/ Resolve(d)
      PROVE  facts'[c] = facts[c] /\ now' = now
  BY <1>1, <1>4 DEF Arrive, Reply, AskCustomer, CustomerAnswers, Resolve
<1>5. CASE Arrive(c) \/ Reply(c)
  <2>1. facts'[c].waits = W /\ now' = now
    BY <1>1, <1>5 DEF Arrive, Reply
  <2> QED BY <1>2, <2>1
<1>6. CASE AskCustomer(c)
  <2> DEFINE new == [from |-> now, to |-> Never]
  <2>1. facts'[c].waits = W \cup {new} /\ now' = now
    BY <1>1, <1>6 DEF AskCustomer
  <2>2. \A p \in W : p.to <= now
    BY <1>2, <1>6 DEF AskCustomer, Waiting
  <2>3. new.from = now /\ new.to = Never
    OBVIOUS
  <2> HIDE DEF new, W
  <2> QED BY <1>1, <1>2, <2>1, <2>2, <2>3
<1>7. CASE CustomerAnswers(c) \/ Resolve(c)
  <2> DEFINE stopped(p) == IF p.to = Never THEN [p EXCEPT !.to = now] ELSE p
  <2>1. facts'[c].waits = {stopped(p) : p \in W} /\ now' = now
    BY <1>1, <1>7 DEF CustomerAnswers, Resolve, StopWaiting
  <2>2. \A p \in W : /\ stopped(p).from = p.from
                     /\ stopped(p).to = IF p.to = Never THEN now ELSE p.to
    BY <1>1
  <2> HIDE DEF stopped, W
  <2>3. \A p \in W : stopped(p).to <= now
    BY <1>1, <1>2, <2>2
  <2>4. ASSUME NEW p \in W, NEW q \in W
        PROVE  \/ stopped(p) = stopped(q) \/ stopped(p).to <= stopped(q).from
               \/ stopped(q).to <= stopped(p).from
    <3>1. CASE p = q
      BY <3>1
    <3>2. CASE p.to <= q.from
      BY <1>1, <2>2, <3>2
    <3>3. CASE q.to <= p.from
      BY <1>1, <2>2, <3>3
    <3> QED BY <1>2, <3>1, <3>2, <3>3
  <2> QED BY <2>1, <2>3, <2>4
<1>8. ASSUME Tick \/ (\E s \in Sweepers : Run(s) \/ Break(s)) \/ UNCHANGED vars
      PROVE  facts'[c] = facts[c] /\ now' \in {now, now + 1}
  BY <1>8 DEF Tick, Run, Begin, Evaluate, Claim, Act, Break, vars
<1> HIDE DEF Apart
<1> QED BY <1>3, <1>4, <1>5, <1>6, <1>7, <1>8 DEF Next

(* What a run charges a case with at its instant is settled: later facts do not reach back
   to it. *)
Charged(c, t, at) == {u \in Chargeable(c, t) : u < at}

LEMMA ChargedIsSettled ==
  ASSUME Inv, Inv', [Next]_vars, NEW c \in Cases, NEW t, NEW at \in Nat, at <= now,
         facts[c].arrived # Never
  PROVE  Charged(c, t, at)' \subseteq Charged(c, t, at)
<1> DEFINE f == facts[c]
           g == facts'[c]
           stop == IF t.clock = "FIRST_RESPONSE" THEN f.replied ELSE f.resolved
           later == IF t.clock = "FIRST_RESPONSE" THEN g.replied ELSE g.resolved
<1>1. /\ now \in Nat /\ now < Never /\ Never \in Nat /\ f.arrived \in Nat /\ stop \in Nat
      /\ \A p \in f.waits : p.from \in Nat /\ p.to \in Nat
      /\ now' \in Nat /\ g.arrived \in Nat /\ later \in Nat
  BY SweepAssumption, CalendarAssumption DEF Inv, FactsOK, Instants, Times
<1> SUFFICES ASSUME NEW u \in Charged(c, t, at)' PROVE u \in Charged(c, t, at)
  OBVIOUS
<1>2. /\ u \in g.arrived..(Earlier(later, now') - 1) /\ u < at
      /\ g.afterHours => \E o \in g.arrived..u : DoorOpen(history', o)
      /\ t.basis = "BUSINESS_HOURS" => DoorOpen(history', u)
      /\ t.clock = "RESOLUTION" => ~\E p \in g.waits : p.from <= u /\ u < p.to
  BY DEF Charged, Chargeable, DoorOpen, IsOpenAt, InForce, WindowsOn
<1>3. /\ history' = history /\ now' \in {now, now + 1}
      /\ g.arrived = f.arrived /\ g.afterHours = f.afterHours
      /\ later = stop \/ (stop = Never /\ later = now)
      /\ \A q \in f.waits : \E p \in g.waits :
           p.from = q.from /\ (p.to = q.to \/ (q.to = Never /\ p.to = now))
  BY FactsAdvance
<1> HIDE DEF f, g, stop, later
<1>4. u \in Nat /\ f.arrived <= u /\ u < at /\ u < now /\ u < later
  BY <1>1, <1>2, <1>3 DEF Earlier
<1>5. u \in f.arrived..(Earlier(stop, now) - 1)
  <2>1. u < stop
    BY <1>1, <1>3, <1>4
  <2>2. Earlier(stop, now) \in Nat /\ u < Earlier(stop, now)
    BY <1>1, <1>4, <2>1 DEF Earlier
  <2> HIDE DEF Earlier
  <2> QED BY <1>1, <1>4, <2>2
<1>6. t.clock = "RESOLUTION" => ~\E q \in f.waits : q.from <= u /\ u < q.to
  BY <1>1, <1>2, <1>3, <1>4
<1>7. /\ f.afterHours => \E o \in f.arrived..u : DoorOpen(history, o)
      /\ t.basis = "BUSINESS_HOURS" => DoorOpen(history, u)
  BY <1>2, <1>3
<1> QED BY <1>4, <1>5, <1>6, <1>7 DEF Charged, Chargeable, f, stop

LEMMA ChargedFinite ==
  ASSUME Inv, NEW c \in Cases, NEW t, NEW at
  PROVE  IsFiniteSet(Charged(c, t, at)) /\ Cardinality(Charged(c, t, at)) \in Nat
<1>1. IsFiniteSet(Chargeable(c, t)) /\ Charged(c, t, at) \in SUBSET Chargeable(c, t)
  BY ChargeableFinite DEF Charged
<1> QED BY <1>1, FS_Subset, FS_CardinalityType

LEMMA BreachIsSettled ==
  ASSUME \A P \in Promises : \A t \in P : IsPromise(t), Inv, Inv', Settings, [Next]_vars,
         NEW c \in Cases, NEW t \in targets, NEW at \in Nat, at <= now, BreachedAt(c, t, at)'
  PROVE  BreachedAt(c, t, at)
<1>1. /\ facts'[c].arrived # Never /\ facts'[c].resolved = Never
      /\ t.clock = "FIRST_RESPONSE" => facts'[c].replied = Never
      /\ Cardinality(Charged(c, t, at)') >= t.seconds
  BY DEF BreachedAt, Open, Charged
<1>2. t.seconds \in Nat \ {0} /\ now # Never /\ now \in Nat
  BY SweepAssumption, CalendarAssumption DEF Settings, IsPromise, Inv, FactsOK, Instants
<1>3. facts[c].arrived # Never
  <2> SUFFICES ASSUME facts[c].arrived = Never PROVE FALSE
    OBVIOUS
  <2>1. facts'[c].arrived = now
    BY <1>1, FactsAdvance
  <2>2. \A u \in Charged(c, t, at)' : u \in Int /\ now <= u /\ u < at
    BY <2>1 DEF Charged, Chargeable
  <2>3. Charged(c, t, at)' = {}
    BY <1>2, <2>2
  <2> QED BY <1>1, <1>2, <2>3, FS_EmptySet
<1>4. facts[c].resolved = Never /\ (t.clock = "FIRST_RESPONSE" => facts[c].replied = Never)
  BY <1>1, <1>2, <1>3, FactsAdvance
<1>5. Charged(c, t, at)' \in SUBSET Charged(c, t, at)
  BY <1>3, ChargedIsSettled
<1>6. IsFiniteSet(Charged(c, t, at)) /\ Cardinality(Charged(c, t, at)) \in Nat
  BY ChargedFinite
<1>7. Cardinality(Charged(c, t, at)') <= Cardinality(Charged(c, t, at))
      /\ Cardinality(Charged(c, t, at)') \in Nat
  BY <1>5, <1>6, FS_Subset, FS_CardinalityType
<1>8. Cardinality(Charged(c, t, at)) >= t.seconds
  BY <1>1, <1>2, <1>6, <1>7
<1> QED BY <1>3, <1>4, <1>8 DEF BreachedAt, Open, Charged

(* What a breach asks of a run. *)
Due(c) == IF c \in Automatic THEN {"BREACH", "ESCALATION"} ELSE {"BREACH"}
Named(work) == {work[i] : i \in 1..Len(work)}

(* A run that evaluates a breached case finds the work the breach asks for. *)
LEMMA EvaluationFinds ==
  ASSUME \A h \in Histories : Rostered(h), \A P \in Promises : \A t \in P : IsPromise(t),
         \A P \in Promises : OnePromise(P), Horizon < Lookahead,
         Inv, Settings, FactsWritten, WaitsApart,
         NEW c \in Cases, NEW t \in targets, Applies(t), NEW at \in Nat, at <= now,
         BreachedAt(c, t, at), NEW L \in Due(c)
  PROVE  <<c, t.clock, L>> \in Named(WorkFor(c, t.clock, at))
<1> DEFINE f == facts[c]
           clock == t.clock
           chosen == SelectTarget(targets, clock)
           start == StartOf(f)
           stop == IF t.clock = "FIRST_RESPONSE" THEN f.replied ELSE f.resolved
           st == StateOf(f, t, at)
<1>1. (CHOOSE x \in chosen : TRUE) = t /\ chosen # {}
  <2>1. t.scope \in {"TEAM", "CATEGORY"} /\ t \in chosen
        /\ \A x \in chosen : x \in targets /\ x.clock = t.clock /\ x.scope = t.scope
    BY DEF Settings, OnePromise, SelectTarget, Applies
  <2>2. \A x \in chosen : x = t
    BY <2>1 DEF Settings, OnePromise
  <2> HIDE DEF chosen
  <2> QED BY <2>1, <2>2
<1>2. IsPromise(t) /\ t.seconds \in Nat \ {0} /\ t.basis \in {"BUSINESS_HOURS", "CALENDAR_24X7"}
      /\ clock \in Clocks
  BY DEF Settings, IsPromise
<1>3. st = SlaState(t, history, start, stop, f.waits, at)
  BY DEF StateOf
<1>4. /\ f.arrived \in Nat /\ f.arrived # Never /\ stop = Never /\ Rostered(history)
      /\ now \in Nat /\ now <= Horizon /\ Horizon \in Nat /\ Never \in Nat /\ Horizon < Never
      /\ Lookahead \in Nat /\ at <= Sight /\ at <= Horizon
      /\ f.arrived <= Horizon
      /\ \A p \in f.waits : p.from \in Nat /\ p.to \in Nat
      /\ \A p, q \in f.waits : p = q \/ p.to <= q.from \/ q.to <= p.from
      /\ IsFiniteSet(f.waits) /\ f.afterHours \in BOOLEAN
  <2>1. f.arrived # Never /\ stop = Never
    BY DEF BreachedAt, Open
  <2> QED BY <1>2, <2>1, SweepAssumption, CalendarAssumption
          DEF Inv, FactsOK, Settings, Instants, Times, Sight, FactsWritten, WaitsApart, Clocks
<1> DEFINE C == Charged(c, t, at)
           A == Counted(t.basis, history, start, at)
           B == {u \in A : \E p \in f.waits : p.from <= u /\ u < p.to}
           spent == OnBasis(t.basis, history, start, at)
           paused == Paused(t, history, f.waits, start, at)
<1>5. Cardinality(C) >= t.seconds /\ IsFiniteSet(C) /\ Cardinality(C) \in Nat
  BY ChargedFinite DEF BreachedAt, Charged
<1>6. \A u \in C : /\ u \in Nat /\ f.arrived <= u /\ u < at /\ u <= Horizon
                   /\ f.afterHours => \E o \in f.arrived..u : DoorOpen(history, o)
                   /\ t.basis = "BUSINESS_HOURS" => DoorOpen(history, u)
                   /\ t.clock = "RESOLUTION" => ~\E p \in f.waits : p.from <= u /\ u < p.to
  <2> HIDE DEF stop
  <2> SUFFICES ASSUME NEW u \in C
               PROVE  /\ u \in Nat /\ f.arrived <= u /\ u < at /\ u <= Horizon
                      /\ f.afterHours => \E o \in f.arrived..u : DoorOpen(history, o)
                      /\ t.basis = "BUSINESS_HOURS" => DoorOpen(history, u)
                      /\ t.clock = "RESOLUTION" => ~\E p \in f.waits : p.from <= u /\ u < p.to
    OBVIOUS
  <2>1. u \in f.arrived..(Earlier(stop, now) - 1) /\ u < at
    BY DEF Charged, Chargeable, stop
  <2>2. u \in Nat /\ f.arrived <= u /\ u <= Horizon
    BY <1>4, <2>1
  <2> QED BY <2>1, <2>2 DEF Charged, Chargeable
<1>7. start # Never
  <2>1. C # {}
    BY <1>2, <1>5, FS_EmptySet
  <2>2. PICK u \in C : TRUE
    BY <2>1
  <2>3. CASE ~f.afterHours
    BY <1>4, <2>3 DEF StartOf
  <2>4. CASE f.afterHours
    <3>1. PICK o \in f.arrived..u : DoorOpen(history, o)
      BY <1>6, <2>2, <2>4
    <3>2. u \in Nat /\ u <= Horizon
      BY <1>6
    <3>3. o \in OpenIn(history, f.arrived, f.arrived + Lookahead)
      BY <1>4, <3>1, <3>2 DEF OpenIn
    <3>4. f.arrived <= Horizon + Lookahead
      BY <1>4
    <3>5. /\ NextOpening(history, f.arrived) \in OpenIn(history, f.arrived, f.arrived + Lookahead)
          /\ NextOpening(history, f.arrived) <= o
      <4> HIDE DEF f
      <4> QED BY <1>4, <3>3, <3>4, NextOpeningIsFirst
    <3>6. NextOpening(history, f.arrived) < Never
      BY <1>4, <3>1, <3>2, <3>5 DEF OpenIn
    <3> QED BY <1>4, <2>4, <3>6 DEF StartOf
  <2> QED BY <1>4, <2>3, <2>4
<1>8. /\ start \in Nat /\ f.arrived <= start
      /\ \A u \in Nat : u <= Horizon /\ f.arrived <= u =>
           (start <= u <=> (f.afterHours => \E o \in f.arrived..u : DoorOpen(history, o)))
  BY <1>4, <1>7, StartIsAhead
<1> HIDE DEF f, start, stop, st, chosen, C, spent, paused
<1>9. \A u \in C : u \in A /\ (clock = "RESOLUTION" => u \notin B)
  <2> SUFFICES ASSUME NEW u \in C PROVE u \in A /\ (clock = "RESOLUTION" => u \notin B)
    OBVIOUS
  <2>1. u \in Nat /\ start <= u /\ u < at
    BY <1>6, <1>8
  <2>2. u \in start..(at - 1)
    BY <1>8, <2>1
  <2> QED BY <1>6, <2>2 DEF Counted
<1>10. IsFiniteSet(A) /\ spent = Cardinality(A) /\ spent \in Nat
  BY <1>2, <1>4, <1>8, OnBasisCounts DEF spent
<1>11. paused \in Nat /\ (clock = "RESOLUTION" => paused <= Cardinality(B))
  <2>1. paused \in Nat
    BY <1>2, <1>4, <1>8, PausesCover DEF paused
  <2>2. ASSUME clock = "RESOLUTION" PROVE paused <= Cardinality(B)
    BY <1>2, <1>4, <1>8, <2>2, PausesExact DEF paused
  <2> QED BY <2>1, <2>2
<1>12. clock # "RESOLUTION" => paused = 0
  BY DEF paused, Paused
<1> HIDE DEF A
<1>13. spent - paused >= t.seconds
  <2>1. CASE clock # "RESOLUTION"
    <3>1. C \in SUBSET A
      BY <1>9
    <3>2. Cardinality(C) <= Cardinality(A)
      BY <1>10, <3>1, FS_Subset
    <3> QED BY <1>2, <1>5, <1>10, <1>12, <2>1, <3>2
  <2>2. CASE clock = "RESOLUTION"
    <3>1. C \in SUBSET (A \ B)
      BY <1>9, <2>2
    <3>2. IsFiniteSet(A \ B) /\ Cardinality(A \ B) = Cardinality(A) - Cardinality(A \cap B)
          /\ A \cap B = B
      BY <1>10, FS_Difference
    <3>3. Cardinality(C) <= Cardinality(A \ B)
      BY <3>1, <3>2, FS_Subset
    <3>4. B \in SUBSET A
      OBVIOUS
    <3> HIDE DEF B
    <3>5. Cardinality(B) \in Nat
      BY <1>10, <3>4, FS_Subset, FS_CardinalityType
    <3>6. Cardinality(A \ B) = spent - Cardinality(B)
      BY <1>10, <3>2
    <3>7. paused <= Cardinality(B)
      BY <1>11, <2>2 DEF B
    <3> QED BY <1>2, <1>5, <1>10, <1>11, <3>3, <3>5, <3>6, <3>7
  <2> QED BY <2>1, <2>2
<1>14. st.status = "BREACHED"
  <2>1. Later(0, spent - paused) >= t.seconds
    BY <1>2, <1>10, <1>11, <1>13 DEF Later
  <2> QED BY <1>3, <1>4, <1>7, <2>1, Zenon DEF SlaState, spent, paused
<1>15. WorkFor(c, clock, at)
         = LET ls == LevelsFor(c, clock, st.status) IN [i \in DOMAIN ls |-> <<c, clock, ls[i]>>]
  BY <1>1, <1>7 DEF WorkFor, st, f, start, chosen
<1>16. CASE c \in Automatic
  <2>1. WorkFor(c, clock, at)
          = [i \in DOMAIN <<"BREACH", "ESCALATION">> |-> <<c, clock, <<"BREACH", "ESCALATION">>[i]>>]
    BY <1>14, <1>15, <1>16 DEF LevelsFor
  <2>2. /\ Len(WorkFor(c, clock, at)) = 2 /\ WorkFor(c, clock, at)[1] = <<c, clock, "BREACH">>
        /\ WorkFor(c, clock, at)[2] = <<c, clock, "ESCALATION">>
    BY <2>1
  <2>3. 1 \in 1..2 /\ 2 \in 1..2
    OBVIOUS
  <2> QED BY <1>16, <2>2, <2>3 DEF Named, Due
<1>17. CASE c \notin Automatic
  <2>1. WorkFor(c, clock, at) = [i \in DOMAIN <<"BREACH">> |-> <<c, clock, <<"BREACH">>[i]>>]
    BY <1>14, <1>15, <1>17 DEF LevelsFor
  <2>2. Len(WorkFor(c, clock, at)) = 1 /\ WorkFor(c, clock, at)[1] = <<c, clock, "BREACH">>
    BY <2>1
  <2>3. 1 \in 1..1
    OBVIOUS
  <2> QED BY <1>17, <2>2, <2>3 DEF Named, Due
<1> QED BY <1>16, <1>17

(* While a run is under way, every breach there was at its instant is a case still to look
   at, work in hand, or recorded. *)
InHand(s, x) == x[1] \in sweep[s].todo \/ x \in told \/ x \in Named(sweep[s].work)
Owes(s) ==
  \A at \in Nat : at = sweep[s].at =>
    \A c \in Cases : \A t \in targets : Applies(t) /\ BreachedAt(c, t, at) =>
      \A L \in Due(c) : InHand(s, <<c, t.clock, L>>)
BreachesInHand == \A s \in Sweepers : sweep[s].phase # "idle" => Owes(s)

LEMMA NamedParts ==
  ASSUME NEW S, NEW w \in Seq(S)
  PROVE  /\ w # <<>> => \A x \in Named(w) : x = Head(w) \/ x \in Named(Tail(w))
         /\ Named(<<>>) = {}
         /\ \A v \in Seq(S) : Named(w) \cup Named(v) \subseteq Named(w \o v)
<1>1. ASSUME w # <<>>, NEW x \in Named(w) PROVE x = Head(w) \/ x \in Named(Tail(w))
  <2>1. PICK i \in 1..Len(w) : x = w[i]
    BY DEF Named
  <2>2. CASE i = 1
    BY <1>1, <2>1, <2>2
  <2>3. CASE i # 1
    <3>1. i - 1 \in 1..Len(Tail(w)) /\ Tail(w)[i - 1] = w[i]
      BY <1>1, <2>1, <2>3
    <3> QED BY <2>1, <3>1 DEF Named
  <2> QED BY <2>2, <2>3
<1>2. Named(<<>>) = {}
  BY DEF Named
<1>3. ASSUME NEW v \in Seq(S), NEW x \in Named(w) \cup Named(v) PROVE x \in Named(w \o v)
  <2>1. CASE x \in Named(w)
    <3>1. PICK i \in 1..Len(w) : x = w[i]
      BY <2>1 DEF Named
    <3>2. i \in 1..Len(w \o v) /\ (w \o v)[i] = w[i]
      BY <3>1
    <3> QED BY <3>1, <3>2 DEF Named
  <2>2. CASE x \in Named(v)
    <3>1. PICK i \in 1..Len(v) : x = v[i]
      BY <2>2 DEF Named
    <3>2. Len(w) + i \in 1..Len(w \o v) /\ (w \o v)[Len(w) + i] = v[i]
      BY <3>1
    <3> QED BY <3>1, <3>2 DEF Named
  <2> QED BY <1>3, <2>1, <2>2
<1> QED BY <1>1, <1>2, <1>3

(* A batch that has room for every case takes every open one. *)
LEMMA BatchTakesAll ==
  ASSUME IsFiniteSet(Cases), Cardinality(Cases) <= BatchSize, NEW B \in Batches,
         NEW c \in Cases, Open(c)
  PROVE  c \in B
<1> DEFINE open == {d \in Cases : Open(d)}
<1>1. IsFiniteSet(open) /\ Cardinality(open) \in Nat /\ Cardinality(open) <= Cardinality(Cases)
      /\ Cardinality(Cases) \in Nat
  <2>1. open \in SUBSET Cases
    OBVIOUS
  <2> HIDE DEF open
  <2> QED BY <2>1, FS_Subset, FS_CardinalityType
<1>2. B \in SUBSET open /\ Cardinality(B) = Earlier(BatchSize, Cardinality(open))
  BY DEF Batches
<1>3. c \in open
  OBVIOUS
<1> HIDE DEF open
<1>4. Cardinality(B) = Cardinality(open)
  BY <1>1, <1>2, SweepAssumption DEF Earlier
<1>5. B = open
  BY <1>1, <1>2, <1>4, FS_Subset
<1> QED BY <1>3, <1>5

LEMMA Resting ==
  ASSUME NEW r, r.phase = "run", NEW x, NEW T,
         x[1] \in r.todo \/ x \in T \/ x \in Named(r.work)
  PROVE  /\ Rest(r).phase = "idle" => x \in T
         /\ Rest(r).phase # "idle" => Rest(r) = r
<1>1. Named(<<>>) = {}
  BY DEF Named
<1>2. CASE r.todo = {} /\ r.work = <<>>
  BY <1>1, <1>2 DEF Rest, IdleRun
<1>3. CASE ~(r.todo = {} /\ r.work = <<>>)
  BY <1>3 DEF Rest
<1> QED BY <1>2, <1>3

(* A step of a run takes a stage out of hand only by recording it. *)
LEMMA StepInHand ==
  ASSUME \A h \in Histories : Rostered(h), \A P \in Promises : \A t \in P : IsPromise(t),
         \A P \in Promises : OnePromise(P), Horizon < Lookahead,
         Inv, Settings, FactsWritten, WaitsApart, BreachesKnown,
         NEW s \in Sweepers, Owes(s), Evaluate(s) \/ Claim(s) \/ Act(s),
         NEW c \in Cases, NEW t \in targets, Applies(t), BreachedAt(c, t, sweep[s].at),
         NEW L \in Due(c)
  PROVE  LET x == <<c, t.clock, L>>
         IN  /\ sweep'[s].phase = "idle" => x \in told'
             /\ sweep'[s].phase # "idle" =>
                  x[1] \in sweep'[s].todo \/ x \in told' \/ x \in Named(sweep'[s].work)
<1> DEFINE x == <<c, t.clock, L>>
           run == sweep[s]
           At(r) == x[1] \in r.todo \/ x \in told' \/ x \in Named(r.work)
<1>1. /\ sweep \in [Sweepers -> [phase : {"idle", "run", "act"}, at : Instants,
                                 todo : SUBSET Cases, work : Seq(Stages)]]
      /\ run.at \in Nat /\ run.at <= now /\ t.clock \in Clocks
  BY SweepAssumption DEF Inv, RunsOK, Instants, BreachesKnown, Settings, IsPromise
<1>2. InHand(s, x)
  BY <1>1 DEF Owes
<1> HIDE DEF x
<1>3. ASSUME NEW r, r.phase = "run", At(r), sweep' = [sweep EXCEPT ![s] = Rest(r)]
      PROVE  /\ sweep'[s].phase = "idle" => x \in told'
             /\ sweep'[s].phase # "idle" => At(sweep'[s])
  <2>1. sweep'[s] = Rest(r)
    BY <1>1, <1>3
  <2> QED BY <1>3, <2>1, Resting
<1>4. CASE Evaluate(s)
  <2> DEFINE work(d) == WorkFor(d, "FIRST_RESPONSE", run.at) \o WorkFor(d, "RESOLUTION", run.at)
             next(d) == [run EXCEPT !.todo = run.todo \ {d}, !.work = work(d)]
  <2>1. PICK d \in run.todo : sweep' = [sweep EXCEPT ![s] = Rest(next(d))]
    BY <1>4 DEF Evaluate
  <2>2. told' = told /\ run.phase = "run" /\ run.work = <<>>
    BY <1>4 DEF Evaluate
  <2>3. x \in told \/ x[1] \in run.todo
    BY <1>2, <2>2, NamedParts, <1>1 DEF InHand
  <2>4. x[1] = d => x \in Named(work(d))
    <3> SUFFICES ASSUME c = d PROVE x \in Named(work(d))
      BY DEF x
    <3>1. x \in Named(WorkFor(d, t.clock, run.at))
      BY <1>1, EvaluationFinds DEF x
    <3>2. /\ WorkFor(d, "FIRST_RESPONSE", run.at) \in Seq(Stages)
          /\ WorkFor(d, "RESOLUTION", run.at) \in Seq(Stages)
      BY WorkTyped DEF Clocks
    <3>3. Named(WorkFor(d, "FIRST_RESPONSE", run.at)) \cup Named(WorkFor(d, "RESOLUTION", run.at))
            \subseteq Named(work(d))
      BY <3>2, NamedParts
    <3> HIDE DEF work
    <3> QED BY <1>1, <3>1, <3>3 DEF Clocks
  <2> HIDE DEF work
  <2>5. next(d).phase = "run" /\ next(d).at = run.at
        /\ next(d).todo = run.todo \ {d} /\ next(d).work = work(d)
    BY <1>1, <2>2
  <2> HIDE DEF next
  <2>6. At(next(d))
    BY <2>2, <2>3, <2>4, <2>5
  <2> QED BY <1>3, <2>1, <2>5, <2>6 DEF x
<1>5. CASE Claim(s)
  <2> DEFINE acting == [run EXCEPT !.phase = "act"]
             rest == [run EXCEPT !.work = Tail(run.work)]
  <2>1. /\ told' = told \cup {Head(run.work)} /\ run.work # <<>> /\ run.phase = "run"
        /\ sweep' = [sweep EXCEPT ![s] = IF Claimed(Head(run.work)) THEN acting ELSE Rest(rest)]
    BY <1>5 DEF Claim
  <2>2. CASE Claimed(Head(run.work))
    <3>1. sweep'[s] = acting /\ acting.phase = "act" /\ acting.at = run.at
          /\ acting.todo = run.todo /\ acting.work = run.work
      BY <1>1, <2>1, <2>2
    <3> HIDE DEF acting
    <3> QED BY <1>2, <2>1, <3>1 DEF InHand, x
  <2>3. CASE ~Claimed(Head(run.work))
    <3>1. /\ rest.phase = "run" /\ rest.at = run.at /\ rest.todo = run.todo
          /\ rest.work = Tail(run.work) /\ sweep' = [sweep EXCEPT ![s] = Rest(rest)]
      BY <1>1, <2>1, <2>3
    <3>2. x \in Named(run.work) => x = Head(run.work) \/ x \in Named(Tail(run.work))
      BY <1>1, <2>1, NamedParts
    <3> HIDE DEF rest
    <3>3. At(rest)
      BY <1>2, <2>1, <3>1, <3>2 DEF InHand
    <3> QED BY <1>3, <3>1, <3>3 DEF x
  <2> QED BY <2>2, <2>3
<1>6. CASE Act(s)
  <2> DEFINE rest == [run EXCEPT !.phase = "run", !.work = Tail(run.work)]
  <2>1. /\ told' = told /\ run.phase = "act" /\ sweep' = [sweep EXCEPT ![s] = Rest(rest)]
    BY <1>6 DEF Act
  <2>2. run.work # <<>> /\ Head(run.work) \in told
    BY <2>1 DEF Inv, ClaimsHeld
  <2>3. /\ rest.phase = "run" /\ rest.at = run.at /\ rest.todo = run.todo
        /\ rest.work = Tail(run.work)
    BY <1>1
  <2>4. x \in Named(run.work) => x = Head(run.work) \/ x \in Named(Tail(run.work))
    BY <1>1, <2>2, NamedParts
  <2> HIDE DEF rest
  <2>5. At(rest)
    BY <1>2, <2>1, <2>2, <2>3, <2>4 DEF InHand
  <2> QED BY <1>3, <2>1, <2>3, <2>5 DEF x
<1> QED BY <1>4, <1>5, <1>6

LEMMA RunKeepsItsInstant ==
  ASSUME Inv, NEW s \in Sweepers, Evaluate(s) \/ Claim(s) \/ Act(s), sweep'[s].phase # "idle"
  PROVE  sweep'[s].at = sweep[s].at
<1> DEFINE run == sweep[s]
<1>1. sweep \in [Sweepers -> [phase : {"idle", "run", "act"}, at : Instants,
                              todo : SUBSET Cases, work : Seq(Stages)]]
  BY DEF Inv, RunsOK
<1>2. ASSUME NEW r, r.at = run.at, sweep' = [sweep EXCEPT ![s] = Rest(r)]
      PROVE  sweep'[s].at = run.at
  <2>1. sweep'[s] = Rest(r)
    BY <1>1, <1>2
  <2>2. Rest(r) = r
    BY <2>1 DEF Rest, IdleRun
  <2> QED BY <1>2, <2>1, <2>2
<1>3. CASE Evaluate(s)
  <2> DEFINE work(d) == WorkFor(d, "FIRST_RESPONSE", run.at) \o WorkFor(d, "RESOLUTION", run.at)
             next(d) == [run EXCEPT !.todo = run.todo \ {d}, !.work = work(d)]
  <2>1. PICK d \in run.todo : sweep' = [sweep EXCEPT ![s] = Rest(next(d))]
    BY <1>3 DEF Evaluate
  <2> HIDE DEF work
  <2>2. next(d).at = run.at
    BY <1>1
  <2> HIDE DEF next
  <2> QED BY <1>2, <2>1, <2>2
<1>4. CASE Claim(s)
  <2> DEFINE rest == [run EXCEPT !.work = Tail(run.work)]
  <2>1. \/ sweep' = [sweep EXCEPT ![s] = [run EXCEPT !.phase = "act"]]
        \/ sweep' = [sweep EXCEPT ![s] = Rest(rest)]
    BY <1>4 DEF Claim
  <2>2. rest.at = run.at
    BY <1>1
  <2> HIDE DEF rest
  <2>3. CASE sweep' = [sweep EXCEPT ![s] = Rest(rest)]
    BY <1>2, <2>2, <2>3
  <2>4. CASE sweep' = [sweep EXCEPT ![s] = [run EXCEPT !.phase = "act"]]
    BY <1>1, <2>4
  <2> QED BY <2>1, <2>3, <2>4
<1>5. CASE Act(s)
  <2> DEFINE rest == [run EXCEPT !.phase = "run", !.work = Tail(run.work)]
  <2>1. sweep' = [sweep EXCEPT ![s] = Rest(rest)]
    BY <1>5 DEF Act
  <2>2. rest.at = run.at
    BY <1>1
  <2> HIDE DEF rest
  <2> QED BY <1>2, <2>1, <2>2
<1> QED BY <1>3, <1>4, <1>5

LEMMA BreachesInHandStays ==
  ASSUME \A h \in Histories : Rostered(h), \A P \in Promises : \A t \in P : IsPromise(t),
         \A P \in Promises : OnePromise(P), Horizon < Lookahead,
         IsFiniteSet(Cases), Cardinality(Cases) <= BatchSize,
         Inv, Inv', Settings, FactsWritten, WaitsApart, BreachesKnown, BreachesInHand, [Next]_vars
  PROVE  BreachesInHand'
<1> SUFFICES ASSUME NEW s \in Sweepers, sweep'[s].phase # "idle",
                    NEW at \in Nat, at = sweep'[s].at,
                    NEW c \in Cases, NEW t \in targets', Applies(t)', BreachedAt(c, t, at)',
                    NEW L \in Due(c)
             PROVE  InHand(s, <<c, t.clock, L>>)'
  BY DEF BreachesInHand, Owes
<1> DEFINE x == <<c, t.clock, L>>
<1>1. /\ sweep \in [Sweepers -> [phase : {"idle", "run", "act"}, at : Instants,
                                 todo : SUBSET Cases, work : Seq(Stages)]]
      /\ now \in Nat /\ sweep[s].at <= now
  BY SweepAssumption DEF Inv, RunsOK, FactsOK, Instants, BreachesKnown
<1>2. t \in targets /\ Applies(t)
  BY FactsAdvance DEF Applies
<1>3. at <= now => BreachedAt(c, t, at)
  BY <1>2, BreachIsSettled
<1>4. ASSUME sweep'[s] = sweep[s], told \subseteq told' PROVE InHand(s, x)'
  <2>1. BreachesInHand /\ sweep[s].phase # "idle" /\ at = sweep[s].at
    BY <1>4
  <2>2. InHand(s, x)
    BY <1>1, <1>2, <1>3, <2>1 DEF BreachesInHand, Owes
  <2> QED BY <1>4, <2>2 DEF InHand
<1>5. CASE Begin(s)
  <2>1. PICK B \in Batches : sweep' = [sweep EXCEPT ![s] =
                               [phase |-> "run", at |-> now, todo |-> B, work |-> <<>>]]
    BY <1>5 DEF Begin
  <2>2. sweep'[s].at = now /\ sweep'[s].todo = B
    BY <1>1, <2>1
  <2>3. BreachedAt(c, t, at)
    BY <1>1, <1>3, <2>2
  <2>4. c \in B
    BY <2>3, BatchTakesAll DEF BreachedAt
  <2> QED BY <2>2, <2>4 DEF InHand
<1>6. CASE Evaluate(s) \/ Claim(s) \/ Act(s)
  <2>1. sweep[s].phase # "idle" /\ Owes(s)
    BY <1>6 DEF Evaluate, Claim, Act, BreachesInHand
  <2>2. at = sweep[s].at
    BY <1>6, RunKeepsItsInstant
  <2>3. BreachedAt(c, t, sweep[s].at)
    BY <1>1, <1>3, <2>2
  <2>4. x[1] \in sweep'[s].todo \/ x \in told' \/ x \in Named(sweep'[s].work)
    BY <1>2, <1>6, <2>1, <2>3, StepInHand
  <2> QED BY <2>4 DEF InHand
<1>7. ASSUME NEW r \in Sweepers, r # s, Run(r) \/ Break(r) PROVE InHand(s, x)'
  <2>1. sweep'[s] = sweep[s] /\ told \subseteq told'
    BY <1>1, <1>7 DEF Run, Begin, Evaluate, Claim, Act, Break
  <2> QED BY <1>4, <2>1
<1>8. CASE Break(s)
  <2>1. sweep'[s].phase = "idle"
    BY <1>1, <1>8 DEF Break, IdleRun
  <2> QED BY <2>1
<1>9. CASE Tick \/ UNCHANGED vars
  BY <1>4, <1>9 DEF Tick, vars
<1>10. ASSUME NEW d \in Cases,
              Arrive(d) \/ Reply(d) \/ AskCustomer(d) \/ CustomerAnswers(d) \/ Resolve(d)
       PROVE  InHand(s, x)'
  BY <1>4, <1>10 DEF Arrive, Reply, AskCustomer, CustomerAnswers, Resolve
<1> QED BY <1>5, <1>6, <1>7, <1>8, <1>9, <1>10 DEF Next, Run

(* A run that ends by itself leaves no breach behind that was there when it began: the
   breach is recorded, and the escalation where the category asks for one, whatever landed
   on the case meanwhile and wherever an earlier run died. *)
THEOREM NoBreachIsLeft ==
  ASSUME \A h \in Histories : Rostered(h), \A P \in Promises : \A t \in P : IsPromise(t),
         \A P \in Promises : OnePromise(P), Horizon < Lookahead,
         IsFiniteSet(Cases), Cardinality(Cases) <= BatchSize
  PROVE  Spec => RunsLeaveNoBreach
<1> DEFINE Leaves ==
      \A s \in Sweepers :
        (sweep[s].phase # "idle" /\ sweep'[s].phase = "idle" /\ crashes' = crashes) =>
          \A c \in Cases : \A t \in {u \in targets : Applies(u)} :
            BreachedAt(c, t, sweep[s].at) =>
              /\ <<c, t.clock, "BREACH">> \in told'
              /\ c \in Automatic => <<c, t.clock, "ESCALATION">> \in told'
           Safe == Inv /\ Settings /\ FactsWritten /\ WaitsApart /\ BreachesKnown /\ BreachesInHand
<1>1. Spec => []Safe
  <2>1. Init => WaitsApart /\ BreachesInHand
    BY DEF Init, WaitsApart, NotArrived, BreachesInHand, IdleRun
  <2>2. Inv /\ [Next]_vars /\ WaitsApart => WaitsApart'
    BY WaitsApartStays
  <2>3. Inv /\ Inv' /\ Settings /\ (FactsWritten /\ BreachesKnown) /\ WaitsApart /\ BreachesInHand
          /\ [Next]_vars => BreachesInHand'
    BY BreachesInHandStays
  <2>4. Spec => [](FactsWritten /\ BreachesKnown)
    BY BreachesKnownAlways
  <2> QED BY <2>1, <2>2, <2>3, <2>4, InvAlways, SettingsAlways, PTL DEF Spec
<1>2. ASSUME Safe, [Next]_vars PROVE Leaves
  <2> SUFFICES ASSUME NEW s \in Sweepers, sweep[s].phase # "idle", sweep'[s].phase = "idle",
                      crashes' = crashes, NEW c \in Cases, NEW t \in targets, Applies(t),
                      BreachedAt(c, t, sweep[s].at), NEW L \in Due(c)
               PROVE  <<c, t.clock, L>> \in told'
    BY Zenon DEF Due
  <2>1. CASE Evaluate(s) \/ Claim(s) \/ Act(s)
    BY <1>2, <2>1, StepInHand DEF BreachesInHand
  <2>2. crashes \in Nat /\ sweep \in [Sweepers -> [phase : {"idle", "run", "act"}, at : Instants,
                                            todo : SUBSET Cases, work : Seq(Stages)]]
    BY <1>2, SweepAssumption DEF Inv, RunsOK, Settings
  <2>3. ASSUME NEW r \in Sweepers, Begin(r) \/ Break(r) PROVE FALSE
    <3>1. CASE Break(r)
      <4>1. crashes' = crashes + 1
        BY <3>1 DEF Break
      <4> QED BY <2>2, <4>1
    <3>2. CASE Begin(r)
      <4>1. r # s
        BY <3>2 DEF Begin
      <4>2. sweep'[s] = sweep[s]
        BY <2>2, <3>2, <4>1 DEF Begin
      <4> QED BY <4>2
    <3> QED BY <2>3, <3>1, <3>2
  <2>4. ASSUME NEW r \in Sweepers, r # s, Evaluate(r) \/ Claim(r) \/ Act(r) PROVE FALSE
    BY <2>2, <2>4 DEF Evaluate, Claim, Act
  <2>5. ~(UNCHANGED sweep)
    OBVIOUS
  <2> QED BY <1>2, <2>1, <2>3, <2>4, <2>5
          DEF Next, Run, Tick, Arrive, Reply, AskCustomer, CustomerAnswers, Resolve, vars
<1>3. Safe /\ [Next]_vars => [Leaves]_vars
  BY <1>2
<1> QED BY <1>1, <1>3, PTL DEF Spec, RunsLeaveNoBreach
=============================================================================
