--------------------------- MODULE BillingNightProof ---------------------------
(***************************************************************************)
(* Theorems about BillingNight, for any projects, periods, runs, failures  *)
(* and deletions.                                                          *)
(***************************************************************************)
EXTENDS BillingNight, FiniteSetTheorems, TLAPS

-------------------------------------------------------------------------------
(* A date moves past the time.                                             *)
LEMMA DivFact ==
    ASSUME NEW a \in Nat, NEW b \in Nat \ {0}
    PROVE  a \div b \in Nat /\ b * (a \div b + 1) \in Nat /\ b * (a \div b + 1) > a
BY SMTT(30)

LEMMA AdvanceFact ==
    ASSUME TypeOK, NEW p \in Projects, next[p] <= clock
    PROVE  Advance(p) \in Nat /\ Advance(p) > clock
<1>1. next[p] \in Nat /\ clock \in Nat /\ Period[p] \in Nat \ {0}
  BY PeriodsArePositive DEF TypeOK
<1>2. clock - next[p] \in Nat
  BY <1>1
<1> DEFINE step == Period[p] * ((clock - next[p]) \div Period[p] + 1)
<1>3. step \in Nat /\ step > clock - next[p]
  BY <1>1, <1>2, DivFact
<1>4. Advance(p) = next[p] + step
  BY DEF Advance
<1> HIDE DEF step
<1> QED BY <1>1, <1>3, <1>4

-------------------------------------------------------------------------------
(* The inductive invariant.                                                *)

Started(r) == run[r] # Idle

(* Where the loop is: its variable says what has been seen.                *)
Loops(r) ==
    /\ run[r].todo \subseteq run[r].listed
    /\ (run[r].phase = "loop" /\ run[r].project = Unbound) => run[r].todo = run[r].listed
    /\ run[r].project = None => ~(run[r].listed \subseteq there)
    /\ run[r].phase \in {"bill", "log", "handle"} => run[r].project \in run[r].listed
    /\ run[r].phase = "handle" => (run[r].faults >= 1 \/ run[r].project \notin there)
    /\ run[r].phase = "completed" => run[r].todo = {}

LoopState == \A r \in Runs : Started(r) => Loops(r)

(* A staged date is past the time of its run.                              *)
Stages(r) ==
    /\ run[r].at <= clock
    /\ (run[r].phase = "bill" /\ run[r].next # None) => run[r].next > run[r].at

StagedDates == \A r \in Runs : Started(r) => Stages(r)

(* Beside a run that is alone only those go that came after its end.       *)
Aloneness ==
    \A r, m \in Runs : (r # m /\ Started(r) /\ run[r].alone /\ Going(m)) =>
        (~Going(r) /\ run[r].at <= run[m].at)

(* What a run without failures is through with has been billed, or is the  *)
(* project whose date is staged.                                           *)
Through(r) ==
    \A p \in (run[r].listed \ run[r].todo) \cap there :
        \/ next[p] > run[r].at
        \/ (run[r].phase = "bill" /\ p = run[r].project /\ run[r].next # None)

ThroughIsBilled ==
    \A r \in Runs : (Started(r) /\ run[r].alone /\ run[r].faults = 0) => Through(r)

(* An end before the end of the list.                                      *)
EndsEarly(r) ==
    \/ ~(run[r].listed \subseteq there)
    \/ run[r].faults >= 2
    \/ (run[r].faults = 1 /\ Cardinality(run[r].listed \ run[r].todo) = 1)

IInv == /\ TypeOK /\ LoopState /\ StagedDates /\ Aloneness /\ ThroughIsBilled
        /\ EarlyEndHasCause

-------------------------------------------------------------------------------
(* What each step does to its run.                                         *)

Carried(r) ==
    /\ run[r] \in Called /\ run'[r] \in Called
    /\ run' = [run EXCEPT ![r] = run'[r]]
    /\ run'[r].listed = run[r].listed
    /\ run'[r].at = run[r].at
    /\ run'[r].alone = run[r].alone
    /\ UNCHANGED <<clock, there>>

LEMMA GoingFact ==
    ASSUME TypeOK, NEW r \in Runs, run[r].phase # "idle"
    PROVE  Started(r) /\ run[r] \in Called
BY DEF TypeOK, Started, Idle

LEMMA GetsFact ==
    ASSUME TypeOK, NEW r \in Runs, NEW p \in Projects, Gets(r, p)
    PROVE  /\ Carried(r)
           /\ run[r].phase = "loop" /\ p \in run[r].todo
           /\ run'[r].todo = run[r].todo \ {p}
           /\ run'[r].faults = run[r].faults
           /\ next' = next /\ faults' = faults
           /\ \/ /\ p \in there /\ run'[r].phase = "bill"
                 /\ run'[r].project = p /\ run'[r].next = Advance(p)
              \/ /\ p \notin there /\ run'[r].phase = "loop"
                 /\ run'[r].project = None /\ run'[r].next = run[r].next
<1>1. run[r] \in Called
  BY GoingFact DEF Gets
<1>2. Advance(p) \in Nat \cup {None}
  BY AdvanceFact DEF Advance
<1>3. CASE p \in there
  <2> DEFINE w == [run[r] EXCEPT !.phase = "bill", !.todo = run[r].todo \ {p},
                                 !.project = p, !.next = Advance(p)]
  <2>1. run' = [run EXCEPT ![r] = w]
    BY <1>3 DEF Gets
  <2>2. run'[r] = w
    BY <2>1 DEF TypeOK
  <2>3. w \in Called
    BY <1>1, <1>2 DEF Called
  <2> QED BY <1>1, <1>3, <2>1, <2>2, <2>3 DEF Gets, Carried, Called
<1>4. CASE p \notin there
  <2> DEFINE w == [run[r] EXCEPT !.todo = run[r].todo \ {p}, !.project = None]
  <2>1. run' = [run EXCEPT ![r] = w]
    BY <1>4 DEF Gets
  <2>2. run'[r] = w
    BY <2>1 DEF TypeOK
  <2>3. w \in Called
    BY <1>1 DEF Called
  <2> QED BY <1>1, <1>4, <2>1, <2>2, <2>3 DEF Gets, Carried, Called
<1> QED BY <1>3, <1>4

LEMMA CommitsFact ==
    ASSUME TypeOK, NEW r \in Runs, Commits(r)
    PROVE  /\ Carried(r)
           /\ run[r].phase = "bill"
           /\ run'[r].todo = run[r].todo
           /\ run'[r].project = run[r].project
           /\ run'[r].faults = run[r].faults
           /\ run'[r].next = None /\ faults' = faults
           /\ \/ /\ run[r].next # None /\ run[r].project \notin there
                 /\ run'[r].phase = "handle" /\ next' = next
              \/ /\ run[r].next # None /\ run[r].project \in there
                 /\ run'[r].phase = "log" /\ run[r].next \in Nat
                 /\ next' = [next EXCEPT ![run[r].project] = run[r].next]
              \/ /\ run[r].next = None
                 /\ run'[r].phase = "log" /\ next' = next
<1>1. run[r] \in Called
  BY GoingFact DEF Commits
<1> DEFINE phase == IF run[r].next # None /\ run[r].project \notin there
                    THEN "handle" ELSE "log"
           w == [run[r] EXCEPT !.phase = phase, !.next = None]
<1>2. run' = [run EXCEPT ![r] = w]
  BY <1>1 DEF Commits, TypeOK
<1>3. run'[r] = w
  BY <1>2 DEF TypeOK
<1>4. w \in Called
  BY <1>1 DEF Called
<1>5. run[r].next # None => run[r].next \in Nat
  BY <1>1 DEF Called
<1>6. phase = "handle" \/ phase = "log"
  OBVIOUS
<1> QED BY <1>1, <1>2, <1>3, <1>4, <1>5 DEF Commits, Carried, Called

LEMMA GoesFact ==
    ASSUME TypeOK, NEW r \in Runs, Logs(r) \/ Handles(r) \/ Completes(r)
    PROVE  /\ Carried(r)
           /\ run'[r].todo = run[r].todo
           /\ run'[r].project = run[r].project
           /\ run'[r].faults = run[r].faults
           /\ run'[r].next = run[r].next
           /\ next' = next /\ faults' = faults
           /\ \/ /\ run[r].phase \in {"log", "handle"} /\ run'[r].phase = "loop"
                 /\ run[r].project \in there
              \/ /\ run[r].phase = "log" /\ run'[r].phase = "handle"
                 /\ run[r].project \notin there
              \/ /\ run[r].phase = "handle" /\ run'[r].phase = "aborted"
                 /\ run[r].project \notin there
              \/ /\ run[r].phase = "loop" /\ run'[r].phase = "completed"
                 /\ run[r].todo = {}
<1>1. run[r] \in Called
  BY GoingFact DEF Logs, Handles, Completes
<1>2. PICK phase \in {"loop", "handle", "aborted", "completed"} :
        /\ run' = [run EXCEPT ![r] = [run[r] EXCEPT !.phase = phase]]
        /\ \/ /\ run[r].phase \in {"log", "handle"} /\ phase = "loop"
              /\ run[r].project \in there
           \/ /\ run[r].phase = "log" /\ phase = "handle"
              /\ run[r].project \notin there
           \/ /\ run[r].phase = "handle" /\ phase = "aborted"
              /\ run[r].project \notin there
           \/ /\ run[r].phase = "loop" /\ phase = "completed"
              /\ run[r].todo = {}
  <2>1. CASE Logs(r)
    BY <1>1, <2>1 DEF Logs, TypeOK
  <2>2. CASE Handles(r)
    BY <1>1, <2>2 DEF Handles, TypeOK
  <2>3. CASE Completes(r)
    BY <1>1, <2>3 DEF Completes, TypeOK
  <2> QED BY <2>1, <2>2, <2>3
<1> DEFINE w == [run[r] EXCEPT !.phase = phase]
<1>3. run'[r] = w
  BY <1>2 DEF TypeOK
<1>4. w \in Called
  BY <1>1 DEF Called
<1>5. next' = next /\ faults' = faults /\ UNCHANGED <<clock, there>>
  BY DEF Logs, Handles, Completes
<1> QED BY <1>1, <1>2, <1>3, <1>4, <1>5 DEF Carried, Called

LEMMA FailsFact ==
    ASSUME TypeOK, NEW r \in Runs,
           \/ BillingFails(r) \/ HandlerFails(r)
           \/ \E p \in Projects : GetFails(r, p)
    PROVE  /\ Carried(r)
           /\ run'[r].project = run[r].project
           /\ run'[r].faults = run[r].faults + 1
           /\ next' = next /\ faults' = faults + 1
           /\ \/ /\ run[r].phase \in {"bill", "log"} /\ run'[r].phase = "handle"
                 /\ run'[r].todo = run[r].todo
              \/ /\ run[r].phase = "handle" /\ run'[r].phase = "aborted"
                 /\ run'[r].todo = run[r].todo
              \/ /\ run[r].phase = "loop"
                 /\ \E p \in run[r].todo : run'[r].todo = run[r].todo \ {p}
                 /\ \/ run'[r].phase = "loop" /\ run[r].project \in Projects
                    \/ run'[r].phase = "aborted" /\ run[r].project \notin Projects
<1>1. run[r] \in Called
  BY GoingFact DEF BillingFails, HandlerFails, GetFails
<1>2. run[r].faults + 1 \in Nat
  BY <1>1 DEF Called
<1>3. CASE BillingFails(r)
  <2> DEFINE w == [Struck(r) EXCEPT !.phase = "handle", !.next = None]
  <2>1. run' = [run EXCEPT ![r] = w]
    BY <1>3 DEF BillingFails, Fault
  <2>2. run'[r] = w
    BY <2>1 DEF TypeOK
  <2>3. w \in Called
    BY <1>1, <1>2 DEF Called, Struck
  <2> QED BY <1>1, <1>3, <2>1, <2>2, <2>3
          DEF BillingFails, Fault, Struck, Carried, Called
<1>4. CASE HandlerFails(r)
  <2> DEFINE w == [Struck(r) EXCEPT !.phase = "aborted"]
  <2>1. run' = [run EXCEPT ![r] = w]
    BY <1>4 DEF HandlerFails, Fault
  <2>2. run'[r] = w
    BY <2>1 DEF TypeOK
  <2>3. w \in Called
    BY <1>1, <1>2 DEF Called, Struck
  <2> QED BY <1>1, <1>4, <2>1, <2>2, <2>3
          DEF HandlerFails, Fault, Struck, Carried, Called
<1>5. ASSUME NEW p \in Projects, GetFails(r, p)
      PROVE  /\ Carried(r)
             /\ run'[r].project = run[r].project
             /\ run'[r].faults = run[r].faults + 1
             /\ run[r].phase = "loop"
             /\ p \in run[r].todo /\ run'[r].todo = run[r].todo \ {p}
             /\ \/ run'[r].phase = "loop" /\ run[r].project \in Projects
                \/ run'[r].phase = "aborted" /\ run[r].project \notin Projects
             /\ next' = next /\ faults' = faults + 1
  <2> DEFINE phase == IF Readable(run[r].project) THEN "loop" ELSE "aborted"
             w == [Struck(r) EXCEPT !.todo = run[r].todo \ {p}, !.phase = phase]
  <2>1. run' = [run EXCEPT ![r] = w]
    BY <1>5 DEF GetFails, Fault
  <2>2. run'[r] = w
    BY <2>1 DEF TypeOK
  <2>3. w \in Called
    BY <1>1, <1>2 DEF Called, Struck
  <2> QED BY <1>1, <1>5, <2>1, <2>2, <2>3
          DEF GetFails, Fault, Struck, Readable, Carried, Called
<1> QED BY <1>3, <1>4, <1>5

LEMMA DiesFact ==
    ASSUME TypeOK, NEW r \in Runs, Dies(r)
    PROVE  /\ run' = [run EXCEPT ![r] = Idle] /\ faults' = faults + 1
           /\ UNCHANGED <<clock, there, next>>
BY DEF Dies, Fault

LEMMA ListsFact ==
    ASSUME TypeOK, NEW r \in Runs, Lists(r)
    PROVE  /\ run'[r] \in Called
           /\ run'[r].phase = "loop" /\ run'[r].listed = Due /\ run'[r].todo = Due
           /\ run'[r].at = clock /\ run'[r].project = Unbound
           /\ run'[r].next = None /\ run'[r].faults = 0
           /\ run'[r].alone = (\A o \in Runs : ~Going(o))
           /\ \A m \in Runs \ {r} :
                \/ Going(m) /\ run'[m] = [run[m] EXCEPT !.alone = FALSE]
                \/ ~Going(m) /\ run'[m] = run[m]
           /\ run' = [m \in Runs |-> run'[m]]
           /\ ~Going(r)
           /\ UNCHANGED <<clock, there, next, faults>>
<1> DEFINE called == [phase |-> "loop", listed |-> Due, at |-> clock, todo |-> Due,
                      project |-> Unbound, next |-> None, faults |-> 0,
                      alone |-> \A o \in Runs : ~Going(o)]
<1>1. (\A o \in Runs : ~Going(o)) \in BOOLEAN
  OBVIOUS
<1>2. called \in Called
  BY <1>1 DEF Called, TypeOK, Due
<1>3. run' = [m \in Runs |->
                CASE m = r -> called
                  [] m # r /\ Going(m) -> [run[m] EXCEPT !.alone = FALSE]
                  [] OTHER -> run[m]]
  BY DEF Lists
<1>4. run'[r] = called
  BY <1>3
<1>5. \A m \in Runs \ {r} :
        \/ Going(m) /\ run'[m] = [run[m] EXCEPT !.alone = FALSE]
        \/ ~Going(m) /\ run'[m] = run[m]
  BY <1>3
<1>6. run' = [m \in Runs |-> run'[m]]
  BY <1>3
<1> QED BY <1>2, <1>4, <1>5, <1>6 DEF Lists

-------------------------------------------------------------------------------
(* A step is one of four kinds.                                            *)

Turns(r) ==
    \/ Commits(r) \/ Logs(r) \/ Handles(r) \/ Completes(r)
    \/ BillingFails(r) \/ HandlerFails(r)
    \/ \E p \in Projects : Gets(r, p) \/ GetFails(r, p)

Outside == Tick \/ (\E p \in Projects : DeleteProject(p)) \/ UNCHANGED vars

LEMMA StepKinds ==
    ASSUME [Next]_vars
    PROVE  \/ \E r \in Runs : Lists(r) \/ Turns(r) \/ Dies(r)
           \/ Outside
BY DEF Next, GoesOn, Fails, Turns, Outside

LEMMA OutsideFact ==
    ASSUME TypeOK, Outside
    PROVE  /\ run' = run /\ next' = next
           /\ there' \subseteq there /\ clock' \in Nat /\ clock <= clock'
           /\ faults' = faults
BY DEF TypeOK, Outside, Tick, DeleteProject, vars

LEMMA TurnsFact ==
    ASSUME TypeOK, NEW r \in Runs, Turns(r)
    PROVE  /\ Carried(r) /\ Going(r)
           /\ next' \in [Projects -> Nat] /\ faults' \in Nat
           /\ run'[r].phase # "idle"
<1>1. CASE Commits(r)
  <2>1. run[r].next \in Nat => [next EXCEPT ![run[r].project] = run[r].next] \in [Projects -> Nat]
    BY DEF TypeOK
  <2> QED BY <1>1, <2>1, CommitsFact DEF TypeOK, Going
<1>2. CASE Logs(r) \/ Handles(r) \/ Completes(r)
  BY <1>2, GoesFact DEF TypeOK, Going
<1>3. CASE BillingFails(r) \/ HandlerFails(r) \/ \E p \in Projects : GetFails(r, p)
  BY <1>3, FailsFact DEF TypeOK, Going
<1>4. ASSUME NEW p \in Projects, Gets(r, p)
      PROVE  /\ Carried(r) /\ Going(r)
             /\ next' \in [Projects -> Nat] /\ faults' \in Nat
             /\ run'[r].phase # "idle"
  BY <1>4, GetsFact DEF TypeOK, Going
<1> QED BY <1>1, <1>2, <1>3, <1>4 DEF Turns

(* The other runs stay as they are.                                        *)
LEMMA OthersStay ==
    ASSUME TypeOK, NEW r \in Runs, Carried(r), NEW m \in Runs, m # r
    PROVE  run'[m] = run[m]
BY DEF Carried, TypeOK

(* Every step keeps the types.                                             *)
LEMMA TypeStep == TypeOK /\ [Next]_vars => TypeOK'
<1> SUFFICES ASSUME TypeOK, [Next]_vars
             PROVE  TypeOK'
  OBVIOUS
<1>1. ASSUME NEW r \in Runs, Lists(r)
      PROVE  TypeOK'
  <2>1. ASSUME NEW m \in Runs
        PROVE  run'[m] \in Called \cup {Idle}
    <3>1. CASE m = r
      BY <1>1, <3>1, ListsFact
    <3>2. CASE m # r /\ Going(m)
      <4>1. run[m] \in Called
        BY <3>2, GoingFact DEF Going
      <4>2. [run[m] EXCEPT !.alone = FALSE] \in Called
        BY <4>1 DEF Called
      <4> QED BY <1>1, <3>2, <4>2, ListsFact
    <3>3. CASE m # r /\ ~Going(m)
      BY <1>1, <3>3, ListsFact DEF TypeOK
    <3> QED BY <3>1, <3>2, <3>3
  <2>2. run' \in [Runs -> Called \cup {Idle}]
    BY <1>1, <2>1, ListsFact
  <2> QED BY <1>1, <2>2, ListsFact DEF TypeOK
<1>2. ASSUME NEW r \in Runs, Turns(r)
      PROVE  TypeOK'
  BY <1>2, TurnsFact DEF TypeOK, Carried
<1>3. ASSUME NEW r \in Runs, Dies(r)
      PROVE  TypeOK'
  BY <1>3, DiesFact DEF TypeOK
<1>4. CASE Outside
  BY <1>4, OutsideFact DEF TypeOK
<1> QED BY <1>1, <1>2, <1>3, <1>4, StepKinds

(* The initial states.                                                     *)
LEMMA InitIInv == Init => IInv
<1> SUFFICES ASSUME Init
             PROVE  IInv
  OBVIOUS
<1>1. TypeOK
  BY PeriodsArePositive, BoundsAreNatural DEF Init, TypeOK
<1>2. \A r \in Runs : ~Started(r) /\ run[r].phase = "idle"
  BY DEF Init, Started, Idle
<1> QED BY <1>1, <1>2 DEF IInv, LoopState, StagedDates, Aloneness, ThroughIsBilled,
                          EarlyEndHasCause

-------------------------------------------------------------------------------
LEMMA LoopStep == TypeOK /\ LoopState /\ [Next]_vars => LoopState'
<1> SUFFICES ASSUME TypeOK, LoopState, [Next]_vars, NEW m \in Runs, Started(m)'
             PROVE  Loops(m)'
  BY DEF LoopState
<1>a. there' \subseteq there /\ run'[m] = run[m] => Loops(m)'
  BY DEF LoopState, Loops, Started
<1>1. ASSUME NEW r \in Runs, Lists(r)
      PROVE  Loops(m)'
  <2>1. CASE m = r
    <3>1. /\ run'[m].phase = "loop" /\ run'[m].project = Unbound
          /\ run'[m].todo = run'[m].listed
      BY <1>1, <2>1, ListsFact
    <3>2. Unbound # None
      BY NoneIsNoProject
    <3> QED BY <3>1, <3>2 DEF Loops
  <2>2. CASE m # r /\ Going(m)
    <3>1. run[m] \in Called /\ Started(m)
      BY <2>2, GoingFact DEF Going
    <3>2. Loops(m)
      BY <3>1 DEF LoopState
    <3>3. run'[m] = [run[m] EXCEPT !.alone = FALSE] /\ there' = there
      BY <1>1, <2>2, ListsFact
    <3>4. /\ run'[m].todo = run[m].todo /\ run'[m].listed = run[m].listed
          /\ run'[m].phase = run[m].phase /\ run'[m].project = run[m].project
          /\ run'[m].faults = run[m].faults
      BY <3>1, <3>3 DEF Called
    <3> QED BY <3>2, <3>3, <3>4 DEF Loops
  <2>3. CASE m # r /\ ~Going(m)
    BY <1>1, <1>a, <2>3, ListsFact
  <2> QED BY <2>1, <2>2, <2>3
<1>2. ASSUME NEW r \in Runs, Turns(r), m # r
      PROVE  Loops(m)'
  BY <1>2, <1>a, TurnsFact, OthersStay DEF Carried
<1>3. ASSUME Turns(m)
      PROVE  Loops(m)'
  <2>1. Carried(m) /\ Started(m)
    BY <1>3, TurnsFact, GoingFact DEF Going
  <2>2. Loops(m)
    BY <2>1 DEF LoopState
  <2>3. /\ run[m].todo \subseteq run[m].listed /\ run[m].listed \subseteq Projects
        /\ run[m].faults \in Nat /\ there' = there
        /\ run'[m].listed = run[m].listed
    BY <2>1, <2>2 DEF Carried, Called, Loops
  <2>4. CASE Commits(m)
    <3> USE CommitsFact
    <3> QED BY <2>2, <2>3, <2>4 DEF Loops
  <2>5. CASE Logs(m) \/ Handles(m) \/ Completes(m)
    <3>1. run[m].phase \in {"log", "handle"} => run[m].project \in Projects
      BY <2>2, <2>3 DEF Loops
    <3>2. Unbound \notin Projects
      BY <2>5, GoesFact, NoneIsNoProject DEF Carried, Called, TypeOK
    <3> QED BY <2>2, <2>3, <2>5, <3>1, <3>2, GoesFact DEF Loops
  <2>6. CASE BillingFails(m) \/ HandlerFails(m) \/ \E p \in Projects : GetFails(m, p)
    <3>1. Unbound \notin Projects
      BY NoneIsNoProject
    <3>2. run'[m].faults >= 1
      BY <2>3, <2>6, FailsFact
    <3> QED BY <2>2, <2>3, <2>6, <3>1, <3>2, FailsFact DEF Loops
  <2>7. ASSUME NEW p \in Projects, Gets(m, p)
        PROVE  Loops(m)'
    <3>1. Unbound \notin Projects \cup {None} /\ None \notin Projects
      BY NoneIsNoProject
    <3> QED BY <2>2, <2>3, <2>7, <3>1, GetsFact DEF Loops
  <2> QED BY <1>3, <2>4, <2>5, <2>6, <2>7 DEF Turns
<1>4. ASSUME NEW r \in Runs, Dies(r)
      PROVE  Loops(m)'
  <2>1. m # r
    BY <1>4, DiesFact DEF Started, TypeOK
  <2> QED BY <1>4, <1>a, <2>1, DiesFact DEF TypeOK
<1>5. CASE Outside
  BY <1>5, <1>a, OutsideFact
<1> QED BY <1>1, <1>2, <1>3, <1>4, <1>5, StepKinds

LEMMA StagedStep == TypeOK /\ StagedDates /\ [Next]_vars => StagedDates'
<1> SUFFICES ASSUME TypeOK, StagedDates, [Next]_vars, NEW m \in Runs, Started(m)'
             PROVE  Stages(m)'
  BY DEF StagedDates
<1>c. clock \in Nat
  BY DEF TypeOK
<1>a. ASSUME clock' \in Nat, clock <= clock', run'[m] = run[m]
      PROVE  Stages(m)'
  <2>1. Started(m) /\ Stages(m)
    BY <1>a DEF StagedDates, Started
  <2>2. run[m].at \in Nat
    BY <2>1 DEF Started, TypeOK, Called
  <2> QED BY <1>a, <1>c, <2>1, <2>2 DEF Stages
<1>1. ASSUME NEW r \in Runs, Lists(r)
      PROVE  Stages(m)'
  <2>1. CASE m = r
    <3>1. run'[m].at = clock /\ run'[m].phase = "loop" /\ clock' = clock
      BY <1>1, <2>1, ListsFact
    <3> QED BY <1>c, <3>1 DEF Stages
  <2>2. CASE m # r /\ Going(m)
    <3>1. run[m] \in Called /\ Started(m)
      BY <2>2, GoingFact DEF Going
    <3>2. Stages(m)
      BY <3>1 DEF StagedDates
    <3> QED BY <1>1, <2>2, <3>1, <3>2, ListsFact DEF Stages, Called
  <2>3. CASE m # r /\ ~Going(m)
    <3>1. run'[m] = run[m] /\ clock' = clock
      BY <1>1, <2>3, ListsFact
    <3> QED BY <1>a, <1>c, <3>1
  <2> QED BY <2>1, <2>2, <2>3
<1>2. ASSUME NEW r \in Runs, Turns(r), m # r
      PROVE  Stages(m)'
  BY <1>2, <1>a, <1>c, TurnsFact, OthersStay DEF Carried
<1>3. ASSUME Turns(m)
      PROVE  Stages(m)'
  <2>1. Carried(m) /\ Started(m)
    BY <1>3, TurnsFact, GoingFact DEF Going
  <2>2. Stages(m)
    BY <2>1 DEF StagedDates
  <2>3. run'[m].at = run[m].at /\ clock' = clock
    BY <2>1 DEF Carried
  <2>4. ASSUME NEW p \in Projects, Gets(m, p)
        PROVE  Stages(m)'
    <3>1. CASE run'[m].phase = "bill"
      <4>1. run'[m].next = Advance(p)
        BY <2>4, <3>1, GetsFact
      <4>2. Advance(p) = None \/ (Advance(p) \in Nat /\ Advance(p) > clock)
        BY AdvanceFact DEF Advance
      <4>3. run[m].at \in Nat
        BY <2>1 DEF Carried, Called
      <4> QED BY <1>c, <2>2, <2>3, <4>1, <4>2, <4>3 DEF Stages
    <3>2. CASE run'[m].phase # "bill"
      BY <2>2, <2>3, <3>2 DEF Stages
    <3> QED BY <3>1, <3>2
  <2>5. CASE ~\E p \in Projects : Gets(m, p)
    <3>1. run'[m].phase # "bill"
      BY <1>3, <2>5, CommitsFact, GoesFact, FailsFact DEF Turns
    <3> QED BY <2>2, <2>3, <3>1 DEF Stages
  <2> QED BY <2>4, <2>5
<1>4. ASSUME NEW r \in Runs, Dies(r)
      PROVE  Stages(m)'
  <2>1. m # r
    BY <1>4, DiesFact DEF Started, TypeOK
  <2> QED BY <1>4, <1>a, <1>c, <2>1, DiesFact DEF TypeOK
<1>5. CASE Outside
  BY <1>5, <1>a, OutsideFact
<1> QED BY <1>1, <1>2, <1>3, <1>4, <1>5, StepKinds

LEMMA AloneStep == TypeOK /\ StagedDates /\ Aloneness /\ [Next]_vars => Aloneness'
<1> SUFFICES ASSUME TypeOK, StagedDates, Aloneness, [Next]_vars,
                    NEW m \in Runs, NEW n \in Runs, m # n,
                    Started(m)', run'[m].alone, Going(n)'
             PROVE  ~Going(m)' /\ run'[m].at <= run'[n].at
  BY DEF Aloneness
<1>c. clock \in Nat
  BY DEF TypeOK
<1>a. ASSUME run'[m] = run[m], Going(n), run'[n].at = run[n].at
      PROVE  ~Going(m)' /\ run'[m].at <= run'[n].at
  BY <1>a DEF Aloneness, Started, Going
<1>1. ASSUME NEW r \in Runs, Lists(r)
      PROVE  ~Going(m)' /\ run'[m].at <= run'[n].at
  <2>1. CASE m = r
    <3>1. ~Going(n) /\ run'[n] = run[n]
      BY <1>1, <2>1, ListsFact
    <3> QED BY <3>1 DEF Going
  <2>2. CASE m # r
    <3>1. ~(Going(m) /\ run'[m] = [run[m] EXCEPT !.alone = FALSE])
      <4> SUFFICES ASSUME Going(m), run'[m] = [run[m] EXCEPT !.alone = FALSE]
                   PROVE  FALSE
        OBVIOUS
      <4>1. run[m] \in Called
        BY GoingFact DEF Going
      <4>2. run'[m].alone = FALSE
        BY <4>1 DEF Called
      <4> QED BY <4>2
    <3>2. ~Going(m) /\ run'[m] = run[m]
      BY <1>1, <2>2, <3>1, ListsFact
    <3>3. CASE n = r
      <4>1. run'[n].at = clock
        BY <1>1, <3>3, ListsFact
      <4>2. run[m].at <= clock
        BY <3>2 DEF StagedDates, Stages, Started
      <4> QED BY <3>2, <4>1, <4>2 DEF Going
    <3>4. CASE n # r
      <4>1. \/ Going(n) /\ run'[n] = [run[n] EXCEPT !.alone = FALSE]
            \/ ~Going(n) /\ run'[n] = run[n]
        BY <1>1, <3>4, ListsFact
      <4>2. Going(n)
        BY <4>1 DEF Going
      <4>3. run[n] \in Called
        BY <4>2, GoingFact DEF Going
      <4>4. run'[n].at = run[n].at
        BY <4>1, <4>2, <4>3 DEF Called
      <4> QED BY <1>a, <3>2, <4>2, <4>4
    <3> QED BY <3>3, <3>4
  <2> QED BY <2>1, <2>2
<1>2. ASSUME NEW r \in Runs, Turns(r)
      PROVE  ~Going(m)' /\ run'[m].at <= run'[n].at
  <2>1. Carried(r) /\ Going(r)
    BY <1>2, TurnsFact
  <2>2. Going(n) /\ run'[n].at = run[n].at
    <3>1. CASE n = r
      BY <2>1, <3>1 DEF Carried
    <3>2. CASE n # r
      BY <2>1, <3>2, OthersStay DEF Going
    <3> QED BY <3>1, <3>2
  <2>3. CASE m = r
    BY <2>1, <2>2, <2>3, GoingFact DEF Aloneness, Carried, Going
  <2>4. CASE m # r
    BY <1>a, <2>1, <2>2, <2>4, OthersStay
  <2> QED BY <2>3, <2>4
<1>3. ASSUME NEW r \in Runs, Dies(r)
      PROVE  ~Going(m)' /\ run'[m].at <= run'[n].at
  <2>1. m # r /\ n # r
    BY <1>3, DiesFact DEF Started, Going, Idle, TypeOK
  <2>2. run'[m] = run[m] /\ run'[n] = run[n]
    BY <1>3, <2>1, DiesFact DEF TypeOK
  <2> QED BY <1>a, <2>2 DEF Going
<1>4. CASE Outside
  BY <1>4, <1>a, OutsideFact DEF Going
<1> QED BY <1>1, <1>2, <1>3, <1>4, StepKinds

LEMMA ThroughStep ==
    TypeOK /\ LoopState /\ StagedDates /\ Aloneness /\ ThroughIsBilled /\ [Next]_vars
        => ThroughIsBilled'
<1> SUFFICES ASSUME TypeOK, LoopState, StagedDates, Aloneness, ThroughIsBilled, [Next]_vars,
                    NEW m \in Runs, Started(m)', run'[m].alone, run'[m].faults = 0
             PROVE  Through(m)'
  BY DEF ThroughIsBilled
<1>n. None \notin Nat
  BY NoneIsNoProject
<1>a. ASSUME run'[m] = run[m], there' \subseteq there, next' = next
      PROVE  Through(m)'
  BY <1>a DEF ThroughIsBilled, Through, Started
<1>1. ASSUME NEW r \in Runs, Lists(r)
      PROVE  Through(m)'
  <2>1. CASE m = r
    BY <1>1, <2>1, ListsFact DEF Through
  <2>2. CASE m # r
    <3>1. ~(Going(m) /\ run'[m] = [run[m] EXCEPT !.alone = FALSE])
      <4> SUFFICES ASSUME Going(m), run'[m] = [run[m] EXCEPT !.alone = FALSE]
                   PROVE  FALSE
        OBVIOUS
      <4>1. run[m] \in Called
        BY GoingFact DEF Going
      <4>2. run'[m].alone = FALSE
        BY <4>1 DEF Called
      <4> QED BY <4>2
    <3>2. run'[m] = run[m]
      BY <1>1, <2>2, <3>1, ListsFact
    <3>3. there' = there /\ next' = next
      BY <1>1, ListsFact
    <3> QED BY <1>a, <3>2, <3>3
  <2> QED BY <2>1, <2>2
<1>2. ASSUME NEW r \in Runs, Turns(r), m # r
      PROVE  Through(m)'
  <2>1. /\ Carried(r) /\ Going(r) /\ run'[m] = run[m] /\ there' = there
    BY <1>2, TurnsFact, OthersStay DEF Carried
  <2>2. CASE next' = next
    BY <1>a, <2>1, <2>2
  <2>3. CASE next' # next
    <3>1. /\ run[r].phase = "bill" /\ run[r].next \in Nat
          /\ next' = [next EXCEPT ![run[r].project] = run[r].next]
      BY <1>2, <2>3, CommitsFact, GoesFact, FailsFact, GetsFact DEF Turns
    <3>2. Started(r) /\ Started(m)
      BY <2>1, GoingFact DEF Started, Going
    <3>3. run[r].next > run[r].at
      BY <1>n, <3>1, <3>2 DEF StagedDates, Stages
    <3>4. run[m].at <= run[r].at /\ ~Going(m)
      BY <1>2, <2>1, <3>2 DEF Aloneness
    <3>5. run[m].at \in Nat /\ run[r].at \in Nat /\ run[m].listed \subseteq Projects
      BY <3>2 DEF TypeOK, Called, Started
    <3>6. Through(m)
      BY <2>1, <3>2 DEF ThroughIsBilled
    <3>7. ASSUME NEW p \in (run[m].listed \ run[m].todo) \cap there
          PROVE  next'[p] > run[m].at
      <4>1. next[p] > run[m].at
        BY <3>4, <3>6 DEF Through, Going
      <4>2. next'[p] = IF p = run[r].project THEN run[r].next ELSE next[p]
        BY <3>1, <3>5 DEF TypeOK
      <4> QED BY <3>1, <3>3, <3>4, <3>5, <4>1, <4>2
    <3> QED BY <2>1, <3>7 DEF Through
  <2> QED BY <2>2, <2>3
<1>3. ASSUME Turns(m)
      PROVE  Through(m)'
  <2>1. Carried(m) /\ Started(m)
    BY <1>3, TurnsFact, GoingFact DEF Going
  <2>2. /\ run[m].faults \in Nat /\ there' = there /\ run[m].at \in Nat
        /\ run'[m].listed = run[m].listed /\ run'[m].at = run[m].at
        /\ run[m].alone /\ run[m].listed \subseteq Projects
        /\ run'[m].todo \subseteq Projects
    BY <2>1 DEF Carried, Called
  <2>3. ~(\/ BillingFails(m) \/ HandlerFails(m)
          \/ \E p \in Projects : GetFails(m, p))
    BY <2>2, FailsFact
  <2>4. run[m].faults = 0
    BY <1>3, <2>3, CommitsFact, GoesFact, GetsFact DEF Turns
  <2>5. Through(m)
    BY <2>1, <2>2, <2>4 DEF ThroughIsBilled
  <2>6. CASE Commits(m)
    <3>1. Loops(m) /\ Stages(m)
      BY <2>1 DEF LoopState, StagedDates
    <3>2. run[m].project \in run[m].listed
      BY <2>6, <3>1, CommitsFact DEF Loops
    <3>3. ASSUME NEW p \in (run[m].listed \ run[m].todo) \cap there
          PROVE  next'[p] > run[m].at
      <4>1. CASE p = run[m].project /\ run[m].next # None
        <5>1. next'[p] = run[m].next
          BY <2>2, <2>6, <4>1, CommitsFact DEF TypeOK
        <5> QED BY <2>6, <3>1, <4>1, <5>1, CommitsFact DEF Stages
      <4>2. CASE ~(p = run[m].project /\ run[m].next # None)
        <5>1. next[p] > run[m].at
          BY <2>5, <4>2 DEF Through
        <5>2. next'[p] = next[p]
          BY <2>2, <2>6, <4>2, CommitsFact DEF TypeOK
        <5> QED BY <5>1, <5>2
      <4> QED BY <4>1, <4>2
    <3> QED BY <2>2, <2>6, <3>3, CommitsFact DEF Through
  <2>7. CASE Logs(m) \/ Handles(m) \/ Completes(m)
    <3>1. next' = next /\ run'[m].todo = run[m].todo /\ run[m].phase # "bill"
      BY <2>7, GoesFact
    <3> QED BY <2>2, <2>5, <3>1 DEF Through
  <2>8. ASSUME NEW p \in Projects, Gets(m, p)
        PROVE  Through(m)'
    <3>1. /\ next' = next /\ run'[m].todo = run[m].todo \ {p} /\ run[m].phase = "loop"
          /\ p \in there => /\ run'[m].phase = "bill" /\ run'[m].project = p
                            /\ run'[m].next = Advance(p)
      BY <2>8, GetsFact
    <3>2. Stages(m)
      BY <2>1 DEF StagedDates
    <3>3. Advance(p) = None => next[p] > run[m].at
      <4>1. next[p] \in Nat /\ clock \in Nat
        BY DEF TypeOK
      <4>2. Advance(p) = None => next[p] > clock
        BY <1>n, <4>1, AdvanceFact
      <4> QED BY <2>2, <3>2, <4>1, <4>2 DEF Stages
    <3>4. ASSUME NEW q \in (run[m].listed \ run'[m].todo) \cap there
          PROVE  \/ next[q] > run[m].at
                 \/ (run'[m].phase = "bill" /\ q = run'[m].project /\ run'[m].next # None)
      <4>1. CASE q = p
        BY <3>1, <3>3, <3>4, <4>1
      <4>2. CASE q # p
        BY <2>5, <3>1, <3>4, <4>2 DEF Through
      <4> QED BY <4>1, <4>2
    <3> QED BY <2>2, <3>1, <3>4 DEF Through
  <2> QED BY <1>3, <2>3, <2>6, <2>7, <2>8 DEF Turns
<1>4. ASSUME NEW r \in Runs, Dies(r)
      PROVE  Through(m)'
  <2>1. m # r
    BY <1>4, DiesFact DEF Started, TypeOK
  <2> QED BY <1>4, <1>a, <2>1, DiesFact DEF TypeOK
<1>5. CASE Outside
  BY <1>5, <1>a, OutsideFact
<1> QED BY <1>1, <1>2, <1>3, <1>4, <1>5, StepKinds

LEMMA EarlyStep ==
    TypeOK /\ LoopState /\ EarlyEndHasCause /\ [Next]_vars => EarlyEndHasCause'
<1> SUFFICES ASSUME TypeOK, LoopState, EarlyEndHasCause, [Next]_vars,
                    NEW m \in Runs, run'[m].phase = "aborted"
             PROVE  EndsEarly(m)'
  BY DEF EarlyEndHasCause, EndsEarly
<1>a. ASSUME run'[m] = run[m], there' \subseteq there
      PROVE  EndsEarly(m)'
  BY <1>a DEF EarlyEndHasCause, EndsEarly
<1>1. ASSUME NEW r \in Runs, Lists(r)
      PROVE  EndsEarly(m)'
  <2>1. m # r
    BY <1>1, ListsFact
  <2>2. ~Going(m)
    <3> SUFFICES ASSUME Going(m)
                 PROVE  FALSE
      OBVIOUS
    <3>1. run[m] \in Called /\ run[m].phase # "aborted"
      BY GoingFact DEF Going
    <3>2. run'[m] = [run[m] EXCEPT !.alone = FALSE]
      BY <1>1, <2>1, ListsFact
    <3> QED BY <3>1, <3>2 DEF Called
  <2> QED BY <1>1, <1>a, <2>1, <2>2, ListsFact
<1>2. ASSUME NEW r \in Runs, Turns(r), m # r
      PROVE  EndsEarly(m)'
  BY <1>2, <1>a, TurnsFact, OthersStay DEF Carried
<1>3. ASSUME Turns(m)
      PROVE  EndsEarly(m)'
  <2>1. Carried(m) /\ Started(m)
    BY <1>3, TurnsFact, GoingFact DEF Going
  <2>2. Loops(m)
    BY <2>1 DEF LoopState
  <2>3. /\ run[m].faults \in Nat /\ there' = there /\ run'[m].listed = run[m].listed
        /\ run[m].project \in Projects \cup {None, Unbound}
    BY <2>1 DEF Carried, Called
  <2>4. ~Commits(m) /\ ~\E p \in Projects : Gets(m, p)
    BY CommitsFact, GetsFact
  <2>5. CASE Logs(m) \/ Handles(m) \/ Completes(m)
    <3>1. run[m].phase = "handle" /\ run[m].project \notin there
      BY <2>5, GoesFact
    <3>2. run[m].project \in run[m].listed
      BY <2>2, <3>1 DEF Loops
    <3> QED BY <2>3, <3>1, <3>2 DEF EndsEarly
  <2>6. CASE BillingFails(m) \/ HandlerFails(m) \/ \E p \in Projects : GetFails(m, p)
    <3>1. run'[m].faults = run[m].faults + 1
      BY <2>6, FailsFact
    <3>2. CASE run[m].phase = "handle"
      <4>1. run[m].project \in run[m].listed
        BY <2>2, <3>2 DEF Loops
      <4>2. run[m].faults >= 1 \/ run[m].project \notin there
        BY <2>2, <3>2 DEF Loops
      <4> QED BY <2>3, <3>1, <4>1, <4>2 DEF EndsEarly
    <3>3. CASE run[m].phase # "handle"
      <4>1. /\ run[m].phase = "loop" /\ run[m].project \notin Projects
            /\ \E p \in run[m].todo : run'[m].todo = run[m].todo \ {p}
        BY <2>6, <3>3, FailsFact
      <4>2. CASE run[m].project = None
        BY <2>2, <2>3, <4>2 DEF Loops, EndsEarly
      <4>3. CASE run[m].project = Unbound /\ run[m].faults = 0
        <5>1. PICK p \in run[m].todo : run'[m].todo = run[m].todo \ {p}
          BY <4>1
        <5>2. run[m].todo = run[m].listed
          BY <2>2, <4>1, <4>3 DEF Loops
        <5>3. run'[m].listed \ run'[m].todo = {p}
          BY <2>3, <5>1, <5>2
        <5>4. Cardinality({p}) = 1
          BY FS_Singleton
        <5> QED BY <3>1, <4>3, <5>3, <5>4 DEF EndsEarly
      <4>4. CASE run[m].faults # 0
        BY <2>3, <3>1, <4>4 DEF EndsEarly
      <4> QED BY <2>3, <4>1, <4>2, <4>3, <4>4
    <3> QED BY <3>2, <3>3
  <2> QED BY <1>3, <2>4, <2>5, <2>6 DEF Turns
<1>4. ASSUME NEW r \in Runs, Dies(r)
      PROVE  EndsEarly(m)'
  <2>1. m # r
    BY <1>4, DiesFact DEF Idle, TypeOK
  <2> QED BY <1>4, <1>a, <2>1, DiesFact DEF TypeOK
<1>5. CASE Outside
  BY <1>5, <1>a, OutsideFact
<1> QED BY <1>1, <1>2, <1>3, <1>4, <1>5, StepKinds

-------------------------------------------------------------------------------
(* The invariant, and with it the types, are kept by every step of every  *)
(* run, failure, deletion and tick.                                        *)
THEOREM Invariance == Spec => []IInv
<1>1. IInv /\ [Next]_vars => IInv'
  BY TypeStep, LoopStep, StagedStep, AloneStep, ThroughStep, EarlyStep DEF IInv
<1> QED BY <1>1, InitIInv, PTL DEF Spec

(* The variables keep their types.                                         *)
THEOREM TypeCorrect == Spec => []TypeOK
<1>1. IInv => TypeOK
  BY DEF IInv
<1> QED BY <1>1, Invariance, PTL

(* The loop of the task stops early only when a project it listed has been *)
(* deleted, when two operations of it failed, or when loading its first    *)
(* project did.                                                            *)
THEOREM EarlyEndsHaveCauses == Spec => []EarlyEndHasCause
<1>1. IInv => EarlyEndHasCause
  BY DEF IInv
<1> QED BY <1>1, Invariance, PTL

(* A run that met no failure and no other run has, at its end, moved the   *)
(* date of every project it listed past the time it listed it at.          *)
THEOREM CompletedRunsHaveBilled == Spec => []CompletedRunHasBilled
<1>1. ASSUME IInv
      PROVE  CompletedRunHasBilled
  <2> SUFFICES ASSUME NEW r \in Runs, run[r].phase = "completed", run[r].faults = 0,
                      run[r].alone, NEW p \in run[r].listed \cap there
               PROVE  next[p] > run[r].at
    BY DEF CompletedRunHasBilled
  <2>1. Started(r) /\ run[r].todo = {}
    BY <1>1 DEF IInv, LoopState, Loops, Started, Idle
  <2>2. Through(r)
    BY <1>1, <2>1 DEF IInv, ThroughIsBilled
  <2> QED BY <2>1, <2>2 DEF Through
<1> QED BY <1>1, Invariance, PTL

===============================================================================
