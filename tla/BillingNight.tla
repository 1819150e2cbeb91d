----------------------------- MODULE BillingNight -----------------------------
(***************************************************************************)
(* generate_due_invoices, every night and by POST /invoices: the projects  *)
(* whose billing date has come are listed, then each is loaded and billed  *)
(* in a session of its own, while projects are deleted, runs overlap and   *)
(* the database or a worker fails.  What one project's billing does is in  *)
(* UsageBilling, when a project may be deleted is in Catalog.              *)
(*                                                                         *)
(* A commit expires what the session has loaded and so does a rollback, so *)
(* that the log line after it reads the project again.                     *)
(***************************************************************************)
EXTENDS Naturals, FiniteSets

CONSTANTS
    Projects,
    Period,       \* the length of each project's billing period
    Runs,         \* calls of the task that may be going at a time
    Night,        \* the one the beat makes
    MaxTime,      \* bound: the clock
    MaxFaults,    \* bound: failures of the database and deaths of workers
    None,         \* Python's None
    Unbound       \* a local variable nothing was assigned to

ASSUME PeriodsArePositive == Period \in [Projects -> Nat \ {0}]
ASSUME NightIsARun == Night \in Runs
ASSUME BoundsAreNatural == MaxTime \in Nat /\ MaxFaults \in Nat
ASSUME NoneIsNoProject ==
    None \notin Projects \cup Nat /\ Unbound \notin Projects \cup {None}

VARIABLES
    clock,
    there,     \* the projects that have not been deleted
    next,      \* projects.next_billing_date
    run,       \* the local state of each run
    faults

vars == <<clock, there, next, run, faults>>

Idle == [phase |-> "idle"]

Called ==
    [phase : {"loop", "bill", "log", "handle", "completed", "aborted"},
     listed : SUBSET Projects,                   \* the due projects
     at : Nat,                                   \* when they were listed
     todo : SUBSET Projects,                     \* those the loop has not come to
     project : Projects \cup {None, Unbound},    \* the variable of the loop
     next : Nat \cup {None},                     \* the date that is staged for it
     faults : Nat,                               \* auxiliary: failures in this run
     alone : BOOLEAN]                            \* auxiliary: no other run beside it

TypeOK ==
    /\ clock \in Nat
    /\ there \in SUBSET Projects
    /\ next \in [Projects -> Nat]
    /\ run \in [Runs -> Called \cup {Idle}]
    /\ faults \in Nat

Init ==
    /\ clock = 0
    /\ there = Projects
    /\ next = Period
    /\ run = [r \in Runs |-> Idle]
    /\ faults = 0

Going(r) == run[r].phase \in {"loop", "bill", "log", "handle"}

-------------------------------------------------------------------------------
DueToday == {p \in there : next[p] = clock}        \* mutant: a date is missed
Due == {p \in there : next[p] <= clock}

(* A query that fails ends the task with nothing done, which is no step.   *)
Lists(r) ==
    /\ ~Going(r)
    /\ run' = [m \in Runs |->
           CASE m = r -> [phase |-> "loop", listed |-> Due, at |-> clock, todo |-> Due,
                          project |-> Unbound, next |-> None, faults |-> 0,
                          alone |-> \A o \in Runs : ~Going(o)]
             [] m # r /\ Going(m) -> [run[m] EXCEPT !.alone = FALSE]
             [] OTHER -> run[m]]
    /\ UNCHANGED <<clock, there, next, faults>>

(* The date moves on, period by period, until it is past the time; when   *)
(* it has not come, another run was quicker, it does not move.             *)
AdvanceOnce(p) == next[p] + Period[p]          \* mutant: one period only
Advance(p) ==
    IF next[p] <= clock
    THEN next[p] + Period[p] * ((clock - next[p]) \div Period[p] + 1)
    ELSE None

(* A project that is gone by now is skipped.                               *)
Gets(r, p) ==
    /\ run[r].phase = "loop" /\ p \in run[r].todo
    /\ run' = [run EXCEPT ![r] =
           IF p \in there
           THEN [run[r] EXCEPT !.phase = "bill", !.todo = run[r].todo \ {p},
                               !.project = p, !.next = Advance(p)]
           ELSE [run[r] EXCEPT !.todo = run[r].todo \ {p}, !.project = None]]
    /\ UNCHANGED <<clock, there, next, faults>>

(* One commit for the invoices of all missed periods and the date.  When   *)
(* the project is gone the UPDATE meets no row, which is an error.         *)
CommitsAnyway(r) ==            \* mutant: writes also what was not staged
    /\ run[r].phase = "bill"
    /\ next' = [next EXCEPT ![run[r].project] = run[r].next]
    /\ run' = [run EXCEPT ![r].phase = "log", ![r].next = None]
    /\ UNCHANGED <<clock, there, faults>>

Commits(r) ==
    /\ run[r].phase = "bill"
    /\ LET p == run[r].project
           due == run[r].next # None
       IN  /\ next' = IF due /\ p \in there
                      THEN [next EXCEPT ![p] = run[r].next] ELSE next
           /\ run' = [run EXCEPT
                        ![r].phase = IF due /\ p \notin there THEN "handle" ELSE "log",
                        ![r].next = None]
    /\ UNCHANGED <<clock, there, faults>>

(* "Successfully finished billing for ...".                                *)
Logs(r) ==
    /\ run[r].phase = "log"
    /\ run' = [run EXCEPT ![r].phase =
                 IF run[r].project \in there THEN "loop" ELSE "handle"]
    /\ UNCHANGED <<clock, there, next, faults>>

(* "Failed billing for ...", in the handler, which nothing protects: a     *)
(* project that cannot be read again ends the task.                        *)
Handles(r) ==
    /\ run[r].phase = "handle"
    /\ run' = [run EXCEPT ![r].phase =
                 IF run[r].project \in there THEN "loop" ELSE "aborted"]
    /\ UNCHANGED <<clock, there, next, faults>>

Completes(r) ==
    /\ run[r].phase = "loop" /\ run[r].todo = {}
    /\ run' = [run EXCEPT ![r].phase = "completed"]
    /\ UNCHANGED <<clock, there, next, faults>>

-------------------------------------------------------------------------------
(* Failures.  One of billing or of its log line goes to the handler, one   *)
(* in the handler ends the task.                                           *)

Fault(r, after) ==
    /\ faults < MaxFaults
    /\ faults' = faults + 1
    /\ run' = [run EXCEPT ![r] = after]
    /\ UNCHANGED <<clock, there, next>>

Struck(r) == [run[r] EXCEPT !.faults = run[r].faults + 1]

(* get raises before it assigns the variable: the handler takes what the   *)
(* project before left in it, whose last log line has loaded what is read. *)
ReadableNever(project) == FALSE        \* mutant: the variable is cleared
Readable(project) == project \in Projects

GetFails(r, p) ==
    /\ run[r].phase = "loop" /\ p \in run[r].todo
    /\ Fault(r, [Struck(r) EXCEPT
                   !.todo = run[r].todo \ {p},
                   !.phase = IF Readable(run[r].project) THEN "loop" ELSE "aborted"])

BillingFails(r) ==
    /\ run[r].phase \in {"bill", "log"}
    /\ Fault(r, [Struck(r) EXCEPT !.phase = "handle", !.next = None])

HandlerFails(r) ==
    /\ run[r].phase = "handle"
    /\ Fault(r, [Struck(r) EXCEPT !.phase = "aborted"])

Dies(r) == Going(r) /\ Fault(r, Idle)

-------------------------------------------------------------------------------
DeleteProject(p) ==
    /\ p \in there
    /\ there' = there \ {p}
    /\ UNCHANGED <<clock, next, run, faults>>

Tick ==
    /\ clock < MaxTime
    /\ clock' = clock + 1
    /\ UNCHANGED <<there, next, run, faults>>

GoesOn(r) ==
    \/ Lists(r) \/ Commits(r) \/ Logs(r) \/ Handles(r) \/ Completes(r)
    \/ \E p \in Projects : Gets(r, p)

Fails(r) ==
    \/ BillingFails(r) \/ HandlerFails(r) \/ Dies(r)
    \/ \E p \in Projects : GetFails(r, p)

Next ==
    \/ \E r \in Runs : GoesOn(r) \/ Fails(r)
    \/ \E p \in Projects : DeleteProject(p)
    \/ Tick

Spec == Init /\ [][Next]_vars

(* The beat sends the task every night and a worker goes on with it.       *)
Fairness == WF_vars(GoesOn(Night))

FairSpec == Spec /\ Fairness

-------------------------------------------------------------------------------
(* One failure does not cost the others their night: a run ends early only *)
(* if a project it listed was deleted meanwhile, if it was hit twice (in   *)
(* billing and again in the handler, say), or if it was hit at its first   *)
(* project, before the loop's variable had a value.                        *)
EarlyEndHasCause ==
    \A r \in Runs : run[r].phase = "aborted" =>
        \/ ~(run[r].listed \subseteq there)
        \/ run[r].faults >= 2
        \/ run[r].faults = 1 /\ Cardinality(run[r].listed \ run[r].todo) = 1

(* A run that completes without a failure has billed what it listed, every *)
(* missed period included, unless another run beside it, which loaded an   *)
(* older date, has put a date back.                                        *)
CompletedRunHasBilled ==
    \A r \in Runs :
        /\ run[r].phase = "completed" /\ run[r].faults = 0 /\ run[r].alone
        => \A p \in run[r].listed \cap there : next[p] > run[r].at

(* A billing date that has come is billed, some night, however runs fail,  *)
(* end early and overlap, unless the project goes first.                   *)
BilledOrGone ==
    \A p \in Projects, d \in 1 .. MaxTime :
        p \in there /\ next[p] <= d /\ d <= clock ~> p \notin there \/ next[p] > d

(* README: a failure while billing one project does not stop the rest of   *)
(* the batch.  It does when the project was deleted during its billing.    *)
FailureIsIsolated == \A r \in Runs : run[r].phase = "aborted" => run[r].todo = {}
===============================================================================
