----------------------------- MODULE ReconcileLock -----------------------------
(***************************************************************************)
(* Which reconciliations run at the same time: the scheduled task behind   *)
(* its Redis lock, and POST /payments, which runs the same code without    *)
(* it.  What a reconciliation does is in Payments and Refunds.             *)
(*                                                                         *)
(* Time only passes: the lock counts down what is left of its timeout and  *)
(* a run counts up how long it has been going.  redis-py's lock (SET NX    *)
(* PX, and a release that compares the holder's token) is external.        *)
(***************************************************************************)
EXTENDS Naturals

CONSTANTS
    Workers,    \* Celery worker processes
    Callers,    \* API threads serving POST /payments
    Timeout,    \* the lock's timeout (120 s), in ticks
    MaxRun,     \* bound: how long a run may take, in ticks
    Nobody      \* no holder; no run

ASSUME TimesAreNaturals == Timeout \in Nat \ {0} /\ MaxRun \in Nat
ASSUME NobodyIsNobody == Nobody \notin Workers \cup Callers \cup Nat

VARIABLES
    holder,   \* the worker whose token the lock's key holds; Nobody: no key
    ttl,      \* what is left of the key's time to live
    job,      \* how long a worker's run has been going; Nobody: none
    manual    \* the same of a caller's

vars == <<holder, ttl, job, manual>>

TypeOK ==
    /\ holder \in Workers \cup {Nobody}
    /\ ttl \in 0 .. Timeout
    /\ job \in [Workers -> 0 .. MaxRun \cup {Nobody}]
    /\ manual \in [Callers -> 0 .. MaxRun \cup {Nobody}]

Init ==
    /\ holder = Nobody
    /\ ttl = 0
    /\ job = [w \in Workers |-> Nobody]
    /\ manual = [c \in Callers |-> Nobody]

-------------------------------------------------------------------------------
(* The beat's message reaches a worker, which takes the lock.  When the    *)
(* lock is held the worker skips this cycle, which is no step.             *)
BeginsUnlocked(w) ==          \* mutant: the lock is not asked for
    /\ job[w] = Nobody
    /\ holder' = w
    /\ ttl' = Timeout
    /\ job' = [job EXCEPT ![w] = 0]
    /\ UNCHANGED manual

BeginsForLonger(w) ==         \* mutant: the timeout in the wrong unit
    /\ job[w] = Nobody
    /\ holder = Nobody
    /\ holder' = w
    /\ ttl' = 60 * Timeout
    /\ job' = [job EXCEPT ![w] = 0]
    /\ UNCHANGED manual

Begins(w) ==
    /\ job[w] = Nobody
    /\ holder = Nobody
    /\ holder' = w
    /\ ttl' = Timeout
    /\ job' = [job EXCEPT ![w] = 0]
    /\ UNCHANGED manual

(* The run ends, or raises; either way the lock is released, if it is      *)
(* still this worker's.  Otherwise release raises and the key stays.       *)
ReleaseAnyway(w) ==           \* mutant: the key is deleted whoever holds it
    holder' = Nobody /\ ttl' = 0

Release(w) ==
    IF holder = w THEN holder' = Nobody /\ ttl' = 0
    ELSE UNCHANGED <<holder, ttl>>

Ends(w) ==
    /\ job[w] # Nobody
    /\ Release(w)
    /\ job' = [job EXCEPT ![w] = Nobody]
    /\ UNCHANGED manual

(* The worker dies in its run and releases nothing.                        *)
Dies(w) ==
    /\ job[w] # Nobody
    /\ job' = [job EXCEPT ![w] = Nobody]
    /\ UNCHANGED <<holder, ttl, manual>>

ManualBegins(c) ==
    /\ manual[c] = Nobody
    /\ manual' = [manual EXCEPT ![c] = 0]
    /\ UNCHANGED <<holder, ttl, job>>

ManualEnds(c) ==
    /\ manual[c] # Nobody
    /\ manual' = [manual EXCEPT ![c] = Nobody]
    /\ UNCHANGED <<holder, ttl, job>>

Older(age) == IF age = Nobody THEN Nobody ELSE age + 1

(* Redis drops the key when its time is over.                              *)
ExpiresNever == UNCHANGED <<holder, ttl>>     \* mutant: a lock without timeout
Expires == IF ttl <= 1 THEN holder' = Nobody /\ ttl' = 0
           ELSE ttl' = ttl - 1 /\ UNCHANGED holder

Tick ==
    /\ \A w \in Workers : job[w] # MaxRun
    /\ \A c \in Callers : manual[c] # MaxRun
    /\ Expires
    /\ job' = [w \in Workers |-> Older(job[w])]
    /\ manual' = [c \in Callers |-> Older(manual[c])]

Next ==
    \/ \E w \in Workers : Begins(w) \/ Ends(w) \/ Dies(w)
    \/ \E c \in Callers : ManualBegins(c) \/ ManualEnds(c)
    \/ Tick

Spec == Init /\ [][Next]_vars

(* Beat goes on publishing the task, a run ends and time passes.           *)
Fairness ==
    /\ \A w \in Workers : WF_vars(Begins(w)) /\ WF_vars(Ends(w))
    /\ \A c \in Callers : WF_vars(ManualEnds(c))
    /\ WF_vars(Tick)

FairSpec == Spec /\ Fairness

-------------------------------------------------------------------------------
(* Two scheduled reconciliations run at the same time only when one of     *)
(* them has been going for as long as the lock's timeout or longer.  The   *)
(* code does not limit a run, which asks the provider about every open     *)
(* row, and does not extend the lock.                                      *)
OverlapNeedsTimeout ==
    \A v, w \in Workers :
        v # w /\ job[v] # Nobody /\ job[w] # Nobody =>
            job[v] >= Timeout \/ job[w] >= Timeout

(* With runs that are shorter than that there is at most one at a time.    *)
OneScheduledRun ==
    \A v, w \in Workers : job[v] # Nobody /\ job[w] # Nobody => v = w

(* A run that outlived its lock does not take the lock away from the       *)
(* worker that holds it by now: only its holder's release and the passing  *)
(* of its last tick free the lock.                                         *)
LockIsItsHolders ==
    [][holder # Nobody /\ holder' # holder =>
          \/ holder' = Nobody /\ job[holder] # Nobody /\ job'[holder] = Nobody
          \/ holder' = Nobody /\ ttl = 1]_vars

(* Reconciliation starts again and again, although workers may die with    *)
(* the lock in their hands.                                                *)
ReconciliationRecurs == []<>(\E w \in Workers : job[w] # Nobody)
===============================================================================
