-------------------------- MODULE ReconcileLockProof --------------------------
(***************************************************************************)
(* The lock keeps scheduled reconciliations apart until one of them has    *)
(* been going for its timeout, for any number of workers and callers.      *)
(***************************************************************************)
EXTENDS ReconcileLock, TLAPS

(* A worker that runs holds the lock, and what is left of the lock's time  *)
(* is the timeout less the age of the run; or its run is as old as that.   *)
RunnerHolds ==
    \A w \in Workers : job[w] # Nobody =>
        \/ holder = w /\ ttl + job[w] = Timeout
        \/ job[w] >= Timeout

IInv == TypeOK /\ RunnerHolds

(* Every step keeps the types.                                             *)
LEMMA TypeStep == TypeOK /\ [Next]_vars => TypeOK'
  <1> SUFFICES ASSUME TypeOK, [Next]_vars
               PROVE  TypeOK'
    OBVIOUS
  <1> USE TimesAreNaturals, NobodyIsNobody
  <1>1. ASSUME NEW w \in Workers, Begins(w)
        PROVE  TypeOK'
    BY <1>1 DEF TypeOK, Begins
  <1>2. ASSUME NEW w \in Workers, Ends(w)
        PROVE  TypeOK'
    BY <1>2 DEF TypeOK, Ends, Release
  <1>3. ASSUME NEW w \in Workers, Dies(w)
        PROVE  TypeOK'
    BY <1>3 DEF TypeOK, Dies
  <1>4. ASSUME NEW c \in Callers, ManualBegins(c) \/ ManualEnds(c)
        PROVE  TypeOK'
    BY <1>4 DEF TypeOK, ManualBegins, ManualEnds
  <1>5. CASE Tick
    <2>1. holder' \in Workers \cup {Nobody} /\ ttl' \in 0 .. Timeout
      BY <1>5 DEF TypeOK, Tick, Expires
    <2>2. job' \in [Workers -> 0 .. MaxRun \cup {Nobody}]
      BY <1>5 DEF TypeOK, Tick, Older
    <2>3. manual' \in [Callers -> 0 .. MaxRun \cup {Nobody}]
      BY <1>5 DEF TypeOK, Tick, Older
    <2> QED BY <2>1, <2>2, <2>3 DEF TypeOK
  <1>6. CASE UNCHANGED vars
    BY <1>6 DEF TypeOK, vars
  <1> QED BY <1>1, <1>2, <1>3, <1>4, <1>5, <1>6 DEF Next

(* Every step keeps the runner its lock, or has seen it grow too old.      *)
LEMMA HoldsStep == IInv /\ [Next]_vars => RunnerHolds'
  <1> SUFFICES ASSUME IInv, [Next]_vars
               PROVE  RunnerHolds'
    OBVIOUS
  <1> USE TimesAreNaturals, NobodyIsNobody
  <1>1. ASSUME NEW w \in Workers, Begins(w)
        PROVE  RunnerHolds'
    <2>1. \A v \in Workers : job[v] # Nobody => job[v] >= Timeout
      BY <1>1 DEF IInv, RunnerHolds, Begins
    <2> QED BY <1>1, <2>1 DEF IInv, TypeOK, RunnerHolds, Begins
  <1>2. ASSUME NEW w \in Workers, Ends(w)
        PROVE  RunnerHolds'
    BY <1>2 DEF IInv, TypeOK, RunnerHolds, Ends, Release
  <1>3. ASSUME NEW w \in Workers, Dies(w)
        PROVE  RunnerHolds'
    BY <1>3 DEF IInv, TypeOK, RunnerHolds, Dies
  <1>4. ASSUME NEW c \in Callers, ManualBegins(c) \/ ManualEnds(c)
        PROVE  RunnerHolds'
    BY <1>4 DEF IInv, RunnerHolds, ManualBegins, ManualEnds
  <1>5. CASE Tick
    <2> SUFFICES ASSUME NEW w \in Workers, job'[w] # Nobody
                 PROVE  (holder' = w /\ ttl' + job'[w] = Timeout) \/ job'[w] >= Timeout
      BY DEF RunnerHolds
    <2>1. job[w] \in Nat /\ job'[w] = job[w] + 1
      BY <1>5 DEF IInv, TypeOK, Tick, Older
    <2>2. ttl \in Nat
      BY DEF IInv, TypeOK
    <2>3. CASE job[w] >= Timeout
      BY <2>1, <2>3
    <2>4. CASE holder = w /\ ttl + job[w] = Timeout
      <3>1. CASE ttl <= 1
        BY <2>1, <2>2, <2>4, <3>1
      <3>2. CASE ~ (ttl <= 1)
        BY <1>5, <2>1, <2>2, <2>4, <3>2 DEF Tick, Expires
      <3> QED BY <3>1, <3>2
    <2> QED BY <2>1, <2>3, <2>4 DEF IInv, RunnerHolds
  <1>6. CASE UNCHANGED vars
    BY <1>6 DEF IInv, RunnerHolds, vars
  <1> QED BY <1>1, <1>2, <1>3, <1>4, <1>5, <1>6 DEF Next

(* The variables keep their types, whatever a run takes.                   *)
THEOREM TypeCorrect == Spec => []TypeOK
  <1>1. Init => TypeOK
    BY TimesAreNaturals DEF Init, TypeOK
  <1> QED BY <1>1, TypeStep, PTL DEF Spec

(* The inductive invariant holds in every reachable state.                 *)
THEOREM Invariance == Spec => []IInv
  <1>1. Init => IInv
    BY TimesAreNaturals DEF Init, IInv, TypeOK, RunnerHolds
  <1> QED BY <1>1, TypeStep, HoldsStep, PTL DEF Spec, IInv

(* Two scheduled reconciliations overlap only when one of them has been    *)
(* going for the lock's timeout (scheduler_tasks.reconcile_with_provider). *)
THEOREM OverlapsAreOld == Spec => []OverlapNeedsTimeout
  <1>1. IInv => OverlapNeedsTimeout
    BY DEF IInv, RunnerHolds, OverlapNeedsTimeout
  <1> QED BY <1>1, Invariance, PTL

(* So there is at most one at a time while every run takes less.           *)
THEOREM ScheduledRunsAreApart ==
    ASSUME MaxRun < Timeout
    PROVE  Spec => []OneScheduledRun
  <1>1. IInv => OneScheduledRun
    <2> SUFFICES ASSUME IInv, NEW v \in Workers, NEW w \in Workers,
                        job[v] # Nobody, job[w] # Nobody
                 PROVE  v = w
      BY DEF OneScheduledRun
    <2>1. job[v] < Timeout /\ job[w] < Timeout
      BY TimesAreNaturals DEF IInv, TypeOK
    <2> QED BY <2>1, TimesAreNaturals, NobodyIsNobody DEF IInv, TypeOK, RunnerHolds
  <1> QED BY <1>1, Invariance, PTL

(* A key that is there has time to live left: it goes when its last tick   *)
(* has passed.                                                             *)
KeyHasTime == holder # Nobody => ttl > 0

(* Every step keeps it.                                                    *)
LEMMA KeyStep == TypeOK /\ KeyHasTime /\ [Next]_vars => KeyHasTime'
  <1> SUFFICES ASSUME TypeOK, KeyHasTime, [Next]_vars
               PROVE  KeyHasTime'
    OBVIOUS
  <1> USE TimesAreNaturals DEF TypeOK, KeyHasTime
  <1>1. ASSUME NEW w \in Workers, Begins(w) \/ Ends(w) \/ Dies(w)
        PROVE  KeyHasTime'
    BY <1>1 DEF Begins, Ends, Release, Dies
  <1>2. ASSUME NEW c \in Callers, ManualBegins(c) \/ ManualEnds(c)
        PROVE  KeyHasTime'
    BY <1>2 DEF ManualBegins, ManualEnds
  <1>3. CASE Tick
    BY <1>3 DEF Tick, Expires
  <1>4. CASE UNCHANGED vars
    BY <1>4 DEF vars
  <1> QED BY <1>1, <1>2, <1>3, <1>4 DEF Next

(* No run frees a lock that another worker took after it had expired: the  *)
(* lock goes with the end of its holder's run or with its last tick.       *)
THEOREM LockGoesWithItsHolder == Spec => LockIsItsHolders
  <1> DEFINE Freed ==
          holder # Nobody /\ holder' # holder =>
             \/ holder' = Nobody /\ job[holder] # Nobody /\ job'[holder] = Nobody
             \/ holder' = Nobody /\ ttl = 1
  <1>1. Init => TypeOK /\ KeyHasTime
    BY TimesAreNaturals DEF Init, TypeOK, KeyHasTime
  <1>2. TypeOK /\ KeyHasTime /\ [Next]_vars => [Freed]_vars
    <2> SUFFICES ASSUME TypeOK, KeyHasTime, Next, holder # Nobody, holder' # holder
                 PROVE  \/ holder' = Nobody /\ job[holder] # Nobody /\ job'[holder] = Nobody
                        \/ holder' = Nobody /\ ttl = 1
      OBVIOUS
    <2>1. ASSUME NEW w \in Workers, Begins(w) \/ Ends(w) \/ Dies(w)
          PROVE  holder' = Nobody /\ job[holder] # Nobody /\ job'[holder] = Nobody
      BY <2>1 DEF Begins, Ends, Release, Dies, TypeOK
    <2>2. ASSUME NEW c \in Callers
          PROVE  ~ManualBegins(c) /\ ~ManualEnds(c)
      BY DEF ManualBegins, ManualEnds
    <2>3. CASE Tick
      BY <2>3, TimesAreNaturals DEF Tick, Expires, TypeOK, KeyHasTime
    <2> QED BY <2>1, <2>2, <2>3 DEF Next
  <1> QED BY <1>1, <1>2, TypeStep, KeyStep, PTL DEF Spec, LockIsItsHolders
===============================================================================
