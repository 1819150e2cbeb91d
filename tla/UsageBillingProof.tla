-------------------------- MODULE UsageBillingProof --------------------------
(***************************************************************************)
(* Theorems about UsageBilling, for any usage, clients, workers, billing   *)
(* runs, frequencies and bounds.                                           *)
(***************************************************************************)
EXTENDS UsageBilling, TLAPS

-------------------------------------------------------------------------------
(* The inductive invariant.                                                *)

(* What a run has found is recorded and not among what it has staged.      *)
FoundIsRecorded ==
    \A n \in Runs : IsActive(n) =>
        \A k \in run[n].found :
            /\ timestamp[k] # None
            /\ \A i \in run[n].staged : k \notin i.events

(* A staged invoice is of recorded usage of its client, none of which has  *)
(* been invoiced.                                                          *)
StagedIsDue ==
    \A n \in Runs : IsActive(n) =>
        \A i \in run[n].staged :
            /\ i.events # {}
            /\ \A k \in i.events :
                  timestamp[k] # None /\ invoice_id[k] = None /\ ClientOf[k] = i.client

(* No usage is staged twice, by one run or by two.                         *)
StagedApart ==
    \A n, m \in Runs : IsActive(n) /\ IsActive(m) =>
        \A i \in run[n].staged, j \in run[m].staged :
            n # m \/ i # j => \A k \in Keys : ~(k \in i.events /\ k \in j.events)

IInv == TypeOK /\ FoundIsRecorded /\ StagedIsDue /\ StagedApart /\ BilledOnce

-------------------------------------------------------------------------------
(* A run that has begun and not ended has the fields of one.               *)
LEMMA ActiveType ==
    ASSUME TypeOK, NEW n \in Runs, IsActive(n)
    PROVE  run[n] \in Active
BY DEF TypeOK, IsActive

(* A run in one of the loop's phases has begun and not ended.              *)
LEMMA PhaseIsActive ==
    ASSUME NEW n \in Runs, run[n].phase \in {"select", "lock"}
    PROVE  IsActive(n)
BY DEF IsActive, Unused, Done

(* A run holds the usage that it has staged.                               *)
LEMMA HeldFact ==
    ASSUME NEW n \in Runs, NEW k
    PROVE  k \in Held(n) <=> \E i \in run[n].staged : k \in i.events
BY DEF Held

(* The next period of a run is one of the run's.                           *)
LEMMA AdvanceType ==
    ASSUME NEW r \in Active
    PROVE  Advance(r) \in Active
<1>1. r.next \in Nat /\ r.frequency \in Frequencies
  BY DEF Active
<1>2. r.frequency \in Nat
  BY <1>1, FrequenciesArePeriods
<1>3. r.next + r.frequency \in Nat
  BY <1>1, <1>2
<1> QED
  BY <1>3 DEF Active, Advance

(* Invoices are staged for the clients of the events, one for each.        *)
LEMMA StageType ==
    ASSUME NEW n \in Runs, run[n] \in Active, NEW events \in SUBSET Keys
    PROVE  Stage(n, events) \in SUBSET Invoices
BY DEF Stage, Invoices, Active, Clients

(* What is staged for a period is one invoice per client, of usage of that *)
(* client that was found, and no usage is staged twice.                    *)
LEMMA StageFact ==
    ASSUME NEW n, NEW events, NEW i \in Stage(n, events)
    PROVE  /\ i.events # {}
           /\ \A k \in i.events : k \in events /\ ClientOf[k] = i.client
           /\ \A j \in Stage(n, events) :
                 i # j => \A k : ~(k \in i.events /\ k \in j.events)
<1>1. PICK c \in {ClientOf[k] : k \in events} :
         i = [run |-> n, client |-> c, end |-> run[n].next,
              events |-> {k \in events : ClientOf[k] = c}]
  BY DEF Stage
<1>2. i.events # {} /\ \A k \in i.events : k \in events /\ ClientOf[k] = i.client
  BY <1>1
<1>3. ASSUME NEW j \in Stage(n, events), i # j, NEW k, k \in i.events, k \in j.events
      PROVE  FALSE
  <2>1. PICK d \in {ClientOf[l] : l \in events} :
           j = [run |-> n, client |-> d, end |-> run[n].next,
                events |-> {l \in events : ClientOf[l] = d}]
    BY <1>3 DEF Stage
  <2> QED BY <1>1, <1>3, <2>1
<1> QED BY <1>2, <1>3

-------------------------------------------------------------------------------
(* Types.                                                                  *)
LEMMA TypeStep == TypeOK /\ [Next]_vars => TypeOK'
<1> SUFFICES ASSUME TypeOK, [Next]_vars
             PROVE  TypeOK'
  OBVIOUS
<1>1. ASSUME NEW k \in Keys, Ingest(k)
      PROVE  TypeOK'
  BY <1>1 DEF TypeOK, Ingest, projectVars, rowVars
<1>2. ASSUME NEW w \in Workers, NEW k \in Keys, WorkerTakes(w, k)
      PROVE  TypeOK'
  BY <1>2 DEF TypeOK, WorkerTakes, projectVars, rowVars, Tasks
<1>3. ASSUME NEW w \in Workers, WorkerCommits(w)
      PROVE  TypeOK'
  <2>1. task[w] \in [key : Keys, began : Nat]
    BY <1>3 DEF TypeOK, WorkerCommits, Tasks
  <2> QED
    BY <1>3, <2>1 DEF TypeOK, WorkerCommits, projectVars, Tasks
<1>4. ASSUME NEW w \in Workers, WorkerFails(w)
      PROVE  TypeOK'
  BY <1>4 DEF TypeOK, WorkerFails, projectVars, rowVars, Tasks
<1>5. ASSUME NEW n \in Runs, BillingBegins(n)
      PROVE  TypeOK'
  <2>1. [phase |-> "select", next |-> next, frequency |-> frequency,
         now |-> clock, found |-> {}, staged |-> {}] \in Active
    BY DEF TypeOK, Active
  <2> QED
    BY <1>5, <2>1 DEF TypeOK, BillingBegins, projectVars, ingestVars, rowVars
<1>6. ASSUME NEW n \in Runs, BillingSelects(n)
      PROVE  TypeOK'
  <2>1. run[n] \in Active
    BY <1>6, ActiveType, PhaseIsActive DEF BillingSelects
  <2>2. Advance(run[n]) \in Active
    BY <2>1, AdvanceType
  <2>3. Matching(n) \in SUBSET Keys
    BY DEF Matching
  <2>4. [run[n] EXCEPT !.phase = "lock", !.found = Matching(n)] \in Active
    BY <2>1, <2>3 DEF Active
  <2> QED
    BY <1>6, <2>2, <2>4 DEF TypeOK, BillingSelects, projectVars, ingestVars, rowVars
<1>7. ASSUME NEW n \in Runs, BillingLocks(n)
      PROVE  TypeOK'
  <2> DEFINE due == {k \in run[n].found : StillDue(k)}
  <2>1. run[n] \in Active
    BY <1>7, ActiveType, PhaseIsActive DEF BillingLocks
  <2>2. due \in SUBSET Keys
    BY <2>1 DEF Active
  <2>3. [run[n] EXCEPT !.staged = @ \cup Stage(n, due)] \in Active
    BY <2>1, <2>2, StageType DEF Active
  <2>4. Advance([run[n] EXCEPT !.staged = @ \cup Stage(n, due)]) \in Active
    BY <2>3, AdvanceType
  <2>5. run' = [run EXCEPT ![n] =
                  Advance([run[n] EXCEPT !.staged = @ \cup Stage(n, due)])]
    BY <1>7 DEF BillingLocks
  <2>6. run' \in [Runs -> Active \cup {Unused, Done}]
    BY <2>4, <2>5 DEF TypeOK
  <2> QED
    BY <1>7, <2>6 DEF TypeOK, BillingLocks, projectVars, ingestVars, rowVars
<1>8. ASSUME NEW n \in Runs, BillingCommits(n)
      PROVE  TypeOK'
  <2>1. run[n] \in Active
    BY <1>8, ActiveType, PhaseIsActive DEF BillingCommits
  <2>2. run[n].staged \in SUBSET Invoices /\ run[n].next \in Nat
    BY <2>1 DEF Active
  <2>3. ASSUME NEW k \in Held(n)
        PROVE  (CHOOSE i \in run[n].staged : k \in i.events) \in Invoices
    BY <2>2, <2>3, HeldFact
  <2>4. invoice_id' \in [Keys -> Invoices \cup {None}]
    BY <1>8, <2>3 DEF TypeOK, BillingCommits
  <2>5. run' \in [Runs -> Active \cup {Unused, Done}]
    BY <1>8 DEF TypeOK, BillingCommits
  <2> QED
    BY <1>8, <2>2, <2>4, <2>5 DEF TypeOK, BillingCommits, projectVars, ingestVars
<1>9. ASSUME NEW n \in Runs, BillingRollsBack(n)
      PROVE  TypeOK'
  BY <1>9 DEF TypeOK, BillingRollsBack, projectVars, ingestVars, rowVars
<1>10. ASSUME NEW f \in Frequencies, ChangeFrequency(f)
       PROVE  TypeOK'
  BY <1>10, FrequenciesArePeriods DEF TypeOK, ChangeFrequency, ingestVars, rowVars
<1>11. CASE Tick
  BY <1>11 DEF TypeOK, Tick, projectVars, ingestVars, rowVars
<1>12. CASE UNCHANGED vars
  BY <1>12 DEF TypeOK, vars, projectVars, ingestVars, rowVars
<1> QED
  BY <1>1, <1>2, <1>3, <1>4, <1>5, <1>6, <1>7, <1>8, <1>9, <1>10, <1>11, <1>12
  DEF Next, IngestNext, BillingNext

-------------------------------------------------------------------------------
(* A step that changes no run and neither takes nor gives rows keeps what  *)
(* is staged.                                                              *)
StagedInv == FoundIsRecorded /\ StagedIsDue /\ StagedApart /\ BilledOnce

(* Such a step keeps what is staged.                                       *)
LEMMA OtherStep ==
    ASSUME IInv, UNCHANGED <<rowVars, run>>
    PROVE  StagedInv'
BY DEF IInv, StagedInv, FoundIsRecorded, StagedIsDue, StagedApart, BilledOnce,
       IsActive, rowVars

(* A run that ends without a commit takes what it staged with it.          *)
LEMMA EndStep ==
    ASSUME IInv, NEW n \in Runs, run' = [run EXCEPT ![n] = Done], UNCHANGED rowVars
    PROVE  StagedInv'
<1>1. ~IsActive(n)' /\ \A m \in Runs \ {n} : run'[m] = run[m]
  BY DEF IInv, TypeOK, IsActive
<1>2. \A m \in Runs : IsActive(m)' => m # n /\ IsActive(m) /\ run'[m] = run[m]
  BY <1>1 DEF IsActive
<1> QED
  BY <1>2 DEF IInv, StagedInv, FoundIsRecorded, StagedIsDue, StagedApart,
              BilledOnce, rowVars

(* A run that goes on with what it had staged.                             *)
LEMMA SameStagedStep ==
    ASSUME IInv, NEW n \in Runs, NEW r \in Active,
           run' = [run EXCEPT ![n] = r], UNCHANGED rowVars,
           r.staged = {} \/ (IsActive(n) /\ r.staged = run[n].staged),
           \A k \in r.found : /\ timestamp[k] # None
                              /\ \A i \in r.staged : k \notin i.events
    PROVE  StagedInv'
<1>1. run'[n] = r /\ \A m \in Runs \ {n} : run'[m] = run[m]
  BY DEF IInv, TypeOK
<1>2. \A m \in Runs : m # n => (IsActive(m)' <=> IsActive(m))
  BY <1>1 DEF IsActive
<1>3. \A m \in Runs : \A i \in run'[m].staged :
         IsActive(m)' => IsActive(m) /\ i \in run[m].staged
  BY <1>1, <1>2
<1>4. FoundIsRecorded'
  BY <1>1, <1>2 DEF IInv, FoundIsRecorded, rowVars
<1>5. StagedIsDue'
  BY <1>3 DEF IInv, StagedIsDue, rowVars
<1>6. StagedApart'
  BY <1>3 DEF IInv, StagedApart
<1>7. BilledOnce'
  BY DEF IInv, BilledOnce, rowVars
<1> QED BY <1>4, <1>5, <1>6, <1>7 DEF StagedInv

(* What a run stages is not staged or invoiced already.                    *)
LEMMA LocksStep ==
    ASSUME IInv, NEW n \in Runs, BillingLocks(n)
    PROVE  StagedInv'
<1> DEFINE due == {k \in run[n].found : StillDue(k)}
           r == Advance([run[n] EXCEPT !.staged = @ \cup Stage(n, due)])
<1>1. IsActive(n) /\ run[n] \in Active
  BY ActiveType, PhaseIsActive DEF IInv, BillingLocks
<1>2. r.found = {} /\ r.staged = run[n].staged \cup Stage(n, due) /\ r.phase = "select"
  BY <1>1 DEF Advance, Active
<1>3. run' = [run EXCEPT ![n] = r]
  BY DEF BillingLocks
<1>4. run'[n] = r /\ \A m \in Runs \ {n} : run'[m] = run[m]
  BY <1>3 DEF IInv, TypeOK
<1>5. \A m \in Runs : IsActive(m)' <=> IsActive(m)
  BY <1>1, <1>2, <1>4 DEF IsActive, Unused, Done
<1>6. \A k \in due : k \in Keys /\ timestamp[k] # None /\ invoice_id[k] = None
  BY <1>1 DEF IInv, FoundIsRecorded, StillDue, Active
<1>7. ASSUME NEW k \in due, NEW m \in Runs, IsActive(m), NEW i \in run[m].staged
      PROVE  k \notin i.events
  <2>1. CASE m = n
    BY <1>1, <1>7, <2>1 DEF IInv, FoundIsRecorded
  <2>2. CASE m # n
    <3>1. ~LockedBy(k, m)
      BY <1>7, <2>2 DEF BillingLocks
    <3>2. k \notin Held(m)
      BY <1>7, <3>1 DEF LockedBy, LockedTypes
    <3> QED BY <1>7, <3>2, HeldFact
  <2> QED BY <2>1, <2>2
<1>8. UNCHANGED rowVars
  BY DEF BillingLocks
<1> HIDE DEF r
<1>13. ASSUME NEW m \in Runs, NEW i \in run'[m].staged
       PROVE  i \in run[m].staged \/ (m = n /\ i \in Stage(n, due))
  BY <1>2, <1>4, <1>13
<1>9. FoundIsRecorded'
  BY <1>2, <1>4, <1>5, <1>8 DEF IInv, FoundIsRecorded, rowVars
<1>10. StagedIsDue'
  <2> SUFFICES ASSUME NEW m \in Runs, IsActive(m), NEW i \in run'[m].staged
               PROVE  /\ i.events # {}
                      /\ \A k \in i.events :
                            timestamp[k] # None /\ invoice_id[k] = None /\ ClientOf[k] = i.client
    BY <1>5, <1>8 DEF StagedIsDue, rowVars
  <2>1. CASE i \in run[m].staged
    BY <2>1 DEF IInv, StagedIsDue
  <2>2. CASE m = n /\ i \in Stage(n, due)
    BY <1>6, <2>2, StageFact
  <2> QED BY <1>13, <2>1, <2>2
<1>11. StagedApart'
  <2> SUFFICES ASSUME NEW m \in Runs, NEW o \in Runs, IsActive(m), IsActive(o),
                      NEW i \in run'[m].staged, NEW j \in run'[o].staged,
                      m # o \/ i # j, NEW k \in Keys, k \in i.events, k \in j.events
               PROVE  FALSE
    BY <1>5 DEF StagedApart
  <2>0. i \in run[m].staged \/ (m = n /\ i \in Stage(n, due))
    BY <1>13
  <2>1. j \in run[o].staged \/ (o = n /\ j \in Stage(n, due))
    BY <1>13
  <2>2. CASE i \in run[m].staged /\ j \in run[o].staged
    BY <2>2 DEF IInv, StagedApart
  <2>3. CASE i \in Stage(n, due) /\ j \in run[o].staged
    <3>1. k \in due
      BY <2>3, StageFact
    <3> QED BY <1>7, <2>3, <3>1
  <2>4. CASE i \in run[m].staged /\ j \in Stage(n, due)
    <3>1. k \in due
      BY <2>4, StageFact
    <3> QED BY <1>7, <2>4, <3>1
  <2>5. CASE m = n /\ o = n /\ i \in Stage(n, due) /\ j \in Stage(n, due)
    BY <2>5, StageFact
  <2> QED BY <2>0, <2>1, <2>2, <2>3, <2>4, <2>5
<1>12. BilledOnce'
  BY <1>8 DEF IInv, BilledOnce, rowVars
<1> QED BY <1>9, <1>10, <1>11, <1>12 DEF StagedInv

(* A commit marks what no invoice has and no other run has staged.         *)
LEMMA CommitStep ==
    ASSUME IInv, NEW n \in Runs, BillingCommits(n)
    PROVE  StagedInv'
<1>1. IsActive(n) /\ run[n] \in Active
  BY ActiveType, PhaseIsActive DEF IInv, BillingCommits
<1>2. ~IsActive(n)' /\ \A m \in Runs \ {n} : run'[m] = run[m]
  BY DEF IInv, TypeOK, IsActive, BillingCommits
<1>3. \A m \in Runs : IsActive(m)' => m # n /\ IsActive(m) /\ run'[m] = run[m]
  BY <1>2 DEF IsActive
<1>4. ASSUME NEW i \in run[n].staged, NEW k \in i.events
      PROVE  k \in Keys /\ invoice_id'[k] = i
  <2>1. k \in Keys /\ k \in Held(n)
    BY <1>1, <1>4, HeldFact DEF Active, Invoices
  <2>2. \A j \in run[n].staged : k \in j.events => j = i
    BY <1>1, <1>4, <2>1 DEF IInv, StagedApart
  <2>3. (CHOOSE j \in run[n].staged : k \in j.events) = i
    BY <1>4, <2>2
  <2> QED BY <2>1, <2>3 DEF BillingCommits
<1>5. \A k \in Keys : k \notin Held(n) => invoice_id'[k] = invoice_id[k]
  BY DEF BillingCommits
<1>6. timestamp' = timestamp /\ invoices' = invoices \cup run[n].staged
  BY DEF BillingCommits
<1>7. ASSUME NEW m \in Runs, m # n, IsActive(m), NEW i \in run[m].staged,
             NEW k \in i.events
      PROVE  k \in Keys /\ k \notin Held(n)
  <2>1. k \in Keys
    BY <1>7, ActiveType DEF IInv, Active, Invoices
  <2> QED BY <1>1, <1>7, <2>1, HeldFact DEF IInv, StagedApart
<1>8. FoundIsRecorded'
  BY <1>3, <1>6 DEF IInv, FoundIsRecorded
<1>9. StagedIsDue'
  BY <1>3, <1>5, <1>6, <1>7 DEF IInv, StagedIsDue
<1>10. StagedApart'
  BY <1>3 DEF IInv, StagedApart
<1>11. BilledOnce'
  <2>1. ASSUME NEW i \in invoices', NEW k \in i.events
        PROVE  invoice_id'[k] = i /\ ClientOf[k] = i.client
    <3>1. CASE i \in run[n].staged
      BY <1>1, <1>4, <2>1, <3>1 DEF IInv, StagedIsDue
    <3>2. CASE i \in invoices
      <4>1. k \in Keys /\ i # None
        BY <2>1, <3>2, NoneIsNoInvoice DEF IInv, TypeOK, Invoices
      <4>2. invoice_id[k] = i /\ ClientOf[k] = i.client
        BY <2>1, <3>2 DEF IInv, BilledOnce
      <4>3. k \notin Held(n)
        BY <1>1, <4>1, <4>2, HeldFact DEF IInv, StagedIsDue
      <4> QED BY <1>5, <4>1, <4>2, <4>3
    <3> QED BY <1>6, <3>1, <3>2
  <2>2. ASSUME NEW k \in Keys, invoice_id'[k] # None
        PROVE  /\ invoice_id'[k] \in invoices' /\ k \in invoice_id'[k].events
               /\ timestamp'[k] # None
    <3>1. CASE k \in Held(n)
      <4>1. PICK i \in run[n].staged : k \in i.events
        BY <3>1, HeldFact
      <4> QED BY <1>1, <1>4, <1>6, <4>1 DEF IInv, StagedIsDue
    <3>2. CASE k \notin Held(n)
      BY <1>5, <1>6, <2>2, <3>2 DEF IInv, BilledOnce
    <3> QED BY <3>1, <3>2
  <2> QED BY <2>1, <2>2 DEF BilledOnce
<1> QED BY <1>8, <1>9, <1>10, <1>11 DEF StagedInv

-------------------------------------------------------------------------------
(* Every step keeps the invariant.                                         *)
LEMMA StagedStep == IInv /\ [Next]_vars => StagedInv'
<1> SUFFICES ASSUME IInv, [Next]_vars
             PROVE  StagedInv'
  OBVIOUS
<1>1. CASE UNCHANGED <<rowVars, run>>
  BY <1>1, OtherStep
<1>2. ASSUME NEW w \in Workers, WorkerCommits(w)
      PROVE  StagedInv'
  <2>1. task[w].key \in Keys
    BY <1>2 DEF IInv, TypeOK, WorkerCommits, Tasks
  <2>2. \A k \in Keys : timestamp[k] # None =>
           timestamp'[k] # None /\ invoice_id'[k] = invoice_id[k]
    BY <1>2, <2>1 DEF IInv, TypeOK, WorkerCommits, Recordable
  <2>3. \A k \in Keys : invoice_id'[k] # None => invoice_id'[k] = invoice_id[k]
    BY <1>2, <2>1 DEF IInv, TypeOK, WorkerCommits, Recordable
  <2>4. invoices' = invoices /\ run' = run
    BY <1>2 DEF WorkerCommits
  <2>5. \A n \in Runs : IsActive(n) =>
           /\ run[n].found \subseteq Keys
           /\ \A i \in run[n].staged : i.events \subseteq Keys
    BY ActiveType DEF IInv, Active, Invoices
  <2>6. FoundIsRecorded'
    BY <2>2, <2>4, <2>5 DEF IInv, FoundIsRecorded, IsActive
  <2>7. StagedIsDue'
    BY <2>2, <2>4, <2>5 DEF IInv, StagedIsDue, IsActive
  <2>8. StagedApart'
    BY <2>4 DEF IInv, StagedApart, IsActive
  <2>9. BilledOnce'
    <3>1. \A i \in invoices : \A k \in i.events : k \in Keys /\ timestamp[k] # None
      BY NoneIsNoInvoice DEF IInv, TypeOK, BilledOnce, Invoices
    <3> QED BY <2>2, <2>3, <2>4, <3>1 DEF IInv, BilledOnce
  <2> QED BY <2>6, <2>7, <2>8, <2>9 DEF StagedInv
<1>3. ASSUME NEW n \in Runs, BillingBegins(n)
      PROVE  StagedInv'
  <2> DEFINE r == [phase |-> "select", next |-> next, frequency |-> frequency,
                   now |-> clock, found |-> {}, staged |-> {}]
  <2>1. r \in Active
    BY DEF IInv, TypeOK, Active
  <2>2. run' = [run EXCEPT ![n] = r] /\ UNCHANGED rowVars
    BY <1>3 DEF BillingBegins
  <2>3. r.staged = {} /\ r.found = {}
    OBVIOUS
  <2> HIDE DEF r
  <2>4. \A k \in r.found : /\ timestamp[k] # None
                           /\ \A i \in r.staged : k \notin i.events
    BY <2>3
  <2> QED BY <2>1, <2>2, <2>3, <2>4, SameStagedStep
<1>4. ASSUME NEW n \in Runs, BillingSelects(n)
      PROVE  StagedInv'
  <2>1. IsActive(n) /\ run[n] \in Active
    BY <1>4, ActiveType, PhaseIsActive DEF IInv, BillingSelects
  <2>2. UNCHANGED rowVars
    BY <1>4 DEF BillingSelects
  <2>3. CASE Matching(n) = {}
    <3>1. run' = [run EXCEPT ![n] = Advance(run[n])]
      BY <1>4, <2>3 DEF BillingSelects
    <3>2. Advance(run[n]).staged = run[n].staged /\ Advance(run[n]).found = {}
      BY <2>1 DEF Advance, Active
    <3> QED BY <2>1, <2>2, <3>1, <3>2, AdvanceType, SameStagedStep
  <2>4. CASE Matching(n) # {}
    <3> DEFINE r == [run[n] EXCEPT !.phase = "lock", !.found = Matching(n)]
    <3>1. run' = [run EXCEPT ![n] = r]
      BY <1>4, <2>4 DEF BillingSelects
    <3>2. Matching(n) \subseteq Keys
      BY DEF Matching
    <3>3. r \in Active /\ r.staged = run[n].staged /\ r.found = Matching(n)
      BY <2>1, <3>2 DEF Active
    <3>4. \A k \in Matching(n) : timestamp[k] # None /\ k \notin Held(n)
      BY DEF Matching
    <3>5. \A k \in r.found : /\ timestamp[k] # None
                             /\ \A i \in r.staged : k \notin i.events
      BY <3>3, <3>4, HeldFact
    <3> HIDE DEF r
    <3> QED BY <2>1, <2>2, <3>1, <3>3, <3>5, SameStagedStep
  <2> QED BY <2>3, <2>4
<1>5. ASSUME NEW n \in Runs, BillingLocks(n)
      PROVE  StagedInv'
  BY <1>5, LocksStep
<1>6. ASSUME NEW n \in Runs, BillingCommits(n)
      PROVE  StagedInv'
  BY <1>6, CommitStep
<1>7. ASSUME NEW n \in Runs, BillingRollsBack(n)
      PROVE  StagedInv'
  BY <1>7, EndStep DEF BillingRollsBack
<1>8. CASE \/ \E k \in Keys : Ingest(k) \/ \E w \in Workers : WorkerTakes(w, k)
           \/ \E w \in Workers : WorkerFails(w)
           \/ Tick \/ \E f \in Frequencies : ChangeFrequency(f)
           \/ UNCHANGED vars
  BY <1>1, <1>8 DEF Ingest, WorkerTakes, WorkerFails, Tick, ChangeFrequency, vars, rowVars
<1> QED
  BY <1>2, <1>3, <1>4, <1>5, <1>6, <1>7, <1>8 DEF Next, IngestNext, BillingNext

(* The variables keep their types, for any number of runs and workers.     *)
THEOREM TypeCorrect == Spec => []TypeOK
<1>1. Init => TypeOK
  BY FrequenciesArePeriods DEF Init, TypeOK, Idle, Tasks
<1> QED BY <1>1, TypeStep, PTL DEF Spec

(* The invariant holds initially.                                          *)
LEMMA InitHolds == Init => IInv
BY FrequenciesArePeriods
DEF Init, IInv, TypeOK, Tasks, FoundIsRecorded, StagedIsDue, StagedApart, BilledOnce,
    IsActive

(* The inductive invariant holds in every reachable state.                 *)
THEOREM Invariance == Spec => []IInv
<1>1. Init => IInv
  BY InitHolds
<1>2. IInv /\ [Next]_vars => IInv'
  BY TypeStep, StagedStep DEF IInv, StagedInv
<1> QED BY <1>1, <1>2, PTL DEF Spec

(* Invoices and marks agree and no usage is on two invoices                *)
(* (InvoiceService.generate_invoices), however many runs overlap.          *)
THEOREM UsageIsBilledOnce == Spec => []BilledOnce
<1>1. IInv => BilledOnce
  BY DEF IInv
<1> QED BY <1>1, Invariance, PTL

-------------------------------------------------------------------------------
(* Only a worker's commit and a billing commit write usage and invoices.   *)
LEMMA OnlyCommitsWrite ==
    ASSUME [Next]_vars, \A w \in Workers : ~WorkerCommits(w),
           \A n \in Runs : ~BillingCommits(n)
    PROVE  UNCHANGED rowVars
<1>1. CASE IngestNext
  BY <1>1 DEF IngestNext, Ingest, WorkerTakes, WorkerFails, rowVars
<1>2. CASE BillingNext
  BY <1>2 DEF BillingNext, BillingBegins, BillingSelects, BillingLocks,
              BillingRollsBack, rowVars
<1>3. CASE Tick \/ \E f \in Frequencies : ChangeFrequency(f)
  BY <1>3 DEF Tick, ChangeFrequency, rowVars
<1>4. CASE UNCHANGED vars
  BY <1>4 DEF vars, rowVars
<1> QED BY <1>1, <1>2, <1>3, <1>4 DEF Next

(* What a worker's commit does to the table.                               *)
LEMMA WorkerWrites ==
    ASSUME IInv, NEW w \in Workers, WorkerCommits(w)
    PROVE  /\ invoices' = invoices
           /\ \A k \in Keys : invoice_id'[k] = invoice_id[k]
           /\ \/ timestamp' = timestamp
              \/ \E k \in Keys : /\ timestamp[k] = None /\ timestamp'[k] # None
                                 /\ \A j \in Keys \ {k} : timestamp'[j] = timestamp[j]
<1> DEFINE k == task[w].key
<1>1. k \in Keys /\ task[w].began \in Nat
  BY DEF IInv, TypeOK, WorkerCommits, Tasks
<1>2. invoices' = invoices
  BY DEF WorkerCommits
<1>3. CASE timestamp[k] = None
  <2>1. /\ timestamp' = [timestamp EXCEPT ![k] = task[w].began]
        /\ invoice_id' = [invoice_id EXCEPT ![k] = None]
    BY <1>3 DEF WorkerCommits, Recordable
  <2>2. invoice_id[k] = None
    BY <1>1, <1>3 DEF IInv, BilledOnce
  <2>3. \A j \in Keys : invoice_id'[j] = invoice_id[j]
    BY <2>1, <2>2 DEF IInv, TypeOK
  <2>4. timestamp'[k] # None /\ \A j \in Keys \ {k} : timestamp'[j] = timestamp[j]
    BY <1>1, <2>1, NoneIsNoTime DEF IInv, TypeOK
  <2> HIDE DEF k
  <2> QED BY <1>1, <1>2, <1>3, <2>3, <2>4
<1>4. CASE timestamp[k] # None
  BY <1>2, <1>4 DEF WorkerCommits, Recordable
<1> QED BY <1>3, <1>4

(* What a billing commit does to it.                                       *)
LEMMA BillingWrites ==
    ASSUME IInv, NEW n \in Runs, BillingCommits(n)
    PROVE  /\ timestamp' = timestamp
           /\ invoices' = invoices \cup run[n].staged
           /\ \A k \in Keys : invoice_id[k] # None => invoice_id'[k] = invoice_id[k]
<1>1. IsActive(n)
  BY PhaseIsActive DEF BillingCommits
<1>2. \A k \in Keys : k \in Held(n) => invoice_id[k] = None
  BY <1>1, HeldFact DEF IInv, StagedIsDue
<1> QED BY <1>2 DEF BillingCommits

(* Recorded usage and its invoice never change again                       *)
(* (process_usage_event, InvoiceService.generate_invoices).                *)
THEOREM UsageIsWrittenOnce == Spec => UsageIsWriteOnce
<1>1. IInv /\ [Next]_vars =>
         [\A k \in Keys :
            /\ timestamp[k] # None => timestamp'[k] = timestamp[k]
            /\ invoice_id[k] # None => invoice_id'[k] = invoice_id[k]]_vars
  <2> SUFFICES ASSUME IInv, [Next]_vars, NEW k \in Keys
               PROVE  /\ timestamp[k] # None => timestamp'[k] = timestamp[k]
                      /\ invoice_id[k] # None => invoice_id'[k] = invoice_id[k]
    OBVIOUS
  <2>1. CASE \E w \in Workers : WorkerCommits(w)
    BY <2>1, WorkerWrites
  <2>2. CASE \E n \in Runs : BillingCommits(n)
    BY <2>2, BillingWrites
  <2>3. CASE UNCHANGED rowVars
    BY <2>3 DEF rowVars
  <2> QED BY <2>1, <2>2, <2>3, OnlyCommitsWrite
<1> QED BY <1>1, Invariance, PTL DEF Spec, UsageIsWriteOnce

-------------------------------------------------------------------------------
(* Refinement.                                                             *)

(* A billing commit is a bill of exactly-once billing.                     *)
LEMMA CommitBills ==
    ASSUME IInv, NEW n \in Runs, BillingCommits(n)
    PROVE  Abstract!Bill
<1>1. IsActive(n) /\ run[n] \in Active
  BY ActiveType, PhaseIsActive DEF IInv, BillingCommits
<1>2. timestamp' = timestamp /\ invoices' = invoices \cup run[n].staged
  BY BillingWrites
<1>3. ASSUME NEW i \in invoices' \ invoices
      PROVE  /\ i.events # {}
             /\ i.events \subseteq {k \in Keys : timestamp[k] # None} \ Abstract!Billed
             /\ \A k \in i.events : ClientOf[k] = i.client
             /\ \A j \in invoices' \ invoices : i # j => i.events \cap j.events = {}
  <2>1. i \in run[n].staged /\ i \in Invoices
    BY <1>1, <1>2, <1>3 DEF Active
  <2>2. /\ i.events # {}
        /\ \A k \in i.events : /\ k \in Keys /\ timestamp[k] # None
                                /\ invoice_id[k] = None /\ ClientOf[k] = i.client
    BY <1>1, <2>1 DEF IInv, StagedIsDue, Invoices
  <2>3. ASSUME NEW k \in i.events, NEW j \in invoices, k \in j.events
        PROVE  FALSE
    <3>1. invoice_id[k] = j /\ j # None
      BY <2>3, NoneIsNoInvoice DEF IInv, TypeOK, BilledOnce
    <3> QED BY <2>2, <3>1
  <2>4. i.events \cap Abstract!Billed = {}
    BY <2>3 DEF Abstract!Billed
  <2>5. ASSUME NEW j \in invoices' \ invoices, i # j
        PROVE  i.events \cap j.events = {}
    <3>1. j \in run[n].staged
      BY <1>2, <2>5
    <3>2. \A k \in Keys : ~(k \in i.events /\ k \in j.events)
      BY <1>1, <2>1, <2>5, <3>1 DEF IInv, StagedApart
    <3> QED BY <2>2, <3>2
  <2> QED BY <2>2, <2>4, <2>5
<1>4. {k \in Keys : timestamp[k] # None}' = {k \in Keys : timestamp[k] # None}
  BY <1>2
<1>5. invoices \subseteq invoices'
  BY <1>2
<1> QED BY <1>3, <1>4, <1>5 DEF Abstract!Bill

(* Usage billing implements exactly-once billing: a worker's commit is the *)
(* recording of its usage or nothing, a billing commit is a bill, and all  *)
(* else is hidden.                                                         *)
THEOREM Refinement == Spec => ImplementsExactlyOnce
<1>1. Init => Abstract!Init
  BY DEF Init, Abstract!Init
<1>2. IInv /\ [Next]_vars => [Abstract!Next]_(Abstract!vars)
  <2> SUFFICES ASSUME IInv, [Next]_vars
               PROVE  Abstract!Next \/ UNCHANGED Abstract!vars
    OBVIOUS
  <2>1. ASSUME NEW w \in Workers, WorkerCommits(w)
        PROVE  Abstract!Next \/ UNCHANGED Abstract!vars
    <3>1. CASE timestamp' = timestamp
      BY <2>1, <3>1, WorkerWrites DEF Abstract!vars
    <3>2. CASE \E k \in Keys :
                  /\ timestamp[k] = None /\ timestamp'[k] # None
                  /\ \A j \in Keys \ {k} : timestamp'[j] = timestamp[j]
      <4>1. PICK k \in Keys :
                  /\ timestamp[k] = None /\ timestamp'[k] # None
                  /\ \A j \in Keys \ {k} : timestamp'[j] = timestamp[j]
        BY <3>2
      <4>2. {j \in Keys : timestamp'[j] # None} = {j \in Keys : timestamp[j] # None} \cup {k}
        BY <4>1
      <4>3. invoices' = invoices
        BY <2>1, WorkerWrites
      <4>4. Abstract!Record(k)
        BY <4>1, <4>2, <4>3 DEF Abstract!Record
      <4> QED BY <4>4 DEF Abstract!Next
    <3> QED BY <2>1, <3>1, <3>2, WorkerWrites
  <2>2. ASSUME NEW n \in Runs, BillingCommits(n)
        PROVE  Abstract!Next
    BY <2>2, CommitBills DEF Abstract!Next
  <2>3. CASE UNCHANGED rowVars
    BY <2>3 DEF rowVars, Abstract!vars
  <2> QED BY <2>1, <2>2, <2>3, OnlyCommitsWrite
<1> QED BY <1>1, <1>2, Invariance, PTL DEF Spec, ImplementsExactlyOnce, Abstract!Spec

-------------------------------------------------------------------------------
(* Nothing is left behind.                                                 *)

Uninvoiced(k) == timestamp[k] # None /\ invoice_id[k] = None

(* A worker's transaction does not outlive the tick it began in.           *)
WorkersPrompt == \A w \in Workers : task[w] # Idle => task[w].began = clock

(* The period that ends next has begun.                                    *)
PeriodBegun == next - frequency <= clock

(* A run has dealt with every period before its own: what it has not       *)
(* staged of the uninvoiced usage is not older than the period it is at    *)
(* and, once its snapshot is taken, what the snapshot missed is not older  *)
(* than the period's end.                                                  *)
Covers(r) ==
    /\ r.frequency = frequency
    /\ r.now <= clock
    /\ r.next - frequency <= r.now
    /\ r.phase = "lock" => r.next <= r.now
    /\ \A k \in Keys : Uninvoiced(k) /\ (\A i \in r.staged : k \notin i.events) =>
          /\ timestamp[k] >= r.next - frequency
          /\ r.phase = "lock" /\ k \notin r.found => timestamp[k] >= r.next

RunsCover == \A n \in Runs : IsActive(n) => Covers(run[n])

LeftInv == IInv /\ WorkersPrompt /\ PeriodBegun /\ RunsCover /\ NothingLeftBehind

(* What becomes uninvoiced is recorded now; time goes on, and the          *)
(* frequency stays.                                                        *)
UsageMoves ==
    /\ frequency' = frequency
    /\ clock' >= clock
    /\ \A k \in Keys : Uninvoiced(k)' =>
          \/ Uninvoiced(k) /\ timestamp'[k] = timestamp[k]
          \/ timestamp'[k] = clock

(* Without changes allowed the frequency does not change.                  *)
LEMMA NoChange ==
    ASSUME TypeOK, MaxChanges = 0, NEW f, ChangeFrequency(f)
    PROVE  FALSE
BY DEF TypeOK, ChangeFrequency

(* Every step moves usage in no other way.                                 *)
LEMMA StepUsage ==
    ASSUME LeftInv, [Next]_vars, MaxChanges = 0
    PROVE  UsageMoves
<1>1. CASE UNCHANGED rowVars /\ UNCHANGED clock /\ UNCHANGED frequency
  BY <1>1 DEF UsageMoves, Uninvoiced, rowVars, LeftInv, IInv, TypeOK
<1>2. ASSUME NEW w \in Workers, WorkerCommits(w) PROVE UsageMoves
  <2>1. task[w].began = clock /\ clock' = clock /\ frequency' = frequency
    BY <1>2 DEF WorkerCommits, LeftInv, WorkersPrompt, projectVars
  <2>2. PICK k \in Keys : k = task[w].key
    BY <1>2 DEF WorkerCommits, Tasks, LeftInv, IInv, TypeOK
  <2>3. CASE Recordable(k)
    <3>1. /\ timestamp' = [timestamp EXCEPT ![k] = clock]
          /\ invoice_id' = [invoice_id EXCEPT ![k] = None]
      BY <1>2, <2>1, <2>2, <2>3 DEF WorkerCommits
    <3> QED BY <2>1, <2>2, <3>1 DEF UsageMoves, Uninvoiced, LeftInv, IInv, TypeOK
  <2>4. CASE ~Recordable(k)
    <3>1. UNCHANGED <<timestamp, invoice_id>>
      BY <1>2, <2>2, <2>4 DEF WorkerCommits
    <3> QED BY <2>1, <3>1 DEF UsageMoves, Uninvoiced, LeftInv, IInv, TypeOK
  <2> QED BY <2>3, <2>4
<1>3. ASSUME NEW n \in Runs, BillingCommits(n) PROVE UsageMoves
  <2>1. clock' = clock /\ frequency' = frequency
    BY <1>3 DEF BillingCommits
  <2>2. /\ timestamp' = timestamp
        /\ \A k \in Keys : invoice_id[k] # None => invoice_id'[k] = invoice_id[k]
    BY <1>3, BillingWrites DEF LeftInv
  <2> QED BY <2>1, <2>2 DEF UsageMoves, Uninvoiced, LeftInv, IInv, TypeOK
<1>4. CASE Tick
  <2>1. clock' = clock + 1 /\ UNCHANGED rowVars /\ UNCHANGED frequency
    BY <1>4 DEF Tick, projectVars
  <2> QED BY <2>1 DEF UsageMoves, Uninvoiced, rowVars, LeftInv, IInv, TypeOK
<1>5. CASE \/ \E k \in Keys : Ingest(k) \/ \E w \in Workers : WorkerTakes(w, k)
           \/ \E w \in Workers : WorkerFails(w)
           \/ \E n \in Runs : \/ BillingBegins(n) \/ BillingSelects(n)
                              \/ BillingLocks(n) \/ BillingRollsBack(n)
           \/ UNCHANGED vars
  BY <1>1, <1>5 DEF Ingest, WorkerTakes, WorkerFails, BillingBegins, BillingSelects,
                    BillingLocks, BillingRollsBack, vars, projectVars
<1>6. IngestNext => UsageMoves
  BY <1>2, <1>5 DEF IngestNext
<1>7. BillingNext => UsageMoves
  BY <1>3, <1>5 DEF BillingNext
<1>8. ~ \E f \in Frequencies : ChangeFrequency(f)
  BY NoChange DEF LeftInv, IInv
<1> QED BY <1>4, <1>5, <1>6, <1>7, <1>8 DEF Next

(* Without lag time does not pass under a worker's transaction.            *)
LEMMA PromptStep ==
    ASSUME LeftInv, [Next]_vars, MaxLag = 0
    PROVE  WorkersPrompt'
<1>1. ASSUME NEW w \in Workers, NEW k \in Keys, WorkerTakes(w, k) PROVE WorkersPrompt'
  BY <1>1 DEF WorkerTakes, WorkersPrompt, LeftInv, IInv, TypeOK
<1>2. ASSUME NEW w \in Workers, WorkerCommits(w) \/ WorkerFails(w) PROVE WorkersPrompt'
  BY <1>2 DEF WorkerCommits, WorkerFails, WorkersPrompt, LeftInv, IInv, TypeOK
<1>3. CASE Tick
  <2>1. \A w \in Workers : task[w] = Idle
    BY <1>3 DEF Tick, LeftInv, WorkersPrompt, IInv, TypeOK
  <2> QED BY <1>3, <2>1 DEF Tick, WorkersPrompt, ingestVars
<1>4. CASE UNCHANGED <<task, clock>>
  BY <1>4 DEF WorkersPrompt, LeftInv
<1>5. ASSUME NEW k \in Keys, Ingest(k) PROVE UNCHANGED <<task, clock>>
  BY <1>5 DEF Ingest
<1>6. BillingNext => UNCHANGED <<task, clock>>
  BY DEF BillingNext, BillingBegins, BillingSelects, BillingLocks, BillingCommits,
         BillingRollsBack, ingestVars
<1>7. ASSUME NEW f \in Frequencies, ChangeFrequency(f) PROVE UNCHANGED <<task, clock>>
  BY <1>7 DEF ChangeFrequency, ingestVars
<1>8. UNCHANGED vars => UNCHANGED <<task, clock>>
  BY DEF vars, ingestVars
<1> QED BY <1>1, <1>2, <1>3, <1>4, <1>5, <1>6, <1>7, <1>8 DEF Next, IngestNext

(* What a run has dealt with, it has dealt with whatever is recorded or    *)
(* invoiced meanwhile.                                                     *)
LEMMA CoversStays ==
    ASSUME LeftInv, TypeOK', UsageMoves, NEW r \in Active, Covers(r)
    PROVE  Covers(r)'
<1>1. r.next \in Nat /\ r.now \in Nat /\ clock \in Nat /\ frequency \in Nat
  BY FrequenciesArePeriods DEF Active, LeftInv, IInv, TypeOK
<1>2. clock' \in Nat /\ clock' >= clock /\ frequency' = frequency
  BY DEF UsageMoves, TypeOK
<1>3. ASSUME NEW k \in Keys, Uninvoiced(k)', \A i \in r.staged : k \notin i.events
      PROVE  /\ timestamp'[k] >= r.next - frequency
             /\ r.phase = "lock" /\ k \notin r.found => timestamp'[k] >= r.next
  <2>1. CASE Uninvoiced(k) /\ timestamp'[k] = timestamp[k]
    BY <1>3, <2>1 DEF Covers
  <2>2. CASE timestamp'[k] = clock
    BY <1>1, <2>2 DEF Covers
  <2> QED BY <1>3, <2>1, <2>2 DEF UsageMoves
<1> QED BY <1>1, <1>2, <1>3 DEF Covers

(* A run that begins has no period before its own, because the next        *)
(* billing date is where the last one ended.                               *)
LEMMA BeginsCovers ==
    ASSUME LeftInv, NEW n \in Runs, BillingBegins(n)
    PROVE  \E r \in Active : run' = [run EXCEPT ![n] = r] /\ Covers(r)
<1>1. PICK r : r = [phase |-> "select", next |-> next, frequency |-> frequency,
                    now |-> clock, found |-> {}, staged |-> {}]
  OBVIOUS
<1>2. r \in Active
  BY <1>1 DEF Active, LeftInv, IInv, TypeOK
<1>3. run' = [run EXCEPT ![n] = r]
  BY <1>1 DEF BillingBegins
<1>4. next <= clock /\ next \in Nat /\ clock \in Nat /\ frequency \in Nat
  BY FrequenciesArePeriods DEF BillingBegins, LeftInv, IInv, TypeOK
<1>5. Covers(r)
  BY <1>1, <1>4 DEF Covers, LeftInv, NothingLeftBehind, Uninvoiced
<1> QED BY <1>2, <1>3, <1>5

(* A period without due usage is passed over; otherwise the snapshot has   *)
(* all that is due in the period.                                          *)
LEMMA SelectsCovers ==
    ASSUME LeftInv, NEW n \in Runs, BillingSelects(n)
    PROVE  \E r \in Active : run' = [run EXCEPT ![n] = r] /\ Covers(r)
<1>1. PICK s \in Active : s = run[n] /\ Covers(s) /\ s.phase = "select" /\ s.next <= s.now
  BY ActiveType, PhaseIsActive DEF BillingSelects, LeftInv, IInv, RunsCover
<1>2. PICK m \in SUBSET Keys : m = Matching(n)
  BY DEF Matching
<1>3. s.next \in Nat /\ s.frequency \in Nat /\ s.now \in Nat /\ frequency = s.frequency
  BY <1>1, FrequenciesArePeriods DEF Active, Covers
<1>4. ASSUME NEW k \in Keys, Uninvoiced(k), \A i \in s.staged : k \notin i.events, k \notin m
      PROVE  timestamp[k] >= s.next
  <2>1. ~InPeriod(timestamp[k], s.next - s.frequency, s.next)
    BY <1>1, <1>2, <1>4, HeldFact DEF Matching, Uninvoiced
  <2>2. timestamp[k] \in Nat /\ timestamp[k] >= s.next - s.frequency
    BY <1>1, <1>3, <1>4 DEF Covers, Uninvoiced, LeftInv, IInv, TypeOK
  <2> QED BY <1>3, <2>1, <2>2 DEF InPeriod
<1>5. CASE m = {}
  <2>1. PICK r : r = Advance(s)
    OBVIOUS
  <2>2. r \in Active
    BY <2>1, AdvanceType
  <2>3. /\ r.phase = "select" /\ r.next = s.next + s.frequency /\ r.frequency = s.frequency
        /\ r.now = s.now /\ r.staged = s.staged
    BY <2>1 DEF Advance, Active
  <2>4. run' = [run EXCEPT ![n] = r]
    BY <1>1, <1>2, <1>5, <2>1 DEF BillingSelects
  <2>5. r.next - frequency = s.next
    BY <1>3, <2>3
  <2>6. Covers(r)
    BY <1>1, <1>3, <1>4, <1>5, <2>3, <2>5 DEF Covers
  <2> QED BY <2>2, <2>4, <2>6
<1>6. CASE m # {}
  <2>1. PICK r : r = [s EXCEPT !.phase = "lock", !.found = m]
    OBVIOUS
  <2>2. /\ r \in Active /\ r.phase = "lock" /\ r.found = m /\ r.next = s.next
        /\ r.frequency = s.frequency /\ r.now = s.now /\ r.staged = s.staged
    BY <2>1 DEF Active
  <2>3. run' = [run EXCEPT ![n] = r]
    BY <1>1, <1>2, <1>6, <2>1 DEF BillingSelects
  <2>4. Covers(r)
    BY <1>1, <1>3, <1>4, <2>2 DEF Covers
  <2> QED BY <2>2, <2>3, <2>4
<1> QED BY <1>5, <1>6

(* What was found and is still due is staged, so the period is done.       *)
LEMMA LocksCovers ==
    ASSUME LeftInv, NEW n \in Runs, BillingLocks(n)
    PROVE  \E r \in Active : run' = [run EXCEPT ![n] = r] /\ Covers(r)
<1>1. PICK s \in Active : s = run[n] /\ Covers(s) /\ s.phase = "lock" /\ s.next <= s.now
  BY ActiveType, PhaseIsActive DEF BillingLocks, LeftInv, IInv, RunsCover, Covers
<1>2. PICK due \in SUBSET Keys : due = {k \in s.found : StillDue(k)}
  BY DEF Active
<1>3. PICK new \in SUBSET Invoices : new = Stage(n, due)
  BY <1>1, StageType
<1>4. PICK t : t = [s EXCEPT !.staged = @ \cup new]
  OBVIOUS
<1>5. t \in Active /\ t.staged = s.staged \cup new /\ t.next = s.next /\ t.now = s.now
      /\ t.frequency = s.frequency
  BY <1>4 DEF Active
<1>6. PICK r : r = Advance(t)
  OBVIOUS
<1>7. r \in Active
  BY <1>5, <1>6, AdvanceType
<1>8. /\ r.phase = "select" /\ r.next = s.next + s.frequency /\ r.frequency = s.frequency
      /\ r.now = s.now /\ r.staged = s.staged \cup new
  BY <1>5, <1>6 DEF Advance, Active
<1>9. run' = [run EXCEPT ![n] = r]
  BY <1>1, <1>2, <1>3, <1>4, <1>6 DEF BillingLocks
<1>10. s.next \in Nat /\ s.frequency \in Nat /\ s.now \in Nat /\ frequency = s.frequency
  BY <1>1, FrequenciesArePeriods DEF Active, Covers
<1>11. ASSUME NEW k \in Keys, Uninvoiced(k), \A i \in s.staged \cup new : k \notin i.events
       PROVE  timestamp[k] >= s.next
  <2>1. k \notin due
    <3>1. SUFFICES ASSUME k \in due PROVE FALSE
      OBVIOUS
    <3>2. PICK i : i = [run |-> n, client |-> ClientOf[k], end |-> run[n].next,
                        events |-> {j \in due : ClientOf[j] = ClientOf[k]}]
      OBVIOUS
    <3>3. i \in new
      BY <1>3, <3>1, <3>2 DEF Stage
    <3> QED BY <1>11, <3>1, <3>2, <3>3
  <2>2. k \notin s.found
    BY <1>2, <1>11, <2>1 DEF StillDue, Uninvoiced
  <2> QED BY <1>1, <1>11, <2>2 DEF Covers
<1>12. r.next - frequency = s.next
  BY <1>8, <1>10
<1>13. Covers(r)
  BY <1>1, <1>8, <1>10, <1>11, <1>12 DEF Covers
<1> QED BY <1>7, <1>9, <1>13

(* Every step keeps what is behind each run covered.                       *)
LEMMA CoverStep ==
    ASSUME LeftInv, [Next]_vars, TypeOK', UsageMoves
    PROVE  RunsCover'
<1>1. ASSUME NEW n \in Runs, NEW r, r \in Active => Covers(r),
             run' = [run EXCEPT ![n] = r], r \in Active \cup {Done}
      PROVE  RunsCover'
  <2> SUFFICES ASSUME NEW m \in Runs, IsActive(m)' PROVE Covers(run[m])'
    BY DEF RunsCover
  <2>1. PICK t \in Active : t = run'[m]
    BY DEF TypeOK, IsActive
  <2>2. Covers(t)
    <3>1. CASE m = n
      <4>1. t = r
        BY <1>1, <2>1, <3>1 DEF LeftInv, IInv, TypeOK
      <4> QED BY <1>1, <4>1
    <3>2. CASE m # n
      <4>1. t = run[m]
        BY <1>1, <2>1, <3>2 DEF LeftInv, IInv, TypeOK
      <4>2. IsActive(m)
        BY <4>1 DEF IsActive, Active, Unused, Done
      <4> QED BY <4>1, <4>2 DEF LeftInv, RunsCover
    <3> QED BY <3>1, <3>2
  <2>3. Covers(t)'
    BY <2>2, CoversStays
  <2> QED BY <2>1, <2>3 DEF Covers
<1>2. CASE UNCHANGED run
  <2> SUFFICES ASSUME NEW m \in Runs, IsActive(m)' PROVE Covers(run[m])'
    BY DEF RunsCover
  <2>1. PICK t \in Active : t = run'[m] /\ Covers(t)
    BY <1>2 DEF TypeOK, IsActive, LeftInv, RunsCover
  <2>2. Covers(t)'
    BY <2>1, CoversStays
  <2> QED BY <2>1, <2>2 DEF Covers
<1>3. ASSUME NEW n \in Runs, BillingBegins(n) \/ BillingSelects(n) \/ BillingLocks(n)
      PROVE  RunsCover'
  BY <1>1, <1>3, BeginsCovers, SelectsCovers, LocksCovers
<1>4. ASSUME NEW n \in Runs, BillingCommits(n) \/ BillingRollsBack(n)
      PROVE  RunsCover'
  <2>1. run' = [run EXCEPT ![n] = Done]
    BY <1>4 DEF BillingCommits, BillingRollsBack
  <2>2. Done \notin Active
    BY DEF Done, Active
  <2> QED BY <1>1, <2>1, <2>2
<1>5. IngestNext => UNCHANGED run
  BY DEF IngestNext, Ingest, WorkerTakes, WorkerCommits, WorkerFails
<1>6. Tick => UNCHANGED run
  BY DEF Tick
<1>7. ASSUME NEW f \in Frequencies, ChangeFrequency(f) PROVE UNCHANGED run
  BY <1>7 DEF ChangeFrequency
<1>8. UNCHANGED vars => UNCHANGED run
  BY DEF vars
<1> QED BY <1>2, <1>3, <1>4, <1>5, <1>6, <1>7, <1>8 DEF Next, BillingNext

(* The next billing date moves only over usage a run has staged and bills  *)
(* in the same commit.                                                     *)
LEMMA NothingLeftStep ==
    ASSUME LeftInv, [Next]_vars, TypeOK', UsageMoves, MaxChanges = 0
    PROVE  PeriodBegun' /\ NothingLeftBehind'
<1>1. /\ clock \in Nat /\ clock' \in Nat /\ next \in Nat /\ next' \in Nat
      /\ frequency' = frequency /\ frequency \in Nat /\ clock' >= clock
  BY FrequenciesArePeriods DEF LeftInv, IInv, TypeOK, UsageMoves
<1>2. CASE next' = next
  <2>1. PeriodBegun'
    BY <1>1, <1>2 DEF PeriodBegun, LeftInv
  <2>2. ASSUME NEW k \in Keys, Uninvoiced(k)' PROVE timestamp'[k] >= next' - frequency'
    BY <1>1, <1>2, <2>2 DEF UsageMoves, Uninvoiced, PeriodBegun, LeftInv, NothingLeftBehind
  <2> QED BY <2>1, <2>2 DEF NothingLeftBehind, Uninvoiced
<1>3. ASSUME NEW n \in Runs, BillingCommits(n)
      PROVE  PeriodBegun' /\ NothingLeftBehind'
  <2>1. PICK s \in Active : s = run[n] /\ Covers(s)
    BY <1>3, ActiveType, PhaseIsActive DEF BillingCommits, LeftInv, IInv, RunsCover
  <2>2. next' = s.next /\ timestamp' = timestamp
    BY <1>3, <2>1 DEF BillingCommits
  <2>3. PeriodBegun'
    <3>1. s.now \in Nat /\ s.next - frequency <= s.now /\ s.now <= clock
      BY <2>1 DEF Covers, Active
    <3> QED BY <1>1, <2>2, <3>1 DEF PeriodBegun
  <2>4. ASSUME NEW k \in Keys, Uninvoiced(k)'
        PROVE  Uninvoiced(k) /\ \A i \in s.staged : k \notin i.events
    <3>1. Uninvoiced(k)
      BY <1>3, <2>2, <2>4, BillingWrites DEF Uninvoiced, LeftInv
    <3>2. k \notin Held(n)
      <4>1. SUFFICES ASSUME k \in Held(n) PROVE FALSE
        OBVIOUS
      <4>2. invoice_id'[k] = CHOOSE i \in s.staged : k \in i.events
        BY <1>3, <2>1, <4>1 DEF BillingCommits
      <4>3. (CHOOSE i \in s.staged : k \in i.events) \in Invoices
        BY <2>1, <4>1, HeldFact DEF Active
      <4> QED BY <2>4, <4>2, <4>3, NoneIsNoInvoice DEF Uninvoiced
    <3> QED BY <2>1, <3>1, <3>2, HeldFact
  <2>5. ASSUME NEW k \in Keys, Uninvoiced(k)' PROVE timestamp'[k] >= next' - frequency'
    BY <1>1, <2>1, <2>2, <2>4, <2>5 DEF Covers
  <2> QED BY <2>3, <2>5 DEF NothingLeftBehind, Uninvoiced
<1>4. IngestNext => next' = next
  BY DEF IngestNext, Ingest, WorkerTakes, WorkerCommits, WorkerFails, projectVars
<1>5. ASSUME NEW n \in Runs, \/ BillingBegins(n) \/ BillingSelects(n)
                             \/ BillingLocks(n) \/ BillingRollsBack(n)
      PROVE  next' = next
  BY <1>5 DEF BillingBegins, BillingSelects, BillingLocks, BillingRollsBack, projectVars
<1>6. Tick => next' = next
  BY DEF Tick, projectVars
<1>7. ~ \E f \in Frequencies : ChangeFrequency(f)
  BY NoChange DEF LeftInv, IInv
<1>8. UNCHANGED vars => next' = next
  BY DEF vars, projectVars
<1> QED BY <1>2, <1>3, <1>4, <1>5, <1>6, <1>7, <1>8 DEF Next, BillingNext

(* The invariant is inductive.                                             *)
LEMMA LeftStep ==
    ASSUME LeftInv, [Next]_vars, MaxChanges = 0, MaxLag = 0
    PROVE  LeftInv'
<1>1. IInv'
  BY TypeStep, StagedStep DEF LeftInv, IInv, StagedInv
<1>2. UsageMoves
  BY StepUsage
<1>3. TypeOK'
  BY <1>1 DEF IInv
<1> QED BY <1>1, <1>2, <1>3, PromptStep, CoverStep, NothingLeftStep DEF LeftInv

(* While the frequency stays and no worker's transaction is open across a  *)
(* tick, no recorded usage falls behind the period billed next, however    *)
(* many runs of generate_project_billing overlap, roll back or bill        *)
(* several missed periods (InvoiceService.generate_invoices).              *)
THEOREM NoUsageLeftBehind ==
    ASSUME MaxChanges = 0, MaxLag = 0
    PROVE  Spec => []NothingLeftBehind
<1>1. Init => LeftInv
  <2> SUFFICES ASSUME Init PROVE LeftInv
    OBVIOUS
  <2>1. IInv
    BY InitHolds
  <2>2. WorkersPrompt /\ RunsCover /\ NothingLeftBehind
    BY DEF Init, WorkersPrompt, RunsCover, IsActive, NothingLeftBehind
  <2>3. PeriodBegun
    BY FrequenciesArePeriods DEF Init, PeriodBegun
  <2> QED BY <2>1, <2>2, <2>3 DEF LeftInv
<1>2. LeftInv /\ [Next]_vars => LeftInv'
  BY LeftStep
<1>3. LeftInv => NothingLeftBehind
  BY DEF LeftInv
<1> QED BY <1>1, <1>2, <1>3, PTL DEF Spec
===============================================================================
