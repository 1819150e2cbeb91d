----------------------------- MODULE UsageBilling -----------------------------
(***************************************************************************)
(* Usage of one project: accepted by the API, queued in the broker,        *)
(* recorded by Celery workers, and invoiced by billing runs (the nightly   *)
(* task and POST /invoices, which may overlap).                            *)
(*                                                                         *)
(* A billing run is one transaction: it reads the project once, then per   *)
(* missed period selects the uninvoiced events FOR UPDATE, inserts         *)
(* invoices and marks the events, and commits everything at the end.  The  *)
(* SELECT ... FOR UPDATE is two steps, as PostgreSQL executes it: a        *)
(* snapshot of matching rows, then locking them, which waits for other     *)
(* holders and looks at each row again.  It joins event_types, so it locks *)
(* those rows too; a worker's INSERT needs a share of its event type's     *)
(* row (foreign key) and waits for them.                                   *)
(*                                                                         *)
(* Time is a clock that ticks; a billing period is a number of ticks.      *)
(***************************************************************************)
EXTENDS Naturals, FiniteSets

CONSTANTS
    Keys,          \* usage clients may send: client and idempotency key
    ClientOf,      \* the client of each key
    TypeOfEvent,   \* the event type of each key
    Frequencies,   \* the lengths of the billing frequencies
    Workers,       \* Celery worker processes
    MaxRuns,       \* bound: billing runs
    MaxTime,       \* bound: the clock
    MaxSends,      \* bound: messages per key (client retries, redelivery)
    MaxFaults,     \* bound: failed worker tasks and billing runs
    MaxChanges,    \* bound: changes of the billing frequency
    MaxLag,        \* bound: ticks a worker's transaction may stay open
    None           \* no value

ASSUME FrequenciesArePeriods == Frequencies \subseteq Nat \ {0}

ASSUME NoneIsNoTime == None \notin Nat

Clients == {ClientOf[k] : k \in Keys}
Runs == 1 .. MaxRuns

VARIABLES
    clock,
    next,         \* project.next_billing_date
    frequency,    \* project.billing_frequency
    queue,        \* messages in the broker, per key
    sent,         \* messages ever published, per key
    task,         \* the usage a worker is inserting; the time its transaction began
    timestamp,    \* usage_events.timestamp of each recorded key; None: no row
    invoice_id,   \* usage_events.invoice_id; None: not invoiced
    invoices,     \* committed invoices
    run,          \* the session of each billing run
    faults, changes

ingestVars  == <<queue, sent, task>>
rowVars     == <<timestamp, invoice_id, invoices>>
projectVars == <<next, frequency>>
vars == <<clock, projectVars, ingestVars, rowVars, run, faults, changes>>

Idle == [key |-> None, began |-> None]
Tasks == [key : Keys, began : Nat] \cup {Idle}
Invoices == [run : Runs, client : Clients, end : Nat, events : SUBSET Keys]

Unused == [phase |-> "unused"]
Done == [phase |-> "done"]
Active == [phase : {"select", "lock"}, next : Nat, frequency : Frequencies,
           now : Nat, found : SUBSET Keys, staged : SUBSET Invoices]

ASSUME NoneIsNoInvoice == None \notin Invoices

TypeOK ==
    /\ clock \in Nat
    /\ next \in Nat /\ frequency \in Frequencies
    /\ queue \in [Keys -> Nat] /\ sent \in [Keys -> Nat]
    /\ task \in [Workers -> Tasks]
    /\ timestamp \in [Keys -> Nat \cup {None}]
    /\ invoice_id \in [Keys -> Invoices \cup {None}]
    /\ invoices \in SUBSET Invoices
    /\ run \in [Runs -> Active \cup {Unused, Done}]
    /\ faults \in Nat /\ changes \in Nat

(* ProjectService.create_project at time 0: the first period ends one      *)
(* frequency later.                                                        *)
Init ==
    /\ clock = 0
    /\ frequency \in Frequencies
    /\ next = frequency
    /\ queue = [k \in Keys |-> 0]
    /\ sent = [k \in Keys |-> 0]
    /\ task = [w \in Workers |-> Idle]
    /\ timestamp = [k \in Keys |-> None]
    /\ invoice_id = [k \in Keys |-> None]
    /\ invoices = {}
    /\ run = [n \in Runs |-> Unused]
    /\ faults = 0
    /\ changes = 0

-------------------------------------------------------------------------------
(* Locks held by billing runs, until they commit or roll back.             *)

IsActive(n) == run[n] \notin {Unused, Done}
Held(n) == UNION {i.events : i \in run[n].staged}
LockedTypes(n) == {TypeOfEvent[k] : k \in Held(n)}
LockedBy(k, n) == IsActive(n) /\ TypeOfEvent[k] \in LockedTypes(n)

-------------------------------------------------------------------------------
(* Ingestion.                                                              *)

(* POST /usage-events answers 202 once the message is in the broker; a     *)
(* client that is not sure sends again with the same idempotency key.      *)
Ingest(k) ==
    /\ sent[k] < MaxSends
    /\ queue' = [queue EXCEPT ![k] = @ + 1]
    /\ sent' = [sent EXCEPT ![k] = @ + 1]
    /\ UNCHANGED <<clock, projectVars, task, rowVars, run, faults, changes>>

(* process_usage_event begins: Celery has acknowledged the message before  *)
(* it runs the task.  The row's timestamp is the start of the transaction. *)
WorkerTakes(w, k) ==
    /\ task[w] = Idle
    /\ queue[k] > 0
    /\ queue' = [queue EXCEPT ![k] = @ - 1]
    /\ task' = [task EXCEPT ![w] = [key |-> k, began |-> clock]]
    /\ UNCHANGED <<clock, projectVars, sent, rowVars, run, faults, changes>>

(* The insert and its commit.  A second row for the client and key         *)
(* violates the unique constraint, which is taken for a duplicate and      *)
(* ignored.                                                                *)
RecordableAlways(k) == TRUE     \* mutant: no unique constraint
RecordablePerClient(k) ==       \* mutant: the constraint is on the client alone
    \A j \in Keys : ClientOf[j] = ClientOf[k] => timestamp[j] = None
Recordable(k) == timestamp[k] = None

WorkerCommits(w) ==
    /\ task[w] # Idle
    /\ \A n \in Runs : ~LockedBy(task[w].key, n)
    /\ LET k == task[w].key
       IN  IF Recordable(k)
           THEN /\ timestamp' = [timestamp EXCEPT ![k] = task[w].began]
                /\ invoice_id' = [invoice_id EXCEPT ![k] = None]
           ELSE UNCHANGED <<timestamp, invoice_id>>
    /\ task' = [task EXCEPT ![w] = Idle]
    /\ UNCHANGED <<clock, projectVars, queue, sent, invoices, run, faults, changes>>

(* Any other error is raised again, or the worker dies.  The message has   *)
(* been acknowledged and the task has no retry: the usage is gone.         *)
WorkerFails(w) ==
    /\ task[w] # Idle
    /\ faults < MaxFaults
    /\ task' = [task EXCEPT ![w] = Idle]
    /\ faults' = faults + 1
    /\ UNCHANGED <<clock, projectVars, queue, sent, rowVars, run, changes>>

-------------------------------------------------------------------------------
(* Billing.                                                                *)

(* generate_project_billing reads the project and the time.                *)
BillingBegins(n) ==
    /\ run[n] = Unused
    /\ \A m \in Runs : m < n => run[m] # Unused
    /\ next <= clock
    /\ run' = [run EXCEPT ![n] =
                 [phase |-> "select", next |-> next, frequency |-> frequency,
                  now |-> clock, found |-> {}, staged |-> {}]]
    /\ UNCHANGED <<clock, projectVars, ingestVars, rowVars, faults, changes>>

InPeriodOpen(t, start, end) == start < t /\ t <= end    \* mutant: start excluded
InPeriod(t, start, end) == start <= t /\ t <= end

(* The rows the SELECT finds in its snapshot: recorded, in the period      *)
(* (both ends included) and not invoiced, as this transaction sees it.     *)
Matching(n) ==
    {k \in Keys : /\ timestamp[k] # None
                  /\ invoice_id[k] = None
                  /\ k \notin Held(n)
                  /\ InPeriod(timestamp[k], run[n].next - run[n].frequency,
                              run[n].next)}

AdvanceBackwards(r) ==           \* mutant: the wrong sign
    [r EXCEPT !.phase = "select", !.found = {}, !.next = @ - r.frequency]
Advance(r) == [r EXCEPT !.phase = "select", !.found = {}, !.next = @ + r.frequency]

BillingSelects(n) ==
    /\ run[n].phase = "select"
    /\ run[n].next <= run[n].now
    /\ run' = [run EXCEPT ![n] =
                 IF Matching(n) = {} THEN Advance(@)
                 ELSE [@ EXCEPT !.phase = "lock", !.found = Matching(n)]]
    /\ UNCHANGED <<clock, projectVars, ingestVars, rowVars, faults, changes>>

(* The rows it gets when no other run holds them or their event types:     *)
(* those of its snapshot that are still not invoiced.  The locks are taken  *)
(* together here.  PostgreSQL takes them row by row; two runs that then    *)
(* wait for each other are a deadlock it breaks by failing one of them,    *)
(* which is BillingRollsBack.                                              *)
StillDueUnchecked(k) == TRUE     \* mutant: the rows are not looked at again
StillDue(k) == invoice_id[k] = None

(* The invoices of one period, a client each; the period ends now and the  *)
(* run goes on with the next one.                                          *)
StageTogether(n, events) ==      \* mutant: not grouped by client
    {[run |-> n, client |-> ClientOf[k], end |-> run[n].next, events |-> events] :
        k \in events}
Stage(n, events) ==
    {[run |-> n, client |-> c, end |-> run[n].next,
      events |-> {k \in events : ClientOf[k] = c}] :
        c \in {ClientOf[k] : k \in events}}

BillingLocks(n) ==
    /\ run[n].phase = "lock"
    /\ \A k \in run[n].found : \A m \in Runs \ {n} : ~LockedBy(k, m)
    /\ run' = [run EXCEPT ![n] =
                 Advance([run[n] EXCEPT !.staged =
                    @ \cup Stage(n, {k \in run[n].found : StillDue(k)})])]
    /\ UNCHANGED <<clock, projectVars, ingestVars, rowVars, faults, changes>>

(* One commit for all periods: the invoices, the marks on their events and *)
(* the project's next billing date.                                        *)
BillingCommits(n) ==
    /\ run[n].phase = "select"
    /\ run[n].next > run[n].now
    /\ invoices' = invoices \cup run[n].staged
    /\ invoice_id' = [k \in Keys |->
                        IF k \in Held(n)
                        THEN CHOOSE i \in run[n].staged : k \in i.events
                        ELSE invoice_id[k]]
    /\ next' = run[n].next
    /\ run' = [run EXCEPT ![n] = Done]
    /\ UNCHANGED <<clock, frequency, ingestVars, timestamp, faults, changes>>

(* An exception rolls everything back; so does the death of the process.   *)
BillingRollsBack(n) ==
    /\ IsActive(n)
    /\ faults < MaxFaults
    /\ run' = [run EXCEPT ![n] = Done]
    /\ faults' = faults + 1
    /\ UNCHANGED <<clock, projectVars, ingestVars, rowVars, changes>>

(* ProjectService.update_project with a billing frequency: the next        *)
(* billing date is one new period from now.                                *)
ChangeFrequency(f) ==
    /\ changes < MaxChanges
    /\ frequency' = f
    /\ next' = clock + f
    /\ changes' = changes + 1
    /\ UNCHANGED <<clock, ingestVars, rowVars, run, faults>>

Tick ==
    /\ clock < MaxTime
    /\ \A w \in Workers : task[w] # Idle => clock - task[w].began < MaxLag
    /\ clock' = clock + 1
    /\ UNCHANGED <<projectVars, ingestVars, rowVars, run, faults, changes>>

-------------------------------------------------------------------------------
IngestNext ==
    \/ \E k \in Keys : Ingest(k) \/ \E w \in Workers : WorkerTakes(w, k)
    \/ \E w \in Workers : WorkerCommits(w) \/ WorkerFails(w)

BillingNext ==
    \E n \in Runs :
        \/ BillingBegins(n)
        \/ BillingSelects(n)
        \/ BillingLocks(n)
        \/ BillingCommits(n)
        \/ BillingRollsBack(n)

Next == IngestNext \/ BillingNext \/ Tick \/ \E f \in Frequencies : ChangeFrequency(f)

Spec == Init /\ [][Next]_vars

(* Workers run, and a billing run that has begun goes on.                  *)
Fairness ==
    /\ \A w \in Workers :
          /\ \A k \in Keys : WF_vars(WorkerTakes(w, k))
          /\ WF_vars(WorkerCommits(w))
    /\ \A n \in Runs :
          WF_vars(BillingSelects(n) \/ BillingLocks(n) \/ BillingCommits(n))

FairSpec == Spec /\ Fairness

-------------------------------------------------------------------------------
(* What usage billing promises.                                            *)

(* The invoices and the marks agree: no usage is on two invoices, the      *)
(* usage on an invoice carries its mark, and a mark names a committed      *)
(* invoice that has the usage, of the same client.  Overlapping runs,      *)
(* overlapping periods and a billing date that moved back included.        *)
BilledOnce ==
    /\ \A i \in invoices : \A k \in i.events :
          invoice_id[k] = i /\ ClientOf[k] = i.client
    /\ \A k \in Keys : invoice_id[k] # None =>
          /\ invoice_id[k] \in invoices
          /\ k \in invoice_id[k].events
          /\ timestamp[k] # None

(* The detailed behaviour implements exactly-once billing.                 *)
Abstract == INSTANCE ExactlyOnceBilling
              WITH recorded <- {k \in Keys : timestamp[k] # None}
ImplementsExactlyOnce == Abstract!Spec

(* Recorded usage is written once: neither its time nor its invoice ever   *)
(* changes again, whoever delivers the same message again.                 *)
UsageIsWriteOnce ==
    [][\A k \in Keys :
          /\ timestamp[k] # None => timestamp'[k] = timestamp[k]
          /\ invoice_id[k] # None => invoice_id'[k] = invoice_id[k]]_vars

(* No usage falls behind: what is recorded and not invoiced lies in the    *)
(* period that will be billed next, or later.  Overlapping and failing     *)
(* runs keep it; a change of frequency and a worker's transaction that is  *)
(* open across the end of a period do not.                                 *)
NothingLeftBehind ==
    \A k \in Keys :
        timestamp[k] # None /\ invoice_id[k] = None =>
            timestamp[k] >= next - frequency

(* Every message that was answered with 202 becomes a row, however often   *)
(* it was sent and whatever billing holds locked, unless a task failed:    *)
(* nothing brings a failed task back.                                      *)
AcceptedIsRecorded ==
    \A k \in Keys : sent[k] > 0 ~> (timestamp[k] # None \/ faults > 0)
===============================================================================
