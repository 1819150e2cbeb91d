-------------------------------- MODULE Tables --------------------------------
(***************************************************************************)
(* The tables behind projects, clients, event types, pricing rules and API *)
(* keys, as app/models declares them: which row refers to which, what the  *)
(* database keeps unique, what a deletion does to the rows below.          *)
(*                                                                         *)
(* A row has one parent (`of') and may use others (usage names its key, its *)
(* event type and its project beside its client).  Its `name' is whatever  *)
(* tells it from its siblings: an e-mail, a name, a code, an idempotency   *)
(* key.  External ids, times, hashes and other columns are left out.       *)
(***************************************************************************)
EXTENDS Naturals

CONSTANT None       \* no row, no parent, no price

NewRow(t, parent, n, behind) ==
    [table |-> t, of |-> parent, uses |-> {}, name |-> n, price |-> None,
     revoked |-> FALSE, line |-> behind, renamed |-> FALSE]

UserRow(email, line)         == NewRow("users", None, email, line)
ProjectRow(user, name, line) == NewRow("projects", user, name, line)
ClientRow(project, email, line) == NewRow("clients", project, email, line)
EventTypeRow(project, code, line) == NewRow("event_types", project, code, line)
ApiKeyRow(client, name, line) == NewRow("api_keys", client, name, line)
PricingRuleRow(type, price, line) ==
    [NewRow("pricing_rules", type, None, line) EXCEPT !.price = price]
UsageEventRow(client, refs, key, line) ==
    [NewRow("usage_events", client, key, line) EXCEPT !.uses = refs]

(* The foreign keys of a row.                                              *)
Refs(x) == ({x.of} \cup x.uses) \ {None}

(* Two rows for the same thing.                                            *)
Clash(x, y) == x.table = y.table /\ x.of = y.of /\ x.name = y.name

(* What each model declares: the table its rows are under, by foreign key; *)
(* whether the database keeps a second row for the same thing out; which   *)
(* relationship() it has without a cascade (deleting a row through the ORM *)
(* loads those rows and sets their foreign key, which is NOT NULL, to      *)
(* NULL); whether its rows go with their parent, by ondelete="CASCADE".    *)
User ==
    [under |-> {}, unique |-> TRUE, children |-> {}, cascades |-> FALSE]
Project ==
    [under |-> {"users"}, unique |-> FALSE, children |-> {"clients"}, cascades |-> FALSE]
Client ==
    [under |-> {"projects"}, unique |-> FALSE, children |-> {"api_keys"}, cascades |-> FALSE]
EventType ==
    [under |-> {"projects"}, unique |-> TRUE, children |-> {"pricing_rules"}, cascades |-> FALSE]
PricingRule ==
    [under |-> {"event_types"}, unique |-> TRUE, children |-> {}, cascades |-> FALSE]
ApiKey ==
    [under |-> {"clients"}, unique |-> FALSE, children |-> {}, cascades |-> TRUE]
UsageEvent ==
    [under |-> {"clients"}, unique |-> TRUE, children |-> {}, cascades |-> FALSE]

Model ==
    [users |-> User, projects |-> Project, clients |-> Client,
     event_types |-> EventType, pricing_rules |-> PricingRule,
     api_keys |-> ApiKey, usage_events |-> UsageEvent]

-------------------------------------------------------------------------------
TableNames == DOMAIN Model

(* Over a database: a function from ids to rows, None where there is none. *)

Exists(db, i) == db[i] # None
Found(db, t) == {i \in DOMAIN db : Exists(db, i) /\ db[i].table = t}

LoadedChildren(db, i) ==
    {j \in DOMAIN db : /\ Exists(db, j) /\ db[j].of = i
                       /\ db[j].table \in Model[db[i].table].children}

Under(db, x) ==
    \A t \in Model[x.table].under :
        x.of \in DOMAIN db /\ Exists(db, x.of) /\ db[x.of].table = t

RefsHold(db, x) == \A i \in Refs(x) : Exists(db, i)

Cascaded(db, i) ==
    {j \in DOMAIN db : /\ Exists(db, j) /\ db[j].of = i
                       /\ Model[db[j].table].cascades}

ReferredTo(db, i) == {j \in DOMAIN db : Exists(db, j) /\ i \in Refs(db[j])}

Deletable(db, i) ==
    LET gone == {i} \cup Cascaded(db, i)
    IN  \A j \in gone : ReferredTo(db, j) \subseteq gone

Insertable(db, x) ==
    Model[x.table].unique => \A i \in DOMAIN db : Exists(db, i) => ~Clash(db[i], x)
===============================================================================
