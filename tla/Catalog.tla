-------------------------------- MODULE Catalog --------------------------------
(***************************************************************************)
(* Users, projects, clients, event types, pricing rules and API keys: the  *)
(* handlers that create, change, rotate and delete them, all at the same   *)
(* time, with the usage that names them and the billing that prices it.    *)
(*                                                                         *)
(* A request reads and checks in a session of its own and commits in a     *)
(* later step; every other session may commit in between.  No row is       *)
(* locked, except by billing.  What one session inserts, deletes or writes *)
(* the database checks against what is committed by then.                  *)
(*                                                                         *)
(* A request that is refused (404, 409, 400) changes nothing and is no     *)
(* step.  A request makes at most one row, which goes by its number.       *)
(***************************************************************************)
EXTENDS Tables, FiniteSets

CONSTANTS
    Seeds,         \* the rows there are at first, by id
    Names,         \* e-mails, names, codes and idempotency keys
    Prices,        \* prices of a unit
    PrefixOf,      \* the first characters of a generated key, by its id
    MaxRequests    \* bound: requests

ASSUME RequestsAreNatural == MaxRequests \in Nat

Requests == 1 .. MaxRequests
Ids == DOMAIN Seeds \cup Requests

ASSUME PricesArePositive == Prices \subseteq Nat \ {0} /\ None \notin Nat

Rows ==
    [table : TableNames, of : Ids \cup {None}, uses : SUBSET Ids,
     name : Names \cup {None}, price : Prices \cup {0, None}, revoked : BOOLEAN,
     line : SUBSET Ids, renamed : BOOLEAN]

(* The first rows are a state of the database: each is under a row that is *)
(* there, a rule has a price, no two are for the same thing, and they are  *)
(* older than all requests.                                                *)
ASSUME SeedsAreNoRequests == DOMAIN Seeds \cap Requests = {}
ASSUME NoneIsNoRow == None \notin Ids \cup Rows
ASSUME SeedsAreRows ==
    \A i \in DOMAIN Seeds :
        /\ Seeds[i] \in Rows
        /\ Seeds[i].table # "usage_events"
        /\ Seeds[i].line \subseteq DOMAIN Seeds
        /\ Refs(Seeds[i]) \subseteq DOMAIN Seeds
        /\ Under(Seeds, Seeds[i])
        /\ Seeds[i].table = "pricing_rules" => Seeds[i].price \in Prices
        /\ \A j \in DOMAIN Seeds : Clash(Seeds[i], Seeds[j]) => i = j

VARIABLES
    row,         \* the committed rows
    req,         \* the session of each request
    earlier,     \* auxiliary: ids whose requests were over when a request began
    offered      \* auxiliary: prices of recorded usage until it is invoiced

vars == <<row, req, earlier, offered>>

Idle == [phase |-> "idle"]
Answered == [phase |-> "answered"]
Failed == [phase |-> "failed"]
Lost == [phase |-> "lost"]
Over == {Answered, Failed, Lost}

Sessions ==
    [phase : {"insert", "accepted"}, new : Rows]
    \cup [phase : {"update"}, target : Ids, loaded : Rows, new : Rows]
    \cup [phase : {"delete"}, target : Ids, children : SUBSET Ids]
    \cup [phase : {"rotate"}, target : Ids, new : Rows]
    \cup [phase : {"revoke"}, target : Ids]
    \cup [phase : {"price"}, events : SUBSET Ids]
    \cup [phase : {"invoice"}, events : SUBSET Ids,
          price : [Ids -> Prices \cup {0}]]

TypeOK ==
    /\ row \in [Ids -> Rows \cup {None}]
    /\ req \in [Requests -> Sessions \cup Over \cup {Idle}]
    /\ earlier \in [Requests -> SUBSET Ids]
    /\ offered \in [Requests -> SUBSET (Prices \cup {0})]

Init ==
    /\ row = [i \in Ids |-> IF i \in DOMAIN Seeds THEN Seeds[i] ELSE None]
    /\ req = [q \in Requests |-> Idle]
    /\ earlier = [q \in Requests |-> {}]
    /\ offered = [q \in Requests |-> {}]

Live(i) == Exists(row, i)
All(t) == Found(row, t)
Is(i, t) == Live(i) /\ row[i].table = t

(* By external id and owner: a row is found through the rows above it.  The *)
(* owner of a row never changes, so that any user may be the one who asks. *)
UserFound(i)        == Is(i, "users")
ProjectFound(i)     == Is(i, "projects") /\ UserFound(row[i].of)
ClientFound(i)      == Is(i, "clients") /\ ProjectFound(row[i].of)
EventTypeFound(i)   == Is(i, "event_types") /\ ProjectFound(row[i].of)
PricingRuleFound(i) == Is(i, "pricing_rules") /\ EventTypeFound(row[i].of)
ApiKeyFound(i)      == Is(i, "api_keys") /\ ClientFound(row[i].of)

MayStart(q) == req[q] = Idle /\ \A r \in Requests : r < q => req[r] # Idle

Starts(q, session) ==
    /\ MayStart(q)
    /\ req' = [req EXCEPT ![q] = session]
    /\ earlier' = [earlier EXCEPT ![q] =
                     DOMAIN Seeds \cup {r \in Requests : req[r] \in Over}]
    /\ UNCHANGED <<row, offered>>

(* What the rule of recorded usage says, kept until the usage is invoiced. *)
PriceNow(type) ==
    LET rules == {r \in All("pricing_rules") : row[r].of = type}
    IN  IF rules = {} THEN 0 ELSE row[CHOOSE r \in rules : TRUE].price

TypeOf(e) == CHOOSE i \in row[e].uses : row[i].table = "event_types"

Offers ==
    offered' = [e \in Requests |->
        IF row'[e] # None /\ row'[e].table = "usage_events" /\ row'[e].price = None
        THEN offered[e] \cup {PriceNow(TypeOf(e))'} ELSE offered[e]]

Ends(q, how) ==
    /\ req' = [req EXCEPT ![q] = how]
    /\ Offers
    /\ UNCHANGED earlier

-------------------------------------------------------------------------------
(* Creation: the parent is loaded (404), a row for the same thing is       *)
(* looked for (409, an e-mail that is registered 400), and the new row is  *)
(* committed later.                                                        *)

get_by_email(email) == {i \in All("users") : row[i].name = email}

get_by_name_and_user(user, name) ==
    {i \in All("projects") : row[i].of = user /\ row[i].name = name}

get_by_email_and_project(project, email) ==
    {i \in All("clients") : row[i].of = project /\ row[i].name = email}

get_by_event_code_and_project(project, code) ==
    {i \in All("event_types") : row[i].of = project /\ row[i].name = code}

get_active_by_event_type(type) == {i \in All("pricing_rules") : row[i].of = type}

get_by_name_and_client(client, name) ==
    {i \in All("api_keys") :
        row[i].of = client /\ row[i].name = name /\ ~row[i].revoked}

Creates(q, x, same) == same = {} /\ Starts(q, [phase |-> "insert", new |-> x])

RegisterUser(q, email) ==
    Creates(q, UserRow(email, {q}), get_by_email(email))

CreateProject(q, user, name) ==
    /\ UserFound(user)
    /\ Creates(q, ProjectRow(user, name, {q}), get_by_name_and_user(user, name))

CreateClient(q, project, email) ==
    /\ ProjectFound(project)
    /\ Creates(q, ClientRow(project, email, {q}),
               get_by_email_and_project(project, email))

CreateEventType(q, project, code) ==
    /\ ProjectFound(project)
    /\ Creates(q, EventTypeRow(project, code, {q}),
               get_by_event_code_and_project(project, code))

CreatePricingRule(q, type, price) ==
    /\ EventTypeFound(type)
    /\ Creates(q, PricingRuleRow(type, price, {q}), get_active_by_event_type(type))

CreateApiKey(q, client, name) ==
    /\ ClientFound(client)
    /\ Creates(q, ApiKeyRow(client, name, {q}), get_by_name_and_client(client, name))

(* add, commit.  A parent that is gone by now, or a row the database does  *)
(* not allow beside another, is an error.  The new row needs a share of    *)
(* its parent's row, which billing may have locked.                        *)
LockedTypes ==
    UNION {{i \in Refs(row[e]) : row[i].table = "event_types"} :
        e \in UNION {req[b].events : b \in {b \in Requests :
                        req[b] \notin {Idle} \cup Over /\ req[b].phase \in {"price", "invoice"}}}}

InsertCommits(q) ==
    /\ req[q].phase = "insert"
    /\ Refs(req[q].new) \cap LockedTypes = {}
    /\ IF RefsHold(row, req[q].new) /\ Insertable(row, req[q].new)
       THEN row' = [row EXCEPT ![q] = req[q].new] /\ Ends(q, Answered)
       ELSE UNCHANGED row /\ Ends(q, Failed)

-------------------------------------------------------------------------------
(* Change of a name, an e-mail, a code or a price.  Nothing looks for      *)
(* other rows, and names keep the case they are given.  An event type's    *)
(* display name is not here: the field is called event_name, the column    *)
(* name, and nothing is written.                                           *)

Updates(q, i, x) ==
    /\ x.name # row[i].name \/ x.price # row[i].price   \* or nothing is written
    /\ Starts(q, [phase |-> "update", target |-> i, loaded |-> row[i], new |-> x])

Renamed(i, n) == [row[i] EXCEPT !.name = n, !.renamed = TRUE]

UpdateProject(q, i, name)   == ProjectFound(i) /\ Updates(q, i, Renamed(i, name))
UpdateClient(q, i, email)   == ClientFound(i) /\ Updates(q, i, Renamed(i, email))
UpdateEventType(q, i, code) == EventTypeFound(i) /\ Updates(q, i, Renamed(i, code))
UpdateApiKey(q, i, name)    == ApiKeyFound(i) /\ Updates(q, i, Renamed(i, name))
UpdatePricingRule(q, i, price) ==
    PricingRuleFound(i) /\ Updates(q, i, [row[i] EXCEPT !.price = price])

(* The UPDATE sets the columns the session has changed, not the others.    *)
WriteAll(old, s) == s.new                            \* mutant: every column
Write(old, s) ==
    [old EXCEPT
        !.name = IF s.new.name # s.loaded.name THEN s.new.name ELSE old.name,
        !.price = IF s.new.price # s.loaded.price THEN s.new.price ELSE old.price,
        !.renamed = old.renamed \/ s.new.renamed]

(* It finds no row if somebody has deleted it, which is an error.          *)
UpdateCommits(q) ==
    /\ req[q].phase = "update"
    /\ LET i == req[q].target
       IN  /\ i \notin LockedTypes
           /\ IF Live(i) /\ Insertable([row EXCEPT ![i] = None], Write(row[i], req[q]))
              THEN row' = [row EXCEPT ![i] = Write(row[i], req[q])] /\ Ends(q, Answered)
              ELSE UNCHANGED row /\ Ends(q, Failed)

-------------------------------------------------------------------------------
(* Deletion.  The row and, at the flush, its children are read one after   *)
(* the other, which is one step here: a child committed between the two is *)
(* found.  One committed later is not.                                     *)

Deletes(q, i) ==
    Starts(q, [phase |-> "delete", target |-> i, children |-> LoadedChildren(row, i)])

DeleteProject(q, i)     == ProjectFound(i) /\ Deletes(q, i)
DeleteClient(q, i)      == ClientFound(i) /\ Deletes(q, i)
DeleteEventType(q, i)   == EventTypeFound(i) /\ Deletes(q, i)
DeletePricingRule(q, i) == PricingRuleFound(i) /\ Deletes(q, i)

(* A child it has loaded cannot lose its parent.  Otherwise the DELETE     *)
(* takes the row, and the keys a client has by then, unless rows refer to  *)
(* them.  A row that is gone already is only a warning.                    *)
DeletableAnyway(s) == Live(s.target)   \* mutant: the ORM leaves the children alone
    /\ Deletable(row, s.target)
MayDelete(s) == s.children = {} /\ Live(s.target) /\ Deletable(row, s.target)

DeleteCommits(q) ==
    /\ req[q].phase = "delete"
    /\ LET i == req[q].target
       IN  IF MayDelete(req[q])
           THEN /\ row' = [j \in Ids |->
                             IF j \in {i} \cup Cascaded(row, i) THEN None ELSE row[j]]
                /\ Ends(q, Answered)
           ELSE /\ UNCHANGED row
                /\ Ends(q, IF req[q].children = {} /\ ~Live(i) THEN Answered ELSE Failed)

-------------------------------------------------------------------------------
(* Keys: a rotation revokes a key and inserts its successor, for the same  *)
(* client and of the same name, in one commit.                             *)

RotateKeyAgain(q, i) ==        \* mutant: revoked keys are rotated as well
    /\ ApiKeyFound(i)
    /\ Starts(q, [phase |-> "rotate", target |-> i,
                  new |-> [row[i] EXCEPT !.revoked = FALSE, !.line = row[i].line \cup {q}]])

RotateKey(q, i) ==
    /\ ApiKeyFound(i) /\ ~row[i].revoked
    /\ Starts(q, [phase |-> "rotate", target |-> i,
                  new |-> [row[i] EXCEPT !.line = row[i].line \cup {q}]])

RotateCommits(q) ==
    /\ req[q].phase = "rotate"
    /\ LET i == req[q].target
       IN  IF Live(i) /\ RefsHold(row, req[q].new)
           THEN /\ row' = [row EXCEPT ![i].revoked = TRUE, ![q] = req[q].new]
                /\ Ends(q, Answered)
           ELSE UNCHANGED row /\ Ends(q, Failed)

(* A key that is revoked already is answered as it is.                     *)
RevokeKey(q, i) ==
    /\ ApiKeyFound(i) /\ ~row[i].revoked
    /\ Starts(q, [phase |-> "revoke", target |-> i])

RevokeCommits(q) ==
    /\ req[q].phase = "revoke"
    /\ LET i == req[q].target
       IN  IF Live(i)
           THEN row' = [row EXCEPT ![i].revoked = TRUE] /\ Ends(q, Answered)
           ELSE UNCHANGED row /\ Ends(q, Failed)

-------------------------------------------------------------------------------
(* Usage.  A key is found by its first characters, any key that has them,  *)
(* and then compared as a whole; when it is another's the answer is 401.   *)

VerifiesAny(sent, found) == TRUE       \* mutant: the first characters are enough
Verifies(sent, found) == sent = found

get_client_from_api_key(sent) ==
    {i \in All("api_keys") : PrefixOf[i] = PrefixOf[sent] /\ Verifies(sent, i)}

(* POST /usage-events with a key that somebody has been given: the event   *)
(* type is looked up by its code in the client's project (404), and the    *)
(* message has the ids of what was found.  Idempotency keys are required.  *)
Ingest(q, sent, code, key) ==
    /\ Is(sent, "api_keys")
    /\ \E i \in get_client_from_api_key(sent) :
       LET client == row[i].of
           project == row[client].of
       IN  \E type \in get_by_event_code_and_project(project, code) :
              Starts(q, [phase |-> "accepted",
                         new |-> UsageEventRow(client, {i, project, type}, key, {sent})])

(* process_usage_event: a second row for the client and idempotency key is *)
(* ignored; a row it refers to that has been deleted is an error, which    *)
(* nothing tries again.                                                    *)
ProcessUsage(q) ==
    /\ req[q].phase = "accepted"
    /\ Refs(req[q].new) \cap LockedTypes = {}
    /\ IF Insertable(row, req[q].new) /\ RefsHold(row, req[q].new)
       THEN row' = [row EXCEPT ![q] = req[q].new] /\ Ends(q, Answered)
       ELSE /\ UNCHANGED row
            /\ Ends(q, IF Insertable(row, req[q].new) THEN Lost ELSE Answered)

-------------------------------------------------------------------------------
(* Billing of a project: usage that is not invoiced (that of a period, any *)
(* part of it here) is locked together with its event types, then the      *)
(* rules are read, then the invoices are committed.  A type without a rule *)
(* costs nothing.  UsageBilling has the periods and the overlapping runs.  *)

Uninvoiced(project) ==
    {e \in All("usage_events") : project \in row[e].uses /\ row[e].price = None}

BillProject(q, project, events) ==
    /\ ProjectFound(project)
    /\ events # {} /\ events \subseteq Uninvoiced(project)
    /\ {TypeOf(e) : e \in events} \cap LockedTypes = {}
    /\ Starts(q, [phase |-> "price", events |-> events])

UnitPriceOrNone(type) ==               \* mutant: no price without a rule
    IF get_active_by_event_type(type) = {} THEN None ELSE PriceNow(type)
UnitPriceCached(type) ==               \* mutant: rules are kept from an earlier run
    LET rules == {r \in DOMAIN Seeds : Seeds[r].table = "pricing_rules" /\ Seeds[r].of = type}
    IN  IF rules = {} THEN 0 ELSE Seeds[CHOOSE r \in rules : TRUE].price
UnitPrice(type) == PriceNow(type)

BillReadsRules(q) ==
    /\ req[q].phase = "price"
    /\ UNCHANGED row
    /\ Ends(q, [phase |-> "invoice", events |-> req[q].events,
                price |-> [e \in Ids |-> IF e \in req[q].events
                                        THEN UnitPrice(TypeOf(e)) ELSE 0]])

BillCommits(q) ==
    /\ req[q].phase = "invoice"
    /\ row' = [e \in Ids |-> IF e \in req[q].events
                            THEN [row[e] EXCEPT !.price = req[q].price[e]] ELSE row[e]]
    /\ Ends(q, Answered)

-------------------------------------------------------------------------------
Creation(q) == \E n \in Names :
    \/ RegisterUser(q, n)
    \/ \E i \in Ids : \/ CreateProject(q, i, n)
                      \/ CreateClient(q, i, n)
                      \/ CreateEventType(q, i, n)
                      \/ CreateApiKey(q, i, n)

Change(q) == \E i \in Ids :
    \/ \E n \in Names : \/ UpdateProject(q, i, n)
                        \/ UpdateClient(q, i, n)
                        \/ UpdateEventType(q, i, n)
                        \/ UpdateApiKey(q, i, n)
    \/ \E p \in Prices : CreatePricingRule(q, i, p) \/ UpdatePricingRule(q, i, p)

Deletion(q) == \E i \in Ids :
    DeleteProject(q, i) \/ DeleteClient(q, i) \/ DeleteEventType(q, i) \/ DeletePricingRule(q, i)

Use(q) == \E i \in Ids :
    \/ RotateKey(q, i) \/ RevokeKey(q, i)
    \/ \E n, k \in Names : Ingest(q, i, n, k)
    \/ \E events \in SUBSET All("usage_events") : BillProject(q, i, events)

Commit(q) ==
    /\ req[q] \notin {Idle} \cup Over
    /\ \/ InsertCommits(q) \/ UpdateCommits(q) \/ DeleteCommits(q)
       \/ RotateCommits(q) \/ RevokeCommits(q)
       \/ ProcessUsage(q) \/ BillReadsRules(q) \/ BillCommits(q)

Arrival(q) == MayStart(q) /\ (Creation(q) \/ Change(q) \/ Deletion(q) \/ Use(q))

Next == \E q \in Requests : Arrival(q) \/ Commit(q)

Spec == Init /\ [][Next]_vars

-------------------------------------------------------------------------------
(* Projects, clients and active keys of one name exist only when requests  *)
(* behind them overlapped (their creation, or a rotation since) or when    *)
(* one was renamed: a request that comes after the others finds what they  *)
(* left, whatever rotations and revocations are going on.                  *)
Overlapped(a, b) ==
    a \in Requests /\ b \in Requests /\ a \notin earlier[b] /\ b \notin earlier[a]

TwinsOverlap ==
    \A i, j \in Ids :
        /\ i # j /\ Live(i) /\ Live(j)
        /\ Clash(row[i], row[j]) /\ ~row[i].revoked /\ ~row[j].revoked
        => \/ row[i].renamed \/ row[j].renamed
           \/ \E a \in row[i].line, b \in row[j].line : a # b /\ Overlapped(a, b)

(* Recorded usage is accountable: its key, client, event type and project  *)
(* are still there, belong together, and it is the key that was sent, also *)
(* when keys begin alike, are rotated or their clients are being deleted.  *)
UsageAccountable ==
    \A e \in All("usage_events") :
        /\ RefsHold(row, row[e])
        /\ \A i \in row[e].uses :
              CASE row[i].table = "api_keys" -> row[i].of = row[e].of /\ i \in row[e].line
                [] row[i].table = "event_types" -> row[i].of = row[row[e].of].of
                [] OTHER -> i = row[row[e].of].of

(* A key disappears only with a client whose deletion began before the     *)
(* request that made the key was over: the deletion of a client that has   *)
(* keys fails, and only a key that comes in between is swept away.         *)
KeysOutliveDeletion ==
    [][\A k \in All("api_keys") :
          row'[k] = None =>
             \E q \in Requests : /\ req[q] \notin {Idle} \cup Over /\ req'[q] = Answered
                                 /\ req[q].phase = "delete" /\ k \notin earlier[q]]_vars

(* A revoked key stays revoked: no rename, rotation or revocation that     *)
(* read the key before writes back what it was.                            *)
RevocationSticks ==
    [][\A k \in All("api_keys") :
          row[k].revoked /\ row'[k] # None => row'[k].revoked]_vars

(* Usage is invoiced at a price its event type had at some time between    *)
(* its recording and its invoice, and for nothing only if there was then a *)
(* time without a rule, whatever happens to the rules during the run.      *)
InvoicedAtOfferedPrice ==
    \A e \in All("usage_events") : row[e].price # None => row[e].price \in offered[e]
===============================================================================
