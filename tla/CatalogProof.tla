----------------------------- MODULE CatalogProof -----------------------------
(***************************************************************************)
(* Theorems about Catalog, for any rows, names, prices and requests.       *)
(***************************************************************************)
EXTENDS Catalog, TLAPS

-------------------------------------------------------------------------------
(* The inductive invariant.  Ids are not used again: a row is there only   *)
(* when the request that made it is over.                                  *)

Settled(i) == i \in DOMAIN Seeds \/ (i \in Requests /\ req[i] \in Over)

RowsSettled == \A i \in Ids : Live(i) => Settled(i)

(* What the database keeps.                                                *)
Schema ==
    \A i \in Ids : Live(i) =>
        /\ RefsHold(row, row[i])
        /\ Under(row, row[i])
        /\ row[i].table = "pricing_rules" => row[i].price \in Prices

(* What a request has read still holds of a row that is still there.       *)
Fits(x) ==
    \A t \in Model[x.table].under :
        /\ x.of \in Ids /\ Settled(x.of)
        /\ Live(x.of) => row[x.of].table = t

Knows(i, tables) == Settled(i) /\ (Live(i) => row[i].table \in tables)

(* The key, the event type and the project of usage.                       *)
Belongs(x) ==
    /\ Settled(x.of) /\ \A i \in x.uses : Settled(i)
    /\ \A i \in x.uses : Live(i) /\ Live(x.of) =>
          CASE row[i].table = "api_keys" -> row[i].of = x.of /\ i \in x.line
            [] row[i].table = "event_types" -> row[i].of = row[x.of].of
            [] OTHER -> i = row[x.of].of
    /\ \E i \in x.uses : Live(i) => row[i].table = "event_types"

UsageBelongs == \A e \in All("usage_events") : e \in Requests /\ Belongs(row[e])

InsertOK(q) ==
    LET x == req[q].new
    IN  /\ x.table # "usage_events" /\ q \in x.line /\ Fits(x)
        /\ x.table = "pricing_rules" => x.price \in Prices

UpdateOK(q) ==
    LET s == req[q]
    IN  /\ s.loaded.table # "usage_events" /\ Knows(s.target, {s.loaded.table})
        /\ s.loaded.table = "pricing_rules" => s.new.price \in Prices
        /\ s.new.name # s.loaded.name => s.new.renamed

DeleteOK(q) ==
    /\ Knows(req[q].target, {"projects", "clients", "event_types", "pricing_rules"})
    /\ \A k \in All("api_keys") :
          row[k].of = req[q].target /\ k \in earlier[q] => k \in req[q].children

RotateOK(q) ==
    LET x == req[q].new
    IN  /\ Knows(req[q].target, {"api_keys"})
        /\ x.table = "api_keys" /\ q \in x.line /\ Fits(x)

UsageOK(q) ==
    LET x == req[q].new
    IN  x.table = "usage_events" /\ x.price = None /\ Fits(x) /\ Belongs(x)

Bills(q) == req[q].phase \in {"price", "invoice"}

BillOK(q) ==
    /\ req[q].events \subseteq All("usage_events")
    /\ \A e \in req[q].events : row[e].price = None
    /\ \A b \in Requests : b # q /\ Bills(b) => req[q].events \cap req[b].events = {}
    /\ req[q].phase = "invoice" =>
          \A e \in req[q].events : req[q].price[e] \in offered[e]

SessionOK(q) ==
    /\ req[q].phase = "insert" => InsertOK(q)
    /\ req[q].phase = "update" => UpdateOK(q)
    /\ req[q].phase = "delete" => DeleteOK(q)
    /\ req[q].phase = "rotate" => RotateOK(q)
    /\ req[q].phase = "revoke" => Knows(req[q].target, {"api_keys"})
    /\ req[q].phase = "accepted" => UsageOK(q)
    /\ Bills(q) => BillOK(q)

SessionsOK == \A q \in Requests : SessionOK(q)

(* Requests that are behind a row have begun; those that were over when a  *)
(* request began are over.                                                 *)
Begun == DOMAIN Seeds \cup {q \in Requests : req[q] # Idle}

Makes(q) == req[q].phase \in {"insert", "rotate", "accepted"}

LinesBegun ==
    /\ \A i \in Ids : Live(i) => row[i].line \subseteq Begun
    /\ \A q \in Requests : Makes(q) => req[q].new.line \subseteq Begun

EarlierOver == \A q \in Requests : \A i \in earlier[q] : Settled(i)

(* A row that is about to be made has the same excuse for its twins.       *)
Twins(x, y) == Clash(x, y) /\ ~x.revoked /\ ~y.revoked

Excused(x, y) ==
    \/ x.renamed \/ y.renamed
    \/ \E a \in x.line, b \in y.line : a # b /\ Overlapped(a, b)

PendingTwins ==
    \A q \in Requests, j \in Ids :
        /\ req[q].phase \in {"insert", "rotate"} /\ Live(j)
        /\ req[q].phase = "rotate" => j # req[q].target
        /\ Twins(req[q].new, row[j])
        => Excused(req[q].new, row[j])

IInv == /\ TypeOK /\ RowsSettled /\ Schema /\ UsageBelongs /\ SessionsOK
        /\ LinesBegun /\ EarlierOver /\ TwinsOverlap /\ PendingTwins
        /\ InvoicedAtOfferedPrice

-------------------------------------------------------------------------------
LEMMA Constants ==
    /\ DOMAIN Seeds \subseteq Ids /\ Requests \subseteq Ids
    /\ \A q \in Requests : q \notin DOMAIN Seeds
    /\ None \notin Ids /\ None \notin Rows /\ None \notin Prices \cup {0}
<1>1. None \notin Prices \cup {0}
  <2>1. 0 \in Nat
    OBVIOUS
  <2>2. Prices \cup {0} \subseteq Nat
    BY <2>1, PricesArePositive, Zenon
  <2> QED BY <2>2, PricesArePositive, Zenon
<1> QED BY <1>1, NoneIsNoRow, SeedsAreNoRequests DEF Ids

LEMMA RowFact ==
    ASSUME TypeOK, NEW i \in Ids, Live(i)
    PROVE  /\ row[i] \in Rows
           /\ row[i].of \in Ids \cup {None} /\ row[i].uses \subseteq Ids
           /\ row[i].table \in TableNames /\ row[i].line \subseteq Ids
           /\ row[i].revoked \in BOOLEAN /\ row[i].renamed \in BOOLEAN
           /\ row[i].name \in Names \cup {None}
           /\ row[i].price \in Prices \cup {0, None}
<1>1. row[i] \in Rows
  BY DEF TypeOK, Live, Exists
<1> QED BY <1>1 DEF Rows

LEMMA TablesFact ==
    /\ TableNames = {"users", "projects", "clients", "event_types", "pricing_rules",
                     "api_keys", "usage_events"}
    /\ Model["users"].under = {}
    /\ Model["projects"].under = {"users"}
    /\ Model["clients"].under = {"projects"}
    /\ Model["event_types"].under = {"projects"}
    /\ Model["pricing_rules"].under = {"event_types"}
    /\ Model["api_keys"].under = {"clients"}
    /\ Model["usage_events"].under = {"clients"}
    /\ Model["clients"].children = {"api_keys"}
    /\ Model["usage_events"].unique
    /\ \A t \in TableNames : Model[t].cascades <=> t = "api_keys"
BY DEF TableNames, Model, User, Project, Client, EventType, PricingRule, ApiKey, UsageEvent

(* The row that a row is under.                                            *)
LEMMA ParentFact ==
    ASSUME TypeOK, Schema, NEW i \in Ids, Live(i), NEW t \in Model[row[i].table].under
    PROVE  row[i].of \in Ids /\ Live(row[i].of) /\ row[row[i].of].table = t
<1>1. Under(row, row[i]) /\ DOMAIN row = Ids
  BY DEF Schema, TypeOK
<1> QED BY <1>1 DEF Under, Live

(* The kinds of sessions.                                                  *)
LEMMA SessionFact ==
    ASSUME TypeOK, NEW q \in Requests, req[q] \notin {Idle} \cup Over
    PROVE  /\ req[q] \in Sessions
           /\ req[q].phase \in {"insert", "accepted", "update", "delete", "rotate",
                                "revoke", "price", "invoice"}
           /\ Makes(q) => req[q].new \in Rows
           /\ req[q].phase = "update" =>
                 /\ req[q].target \in Ids
                 /\ req[q].loaded \in Rows /\ req[q].new \in Rows
           /\ req[q].phase = "delete" =>
                 req[q].target \in Ids /\ req[q].children \subseteq Ids
           /\ req[q].phase \in {"rotate", "revoke"} => req[q].target \in Ids
           /\ Bills(q) => req[q].events \subseteq Ids
           /\ req[q].phase = "invoice" => req[q].price \in [Ids -> Prices \cup {0}]
<1>1. req[q] \in Sessions
  BY DEF TypeOK
<1>2. CASE req[q] \in [phase : {"insert", "accepted"}, new : Rows]
  BY <1>1, <1>2 DEF Makes, Bills
<1>3. CASE req[q] \in [phase : {"update"}, target : Ids, loaded : Rows, new : Rows]
  BY <1>1, <1>3 DEF Makes, Bills
<1>4. CASE req[q] \in [phase : {"delete"}, target : Ids, children : SUBSET Ids]
  BY <1>1, <1>4 DEF Makes, Bills
<1>5. CASE req[q] \in [phase : {"rotate"}, target : Ids, new : Rows]
  BY <1>1, <1>5 DEF Makes, Bills
<1>6. CASE req[q] \in [phase : {"revoke"}, target : Ids]
  BY <1>1, <1>6 DEF Makes, Bills
<1>7. CASE req[q] \in [phase : {"price"}, events : SUBSET Ids]
  BY <1>1, <1>7 DEF Makes, Bills
<1>8. CASE req[q] \in [phase : {"invoice"}, events : SUBSET Ids,
                       price : [Ids -> Prices \cup {0}]]
  BY <1>1, <1>8 DEF Makes, Bills
<1> QED BY <1>1, <1>2, <1>3, <1>4, <1>5, <1>6, <1>7, <1>8 DEF Sessions

LEMMA OpenFact ==
    ASSUME NEW q \in Requests,
           req[q].phase \in {"insert", "accepted", "update", "delete", "rotate",
                             "revoke", "price", "invoice"}
    PROVE  req[q] \notin {Idle} \cup Over
BY DEF Idle, Over, Answered, Failed, Lost

LEMMA InitIInv == Init => IInv
<1> SUFFICES ASSUME Init
             PROVE  IInv
  OBVIOUS
<1>1. /\ row = [i \in Ids |-> IF i \in DOMAIN Seeds THEN Seeds[i] ELSE None]
      /\ req = [q \in Requests |-> Idle]
      /\ earlier = [q \in Requests |-> {}] /\ offered = [q \in Requests |-> {}]
  BY DEF Init
<1>2. \A i \in Ids : /\ Live(i) <=> i \in DOMAIN Seeds
                     /\ Live(i) => row[i] = Seeds[i]
  BY <1>1, SeedsAreRows, Constants DEF Live, Exists
<1>3. TypeOK
  BY <1>1, SeedsAreRows DEF TypeOK
<1>4. RowsSettled
  BY <1>2 DEF RowsSettled, Settled
<1>5. Schema
  <2> SUFFICES ASSUME NEW i \in Ids, Live(i)
               PROVE  /\ RefsHold(row, row[i]) /\ Under(row, row[i])
                      /\ row[i].table = "pricing_rules" => row[i].price \in Prices
    BY DEF Schema
  <2>1. i \in DOMAIN Seeds /\ row[i] = Seeds[i] /\ DOMAIN row = Ids
    BY <1>1, <1>2
  <2>2. RefsHold(row, row[i])
    BY <1>2, <2>1, SeedsAreRows, Constants DEF RefsHold, Live
  <2>3. Under(row, row[i])
    BY <1>2, <2>1, SeedsAreRows, Constants DEF Under, Live, Exists
  <2> QED BY <2>1, <2>2, <2>3, SeedsAreRows
<1>6. UsageBelongs
  BY <1>1, <1>2, SeedsAreRows DEF UsageBelongs, All, Found, Live
<1>7. \A q \in Requests : /\ req[q].phase = "idle" /\ earlier[q] = {}
                          /\ SessionOK(q) /\ ~Makes(q)
  BY <1>1 DEF SessionOK, Makes, Bills, Idle
<1>8. LinesBegun
  BY <1>2, <1>7, SeedsAreRows DEF LinesBegun, Begun
<1>9. TwinsOverlap
  BY <1>2, SeedsAreRows DEF TwinsOverlap
<1>10. InvoicedAtOfferedPrice
  BY <1>1, <1>2, SeedsAreRows DEF InvoicedAtOfferedPrice, All, Found, Live
<1> QED
  BY <1>3, <1>4, <1>5, <1>6, <1>7, <1>8, <1>9, <1>10
     DEF IInv, SessionsOK, EarlierOver, PendingTwins

-------------------------------------------------------------------------------
(* A request begins.                                                       *)

LEMMA StartsFact ==
    ASSUME TypeOK, NEW q \in Requests, NEW s \in Sessions, Starts(q, s)
    PROVE  /\ req[q] = Idle /\ s \notin {Idle} \cup Over
           /\ req' = [req EXCEPT ![q] = s] /\ req'[q] = s
           /\ \A r \in Requests : r # q => req'[r] = req[r] /\ earlier'[r] = earlier[r]
           /\ earlier' \in [Requests -> SUBSET Ids]
           /\ earlier'[q] = DOMAIN Seeds \cup {r \in Requests : req[r] \in Over}
           /\ row' = row /\ offered' = offered
<1>1. s \notin {Idle} \cup Over
  BY DEF Sessions, Idle, Over, Answered, Failed, Lost
<1>2. DOMAIN Seeds \cup {r \in Requests : req[r] \in Over} \subseteq Ids
  BY Constants
<1> QED BY <1>1, <1>2 DEF Starts, MayStart, TypeOK

LEMMA StartsKeeps ==
    ASSUME TypeOK, NEW q \in Requests, NEW s \in Sessions, Starts(q, s)
    PROVE  /\ \A i : Settled(i)' <=> Settled(i)
           /\ \A i : Live(i)' <=> Live(i)
           /\ \A x : Fits(x)' <=> Fits(x)
           /\ \A x : Belongs(x)' <=> Belongs(x)
           /\ \A i, t : Knows(i, t)' <=> Knows(i, t)
           /\ Begun' = Begun \cup {q}
<1>1. /\ row' = row /\ req[q] = Idle /\ req'[q] \notin {Idle} \cup Over
      /\ \A r \in Requests : r # q => req'[r] = req[r]
  BY StartsFact
<1>2. Idle \notin Over
  BY DEF Idle, Over, Answered, Failed, Lost
<1>3. \A i : Settled(i)' <=> Settled(i)
  BY <1>1, <1>2 DEF Settled
<1>4. \A i : Live(i)' <=> Live(i)
  BY <1>1 DEF Live, Exists
<1>5. \A x : Fits(x)' <=> Fits(x)
  BY <1>1, <1>3, <1>4 DEF Fits
<1>6. \A x : Belongs(x)' <=> Belongs(x)
  BY <1>1, <1>3, <1>4 DEF Belongs
<1>7. \A i, t : Knows(i, t)' <=> Knows(i, t)
  BY <1>1, <1>3, <1>4 DEF Knows
<1>8. Begun' = Begun \cup {q}
  BY <1>1 DEF Begun
<1> QED BY <1>3, <1>4, <1>5, <1>6, <1>7, <1>8

LEMMA OverlappedStays ==
    ASSUME TypeOK, NEW q \in Requests, NEW s \in Sessions, Starts(q, s),
           NEW x, NEW y, x.line \subseteq Begun, y.line \subseteq Begun
    PROVE  Excused(x, y)' <=> Excused(x, y)
<1>1. q \notin Begun
  BY StartsFact, Constants DEF Begun
<1>2. \A a \in x.line, b \in y.line : Overlapped(a, b)' <=> Overlapped(a, b)
  BY <1>1, StartsFact DEF Overlapped
<1> QED BY <1>2 DEF Excused

LEMMA StartStep ==
    ASSUME IInv, NEW q \in Requests, NEW s \in Sessions, Starts(q, s),
           SessionOK(q)',
           Makes(q)' => s.new.line \subseteq Begun',
           s.phase \in {"insert", "rotate"} =>
             \A j \in Ids :
               /\ Live(j) /\ Twins(s.new, row[j])
               /\ s.phase = "rotate" => j # s.target
               => Excused(s.new, row[j])'
    PROVE  IInv'
<1> USE StartsFact DEF IInv
<1>1. TypeOK'
  BY DEF TypeOK
<1>2. RowsSettled' /\ UsageBelongs'
  BY StartsKeeps DEF RowsSettled, UsageBelongs, All, Found
<1>3. Schema' /\ InvoicedAtOfferedPrice'
  BY StartsKeeps DEF Schema, InvoicedAtOfferedPrice, All, Found
<1>4. ASSUME NEW r \in Requests, r # q
      PROVE  SessionOK(r)'
  <2>1. SessionOK(r) /\ req'[r] = req[r]
    BY <1>4 DEF SessionsOK
  <2>2. req[r].phase = "insert" => InsertOK(r)'
    BY <2>1, StartsKeeps DEF SessionOK, InsertOK
  <2>3. req[r].phase = "update" => UpdateOK(r)'
    BY <2>1, StartsKeeps DEF SessionOK, UpdateOK
  <2>4. req[r].phase = "delete" => DeleteOK(r)'
    BY <1>4, <2>1, StartsKeeps DEF SessionOK, DeleteOK, All, Found
  <2>5. req[r].phase = "rotate" => RotateOK(r)'
    BY <2>1, StartsKeeps DEF SessionOK, RotateOK
  <2>6. req[r].phase = "accepted" => UsageOK(r)'
    BY <2>1, StartsKeeps DEF SessionOK, UsageOK
  <2>7. Bills(r) => BillOK(r)'
    <3> SUFFICES ASSUME Bills(r)
                 PROVE  BillOK(r)'
      OBVIOUS
    <3>1. BillOK(r) /\ Bills(r)'
      BY <2>1 DEF SessionOK, Bills
    <3>2. Bills(q)' => req'[q].events \cap req'[r].events = {}
      BY <1>4, <3>1 DEF SessionOK, BillOK
    <3>3. ASSUME NEW b \in Requests, b # r, Bills(b)'
          PROVE  req'[r].events \cap req'[b].events = {}
      <4>1. CASE b = q
        BY <3>2, <3>3, <4>1
      <4>2. CASE b # q
        BY <2>1, <3>1, <3>3, <4>2 DEF BillOK, Bills
      <4> QED BY <4>1, <4>2
    <3>4. All("usage_events")' = All("usage_events")
      BY DEF All, Found
    <3> QED BY <2>1, <3>1, <3>3, <3>4 DEF BillOK
  <2> QED BY <2>1, <2>2, <2>3, <2>4, <2>5, <2>6, <2>7, StartsKeeps DEF SessionOK, Bills
<1>5. SessionsOK'
  BY <1>4 DEF SessionsOK
<1>6. LinesBegun'
  BY StartsKeeps DEF LinesBegun, Makes
<1>7. EarlierOver'
  <2>1. \A i \in earlier'[q] : Settled(i)
    BY DEF Settled
  <2> QED BY <2>1, StartsKeeps DEF EarlierOver
<1>8. TwinsOverlap'
  <2> SUFFICES ASSUME NEW i \in Ids, NEW j \in Ids, i # j, Live(i), Live(j),
                      Clash(row[i], row[j]), ~row[i].revoked, ~row[j].revoked
               PROVE  Excused(row[i], row[j])'
    BY StartsKeeps DEF TwinsOverlap, Excused
  <2>1. Excused(row[i], row[j])
    BY DEF TwinsOverlap, Excused
  <2>2. row[i].line \subseteq Begun /\ row[j].line \subseteq Begun
    BY DEF LinesBegun
  <2> QED BY <2>1, <2>2, OverlappedStays
<1>9. PendingTwins'
  <2> SUFFICES ASSUME NEW r \in Requests, NEW j \in Ids,
                      req'[r].phase \in {"insert", "rotate"}, Live(j),
                      req'[r].phase = "rotate" => j # req'[r].target,
                      Twins(req'[r].new, row[j])
               PROVE  Excused(req[r].new, row[j])'
    BY StartsKeeps DEF PendingTwins
  <2>1. CASE r = q
    BY <2>1
  <2>2. CASE r # q
    <3>1. Excused(req[r].new, row[j])
      BY <2>2 DEF PendingTwins
    <3>2. req[r].new.line \subseteq Begun /\ row[j].line \subseteq Begun
      BY <2>2 DEF LinesBegun, Makes
    <3> QED BY <2>2, <3>1, <3>2, OverlappedStays
  <2> QED BY <2>1, <2>2
<1> QED BY <1>1, <1>2, <1>3, <1>5, <1>6, <1>7, <1>8, <1>9

LEMMA NewRowFact ==
    ASSUME NEW t \in TableNames, NEW parent \in Ids \cup {None},
           NEW n \in Names \cup {None}, NEW behind \in SUBSET Ids
    PROVE  NewRow(t, parent, n, behind) \in Rows
BY DEF NewRow, Rows

LEMMA CreatesStep ==
    ASSUME IInv, NEW q \in Requests, NEW x \in Rows, NEW same, Creates(q, x, same),
           x.table # "usage_events", x.line = {q}, Fits(x),
           x.table = "pricing_rules" => x.price \in Prices,
           \A j \in Ids : Live(j) /\ Twins(x, row[j]) => j \in same
    PROVE  IInv'
<1> DEFINE s == [phase |-> "insert", new |-> x]
<1>1. Starts(q, s) /\ s \in Sessions
  BY DEF Creates, Sessions
<1>2. req'[q] = s /\ TypeOK
  BY <1>1, StartsFact DEF IInv
<1>3. SessionOK(q)'
  BY <1>1, <1>2, StartsKeeps DEF SessionOK, InsertOK, Bills
<1>4. s.new.line \subseteq Begun'
  BY <1>1, <1>2, StartsKeeps
<1>5. \A j \in Ids : ~(Live(j) /\ Twins(s.new, row[j]))
  BY DEF Creates
<1> HIDE DEF s
<1> QED BY <1>1, <1>3, <1>4, <1>5, StartStep

LEMMA CreationStep ==
    ASSUME IInv, NEW q \in Requests, Creation(q)
    PROVE  IInv'
<1>t. TypeOK /\ RowsSettled /\ q \in Ids
  BY Constants DEF IInv
<1>p. ASSUME NEW i \in Ids, NEW t, Is(i, t)
      PROVE  Settled(i) /\ Live(i) /\ row[i].table = t
  BY <1>t, <1>p DEF RowsSettled, Is
<1> SUFFICES ASSUME NEW n \in Names,
                    \/ RegisterUser(q, n)
                    \/ \E i \in Ids : \/ CreateProject(q, i, n)
                                     \/ CreateClient(q, i, n)
                                     \/ CreateEventType(q, i, n)
                                     \/ CreateApiKey(q, i, n)
             PROVE  IInv'
  BY DEF Creation
<1>1. CASE RegisterUser(q, n)
  <2> DEFINE x == UserRow(n, {q})
  <2>1. x \in Rows
    BY <1>t, NewRowFact, TablesFact DEF UserRow
  <2>2. x.table = "users" /\ x.line = {q} /\ x.name = n
    BY DEF UserRow, NewRow
  <2>3. Fits(x)
    BY <2>2, TablesFact DEF Fits
  <2>4. \A j \in Ids : Live(j) /\ Twins(x, row[j]) => j \in get_by_email(n)
    BY <1>t, <2>2 DEF Twins, Clash, get_by_email, All, Found, Live, TypeOK
  <2>5. Creates(q, x, get_by_email(n))
    BY <1>1 DEF RegisterUser
  <2> QED BY <2>1, <2>2, <2>3, <2>4, <2>5, CreatesStep
<1>2. ASSUME NEW i \in Ids, CreateProject(q, i, n)
      PROVE  IInv'
  <2> DEFINE x == ProjectRow(i, n, {q})
  <2>1. x \in Rows
    BY <1>t, NewRowFact, TablesFact DEF ProjectRow
  <2>2. x.table = "projects" /\ x.line = {q} /\ x.name = n /\ x.of = i
    BY DEF ProjectRow, NewRow
  <2>3. Fits(x)
    BY <1>2, <1>p, <2>2, TablesFact DEF Fits, CreateProject, UserFound
  <2>4. \A j \in Ids : Live(j) /\ Twins(x, row[j]) => j \in get_by_name_and_user(i, n)
    BY <1>t, <2>2 DEF Twins, Clash, get_by_name_and_user, All, Found, Live, TypeOK
  <2>5. Creates(q, x, get_by_name_and_user(i, n))
    BY <1>2 DEF CreateProject
  <2> QED BY <2>1, <2>2, <2>3, <2>4, <2>5, CreatesStep
<1>3. ASSUME NEW i \in Ids, CreateClient(q, i, n)
      PROVE  IInv'
  <2> DEFINE x == ClientRow(i, n, {q})
  <2>1. x \in Rows
    BY <1>t, NewRowFact, TablesFact DEF ClientRow
  <2>2. x.table = "clients" /\ x.line = {q} /\ x.name = n /\ x.of = i
    BY DEF ClientRow, NewRow
  <2>3. Fits(x)
    BY <1>3, <1>p, <2>2, TablesFact DEF Fits, CreateClient, ProjectFound
  <2>4. \A j \in Ids : Live(j) /\ Twins(x, row[j]) => j \in get_by_email_and_project(i, n)
    BY <1>t, <2>2 DEF Twins, Clash, get_by_email_and_project, All, Found, Live, TypeOK
  <2>5. Creates(q, x, get_by_email_and_project(i, n))
    BY <1>3 DEF CreateClient
  <2> QED BY <2>1, <2>2, <2>3, <2>4, <2>5, CreatesStep
<1>4. ASSUME NEW i \in Ids, CreateEventType(q, i, n)
      PROVE  IInv'
  <2> DEFINE x == EventTypeRow(i, n, {q})
  <2>1. x \in Rows
    BY <1>t, NewRowFact, TablesFact DEF EventTypeRow
  <2>2. x.table = "event_types" /\ x.line = {q} /\ x.name = n /\ x.of = i
    BY DEF EventTypeRow, NewRow
  <2>3. Fits(x)
    BY <1>4, <1>p, <2>2, TablesFact DEF Fits, CreateEventType, ProjectFound
  <2>4. \A j \in Ids :
          Live(j) /\ Twins(x, row[j]) => j \in get_by_event_code_and_project(i, n)
    BY <1>t, <2>2 DEF Twins, Clash, get_by_event_code_and_project, All, Found, Live, TypeOK
  <2>5. Creates(q, x, get_by_event_code_and_project(i, n))
    BY <1>4 DEF CreateEventType
  <2> QED BY <2>1, <2>2, <2>3, <2>4, <2>5, CreatesStep
<1>5. ASSUME NEW i \in Ids, CreateApiKey(q, i, n)
      PROVE  IInv'
  <2> DEFINE x == ApiKeyRow(i, n, {q})
  <2>1. x \in Rows
    BY <1>t, NewRowFact, TablesFact DEF ApiKeyRow
  <2>2. x.table = "api_keys" /\ x.line = {q} /\ x.name = n /\ x.of = i
    BY DEF ApiKeyRow, NewRow
  <2>3. Fits(x)
    BY <1>5, <1>p, <2>2, TablesFact DEF Fits, CreateApiKey, ClientFound
  <2>4. \A j \in Ids : Live(j) /\ Twins(x, row[j]) => j \in get_by_name_and_client(i, n)
    BY <1>t, <2>2 DEF Twins, Clash, get_by_name_and_client, All, Found, Live, TypeOK
  <2>5. Creates(q, x, get_by_name_and_client(i, n))
    BY <1>5 DEF CreateApiKey
  <2> QED BY <2>1, <2>2, <2>3, <2>4, <2>5, CreatesStep
<1> QED BY <1>1, <1>2, <1>3, <1>4, <1>5

LEMMA UpdatesStep ==
    ASSUME IInv, NEW q \in Requests, NEW i \in Ids, NEW x \in Rows, Updates(q, i, x),
           Live(i), row[i].table # "usage_events",
           row[i].table = "pricing_rules" => x.price \in Prices,
           x.name # row[i].name => x.renamed
    PROVE  IInv'
<1> DEFINE s == [phase |-> "update", target |-> i, loaded |-> row[i], new |-> x]
<1>1. Starts(q, s) /\ s \in Sessions
  BY RowFact DEF Updates, Sessions, IInv
<1>2. req'[q] = s /\ TypeOK
  BY <1>1, StartsFact DEF IInv
<1>3. Knows(i, {row[i].table})
  BY DEF Knows, IInv, RowsSettled
<1>4. SessionOK(q)'
  BY <1>1, <1>2, <1>3, StartsKeeps DEF SessionOK, UpdateOK, Bills
<1>5. ~Makes(q)' /\ s.phase \notin {"insert", "rotate"}
  BY <1>2 DEF Makes
<1> HIDE DEF s
<1> QED BY <1>1, <1>4, <1>5, StartStep

LEMMA RenamedFact ==
    ASSUME TypeOK, NEW i \in Ids, Live(i), NEW n \in Names
    PROVE  /\ Renamed(i, n) \in Rows /\ Renamed(i, n).renamed
           /\ Renamed(i, n).price = row[i].price
BY RowFact DEF Renamed, Rows

LEMMA ChangeStep ==
    ASSUME IInv, NEW q \in Requests, Change(q)
    PROVE  IInv'
<1>t. TypeOK /\ Schema /\ RowsSettled /\ q \in Ids
  BY Constants DEF IInv
<1> SUFFICES ASSUME NEW i \in Ids,
                    \/ \E n \in Names : \/ UpdateProject(q, i, n)
                                       \/ UpdateClient(q, i, n)
                                       \/ UpdateEventType(q, i, n)
                                       \/ UpdateApiKey(q, i, n)
                    \/ \E p \in Prices : \/ CreatePricingRule(q, i, p)
                                        \/ UpdatePricingRule(q, i, p)
             PROVE  IInv'
  BY DEF Change
<1>1. ASSUME NEW n \in Names,
             \/ UpdateProject(q, i, n) \/ UpdateClient(q, i, n)
             \/ UpdateEventType(q, i, n) \/ UpdateApiKey(q, i, n)
      PROVE  IInv'
  <2>1. /\ Live(i) /\ row[i].table \in {"projects", "clients", "event_types", "api_keys"}
        /\ Updates(q, i, Renamed(i, n))
    BY <1>1 DEF UpdateProject, UpdateClient, UpdateEventType, UpdateApiKey, ProjectFound,
                ClientFound, EventTypeFound, ApiKeyFound, Is
  <2> QED BY <1>t, <2>1, RenamedFact, UpdatesStep
<1>2. ASSUME NEW p \in Prices, UpdatePricingRule(q, i, p)
      PROVE  IInv'
  <2>1. Live(i) /\ row[i].table = "pricing_rules"
    BY <1>2 DEF UpdatePricingRule, PricingRuleFound, Is
  <2>2. row[i] \in Rows
    BY <1>t, <2>1, RowFact
  <2> DEFINE x == [row[i] EXCEPT !.price = p]
  <2>3. x \in Rows /\ x.price = p /\ x.name = row[i].name
    BY <2>2 DEF Rows
  <2>4. Updates(q, i, x)
    BY <1>2 DEF UpdatePricingRule
  <2> HIDE DEF x
  <2> QED BY <2>1, <2>3, <2>4, UpdatesStep
<1>3. ASSUME NEW p \in Prices, CreatePricingRule(q, i, p)
      PROVE  IInv'
  <2> DEFINE x == PricingRuleRow(i, p, {q})
             y == NewRow("pricing_rules", i, None, {q})
  <2>1. y \in Rows
    BY <1>t, NewRowFact, TablesFact
  <2>2. x = [y EXCEPT !.price = p]
    BY DEF PricingRuleRow
  <2>3. y.table = "pricing_rules" /\ y.line = {q} /\ y.of = i
    BY DEF NewRow
  <2> HIDE DEF y
  <2>4. x \in Rows /\ x.price = p /\ x.table = "pricing_rules" /\ x.line = {q} /\ x.of = i
    BY <2>1, <2>2, <2>3 DEF Rows
  <2>5. Fits(x)
    BY <1>t, <1>3, <2>4, TablesFact
       DEF Fits, CreatePricingRule, EventTypeFound, Is, RowsSettled
  <2>6. \A j \in Ids : Live(j) /\ Twins(x, row[j]) => j \in get_active_by_event_type(i)
    BY <1>t, <2>4 DEF Twins, Clash, get_active_by_event_type, All, Found, Live, TypeOK
  <2>7. Creates(q, x, get_active_by_event_type(i))
    BY <1>3 DEF CreatePricingRule
  <2> HIDE DEF x
  <2> QED BY <2>4, <2>5, <2>6, <2>7, CreatesStep
<1> QED BY <1>1, <1>2, <1>3

LEMMA DeletionStep ==
    ASSUME IInv, NEW q \in Requests, Deletion(q)
    PROVE  IInv'
<1>t. TypeOK /\ Schema /\ RowsSettled /\ EarlierOver
  BY DEF IInv
<1>1. PICK i \in Ids :
        /\ Live(i) /\ row[i].table \in {"projects", "clients", "event_types", "pricing_rules"}
        /\ Deletes(q, i)
  BY DEF Deletion, DeleteProject, DeleteClient, DeleteEventType, DeletePricingRule,
         ProjectFound, ClientFound, EventTypeFound, PricingRuleFound, Is
<1> DEFINE s == [phase |-> "delete", target |-> i, children |-> LoadedChildren(row, i)]
<1>2. LoadedChildren(row, i) \subseteq Ids
  BY <1>t DEF LoadedChildren, TypeOK
<1>3. Starts(q, s) /\ s \in Sessions
  BY <1>1, <1>2 DEF Deletes, Sessions
<1>4. req'[q] = s
  BY <1>3, <1>t, StartsFact
<1>5. Knows(i, {"projects", "clients", "event_types", "pricing_rules"})
  BY <1>1, <1>t DEF Knows, RowsSettled
<1>6. ASSUME NEW k \in All("api_keys"), row[k].of = i
      PROVE  k \in LoadedChildren(row, i)
  <2>1. k \in Ids /\ Live(k) /\ row[k].table = "api_keys"
    BY <1>t DEF All, Found, Live, TypeOK
  <2>2. row[i].table = "clients"
    BY <1>t, <1>6, <2>1, TablesFact DEF Schema, Under
  <2> QED BY <1>t, <1>6, <2>1, <2>2, TablesFact DEF LoadedChildren, Live, TypeOK
<1>7. DeleteOK(q)'
  <2>1. row' = row
    BY <1>3, <1>t, StartsFact
  <2>2. \A k \in All("api_keys")' : row'[k].of = i => k \in LoadedChildren(row, i)
    BY <1>6, <2>1 DEF All, Found
  <2>3. Knows(i, {"projects", "clients", "event_types", "pricing_rules"})'
    BY <1>t, <1>3, <1>5, StartsKeeps
  <2> QED BY <1>4, <2>2, <2>3 DEF DeleteOK
<1>8. SessionOK(q)' /\ ~Makes(q)' /\ s.phase \notin {"insert", "rotate"}
  BY <1>4, <1>7 DEF SessionOK, Makes, Bills
<1> HIDE DEF s
<1> QED BY <1>3, <1>8, StartStep

LEMMA RotateKeyStep ==
    ASSUME IInv, NEW q \in Requests, NEW i \in Ids, RotateKey(q, i)
    PROVE  IInv'
<1>t. TypeOK /\ Schema /\ RowsSettled /\ TwinsOverlap /\ LinesBegun /\ q \in Ids
  BY Constants DEF IInv
<1>1. Live(i) /\ row[i].table = "api_keys" /\ ~row[i].revoked
  BY DEF RotateKey, ApiKeyFound, Is
<1>2. row[i] \in Rows /\ row[i].line \subseteq Ids
  BY <1>t, <1>1, RowFact
<1>x. PICK x : x = [row[i] EXCEPT !.line = row[i].line \cup {q}]
  OBVIOUS
<1>s. PICK s : s = [phase |-> "rotate", target |-> i, new |-> x]
  OBVIOUS
<1>3. /\ x \in Rows /\ x.line = row[i].line \cup {q} /\ x.of = row[i].of
      /\ x.table = "api_keys" /\ x.name = row[i].name /\ x.renamed = row[i].renamed
      /\ ~x.revoked
  BY <1>t, <1>1, <1>2, <1>x DEF Rows
<1>4. Starts(q, s)
  BY <1>x, <1>s DEF RotateKey
<1>5. s \in Sessions
  BY <1>3, <1>s DEF Sessions
<1>6. req'[q] = s /\ row' = row
  BY <1>t, <1>4, <1>5, StartsFact
<1>7. Fits(x) /\ Knows(i, {"api_keys"})
  <2>1. row[i].of \in Ids /\ Live(row[i].of) /\ row[row[i].of].table = "clients"
    BY <1>t, <1>1, ParentFact, TablesFact
  <2> QED BY <1>t, <1>1, <1>3, <2>1, TablesFact DEF Fits, Knows, RowsSettled
<1>8. SessionOK(q)'
  BY <1>t, <1>3, <1>4, <1>5, <1>6, <1>7, <1>s, StartsKeeps DEF SessionOK, RotateOK, Bills
<1>9. s.new.line \subseteq Begun'
  BY <1>t, <1>1, <1>3, <1>4, <1>5, <1>s, StartsKeeps DEF LinesBegun
<1>10. ASSUME NEW j \in Ids, Live(j), Twins(x, row[j]), j # i
       PROVE  Excused(x, row[j])'
  <2>1. Excused(row[i], row[j])
    BY <1>t, <1>1, <1>3, <1>10 DEF Twins, Clash, TwinsOverlap, Excused
  <2>2. row[i].line \subseteq Begun /\ row[j].line \subseteq Begun
    BY <1>t, <1>1, <1>10 DEF LinesBegun
  <2>3. Excused(row[i], row[j])'
    BY <1>t, <1>4, <1>5, <1>6, <2>1, <2>2, OverlappedStays
  <2> QED BY <1>3, <1>6, <2>3 DEF Excused
<1> QED BY <1>4, <1>5, <1>8, <1>9, <1>10, <1>s, StartStep

LEMMA RevokeKeyStep ==
    ASSUME IInv, NEW q \in Requests, NEW i \in Ids, RevokeKey(q, i)
    PROVE  IInv'
<1> DEFINE s == [phase |-> "revoke", target |-> i]
<1>1. Starts(q, s) /\ s \in Sessions /\ TypeOK
  BY DEF RevokeKey, Sessions, IInv
<1>2. req'[q] = s
  BY <1>1, StartsFact
<1>3. Knows(i, {"api_keys"})
  BY DEF RevokeKey, ApiKeyFound, Is, Knows, IInv, RowsSettled
<1>4. SessionOK(q)' /\ ~Makes(q)' /\ s.phase \notin {"insert", "rotate"}
  BY <1>1, <1>2, <1>3, StartsKeeps DEF SessionOK, Makes, Bills
<1> HIDE DEF s
<1> QED BY <1>1, <1>4, StartStep

LEMMA UsageRowFact ==
    ASSUME NEW client \in Ids, NEW refs \in SUBSET Ids, NEW key \in Names,
           NEW behind \in SUBSET Ids
    PROVE  LET x == UsageEventRow(client, refs, key, behind)
           IN  /\ x \in Rows /\ x.table = "usage_events" /\ x.of = client
               /\ x.uses = refs /\ x.line = behind /\ x.price = None
<1> DEFINE y == NewRow("usage_events", client, key, behind)
           x == UsageEventRow(client, refs, key, behind)
<1>1. y \in Rows
  BY NewRowFact, TablesFact
<1>2. /\ y.table = "usage_events" /\ y.of = client /\ y.line = behind /\ y.price = None
      /\ x = [y EXCEPT !.uses = refs]
  BY DEF NewRow, UsageEventRow
<1> HIDE DEF y
<1> QED BY <1>1, <1>2 DEF Rows

LEMMA IngestStep ==
    ASSUME IInv, NEW q \in Requests, NEW sent \in Ids, NEW code \in Names, NEW key \in Names,
           Ingest(q, sent, code, key)
    PROVE  IInv'
<1>t. TypeOK /\ Schema /\ RowsSettled /\ LinesBegun
  BY DEF IInv
<1>1. PICK i \in get_client_from_api_key(sent) :
        \E type \in get_by_event_code_and_project(row[row[i].of].of, code) :
          Starts(q, [phase |-> "accepted",
                     new |-> UsageEventRow(row[i].of, {i, row[row[i].of].of, type}, key, {sent})])
  BY DEF Ingest
<1> DEFINE client == row[i].of
           project == row[client].of
<1>2. PICK type \in get_by_event_code_and_project(project, code) :
          Starts(q, [phase |-> "accepted",
                     new |-> UsageEventRow(client, {i, project, type}, key, {sent})])
  BY <1>1
<1>3. i = sent /\ i \in Ids /\ Live(i) /\ row[i].table = "api_keys"
  BY <1>t DEF get_client_from_api_key, Verifies, All, Found, Live, TypeOK
<1>4. client \in Ids /\ Live(client) /\ row[client].table = "clients"
  BY <1>t, <1>3, ParentFact, TablesFact
<1>5. project \in Ids /\ Live(project) /\ row[project].table = "projects"
  BY <1>t, <1>4, ParentFact, TablesFact
<1>6. type \in Ids /\ Live(type) /\ row[type].table = "event_types" /\ row[type].of = project
  BY <1>t DEF get_by_event_code_and_project, All, Found, Live, TypeOK
<1> HIDE DEF client, project
<1> DEFINE x == UsageEventRow(client, {i, project, type}, key, {sent})
           s == [phase |-> "accepted", new |-> x]
<1>7. /\ x \in Rows /\ x.table = "usage_events" /\ x.of = client
      /\ x.uses = {i, project, type} /\ x.line = {sent} /\ x.price = None
  BY <1>3, <1>4, <1>5, <1>6, UsageRowFact
<1>s. s = [phase |-> "accepted", new |-> x] /\ Starts(q, s)
  BY <1>2
<1> HIDE DEF x, s
<1>8. s \in Sessions
  BY <1>7, <1>s DEF Sessions
<1>9. Belongs(x)
  <2>1. Settled(x.of) /\ \A j \in x.uses : Settled(j)
    BY <1>t, <1>3, <1>4, <1>5, <1>6, <1>7 DEF RowsSettled
  <2>2. /\ row[i].of = x.of /\ i \in x.line
        /\ row[type].of = row[x.of].of /\ project = row[x.of].of
    BY <1>3, <1>6, <1>7 DEF client, project
  <2> QED BY <1>3, <1>5, <1>6, <1>7, <2>1, <2>2 DEF Belongs
<1>10. Fits(x)
  BY <1>t, <1>4, <1>7, TablesFact DEF Fits, RowsSettled
<1>11. req'[q] = s
  BY <1>t, <1>8, <1>s, StartsFact
<1>12. SessionOK(q)'
  BY <1>t, <1>7, <1>8, <1>9, <1>10, <1>11, <1>s, StartsKeeps DEF SessionOK, UsageOK, Bills
<1>13. sent \in Begun
  BY <1>t, <1>3, Constants DEF RowsSettled, Settled, Begun, Idle, Over, Answered, Failed, Lost
<1>14. s.new.line \subseteq Begun' /\ s.phase \notin {"insert", "rotate"}
  BY <1>t, <1>7, <1>8, <1>13, <1>s, StartsKeeps
<1> QED BY <1>8, <1>12, <1>14, <1>s, StartStep

(* The event type of recorded usage is there.                              *)
LEMMA TypeOfFact ==
    ASSUME IInv, NEW e \in All("usage_events")
    PROVE  /\ e \in Ids /\ Live(e) /\ row[e].table = "usage_events"
           /\ TypeOf(e) \in row[e].uses /\ TypeOf(e) \in Ids
           /\ Live(TypeOf(e)) /\ row[TypeOf(e)].table = "event_types"
<1>1. e \in Ids /\ Live(e) /\ row[e].table = "usage_events" /\ row[e].uses \subseteq Ids
  BY RowFact DEF All, Found, Live, IInv, TypeOK
<1>2. Belongs(row[e]) /\ RefsHold(row, row[e])
  BY <1>1 DEF IInv, UsageBelongs, Schema
<1>3. \A i \in row[e].uses : Live(i)
  BY <1>1, <1>2, Constants DEF RefsHold, Refs, Live
<1>4. \E i \in row[e].uses : row[i].table = "event_types"
  BY <1>2, <1>3 DEF Belongs
<1>5. TypeOf(e) \in row[e].uses /\ row[TypeOf(e)].table = "event_types"
  BY <1>4 DEF TypeOf
<1> QED BY <1>1, <1>3, <1>5

LEMMA BillProjectStep ==
    ASSUME IInv, NEW q \in Requests, NEW p \in Ids, NEW events \in SUBSET All("usage_events"),
           BillProject(q, p, events)
    PROVE  IInv'
<1>t. TypeOK /\ SessionsOK
  BY DEF IInv
<1> DEFINE s == [phase |-> "price", events |-> events]
<1>1. events \subseteq Ids /\ \A e \in events : row[e].price = None
  BY <1>t DEF BillProject, Uninvoiced, All, Found, TypeOK
<1>2. Starts(q, s) /\ s \in Sessions
  BY <1>1 DEF BillProject, Sessions
<1>3. /\ req'[q] = s /\ row' = row
      /\ \A r \in Requests : r # q => req'[r] = req[r]
  BY <1>2, <1>t, StartsFact
<1>4. ASSUME NEW b \in Requests, b # q, Bills(b)
      PROVE  events \cap req[b].events = {}
  <2> SUFFICES ASSUME NEW e \in events, e \in req[b].events
               PROVE  FALSE
    OBVIOUS
  <2>1. /\ TypeOf(e) \in row[e].uses /\ TypeOf(e) \in Ids
        /\ row[TypeOf(e)].table = "event_types"
    BY TypeOfFact
  <2>2. TypeOf(e) \in {i \in Refs(row[e]) : row[i].table = "event_types"}
    BY <2>1, Constants DEF Refs
  <2>3. req[b] \notin {Idle} \cup Over /\ req[b].phase \in {"price", "invoice"}
    BY <1>4, OpenFact DEF Bills
  <2>4. TypeOf(e) \in LockedTypes
    BY <2>2, <2>3 DEF LockedTypes
  <2> QED BY <2>4 DEF BillProject
<1>5. BillOK(q)'
  <2>1. All("usage_events")' = All("usage_events")
    BY <1>3 DEF All, Found
  <2>2. \A b \in Requests : b # q /\ Bills(b)' => events \cap req'[b].events = {}
    BY <1>3, <1>4 DEF Bills
  <2> QED BY <1>1, <1>3, <2>1, <2>2 DEF BillOK
<1>6. SessionOK(q)' /\ ~Makes(q)' /\ s.phase \notin {"insert", "rotate"}
  BY <1>3, <1>5 DEF SessionOK, Makes
<1> HIDE DEF s
<1> QED BY <1>2, <1>6, StartStep

LEMMA ArrivalStep ==
    ASSUME IInv, NEW q \in Requests, Arrival(q)
    PROVE  IInv'
BY CreationStep, ChangeStep, DeletionStep, RotateKeyStep, RevokeKeyStep, IngestStep,
   BillProjectStep DEF Arrival, Use

-------------------------------------------------------------------------------
(* What a commit does to the rows.                                         *)

Carries(i) ==
    /\ row'[i] \in Rows
    /\ row'[i].table = row[i].table /\ row'[i].of = row[i].of
    /\ row'[i].uses = row[i].uses /\ row'[i].line = row[i].line
    /\ row[i].revoked => row'[i].revoked
    /\ row[i].renamed => row'[i].renamed
    /\ row'[i].name = row[i].name \/ row'[i].renamed
    /\ row[i].table = "pricing_rules" => row'[i].price \in Prices

RowsKept == \A i \in Ids : Live(i) => (row'[i] = None \/ Carries(i))

RowsGone(q) ==
    \A i \in Ids : Live(i) /\ ~Live(i)' =>
        /\ req[q].phase = "delete" /\ req'[q] = Answered /\ req[q].children = {}
        /\ i = req[q].target \/ i \in Cascaded(row, req[q].target)

RowsMade(q) ==
    \A i \in Ids : ~Live(i) /\ Live(i)' =>
        /\ i = q /\ Makes(q) /\ row'[i] = req[q].new /\ req'[q] \in Over
        /\ req[q].phase = "rotate" => row'[req[q].target].revoked
        /\ req[q].phase = "accepted" =>
              \A j \in Ids : Live(j) => ~Clash(row[j], row'[i])

UsageKept(q) ==
    \A e \in All("usage_events") :
        /\ Live(e)'
        /\ \/ row'[e].price = row[e].price
           \/ /\ req[q].phase = "invoice" /\ e \in req[q].events
              /\ row'[e].price \in offered[e]

Follows(q) ==
    \/ req'[q] \in Over
    \/ /\ req[q].phase = "price" /\ req'[q] \in Sessions /\ req'[q].phase = "invoice"
       /\ req'[q].events = req[q].events
       /\ \A e \in req[q].events : req'[q].price[e] \in offered'[e]

Effect(q) ==
    /\ req[q] \notin {Idle} \cup Over
    /\ req' = [req EXCEPT ![q] = req'[q]] /\ Follows(q)
    /\ earlier' = earlier /\ Offers
    /\ row' \in [Ids -> Rows \cup {None}]
    /\ RowsKept /\ RowsGone(q) /\ RowsMade(q) /\ UsageKept(q)
    /\ \A i \in Ids : Live(i)' => RefsHold(row, row[i])'

LEMMA EffectFact ==
    ASSUME IInv, NEW q \in Requests, Effect(q)
    PROVE  /\ ~Settled(q) /\ q \in Ids /\ ~Live(q)
           /\ \A r \in Requests : r # q => req'[r] = req[r]
           /\ req'[q] # Idle /\ (req'[q] \in Over \/ req'[q] \in Sessions)
           /\ \A i : Settled(i) => Settled(i)'
           /\ \A i \in Ids : Settled(i) /\ Live(i)' => Live(i) /\ Carries(i)
           /\ \A i \in Ids : Live(i)' => i = q \/ (Live(i) /\ Carries(i))
           /\ Begun' = Begun
           /\ \A a, b : Overlapped(a, b)' <=> Overlapped(a, b)
<1>t. TypeOK /\ RowsSettled
  BY DEF IInv
<1>1. ~Settled(q) /\ q \in Ids /\ ~Live(q)
  BY <1>t, Constants DEF Settled, RowsSettled, Effect
<1>2. \A r \in Requests : r # q => req'[r] = req[r]
  BY <1>t DEF Effect, TypeOK
<1>3. \A i : Settled(i) => Settled(i)'
  BY <1>1, <1>2 DEF Settled, Effect
<1>4. \A i \in Ids : Live(i)' => i = q \/ (Live(i) /\ Carries(i))
  <2> SUFFICES ASSUME NEW i \in Ids, Live(i)', i # q
               PROVE  Live(i) /\ Carries(i)
    OBVIOUS
  <2>1. Live(i)
    BY DEF Effect, RowsMade
  <2> QED BY <2>1 DEF Effect, RowsKept, Live, Exists
<1>5. \A i \in Ids : Settled(i) /\ Live(i)' => Live(i) /\ Carries(i)
  BY <1>1, <1>4
<1>6. req'[q] # Idle /\ (req'[q] \in Over \/ req'[q] \in Sessions)
  BY DEF Effect, Follows, Over, Idle, Answered, Failed, Lost
<1>7. Begun' = Begun
  BY <1>2, <1>6 DEF Begun, Effect
<1>8. \A a, b : Overlapped(a, b)' <=> Overlapped(a, b)
  BY DEF Overlapped, Effect
<1> QED BY <1>1, <1>2, <1>3, <1>4, <1>5, <1>6, <1>7, <1>8

(* What sessions know stays true.                                          *)
LEMMA EffectKeeps ==
    ASSUME IInv, NEW q \in Requests, Effect(q)
    PROVE  /\ \A t : \A i \in Ids : Knows(i, t) => Knows(i, t)'
           /\ \A x \in Rows : Fits(x) => Fits(x)'
           /\ \A x \in Rows : x.table = "usage_events" /\ Belongs(x) /\ Fits(x) => Belongs(x)'
<1> USE EffectFact
<1>1. ASSUME NEW i \in Ids, NEW t, Knows(i, t)
      PROVE  Knows(i, t)'
  BY <1>1 DEF Knows, Carries
<1>2. ASSUME NEW x \in Rows, Fits(x)
      PROVE  Fits(x)'
  BY <1>2 DEF Fits, Carries
<1>3. ASSUME NEW x \in Rows, x.table = "usage_events", Belongs(x), Fits(x)
      PROVE  Belongs(x)'
  <2>1. x.of \in Ids /\ x.uses \subseteq Ids
    BY <1>3, TablesFact DEF Fits, Rows
  <2>2. Settled(x.of)' /\ \A i \in x.uses : Settled(i)'
    BY <1>3 DEF Belongs
  <2>3. ASSUME NEW i \in x.uses, Live(i)', Live(x.of)'
        PROVE  CASE row'[i].table = "api_keys" -> row'[i].of = x.of /\ i \in x.line
                 [] row'[i].table = "event_types" -> row'[i].of = row'[x.of].of
                 [] OTHER -> i = row'[x.of].of
    <3>1. Live(i) /\ Live(x.of) /\ Carries(i) /\ Carries(x.of)
      BY <1>3, <2>1, <2>3 DEF Belongs
    <3>2. /\ row'[i].table = row[i].table /\ row'[i].of = row[i].of
          /\ row'[x.of].of = row[x.of].of
      BY <3>1 DEF Carries
    <3>3. (CASE row[i].table = "api_keys" -> row[i].of = x.of /\ i \in x.line
             [] row[i].table = "event_types" -> row[i].of = row[x.of].of
             [] OTHER -> i = row[x.of].of)
      BY <1>3, <3>1 DEF Belongs
    <3> QED BY <3>2, <3>3
  <2>4. \E i \in x.uses : Live(i)' => row'[i].table = "event_types"
    <3>1. PICK i \in x.uses : Live(i) => row[i].table = "event_types"
      BY <1>3 DEF Belongs
    <3>2. Live(i)' => Live(i) /\ Carries(i)
      BY <1>3, <2>1 DEF Belongs
    <3> QED BY <3>1, <3>2 DEF Carries
  <2> QED BY <2>2, <2>3, <2>4 DEF Belongs
<1> QED BY <1>1, <1>2, <1>3

LEMMA RowsEffect ==
    ASSUME IInv, NEW q \in Requests, Effect(q)
    PROVE  RowsSettled' /\ Schema' /\ UsageBelongs' /\ LinesBegun' /\ EarlierOver'
<1> USE EffectFact
<1>t. TypeOK /\ RowsSettled /\ Schema /\ UsageBelongs /\ SessionsOK /\ LinesBegun /\ EarlierOver
  BY DEF IInv
<1>d. DOMAIN row = Ids /\ DOMAIN row' = Ids
  BY <1>t DEF TypeOK, Effect
<1>1. RowsSettled'
  <2> SUFFICES ASSUME NEW i \in Ids, Live(i)'
               PROVE  Settled(i)'
    BY DEF RowsSettled
  <2>1. CASE Live(i)
    BY <1>t, <2>1 DEF RowsSettled
  <2>2. CASE ~Live(i)
    BY <2>2 DEF Effect, RowsMade, Settled
  <2> QED BY <2>1, <2>2
<1>n. ASSUME Live(q)'
      PROVE  /\ row'[q] = req[q].new /\ Fits(row'[q]) /\ row'[q] \in Rows
             /\ row'[q].table = "pricing_rules" => row'[q].price \in Prices
             /\ row'[q].table = "usage_events" => Belongs(row'[q])
             /\ row'[q].line \subseteq Begun
  <2>1. Makes(q) /\ row'[q] = req[q].new
    BY <1>n DEF Effect, RowsMade
  <2>2. SessionOK(q)
    BY <1>t DEF SessionsOK
  <2>3. req[q].new \in Rows
    BY <1>t, <2>1, SessionFact DEF Effect
  <2>4. req[q].new.line \subseteq Begun
    BY <1>t, <2>1 DEF LinesBegun
  <2>5. CASE req[q].phase = "insert"
    BY <2>1, <2>2, <2>3, <2>4, <2>5 DEF SessionOK, InsertOK
  <2>6. CASE req[q].phase = "rotate"
    BY <2>1, <2>2, <2>3, <2>4, <2>6 DEF SessionOK, RotateOK
  <2>7. CASE req[q].phase = "accepted"
    BY <2>1, <2>2, <2>3, <2>4, <2>7 DEF SessionOK, UsageOK
  <2> QED BY <2>1, <2>5, <2>6, <2>7 DEF Makes
<1>2. Schema'
  <2> SUFFICES ASSUME NEW i \in Ids, Live(i)'
               PROVE  /\ RefsHold(row, row[i])' /\ Under(row, row[i])'
                      /\ row'[i].table = "pricing_rules" => row'[i].price \in Prices
    BY DEF Schema
  <2>1. RefsHold(row, row[i])'
    BY DEF Effect
  <2>2. PICK p : p = row'[i].of
    OBVIOUS
  <2>3. ASSUME NEW t \in Model[row'[i].table].under
        PROVE  p \in Ids /\ Live(p)' /\ row'[p].table = t
    <3>1. CASE i = q
      <4>1. /\ p \in Ids /\ Settled(p)
            /\ Live(p) => row[p].table = t
        BY <1>n, <2>2, <2>3, <3>1 DEF Fits
      <4>2. Live(p)'
        BY <2>1, <2>2, <4>1, Constants DEF RefsHold, Refs, Live
      <4>3. Live(p) /\ Carries(p)
        BY <4>1, <4>2
      <4> QED BY <4>1, <4>2, <4>3 DEF Carries
    <3>2. CASE i # q
      <4>1. Live(i) /\ Carries(i)
        BY <3>2
      <4>2. p \in Ids /\ Live(p) /\ row[p].table = t
        BY <1>t, <1>d, <2>2, <2>3, <4>1 DEF Schema, Under, Carries, Live
      <4>3. Live(p)'
        BY <2>1, <2>2, <4>2, Constants DEF RefsHold, Refs, Live
      <4>4. Carries(p)
        BY <1>t, <4>2, <4>3 DEF RowsSettled
      <4> QED BY <4>2, <4>3, <4>4 DEF Carries
    <3> QED BY <3>1, <3>2
  <2>4. Under(row, row[i])'
    BY <1>d, <2>2, <2>3 DEF Under, Live
  <2>5. row'[i].table = "pricing_rules" => row'[i].price \in Prices
    BY <1>n DEF Carries
  <2> QED BY <2>1, <2>4, <2>5
<1>3. UsageBelongs'
  <2> SUFFICES ASSUME NEW e \in Ids, Live(e)', row'[e].table = "usage_events"
               PROVE  e \in Requests /\ Belongs(row[e])'
    BY <1>d DEF UsageBelongs, All, Found, Live
  <2>1. CASE e = q
    <3> PICK x : x = row'[q]
      OBVIOUS
    <3>1. x \in Rows /\ x.table = "usage_events" /\ Fits(x) /\ Belongs(x)
      BY <1>n, <2>1
    <3>2. Belongs(x)'
      BY <3>1, EffectKeeps
    <3> QED BY <2>1, <3>2
  <2>2. CASE e # q
    <3>1. Live(e) /\ Carries(e)
      BY <2>2
    <3> PICK x : x = row[e]
      OBVIOUS
    <3>2. x.table = "usage_events" /\ x \in Rows /\ e \in All("usage_events")
      BY <1>t, <1>d, <3>1, RowFact DEF Carries, All, Found, Live
    <3>3. Belongs(x) /\ e \in Requests
      BY <1>t, <3>2 DEF UsageBelongs
    <3>4. Fits(x)
      BY <1>t, <1>d, <3>1, <3>2 DEF Fits, Schema, Under, RowsSettled, Live
    <3>5. Belongs(x)'
      BY <3>2, <3>3, <3>4, EffectKeeps
    <3>6. row'[e].of = x.of /\ row'[e].uses = x.uses /\ row'[e].line = x.line
      BY <3>1 DEF Carries
    <3> QED BY <3>3, <3>5, <3>6 DEF Belongs
  <2> QED BY <2>1, <2>2
<1>4. LinesBegun'
  <2>1. ASSUME NEW i \in Ids, Live(i)'
        PROVE  row'[i].line \subseteq Begun
    BY <1>t, <1>n, <2>1 DEF LinesBegun, Carries
  <2>2. ASSUME NEW r \in Requests, Makes(r)'
        PROVE  req'[r].new.line \subseteq Begun
    <3>1. r # q
      BY <2>2 DEF Effect, Follows, Makes, Over, Answered, Failed, Lost
    <3> QED BY <1>t, <2>2, <3>1 DEF LinesBegun, Makes
  <2> QED BY <2>1, <2>2 DEF LinesBegun
<1>5. EarlierOver'
  BY <1>t DEF EarlierOver, Effect
<1> QED BY <1>1, <1>2, <1>3, <1>4, <1>5

LEMMA TypeEffect ==
    ASSUME IInv, NEW q \in Requests, Effect(q)
    PROVE  /\ TypeOK' /\ InvoicedAtOfferedPrice'
           /\ \A e \in All("usage_events") : offered[e] \subseteq offered'[e]
<1>t. TypeOK /\ UsageBelongs /\ SessionsOK /\ InvoicedAtOfferedPrice
  BY DEF IInv
<1>d. DOMAIN row = Ids /\ DOMAIN row' = Ids
  BY <1>t DEF TypeOK, Effect
<1>1. \A type : PriceNow(type)' \in Prices \cup {0}
  <2> SUFFICES ASSUME NEW type
               PROVE  PriceNow(type)' \in Prices \cup {0}
    OBVIOUS
  <2> DEFINE rules == {r \in All("pricing_rules")' : row'[r].of = type}
  <2>1. PriceNow(type)' = IF rules = {} THEN 0 ELSE row'[CHOOSE r \in rules : TRUE].price
    BY DEF PriceNow
  <2>2. \A r \in rules : row'[r].price \in Prices
    BY <1>d, RowsEffect DEF Schema, All, Found, Live
  <2> HIDE DEF rules
  <2>3. rules # {} => (CHOOSE r \in rules : TRUE) \in rules
    OBVIOUS
  <2> QED BY <2>1, <2>2, <2>3
<1>2. /\ offered' \in [Requests -> SUBSET (Prices \cup {0})]
      /\ \A e \in Requests : offered[e] \subseteq offered'[e]
  BY <1>1, <1>t DEF Effect, Offers, TypeOK
<1>3. TypeOK'
  BY <1>t, <1>2, EffectFact DEF TypeOK, Effect
<1>4. \A e \in All("usage_events") : offered[e] \subseteq offered'[e]
  BY <1>t, <1>2 DEF UsageBelongs
<1>5. InvoicedAtOfferedPrice'
  <2> SUFFICES ASSUME NEW e \in Ids, Live(e)', row'[e].table = "usage_events",
                      row'[e].price # None
               PROVE  row'[e].price \in offered'[e]
    BY <1>d DEF InvoicedAtOfferedPrice, All, Found, Live
  <2>1. CASE e = q
    <3>1. Makes(q) /\ row'[e] = req[q].new
      BY <2>1, EffectFact DEF Effect, RowsMade
    <3>2. req[q].new.price = None
      BY <1>t, <3>1 DEF SessionsOK, SessionOK, InsertOK, RotateOK, UsageOK, Makes
    <3> QED BY <3>1, <3>2
  <2>2. CASE e # q
    <3>1. e \in All("usage_events")
      BY <1>d, <2>2, EffectFact DEF Carries, All, Found, Live
    <3> QED BY <1>t, <1>4, <3>1 DEF Effect, UsageKept, InvoicedAtOfferedPrice
  <2> QED BY <2>1, <2>2
<1> QED BY <1>3, <1>4, <1>5

LEMMA UsageEffect ==
    ASSUME IInv, NEW q \in Requests, Effect(q), NEW e \in All("usage_events")
    PROVE  /\ e \in Ids /\ e \in All("usage_events")'
           /\ row'[e].price # row[e].price => Bills(q) /\ e \in req[q].events
<1>1. e \in Ids /\ Live(e) /\ row[e].table = "usage_events"
  BY TypeOfFact
<1>2. Live(e)' /\ (row'[e].price # row[e].price => Bills(q) /\ e \in req[q].events)
  BY DEF Effect, UsageKept, Bills
<1>3. row'[e].table = "usage_events" /\ DOMAIN row' = Ids
  BY <1>1, <1>2, EffectFact DEF Carries, Effect
<1> QED BY <1>1, <1>2, <1>3 DEF All, Found, Live

LEMMA SessionsEffect ==
    ASSUME IInv, NEW q \in Requests, Effect(q)
    PROVE  SessionsOK'
<1> USE EffectFact
<1>t. TypeOK /\ SessionsOK /\ EarlierOver
  BY DEF IInv
<1>1. ASSUME NEW r \in Requests, NEW events, Bills(r), events = req[r].events,
             req'[r].events = events, req[q].phase = "invoice" => r # q,
             \A b \in Requests : b # r /\ Bills(b)' => Bills(b) /\ req'[b].events = req[b].events,
             req'[r].phase = "invoice" => \A e \in events : req'[r].price[e] \in offered'[e]
      PROVE  BillOK(r)'
  <2>1. BillOK(r)
    BY <1>1, <1>t DEF SessionsOK, SessionOK
  <2>2. ASSUME NEW e \in events
        PROVE  e \in All("usage_events")' /\ row'[e].price = None
    <3>1. e \in All("usage_events") /\ row[e].price = None
      BY <1>1, <2>1 DEF BillOK
    <3>2. CASE r = q
      <4>1. req[q].phase # "invoice"
        BY <1>1, <3>2
      <4> QED BY <3>1, <4>1, UsageEffect DEF Effect, UsageKept
    <3>3. CASE r # q
      <4>1. Bills(q) => e \notin req[q].events
        BY <1>1, <2>1, <3>3 DEF BillOK
      <4> QED BY <3>1, <4>1, UsageEffect
    <3> QED BY <3>2, <3>3
  <2>3. \A b \in Requests : b # r /\ Bills(b)' => events \cap req'[b].events = {}
    BY <1>1, <2>1 DEF BillOK
  <2> QED BY <1>1, <2>2, <2>3 DEF BillOK
<1>2. \A b \in Requests : Bills(b)' => Bills(b) /\ req'[b].events = req[b].events
  BY DEF Bills, Effect, Follows, Over, Answered, Failed, Lost
<1>3. SessionOK(q)'
  <2>1. CASE req'[q] \in Over
    BY <2>1 DEF SessionOK, Bills, Over, Answered, Failed, Lost
  <2>2. CASE req'[q] \notin Over
    <3>1. /\ req[q].phase = "price" /\ req'[q].phase = "invoice"
          /\ req'[q].events = req[q].events
          /\ \A e \in req[q].events : req'[q].price[e] \in offered'[e]
      BY <2>2 DEF Effect, Follows
    <3>2. BillOK(q)'
      BY <1>1, <1>2, <3>1 DEF Bills
    <3> QED BY <3>1, <3>2 DEF SessionOK
  <2> QED BY <2>1, <2>2
<1>4. ASSUME NEW r \in Requests, r # q
      PROVE  SessionOK(r)'
  <2>1. SessionOK(r) /\ req'[r] = req[r]
    BY <1>4, <1>t DEF SessionsOK
  <2>2. req[r].phase = "insert" => InsertOK(r)'
    BY <1>t, <2>1, OpenFact, SessionFact, EffectKeeps DEF SessionOK, InsertOK, Makes
  <2>3. req[r].phase = "update" => UpdateOK(r)'
    BY <1>t, <2>1, OpenFact, SessionFact, EffectKeeps DEF SessionOK, UpdateOK
  <2>4. req[r].phase = "delete" => DeleteOK(r)'
    <3> SUFFICES ASSUME req[r].phase = "delete"
                 PROVE  DeleteOK(r)'
      OBVIOUS
    <3>1. DeleteOK(r) /\ req[r].target \in Ids
      BY <1>t, <2>1, OpenFact, SessionFact DEF SessionOK
    <3>2. Knows(req[r].target, {"projects", "clients", "event_types", "pricing_rules"})'
      BY <2>1, <3>1, EffectKeeps DEF DeleteOK
    <3>3. ASSUME NEW k \in All("api_keys")', row'[k].of = req[r].target, k \in earlier[r]
          PROVE  k \in req[r].children
      <4>1. k \in Ids /\ Live(k)' /\ row'[k].table = "api_keys"
        BY DEF All, Found, Live, Effect
      <4>2. Settled(k)
        BY <1>t, <3>3 DEF EarlierOver
      <4>3. Live(k) /\ Carries(k)
        BY <4>1, <4>2
      <4>4. k \in All("api_keys") /\ row[k].of = req[r].target
        BY <1>t, <3>3, <4>1, <4>3 DEF Carries, All, Found, Live, TypeOK
      <4> QED BY <3>1, <3>3, <4>4 DEF DeleteOK
    <3>4. earlier' = earlier
      BY DEF Effect
    <3> QED BY <2>1, <3>2, <3>3, <3>4 DEF DeleteOK
  <2>5. req[r].phase = "rotate" => RotateOK(r)'
    BY <1>t, <2>1, OpenFact, SessionFact, EffectKeeps DEF SessionOK, RotateOK, Makes
  <2>6. req[r].phase = "revoke" => Knows(req[r].target, {"api_keys"})'
    BY <1>t, <2>1, OpenFact, SessionFact, EffectKeeps DEF SessionOK
  <2>7. req[r].phase = "accepted" => UsageOK(r)'
    BY <1>t, <2>1, OpenFact, SessionFact, EffectKeeps DEF SessionOK, UsageOK, Makes
  <2>8. Bills(r) => BillOK(r)'
    <3> SUFFICES ASSUME Bills(r)
                 PROVE  BillOK(r)'
      OBVIOUS
    <3>1. BillOK(r)
      BY <2>1 DEF SessionOK
    <3>2. \A e \in req[r].events : offered[e] \subseteq offered'[e]
      BY <3>1, TypeEffect DEF BillOK
    <3>3. req'[r].phase = "invoice" => \A e \in req[r].events : req'[r].price[e] \in offered'[e]
      BY <2>1, <3>1, <3>2 DEF BillOK
    <3> QED BY <1>1, <1>2, <1>4, <2>1, <3>3
  <2> QED BY <2>1, <2>2, <2>3, <2>4, <2>5, <2>6, <2>7, <2>8 DEF SessionOK, Bills
<1> QED BY <1>3, <1>4 DEF SessionsOK

(* The twins of a new row are excused, or it has none.                     *)
LEMMA TwinsEffect ==
    ASSUME IInv, NEW q \in Requests, Effect(q)
    PROVE  TwinsOverlap' /\ PendingTwins'
<1> USE EffectFact
<1>t. TypeOK /\ SessionsOK /\ EarlierOver /\ TwinsOverlap /\ PendingTwins
  BY DEF IInv
<1>e. \A x, y : Excused(x, y)' <=> Excused(x, y)
  BY DEF Excused
<1>s. \A x, y : Excused(x, y) => Excused(y, x)
  BY DEF Excused, Overlapped
<1>k. ASSUME NEW i \in Ids, NEW x, Live(i), Carries(i), Twins(x, row'[i]),
             Twins(x, row[i]) => Excused(x, row[i])
      PROVE  Excused(x, row'[i])
  <2>1. CASE x.renamed \/ row'[i].renamed
    BY <2>1 DEF Excused
  <2>2. CASE ~x.renamed /\ ~row'[i].renamed
    <3>1. Twins(x, row[i])
      BY <1>k, <2>2 DEF Twins, Clash, Carries
    <3>2. Excused(x, row[i]) /\ row'[i].line = row[i].line
      BY <1>k, <3>1 DEF Carries
    <3>3. ~row[i].renamed
      BY <1>k, <2>2 DEF Carries
    <3> QED BY <2>2, <3>2, <3>3 DEF Excused
  <2> QED BY <2>1, <2>2
<1>n. ASSUME Live(q)'
      PROVE  /\ Makes(q) /\ row'[q] = req[q].new
             /\ req[q].phase = "rotate" => row'[req[q].target].revoked
             /\ req[q].phase = "accepted" =>
                   /\ row'[q].table = "usage_events"
                   /\ \A j \in Ids : Live(j) => ~Clash(row[j], row'[q])
             /\ req[q].phase # "accepted" => q \in row'[q].line
  <2>1. SessionOK(q)
    BY <1>t DEF SessionsOK
  <2>2. /\ Makes(q) /\ row'[q] = req[q].new
        /\ req[q].phase = "rotate" => row'[req[q].target].revoked
        /\ req[q].phase = "accepted" => \A j \in Ids : Live(j) => ~Clash(row[j], row'[q])
    BY <1>n DEF Effect, RowsMade
  <2> QED BY <2>1, <2>2 DEF SessionOK, InsertOK, RotateOK, UsageOK, Makes
<1>1. ASSUME NEW j \in Ids, j # q, Live(q)', Live(j)', Twins(row'[q], row'[j])
      PROVE  Excused(row'[q], row'[j])
  <2>1. Live(j) /\ Carries(j)
    BY <1>1
  <2>2. ASSUME Twins(row'[q], row[j])
        PROVE  Excused(row'[q], row[j])
    <3>1. req[q].phase # "accepted"
      BY <1>1, <1>n, <2>1, <2>2 DEF Twins, Clash
    <3>2. req[q].phase = "rotate" => j # req[q].target
      BY <1>1, <1>n DEF Twins
    <3>3. req[q].phase \in {"insert", "rotate"}
      BY <1>1, <1>n, <3>1 DEF Makes
    <3> QED BY <1>1, <1>n, <1>t, <2>1, <2>2, <3>2, <3>3 DEF PendingTwins
  <2> QED BY <1>1, <1>k, <2>1, <2>2
<1>2. ASSUME NEW i \in Ids, NEW j \in Ids, i # j, Live(i)', Live(j)',
             Twins(row'[i], row'[j])
      PROVE  Excused(row'[i], row'[j])
  <2>1. CASE i = q
    BY <1>1, <1>2, <2>1
  <2>2. CASE j = q
    <3>1. Twins(row'[j], row'[i])
      BY <1>2 DEF Twins, Clash
    <3> QED BY <1>1, <1>2, <1>s, <2>2, <3>1
  <2>3. CASE i # q /\ j # q
    <3>1. Live(i) /\ Carries(i) /\ Live(j) /\ Carries(j)
      BY <1>2, <2>3
    <3>2. ASSUME Twins(row'[i], row[j])
          PROVE  Excused(row'[i], row[j])
      <4>1. Twins(row[j], row[i]) => Excused(row[j], row[i])
        BY <1>2, <1>s, <1>t, <3>1 DEF TwinsOverlap, Twins, Excused
      <4>2. Twins(row[j], row'[i])
        BY <3>2 DEF Twins, Clash
      <4> QED BY <1>k, <1>s, <3>1, <4>1, <4>2
    <3> QED BY <1>2, <1>k, <3>1, <3>2
  <2> QED BY <2>1, <2>2, <2>3
<1>3. TwinsOverlap'
  BY <1>2, <1>e DEF TwinsOverlap, Twins, Excused
<1>4. ASSUME NEW r \in Requests, NEW j \in Ids,
             req'[r].phase \in {"insert", "rotate"}, Live(j)',
             req'[r].phase = "rotate" => j # req'[r].target,
             Twins(req'[r].new, row'[j])
      PROVE  Excused(req'[r].new, row'[j])
  <2>1. r # q
    BY <1>4 DEF Effect, Follows, Over, Answered, Failed, Lost
  <2>2. req'[r] = req[r] /\ SessionOK(r)
    BY <1>t, <2>1 DEF SessionsOK
  <2>3. CASE j # q
    <3>1. Live(j) /\ Carries(j)
      BY <1>4, <2>3
    <3>2. Twins(req[r].new, row[j]) => Excused(req[r].new, row[j])
      BY <1>4, <1>t, <2>2, <3>1 DEF PendingTwins
    <3> QED BY <1>4, <1>k, <2>2, <3>1, <3>2
  <2>4. CASE j = q
    <3>1. r \in req[r].new.line /\ req[r].new.table # "usage_events"
      BY <1>4, <2>2 DEF SessionOK, InsertOK, RotateOK
    <3>2. q \in row'[q].line
      BY <1>4, <1>n, <2>2, <2>4, <3>1 DEF Twins, Clash
    <3>3. ~Settled(r) /\ ~Settled(q)
      <4>1. req[r] \notin Over
        BY <1>4, <2>2, OpenFact
      <4> QED BY <4>1, Constants DEF Settled
    <3>4. Overlapped(r, q)
      BY <1>t, <3>3 DEF Overlapped, EarlierOver
    <3> QED BY <2>1, <2>2, <2>4, <3>1, <3>2, <3>4 DEF Excused
  <2> QED BY <2>3, <2>4
<1>5. PendingTwins'
  BY <1>4, <1>e DEF PendingTwins, Twins
<1> QED BY <1>3, <1>5

LEMMA EffectStep ==
    ASSUME IInv, NEW q \in Requests, Effect(q)
    PROVE  IInv'
BY RowsEffect, TypeEffect, SessionsEffect, TwinsEffect DEF IInv

-------------------------------------------------------------------------------
(* Every commit has no other effect.                                       *)

LEMMA EndsEffect ==
    ASSUME IInv, NEW q \in Requests, req[q] \notin {Idle} \cup Over,
           NEW how \in Over, Ends(q, how),
           row' \in [Ids -> Rows \cup {None}], RowsKept, RowsGone(q), RowsMade(q), UsageKept(q),
           \A i \in Ids : Live(i)' => RefsHold(row, row[i])'
    PROVE  Effect(q)
<1>1. req'[q] = how /\ req' = [req EXCEPT ![q] = req'[q]]
  BY DEF Ends, IInv, TypeOK
<1> QED BY <1>1 DEF Effect, Follows, Ends

LEMMA SameCarries ==
    ASSUME IInv, NEW i \in Ids, Live(i), row'[i] = row[i]
    PROVE  Carries(i)
BY RowFact DEF Carries, IInv, Schema

(* Rows keep what they refer to as long as nothing is deleted.             *)
LEMMA RefsKept ==
    ASSUME NEW x \in Rows, RefsHold(row, x), \A j \in Ids : Live(j) => Live(j)'
    PROVE  \A j \in Refs(x) : Live(j)'
BY DEF RefsHold, Refs, Live, Rows

LEMMA QuietEffect ==
    ASSUME IInv, NEW q \in Requests, UNCHANGED row
    PROVE  /\ row' \in [Ids -> Rows \cup {None}]
           /\ RowsKept /\ RowsGone(q) /\ RowsMade(q) /\ UsageKept(q)
           /\ \A i \in Ids : Live(i)' => RefsHold(row, row[i])'
<1>1. \A i \in Ids : Live(i)' <=> Live(i)
  BY DEF Live, Exists
<1>2. RowsKept
  BY SameCarries DEF RowsKept
<1>3. UsageKept(q)
  BY <1>1, TypeOfFact DEF UsageKept
<1>4. \A i \in Ids : Live(i)' => RefsHold(row, row[i])'
  BY <1>1 DEF IInv, Schema, RefsHold
<1>5. row' \in [Ids -> Rows \cup {None}]
  BY DEF IInv, TypeOK
<1> QED BY <1>1, <1>2, <1>3, <1>4, <1>5 DEF RowsMade, RowsGone

(* One row is written, and perhaps the request's row is inserted.          *)
LEMMA WriteEffect ==
    ASSUME IInv, NEW q \in Requests, ~Live(q), NEW i \in Ids, Live(i), Carries(i),
           row[i].table = "usage_events" => row'[i].price = row[i].price,
           row'[q] # None => RefsHold(row, row'[q]),
           row' \in [Ids -> Rows \cup {None}],
           \A j \in Ids : j # q /\ j # i => row'[j] = row[j]
    PROVE  /\ RowsKept /\ RowsGone(q) /\ UsageKept(q)
           /\ \A j \in Ids : ~Live(j) /\ Live(j)' => j = q /\ row'[q] # None
           /\ \A j \in Ids : Live(j)' => RefsHold(row, row[j])'
<1>1. Live(i)' /\ i # q
  BY Constants DEF Live, Exists, Carries
<1>2. \A j \in Ids : Live(j) => Live(j)'
  BY <1>1 DEF Live, Exists
<1>3. RowsKept
  BY SameCarries DEF RowsKept
<1>4. UsageKept(q)
  BY <1>2, TypeOfFact DEF UsageKept
<1>5. ASSUME NEW j \in Ids, Live(j)'
      PROVE  RefsHold(row, row[j])'
  <2>1. PICK z : z = row'[j]
    OBVIOUS
  <2>2. CASE j = q
    <3>1. z # None /\ z \in Rows /\ RefsHold(row, z)
      BY <1>5, <2>1, <2>2 DEF Live, Exists
    <3>2. \A k \in Refs(z) : Live(k)'
      BY <1>2, <3>1, RefsKept
    <3> QED BY <2>1, <3>2 DEF RefsHold, Live
  <2>3. CASE j # q
    <3>1. Live(j) /\ Carries(j)
      BY <1>5, <2>3, SameCarries DEF Live, Exists
    <3>2. PICK w : w = row[j]
      OBVIOUS
    <3>3. w \in Rows /\ RefsHold(row, w) /\ Refs(z) = Refs(w)
      BY <2>1, <3>1, <3>2, RowFact DEF Carries, Refs, IInv, Schema
    <3>4. \A k \in Refs(w) : Live(k)'
      BY <1>2, <3>3, RefsKept
    <3> QED BY <2>1, <3>3, <3>4 DEF RefsHold, Live
  <2> QED BY <2>2, <2>3
<1>6. \A j \in Ids : ~Live(j) /\ Live(j)' => j = q /\ row'[q] # None
  BY <1>1 DEF Live, Exists
<1> QED BY <1>2, <1>3, <1>4, <1>5, <1>6 DEF RowsGone

(* Only the request's row is inserted.                                     *)
LEMMA InsertEffect ==
    ASSUME IInv, NEW q \in Requests, ~Live(q), NEW y \in Rows, RefsHold(row, y),
           row' = [row EXCEPT ![q] = y]
    PROVE  /\ row' \in [Ids -> Rows \cup {None}] /\ RowsKept /\ RowsGone(q) /\ UsageKept(q)
           /\ row'[q] = y
           /\ \A j \in Ids : ~Live(j) /\ Live(j)' => j = q
           /\ \A j \in Ids : Live(j)' => RefsHold(row, row[j])'
<1>1. /\ row' \in [Ids -> Rows \cup {None}] /\ row'[q] = y /\ q \in Ids
      /\ \A j \in Ids : j # q => row'[j] = row[j]
  BY Constants DEF IInv, TypeOK
<1>2. \A j \in Ids : Live(j) => Live(j)'
  BY <1>1 DEF Live, Exists
<1>3. RowsKept
  BY <1>1, SameCarries DEF RowsKept
<1>4. UsageKept(q)
  BY <1>1, <1>2, TypeOfFact DEF UsageKept
<1>5. ASSUME NEW j \in Ids, Live(j)'
      PROVE  RefsHold(row, row[j])'
  <2>1. PICK z : z = row'[j]
    OBVIOUS
  <2>2. z \in Rows /\ RefsHold(row, z)
    BY <1>1, <1>5, <2>1, RowFact DEF IInv, Schema, Live, Exists
  <2>3. \A k \in Refs(z) : Live(k)'
    BY <1>2, <2>2, RefsKept
  <2> QED BY <2>1, <2>3 DEF RefsHold, Live
<1>6. \A j \in Ids : ~Live(j) /\ Live(j)' => j = q
  BY <1>1 DEF Live, Exists
<1> QED BY <1>1, <1>2, <1>3, <1>4, <1>5, <1>6 DEF RowsGone

(* What a session in progress is.                                          *)
LEMMA OpenSession ==
    ASSUME IInv, NEW q \in Requests, req[q] \notin {Idle} \cup Over
    PROVE  /\ ~Live(q) /\ q \in Ids /\ SessionOK(q) /\ row[q] = None
           /\ Answered \in Over /\ Failed \in Over /\ Lost \in Over
<1>1. ~Live(q) /\ q \in Ids
  BY Constants DEF IInv, RowsSettled, Settled
<1> QED BY <1>1 DEF IInv, SessionsOK, Over, Live, Exists

LEMMA InsertCommitsEffect ==
    ASSUME IInv, NEW q \in Requests, req[q] \notin {Idle} \cup Over, InsertCommits(q)
    PROVE  Effect(q)
<1> USE OpenSession
<1>1. req[q].phase = "insert" /\ Makes(q) /\ req[q].new \in Rows
  BY SessionFact DEF InsertCommits, Makes, IInv
<1>2. CASE UNCHANGED row /\ Ends(q, Failed)
  BY <1>2, QuietEffect, EndsEffect
<1>3. CASE /\ RefsHold(row, req[q].new)
           /\ row' = [row EXCEPT ![q] = req[q].new] /\ Ends(q, Answered)
  <2>1. PICK y \in Rows : y = req[q].new
    BY <1>1
  <2>2. /\ row' \in [Ids -> Rows \cup {None}] /\ RowsKept /\ RowsGone(q) /\ UsageKept(q)
        /\ row'[q] = y
        /\ \A j \in Ids : ~Live(j) /\ Live(j)' => j = q
        /\ \A j \in Ids : Live(j)' => RefsHold(row, row[j])'
    BY <1>3, <2>1, InsertEffect
  <2>3. req'[q] \in Over
    BY <1>3 DEF Ends, IInv, TypeOK
  <2>4. RowsMade(q)
    BY <1>1, <2>1, <2>2, <2>3 DEF RowsMade
  <2> QED BY <1>3, <2>2, <2>4, EndsEffect
<1> QED BY <1>2, <1>3 DEF InsertCommits

LEMMA ProcessUsageEffect ==
    ASSUME IInv, NEW q \in Requests, req[q] \notin {Idle} \cup Over, ProcessUsage(q)
    PROVE  Effect(q)
<1> USE OpenSession
<1>1. req[q].phase = "accepted" /\ Makes(q) /\ req[q].new \in Rows
  BY SessionFact DEF ProcessUsage, Makes, IInv
<1>2. ASSUME NEW how \in Over, UNCHANGED row, Ends(q, how)
      PROVE  Effect(q)
  BY <1>2, QuietEffect, EndsEffect
<1>3. CASE /\ Insertable(row, req[q].new) /\ RefsHold(row, req[q].new)
           /\ row' = [row EXCEPT ![q] = req[q].new] /\ Ends(q, Answered)
  <2>1. PICK y \in Rows : y = req[q].new
    BY <1>1
  <2>2. /\ row' \in [Ids -> Rows \cup {None}] /\ RowsKept /\ RowsGone(q) /\ UsageKept(q)
        /\ row'[q] = y
        /\ \A j \in Ids : ~Live(j) /\ Live(j)' => j = q
        /\ \A j \in Ids : Live(j)' => RefsHold(row, row[j])'
    BY <1>3, <2>1, InsertEffect
  <2>3. req'[q] \in Over
    BY <1>3 DEF Ends, IInv, TypeOK
  <2>4. y.table = "usage_events"
    BY <1>1, <2>1 DEF SessionOK, UsageOK
  <2>5. \A j \in Ids : Live(j) => ~Clash(row[j], y)
    BY <1>3, <2>1, <2>4, TablesFact DEF Insertable, Live, IInv, TypeOK
  <2>6. RowsMade(q)
    BY <1>1, <2>1, <2>2, <2>3, <2>5 DEF RowsMade
  <2> QED BY <1>3, <2>2, <2>6, EndsEffect
<1> QED BY <1>2, <1>3 DEF ProcessUsage

LEMMA UpdateCommitsEffect ==
    ASSUME IInv, NEW q \in Requests, req[q] \notin {Idle} \cup Over, UpdateCommits(q)
    PROVE  Effect(q)
<1> USE OpenSession
<1>t. TypeOK /\ Schema
  BY DEF IInv
<1>1. PICK i : i = req[q].target
  OBVIOUS
<1>2. /\ req[q].phase = "update" /\ ~Makes(q) /\ i \in Ids
      /\ req[q].loaded \in Rows /\ req[q].new \in Rows
  BY <1>1, <1>t, SessionFact DEF UpdateCommits, Makes
<1>3. CASE UNCHANGED row /\ Ends(q, Failed)
  BY <1>3, QuietEffect, EndsEffect
<1>4. CASE /\ Live(i) /\ row' = [row EXCEPT ![i] = Write(row[i], req[q])]
           /\ Ends(q, Answered)
  <2>1. PICK x : x = Write(row[i], req[q])
    OBVIOUS
  <2>2. row[i] \in Rows
    BY <1>2, <1>4, <1>t, RowFact
  <2>3. /\ row[i].table = req[q].loaded.table /\ row[i].table # "usage_events"
        /\ row[i].table = "pricing_rules" => req[q].new.price \in Prices
        /\ req[q].new.name # req[q].loaded.name => req[q].new.renamed
    BY <1>1, <1>2, <1>4 DEF SessionOK, UpdateOK, Knows
  <2>4. /\ x \in Rows /\ x.table = row[i].table /\ x.of = row[i].of
        /\ x.uses = row[i].uses /\ x.line = row[i].line /\ x.revoked = row[i].revoked
        /\ x.renamed = (row[i].renamed \/ req[q].new.renamed)
        /\ x.name \in {row[i].name, req[q].new.name}
        /\ x.name # row[i].name => req[q].new.name # req[q].loaded.name
        /\ x.price \in {row[i].price, req[q].new.price}
    <3> PICK s : s = req[q]
      OBVIOUS
    <3>1. s.new \in Rows
      BY <1>2
    <3>2. PICK n : n = IF s.new.name # s.loaded.name THEN s.new.name ELSE row[i].name
      OBVIOUS
    <3>3. PICK p : p = IF s.new.price # s.loaded.price THEN s.new.price ELSE row[i].price
      OBVIOUS
    <3>4. PICK m : m = (row[i].renamed \/ s.new.renamed)
      OBVIOUS
    <3>5. x = [row[i] EXCEPT !.name = n, !.price = p, !.renamed = m]
      BY <2>1, <3>2, <3>3, <3>4 DEF Write
    <3>6. n \in Names \cup {None} /\ p \in Prices \cup {0, None} /\ m \in BOOLEAN
      BY <2>2, <3>1, <3>2, <3>3, <3>4 DEF Rows
    <3>7. /\ x \in Rows /\ x.table = row[i].table /\ x.of = row[i].of
          /\ x.uses = row[i].uses /\ x.line = row[i].line /\ x.revoked = row[i].revoked
          /\ x.name = n /\ x.price = p /\ x.renamed = m
      BY <2>2, <3>5, <3>6 DEF Rows
    <3> QED BY <3>2, <3>3, <3>4, <3>7
  <2>5. /\ row'[i] = x /\ row' \in [Ids -> Rows \cup {None}]
        /\ \A j \in Ids : j # i => row'[j] = row[j]
    BY <1>2, <1>4, <1>t, <2>1, <2>4 DEF TypeOK
  <2>6. Carries(i)
    BY <1>2, <1>4, <1>t, <2>2, <2>3, <2>4, <2>5 DEF Carries, Schema
  <2>7. q # i /\ row'[q] = None
    BY <1>4, <2>5
  <2>8. /\ RowsKept /\ RowsGone(q) /\ UsageKept(q)
        /\ \A j \in Ids : ~Live(j) /\ Live(j)' => FALSE
        /\ \A j \in Ids : Live(j)' => RefsHold(row, row[j])'
    BY <1>2, <1>4, <2>3, <2>4, <2>5, <2>6, <2>7, WriteEffect
  <2>9. RowsMade(q)
    BY <2>8 DEF RowsMade
  <2> QED BY <1>4, <2>5, <2>8, <2>9, EndsEffect
<1> QED BY <1>1, <1>3, <1>4 DEF UpdateCommits

(* A key is revoked, and perhaps its successor inserted.                   *)
Revoked(x) == [x EXCEPT !.revoked = TRUE]

LEMMA RevokedEffect ==
    ASSUME IInv, NEW q \in Requests, ~Live(q), NEW i \in Ids, Live(i),
           NEW y \in Rows \cup {None}, y # None => RefsHold(row, y),
           row' = [[row EXCEPT ![i] = Revoked(row[i])] EXCEPT ![q] = y]
    PROVE  /\ row' \in [Ids -> Rows \cup {None}] /\ RowsKept /\ RowsGone(q) /\ UsageKept(q)
           /\ row'[q] = y /\ row'[i].revoked
           /\ \A j \in Ids : ~Live(j) /\ Live(j)' => j = q /\ y # None
           /\ \A j \in Ids : Live(j)' => RefsHold(row, row[j])'
<1>t. TypeOK /\ Schema /\ q \in Ids /\ q # i
  BY Constants DEF IInv
<1>1. row[i] \in Rows
  BY <1>t, RowFact
<1>2. PICK x : x = Revoked(row[i])
  OBVIOUS
<1>3. /\ x \in Rows /\ x.revoked = TRUE /\ x.table = row[i].table /\ x.of = row[i].of
      /\ x.uses = row[i].uses /\ x.line = row[i].line /\ x.renamed = row[i].renamed
      /\ x.name = row[i].name /\ x.price = row[i].price
  BY <1>1, <1>2 DEF Rows, Revoked
<1>4. /\ row'[i] = x /\ row'[q] = y /\ row' \in [Ids -> Rows \cup {None}]
      /\ \A j \in Ids : j # q /\ j # i => row'[j] = row[j]
  BY <1>t, <1>2, <1>3 DEF TypeOK
<1>5. Carries(i)
  BY <1>t, <1>3, <1>4 DEF Carries, Schema
<1>6. /\ RowsKept /\ RowsGone(q) /\ UsageKept(q)
      /\ \A j \in Ids : ~Live(j) /\ Live(j)' => j = q /\ row'[q] # None
      /\ \A j \in Ids : Live(j)' => RefsHold(row, row[j])'
  <2> HIDE DEF Live, RowsKept, UsageKept, Carries
  <2>1. /\ row[i].table = "usage_events" => row'[i].price = row[i].price
        /\ row'[q] # None => RefsHold(row, row'[q])
        /\ \A j \in Ids : j # q /\ j # i => row'[j] = row[j]
    BY <1>3, <1>4
  <2> QED BY <1>4, <1>5, <2>1, WriteEffect
<1> QED BY <1>3, <1>4, <1>6

LEMMA RotateCommitsEffect ==
    ASSUME IInv, NEW q \in Requests, req[q] \notin {Idle} \cup Over, RotateCommits(q)
    PROVE  Effect(q)
<1> USE OpenSession
<1>t. TypeOK
  BY DEF IInv
<1>1. PICK i : i = req[q].target
  OBVIOUS
<1>2. req[q].phase = "rotate" /\ Makes(q) /\ i \in Ids /\ req[q].new \in Rows
  BY <1>1, <1>t, SessionFact DEF RotateCommits, Makes
<1>3. CASE UNCHANGED row /\ Ends(q, Failed)
  BY <1>3, QuietEffect, EndsEffect
<1>4. CASE /\ Live(i) /\ RefsHold(row, req[q].new) /\ Ends(q, Answered)
           /\ row' = [row EXCEPT ![i].revoked = TRUE, ![q] = req[q].new]
  <2>1. PICK y \in Rows : y = req[q].new
    BY <1>2
  <2>2. row' = [[row EXCEPT ![i] = Revoked(row[i])] EXCEPT ![q] = y]
    BY <1>2, <1>4, <1>t, <2>1 DEF TypeOK, Revoked
  <2>3. /\ row' \in [Ids -> Rows \cup {None}] /\ RowsKept /\ RowsGone(q) /\ UsageKept(q)
        /\ row'[q] = y /\ row'[i].revoked
        /\ \A j \in Ids : ~Live(j) /\ Live(j)' => j = q
        /\ \A j \in Ids : Live(j)' => RefsHold(row, row[j])'
    <3>1. i \in Ids /\ Live(i) /\ y \in Rows \cup {None} /\ RefsHold(row, y)
      BY <1>2, <1>4, <2>1
    <3> QED BY <2>2, <3>1, RevokedEffect
  <2>4. req'[q] \in Over
    BY <1>4, <1>t DEF Ends, TypeOK
  <2>5. RowsMade(q)
    BY <1>1, <1>2, <2>1, <2>3, <2>4 DEF RowsMade
  <2> QED BY <1>4, <2>3, <2>5, EndsEffect
<1> QED BY <1>1, <1>3, <1>4 DEF RotateCommits

LEMMA RevokeCommitsEffect ==
    ASSUME IInv, NEW q \in Requests, req[q] \notin {Idle} \cup Over, RevokeCommits(q)
    PROVE  Effect(q)
<1> USE OpenSession
<1>t. TypeOK
  BY DEF IInv
<1>1. PICK i : i = req[q].target
  OBVIOUS
<1>2. i \in Ids
  BY <1>1, <1>t, SessionFact DEF RevokeCommits
<1>3. CASE UNCHANGED row /\ Ends(q, Failed)
  BY <1>3, QuietEffect, EndsEffect
<1>4. CASE /\ Live(i) /\ row' = [row EXCEPT ![i].revoked = TRUE] /\ Ends(q, Answered)
  <2>1. row' = [[row EXCEPT ![i] = Revoked(row[i])] EXCEPT ![q] = None]
    BY <1>2, <1>4, <1>t DEF TypeOK, Revoked
  <2>2. /\ row' \in [Ids -> Rows \cup {None}] /\ RowsKept /\ RowsGone(q) /\ UsageKept(q)
        /\ \A j \in Ids : ~Live(j) /\ Live(j)' => FALSE
        /\ \A j \in Ids : Live(j)' => RefsHold(row, row[j])'
    <3>1. i \in Ids /\ Live(i) /\ None \in Rows \cup {None}
      BY <1>2, <1>4
    <3> QED BY <2>1, <3>1, RevokedEffect
  <2>3. RowsMade(q)
    BY <2>2 DEF RowsMade
  <2> QED BY <1>4, <2>2, <2>3, EndsEffect
<1> QED BY <1>1, <1>3, <1>4 DEF RevokeCommits

LEMMA DeleteCommitsEffect ==
    ASSUME IInv, NEW q \in Requests, req[q] \notin {Idle} \cup Over, DeleteCommits(q)
    PROVE  Effect(q)
<1> USE OpenSession
<1>t. TypeOK /\ Schema /\ DOMAIN row = Ids
  BY DEF IInv, TypeOK
<1>1. PICK i : i = req[q].target
  OBVIOUS
<1>2. PICK gone : gone = {i} \cup Cascaded(row, i)
  OBVIOUS
<1>3. ASSUME NEW how \in Over, UNCHANGED row, Ends(q, how)
      PROVE  Effect(q)
  BY <1>3, QuietEffect, EndsEffect
<1>4. CASE /\ MayDelete(req[q]) /\ Ends(q, Answered)
           /\ row' = [j \in Ids |-> IF j \in gone THEN None ELSE row[j]]
  <2>1. /\ Live(i) /\ \A j \in gone : ReferredTo(row, j) \subseteq gone
    BY <1>1, <1>2, <1>4 DEF MayDelete, Deletable
  <2>2. row' \in [Ids -> Rows \cup {None}]
    BY <1>4, <1>t DEF TypeOK
  <2>3. \A j \in Ids : Live(j)' <=> Live(j) /\ j \notin gone
    BY <1>4 DEF Live, Exists
  <2>4. \A j \in Ids : j \notin gone => row'[j] = row[j]
    BY <1>4
  <2>5. \A j \in Ids : j \in gone => row'[j] = None
    BY <1>4
  <2>6. RowsKept
    BY <2>4, <2>5, SameCarries DEF RowsKept
  <2>7. RowsMade(q)
    BY <2>3 DEF RowsMade
  <2>8. \A j \in gone : j \in Ids => row[j].table # "usage_events"
    <3>1. row[i].table # "usage_events" /\ i \in Ids
      BY <1>1, <1>t, <2>1, SessionFact DEF DeleteCommits, SessionOK, DeleteOK, Knows
    <3>2. \A j \in Cascaded(row, i) : row[j].table = "api_keys"
      BY <1>t, TablesFact, RowFact DEF Cascaded, Live
    <3> QED BY <1>2, <3>1, <3>2
  <2>9. UsageKept(q)
    BY <2>3, <2>4, <2>8, TypeOfFact DEF UsageKept
  <2>10. RowsGone(q)
    <3>1. req'[q] = Answered /\ req[q].phase = "delete" /\ req[q].children = {}
      BY <1>4, <1>t DEF DeleteCommits, MayDelete, Ends, TypeOK
    <3> QED BY <1>1, <1>2, <2>3, <3>1 DEF RowsGone
  <2>11. ASSUME NEW j \in Ids, Live(j)'
         PROVE  RefsHold(row, row[j])'
    <3>1. Live(j) /\ j \notin gone /\ row'[j] = row[j]
      BY <2>3, <2>4, <2>11
    <3>2. PICK w : w = row[j]
      OBVIOUS
    <3>3. w \in Rows /\ RefsHold(row, w)
      BY <1>t, <3>1, <3>2, RowFact DEF Schema
    <3>4. ASSUME NEW k \in Refs(w)
          PROVE  Live(k)'
      <4>1. k \in Ids /\ Live(k)
        BY <3>3 DEF Refs, RefsHold, Rows, Live
      <4>2. j \in ReferredTo(row, k)
        BY <1>t, <3>1, <3>2 DEF ReferredTo, Live
      <4>3. k \notin gone
        BY <2>1, <3>1, <4>2
      <4> QED BY <2>3, <4>1, <4>3
    <3> QED BY <3>1, <3>2, <3>4 DEF RefsHold, Live
  <2> QED BY <1>4, <2>2, <2>6, <2>7, <2>9, <2>10, <2>11, EndsEffect
<1> QED BY <1>1, <1>2, <1>3, <1>4 DEF DeleteCommits

LEMMA BillCommitsEffect ==
    ASSUME IInv, NEW q \in Requests, req[q] \notin {Idle} \cup Over, BillCommits(q)
    PROVE  Effect(q)
<1> USE OpenSession
<1>t. TypeOK /\ Schema /\ DOMAIN row = Ids
  BY DEF IInv, TypeOK
<1>1. PICK events : events = req[q].events
  OBVIOUS
<1>p. PICK price : price = req[q].price
  OBVIOUS
<1>2. /\ req[q].phase = "invoice" /\ price \in [Ids -> Prices \cup {0}]
      /\ events \subseteq All("usage_events")
      /\ \A e \in events : price[e] \in offered[e]
  BY <1>1, <1>p, <1>t, SessionFact DEF BillCommits, SessionOK, BillOK, Bills
<1>3. \A e \in events : e \in Ids /\ Live(e) /\ row[e].table = "usage_events" /\ row[e] \in Rows
  BY <1>2, <1>t, TypeOfFact, RowFact
<1>4. row' = [e \in Ids |-> IF e \in events THEN [row[e] EXCEPT !.price = price[e]] ELSE row[e]]
  BY <1>1, <1>p DEF BillCommits
<1>5. ASSUME NEW e \in events
      PROVE  /\ row'[e] \in Rows /\ row'[e].table = row[e].table /\ row'[e].of = row[e].of
             /\ row'[e].uses = row[e].uses /\ row'[e].line = row[e].line
             /\ row'[e].revoked = row[e].revoked /\ row'[e].renamed = row[e].renamed
             /\ row'[e].name = row[e].name /\ row'[e].price = price[e]
  <2>1. PICK p : p = price[e]
    OBVIOUS
  <2>2. p \in Prices \cup {0} /\ row[e] \in Rows
    BY <1>2, <1>3, <1>5, <2>1
  <2>3. row'[e] = [row[e] EXCEPT !.price = p]
    BY <1>3, <1>4, <1>5, <2>1
  <2> QED BY <2>1, <2>2, <2>3 DEF Rows
<1>6. \A e \in Ids : e \notin events => row'[e] = row[e]
  BY <1>4
<1>7. row' \in [Ids -> Rows \cup {None}]
  <2>1. \A e \in Ids : row'[e] \in Rows \cup {None}
    BY <1>5, <1>6, <1>t DEF TypeOK
  <2>2. row' = [e \in Ids |-> row'[e]]
    BY <1>4
  <2> QED BY <2>1, <2>2
<1>8. \A e \in Ids : Live(e)' <=> Live(e)
  BY <1>3, <1>5, <1>6, Constants DEF Live, Exists
<1>9. RowsKept
  <2> SUFFICES ASSUME NEW i \in Ids, Live(i)
               PROVE  Carries(i)
    BY DEF RowsKept
  <2>1. CASE i \in events
    BY <1>3, <1>5, <2>1 DEF Carries
  <2>2. CASE i \notin events
    BY <1>6, <2>2, SameCarries
  <2> QED BY <2>1, <2>2
<1>10. RowsMade(q)
  BY <1>8 DEF RowsMade
<1>11. UsageKept(q)
  BY <1>1, <1>2, <1>5, <1>6, <1>8, TypeOfFact DEF UsageKept
<1>12. ASSUME NEW i \in Ids, Live(i)'
       PROVE  RefsHold(row, row[i])'
  <2>1. PICK w : w = row[i]
    OBVIOUS
  <2>2. PICK z : z = row'[i]
    OBVIOUS
  <2>3. w \in Rows /\ RefsHold(row, w) /\ Refs(z) = Refs(w)
    BY <1>5, <1>6, <1>8, <1>12, <1>t, <2>1, <2>2, RowFact DEF Refs, Schema
  <2>4. \A k \in Refs(w) : Live(k)'
    BY <1>8, <2>3, RefsKept
  <2> QED BY <2>2, <2>3, <2>4 DEF RefsHold, Live
<1>13. RowsGone(q)
  BY <1>8 DEF RowsGone
<1> QED BY <1>7, <1>9, <1>10, <1>11, <1>12, <1>13, EndsEffect DEF BillCommits

LEMMA BillReadsRulesEffect ==
    ASSUME IInv, NEW q \in Requests, req[q] \notin {Idle} \cup Over, BillReadsRules(q)
    PROVE  Effect(q)
<1> USE OpenSession
<1>t. TypeOK /\ Schema /\ UsageBelongs /\ DOMAIN row = Ids
  BY DEF IInv, TypeOK
<1>1. PICK events : events = req[q].events
  OBVIOUS
<1>2. /\ req[q].phase = "price" /\ row' = row /\ events \subseteq Ids
      /\ events \subseteq All("usage_events")
      /\ \A e \in events : row[e].price = None
  BY <1>1, <1>t, SessionFact DEF BillReadsRules, SessionOK, BillOK, Bills
<1>3. \A type : PriceNow(type) \in Prices \cup {0} /\ PriceNow(type)' = PriceNow(type)
  <2> SUFFICES ASSUME NEW type
               PROVE  PriceNow(type) \in Prices \cup {0} /\ PriceNow(type)' = PriceNow(type)
    OBVIOUS
  <2>1. PICK rules : rules = {r \in All("pricing_rules") : row[r].of = type}
    OBVIOUS
  <2>2. PriceNow(type) = IF rules = {} THEN 0 ELSE row[CHOOSE r \in rules : TRUE].price
    BY <2>1 DEF PriceNow
  <2>3. \A r \in rules : row[r].price \in Prices
    BY <1>t, <2>1 DEF Schema, All, Found, Live
  <2>4. rules # {} => (CHOOSE r \in rules : TRUE) \in rules
    OBVIOUS
  <2>5. PriceNow(type)' = PriceNow(type)
    BY <1>2 DEF PriceNow, All, Found
  <2> QED BY <2>2, <2>3, <2>4, <2>5
<1>4. PICK price : price = [e \in Ids |-> IF e \in events THEN UnitPrice(TypeOf(e)) ELSE 0]
  OBVIOUS
<1>5. price \in [Ids -> Prices \cup {0}]
  BY <1>3, <1>4 DEF UnitPrice
<1>6. PICK s : s = [phase |-> "invoice", events |-> events, price |-> price]
  OBVIOUS
<1>7. s \in Sessions /\ s.phase = "invoice" /\ s.events = events /\ s.price = price
  BY <1>2, <1>5, <1>6 DEF Sessions
<1>8. Ends(q, s)
  BY <1>1, <1>4, <1>6 DEF BillReadsRules
<1>9. req'[q] = s /\ req' = [req EXCEPT ![q] = req'[q]] /\ Offers /\ earlier' = earlier
  BY <1>8, <1>t DEF Ends, TypeOK
<1>10. ASSUME NEW e \in events
       PROVE  price[e] \in offered'[e]
  <2>1. e \in Requests /\ e \in Ids /\ Live(e) /\ row[e].table = "usage_events"
    BY <1>2, <1>10, <1>t, TypeOfFact DEF UsageBelongs
  <2>2. row'[e] # None /\ row'[e].table = "usage_events" /\ row'[e].price = None
    BY <1>2, <1>10, <2>1 DEF Live, Exists
  <2>3. offered'[e] = offered[e] \cup {PriceNow(TypeOf(e))'}
    BY <1>9, <2>1, <2>2 DEF Offers
  <2>4. PICK type : type = TypeOf(e)
    OBVIOUS
  <2>5. PriceNow(TypeOf(e))' = PriceNow(type)
    <3>1. TypeOf(e)' = type
      BY <1>2, <2>4 DEF TypeOf
    <3>2. PriceNow(TypeOf(e))' = PriceNow(TypeOf(e))
      BY <1>2 DEF PriceNow, TypeOf, All, Found
    <3> QED BY <2>4, <3>2
  <2>6. price[e] = PriceNow(type)
    BY <1>4, <1>10, <2>1, <2>4 DEF UnitPrice
  <2> QED BY <2>3, <2>5, <2>6
<1>11. Follows(q)
  BY <1>1, <1>2, <1>7, <1>9, <1>10 DEF Follows
<1>12. /\ row' \in [Ids -> Rows \cup {None}]
       /\ RowsKept /\ RowsGone(q) /\ RowsMade(q) /\ UsageKept(q)
       /\ \A i \in Ids : Live(i)' => RefsHold(row, row[i])'
  BY <1>2, QuietEffect
<1> QED BY <1>9, <1>11, <1>12 DEF Effect

LEMMA CommitEffect ==
    ASSUME IInv, NEW q \in Requests, Commit(q)
    PROVE  Effect(q)
BY InsertCommitsEffect, UpdateCommitsEffect, DeleteCommitsEffect, RotateCommitsEffect,
   RevokeCommitsEffect, ProcessUsageEffect, BillReadsRulesEffect, BillCommitsEffect
   DEF Commit

-------------------------------------------------------------------------------
LEMMA StutterStep ==
    ASSUME IInv, UNCHANGED vars
    PROVE  IInv'
<1> USE DEF vars
<1>1. \A i : Live(i)' <=> Live(i)
  BY DEF Live, Exists
<1>2. \A i : Settled(i)' <=> Settled(i)
  BY DEF Settled
<1>3. \A x : Fits(x)' <=> Fits(x)
  BY <1>1, <1>2 DEF Fits
<1>4. \A x : Belongs(x)' <=> Belongs(x)
  BY <1>1, <1>2 DEF Belongs
<1>5. \A i, t : Knows(i, t)' <=> Knows(i, t)
  BY <1>1, <1>2 DEF Knows
<1>6. \A x, y : Excused(x, y)' <=> Excused(x, y)
  BY DEF Excused, Overlapped
<1>7. \A t : All(t)' = All(t)
  BY DEF All, Found
<1>8. ASSUME NEW q \in Requests
      PROVE  SessionOK(q)'
  <2>1. SessionOK(q)
    BY DEF IInv, SessionsOK
  <2>2. BillOK(q)' <=> BillOK(q)
    BY <1>7 DEF BillOK, Bills
  <2>3. /\ InsertOK(q)' <=> InsertOK(q)
        /\ UpdateOK(q)' <=> UpdateOK(q)
        /\ RotateOK(q)' <=> RotateOK(q)
        /\ UsageOK(q)' <=> UsageOK(q)
    BY <1>3, <1>4, <1>5 DEF InsertOK, UpdateOK, RotateOK, UsageOK
  <2>4. DeleteOK(q)' <=> DeleteOK(q)
    BY <1>5, <1>7 DEF DeleteOK
  <2> QED BY <1>5, <2>1, <2>2, <2>3, <2>4 DEF SessionOK, Bills
<1>9. SessionsOK'
  BY <1>8 DEF SessionsOK
<1>10. TypeOK' /\ RowsSettled' /\ UsageBelongs' /\ EarlierOver' /\ InvoicedAtOfferedPrice'
  BY <1>1, <1>2, <1>4, <1>7
     DEF IInv, TypeOK, RowsSettled, UsageBelongs, EarlierOver, InvoicedAtOfferedPrice
<1>11. Schema'
  BY <1>1 DEF IInv, Schema
<1>12. LinesBegun'
  BY <1>1 DEF IInv, LinesBegun, Begun, Makes
<1>13. TwinsOverlap' /\ PendingTwins'
  BY <1>1, <1>6 DEF IInv, TwinsOverlap, PendingTwins, Overlapped
<1> QED BY <1>9, <1>10, <1>11, <1>12, <1>13 DEF IInv

(* Whatever the sessions' order, the state keeps the inductive invariant:  *)
(* what each open request has read, and what that is still worth.          *)
THEOREM Invariance == Spec => []IInv
<1>1. IInv /\ [Next]_vars => IInv'
  BY ArrivalStep, CommitEffect, EffectStep, StutterStep DEF Next
<1> QED BY <1>1, InitIInv, PTL DEF Spec

(* Rows and sessions are as declared, in every state.                      *)
THEOREM TypeCorrect == Spec => []TypeOK
<1>1. IInv => TypeOK
  BY DEF IInv
<1> QED BY <1>1, Invariance, PTL

(* Projects, clients and active keys of one name come from requests that   *)
(* overlapped, or from a change of name: the check before the insertion    *)
(* keeps every other second one out (the services' get_by_name_and_...).   *)
THEOREM TwinsAreOverlapped == Spec => []TwinsOverlap
<1>1. IInv => TwinsOverlap
  BY DEF IInv
<1> QED BY <1>1, Invariance, PTL

(* What recorded usage names is there and belongs together, and its key is *)
(* the one that was sent, whatever is rotated or deleted around it         *)
(* (usage_event_service and process_usage_event).                          *)
THEOREM UsageIsAccountable == Spec => []UsageAccountable
<1>1. ASSUME IInv
      PROVE  UsageAccountable
  <2> SUFFICES ASSUME NEW e \in All("usage_events")
               PROVE  /\ RefsHold(row, row[e])
                      /\ \A i \in row[e].uses :
                           CASE row[i].table = "api_keys" -> row[i].of = row[e].of /\ i \in row[e].line
                             [] row[i].table = "event_types" -> row[i].of = row[row[e].of].of
                             [] OTHER -> i = row[row[e].of].of
    BY DEF UsageAccountable
  <2>1. /\ e \in Ids /\ Live(e) /\ row[e].table = "usage_events"
        /\ row[e] \in Rows /\ row[e].uses \subseteq Ids
    BY <1>1, TypeOfFact, RowFact DEF IInv
  <2>2. RefsHold(row, row[e]) /\ Under(row, row[e]) /\ Belongs(row[e])
    BY <1>1, <2>1 DEF IInv, Schema, UsageBelongs
  <2>3. Live(row[e].of) /\ \A i \in row[e].uses : Live(i)
    BY <2>1, <2>2, TablesFact, Constants DEF Under, RefsHold, Refs, Live
  <2> QED BY <2>2, <2>3 DEF Belongs
<1> QED BY <1>1, Invariance, PTL

(* No invoice has a price its event type did not have between the usage's  *)
(* recording and its billing (usage_billing reads the rules anew).         *)
THEOREM PricesWereOffered == Spec => []InvoicedAtOfferedPrice
<1>1. IInv => InvoicedAtOfferedPrice
  BY DEF IInv
<1> QED BY <1>1, Invariance, PTL

LEMMA ArrivalKeepsRows ==
    ASSUME NEW q \in Requests, Arrival(q)
    PROVE  row' = row
<1>1. \A s : Starts(q, s) => row' = row
  BY DEF Starts
<1>2. Creation(q) => row' = row
  BY <1>1 DEF Creation, RegisterUser, CreateProject, CreateClient, CreateEventType,
              CreateApiKey, Creates
<1>3. Change(q) => row' = row
  BY <1>1 DEF Change, UpdateProject, UpdateClient, UpdateEventType, UpdateApiKey,
              UpdatePricingRule, CreatePricingRule, Updates, Creates
<1>4. Deletion(q) => row' = row
  BY <1>1 DEF Deletion, DeleteProject, DeleteClient, DeleteEventType, DeletePricingRule,
              Deletes
<1>5. Use(q) => row' = row
  BY <1>1 DEF Use, RotateKey, RevokeKey, Ingest, BillProject
<1> QED BY <1>2, <1>3, <1>4, <1>5 DEF Arrival

(* No session that read a key before its revocation writes it back active  *)
(* (api_key_service: update, rotate and revoke each load the key first).   *)
THEOREM RevocationIsFinal == Spec => RevocationSticks
<1>1. IInv /\ [Next]_vars =>
        [\A k \in All("api_keys") :
            row[k].revoked /\ row'[k] # None => row'[k].revoked]_vars
  <2> SUFFICES ASSUME IInv, [Next]_vars
               PROVE  \A k \in All("api_keys") :
                         row[k].revoked /\ row'[k] # None => row'[k].revoked
    OBVIOUS
  <2>1. CASE row' = row
    BY <2>1
  <2>2. CASE row' # row
    <3>1. PICK q \in Requests : Effect(q)
      BY <2>2, ArrivalKeepsRows, CommitEffect DEF Next, vars
    <3>2. \A k \in All("api_keys") : k \in Ids /\ Live(k)
      BY DEF All, Found, Live, IInv, TypeOK
    <3> QED BY <3>1, <3>2 DEF Effect, RowsKept, Carries
  <2> QED BY <2>1, <2>2
<1> QED BY <1>1, Invariance, PTL DEF Spec, RevocationSticks

(* A key that somebody was given before a deletion began is not swept away *)
(* by it: the ORM finds it and the deletion fails (client_service).        *)
THEOREM KeysGoWithDeletions == Spec => KeysOutliveDeletion
<1>1. IInv /\ [Next]_vars =>
        [\A k \in All("api_keys") :
            row'[k] = None =>
               \E q \in Requests : /\ req[q] \notin {Idle} \cup Over /\ req'[q] = Answered
                                   /\ req[q].phase = "delete" /\ k \notin earlier[q]]_vars
  <2> SUFFICES ASSUME IInv, [Next]_vars, NEW k \in All("api_keys"), row'[k] = None
               PROVE  \E q \in Requests :
                         /\ req[q] \notin {Idle} \cup Over /\ req'[q] = Answered
                         /\ req[q].phase = "delete" /\ k \notin earlier[q]
    OBVIOUS
  <2>1. k \in Ids /\ Live(k) /\ row[k].table = "api_keys" /\ ~Live(k)'
    BY DEF All, Found, Live, Exists, IInv, TypeOK
  <2>2. row' # row
    BY <2>1 DEF Live, Exists
  <2>3. PICK q \in Requests : Effect(q)
    BY <2>2, ArrivalKeepsRows, CommitEffect DEF Next, vars
  <2>4. /\ req[q].phase = "delete" /\ req'[q] = Answered /\ req[q].children = {}
        /\ k = req[q].target \/ k \in Cascaded(row, req[q].target)
    BY <2>1, <2>3 DEF Effect, RowsGone
  <2>5. DeleteOK(q)
    BY <2>4 DEF IInv, SessionsOK, SessionOK
  <2>6. k # req[q].target
    BY <2>1, <2>5 DEF DeleteOK, Knows
  <2>7. row[k].of = req[q].target
    BY <2>4, <2>6 DEF Cascaded
  <2> QED BY <2>3, <2>4, <2>5, <2>7 DEF DeleteOK, Effect
<1> QED BY <1>1, Invariance, PTL DEF Spec, KeysOutliveDeletion
===============================================================================
