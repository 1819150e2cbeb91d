----------------------------- MODULE RefreshTokens -----------------------------
(***************************************************************************)
(* The refresh tokens of one user: POST /auth/login, /auth/refresh and     *)
(* /auth/logout, handled at the same time by any number of API threads.    *)
(*                                                                         *)
(* A request is a sequence of statements and commits in a session of its   *)
(* own: SELECT ... FOR UPDATE NOWAIT of a valid token, the comparison with *)
(* the token that was presented, the UPDATE that revokes every token and   *)
(* its commit, the INSERT of the new token and its commit.  The UPDATE has *)
(* the snapshot of its beginning, locks row by row, waits for rows others  *)
(* hold and looks at each again, as PostgreSQL does at READ COMMITTED.     *)
(*                                                                         *)
(* A request makes at most one token, which goes by the request's number;  *)
(* Old are tokens from before, of which several may be valid, since logins *)
(* that overlap leave them so.                                             *)
(***************************************************************************)
EXTENDS Naturals, FiniteSets

CONSTANTS
    Old,           \* tokens that requests before these have made
    MaxRequests,   \* bound: requests
    MaxMishaps,    \* bound: requests that fail and tokens that expire
    None           \* no request, no token

ASSUME RequestsAreNatural == MaxRequests \in Nat
ASSUME NoneIsNoToken == None \notin Old \cup 1 .. MaxRequests
ASSUME OldAreNoRequests == Old \cap (1 .. MaxRequests) = {}

Requests == 1 .. MaxRequests
Tokens == Old \cup Requests

VARIABLES
    token,       \* the committed row of each token
    jwt,         \* the signed string a token is, by the first token it was
    signed,      \* the string signed last
    expired,     \* tokens whose expires_at has passed
    phase,       \* where a request is
    kind,        \* what it asks for
    presented,   \* the string it came with; None: a login
    stored,      \* the token it has selected
    targets,     \* rows its UPDATE has found and not yet come to
    writes,      \* rows its UPDATE has revoked and not yet committed
    holder,      \* the request that has a row locked
    earlier      \* auxiliary: tokens of requests that were over when it began

stringVars  == <<jwt, signed>>
rowVars     == <<token, expired>>
inputVars   == <<kind, presented, earlier>>
sessionVars == <<stored, targets, writes>>
vars == <<stringVars, rowVars, inputVars, sessionVars, phase, holder>>

Over == {"answered", "refused", "failed"}
Phases == Over \cup {"idle", "select", "verify", "revoke", "update", "sign",
                     "create", "created"}

TypeOK ==
    /\ token \in [Tokens -> {"none", "valid", "revoked"}]
    /\ jwt \in [Tokens -> Tokens \cup {None}]
    /\ signed \in Tokens \cup {None}
    /\ expired \in SUBSET Tokens
    /\ phase \in [Requests -> Phases]
    /\ kind \in [Requests -> {"login", "refresh", "logout", None}]
    /\ presented \in [Requests -> Tokens \cup {None}]
    /\ stored \in [Requests -> Tokens \cup {None}]
    /\ targets \in [Requests -> SUBSET Tokens]
    /\ writes \in [Requests -> SUBSET Tokens]
    /\ holder \in [Tokens -> Requests \cup {None}]
    /\ earlier \in [Requests -> SUBSET Tokens]

Init ==
    /\ \E S \in SUBSET Old :
          token = [t \in Tokens |-> IF t \in S THEN "valid"
                                   ELSE IF t \in Old THEN "revoked" ELSE "none"]
    /\ jwt = [t \in Tokens |-> IF t \in Old THEN t ELSE None]
    /\ signed = None
    /\ expired = {}
    /\ phase = [q \in Requests |-> "idle"]
    /\ kind = [q \in Requests |-> None]
    /\ presented = [q \in Requests |-> None]
    /\ stored = [q \in Requests |-> None]
    /\ targets = [q \in Requests |-> {}]
    /\ writes = [q \in Requests |-> {}]
    /\ holder = [t \in Tokens |-> None]
    /\ earlier = [q \in Requests |-> {}]

Enters(q, p) == phase' = [phase EXCEPT ![q] = p]

(* The end of a transaction: it lets go of its rows, and nothing of what   *)
(* the request came with or has read is used afterwards.                   *)
Leaves(q, p) ==
    /\ Enters(q, p)
    /\ kind' = [kind EXCEPT ![q] = None]
    /\ presented' = [presented EXCEPT ![q] = None]
    /\ stored' = [stored EXCEPT ![q] = None]
    /\ targets' = [targets EXCEPT ![q] = {}]
    /\ writes' = [writes EXCEPT ![q] = {}]
    /\ holder' = [t \in Tokens |-> IF holder[t] = q THEN None ELSE holder[t]]
    /\ UNCHANGED <<stringVars, earlier>>

-------------------------------------------------------------------------------
(* A request arrives.  Credentials or a token that do not check out change *)
(* nothing and are no step: a wrong password, a token that is not one of   *)
(* ours, or one that decode_token finds expired.                           *)

Begins(q, k, j, p) ==
    /\ phase[q] = "idle"
    /\ \A r \in Requests : r < q => phase[r] # "idle"
    /\ kind' = [kind EXCEPT ![q] = k]
    /\ presented' = [presented EXCEPT ![q] = j]
    /\ earlier' = [earlier EXCEPT ![q] = Old \cup {r \in Requests : phase[r] \in Over}]
    /\ Enters(q, p)
    /\ UNCHANGED <<stringVars, rowVars, sessionVars, holder>>

Login(q) == Begins(q, "login", None, "revoke")

(* Only a token that was answered is in somebody's hands.                  *)
Presentable(t) ==
    /\ t \in Requests => phase[t] = "answered"
    /\ token[t] # "none" /\ t \notin expired

Refresh(q, t) == Presentable(t) /\ Begins(q, "refresh", jwt[t], "select")
Logout(q, t)  == Presentable(t) /\ Begins(q, "logout", jwt[t], "select")

-------------------------------------------------------------------------------
(* RefreshTokenRepository.get_valid_token.                                 *)

Valid(t) == token[t] = "valid" /\ t \notin expired

(* No row: 401.                                                            *)
FindsNoToken(q) ==
    /\ phase[q] = "select"
    /\ \A t \in Tokens : ~Valid(t)
    /\ Leaves(q, "refused")
    /\ UNCHANGED rowVars

(* A row that another session has locked: 429 instead of waiting.          *)
FindsTokenLocked(q) ==
    /\ phase[q] = "select"
    /\ \E t \in Tokens : Valid(t) /\ holder[t] # None
    /\ Leaves(q, "refused")
    /\ UNCHANGED rowVars

(* Mutant: a SELECT without FOR UPDATE.                                    *)
SelectsTokenUnlocked(q) ==
    /\ phase[q] = "select"
    /\ \E t \in Tokens :
          /\ Valid(t)
          /\ stored' = [stored EXCEPT ![q] = t]
    /\ Enters(q, "verify")
    /\ UNCHANGED <<stringVars, rowVars, inputVars, targets, writes, holder>>

(* Otherwise a row, now locked; with several, any of them, since nothing   *)
(* orders the query.                                                       *)
SelectsToken(q) ==
    /\ phase[q] = "select"
    /\ \E t \in Tokens :
          /\ Valid(t) /\ holder[t] = None
          /\ stored' = [stored EXCEPT ![q] = t]
          /\ holder' = [holder EXCEPT ![t] = q]
    /\ Enters(q, "verify")
    /\ UNCHANGED <<stringVars, rowVars, inputVars, targets, writes>>

(* verify_token_hash compares strings: 401, or on with the session.        *)
Matches(q) == jwt[stored[q]] = presented[q]

(* Mutant: the session of a refused token is not closed.                   *)
VerifiesAndKeeps(q) ==
    /\ phase[q] = "verify"
    /\ Enters(q, IF Matches(q) THEN "revoke" ELSE "refused")
    /\ UNCHANGED <<stringVars, rowVars, inputVars, sessionVars, holder>>

Verifies(q) ==
    /\ phase[q] = "verify"
    /\ IF Matches(q)
       THEN Enters(q, "revoke")
            /\ UNCHANGED <<stringVars, inputVars, sessionVars, holder>>
       ELSE Leaves(q, "refused")
    /\ UNCHANGED rowVars

-------------------------------------------------------------------------------
(* RefreshTokenRepository.revoke_all_for_user: one UPDATE and its commit.  *)

RevocablePresented(q) == {presented[q]}     \* mutant: only the token in hand
Revocable(q) == {t \in Tokens : token[t] = "valid"}

UpdateBegins(q) ==
    /\ phase[q] = "revoke"
    /\ targets' = [targets EXCEPT ![q] = Revocable(q)]
    /\ Enters(q, "update")
    /\ UNCHANGED <<stringVars, rowVars, inputVars, stored, writes, holder>>

(* Mutant: rows that others hold are skipped.                              *)
UpdatesRowSkipping(q, t) ==
    /\ phase[q] = "update"
    /\ t \in targets[q]
    /\ targets' = [targets EXCEPT ![q] = @ \ {t}]
    /\ IF token[t] = "valid" /\ holder[t] \in {None, q}
       THEN /\ writes' = [writes EXCEPT ![q] = @ \cup {t}]
            /\ holder' = [holder EXCEPT ![t] = q]
       ELSE UNCHANGED <<writes, holder>>
    /\ UNCHANGED <<stringVars, rowVars, inputVars, stored, phase>>

(* The next row, once nobody else holds it.  One that was revoked in the   *)
(* meantime no longer matches and is passed over.                          *)
UpdatesRow(q, t) ==
    /\ phase[q] = "update"
    /\ t \in targets[q]
    /\ holder[t] \in {None, q}
    /\ targets' = [targets EXCEPT ![q] = @ \ {t}]
    /\ IF token[t] = "valid"
       THEN /\ writes' = [writes EXCEPT ![q] = @ \cup {t}]
            /\ holder' = [holder EXCEPT ![t] = q]
       ELSE UNCHANGED <<writes, holder>>
    /\ UNCHANGED <<stringVars, rowVars, inputVars, stored, phase>>

(* A logout is done now; a login and a refresh go on, holding nothing.     *)
RevokeCommits(q) ==
    /\ phase[q] = "update"
    /\ targets[q] = {}
    /\ token' = [t \in Tokens |-> IF t \in writes[q] THEN "revoked" ELSE token[t]]
    /\ Leaves(q, IF kind[q] = "logout" THEN "answered" ELSE "sign")
    /\ UNCHANGED expired

-------------------------------------------------------------------------------
(* create_refresh_token signs the user, the type and the expiry in whole   *)
(* seconds and nothing else: what is signed in the same second as the last *)
(* is the same string.                                                     *)
Signs(q) ==
    /\ phase[q] = "sign"
    /\ \E j \in {q, signed} \ {None} :
          /\ signed' = j
          /\ jwt' = [jwt EXCEPT ![q] = j]
    /\ Enters(q, "create")
    /\ UNCHANGED <<rowVars, inputVars, sessionVars, holder>>

(* RefreshTokenRepository.create, and the answer that hands the token out. *)
Creates(q) ==
    /\ phase[q] = "create"
    /\ token' = [token EXCEPT ![q] = "valid"]
    /\ Enters(q, "created")
    /\ UNCHANGED <<stringVars, expired, inputVars, sessionVars, holder>>

Answers(q) ==
    /\ phase[q] = "created"
    /\ Enters(q, "answered")
    /\ UNCHANGED <<stringVars, rowVars, inputVars, sessionVars, holder>>

-------------------------------------------------------------------------------
(* An error or the death of the process, anywhere: what the session has    *)
(* not committed is undone, what it has committed stays.                   *)
Mishaps ==
    Cardinality({r \in Requests : phase[r] = "failed"}) + Cardinality(expired)

Fails(q) ==
    /\ phase[q] \notin Over \cup {"idle"}
    /\ Mishaps < MaxMishaps
    /\ Leaves(q, "failed")
    /\ UNCHANGED rowVars

(* PostgreSQL finds sessions that wait for each other and fails one.       *)
Blocked(q, S) ==
    /\ phase[q] = "update" /\ targets[q] # {}
    /\ \A t \in targets[q] : holder[t] \in S \ {q}

DeadlockBreaks(q) ==
    /\ \E S \in SUBSET Requests : q \in S /\ \A r \in S : Blocked(r, S)
    /\ Leaves(q, "failed")
    /\ UNCHANGED rowVars

(* REFRESH_TOKEN_EXPIRE_DAYS pass.                                         *)
Expires(t) ==
    /\ Valid(t)
    /\ Mishaps < MaxMishaps
    /\ expired' = expired \cup {s \in Tokens : jwt[s] = jwt[t]}
    /\ UNCHANGED <<stringVars, token, inputVars, sessionVars, phase, holder>>

-------------------------------------------------------------------------------
Step(q) ==
    \/ FindsNoToken(q) \/ FindsTokenLocked(q) \/ SelectsToken(q)
    \/ Verifies(q)
    \/ UpdateBegins(q) \/ RevokeCommits(q)
    \/ \E t \in Tokens : UpdatesRow(q, t)
    \/ Signs(q) \/ Creates(q) \/ Answers(q)
    \/ DeadlockBreaks(q)

Next ==
    \/ \E q \in Requests :
          \/ Login(q)
          \/ \E t \in Tokens : Refresh(q, t) \/ Logout(q, t)
          \/ Step(q)
          \/ Fails(q)
    \/ \E t \in Tokens : Expires(t)

Spec == Init /\ [][Next]_vars

(* A thread that serves a request goes on with it; the database ends       *)
(* deadlocks.  No request need arrive or fail, and no token expire.        *)
Fairness == \A q \in Requests : WF_vars(Step(q))

FairSpec == Spec /\ Fairness

-------------------------------------------------------------------------------
(* A stored token is spent once: a refresh or a logout goes through by     *)
(* revoking the very row it was let in with, so that of all that present   *)
(* it at most one does.  The row lock has to last from the SELECT to the   *)
(* commit, whatever logins and other tokens do to the rows meanwhile.      *)
TokenSpentOnce ==
    [][\A q \in Requests :
          phase[q] = "update" /\ phase'[q] \in {"sign", "answered"} /\ stored[q] # None
             => token[stored[q]] = "valid" /\ token'[stored[q]] = "revoked"]_vars

(* Two sessions are valid at once only if the requests that opened them    *)
(* overlapped: a login or a refresh that begins after others are over ends *)
(* their sessions, also when rows change under its UPDATE.                 *)
SessionsOverlap ==
    \A q \in Requests, t \in Tokens :
        token[q] = "valid" /\ token[t] = "valid" => t \notin earlier[q]

(* The documented model: one active session.  Two requests that overlap    *)
(* both revoke before either of them creates.                              *)
SingleSession ==
    \A s, t \in Tokens : Valid(s) /\ Valid(t) => s = t

(* A new token pair: what a request signs is not what somebody has had     *)
(* before.  Within one second it is.                                       *)
NewTokenIsNew ==
    \A s, t \in Tokens : token[s] # "none" /\ token[t] # "none" /\ jwt[s] = jwt[t] => s = t

(* Every request is answered, refused or fails: no set of sessions waits   *)
(* for each other, or for a row whose holder is gone, for ever.            *)
EveryRequestEnds ==
    \A q \in Requests : phase[q] # "idle" ~> phase[q] \in Over
===============================================================================
