-------------------------- MODULE RefreshTokensProof --------------------------
(***************************************************************************)
(* Theorems about RefreshTokens, for any number of requests and of tokens  *)
(* from before.                                                            *)
(***************************************************************************)
EXTENDS RefreshTokens, TLAPS

-------------------------------------------------------------------------------
(* The inductive invariant.                                                *)

(* A row appears when its request creates it.                              *)
RowsAppear ==
    \A q \in Requests :
        token[q] # "none" => phase[q] \in {"created", "answered", "failed"}

(* Rows a session has selected or revoked are locked by it and valid.      *)
RowsHeld ==
    /\ \A q \in Requests :
          phase[q] = "verify" =>
             /\ stored[q] \in Tokens
             /\ holder[stored[q]] = q
             /\ token[stored[q]] = "valid"
    /\ \A q \in Requests : phase[q] # "update" => writes[q] = {}
    /\ \A q \in Requests : \A t \in writes[q] : holder[t] = q /\ token[t] = "valid"

(* From the comparison to the commit a request keeps the valid row it was  *)
(* let in with, and its UPDATE does not miss it.                           *)
TokenHeld ==
    \A q \in Requests :
        /\ phase[q] = "idle" => stored[q] = None
        /\ phase[q] \in {"revoke", "update"} /\ stored[q] # None =>
              holder[stored[q]] = q /\ token[stored[q]] = "valid"
        /\ phase[q] = "update" /\ stored[q] # None =>
              stored[q] \in targets[q] \cup writes[q]

(* A valid token of an earlier request is in the way of the UPDATE, and    *)
(* there is none once it has committed.                                    *)
EarlierEnds ==
    /\ \A q \in Requests : \A t \in earlier[q] :
          t \in Requests => phase[t] \in Over
    /\ \A q \in Requests : phase[q] = "update" =>
          \A t \in earlier[q] : token[t] = "valid" => t \in targets[q] \cup writes[q]
    /\ \A q \in Requests : phase[q] \in {"sign", "create"} \/ token[q] # "none" =>
          \A t \in earlier[q] : token[t] # "valid"

IInv == TypeOK /\ RowsAppear /\ RowsHeld /\ TokenHeld /\ EarlierEnds

-------------------------------------------------------------------------------
(* None is neither a token nor a request, and every request may make a     *)
(* token.                                                                  *)
LEMMA NoneFact == None \notin Tokens /\ None \notin Requests /\ Requests \subseteq Tokens
BY NoneIsNoToken DEF Tokens, Requests

-------------------------------------------------------------------------------
(* Types.                                                                  *)

(* The end of a transaction keeps the types of all it writes.              *)
LEMMA LeavesType ==
    ASSUME TypeOK, NEW q \in Requests, NEW p \in Phases, Leaves(q, p),
           token' \in [Tokens -> {"none", "valid", "revoked"}], expired' = expired
    PROVE  TypeOK'
BY NoneFact DEF TypeOK, Leaves, Enters, stringVars

(* Every step keeps the types.                                             *)
LEMMA TypeStep == TypeOK /\ [Next]_vars => TypeOK'
<1> SUFFICES ASSUME TypeOK, [Next]_vars
             PROVE  TypeOK'
  OBVIOUS
<1> USE NoneFact DEF TypeOK, Phases, Over, Enters
<1>1. ASSUME NEW q \in Requests, NEW t \in Tokens,
             Login(q) \/ Refresh(q, t) \/ Logout(q, t)
      PROVE  TypeOK'
  <2>1. PICK k \in {"login", "refresh", "logout"}, j \in Tokens \cup {None},
             p \in {"revoke", "select"} : Begins(q, k, j, p)
    BY <1>1 DEF Login, Refresh, Logout
  <2>2. Old \cup {r \in Requests : phase[r] \in Over} \subseteq Tokens
    BY DEF Tokens
  <2> QED
    BY <2>1, <2>2 DEF Begins, stringVars, rowVars, sessionVars
<1>2. ASSUME NEW q \in Requests, Answers(q) \/ Creates(q)
      PROVE  TypeOK'
  BY <1>2 DEF Answers, Creates, stringVars, rowVars, sessionVars, inputVars
<1>3. ASSUME NEW q \in Requests, SelectsToken(q)
      PROVE  TypeOK'
  BY <1>3 DEF SelectsToken, stringVars, rowVars, inputVars
<1>4. ASSUME NEW q \in Requests,
             \/ FindsNoToken(q) \/ FindsTokenLocked(q)
             \/ Fails(q) \/ DeadlockBreaks(q)
      PROVE  TypeOK'
  <2>1. \E p \in {"refused", "failed"} : Leaves(q, p)
    BY <1>4 DEF FindsNoToken, FindsTokenLocked, Fails, DeadlockBreaks
  <2>2. UNCHANGED rowVars
    BY <1>4 DEF FindsNoToken, FindsTokenLocked, Fails, DeadlockBreaks
  <2> QED
    BY <2>1, <2>2, LeavesType DEF rowVars
<1>5. ASSUME NEW q \in Requests, Verifies(q)
      PROVE  TypeOK'
  <2>1. CASE Matches(q)
    BY <1>5, <2>1 DEF Verifies, stringVars, rowVars, inputVars, sessionVars
  <2>2. CASE ~Matches(q)
    BY <1>5, <2>2, LeavesType DEF Verifies, rowVars
  <2> QED
    BY <2>1, <2>2
<1>6. ASSUME NEW q \in Requests, UpdateBegins(q)
      PROVE  TypeOK'
  BY <1>6 DEF UpdateBegins, Revocable, stringVars, rowVars, inputVars
<1>7. ASSUME NEW q \in Requests, NEW t \in Tokens, UpdatesRow(q, t)
      PROVE  TypeOK'
  BY <1>7 DEF UpdatesRow, stringVars, rowVars, inputVars
<1>8. ASSUME NEW q \in Requests, RevokeCommits(q)
      PROVE  TypeOK'
  BY <1>8, LeavesType DEF RevokeCommits
<1>9. ASSUME NEW q \in Requests, Signs(q)
      PROVE  TypeOK'
  BY <1>9 DEF Signs, rowVars, sessionVars, inputVars
<1>10. CASE UNCHANGED vars \/ \E t \in Tokens : Expires(t)
  BY <1>10 DEF vars, Expires, stringVars, rowVars, sessionVars, inputVars
<1> QED
  BY <1>1, <1>2, <1>3, <1>4, <1>5, <1>6, <1>7, <1>8, <1>9, <1>10 DEF Next, Step
-------------------------------------------------------------------------------
(* Kinds of steps.                                                         *)

(* A request that begins touches no row, no lock and no other request.     *)
LEMMA BeginSteps ==
    ASSUME TypeOK, NEW q \in Requests, NEW t \in Tokens,
           Login(q) \/ Refresh(q, t) \/ Logout(q, t)
    PROVE  /\ UNCHANGED <<token, holder, sessionVars>>
           /\ phase[q] = "idle"
           /\ \E p \in {"revoke", "select"} : phase' = [phase EXCEPT ![q] = p]
           /\ earlier' = [earlier EXCEPT ![q] = Old \cup {r \in Requests : phase[r] \in Over}]
BY DEF Login, Refresh, Logout, Begins, Enters, rowVars

(* A request that ends without a commit gives up its own rows and writes;  *)
(* it is refused only before its UPDATE.                                   *)
EndsUncommitted(q) ==
    /\ \/ phase[q] \in {"select", "verify"} /\ Leaves(q, "refused")
       \/ phase[q] \notin Over \cup {"idle"} /\ Leaves(q, "failed")
    /\ UNCHANGED token

(* The actions that end so.                                                *)
LEMMA EndSteps ==
    ASSUME NEW q \in Requests,
           \/ FindsNoToken(q) \/ FindsTokenLocked(q) \/ Fails(q) \/ DeadlockBreaks(q)
           \/ Verifies(q) /\ ~Matches(q)
    PROVE  EndsUncommitted(q)
<1>1. CASE FindsNoToken(q) \/ FindsTokenLocked(q) \/ (Verifies(q) /\ ~Matches(q))
  BY <1>1 DEF FindsNoToken, FindsTokenLocked, Verifies, EndsUncommitted, Over, rowVars
<1>2. CASE Fails(q)
  BY <1>2 DEF Fails, EndsUncommitted, Over, rowVars
<1>3. CASE DeadlockBreaks(q)
  <2>1. phase[q] = "update"
    BY <1>3 DEF DeadlockBreaks, Blocked
  <2> QED
    BY <1>3, <2>1 DEF DeadlockBreaks, EndsUncommitted, Over, rowVars
<1> QED
  BY <1>1, <1>2, <1>3

(* Comparing successfully, signing and answering only move the request on. *)
MovesOn(q) ==
    /\ \/ phase[q] = "verify" /\ Enters(q, "revoke")
       \/ phase[q] = "sign" /\ Enters(q, "create")
       \/ phase[q] = "created" /\ Enters(q, "answered")
    /\ UNCHANGED <<token, holder, inputVars, sessionVars>>

(* The actions that do so.                                                 *)
LEMMA MoveSteps ==
    ASSUME NEW q \in Requests,
           (Verifies(q) /\ Matches(q)) \/ Signs(q) \/ Answers(q)
    PROVE  MovesOn(q)
BY DEF Verifies, Signs, Answers, MovesOn, rowVars

(* Expiry and the clock touch neither rows nor requests.                   *)
LEMMA IdleSteps ==
    ASSUME UNCHANGED vars \/ \E t \in Tokens : Expires(t)
    PROVE  UNCHANGED <<token, phase, holder, sessionVars, inputVars>>
BY DEF vars, Expires, rowVars

-------------------------------------------------------------------------------
(* Rows appear with their request.                                         *)

(* Every step keeps RowsAppear.                                            *)
LEMMA RowsAppearStep ==
    ASSUME TypeOK, RowsAppear, RowsHeld, [Next]_vars
    PROVE  RowsAppear'
<1> USE NoneFact DEF TypeOK, RowsAppear, Over, Enters
<1>1. ASSUME NEW q \in Requests, NEW t \in Tokens,
             Login(q) \/ Refresh(q, t) \/ Logout(q, t)
      PROVE  RowsAppear'
  BY <1>1, BeginSteps
<1>2. ASSUME NEW q \in Requests, EndsUncommitted(q)
      PROVE  RowsAppear'
  BY <1>2 DEF EndsUncommitted, Leaves
<1>3. ASSUME NEW q \in Requests, MovesOn(q)
      PROVE  RowsAppear'
  BY <1>3 DEF MovesOn
<1>4. ASSUME NEW q \in Requests,
             \/ SelectsToken(q) \/ UpdateBegins(q)
             \/ \E t \in Tokens : UpdatesRow(q, t)
      PROVE  RowsAppear'
  BY <1>4 DEF SelectsToken, UpdateBegins, UpdatesRow, rowVars
<1>5. ASSUME NEW q \in Requests, RevokeCommits(q)
      PROVE  RowsAppear'
  BY <1>5 DEF RevokeCommits, Leaves, RowsHeld
<1>6. ASSUME NEW q \in Requests, Creates(q)
      PROVE  RowsAppear'
  BY <1>6 DEF Creates
<1>7. CASE UNCHANGED vars \/ \E t \in Tokens : Expires(t)
  BY <1>7, IdleSteps
<1> QED
  BY <1>1, <1>2, <1>3, <1>4, <1>5, <1>6, <1>7, EndSteps, MoveSteps DEF Next, Step

-------------------------------------------------------------------------------
(* Locks.                                                                  *)

(* Every step keeps selected and revoked rows locked and valid: nobody     *)
(* else takes the lock or writes the row.                                  *)
LEMMA RowsHeldStep ==
    ASSUME TypeOK, RowsAppear, RowsHeld, [Next]_vars
    PROVE  RowsHeld'
<1> USE NoneFact DEF TypeOK, RowsHeld, Over, Enters
<1>1. ASSUME NEW q \in Requests, NEW t \in Tokens,
             Login(q) \/ Refresh(q, t) \/ Logout(q, t)
      PROVE  RowsHeld'
  BY <1>1, BeginSteps DEF sessionVars
<1>2. ASSUME NEW q \in Requests, EndsUncommitted(q)
      PROVE  RowsHeld'
  BY <1>2 DEF EndsUncommitted, Leaves
<1>3. ASSUME NEW q \in Requests, MovesOn(q)
      PROVE  RowsHeld'
  BY <1>3 DEF MovesOn, sessionVars
<1>4. ASSUME NEW q \in Requests, SelectsToken(q)
      PROVE  RowsHeld'
  BY <1>4 DEF SelectsToken, Valid, rowVars
<1>5. ASSUME NEW q \in Requests, UpdateBegins(q)
      PROVE  RowsHeld'
  BY <1>5 DEF UpdateBegins, rowVars
<1>6. ASSUME NEW q \in Requests, NEW t \in Tokens, UpdatesRow(q, t)
      PROVE  RowsHeld'
  BY <1>6 DEF UpdatesRow, rowVars
<1>7. ASSUME NEW q \in Requests, RevokeCommits(q)
      PROVE  RowsHeld'
  BY <1>7 DEF RevokeCommits, Leaves
<1>8. ASSUME NEW q \in Requests, Creates(q)
      PROVE  RowsHeld'
  BY <1>8 DEF Creates, sessionVars
<1>9. CASE UNCHANGED vars \/ \E t \in Tokens : Expires(t)
  BY <1>9, IdleSteps DEF sessionVars
<1> QED
  BY <1>1, <1>2, <1>3, <1>4, <1>5, <1>6, <1>7, <1>8, <1>9, EndSteps, MoveSteps
     DEF Next, Step

(* Every step keeps the row a request was let in with in its hands.        *)
LEMMA TokenHeldStep ==
    ASSUME TypeOK, RowsAppear, RowsHeld, TokenHeld, [Next]_vars
    PROVE  TokenHeld'
<1> USE NoneFact DEF TypeOK, TokenHeld, Over, Enters
<1>1. ASSUME NEW q \in Requests, NEW t \in Tokens,
             Login(q) \/ Refresh(q, t) \/ Logout(q, t)
      PROVE  TokenHeld'
  BY <1>1, BeginSteps DEF sessionVars
<1>2. ASSUME NEW q \in Requests, EndsUncommitted(q)
      PROVE  TokenHeld'
  BY <1>2 DEF EndsUncommitted, Leaves
<1>3. ASSUME NEW q \in Requests, MovesOn(q)
      PROVE  TokenHeld'
  BY <1>3 DEF MovesOn, RowsHeld, sessionVars
<1>4. ASSUME NEW q \in Requests, SelectsToken(q)
      PROVE  TokenHeld'
  BY <1>4 DEF SelectsToken, rowVars
<1>5. ASSUME NEW q \in Requests, UpdateBegins(q)
      PROVE  TokenHeld'
  BY <1>5 DEF UpdateBegins, Revocable, rowVars
<1>6. ASSUME NEW q \in Requests, NEW t \in Tokens, UpdatesRow(q, t)
      PROVE  TokenHeld'
  BY <1>6 DEF UpdatesRow, rowVars
<1>7. ASSUME NEW q \in Requests, RevokeCommits(q)
      PROVE  TokenHeld'
  BY <1>7 DEF RevokeCommits, Leaves, RowsHeld
<1>8. ASSUME NEW q \in Requests, Creates(q)
      PROVE  TokenHeld'
  BY <1>8 DEF Creates, RowsAppear, sessionVars
<1>9. CASE UNCHANGED vars \/ \E t \in Tokens : Expires(t)
  BY <1>9, IdleSteps DEF sessionVars
<1> QED
  BY <1>1, <1>2, <1>3, <1>4, <1>5, <1>6, <1>7, <1>8, <1>9, EndSteps, MoveSteps
     DEF Next, Step

-------------------------------------------------------------------------------
(* Earlier sessions.                                                       *)

(* Every step keeps earlier tokens in the way of the UPDATE or revoked.    *)
LEMMA EarlierEndsStep ==
    ASSUME TypeOK, RowsAppear, RowsHeld, EarlierEnds, [Next]_vars
    PROVE  EarlierEnds'
<1> USE NoneFact DEF TypeOK, EarlierEnds, Over, Enters
<1>1. ASSUME NEW q \in Requests, NEW t \in Tokens,
             Login(q) \/ Refresh(q, t) \/ Logout(q, t)
      PROVE  EarlierEnds'
  <2>1. token[q] = "none"
    BY <1>1, BeginSteps DEF RowsAppear
  <2>2. \A s \in Old : s \notin Requests
    BY OldAreNoRequests DEF Requests
  <2> QED
    BY <1>1, <2>1, <2>2, BeginSteps DEF sessionVars
<1>2. ASSUME NEW q \in Requests, EndsUncommitted(q)
      PROVE  EarlierEnds'
  BY <1>2 DEF EndsUncommitted, Leaves
<1>3. ASSUME NEW q \in Requests, MovesOn(q)
      PROVE  EarlierEnds'
  BY <1>3 DEF MovesOn, sessionVars, inputVars
<1>4. ASSUME NEW q \in Requests, SelectsToken(q)
      PROVE  EarlierEnds'
  BY <1>4 DEF SelectsToken, rowVars, inputVars
<1>5. ASSUME NEW q \in Requests, UpdateBegins(q)
      PROVE  EarlierEnds'
  BY <1>5 DEF UpdateBegins, Revocable, rowVars, inputVars
<1>6. ASSUME NEW q \in Requests, NEW t \in Tokens, UpdatesRow(q, t)
      PROVE  EarlierEnds'
  BY <1>6 DEF UpdatesRow, rowVars, inputVars
<1>7. ASSUME NEW q \in Requests, RevokeCommits(q)
      PROVE  EarlierEnds'
  BY <1>7 DEF RevokeCommits, Leaves, RowsHeld
<1>8. ASSUME NEW q \in Requests, Creates(q)
      PROVE  EarlierEnds'
  BY <1>8 DEF Creates, sessionVars, inputVars
<1>9. CASE UNCHANGED vars \/ \E t \in Tokens : Expires(t)
  BY <1>9, IdleSteps DEF sessionVars, inputVars
<1> QED
  BY <1>1, <1>2, <1>3, <1>4, <1>5, <1>6, <1>7, <1>8, <1>9, EndSteps, MoveSteps
     DEF Next, Step

-------------------------------------------------------------------------------
(* The theorems.                                                           *)

(* Initially nothing is under way.                                         *)
LEMMA Initially == Init => IInv
<1> SUFFICES ASSUME Init
             PROVE  IInv
  OBVIOUS
<1> USE NoneFact DEF Init
<1>1. PICK S \in SUBSET Old :
         token = [t \in Tokens |-> IF t \in S THEN "valid"
                                   ELSE IF t \in Old THEN "revoked" ELSE "none"]
  OBVIOUS
<1>2. TypeOK
  BY <1>1 DEF TypeOK, Phases, Over, Tokens
<1>3. \A q \in Requests : token[q] = "none"
  BY <1>1, OldAreNoRequests DEF Requests, Tokens
<1> QED
  BY <1>2, <1>3 DEF IInv, RowsAppear, RowsHeld, TokenHeld, EarlierEnds

(* The inductive invariant holds in every reachable state.                 *)
THEOREM Invariance == Spec => []IInv
<1>1. IInv /\ [Next]_vars => IInv'
  BY TypeStep, RowsAppearStep, RowsHeldStep, TokenHeldStep, EarlierEndsStep DEF IInv
<1> QED
  BY <1>1, Initially, PTL DEF Spec

(* The variables keep their types, whatever the number of requests.        *)
THEOREM TypeCorrect == Spec => []TypeOK
<1>1. IInv => TypeOK
  BY DEF IInv
<1> QED
  BY <1>1, Invariance, PTL

(* Two valid tokens come from requests that overlapped                     *)
(* (AuthService.login and refresh).                                        *)
THEOREM OverlappingSessions == Spec => []SessionsOverlap
<1>1. IInv => SessionsOverlap
  BY DEF IInv, EarlierEnds, SessionsOverlap
<1> QED
  BY <1>1, Invariance, PTL

(* A request that commits its revocation revokes the row it was let in     *)
(* with, which nobody has revoked before it                                *)
(* (RefreshTokenRepository.get_valid_token and revoke_all_for_user).       *)
Spends ==
    \A q \in Requests :
        phase[q] = "update" /\ phase'[q] \in {"sign", "answered"} /\ stored[q] # None
           => token[stored[q]] = "valid" /\ token'[stored[q]] = "revoked"

(* Every step of a reachable state spends so.                              *)
LEMMA SpendsStep == IInv /\ [Next]_vars => Spends
<1> SUFFICES ASSUME IInv, [Next]_vars
             PROVE  Spends
  OBVIOUS
<1> USE NoneFact DEF IInv, TypeOK, Spends, Over, Enters
<1>1. ASSUME NEW q \in Requests, NEW t \in Tokens,
             Login(q) \/ Refresh(q, t) \/ Logout(q, t)
      PROVE  Spends
  BY <1>1, BeginSteps
<1>2. ASSUME NEW q \in Requests, EndsUncommitted(q)
      PROVE  Spends
  BY <1>2 DEF EndsUncommitted, Leaves
<1>3. ASSUME NEW q \in Requests, MovesOn(q)
      PROVE  Spends
  BY <1>3 DEF MovesOn
<1>4. ASSUME NEW q \in Requests,
             \/ SelectsToken(q) \/ UpdateBegins(q) \/ Creates(q)
             \/ \E t \in Tokens : UpdatesRow(q, t)
      PROVE  Spends
  BY <1>4 DEF SelectsToken, UpdateBegins, Creates, UpdatesRow
<1>5. ASSUME NEW q \in Requests, RevokeCommits(q)
      PROVE  Spends
  BY <1>5 DEF RevokeCommits, Leaves, TokenHeld, RowsHeld
<1>6. CASE UNCHANGED vars \/ \E t \in Tokens : Expires(t)
  BY <1>6, IdleSteps
<1> QED
  BY <1>1, <1>2, <1>3, <1>4, <1>5, <1>6, EndSteps, MoveSteps DEF Next, Step

(* A refresh token is spent once, whatever overlaps.                       *)
THEOREM TokensAreSpentOnce == Spec => TokenSpentOnce
<1>1. IInv /\ [Next]_vars => [Spends]_vars
  BY SpendsStep
<1> QED
  BY <1>1, Invariance, PTL DEF Spec, TokenSpentOnce, Spends
===============================================================================
