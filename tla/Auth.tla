-------------------------------- MODULE Auth --------------------------------
(***************************************************************************)
(* The authentication service: Register, Login, RefreshToken and Logout,   *)
(* statement by statement over the tables users and refresh_tokens.        *)
(*                                                                         *)
(* A JWT is its claims: user, issue time in whole seconds, type; two JWTs  *)
(* with the same claims are the same string and have the same hash.  There *)
(* is no other difference between tokens: no id claim.  The clock readings *)
(* of one generateTokens fall into one second.  A request saves at most    *)
(* one row of refresh_tokens, which it names.                              *)
(***************************************************************************)
EXTENDS Naturals, FiniteSets

CONSTANTS Users,       \* users, each with one email
          Requests,    \* bound: the requests of a behaviour
          AccessTTL, RefreshTTL, \* in seconds: 15 minutes, 30 days in the code
          MaxTime,     \* bound: the clock
          MaxFailures, \* bound: statements that fail, processes that die
          None         \* no token, no row

ASSUME AuthAssumption ==
  /\ AccessTTL \in Nat /\ RefreshTTL \in Nat /\ MaxTime \in Nat /\ MaxFailures \in Nat
  /\ None \notin Requests

Ops == {"register", "login", "refresh", "logout"}
Tokens == [user : Users, iat : 0 .. MaxTime, typ : {"access", "refresh"}]

VARIABLES
  now,       \* the clock of the service, in seconds
  users,     \* rows of users
  rows,      \* rows of refresh_tokens, by the request that saved them
  hashOf,    \* the token whose hash a row holds
  op, user, token, \* parameters of each request
  pc,        \* where it is
  found,     \* the row GetRefreshToken returned to it
  access, refresh, \* the tokens it made
  expires,   \* the expires_at it computed for its row
  botched,   \* history: refreshes whose delete failed, unnoticed
  late,      \* history: refreshes begun with a token that had run out
  preceding, \* history: requests over by then
  failures

db == <<users, rows, hashOf>>
params == <<op, user, token, late, preceding>>
made == <<access, refresh, expires>>
vars == <<now, db, params, pc, found, made, botched, failures>>

Over == {"succeeded", "failed"}
Answered == {r \in Requests : pc[r] = "succeeded" /\ op[r] # "logout"}

Init ==
  /\ now = 0
  /\ users = {}
  /\ rows = {}
  /\ hashOf = [r \in Requests |-> None]
  /\ expires = [r \in Requests |-> 0]
  /\ op = [r \in Requests |-> "login"]
  /\ user = [r \in Requests |-> None]
  /\ token = [r \in Requests |-> None]
  /\ late = {}
  /\ preceding = [r \in Requests |-> {}]
  /\ pc = [r \in Requests |-> "idle"]
  /\ found = [r \in Requests |-> None]
  /\ access = [r \in Requests |-> None]
  /\ refresh = [r \in Requests |-> None]
  /\ botched = {}
  /\ failures = 0

Goto(r, label) == pc' = [pc EXCEPT ![r] = label]
-----------------------------------------------------------------------------
(* Pieces of the operations, each after a slip the code could have had.    *)

(* jwt.Parse accepts a token strictly before its exp; ValidateToken does   *)
(* not look at its type.                                                   *)
Exp(t) == t.iat + (IF t.typ = "access" THEN AccessTTL ELSE RefreshTTL)
UntilExp(t) == now <= Exp(t)
ValidateToken(t) == now < Exp(t)

(* generateTokens saves the hash of the refresh token.                     *)
HashOfAccess(r) == access[r]
HashToSave(r) == refresh[r]

(* users.email is UNIQUE.                                                  *)
EmailTaken(u) == u \in users

(* DELETE ... WHERE token_hash; the slips delete nothing, or every row of  *)
(* the user, as the logout of all sessions would.                          *)
NoRows(r) == {}
RowsOfUser(r) == {s \in rows : hashOf[s].user = token[r].user}
RowsOfToken(r) == {s \in rows : hashOf[s] = token[r]}
-----------------------------------------------------------------------------
Tick == now < MaxTime /\ now' = now + 1
        /\ UNCHANGED <<db, params, pc, found, made, botched, failures>>

(* Clients present the tokens they were given, of either type.             *)
Begin(r) ==
  /\ pc[r] = "idle"
  /\ preceding' = [preceding EXCEPT ![r] = {q \in Requests : pc[q] \in Over}]
  /\ \/ \E o \in {"register", "login"}, u \in Users :
          /\ op' = [op EXCEPT ![r] = o]
          /\ user' = [user EXCEPT ![r] = u]
          /\ Goto(r, "lookup")
          /\ UNCHANGED <<token, late>>
     \/ \E o \in {"refresh", "logout"}, q \in Answered : \E t \in {access[q], refresh[q]} :
          /\ op' = [op EXCEPT ![r] = o]
          /\ user' = [user EXCEPT ![r] = t.user]
          /\ token' = [token EXCEPT ![r] = t]
          /\ late' = IF o = "refresh" /\ now >= Exp(t) THEN late \cup {r} ELSE late
          /\ Goto(r, IF o = "refresh" THEN "validate" ELSE "delete")
  /\ UNCHANGED <<now, db, found, made, botched, failures>>

(* GetUserByEmail: Register goes on without a user, Login with one whose   *)
(* password fits.  A wrong password is a failure like any other.           *)
LookUp(r) ==
  /\ pc[r] = "lookup"
  /\ IF op[r] = "register"
     THEN Goto(r, IF user[r] \in users THEN "failed" ELSE "insert")
     ELSE Goto(r, IF user[r] \in users THEN "issue" ELSE "failed")
  /\ UNCHANGED <<now, db, params, found, made, botched, failures>>

InsertUser(r) == users' = users \cup {user[r]} /\ UNCHANGED <<rows, hashOf>>
CreateUser(r) ==
  /\ pc[r] = "insert"
  /\ IF EmailTaken(user[r]) THEN Goto(r, "failed") ELSE Goto(r, "issue")
  /\ InsertUser(r)
  /\ UNCHANGED <<now, params, found, made, botched, failures>>

Validate(r) ==
  /\ pc[r] = "validate"
  /\ Goto(r, IF ValidateToken(token[r]) THEN "find" ELSE "failed")
  /\ UNCHANGED <<now, db, params, found, made, botched, failures>>

GetRefreshToken(r) ==
  /\ pc[r] = "find"
  /\ \/ \E s \in rows :
          /\ hashOf[s] = token[r]
          /\ found' = [found EXCEPT ![r] = s]
          /\ Goto(r, "check")
     \/ /\ \A s \in rows : hashOf[s] # token[r]
        /\ Goto(r, "failed")
        /\ UNCHANGED found
  /\ UNCHANGED <<now, db, params, made, botched, failures>>

(* The row has expired: it is purged and the request fails.                *)
CheckExpiry(r) ==
  /\ pc[r] = "check"
  /\ Goto(r, IF now > expires[found[r]] THEN "purge" ELSE "delete")
  /\ UNCHANGED <<now, db, params, found, made, botched, failures>>

Deleting == {"delete", "purge"}
AfterDelete(r) == IF op[r] = "logout" THEN "succeeded"
                  ELSE IF pc[r] = "purge" THEN "failed" ELSE "user"
DeleteRows(r) == rows' = rows \ RowsOfToken(r) /\ UNCHANGED <<users, hashOf>>
DeleteRefreshToken(r) ==
  /\ pc[r] \in Deleting
  /\ DeleteRows(r)
  /\ Goto(r, AfterDelete(r))
  /\ UNCHANGED <<now, params, found, made, botched, failures>>

GetUserByID(r) ==
  /\ pc[r] = "user"
  /\ Goto(r, IF user[r] \in users THEN "issue" ELSE "failed")
  /\ UNCHANGED <<now, db, params, found, made, botched, failures>>

GenerateTokens(r) ==
  /\ pc[r] = "issue"
  /\ access' = [access EXCEPT ![r] = [user |-> user[r], iat |-> now, typ |-> "access"]]
  /\ refresh' = [refresh EXCEPT ![r] = [user |-> user[r], iat |-> now, typ |-> "refresh"]]
  /\ expires' = [expires EXCEPT ![r] = now + RefreshTTL]
  /\ Goto(r, "save")
  /\ UNCHANGED <<now, db, params, found, botched, failures>>

InsertRow(r) ==
  /\ rows' = rows \cup {r}
  /\ hashOf' = [hashOf EXCEPT ![r] = HashToSave(r)]
  /\ UNCHANGED users
SaveRefreshToken(r) ==
  /\ pc[r] = "save"
  /\ InsertRow(r)
  /\ Goto(r, "succeeded")
  /\ UNCHANGED <<now, params, found, made, botched, failures>>

(* A statement fails, its effect lost or not, or the process dies, or the  *)
(* password is wrong.  A refresh drops the error of its delete and goes on. *)
Fail(r) ==
  /\ failures < MaxFailures /\ failures' = failures + 1
  /\ pc[r] \notin Over \cup {"idle"}
  /\ IF pc[r] \in Deleting /\ op[r] = "refresh"
     THEN Goto(r, AfterDelete(r)) /\ botched' = botched \cup {r}
     ELSE Goto(r, "failed") /\ UNCHANGED botched
  /\ \/ pc[r] = "insert" /\ InsertUser(r)
     \/ pc[r] \in Deleting /\ DeleteRows(r)
     \/ pc[r] = "save" /\ InsertRow(r)
     \/ UNCHANGED db
  /\ UNCHANGED <<now, params, found, made>>

Next ==
  \/ Tick
  \/ \E r \in Requests :
       \/ Begin(r) \/ LookUp(r) \/ CreateUser(r) \/ Validate(r) \/ GetRefreshToken(r) \/ CheckExpiry(r)
       \/ DeleteRefreshToken(r) \/ GetUserByID(r) \/ GenerateTokens(r)
       \/ SaveRefreshToken(r) \/ Fail(r)

Spec == Init /\ [][Next]_vars
-----------------------------------------------------------------------------
(* Every variable has the type of the Go or SQL value it stands for; the   *)
(* table of refresh tokens holds tokens of that type only.                 *)
TypeOK ==
  /\ now \in 0 .. MaxTime
  /\ users \in SUBSET Users
  /\ rows \in SUBSET Requests
  /\ hashOf \in [Requests -> Tokens \cup {None}]
  /\ \A s \in rows : hashOf[s] \in Tokens /\ hashOf[s].typ = "refresh"
  /\ expires \in [Requests -> Nat]
  /\ op \in [Requests -> Ops]
  /\ user \in [Requests -> Users \cup {None}]
  /\ token \in [Requests -> Tokens \cup {None}]
  /\ late \in SUBSET Requests
  /\ preceding \in [Requests -> SUBSET Requests]
  /\ pc \in [Requests -> Over \cup {"idle", "lookup", "insert", "validate", "find", "check", "delete", "purge",
                                    "user", "issue", "save"}]
  /\ found \in [Requests -> Requests \cup {None}]
  /\ access \in [Requests -> Tokens \cup {None}]
  /\ refresh \in [Requests -> Tokens \cup {None}]
  /\ botched \in SUBSET Requests
  /\ failures \in 0 .. MaxFailures

(* What is exchanged is a refresh token, although ValidateToken would take *)
(* an access token as well; and it is the one whose row was found.         *)
OnlyRefreshTokensAreExchanged ==
  \A r \in Requests : pc[r] = "succeeded" /\ op[r] = "refresh" =>
    token[r].typ = "refresh" /\ hashOf[found[r]] = token[r]

(* A row that was there when a logout or a refresh with its token began is *)
(* not found by any refresh that begins after that one has succeeded,      *)
(* unless its delete failed.                                               *)
SpentRowsStaySpent ==
  \A r \in Requests : \A q \in preceding[r] :
    /\ pc[q] = "succeeded" /\ op[q] \in {"refresh", "logout"} /\ q \notin botched
    /\ op[r] = "refresh" /\ token[q] = token[r]
    => found[r] \notin preceding[q]

(* A refresh that begins when its token has run out is refused, though the *)
(* row of the token stays in the table, which nothing purges.              *)
NoExpiredSession ==
  \A r \in Requests :
    pc[r] = "succeeded" /\ op[r] = "refresh" => r \notin late

(* An answered session lasts: its row stays until the token is presented   *)
(* to a refresh or a logout.                                               *)
SessionsLast ==
  \A r \in Answered : r \in rows \/
    \E q \in Requests : op[q] \in {"refresh", "logout"} /\ token[q] = refresh[r]
=============================================================================
