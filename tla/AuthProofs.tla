----------------------------- MODULE AuthProofs -----------------------------
(***************************************************************************)
(* What becomes of tokens and of the rows that stand for them, for any     *)
(* users, requests, lifetimes and failures.                                *)
(***************************************************************************)
EXTENDS Auth, TLAPS

(* Which requests are where, and what they have by then.                   *)
Shape ==
  \A r \in Requests :
    /\ pc[r] = "idle" => op[r] = "login" /\ found[r] = None
    /\ pc[r] # "idle" => user[r] \in Users
    /\ pc[r] \in {"lookup", "insert"} => op[r] \in {"register", "login"}
    /\ pc[r] \in {"validate", "find", "check", "purge", "user"} => op[r] = "refresh"
    /\ pc[r] = "delete" => op[r] \in {"refresh", "logout"}
    /\ pc[r] \in {"issue", "save"} => op[r] # "logout"
    /\ op[r] \in {"refresh", "logout"} => token[r] \in Tokens
    /\ pc[r] = "save" \/ (pc[r] = "succeeded" /\ op[r] # "logout") =>
         /\ access[r] \in Tokens
         /\ refresh[r] \in Tokens /\ refresh[r].typ = "refresh"
    /\ pc[r] \in {"lookup", "insert", "validate", "find"} => found[r] = None
    /\ op[r] = "refresh" /\ pc[r] \in {"check", "delete", "purge", "user", "issue", "save", "succeeded"} =>
         found[r] \in Requests
Typed == TypeOK /\ Shape

LEMMA InitTyped == Init => Typed
BY AuthAssumption DEF Init, Typed, TypeOK, Shape, Ops, Over

LEMMA Issued ==
  ASSUME Typed, NEW r \in Requests, pc[r] # "idle", NEW y \in {"access", "refresh"}
  PROVE  LET t == [user |-> user[r], iat |-> now, typ |-> y] IN t \in Tokens /\ t.typ = y
BY DEF Typed, TypeOK, Shape, Tokens

LEMMA TokenHas ==
  ASSUME NEW t \in Tokens
  PROVE  t.user \in Users /\ t.iat \in 0 .. MaxTime /\ t.typ \in {"access", "refresh"}
BY DEF Tokens

LEMMA StepTyped == Typed /\ [Next]_vars => Typed'
<1> SUFFICES ASSUME Typed, [Next]_vars PROVE Typed'
  OBVIOUS
<1> USE AuthAssumption DEF Typed, TypeOK, Shape, db, params, made
<1>1. CASE Tick
  BY <1>1 DEF Tick
<1>2. ASSUME NEW r \in Requests, Begin(r) PROVE Typed'
  <2>0. /\ pc[r] = "idle" /\ UNCHANGED <<now, db, found, made, botched, failures>>
        /\ preceding' \in [Requests -> SUBSET Requests]
    BY <1>2 DEF Begin
  <2>1. ASSUME NEW o \in {"register", "login"}, NEW u \in Users,
               op' = [op EXCEPT ![r] = o], user' = [user EXCEPT ![r] = u],
               pc' = [pc EXCEPT ![r] = "lookup"], UNCHANGED <<token, late>>
        PROVE  Typed'
    BY <2>0, <2>1 DEF Ops, Over
  <2>2. ASSUME NEW o \in {"refresh", "logout"}, NEW t \in Tokens,
               op' = [op EXCEPT ![r] = o], user' = [user EXCEPT ![r] = t.user],
               token' = [token EXCEPT ![r] = t],
               pc' = [pc EXCEPT ![r] = IF o = "refresh" THEN "validate" ELSE "delete"],
               late' \in SUBSET Requests
        PROVE  Typed'
    BY <2>0, <2>2, TokenHas DEF Ops, Over
  <2>3. \A q \in Answered : access[q] \in Tokens /\ refresh[q] \in Tokens
    BY DEF Answered
  <2> QED
    BY <1>2, <2>1, <2>2, <2>3 DEF Begin, Goto
<1>3. ASSUME NEW r \in Requests, LookUp(r) PROVE Typed'
  BY <1>3 DEF LookUp, Goto, Over
<1>4. ASSUME NEW r \in Requests, CreateUser(r) PROVE Typed'
  BY <1>4 DEF CreateUser, InsertUser, Goto, Over
<1>5. ASSUME NEW r \in Requests, Validate(r) PROVE Typed'
  BY <1>5 DEF Validate, Goto, Over
<1>6. ASSUME NEW r \in Requests, GetRefreshToken(r) PROVE Typed'
  BY <1>6 DEF GetRefreshToken, Goto, Over
<1>7. ASSUME NEW r \in Requests, CheckExpiry(r) PROVE Typed'
  BY <1>7 DEF CheckExpiry, Goto, Over
<1>8. ASSUME NEW r \in Requests, DeleteRefreshToken(r) PROVE Typed'
  BY <1>8 DEF DeleteRefreshToken, DeleteRows, RowsOfToken, AfterDelete, Deleting, Goto, Over
<1>9. ASSUME NEW r \in Requests, GetUserByID(r) PROVE Typed'
  BY <1>9 DEF GetUserByID, Goto, Over
<1>10. ASSUME NEW r \in Requests, GenerateTokens(r) PROVE Typed'
  BY <1>10, Issued DEF GenerateTokens, Goto, Over
<1>11. ASSUME NEW r \in Requests, SaveRefreshToken(r) PROVE Typed'
  BY <1>11 DEF SaveRefreshToken, InsertRow, HashToSave, Goto, Over
<1>12. ASSUME NEW r \in Requests, Fail(r) PROVE Typed'
  BY <1>12 DEF Fail, InsertUser, DeleteRows, RowsOfToken, InsertRow, HashToSave, AfterDelete, Deleting, Goto, Over
<1>13. CASE UNCHANGED vars
  BY <1>13 DEF vars
<1> QED
  BY <1>1, <1>2, <1>3, <1>4, <1>5, <1>6, <1>7, <1>8, <1>9, <1>10, <1>11, <1>12, <1>13 DEF Next

(* Every variable of the service keeps its type in every behaviour; the    *)
(* table of refresh tokens never gets a token of the other type.           *)
THEOREM TypeCorrect == Spec => []TypeOK
<1>1. Typed => TypeOK
  BY DEF Typed
<1> QED
  BY InitTyped, StepTyped, <1>1, PTL DEF Spec
-----------------------------------------------------------------------------
(* What any step leaves as it is: a request that has begun keeps what it   *)
(* was asked, one that is over keeps what it got, and a row is only ever   *)
(* inserted by the last statement of the request it is named after.        *)
StaysBegun(r) ==
  /\ pc'[r] # "idle" /\ op'[r] = op[r] /\ token'[r] = token[r]
  /\ preceding'[r] = preceding[r] /\ (r \in late' <=> r \in late)
StaysOver(r) ==
  /\ pc'[r] = pc[r] /\ refresh'[r] = refresh[r] /\ hashOf'[r] = hashOf[r]
  /\ (r \in botched' <=> r \in botched)
Saved(r) == pc[r] = "save" /\ pc'[r] \in Over /\ hashOf'[r] = refresh[r] /\ refresh'[r] = refresh[r]
Past ==
  /\ \A r \in Requests : pc[r] # "idle" => StaysBegun(r)
  /\ \A r \in Requests : pc[r] \in Over => StaysOver(r)
  /\ \A r \in rows' : r \in rows \/ Saved(r)
  /\ now' >= now

LEMMA PastStays ==
  ASSUME Typed, [Next]_vars
  PROVE  Past
<1> USE DEF Typed, TypeOK, db, params, made, Past, StaysBegun, StaysOver, Saved, Over
<1>1. CASE Tick
  BY <1>1 DEF Tick
<1>2. ASSUME NEW r \in Requests, Begin(r) PROVE Past
  BY <1>2 DEF Begin, Goto
<1>3. ASSUME NEW r \in Requests, LookUp(r) PROVE Past
  BY <1>3 DEF LookUp, Goto
<1>4. ASSUME NEW r \in Requests, CreateUser(r) PROVE Past
  BY <1>4 DEF CreateUser, InsertUser, Goto
<1>5. ASSUME NEW r \in Requests, Validate(r) PROVE Past
  BY <1>5 DEF Validate, Goto
<1>6. ASSUME NEW r \in Requests, GetRefreshToken(r) PROVE Past
  BY <1>6 DEF GetRefreshToken, Goto
<1>7. ASSUME NEW r \in Requests, CheckExpiry(r) PROVE Past
  BY <1>7 DEF CheckExpiry, Goto
<1>8. ASSUME NEW r \in Requests, DeleteRefreshToken(r) PROVE Past
  BY <1>8 DEF DeleteRefreshToken, DeleteRows, AfterDelete, Deleting, Goto
<1>9. ASSUME NEW r \in Requests, GetUserByID(r) PROVE Past
  BY <1>9 DEF GetUserByID, Goto
<1>10. ASSUME NEW r \in Requests, GenerateTokens(r) PROVE Past
  BY <1>10 DEF GenerateTokens, Goto
<1>11. ASSUME NEW r \in Requests, SaveRefreshToken(r) PROVE Past
  BY <1>11 DEF SaveRefreshToken, InsertRow, HashToSave, Goto
<1>12. ASSUME NEW r \in Requests, Fail(r) PROVE Past
  <2>1. /\ pc[r] \notin Over \cup {"idle"} /\ UNCHANGED <<now, params, found, made>>
        /\ \E l \in {"succeeded", "failed", "user"} : Goto(r, l)
        /\ botched' = botched \/ botched' = botched \cup {r}
    BY <1>12 DEF Fail, AfterDelete
  <2>2. CASE pc[r] = "save" /\ InsertRow(r)
    <3>1. Goto(r, "failed")
      BY <1>12, <2>2 DEF Fail, Deleting
    <3> QED
      BY <2>1, <2>2, <3>1 DEF InsertRow, HashToSave, Goto
  <2>3. CASE rows' \subseteq rows /\ hashOf' = hashOf
    BY <2>1, <2>3 DEF Goto
  <2> QED
    BY <1>12, <2>2, <2>3 DEF Fail, InsertUser, DeleteRows
<1>13. CASE UNCHANGED vars
  BY <1>13 DEF vars
<1> QED
  BY <1>1, <1>2, <1>3, <1>4, <1>5, <1>6, <1>7, <1>8, <1>9, <1>10, <1>11, <1>12, <1>13 DEF Next

(* One request moves at a time.                                            *)
Same(r) ==
  /\ pc'[r] = pc[r] /\ op'[r] = op[r] /\ token'[r] = token[r] /\ found'[r] = found[r]
  /\ refresh'[r] = refresh[r] /\ preceding'[r] = preceding[r]
  /\ (r \in late' <=> r \in late) /\ (r \in botched' <=> r \in botched)
Moves(r) ==
  \/ Begin(r) \/ LookUp(r) \/ CreateUser(r) \/ Validate(r) \/ GetRefreshToken(r) \/ CheckExpiry(r)
  \/ DeleteRefreshToken(r) \/ GetUserByID(r) \/ GenerateTokens(r)
  \/ SaveRefreshToken(r) \/ Fail(r)

LEMMA OneMoves ==
  ASSUME Typed, [Next]_vars, NEW r \in Requests, ~Moves(r)
  PROVE  Same(r)
<1> USE DEF Typed, TypeOK, db, params, made, Same
<1>1. CASE Tick
  BY <1>1 DEF Tick
<1>2. CASE UNCHANGED vars
  BY <1>2 DEF vars
<1>3. ASSUME NEW q \in Requests, Moves(q) PROVE Same(r)
  <2>0. q # r
    BY <1>3
  <2>1. CASE Begin(q)
    BY <2>0, <2>1 DEF Begin, Goto
  <2>2. CASE LookUp(q) \/ CreateUser(q) \/ Validate(q) \/ CheckExpiry(q) \/ GetUserByID(q)
    BY <2>0, <2>2 DEF LookUp, CreateUser, Validate, CheckExpiry, GetUserByID, Goto
  <2>3. CASE GetRefreshToken(q)
    BY <2>0, <2>3 DEF GetRefreshToken, Goto
  <2>4. CASE DeleteRefreshToken(q)
    BY <2>0, <2>4 DEF DeleteRefreshToken, Goto
  <2>5. CASE GenerateTokens(q) \/ SaveRefreshToken(q)
    BY <2>0, <2>5 DEF GenerateTokens, SaveRefreshToken, Goto
  <2>6. CASE Fail(q)
    BY <2>0, <2>6 DEF Fail, Goto
  <2> QED
    BY <1>3, <2>1, <2>2, <2>3, <2>4, <2>5, <2>6 DEF Moves
<1> QED
  BY <1>1, <1>2, <1>3 DEF Next, Moves

(* The kinds of move the invariants care about.                            *)
LEMMA FailureGoesOn ==
  ASSUME Typed, NEW r \in Requests, Fail(r)
  PROVE  /\ op'[r] = op[r] /\ token'[r] = token[r] /\ found'[r] = found[r] /\ preceding'[r] = preceding[r]
         /\ late' = late /\ now' = now /\ refresh'[r] = refresh[r]
         /\ \/ pc'[r] = "failed"
            \/ pc[r] = "delete" /\ pc'[r] = "user" /\ r \in botched'
<1> USE DEF Typed, TypeOK, Shape, params, made, Over
<1>1. UNCHANGED <<now, params, found, made>> /\ r \in Requests
  BY DEF Fail
<1>2. CASE pc[r] \in Deleting /\ op[r] = "refresh"
  <2>1. pc' = [pc EXCEPT ![r] = AfterDelete(r)] /\ botched' = botched \cup {r}
    BY <1>2 DEF Fail, Goto
  <2>2. AfterDelete(r) = IF pc[r] = "purge" THEN "failed" ELSE "user"
    BY <1>2 DEF AfterDelete
  <2> QED
    BY <1>1, <1>2, <2>1, <2>2 DEF Deleting
<1>3. CASE ~(pc[r] \in Deleting /\ op[r] = "refresh")
  BY <1>1, <1>3 DEF Fail, Goto
<1> QED
  BY <1>2, <1>3

-----------------------------------------------------------------------------
(* A row and what precedes a request belong to requests that are over, and *)
(* a row holds the refresh token its request answered with.                *)
Rows ==
  /\ \A s \in rows : pc[s] \in Over /\ hashOf[s] = refresh[s]
  /\ \A r \in Requests : \A q \in preceding[r] : pc[q] \in Over

LEMMA StepRows == Typed /\ Rows /\ [Next]_vars => Rows'
<1> SUFFICES ASSUME Typed, Rows, [Next]_vars PROVE Rows'
  OBVIOUS
<1>0. Past /\ rows' \subseteq Requests
  BY PastStays, StepTyped DEF Typed, TypeOK
<1>1. ASSUME NEW s \in rows' PROVE pc'[s] \in Over /\ hashOf'[s] = refresh'[s]
  BY <1>0 DEF Rows, Past, Saved, StaysOver
<1>2. ASSUME NEW r \in Requests, NEW q \in preceding'[r] PROVE pc'[q] \in Over
  <2>1. q \in Requests
    BY StepTyped DEF Typed, TypeOK
  <2>2. CASE preceding'[r] = preceding[r]
    BY <1>0, <2>1, <2>2 DEF Rows, Past, StaysOver
  <2>3. CASE Begin(r)
    <3>1. preceding'[r] = {p \in Requests : pc[p] \in Over}
      BY <2>3 DEF Begin, Typed, TypeOK
    <3> QED
      BY <1>0, <2>1, <3>1 DEF Past, StaysOver
  <2>4. CASE pc[r] # "idle"
    BY <1>0, <2>2, <2>4 DEF Past, StaysBegun
  <2>5. CASE pc[r] = "idle" /\ ~Begin(r)
    <3>1. CASE Moves(r)
      BY <2>5, <3>1 DEF Moves, LookUp, CreateUser, Validate, GetRefreshToken, CheckExpiry, DeleteRefreshToken,
         GetUserByID, GenerateTokens, SaveRefreshToken, Fail, Deleting
    <3> QED
      BY <2>2, <3>1, OneMoves DEF Same
  <2> QED
    BY <2>3, <2>4, <2>5
<1> QED
  BY <1>1, <1>2 DEF Rows

(* A refresh that has found a row holds a refresh token, the one whose     *)
(* hash is in that row; rows and tokens outlive the deletion of the row.   *)
Exchanges ==
  \A r \in Requests :
    op[r] = "refresh" /\ pc[r] \in {"check", "delete", "purge", "user", "issue", "save", "succeeded"} =>
      /\ hashOf[found[r]] = token[r] /\ token[r].typ = "refresh" /\ pc[found[r]] \in Over

LEMMA StepExchanges == Typed /\ Rows /\ Exchanges /\ [Next]_vars => Exchanges'
<1> SUFFICES ASSUME Typed, Rows, Exchanges, [Next]_vars, NEW r \in Requests,
                    op'[r] = "refresh",
                    pc'[r] \in {"check", "delete", "purge", "user", "issue", "save", "succeeded"}
             PROVE  /\ hashOf'[found'[r]] = token'[r] /\ token'[r].typ = "refresh" /\ pc'[found'[r]] \in Over
  BY DEF Exchanges
<1>0. Past
  BY PastStays
<1>1. CASE /\ op[r] = "refresh" /\ token'[r] = token[r] /\ found'[r] = found[r]
           /\ pc[r] \in {"check", "delete", "purge", "user", "issue", "save", "succeeded"}
  <2>1. found[r] \in Requests
    BY <1>1 DEF Typed, Shape
  <2> QED
    BY <1>0, <1>1, <2>1 DEF Exchanges, Past, StaysOver
<1>2. CASE GetRefreshToken(r)
  <2>1. PICK s \in rows : hashOf[s] = token[r] /\ found' = [found EXCEPT ![r] = s]
    BY <1>2 DEF GetRefreshToken, Goto, Typed, TypeOK
  <2>2. /\ found'[r] = s /\ s \in Requests /\ hashOf[s].typ = "refresh" /\ pc[s] \in Over
        /\ token'[r] = token[r]
    BY <1>2, <2>1 DEF GetRefreshToken, params, Typed, TypeOK, Rows
  <2> QED
    BY <1>0, <2>1, <2>2 DEF Past, StaysOver
<1>3. CASE ~Moves(r)
  BY <1>1, <1>3, OneMoves DEF Same
<1>4. CASE Fail(r)
  BY <1>1, <1>4, FailureGoesOn
<1>5. CASE Begin(r)
  BY <1>5 DEF Begin, Goto, Typed, TypeOK
<1>6. CASE LookUp(r) \/ CreateUser(r)
  BY <1>6 DEF LookUp, CreateUser, Goto, params, Typed, TypeOK, Shape
<1>7. CASE Validate(r)
  BY <1>7 DEF Validate, Goto, Typed, TypeOK
<1>8. CASE CheckExpiry(r) \/ DeleteRefreshToken(r) \/ GetUserByID(r) \/ GenerateTokens(r) \/ SaveRefreshToken(r)
  BY <1>1, <1>8 DEF CheckExpiry, DeleteRefreshToken, GetUserByID, GenerateTokens, SaveRefreshToken, Deleting, params,
     Typed, TypeOK
<1> QED
  BY <1>2, <1>3, <1>4, <1>5, <1>6, <1>7, <1>8 DEF Moves

(* What is exchanged is a refresh token, although ValidateToken would take *)
(* an access token as well; and it is the one whose row was found.         *)
THEOREM ExchangeCorrect == Spec => []OnlyRefreshTokensAreExchanged
<1>1. Init => Rows /\ Exchanges
  BY DEF Init, Rows, Exchanges
<1>2. Exchanges => OnlyRefreshTokensAreExchanged
  BY DEF Exchanges, OnlyRefreshTokensAreExchanged
<1> QED
  BY InitTyped, StepTyped, StepRows, StepExchanges, <1>1, <1>2, PTL DEF Spec

-----------------------------------------------------------------------------
(* A refresh begun too late stays too late: the clock only goes forward,   *)
(* so that validation refuses it, whatever rows are still in the table.    *)
Refused ==
  \A r \in late : op[r] = "refresh" /\ now >= Exp(token[r]) /\ pc[r] \in {"validate", "failed"}

LEMMA StepRefused == Typed /\ Refused /\ [Next]_vars => Refused'
<1> SUFFICES ASSUME Typed, Refused, [Next]_vars, NEW r \in late'
             PROVE  op'[r] = "refresh" /\ now' >= Exp(token[r])' /\ pc'[r] \in {"validate", "failed"}
  BY DEF Refused
<1>0. Past /\ r \in Requests /\ now \in Nat /\ now' \in Nat
  BY PastStays, StepTyped DEF Typed, TypeOK
<1>1. CASE r \in late
  <2>1. /\ op[r] = "refresh" /\ now >= Exp(token[r]) /\ pc[r] \in {"validate", "failed"}
    BY <1>1 DEF Refused
  <2>2. op'[r] = op[r] /\ token'[r] = token[r]
    BY <1>0, <2>1 DEF Past, StaysBegun
  <2>3. Exp(token[r]) \in Nat
    <3>1. token[r] \in Tokens
      BY <1>0, <2>1 DEF Typed, Shape
    <3>2. token[r].iat \in Nat
      BY <3>1, TokenHas, AuthAssumption
    <3> QED
      BY <3>2, AuthAssumption DEF Exp
  <2>4. now' >= Exp(token[r])'
    <3>1. Exp(token[r])' = Exp(token[r])
      BY <2>2 DEF Exp
    <3> QED
      BY <1>0, <2>1, <2>3, <3>1 DEF Past
  <2>5. pc'[r] \in {"validate", "failed"}
    <3>1. CASE ~Moves(r)
      BY <1>0, <2>1, <3>1, OneMoves DEF Same
    <3>2. CASE Validate(r)
      <4>1. ~ValidateToken(token[r])
        BY <1>0, <2>1, <2>3 DEF ValidateToken
      <4> QED
        BY <1>0, <3>2, <4>1 DEF Validate, Goto, Typed, TypeOK
    <3>3. CASE Fail(r)
      BY <1>0, <2>1, <3>3, FailureGoesOn
    <3> QED
      BY <2>1, <3>1, <3>2, <3>3 DEF Moves, Begin, LookUp, CreateUser, GetRefreshToken, CheckExpiry,
         DeleteRefreshToken, GetUserByID, GenerateTokens, SaveRefreshToken, Deleting
  <2> QED
    BY <2>1, <2>2, <2>4, <2>5
<1>2. CASE r \notin late
  <2>1. Begin(r) /\ pc[r] = "idle"
    <3>1. pc[r] = "idle"
      BY <1>0, <1>2 DEF Past, StaysBegun
    <3>2. Moves(r)
      BY <1>0, <1>2, OneMoves DEF Same
    <3> QED
      BY <3>1, <3>2 DEF Moves, LookUp, CreateUser, Validate, GetRefreshToken, CheckExpiry, DeleteRefreshToken,
         GetUserByID, GenerateTokens, SaveRefreshToken, Fail, Deleting
  <2>2. PICK o \in {"refresh", "logout"}, q \in Answered : \E t \in {access[q], refresh[q]} :
          /\ op' = [op EXCEPT ![r] = o]
          /\ token' = [token EXCEPT ![r] = t]
          /\ late' = IF o = "refresh" /\ now >= Exp(t) THEN late \cup {r} ELSE late
          /\ Goto(r, IF o = "refresh" THEN "validate" ELSE "delete")
    BY <1>2, <2>1 DEF Begin
  <2>3. PICK t \in {access[q], refresh[q]} :
          /\ op' = [op EXCEPT ![r] = o]
          /\ token' = [token EXCEPT ![r] = t]
          /\ late' = IF o = "refresh" /\ now >= Exp(t) THEN late \cup {r} ELSE late
          /\ Goto(r, IF o = "refresh" THEN "validate" ELSE "delete")
    BY <2>2
  <2>4. o = "refresh" /\ now >= Exp(t)
    BY <1>2, <2>3
  <2>5. op'[r] = "refresh" /\ token'[r] = t /\ pc'[r] = "validate" /\ now' = now
    BY <1>0, <2>1, <2>3, <2>4 DEF Begin, Goto, Typed, TypeOK
  <2>6. Exp(token[r])' = Exp(t)
    BY <2>5 DEF Exp
  <2> QED
    BY <2>4, <2>5, <2>6
<1> QED
  BY <1>1, <1>2

(* A refresh that begins when its token has run out never succeeds, though *)
(* the row of the token may stay in the table for ever.                    *)
THEOREM ExpiryCorrect == Spec => []NoExpiredSession
<1>1. Init => Refused
  BY DEF Init, Refused
<1>2. Refused => NoExpiredSession
  BY DEF Refused, NoExpiredSession
<1> QED
  BY InitTyped, StepTyped, StepRefused, <1>1, <1>2, PTL DEF Spec

-----------------------------------------------------------------------------
(* Rows disappear by the token of a refresh or a logout only.              *)
Presented(t) == \E q \in Requests : op[q] \in {"refresh", "logout"} /\ token[q] = t

LEMMA RowsGoByToken ==
  ASSUME Typed, [Next]_vars, NEW s \in rows, s \notin rows'
  PROVE  \E q \in Requests : DeleteRows(q) /\ op[q] \in {"refresh", "logout"} /\ token[q] = hashOf[s]
<1> USE DEF db
<1>0. s \in Requests
  BY DEF Typed, TypeOK
<1>1. ASSUME NEW q \in Requests, pc[q] \in Deleting, DeleteRows(q)
      PROVE  op[q] \in {"refresh", "logout"} /\ token[q] = hashOf[s]
  BY <1>1 DEF DeleteRows, RowsOfToken, Deleting, Typed, Shape
<1>2. ASSUME NEW q \in Requests, Moves(q) PROVE pc[q] \in Deleting /\ DeleteRows(q)
  BY <1>2 DEF Moves, Begin, LookUp, CreateUser, InsertUser, Validate, GetRefreshToken, CheckExpiry,
     DeleteRefreshToken, GetUserByID, GenerateTokens, SaveRefreshToken, InsertRow, Fail
<1>3. rows' # rows
  OBVIOUS
<1> QED
  BY <1>1, <1>2, <1>3 DEF Next, Moves, Tick, vars

LEMMA StepLasts == Typed /\ Rows /\ SessionsLast /\ [Next]_vars => SessionsLast'
<1> SUFFICES ASSUME Typed, Rows, SessionsLast, [Next]_vars, NEW r \in Answered'
             PROVE  r \in rows' \/ Presented(refresh[r])'
  BY DEF SessionsLast, Presented
<1>0. Past /\ r \in Requests /\ pc'[r] = "succeeded" /\ op'[r] # "logout"
  BY PastStays DEF Answered
<1>1. ASSUME NEW q \in Requests, op[q] \in {"refresh", "logout"}
      PROVE  op'[q] = op[q] /\ token'[q] = token[q]
  BY <1>0, <1>1 DEF Past, StaysBegun, Typed, Shape
<1>2. CASE pc[r] = "succeeded"
  <2>1. op[r] # "logout" /\ refresh'[r] = refresh[r] /\ r \in Answered
    BY <1>0, <1>2 DEF Past, StaysBegun, StaysOver, Over, Answered
  <2>2. CASE Presented(refresh[r])
    BY <1>1, <2>1, <2>2 DEF Presented
  <2>3. CASE r \in rows /\ r \notin rows'
    <3>1. PICK q \in Requests : op[q] \in {"refresh", "logout"} /\ token[q] = hashOf[r]
      BY <2>3, RowsGoByToken
    <3>2. token[q] = refresh[r]
      BY <2>3, <3>1 DEF Rows
    <3> QED
      BY <2>2, <3>1, <3>2 DEF Presented
  <2> QED
    BY <2>1, <2>2, <2>3 DEF SessionsLast, Presented
<1>3. CASE SaveRefreshToken(r)
  BY <1>3 DEF SaveRefreshToken, InsertRow
<1>4. CASE pc[r] # "succeeded" /\ ~SaveRefreshToken(r)
  <2>1. Moves(r)
    BY <1>0, <1>4, OneMoves DEF Same
  <2>2. ~Fail(r)
    BY <1>0, FailureGoesOn
  <2>3. ~DeleteRefreshToken(r)
    BY <1>0 DEF DeleteRefreshToken, AfterDelete, Goto, params, Typed, TypeOK
  <2> QED
    BY <1>0, <1>4, <2>1, <2>2, <2>3 DEF Moves, Begin, LookUp, CreateUser, Validate, GetRefreshToken, CheckExpiry,
       GetUserByID, GenerateTokens, Goto, Typed, TypeOK
<1> QED
  BY <1>2, <1>3, <1>4

(* An answered session lasts until its token is presented, whatever the    *)
(* other sessions of the user do, and whatever fails.                      *)
THEOREM SessionCorrect == Spec => []SessionsLast
<1>1. Init => Rows /\ SessionsLast
  BY DEF Init, Rows, SessionsLast, Answered
<1> QED
  BY InitTyped, StepTyped, StepRows, StepLasts, <1>1, PTL DEF Spec

-----------------------------------------------------------------------------
(* A refresh or a logout past its delete has removed the rows of its token *)
(* that were there when it began, unless the delete failed; later rows are *)
(* of other requests.  A refresh that began after one that is over finds   *)
(* none of the rows the first one removed.                                 *)
Gone ==
  \A q \in Requests \ botched :
    op[q] \in {"refresh", "logout"} /\ pc[q] \in {"user", "issue", "save", "succeeded"} =>
      \A s \in preceding[q] \cap rows : hashOf[s] # token[q]

LEMMA StepGone == Typed /\ Rows /\ Gone /\ [Next]_vars => Gone'
<1> SUFFICES ASSUME Typed, Rows, Gone, [Next]_vars,
                    NEW q \in Requests, q \notin botched',
                    op'[q] \in {"refresh", "logout"}, pc'[q] \in {"user", "issue", "save", "succeeded"},
                    NEW s \in preceding'[q], s \in rows'
             PROVE  hashOf'[s] # token'[q]
  BY DEF Gone
<1>0. Past /\ s \in Requests
  BY PastStays, StepTyped DEF Typed, TypeOK
<1>1. pc[q] # "idle"
  <2>1. CASE ~Moves(q)
    BY <2>1, OneMoves DEF Same
  <2>2. CASE Begin(q)
    BY <2>2 DEF Begin, Goto, Typed, TypeOK
  <2> QED
    BY <2>1, <2>2 DEF Moves, LookUp, CreateUser, Validate, GetRefreshToken, CheckExpiry, DeleteRefreshToken,
       GetUserByID, GenerateTokens, SaveRefreshToken, Fail, Deleting
<1>2. op'[q] = op[q] /\ token'[q] = token[q] /\ preceding'[q] = preceding[q]
  BY <1>0, <1>1 DEF Past, StaysBegun
<1>3. pc[s] \in Over /\ s \in rows /\ hashOf'[s] = hashOf[s]
  <2>1. pc[s] \in Over
    BY <1>2 DEF Rows
  <2> QED
    BY <1>0, <2>1 DEF Past, StaysOver, Saved, Over
<1>4. CASE pc[q] \in {"user", "issue", "save", "succeeded"} /\ q \notin botched
  BY <1>2, <1>3, <1>4 DEF Gone
<1>5. CASE DeleteRefreshToken(q)
  BY <1>2, <1>3, <1>5 DEF DeleteRefreshToken, DeleteRows, RowsOfToken
<1>6. CASE ~DeleteRefreshToken(q) /\ ~(pc[q] \in {"user", "issue", "save", "succeeded"} /\ q \notin botched)
  <2>1. q \notin botched
    BY DEF Next, Tick, Begin, LookUp, CreateUser, Validate, GetRefreshToken, CheckExpiry,
       DeleteRefreshToken, GetUserByID, GenerateTokens, SaveRefreshToken, Fail, vars
  <2>2. Moves(q)
    BY <1>6, <2>1, OneMoves DEF Same
  <2>3. ~Fail(q)
    BY <1>6, FailureGoesOn
  <2>4. ~LookUp(q) /\ ~CreateUser(q)
    BY <1>2 DEF LookUp, CreateUser, Typed, Shape
  <2> QED
    BY <1>1, <1>6, <2>1, <2>2, <2>3, <2>4 DEF Moves, Begin, Validate, GetRefreshToken, CheckExpiry,
       GetUserByID, GenerateTokens, SaveRefreshToken, Goto, Typed, TypeOK
<1> QED
  BY <1>4, <1>5, <1>6

LEMMA StepSpent == Typed /\ Rows /\ Gone /\ SpentRowsStaySpent /\ [Next]_vars => SpentRowsStaySpent'
<1> SUFFICES ASSUME Typed, Rows, Gone, SpentRowsStaySpent, [Next]_vars,
                    NEW r \in Requests, NEW q \in preceding'[r],
                    pc'[q] = "succeeded", op'[q] \in {"refresh", "logout"}, q \notin botched',
                    op'[r] = "refresh", token'[q] = token'[r]
             PROVE  found'[r] \notin preceding'[q]
  BY DEF SpentRowsStaySpent
<1>0. Past /\ q \in Requests /\ preceding'[q] \subseteq Requests /\ None \notin Requests
  BY PastStays, StepTyped, AuthAssumption DEF Typed, TypeOK
<1>1. CASE pc[r] = "idle" /\ ~Moves(r)
  <2>1. op[r] = "refresh"
    BY <1>1, OneMoves DEF Same
  <2> QED
    BY <1>1, <2>1 DEF Typed, Shape
<1>2. CASE Begin(r)
  <2>1. found'[r] = None
    BY <1>2 DEF Begin, made, Typed, Shape
  <2> QED
    BY <1>0, <2>1
<1>3. CASE pc[r] # "idle"
  <2>1. op[r] = "refresh" /\ token'[r] = token[r] /\ q \in preceding[r]
    BY <1>0, <1>3 DEF Past, StaysBegun
  <2>2. pc[q] \in Over
    BY <2>1 DEF Rows
  <2>3. /\ pc[q] = "succeeded" /\ op[q] = op'[q] /\ token[q] = token'[q] /\ preceding'[q] = preceding[q]
        /\ q \notin botched
    BY <1>0, <2>2 DEF Past, StaysBegun, StaysOver, Over
  <2>4. CASE found'[r] = found[r]
    BY <2>1, <2>3, <2>4 DEF SpentRowsStaySpent
  <2>5. CASE GetRefreshToken(r) /\ found'[r] # found[r]
    <3>1. found'[r] \in rows /\ hashOf[found'[r]] = token[r]
      BY <2>5 DEF GetRefreshToken, Typed, TypeOK
    <3> QED
      BY <1>0, <2>1, <2>3, <3>1 DEF Gone
  <2>6. CASE ~GetRefreshToken(r) /\ found'[r] # found[r]
    <3>1. Moves(r)
      BY <2>6, OneMoves DEF Same
    <3> QED
      BY <1>3, <2>6, <3>1 DEF Moves, Begin, LookUp, CreateUser, Validate, CheckExpiry,
         DeleteRefreshToken, GetUserByID, GenerateTokens, SaveRefreshToken, Fail
  <2> QED
    BY <2>4, <2>5, <2>6
<1>4. CASE pc[r] = "idle" /\ Moves(r) /\ ~Begin(r)
  BY <1>4 DEF Moves, LookUp, CreateUser, Validate, GetRefreshToken, CheckExpiry, DeleteRefreshToken,
     GetUserByID, GenerateTokens, SaveRefreshToken, Fail, Deleting
<1> QED
  BY <1>1, <1>2, <1>3, <1>4

(* A row that was there when a logout or a refresh with its token began is *)
(* not found by a refresh that begins after that one has succeeded, unless *)
(* its delete failed: a spent token is worth nothing.                      *)
THEOREM SpentCorrect == Spec => []SpentRowsStaySpent
<1>1. Init => Rows /\ Gone /\ SpentRowsStaySpent
  BY DEF Init, Rows, Gone, SpentRowsStaySpent
<1> QED
  BY InitTyped, StepTyped, StepRows, StepGone, StepSpent, <1>1, PTL DEF Spec
=============================================================================
