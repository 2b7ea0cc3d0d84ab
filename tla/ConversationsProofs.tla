------------------------ MODULE ConversationsProofs ------------------------
(***************************************************************************)
(* CreateConversation for any number of users, calls and failures: what is *)
(* visible is whole, answers fit, and only overlapping calls duplicate.    *)
(***************************************************************************)
EXTENDS Conversations, FiniteSetTheorems, TLAPS

(* A request for two names on its way to an insert has looked in vain for  *)
(* a conversation that a request before it could have made.                *)
Inserts(r) == pc[r] \in {"insert", "participants"} \/ r \in committed
LookedInVain ==
  \A r \in Requests : Inserts(r) /\ Cardinality(unique[r]) = 2 => \A q \in preceding[r] :
    pc[q] = "succeeded" => Persons(unique[q]) # Persons(unique[r])

(* A conversation of the people asked for, or of the only one and another. *)
Fits(t, s) ==
  \/ t = Persons(s)
  \/ Cardinality(t) = 2 /\ \E u \in t : Persons(s) = {u}

(* What a request has behind it at each place.                             *)
Progress ==
  \A r \in Requests :
    /\ pc[r] = "participants" =>
         /\ r \notin committed /\ toInsert[r] \subseteq unique[r]
         /\ Cardinality(rows[r]) + Cardinality(toInsert[r]) = Cardinality(unique[r])
    /\ pc[r] \in {"idle", "find", "get", "insert"} => r \notin committed /\ rows[r] = {}
    /\ pc[r] \in {"find", "get"} => Cardinality(unique[r]) = 2
    /\ pc[r] \in {"insert", "participants"} => Cardinality(unique[r]) >= 2
    /\ pc[r] \in {"get", "succeeded"} => answer[r] \in committed /\ Fits(rows[answer[r]], unique[r])
    /\ pc[r] = "succeeded" => listed[r] = rows[answer[r]] \/ r \in cut
    /\ pc[r] = "idle" => preceding[r] = {}
    /\ \A q \in preceding[r] : pc[q] \in Over

Inv == TypeOK /\ Progress /\ NoPartialConversation /\ LookedInVain

LEMMA NamesFinite ==
  ASSUME NEW s \in SUBSET Names
  PROVE  IsFiniteSet(s) /\ Cardinality(s) \in Nat
BY FS_Subset, FS_CardinalityType, ConversationsAssumption

LEMMA UsersFinite ==
  ASSUME NEW s \in SUBSET Users
  PROVE  IsFiniteSet(s) /\ Cardinality(s) \in Nat
BY NamesFinite, ConversationsAssumption

(* A direct conversation of a pair has exactly that pair as participants.  *)
LEMMA SamePair ==
  ASSUME NEW s \in SUBSET Users, NEW t \in SUBSET Users, s \subseteq t,
         Cardinality(s) = 2, Cardinality(t) = 2
  PROVE  s = t
BY UsersFinite, FS_Subset

(* Two names are two persons or one.                                       *)
LEMMA TwoNames ==
  ASSUME NEW s \in SUBSET Names, Cardinality(s) = 2
  PROVE  (\E a \in s : Persons(s) = {Person[a]}) \/ Cardinality(Persons(s)) = 2
<1>1. PICK a \in s : TRUE
  BY NamesFinite, FS_EmptySet
<1>2. IsFiniteSet(s \ {a}) /\ Cardinality(s \ {a}) = 1
  BY <1>1, NamesFinite, FS_RemoveElement
<1>3. PICK b : s \ {a} = {b}
  BY <1>2, FS_Singleton
<1>4. s = {a, b} /\ a \in s /\ b \in s
  BY <1>1, <1>3
<1>5. Persons(s) = {Person[a], Person[b]}
  BY <1>4 DEF Persons
<1>6. CASE Person[a] = Person[b]
  BY <1>1, <1>5, <1>6
<1>7. CASE Person[a] # Person[b]
  <2>1. IsFiniteSet({Person[b]}) /\ Cardinality({Person[b]}) = 1
    BY FS_Singleton
  <2>2. Cardinality({Person[b]} \cup {Person[a]}) = 2
    <3> DEFINE t == {Person[b]}
    <3>1. IsFiniteSet(t) /\ Cardinality(t) = 1 /\ Person[a] \notin t
      BY <1>7, <2>1
    <3> HIDE DEF t
    <3>2. Cardinality(t \cup {Person[a]}) = Cardinality(t) + 1
      BY <3>1, FS_AddElement
    <3>3. Cardinality(t \cup {Person[a]}) = 2
      BY <3>1, <3>2
    <3> QED
      BY <3>3 DEF t
  <2>3. Persons(s) = {Person[b]} \cup {Person[a]}
    BY <1>5
  <2> QED
    BY <2>2, <2>3
<1> QED
  BY <1>6, <1>7

(* What the look-up finds fits the request.                                *)
LEMMA FoundFits ==
  ASSUME NEW s \in SUBSET Names, Cardinality(s) = 2,
         NEW t \in SUBSET Users, Persons(s) \subseteq t, Cardinality(t) = 2
  PROVE  Fits(t, s)
<1>1. CASE \E a \in s : Persons(s) = {Person[a]}
  BY <1>1 DEF Fits
<1>2. CASE Cardinality(Persons(s)) = 2
  <2>1. Persons(s) = t
    BY <1>2, SamePair
  <2> QED
    BY <2>1 DEF Fits
<1> QED
  BY <1>1, <1>2, TwoNames

(* And the look-up finds what an earlier request for the same people made. *)
LEMMA FittingIsFound ==
  ASSUME NEW s \in SUBSET Names, NEW q \in SUBSET Names, Cardinality(s) = 2,
         NEW t \in SUBSET Users, Cardinality(t) >= 2, Fits(t, q), Persons(q) = Persons(s)
  PROVE  Persons(s) \subseteq t /\ Cardinality(t) = 2
<1>1. CASE t = Persons(q)
  <2>1. t = Persons(s)
    BY <1>1
  <2>2. CASE \E a \in s : Persons(s) = {Person[a]}
    <3>1. PICK a \in s : t = {Person[a]}
      BY <2>1, <2>2
    <3>2. Cardinality(t) = 1
      BY <3>1, FS_Singleton
    <3> QED
      BY <3>2
  <2>3. CASE Cardinality(Persons(s)) = 2
    BY <2>1, <2>3
  <2> QED
    BY <2>2, <2>3, TwoNames
<1>2. CASE Cardinality(t) = 2 /\ \E u \in t : Persons(q) = {u}
  BY <1>2
<1> QED
  BY <1>1, <1>2 DEF Fits

LEMMA InitInv == Init => Inv
<1> SUFFICES ASSUME Init PROVE Inv
  OBVIOUS
<1> USE ConversationsAssumption DEF Init, Over
<1>1. TypeOK
  BY DEF TypeOK
<1>2. Progress
  BY DEF Progress
<1>3. NoPartialConversation /\ LookedInVain
  BY DEF NoPartialConversation, Visible, LookedInVain, Inserts
<1> QED
  BY <1>1, <1>2, <1>3 DEF Inv

(* At its commit a transaction has inserted all the participants.          *)
LEMMA LoopDone ==
  ASSUME Inv, NEW r \in Requests, pc[r] = "participants", toInsert[r] = {}
  PROVE  /\ r \notin committed /\ rows[r] = Persons(unique[r])
         /\ Cardinality(rows[r]) = Cardinality(unique[r]) /\ Cardinality(rows[r]) >= 2
<1>1. rows[r] = Persons(unique[r] \ {}) /\ unique[r] \ {} = unique[r]
  BY DEF Inv, TypeOK
<1>2. Cardinality(rows[r]) \in Nat /\ Cardinality(toInsert[r]) = 0
  BY UsersFinite, FS_EmptySet DEF Inv, TypeOK
<1>3. /\ r \notin committed /\ Cardinality(unique[r]) >= 2
      /\ Cardinality(rows[r]) + Cardinality(toInsert[r]) = Cardinality(unique[r])
  BY DEF Inv, Progress
<1> QED
  BY <1>1, <1>2, <1>3

(* What holds of a running transaction between two turns of its loop.      *)
LoopState(r) ==
  /\ rows[r] \in SUBSET Users /\ toInsert[r] \subseteq unique[r]
  /\ rows[r] = Persons(unique[r] \ toInsert[r])
  /\ Cardinality(rows[r]) + Cardinality(toInsert[r]) = Cardinality(unique[r])

LEMMA LoopStarts ==
  ASSUME Inv, NEW r \in Requests, InsertConversation(r)
  PROVE  LoopState(r)'
<1>1. rows[r] = {} /\ unique[r] \in SUBSET Names
  BY DEF Inv, Progress, TypeOK, InsertConversation
<1>2. /\ rows'[r] = {} /\ toInsert'[r] = unique[r] /\ unique'[r] = unique[r]
  BY <1>1 DEF Inv, TypeOK, InsertConversation, Participants
<1>3. Persons(unique[r] \ unique[r]) = {} /\ Cardinality({}) = 0 /\ Cardinality(unique[r]) \in Nat
  BY <1>1, FS_EmptySet, NamesFinite DEF Persons
<1>4. Cardinality(rows'[r]) + Cardinality(toInsert'[r]) = Cardinality(unique'[r])
  BY <1>2, <1>3
<1> QED
  BY <1>2, <1>3, <1>4 DEF LoopState

LEMMA RowInserted ==
  ASSUME Inv, NEW r \in Requests, NEW n \in Names, InsertParticipant(r, n)
  PROVE  LoopState(r)'
<1> DEFINE t == rows[r]
           todo == toInsert[r]
           s == unique[r]
<1>1. pc[r] = "participants"
  BY DEF InsertParticipant
<1>2. /\ t \in SUBSET Users /\ todo \in SUBSET s /\ n \in todo /\ s \in SUBSET Names
      /\ t = Persons(s \ todo) /\ Person[n] \in Users \ t
  BY <1>1 DEF InsertParticipant, FitsSchema, Inv, TypeOK, Progress
<1>3. Cardinality(t) + Cardinality(todo) = Cardinality(s)
  BY <1>1 DEF Inv, Progress
<1>4. rows'[r] = t \cup {Person[n]} /\ toInsert'[r] = todo \ {n} /\ unique'[r] = s
  BY DEF InsertParticipant, Inv, TypeOK
<1> HIDE DEF t, todo, s
<1>5. t \cup {Person[n]} = Persons(s \ (todo \ {n}))
  <2>1. s \ (todo \ {n}) = (s \ todo) \cup {n}
    BY <1>2
  <2> QED
    BY <1>2, <2>1 DEF Persons
<1>6. IsFiniteSet(t) /\ Cardinality(t) \in Nat /\ IsFiniteSet(todo) /\ Cardinality(todo) \in Nat
  <2>1. todo \in SUBSET Names
    BY <1>2
  <2> QED
    BY <1>2, <2>1, UsersFinite, NamesFinite
<1>7. Cardinality(t \cup {Person[n]}) = Cardinality(t) + 1
  BY <1>2, <1>6, FS_AddElement
<1>8. Cardinality(todo \ {n}) = Cardinality(todo) - 1
  BY <1>2, <1>6, FS_RemoveElement
<1> DEFINE a == Cardinality(t)
           b == Cardinality(todo)
<1>9. Cardinality(t \cup {Person[n]}) + Cardinality(todo \ {n}) = Cardinality(s)
  <2>1. a \in Nat /\ b \in Nat
    BY <1>6
  <2> HIDE DEF a, b
  <2>2. (a + 1) + (b - 1) = a + b
    BY <2>1
  <2> QED
    BY <1>3, <1>7, <1>8, <2>2 DEF a, b
<1> QED
  BY <1>2, <1>4, <1>5, <1>9 DEF LoopState

(* A turn of the loop leaves every other transaction its rows.             *)
LEMMA OthersKeepRows ==
  ASSUME Inv, NEW r \in Requests, LoopState(r)',
         InsertConversation(r) \/ \E n \in Names : InsertParticipant(r, n)
  PROVE  \A q \in Requests :
           pc'[q] = "participants" => rows'[q] = Persons(unique'[q] \ toInsert'[q])
<1>1. \A q \in Requests : q # r => /\ toInsert'[q] = toInsert[q] /\ pc'[q] = pc[q]
                                   /\ rows'[q] = rows[q] /\ unique'[q] = unique[q]
  BY DEF Inv, TypeOK, InsertConversation, InsertParticipant, Goto
<1>2. rows'[r] = Persons(unique'[r] \ toInsert'[r])
  BY DEF LoopState, Persons
<1>3. \A q \in Requests : pc[q] = "participants" => rows[q] = Persons(unique[q] \ toInsert[q])
  BY DEF Inv, TypeOK
<1>4. ASSUME NEW q \in Requests, q # r, pc'[q] = "participants"
      PROVE  rows'[q] = Persons(unique'[q] \ toInsert'[q])
  <2>1. /\ toInsert'[q] = toInsert[q] /\ pc'[q] = pc[q]
        /\ rows'[q] = rows[q] /\ unique'[q] = unique[q]
    BY <1>1, <1>4
  <2> QED
    BY <1>3, <1>4, <2>1
<1> QED
  BY <1>2, <1>4

LEMMA StepInv == Inv /\ [Next]_vars => Inv'
<1> SUFFICES ASSUME Inv, [Next]_vars PROVE Inv'
  OBVIOUS
<1> USE ConversationsAssumption DEF Inv, TypeOK, Progress, NoPartialConversation, Visible,
    LookedInVain, Inserts, Over, Goto, reply, RollBack
<1>1. ASSUME NEW r \in Requests, NEW user \in Users, NEW others \in SUBSET Names,
             Begin(r, user, others)
      PROVE  Inv'
  <2>0. others \cup {user} \in SUBSET Names /\ Cardinality(others \cup {user}) \in Nat
    BY NamesFinite
  <2> USE <1>1 DEF Begin, IsDirect
  <2> USE <2>0
  <2>1. TypeOK'
    OBVIOUS
  <2>2. Progress'
    OBVIOUS
  <2>3. NoPartialConversation'
    OBVIOUS
  <2>4. LookedInVain'
    OBVIOUS
  <2> QED
    BY <2>1, <2>2, <2>3, <2>4
<1>2. ASSUME NEW r \in Requests, FindDirectConversation(r) PROVE Inv'
  <2>1. CASE /\ pc' = [pc EXCEPT ![r] = "get"]
             /\ \E c \in Requests : DirectOf(c, unique[r]) /\ answer' = [answer EXCEPT ![r] = c]
    <3>1. PICK c \in Requests : DirectOf(c, unique[r]) /\ answer' = [answer EXCEPT ![r] = c]
      BY <2>1
    <3>2. c \in committed /\ Fits(rows[c], unique[r])
      BY <1>2, <3>1, FoundFits DEF DirectOf, FindDirectConversation
    <3> QED
      BY <1>2, <2>1, <3>1, <3>2 DEF FindDirectConversation
  <2>2. CASE /\ pc' = [pc EXCEPT ![r] = "insert"] /\ UNCHANGED answer
             /\ \A c \in Requests : ~DirectOf(c, unique[r])
    <3>1. ASSUME NEW q \in preceding[r], pc[q] = "succeeded", Persons(unique[q]) = Persons(unique[r])
          PROVE  FALSE
      <4>1. /\ answer[q] \in committed /\ Fits(rows[answer[q]], unique[q])
            /\ Cardinality(rows[answer[q]]) >= 2 /\ Cardinality(unique[r]) = 2
        BY <1>2, <3>1 DEF FindDirectConversation
      <4>2. Persons(unique[r]) \subseteq rows[answer[q]] /\ Cardinality(rows[answer[q]]) = 2
        BY <3>1, <4>1, FittingIsFound
      <4> QED
        BY <2>2, <4>1, <4>2 DEF DirectOf
    <3>2. TypeOK' /\ Progress' /\ NoPartialConversation'
      BY <1>2, <2>2 DEF FindDirectConversation
    <3>3. LookedInVain'
      BY <1>2, <2>2, <3>1 DEF FindDirectConversation
    <3> QED
      BY <3>2, <3>3
  <2> QED
    BY <1>2, <2>1, <2>2 DEF FindDirectConversation
<1>3. ASSUME NEW r \in Requests, GetConversation(r) PROVE Inv'
  <2> USE <1>3 DEF GetConversation
  <2>1. TypeOK'
    OBVIOUS
  <2>2. Progress'
    OBVIOUS
  <2>3. NoPartialConversation' /\ LookedInVain'
    OBVIOUS
  <2> QED
    BY <2>1, <2>2, <2>3
<1>4. ASSUME NEW r \in Requests, InsertConversation(r) PROVE Inv'
  <2>1. LoopState(r)' /\ pc[r] = "insert"
    BY <1>4, LoopStarts DEF InsertConversation
  <2>6. \A q \in Requests : pc'[q] = "participants" => rows'[q] = Persons(unique'[q] \ toInsert'[q])
    <3> HIDE DEF Inv, TypeOK, Progress, Goto, reply
    <3> QED
      BY <1>4, <2>1, OthersKeepRows
  <2> USE <1>4 DEF InsertConversation, LoopState
  <2>7. toInsert' \in [Requests -> SUBSET Names] /\ pc' = [pc EXCEPT ![r] = "participants"]
    BY DEF Participants
  <2> HIDE DEF LoopState
  <2>2. TypeOK'
    BY <2>6, <2>7
  <2> USE DEF LoopState
  <2>3. Progress'
    BY <2>1
  <2>4. NoPartialConversation' /\ LookedInVain'
    BY <2>1
  <2> QED
    BY <2>2, <2>3, <2>4
<1>5. ASSUME NEW r \in Requests, NEW n \in Names, InsertParticipant(r, n) PROVE Inv'
  <2>1. LoopState(r)' /\ pc[r] = "participants"
    BY <1>5, RowInserted DEF InsertParticipant
  <2>6. \A q \in Requests : pc'[q] = "participants" => rows'[q] = Persons(unique'[q] \ toInsert'[q])
    <3> HIDE DEF Inv, TypeOK, Progress, Goto, reply
    <3> QED
      BY <1>5, <2>1, OthersKeepRows
  <2> USE <1>5 DEF InsertParticipant, LoopState
  <2>7. toInsert' \in [Requests -> SUBSET Names] /\ rows' \in [Requests -> SUBSET Users]
    BY DEF FitsSchema
  <2> HIDE DEF LoopState
  <2>2. TypeOK'
    BY <2>6, <2>7
  <2> USE DEF LoopState
  <2>3. Progress'
    BY <2>1
  <2>4. NoPartialConversation' /\ LookedInVain'
    BY <2>1
  <2> QED
    BY <2>2, <2>3, <2>4
<1>6. ASSUME NEW r \in Requests, Commit(r) PROVE Inv'
  <2> USE <1>6 DEF Commit
  <2>0. /\ r \notin committed /\ rows[r] = Persons(unique[r])
        /\ Cardinality(rows[r]) = Cardinality(unique[r]) /\ Cardinality(rows[r]) >= 2
    BY LoopDone
  <2>1. TypeOK'
    BY <2>0
  <2>2. Progress'
    BY <2>0 DEF Fits
  <2>3. NoPartialConversation'
    BY <2>0
  <2>4. LookedInVain'
    OBVIOUS
  <2> QED
    BY <2>1, <2>2, <2>3, <2>4
<1>7. ASSUME NEW r \in Requests, RollBack(r), pc[r] \in {"find", "get", "insert", "participants"},
             \/ UNCHANGED answer
             \/ answer' = [answer EXCEPT ![r] = None],
             failures' \in 0 .. MaxFailures, UNCHANGED <<unique, committed, listed, cut, preceding>>
      PROVE  Inv'
  <2> USE <1>7
  <2>0. \A q \in Requests : q \in committed => q # r /\ rows'[q] = rows[q]
    OBVIOUS
  <2>1. TypeOK'
    OBVIOUS
  <2>2. Progress'
    BY <2>0
  <2>3. NoPartialConversation'
    BY <2>0
  <2>4. LookedInVain'
    OBVIOUS
  <2> QED
    BY <2>1, <2>2, <2>3, <2>4
<1>8. ASSUME NEW r \in Requests, Fail(r) \/ \E n \in Names : RefuseParticipant(r, n) PROVE Inv'
  <2>1. /\ RollBack(r) /\ pc[r] \in {"find", "get", "insert", "participants"}
        /\ UNCHANGED answer \/ answer' = [answer EXCEPT ![r] = None]
        /\ failures' \in 0 .. MaxFailures /\ UNCHANGED <<unique, committed, listed, cut, preceding>>
    BY <1>8 DEF Fail, RefuseParticipant
  <2> QED
    BY <1>7, <2>1
<1>9. ASSUME NEW r \in Requests, CommitUnheard(r) PROVE Inv'
  <2> USE <1>9 DEF CommitUnheard
  <2>0. /\ r \notin committed /\ rows[r] = Persons(unique[r])
        /\ Cardinality(rows[r]) = Cardinality(unique[r]) /\ Cardinality(rows[r]) >= 2
    BY LoopDone
  <2>1. TypeOK'
    OBVIOUS
  <2>2. Progress'
    OBVIOUS
  <2>3. NoPartialConversation'
    BY <2>0
  <2>4. LookedInVain'
    OBVIOUS
  <2> QED
    BY <2>1, <2>2, <2>3, <2>4
<1>10. CASE UNCHANGED vars
  BY <1>10 DEF vars
<1> QED
  BY <1>1, <1>2, <1>3, <1>4, <1>5, <1>6, <1>8, <1>9, <1>10 DEF Next

(* Every variable keeps its type.                                          *)
THEOREM TypeCorrect == Spec => []TypeOK
<1>1. Inv => TypeOK
  BY DEF Inv
<1> QED
  BY InitInv, StepInv, <1>1, PTL DEF Spec

(* A conversation is visible with all its participants or not at all.      *)
THEOREM WholeOrNothing == Spec => []NoPartialConversation
<1>1. Inv => NoPartialConversation
  BY DEF Inv
<1> QED
  BY InitInv, StepInv, <1>1, PTL DEF Spec

(* A successful answer is a committed conversation of exactly the people   *)
(* asked for, and lists them; but for a list that broke off, and a request *)
(* that named its creator twice and nobody else.                           *)
THEOREM AnswersFit == Spec => []AnswerFitsRequest
<1>1. Inv => AnswerFitsRequest
  BY DEF Inv, Progress, Fits, AnswerFitsRequest
<1> QED
  BY InitInv, StepInv, <1>1, PTL DEF Spec

(* Two direct conversations of the same pair come from overlapping calls.  *)
THEOREM OnlyOverlapDuplicates == Spec => []DuplicatesOverlap
<1>1. Inv => DuplicatesOverlap
  <2> SUFFICES ASSUME Inv, NEW r \in committed, NEW q \in preceding[r], pc[q] = "succeeded",
                      Persons(unique[q]) = Persons(unique[r])
               PROVE  Cardinality(Persons(unique[r])) > 2
    BY DEF DuplicatesOverlap
  <2>1. r \in Requests /\ unique[r] \in SUBSET Names /\ rows[r] \in SUBSET Users
    BY DEF Inv, TypeOK
  <2>2. /\ rows[r] = Persons(unique[r]) /\ Cardinality(rows[r]) = Cardinality(unique[r])
        /\ Cardinality(rows[r]) >= 2
    BY <2>1 DEF Inv, NoPartialConversation, Visible
  <2>3. Cardinality(unique[r]) # 2
    BY <2>1 DEF Inv, LookedInVain, Inserts
  <2>4. Cardinality(rows[r]) \in Nat
    BY <2>1, UsersFinite
  <2> QED
    BY <2>2, <2>3, <2>4
<1> QED
  BY InitInv, StepInv, <1>1, PTL DEF Spec
=============================================================================
