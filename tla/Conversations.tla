--------------------------- MODULE Conversations ---------------------------
(***************************************************************************)
(* CreateConversation: the service looks for a direct conversation of the  *)
(* two users and otherwise creates one in a transaction of several         *)
(* statements.  Requests interleave statement by statement; PostgreSQL     *)
(* runs them at read committed and shows others what is committed.         *)
(*                                                                         *)
(* The service compares user ids as strings, the database as UUIDs, of     *)
(* which each has several spellings: a request holds names, a row a user.  *)
(***************************************************************************)
EXTENDS Naturals, FiniteSets

CONSTANTS Users,      \* user ids as the database, and so a token, writes them
          Names,      \* what a request may hold for one: these, other
                      \* spellings of them, ids of nobody
          Person,     \* Person[n]: the user the database takes n for, or None
          Requests,   \* bound: calls of CreateConversation; also names the
                      \* conversation a call inserts
          MaxOthers,  \* bound: ids in the body of a call
          MaxFailures, \* bound: statements that fail, processes that die
          None        \* no conversation, nobody

ASSUME ConversationsAssumption ==
  /\ IsFiniteSet(Names) /\ Users \subseteq Names
  /\ Person \in [Names -> Users \cup {None}]
  /\ \A u \in Users : Person[u] = u
  /\ None \notin Requests \cup Users /\ MaxFailures \in Nat /\ MaxOthers \in Nat

Persons(names) == {Person[n] : n \in names}

VARIABLES
  unique,    \* the deduplicated names of a request, the creator's included
  pc,        \* where the request is
  toInsert,  \* names its transaction has still to insert
  rows,      \* conversation_participants: conversation -> users
  committed, \* conversations whose transaction has committed
  answer,    \* the conversation a request returned,
  listed,    \* and the participants the answer lists
  cut,       \* history: requests whose list of participants broke off
  preceding, \* history: requests over when this one began
  failures

reply == <<answer, listed, cut>>
vars == <<unique, pc, toInsert, rows, committed, reply, preceding, failures>>

Over == {"succeeded", "failed"}

Init ==
  /\ unique = [r \in Requests |-> {}]
  /\ pc = [r \in Requests |-> "idle"]
  /\ toInsert = [r \in Requests |-> {}]
  /\ rows = [r \in Requests |-> {}]
  /\ committed = {}
  /\ answer = [r \in Requests |-> None]
  /\ listed = [r \in Requests |-> {}]
  /\ cut = {}
  /\ preceding = [r \in Requests |-> {}]
  /\ failures = 0

Goto(r, label) == pc' = [pc EXCEPT ![r] = label]
-----------------------------------------------------------------------------
(* Pieces of the operation, each after a slip the code could have had.     *)

(* Others see a conversation when it is committed; the slip runs its       *)
(* statements outside a transaction.                                       *)
VisibleAtOnce(c) == rows[c] # {}
Visible(c) == c \in committed

(* FindDirectConversation wants both users and nobody else; when both are  *)
(* the same, any conversation that user has with one other will do.        *)
SharedBy(c, s) == Visible(c) /\ Persons(s) \subseteq rows[c]
DirectOf(c, s) == Visible(c) /\ Persons(s) \subseteq rows[c] /\ Cardinality(rows[c]) = 2

(* Two names, it seems, have a conversation to find.                       *)
NeverLooks(s) == FALSE
IsDirect(s) == Cardinality(s) = 2

(* The loop inserts all participants; the slip starts it one too late.     *)
AllButFirst(r) == unique[r] \ {CHOOSE n \in unique[r] : TRUE}
Participants(r) == unique[r]

(* The schema wants a participant to be a user, and to be one only once.   *)
FitsSchema(r, n) == Person[n] \in Users \ rows[r]
-----------------------------------------------------------------------------
Begin(r, user, others) ==
  /\ pc[r] = "idle" /\ Cardinality(others) <= MaxOthers
  /\ LET s == others \cup {user} IN
       /\ unique' = [unique EXCEPT ![r] = s]
       /\ Goto(r, IF Cardinality(s) < 2 THEN "failed"
                  ELSE IF IsDirect(s) THEN "find" ELSE "insert")
  /\ preceding' = [preceding EXCEPT ![r] = {q \in Requests : pc[q] \in Over}]
  /\ UNCHANGED <<toInsert, rows, committed, reply, failures>>

(* One of the matches, if any, is read again by id and returned.           *)
FindDirectConversation(r) ==
  /\ pc[r] = "find"
  /\ \/ \E c \in Requests :
          /\ DirectOf(c, unique[r])
          /\ answer' = [answer EXCEPT ![r] = c]
          /\ Goto(r, "get")
     \/ /\ \A c \in Requests : ~DirectOf(c, unique[r])
        /\ Goto(r, "insert")
        /\ UNCHANGED answer
  /\ UNCHANGED <<unique, toInsert, rows, committed, listed, cut, preceding, failures>>

(* When the connection breaks between the participants, rows.Next ends the *)
(* loop, nobody asks rows.Err, and those read by then pass for all.        *)
GetConversation(r) ==
  /\ pc[r] = "get"
  /\ Goto(r, "succeeded")
  /\ \/ /\ listed' = [listed EXCEPT ![r] = rows[answer[r]]]
        /\ UNCHANGED <<cut, failures>>
     \/ /\ failures < MaxFailures /\ failures' = failures + 1
        /\ \E s \in SUBSET rows[answer[r]] : listed' = [listed EXCEPT ![r] = s]
        /\ cut' = cut \cup {r}
  /\ UNCHANGED <<unique, toInsert, rows, committed, answer, preceding>>

InsertConversation(r) ==
  /\ pc[r] = "insert"
  /\ toInsert' = [toInsert EXCEPT ![r] = Participants(r)]
  /\ Goto(r, "participants")
  /\ UNCHANGED <<unique, rows, committed, reply, preceding, failures>>

InsertParticipant(r, n) ==
  /\ pc[r] = "participants" /\ n \in toInsert[r] /\ FitsSchema(r, n)
  /\ toInsert' = [toInsert EXCEPT ![r] = @ \ {n}]
  /\ rows' = [rows EXCEPT ![r] = @ \cup {Person[n]}]
  /\ UNCHANGED <<unique, pc, committed, reply, preceding, failures>>

Commit(r) ==
  /\ pc[r] = "participants" /\ toInsert[r] = {}
  /\ committed' = committed \cup {r}
  /\ answer' = [answer EXCEPT ![r] = r]
  /\ listed' = [listed EXCEPT ![r] = Persons(unique[r])]
  /\ Goto(r, "succeeded")
  /\ UNCHANGED <<unique, toInsert, rows, cut, preceding, failures>>

(* The deferred Rollback, or the database on its own, undoes the rows.     *)
RollBack(r) ==
  /\ Goto(r, "failed")
  /\ toInsert' = [toInsert EXCEPT ![r] = {}]
  /\ rows' = [rows EXCEPT ![r] = {}]

(* The INSERT of a participant who is there already, or nobody, fails.     *)
RefuseParticipant(r, n) ==
  /\ pc[r] = "participants" /\ n \in toInsert[r] /\ ~FitsSchema(r, n)
  /\ RollBack(r)
  /\ UNCHANGED <<unique, committed, reply, preceding, failures>>

(* A statement fails, or the process dies.                                 *)
Fail(r) ==
  /\ failures < MaxFailures /\ failures' = failures + 1
  /\ pc[r] \in {"find", "get", "insert", "participants"}
  /\ RollBack(r)
  /\ answer' = [answer EXCEPT ![r] = None]
  /\ UNCHANGED <<unique, committed, listed, cut, preceding>>

(* A Commit whose reply is lost has committed all the same.                *)
CommitUnheard(r) ==
  /\ failures < MaxFailures /\ failures' = failures + 1
  /\ pc[r] = "participants" /\ toInsert[r] = {}
  /\ committed' = committed \cup {r}
  /\ Goto(r, "failed")
  /\ UNCHANGED <<unique, toInsert, rows, reply, preceding>>

Next ==
  \E r \in Requests :
    \/ \E user \in Users, others \in SUBSET Names : Begin(r, user, others)
    \/ FindDirectConversation(r) \/ GetConversation(r) \/ InsertConversation(r)
    \/ \E n \in Names : InsertParticipant(r, n) \/ RefuseParticipant(r, n)
    \/ Commit(r) \/ Fail(r) \/ CommitUnheard(r)

Spec == Init /\ [][Next]_vars
-----------------------------------------------------------------------------
(* Types, and a transaction has exactly the rest of its rows to insert.    *)
TypeOK ==
  /\ unique \in [Requests -> SUBSET Names]
  /\ pc \in [Requests -> Over \cup {"idle", "find", "get", "insert", "participants"}]
  /\ toInsert \in [Requests -> SUBSET Names]
  /\ rows \in [Requests -> SUBSET Users]
  /\ \A r \in Requests :
       pc[r] = "participants" => rows[r] = Persons(unique[r] \ toInsert[r])
  /\ committed \in SUBSET Requests
  /\ answer \in [Requests -> Requests \cup {None}]
  /\ listed \in [Requests -> SUBSET Users]
  /\ cut \in SUBSET Requests
  /\ preceding \in [Requests -> SUBSET Requests]
  /\ failures \in 0 .. MaxFailures

(* Nobody ever sees part of a conversation: a visible one has all the      *)
(* participants it was asked for, of whom there are two at least, whatever *)
(* statement failed and whenever the process died.  A request that names a *)
(* person twice never makes one.                                           *)
NoPartialConversation ==
  \A c \in Requests : Visible(c) =>
    /\ rows[c] = Persons(unique[c])
    /\ Cardinality(rows[c]) = Cardinality(unique[c]) /\ Cardinality(rows[c]) >= 2

(* A successful answer is a visible conversation of exactly the people     *)
(* asked for, and lists them, unless the list broke off.  But a request    *)
(* that has two names for its creator, and no other, is answered with any  *)
(* conversation of the creator and one other.                              *)
AnswerFitsRequest ==
  \A r \in Requests : pc[r] = "succeeded" =>
    /\ answer[r] \in committed
    /\ \/ rows[answer[r]] = Persons(unique[r])
       \/ /\ Cardinality(rows[answer[r]]) = 2
          /\ \E u \in rows[answer[r]] : Persons(unique[r]) = {u}
    /\ listed[r] = rows[answer[r]] \/ r \in cut

(* A request for two people that begins after another such request has     *)
(* succeeded inserts nothing, however their ids are spelled: only          *)
(* overlapping calls can make duplicates.                                  *)
DuplicatesOverlap ==
  \A r \in committed : \A q \in preceding[r] : pc[q] = "succeeded" =>
    Persons(unique[q]) # Persons(unique[r]) \/ Cardinality(Persons(unique[r])) > 2
=============================================================================
