------------------------------ MODULE History ------------------------------
(***************************************************************************)
(* Reading while others write: the pages of GetMessages and the list of    *)
(* GetUserConversations, statement by statement, against overlapping       *)
(* CreateMessage calls.  Each statement sees what is committed when it     *)
(* runs.  A row gets its created_at when its insert begins and is visible  *)
(* when that commits; readings of the clock may coincide.                  *)
(*                                                                         *)
(* A reader walks a conversation backwards, each call taking the last      *)
(* message of the one before as its cursor, or lists the conversations.    *)
(* Nothing ever changes who takes part, so that all conversations are the  *)
(* reader's, and the checks and loads of participants are left out.  The   *)
(* created_at of a cursor never changes either: looking it up is part of   *)
(* the query.                                                              *)
(***************************************************************************)
EXTENDS Naturals, Sequences, FiniteSets

CONSTANTS Convs, Messages, \* the conversations, and the messages sent in a behaviour
          Limits,          \* the limits the reader asks for; 0 stands for any below 1
          DefaultLimit, MaxLimit, \* 50 and 100 in the code
          MaxFaults,       \* bound: statements that fail
          None             \* no message

ASSUME HistoryAssumption ==
  /\ IsFiniteSet(Convs) /\ IsFiniteSet(Messages) /\ None \notin Messages
  /\ Limits \subseteq Nat /\ MaxFaults \in Nat /\ MaxLimit \in Nat
  /\ DefaultLimit \in 1 .. MaxLimit

VARIABLES
  now,       \* the database clock
  pc,        \* where the CreateMessage of each message is
  conv, createdAt, \* its conversation and created_at
  touch,     \* the NOW() of its UPDATE
  stored,    \* committed rows of messages
  updatedAt, \* conversations.updated_at
  preceding, \* history: the sends over when this one began
  reader,    \* what the reader is doing
  room,      \* the conversation whose history it reads
  shown,     \* the messages it has got so far
  cut,       \* history: a page of this walk was cut short
  limit,     \* the LIMIT of the query it is about to make, or 0
  queue,     \* conversations the list has still to fill in, in its order
  last,      \* the LastMessage of the others
  known,     \* history: messages stored when the walk or the list began
  blank,     \* history: conversations left out, or whose last message could not
             \* be read
  faults

writers == <<now, pc, conv, createdAt, touch, stored, updatedAt, preceding>>
walk == <<room, shown, cut, limit>>
list == <<queue, last, blank>>
vars == <<writers, reader, walk, list, known, faults>>

Over == {"idle", "sent", "failed"}
Of(c) == {m \in stored : conv[m] = c}

Init ==
  /\ now = 0
  /\ pc = [m \in Messages |-> "idle"]
  /\ \E c \in Convs : room = c /\ conv = [m \in Messages |-> c]
  /\ createdAt = [m \in Messages |-> 0]
  /\ touch = [m \in Messages |-> 0]
  /\ stored = {}
  /\ updatedAt = [c \in Convs |-> 0]
  /\ preceding = [m \in Messages |-> {}]
  /\ reader = "idle"
  /\ shown = <<>>
  /\ cut = FALSE
  /\ limit = 0
  /\ queue = <<>>
  /\ last = [c \in Convs |-> None]
  /\ known = {}
  /\ blank = {}
  /\ faults = 0

Goto(m, label) == pc' = [pc EXCEPT ![m] = label]
Fault == faults < MaxFaults /\ faults' = faults + 1
-----------------------------------------------------------------------------
(* Pieces of the operations, each after a slip the code could have had.    *)

(* created_at < $2; the slip is <=.                                        *)
UpToCursor(m) == shown = <<>> \/ createdAt[m] <= createdAt[shown[Len(shown)]]
BeforeCursor(m) == shown = <<>> \/ createdAt[m] < createdAt[shown[Len(shown)]]

(* A limit out of range is replaced; the slip takes it as it is.           *)
AsAsked(l) == l
Effective(l) == IF l \in 1 .. MaxLimit THEN l ELSE DefaultLimit

(* ORDER BY created_at DESC; the slip forgets DESC.                        *)
OldestFirst(m, n) == createdAt[m] <= createdAt[n]
NewestFirst(m, n) == createdAt[m] >= createdAt[n]

(* SET updated_at = NOW(); the slip leaves the old time.                   *)
TimeBefore(m) == updatedAt[conv[m]]
TimeOfTouch(m) == touch[m]

(* LIMIT n of the rows S; rows with one created_at come in any order.      *)
Query(S, n) ==
  {s \in UNION {[1 .. k -> S] : k \in 0 .. n} :
     /\ \A i, j \in DOMAIN s : i < j => s[i] # s[j] /\ NewestFirst(s[i], s[j])
     /\ LET rest == S \ {s[i] : i \in DOMAIN s} IN
          /\ rest # {} => Len(s) = n
          /\ \A i \in DOMAIN s, m \in rest : NewestFirst(s[i], m)}
-----------------------------------------------------------------------------
(* CreateMessage: an insert, then an UPDATE, each committed by itself.     *)

BeginInsert(m, c, t) ==
  /\ pc[m] = "idle" /\ t \in {now, now + 1}
  /\ now' = t
  /\ conv' = [conv EXCEPT ![m] = c]
  /\ createdAt' = [createdAt EXCEPT ![m] = t]
  /\ preceding' = [preceding EXCEPT ![m] = {n \in Messages : pc[n] \in Over \ {"idle"}}]
  /\ Goto(m, "inserting")
  /\ UNCHANGED <<touch, stored, updatedAt, reader, walk, list, known, faults>>

CommitInsert(m) ==
  /\ pc[m] = "inserting"
  /\ stored' = stored \cup {m}
  /\ Goto(m, "stored")
  /\ UNCHANGED <<now, conv, createdAt, touch, updatedAt, preceding, reader, walk, list, known, faults>>

BeginTouch(m) ==
  /\ pc[m] = "stored"
  /\ touch' = [touch EXCEPT ![m] = now]
  /\ Goto(m, "touching")
  /\ UNCHANGED <<now, conv, createdAt, stored, updatedAt, preceding, reader, walk, list, known, faults>>

CommitTouch(m) ==
  /\ pc[m] = "touching"
  /\ updatedAt' = [updatedAt EXCEPT ![conv[m]] = TimeOfTouch(m)]
  /\ touch' = [touch EXCEPT ![m] = 0]
  /\ Goto(m, "sent")
  /\ UNCHANGED <<now, conv, createdAt, stored, preceding, reader, walk, list, known, faults>>

(* A statement of a send fails, its effect lost; the other case, of a      *)
(* committed insert whose reply is lost, is a failure of the next one.     *)
SendFails(m) ==
  /\ pc[m] \in {"inserting", "stored", "touching"}
  /\ Fault
  /\ Goto(m, "failed")
  /\ UNCHANGED <<now, conv, createdAt, touch, stored, updatedAt, preceding, reader, walk, list, known>>
-----------------------------------------------------------------------------
(* GetMessages.                                                            *)

FirstPage(c, l) ==
  /\ reader \in {"idle", "end"}
  /\ reader' = "page"
  /\ room' = c /\ limit' = Effective(l) /\ shown' = <<>> /\ cut' = FALSE
  /\ known' = stored
  /\ UNCHANGED <<writers, list, faults>>

NextPage(l) ==
  /\ reader = "idle" /\ shown # <<>>
  /\ reader' = "page"
  /\ limit' = Effective(l)
  /\ UNCHANGED <<writers, room, shown, cut, list, known, faults>>

(* A page shorter than the limit tells the reader that it is the last.     *)
GetMessages ==
  /\ reader = "page"
  /\ \E s \in Query({m \in Of(room) : BeforeCursor(m)}, limit) :
       /\ shown' = shown \o s
       /\ reader' = IF Len(s) < limit THEN "end" ELSE "idle"
  /\ limit' = 0
  /\ UNCHANGED <<writers, room, cut, list, known, faults>>

(* A statement fails, which is an error; or the connection breaks between  *)
(* two rows, which rows.Next takes for the last and nobody asks rows.Err,  *)
(* so that the reader cannot tell a page cut short from a last one.        *)
PageFails ==
  /\ reader = "page"
  /\ Fault
  /\ limit' = 0
  /\ \/ reader' = "idle" /\ UNCHANGED <<shown, cut>>
     \/ \E s \in Query({m \in Of(room) : BeforeCursor(m)}, limit) :
        \E n \in 0 .. Len(s) - 1 :
          /\ shown' = shown \o SubSeq(s, 1, n)
          /\ reader' = "end" /\ cut' = TRUE
  /\ UNCHANGED <<writers, room, list, known>>
-----------------------------------------------------------------------------
(* GetUserConversations.                                                   *)

BeginList ==
  /\ reader \in {"idle", "end"}
  /\ reader' = "list"
  /\ shown' = <<>> /\ cut' = FALSE /\ known' = stored
  /\ UNCHANGED <<writers, room, limit, list, faults>>

(* The query of the list, which a broken connection cuts short like a page. *)
Orders == {q \in [1 .. Cardinality(Convs) -> Convs] :
             \A i, j \in DOMAIN q : i < j => q[i] # q[j] /\ updatedAt[q[i]] >= updatedAt[q[j]]}
ListConversations ==
  /\ reader = "list"
  /\ reader' = "fill"
  /\ \E q \in Orders :
       \/ queue' = q /\ UNCHANGED <<blank, faults>>
       \/ /\ Fault
          /\ \E n \in 0 .. Len(q) - 1 :
               queue' = SubSeq(q, 1, n) /\ blank' = {q[i] : i \in n + 1 .. Len(q)}
  /\ UNCHANGED <<writers, walk, last, known>>

(* One turn of the loop: the newest message; an error leaves it out.       *)
LastMessage ==
  /\ reader = "fill" /\ queue # <<>>
  /\ queue' = Tail(queue)
  /\ \/ /\ \E s \in Query(Of(Head(queue)), 1) :
             last' = [last EXCEPT ![Head(queue)] = IF s = <<>> THEN None ELSE s[1]]
        /\ UNCHANGED <<blank, faults>>
     \/ /\ Fault
        /\ blank' = blank \cup {Head(queue)}
        /\ UNCHANGED last
  /\ UNCHANGED <<writers, reader, walk, known>>

(* The answer; a failing query for the participants is an error instead.   *)
EndList ==
  /\ \/ reader = "fill" /\ queue = <<>> /\ UNCHANGED faults
     \/ reader \in {"list", "fill"} /\ Fault
  /\ reader' = "idle" /\ queue' = <<>>
  /\ last' = [c \in Convs |-> None] /\ blank' = {} /\ known' = {}
  /\ UNCHANGED <<writers, walk>>
-----------------------------------------------------------------------------
Next ==
  \/ \E m \in Messages :
       \/ \E c \in Convs, t \in {now, now + 1} : BeginInsert(m, c, t)
       \/ CommitInsert(m) \/ BeginTouch(m) \/ CommitTouch(m) \/ SendFails(m)
  \/ \E l \in Limits : NextPage(l) \/ \E c \in Convs : FirstPage(c, l)
  \/ GetMessages \/ PageFails
  \/ BeginList \/ ListConversations \/ LastMessage \/ EndList

Spec == Init /\ [][Next]_vars
-----------------------------------------------------------------------------
Shown == {shown[i] : i \in DOMAIN shown}

(* Every variable has the type of the Go or SQL value it stands for, and   *)
(* no timestamp is ahead of the clock.                                     *)
TypeOK ==
  /\ now \in Nat
  /\ pc \in [Messages -> Over \cup {"inserting", "stored", "touching"}]
  /\ conv \in [Messages -> Convs]
  /\ createdAt \in [Messages -> 0 .. now] /\ touch \in [Messages -> 0 .. now]
  /\ stored \in SUBSET Messages
  /\ updatedAt \in [Convs -> 0 .. now]
  /\ preceding \in [Messages -> SUBSET Messages]
  /\ reader \in {"idle", "end", "page", "list", "fill"}
  /\ room \in Convs
  /\ shown \in Seq(Messages)
  /\ cut \in BOOLEAN
  /\ limit \in 0 .. MaxLimit
  /\ queue \in Seq(Convs)
  /\ last \in [Convs -> Messages \cup {None}]
  /\ known \in SUBSET Messages
  /\ blank \in SUBSET Convs
  /\ faults \in 0 .. MaxFaults

(* The pages of a walk, put together, go back in time and repeat nothing,  *)
(* whatever is sent meanwhile.                                             *)
PagesDescend ==
  \A i, j \in DOMAIN shown : i < j =>
    shown[i] # shown[j] /\ createdAt[shown[i]] >= createdAt[shown[j]]

(* A message that was stored when the walk began is not passed over: it is *)
(* among those shown once an older one is, even if a page was cut short;   *)
(* and when the last page is a short one, not cut, it was shown, or shares *)
(* its created_at with a message that was, which is all a cursor can tell. *)
NothingIsSkipped ==
  \A m \in known : conv[m] = room /\ reader \notin {"list", "fill"} =>
    /\ (\E n \in Shown : createdAt[n] < createdAt[m]) =>
         \E n \in Shown : n = m \/ createdAt[n] = createdAt[m]
    /\ reader = "end" /\ ~cut => \E n \in Shown : n = m \/ createdAt[n] = createdAt[m]

(* The list shows of each conversation a message at least as new as every  *)
(* one that was stored when the list was asked for, although each of its   *)
(* lines is of another time, unless the statement for it failed.           *)
ListIsFresh ==
  \A c \in Convs, m \in known :
    /\ reader = "fill" /\ c \notin {queue[i] : i \in DOMAIN queue} \cup blank
    /\ conv[m] = c
    => last[c] \in Of(c) /\ createdAt[last[c]] >= createdAt[m]

(* After a successful send its conversation is listed by a time no older   *)
(* than the message, unless a send to it overlapped this one.              *)
UpdatedAtIsRecent ==
  \A m \in Messages : pc[m] = "sent" =>
    \/ updatedAt[conv[m]] >= createdAt[m]
    \/ \E n \in Messages \ {m} :
         /\ pc[n] # "idle" /\ conv[n] = conv[m]
         /\ n \notin preceding[m] /\ m \notin preceding[n]
=============================================================================
