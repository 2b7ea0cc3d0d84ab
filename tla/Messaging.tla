----------------------------- MODULE Messaging -----------------------------
(***************************************************************************)
(* The messaging service: SendMessage, MarkRead and HandleTyping, statement *)
(* by statement over the store, then fan-out through the hub.  Requests    *)
(* come over HTTP or as events a readPump reads from a WebSocket.          *)
(*                                                                         *)
(* A request inserts at most one message and fans out at most one event,   *)
(* so the request also names its message and its event.  Hub shows that a  *)
(* call of SendToUser reaches every device or finds its channel full; here *)
(* it is one step, to the one device of each user.                         *)
(***************************************************************************)
EXTENDS Naturals, Sequences, FiniteSets

CONSTANTS Users, Convs,
          Members,     \* Members[c]: the participants of conversation c
          Active,      \* bound: the users who ever ask for something,
          Devices,     \* and those who ever connect
          Requests,    \* bound: the requests and WebSocket events of a behaviour
          Kinds,       \* the kinds of request of this instance
          MaxFaults,   \* bound: statements that fail, times the process is killed
          None         \* no user, no message

ASSUME MessagingAssumption ==
  /\ Users # {} /\ Convs # {}
  /\ Members \in [Convs -> SUBSET Users]
  /\ Kinds \subseteq {"send", "mark", "typing"} \X {"http", "ws"}
  /\ MaxFaults \in Nat /\ Active \cup Devices \subseteq Users
  /\ None \notin Users \cup Requests

VARIABLES
  up,        \* the process runs
  online,    \* users with a device registered with the hub
  inbox,     \* events the hub accepted for that device
  skipped,   \* history: events its full channel did not take
  absent,    \* history: participants that were offline when an event came to them
  stored,    \* rows of messages
  createdAt, \* their created_at
  readBy,    \* whose call set read_at; None while it is NULL
  now,       \* the database clock
  req,       \* parameters of each request
  pc,        \* where it is
  todo,      \* participants it has still to send its event to
  blind,     \* history: requests that could not load all the participants
  preceding, \* history: requests over when this one began
  faults

store == <<stored, createdAt, readBy, now>>
hub == <<online, inbox, skipped, absent>>
vars == <<up, hub, store, req, pc, todo, blind, preceding, faults>>

Params == [op : {"send", "mark", "typing"}, via : {"http", "ws"}, user : Users,
           conv : Convs, msg : Requests \cup {None}]
Over == {"idle", "succeeded", "failed", "lost"}
Running(r) == pc[r] \notin Over

Init ==
  /\ up = TRUE
  /\ online = {}
  /\ inbox = [u \in Users |-> <<>>]
  /\ skipped = [u \in Users |-> {}]
  /\ stored = {}
  /\ createdAt = [r \in Requests |-> 0]
  /\ readBy = [r \in Requests |-> None]
  /\ now = 0
  /\ req = [r \in Requests |-> CHOOSE p \in Params : TRUE]
  /\ pc = [r \in Requests |-> "idle"]
  /\ todo = [r \in Requests |-> {}]
  /\ absent = [r \in Requests |-> {}]
  /\ blind = {}
  /\ preceding = [r \in Requests |-> {}]
  /\ faults = 0

Goto(r, label) == pc' = [pc EXCEPT ![r] = label]
-----------------------------------------------------------------------------
(* Pieces of the operations, some after a slip the code could have had.    *)

IsParticipant(r) == req[r].user \in Members[req[r].conv]

(* UPDATE messages SET read_at ... WHERE id, sender_id != $2, read_at NULL: *)
(* the conversation the request names plays no part in it.                 *)
MarksRow(r) == /\ req[r].msg \in stored
               /\ req[req[r].msg].user # req[r].user
               /\ readBy[req[r].msg] = None

(* A failed statement ends the operation before its fan-out.               *)
IgnoreError(r) == Goto(r, "load")
ReturnError(r) == Goto(r, "failed")

(* The operation returns when its fan-out is over; the slip does not wait. *)
FanOutBegun(r) == TRUE
FanOutOver(r) == todo[r] = {}

(* A user without a device is passed over; the slip waits for one.         *)
Never(u) == FALSE
PassedOver(u) == u \notin online

(* Everyone in the conversation hears of it; a typist does not.            *)
AllButSelf(r) == Members[req[r].conv] \ {req[r].user}
Audience(r) == IF req[r].op = "typing" THEN Members[req[r].conv] \ {req[r].user}
                                       ELSE Members[req[r].conv]
-----------------------------------------------------------------------------
Connect(u) ==
  /\ up /\ u \in Devices \ online
  /\ online' = online \cup {u}
  /\ UNCHANGED <<up, inbox, skipped, absent, store, req, pc, todo, blind, preceding, faults>>

Disconnect(u) ==
  /\ u \in online
  /\ online' = online \ {u}
  /\ UNCHANGED <<up, inbox, skipped, absent, store, req, pc, todo, blind, preceding, faults>>

(* HTTP requests, and the events of different connections, run side by     *)
(* side.  A mark may name any message of any conversation, or the id of    *)
(* none; ids are random, so not one that is still to be stored.            *)
Begin(r, p) ==
  /\ up /\ pc[r] = "idle" /\ <<p.op, p.via>> \in Kinds /\ p.user \in Active
  /\ p.via = "ws" => p.user \in online
  /\ p.op = "mark" => p.msg \in stored \cup {None}
  /\ p.op # "mark" => p.msg = r
  /\ req' = [req EXCEPT ![r] = p]
  /\ preceding' = [preceding EXCEPT ![r] = {s \in Requests : pc[s] \in Over \ {"idle"}}]
  /\ Goto(r, IF p.op = "typing" THEN "load" ELSE "check")
  /\ UNCHANGED <<up, hub, store, todo, blind, faults>>

(* handleEvent passes a nil context to SendMessage and to MarkRead; asking *)
(* the pool for a connection with it panics, on a goroutine that nothing   *)
(* recovers: the process dies, and whatever ran in it.                     *)
NilContext(r) == req[r].via = "ws" /\ req[r].op # "typing"
Die == /\ up' = FALSE
       /\ online' = {}
       /\ pc' = [s \in Requests |-> IF Running(s) THEN "lost" ELSE pc[s]]
       /\ todo' = [s \in Requests |-> {}]
       /\ UNCHANGED <<inbox, skipped, absent, store, req, blind, preceding>>

CheckParticipant(r) ==
  /\ pc[r] = "check"
  /\ \/ /\ NilContext(r)
        /\ Die
        /\ UNCHANGED faults
     \/ /\ ~NilContext(r)
        /\ IF IsParticipant(r)
           THEN Goto(r, IF req[r].op = "send" THEN "insert" ELSE "mark")
           ELSE Goto(r, "failed")
        /\ UNCHANGED <<up, hub, store, req, todo, blind, preceding, faults>>

InsertRow(r) ==
  /\ stored' = stored \cup {r}
  /\ now' = now + 1
  /\ createdAt' = [createdAt EXCEPT ![r] = now + 1]
  /\ UNCHANGED readBy

MarkRow(r) ==
  /\ readBy' = IF MarksRow(r) THEN [readBy EXCEPT ![req[r].msg] = req[r].user] ELSE readBy
  /\ UNCHANGED <<stored, createdAt, now>>

(* The second statement sets updated_at of the conversation: see History.  *)
CreateMessage(r) ==
  /\ \/ pc[r] = "insert" /\ InsertRow(r) /\ Goto(r, "touch")
     \/ pc[r] = "touch" /\ Goto(r, "load") /\ UNCHANGED store
  /\ UNCHANGED <<up, hub, req, todo, blind, preceding, faults>>

MarkMessageRead(r) ==
  /\ pc[r] = "mark"
  /\ MarkRow(r)
  /\ Goto(r, "load")
  /\ UNCHANGED <<up, hub, req, todo, blind, preceding, faults>>

LoadParticipants(r) ==
  /\ pc[r] = "load"
  /\ todo' = [todo EXCEPT ![r] = Audience(r)]
  /\ Goto(r, "fanout")
  /\ UNCHANGED <<up, hub, store, req, blind, preceding, faults>>

(* A statement fails, its effect lost or (as when the connection breaks    *)
(* after a commit) not.  Failing to load the participants, the last one,   *)
(* is no error of the operation: there is just no fan-out.  And when the   *)
(* connection breaks between their rows, rows.Next ends the loop, nobody   *)
(* asks rows.Err, and those read by then pass for all.                     *)
StatementFails(r) ==
  /\ faults < MaxFaults /\ faults' = faults + 1
  /\ \/ /\ pc[r] \in {"check", "insert", "touch", "mark"} /\ ~NilContext(r)
        /\ ReturnError(r)
        /\ \/ pc[r] = "insert" /\ InsertRow(r)
           \/ pc[r] = "mark" /\ MarkRow(r)
           \/ UNCHANGED store
        /\ UNCHANGED <<todo, blind>>
     \/ /\ pc[r] = "load"
        /\ blind' = blind \cup {r}
        /\ \/ Goto(r, "succeeded") /\ UNCHANGED todo
           \/ /\ Goto(r, "fanout")
              /\ \E s \in SUBSET Audience(r) : todo' = [todo EXCEPT ![r] = s]
        /\ UNCHANGED store
  /\ UNCHANGED <<up, hub, req, preceding>>

(* One SendToUser of the loop: the channel of a connected user has room,   *)
(* or is full.                                                             *)
SendToUser(r, u) ==
  /\ u \in todo[r]
  /\ todo' = [todo EXCEPT ![r] = @ \ {u}]
  /\ \/ u \in online /\ inbox' = [inbox EXCEPT ![u] = Append(@, r)]
        /\ UNCHANGED <<skipped, absent>>
     \/ u \in online /\ skipped' = [skipped EXCEPT ![u] = @ \cup {r}]
        /\ UNCHANGED <<inbox, absent>>
     \/ PassedOver(u) /\ absent' = [absent EXCEPT ![r] = @ \cup {u}]
        /\ UNCHANGED <<inbox, skipped>>
  /\ UNCHANGED <<up, online, store, req, pc, blind, preceding, faults>>

Reply(r) ==
  /\ pc[r] = "fanout" /\ FanOutOver(r)
  /\ Goto(r, "succeeded")
  /\ UNCHANGED <<up, hub, store, req, todo, blind, preceding, faults>>

Crash == up /\ faults < MaxFaults /\ faults' = faults + 1 /\ Die
Restart == ~up /\ up' = TRUE
           /\ UNCHANGED <<hub, store, req, pc, todo, blind, preceding, faults>>
-----------------------------------------------------------------------------
Step(r) ==
  \/ CheckParticipant(r) \/ CreateMessage(r) \/ MarkMessageRead(r)
  \/ LoadParticipants(r) \/ (\E u \in Users : SendToUser(r, u)) \/ Reply(r)

Next ==
  \/ \E u \in Users : Connect(u) \/ Disconnect(u)
  \/ \E r \in Requests : Step(r) \/ StatementFails(r) \/ \E p \in Params : Begin(r, p)
  \/ Crash \/ Restart

(* A running request goes on; nothing makes anyone connect or ask, and     *)
(* nothing restarts the process (docker-compose.yml has no restart policy). *)
Spec == Init /\ [][Next]_vars /\ \A r \in Requests : WF_vars(Step(r))
-----------------------------------------------------------------------------
(* Every variable has the type of the Go or SQL value it stands for; only  *)
(* a fan-out has participants left to serve.                               *)
TypeOK ==
  /\ up \in BOOLEAN
  /\ online \in SUBSET Users
  /\ inbox \in [Users -> Seq(Requests)]
  /\ skipped \in [Users -> SUBSET Requests]
  /\ absent \in [Requests -> SUBSET Users]
  /\ stored \in SUBSET Requests
  /\ createdAt \in [Requests -> Nat]
  /\ readBy \in [Requests -> Users \cup {None}]
  /\ now \in Nat
  /\ req \in [Requests -> Params]
  /\ pc \in [Requests -> Over \cup {"check", "insert", "touch", "mark", "load", "fanout"}]
  /\ todo \in [Requests -> SUBSET Users]
  /\ \A r \in Requests : todo[r] # {} => pc[r] = "fanout"
  /\ blind \in SUBSET Requests
  /\ preceding \in [Requests -> SUBSET Requests]
  /\ faults \in 0 .. MaxFaults

Inbox(u) == {inbox[u][i] : i \in DOMAIN inbox[u]}

(* An event tells the truth, crash or no crash.  Its receiver takes part   *)
(* in the conversation it names.  A message in it is in the store, by a    *)
(* participant.  A receipt is by a participant, and if there is such a     *)
(* message, in whatever conversation, then it has been read, or was marked *)
(* by its author, which changes nothing: no author ever reads his own.     *)
EventsAreTrue ==
  /\ \A u \in Users : \A r \in Inbox(u) :
       /\ u \in Members[req[r].conv]
       /\ req[r].op = "send" => r \in stored /\ IsParticipant(r)
       /\ req[r].op = "mark" =>
            /\ IsParticipant(r)
            /\ req[r].msg \in stored =>
                 readBy[req[r].msg] # None \/ req[req[r].msg].user = req[r].user
  /\ \A m \in stored : readBy[m] # req[m].user

(* A successful answer to a send means that the message is stored and that *)
(* each participant's device got it, had a full channel or was offline,    *)
(* unless the participants could not all be loaded.                        *)
SuccessIsComplete ==
  \A r \in Requests : pc[r] = "succeeded" /\ req[r].op = "send" =>
    /\ r \in stored
    /\ r \notin blind => \A u \in Members[req[r].conv] :
         r \in Inbox(u) \cup skipped[u] \/ u \in absent[r]

(* What was sent after another operation had ended comes after it: in      *)
(* every inbox, and for messages in created_at too.  Nothing comes twice.  *)
InOrder ==
  /\ \A u \in Users : \A i, j \in DOMAIN inbox[u] :
       i < j => inbox[u][j] \notin preceding[inbox[u][i]] \cup {inbox[u][i]}
  /\ \A r \in stored : \A s \in preceding[r] \cap stored : createdAt[s] < createdAt[r]

(* A stored message reaches every participant with a device that has room, *)
(* unless a statement after the insert fails or the process dies.          *)
StoredMessageIsFannedOut ==
  \A r \in Requests, u \in Users :
    pc[r] = "touch" /\ u \in Members[req[r].conv] ~>
      \/ r \in Inbox(u) \cup skipped[u] \/ u \in absent[r]
      \/ r \in blind \/ pc[r] \in {"failed", "lost"}

(* docs/SYSTEM_DESIGN.md: a message a readPump reads is inserted.          *)
WsMessageIsStored ==
  \A r \in Requests :
    pc[r] = "check" /\ req[r].op = "send" /\ req[r].via = "ws" /\ IsParticipant(r)
      ~> r \in stored
=============================================================================
