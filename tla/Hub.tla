-------------------------------- MODULE Hub --------------------------------
(***************************************************************************)
(* The WebSocket hub of the messaging service: one mutex-protected map of  *)
(* registered connections, a bounded channel per connection, and the       *)
(* goroutines around them (services/messaging/websocket.go and the         *)
(* HandleWebSocket handler).                                               *)
(*                                                                         *)
(* A client is one connection, from its upgrade to the exit of both of its *)
(* pumps; a reconnecting device is another client.  The handler goroutine  *)
(* of a client hands over to its readPump, so one program counter follows  *)
(* both; writePump has its own.  SendToUser is run by readPumps, on behalf *)
(* of the events they read, and by HTTP handlers (Callers).                *)
(***************************************************************************)
EXTENDS Naturals, Sequences, FiniteSets

CONSTANTS Users,      \* user ids
          Clients,    \* connections
          Owner,      \* Owner[c] is the userID of connection c
          Callers,    \* HTTP handler goroutines that fan events out
          Cap,        \* capacity of a send channel (256 in the code)
          MaxCalls,   \* bound: calls of SendToUser
          None        \* no goroutine, no user

ASSUME HubAssumption ==
  /\ Owner \in [Clients -> Users]
  /\ Clients \cap Callers = {}
  /\ None \notin Clients \cup Users
  /\ Cap \in Nat \ {0}
  /\ MaxCalls \in Nat

Goroutines == Clients \cup Callers
Events == 1 .. MaxCalls          \* the n-th call of SendToUser carries event n

VARIABLES
  clients,   \* the nested map: user -> set of connections, {} for an absent key
  online,    \* the keys present in that map
  writer,    \* who holds mu for writing, or waits for its readers to leave
  readers,   \* who holds mu for reading
  send,      \* content of each client's channel
  closed,    \* clients whose channel is closed
  conn,      \* state of each WebSocket connection
  pc,        \* handler and readPump of a client; a caller's handler
  wpc,       \* writePump of a client
  hand,      \* the message writePump has received and not yet written
  written,   \* messages written to the connection
  framed,    \* the Close frame sent to each client: "none", "answer" (by the
             \* library, to what readPump reads) or "goodbye" (by writePump)
  target,    \* the user of the SendToUser call a goroutine is in
  event,     \* its event
  todo,      \* the clients its range loop has not visited yet
  calls,     \* history: number of calls so far
  returned,  \* history: events whose call has returned
  earlier,   \* history: the events returned before this one's call began
  missed,    \* history: events skipped for a client with a full channel
  panics     \* clients whose closed channel was sent on or closed again

map == <<clients, online>>
lock == <<writer, readers>>
chan == <<send, closed, panics>>
output == <<conn, wpc, hand, written, framed>>
fanout == <<target, event, todo, calls, returned, earlier, missed>>
vars == <<map, lock, chan, pc, output, fanout>>

(* A goroutine between calls: a readPump reads, a caller is idle.          *)
Rest(g) == IF g \in Clients THEN "read" ELSE "idle"

Init ==
  /\ clients = [u \in Users |-> {}]
  /\ online = {}
  /\ writer = None
  /\ readers = {}
  /\ send = [c \in Clients |-> <<>>]
  /\ closed = {}
  /\ conn = [c \in Clients |-> "none"]
  /\ pc = [g \in Goroutines |-> IF g \in Clients THEN "off" ELSE "idle"]
  /\ wpc = [c \in Clients |-> "off"]
  /\ hand = [c \in Clients |-> <<>>]
  /\ written = [c \in Clients |-> <<>>]
  /\ framed = [c \in Clients |-> "none"]
  /\ target = [g \in Goroutines |-> None]
  /\ event = [g \in Goroutines |-> 0]
  /\ todo = [g \in Goroutines |-> {}]
  /\ calls = 0
  /\ returned = {}
  /\ earlier = [e \in Events |-> {}]
  /\ missed = [c \in Clients |-> {}]
  /\ panics = {}

Goto(g, label) == pc' = [pc EXCEPT ![g] = label]

(* The library writes nothing after a Close frame (ErrCloseSent).          *)
CanWrite(c) == conn[c] = "open" /\ framed[c] = "none"
-----------------------------------------------------------------------------
(* sync.RWMutex: a pending Lock keeps new readers out and runs once the    *)
(* current readers have left.                                              *)

Lock(c) == writer = None /\ writer' = c /\ UNCHANGED readers
Exclusive(c) == writer = c /\ readers = {}
Unlock == writer' = None /\ UNCHANGED readers
RLock(g) == writer = None /\ readers' = readers \cup {g} /\ UNCHANGED writer
RUnlock(g) == readers' = readers \ {g} /\ UNCHANGED writer
-----------------------------------------------------------------------------
(* The pieces of the operations below, each with a slip the code could     *)
(* have had; no action uses a slip.                                        *)

(* The map is keyed by user; the slip keys it by connection.               *)
KeyOfClient(c) == c
Key(c) == Owner[c]

(* The key goes with its last connection; the slip drops it with any.      *)
KeysWithoutUser(c, rest) == online \ {Owner[c]}
KeysAfterDelete(c, rest) == IF rest = {} THEN online \ {Owner[c]} ELSE online

(* close(client.send); the slip forgets it.                                *)
ForgetToClose(c) == UNCHANGED <<closed, panics>>
CloseSend(c) == closed' = closed \cup {c} /\ panics' = panics \cup ({c} \cap closed)

(* The range loop runs under RLock; the slip copies the set and unlocks.   *)
LockToCopy(g) == writer = None /\ UNCHANGED lock
LockToSend(g) == RLock(g)

(* Channel order; the slip puts an event first.                            *)
PushFront(c, e) == <<e>> \o send[c]
Push(c, e) == Append(send[c], e)

(* select takes the default when the channel is full; the slip has none.   *)
WaitForRoom(c) == FALSE
Full(c) == Len(send[c]) >= Cap

(* The default goes on with the next client; the slip returns.             *)
ReturnWhenFull(g, c) == {}
SkipClient(g, c) == todo[g] \ {c}

(* A receive takes the head; the slip leaves it there.                     *)
Peek(c) == send[c]
Pop(c) == Tail(send[c])

(* range ends on a closed, empty channel; the slip ends on a closed one.   *)
Closed(c) == c \in closed
Drained(c) == c \in closed /\ send[c] = <<>>
-----------------------------------------------------------------------------
(* The life of a connection: HandleWebSocket, Register, the pumps.         *)

Upgrade(c) ==
  /\ pc[c] = "off"
  /\ conn' = [conn EXCEPT ![c] = "open"]
  /\ Goto(c, "register")
  /\ UNCHANGED <<map, lock, chan, wpc, hand, written, framed, fanout>>

(* Register and Unregister start with mu.Lock().                           *)
LockHub(c) ==
  /\ \/ pc[c] = "register" /\ Goto(c, "registering")
     \/ pc[c] = "unregister" /\ Goto(c, "deleting")
  /\ Lock(c)
  /\ UNCHANGED <<map, chan, output, fanout>>

Register(c) ==
  /\ pc[c] = "registering" /\ Exclusive(c)
  /\ clients' = [clients EXCEPT ![Owner[c]] = @ \cup {c}]
  /\ online' = online \cup {Key(c)}
  /\ Unlock
  /\ Goto(c, "registered")
  /\ UNCHANGED <<chan, output, fanout>>

StartPumps(c) ==
  /\ pc[c] = "registered"
  /\ Goto(c, "read")
  /\ wpc' = [wpc EXCEPT ![c] = "range"]
  /\ UNCHANGED <<map, lock, chan, conn, hand, written, framed, fanout>>

(* The peer leaves, or the network breaks the connection.  A peer that     *)
(* just stops answering is an open connection to which nothing happens.    *)
Disconnect(c) ==
  /\ conn[c] = "open"
  /\ conn' = [conn EXCEPT ![c] = "down"]
  /\ UNCHANGED <<map, lock, chan, pc, wpc, hand, written, framed, fanout>>

(* ReadMessage fails: the connection is down, the peer sends no more, or   *)
(* it sent a Close frame or one the library rejects, which the library     *)
(* answers with a Close frame, unless writePump holds the connection for   *)
(* too long; every later write then fails.  Unregister is deferred.        *)
ReadFails(c) ==
  /\ pc[c] = "read"
  /\ \/ UNCHANGED framed
     \/ CanWrite(c) /\ framed' = [framed EXCEPT ![c] = "answer"]
  /\ Goto(c, "unregister")
  /\ UNCHANGED <<map, lock, chan, conn, wpc, hand, written, fanout>>

DeleteClient(c) ==
  /\ pc[c] = "deleting" /\ Exclusive(c)
  /\ LET rest == clients[Owner[c]] \ {c} IN
       /\ clients' = [clients EXCEPT ![Owner[c]] = rest]
       /\ online' = KeysAfterDelete(c, rest)
  /\ Goto(c, "closing")
  /\ UNCHANGED <<lock, chan, output, fanout>>

CloseChannel(c) ==
  /\ pc[c] = "closing" /\ Exclusive(c)
  /\ CloseSend(c)
  /\ Unlock
  /\ Goto(c, "closeconn")
  /\ UNCHANGED <<map, send, output, fanout>>

CloseConn(c) ==
  /\ pc[c] = "closeconn"
  /\ conn' = [conn EXCEPT ![c] = "down"]
  /\ Goto(c, "done")
  /\ UNCHANGED <<map, lock, chan, wpc, hand, written, framed, fanout>>
-----------------------------------------------------------------------------
(* SendToUser.                                                             *)

(* An HTTP handler, or a readPump with an event it has read, calls it.     *)
Call(g, u) ==
  /\ pc[g] = Rest(g)
  /\ calls < MaxCalls
  /\ calls' = calls + 1
  /\ target' = [target EXCEPT ![g] = u]
  /\ event' = [event EXCEPT ![g] = calls + 1]
  /\ earlier' = [earlier EXCEPT ![calls + 1] = returned]
  /\ Goto(g, "rlock")
  /\ UNCHANGED <<map, lock, chan, output, todo, returned, missed>>

BeginRange(g) ==
  /\ pc[g] = "rlock"
  /\ LockToSend(g)
  /\ todo' = [todo EXCEPT ![g] = clients[target[g]]]
  /\ Goto(g, "send")
  /\ UNCHANGED <<map, chan, output, target, event, calls, returned, earlier, missed>>

(* One iteration: the select sends, or skips a client whose channel is     *)
(* full; on a closed channel it panics, and what follows does not matter.  *)
SendOrSkip(g, c) ==
  /\ pc[g] = "send" /\ c \in todo[g]
  /\ panics' = panics \cup ({c} \cap closed)
  /\ \/ /\ Len(send[c]) < Cap
        /\ send' = [send EXCEPT ![c] = Push(c, event[g])]
        /\ todo' = [todo EXCEPT ![g] = @ \ {c}]
        /\ UNCHANGED missed
     \/ /\ Full(c)
        /\ missed' = [missed EXCEPT ![c] = @ \cup {event[g]}]
        /\ todo' = [todo EXCEPT ![g] = SkipClient(g, c)]
        /\ UNCHANGED send
  /\ UNCHANGED <<map, lock, closed, pc, output, target, event, calls, returned, earlier>>

EndRange(g) ==
  /\ pc[g] = "send" /\ todo[g] = {}
  /\ RUnlock(g)
  /\ returned' = returned \cup {event[g]}
  /\ Goto(g, Rest(g))
  /\ UNCHANGED <<map, chan, output, target, event, todo, calls, earlier, missed>>
-----------------------------------------------------------------------------
(* writePump.                                                              *)

Receive(c) ==
  /\ wpc[c] = "range" /\ send[c] # <<>>
  /\ hand' = [hand EXCEPT ![c] = <<Head(send[c])>>]
  /\ send' = [send EXCEPT ![c] = Pop(c)]
  /\ wpc' = [wpc EXCEPT ![c] = "write"]
  /\ UNCHANGED <<map, lock, closed, panics, pc, conn, written, framed, fanout>>

(* It takes the peer to drain the socket: no fairness on this step.        *)
Write(c) ==
  /\ wpc[c] = "write" /\ CanWrite(c)
  /\ written' = [written EXCEPT ![c] = @ \o hand[c]]
  /\ hand' = [hand EXCEPT ![c] = <<>>]
  /\ wpc' = [wpc EXCEPT ![c] = "range"]
  /\ UNCHANGED <<map, lock, chan, pc, conn, framed, fanout>>

(* An error ends the pump, whose deferred Close ends the connection.       *)
WriteFails(c) ==
  /\ wpc[c] = "write"
  /\ wpc' = [wpc EXCEPT ![c] = "done"]
  /\ conn' = [conn EXCEPT ![c] = "down"]
  /\ UNCHANGED <<map, lock, chan, pc, hand, written, framed, fanout>>

(* The range ends when the channel is closed and drained.                  *)
SayGoodbye(c) ==
  /\ wpc[c] = "range" /\ Drained(c)
  /\ framed' = IF CanWrite(c) THEN [framed EXCEPT ![c] = "goodbye"] ELSE framed
  /\ conn' = [conn EXCEPT ![c] = "down"]
  /\ wpc' = [wpc EXCEPT ![c] = "done"]
  /\ UNCHANGED <<map, lock, chan, pc, hand, written, fanout>>
-----------------------------------------------------------------------------
ConnectionStep(c) ==
  \/ LockHub(c) \/ Register(c) \/ StartPumps(c)
  \/ DeleteClient(c) \/ CloseChannel(c) \/ CloseConn(c)
CallStep(g) == BeginRange(g) \/ (\E c \in Clients : SendOrSkip(g, c)) \/ EndRange(g)
WriterStep(c) == Receive(c) \/ SayGoodbye(c) \/ (~CanWrite(c) /\ WriteFails(c))

Next ==
  \/ \E c \in Clients :
       \/ Upgrade(c) \/ Disconnect(c) \/ ReadFails(c) \/ ConnectionStep(c)
       \/ Receive(c) \/ Write(c) \/ WriteFails(c) \/ SayGoodbye(c)
  \/ \E g \in Goroutines : CallStep(g) \/ \E u \in Users : Call(g, u)

(* The scheduler runs every goroutine that can go on, and a read from a    *)
(* connection that is down returns, as does a write that cannot succeed.   *)
(* Nothing makes a peer connect, leave, send, or take what is written.     *)
Fairness ==
  /\ \A c \in Clients :
       /\ WF_vars(ConnectionStep(c))
       /\ WF_vars(WriterStep(c))
       /\ WF_vars(conn[c] = "down" /\ ReadFails(c))
  /\ \A g \in Goroutines : WF_vars(CallStep(g))

Spec == Init /\ [][Next]_vars /\ Fairness
-----------------------------------------------------------------------------
Labels == {"off", "register", "registering", "registered", "read", "unregister",
           "deleting", "closing", "closeconn", "done", "idle", "rlock", "send"}

(* Every variable has the type of the Go value it stands for.              *)
TypeOK ==
  /\ clients \in [Users -> SUBSET Clients]
  /\ online \in SUBSET Users
  /\ writer \in Clients \cup {None}
  /\ readers \in SUBSET Goroutines
  /\ send \in [Clients -> Seq(Events)]
  /\ closed \in SUBSET Clients
  /\ conn \in [Clients -> {"none", "open", "down"}]
  /\ pc \in [Goroutines -> Labels]
  /\ wpc \in [Clients -> {"off", "range", "write", "done"}]
  /\ hand \in [Clients -> Seq(Events)]
  /\ written \in [Clients -> Seq(Events)]
  /\ framed \in [Clients -> {"none", "answer", "goodbye"}]
  /\ target \in [Goroutines -> Users \cup {None}]
  /\ event \in [Goroutines -> 0 .. MaxCalls]
  /\ todo \in [Goroutines -> SUBSET Clients]
  /\ calls \in 0 .. MaxCalls
  /\ returned \in SUBSET Events
  /\ earlier \in [Events -> SUBSET Events]
  /\ missed \in [Clients -> SUBSET Events]
  /\ panics \in SUBSET Clients

(* No goroutine sends on a closed channel or closes one twice, however     *)
(* fan-outs and the unregistration of the same client interleave.          *)
NoPanic == panics = {}

(* Why there is no panic: mu is held as the labels say, a range loop only  *)
(* visits registered clients, a client is registered between Register and  *)
(* the delete of Unregister, and its channel is closed after that.         *)
LockInv ==
  /\ \A g \in Goroutines : g \in readers <=> pc[g] = "send"
  /\ \A c \in Clients : writer = c <=> pc[c] \in {"registering", "deleting", "closing"}
  /\ \A c \in Clients : pc[c] = "closing" => readers = {}
LoopInv == \A g \in readers : todo[g] \subseteq clients[target[g]]
Connected(c) == pc[c] \in {"registered", "read", "rlock", "send", "unregister"}
MapInv ==
  /\ \A u \in Users : u \in online <=> clients[u] # {}
  /\ \A u \in Users, c \in Clients :
       c \in clients[u] <=> u = Owner[c] /\ (Connected(c) \/ pc[c] = "deleting")
ChannelInv == \A c \in Clients : c \in closed <=> pc[c] \in {"closeconn", "done"}
SafetyInv == LockInv /\ LoopInv /\ MapInv /\ ChannelInv /\ NoPanic

(* What a client's channel has accepted so far, in order.                  *)
Accepted(c) == written[c] \o hand[c] \o send[c]

(* A user is listed by GetOnlineUsers exactly when IsOnline says so, and   *)
(* when one of that user's connections has been registered and not yet     *)
(* unregistered; only the holder of the write lock may see it otherwise.   *)
GetOnlineUsers == online
IsOnline(u) == clients[u] # {}
OnlineUsersAreConnected ==
  writer = None =>
    /\ GetOnlineUsers = {u \in Users : IsOnline(u)}
    /\ GetOnlineUsers = {Owner[c] : c \in {d \in Clients : Connected(d)}}

(* A call that began after another had returned is delivered after it on   *)
(* every connection that gets both, and no connection gets an event twice. *)
DeliveredInCallOrder ==
  \A c \in Clients : \A i, j \in DOMAIN Accepted(c) :
    i < j => Accepted(c)[j] \notin earlier[Accepted(c)[i]] \cup {Accepted(c)[i]}

(* When a fan-out returns, every connection of its user that is registered *)
(* then has the event in its channel or beyond, unless that connection's   *)
(* own channel was full: one slow device never costs another its event.    *)
EveryDeviceServed ==
  [][\A g \in Goroutines : EndRange(g) =>
       \A c \in clients[target[g]] :
         \/ \E i \in DOMAIN Accepted(c) : Accepted(c)[i] = event[g]
         \/ event[g] \in missed[c]]_vars

(* The hub's own Close frame follows everything the channel will ever have *)
(* accepted: writePump says goodbye to no connection it still owes events, *)
(* and nothing is accepted or written after that.  The frame by which the  *)
(* library answers the peer may come before queued events, which are lost. *)
CloseFrameIsLast ==
  [][\A c \in Clients :
       /\ framed'[c] = "goodbye" => written'[c] = Accepted(c)
       /\ framed[c] # "none" => UNCHANGED <<written[c], framed[c]>>]_vars

(* A fan-out returns whatever the peers do: a device that never reads      *)
(* cannot hold up the goroutine that serves it, nor mu.                    *)
EveryCallReturns == \A g \in Goroutines : pc[g] \in {"rlock", "send"} ~> pc[g] = Rest(g)

(* Once a connection is down, or one of its pumps has stopped, both pumps  *)
(* exit and the hub forgets the client: no leak of goroutines or entries.  *)
ConnectionIsCleanedUp ==
  \A c \in Clients :
    (conn[c] = "down" \/ wpc[c] = "done" \/ pc[c] = "unregister")
      ~> (pc[c] = "done" /\ wpc[c] = "done" /\ c \notin clients[Owner[c]])

(* Each connection sees the hub as a mailbox: the hub implements Mailbox.   *)
Phase(c) == CASE pc[c] \in {"off", "register", "registering"} -> "new"
              [] pc[c] \in {"closing", "closeconn", "done"} -> "shut"
              [] OTHER -> "open"
M == INSTANCE Mailbox WITH phase <- [c \in Clients |-> Phase(c)],
                           accepted <- [c \in Clients |-> Accepted(c)],
                           taken <- [c \in Clients |-> Len(written[c])]
ImplementsMailbox == M!Spec
=============================================================================
