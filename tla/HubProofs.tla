----------------------------- MODULE HubProofs -----------------------------
(***************************************************************************)
(* Safety of the hub for any number of users, connections, callers and     *)
(* calls, and any channel capacity: its locks, map and channels first,     *)
(* then the events in them, last what it implements.                       *)
(***************************************************************************)
EXTENDS Hub, SequenceTheorems, TLAPS

(* Locals of SendToUser that are set while a goroutine is inside it.       *)
InCall(g) == pc[g] \in {"rlock", "send"}
CallOK == \A g \in Goroutines : InCall(g) => target[g] \in Users /\ event[g] \in Events
Typed == TypeOK /\ CallOK

LEMMA InitTyped == Init => Typed
<1> SUFFICES ASSUME Init PROVE Typed
  OBVIOUS
<1> USE HubAssumption DEF Init
<1>1. TypeOK
  <2>1. pc \in [Goroutines -> Labels]
    BY DEF Labels
  <2>2. /\ send \in [Clients -> Seq(Events)]
        /\ hand \in [Clients -> Seq(Events)]
        /\ written \in [Clients -> Seq(Events)]
    OBVIOUS
  <2>3. /\ event \in [Goroutines -> 0 .. MaxCalls]
        /\ calls \in 0 .. MaxCalls
        /\ earlier \in [Events -> SUBSET Events]
    OBVIOUS
  <2>4. /\ clients \in [Users -> SUBSET Clients]
        /\ todo \in [Goroutines -> SUBSET Clients]
        /\ missed \in [Clients -> SUBSET Events]
    OBVIOUS
  <2> QED
    BY <2>1, <2>2, <2>3, <2>4 DEF TypeOK
<1>2. CallOK
  BY DEF CallOK, InCall
<1> QED
  BY <1>1, <1>2 DEF Typed

(* Every step keeps the types.                                             *)
LEMMA StepTyped == Typed /\ [Next]_vars => Typed'
<1> SUFFICES ASSUME Typed, [Next]_vars PROVE Typed'
  OBVIOUS
<1> USE HubAssumption DEF Typed, TypeOK, CallOK, InCall, Goroutines, Labels, map, lock, chan,
                          output, fanout, Goto
<1>1. ASSUME NEW c \in Clients, Upgrade(c) PROVE Typed'
  BY <1>1 DEF Upgrade
<1>2. ASSUME NEW c \in Clients, LockHub(c) PROVE Typed'
  BY <1>2 DEF LockHub, Lock
<1>3. ASSUME NEW c \in Clients, Register(c) PROVE Typed'
  BY <1>3 DEF Register, Unlock, Key
<1>4. ASSUME NEW c \in Clients, StartPumps(c) PROVE Typed'
  BY <1>4 DEF StartPumps
<1>5. ASSUME NEW c \in Clients, Disconnect(c) PROVE Typed'
  BY <1>5 DEF Disconnect
<1>6. ASSUME NEW c \in Clients, ReadFails(c) PROVE Typed'
  BY <1>6 DEF ReadFails
<1>7. ASSUME NEW c \in Clients, DeleteClient(c) PROVE Typed'
  BY <1>7 DEF DeleteClient, KeysAfterDelete
<1>8. ASSUME NEW c \in Clients, CloseChannel(c) PROVE Typed'
  BY <1>8 DEF CloseChannel, CloseSend, Unlock
<1>9. ASSUME NEW c \in Clients, CloseConn(c) PROVE Typed'
  BY <1>9 DEF CloseConn
<1>10. ASSUME NEW g \in Goroutines, NEW u \in Users, Call(g, u) PROVE Typed'
  BY <1>10 DEF Call, Events
<1>11. ASSUME NEW g \in Goroutines, BeginRange(g) PROVE Typed'
  BY <1>11 DEF BeginRange, LockToSend, RLock
<1>12. ASSUME NEW g \in Goroutines, NEW c \in Clients, SendOrSkip(g, c) PROVE Typed'
  <2>1. /\ send \in [Clients -> Seq(Events)]
        /\ missed \in [Clients -> SUBSET Events]
        /\ todo \in [Goroutines -> SUBSET Clients]
        /\ event[g] \in Events
    BY <1>12 DEF SendOrSkip
  <2> HIDE DEF Typed, TypeOK, CallOK, Goroutines
  <2>2. /\ send' = send \/ send' = [send EXCEPT ![c] = Append(@, event[g])]
        /\ missed' = missed \/ missed' = [missed EXCEPT ![c] = @ \cup {event[g]}]
        /\ todo' = [todo EXCEPT ![g] = @ \ {c}]
        /\ panics' = panics \cup ({c} \cap closed)
        /\ UNCHANGED <<map, lock, closed, pc, output, target, event, calls, returned, earlier>>
    BY <1>12 DEF SendOrSkip, Push, SkipClient
  <2>3. send' \in [Clients -> Seq(Events)]
    <3>1. Append(send[c], event[g]) \in Seq(Events)
      BY <2>1
    <3> QED
      BY <2>1, <2>2, <3>1
  <2>4. missed' \in [Clients -> SUBSET Events]
    BY <2>1, <2>2
  <2>5. todo' \in [Goroutines -> SUBSET Clients]
    BY <2>1, <2>2
  <2> QED
    BY <2>2, <2>3, <2>4, <2>5 DEF Typed, TypeOK, CallOK, InCall
<1>13. ASSUME NEW g \in Goroutines, EndRange(g) PROVE Typed'
  BY <1>13 DEF EndRange, RUnlock, Rest
<1>14. ASSUME NEW c \in Clients, Receive(c) PROVE Typed'
  BY <1>14 DEF Receive, Pop
<1>15. ASSUME NEW c \in Clients, Write(c) PROVE Typed'
  BY <1>15 DEF Write
<1>16. ASSUME NEW c \in Clients, WriteFails(c) PROVE Typed'
  BY <1>16 DEF WriteFails
<1>17. ASSUME NEW c \in Clients, SayGoodbye(c) PROVE Typed'
  BY <1>17 DEF SayGoodbye
<1>18. CASE UNCHANGED vars
  BY <1>18 DEF vars
<1> QED
  BY <1>1, <1>2, <1>3, <1>4, <1>5, <1>6, <1>7, <1>8, <1>9, <1>10, <1>11, <1>12, <1>13, <1>14,
     <1>15, <1>16, <1>17, <1>18 DEF Next, ConnectionStep, CallStep

(* Every variable of the hub keeps its type in every behaviour.            *)
THEOREM TypeCorrect == Spec => []TypeOK
<1>1. Typed => TypeOK
  BY DEF Typed
<1> QED
  BY InitTyped, StepTyped, <1>1, PTL DEF Spec
-----------------------------------------------------------------------------
Inv == Typed /\ SafetyInv

LEMMA InitInv == Init => Inv
<1> SUFFICES ASSUME Init PROVE Inv
  OBVIOUS
<1>1. Typed
  BY InitTyped
<1> USE HubAssumption DEF Init, Goroutines
<1>2. LockInv
  BY DEF LockInv
<1>3. LoopInv /\ NoPanic
  BY DEF LoopInv, NoPanic
<1>4. MapInv
  BY DEF MapInv, Connected
<1>5. ChannelInv
  BY DEF ChannelInv
<1> QED
  BY <1>1, <1>2, <1>3, <1>4, <1>5 DEF Inv, SafetyInv

(* Every step keeps the safety invariant.                                  *)
LEMMA StepInv == Inv /\ [Next]_vars => Inv'
<1> SUFFICES ASSUME Inv, [Next]_vars PROVE SafetyInv'
  BY StepTyped DEF Inv
<1> USE HubAssumption DEF Inv, Typed, TypeOK, CallOK, InCall, SafetyInv, NoPanic, LockInv, LoopInv,
    MapInv, ChannelInv, Connected, Goroutines, Labels, map, lock, chan, output, fanout, Goto
<1>1. ASSUME NEW c \in Clients, Upgrade(c) PROVE SafetyInv'
  BY <1>1 DEF Upgrade
<1>2. ASSUME NEW c \in Clients, LockHub(c) PROVE SafetyInv'
  <2> USE DEF LockHub, Lock
  <2>1. ASSUME pc[c] = "register", pc' = [pc EXCEPT ![c] = "registering"] PROVE SafetyInv'
    BY <1>2, <2>1
  <2>2. ASSUME pc[c] = "unregister", pc' = [pc EXCEPT ![c] = "deleting"] PROVE SafetyInv'
    BY <1>2, <2>2
  <2> QED
    BY <1>2, <2>1, <2>2
<1>3. ASSUME NEW c \in Clients, Register(c) PROVE SafetyInv'
  <2> USE <1>3 DEF Register, Exclusive, Unlock, Key
  <2>1. LockInv'
    OBVIOUS
  <2>2. LoopInv'
    OBVIOUS
  <2>3. MapInv'
    OBVIOUS
  <2>4. ChannelInv' /\ NoPanic'
    OBVIOUS
  <2> QED
    BY <2>1, <2>2, <2>3, <2>4
<1>4. ASSUME NEW c \in Clients, StartPumps(c) PROVE SafetyInv'
  BY <1>4 DEF StartPumps
<1>5. ASSUME NEW c \in Clients, Disconnect(c) PROVE SafetyInv'
  BY <1>5 DEF Disconnect
<1>6. ASSUME NEW c \in Clients, ReadFails(c) PROVE SafetyInv'
  BY <1>6 DEF ReadFails
<1>7. ASSUME NEW c \in Clients, DeleteClient(c) PROVE SafetyInv'
  BY <1>7 DEF DeleteClient, Exclusive, KeysAfterDelete
<1>8. ASSUME NEW c \in Clients, CloseChannel(c) PROVE SafetyInv'
  <2> USE <1>8 DEF CloseChannel, Exclusive, CloseSend, Unlock
  <2>1. LockInv'
    OBVIOUS
  <2>2. LoopInv'
    OBVIOUS
  <2>3. MapInv'
    OBVIOUS
  <2>4. c \notin closed /\ closed' = closed \cup {c} /\ pc'[c] = "closeconn"
        /\ \A d \in Clients : d # c => pc'[d] = pc[d]
    OBVIOUS
  <2>5. ChannelInv'
    BY <2>4
  <2>6. NoPanic'
    BY <2>4
  <2> QED
    BY <2>1, <2>2, <2>3, <2>5, <2>6
<1>9. ASSUME NEW c \in Clients, CloseConn(c) PROVE SafetyInv'
  BY <1>9 DEF CloseConn
<1>10. ASSUME NEW g \in Goroutines, NEW u \in Users, Call(g, u) PROVE SafetyInv'
  BY <1>10 DEF Call, Rest
<1>11. ASSUME NEW g \in Goroutines, BeginRange(g) PROVE SafetyInv'
  BY <1>11 DEF BeginRange, LockToSend, RLock
<1>12. ASSUME NEW g \in Goroutines, NEW c \in Clients, SendOrSkip(g, c) PROVE SafetyInv'
  <2> USE <1>12 DEF SendOrSkip, SkipClient
  <2>1. UNCHANGED <<map, lock, closed, pc, target>>
    OBVIOUS
  <2>2. LockInv' /\ MapInv' /\ ChannelInv'
    BY <2>1
  <2>3. todo' = [todo EXCEPT ![g] = @ \ {c}]
    OBVIOUS
  <2>4. LoopInv'
    BY <2>1, <2>3
  <2>5. NoPanic'
    OBVIOUS
  <2> QED
    BY <2>2, <2>4, <2>5
<1>13. ASSUME NEW g \in Goroutines, EndRange(g) PROVE SafetyInv'
  BY <1>13 DEF EndRange, RUnlock, Rest
<1>14. ASSUME NEW c \in Clients, Receive(c) PROVE SafetyInv'
  BY <1>14 DEF Receive
<1>15. ASSUME NEW c \in Clients, Write(c) PROVE SafetyInv'
  BY <1>15 DEF Write
<1>16. ASSUME NEW c \in Clients, WriteFails(c) PROVE SafetyInv'
  BY <1>16 DEF WriteFails
<1>17. ASSUME NEW c \in Clients, SayGoodbye(c) PROVE SafetyInv'
  BY <1>17 DEF SayGoodbye
<1>18. CASE UNCHANGED vars
  BY <1>18 DEF vars
<1> QED
  BY <1>1, <1>2, <1>3, <1>4, <1>5, <1>6, <1>7, <1>8, <1>9, <1>10, <1>11, <1>12, <1>13, <1>14,
     <1>15, <1>16, <1>17, <1>18 DEF Next, ConnectionStep, CallStep

(* Who holds mu, which connections a range loop visits, what the map holds *)
(* and which channels are closed agree with where every goroutine is.      *)
THEOREM SafetyCorrect == Spec => []SafetyInv
<1>1. Inv => SafetyInv
  BY DEF Inv
<1> QED
  BY InitInv, StepInv, <1>1, PTL DEF Spec

(* However fan-outs and unregistrations interleave, no goroutine sends on  *)
(* a closed channel and none closes a channel twice.                       *)
THEOREM NeverPanics == Spec => []NoPanic
<1>1. Inv => NoPanic
  BY DEF Inv, SafetyInv
<1> QED
  BY InitInv, StepInv, <1>1, PTL DEF Spec

(* GetOnlineUsers and IsOnline agree, and tell who is connected, whenever  *)
(* no goroutine holds the write lock.                                      *)
THEOREM OnlineCorrect == Spec => []OnlineUsersAreConnected
<1>1. Inv => OnlineUsersAreConnected
  <2> SUFFICES ASSUME Inv, writer = None PROVE
        /\ online = {u \in Users : clients[u] # {}}
        /\ online = {Owner[c] : c \in {d \in Clients : Connected(d)}}
    BY DEF OnlineUsersAreConnected, GetOnlineUsers, IsOnline
  <2> USE HubAssumption DEF Inv, Typed, TypeOK, SafetyInv, LockInv, MapInv
  <2>1. \A u : u \in online <=> u \in Users /\ clients[u] # {}
    OBVIOUS
  <2>2. \A c \in Clients : pc[c] # "deleting"
    OBVIOUS
  <2>3. ASSUME NEW u \in online PROVE \E c \in Clients : Connected(c) /\ u = Owner[c]
    <3>1. PICK c \in Clients : c \in clients[u]
      BY <2>1, <2>3
    <3> QED
      BY <2>1, <2>2, <3>1
  <2>4. ASSUME NEW c \in Clients, Connected(c) PROVE Owner[c] \in online
    BY <2>4
  <2> HIDE DEF Inv, MapInv
  <2> QED
    BY <2>1, <2>3, <2>4
<1> QED
  BY InitInv, StepInv, <1>1, PTL DEF Spec
-----------------------------------------------------------------------------
(* What a channel has accepted, through the hands of writePump.            *)

LEMMA HeadFirst ==
  ASSUME NEW S, NEW s \in Seq(S), s # <<>>
  PROVE  /\ <<Head(s)>> \in Seq(S) /\ Len(<<Head(s)>>) = 1 /\ Tail(s) \in Seq(S)
         /\ <<Head(s)>> \o Tail(s) = s
<1> DEFINE h == <<Head(s)>>
           t == Tail(s)
           l == Len(s)
<1>1. /\ Head(s) \in S /\ t \in Seq(S) /\ Len(t) = l - 1 /\ l \in Nat /\ l # 0
      /\ \A i \in 1 .. Len(t) : t[i] = s[i + 1]
  BY HeadTailProperties, EmptySeq, LenProperties
<1>2. h \in Seq(S) /\ Len(h) = 1 /\ h[1] = s[1]
  BY <1>1
<1>3. /\ h \o t \in Seq(S) /\ Len(h \o t) = 1 + Len(t)
      /\ \A i \in 1 .. 1 + Len(t) : (h \o t)[i] = IF i <= 1 THEN h[i] ELSE t[i - 1]
  BY <1>1, <1>2, ConcatProperties
<1> HIDE DEF h, t
<1>4. \A i \in 1 .. l : i = 1 \/ (~(i <= 1) /\ i - 1 \in 1 .. l - 1 /\ (i - 1) + 1 = i)
  <2> HIDE DEF l
  <2> QED
    BY <1>1
<1>5. 1 + (l - 1) = l
  <2> HIDE DEF l
  <2> QED
    BY <1>1
<1>6. \A i \in 1 .. l : (h \o t)[i] = s[i]
  BY <1>1, <1>2, <1>3, <1>4, <1>5
<1>7. h \o t = s
  BY <1>1, <1>3, <1>5, <1>6, SeqEqual
<1> QED
  BY <1>1, <1>2, <1>7 DEF h, t

LEMMA PassOn ==
  ASSUME NEW S, NEW w \in Seq(S), NEW s \in Seq(S), s # <<>>
  PROVE  (w \o <<Head(s)>>) \o Tail(s) = w \o s
BY HeadFirst, ConcatAssociative

LEMMA AppendLast ==
  ASSUME NEW S, NEW a \in Seq(S), NEW b \in Seq(S), NEW e \in S
  PROVE  a \o Append(b, e) = Append(a \o b, e)
<1>1. Append(b, e) = b \o <<e>> /\ <<e>> \in Seq(S)
  BY AppendIsConcat
<1>2. a \o b \in Seq(S)
  BY ConcatProperties
<1>3. Append(a \o b, e) = (a \o b) \o <<e>>
  BY <1>2, AppendIsConcat
<1> QED
  BY <1>1, <1>3, ConcatAssociative

(* writePump holds one message while it writes, none while it waits; it    *)
(* says goodbye when nothing is left to write, and then it is done.        *)
Pumps ==
  \A c \in Clients :
    /\ wpc[c] \in {"off", "range"} => hand[c] = <<>>
    /\ wpc[c] = "write" => Len(hand[c]) = 1
    /\ framed[c] = "goodbye" => wpc[c] = "done" /\ c \in closed /\ send[c] = <<>> /\ hand[c] = <<>>
    /\ pc[c] \in {"off", "register", "registering", "registered"} => wpc[c] = "off"

LEMMA SentTo ==
  ASSUME Inv, NEW g \in Goroutines, NEW c \in Clients, SendOrSkip(g, c)
  PROVE  /\ pc[g] = "send" /\ c \in todo[g] /\ c \notin closed /\ event[g] \in Events
         /\ UNCHANGED <<map, lock, closed, pc, output, target, event, calls, returned, earlier>>
         /\ todo' = [todo EXCEPT ![g] = @ \ {c}]
         /\ \A d \in Clients : d # c => send'[d] = send[d] /\ missed'[d] = missed[d]
         /\ \/ send'[c] = Append(send[c], event[g]) /\ missed' = missed
            \/ send' = send /\ event[g] \in missed'[c] /\ missed[c] \subseteq missed'[c]
<1>1. /\ pc[g] = "send" /\ c \in todo[g]
      /\ UNCHANGED <<map, lock, closed, pc, output, target, event, calls, returned, earlier>>
      /\ todo' = [todo EXCEPT ![g] = @ \ {c}]
      /\ \/ send' = [send EXCEPT ![c] = Append(send[c], event[g])] /\ missed' = missed
         \/ send' = send /\ missed' = [missed EXCEPT ![c] = @ \cup {event[g]}]
  BY DEF SendOrSkip, Push, SkipClient
<1>2. c \notin closed /\ event[g] \in Events
  BY <1>1 DEF Inv, Typed, CallOK, InCall, SafetyInv, LockInv, LoopInv, MapInv, ChannelInv, Connected, TypeOK
<1>3. send \in [Clients -> Seq(Events)] /\ missed \in [Clients -> SUBSET Events]
  BY DEF Inv, Typed, TypeOK
<1> QED
  BY <1>1, <1>2, <1>3

LEMMA InitPumps == Init => Pumps
BY DEF Init, Pumps, Goroutines

LEMMA StepPumps == Inv /\ Pumps /\ [Next]_vars => Pumps'
<1> SUFFICES ASSUME Inv, Pumps, [Next]_vars PROVE Pumps'
  OBVIOUS
<1>0. TypeOK /\ Clients \subseteq Goroutines /\ Clients \cap Callers = {}
  BY HubAssumption DEF Inv, Typed, Goroutines
<1> USE <1>0 DEF TypeOK, Pumps, map, lock, chan, output, fanout, Goto
<1>1. ASSUME NEW c \in Clients, Upgrade(c) PROVE Pumps'
  BY <1>1 DEF Upgrade
<1>2. ASSUME NEW c \in Clients, LockHub(c) PROVE Pumps'
  BY <1>2 DEF LockHub
<1>3. ASSUME NEW c \in Clients, Register(c) PROVE Pumps'
  BY <1>3 DEF Register
<1>4. ASSUME NEW c \in Clients, StartPumps(c) PROVE Pumps'
  <2>1. /\ pc[c] = "registered" /\ pc' = [pc EXCEPT ![c] = "read"] /\ wpc' = [wpc EXCEPT ![c] = "range"]
        /\ UNCHANGED <<hand, framed, closed, send>>
    BY <1>4 DEF StartPumps
  <2> QED
    BY <2>1
<1>5. ASSUME NEW c \in Clients, Disconnect(c) \/ ReadFails(c) \/ DeleteClient(c) \/ CloseConn(c) PROVE Pumps'
  <2>1. UNCHANGED <<wpc, hand, send, closed>>
    BY <1>5 DEF Disconnect, ReadFails, DeleteClient, CloseConn
  <2>2. \A d \in Clients : framed'[d] = "goodbye" => framed[d] = "goodbye"
    BY <1>5 DEF Disconnect, ReadFails, DeleteClient, CloseConn
  <2>3. \A d \in Clients : pc'[d] \in {"off", "register", "registering", "registered"} => pc'[d] = pc[d]
    BY <1>5 DEF Disconnect, ReadFails, DeleteClient, CloseConn
  <2> QED
    BY <2>1, <2>2, <2>3
<1>6. ASSUME NEW c \in Clients, CloseChannel(c) PROVE Pumps'
  BY <1>6 DEF CloseChannel, CloseSend
<1>7. ASSUME NEW g \in Goroutines, NEW u \in Users, Call(g, u) PROVE Pumps'
  BY <1>7 DEF Call, Rest
<1>8. ASSUME NEW g \in Goroutines, BeginRange(g) \/ EndRange(g) PROVE Pumps'
  BY <1>8 DEF BeginRange, EndRange, Rest
<1>9. ASSUME NEW g \in Goroutines, NEW c \in Clients, SendOrSkip(g, c) PROVE Pumps'
  <2>1. /\ c \notin closed /\ UNCHANGED <<closed, pc, wpc, hand, framed>>
        /\ \A d \in Clients : d # c => send'[d] = send[d]
    BY <1>9, SentTo
  <2> QED
    BY <2>1
<1>10. ASSUME NEW c \in Clients, Receive(c) PROVE Pumps'
  <2>1. /\ wpc[c] = "range" /\ hand' = [hand EXCEPT ![c] = <<Head(send[c])>>]
        /\ send' = [send EXCEPT ![c] = Tail(send[c])] /\ wpc' = [wpc EXCEPT ![c] = "write"]
        /\ UNCHANGED <<closed, pc, framed>> /\ send[c] # <<>>
    BY <1>10 DEF Receive, Pop
  <2>2. Len(<<Head(send[c])>>) = 1
    BY <2>1, HeadFirst
  <2> HIDE <1>0
  <2>3. /\ hand'[c] = <<Head(send[c])>> /\ wpc'[c] = "write"
        /\ \A d \in Clients : d # c => hand'[d] = hand[d] /\ send'[d] = send[d] /\ wpc'[d] = wpc[d]
    BY <1>0, <2>1
  <2> QED
    BY <2>1, <2>2, <2>3
<1>11. ASSUME NEW c \in Clients, Write(c) \/ WriteFails(c) PROVE Pumps'
  BY <1>11 DEF Write, WriteFails
<1>12. ASSUME NEW c \in Clients, SayGoodbye(c) PROVE Pumps'
  <2>1. /\ UNCHANGED <<pc, hand, send, closed>> /\ wpc[c] = "range" /\ c \in closed /\ send[c] = <<>>
        /\ wpc' = [wpc EXCEPT ![c] = "done"]
    BY <1>12 DEF SayGoodbye, Drained
  <2>2. \A d \in Clients : d # c => framed'[d] = framed[d]
    BY <1>12 DEF SayGoodbye
  <2>3. /\ wpc'[c] = "done" /\ pc[c] \notin {"off", "register", "registering", "registered"}
        /\ \A d \in Clients : d # c => wpc'[d] = wpc[d]
    BY <2>1
  <2> QED
    BY <2>1, <2>2, <2>3
<1>13. CASE UNCHANGED vars
  BY <1>13 DEF vars
<1> QED
  BY <1>1, <1>2, <1>3, <1>4, <1>5, <1>6, <1>7, <1>8, <1>9, <1>10, <1>11, <1>12, <1>13
     DEF Next, ConnectionStep, CallStep

(* A channel accepts by SendToUser only; writePump passes on what is in it *)
(* and leaves the whole as it was.                                         *)
LEMMA ContentTyped ==
  ASSUME Inv, NEW c \in Clients
  PROVE  /\ send[c] \in Seq(Events) /\ hand[c] \in Seq(Events) /\ written[c] \in Seq(Events)
         /\ written[c] \o hand[c] \in Seq(Events) /\ Accepted(c) \in Seq(Events)
         /\ Len(Accepted(c)) \in Nat /\ DOMAIN Accepted(c) = 1 .. Len(Accepted(c))
<1>1. send[c] \in Seq(Events) /\ hand[c] \in Seq(Events) /\ written[c] \in Seq(Events)
  BY DEF Inv, Typed, TypeOK
<1>2. written[c] \o hand[c] \in Seq(Events)
  BY <1>1, ConcatProperties
<1>3. Accepted(c) \in Seq(Events)
  BY <1>1, <1>2, ConcatProperties DEF Accepted
<1> QED
  BY <1>1, <1>2, <1>3, LenProperties

LEMMA Received ==
  ASSUME Inv, Pumps, NEW c \in Clients, Receive(c), NEW d \in Clients
  PROVE  Accepted(d)' = Accepted(d) /\ written' = written
<1>0. TypeOK
  BY DEF Inv, Typed
<1>1. /\ wpc[c] = "range" /\ send[c] # <<>> /\ hand[c] = <<>> /\ written' = written
      /\ hand' = [hand EXCEPT ![c] = <<Head(send[c])>>] /\ send' = [send EXCEPT ![c] = Tail(send[c])]
  BY DEF Receive, Pop, Pumps
<1>2. CASE d # c
  BY <1>0, <1>1, <1>2 DEF Accepted, TypeOK
<1>3. CASE d = c
  <2>1. hand'[c] = <<Head(send[c])>> /\ send'[c] = Tail(send[c])
    BY <1>0, <1>1 DEF TypeOK
  <2>2. (written[c] \o <<Head(send[c])>>) \o Tail(send[c]) = written[c] \o send[c]
    BY <1>1, ContentTyped, PassOn
  <2>3. written[c] \o hand[c] = written[c]
    BY <1>1, ContentTyped, ConcatEmptySeq
  <2> QED
    BY <1>1, <1>3, <2>1, <2>2, <2>3 DEF Accepted
<1> QED
  BY <1>2, <1>3

LEMMA Wrote ==
  ASSUME Inv, Pumps, NEW c \in Clients, Write(c), NEW d \in Clients
  PROVE  /\ Accepted(d)' = Accepted(d)
         /\ written'[d] = IF d = c THEN written[c] \o hand[c] ELSE written[d]
<1>0. TypeOK
  BY DEF Inv, Typed
<1>1. /\ written' = [written EXCEPT ![c] = written[c] \o hand[c]] /\ hand' = [hand EXCEPT ![c] = <<>>]
      /\ send' = send
  BY DEF Write, chan
<1>2. CASE d # c
  BY <1>0, <1>1, <1>2 DEF Accepted, TypeOK
<1>3. CASE d = c
  <2>1. written'[c] = written[c] \o hand[c] /\ hand'[c] = <<>>
    BY <1>0, <1>1 DEF TypeOK
  <2>2. (written[c] \o hand[c]) \o <<>> = written[c] \o hand[c]
    BY ContentTyped, ConcatEmptySeq
  <2> QED
    BY <1>1, <1>3, <2>1, <2>2 DEF Accepted
<1> QED
  BY <1>2, <1>3

LEMMA Sent ==
  ASSUME Inv, NEW g \in Goroutines, NEW c \in Clients, SendOrSkip(g, c), NEW d \in Clients
  PROVE  /\ written' = written
         /\ \/ Accepted(d)' = Accepted(d) /\ (d = c => event[g] \in missed'[c])
            \/ d = c /\ Accepted(d)' = Append(Accepted(d), event[g])
<1>1. written' = written /\ hand' = hand
  BY SentTo DEF output
<1>2. CASE send'[d] = send[d] /\ (d = c => event[g] \in missed'[c])
  BY <1>1, <1>2 DEF Accepted
<1>3. CASE d = c /\ send'[c] = Append(send[c], event[g])
  <2>1. (written[c] \o hand[c]) \o Append(send[c], event[g]) = Append(Accepted(c), event[g])
    <3> DEFINE w == written[c] \o hand[c]
               s == send[c]
    <3>1. w \in Seq(Events) /\ s \in Seq(Events) /\ event[g] \in Events
      BY ContentTyped, SentTo
    <3>2. Accepted(c) = w \o s
      BY DEF Accepted
    <3> HIDE DEF w, s
    <3>3. w \o Append(s, event[g]) = Append(w \o s, event[g])
      BY <3>1, AppendLast
    <3> QED
      BY <3>2, <3>3 DEF w, s
  <2> QED
    BY <1>1, <1>3, <2>1 DEF Accepted
<1> QED
  BY <1>1, <1>2, <1>3, SentTo

LEMMA ContentChanges ==
  ASSUME Inv, Pumps, [Next]_vars, NEW d \in Clients
  PROVE  \/ Accepted(d)' = Accepted(d)
         \/ \E g \in Goroutines : SendOrSkip(g, d) /\ Accepted(d)' = Append(Accepted(d), event[g])
<1>1. ASSUME NEW c \in Clients, Receive(c) PROVE Accepted(d)' = Accepted(d)
  BY <1>1, Received
<1>2. ASSUME NEW c \in Clients, Write(c) PROVE Accepted(d)' = Accepted(d)
  BY <1>2, Wrote
<1>3. ASSUME NEW g \in Goroutines, NEW c \in Clients, SendOrSkip(g, c), Accepted(d)' # Accepted(d)
      PROVE  SendOrSkip(g, d) /\ Accepted(d)' = Append(Accepted(d), event[g])
  BY <1>3, Sent
<1>4. CASE UNCHANGED <<send, hand, written>>
  BY <1>4 DEF Accepted
<1>5. \/ \E c \in Clients : Receive(c) \/ Write(c)
      \/ \E g \in Goroutines, c \in Clients : SendOrSkip(g, c)
      \/ UNCHANGED <<send, hand, written>>
  <2> USE DEF chan, output
  <2>1. ASSUME NEW c \in Clients,
               \/ Upgrade(c) \/ Disconnect(c) \/ ReadFails(c) \/ ConnectionStep(c)
               \/ WriteFails(c) \/ SayGoodbye(c)
        PROVE  UNCHANGED <<send, hand, written>>
    BY <2>1 DEF Upgrade, Disconnect, ReadFails, ConnectionStep, LockHub, Register, StartPumps, DeleteClient,
       CloseChannel, CloseConn, WriteFails, SayGoodbye
  <2>2. ASSUME NEW g \in Goroutines, BeginRange(g) \/ EndRange(g) \/ \E u \in Users : Call(g, u)
        PROVE  UNCHANGED <<send, hand, written>>
    BY <2>2 DEF BeginRange, EndRange, Call
  <2> QED
    BY <2>1, <2>2 DEF Next, CallStep, vars
<1> QED
  BY <1>1, <1>2, <1>3, <1>4, <1>5

LEMMA AppendGrows ==
  ASSUME Inv, NEW c \in Clients, NEW e \in Events
  PROVE  LET q == Append(Accepted(c), e)
             n == Len(Accepted(c)) IN
         /\ n \in Nat /\ q \in Seq(Events) /\ Len(q) = n + 1 /\ DOMAIN q = 1 .. n + 1
         /\ \A i \in 1 .. n : i \in 1 .. n + 1 /\ q[i] = Accepted(c)[i]
         /\ n + 1 \in 1 .. n + 1 /\ q[n + 1] = e
         /\ \A i \in 1 .. n + 1 : i \in 1 .. n \/ i = n + 1
<1> DEFINE a == Accepted(c)
           q == Append(a, e)
           n == Len(a)
<1>1. a \in Seq(Events) /\ n \in Nat
  BY ContentTyped
<1> HIDE DEF a
<1>2. q \in Seq(Events) /\ Len(q) = n + 1 /\ (\A i \in 1 .. n : q[i] = a[i]) /\ q[n + 1] = e
  BY <1>1, AppendProperties
<1>3. DOMAIN q = 1 .. n + 1
  BY <1>2, LenProperties
<1> HIDE DEF q, n
<1>4. /\ \A i \in 1 .. n : i \in 1 .. n + 1
      /\ n + 1 \in 1 .. n + 1
      /\ \A i \in 1 .. n + 1 : i \in 1 .. n \/ i = n + 1
  BY <1>1
<1> QED
  BY <1>1, <1>2, <1>3, <1>4 DEF a, q, n

Told(c, e) == \E i \in 1 .. Len(Accepted(c)) : Accepted(c)[i] = e

LEMMA ToldChanges ==
  ASSUME Inv, Pumps, [Next]_vars, NEW c \in Clients, NEW e \in Events
  PROVE  /\ Told(c, e) => Told(c, e)'
         /\ Told(c, e)' => Told(c, e) \/ \E g \in Goroutines : SendOrSkip(g, c) /\ event[g] = e
<1>1. CASE Accepted(c)' = Accepted(c)
  BY <1>1 DEF Told
<1>2. ASSUME NEW g \in Goroutines, SendOrSkip(g, c), Accepted(c)' = Append(Accepted(c), event[g])
      PROVE  /\ Told(c, e) => Told(c, e)'
             /\ Told(c, e)' => Told(c, e) \/ event[g] = e
  <2>1. event[g] \in Events
    BY <1>2, SentTo
  <2> HIDE DEF Inv
  <2> QED
    BY <1>2, <2>1, AppendGrows DEF Told
<1> QED
  BY <1>1, <1>2, ContentChanges

(* A call that serves a connection tells it, unless its channel is full.   *)
LEMMA ServesIt ==
  ASSUME Inv, NEW g \in Goroutines, NEW c \in Clients, SendOrSkip(g, c), NEW e, e = event[g]
  PROVE  Told(c, e)' \/ e \in missed'[c]
<1>1. CASE Accepted(c)' = Append(Accepted(c), event[g])
  <2>1. event[g] \in Events
    BY SentTo
  <2> QED
    BY <1>1, <2>1, AppendGrows DEF Told
<1> QED
  BY <1>1, Sent

(* Calls are numbered as they begin, so that no two at a time carry one    *)
(* event; what a connection has been told is over, or is being told by the *)
(* one call that carries it and has served that connection.                *)
Numbered ==
  /\ returned \subseteq 1 .. calls
  /\ \A e \in Events : earlier[e] \subseteq returned
  /\ \A g \in Goroutines : InCall(g) => event[g] \in 1 .. calls /\ event[g] \notin returned
  /\ \A g, h \in Goroutines : InCall(g) /\ InCall(h) /\ event[g] = event[h] => g = h
  /\ \A c \in Clients : \A e \in Events : Told(c, e) =>
       e \in returned \/ \E g \in Goroutines : pc[g] = "send" /\ event[g] = e /\ c \notin todo[g]

(* A fan-out has served the registered connections it is not yet to visit. *)
Served ==
  \A g \in Goroutines : pc[g] = "send" =>
    \A c \in clients[target[g]] : c \in todo[g] \/ Told(c, event[g]) \/ event[g] \in missed[c]

(* Steps that no call takes leave the calls alone, and the connections a   *)
(* fan-out is visiting.                                                    *)
LEMMA OtherSteps ==
  ASSUME Inv, [Next]_vars,
         ~ \E g \in Goroutines : CallStep(g) \/ \E u \in Users : Call(g, u)
  PROVE  /\ UNCHANGED fanout
         /\ \A g \in Goroutines : (InCall(g)' <=> InCall(g)) /\ (pc'[g] = "send" <=> pc[g] = "send")
         /\ \A g \in Goroutines : pc[g] = "send" => clients' = clients
<1> DEFINE Calm == /\ UNCHANGED fanout
                   /\ \A g \in Goroutines : (InCall(g)' <=> InCall(g)) /\ (pc'[g] = "send" <=> pc[g] = "send")
                   /\ \A g \in Goroutines : pc[g] = "send" => clients' = clients
<1>0. pc \in [Goroutines -> Labels] /\ Clients \subseteq Goroutines
      /\ \A g \in Goroutines : g \in readers <=> pc[g] = "send"
  BY DEF Inv, Typed, TypeOK, Goroutines, SafetyInv, LockInv
<1> USE <1>0 DEF Goto, InCall, map, output
<1>1. ASSUME NEW c \in Clients, Upgrade(c) PROVE Calm
  BY <1>1 DEF Upgrade
<1>2. ASSUME NEW c \in Clients, LockHub(c) PROVE Calm
  BY <1>2 DEF LockHub
<1>3. ASSUME NEW c \in Clients, Register(c) PROVE Calm
  <2>1. \A g \in Goroutines : pc[g] # "send"
    BY <1>3 DEF Register, Exclusive
  <2> QED
    BY <1>3, <2>1 DEF Register
<1>4. ASSUME NEW c \in Clients, DeleteClient(c) PROVE Calm
  <2>1. \A g \in Goroutines : pc[g] # "send"
    BY <1>4 DEF DeleteClient, Exclusive
  <2> QED
    BY <1>4, <2>1 DEF DeleteClient
<1>5. ASSUME NEW c \in Clients, StartPumps(c) \/ ReadFails(c) \/ CloseConn(c) PROVE Calm
  BY <1>5 DEF StartPumps, ReadFails, CloseConn
<1>6. ASSUME NEW c \in Clients, CloseChannel(c) PROVE Calm
  BY <1>6 DEF CloseChannel
<1>7. ASSUME NEW c \in Clients, Disconnect(c) \/ Receive(c) \/ Write(c) \/ WriteFails(c) \/ SayGoodbye(c) PROVE Calm
  BY <1>7 DEF Disconnect, Receive, Write, WriteFails, SayGoodbye
<1>8. CASE UNCHANGED vars
  BY <1>8 DEF vars
<1> QED
  BY <1>1, <1>2, <1>3, <1>4, <1>5, <1>6, <1>7, <1>8 DEF Next, ConnectionStep

LEMMA StepNumbered == Inv /\ Pumps /\ Numbered /\ [Next]_vars => Numbered'
<1> SUFFICES ASSUME Inv, Pumps, Numbered, [Next]_vars PROVE Numbered'
  OBVIOUS
<1>0. /\ pc \in [Goroutines -> Labels] /\ event \in [Goroutines -> 0 .. MaxCalls]
      /\ todo \in [Goroutines -> SUBSET Clients] /\ calls \in Nat /\ MaxCalls \in Nat
      /\ earlier \in [Events -> SUBSET Events] /\ returned \subseteq Events
  BY HubAssumption DEF Inv, Typed, TypeOK
<1>1. CASE ~ \E g \in Goroutines : CallStep(g) \/ \E u \in Users : Call(g, u)
  <2>1. /\ UNCHANGED fanout
        /\ \A g \in Goroutines : (InCall(g)' <=> InCall(g)) /\ (pc'[g] = "send" <=> pc[g] = "send")
    BY <1>1, OtherSteps
  <2>2. ASSUME NEW c \in Clients, NEW e \in Events, Told(c, e)' PROVE Told(c, e)
    BY <1>1, <2>2, ToldChanges DEF CallStep
  <2> HIDE DEF InCall
  <2> QED
    BY <2>1, <2>2 DEF Numbered, fanout
<1>2. ASSUME NEW g \in Goroutines, NEW u \in Users, Call(g, u) PROVE Numbered'
  <2>1. /\ calls < MaxCalls /\ calls' = calls + 1 /\ event' = [event EXCEPT ![g] = calls + 1]
        /\ earlier' = [earlier EXCEPT ![calls + 1] = returned] /\ pc' = [pc EXCEPT ![g] = "rlock"]
        /\ pc[g] = Rest(g) /\ UNCHANGED <<returned, todo, send, hand, written>>
    BY <1>2 DEF Call, Goto, chan, output
  <2>2. calls + 1 \in Events /\ 1 .. calls \subseteq 1 .. calls + 1 /\ calls + 1 \notin 1 .. calls
    BY <1>0, <2>1 DEF Events
  <2>3. pc[g] \notin {"rlock", "send"}
    BY <2>1 DEF Rest
  <2>4. \A c \in Clients : \A e \in Events : Told(c, e)' <=> Told(c, e)
    BY <2>1 DEF Told, Accepted
  <2>5. \A h \in Goroutines : h # g => pc'[h] = pc[h] /\ event'[h] = event[h] /\ todo'[h] = todo[h]
    BY <1>0, <2>1
  <2>6. event'[g] = calls + 1 /\ pc'[g] = "rlock"
    BY <1>0, <2>1
  <2>7. \A e \in Events : earlier'[e] \subseteq returned
    BY <1>0, <2>1, <2>2 DEF Numbered
  <2>8. \A h \in Goroutines : InCall(h)' => event'[h] \in 1 .. calls' /\ event'[h] \notin returned'
    <3>1. ASSUME NEW h \in Goroutines, InCall(h)', h # g
          PROVE  event'[h] \in 1 .. calls' /\ event'[h] \notin returned'
      <4>1. event[h] \in 1 .. calls /\ event[h] \notin returned
        BY <2>5, <3>1 DEF Numbered, InCall
      <4> QED
        BY <2>1, <2>2, <2>5, <3>1, <4>1
    <3>2. event'[g] \in 1 .. calls' /\ event'[g] \notin returned'
      <4>1. calls + 1 \in 1 .. calls + 1
        BY <1>0
      <4> QED
        BY <2>1, <2>2, <2>6, <4>1 DEF Numbered
    <3> QED
      BY <3>1, <3>2
  <2>9. \A h, k \in Goroutines : InCall(h)' /\ InCall(k)' /\ event'[h] = event'[k] => h = k
    <3>1. \A h \in Goroutines : h # g /\ InCall(h)' => InCall(h) /\ event'[h] \in 1 .. calls
      BY <2>5 DEF Numbered, InCall
    <3> QED
      BY <2>2, <2>5, <2>6, <3>1 DEF Numbered
  <2>10. \A c \in Clients : \A e \in Events : Told(c, e)' =>
           e \in returned' \/ \E h \in Goroutines : pc'[h] = "send" /\ event'[h] = e /\ c \notin todo'[h]
    BY <2>1, <2>3, <2>4, <2>5 DEF Numbered
  <2> QED
    BY <2>1, <2>2, <2>7, <2>8, <2>9, <2>10 DEF Numbered
<1>3. ASSUME NEW g \in Goroutines, BeginRange(g) PROVE Numbered'
  <2>1. /\ pc[g] = "rlock" /\ pc' = [pc EXCEPT ![g] = "send"]
        /\ todo' = [todo EXCEPT ![g] = clients[target[g]]]
        /\ UNCHANGED <<calls, event, earlier, returned, send, hand, written>>
    BY <1>3 DEF BeginRange, Goto, chan, output
  <2>2. \A c \in Clients : \A e \in Events : Told(c, e)' <=> Told(c, e)
    BY <2>1 DEF Told, Accepted
  <2>3. \A h \in Goroutines : InCall(h)' <=> InCall(h)
    BY <1>0, <2>1 DEF InCall
  <2>4. \A h \in Goroutines : pc[h] = "send" => pc'[h] = "send" /\ todo'[h] = todo[h]
    BY <1>0, <2>1
  <2> QED
    BY <2>1, <2>2, <2>3, <2>4 DEF Numbered
<1>4. ASSUME NEW g \in Goroutines, NEW c \in Clients, SendOrSkip(g, c) PROVE Numbered'
  <2>1. /\ pc[g] = "send" /\ c \in todo[g] /\ event[g] \in Events
        /\ UNCHANGED <<pc, event, calls, returned, earlier>>
        /\ todo' = [todo EXCEPT ![g] = todo[g] \ {c}]
    BY <1>4, SentTo
  <2>2. \A h \in Goroutines : InCall(h)' <=> InCall(h)
    BY <2>1 DEF InCall
  <2>3. \A h \in Goroutines : todo'[h] \subseteq todo[h] /\ c \notin todo'[g]
    BY <1>0, <2>1
  <2>4. ASSUME NEW d \in Clients, NEW e \in Events, Told(d, e)'
        PROVE  Told(d, e) \/ (d = c /\ e = event[g])
    <3>1. CASE Accepted(d)' = Accepted(d)
      BY <2>4, <3>1 DEF Told
    <3>2. CASE d = c /\ Accepted(d)' = Append(Accepted(d), event[g])
      BY <2>1, <2>4, <3>2, AppendGrows DEF Told
    <3> QED
      BY <1>4, <3>1, <3>2, Sent
  <2>5. \A d \in Clients : \A e \in Events : Told(d, e)' =>
          e \in returned' \/ \E h \in Goroutines : pc'[h] = "send" /\ event'[h] = e /\ d \notin todo'[h]
    BY <2>1, <2>3, <2>4 DEF Numbered
  <2> QED
    BY <2>1, <2>2, <2>5 DEF Numbered
<1>5. ASSUME NEW g \in Goroutines, EndRange(g) PROVE Numbered'
  <2>1. /\ pc[g] = "send" /\ pc' = [pc EXCEPT ![g] = Rest(g)]
        /\ returned' = returned \cup {event[g]}
        /\ UNCHANGED <<calls, event, earlier, todo, send, hand, written>>
    BY <1>5 DEF EndRange, Goto, chan, output
  <2>2. \A c \in Clients : \A e \in Events : Told(c, e)' <=> Told(c, e)
    BY <2>1 DEF Told, Accepted
  <2>3. pc'[g] \notin {"rlock", "send"} /\ \A h \in Goroutines : h # g => pc'[h] = pc[h]
    BY <1>0, <2>1 DEF Rest
  <2>4. event[g] \in 1 .. calls
    BY <2>1 DEF Numbered, InCall
  <2>5. \A h \in Goroutines : InCall(h)' => h # g /\ InCall(h) /\ event[h] # event[g]
    BY <2>1, <2>3 DEF Numbered, InCall
  <2>6. \A d \in Clients : \A e \in Events : Told(d, e)' =>
          e \in returned' \/ \E h \in Goroutines : pc'[h] = "send" /\ event'[h] = e /\ d \notin todo'[h]
    BY <2>1, <2>2, <2>3 DEF Numbered
  <2> QED
    BY <2>1, <2>4, <2>5, <2>6 DEF Numbered
<1> QED
  BY <1>1, <1>2, <1>3, <1>4, <1>5 DEF CallStep

LEMMA InitNumbered == Init => Numbered /\ Served
<1> SUFFICES ASSUME Init PROVE Numbered /\ Served
  OBVIOUS
<1>1. \A g \in Goroutines : pc[g] \notin {"rlock", "send"}
  BY DEF Init, Goroutines
<1>2. ASSUME NEW c \in Clients PROVE Accepted(c) = <<>>
  <2>1. <<>> \o <<>> = <<>>
    <3>1. <<>> \in Seq(Events)
      OBVIOUS
    <3> QED
      BY <3>1, ConcatEmptySeq
  <2> QED
    BY <2>1 DEF Init, Accepted
<1>3. \A c \in Clients : \A e \in Events : ~ Told(c, e)
  BY <1>2 DEF Told
<1>4. returned = {} /\ earlier = [e \in Events |-> {}]
  BY DEF Init
<1> QED
  BY <1>1, <1>3, <1>4 DEF Numbered, Served, InCall

LEMMA ToldStays ==
  ASSUME Inv, Pumps, [Next]_vars, NEW c \in Clients, NEW e \in Events
  PROVE  Told(c, e) => Told(c, e)'
BY ToldChanges

LEMMA StepServed == Inv /\ Pumps /\ Served /\ [Next]_vars => Served'
<1> SUFFICES ASSUME Inv, Pumps, Served, [Next]_vars, NEW h \in Goroutines, pc'[h] = "send",
                    NEW d \in clients'[target'[h]], NEW e, e = event'[h]
             PROVE  d \in todo'[h] \/ Told(d, e)' \/ e \in missed'[d]
  BY DEF Served, Told
<1>0. /\ pc \in [Goroutines -> Labels] /\ event \in [Goroutines -> 0 .. MaxCalls]
      /\ todo \in [Goroutines -> SUBSET Clients] /\ clients \in [Users -> SUBSET Clients]
      /\ target \in [Goroutines -> Users \cup {None}]
      /\ \A g \in Goroutines : InCall(g) => target[g] \in Users /\ event[g] \in Events
  BY DEF Inv, Typed, TypeOK, CallOK
<1>1. ASSUME pc[h] = "send", clients' = clients, target'[h] = target[h], event'[h] = event[h],
             todo'[h] = todo[h], missed' = missed
      PROVE  d \in todo'[h] \/ Told(d, e)' \/ e \in missed'[d]
  <2>1. d \in Clients /\ e = event[h] /\ e \in Events
    BY <1>0, <1>1 DEF InCall
  <2>2. d \in todo[h] \/ Told(d, e) \/ e \in missed[d]
    BY <1>1, <2>1 DEF Served
  <2>3. Told(d, e) => Told(d, e)'
    BY <1>1, <2>1, ToldStays
  <2> QED
    BY <1>1, <2>2, <2>3
<1>2. CASE ~ \E g \in Goroutines : CallStep(g) \/ \E u \in Users : Call(g, u)
  BY <1>1, <1>2, OtherSteps DEF fanout
<1>3. ASSUME NEW g \in Goroutines, NEW u \in Users, Call(g, u)
      PROVE  d \in todo'[h] \/ Told(d, e)' \/ e \in missed'[d]
  <2>1. /\ clients' = clients /\ missed' = missed /\ todo' = todo /\ pc' = [pc EXCEPT ![g] = "rlock"]
        /\ target' = [target EXCEPT ![g] = u] /\ event' = [event EXCEPT ![g] = calls + 1]
    BY <1>3 DEF Call, Goto, map
  <2>2. h # g
    BY <1>0, <2>1
  <2> QED
    BY <1>0, <1>1, <2>1, <2>2
<1>4. ASSUME NEW g \in Goroutines, BeginRange(g)
      PROVE  d \in todo'[h] \/ Told(d, e)' \/ e \in missed'[d]
  <2>1. /\ clients' = clients /\ missed' = missed /\ pc' = [pc EXCEPT ![g] = "send"]
        /\ todo' = [todo EXCEPT ![g] = clients[target[g]]] /\ target' = target /\ event' = event
    BY <1>4 DEF BeginRange, Goto, map
  <2>2. CASE h = g
    BY <1>0, <2>1, <2>2
  <2>3. CASE h # g
    BY <1>0, <1>1, <2>1, <2>3
  <2> QED
    BY <2>2, <2>3
<1>5. ASSUME NEW g \in Goroutines, EndRange(g)
      PROVE  d \in todo'[h] \/ Told(d, e)' \/ e \in missed'[d]
  <2>1. /\ clients' = clients /\ missed' = missed /\ pc' = [pc EXCEPT ![g] = Rest(g)]
        /\ todo' = todo /\ target' = target /\ event' = event
    BY <1>5 DEF EndRange, Goto, map
  <2>2. h # g
    BY <1>0, <2>1 DEF Rest
  <2> QED
    BY <1>0, <1>1, <2>1, <2>2
<1>6. ASSUME NEW g \in Goroutines, NEW c \in Clients, SendOrSkip(g, c)
      PROVE  d \in todo'[h] \/ Told(d, e)' \/ e \in missed'[d]
  <2>1. /\ clients' = clients /\ pc' = pc /\ target' = target /\ event' = event
        /\ todo' = [todo EXCEPT ![g] = @ \ {c}]
        /\ \A x : x \in missed[d] => x \in missed'[d]
    <3>1. d \in Clients
      BY <1>0, <1>6, SentTo DEF map, InCall
    <3> QED
      BY <1>6, <3>1, SentTo DEF map
  <2>2. d \in Clients /\ e = event[h] /\ e \in Events
    BY <1>0, <2>1 DEF InCall
  <2>3. Told(d, e) => Told(d, e)'
    BY <2>1, <2>2, ToldStays
  <2>4. d \in todo[h] \/ Told(d, e) \/ e \in missed[d]
    BY <2>1, <2>2 DEF Served
  <2>5. CASE h = g /\ d = c
    BY <1>6, <2>2, <2>5, ServesIt
  <2>6. CASE ~ (h = g /\ d = c)
    BY <1>0, <2>1, <2>3, <2>4, <2>6
  <2> QED
    BY <2>5, <2>6
<1> QED
  BY <1>2, <1>3, <1>4, <1>5, <1>6 DEF CallStep

(* What a fan-out sends is over for no call and new to the connection.     *)
LEMMA FreshEvent ==
  ASSUME Inv, Numbered, NEW g \in Goroutines, NEW c \in Clients, SendOrSkip(g, c)
  PROVE  /\ event[g] \in Events /\ event[g] \notin returned /\ ~ Told(c, event[g])
         /\ \A x \in Events : event[g] \notin earlier[x]
<1>1. event[g] \in Events /\ pc[g] = "send" /\ c \in todo[g]
  BY SentTo
<1> HIDE DEF Inv
<1>2. event[g] \notin returned
  BY <1>1 DEF Numbered, InCall
<1>3. ~ Told(c, event[g])
  BY <1>1, <1>2 DEF Numbered, InCall
<1> QED
  BY <1>1, <1>2, <1>3 DEF Numbered

(* The history of a call is fixed when it begins, before anybody is told.  *)
LEMMA EarlierStays ==
  ASSUME Inv, Numbered, [Next]_vars, NEW c \in Clients, NEW e \in Events, Told(c, e)
  PROVE  earlier'[e] = earlier[e]
<1>1. e \in 1 .. calls
  <2>1. e \in returned \/ \E g \in Goroutines : InCall(g) /\ event[g] = e
    BY DEF Numbered, InCall
  <2> HIDE DEF InCall, Inv
  <2> QED
    BY <2>1 DEF Numbered
<1>2. ASSUME NEW g \in Goroutines, NEW u \in Users, Call(g, u) PROVE earlier'[e] = earlier[e]
  <2>1. earlier' = [earlier EXCEPT ![calls + 1] = returned]
    BY <1>2 DEF Call
  <2>2. calls \in Nat /\ earlier \in [Events -> SUBSET Events]
    BY HubAssumption DEF Inv, Typed, TypeOK
  <2>3. e # calls + 1
    BY <1>1, <2>2
  <2> QED
    BY <2>1, <2>2, <2>3
<1>3. ASSUME NEW g \in Goroutines, CallStep(g) PROVE earlier'[e] = earlier[e]
  <2>1. ASSUME NEW d \in Clients, SendOrSkip(g, d) PROVE earlier' = earlier
    BY <2>1, SentTo
  <2> QED
    BY <1>3, <2>1 DEF CallStep, BeginRange, EndRange
<1>4. CASE ~ \E g \in Goroutines : CallStep(g) \/ \E u \in Users : Call(g, u)
  BY <1>4, OtherSteps DEF fanout
<1> QED
  BY <1>2, <1>3, <1>4

LEMMA StepOrder ==
  Inv /\ Pumps /\ Numbered /\ DeliveredInCallOrder /\ [Next]_vars => DeliveredInCallOrder'
<1> SUFFICES ASSUME Inv, Pumps, Numbered, DeliveredInCallOrder, [Next]_vars, NEW c \in Clients
             PROVE  \A i, j \in DOMAIN Accepted(c)' :
                      i < j => Accepted(c)'[j] \notin earlier'[Accepted(c)'[i]] \cup {Accepted(c)'[i]}
  BY DEF DeliveredInCallOrder
<1> DEFINE a == Accepted(c)
           n == Len(a)
<1>1. a \in Seq(Events) /\ n \in Nat /\ DOMAIN a = 1 .. n
  BY ContentTyped
<1>2. \A i, j \in 1 .. n : i < j => a[j] \notin earlier[a[i]] \cup {a[i]}
  BY <1>1 DEF DeliveredInCallOrder
<1>3. \A i \in 1 .. n : a[i] \in Events /\ earlier'[a[i]] = earlier[a[i]] /\ Told(c, a[i])
  <2> SUFFICES ASSUME NEW i \in 1 .. n
               PROVE  a[i] \in Events /\ earlier'[a[i]] = earlier[a[i]] /\ Told(c, a[i])
    OBVIOUS
  <2>1. a[i] \in Events
    BY <1>1
  <2>2. Told(c, a[i])
    BY DEF Told
  <2> HIDE DEF a
  <2> QED
    BY <2>1, <2>2, EarlierStays
<1>4. CASE Accepted(c)' = a
  BY <1>1, <1>2, <1>3, <1>4
<1>5. ASSUME NEW g \in Goroutines, SendOrSkip(g, c), Accepted(c)' = Append(a, event[g])
      PROVE  \A i, j \in DOMAIN Accepted(c)' :
               i < j => Accepted(c)'[j] \notin earlier'[Accepted(c)'[i]] \cup {Accepted(c)'[i]}
  <2> DEFINE q == Accepted(c)'
  <2>1. /\ event[g] \in Events /\ ~ Told(c, event[g])
        /\ \A x \in Events : event[g] \notin earlier[x]
    BY <1>5, FreshEvent
  <2>2. /\ DOMAIN q = 1 .. n + 1 /\ \A i \in 1 .. n : q[i] = a[i]
        /\ q[n + 1] = event[g] /\ \A i \in 1 .. n + 1 : i \in 1 .. n \/ i = n + 1
    BY <1>5, <2>1, AppendGrows
  <2> HIDE DEF Inv, Numbered, DeliveredInCallOrder, q, a, n
  <2> SUFFICES ASSUME NEW i \in 1 .. n + 1, NEW j \in 1 .. n + 1, i < j
               PROVE  q[j] \notin earlier'[q[i]] \cup {q[i]}
    BY <2>2 DEF q
  <2>3. i \in 1 .. n
    BY <1>1
  <2>4. CASE j \in 1 .. n
    BY <1>2, <1>3, <2>2, <2>3, <2>4
  <2>5. CASE j = n + 1
    BY <1>3, <2>1, <2>2, <2>3, <2>5
  <2> QED
    BY <2>2, <2>4, <2>5
<1> QED
  BY <1>4, <1>5, ContentChanges

(* No connection gets an event twice, nor an event of a call that had      *)
(* returned before the call of an event it already has even began: calls   *)
(* of SendToUser that do not overlap are delivered in their order, in      *)
(* spite of others that overlap both.                                      *)
THEOREM CallOrderCorrect == Spec => []DeliveredInCallOrder
<1>1. Init => DeliveredInCallOrder
  <2> SUFFICES ASSUME Init, NEW c \in Clients PROVE DOMAIN Accepted(c) = {}
    BY DEF DeliveredInCallOrder
  <2>1. \A e \in Events : ~ Told(c, e)
    BY InitNumbered DEF Init, Numbered, InCall, Goroutines
  <2>2. Accepted(c) \in Seq(Events) /\ DOMAIN Accepted(c) = 1 .. Len(Accepted(c))
    BY InitInv, ContentTyped
  <2> QED
    BY <2>1, <2>2 DEF Told
<1> QED
  BY InitInv, StepInv, InitPumps, StepPumps, InitNumbered, StepNumbered, <1>1, StepOrder, PTL DEF Spec

(* When a fan-out returns, it has told every connection its user then has  *)
(* registered, but for those whose own channel was full at their turn.     *)
THEOREM ServiceCorrect == Spec => EveryDeviceServed
<1> DEFINE Works == \A g \in Goroutines : EndRange(g) =>
                      \A c \in clients[target[g]] :
                        \/ \E i \in DOMAIN Accepted(c) : Accepted(c)[i] = event[g]
                        \/ event[g] \in missed[c]
<1>1. Inv /\ Served => Works
  <2> SUFFICES ASSUME Inv, Served, NEW g \in Goroutines, EndRange(g), NEW c \in clients[target[g]]
               PROVE  \/ \E i \in DOMAIN Accepted(c) : Accepted(c)[i] = event[g]
                      \/ event[g] \in missed[c]
    OBVIOUS
  <2>1. pc[g] = "send" /\ todo[g] = {}
    BY DEF EndRange
  <2>2. c \in Clients
    BY <2>1 DEF Inv, Typed, TypeOK, CallOK, InCall
  <2>3. DOMAIN Accepted(c) = 1 .. Len(Accepted(c))
    BY <2>2, ContentTyped
  <2> QED
    BY <2>1, <2>3 DEF Served, Told
<1>2. Inv /\ Served /\ [Next]_vars => [Works]_vars
  BY <1>1
<1> QED
  BY InitInv, StepInv, InitPumps, StepPumps, InitNumbered, StepServed, <1>2, PTL DEF Spec, EveryDeviceServed

LEMMA Emptied ==
  ASSUME Inv, NEW c \in Clients, hand[c] = <<>>, send[c] = <<>>
  PROVE  Accepted(c) = written[c]
BY ContentTyped, ConcatEmptySeq DEF Accepted

(* What a step does to the Close frame of a connection and to what is      *)
(* written to it: nothing once there is a frame, and the goodbye is said   *)
(* by SayGoodbye alone.                                                    *)
LEMMA FrameStep ==
  ASSUME Inv, [Next]_vars, NEW c \in Clients
  PROVE  /\ framed[c] # "none" => written'[c] = written[c] /\ framed'[c] = framed[c]
         /\ framed'[c] = "goodbye" => framed[c] = "goodbye" \/ SayGoodbye(c)
<1>1. framed \in [Clients -> {"none", "answer", "goodbye"}] /\ written \in [Clients -> Seq(Events)]
  BY DEF Inv, Typed, TypeOK
<1> HIDE DEF Inv
<1> DEFINE Kept == /\ framed[c] # "none" => written'[c] = written[c] /\ framed'[c] = framed[c]
                   /\ framed'[c] = "goodbye" => framed[c] = "goodbye" \/ SayGoodbye(c)
<1>2. ASSUME NEW d \in Clients, ReadFails(d) PROVE Kept
  BY <1>1, <1>2 DEF ReadFails, CanWrite
<1>3. ASSUME NEW d \in Clients, Write(d) PROVE Kept
  <2>1. framed' = framed /\ framed[d] = "none" /\ written' = [written EXCEPT ![d] = @ \o hand[d]]
    BY <1>3 DEF Write, CanWrite
  <2> QED
    BY <1>1, <2>1
<1>4. ASSUME NEW d \in Clients, SayGoodbye(d) PROVE Kept
  <2>1. /\ written' = written
        /\ \/ framed' = framed
           \/ framed[d] = "none" /\ framed' = [framed EXCEPT ![d] = "goodbye"]
    <3>1. CASE CanWrite(d)
      BY <1>4, <3>1 DEF SayGoodbye, CanWrite
    <3>2. CASE ~CanWrite(d)
      BY <1>4, <3>2 DEF SayGoodbye
    <3> QED
      BY <3>1, <3>2
  <2> QED
    BY <1>1, <1>4, <2>1
<1>5. ASSUME NEW d \in Clients,
             \/ Upgrade(d) \/ Disconnect(d) \/ ConnectionStep(d) \/ Receive(d) \/ WriteFails(d)
      PROVE  Kept
  BY <1>5 DEF Upgrade, Disconnect, ConnectionStep, LockHub, Register, StartPumps, DeleteClient,
     CloseChannel, CloseConn, Receive, WriteFails, output
<1>6. ASSUME NEW g \in Goroutines, CallStep(g) \/ \E u \in Users : Call(g, u) PROVE Kept
  BY <1>6 DEF CallStep, BeginRange, SendOrSkip, EndRange, Call, output
<1>7. CASE UNCHANGED vars
  BY <1>7 DEF vars, output
<1> QED
  BY <1>2, <1>3, <1>4, <1>5, <1>6, <1>7 DEF Next

(* The hub's goodbye is written last: its connection has by then been      *)
(* written all that its channel ever took, and takes and gets no more; and *)
(* nothing follows a Close frame, whoever wrote it.                        *)
THEOREM CloseFrameCorrect == Spec => CloseFrameIsLast
<1> DEFINE Last == \A c \in Clients :
                     /\ framed'[c] = "goodbye" => written'[c] = Accepted(c)
                     /\ framed[c] # "none" => UNCHANGED <<written[c], framed[c]>>
<1>1. Inv /\ Pumps /\ [Next]_vars => Last
  <2> SUFFICES ASSUME Inv, Pumps, [Next]_vars, NEW c \in Clients
               PROVE  /\ framed'[c] = "goodbye" => written'[c] = Accepted(c)
                      /\ framed[c] # "none" => written'[c] = written[c] /\ framed'[c] = framed[c]
    OBVIOUS
  <2>1. ASSUME framed[c] = "goodbye" PROVE written'[c] = Accepted(c)
    <3>1. hand[c] = <<>> /\ send[c] = <<>>
      BY <2>1 DEF Pumps
    <3> QED
      BY <2>1, <3>1, Emptied, FrameStep
  <2>2. ASSUME SayGoodbye(c) PROVE written'[c] = Accepted(c)
    <3>1. hand[c] = <<>> /\ send[c] = <<>> /\ written' = written
      BY <2>2 DEF SayGoodbye, Drained, Pumps
    <3> QED
      BY <3>1, Emptied
  <2> QED
    BY <2>1, <2>2, FrameStep
<1>2. Inv /\ Pumps /\ [Next]_vars => [Last]_vars
  BY <1>1
<1> QED
  BY InitInv, StepInv, InitPumps, StepPumps, <1>2, PTL DEF Spec, CloseFrameIsLast
-----------------------------------------------------------------------------
(* The hub as each connection sees it: steps of the hub, one connection's  *)
(* mailbox at a time.                                                      *)

Look(c) == <<Phase(c), Accepted(c), written[c]>>

LEMMA NothingToSee ==
  ASSUME \A c \in Clients : Look(c)' = Look(c)
  PROVE  UNCHANGED M!vars
BY DEF M!vars, Look

LEMMA InitMailbox == Init => M!Init
<1> SUFFICES ASSUME Init PROVE M!Init
  OBVIOUS
<1>1. \A c \in Clients : Phase(c) = "new" /\ written[c] = <<>> /\ hand[c] = <<>> /\ send[c] = <<>>
  BY DEF Init, Phase, Goroutines
<1>2. \A c \in Clients : Accepted(c) = <<>>
  BY <1>1, InitInv, Emptied
<1>3. \A c \in Clients : Len(written[c]) = 0
  BY <1>1
<1> QED
  BY <1>1, <1>2, <1>3 DEF M!Init

(* Steps inside a phase.                                                   *)
LEMMA PhaseStays ==
  ASSUME Inv, NEW c \in Clients,
         \/ Upgrade(c) \/ LockHub(c) \/ StartPumps(c) \/ Disconnect(c) \/ ReadFails(c)
         \/ CloseChannel(c) \/ CloseConn(c) \/ Receive(c) \/ Write(c) \/ WriteFails(c) \/ SayGoodbye(c)
  PROVE  \A d \in Clients : Phase(d)' = Phase(d)
<1>0. pc \in [Goroutines -> Labels] /\ Clients \subseteq Goroutines
  BY DEF Inv, Typed, TypeOK, Goroutines
<1> USE <1>0 DEF Phase, Goto
<1>1. CASE Upgrade(c)
  BY <1>1 DEF Upgrade
<1>2. CASE LockHub(c)
  BY <1>2 DEF LockHub
<1>3. CASE StartPumps(c)
  BY <1>3 DEF StartPumps
<1>4. CASE ReadFails(c)
  BY <1>4 DEF ReadFails
<1>5. CASE CloseChannel(c)
  BY <1>5 DEF CloseChannel
<1>6. CASE CloseConn(c)
  BY <1>6 DEF CloseConn
<1>7. CASE Disconnect(c) \/ Receive(c) \/ Write(c) \/ WriteFails(c) \/ SayGoodbye(c)
  BY <1>7 DEF Disconnect, Receive, Write, WriteFails, SayGoodbye
<1> QED
  BY <1>1, <1>2, <1>3, <1>4, <1>5, <1>6, <1>7

LEMMA CallsKeepPhases ==
  ASSUME Inv, NEW g \in Goroutines,
         \/ BeginRange(g) \/ EndRange(g) \/ (\E u \in Users : Call(g, u))
         \/ \E c \in Clients : SendOrSkip(g, c)
  PROVE  \A d \in Clients : Phase(d)' = Phase(d)
<1>0. pc \in [Goroutines -> Labels] /\ Clients \subseteq Goroutines
  BY DEF Inv, Typed, TypeOK, Goroutines
<1> USE <1>0 DEF Phase, Goto, Rest
<1>1. CASE BeginRange(g)
  BY <1>1 DEF BeginRange
<1>2. CASE EndRange(g)
  BY <1>2 DEF EndRange
<1>3. CASE \E u \in Users : Call(g, u)
  BY <1>3 DEF Call
<1>4. CASE \E c \in Clients : SendOrSkip(g, c)
  BY <1>4 DEF SendOrSkip
<1> QED
  BY <1>1, <1>2, <1>3, <1>4

LEMMA RegisterOpens == Inv /\ (\E c \in Clients : Register(c)) => M!Next
<1> SUFFICES ASSUME Inv, NEW c \in Clients, Register(c) PROVE M!Open(c)
  BY DEF M!Next
<1>0. pc \in [Goroutines -> Labels] /\ Clients \subseteq Goroutines
  BY DEF Inv, Typed, TypeOK, Goroutines
<1>1. pc[c] = "registering" /\ pc' = [pc EXCEPT ![c] = "registered"] /\ UNCHANGED <<send, hand, written>>
  BY DEF Register, Goto, chan, output
<1>2. Phase(c) = "new" /\ Phase(c)' = "open" /\ \A d \in Clients : d # c => Phase(d)' = Phase(d)
  BY <1>0, <1>1 DEF Phase
<1>3. \A d \in Clients : Accepted(d)' = Accepted(d)
  BY <1>1 DEF Accepted
<1> QED
  BY <1>1, <1>2, <1>3 DEF M!Open

LEMMA DeleteShuts == Inv /\ (\E c \in Clients : DeleteClient(c)) => M!Next
<1> SUFFICES ASSUME Inv, NEW c \in Clients, DeleteClient(c) PROVE M!Shut(c)
  BY DEF M!Next
<1>0. pc \in [Goroutines -> Labels] /\ Clients \subseteq Goroutines
  BY DEF Inv, Typed, TypeOK, Goroutines
<1>1. pc[c] = "deleting" /\ pc' = [pc EXCEPT ![c] = "closing"] /\ UNCHANGED <<send, hand, written>>
  BY DEF DeleteClient, Goto, chan, output
<1>2. Phase(c) = "open" /\ Phase(c)' = "shut" /\ \A d \in Clients : d # c => Phase(d)' = Phase(d)
  BY <1>0, <1>1 DEF Phase
<1>3. \A d \in Clients : Accepted(d)' = Accepted(d)
  BY <1>1 DEF Accepted
<1> QED
  BY <1>1, <1>2, <1>3 DEF M!Shut

(* A connection a fan-out visits is open.                                  *)
LEMMA VisitedIsOpen ==
  ASSUME Inv, NEW g \in Goroutines, NEW c \in Clients, SendOrSkip(g, c)
  PROVE  Phase(c) = "open"
<1>1. pc[g] = "send" /\ c \in todo[g]
  BY SentTo
<1>2. Connected(c) \/ pc[c] = "deleting"
  BY <1>1 DEF Inv, Typed, TypeOK, CallOK, InCall, SafetyInv, LockInv, LoopInv, MapInv
<1> QED
  BY <1>2 DEF Phase, Connected

LEMMA SendAccepts ==
  ASSUME Inv, Pumps, Numbered, NEW g \in Goroutines, NEW c \in Clients, SendOrSkip(g, c)
  PROVE  M!Next \/ UNCHANGED M!vars
<1> DEFINE e == event[g]
<1>1. \A d \in Clients : Phase(d)' = Phase(d)
  BY CallsKeepPhases
<1>2. \A d \in Clients : d # c => Accepted(d)' = Accepted(d)
  BY Sent
<1>3. written' = written
  BY Sent
<1>4. CASE Accepted(c)' = Accepted(c)
  BY <1>1, <1>2, <1>3, <1>4, NothingToSee DEF Look
<1>5. CASE Accepted(c)' = Append(Accepted(c), e)
  <2>1. Phase(c) = "open"
    BY VisitedIsOpen
  <2>2. e \in Events /\ \A i \in DOMAIN Accepted(c) : Accepted(c)[i] # e
    BY FreshEvent, ContentTyped DEF Told
  <2> HIDE DEF e
  <2>3. M!Accept(c, e)
    BY <1>1, <1>2, <1>3, <1>5, <2>1, <2>2 DEF M!Accept
  <2> QED
    BY <2>2, <2>3 DEF M!Next
<1> QED
  BY <1>4, <1>5, Sent

LEMMA LengthsAdd ==
  ASSUME NEW S, NEW w \in Seq(S), NEW h \in Seq(S), NEW s \in Seq(S), Len(h) = 1
  PROVE  /\ Len(w \o h) = Len(w) + 1 /\ Len((w \o h) \o s) = Len(w) + 1 + Len(s)
         /\ Len(w) \in Nat /\ Len(s) \in Nat
<1>1. w \o h \in Seq(S) /\ Len(w \o h) = Len(w) + Len(h)
  BY ConcatProperties
<1>2. Len((w \o h) \o s) = Len(w \o h) + Len(s)
  BY <1>1, ConcatProperties
<1>3. Len(w) \in Nat /\ Len(s) \in Nat
  BY LenProperties
<1> QED
  BY <1>1, <1>2, <1>3

LEMMA WriteDelivers ==
  ASSUME Inv, Pumps, NEW c \in Clients, Write(c)
  PROVE  M!Next
<1> DEFINE w == written[c]
           h == hand[c]
           s == send[c]
<1>1. \A d \in Clients : Phase(d)' = Phase(d)
  BY PhaseStays
<1>2. \A d \in Clients : Accepted(d)' = Accepted(d) /\ (d # c => written'[d] = written[d])
  BY Wrote
<1>3. written'[c] = w \o h /\ Accepted(c) = (w \o h) \o s
  BY Wrote DEF Accepted
<1>4. w \in Seq(Events) /\ h \in Seq(Events) /\ s \in Seq(Events) /\ Len(h) = 1
  BY ContentTyped DEF Write, Pumps
<1> HIDE DEF w, h, s
<1>5. Len(w \o h) = Len(w) + 1 /\ Len((w \o h) \o s) = Len(w) + 1 + Len(s) /\ Len(w) \in Nat /\ Len(s) \in Nat
  BY <1>4, LengthsAdd
<1>6. Len(written[c]) < Len(Accepted(c)) /\ Len(written'[c]) = Len(written[c]) + 1
  BY <1>3, <1>5 DEF w
<1>7. M!Deliver(c)
  BY <1>1, <1>2, <1>6 DEF M!Deliver
<1> QED
  BY <1>7 DEF M!Next

(* Every step of the hub is a step of the mailboxes, or none they see.     *)
LEMMA StepMailbox == Inv /\ Pumps /\ Numbered /\ [Next]_vars => [M!Next]_(M!vars)
<1> SUFFICES ASSUME Inv, Pumps, Numbered, [Next]_vars PROVE M!Next \/ UNCHANGED M!vars
  OBVIOUS
<1>1. ASSUME NEW c \in Clients,
             \/ Upgrade(c) \/ LockHub(c) \/ StartPumps(c) \/ Disconnect(c) \/ ReadFails(c)
             \/ CloseChannel(c) \/ CloseConn(c) \/ WriteFails(c) \/ SayGoodbye(c)
      PROVE  UNCHANGED M!vars
  <2>1. \A d \in Clients : Phase(d)' = Phase(d)
    BY <1>1, PhaseStays
  <2>2. UNCHANGED <<send, hand, written>>
    BY <1>1 DEF Upgrade, LockHub, StartPumps, Disconnect, ReadFails, CloseChannel, CloseConn, WriteFails,
       SayGoodbye, vars, chan, output
  <2> QED
    BY <2>1, <2>2, NothingToSee DEF Look, Accepted
<1>2. ASSUME NEW c \in Clients, Receive(c) PROVE UNCHANGED M!vars
  <2>1. \A d \in Clients : Phase(d)' = Phase(d)
    BY <1>2, PhaseStays
  <2> QED
    BY <1>2, <2>1, Received, NothingToSee DEF Look
<1>3. ASSUME NEW g \in Goroutines, BeginRange(g) \/ EndRange(g) \/ \E u \in Users : Call(g, u)
      PROVE  UNCHANGED M!vars
  <2>1. \A d \in Clients : Phase(d)' = Phase(d)
    BY <1>3, CallsKeepPhases
  <2>2. UNCHANGED <<send, hand, written>>
    BY <1>3 DEF BeginRange, EndRange, Call, chan, output
  <2> QED
    BY <2>1, <2>2, NothingToSee DEF Look, Accepted
<1>4. CASE UNCHANGED vars
  <2>1. UNCHANGED <<pc, send, hand, written>>
    BY <1>4 DEF vars, chan, output
  <2> QED
    BY <2>1, NothingToSee DEF Look, Accepted, Phase
<1> HIDE DEF Inv, Pumps, Numbered
<1> QED
  BY <1>1, <1>2, <1>3, <1>4, RegisterOpens, DeleteShuts, SendAccepts, WriteDelivers
     DEF Next, ConnectionStep, CallStep

(* To each of its connections the hub is a mailbox: it takes events while  *)
(* the connection is registered and not an event twice, and delivers what  *)
(* it took, in that order, for any number of connections and callers.      *)
THEOREM MailboxImplemented == Spec => ImplementsMailbox
BY InitInv, StepInv, InitPumps, StepPumps, InitNumbered, StepNumbered, InitMailbox, StepMailbox, PTL
   DEF Spec, M!Spec, ImplementsMailbox
=============================================================================
