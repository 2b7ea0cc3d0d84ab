------------------------------ MODULE WsProxy ------------------------------
(***************************************************************************)
(* One WebSocket through the gateway: handleWebSocket dials the messaging  *)
(* service, upgrades the client's request, and starts two goroutines that  *)
(* copy messages, one from each side to the other.                         *)
(*                                                                         *)
(* The gateway has two connections, one per side.  Each has two ends, the  *)
(* peer's and the gateway's, and a bounded buffer each way, which a close  *)
(* may empty.  The service is what Hub shows of it: it registers the user  *)
(* when it accepts, and unregisters when its end is closed.  The n-th      *)
(* message a side sends is n.                                              *)
(***************************************************************************)
EXTENDS Naturals, Sequences

CONSTANTS Writers,     \* the ResponseWriters handleWebSocket is called with: "plain",
                       \* or "logged", which LoggingMiddleware wraps
          Requests,    \* what clients ask for: "handshake", or "other" for what is none,
                       \* or whose client leaves before the answer
          Buffer,      \* what a connection holds each way
          MaxMessages  \* bound: messages a side sends

ASSUME WsProxyAssumption ==
  /\ Writers \subseteq {"plain", "logged"} /\ Requests \subseteq {"handshake", "other"}
  /\ Buffer \in Nat \ {0} /\ MaxMessages \in Nat

Sides == {"service", "client"}
Other(s) == IF s = "service" THEN "client" ELSE "service"

VARIABLES
  writer, request, \* the parameters of handleWebSocket
  pc,        \* where handleWebSocket is
  peer,      \* a side's own end of its connection
  near,      \* the gateway's end of it
  inbound,   \* messages on their way from a side to the gateway
  outbound,  \* and from the gateway to the side
  pump,      \* the goroutine that reads from a side
  hand,      \* the message it has read and not yet written
  sent,      \* how many messages a side has sent
  got        \* the messages a side has received

ends == <<peer, near>>
wires == <<inbound, outbound>>
vars == <<writer, request, pc, ends, wires, pump, hand, sent, got>>

Init ==
  /\ writer \in Writers /\ request \in Requests
  /\ pc = "idle"
  /\ peer = [s \in Sides |-> "none"]
  /\ near = [s \in Sides |-> "none"]
  /\ inbound = [s \in Sides |-> <<>>]
  /\ outbound = [s \in Sides |-> <<>>]
  /\ pump = [s \in Sides |-> "off"]
  /\ hand = [s \in Sides |-> <<>>]
  /\ sent = [s \in Sides |-> 0]
  /\ got = [s \in Sides |-> <<>>]

Goto(s, label) == pump' = [pump EXCEPT ![s] = label]
-----------------------------------------------------------------------------
(* Pieces of the operations, each after a slip the code could have had.    *)

(* Close of a connection of the gateway; the slip forgets the service's.   *)
CloseClientOnly(s) == IF s = "client" THEN "closed" ELSE near[s]
CloseNear(s) == "closed"

(* A pump that ends closes both connections; the slip closes the one it    *)
(* reads from and leaves the other to its own pump.                        *)
ReadFrom(s) == {s}
ToClose(s) == Sides

(* The message read is the one written, once.                              *)
KeepInHand(s) == hand[s]
HandAfterWrite(s) == <<>>
-----------------------------------------------------------------------------
(* handleWebSocket.                                                        *)

Request ==
  /\ pc = "idle"
  /\ pc' = "dial"
  /\ UNCHANGED <<writer, request, ends, wires, pump, hand, sent, got>>

(* The service accepts, and registers the user; or cannot be reached.      *)
Dial ==
  /\ pc = "dial"
  /\ \/ /\ pc' = "upgrade"
        /\ peer' = [peer EXCEPT !["service"] = "open"]
        /\ near' = [near EXCEPT !["service"] = "open"]
     \/ /\ pc' = "refused"
        /\ UNCHANGED ends
  /\ UNCHANGED <<writer, request, wires, pump, hand, sent, got>>

(* Upgrade takes over the connection under the ResponseWriter, which has   *)
(* to be an http.Hijacker; the wrapper of LoggingMiddleware is none.       *)
CanUpgrade == writer = "plain" /\ request = "handshake"
Upgrade ==
  /\ pc = "upgrade" /\ CanUpgrade
  /\ pc' = "proxy"
  /\ peer' = [peer EXCEPT !["client"] = "open"]
  /\ near' = [near EXCEPT !["client"] = "open"]
  /\ pump' = [s \in Sides |-> "read"]
  /\ UNCHANGED <<writer, request, wires, hand, sent, got>>

UpgradeFails ==
  /\ pc = "upgrade" /\ ~CanUpgrade
  /\ pc' = "refused"
  /\ near' = [near EXCEPT !["service"] = CloseNear("service")]
  /\ UNCHANGED <<writer, request, peer, wires, pump, hand, sent, got>>
-----------------------------------------------------------------------------
(* The two sides.                                                          *)

Send(s) ==
  /\ peer[s] = "open" /\ sent[s] < MaxMessages /\ Len(inbound[s]) < Buffer
  /\ sent' = [sent EXCEPT ![s] = @ + 1]
  /\ inbound' = [inbound EXCEPT ![s] = Append(@, sent[s] + 1)]
  /\ UNCHANGED <<writer, request, pc, ends, outbound, pump, hand, got>>

Receive(s) ==
  /\ peer[s] = "open" /\ outbound[s] # <<>>
  /\ got' = [got EXCEPT ![s] = Append(@, Head(outbound[s]))]
  /\ outbound' = [outbound EXCEPT ![s] = Tail(@)]
  /\ UNCHANGED <<writer, request, pc, ends, inbound, pump, hand, sent>>

(* A side leaves of itself, or reads that the gateway has closed, with     *)
(* what was in the buffer lost or read before.                             *)
Leave(s) ==
  /\ peer[s] = "open"
  /\ peer' = [peer EXCEPT ![s] = "closed"]
  /\ UNCHANGED <<writer, request, pc, near, wires, pump, hand, sent, got>>
NoticeClose(s) == near[s] = "closed" /\ Leave(s)
-----------------------------------------------------------------------------
(* The goroutine that reads from s and writes to the other side.           *)

Read(s) ==
  /\ pump[s] = "read" /\ near[s] = "open" /\ inbound[s] # <<>>
  /\ hand' = [hand EXCEPT ![s] = <<Head(inbound[s])>>]
  /\ inbound' = [inbound EXCEPT ![s] = Tail(@)]
  /\ Goto(s, "write")
  /\ UNCHANGED <<writer, request, pc, ends, outbound, sent, got>>

(* Either end is closed, by its peer or by the other goroutine; messages   *)
(* still in the buffer may be lost.  A Close frame of the peer ends here   *)
(* too and is not passed on.                                               *)
ReadFails(s) ==
  /\ pump[s] = "read"
  /\ near[s] = "closed" \/ peer[s] = "closed"
  /\ Goto(s, "close")
  /\ UNCHANGED <<writer, request, pc, ends, wires, hand, sent, got>>

(* A write waits for room; there is no deadline.  To a peer that has left  *)
(* it may still succeed, into a buffer nobody reads.                       *)
Write(s) ==
  /\ pump[s] = "write" /\ near[Other(s)] = "open" /\ Len(outbound[Other(s)]) < Buffer
  /\ outbound' = [outbound EXCEPT ![Other(s)] = @ \o hand[s]]
  /\ hand' = [hand EXCEPT ![s] = HandAfterWrite(s)]
  /\ Goto(s, IF HandAfterWrite(s) = <<>> THEN "read" ELSE "write")
  /\ UNCHANGED <<writer, request, pc, ends, inbound, sent, got>>

WriteFails(s) ==
  /\ pump[s] = "write"
  /\ near[Other(s)] = "closed" \/ peer[Other(s)] = "closed"
  /\ Goto(s, "close")
  /\ UNCHANGED <<writer, request, pc, ends, wires, hand, sent, got>>

(* The deferred calls: the service's connection is closed first.           *)
Close(s) ==
  /\ pump[s] \in {"close", "closeclient"}
  /\ LET conn == IF pump[s] = "close" THEN "service" ELSE "client" IN
       near' = IF conn \in ToClose(s) THEN [near EXCEPT ![conn] = CloseNear(conn)] ELSE near
  /\ Goto(s, IF pump[s] = "close" THEN "closeclient" ELSE "done")
  /\ UNCHANGED <<writer, request, pc, peer, wires, hand, sent, got>>
-----------------------------------------------------------------------------
Handler == Dial \/ Upgrade \/ UpgradeFails
Pump(s) == Read(s) \/ ReadFails(s) \/ Write(s) \/ WriteFails(s) \/ Close(s)

Next ==
  \/ Request \/ Handler
  \/ \E s \in Sides : Send(s) \/ Receive(s) \/ Leave(s) \/ Pump(s)

(* A goroutine that can go on does; a side reads the end of a closed       *)
(* connection; the service reads what it is sent (readPump does nothing    *)
(* else).  The client need not read, send or leave.                        *)
Fairness ==
  /\ WF_vars(Handler)
  /\ \A s \in Sides : WF_vars(Pump(s)) /\ WF_vars(NoticeClose(s))
  /\ WF_vars(Receive("service"))

Spec == Init /\ [][Next]_vars /\ Fairness
-----------------------------------------------------------------------------
(* Every variable has the type of the Go value it stands for; a pump holds *)
(* a message while it writes; a refused request leaves no connection open. *)
TypeOK ==
  /\ writer \in Writers /\ request \in Requests
  /\ pc \in {"idle", "dial", "upgrade", "proxy", "refused"}
  /\ peer \in [Sides -> {"none", "open", "closed"}]
  /\ near \in [Sides -> {"none", "open", "closed"}]
  /\ inbound \in [Sides -> Seq(Nat)]
  /\ outbound \in [Sides -> Seq(Nat)]
  /\ \A s \in Sides : Len(inbound[s]) <= Buffer /\ Len(outbound[s]) <= Buffer
  /\ pump \in [Sides -> {"off", "read", "write", "close", "closeclient", "done"}]
  /\ hand \in [Sides -> Seq(Nat)]
  /\ \A s \in Sides : pump[s] = "write" => Len(hand[s]) = 1
  /\ pc = "refused" => near["service"] # "open"
  /\ sent \in [Sides -> Nat]
  /\ got \in [Sides -> Seq(Nat)]

(* Whoever closes what and when, a side gets a prefix of what the other    *)
(* sent: nothing twice, nothing out of order, nothing left out before the  *)
(* end.                                                                    *)
Stream(s) == got[Other(s)] \o outbound[Other(s)] \o hand[s] \o inbound[s]
StreamsArePrefixes ==
  \A s \in Sides :
    /\ Len(Stream(s)) <= sent[s]
    /\ \A i \in DOMAIN Stream(s) : Stream(s)[i] = i

(* When the handler refuses the client, or the client has left, the        *)
(* service learns of it: the hub does not keep a user who is not there.    *)
NobodyStaysRegistered ==
  pc = "refused" \/ peer["client"] = "closed" ~> peer["service"] \in {"none", "closed"}

(* When the service has closed, the client's connection is closed too, or  *)
(* the client has stopped reading with its buffer full.                    *)
ClientLearns ==
  pc = "proxy" /\ peer["service"] = "closed" ~>
    \/ near["client"] = "closed"
    \/ pump["service"] = "write" /\ Len(outbound["client"]) = Buffer

(* README.md: a client connects through ws://localhost:8080/api/v1/ws.     *)
(* When the service can be reached, a proper handshake succeeds.           *)
HandshakeSucceeds == pc = "upgrade" /\ request = "handshake" ~> pc = "proxy"
=============================================================================
