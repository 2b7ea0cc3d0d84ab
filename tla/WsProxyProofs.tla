--------------------------- MODULE WsProxyProofs ---------------------------
(***************************************************************************)
(* What a side of the proxy has received is a prefix of what the other     *)
(* has sent, for buffers of any size and any number of messages.           *)
(***************************************************************************)
EXTENDS WsProxy, SequenceTheorems, TLAPS

(* A pump holds a message only from its read to the end of its write, and  *)
(* does not run before the upgrade; before the dial there is no connection. *)
HandInv ==
  /\ \A s \in Sides : /\ pump[s] \in {"off", "read"} => hand[s] = <<>>
                      /\ pc \in {"idle", "dial", "upgrade", "refused"} => pump[s] = "off"
  /\ pc \in {"idle", "dial"} => near["service"] = "none"
Typed == TypeOK /\ HandInv

LEMMA InitTyped == Init => Typed
<1> SUFFICES ASSUME Init PROVE Typed
  OBVIOUS
<1>1. <<>> \in Seq(Nat) /\ Len(<<>>) = 0
  BY EmptySeq
<1> QED
  BY <1>1, WsProxyAssumption DEF Init, Typed, TypeOK, HandInv, Sides

(* What the sequences of one side become in the four steps that move a     *)
(* message.                                                                *)
LEMMA Moves ==
  ASSUME NEW q \in Seq(Nat), NEW n \in Nat
  PROVE  /\ Append(q, n) \in Seq(Nat) /\ Len(Append(q, n)) = Len(q) + 1
         /\ \A i \in 1 .. Len(q) + 1 : Append(q, n)[i] = IF i <= Len(q) THEN q[i] ELSE n
         /\ <<n>> \in Seq(Nat) /\ Len(<<n>>) = 1 /\ <<n>>[1] = n
         /\ <<>> \in Seq(Nat) /\ Len(<<>>) = 0
         /\ Len(q) \in Nat
         /\ q # <<>> => /\ Tail(q) \in Seq(Nat) /\ Len(Tail(q)) = Len(q) - 1 /\ Len(q) > 0
                        /\ Head(q) = q[1] /\ Head(q) \in Nat
                        /\ \A i \in 1 .. Len(q) - 1 : Tail(q)[i] = q[i + 1]
BY EmptySeq, HeadTailProperties, LenProperties, AppendProperties

(* A write puts the message in hand behind what is under way.              *)
LEMMA Written ==
  ASSUME NEW q \in Seq(Nat), NEW h \in Seq(Nat), Len(h) = 1
  PROVE  /\ q \o h \in Seq(Nat) /\ Len(q \o h) = Len(q) + 1
         /\ \A i \in 1 .. Len(q) + 1 : (q \o h)[i] = IF i <= Len(q) THEN q[i] ELSE h[1]
<1>1. Len(q) \in Nat
  BY LenProperties
<1>2. /\ q \o h \in Seq(Nat) /\ Len(q \o h) = Len(q) + 1
      /\ \A i \in 1 .. Len(q) + 1 : (q \o h)[i] = IF i <= Len(q) THEN q[i] ELSE h[i - Len(q)]
  <2>1. /\ q \o h \in Seq(Nat) /\ Len(q \o h) = Len(q) + Len(h)
        /\ \A i \in 1 .. Len(q) + Len(h) : (q \o h)[i] = IF i <= Len(q) THEN q[i] ELSE h[i - Len(q)]
    BY ConcatProperties, Zenon
  <2> QED
    BY <2>1
<1>3. \A i \in 1 .. Len(q) + 1 : ~(i <= Len(q)) => i - Len(q) = 1
  BY <1>1
<1> QED
  BY <1>2, <1>3

LEMMA StepTyped == Typed /\ [Next]_vars => Typed'
<1> SUFFICES ASSUME Typed, [Next]_vars PROVE Typed'
  OBVIOUS
<1> USE WsProxyAssumption DEF Typed, TypeOK, HandInv
<1>1. CASE Request
  BY <1>1 DEF Request, ends, wires, Sides
<1>2. CASE Dial
  BY <1>2 DEF Dial, ends, wires, Sides
<1>3. CASE Upgrade
  BY <1>3 DEF Upgrade, wires, Sides
<1>4. CASE UpgradeFails
  BY <1>4 DEF UpgradeFails, wires, CloseNear, Sides
<1>5. ASSUME NEW s \in Sides, Send(s) PROVE Typed'
  <2>1. sent[s] + 1 \in Nat
    OBVIOUS
  <2>2. Append(inbound[s], sent[s] + 1) \in Seq(Nat)
        /\ Len(Append(inbound[s], sent[s] + 1)) = Len(inbound[s]) + 1
    BY <2>1, Moves
  <2>3. Len(inbound[s]) + 1 <= Buffer
    BY <1>5, Moves DEF Send
  <2> QED
    BY <1>5, <2>1, <2>2, <2>3 DEF Send, ends
<1>6. ASSUME NEW s \in Sides, Receive(s) PROVE Typed'
  <2>1. /\ Tail(outbound[s]) \in Seq(Nat) /\ Len(Tail(outbound[s])) <= Buffer
        /\ Append(got[s], Head(outbound[s])) \in Seq(Nat)
    BY <1>6, Moves DEF Receive
  <2> QED
    BY <1>6, <2>1 DEF Receive, ends
<1>7. ASSUME NEW s \in Sides, Leave(s) PROVE Typed'
  BY <1>7 DEF Leave, wires
<1>8. ASSUME NEW s \in Sides, Read(s) PROVE Typed'
  <2>1. /\ Tail(inbound[s]) \in Seq(Nat) /\ Len(Tail(inbound[s])) <= Buffer
        /\ <<Head(inbound[s])>> \in Seq(Nat) /\ Len(<<Head(inbound[s])>>) = 1
    BY <1>8, Moves DEF Read
  <2> QED
    BY <1>8, <2>1 DEF Read, Goto, ends
<1>9. ASSUME NEW s \in Sides, ReadFails(s) PROVE Typed'
  BY <1>9 DEF ReadFails, Goto, ends, wires
<1>10. ASSUME NEW s \in Sides, Write(s) PROVE Typed'
  <2> DEFINE o == Other(s)
  <2>1. o \in Sides
    BY DEF Other, Sides
  <2>0. outbound[o] \in Seq(Nat) /\ hand[s] \in Seq(Nat) /\ Len(hand[s]) = 1
    BY <1>10, <2>1 DEF Write
  <2> HIDE DEF Typed, TypeOK, HandInv
  <2>2. /\ outbound[o] \o hand[s] \in Seq(Nat)
        /\ Len(outbound[o] \o hand[s]) = Len(outbound[o]) + 1
    BY <2>0, Written
  <2> USE DEF Typed, TypeOK, HandInv
  <2>3. Len(outbound[o]) + 1 <= Buffer
    BY <1>10, <2>1, Moves DEF Write
  <2>4. <<>> \in Seq(Nat)
    BY EmptySeq
  <2>5. /\ outbound' = [outbound EXCEPT ![o] = @ \o hand[s]]
        /\ hand' = [hand EXCEPT ![s] = <<>>]
        /\ pump' = [pump EXCEPT ![s] = "read"]
        /\ UNCHANGED <<writer, request, pc, ends, inbound, sent, got>>
    BY <1>10 DEF Write, Goto, HandAfterWrite
  <2> HIDE DEF o
  <2>6. /\ outbound' \in [Sides -> Seq(Nat)] /\ hand' \in [Sides -> Seq(Nat)]
        /\ \A q \in Sides : Len(outbound'[q]) <= Buffer
        /\ \A q \in Sides \ {s} : hand'[q] = hand[q] /\ pump'[q] = pump[q]
        /\ hand'[s] = <<>> /\ pump'[s] = "read"
    BY <2>1, <2>2, <2>3, <2>4, <2>5
  <2>7. TypeOK'
    <3>1. pump' \in [Sides -> {"off", "read", "write", "close", "closeclient", "done"}]
      BY <2>5
    <3>2. \A q \in Sides : pump'[q] = "write" => Len(hand'[q]) = 1
      BY <2>6
    <3> QED
      BY <2>5, <2>6, <3>1, <3>2 DEF ends
  <2>8. HandInv'
    BY <1>10, <2>5, <2>6 DEF ends, Write
  <2> QED
    BY <2>7, <2>8
<1>11. ASSUME NEW s \in Sides, WriteFails(s) PROVE Typed'
  BY <1>11 DEF WriteFails, Goto, ends, wires
<1>12. ASSUME NEW s \in Sides, Close(s) PROVE Typed'
  BY <1>12 DEF Close, Goto, wires, CloseNear, ToClose, Sides
<1>13. CASE UNCHANGED vars
  BY <1>13 DEF vars, ends, wires
<1> QED
  BY <1>1, <1>2, <1>3, <1>4, <1>5, <1>6, <1>7, <1>8, <1>9, <1>10, <1>11, <1>12, <1>13
  DEF Next, Handler, Pump

(* Every variable of the proxy keeps its type in every behaviour; no       *)
(* buffer overflows, a writing pump holds one message, and a refusal       *)
(* leaves no connection to the service open.                               *)
THEOREM TypeCorrect == Spec => []TypeOK
<1>1. Typed => TypeOK
  BY DEF Typed
<1> QED
  BY InitTyped, StepTyped, <1>1, PTL DEF Spec
-----------------------------------------------------------------------------
(* The messages of q are those after the n-th.                             *)
Follows(q, n) == \A i \in 1 .. Len(q) : q[i] = n + i

LEMMA FollowsAppend ==
  ASSUME NEW q \in Seq(Nat), NEW n \in Nat, Follows(q, n)
  PROVE  /\ Append(q, n + Len(q) + 1) \in Seq(Nat) /\ Len(Append(q, n + Len(q) + 1)) = Len(q) + 1
         /\ Follows(Append(q, n + Len(q) + 1), n)
<1>1. Len(q) \in Nat /\ n + Len(q) + 1 \in Nat
  BY LenProperties
<1> DEFINE m == n + Len(q) + 1
           t == Append(q, m)
<1>2. /\ t \in Seq(Nat) /\ Len(t) = Len(q) + 1
      /\ \A i \in 1 .. Len(q) + 1 : t[i] = IF i <= Len(q) THEN q[i] ELSE m
  BY <1>1, Moves
<1>3. \A i \in 1 .. Len(q) + 1 : ~(i <= Len(q)) => n + i = m
  BY <1>1
<1> HIDE DEF m, t
<1>4. Follows(t, n)
  <2> SUFFICES ASSUME NEW i \in 1 .. Len(q) + 1 PROVE t[i] = n + i
    BY <1>2 DEF Follows
  <2>1. CASE i <= Len(q)
    <3>1. i \in 1 .. Len(q)
      BY <1>1, <2>1
    <3>2. q[i] = n + i
      BY <3>1 DEF Follows
    <3> QED
      BY <1>2, <2>1, <3>2
  <2>2. CASE ~(i <= Len(q))
    BY <1>2, <1>3, <2>2
  <2> QED
    BY <2>1, <2>2
<1> QED
  BY <1>2, <1>4 DEF t, m

LEMMA FollowsTail ==
  ASSUME NEW q \in Seq(Nat), NEW n \in Nat, Follows(q, n), q # <<>>
  PROVE  /\ Tail(q) \in Seq(Nat) /\ Len(Tail(q)) = Len(q) - 1 /\ Head(q) = n + 1
         /\ Len(q) > 0 /\ Follows(Tail(q), n + 1)
<1> DEFINE t == Tail(q)
<1>1. /\ t \in Seq(Nat) /\ Len(t) = Len(q) - 1 /\ Len(q) > 0 /\ Head(q) = q[1] /\ Len(q) \in Nat
      /\ \A i \in 1 .. Len(q) - 1 : t[i] = q[i + 1]
  BY Moves
<1>2. Head(q) = n + 1
  BY <1>1 DEF Follows
<1> HIDE DEF t
<1>3. Follows(t, n + 1)
  <2> SUFFICES ASSUME NEW i \in 1 .. Len(t) PROVE t[i] = n + 1 + i
    BY DEF Follows
  <2>1. i \in 1 .. Len(q) - 1 /\ i + 1 \in 1 .. Len(q)
    BY <1>1
  <2>2. t[i] = q[i + 1] /\ q[i + 1] = n + (i + 1)
    BY <1>1, <2>1 DEF Follows
  <2> QED
    BY <2>2
<1> QED
  BY <1>1, <1>2, <1>3 DEF t

LEMMA FollowsConcat ==
  ASSUME NEW p \in Seq(Nat), NEW q \in Seq(Nat), NEW n \in Nat,
         Follows(p, n), Follows(q, n + Len(p))
  PROVE  p \o q \in Seq(Nat) /\ Len(p \o q) = Len(p) + Len(q) /\ Follows(p \o q, n)
<1> DEFINE t == p \o q
<1>1. /\ t \in Seq(Nat) /\ Len(t) = Len(p) + Len(q)
      /\ \A i \in 1 .. Len(p) + Len(q) : t[i] = IF i <= Len(p) THEN p[i] ELSE q[i - Len(p)]
  BY ConcatProperties, Zenon
<1>2. Len(p) \in Nat /\ Len(q) \in Nat
  BY LenProperties
<1> HIDE DEF t
<1>3. Follows(t, n)
  <2> SUFFICES ASSUME NEW i \in 1 .. Len(p) + Len(q) PROVE t[i] = n + i
    BY <1>1 DEF Follows
  <2>1. CASE i <= Len(p)
    <3>1. i \in 1 .. Len(p)
      BY <1>2, <2>1
    <3>2. p[i] = n + i
      BY <3>1 DEF Follows
    <3> QED
      BY <1>1, <2>1, <3>2
  <2>2. CASE ~(i <= Len(p))
    <3>1. i - Len(p) \in 1 .. Len(q)
      BY <1>2, <2>2
    <3>2. t[i] = q[i - Len(p)] /\ q[i - Len(p)] = n + Len(p) + (i - Len(p))
      BY <1>1, <2>2, <3>1 DEF Follows
    <3> QED
      BY <1>2, <3>2
  <2> QED
    BY <2>1, <2>2
<1> QED
  BY <1>1, <1>3 DEF t

LEMMA FollowsShort ==
  ASSUME NEW n \in Nat
  PROVE  /\ <<>> \in Seq(Nat) /\ Len(<<>>) = 0 /\ Follows(<<>>, n)
         /\ <<n + 1>> \in Seq(Nat) /\ Len(<<n + 1>>) = 1 /\ Follows(<<n + 1>>, n)
BY EmptySeq DEF Follows
-----------------------------------------------------------------------------
(* Four stretches of the messages 1 .. n, one behind the other.  That the  *)
(* first is a prefix would not be preserved by itself: a message lost from *)
(* a later one would still leave it a prefix.                              *)
InRow(a, b, c, d, n) ==
  /\ Follows(a, 0) /\ Follows(b, Len(a)) /\ Follows(c, Len(a) + Len(b))
  /\ Follows(d, Len(a) + Len(b) + Len(c))
  /\ Len(a) + Len(b) + Len(c) + Len(d) = n

LEMMA RowSteps ==
  ASSUME NEW a \in Seq(Nat), NEW b \in Seq(Nat), NEW c \in Seq(Nat), NEW d \in Seq(Nat),
         NEW n \in Nat, InRow(a, b, c, d, n)
  PROVE  /\ InRow(a, b, c, Append(d, n + 1), n + 1)
         /\ b # <<>> => InRow(Append(a, Head(b)), Tail(b), c, d, n)
         /\ c = <<>> /\ d # <<>> => InRow(a, b, <<Head(d)>>, Tail(d), n)
         /\ Len(c) = 1 => InRow(a, b \o c, <<>>, d, n)
<1> DEFINE la == Len(a)
           lb == Len(b)
           lc == Len(c)
           ld == Len(d)
<1>1. la \in Nat /\ lb \in Nat /\ lc \in Nat /\ ld \in Nat
  BY LenProperties
<1>2. /\ Follows(a, 0) /\ Follows(b, la) /\ Follows(c, la + lb) /\ Follows(d, la + lb + lc)
      /\ la + lb + lc + ld = n
  BY DEF InRow
<1> HIDE DEF la, lb, lc, ld
<1>3. InRow(a, b, c, Append(d, n + 1), n + 1)
  <2>1. la + lb + lc \in Nat /\ la + lb + lc + ld + 1 = n + 1
    BY <1>1, <1>2
  <2>2. Len(Append(d, n + 1)) = ld + 1 /\ Follows(Append(d, n + 1), la + lb + lc)
    BY <1>2, <2>1, FollowsAppend DEF ld
  <2>3. la + lb + lc + (ld + 1) = n + 1
    BY <1>1, <2>1
  <2> QED
    BY <1>2, <2>2, <2>3 DEF InRow, la, lb, lc
<1>4. ASSUME b # <<>> PROVE InRow(Append(a, Head(b)), Tail(b), c, d, n)
  <2>1. Len(Tail(b)) = lb - 1 /\ Head(b) = la + 1 /\ Follows(Tail(b), la + 1)
    BY <1>1, <1>2, <1>4, FollowsTail DEF lb
  <2>2. Len(Append(a, la + 1)) = la + 1 /\ Follows(Append(a, la + 1), 0)
    <3>1. 0 + la + 1 = la + 1
      BY <1>1
    <3> QED
      BY <1>2, <3>1, FollowsAppend DEF la
  <2>3. /\ (la + 1) + (lb - 1) = la + lb
        /\ (la + 1) + (lb - 1) + lc = la + lb + lc
        /\ (la + 1) + (lb - 1) + lc + ld = n
    BY <1>1, <1>2
  <2> QED
    BY <1>2, <2>1, <2>2, <2>3 DEF InRow, lc, ld
<1>5. ASSUME c = <<>>, d # <<>> PROVE InRow(a, b, <<Head(d)>>, Tail(d), n)
  <2>1. lc = 0
    BY <1>5, EmptySeq DEF lc
  <2>2. la + lb \in Nat /\ la + lb + lc = la + lb
    BY <1>1, <2>1
  <2>3. Len(Tail(d)) = ld - 1 /\ Head(d) = la + lb + 1 /\ Follows(Tail(d), la + lb + 1)
    BY <1>2, <1>5, <2>2, FollowsTail DEF ld
  <2>4. Len(<<Head(d)>>) = 1 /\ Follows(<<Head(d)>>, la + lb)
    BY <2>2, <2>3, FollowsShort
  <2>5. la + lb + 1 + (ld - 1) = n
    BY <1>1, <1>2, <2>1
  <2> QED
    BY <1>2, <2>3, <2>4, <2>5 DEF InRow, la, lb
<1>6. ASSUME lc = 1 PROVE InRow(a, b \o c, <<>>, d, n)
  <2>1. b \o c \in Seq(Nat) /\ Len(b \o c) = lb + lc /\ Follows(b \o c, la)
    BY <1>1, <1>2, FollowsConcat DEF lb, lc
  <2>2. la + (lb + lc) \in Nat /\ la + (lb + lc) + 0 = la + lb + lc /\ la + (lb + lc) + 0 + ld = n
    BY <1>1, <1>2
  <2>3. Len(<<>>) = 0 /\ Follows(<<>>, la + (lb + lc))
    BY <2>2, FollowsShort
  <2> QED
    BY <1>2, <2>1, <2>2, <2>3 DEF InRow, la, ld
<1> QED
  BY <1>3, <1>4, <1>5, <1>6 DEF lc

LEMMA RowIsPrefix ==
  ASSUME NEW a \in Seq(Nat), NEW b \in Seq(Nat), NEW c \in Seq(Nat), NEW d \in Seq(Nat),
         NEW n \in Nat, InRow(a, b, c, d, n)
  PROVE  /\ Len(a \o b \o c \o d) = n
         /\ \A i \in DOMAIN (a \o b \o c \o d) : (a \o b \o c \o d)[i] = i
<1>1. Len(a) \in Nat /\ Len(b) \in Nat /\ Len(c) \in Nat /\ Len(d) \in Nat
  BY LenProperties
<1>2. ASSUME NEW p \in Seq(Nat), NEW q \in Seq(Nat), Follows(p, 0), Follows(q, Len(p))
      PROVE  p \o q \in Seq(Nat) /\ Len(p \o q) = Len(p) + Len(q) /\ Follows(p \o q, 0)
  <2>1. 0 + Len(p) = Len(p)
    BY <1>2, LenProperties
  <2> QED
    BY <1>2, <2>1, FollowsConcat
<1> DEFINE ab == a \o b
           abc == ab \o c
           abcd == abc \o d
<1> HIDE DEF ab
<1>3. ab \in Seq(Nat) /\ Len(ab) = Len(a) + Len(b) /\ Follows(ab, 0)
  BY <1>2 DEF ab, InRow
<1>4. abc \in Seq(Nat) /\ Len(abc) = Len(a) + Len(b) + Len(c) /\ Follows(abc, 0)
  <2>1. Follows(c, Len(ab))
    BY <1>3 DEF InRow
  <2> QED
    <3>1. /\ ab \o c \in Seq(Nat) /\ Len(ab \o c) = Len(ab) + Len(c) /\ Follows(ab \o c, 0)
      BY <1>2, <1>3, <2>1, Zenon
    <3> QED
      BY <1>3, <3>1
<1> HIDE DEF abc
<1>5. abcd \in Seq(Nat) /\ Len(abcd) = Len(a) + Len(b) + Len(c) + Len(d) /\ Follows(abcd, 0)
  <2>1. Follows(d, Len(abc))
    BY <1>4 DEF InRow
  <2> QED
    <3>1. /\ abc \o d \in Seq(Nat) /\ Len(abc \o d) = Len(abc) + Len(d) /\ Follows(abc \o d, 0)
      BY <1>2, <1>4, <2>1, Zenon
    <3> QED
      BY <1>4, <3>1
<1> HIDE DEF abcd
<1>6. Len(abcd) = n /\ DOMAIN abcd = 1 .. Len(abcd)
  BY <1>5, LenProperties DEF InRow
<1>7. \A i \in DOMAIN abcd : abcd[i] = i
  BY <1>5, <1>6 DEF Follows
<1> QED
  BY <1>6, <1>7 DEF abcd, abc, ab
-----------------------------------------------------------------------------
(* What s has sent is, from the oldest to the newest: received by the      *)
(* other side, on its way to it, in the pump's hand, on its way to the     *)
(* gateway.                                                                *)
InPlace ==
  \A s \in Sides : InRow(got[Other(s)], outbound[Other(s)], hand[s], inbound[s], sent[s])

LEMMA OtherSide ==
  \A s, t \in Sides : Other(s) \in Sides /\ (t # s => Other(t) # Other(s))
                      /\ (t # Other(s) <=> s # Other(t)) /\ Other(Other(s)) = s
BY DEF Sides, Other

LEMMA InitInPlace == Init => InPlace
<1>1. InRow(<<>>, <<>>, <<>>, <<>>, 0)
  <2>1. Len(<<>>) = 0
    BY EmptySeq
  <2>2. Follows(<<>>, 0)
    BY <2>1 DEF Follows
  <2> QED
    BY <2>1, <2>2 DEF InRow
<1> QED
  BY <1>1, OtherSide DEF Init, InPlace

LEMMA StepInPlace == Typed /\ InPlace /\ [Next]_vars => InPlace'
<1> SUFFICES ASSUME Typed, InPlace, [Next]_vars PROVE InPlace'
  OBVIOUS
<1>0. /\ inbound \in [Sides -> Seq(Nat)] /\ outbound \in [Sides -> Seq(Nat)]
      /\ hand \in [Sides -> Seq(Nat)] /\ got \in [Sides -> Seq(Nat)]
      /\ sent \in [Sides -> Nat]
  BY DEF Typed, TypeOK
<1> DEFINE Row(s) == InRow(got[Other(s)], outbound[Other(s)], hand[s], inbound[s], sent[s])
<1>1. ASSUME NEW s \in Sides, Send(s) PROVE InPlace'
  <2>1. /\ UNCHANGED <<outbound, hand, got>>
        /\ inbound'[s] = Append(inbound[s], sent[s] + 1) /\ sent'[s] = sent[s] + 1
        /\ \A t \in Sides \ {s} : inbound'[t] = inbound[t] /\ sent'[t] = sent[t]
    BY <1>0, <1>1 DEF Send
  <2>2. Row(s)'
    <3> DEFINE o == Other(s)
    <3>1. InRow(got[o], outbound[o], hand[s], inbound[s], sent[s]) /\ o \in Sides
      BY OtherSide DEF InPlace
    <3> HIDE DEF o
    <3>2. InRow(got[o], outbound[o], hand[s], Append(inbound[s], sent[s] + 1), sent[s] + 1)
      BY <1>0, <3>1, RowSteps
    <3> QED
      BY <2>1, <3>2 DEF o
  <2>3. \A t \in Sides \ {s} : Row(t)'
    BY <2>1 DEF InPlace
  <2> QED
    BY <2>2, <2>3 DEF InPlace
<1>2. ASSUME NEW o \in Sides, Receive(o) PROVE InPlace'
  <2> DEFINE s == Other(o)
  <2>1. s \in Sides /\ Other(s) = o /\ \A t \in Sides \ {s} : Other(t) # o
    BY OtherSide
  <2> HIDE DEF s
  <2>2. /\ UNCHANGED <<inbound, hand, sent>> /\ outbound[o] # <<>>
        /\ outbound'[o] = Tail(outbound[o]) /\ got'[o] = Append(got[o], Head(outbound[o]))
        /\ \A t \in Sides \ {o} : outbound'[t] = outbound[t] /\ got'[t] = got[t]
    BY <1>0, <1>2 DEF Receive
  <2>3. Row(s)'
    <3>1. InRow(got[o], outbound[o], hand[s], inbound[s], sent[s])
      BY <2>1 DEF InPlace
    <3>2. InRow(Append(got[o], Head(outbound[o])), Tail(outbound[o]), hand[s], inbound[s], sent[s])
      BY <1>0, <2>1, <2>2, <3>1, RowSteps
    <3> QED
      BY <2>1, <2>2, <3>2
  <2>4. \A t \in Sides \ {s} : Row(t)'
    BY <2>1, <2>2, OtherSide DEF InPlace
  <2> QED
    BY <2>3, <2>4 DEF InPlace
<1>3. ASSUME NEW s \in Sides, Read(s) PROVE InPlace'
  <2>1. /\ UNCHANGED <<outbound, sent, got>> /\ inbound[s] # <<>> /\ hand[s] = <<>>
        /\ inbound'[s] = Tail(inbound[s]) /\ hand'[s] = <<Head(inbound[s])>>
        /\ \A t \in Sides \ {s} : inbound'[t] = inbound[t] /\ hand'[t] = hand[t]
    BY <1>0, <1>3 DEF Read, Typed, HandInv
  <2>2. Row(s)'
    <3> DEFINE o == Other(s)
    <3>1. InRow(got[o], outbound[o], hand[s], inbound[s], sent[s]) /\ o \in Sides
      BY OtherSide DEF InPlace
    <3> HIDE DEF o
    <3>2. InRow(got[o], outbound[o], <<Head(inbound[s])>>, Tail(inbound[s]), sent[s])
      BY <1>0, <2>1, <3>1, RowSteps
    <3> QED
      BY <2>1, <3>2 DEF o
  <2>3. \A t \in Sides \ {s} : Row(t)'
    BY <2>1 DEF InPlace
  <2> QED
    BY <2>2, <2>3 DEF InPlace
<1>4. ASSUME NEW s \in Sides, Write(s) PROVE InPlace'
  <2> DEFINE o == Other(s)
  <2>1. o \in Sides /\ \A t \in Sides \ {s} : Other(t) # o
    BY OtherSide
  <2>2. /\ UNCHANGED <<inbound, sent, got>>
        /\ outbound' = [outbound EXCEPT ![o] = @ \o hand[s]]
        /\ hand' = [hand EXCEPT ![s] = <<>>] /\ pump[s] = "write"
    BY <1>4 DEF Write, HandAfterWrite
  <2>3. Len(hand[s]) = 1
    BY <2>2 DEF Typed, TypeOK
  <2> HIDE DEF o
  <2>4. /\ outbound'[o] = outbound[o] \o hand[s] /\ hand'[s] = <<>>
        /\ \A t \in Sides \ {o} : outbound'[t] = outbound[t]
        /\ \A t \in Sides \ {s} : hand'[t] = hand[t]
    BY <1>0, <2>1, <2>2
  <2>5. Row(s)'
    <3>1. InRow(got[o], outbound[o], hand[s], inbound[s], sent[s])
      BY DEF InPlace, o
    <3>2. InRow(got[o], outbound[o] \o hand[s], <<>>, inbound[s], sent[s])
      BY <1>0, <2>1, <2>3, <3>1, RowSteps
    <3> QED
      BY <2>2, <2>4, <3>2 DEF o
  <2>6. \A t \in Sides \ {s} : Row(t)'
    BY <2>1, <2>2, <2>4, OtherSide DEF InPlace
  <2> QED
    BY <2>5, <2>6 DEF InPlace
<1>5. CASE Request \/ Handler
  BY <1>5 DEF InPlace, Request, Handler, Dial, Upgrade, UpgradeFails, wires
<1>6. ASSUME NEW s \in Sides, Leave(s) \/ ReadFails(s) \/ WriteFails(s) \/ Close(s)
      PROVE  InPlace'
  BY <1>6 DEF InPlace, Leave, ReadFails, WriteFails, Close, wires
<1>7. CASE UNCHANGED vars
  BY <1>7 DEF InPlace, vars, wires
<1> QED
  BY <1>1, <1>2, <1>3, <1>4, <1>5, <1>6, <1>7 DEF Next, Pump

LEMMA InPlaceImplies == Typed /\ InPlace => StreamsArePrefixes
<1> SUFFICES ASSUME Typed, InPlace, NEW s \in Sides
             PROVE  Len(Stream(s)) <= sent[s] /\ \A i \in DOMAIN Stream(s) : Stream(s)[i] = i
  BY DEF StreamsArePrefixes
<1>1. /\ got[Other(s)] \in Seq(Nat) /\ outbound[Other(s)] \in Seq(Nat)
      /\ hand[s] \in Seq(Nat) /\ inbound[s] \in Seq(Nat) /\ sent[s] \in Nat
  BY OtherSide DEF Typed, TypeOK
<1>2. Len(Stream(s)) = sent[s] /\ \A i \in DOMAIN Stream(s) : Stream(s)[i] = i
  BY <1>1, RowIsPrefix DEF InPlace, Stream
<1> QED
  BY <1>1, <1>2

(* Whichever goroutine or peer closes what, and when: nothing a side gets  *)
(* is out of order, twice, or after something left out.                    *)
THEOREM PrefixesOnly == Spec => []StreamsArePrefixes
<1>1. Init => Typed /\ InPlace
  BY InitTyped, InitInPlace
<1>2. Typed /\ InPlace /\ [Next]_vars => Typed' /\ InPlace'
  BY StepTyped, StepInPlace
<1> QED
  BY <1>1, <1>2, InPlaceImplies, PTL DEF Spec
=============================================================================
