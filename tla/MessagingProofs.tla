-------------------------- MODULE MessagingProofs --------------------------
(***************************************************************************)
(* What the events and the answers of the messaging service say is true,   *)
(* and in order, for any users, conversations and requests, any number of  *)
(* failing statements and crashes.                                         *)
(***************************************************************************)
EXTENDS Messaging, SequenceTheorems, TLAPS

LEMMA InitTyped == Init => TypeOK
<1> SUFFICES ASSUME Init PROVE TypeOK
  OBVIOUS
<1>1. req \in [Requests -> Params]
  <2> SUFFICES ASSUME NEW r \in Requests PROVE (CHOOSE p \in Params : TRUE) \in Params
    BY DEF Init
  <2>1. PICK u \in Users, c \in Convs : TRUE
    BY MessagingAssumption
  <2>2. [op |-> "send", via |-> "http", user |-> u, conv |-> c, msg |-> r] \in Params
    BY <2>1 DEF Params
  <2> QED
    BY <2>2
<1>2. <<>> \in Seq(Requests)
  BY EmptySeq
<1> QED
  BY <1>1, <1>2, MessagingAssumption DEF Init, TypeOK, Over

LEMMA InsertTyped ==
  ASSUME TypeOK, NEW r \in Requests, InsertRow(r)
  PROVE  /\ stored' \in SUBSET Requests /\ createdAt' \in [Requests -> Nat]
         /\ readBy' \in [Requests -> Users \cup {None}] /\ now' \in Nat
BY DEF TypeOK, InsertRow

LEMMA MarkTyped ==
  ASSUME TypeOK, NEW r \in Requests, MarkRow(r)
  PROVE  /\ stored' \in SUBSET Requests /\ createdAt' \in [Requests -> Nat]
         /\ readBy' \in [Requests -> Users \cup {None}] /\ now' \in Nat
<1>1. req[r].user \in Users
  BY DEF TypeOK, Params
<1> QED
  BY <1>1 DEF TypeOK, MarkRow

LEMMA AudienceTakesPart ==
  ASSUME TypeOK, NEW r \in Requests
  PROVE  Audience(r) \subseteq Members[req[r].conv] /\ Audience(r) \subseteq Users
<1>1. req[r].conv \in Convs
  BY DEF TypeOK, Params
<1> QED
  BY <1>1, MessagingAssumption DEF Audience

(* What is in an inbox after one more event.                               *)
LEMMA InboxGrows ==
  ASSUME TypeOK, NEW u \in Users, NEW r \in Requests
  PROVE  LET q == Append(inbox[u], r) IN
         /\ q \in Seq(Requests) /\ Len(q) = Len(inbox[u]) + 1 /\ Len(inbox[u]) \in Nat
         /\ DOMAIN q = 1 .. Len(inbox[u]) + 1 /\ DOMAIN inbox[u] = 1 .. Len(inbox[u])
         /\ \A i \in 1 .. Len(inbox[u]) : q[i] = inbox[u][i]
         /\ q[Len(inbox[u]) + 1] = r
         /\ {q[i] : i \in DOMAIN q} = Inbox(u) \cup {r}
<1> DEFINE s == inbox[u]
           n == Len(s)
           q == Append(s, r)
<1>1. s \in Seq(Requests)
  BY DEF TypeOK
<1>2. n \in Nat /\ DOMAIN s = 1 .. n
  BY <1>1, LenProperties
<1>3. /\ q \in Seq(Requests) /\ Len(q) = n + 1
      /\ \A i \in 1 .. n : q[i] = s[i]
      /\ q[n + 1] = r
  BY <1>1, AppendProperties
<1>4. DOMAIN q = 1 .. n + 1
  BY <1>3, LenProperties
<1>5. Inbox(u) = {s[i] : i \in 1 .. n}
  BY <1>2 DEF Inbox
<1> HIDE DEF s, n, q
<1>6. {q[i] : i \in DOMAIN q} = {s[i] : i \in 1 .. n} \cup {r}
  <2>1. \A i \in 1 .. n + 1 : i \in 1 .. n \/ i = n + 1
    BY <1>2
  <2>2. n + 1 \in 1 .. n + 1 /\ 1 .. n \subseteq 1 .. n + 1
    BY <1>2
  <2> QED
    BY <1>3, <1>4, <2>1, <2>2
<1> QED
  BY <1>2, <1>3, <1>4, <1>5, <1>6 DEF s, n, q

LEMMA StepTyped == TypeOK /\ [Next]_vars => TypeOK'
<1> SUFFICES ASSUME TypeOK, [Next]_vars PROVE TypeOK'
  OBVIOUS
<1> USE MessagingAssumption DEF TypeOK, store, hub
<1>1. ASSUME NEW u \in Users, Connect(u) \/ Disconnect(u) PROVE TypeOK'
  BY <1>1 DEF Connect, Disconnect
<1>2. ASSUME NEW r \in Requests, NEW p \in Params, Begin(r, p) PROVE TypeOK'
  BY <1>2 DEF Begin, Goto, Over
<1>3. ASSUME Die, faults' \in 0 .. MaxFaults PROVE TypeOK'
  BY <1>3 DEF Die, Over, Running
<1>4. ASSUME NEW r \in Requests, CheckParticipant(r) PROVE TypeOK'
  BY <1>3, <1>4 DEF CheckParticipant, Goto, Over
<1>5. ASSUME NEW r \in Requests, CreateMessage(r) PROVE TypeOK'
  <2>1. /\ stored' \in SUBSET Requests /\ createdAt' \in [Requests -> Nat]
        /\ readBy' \in [Requests -> Users \cup {None}] /\ now' \in Nat
    BY <1>5, InsertTyped DEF CreateMessage
  <2>2. pc[r] # "fanout" /\ (pc' = [pc EXCEPT ![r] = "touch"] \/ pc' = [pc EXCEPT ![r] = "load"])
    BY <1>5 DEF CreateMessage, Goto
  <2> QED
    BY <1>5, <2>1, <2>2 DEF CreateMessage, Over
<1>6. ASSUME NEW r \in Requests, MarkMessageRead(r) PROVE TypeOK'
  BY <1>6, MarkTyped DEF MarkMessageRead, Goto, Over
<1>7. ASSUME NEW r \in Requests, LoadParticipants(r) PROVE TypeOK'
  BY <1>7, AudienceTakesPart DEF LoadParticipants, Goto, Over
<1>8. ASSUME NEW r \in Requests, NEW u \in Users, SendToUser(r, u) PROVE TypeOK'
  <2>1. Append(inbox[u], r) \in Seq(Requests)
    BY InboxGrows
  <2>2. /\ inbox' \in [Users -> Seq(Requests)] /\ skipped' \in [Users -> SUBSET Requests]
        /\ absent' \in [Requests -> SUBSET Users]
    <3>1. \/ inbox' = [inbox EXCEPT ![u] = Append(@, r)] /\ UNCHANGED <<skipped, absent>>
          \/ skipped' = [skipped EXCEPT ![u] = @ \cup {r}] /\ UNCHANGED <<inbox, absent>>
          \/ absent' = [absent EXCEPT ![r] = @ \cup {u}] /\ UNCHANGED <<inbox, skipped>>
      BY <1>8 DEF SendToUser
    <3>2. CASE inbox' = [inbox EXCEPT ![u] = Append(@, r)] /\ UNCHANGED <<skipped, absent>>
      <4> DEFINE q == Append(inbox[u], r)
      <4>1. q \in Seq(Requests) /\ inbox' = [inbox EXCEPT ![u] = q]
        BY <2>1, <3>2
      <4> HIDE DEF q
      <4> QED
        BY <3>2, <4>1
    <3>3. CASE skipped' = [skipped EXCEPT ![u] = @ \cup {r}] /\ UNCHANGED <<inbox, absent>>
      BY <3>3
    <3>4. CASE absent' = [absent EXCEPT ![r] = @ \cup {u}] /\ UNCHANGED <<inbox, skipped>>
      BY <3>4
    <3> QED
      BY <3>1, <3>2, <3>3, <3>4
  <2> QED
    BY <1>8, <2>2 DEF SendToUser, Over
<1>9. ASSUME NEW r \in Requests, Reply(r) PROVE TypeOK'
  BY <1>9 DEF Reply, Goto, FanOutOver, Over
<1>10. ASSUME NEW r \in Requests, StatementFails(r) PROVE TypeOK'
  <2>1. faults' \in 0 .. MaxFaults
    BY <1>10 DEF StatementFails
  <2>2. /\ stored' \in SUBSET Requests /\ createdAt' \in [Requests -> Nat]
        /\ readBy' \in [Requests -> Users \cup {None}] /\ now' \in Nat
    BY <1>10, InsertTyped, MarkTyped DEF StatementFails
  <2>3. CASE pc[r] \in {"check", "insert", "touch", "mark"} /\ pc' = [pc EXCEPT ![r] = "failed"] /\ UNCHANGED <<todo, blind>>
    BY <1>10, <2>1, <2>2, <2>3 DEF StatementFails, Over
  <2>4. CASE /\ blind' = blind \cup {r} /\ pc[r] = "load"
             /\ pc' = [pc EXCEPT ![r] = "succeeded"] /\ UNCHANGED todo
    BY <1>10, <2>1, <2>2, <2>4 DEF StatementFails, Over
  <2>5. CASE /\ blind' = blind \cup {r}
             /\ pc' = [pc EXCEPT ![r] = "fanout"]
             /\ \E s \in SUBSET Audience(r) : todo' = [todo EXCEPT ![r] = s]
    BY <1>10, <2>1, <2>2, <2>5, AudienceTakesPart DEF StatementFails, Over
  <2> QED
    BY <1>10, <2>3, <2>4, <2>5 DEF StatementFails, ReturnError, Goto
<1>11. CASE Crash
  BY <1>3, <1>11 DEF Crash
<1>12. CASE Restart
  BY <1>12 DEF Restart
<1>13. CASE UNCHANGED vars
  BY <1>13 DEF vars
<1> QED
  BY <1>1, <1>2, <1>4, <1>5, <1>6, <1>7, <1>8, <1>9, <1>10, <1>11, <1>12, <1>13 DEF Next, Step

(* Every variable of the service keeps its type in every behaviour, and    *)
(* only a fan-out has participants left to serve.                          *)
THEOREM TypeCorrect == Spec => []TypeOK
<1> QED
  BY InitTyped, StepTyped, PTL DEF Spec
-----------------------------------------------------------------------------
(* Where a request is and what is behind it by then: a participant's, once *)
(* it is past the check; a send that is past the insert is stored; a mark  *)
(* past the UPDATE has its message read, if there is one, unless it is the *)
(* author's.  Only stored rows are marked, and not by their author.        *)
Effective(r) ==
  req[r].msg # None => readBy[req[r].msg] # None \/ req[req[r].msg].user = req[r].user
Progress ==
  \A r \in Requests :
    /\ pc[r] # "idle" => IF req[r].op = "mark" THEN req[r].msg \in stored \cup {None} ELSE req[r].msg = r
    /\ pc[r] \in {"insert", "touch"} => req[r].op = "send"
    /\ pc[r] = "check" => req[r].op # "typing"
    /\ pc[r] = "mark" => req[r].op = "mark"
    /\ pc[r] \in {"insert", "touch", "mark", "load", "fanout"} /\ req[r].op # "typing" => IsParticipant(r)
    /\ r \in stored => pc[r] # "idle" /\ req[r].op = "send" /\ IsParticipant(r)
    /\ pc[r] \in {"touch", "load", "fanout", "succeeded"} /\ req[r].op = "send" => r \in stored
    /\ pc[r] \in {"load", "fanout", "succeeded"} /\ req[r].op = "mark" => Effective(r)
    /\ todo[r] \subseteq Members[req[r].conv]
    /\ readBy[r] # None => r \in stored /\ readBy[r] # req[r].user

LEMMA InitProgress == Init => Progress
BY DEF Init, Progress

LEMMA StepProgress == TypeOK /\ Progress /\ [Next]_vars => Progress'
<1> SUFFICES ASSUME TypeOK, Progress, [Next]_vars PROVE Progress'
  OBVIOUS
<1> USE MessagingAssumption DEF TypeOK, Progress, Effective, store, hub, IsParticipant, Over
<1>1. ASSUME NEW u \in Users, Connect(u) \/ Disconnect(u) PROVE Progress'
  BY <1>1 DEF Connect, Disconnect
<1>2. ASSUME NEW r \in Requests, NEW p \in Params, Begin(r, p) PROVE Progress'
  BY <1>2 DEF Begin, Goto, Params
<1>3. ASSUME Die PROVE Progress'
  BY <1>3 DEF Die, Running
<1>4. ASSUME NEW r \in Requests, CheckParticipant(r) PROVE Progress'
  <2>1. CASE NilContext(r)
    BY <1>3, <1>4, <2>1 DEF CheckParticipant
  <2>2. CASE ~NilContext(r)
    <3>1. req[r].op \in {"send", "mark", "typing"}
      BY DEF Params
    <3>2. pc[r] = "check" /\ UNCHANGED <<stored, readBy, req, todo>>
      BY <1>4, <2>2 DEF CheckParticipant
    <3>3. \/ IsParticipant(r) /\ req[r].op = "send" /\ pc' = [pc EXCEPT ![r] = "insert"]
          \/ IsParticipant(r) /\ req[r].op # "send" /\ pc' = [pc EXCEPT ![r] = "mark"]
          \/ pc' = [pc EXCEPT ![r] = "failed"]
      BY <1>4, <2>2 DEF CheckParticipant, Goto
    <3> QED
      BY <3>1, <3>2, <3>3
  <2> QED
    BY <2>1, <2>2
<1>5. ASSUME NEW r \in Requests, CreateMessage(r) PROVE Progress'
  BY <1>5 DEF CreateMessage, InsertRow, Goto
<1>6. ASSUME NEW r \in Requests, MarkMessageRead(r) PROVE Progress'
  BY <1>6 DEF MarkMessageRead, MarkRow, MarksRow, Goto, Params
<1>7. ASSUME NEW r \in Requests, LoadParticipants(r) PROVE Progress'
  BY <1>7, AudienceTakesPart DEF LoadParticipants, Goto
<1>8. ASSUME NEW r \in Requests, NEW u \in Users, SendToUser(r, u) PROVE Progress'
  BY <1>8 DEF SendToUser
<1>9. ASSUME NEW r \in Requests, Reply(r) PROVE Progress'
  BY <1>9 DEF Reply, Goto
<1>10. ASSUME NEW r \in Requests, StatementFails(r) PROVE Progress'
  <2>1. UNCHANGED <<req, inbox>> /\ Audience(r) \subseteq Members[req[r].conv]
    BY <1>10, AudienceTakesPart DEF StatementFails
  <2>2. CASE pc' = [pc EXCEPT ![r] = "failed"] /\ UNCHANGED <<todo, stored, readBy>>
    <3>1. \A q \in Requests : pc'[q] = pc[q] \/ (pc[q] # "idle" /\ pc'[q] = "failed")
      BY <1>10, <2>2 DEF StatementFails
    <3> QED
      BY <2>1, <2>2, <3>1
  <2>3. CASE /\ pc[r] = "insert" /\ stored' = stored \cup {r} /\ UNCHANGED <<todo, readBy>>
             /\ pc' = [pc EXCEPT ![r] = "failed"]
    BY <2>1, <2>3
  <2>4. CASE pc[r] = "mark" /\ MarkRow(r) /\ pc' = [pc EXCEPT ![r] = "failed"] /\ UNCHANGED todo
    BY <2>1, <2>4 DEF MarkRow, MarksRow, Params
  <2>5. CASE /\ pc[r] = "load" /\ pc' = [pc EXCEPT ![r] = "succeeded"]
             /\ UNCHANGED <<todo, stored, readBy>>
    BY <2>1, <2>5
  <2>6. CASE /\ pc[r] = "load" /\ pc' = [pc EXCEPT ![r] = "fanout"] /\ UNCHANGED <<stored, readBy>>
             /\ \E t \in SUBSET Audience(r) : todo' = [todo EXCEPT ![r] = t]
    BY <2>1, <2>6
  <2> QED
    BY <1>10, <2>2, <2>3, <2>4, <2>5, <2>6 DEF StatementFails, ReturnError, Goto, InsertRow
<1>11. CASE Crash
  BY <1>3, <1>11 DEF Crash
<1>12. CASE Restart
  BY <1>12 DEF Restart
<1>13. CASE UNCHANGED vars
  BY <1>13 DEF vars
<1> QED
  BY <1>1, <1>2, <1>4, <1>5, <1>6, <1>7, <1>8, <1>9, <1>10, <1>11, <1>12, <1>13 DEF Next, Step

(* An event in an inbox is that of a request that has got to its fan-out.  *)
Sent ==
  \A u \in Users : \A r \in Inbox(u) :
    /\ r \in Requests /\ pc[r] # "idle" /\ u \in Members[req[r].conv]
    /\ req[r].op = "send" => r \in stored
    /\ req[r].op = "mark" => IsParticipant(r) /\ Effective(r)

LEMMA SentImplies == TypeOK /\ Progress /\ Sent => EventsAreTrue
<1> SUFFICES ASSUME TypeOK, Progress, Sent PROVE EventsAreTrue
  OBVIOUS
<1>1. ASSUME NEW u \in Users, NEW r \in Inbox(u)
      PROVE  /\ u \in Members[req[r].conv]
             /\ req[r].op = "send" => r \in stored /\ IsParticipant(r)
             /\ req[r].op = "mark" =>
                  /\ IsParticipant(r)
                  /\ req[r].msg \in stored =>
                       readBy[req[r].msg] # None \/ req[req[r].msg].user = req[r].user
  <2>1. None \notin stored
    BY MessagingAssumption DEF TypeOK
  <2> QED
    BY <1>1, <2>1 DEF Sent, Progress, Effective
<1>2. ASSUME NEW m \in stored PROVE readBy[m] # req[m].user
  <2>1. m \in Requests /\ req[m].user \in Users /\ req[m].user # None
    BY MessagingAssumption DEF TypeOK, Params
  <2> QED
    BY <2>1 DEF Progress
<1> QED
  BY <1>1, <1>2 DEF EventsAreTrue

LEMMA InitSent == Init => Sent
BY DEF Init, Sent, Inbox

(* Whatever else a step does, an inbox changes by one event at its end, of *)
(* a request that has the receiver still to serve.                         *)
Delivery(u, r) ==
  r \in Requests /\ u \in todo[r] /\ u \notin todo'[r] /\ inbox'[u] = Append(inbox[u], r)

LEMMA InboxChanges ==
  ASSUME TypeOK, [Next]_vars, NEW u \in Users
  PROVE  inbox'[u] = inbox[u] \/ \E r \in Requests : Delivery(u, r) /\ pc' = pc /\ req' = req /\ UNCHANGED <<store, preceding>>
<1> USE DEF hub, TypeOK
<1>1. ASSUME NEW r \in Requests, NEW v \in Users, SendToUser(r, v)
      PROVE  inbox'[u] = inbox[u] \/ (Delivery(u, r) /\ pc' = pc /\ req' = req /\ UNCHANGED <<store, preceding>>)
  <2>1. UNCHANGED <<pc, req, store, preceding>> /\ v \in todo[r] /\ v \notin todo'[r]
    BY <1>1 DEF SendToUser
  <2>2. inbox' = inbox \/ inbox' = [inbox EXCEPT ![v] = Append(@, r)]
    BY <1>1 DEF SendToUser
  <2> QED
    BY <2>1, <2>2 DEF Delivery
<1>2. CASE UNCHANGED inbox
  BY <1>2
<1> QED
  BY <1>1, <1>2
  DEF Next, Step, Connect, Disconnect, Begin, CheckParticipant, CreateMessage, MarkMessageRead,
      LoadParticipants, Reply, StatementFails, Crash, Restart, Die, vars

LEMMA Delivered ==
  ASSUME TypeOK, NEW u \in Users, NEW r \in Requests, inbox'[u] = Append(inbox[u], r)
  PROVE  Inbox(u)' = Inbox(u) \cup {r}
BY InboxGrows DEF Inbox

(* What a step does to the fan-outs: one receiver is served, the process   *)
(* dies, or the participants of one request are loaded.                    *)
LEMMA FanOutChanges ==
  ASSUME TypeOK, [Next]_vars
  PROVE  \/ \E r \in Requests, u \in Users : SendToUser(r, u)
         \/ /\ UNCHANGED <<inbox, skipped, absent>>
            /\ \/ UNCHANGED todo
               \/ \A s \in Requests : todo'[s] = {} /\ pc'[s] \in Over
                    /\ (pc[s] \notin Over => pc'[s] = "lost")
               \/ \E r \in Requests : /\ pc[r] = "load"
                                     /\ \A s \in Requests \ {r} : todo'[s] = todo[s]
<1> USE DEF hub
<1>1. CASE Die
  BY <1>1 DEF Die, TypeOK, Running, Over
<1>2. ASSUME NEW r \in Requests, LoadParticipants(r)
      PROVE  /\ UNCHANGED <<inbox, skipped, absent, req>> /\ pc[r] = "load"
             /\ \A s \in Requests \ {r} : todo'[s] = todo[s]
  BY <1>2 DEF LoadParticipants, TypeOK
<1>3. ASSUME NEW r \in Requests, StatementFails(r)
      PROVE  /\ UNCHANGED <<inbox, skipped, absent, req>>
             /\ \/ UNCHANGED todo
                \/ /\ pc[r] = "load" /\ r \in blind'
                   /\ \A s \in Requests \ {r} : todo'[s] = todo[s]
  BY <1>3 DEF StatementFails, TypeOK
<1>4. ASSUME NEW r \in Requests,
             \/ CheckParticipant(r) \/ CreateMessage(r) \/ MarkMessageRead(r) \/ Reply(r)
             \/ \E p \in Params : Begin(r, p)
      PROVE  UNCHANGED <<inbox, skipped, absent, todo>> \/ Die
  BY <1>4 DEF CheckParticipant, CreateMessage, MarkMessageRead, Reply, Begin
<1>5. CASE (\E u \in Users : Connect(u) \/ Disconnect(u)) \/ Restart \/ UNCHANGED vars
  BY <1>5 DEF Connect, Disconnect, Restart, vars
<1>6. CASE Crash
  BY <1>1, <1>6 DEF Crash
<1> QED
  BY <1>1, <1>2, <1>3, <1>4, <1>5, <1>6 DEF Next, Step

(* What a step leaves in place: the parameters of a request that has       *)
(* begun, the rows, and the marks on them.                                 *)
LEMMA PastStays ==
  ASSUME TypeOK, [Next]_vars
  PROVE  /\ stored \subseteq stored'
         /\ \A r \in Requests : readBy[r] # None => readBy'[r] = readBy[r]
         /\ \A r \in Requests : pc[r] # "idle" =>
              /\ req'[r] = req[r] /\ preceding'[r] = preceding[r] /\ pc'[r] # "idle"
              /\ pc[r] \in Over => pc'[r] = pc[r]
<1> USE DEF TypeOK, store, hub, Over
<1>1. ASSUME NEW r \in Requests, NEW p \in Params, Begin(r, p)
      PROVE  /\ stored \subseteq stored'
             /\ \A q \in Requests : readBy[q] # None => readBy'[q] = readBy[q]
             /\ \A q \in Requests : pc[q] # "idle" =>
                  /\ req'[q] = req[q] /\ preceding'[q] = preceding[q] /\ pc'[q] # "idle"
                  /\ pc[q] \in Over => pc'[q] = pc[q]
  BY <1>1 DEF Begin, Goto
<1>2. CASE ~(\E r \in Requests, p \in Params : Begin(r, p))
  <2>1. UNCHANGED <<req, preceding>>
    BY <1>2 DEF Next, Step, Connect, Disconnect, CheckParticipant, CreateMessage, MarkMessageRead,
                LoadParticipants, SendToUser, Reply, StatementFails, Crash, Restart, Die, vars
  <2>2. \/ UNCHANGED <<stored, readBy>>
        \/ \E r \in Requests : InsertRow(r) \/ MarkRow(r)
    BY <1>2 DEF Next, Step, Connect, Disconnect, CheckParticipant, CreateMessage, MarkMessageRead,
                LoadParticipants, SendToUser, Reply, StatementFails, Crash, Restart, Die, vars
  <2>3. \/ UNCHANGED pc
        \/ pc' = [s \in Requests |-> IF Running(s) THEN "lost" ELSE pc[s]]
        \/ \E r \in Requests : /\ pc[r] \notin Over
                               /\ \E l \in {"insert", "mark", "touch", "load", "fanout", "succeeded", "failed"} :
                                    pc' = [pc EXCEPT ![r] = l]
    BY <1>2 DEF Next, Step, Connect, Disconnect, CheckParticipant, CreateMessage, MarkMessageRead,
                LoadParticipants, SendToUser, Reply, StatementFails, Crash, Restart, Die, vars, Goto, ReturnError
  <2>4. stored \subseteq stored' /\ \A r \in Requests : readBy[r] # None => readBy'[r] = readBy[r]
    BY <2>2 DEF InsertRow, MarkRow, MarksRow
  <2>5. \A r \in Requests : pc[r] # "idle" => pc'[r] # "idle" /\ (pc[r] \in Over => pc'[r] = pc[r])
    BY <2>3 DEF Running
  <2> QED
    BY <2>1, <2>4, <2>5
<1> QED
  BY <1>1, <1>2

LEMMA StepSent == TypeOK /\ Progress /\ Sent /\ [Next]_vars => Sent'
<1> SUFFICES ASSUME TypeOK, Progress, Sent, [Next]_vars, NEW u \in Users,
                    NEW r \in Inbox(u)'
             PROVE  (/\ r \in Requests /\ pc[r] # "idle" /\ u \in Members[req[r].conv]
                     /\ req[r].op = "send" => r \in stored
                     /\ req[r].op = "mark" => IsParticipant(r) /\ Effective(r))'
  BY DEF Sent
<1>1. \/ r \in Inbox(u)
      \/ r \in Requests /\ u \in todo[r] /\ UNCHANGED <<pc, req, store>>
  <2>1. CASE inbox'[u] = inbox[u]
    BY <2>1 DEF Inbox
  <2>2. ASSUME NEW q \in Requests, Delivery(u, q), UNCHANGED <<pc, req, store>>
        PROVE  r \in Inbox(u) \/ (r \in Requests /\ u \in todo[r] /\ UNCHANGED <<pc, req, store>>)
    BY <2>2, InboxGrows DEF Inbox, Delivery
  <2> QED
    BY <2>1, <2>2, InboxChanges
<1>2. CASE r \in Inbox(u)
  <2>1. /\ r \in Requests /\ pc[r] # "idle" /\ u \in Members[req[r].conv]
        /\ req[r].op = "send" => r \in stored
        /\ req[r].op = "mark" => IsParticipant(r) /\ Effective(r)
    BY <1>2 DEF Sent
  <2>2. req'[r] = req[r] /\ pc'[r] # "idle"
    BY <2>1, PastStays
  <2>3. ASSUME req[r].op = "mark", req[r].msg # None
        PROVE  req'[r].msg \in Requests /\ Effective(r)'
    <3> DEFINE q == req[r].msg
    <3>1. q \in stored /\ q \in Requests /\ pc[q] # "idle"
      BY <2>1, <2>3 DEF Progress, TypeOK
    <3>2. req'[q] = req[q] /\ (readBy[q] # None => readBy'[q] = readBy[q])
      BY <3>1, PastStays
    <3>3. readBy[q] # None \/ req[q].user = req[r].user
      BY <2>1, <2>3 DEF Effective
    <3> QED
      BY <2>2, <3>1, <3>2, <3>3 DEF Effective
  <2>4. req[r].op = "mark" => Effective(r)'
    BY <2>2, <2>3 DEF Effective
  <2> QED
    BY <2>1, <2>2, <2>4, PastStays DEF TypeOK, IsParticipant
<1>3. CASE r \in Requests /\ u \in todo[r] /\ UNCHANGED <<pc, req, store>>
  BY <1>3 DEF TypeOK, Progress, Effective, IsParticipant, store
<1> QED
  BY <1>1, <1>2, <1>3

(* Whatever fails, whoever dies and whoever connects meanwhile: an event   *)
(* goes to participants only, and what it says is in the store.            *)
THEOREM EventsCorrect == Spec => []EventsAreTrue
<1>1. Init => TypeOK /\ Progress /\ Sent
  BY InitTyped, InitProgress, InitSent
<1>2. TypeOK /\ Progress /\ Sent /\ [Next]_vars => TypeOK' /\ Progress' /\ Sent'
  BY StepTyped, StepProgress, StepSent
<1> QED
  BY <1>1, <1>2, SentImplies, PTL DEF Spec
-----------------------------------------------------------------------------
(* Whom a fan-out has still to serve, and whom it has served: together     *)
(* they are all who are to hear of the event, if all could be loaded.      *)
Told(r, u) == r \in Inbox(u) \cup skipped[u] \/ u \in absent[r]
NobodyForgotten ==
  \A r \in Requests \ blind : pc[r] \in {"fanout", "succeeded"} =>
    \A u \in Audience(r) : u \in todo[r] \/ Told(r, u)

(* Who was told once stays told.                                           *)
LEMMA ToldStays ==
  ASSUME TypeOK, [Next]_vars, NEW r \in Requests, NEW u \in Users, Told(r, u)
  PROVE  Told(r, u)'
<1> USE DEF TypeOK, hub
<1>1. r \in Inbox(u) => r \in Inbox(u)'
  <2>1. CASE inbox'[u] = inbox[u]
    BY <2>1 DEF Inbox
  <2>2. ASSUME NEW q \in Requests, Delivery(u, q) PROVE r \in Inbox(u) => r \in Inbox(u)'
    <3> HIDE DEF TypeOK
    <3>1. inbox'[u] = Append(inbox[u], q)
      BY <2>2 DEF Delivery
    <3>2. Inbox(u)' = Inbox(u) \cup {q}
      BY <3>1, Delivered
    <3> QED
      BY <3>2
  <2> QED
    BY <2>1, <2>2, InboxChanges
<1>2. ASSUME NEW q \in Requests, NEW v \in Users, SendToUser(q, v)
      PROVE  skipped[u] \subseteq skipped'[u] /\ absent[r] \subseteq absent'[r]
  <2>1. \/ UNCHANGED <<skipped, absent>>
        \/ skipped' = [skipped EXCEPT ![v] = @ \cup {q}] /\ UNCHANGED absent
        \/ absent' = [absent EXCEPT ![q] = @ \cup {v}] /\ UNCHANGED skipped
    BY <1>2 DEF SendToUser
  <2> QED
    BY <2>1
<1>3. skipped[u] \subseteq skipped'[u] /\ absent[r] \subseteq absent'[r]
  BY <1>2, FanOutChanges
<1> QED
  BY <1>1, <1>3 DEF Told

(* A fan-out of all begins with a load of all, and ends when all is done.  *)
LEMMA Loaded ==
  ASSUME TypeOK, [Next]_vars, NEW r \in Requests, r \notin blind',
         pc'[r] \in {"fanout", "succeeded"}, ~(pc[r] \in {"fanout", "succeeded"} /\ r \notin blind)
  PROVE  todo'[r] = Audience(r) /\ req'[r] = req[r]
<1> USE DEF TypeOK, hub
<1>1. r \notin blind
  BY DEF Next, Step, Connect, Disconnect, Begin, CheckParticipant, CreateMessage, MarkMessageRead,
         LoadParticipants, SendToUser, Reply, StatementFails, Crash, Restart, Die, vars
<1>2. ASSUME NEW q \in Requests, q # r \/ ~LoadParticipants(r), Step(q) \/ StatementFails(q) \/ \E p \in Params : Begin(q, p)
      PROVE  FALSE
  BY <1>1, <1>2 DEF Step, CheckParticipant, CreateMessage, MarkMessageRead, LoadParticipants, SendToUser,
       Reply, StatementFails, Begin, Goto, ReturnError, Die, Running
<1>3. CASE (\E u \in Users : Connect(u) \/ Disconnect(u)) \/ Crash \/ Restart \/ UNCHANGED vars
  BY <1>1, <1>3 DEF Connect, Disconnect, Crash, Restart, Die, vars, Running
<1>4. CASE LoadParticipants(r)
  BY <1>4 DEF LoadParticipants
<1> QED
  BY <1>2, <1>3, <1>4 DEF Next

LEMMA StepNobodyForgotten == TypeOK /\ NobodyForgotten /\ [Next]_vars => NobodyForgotten'
<1> SUFFICES ASSUME TypeOK, NobodyForgotten, [Next]_vars,
                    NEW r \in Requests, r \notin blind', pc'[r] \in {"fanout", "succeeded"},
                    NEW u \in Audience(r)'
             PROVE  (u \in todo[r] \/ Told(r, u))'
  BY DEF NobodyForgotten
<1> USE DEF TypeOK, hub
<1>1. CASE pc[r] \in {"fanout", "succeeded"} /\ r \notin blind
  <2>1. u \in Audience(r) /\ u \in Users
    <3>1. req'[r] = req[r]
      BY <1>1, PastStays
    <3> QED
      BY <3>1, AudienceTakesPart DEF Audience
  <2>2. u \in todo[r] \/ Told(r, u)
    BY <1>1, <2>1 DEF NobodyForgotten
  <2>3. CASE Told(r, u)
    BY <2>1, <2>3, ToldStays
  <2>4. CASE u \in todo[r]
    <3>1. pc[r] = "fanout"
      BY <2>4
    <3>2. ASSUME NEW q \in Requests, NEW v \in Users, SendToUser(q, v), ~(q = r /\ v = u)
          PROVE  u \in todo'[r]
      BY <2>4, <3>2 DEF SendToUser
    <3>3. ASSUME SendToUser(r, u) PROVE Told(r, u)'
      <4>1. CASE inbox' = [inbox EXCEPT ![u] = Append(@, r)]
        <5>1. inbox'[u] = Append(inbox[u], r)
          BY <2>1, <4>1
        <5> HIDE DEF TypeOK
        <5>2. Inbox(u)' = Inbox(u) \cup {r}
          BY <2>1, <5>1, Delivered
        <5> QED
          BY <5>2 DEF Told
      <4>2. CASE skipped' = [skipped EXCEPT ![u] = @ \cup {r}]
        BY <2>1, <4>2 DEF Told
      <4>3. CASE absent' = [absent EXCEPT ![r] = @ \cup {u}]
        BY <2>1, <4>3 DEF Told
      <4> QED
        BY <3>3, <4>1, <4>2, <4>3 DEF SendToUser
    <3>4. CASE \A s \in Requests : todo'[s] = {} /\ pc'[s] \in Over
               /\ (pc[s] \notin Over => pc'[s] = "lost")
      BY <3>1, <3>4 DEF Over
    <3>5. ASSUME NEW q \in Requests, pc[q] = "load", \A s \in Requests \ {q} : todo'[s] = todo[s]
          PROVE  u \in todo'[r]
      BY <2>4, <3>1, <3>5
    <3> QED
      BY <2>4, <3>2, <3>3, <3>4, <3>5, FanOutChanges
  <2> QED
    BY <2>2, <2>3, <2>4
<1>2. CASE ~(pc[r] \in {"fanout", "succeeded"} /\ r \notin blind)
  BY <1>2, Loaded DEF Audience
<1> QED
  BY <1>1, <1>2

(* A successful answer to a send: stored, and nobody in the conversation   *)
(* forgotten, however the loop of its fan-out interleaves with others.     *)
THEOREM SuccessCorrect == Spec => []SuccessIsComplete
<1>1. Init => TypeOK /\ Progress /\ NobodyForgotten
  BY InitTyped, InitProgress DEF Init, NobodyForgotten
<1>2. TypeOK /\ Progress /\ NobodyForgotten /\ [Next]_vars => TypeOK' /\ Progress' /\ NobodyForgotten'
  BY StepTyped, StepProgress, StepNobodyForgotten
<1>3. TypeOK /\ Progress /\ NobodyForgotten => SuccessIsComplete
  BY DEF TypeOK, Progress, NobodyForgotten, SuccessIsComplete, Told, Audience
<1> QED
  BY <1>1, <1>2, <1>3, PTL DEF Spec
-----------------------------------------------------------------------------
(* Why order is kept: who precedes is over and stays so, who is still to   *)
(* be served has not been, and the clock is ahead of all rows.             *)
Ordered ==
  /\ \A r \in Requests : \A q \in preceding[r] : pc[q] \in Over \ {"idle"}
  /\ \A u \in Users : \A r \in Inbox(u) :
       r \in Requests /\ pc[r] \in {"fanout", "succeeded", "failed", "lost"} /\ u \notin todo[r]
  /\ \A r \in Requests : createdAt[r] <= now
  /\ \A r \in stored : pc[r] # "idle"

LEMMA InitOrdered == Init => Ordered /\ InOrder
BY DEF Init, Ordered, InOrder, Inbox

(* What a step does to the rows and to who precedes whom.                  *)
LEMMA RowChanges ==
  ASSUME TypeOK, [Next]_vars
  PROVE  /\ \/ UNCHANGED <<stored, createdAt, now>>
            \/ \E r \in Requests : pc[r] = "insert" /\ InsertRow(r) /\ pc'[r] # "idle" /\ UNCHANGED preceding
         /\ \/ UNCHANGED preceding
            \/ \E r \in Requests : /\ pc[r] = "idle"
                                  /\ preceding' = [preceding EXCEPT ![r] = {s \in Requests : pc[s] \in Over \ {"idle"}}]
<1> USE DEF store
<1>1. CASE Die
  BY <1>1 DEF Die
<1>2. ASSUME NEW r \in Requests, CreateMessage(r) \/ StatementFails(r)
      PROVE  /\ \/ UNCHANGED <<stored, createdAt, now>>
                \/ pc[r] = "insert" /\ InsertRow(r) /\ pc'[r] # "idle"
             /\ UNCHANGED preceding
  BY <1>2 DEF CreateMessage, StatementFails, MarkRow, Goto, ReturnError, TypeOK
<1>3. ASSUME NEW r \in Requests, NEW p \in Params, Begin(r, p)
      PROVE  /\ UNCHANGED <<stored, createdAt, now>> /\ pc[r] = "idle"
             /\ preceding' = [preceding EXCEPT ![r] = {s \in Requests : pc[s] \in Over \ {"idle"}}]
  BY <1>3 DEF Begin
<1>4. ASSUME NEW r \in Requests,
             \/ CheckParticipant(r) \/ MarkMessageRead(r) \/ LoadParticipants(r) \/ Reply(r)
             \/ \E u \in Users : SendToUser(r, u)
      PROVE  UNCHANGED <<stored, createdAt, now, preceding>>
  BY <1>4 DEF Die, CheckParticipant, MarkMessageRead, MarkRow, LoadParticipants, Reply, SendToUser
<1>5. CASE (\E u \in Users : Connect(u) \/ Disconnect(u)) \/ Crash \/ Restart \/ UNCHANGED vars
  BY <1>1, <1>5 DEF Connect, Disconnect, Crash, Restart, vars
<1> QED
  BY <1>2, <1>3, <1>4, <1>5 DEF Next, Step

(* A request that has got to its fan-out does not go back.                 *)
LEMMA FanOutEnds ==
  ASSUME TypeOK, [Next]_vars, NEW r \in Requests, pc[r] = "fanout"
  PROVE  pc'[r] \in {"fanout", "succeeded", "lost"}
<1> USE DEF TypeOK, Over
<1>1. CASE Die
  BY <1>1 DEF Die, Running
<1>2. ASSUME NEW q \in Requests, CheckParticipant(q) \/ CreateMessage(q) \/ MarkMessageRead(q) \/ LoadParticipants(q)
      PROVE  pc'[r] = "fanout" \/ Die
  BY <1>2 DEF CheckParticipant, CreateMessage, MarkMessageRead, LoadParticipants, Goto
<1>3. ASSUME NEW q \in Requests, Reply(q) \/ StatementFails(q) \/ (\E p \in Params : Begin(q, p))
                                  \/ (\E u \in Users : SendToUser(q, u))
      PROVE  pc'[r] \in {"fanout", "succeeded"}
  BY <1>3 DEF Reply, StatementFails, Begin, SendToUser, Goto, ReturnError
<1>4. CASE (\E u \in Users : Connect(u) \/ Disconnect(u)) \/ Crash \/ Restart \/ UNCHANGED vars
  BY <1>1, <1>4 DEF Connect, Disconnect, Crash, Restart, vars
<1> QED
  BY <1>1, <1>2, <1>3, <1>4 DEF Next, Step

LEMMA FanOutShrinks ==
  ASSUME TypeOK, [Next]_vars, NEW r \in Requests, pc[r] # "load"
  PROVE  todo'[r] \subseteq todo[r]
<1> USE DEF TypeOK
<1>1. ASSUME NEW q \in Requests, NEW v \in Users, SendToUser(q, v)
      PROVE  todo'[r] \subseteq todo[r]
  BY <1>1 DEF SendToUser
<1>2. CASE todo'[r] = {} \/ UNCHANGED todo
  BY <1>2
<1>3. ASSUME NEW q \in Requests, pc[q] = "load", \A s \in Requests \ {q} : todo'[s] = todo[s]
      PROVE  todo'[r] \subseteq todo[r]
  BY <1>3
<1> QED
  BY <1>1, <1>2, <1>3, FanOutChanges

LEMMA StepOrdered == TypeOK /\ Ordered /\ [Next]_vars => Ordered'
<1> SUFFICES ASSUME TypeOK, Ordered, [Next]_vars PROVE Ordered'
  OBVIOUS
<1>1. ASSUME NEW r \in Requests, NEW q \in preceding'[r] PROVE pc'[q] \in Over \ {"idle"}
  <2>1. q \in Requests /\ pc[q] \in Over \ {"idle"}
    <3>1. CASE preceding' = preceding
      BY <1>1, <3>1 DEF Ordered, TypeOK
    <3>2. ASSUME NEW x \in Requests,
                 preceding' = [preceding EXCEPT ![x] = {s \in Requests : pc[s] \in Over \ {"idle"}}]
          PROVE  q \in Requests /\ pc[q] \in Over \ {"idle"}
      BY <1>1, <3>2 DEF Ordered, TypeOK
    <3> QED
      BY <3>1, <3>2, RowChanges
  <2> QED
    BY <2>1, PastStays
<1>2. ASSUME NEW u \in Users, NEW r \in Inbox(u)'
      PROVE  r \in Requests /\ pc'[r] \in {"fanout", "succeeded", "failed", "lost"} /\ u \notin todo'[r]
  <2>1. CASE r \in Inbox(u)
    <3>1. r \in Requests /\ pc[r] \in {"fanout", "succeeded", "failed", "lost"} /\ u \notin todo[r]
      BY <2>1 DEF Ordered
    <3>2. todo'[r] \subseteq todo[r]
      BY <3>1, FanOutShrinks
    <3>3. pc'[r] \in {"fanout", "succeeded", "failed", "lost"}
      BY <3>1, FanOutEnds, PastStays DEF Over
    <3> QED
      BY <3>1, <3>2, <3>3
  <2>2. CASE r \notin Inbox(u)
    <3>1. PICK q \in Requests : Delivery(u, q) /\ pc' = pc
      <4>1. inbox'[u] # inbox[u]
        BY <1>2, <2>2 DEF Inbox
      <4> QED
        BY <4>1, InboxChanges
    <3>2. r = q
      <4>1. inbox'[u] = Append(inbox[u], q)
        BY <3>1 DEF Delivery
      <4>2. Inbox(u)' = Inbox(u) \cup {q}
        BY <4>1, Delivered
      <4> QED
        BY <1>2, <2>2, <4>2
    <3>3. u \in todo[q] /\ pc[q] = "fanout"
      BY <3>1 DEF Delivery, TypeOK
    <3>4. u \notin todo'[q]
      BY <3>1 DEF Delivery
    <3> QED
      BY <3>1, <3>2, <3>3, <3>4
  <2> QED
    BY <2>1, <2>2
<1>3. ASSUME NEW r \in Requests PROVE createdAt'[r] <= now'
  BY RowChanges DEF Ordered, TypeOK, InsertRow
<1>4. ASSUME NEW r \in stored' PROVE pc'[r] # "idle"
  BY RowChanges, PastStays DEF Ordered, TypeOK, InsertRow
<1> QED
  BY <1>1, <1>2, <1>3, <1>4 DEF Ordered

LEMMA StepInOrder == TypeOK /\ Ordered /\ InOrder /\ [Next]_vars => InOrder'
<1> SUFFICES ASSUME TypeOK, Ordered, InOrder, [Next]_vars PROVE InOrder'
  OBVIOUS
<1>1. ASSUME NEW u \in Users, NEW i \in DOMAIN inbox'[u], NEW j \in DOMAIN inbox'[u], i < j
      PROVE  inbox'[u][j] \notin preceding'[inbox'[u][i]] \cup {inbox'[u][i]}
  <2>1. CASE inbox'[u] = inbox[u]
    <3>1. inbox[u][i] \in Requests /\ pc[inbox[u][i]] # "idle"
      BY <1>1, <2>1 DEF Ordered, Inbox
    <3>2. preceding'[inbox[u][i]] = preceding[inbox[u][i]]
      BY <3>1, PastStays
    <3> QED
      BY <1>1, <2>1, <3>2 DEF InOrder
  <2>2. ASSUME NEW r \in Requests, Delivery(u, r), UNCHANGED preceding
        PROVE  inbox'[u][j] \notin preceding'[inbox'[u][i]] \cup {inbox'[u][i]}
    <3> DEFINE n == Len(inbox[u])
    <3>1. /\ n \in Nat /\ DOMAIN inbox[u] = 1 .. n /\ DOMAIN inbox'[u] = 1 .. n + 1
          /\ \A k \in 1 .. n : inbox'[u][k] = inbox[u][k]
          /\ inbox'[u][n + 1] = r
      BY <2>2, InboxGrows DEF Delivery
    <3> HIDE DEF n
    <3>2. i \in 1 .. n
      BY <1>1, <3>1
    <3>3. CASE j \in 1 .. n
      BY <1>1, <2>2, <3>1, <3>2, <3>3 DEF InOrder
    <3>4. CASE j = n + 1
      <4> DEFINE m == inbox[u][i]
      <4>1. m \in Inbox(u)
        BY <3>1, <3>2 DEF Inbox
      <4>2. m \in Requests /\ u \notin todo[m] /\ u \in todo[r]
        BY <2>2, <4>1 DEF Ordered, Delivery
      <4>3. r # m
        BY <4>2
      <4>4. r \notin preceding[m]
        BY <2>2, <4>2 DEF Ordered, Delivery, TypeOK, Over
      <4> QED
        BY <2>2, <3>1, <3>2, <3>4, <4>3, <4>4
    <3> QED
      BY <1>1, <3>1, <3>3, <3>4
  <2> QED
    BY <2>1, <2>2, InboxChanges
<1>2. ASSUME NEW r \in stored', NEW s \in preceding'[r] \cap stored'
      PROVE  createdAt'[s] < createdAt'[r]
  <2>1. CASE UNCHANGED <<stored, createdAt, now>>
    <3>1. r \in Requests /\ pc[r] # "idle"
      BY <1>2, <2>1 DEF Ordered, TypeOK
    <3> QED
      BY <1>2, <2>1, <3>1, PastStays DEF InOrder
  <2>2. ASSUME NEW x \in Requests, pc[x] = "insert", InsertRow(x), UNCHANGED preceding
        PROVE  createdAt'[s] < createdAt'[r]
    <3>1. r \in Requests /\ s \in Requests /\ s # x /\ s \in stored /\ s \in preceding[r]
      BY <1>2, <2>2 DEF Ordered, TypeOK, InsertRow, Over
    <3>2. /\ createdAt'[s] = createdAt[s] /\ createdAt[s] <= now /\ createdAt[s] \in Nat /\ now \in Nat
          /\ r = x => createdAt'[r] = now + 1
          /\ r # x => r \in stored /\ createdAt'[r] = createdAt[r]
      BY <1>2, <2>2, <3>1 DEF Ordered, TypeOK, InsertRow
    <3> QED
      BY <3>1, <3>2 DEF InOrder
  <2> QED
    BY <2>1, <2>2, RowChanges
<1> QED
  BY <1>1, <1>2 DEF InOrder

(* What was sent after another operation had ended comes after it, in      *)
(* every inbox and in the table; no event comes twice.                     *)
THEOREM OrderCorrect == Spec => []InOrder
<1>1. Init => TypeOK /\ Ordered /\ InOrder
  BY InitTyped, InitOrdered
<1>2. TypeOK /\ Ordered /\ InOrder /\ [Next]_vars => TypeOK' /\ Ordered' /\ InOrder'
  BY StepTyped, StepOrdered, StepInOrder
<1> QED
  BY <1>1, <1>2, PTL DEF Spec
=============================================================================
