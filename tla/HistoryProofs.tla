--------------------------- MODULE HistoryProofs ---------------------------
(***************************************************************************)
(* What a reader sees of messages sent meanwhile, for any conversations,   *)
(* messages and limits and any number of failures.                         *)
(***************************************************************************)
EXTENDS History, FiniteSetTheorems, FunctionTheorems, SequenceTheorems, TLAPS

-----------------------------------------------------------------------------
(* What a query returns: some rows, none twice, the newest first, and none *)
(* older than a row that is left out; a short answer leaves out nothing.   *)

Descends(s) ==
  \A i, j \in 1 .. Len(s) : i < j => s[i] # s[j] /\ createdAt[s[i]] >= createdAt[s[j]]
Contains(s, m) == \E i \in 1 .. Len(s) : s[i] = m

LEMMA QueryReturns ==
  ASSUME NEW S, NEW n \in Nat, NEW s \in Query(S, n)
  PROVE  /\ s \in Seq(S) /\ Len(s) \in 0 .. n
         /\ s \in [1 .. Len(s) -> S] /\ DOMAIN s = 1 .. Len(s)
         /\ Descends(s)
         /\ \A m \in S : \/ Contains(s, m)
                         \/ Len(s) = n /\ \A i \in 1 .. Len(s) : createdAt[s[i]] >= createdAt[m]
<1>1. PICK k \in 0 .. n : s \in [1 .. k -> S]
  BY DEF Query
<1>2. s \in Seq(S)
  BY <1>1, SeqDef
<1>3. Len(s) \in Nat /\ DOMAIN s = 1 .. Len(s) /\ s \in [1 .. Len(s) -> S]
  BY <1>2, LenProperties
<1>4. k \in Nat /\ 1 .. k = 1 .. Len(s)
  BY <1>1, <1>3
<1>5. Len(s) = k
  <2> DEFINE l == Len(s)
  <2>1. l \in Nat /\ 1 .. k = 1 .. l
    BY <1>3, <1>4
  <2> HIDE DEF l
  <2>2. (k > 0 => k \in 1 .. l) /\ (l > 0 => l \in 1 .. k)
    BY <2>1, <1>4
  <2>3. k = l
    BY <2>1, <2>2, <1>4
  <2> QED
    BY <2>3 DEF l
<1>6. Descends(s)
  BY <1>3 DEF Query, Descends, NewestFirst
<1>7. ASSUME NEW m \in S, ~Contains(s, m)
      PROVE  Len(s) = n /\ \A i \in 1 .. Len(s) : createdAt[s[i]] >= createdAt[m]
  <2>1. m \in S \ {s[i] : i \in DOMAIN s}
    BY <1>3, <1>7 DEF Contains
  <2> QED
    BY <1>3, <2>1 DEF Query, NewestFirst
<1> QED
  BY <1>1, <1>2, <1>3, <1>5, <1>6, <1>7

-----------------------------------------------------------------------------
LEMMA EffectiveLimit == \A l \in Limits : Effective(l) \in 1 .. MaxLimit
BY HistoryAssumption DEF Effective

(* A prefix of a sequence.                                                 *)
LEMMA Prefix ==
  ASSUME NEW S, NEW s \in Seq(S), NEW n \in 0 .. Len(s)
  PROVE  /\ SubSeq(s, 1, n) \in Seq(S) /\ Len(SubSeq(s, 1, n)) = n
         /\ \A i \in 1 .. n : SubSeq(s, 1, n)[i] = s[i]
<1>1. Len(s) \in Nat /\ s \in [1 .. Len(s) -> S]
  BY LenProperties
<1>2. n \in Nat /\ 1 \in Int /\ n \in Int /\ 1 .. n \subseteq 1 .. Len(s)
  BY <1>1
<1>3. \A i \in 1 .. n : s[i] \in S
  BY <1>1, <1>2
<1>4. /\ SubSeq(s, 1, n) \in Seq(S)
      /\ Len(SubSeq(s, 1, n)) = IF 1 <= n THEN n - 1 + 1 ELSE 0
      /\ \A i \in 1 .. n - 1 + 1 : SubSeq(s, 1, n)[i] = s[1 + i - 1]
  BY <1>2, <1>3, SubSeqProperties
<1>5. n - 1 + 1 = n /\ (IF 1 <= n THEN n - 1 + 1 ELSE 0) = n /\ \A i \in 1 .. n : 1 + i - 1 = i
  BY <1>2
<1> QED
  BY <1>4, <1>5

(* The pages of a reader: the next one, whole or cut short.                *)
Candidates == {m \in Of(room) : BeforeCursor(m)}
NewPage(p) ==
  /\ p \in Seq(Candidates) /\ Len(p) \in Nat /\ p \in [1 .. Len(p) -> Candidates]
  /\ Descends(p)
  /\ \A m \in Candidates : Contains(p, m) \/ \A i \in 1 .. Len(p) : createdAt[p[i]] >= createdAt[m]

LEMMA PageIsNew ==
  ASSUME TypeOK, NEW s \in Query(Candidates, limit)
  PROVE  NewPage(s)
<1>1. limit \in Nat
  BY HistoryAssumption DEF TypeOK
<1> QED
  BY <1>1, QueryReturns DEF NewPage

LEMMA CutPageIsNew ==
  ASSUME TypeOK, NEW s \in Query(Candidates, limit), NEW n \in 0 .. Len(s) - 1
  PROVE  NewPage(SubSeq(s, 1, n))
<1> DEFINE p == SubSeq(s, 1, n)
           l == Len(s)
<1>1. NewPage(s) /\ l \in Nat /\ n \in 0 .. l /\ n \in Nat /\ l >= n
  BY PageIsNew DEF NewPage
<1>2. p \in Seq(Candidates) /\ Len(p) = n /\ \A i \in 1 .. n : p[i] = s[i]
  BY <1>1, Prefix DEF NewPage
<1>3. p \in [1 .. n -> Candidates]
  BY <1>2, LenProperties
<1> HIDE DEF p
<1>4. 1 .. n \subseteq 1 .. l
  BY <1>1
<1>5. Descends(p)
  BY <1>1, <1>2, <1>4 DEF NewPage, Descends
<1>6. ASSUME NEW m \in Candidates, ~Contains(p, m), NEW i \in 1 .. n
      PROVE  createdAt[p[i]] >= createdAt[m]
  <2>1. CASE Contains(s, m)
    <3>1. PICK j \in 1 .. l : s[j] = m
      BY <2>1 DEF Contains
    <3>2. j \notin 1 .. n
      BY <1>2, <1>6, <3>1 DEF Contains
    <3>3. i < j
      BY <1>1, <3>1, <3>2
    <3> QED
      BY <1>1, <1>2, <1>4, <3>1, <3>3 DEF NewPage, Descends
  <2>2. CASE ~Contains(s, m)
    BY <1>1, <1>2, <1>4, <2>2 DEF NewPage
  <2> QED
    BY <2>1, <2>2
<1>7. NewPage(p)
  BY <1>1, <1>2, <1>3, <1>5, <1>6 DEF NewPage
<1> QED
  BY <1>7 DEF p

LEMMA PagesJoin ==
  ASSUME TypeOK, NEW p, NewPage(p)
  PROVE  LET q == shown \o p
             k == Len(shown) IN
         /\ q \in Seq(Messages) /\ k \in Nat /\ Len(p) \in Nat /\ Len(q) = k + Len(p)
         /\ shown \in [1 .. k -> Messages] /\ p \in [1 .. Len(p) -> Candidates]
         /\ \A i \in 1 .. k : i \in 1 .. Len(q) /\ q[i] = shown[i]
         /\ \A i \in 1 .. Len(p) : k + i \in 1 .. Len(q) /\ q[k + i] = p[i]
         /\ \A i \in 1 .. Len(q) : i \in 1 .. k \/ (i > k /\ i - k \in 1 .. Len(p) /\ q[i] = p[i - k])
<1> DEFINE q == shown \o p
           k == Len(shown)
           l == Len(p)
<1>1. shown \in Seq(Messages) /\ p \in Seq(Messages) /\ p \in [1 .. l -> Candidates]
  <2>1. Candidates \subseteq Messages
    BY DEF Candidates, Of, TypeOK
  <2> QED
    BY <2>1, SeqMonotonic DEF NewPage, TypeOK
<1>2. k \in Nat /\ l \in Nat /\ shown \in [1 .. k -> Messages]
  BY <1>1, LenProperties
<1>3. q \in Seq(Messages) /\ Len(q) = k + l
  BY <1>1, ConcatProperties
<1>4. \A i \in 1 .. k + l : q[i] = IF i <= k THEN shown[i] ELSE p[i - k]
  BY <1>1, ConcatProperties, Zenon
<1> HIDE DEF q, k, l
<1>5. \A i \in 1 .. k : i \in 1 .. k + l /\ i <= k
  BY <1>2
<1>6. \A i \in 1 .. l : k + i \in 1 .. k + l /\ ~(k + i <= k) /\ (k + i) - k = i
  BY <1>2
<1>7. \A i \in 1 .. k + l : i \in 1 .. k \/ (i > k /\ ~(i <= k) /\ i - k \in 1 .. l)
  BY <1>2
<1>8. /\ \A i \in 1 .. k : i \in 1 .. Len(q) /\ q[i] = shown[i]
      /\ \A i \in 1 .. l : k + i \in 1 .. Len(q) /\ q[k + i] = p[i]
      /\ \A i \in 1 .. Len(q) : i \in 1 .. k \/ (i > k /\ i - k \in 1 .. l /\ q[i] = p[i - k])
  BY <1>3, <1>4, <1>5, <1>6, <1>7
<1>9. /\ q \in Seq(Messages) /\ k \in Nat /\ l \in Nat /\ Len(q) = k + l
      /\ shown \in [1 .. k -> Messages] /\ p \in [1 .. l -> Candidates]
  BY <1>1, <1>2, <1>3
<1> QED
  BY <1>8, <1>9 DEF q, k, l

-----------------------------------------------------------------------------
(* Everyone else leaves what the reader has alone; the writers first.      *)
Writes ==
  \E m \in Messages :
    \/ \E c \in Convs, t \in {now, now + 1} : BeginInsert(m, c, t)
    \/ CommitInsert(m) \/ BeginTouch(m) \/ CommitTouch(m) \/ SendFails(m)

TypedWrites ==
  /\ now \in Nat
  /\ pc \in [Messages -> Over \cup {"inserting", "stored", "touching"}]
  /\ conv \in [Messages -> Convs]
  /\ createdAt \in [Messages -> 0 .. now] /\ touch \in [Messages -> 0 .. now]
  /\ stored \in SUBSET Messages
  /\ updatedAt \in [Convs -> 0 .. now]
  /\ preceding \in [Messages -> SUBSET Messages]

TypedReads ==
  /\ reader \in {"idle", "end", "page", "list", "fill"}
  /\ room \in Convs
  /\ shown \in Seq(Messages)
  /\ cut \in BOOLEAN
  /\ limit \in 0 .. MaxLimit
  /\ queue \in Seq(Convs)
  /\ last \in [Convs -> Messages \cup {None}]
  /\ known \in SUBSET Messages
  /\ blank \in SUBSET Convs

LEMMA WritesTyped ==
  ASSUME TypedWrites, faults \in 0 .. MaxFaults, Writes
  PROVE  TypedWrites' /\ UNCHANGED <<reader, walk, list, known>> /\ faults' \in 0 .. MaxFaults
<1> USE DEF TypedWrites, Over, Goto, Fault
<1>1. ASSUME NEW n \in Nat, NEW S, NEW f \in [S -> 0 .. n], NEW x \in S, NEW t \in {n, n + 1}
      PROVE  f \in [S -> 0 .. t] /\ [f EXCEPT ![x] = t] \in [S -> 0 .. t]
  <2>1. 0 .. n \subseteq 0 .. t /\ t \in 0 .. t
    OBVIOUS
  <2>2. f \in [S -> 0 .. t]
    BY <2>1
  <2> QED
    BY <2>1, <2>2
<1>2. ASSUME NEW m \in Messages, NEW c \in Convs, NEW t \in {now, now + 1}, BeginInsert(m, c, t)
      PROVE  TypedWrites'
  <2>1. createdAt' \in [Messages -> 0 .. now'] /\ touch' \in [Messages -> 0 .. now']
    BY <1>1, <1>2 DEF BeginInsert
  <2>2. updatedAt' \in [Convs -> 0 .. now']
    BY <1>1, <1>2 DEF BeginInsert
  <2>3. /\ now' \in Nat /\ stored' \in SUBSET Messages
        /\ pc' \in [Messages -> Over \cup {"inserting", "stored", "touching"}]
        /\ conv' \in [Messages -> Convs]
        /\ preceding' \in [Messages -> SUBSET Messages]
    BY <1>2 DEF BeginInsert
  <2> QED
    BY <2>1, <2>2, <2>3
<1>3. ASSUME NEW m \in Messages, CommitInsert(m) \/ SendFails(m) PROVE TypedWrites'
  BY <1>3 DEF CommitInsert, SendFails
<1>4. ASSUME NEW m \in Messages, BeginTouch(m) PROVE TypedWrites'
  <2>1. now \in 0 .. now
    OBVIOUS
  <2> QED
    BY <1>4, <2>1 DEF BeginTouch
<1>5. ASSUME NEW m \in Messages, CommitTouch(m) PROVE TypedWrites'
  <2>1. touch[m] \in 0 .. now /\ 0 \in 0 .. now /\ conv[m] \in Convs
    OBVIOUS
  <2> QED
    BY <1>5, <2>1 DEF CommitTouch, TimeOfTouch
<1>6. UNCHANGED <<reader, walk, list, known>> /\ faults' \in 0 .. MaxFaults
  BY HistoryAssumption DEF Writes, BeginInsert, CommitInsert, BeginTouch, CommitTouch, SendFails
<1> QED
  BY <1>2, <1>3, <1>4, <1>5, <1>6 DEF Writes

LEMMA ReadsWriteNothing ==
  ASSUME TypeOK, [Next]_vars, ~Writes
  PROVE  UNCHANGED writers /\ faults' \in 0 .. MaxFaults
<1> DEFINE Reads == UNCHANGED writers /\ (Fault \/ UNCHANGED faults)
<1>1. Reads
  <2>1. ASSUME NEW l \in Limits, NextPage(l) \/ \E c \in Convs : FirstPage(c, l) PROVE Reads
    BY <2>1 DEF NextPage, FirstPage
  <2>2. CASE GetMessages
    BY <2>2 DEF GetMessages
  <2>3. CASE PageFails
    BY <2>3 DEF PageFails
  <2>4. CASE BeginList \/ EndList
    BY <2>4 DEF BeginList, EndList
  <2>5. CASE ListConversations
    BY <2>5 DEF ListConversations
  <2>6. CASE LastMessage
    BY <2>6 DEF LastMessage
  <2>7. CASE UNCHANGED vars
    BY <2>7 DEF vars
  <2> HIDE DEF Reads
  <2> QED
    BY <2>1, <2>2, <2>3, <2>4, <2>5, <2>6, <2>7 DEF Next, Writes
<1>2. faults' \in 0 .. MaxFaults
  BY <1>1, HistoryAssumption DEF TypeOK, Fault
<1> QED
  BY <1>1, <1>2

LEMMA ReadsTyped ==
  ASSUME TypeOK, [Next]_vars, ~Writes
  PROVE  TypedReads'
<1> USE HistoryAssumption DEF TypedReads, walk, list
<1>0. TypedReads /\ stored \in SUBSET Messages
  BY DEF TypeOK
<1>2. ASSUME NEW l \in Limits PROVE Effective(l) \in 0 .. MaxLimit
  BY EffectiveLimit
<1>3. ASSUME NEW p, NewPage(p) PROVE shown \o p \in Seq(Messages)
  BY <1>3, PagesJoin
<1>4. <<>> \in Seq(Messages) /\ <<>> \in Seq(Convs)
  BY EmptySeq
<1>5. ASSUME NEW l \in Limits, NEW c \in Convs, FirstPage(c, l) PROVE TypedReads'
  BY <1>0, <1>2, <1>4, <1>5 DEF FirstPage
<1>6. ASSUME NEW l \in Limits, NextPage(l) PROVE TypedReads'
  BY <1>0, <1>2, <1>6 DEF NextPage
<1>7. CASE GetMessages
  <2>1. PICK s \in Query(Candidates, limit) : shown' = shown \o s /\ reader' \in {"end", "idle"}
    BY <1>7 DEF GetMessages, Candidates
  <2>2. shown' \in Seq(Messages)
    BY <1>3, <2>1, PageIsNew
  <2> QED
    BY <1>0, <1>7, <2>1, <2>2 DEF GetMessages
<1>8. CASE PageFails
  <2>0. limit' = 0 /\ UNCHANGED <<room, list, known>>
    BY <1>8 DEF PageFails
  <2>1. CASE shown' = shown /\ reader' = "idle" /\ cut' = cut
    BY <1>0, <2>0, <2>1
  <2>2. ASSUME NEW s \in Query(Candidates, limit), NEW n \in 0 .. Len(s) - 1,
               shown' = shown \o SubSeq(s, 1, n), reader' = "end", cut' = TRUE
        PROVE  TypedReads'
    <3>1. shown' \in Seq(Messages)
      BY <1>3, <2>2, CutPageIsNew
    <3> QED
      BY <1>0, <2>0, <2>2, <3>1
  <2>3. \/ shown' = shown /\ reader' = "idle" /\ cut' = cut
        \/ \E s \in Query(Candidates, limit) : \E n \in 0 .. Len(s) - 1 :
             shown' = shown \o SubSeq(s, 1, n) /\ reader' = "end" /\ cut' = TRUE
    BY <1>8 DEF PageFails, Candidates
  <2> QED
    BY <2>1, <2>2, <2>3
<1>9. CASE BeginList
  BY <1>0, <1>4, <1>9 DEF BeginList
<1>10. CASE ListConversations
  <2>1. ASSUME NEW q \in Orders
        PROVE  /\ q \in Seq(Convs)
               /\ \A n \in 0 .. Len(q) - 1 :
                    SubSeq(q, 1, n) \in Seq(Convs) /\ {q[i] : i \in n + 1 .. Len(q)} \subseteq Convs
    <3>1. Cardinality(Convs) \in Nat /\ q \in [1 .. Cardinality(Convs) -> Convs]
      BY FS_CardinalityType DEF Orders
    <3>2. q \in Seq(Convs)
      BY <3>1, SeqDef
    <3>3. Len(q) \in Nat /\ q \in [1 .. Len(q) -> Convs]
      BY <3>2, LenProperties
    <3>4. ASSUME NEW n \in 0 .. Len(q) - 1
          PROVE  n \in 0 .. Len(q) /\ n + 1 .. Len(q) \subseteq 1 .. Len(q)
      BY <3>3
    <3> QED
      BY <3>2, <3>3, <3>4, Prefix
  <2>2. PICK q \in Orders :
          \/ queue' = q /\ blank' = blank
          \/ \E n \in 0 .. Len(q) - 1 : queue' = SubSeq(q, 1, n) /\ blank' = {q[i] : i \in n + 1 .. Len(q)}
    BY <1>10 DEF ListConversations
  <2>3. queue' \in Seq(Convs) /\ blank' \subseteq Convs
    BY <1>0, <2>1, <2>2
  <2>4. reader' = "fill" /\ UNCHANGED <<walk, last, known>>
    BY <1>10 DEF ListConversations
  <2> QED
    BY <1>0, <2>3, <2>4
<1>11. CASE LastMessage
  <2>1. Head(queue) \in Convs /\ Tail(queue) \in Seq(Convs)
    BY <1>0, <1>11, HeadTailProperties DEF LastMessage
  <2>2. ASSUME NEW s \in Query(Of(Head(queue)), 1), s # <<>> PROVE s[1] \in Messages
    <3>1. s \in Seq(Messages)
      BY QueryReturns, SeqMonotonic, <1>0 DEF Of
    <3> QED
      BY <2>2, <3>1
  <2>3. last' \in [Convs -> Messages \cup {None}] /\ blank' \subseteq Convs
    BY <1>0, <1>11, <2>1, <2>2 DEF LastMessage
  <2>4. queue' = Tail(queue) /\ UNCHANGED <<reader, walk, known>>
    BY <1>11 DEF LastMessage
  <2> QED
    BY <1>0, <2>1, <2>3, <2>4
<1>12. CASE EndList
  <2>1. /\ reader' = "idle" /\ queue' = <<>> /\ UNCHANGED walk
        /\ last' = [c \in Convs |-> None] /\ blank' = {} /\ known' = {}
    BY <1>12 DEF EndList
  <2> QED
    BY <1>0, <1>4, <2>1
<1>13. CASE UNCHANGED vars
  BY <1>0, <1>13 DEF vars
<1> QED
  BY <1>5, <1>6, <1>7, <1>8, <1>9, <1>10, <1>11, <1>12, <1>13 DEF Next, Writes

LEMMA StepTyped == TypeOK /\ [Next]_vars => TypeOK'
<1> SUFFICES ASSUME TypeOK, [Next]_vars PROVE TypeOK'
  OBVIOUS
<1>1. TypedWrites /\ TypedReads /\ faults \in 0 .. MaxFaults
  BY DEF TypeOK, TypedWrites, TypedReads
<1>2. TypedWrites' /\ TypedReads' /\ faults' \in 0 .. MaxFaults
  <2>1. CASE Writes
    BY <1>1, <2>1, WritesTyped DEF TypedReads, walk, list
  <2>2. CASE ~Writes
    BY <1>1, <2>2, ReadsTyped, ReadsWriteNothing DEF TypedWrites, writers
  <2> QED
    BY <2>1, <2>2
<1> QED
  BY <1>2 DEF TypeOK, TypedWrites, TypedReads

LEMMA InitTyped == Init => TypeOK
<1> SUFFICES ASSUME Init PROVE TypeOK
  OBVIOUS
<1>1. TypedWrites
  <2>1. 0 \in 0 .. 0 /\ now = 0
    BY DEF Init
  <2> QED
    BY <2>1 DEF Init, TypedWrites, Over
<1>2. TypedReads /\ faults \in 0 .. MaxFaults
  <2>1. shown \in Seq(Messages) /\ queue \in Seq(Convs)
    BY EmptySeq DEF Init
  <2>2. limit \in 0 .. MaxLimit /\ faults \in 0 .. MaxFaults
    BY HistoryAssumption DEF Init
  <2> QED
    BY <2>1, <2>2 DEF Init, TypedReads
<1> QED
  BY <1>1, <1>2 DEF TypeOK, TypedWrites, TypedReads

(* Every variable of the store and of its reader keeps its type in every   *)
(* behaviour: every limit that reaches a query is within MaxLimit, and no  *)
(* timestamp is ahead of the clock.                                        *)
THEOREM TypeCorrect == Spec => []TypeOK
BY InitTyped, StepTyped, PTL DEF Spec

-----------------------------------------------------------------------------
(* A message that has begun keeps its conversation and its created_at;     *)
(* rows stay; a reader knows and has been shown rows only, those of the    *)
(* conversation it reads.                                                  *)
Sends ==
  /\ \A m \in stored : pc[m] # "idle"
  /\ known \subseteq stored
  /\ \A i \in 1 .. Len(shown) : shown[i] \in Of(room)

Kept(m) ==
  /\ pc'[m] # "idle" /\ conv'[m] = conv[m] /\ createdAt'[m] = createdAt[m]
  /\ preceding'[m] = preceding[m]

LEMMA WritesKeep ==
  ASSUME TypeOK, Writes
  PROVE  /\ \A m \in Messages : pc[m] # "idle" => Kept(m)
         /\ stored \subseteq stored' /\ \A m \in stored' \ stored : pc[m] = "inserting"
         /\ UNCHANGED <<reader, walk, list, known>>
<1> USE DEF TypeOK, Goto, Kept, Over
<1> DEFINE Goal == /\ \A m \in Messages : pc[m] # "idle" => Kept(m)
                   /\ stored \subseteq stored' /\ \A m \in stored' \ stored : pc[m] = "inserting"
                   /\ UNCHANGED <<reader, walk, list, known>>
<1>1. ASSUME NEW m \in Messages, NEW c \in Convs, NEW t \in {now, now + 1}, BeginInsert(m, c, t)
      PROVE  Goal
  BY <1>1 DEF BeginInsert
<1>2. ASSUME NEW m \in Messages, CommitInsert(m) PROVE Goal
  BY <1>2 DEF CommitInsert
<1>3. ASSUME NEW m \in Messages, BeginTouch(m) PROVE Goal
  BY <1>3 DEF BeginTouch
<1>4. ASSUME NEW m \in Messages, CommitTouch(m) PROVE Goal
  BY <1>4 DEF CommitTouch
<1>5. ASSUME NEW m \in Messages, SendFails(m) PROVE Goal
  BY <1>5 DEF SendFails
<1> QED
  BY <1>1, <1>2, <1>3, <1>4, <1>5 DEF Writes

LEMMA RowsKept ==
  ASSUME TypeOK, Sends, [Next]_vars, NEW m \in stored
  PROVE  m \in Messages /\ m \in stored' /\ conv'[m] = conv[m] /\ createdAt'[m] = createdAt[m]
<1>1. m \in Messages /\ pc[m] # "idle"
  BY DEF TypeOK, Sends
<1>2. CASE Writes
  BY <1>1, <1>2, WritesKeep DEF Kept
<1>3. CASE ~Writes
  BY <1>1, <1>3, ReadsWriteNothing DEF writers
<1> QED
  BY <1>2, <1>3

(* What a reader may do to what it has been shown.                         *)
LeavesShown ==
  /\ shown' = shown /\ room' = room /\ cut' = cut
  /\ \/ known' = {}
     \/ known' = known /\ reader' \in {"list", "fill"}
     \/ known' = known /\ reader \notin {"list", "fill"} /\ (reader' = "end" => reader = "end")
StartsOver == shown' = <<>> /\ known' = stored /\ reader' \in {"page", "list"}
ShowsMore(p) ==
  /\ room' = room /\ known' = known /\ reader = "page"
  /\ NewPage(p) /\ shown' = shown \o p
  /\ \/ reader' = "idle"
     \/ reader' = "end" /\ (cut' \/ \A m \in Candidates : Contains(p, m))

LEMMA ShownChanges ==
  ASSUME TypeOK, [Next]_vars, ~Writes
  PROVE  LeavesShown \/ StartsOver \/ \E p : ShowsMore(p)
<1> USE DEF walk, list, TypeOK, LeavesShown, StartsOver
<1>1. ASSUME NEW l \in Limits, NEW c \in Convs, FirstPage(c, l) PROVE StartsOver
  BY <1>1 DEF FirstPage
<1>2. ASSUME NEW l \in Limits, NextPage(l) PROVE LeavesShown
  BY <1>2 DEF NextPage
<1>3. CASE GetMessages
  <2>1. PICK s \in Query(Candidates, limit) :
          shown' = shown \o s /\ reader' = IF Len(s) < limit THEN "end" ELSE "idle"
    BY <1>3 DEF GetMessages, Candidates
  <2>2. room' = room /\ known' = known /\ reader = "page"
    BY <1>3 DEF GetMessages
  <2>3. NewPage(s)
    BY PageIsNew
  <2>4. ASSUME Len(s) < limit, NEW m \in Candidates PROVE Contains(s, m)
    <3>1. limit \in Nat
      BY HistoryAssumption
    <3>2. Len(s) # limit
      <4> DEFINE l == Len(s)
      <4>1. l < limit /\ l \in Nat
        BY <2>3, <2>4 DEF NewPage
      <4> HIDE DEF l
      <4>2. l # limit
        BY <3>1, <4>1
      <4> QED
        BY <4>2 DEF l
    <3>3. Contains(s, m) \/ Len(s) = limit
      <4> HIDE DEF TypeOK
      <4> QED
        BY <3>1, QueryReturns
    <3> QED
      BY <3>2, <3>3
  <2>5. ShowsMore(s)
    BY <2>1, <2>2, <2>3, <2>4 DEF ShowsMore
  <2> QED
    BY <2>5
<1>4. CASE PageFails
  <2>1. UNCHANGED <<room, list, known>> /\ reader = "page"
    BY <1>4 DEF PageFails
  <2>2. ASSUME reader' = "idle", UNCHANGED <<shown, cut>> PROVE LeavesShown
    BY <2>1, <2>2
  <2>3. ASSUME NEW s \in Query(Candidates, limit), NEW n \in 0 .. Len(s) - 1,
               shown' = shown \o SubSeq(s, 1, n), reader' = "end", cut' = TRUE
        PROVE  \E p : ShowsMore(p)
    <3>1. ShowsMore(SubSeq(s, 1, n))
      BY <2>1, <2>3, CutPageIsNew DEF ShowsMore
    <3> QED
      BY <3>1
  <2>4. \/ reader' = "idle" /\ UNCHANGED <<shown, cut>>
        \/ \E s \in Query(Candidates, limit) : \E n \in 0 .. Len(s) - 1 :
             shown' = shown \o SubSeq(s, 1, n) /\ reader' = "end" /\ cut' = TRUE
    BY <1>4 DEF PageFails, Candidates
  <2> HIDE DEF LeavesShown
  <2> QED
    BY <2>2, <2>3, <2>4
<1>5. CASE BeginList
  BY <1>5 DEF BeginList
<1>6. CASE ListConversations
  <2>1. reader' = "fill" /\ UNCHANGED <<walk, last, known>>
    BY <1>6 DEF ListConversations
  <2> QED
    BY <2>1
<1>7. CASE LastMessage
  <2>1. reader = "fill" /\ UNCHANGED <<reader, walk, known>>
    BY <1>7 DEF LastMessage
  <2> QED
    BY <2>1
<1>8. CASE EndList
  <2>1. reader' = "idle" /\ known' = {} /\ UNCHANGED walk
    BY <1>8 DEF EndList
  <2> QED
    BY <2>1
<1>9. ASSUME UNCHANGED vars PROVE LeavesShown
  BY <1>9 DEF vars
<1> QED
  BY <1>1, <1>2, <1>3, <1>4, <1>5, <1>6, <1>7, <1>8, <1>9 DEF Next, Writes

LEMMA StepSends == TypeOK /\ Sends /\ [Next]_vars => Sends'
<1> SUFFICES ASSUME TypeOK, Sends, [Next]_vars PROVE Sends'
  OBVIOUS
<1>1. ASSUME NEW m \in stored' PROVE pc'[m] # "idle"
  <2>1. CASE Writes
    <3>1. m \in Messages
      BY <1>1, StepTyped DEF TypeOK
    <3> QED
      BY <1>1, <2>1, <3>1, WritesKeep DEF Sends, Kept
  <2>2. CASE ~Writes
    BY <1>1, <2>2, ReadsWriteNothing DEF writers, Sends
  <2> QED
    BY <2>1, <2>2
<1>2. known' \subseteq stored' /\ \A i \in 1 .. Len(shown') : shown'[i] \in Of(room)'
  <2>1. CASE Writes
    <3>1. UNCHANGED <<shown, room, known>>
      BY <2>1, WritesKeep DEF walk
    <3> QED
      BY <3>1, RowsKept DEF Sends, Of
  <2>2. CASE ~Writes
    <3>1. /\ stored' = stored /\ conv' = conv
      BY <2>2, ReadsWriteNothing DEF writers
    <3>2. CASE shown' = shown /\ room' = room /\ known' \in {known, {}}
      BY <3>1, <3>2 DEF Sends, Of
    <3>3. CASE shown' = <<>> /\ known' = stored
      <4>1. Len(shown') = 0
        BY <3>3, EmptySeq
      <4> QED
        BY <3>1, <3>3, <4>1
    <3>4. ASSUME NEW p, NewPage(p), shown' = shown \o p, room' = room, known' = known
          PROVE  known' \subseteq stored' /\ \A i \in 1 .. Len(shown') : shown'[i] \in Of(room)'
      <4>1. Of(room)' = Of(room)
        BY <3>1, <3>4 DEF Of
      <4>2. \A i \in 1 .. Len(p) : p[i] \in Of(room)
        BY <3>4, PagesJoin DEF Candidates
      <4>3. \A i \in 1 .. Len(shown') : shown'[i] \in Of(room)
        BY <3>4, <4>2, PagesJoin DEF Sends
      <4> QED
        BY <3>1, <3>4, <4>1, <4>3 DEF Sends
    <3> QED
      BY <2>2, <3>2, <3>3, <3>4, ShownChanges DEF LeavesShown, StartsOver, ShowsMore
  <2> QED
    BY <2>1, <2>2
<1> QED
  BY <1>1, <1>2 DEF Sends

-----------------------------------------------------------------------------
(* What a cursor leaves to the next page is older than all that was shown. *)
LEMMA CandidatesAreOlder ==
  ASSUME TypeOK, Descends(shown), NEW i \in 1 .. Len(shown), NEW m \in Candidates
  PROVE  createdAt[m] < createdAt[shown[i]]
<1> DEFINE k == Len(shown)
<1>1. k \in Nat /\ shown # <<>> /\ \A j \in 1 .. k : shown[j] \in Messages
  BY EmptySeq, LenProperties DEF TypeOK
<1>2. createdAt[m] < createdAt[shown[k]] /\ m \in Messages
  BY <1>1 DEF Candidates, BeforeCursor, Of, TypeOK
<1> HIDE DEF k
<1>3. i \in 1 .. k /\ k \in 1 .. k /\ (i < k \/ i = k)
  BY <1>1 DEF k
<1>4. createdAt[shown[i]] >= createdAt[shown[k]]
  <2>1. \A n \in Messages : createdAt[n] \in Nat
    BY DEF TypeOK
  <2> QED
    BY <1>1, <1>3, <2>1 DEF Descends, k
<1>5. createdAt[m] \in Nat /\ createdAt[shown[i]] \in Nat /\ createdAt[shown[k]] \in Nat
  <2>1. shown[i] \in Messages /\ shown[k] \in Messages
    BY <1>1, <1>3
  <2>2. \A n \in Messages : createdAt[n] \in Nat
    BY DEF TypeOK
  <2> QED
    BY <1>2, <2>1, <2>2
<1> QED
  BY <1>2, <1>4, <1>5

LEMMA StepDescends == TypeOK /\ Sends /\ Descends(shown) /\ [Next]_vars => Descends(shown)'
<1> SUFFICES ASSUME TypeOK, Sends, Descends(shown), [Next]_vars PROVE Descends(shown)'
  OBVIOUS
<1>1. CASE Writes
  <2>1. shown' = shown /\ \A i \in 1 .. Len(shown) : createdAt'[shown[i]] = createdAt[shown[i]]
    BY <1>1, WritesKeep, RowsKept DEF walk, Sends, Of
  <2> QED
    BY <2>1 DEF Descends
<1>2. CASE ~Writes
  <2>1. createdAt' = createdAt
    BY <1>2, ReadsWriteNothing DEF writers
  <2>2. CASE shown' = shown
    BY <2>1, <2>2 DEF Descends
  <2>3. CASE shown' = <<>>
    <3>1. Len(shown') = 0
      BY <2>3, EmptySeq
    <3> QED
      BY <3>1 DEF Descends
  <2>4. ASSUME NEW p, NewPage(p), shown' = shown \o p
        PROVE  Descends(shown)'
    <3> DEFINE q == shown'
               k == Len(shown)
    <3> SUFFICES ASSUME NEW i \in 1 .. Len(q), NEW j \in 1 .. Len(q), i < j
                 PROVE  q[i] # q[j] /\ createdAt[q[i]] >= createdAt[q[j]]
      BY <2>1 DEF Descends
    <3>0. Descends(p) /\ k \in Nat /\ Len(p) \in Nat
      BY <2>4, PagesJoin DEF NewPage
    <3>1. \/ i \in 1 .. k /\ q[i] = shown[i]
          \/ i > k /\ i - k \in 1 .. Len(p) /\ q[i] = p[i - k]
      BY <2>4, PagesJoin
    <3>2. \/ j \in 1 .. k /\ q[j] = shown[j]
          \/ j > k /\ j - k \in 1 .. Len(p) /\ q[j] = p[j - k]
      BY <2>4, PagesJoin
    <3>3. CASE i \in 1 .. k /\ j \in 1 .. k
      <4>1. q[i] = shown[i] /\ q[j] = shown[j]
        BY <2>4, <3>3, PagesJoin
      <4> QED
        BY <3>3, <4>1 DEF Descends
    <3>4. CASE i \in 1 .. k /\ q[i] = shown[i] /\ j - k \in 1 .. Len(p) /\ q[j] = p[j - k]
      <4>1. q[j] \in Candidates
        <5>1. p \in [1 .. Len(p) -> Candidates]
          BY <2>4 DEF NewPage
        <5> QED
          BY <3>4, <5>1
      <4>2. createdAt[q[j]] < createdAt[q[i]]
        BY <3>4, <4>1, CandidatesAreOlder
      <4>3. createdAt[q[j]] \in Nat /\ createdAt[q[i]] \in Nat
        <5>1. q[i] \in Messages /\ q[j] \in Messages
          BY <3>4, <4>1, <2>4, PagesJoin DEF Candidates, Of, TypeOK
        <5> QED
          BY <5>1 DEF TypeOK
      <4> QED
        BY <4>2, <4>3
    <3>5. CASE i > k /\ j > k
      <4>1. /\ i - k \in 1 .. Len(p) /\ j - k \in 1 .. Len(p) /\ i - k < j - k
            /\ q[i] = p[i - k] /\ q[j] = p[j - k]
        BY <3>0, <3>1, <3>2, <3>5
      <4> QED
        BY <3>0, <4>1 DEF Descends
    <3> QED
      BY <3>0, <3>1, <3>2, <3>3, <3>4, <3>5
  <2> QED
    BY <1>2, <2>2, <2>3, <2>4, ShownChanges DEF LeavesShown, StartsOver, ShowsMore
<1> QED
  BY <1>1, <1>2

LEMMA InitHistory == Init => Sends /\ Descends(shown)
<1> SUFFICES ASSUME Init PROVE Sends /\ Descends(shown)
  OBVIOUS
<1>1. Len(shown) = 0
  BY EmptySeq DEF Init
<1> QED
  BY <1>1 DEF Init, Sends, Descends

(* The pages of a walk, put together, go back in time and repeat nothing,  *)
(* whatever is sent, lost or cut short meanwhile, for any limits.          *)
THEOREM DescentCorrect == Spec => []PagesDescend
<1>1. TypeOK /\ Descends(shown) => PagesDescend
  <2> SUFFICES ASSUME TypeOK, Descends(shown) PROVE PagesDescend
    OBVIOUS
  <2>1. DOMAIN shown = 1 .. Len(shown)
    BY LenProperties DEF TypeOK
  <2> QED
    BY <2>1 DEF PagesDescend, Descends
<1> QED
  BY InitTyped, StepTyped, InitHistory, StepSends, StepDescends, <1>1, PTL DEF Spec

-----------------------------------------------------------------------------
(* A message is covered by a walk when it was shown, or another of its     *)
(* instant was; it is passed by an older one.                              *)
Covered(m) == \E i \in 1 .. Len(shown) : createdAt[shown[i]] = createdAt[m]
Passed(m) == \E i \in 1 .. Len(shown) : createdAt[shown[i]] < createdAt[m]
Walked ==
  reader \notin {"list", "fill"} =>
    \A m \in known : conv[m] = room =>
      (Passed(m) \/ (reader = "end" /\ ~cut) => Covered(m))

LEMMA StepWalked == TypeOK /\ Sends /\ Walked /\ [Next]_vars => Walked'
<1> SUFFICES ASSUME TypeOK, Sends, Walked, [Next]_vars PROVE Walked'
  OBVIOUS
<1>1. CASE Writes
  <2>1. UNCHANGED <<reader, shown, room, cut, known>>
    BY <1>1, WritesKeep DEF walk
  <2>2. \A i \in 1 .. Len(shown) : createdAt'[shown[i]] = createdAt[shown[i]]
    BY RowsKept DEF Sends, Of
  <2>3. \A m \in known : createdAt'[m] = createdAt[m] /\ conv'[m] = conv[m]
    BY RowsKept DEF Sends
  <2>4. \A m \in known : (Passed(m)' <=> Passed(m)) /\ (Covered(m)' <=> Covered(m))
    BY <2>1, <2>2, <2>3 DEF Passed, Covered
  <2> QED
    BY <2>1, <2>3, <2>4 DEF Walked
<1>2. CASE ~Writes
  <2>1. createdAt' = createdAt /\ conv' = conv /\ stored' = stored
    BY <1>2, ReadsWriteNothing DEF writers
  <2>2. ASSUME shown' = shown, room' = room, cut' = cut,
               \/ known' = {}
               \/ known' = known /\ reader' \in {"list", "fill"}
               \/ known' = known /\ reader \notin {"list", "fill"} /\ (reader' = "end" => reader = "end")
        PROVE  Walked'
    <3>1. \A m : (Passed(m)' <=> Passed(m)) /\ (Covered(m)' <=> Covered(m))
      BY <2>1, <2>2 DEF Passed, Covered
    <3> QED
      BY <2>1, <2>2, <3>1 DEF Walked
  <2>3. ASSUME shown' = <<>>, reader' \in {"page", "list"} PROVE Walked'
    <3>1. Len(shown') = 0
      BY <2>3, EmptySeq
    <3>2. \A m : ~Passed(m)'
      BY <3>1 DEF Passed
    <3> QED
      BY <2>3, <3>2 DEF Walked
  <2>4. ASSUME room' = room, known' = known, reader = "page", NEW p, NewPage(p), shown' = shown \o p,
               \/ reader' = "idle"
               \/ reader' = "end" /\ (cut' \/ \A m \in Candidates : Contains(p, m))
        PROVE  Walked'
    <3> SUFFICES ASSUME NEW m \in known, conv[m] = room,
                        Passed(m)' \/ \A n \in Candidates : Contains(p, n)
                 PROVE  Covered(m)'
      BY <2>1, <2>4 DEF Walked
    <3> DEFINE k == Len(shown)
    <3>0. /\ k \in Nat /\ m \in Messages /\ m \in Of(room)
          /\ \A n \in Messages : createdAt[n] \in Nat
          /\ \A i \in 1 .. k : shown[i] \in Messages
          /\ \A i \in 1 .. Len(p) : p[i] \in Messages
      BY <2>4, PagesJoin DEF TypeOK, Sends, Of, Candidates
    <3>1. CASE Covered(m)
      BY <2>1, <2>4, <3>1, PagesJoin DEF Covered
    <3>2. CASE Passed(m)
      BY <2>4, <3>1, <3>2 DEF Walked
    <3>3. CASE m \in Candidates /\ Contains(p, m)
      <4>1. PICK i \in 1 .. Len(p) : p[i] = m
        BY <3>3 DEF Contains
      <4> QED
        BY <2>1, <2>4, <4>1, PagesJoin DEF Covered
    <3>4. CASE m \notin Candidates
      <4>1. shown # <<>> /\ ~(createdAt[m] < createdAt[shown[k]])
        BY <3>0, <3>4 DEF Candidates, BeforeCursor
      <4>2. k \in 1 .. k
        BY <3>0, <4>1, EmptySeq DEF TypeOK
      <4>3. createdAt[shown[k]] = createdAt[m] \/ createdAt[shown[k]] < createdAt[m]
        BY <3>0, <4>1, <4>2
      <4> QED
        BY <3>1, <3>2, <4>2, <4>3 DEF Covered, Passed
    <3>5. CASE m \in Candidates /\ ~Contains(p, m) /\ ~Passed(m)
      <4>1. PICK i \in 1 .. Len(shown') : createdAt[shown'[i]] < createdAt[m]
        BY <2>1, <3>5 DEF Passed
      <4>2. CASE i \in 1 .. k
        <5>1. shown'[i] = shown[i]
          BY <2>4, <4>2, PagesJoin
        <5> QED
          BY <3>5, <4>1, <4>2, <5>1 DEF Passed
      <4>3. CASE i - k \in 1 .. Len(p) /\ shown'[i] = p[i - k]
        <5>1. createdAt[p[i - k]] >= createdAt[m]
          BY <2>4, <3>5, <4>3 DEF NewPage
        <5>2. createdAt[p[i - k]] \in Nat /\ createdAt[m] \in Nat
          BY <3>0, <4>3
        <5> QED
          BY <4>1, <4>3, <5>1, <5>2
      <4> QED
        BY <2>4, <4>2, <4>3, PagesJoin
    <3> QED
      BY <3>2, <3>3, <3>4, <3>5
  <2> QED
    BY <1>2, <2>2, <2>3, <2>4, ShownChanges DEF LeavesShown, StartsOver, ShowsMore
<1> QED
  BY <1>1, <1>2

(* A message stored when the walk began is not passed over: once an older  *)
(* one is shown, or the walk has ended with a short page that was not cut, *)
(* it was shown, or one with its created_at was.                           *)
THEOREM WalkCorrect == Spec => []NothingIsSkipped
<1>1. Init => Walked
  BY DEF Init, Walked
<1>2. TypeOK /\ Walked => NothingIsSkipped
  <2> SUFFICES ASSUME TypeOK, Walked PROVE NothingIsSkipped
    OBVIOUS
  <2>1. DOMAIN shown = 1 .. Len(shown)
    BY LenProperties DEF TypeOK
  <2> QED
    BY <2>1 DEF NothingIsSkipped, Walked, Shown, Passed, Covered
<1> QED
  BY InitTyped, StepTyped, InitHistory, StepSends, StepWalked, <1>1, <1>2, PTL DEF Spec

-----------------------------------------------------------------------------
(* The list: its query returns every conversation, and each turn of the    *)
(* loop settles the one at the head of the queue.                          *)
Waiting(c) == \E i \in 1 .. Len(queue) : queue[i] = c
Fresh ==
  reader = "fill" =>
    \A c \in Convs : Waiting(c) \/ c \in blank \/
      \A m \in known : conv[m] = c => last[c] \in Of(c) /\ createdAt[last[c]] >= createdAt[m]

LEMMA OrderIsComplete ==
  ASSUME NEW q \in Orders
  PROVE  /\ q \in Seq(Convs) /\ Len(q) \in Nat /\ DOMAIN q = 1 .. Len(q)
         /\ \A c \in Convs : \E i \in 1 .. Len(q) : q[i] = c
<1> DEFINE k == Cardinality(Convs)
<1>1. k \in Nat /\ IsFiniteSet(Convs)
  BY FS_CardinalityType, HistoryAssumption
<1>2. q \in [1 .. k -> Convs] /\ \A i, j \in DOMAIN q : i < j => q[i] # q[j]
  BY DEF Orders
<1>3. Cardinality(1 .. k) = k /\ IsFiniteSet(1 .. k)
  <2>1. k \in Int /\ 1 \in Int /\ (IF 1 > k THEN 0 ELSE k - 1 + 1) = k
    BY <1>1
  <2> QED
    BY <2>1, FS_Interval
<1>4. q \in Seq(Convs)
  BY <1>1, <1>2, SeqDef
<1>5. Len(q) \in Nat /\ DOMAIN q = 1 .. Len(q)
  BY <1>4, LenProperties
<1> HIDE DEF k
<1>6. \A i, j \in 1 .. k : q[i] = q[j] => i = j
  <2>1. \A i, j \in 1 .. k : i < j \/ j < i \/ i = j
    BY <1>1
  <2>2. DOMAIN q = 1 .. k
    BY <1>2
  <2> QED
    BY <1>2, <2>1, <2>2
<1>7. q \in Injection(1 .. k, Convs)
  BY <1>2, <1>6, Fun_IsInj
<1>8. q \in Surjection(1 .. k, Convs)
  BY <1>1, <1>3, <1>7, FS_Injection DEF k
<1>9. \A c \in Convs : \E i \in 1 .. k : q[i] = c
  BY <1>8 DEF Surjection
<1>10. 1 .. k = 1 .. Len(q)
  BY <1>2, <1>5
<1> QED
  BY <1>4, <1>5, <1>9, <1>10

(* The newest of the rows.                                                 *)
LEMMA NewestIsFresh ==
  ASSUME NEW S, NEW s \in Query(S, 1), NEW m \in S, \A x \in S : createdAt[x] \in Nat
  PROVE  s # <<>> /\ s[1] \in S /\ createdAt[s[1]] >= createdAt[m]
<1>1. /\ s \in Seq(S) /\ Len(s) \in 0 .. 1 /\ s \in [1 .. Len(s) -> S]
      /\ \/ Contains(s, m)
         \/ Len(s) = 1 /\ \A i \in 1 .. Len(s) : createdAt[s[i]] >= createdAt[m]
  <2>1. /\ s \in Seq(S) /\ Len(s) \in 0 .. 1 /\ s \in [1 .. Len(s) -> S]
        /\ \A x \in S : \/ Contains(s, x)
                        \/ Len(s) = 1 /\ \A i \in 1 .. Len(s) : createdAt[s[i]] >= createdAt[x]
    BY 1 \in Nat, QueryReturns
  <2> QED
    BY <2>1
<1>2. Len(s) = 1
  BY <1>1 DEF Contains
<1>3. s # <<>> /\ s[1] \in S
  <2>1. 1 \in 1 .. 1 /\ s \in [1 .. 1 -> S]
    BY <1>1, <1>2
  <2>2. s # <<>>
    BY <1>2, EmptySeq
  <2> QED
    BY <2>1, <2>2
<1>4. CASE Contains(s, m)
  <2>1. s[1] = m
    BY <1>2, <1>4 DEF Contains
  <2> QED
    BY <1>3, <2>1
<1> QED
  BY <1>1, <1>2, <1>3, <1>4

LEMMA StepFresh == TypeOK /\ Sends /\ Fresh /\ [Next]_vars => Fresh'
<1> SUFFICES ASSUME TypeOK, Sends, Fresh, [Next]_vars, reader' = "fill" PROVE Fresh'
  BY DEF Fresh
<1>1. CASE Writes
  <2>1. UNCHANGED <<reader, queue, last, blank, known>>
    BY <1>1, WritesKeep DEF list
  <2> SUFFICES ASSUME NEW c \in Convs, ~Waiting(c), c \notin blank, NEW m \in known, conv'[m] = c
               PROVE  last[c] \in Of(c)' /\ createdAt'[last[c]] >= createdAt'[m]
    BY <2>1 DEF Fresh, Waiting
  <2>2. conv'[m] = conv[m] /\ createdAt'[m] = createdAt[m]
    BY RowsKept DEF Sends
  <2>3. last[c] \in Of(c) /\ createdAt[last[c]] >= createdAt[m]
    BY <2>1, <2>2 DEF Fresh
  <2>4. last[c] \in Of(c)' /\ createdAt'[last[c]] = createdAt[last[c]]
    BY <2>3, RowsKept DEF Of
  <2> QED
    BY <2>2, <2>3, <2>4
<1>2. CASE ListConversations
  <2>1. PICK q \in Orders :
          \/ queue' = q
          \/ \E n \in 0 .. Len(q) - 1 : queue' = SubSeq(q, 1, n) /\ blank' = {q[i] : i \in n + 1 .. Len(q)}
    BY <1>2 DEF ListConversations
  <2>2. ASSUME NEW c \in Convs PROVE Waiting(c)' \/ c \in blank'
    <3>1. PICK i \in 1 .. Len(q) : q[i] = c
      BY OrderIsComplete
    <3>2. CASE queue' = q
      BY <3>1, <3>2 DEF Waiting
    <3>3. ASSUME NEW n \in 0 .. Len(q) - 1, queue' = SubSeq(q, 1, n), blank' = {q[j] : j \in n + 1 .. Len(q)}
          PROVE  Waiting(c)' \/ c \in blank'
      <4>1. q \in Seq(Convs) /\ Len(q) \in Nat
        BY OrderIsComplete
      <4>2. n \in 0 .. Len(q) /\ (i \in 1 .. n \/ i \in n + 1 .. Len(q))
        BY <4>1
      <4>3. Len(queue') = n /\ \A j \in 1 .. n : queue'[j] = q[j]
        BY <3>3, <4>1, <4>2, Prefix
      <4> QED
        BY <3>1, <3>3, <4>2, <4>3 DEF Waiting
    <3> QED
      BY <2>1, <3>2, <3>3
  <2> QED
    BY <2>2 DEF Fresh
<1>3. CASE LastMessage
  <2> DEFINE h == Head(queue)
             l == Len(queue)
  <2>0. /\ reader = "fill" /\ queue # <<>> /\ queue' = Tail(queue) /\ UNCHANGED <<writers, known>>
        /\ \/ /\ \E s \in Query(Of(h), 1) : last' = [last EXCEPT ![h] = IF s = <<>> THEN None ELSE s[1]]
              /\ blank' = blank
           \/ blank' = blank \cup {h} /\ last' = last
    BY <1>3 DEF LastMessage
  <2> SUFFICES ASSUME NEW c \in Convs, ~Waiting(c)', c \notin blank', NEW m \in known, conv[m] = c
               PROVE  last'[c] \in Of(c) /\ createdAt[last'[c]] >= createdAt[m]
    BY <2>0 DEF Fresh, writers, Of
  <2>1. CASE c = h
    <3>1. PICK s \in Query(Of(h), 1) : last' = [last EXCEPT ![h] = IF s = <<>> THEN None ELSE s[1]]
      BY <2>0, <2>1
    <3>2. m \in Of(h) /\ \A x \in Of(h) : createdAt[x] \in Nat
      BY <2>1 DEF Sends, Of, TypeOK
    <3>3. s # <<>> /\ s[1] \in Of(h) /\ createdAt[s[1]] >= createdAt[m]
      BY <3>2, NewestIsFresh
    <3>4. last'[c] = s[1]
      BY <2>1, <3>1, <3>3 DEF TypeOK
    <3> QED
      BY <2>1, <3>3, <3>4
  <2>2. CASE c # h
    <3>1. ~Waiting(c)
      <4> SUFFICES ASSUME NEW i \in 1 .. l, queue[i] = c PROVE FALSE
        BY DEF Waiting
      <4>1. queue \in Seq(Convs) /\ l \in Nat
        BY LenProperties DEF TypeOK
      <4>2. h = queue[1]
        BY <2>0, <4>1
      <4>3. Len(queue') = l - 1 /\ \A j \in 1 .. Len(queue') : queue'[j] = queue[j + 1]
        BY <2>0, <4>1, HeadTailProperties
      <4> HIDE DEF l, h
      <4>4. i # 1
        BY <2>2, <4>2
      <4>5. i - 1 \in 1 .. l - 1 /\ (i - 1) + 1 = i
        BY <4>1, <4>4
      <4> QED
        BY <4>3, <4>5 DEF Waiting
    <3>2. c \notin blank /\ last'[c] = last[c]
      BY <2>0, <2>2 DEF TypeOK
    <3> QED
      BY <2>0, <3>1, <3>2 DEF Fresh
  <2> QED
    BY <2>1, <2>2
<1>4. CASE UNCHANGED vars
  BY <1>4 DEF vars, writers, list, Fresh, Waiting, Of
<1>5. CASE GetMessages
  <2>1. reader' \in {"end", "idle"}
    BY <1>5 DEF GetMessages
  <2> QED
    BY <2>1
<1>6. CASE PageFails
  <2>1. reader' \in {"end", "idle"}
    BY <1>6 DEF PageFails
  <2> QED
    BY <2>1
<1>7. ~(BeginList \/ EndList) /\ \A l \in Limits : ~NextPage(l) /\ \A c \in Convs : ~FirstPage(c, l)
  BY DEF BeginList, EndList, NextPage, FirstPage
<1> QED
  BY <1>1, <1>2, <1>3, <1>4, <1>5, <1>6, <1>7 DEF Next, Writes

(* The list shows of each conversation a message at least as new as every  *)
(* one that was stored when the list was asked for, although its lines are *)
(* of different times, unless that conversation was cut off or its         *)
(* statement failed.                                                       *)
THEOREM ListCorrect == Spec => []ListIsFresh
<1>1. Init => Fresh
  BY DEF Init, Fresh
<1>2. TypeOK /\ Fresh => ListIsFresh
  <2> SUFFICES ASSUME TypeOK, Fresh PROVE ListIsFresh
    OBVIOUS
  <2>1. DOMAIN queue = 1 .. Len(queue)
    BY LenProperties DEF TypeOK
  <2> QED
    BY <2>1 DEF ListIsFresh, Fresh, Waiting
<1> QED
  BY InitTyped, StepTyped, InitHistory, StepSends, StepFresh, <1>1, <1>2, PTL DEF Spec

-----------------------------------------------------------------------------
(* What precedes a send is over and no newer; an UPDATE is no older than   *)
(* the row it follows.                                                     *)
Timely ==
  /\ \A n \in Messages : \A m \in preceding[n] :
       pc[n] # "idle" /\ pc[m] \in {"sent", "failed"} /\ createdAt[m] <= createdAt[n]
  /\ \A n \in Messages : pc[n] = "touching" => touch[n] >= createdAt[n]

LEMMA Moves ==
  ASSUME TypeOK, Writes
  PROVE  \E n \in Messages :
           /\ \A m \in Messages \ {n} : pc'[m] = pc[m] /\ touch'[m] = touch[m]
                /\ createdAt'[m] = createdAt[m] /\ preceding'[m] = preceding[m] /\ conv'[m] = conv[m]
           /\ \/ /\ pc[n] = "idle" /\ pc'[n] = "inserting" /\ createdAt'[n] >= now
                 /\ preceding'[n] = {m \in Messages : pc[m] \in {"sent", "failed"}}
                 /\ updatedAt' = updatedAt
              \/ pc[n] = "inserting" /\ pc'[n] = "stored" /\ updatedAt' = updatedAt
              \/ pc[n] = "stored" /\ pc'[n] = "touching" /\ touch'[n] = now /\ updatedAt' = updatedAt
              \/ /\ pc[n] = "touching" /\ pc'[n] = "sent"
                 /\ updatedAt' = [updatedAt EXCEPT ![conv[n]] = touch[n]]
              \/ pc[n] \in {"inserting", "stored", "touching"} /\ pc'[n] = "failed" /\ updatedAt' = updatedAt
<1> USE DEF TypeOK, Goto, Over
<1>1. ASSUME NEW n \in Messages, NEW c \in Convs, NEW t \in {now, now + 1}, BeginInsert(n, c, t)
      PROVE  /\ \A m \in Messages \ {n} : pc'[m] = pc[m] /\ touch'[m] = touch[m]
                  /\ createdAt'[m] = createdAt[m] /\ preceding'[m] = preceding[m] /\ conv'[m] = conv[m]
             /\ pc[n] = "idle" /\ pc'[n] = "inserting" /\ createdAt'[n] >= now
             /\ preceding'[n] = {m \in Messages : pc[m] \in {"sent", "failed"}}
             /\ updatedAt' = updatedAt
  BY <1>1 DEF BeginInsert
<1>2. ASSUME NEW n \in Messages, CommitInsert(n) \/ BeginTouch(n) \/ CommitTouch(n) \/ SendFails(n)
      PROVE  /\ \A m \in Messages \ {n} : pc'[m] = pc[m] /\ touch'[m] = touch[m]
             /\ UNCHANGED <<createdAt, preceding, conv>>
             /\ \/ pc[n] = "inserting" /\ pc'[n] = "stored" /\ updatedAt' = updatedAt
                \/ pc[n] = "stored" /\ pc'[n] = "touching" /\ touch'[n] = now /\ updatedAt' = updatedAt
                \/ /\ pc[n] = "touching" /\ pc'[n] = "sent"
                   /\ updatedAt' = [updatedAt EXCEPT ![conv[n]] = touch[n]]
                \/ pc[n] \in {"inserting", "stored", "touching"} /\ pc'[n] = "failed" /\ updatedAt' = updatedAt
  BY <1>2 DEF CommitInsert, BeginTouch, CommitTouch, TimeOfTouch, SendFails
<1> HIDE DEF TypeOK
<1> QED
  BY <1>1, <1>2 DEF Writes

LEMMA StepTimely == TypeOK /\ Timely /\ [Next]_vars => Timely'
<1> SUFFICES ASSUME TypeOK, Timely, [Next]_vars PROVE Timely'
  OBVIOUS
<1>1. CASE ~Writes
  BY <1>1, ReadsWriteNothing DEF writers, Timely
<1>2. CASE Writes
  <2>0. /\ \A m \in Messages : createdAt[m] \in Nat /\ createdAt[m] <= now /\ preceding[m] \subseteq Messages
        /\ now \in Nat
    BY DEF TypeOK
  <2>1. \A m \in Messages : pc[m] # "idle" => Kept(m)
    BY <1>2, WritesKeep
  <2>2. ASSUME NEW n \in Messages, NEW m \in preceding'[n]
        PROVE  pc'[n] # "idle" /\ pc'[m] \in {"sent", "failed"} /\ createdAt'[m] <= createdAt'[n]
    <3>0. m \in Messages /\ createdAt'[m] \in Nat /\ createdAt'[n] \in Nat
      BY <2>2, StepTyped DEF TypeOK
    <3>1. \A x \in Messages : pc[x] \in {"sent", "failed"} => pc'[x] = pc[x]
      BY <1>2, Moves
    <3>2. CASE m \in preceding[n]
      BY <2>1, <3>0, <3>1, <3>2 DEF Timely, Kept
    <3>3. CASE m \notin preceding[n]
      <4>1. pc'[n] # "idle" /\ createdAt'[n] >= now /\ pc[m] \in {"sent", "failed"}
        <5>1. pc[n] = "idle"
          BY <2>1, <2>2, <3>3 DEF Kept
        <5> QED
          BY <1>2, <2>2, <3>3, <5>1, Moves
      <4>2. createdAt'[m] = createdAt[m]
        BY <2>1, <3>0, <4>1 DEF Kept
      <4> QED
        BY <2>0, <3>0, <3>1, <4>1, <4>2
    <3> QED
      BY <3>2, <3>3
  <2>3. ASSUME NEW n \in Messages, pc'[n] = "touching" PROVE touch'[n] >= createdAt'[n]
    <3>1. CASE pc[n] = "touching"
      BY <1>2, <2>1, <2>3, <3>1, Moves DEF Timely, Kept
    <3>2. CASE pc[n] # "touching"
      <4>1. touch'[n] = now /\ pc[n] = "stored"
        BY <1>2, <2>3, <3>2, Moves
      <4> QED
        BY <2>0, <2>1, <4>1 DEF Kept
    <3> QED
      BY <3>1, <3>2
  <2> QED
    BY <2>2, <2>3 DEF Timely
<1> QED
  BY <1>1, <1>2

Overlaps(m, n) ==
  n # m /\ pc[n] # "idle" /\ conv[n] = conv[m] /\ n \notin preceding[m] /\ m \notin preceding[n]

LEMMA StepRecent == TypeOK /\ Timely /\ UpdatedAtIsRecent /\ [Next]_vars => UpdatedAtIsRecent'
<1> SUFFICES ASSUME TypeOK, Timely, UpdatedAtIsRecent, [Next]_vars PROVE UpdatedAtIsRecent'
  OBVIOUS
<1>1. CASE ~Writes
  BY <1>1, ReadsWriteNothing DEF writers, UpdatedAtIsRecent
<1>2. CASE Writes
  <2> SUFFICES ASSUME NEW m \in Messages, pc'[m] = "sent"
               PROVE  updatedAt'[conv'[m]] >= createdAt'[m] \/ \E n \in Messages : Overlaps(m, n)'
    BY DEF UpdatedAtIsRecent, Overlaps
  <2>0. /\ \A x \in Messages : createdAt[x] \in Nat /\ touch[x] \in Nat /\ conv[x] \in Convs
        /\ updatedAt \in [Convs -> 0 .. now]
    BY DEF TypeOK
  <2>1. \A x \in Messages : pc[x] # "idle" => Kept(x)
    BY <1>2, WritesKeep
  <2>2. pc[m] # "idle" /\ conv'[m] = conv[m] /\ createdAt'[m] = createdAt[m] /\ preceding'[m] = preceding[m]
    <3>1. pc[m] # "idle"
      BY <1>2, Moves
    <3> QED
      BY <2>1, <3>1 DEF Kept
  <2>3. CASE pc[m] # "sent"
    <3>1. pc[m] = "touching" /\ updatedAt' = [updatedAt EXCEPT ![conv[m]] = touch[m]]
      BY <1>2, <2>3, Moves
    <3>2. touch[m] >= createdAt[m] /\ updatedAt'[conv[m]] = touch[m]
      BY <2>0, <3>1 DEF Timely
    <3> QED
      BY <2>2, <3>2
  <2>4. CASE pc[m] = "sent"
    <3>1. ASSUME NEW n \in Messages, n # m, pc[n] # "idle", conv[n] = conv[m], n \notin preceding[m], m \notin preceding[n]
          PROVE  Overlaps(m, n)'
      BY <2>1, <2>2, <3>1 DEF Kept, Overlaps
    <3>2. CASE \E n \in Messages : Overlaps(m, n)
      BY <3>1, <3>2 DEF Overlaps
    <3>3. CASE updatedAt[conv[m]] >= createdAt[m] /\ updatedAt'[conv[m]] # updatedAt[conv[m]]
      <4>1. PICK n \in Messages : pc[n] = "touching" /\ updatedAt' = [updatedAt EXCEPT ![conv[n]] = touch[n]]
        BY <1>2, <3>3, Moves
      <4>2. conv[n] = conv[m] /\ updatedAt'[conv[m]] = touch[n] /\ n # m
        BY <2>0, <2>4, <3>3, <4>1
      <4>3. n \notin preceding[m]
        BY <4>1 DEF Timely
      <4>4. CASE touch[n] >= createdAt[m]
        BY <2>2, <4>2, <4>4
      <4>5. CASE ~(touch[n] >= createdAt[m])
        <5>1. touch[n] >= createdAt[n]
          BY <4>1 DEF Timely
        <5>2. ~(createdAt[m] <= createdAt[n])
          BY <2>0, <4>5, <5>1
        <5>3. m \notin preceding[n]
          BY <5>2 DEF Timely
        <5> QED
          BY <3>1, <4>1, <4>2, <4>3, <5>3
      <4> QED
        BY <4>4, <4>5
    <3>4. updatedAt[conv[m]] >= createdAt[m] \/ \E n \in Messages : Overlaps(m, n)
      BY <2>4 DEF UpdatedAtIsRecent, Overlaps
    <3> QED
      BY <2>2, <3>2, <3>3, <3>4
  <2> QED
    BY <2>3, <2>4
<1> QED
  BY <1>1, <1>2

(* After a successful send its conversation is listed by a time no older   *)
(* than the message, unless a send to it overlapped this one.              *)
THEOREM RecencyCorrect == Spec => []UpdatedAtIsRecent
<1>1. Init => Timely /\ UpdatedAtIsRecent
  BY DEF Init, Timely, UpdatedAtIsRecent
<1> QED
  BY InitTyped, StepTyped, StepTimely, StepRecent, <1>1, PTL DEF Spec
=============================================================================
