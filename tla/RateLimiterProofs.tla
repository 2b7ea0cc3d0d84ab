------------------------- MODULE RateLimiterProofs -------------------------
(* Proofs about RateLimiter, for any keys, burst, cost, period, idle time  *)
(* and length of a behaviour.                                              *)
EXTENDS RateLimiter, Integers, TLAPS

(* What a bucket holds, brought up to date, is between zero and the burst. *)
LEMMA LevelType ==
  ASSUME TypeOK, NEW k \in Keys
  PROVE  Level(k) \in 0 .. Cap
<1>1. tokens[k] \in 0 .. Cap /\ lastRefill[k] \in Nat /\ now \in Nat
      /\ lastRefill[k] <= now /\ Cap \in Nat
  BY RateLimiterAssumption DEF TypeOK
<1>2. Elapsed(k) \in Nat
  BY <1>1 DEF Elapsed
<1>3. Capped(tokens[k] + Elapsed(k)) \in 0 .. Cap
  BY <1>1, <1>2 DEF Capped
<1> QED
  BY <1>1, <1>3 DEF Level

(* Every step keeps the types, and no bucket exceeds the burst.            *)
THEOREM TypeCorrect == Spec => []TypeOK
<1> USE RateLimiterAssumption
<1>1. Init => TypeOK
  <2> SUFFICES ASSUME Init PROVE TypeOK
    OBVIOUS
  <2> USE DEF Init
  <2>1. now \in 0 .. MaxTime /\ \A k \in Keys : lastRefill[k] <= now
    OBVIOUS
  <2>2. tokens \in [Keys -> 0 .. Cap] /\ lastRefill \in [Keys -> 0 .. MaxTime]
    OBVIOUS
  <2>3. admitted \in [Keys -> Seq(0 .. MaxTime)]
    OBVIOUS
  <2> QED
    BY <2>1, <2>2, <2>3 DEF TypeOK
<1>2. TypeOK /\ [Next]_vars => TypeOK'
  <2> SUFFICES ASSUME TypeOK, [Next]_vars PROVE TypeOK'
    OBVIOUS
  <2> USE DEF TypeOK
  <2>1. CASE Tick
    BY <2>1 DEF Tick
  <2>2. ASSUME NEW k \in Keys, Allow(k) PROVE TypeOK'
    <3>1. Level(k) \in 0 .. Cap
      BY LevelType
    <3>2. now' = now /\ due' = due /\ cleaner' = cleaner /\ buckets' \in SUBSET Keys
      BY <2>2 DEF Allow
    <3>3. tokens' \in [Keys -> 0 .. Cap] /\ answer' \in {None} \cup (Keys \X BOOLEAN)
      <4>1. Level(k) >= Cost => Level(k) - Cost \in 0 .. Cap
        BY <3>1
      <4>2. tokens'[k] \in 0 .. Cap /\ tokens' = [tokens EXCEPT ![k] = tokens'[k]]
        BY <2>2, <3>1, <4>1 DEF Allow
      <4>3. answer' \in {<<k, TRUE>>, <<k, FALSE>>}
        BY <2>2 DEF Allow
      <4>4. tokens' \in [Keys -> 0 .. Cap]
        <5> HIDE DEF TypeOK
        <5>1. tokens \in [Keys -> 0 .. Cap]
          BY DEF TypeOK
        <5> QED
          BY <4>2, <5>1
      <4>5. answer' \in {None} \cup (Keys \X BOOLEAN)
        <5> HIDE DEF TypeOK
        <5>1. <<k, TRUE>> \in Keys \X BOOLEAN /\ <<k, FALSE>> \in Keys \X BOOLEAN
          OBVIOUS
        <5> QED
          BY <4>3, <5>1
      <4> QED
        BY <4>4, <4>5
    <3>4. lastRefill' \in [Keys -> 0 .. MaxTime] /\ \A x \in Keys : lastRefill'[x] <= now'
      BY <2>2, <3>2 DEF Allow
    <3>5. admitted' \in [Keys -> Seq(0 .. MaxTime)]
      <4>1. Append(admitted[k], now) \in Seq(0 .. MaxTime)
        OBVIOUS
      <4> QED
        BY <2>2, <4>1 DEF Allow
    <3> QED
      BY <3>2, <3>3, <3>4, <3>5
  <2>3. CASE ReceiveTick
    BY <2>3 DEF ReceiveTick
  <2>4. CASE Sweep
    BY <2>4 DEF Sweep
  <2>5. CASE UNCHANGED vars
    BY <2>5 DEF vars
  <2> QED
    BY <2>1, <2>2, <2>3, <2>4, <2>5 DEF Next
<1> QED
  BY <1>1, <1>2, PTL DEF Spec
-----------------------------------------------------------------------------
(* The units Allow finds are what the promised bucket holds: each tick adds *)
(* one up to the burst.                                                    *)
LEMMA LevelRegains ==
  ASSUME TypeOK, Tick, NEW k \in Keys
  PROVE  Level(k)' = IF Level(k) < Cap THEN Level(k) + 1 ELSE Cap
<1>1. /\ tokens[k] \in 0 .. Cap /\ lastRefill[k] \in Nat /\ now \in Nat
      /\ lastRefill[k] <= now /\ Cap \in Nat
  BY RateLimiterAssumption DEF TypeOK
<1>2. now' = now + 1 /\ UNCHANGED <<buckets, tokens, lastRefill>>
  BY DEF Tick
<1>3. Elapsed(k) \in Nat /\ Elapsed(k)' = Elapsed(k) + 1
  BY <1>1, <1>2 DEF Elapsed
<1>4. CASE k \in buckets
  <2>1. Level(k) = Capped(tokens[k] + Elapsed(k))
        /\ Level(k)' = Capped(tokens[k] + Elapsed(k) + 1)
    BY <1>1, <1>2, <1>3, <1>4 DEF Level, Capped
  <2> QED
    BY <1>1, <1>3, <2>1 DEF Capped
<1>5. CASE k \notin buckets
  BY <1>1, <1>2, <1>5 DEF Level
<1> QED
  BY <1>4, <1>5

(* A sweep changes no level: it takes only buckets that are full again.    *)
LEMMA SweepIsInvisible ==
  ASSUME TypeOK, Sweep, NEW k \in Keys
  PROVE  Level(k)' = Level(k)
<1> USE RateLimiterAssumption DEF TypeOK, Sweep
<1>1. CASE k \in buckets /\ IsIdle(k)
  <2>1. Level(k) = Cap
    BY <1>1 DEF Level, Capped, Elapsed, IsIdle
  <2>2. k \notin buckets'
    BY <1>1
  <2> QED
    BY <2>1, <2>2 DEF Level
<1>2. CASE ~(k \in buckets /\ IsIdle(k))
  <2>1. (k \in buckets') = (k \in buckets)
    BY <1>2
  <2> QED
    BY <2>1 DEF Level, Capped, Elapsed
<1> QED
  BY <1>1, <1>2

(* A call of Allow takes its cost from the level of its key, if it can, and *)
(* leaves the other keys alone.                                            *)
LEMMA AllowPays ==
  ASSUME TypeOK, NEW k \in Keys, Allow(k), NEW x \in Keys
  PROVE  Level(x)' = IF x = k /\ Level(k) >= Cost THEN Level(k) - Cost ELSE Level(x)
<1> USE RateLimiterAssumption DEF TypeOK
<1>1. Level(k) \in 0 .. Cap
  BY LevelType
<1>2. CASE x = k
  <2>1. k \in buckets' /\ lastRefill'[k] = now /\ now' = now
    BY DEF Allow
  <2>2. tokens'[k] = IF Level(k) >= Cost THEN Level(k) - Cost ELSE Level(k)
    BY DEF Allow
  <2>3. Level(k)' = tokens'[k]
    BY <2>1, <2>2, <1>1 DEF Level, Capped, Elapsed
  <2> QED
    BY <1>2, <2>2, <2>3
<1>3. CASE x # k
  <2>1. (x \in buckets') = (x \in buckets)
    BY <1>3 DEF Allow
  <2>2. tokens'[x] = tokens[x] /\ lastRefill'[x] = lastRefill[x] /\ now' = now
    BY <1>3 DEF Allow
  <2> QED
    BY <1>3, <2>1, <2>2 DEF Level, Capped, Elapsed
<1> QED
  BY <1>2, <1>3

(* The limiter with its map, its lazy refills and its cleanup implements   *)
(* one everlasting bucket per key.                                         *)
THEOREM Refinement == Spec => ImplementsTokenBucket
<1>1. Init => B!Init
  BY DEF Init, B!Init, Level
<1>2. TypeOK /\ [Next]_vars => [B!Next]_(B!vars)
  <2> SUFFICES ASSUME TypeOK, [Next]_vars PROVE [B!Next]_(B!vars)
    OBVIOUS
  <2>1. CASE Tick
    <3>1. \A k \in Keys : Level(k)' = IF Level(k) < Cap THEN Level(k) + 1 ELSE Cap
      BY <2>1, LevelRegains
    <3>2. answer' = None
      BY <2>1 DEF Tick
    <3>3. B!Tick
      BY <3>1, <3>2 DEF B!Tick
    <3> QED
      BY <3>3 DEF B!Next
  <2>2. ASSUME NEW k \in Keys, Allow(k) PROVE [B!Next]_(B!vars)
    <3>1. \A x \in Keys :
            Level(x)' = IF x = k /\ Level(k) >= Cost THEN Level(k) - Cost ELSE Level(x)
      BY <2>2, AllowPays
    <3>2. Level(k) \in Int /\ Cost \in Int
      BY RateLimiterAssumption, LevelType
    <3>3. CASE Level(k) >= Cost
      <4>1. answer' = <<k, TRUE>>
        BY <2>2, <3>3 DEF Allow
      <4>2. B!Admit(k)
        BY <3>1, <3>3, <4>1 DEF B!Admit
      <4> QED
        BY <4>2 DEF B!Next
    <3>4. CASE ~(Level(k) >= Cost)
      <4>1. answer' = <<k, FALSE>>
        BY <2>2, <3>4 DEF Allow
      <4>2. Level(k) < Cost
        BY <3>2, <3>4
      <4>3. B!Refuse(k)
        BY <3>1, <3>4, <4>1, <4>2 DEF B!Refuse
      <4> QED
        BY <4>3 DEF B!Next
    <3> QED
      BY <3>3, <3>4
  <2>3. CASE ReceiveTick
    BY <2>3 DEF ReceiveTick, B!vars, Level, Capped, Elapsed
  <2>4. CASE Sweep
    <3>1. \A k \in Keys : Level(k)' = Level(k)
      BY <2>4, SweepIsInvisible
    <3> QED
      BY <2>4, <3>1 DEF Sweep, B!vars
  <2>5. CASE UNCHANGED vars
    BY <2>5 DEF vars, B!vars, Level, Capped, Elapsed
  <2> QED
    BY <2>1, <2>2, <2>3, <2>4, <2>5 DEF Next
<1> QED
  BY <1>1, <1>2, TypeCorrect, PTL DEF Spec, B!Spec, ImplementsTokenBucket
-----------------------------------------------------------------------------
(* Why the window bound holds: what a key was admitted since any earlier   *)
(* admission, with what its bucket holds now, was paid for by the burst    *)
(* and the time since.                                                     *)
Funded ==
  \A k \in Keys : \A i \in DOMAIN admitted[k] :
    /\ admitted[k][i] <= now
    /\ (Len(admitted[k]) - i + 1) * Cost + Level(k) <= Cap + (now - admitted[k][i])

LEMMA OneMore ==
  ASSUME NEW n \in Nat PROVE (n + 1) * Cost = n * Cost + Cost /\ n * Cost \in Nat
BY RateLimiterAssumption

(* What an admission does to the history of its key.                       *)
LEMMA AdmittedGrows ==
  ASSUME TypeOK, NEW k \in Keys, Allow(k), NEW x \in Keys
  PROVE  \/ admitted'[x] = admitted[x]
         \/ x = k /\ Level(k) >= Cost /\ admitted'[x] = Append(admitted[x], now)
BY DEF TypeOK, Allow

LEMMA FundedStep ==
  ASSUME TypeOK, Funded, [Next]_vars
  PROVE  Funded'
<1> USE RateLimiterAssumption
<1>1. now \in Nat /\ Cap \in Nat /\ Cost \in Nat
  BY DEF TypeOK
<1>2. ASSUME NEW k \in Keys, NEW i \in DOMAIN admitted[k]
      PROVE  /\ i \in Nat /\ i >= 1 /\ Len(admitted[k]) - i \in Nat /\ admitted[k][i] \in Nat
             /\ (Len(admitted[k]) - i + 1) * Cost \in Nat
  <2>1. admitted[k] \in Seq(0 .. MaxTime)
    BY DEF TypeOK
  <2>2. Len(admitted[k]) \in Nat /\ i \in 1 .. Len(admitted[k])
    BY <2>1
  <2>3. admitted[k][i] \in 0 .. MaxTime
    BY <2>1
  <2>4. Len(admitted[k]) - i \in Nat /\ Len(admitted[k]) - i + 1 \in Nat
    BY <2>2
  <2>5. (Len(admitted[k]) - i + 1) * Cost \in Nat
    BY <2>4, OneMore
  <2>6. i \in Nat /\ i >= 1 /\ admitted[k][i] \in Nat
    BY <2>2, <2>3
  <2> QED
    BY <2>4, <2>5, <2>6
<1>3. CASE Tick
  <2> SUFFICES ASSUME NEW k \in Keys, NEW i \in DOMAIN admitted'[k]
               PROVE  /\ admitted'[k][i] <= now'
                      /\ (Len(admitted'[k]) - i + 1) * Cost + Level(k)'
                           <= Cap + (now' - admitted'[k][i])
    BY DEF Funded
  <2>1. admitted' = admitted /\ now' = now + 1
    BY <1>3 DEF Tick
  <2>2. Level(k)' <= Level(k) + 1 /\ Level(k) \in Nat /\ Level(k)' \in Nat
    <3>1. Level(k) \in 0 .. Cap
      BY LevelType
    <3>2. Level(k)' = IF Level(k) < Cap THEN Level(k) + 1 ELSE Cap
      BY <1>3, LevelRegains
    <3> QED
      BY <3>1, <3>2, <1>1
  <2>3. admitted[k][i] <= now
        /\ (Len(admitted[k]) - i + 1) * Cost + Level(k) <= Cap + (now - admitted[k][i])
    BY <2>1 DEF Funded
  <2> DEFINE spent == (Len(admitted[k]) - i + 1) * Cost
  <2>4. spent \in Nat /\ admitted[k][i] \in Nat
    BY <1>2, <2>1
  <2> HIDE DEF spent
  <2>5. spent + Level(k) <= Cap + (now - admitted[k][i])
    BY <2>3 DEF spent
  <2>6. spent + Level(k)' <= Cap + (now + 1 - admitted[k][i])
    BY <1>1, <2>2, <2>4, <2>5
  <2> QED
    BY <1>1, <2>1, <2>3, <2>4, <2>6 DEF spent
<1>4. ASSUME NEW a \in Keys, Allow(a) PROVE Funded'
  <2> SUFFICES ASSUME NEW k \in Keys, NEW i \in DOMAIN admitted'[k]
               PROVE  /\ admitted'[k][i] <= now'
                      /\ (Len(admitted'[k]) - i + 1) * Cost + Level(k)'
                           <= Cap + (now' - admitted'[k][i])
    BY DEF Funded
  <2>1. now' = now
    BY <1>4 DEF Allow
  <2>2. Level(k) \in 0 .. Cap
    BY LevelType
  <2>3. Level(k)' = IF k = a /\ Level(a) >= Cost THEN Level(a) - Cost ELSE Level(k)
    BY <1>4, AllowPays
  <2>4. Level(k)' <= Level(k) /\ Level(k)' \in Int
    BY <1>1, <2>2, <2>3
  <2>5. CASE admitted'[k] = admitted[k]
    <3>1. admitted[k][i] <= now
          /\ (Len(admitted[k]) - i + 1) * Cost + Level(k) <= Cap + (now - admitted[k][i])
      BY <2>5 DEF Funded
    <3> DEFINE spent == (Len(admitted[k]) - i + 1) * Cost
    <3>2. spent \in Nat /\ admitted[k][i] \in Nat
      BY <1>2, <2>5
    <3> HIDE DEF spent
    <3>3. spent + Level(k) <= Cap + (now - admitted[k][i])
      BY <3>1 DEF spent
    <3>4. spent + Level(k)' <= Cap + (now - admitted[k][i])
      BY <1>1, <2>2, <2>4, <3>2, <3>3
    <3> QED
      BY <2>1, <2>5, <3>1, <3>4 DEF spent
  <2>6. CASE k = a /\ Level(a) >= Cost /\ admitted'[k] = Append(admitted[k], now)
    <3>1. admitted[k] \in Seq(0 .. MaxTime)
      BY DEF TypeOK
    <3>2. /\ Len(admitted'[k]) = Len(admitted[k]) + 1 /\ Len(admitted[k]) \in Nat
          /\ i \in 1 .. Len(admitted[k]) + 1
          /\ i <= Len(admitted[k]) => admitted'[k][i] = admitted[k][i] /\ i \in DOMAIN admitted[k]
          /\ i = Len(admitted[k]) + 1 => admitted'[k][i] = now
      BY <2>6, <3>1
    <3>3. Level(k)' = Level(k) - Cost
      BY <2>3, <2>6
    <3>4. CASE i <= Len(admitted[k])
      <4>1. admitted[k][i] <= now
            /\ (Len(admitted[k]) - i + 1) * Cost + Level(k) <= Cap + (now - admitted[k][i])
        BY <3>2, <3>4 DEF Funded
      <4> DEFINE spent == (Len(admitted[k]) - i + 1) * Cost
      <4>2. spent \in Nat /\ admitted[k][i] \in Nat
        BY <1>2, <3>2, <3>4
      <4>3. (Len(admitted'[k]) - i + 1) * Cost = spent + Cost
        <5> HIDE DEF spent
        <5>1. Len(admitted[k]) - i + 1 \in Nat
              /\ Len(admitted'[k]) - i + 1 = (Len(admitted[k]) - i + 1) + 1
          <6> DEFINE n == Len(admitted[k])
                     m == Len(admitted'[k])
          <6>1. n \in Nat /\ m = n + 1 /\ i \in 1 .. n
            BY <3>2, <3>4
          <6> HIDE DEF n, m
          <6>2. n - i + 1 \in Nat /\ m - i + 1 = (n - i + 1) + 1
            BY <6>1
          <6> QED
            BY <6>2 DEF n, m
        <5> QED
          BY <5>1, OneMore DEF spent
      <4> HIDE DEF spent
      <4>4. spent + Level(k) <= Cap + (now - admitted[k][i])
        BY <4>1 DEF spent
      <4>5. (spent + Cost) + (Level(k) - Cost) <= Cap + (now - admitted[k][i])
        BY <1>1, <2>2, <4>2, <4>4
      <4> QED
        BY <2>1, <3>2, <3>3, <3>4, <4>1, <4>3, <4>5
    <3>5. CASE i = Len(admitted[k]) + 1
      <4>1. Len(admitted'[k]) - i + 1 = 0 + 1 /\ admitted'[k][i] = now
        BY <3>2, <3>5
      <4>2. (Len(admitted'[k]) - i + 1) * Cost = Cost
        BY <1>1, <4>1
      <4>3. Cost + (Level(k) - Cost) <= Cap + (now - now)
        BY <1>1, <2>2
      <4>4. admitted'[k][i] = now' /\ admitted'[k][i] <= now'
        BY <1>1, <2>1, <4>1
      <4>5. (Len(admitted'[k]) - i + 1) * Cost + Level(k)' <= Cap + (now' - admitted'[k][i])
        <5> DEFINE spent == (Len(admitted'[k]) - i + 1) * Cost
        <5>1. spent = Cost
          BY <4>2
        <5> HIDE DEF spent
        <5>2. spent + Level(k)' <= Cap + (now' - now')
          BY <2>1, <3>3, <4>3, <5>1
        <5> QED
          BY <4>4, <5>2 DEF spent
      <4> QED
        BY <4>4, <4>5
    <3> QED
      BY <3>2, <3>4, <3>5
  <2> QED
    BY <1>4, <2>5, <2>6, AdmittedGrows
<1>5. CASE ReceiveTick
  BY <1>5 DEF ReceiveTick, Funded, Level, Capped, Elapsed
<1>6. CASE Sweep
  <2>1. \A k \in Keys : Level(k)' = Level(k)
    BY <1>6, SweepIsInvisible
  <2>2. admitted' = admitted /\ now' = now
    BY <1>6 DEF Sweep
  <2> QED
    BY <2>1, <2>2 DEF Funded
<1>7. CASE UNCHANGED vars
  BY <1>7 DEF vars, Funded, Level, Capped, Elapsed
<1> QED
  BY <1>3, <1>4, <1>5, <1>6, <1>7 DEF Next

(* The bound of a window ends at its last admission: it is kept for the    *)
(* windows that have ended, and Funded gives it for those that end now.    *)
LEMMA WindowStep ==
  ASSUME TypeOK, Funded', TypeOK', WindowBound, [Next]_vars
  PROVE  WindowBound'
<1> USE RateLimiterAssumption
<1>0. Cap \in Nat /\ Cost \in Nat
  OBVIOUS
<1>1. CASE admitted' = admitted
  BY <1>1 DEF WindowBound
<1>2. ASSUME NEW a \in Keys, Allow(a) PROVE WindowBound'
  <2> SUFFICES ASSUME NEW k \in Keys, NEW i \in DOMAIN admitted'[k],
                      NEW j \in DOMAIN admitted'[k], i <= j
               PROVE  (j - i + 1) * Cost <= Cap + (admitted'[k][j] - admitted'[k][i])
    BY DEF WindowBound
  <2>1. CASE admitted'[k] = admitted[k]
    BY <2>1 DEF WindowBound
  <2>2. CASE admitted'[k] = Append(admitted[k], now)
    <3>1. admitted[k] \in Seq(0 .. MaxTime)
      BY DEF TypeOK
    <3>2. /\ Len(admitted'[k]) = Len(admitted[k]) + 1 /\ Len(admitted[k]) \in Nat
          /\ i \in 1 .. Len(admitted[k]) + 1 /\ j \in 1 .. Len(admitted[k]) + 1
          /\ \A n \in 1 .. Len(admitted[k]) :
               admitted'[k][n] = admitted[k][n] /\ n \in DOMAIN admitted[k]
          /\ admitted'[k][Len(admitted[k]) + 1] = now
      BY <2>2, <3>1
    <3>3. CASE j <= Len(admitted[k])
      <4>1. i \in 1 .. Len(admitted[k]) /\ j \in 1 .. Len(admitted[k])
        BY <3>2, <3>3
      <4> QED
        BY <3>2, <4>1 DEF WindowBound
    <3>4. CASE j = Len(admitted[k]) + 1
      <4>1. /\ admitted'[k][i] <= now'
            /\ (Len(admitted'[k]) - i + 1) * Cost + Level(k)' <= Cap + (now' - admitted'[k][i])
        BY DEF Funded
      <4>2. now' = now /\ now \in Nat /\ admitted'[k][j] = now /\ Len(admitted'[k]) = j
        BY <1>2, <3>2, <3>4 DEF Allow, TypeOK
      <4>3. Level(k)' \in Nat
        <5>1. Level(k) \in 0 .. Cap
          BY LevelType
        <5>2. Level(k)' = IF k = a /\ Level(a) >= Cost THEN Level(a) - Cost ELSE Level(k)
          BY <1>2, AllowPays
        <5> QED
          BY <5>1, <5>2
      <4>4. admitted'[k][i] \in Nat
        <5>1. admitted'[k] \in Seq(0 .. MaxTime)
          BY DEF TypeOK
        <5>2. admitted'[k][i] \in 0 .. MaxTime
          BY <5>1
        <5> QED
          BY <5>2
      <4>5. (j - i + 1) * Cost \in Nat
        <5>1. j - i + 1 \in Nat
          BY <3>2
        <5> QED
          BY <5>1, OneMore
      <4> DEFINE spent == (j - i + 1) * Cost
      <4> HIDE DEF spent
      <4>6. spent \in Nat /\ spent + Level(k)' <= Cap + (now - admitted'[k][i])
        BY <4>1, <4>2, <4>5 DEF spent
      <4>7. spent <= Cap + (now - admitted'[k][i])
        BY <1>0, <4>2, <4>3, <4>4, <4>6
      <4>8. spent <= Cap + (admitted'[k][j] - admitted'[k][i])
        BY <4>2, <4>7
      <4> QED
        BY <4>8 DEF spent
    <3>5. j <= Len(admitted[k]) \/ j = Len(admitted[k]) + 1
      <4>1. Len(admitted[k]) \in Nat /\ j \in 1 .. Len(admitted[k]) + 1
        BY <3>2
      <4> QED
        BY <4>1
    <3> QED
      BY <3>3, <3>4, <3>5
  <2> QED
    BY <1>2, <2>1, <2>2, AdmittedGrows
<1> QED
  BY <1>1, <1>2 DEF Next, Tick, ReceiveTick, Sweep, vars

(* However a key spaces its requests, and whenever its bucket is deleted,  *)
(* no stretch of time admits more than the burst and the refill pay for.   *)
THEOREM WindowCorrect == Spec => []WindowBound
<1>1. Init => Funded /\ WindowBound
  BY DEF Init, Funded, WindowBound
<1>2. TypeOK /\ TypeOK' /\ Funded /\ WindowBound /\ [Next]_vars => Funded' /\ WindowBound'
  BY FundedStep, WindowStep
<1> QED
  BY <1>1, <1>2, TypeCorrect, PTL DEF Spec
-----------------------------------------------------------------------------
(* The last tick of the ticker; it changes with the next one only.         *)
LastTick == now - (now % Period)

LEMMA Division ==
  ASSUME NEW n \in Nat, NEW q \in Int, NEW r \in 0 .. Period - 1, n = (q * Period) + r
  PROVE  n % Period = r
BY RateLimiterAssumption

LEMMA TicksAreApart ==
  ASSUME NEW n \in Nat
  PROVE  /\ n % Period \in 0 .. Period - 1
         /\ (n + 1) % Period # 0 => (n + 1) - ((n + 1) % Period) = n - (n % Period)
<1> DEFINE q == n \div Period
           r == n % Period
<1>1. q \in Int /\ r \in 0 .. Period - 1 /\ n = (q * Period) + r
  BY RateLimiterAssumption
<1> HIDE DEF q, r
<1>2. CASE r + 1 = Period
  <2>1. n + 1 = ((q + 1) * Period) + 0 /\ q + 1 \in Int /\ 0 \in 0 .. Period - 1 /\ n + 1 \in Nat
    BY <1>1, <1>2, RateLimiterAssumption
  <2>2. (n + 1) % Period = 0
    BY <2>1, Division
  <2> QED
    BY <1>1, <2>2 DEF r
<1>3. CASE r + 1 # Period
  <2>1. n + 1 = (q * Period) + (r + 1) /\ r + 1 \in 0 .. Period - 1 /\ n + 1 \in Nat
    BY <1>1, <1>3, RateLimiterAssumption
  <2>2. (n + 1) % Period = r + 1
    BY <1>1, <2>1, Division
  <2>3. (n + 1) - (r + 1) = n - r
    BY <1>1, RateLimiterAssumption
  <2> QED
    BY <1>1, <2>2, <2>3 DEF r
<1> QED
  BY <1>2, <1>3

(* When no tick is pending, the last one has been swept for: every bucket  *)
(* left has been used within Idle of it.                                   *)
Swept ==
  ~due /\ cleaner = "waiting" => \A k \in buckets : LastTick <= lastRefill[k] + Idle

LEMMA StepSwept == TypeOK /\ Swept /\ [Next]_vars => Swept'
<1> SUFFICES ASSUME TypeOK, Swept, [Next]_vars, ~due', cleaner' = "waiting", NEW k \in buckets'
             PROVE  LastTick' <= lastRefill'[k] + Idle
  BY DEF Swept
<1>1. /\ now \in Nat /\ Idle \in Nat /\ k \in Keys
      /\ \A x \in Keys : lastRefill[x] \in Nat
      /\ now % Period \in Nat
  <2>1. now \in Nat /\ Idle \in Nat /\ k \in Keys
    <3>1. now \in Nat /\ Idle \in Nat /\ buckets \subseteq Keys
      BY RateLimiterAssumption DEF TypeOK
    <3>2. buckets' \subseteq buckets \/ \E x \in Keys : buckets' = buckets \cup {x}
      BY DEF Next, Tick, Allow, ReceiveTick, Sweep, vars
    <3> QED
      BY <3>1, <3>2
  <2>2. \A x \in Keys : lastRefill[x] \in Nat
    BY RateLimiterAssumption DEF TypeOK
  <2>3. now % Period \in 0 .. Period - 1
    BY <2>1, TicksAreApart
  <2> QED
    BY <2>1, <2>2, <2>3
<1>2. CASE Tick
  <2>1. now' = now + 1 /\ now' % Period # 0 /\ ~due /\ UNCHANGED <<buckets, lastRefill, cleaner>>
    BY <1>2 DEF Tick
  <2>2. LastTick' = LastTick
    BY <1>1, <2>1, TicksAreApart DEF LastTick
  <2> QED
    BY <2>1, <2>2 DEF Swept
<1>3. ASSUME NEW x \in Keys, Allow(x) PROVE LastTick' <= lastRefill'[k] + Idle
  <2>1. /\ UNCHANGED <<now, due, cleaner>> /\ buckets' = buckets \cup {x}
        /\ lastRefill' = [lastRefill EXCEPT ![x] = now]
    BY <1>3 DEF Allow
  <2>2. CASE k = x
    <3>1. lastRefill'[k] = now
      BY <2>1, <2>2 DEF TypeOK
    <3>2. now - (now % Period) <= now + Idle
      BY <1>1
    <3> QED
      BY <2>1, <3>1, <3>2 DEF LastTick
  <2>3. CASE k # x
    BY <2>1, <2>3 DEF Swept, TypeOK, LastTick
  <2> QED
    BY <2>2, <2>3
<1>4. CASE ReceiveTick
  BY <1>4 DEF ReceiveTick
<1>5. CASE Sweep
  <2>1. ~(now - lastRefill[k] > Idle) /\ now' = now /\ lastRefill' = lastRefill
    BY <1>5 DEF Sweep, IsIdle
  <2>2. now - (now % Period) <= lastRefill[k] + Idle
    BY <1>1, <2>1
  <2> QED
    BY <2>1, <2>2 DEF LastTick
<1>6. CASE UNCHANGED vars
  BY <1>6 DEF vars, Swept, LastTick
<1> QED
  BY <1>2, <1>3, <1>4, <1>5, <1>6 DEF Next

(* The map does not grow with every key ever seen: when a bucket has       *)
(* outlived its idle time by a period, the cleanup goroutine is late.      *)
THEOREM CleanupCorrect == Spec => []IdleBucketsGo
<1>1. Init => Swept
  BY DEF Init, Swept
<1>2. TypeOK /\ Swept => IdleBucketsGo
  <2> SUFFICES ASSUME TypeOK, Swept, NEW k \in buckets, now > lastRefill[k] + Idle + Period,
                      ~due, cleaner # "locking"
               PROVE  FALSE
    BY DEF IdleBucketsGo
  <2>1. now \in Nat /\ lastRefill[k] \in Nat /\ Idle \in Nat /\ Period \in Nat
    BY RateLimiterAssumption DEF TypeOK
  <2>2. now - (now % Period) <= lastRefill[k] + Idle
    BY DEF Swept, LastTick, TypeOK
  <2>3. now % Period \in 0 .. Period - 1
    BY <2>1, TicksAreApart
  <2> QED
    BY <2>1, <2>2, <2>3
<1> QED
  BY <1>1, <1>2, StepSwept, TypeCorrect, PTL DEF Spec
=============================================================================
