---------------------------- MODULE RateLimiter ----------------------------
(***************************************************************************)
(* The gateway's rate limiter: a token bucket per key, made on first use   *)
(* and deleted by a cleanup goroutine once idle, all under one mutex, so   *)
(* that a call of Allow and a sweep are one step each.                     *)
(*                                                                         *)
(* The middleware would take the user of the request as its key, but the   *)
(* gateway puts it outside authentication, where no request has a user     *)
(* yet: every key is r.RemoteAddr, the address and port of a connection.   *)
(*                                                                         *)
(* A tick of the clock is the time in which a bucket regains one unit, and *)
(* a request costs Cost units, so a bucket may hold a fraction of a token. *)
(* The rounding of the code's float64 is left out.                         *)
(***************************************************************************)
EXTENDS Naturals, Sequences, FiniteSets

CONSTANTS Keys,     \* the connections, by address and port
          Clients,
          Client,   \* Client[k]: who is at the other end of a connection
          Cost,     \* units per request
          Cap,      \* burst, in units
          Period,   \* ticks from one cleanup to the next
          Idle,     \* ticks after which a bucket is deleted
          MaxTime,  \* bound: the clock
          None      \* no answer

(* An idle bucket is full again: 10 minutes at 10 tokens a second are far  *)
(* more than the burst of 20.                                              *)
ASSUME RateLimiterAssumption ==
  /\ Cost \in Nat \ {0} /\ Cap \in Nat /\ Period \in Nat \ {0} /\ Idle \in Nat
  /\ Cap <= Idle
  /\ MaxTime \in Nat

ASSUME ClientAssumption == Client \in [Keys -> Clients]

VARIABLES
  now,        \* the clock
  buckets,    \* the keys of the map
  tokens, lastRefill, \* the fields of each bucket
  due,        \* the ticker's channel holds a tick
  cleaner,    \* "waiting" for a tick, or "locking" mu
  answer,     \* the last call of this instant and its result
  admitted    \* history: the times at which each key was admitted

vars == <<now, buckets, tokens, lastRefill, due, cleaner, answer, admitted>>

Init ==
  /\ now = 0
  /\ buckets = {}
  /\ tokens = [k \in Keys |-> 0]
  /\ lastRefill = [k \in Keys |-> 0]
  /\ due = FALSE
  /\ cleaner = "waiting"
  /\ answer = None
  /\ admitted = [k \in Keys |-> <<>>]
-----------------------------------------------------------------------------
(* Pieces of the operations, each after a slip the code could have had.    *)

(* What a bucket has regained, counted from lastRefill, which then moves;  *)
(* the slip moves it first.                                                *)
Nothing(k) == 0
Elapsed(k) == now - lastRefill[k]

(* A bucket holds no more than the burst.                                  *)
Uncapped(n) == n
Capped(n) == IF n > Cap THEN Cap ELSE n

(* A bucket is deleted when it has been idle for more than Idle; the slips *)
(* do it too soon, or when its tokens field says that it is full, although *)
(* that is brought up to date by requests only.                            *)
StoredFull(k) == tokens[k] = Cap
HalfIdle(k) == now - lastRefill[k] > Idle \div 2
IsIdle(k) == now - lastRefill[k] > Idle

(* The units a call of Allow finds: a new bucket is full.                  *)
Level(k) == IF k \in buckets THEN Capped(tokens[k] + Elapsed(k)) ELSE Cap
-----------------------------------------------------------------------------
(* A ticker whose channel is full drops its tick.                          *)
Tick ==
  /\ now < MaxTime /\ now' = now + 1
  /\ due' = (due \/ now' % Period = 0)
  /\ answer' = None
  /\ UNCHANGED <<buckets, tokens, lastRefill, cleaner, admitted>>

(* A request on connection k: the middleware serves it if Allow returns    *)
(* TRUE, and answers 429 otherwise.                                        *)
Allow(k) ==
  /\ buckets' = buckets \cup {k}
  /\ lastRefill' = [lastRefill EXCEPT ![k] = now]
  /\ IF Level(k) >= Cost
     THEN /\ tokens' = [tokens EXCEPT ![k] = Level(k) - Cost]
          /\ answer' = <<k, TRUE>>
          /\ admitted' = [admitted EXCEPT ![k] = Append(@, now)]
     ELSE /\ tokens' = [tokens EXCEPT ![k] = Level(k)]
          /\ answer' = <<k, FALSE>>
          /\ UNCHANGED admitted
  /\ UNCHANGED <<now, due, cleaner>>

(* The cleanup goroutine receives a tick, waits for mu, and sweeps.        *)
ReceiveTick ==
  /\ cleaner = "waiting" /\ due
  /\ due' = FALSE
  /\ cleaner' = "locking"
  /\ UNCHANGED <<now, buckets, tokens, lastRefill, answer, admitted>>

Sweep ==
  /\ cleaner = "locking"
  /\ buckets' = {k \in buckets : ~IsIdle(k)}
  /\ cleaner' = "waiting"
  /\ UNCHANGED <<now, tokens, lastRefill, due, answer, admitted>>

Next == Tick \/ (\E k \in Keys : Allow(k)) \/ ReceiveTick \/ Sweep
Spec == Init /\ [][Next]_vars
-----------------------------------------------------------------------------
(* Every variable has the type of the Go value it stands for; a bucket     *)
(* never holds more than the burst, and is not refilled from the future.   *)
TypeOK ==
  /\ now \in 0 .. MaxTime
  /\ buckets \in SUBSET Keys
  /\ tokens \in [Keys -> 0 .. Cap]
  /\ lastRefill \in [Keys -> 0 .. MaxTime]
  /\ \A k \in Keys : lastRefill[k] <= now
  /\ due \in BOOLEAN
  /\ cleaner \in {"waiting", "locking"}
  /\ answer \in {None} \cup (Keys \X BOOLEAN)
  /\ admitted \in [Keys -> Seq(0 .. MaxTime)]

(* Within any stretch of time a key is admitted at most as often as the    *)
(* burst and the refill of that time pay for, also across deletions of its *)
(* bucket.                                                                 *)
WindowBound ==
  \A k \in Keys : \A i, j \in DOMAIN admitted[k] :
    i <= j => (j - i + 1) * Cost <= Cap + (admitted[k][j] - admitted[k][i])

(* The map does not grow with every key ever seen: a bucket outlives its   *)
(* idle time by one period, plus what the cleanup goroutine is late.       *)
IdleBucketsGo ==
  \A k \in buckets : now > lastRefill[k] + Idle + Period => due \/ cleaner = "locking"

(* The limiter implements one bucket per key that is there from the start  *)
(* and for ever: creating and deleting buckets is invisible on the         *)
(* connection they belong to.                                              *)
B == INSTANCE TokenBucket WITH level <- [k \in Keys |-> Level(k)]
ImplementsTokenBucket == B!Spec

(* What the documents say of the limiter: so much per client.  It is false *)
(* of the code: a client has one bucket per connection.                    *)
KeysOf(c) == {k \in Keys : Client[k] = c}
Within(k, s, t) == {i \in DOMAIN admitted[k] : admitted[k][i] \in s .. t}
AdmittedTo(c, s, t) == UNION {{k} \X Within(k, s, t) : k \in KeysOf(c)}
ClientWindowBound ==
  \A c \in Clients, s, t \in 0 .. now :
    s <= t => Cardinality(AdmittedTo(c, s, t)) * Cost <= Cap + (t - s)
=============================================================================
