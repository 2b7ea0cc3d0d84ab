------------------------------ MODULE Gateway ------------------------------
(***************************************************************************)
(* An HTTP request through the gateway: logging, CORS, rate limiter, mux   *)
(* and token check, then proxyRequest to one of the services, against      *)
(* three timers and a graceful shutdown.                                   *)
(*                                                                         *)
(* A tick is a third of the server's time-outs.  The gateway's own steps   *)
(* take no time: the clock waits for a timer that has run out to be served. *)
(* A request is over by its last tick of patience at the latest, so that   *)
(* timers that count down need no clock.  The limiter, RateLimiter here,   *)
(* may refuse any request.                                                 *)
(***************************************************************************)
EXTENDS Naturals

CONSTANTS Requests,      \* bound: the requests of a behaviour
          Users,
          Params,        \* bound: what they may be
          ServerTimeout, \* ReadTimeout and WriteTimeout of the server, 15 s
          ClientTimeout, \* of the client to the services, 10 s
          Grace,         \* of the shutdown, 10 s
          None           \* no user, no answer

Proxied == {"public", "protected", "lookup", "page"}
Names == {"id", "conversation_id", "limit", "before"}
Local == {"204", "429", "404", "200", "401", "400", "500"} \* the gateway's own, but for 502
Answers == Local \cup {"ok", "refused", "cut", "502"}

ASSUME GatewayAssumption ==
  /\ Params # {} /\ None \notin Users \cup Answers
  /\ Params \subseteq [route : Proxied \cup {"preflight", "unknown", "health"},
                       token : Users \cup {None},  \* whose valid access token comes with it
                       query : SUBSET Names,
                       escaped : {"nothing", "syntax", "junk"}] \* in the values of the query
  /\ ServerTimeout \in Nat /\ ClientTimeout \in Nat \ {0} /\ Grace \in Nat
  /\ ClientTimeout < ServerTimeout /\ ClientTimeout <= Grace

VARIABLES
  phase,    \* "serving", "stopping" after a signal, "down"
  grace,    \* ticks left to the shutdown
  pc,       \* where each request is
  req,      \* its parameters
  answer,   \* the answer its client got
  deadline, \* ticks left to read its body and to write its answer
  patience, \* ticks left to the service
  work,     \* what the service does about it
  reply,    \* and answers
  runs,     \* the users as whom the service has executed it
  left,     \* history: requests whose client has gone
  slow,     \* history: requests whose body came late
  owed      \* history: requests the service had, for a tick, before the signal

timers == <<grace, deadline, patience>>
service == <<work, reply, runs>>
history == <<left, slow, owed>>
vars == <<phase, timers, pc, req, answer, service, history>>

Running(r) == pc[r] \in {"reading", "forwarded", "copying"}

Init ==
  /\ phase = "serving"
  /\ grace = Grace
  /\ pc = [r \in Requests |-> "idle"]
  /\ req = [r \in Requests |-> CHOOSE p \in Params : TRUE]
  /\ answer = [r \in Requests |-> None]
  /\ deadline = [r \in Requests |-> 0]
  /\ patience = [r \in Requests |-> 0]
  /\ work = [r \in Requests |-> "none"]
  /\ reply = [r \in Requests |-> None]
  /\ runs = [r \in Requests |-> {}]
  /\ left = {} /\ slow = {} /\ owed = {}

Goto(r, label) == pc' = [pc EXCEPT ![r] = label]

(* A request that is over has no timers.                                   *)
End(r, label) ==
  /\ Goto(r, label)
  /\ deadline' = [deadline EXCEPT ![r] = 0]
  /\ patience' = [patience EXCEPT ![r] = 0]
-----------------------------------------------------------------------------
(* Pieces of the handlers, some after a slip the code could have had.      *)

(* authMW wraps all routes but the public ones.                            *)
NeedsToken(p) == p.route \in Proxied \ {"public"}

(* What a request that the limiter lets pass comes to in the mux.          *)
Verdict(p) == CASE p.route = "unknown" -> "404"
                [] p.route = "health" -> "200"
                [] NeedsToken(p) /\ p.token = None -> "401"
                [] p.route = "lookup" /\ "id" \notin p.query -> "400"
                [] OTHER -> "forward"

(* What the middlewares and the mux answer themselves: CORS a preflight,    *)
(* then the limiter, then the mux.                                         *)
LocalAnswers(p) ==
  IF p.route = "preflight" THEN {"204"} ELSE {"429", Verdict(p)} \ {"forward"}

(* X-User-ID is set from the token, and no header of the client's is       *)
(* copied.                                                                 *)
UserHeader(p) == IF NeedsToken(p) THEN p.token ELSE None

(* The status of the service is the client's; the slip forgets it.         *)
AlwaysOk(r) == "ok"
Status(r) == reply[r]

(* The time-out of the client; the slip takes the server's, another none.  *)
ServersTimeout(r) == ServerTimeout
Patience(r) == ClientTimeout
Never(r) == FALSE
TimedOut(r) == patience[r] = 0

(* proxyRequest appends the client's query to a path that has one already. *)
(* The second '?' makes it part of the last parameter, which is spoilt.    *)
Spoilt(p) == CASE p.route = "lookup" -> "id"
               [] p.route = "page" /\ "before" \in p.query -> "before"
               [] p.route = "page" /\ "limit" \in p.query -> "limit"
               [] OTHER -> "conversation_id"
Intact(p) == IF p.route \in {"lookup", "page"} THEN p.query \ {Spoilt(p)} ELSE p.query

(* The values in that path have been decoded and are not encoded again: of *)
(* one with an escaped '&', '#', '+' or '%' the service may read anything, *)
(* such as X of 'X&'; one with a control character makes no URL at all.    *)
Rewritten(p) == p.route \in {"lookup", "page"} /\ p.escaped = "syntax"
MakesURL(p) == p.route \in {"lookup", "page"} => p.escaped # "junk"

(* A spoilt id is no UUID, which is an error; a spoilt limit is ignored.   *)
Understood(p) ==
  \/ p.route \notin {"lookup", "page"} \/ Rewritten(p)
  \/ p.route = "lookup" /\ "id" \in Intact(p)
  \/ /\ p.route = "page" /\ "conversation_id" \in Intact(p)
     /\ "before" \in p.query => "before" \in Intact(p)
-----------------------------------------------------------------------------
(* The answer is written, unless the server's deadline has passed.         *)
Finish(r, a) ==
  IF deadline[r] > 0 THEN End(r, "answered") /\ answer' = [answer EXCEPT ![r] = a]
                     ELSE End(r, "lost") /\ UNCHANGED answer

(* The middlewares, up to the handler of the route.                        *)
Arrive(r, p) ==
  /\ pc[r] = "idle" /\ phase = "serving"
  /\ req' = [req EXCEPT ![r] = p]
  /\ \/ /\ \E a \in LocalAnswers(p) : answer' = [answer EXCEPT ![r] = a]
        /\ End(r, "answered")
     \/ /\ p.route # "preflight" /\ Verdict(p) = "forward"
        /\ Goto(r, "reading")
        /\ deadline' = [deadline EXCEPT ![r] = ServerTimeout]
        /\ UNCHANGED <<patience, answer>>
  /\ UNCHANGED <<phase, grace, service, history>>

(* The body is in, and the request goes to the service, if there is one.   *)
CannotForward(r) ==
  /\ pc[r] = "reading" /\ deadline[r] > 0 /\ ~MakesURL(req[r])
  /\ Finish(r, "500")
  /\ UNCHANGED <<phase, grace, req, service, history>>

Forward(r) ==
  /\ pc[r] = "reading" /\ deadline[r] > 0 /\ MakesURL(req[r])
  /\ Goto(r, "forwarded")
  /\ patience' = [patience EXCEPT ![r] = Patience(r)]
  /\ work' = [work EXCEPT ![r] = "running"]
  /\ slow' = IF deadline[r] <= ClientTimeout THEN slow \cup {r} ELSE slow
  /\ UNCHANGED <<phase, grace, deadline, req, answer, reply, runs, left, owed>>

(* The body is malformed, or not in at the deadline for reading it, when   *)
(* that for writing may pass as well.                                      *)
BodyFails(r) ==
  /\ pc[r] = "reading"
  /\ \/ End(r, "answered") /\ answer' = [answer EXCEPT ![r] = "400"] /\ UNCHANGED slow
     \/ deadline[r] = 0 /\ End(r, "lost") /\ slow' = slow \cup {r} /\ UNCHANGED answer
  /\ UNCHANGED <<phase, grace, req, service, left, owed>>

(* The service has answered: the status goes first, then the body, which   *)
(* io.Copy may leave incomplete without anyone asking.                     *)
Relay(r) ==
  /\ pc[r] = "forwarded" /\ work[r] = "replied"
  /\ Goto(r, "copying")
  /\ UNCHANGED <<phase, timers, req, answer, service, history>>

EndCopy(r) ==
  /\ pc[r] = "copying"
  /\ \E a \in {Status(r), "cut"} : Finish(r, a)
  /\ UNCHANGED <<phase, grace, req, service, history>>

(* Do returns an error: the time is up, or the service has gone.           *)
GiveUp(r) ==
  /\ pc[r] = "forwarded"
  /\ TimedOut(r) \/ work[r] = "stopped"
  /\ Finish(r, "502")
  /\ UNCHANGED <<phase, grace, req, service, history>>

(* The client leaves; the context of its request is cancelled.             *)
Leave(r) ==
  /\ Running(r)
  /\ End(r, "lost")
  /\ left' = left \cup {r}
  /\ UNCHANGED <<phase, grace, req, answer, service, slow, owed>>
-----------------------------------------------------------------------------
(* The services.  What the gateway has given up on may stop, or be         *)
(* executed all the same.                                                  *)

Execute(r) ==
  /\ work[r] = "running" /\ Understood(req[r])
  /\ runs' = [runs EXCEPT ![r] = @ \cup {UserHeader(req[r])}]
  /\ UNCHANGED <<phase, timers, pc, req, answer, work, reply, history>>

(* An error may come before the execution, or after it.                    *)
Reply(r) ==
  /\ work[r] = "running"
  /\ work' = [work EXCEPT ![r] = "replied"]
  /\ \E a \in IF runs[r] = {} THEN {"refused"} ELSE {"ok", "refused"} :
       reply' = [reply EXCEPT ![r] = a]
  /\ UNCHANGED <<phase, timers, pc, req, answer, runs, history>>

Stop(r) ==
  /\ work[r] = "running"
  /\ work' = [work EXCEPT ![r] = "stopped"]
  /\ UNCHANGED <<phase, timers, pc, req, answer, reply, runs, history>>
-----------------------------------------------------------------------------
Less(n) == IF n > 0 THEN n - 1 ELSE 0
Tick ==
  /\ \A r \in Requests : /\ pc[r] = "reading" => deadline[r] > 0
                         /\ pc[r] \in {"forwarded", "copying"} => ~TimedOut(r)
  /\ phase = "stopping" => grace > 0
  /\ \E r \in Requests : Running(r)
  /\ deadline' = [r \in Requests |-> Less(deadline[r])]
  /\ patience' = [r \in Requests |-> Less(patience[r])]
  /\ grace' = IF phase = "stopping" THEN Less(grace) ELSE grace
  /\ UNCHANGED <<phase, pc, req, answer, service, history>>

(* SIGTERM: the listener is closed, and Shutdown waits for what is running. *)
Terminate ==
  /\ phase = "serving"
  /\ phase' = "stopping"
  /\ owed' = {r \in Requests : pc[r] \in {"forwarded", "copying"} /\ patience[r] < ClientTimeout}
  /\ UNCHANGED <<timers, pc, req, answer, service, left, slow>>

(* main returns, and the process takes with it what still runs.            *)
AtOnce == TRUE
MayExit == grace = 0 \/ \A r \in Requests : ~Running(r)
Exit ==
  /\ phase = "stopping" /\ MayExit
  /\ phase' = "down"
  /\ pc' = [r \in Requests |-> IF Running(r) THEN "lost" ELSE pc[r]]
  /\ deadline' = [r \in Requests |-> 0]
  /\ patience' = [r \in Requests |-> 0]
  /\ UNCHANGED <<grace, req, answer, service, history>>
-----------------------------------------------------------------------------
HandlerStep(r) ==
  Relay(r) \/ EndCopy(r) \/ GiveUp(r) \/ (deadline[r] = 0 /\ BodyFails(r))

Next ==
  \/ \E r \in Requests :
       \/ \E p \in Params : Arrive(r, p)
       \/ CannotForward(r) \/ Forward(r) \/ BodyFails(r) \/ Relay(r) \/ EndCopy(r) \/ GiveUp(r) \/ Leave(r)
       \/ Execute(r) \/ Reply(r) \/ Stop(r)
  \/ Tick \/ Terminate \/ Exit

(* A handler that can go on does, time passes, and main goes on when       *)
(* Shutdown returns.  Neither the client nor a service has to do anything. *)
Fairness == WF_vars(Tick) /\ WF_vars(Exit) /\ \A r \in Requests : WF_vars(HandlerStep(r))
Spec == Init /\ [][Next]_vars /\ Fairness
-----------------------------------------------------------------------------
(* Every variable has the type of the Go value it stands for; timers keep  *)
(* to their time-outs; only what is answered has an answer.                *)
TypeOK ==
  /\ phase \in {"serving", "stopping", "down"}
  /\ grace \in 0 .. Grace
  /\ pc \in [Requests -> {"idle", "reading", "forwarded", "copying", "answered", "lost"}]
  /\ req \in [Requests -> Params]
  /\ answer \in [Requests -> Answers \cup {None}]
  /\ \A r \in Requests : pc[r] = "answered" <=> answer[r] # None
  /\ deadline \in [Requests -> 0 .. ServerTimeout]
  /\ patience \in [Requests -> 0 .. ClientTimeout]
  /\ work \in [Requests -> {"none", "running", "replied", "stopped"}]
  /\ reply \in [Requests -> {"ok", "refused", None}]
  /\ runs \in [Requests -> SUBSET (Users \cup {None})]
  /\ left \in SUBSET Requests /\ slow \in SUBSET Requests /\ owed \in SUBSET Requests

(* What a client is told is true, though the service may go on after the   *)
(* gateway has given it up: a success was executed, by a service that      *)
(* may have understood what was asked; an answer of the gateway's own, but *)
(* for 502, means that no service sees the request, then or later; and     *)
(* what is executed, however late, is executed for the token's user only,  *)
(* or for nobody on a public route.                                        *)
AnswerIsTrue ==
  \A r \in Requests :
    /\ answer[r] = "ok" => runs[r] # {} /\ Understood(req[r])
    /\ answer[r] \in Local => work[r] = "none" /\ runs[r] = {}
    /\ runs[r] \subseteq IF req[r].route = "public" THEN {None} ELSE {req[r].token} \ {None}

(* A client that waits gets an answer, however the service behaves, if its *)
(* body was in early enough for the client's time-out to fit into the      *)
(* server's.  A shutdown does not take the answer from a request that had  *)
(* been with the service before.                                           *)
NoAnswerIsLost ==
  \A r \in Requests : pc[r] = "lost" =>
    r \in left \cup slow \/ (phase = "down" /\ r \notin owed)

(* Every handler ends, even if the service never answers, the client never *)
(* sends its body, or both.                                                *)
EveryRequestEnds == \A r \in Requests : Running(r) ~> ~Running(r)
=============================================================================
