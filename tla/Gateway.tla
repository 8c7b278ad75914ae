-------------------------------- MODULE Gateway --------------------------------
(***************************************************************************)
(* api-gateway between the clients and the two HTTP services: JwtAuthGuard,*)
(* ProxyController and ProxyService, then UserContextMiddleware and        *)
(* AdminGuard of core-service in front of a handler that has one effect.   *)
(* The gateway gives a forwarded call 5 s; the service that got it goes on *)
(* with it all the same. Services crash and come back.                     *)
(***************************************************************************)
EXTENDS Naturals, FiniteSets

CONSTANTS
  Call,      \* calls of clients
  None,      \* no path, no user
  RetryOn,   \* answers after which a client sends its call again
  MaxTries   \* bound on how often it does

ASSUME TriesArePositive == MaxTries \in Nat \ {0}
ASSUME RetriesAreErrors == RetryOn \subseteq {500, 502, 503}

Service == {"core", "location"}
Path == {"deliveries", "location", "admin"}
Token == {"none", "rider", "admin"}  \* an expired or malformed token is none
ASSUME NoneIsFresh == None \notin Path \cup Token
Answers == {200, 403, 500}
NoReply == 0

VARIABLES
  path, token,  \* of each call
  pc,           \* pc[c]: where the gateway has call c
  user,         \* user[c]: the identity in the X-User-* headers
  tries,        \* tries[c]: how often c was sent
  reply,        \* reply[c]: status of the last answer, NoReply before it
  jobs,         \* tries that a service has received and not answered
  answers,      \* answers of services on their way, with the try they are for
  effects,      \* effects[c]: how often a handler did what c asks for
  up            \* up[s]: service s listens

vars == <<path, token, pc, user, tries, reply, jobs, answers, effects, up>>
client == <<path, token, tries>>

PUBLIC_PATHS == {"deliveries", "location"}
getTargetUrl(p) == IF p = "location" THEN "location" ELSE "core"
This(c) == <<c, tries[c]>>

Reply(c, status) ==
  /\ pc' = [pc EXCEPT ![c] = "answered"]
  /\ reply' = [reply EXCEPT ![c] = status]

-------------------------------------------------------------------------------
Ask(c, p, t) ==
  /\ pc[c] = "idle"
  /\ pc' = [pc EXCEPT ![c] = "guard"]
  /\ path' = [path EXCEPT ![c] = p] /\ token' = [token EXCEPT ![c] = t]
  /\ tries' = [tries EXCEPT ![c] = 1]
  /\ UNCHANGED <<user, reply, jobs, answers, effects, up>>

Retry(c) ==
  /\ pc[c] = "answered" /\ reply[c] \in RetryOn /\ tries[c] < MaxTries
  /\ pc' = [pc EXCEPT ![c] = "guard"]
  /\ tries' = [tries EXCEPT ![c] = @ + 1]
  /\ reply' = [reply EXCEPT ![c] = NoReply]
  /\ UNCHANGED <<path, token, user, jobs, answers, effects, up>>

(* On a public path the token is not looked at, so there is no user.       *)
canActivate(c) ==
  /\ pc[c] = "guard" /\ UNCHANGED <<client, jobs, answers, effects, up>>
  /\ \/ /\ path[c] \notin PUBLIC_PATHS /\ token[c] = "none"
        /\ Reply(c, 401) /\ UNCHANGED user
     \/ /\ path[c] \in PUBLIC_PATHS \/ token[c] # "none"
        /\ pc' = [pc EXCEPT ![c] = "forward"] /\ UNCHANGED reply
        /\ user' = [user EXCEPT ![c] = IF path[c] \in PUBLIC_PATHS THEN None ELSE token[c]]

(* ECONNREFUSED is 503; otherwise the service has the call.                *)
forward(c) ==
  /\ pc[c] = "forward" /\ UNCHANGED <<client, user, answers, effects, up>>
  /\ \/ ~up[getTargetUrl(path[c])] /\ Reply(c, 503) /\ UNCHANGED jobs
     \/ /\ up[getTargetUrl(path[c])] /\ UNCHANGED reply
        /\ pc' = [pc EXCEPT ![c] = "waiting"] /\ jobs' = jobs \cup {This(c)}

(* validateStatus: every status passes through.                            *)
PassThrough(c) ==
  /\ pc[c] = "waiting"
  /\ \E a \in answers : a.for = This(c) /\ Reply(c, a.status)
  /\ UNCHANGED <<client, user, jobs, answers, effects, up>>

(* Mutant: every error of the request is Service unavailable.              *)
Every503(c) ==
  /\ pc[c] = "waiting" /\ Reply(c, 503)
  /\ UNCHANGED <<client, user, jobs, answers, effects, up>>

(* Mutant: the HttpModule has no timeout, only lost connections end.       *)
LostOnly(c) ==
  /\ pc[c] = "waiting" /\ This(c) \notin jobs \cup {a.for : a \in answers}
  /\ Reply(c, 502)
  /\ UNCHANGED <<client, user, jobs, answers, effects, up>>

(* The timeout of 5 s, or a connection that the service lost: 502.         *)
BadGateway(c) ==
  /\ pc[c] = "waiting" /\ Reply(c, 502)
  /\ UNCHANGED <<client, user, jobs, answers, effects, up>>

-------------------------------------------------------------------------------
(* Mutant: AdminGuard takes a request without a user.                      *)
AuthorizedOrAnonymous(c) == path[c] = "admin" => user[c] \in {None, "rider", "admin"}

(* UserContextMiddleware and AdminGuard.                                   *)
Authorized(c) == path[c] = "admin" => user[c] = "admin"

(* The service handles a try, whether or not the gateway still waits. A    *)
(* handler that throws may have done its work before.                      *)
Handle(c, n) ==
  /\ <<c, n>> \in jobs /\ jobs' = jobs \ {<<c, n>>}
  /\ \E status \in IF Authorized(c) THEN {200, 500} ELSE {403} :
       /\ answers' = answers \cup {[for |-> <<c, n>>, status |-> status]}
       /\ \/ status # 403 /\ effects' = [effects EXCEPT ![c] = @ + 1]
          \/ status # 200 /\ UNCHANGED effects
  /\ UNCHANGED <<client, pc, user, reply, up>>

Crash(s) ==
  /\ up[s] /\ up' = [up EXCEPT ![s] = FALSE]
  /\ jobs' = {j \in jobs : getTargetUrl(path[j[1]]) # s}
  /\ UNCHANGED <<client, pc, user, reply, answers, effects>>

Restart(s) ==
  /\ ~up[s] /\ up' = [up EXCEPT ![s] = TRUE]
  /\ UNCHANGED <<client, pc, user, reply, jobs, answers, effects>>

Init ==
  /\ path = [c \in Call |-> None] /\ token = [c \in Call |-> "none"]
  /\ pc = [c \in Call |-> "idle"] /\ user = [c \in Call |-> None]
  /\ tries = [c \in Call |-> 0] /\ reply = [c \in Call |-> NoReply]
  /\ jobs = {} /\ answers = {} /\ effects = [c \in Call |-> 0]
  /\ up = [s \in Service |-> TRUE]

GatewayStep(c) == canActivate(c) \/ forward(c) \/ PassThrough(c) \/ BadGateway(c)

Next ==
  \/ \E c \in Call : GatewayStep(c) \/ Retry(c)
  \/ \E c \in Call, p \in Path, t \in Token : Ask(c, p, t)
  \/ \E j \in jobs : Handle(j[1], j[2])
  \/ \E s \in Service : Crash(s) \/ Restart(s)

Spec == Init /\ [][Next]_vars
(* Only the gateway, its timer included, has to go on.                     *)
FairSpec == Spec /\ \A c \in Call : WF_vars(GatewayStep(c))

-------------------------------------------------------------------------------
(* A client that sends a call again after 503 only has it done at most     *)
(* once, although services time out, crash and answer late: 503 stands for *)
(* a connection that was refused and for nothing else.                     *)
AtMostOnce == \A c \in Call : effects[c] <= 1

(* The status tells what became of the call: 200 that it was done, 401,    *)
(* 403 and 503 that it was not and will not be.                            *)
Truthful ==
  \A c \in Call :
    /\ reply[c] = 200 => effects[c] > 0
    /\ reply[c] \in {401, 403, 503} => effects[c] = 0 /\ \A j \in jobs : j[1] # c

(* What only admins may do is done for admins: the guard of the gateway,   *)
(* the headers it sets and the guard of core-service agree.                *)
OnlyForAdmins == \A c \in Call : effects[c] > 0 /\ path[c] = "admin" => token[c] = "admin"

(* Every call is answered even if its service never does.                  *)
EveryCallAnswered == \A c \in Call : pc[c] = "guard" ~> pc[c] = "answered"
===============================================================================
