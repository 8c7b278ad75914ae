----------------------------- MODULE GatewayProofs ------------------------------
(* What Gateway promises, for any number of calls, tries and crashes.      *)
EXTENDS Gateway, TLAPS

Stages == {"idle", "guard", "forward", "waiting", "answered"}
Statuses == {NoReply, 200, 401, 403, 500, 502, 503}
Reached == {"waiting", "answered"}  \* stages in which a service may have the call

TypeOK ==
  /\ path \in [Call -> Path \cup {None}] /\ token \in [Call -> Token]
  /\ pc \in [Call -> Stages] /\ user \in [Call -> Token \cup {None}]
  /\ tries \in [Call -> Nat] /\ reply \in [Call -> Statuses]
  /\ jobs \subseteq Call \X Nat
  /\ answers \subseteq [for : Call \X Nat, status : Answers]
  /\ effects \in [Call -> Nat] /\ up \in [Service -> BOOLEAN]

(* The headers name the one whose token it is, or nobody; a call that was  *)
(* not made yet has neither headers nor effects, and no service has it.    *)
HeadersAreTrue ==
  \A c \in Call :
    /\ user[c] \in {None, token[c]}
    /\ pc[c] = "idle" => user[c] = None /\ effects[c] = 0 /\ \A j \in jobs : j[1] # c

GuardInv == TypeOK /\ HeadersAreTrue /\ OnlyForAdmins

(* Only the last try of a call is with a service, or was answered by one.  *)
LastTryOnly ==
  /\ \A j \in jobs : j[2] = tries[j[1]] /\ pc[j[1]] \in Reached
  /\ \A a \in answers : a.for[2] = tries[a.for[1]] /\ pc[a.for[1]] \in Reached

(* A try is with the service until its effect is there or given up.        *)
EffectEndsTry ==
  /\ \A j \in jobs : effects[j[1]] = 0 /\ \A a \in answers : a.for # j
  /\ \A a \in answers : /\ a.status = 200 => effects[a.for[1]] = 1
                        /\ a.status = 403 => effects[a.for[1]] = 0
  /\ \A c \in Call : effects[c] > 0 => effects[c] = 1 /\ pc[c] \in Reached

(* What the answered client was told; 503 leaves nothing behind.           *)
RepliesAreTrue ==
  \A c \in Call :
    /\ pc[c] # "answered" => reply[c] = NoReply
    /\ pc[c] = "answered" => reply[c] # NoReply
    /\ reply[c] = 200 => effects[c] > 0
    /\ reply[c] \in {401, 403, 503} => effects[c] = 0 /\ \A j \in jobs : j[1] # c
    /\ reply[c] \in {401, 503} => \A a \in answers : a.for[1] # c

OnceInv == TypeOK /\ LastTryOnly /\ EffectEndsTry /\ RepliesAreTrue

-------------------------------------------------------------------------------
LEMMA InitTypeOK == Init => TypeOK
  BY DEF Init, TypeOK, Stages, Statuses, NoReply, Token

LEMMA ReplyTypeOK ==
  ASSUME TypeOK, NEW c \in Call, NEW s \in Statuses, Reply(c, s)
  PROVE  pc' \in [Call -> Stages] /\ reply' \in [Call -> Statuses]
  BY DEF TypeOK, Reply, Stages

(* A client, the gateway, a service or a crash: each keeps the types.      *)
LEMMA TypeStep == ASSUME TypeOK, [Next]_vars PROVE TypeOK'
<1> USE DEF TypeOK, client
<1>1. ASSUME NEW c \in Call, canActivate(c) PROVE TypeOK'
  <2>1. CASE path[c] \notin PUBLIC_PATHS /\ token[c] = "none" /\ Reply(c, 401) /\ UNCHANGED user
    BY <1>1, <2>1, ReplyTypeOK DEF canActivate, Statuses
  <2>2. CASE pc' = [pc EXCEPT ![c] = "forward"] /\ UNCHANGED reply
             /\ user' = [user EXCEPT ![c] = IF path[c] \in PUBLIC_PATHS THEN None ELSE token[c]]
    BY <1>1, <2>2 DEF canActivate, Stages
  <2> QED
    BY <1>1, <2>1, <2>2 DEF canActivate
<1>2. ASSUME NEW c \in Call, forward(c) PROVE TypeOK'
  BY <1>2, ReplyTypeOK DEF forward, Stages, Statuses, This
<1>3. ASSUME NEW c \in Call, PassThrough(c) PROVE TypeOK'
  BY <1>3, ReplyTypeOK DEF PassThrough, Answers, Statuses
<1>4. ASSUME NEW c \in Call, BadGateway(c) PROVE TypeOK'
  BY <1>4, ReplyTypeOK DEF BadGateway, Statuses
<1>5. ASSUME NEW c \in Call, Retry(c) PROVE TypeOK'
  BY <1>5 DEF Retry, Stages, Statuses, NoReply
<1>6. ASSUME NEW c \in Call, NEW p \in Path, NEW t \in Token, Ask(c, p, t) PROVE TypeOK'
  BY <1>6 DEF Ask, Stages
<1>7. ASSUME NEW j \in jobs, Handle(j[1], j[2]) PROVE TypeOK'
  BY <1>7 DEF Handle, Answers
<1>8. ASSUME NEW s \in Service, Crash(s) \/ Restart(s) PROVE TypeOK'
  BY <1>8 DEF Crash, Restart
<1>9. CASE UNCHANGED vars
  BY <1>9 DEF vars
<1> QED
  BY <1>1, <1>2, <1>3, <1>4, <1>5, <1>6, <1>7, <1>8, <1>9 DEF Next, GatewayStep

-------------------------------------------------------------------------------
(* A handler has its effect at most once, and only past AdminGuard.        *)
LEMMA HandleEffect ==
  ASSUME TypeOK, NEW c \in Call, NEW n \in Nat, Handle(c, n)
  PROVE  effects' = effects \/ (Authorized(c) /\ effects' = [effects EXCEPT ![c] = @ + 1])
  BY DEF Handle, TypeOK

(* Guards and headers.                                                     *)
LEMMA GuardStep == ASSUME GuardInv, [Next]_vars PROVE GuardInv'
<1>1. TypeOK /\ TypeOK'
  BY TypeStep DEF GuardInv
<1> USE NoneIsFresh, <1>1 DEF GuardInv, TypeOK, HeadersAreTrue, OnlyForAdmins, client
<1>2. ASSUME NEW c \in Call, canActivate(c) PROVE GuardInv'
  BY <1>2 DEF canActivate, Reply
<1>3. ASSUME NEW c \in Call, forward(c) \/ PassThrough(c) \/ BadGateway(c) PROVE GuardInv'
  BY <1>3 DEF forward, PassThrough, BadGateway, Reply, This
<1>4. ASSUME NEW c \in Call, Retry(c) PROVE GuardInv'
  BY <1>4 DEF Retry
<1>5. ASSUME NEW c \in Call, NEW p \in Path, NEW t \in Token, Ask(c, p, t) PROVE GuardInv'
  BY <1>5 DEF Ask
<1>6. ASSUME NEW j \in jobs, Handle(j[1], j[2]) PROVE GuardInv'
  <2>1. PICK c \in Call, n \in Nat : j = <<c, n>> /\ Handle(c, n)
    BY <1>6
  <2>2. effects' = effects \/ (Authorized(c) /\ effects' = [effects EXCEPT ![c] = @ + 1])
    BY <2>1, HandleEffect
  <2>3. UNCHANGED <<path, token, pc, user>> /\ pc[c] # "idle" /\ jobs' \subseteq jobs
    BY <2>1 DEF Handle
  <2>4. Authorized(c) /\ path[c] = "admin" => token[c] = "admin"
    BY <2>1 DEF Authorized, Token
  <2>5. HeadersAreTrue'
    BY <2>2, <2>3
  <2>6. OnlyForAdmins'
    BY <2>2, <2>3, <2>4
  <2> QED
    BY <2>5, <2>6
<1>7. ASSUME NEW s \in Service, Crash(s) \/ Restart(s) PROVE GuardInv'
  BY <1>7 DEF Crash, Restart
<1>8. CASE UNCHANGED vars
  BY <1>8 DEF vars
<1> QED
  BY <1>2, <1>3, <1>4, <1>5, <1>6, <1>7, <1>8 DEF Next, GatewayStep

(* What only admins may do is done for nobody else, whatever a client      *)
(* retries and however its calls are guarded, forwarded and cut off.       *)
THEOREM OnlyForAdminsAlways == Spec => []OnlyForAdmins
<1>1. Init => GuardInv
  BY InitTypeOK DEF Init, GuardInv, HeadersAreTrue, OnlyForAdmins
<1>2. GuardInv /\ [Next]_vars => GuardInv'
  BY GuardStep
<1>3. GuardInv => OnlyForAdmins
  BY DEF GuardInv
<1> QED
  BY <1>1, <1>2, <1>3, PTL DEF Spec

-------------------------------------------------------------------------------
(* One effect.                                                             *)
LEMMA PairsAreEqual ==
  ASSUME NEW j \in Call \X Nat, NEW k \in Call \X Nat, j[1] = k[1], j[2] = k[2] PROVE j = k
  OBVIOUS

LEMMA OnceStep == ASSUME RetryOn \subseteq {503}, OnceInv, [Next]_vars PROVE OnceInv'
<1>1. TypeOK /\ TypeOK'
  BY TypeStep DEF OnceInv
<1> USE <1>1 DEF OnceInv, TypeOK, client, Reached
<1>2. ASSUME NEW c \in Call, canActivate(c) PROVE OnceInv'
  <2>1. effects[c] = 0 /\ (\A j \in jobs : j[1] # c) /\ (\A a \in answers : a.for[1] # c)
    BY <1>2 DEF canActivate, LastTryOnly, EffectEndsTry
  <2>2. UNCHANGED <<path, token, tries, jobs, answers, effects>>
    BY <1>2 DEF canActivate
  <2>3. \/ pc' = [pc EXCEPT ![c] = "answered"] /\ reply' = [reply EXCEPT ![c] = 401]
        \/ pc' = [pc EXCEPT ![c] = "forward"] /\ reply' = reply
    BY <1>2 DEF canActivate, Reply
  <2>4. LastTryOnly' /\ EffectEndsTry'
    BY <2>1, <2>2, <2>3 DEF LastTryOnly, EffectEndsTry
  <2>5. RepliesAreTrue'
    BY <1>2, <2>1, <2>2, <2>3 DEF RepliesAreTrue, NoReply, canActivate
  <2> QED
    BY <2>4, <2>5
<1>3. ASSUME NEW c \in Call, forward(c) PROVE OnceInv'
  <2>1. effects[c] = 0 /\ (\A j \in jobs : j[1] # c) /\ (\A a \in answers : a.for[1] # c)
    BY <1>3 DEF forward, LastTryOnly, EffectEndsTry
  <2>2. CASE Reply(c, 503) /\ UNCHANGED jobs
    BY <1>3, <2>1, <2>2 DEF forward, Reply, LastTryOnly, EffectEndsTry, RepliesAreTrue, NoReply
  <2>3. CASE pc' = [pc EXCEPT ![c] = "waiting"] /\ jobs' = jobs \cup {This(c)} /\ UNCHANGED reply
    <3>1. LastTryOnly' /\ EffectEndsTry'
      BY <1>3, <2>1, <2>3 DEF forward, LastTryOnly, EffectEndsTry, This
    <3>2. RepliesAreTrue'
      BY <1>3, <2>1, <2>3 DEF forward, RepliesAreTrue, This, NoReply
    <3> QED
      BY <3>1, <3>2
  <2> QED
    BY <1>3, <2>2, <2>3 DEF forward
<1>4. ASSUME NEW c \in Call, PassThrough(c) PROVE OnceInv'
  <2>1. PICK a \in answers : a.for = This(c) /\ Reply(c, a.status)
    BY <1>4 DEF PassThrough
  <2>2. \A j \in jobs : j[1] # c
    <3>1. ASSUME NEW j \in jobs, j[1] = c PROVE j = a.for
      BY <2>1, <3>1, PairsAreEqual DEF This, LastTryOnly
    <3> QED
      BY <3>1 DEF EffectEndsTry
  <2>3. LastTryOnly' /\ EffectEndsTry'
    BY <1>4, <2>1 DEF PassThrough, Reply, LastTryOnly, EffectEndsTry
  <2>4. RepliesAreTrue'
    BY <1>4, <2>1, <2>2 DEF PassThrough, Reply, RepliesAreTrue, EffectEndsTry, NoReply, Answers, This
  <2> QED
    BY <2>3, <2>4
<1>5. ASSUME NEW c \in Call, BadGateway(c) PROVE OnceInv'
  BY <1>5 DEF BadGateway, Reply, LastTryOnly, EffectEndsTry, RepliesAreTrue, NoReply
<1>6. ASSUME NEW c \in Call, Retry(c) PROVE OnceInv'
  <2>1. reply[c] = 503
    BY <1>6 DEF Retry, Statuses, NoReply
  <2>2. effects[c] = 0 /\ (\A j \in jobs : j[1] # c) /\ (\A a \in answers : a.for[1] # c)
    BY <2>1 DEF RepliesAreTrue
  <2> QED
    BY <1>6, <2>2 DEF Retry, LastTryOnly, EffectEndsTry, RepliesAreTrue, NoReply
<1>7. ASSUME NEW c \in Call, NEW p \in Path, NEW t \in Token, Ask(c, p, t) PROVE OnceInv'
  <2>1. effects[c] = 0 /\ (\A j \in jobs : j[1] # c) /\ (\A a \in answers : a.for[1] # c)
    BY <1>7 DEF Ask, LastTryOnly, EffectEndsTry
  <2> QED
    BY <1>7, <2>1 DEF Ask, LastTryOnly, EffectEndsTry, RepliesAreTrue, NoReply
<1>8. ASSUME NEW j \in jobs, Handle(j[1], j[2]) PROVE OnceInv'
  <2>1. PICK c \in Call, n \in Nat : j = <<c, n>> /\ Handle(c, n)
    BY <1>8
  <2>2. PICK status \in {200, 403, 500} :
          /\ answers' = answers \cup {[for |-> j, status |-> status]}
          /\ \/ status # 403 /\ effects' = [effects EXCEPT ![c] = @ + 1]
             \/ status # 200 /\ UNCHANGED effects
    BY <2>1 DEF Handle
  <2>3. /\ jobs' = jobs \ {j} /\ UNCHANGED <<tries, pc, reply>>
        /\ n = tries[c] /\ pc[c] \in Reached /\ effects[c] = 0
    BY <2>1 DEF Handle, LastTryOnly, EffectEndsTry
  <2>4. \A k \in jobs' : k[1] # c
    BY <2>1, <2>3, PairsAreEqual DEF LastTryOnly
  <2>5. \A a \in answers : a.for[1] # c
    <3>1. ASSUME NEW a \in answers, a.for[1] = c PROVE a.for = j
      BY <2>1, <2>3, <3>1, PairsAreEqual DEF LastTryOnly
    <3> QED
      BY <3>1 DEF EffectEndsTry
  <2>6. LastTryOnly'
    BY <2>1, <2>2, <2>3 DEF LastTryOnly
  <2>7. EffectEndsTry'
    BY <2>1, <2>2, <2>3, <2>4, <2>5 DEF EffectEndsTry
  <2>8. RepliesAreTrue'
    BY <2>1, <2>2, <2>3, <2>5 DEF RepliesAreTrue
  <2> QED
    BY <2>6, <2>7, <2>8
<1>9. ASSUME NEW s \in Service, Crash(s) \/ Restart(s) PROVE OnceInv'
  BY <1>9 DEF Crash, Restart, LastTryOnly, EffectEndsTry, RepliesAreTrue
<1>10. CASE UNCHANGED vars
  BY <1>10 DEF vars, LastTryOnly, EffectEndsTry, RepliesAreTrue
<1> QED
  BY <1>2, <1>3, <1>4, <1>5, <1>6, <1>7, <1>8, <1>9, <1>10 DEF Next, GatewayStep

LEMMA OnceInvariant == ASSUME RetryOn \subseteq {503} PROVE Spec => []OnceInv
<1>1. Init => OnceInv
  BY InitTypeOK DEF Init, OnceInv, LastTryOnly, EffectEndsTry, RepliesAreTrue, NoReply
<1>2. OnceInv /\ [Next]_vars => OnceInv'
  BY OnceStep
<1> QED
  BY <1>1, <1>2, PTL DEF Spec

(* Clients that send a call again after 503, and after nothing else, have  *)
(* it done once at most: a refused connection is told from one that was    *)
(* lost, and only the last try can still be with a service.                *)
THEOREM AtMostOnceAlways == ASSUME RetryOn \subseteq {503} PROVE Spec => []AtMostOnce
<1>1. OnceInv => AtMostOnce
  BY DEF OnceInv, TypeOK, EffectEndsTry, AtMostOnce
<1> QED
  BY <1>1, OnceInvariant, PTL

(* For the same clients 200, 401, 403 and 503 say what became of the call, *)
(* and it stays so.                                                        *)
THEOREM TruthfulAlways == ASSUME RetryOn \subseteq {503} PROVE Spec => []Truthful
<1>1. OnceInv => Truthful
  BY DEF OnceInv, RepliesAreTrue, Truthful
<1> QED
  BY <1>1, OnceInvariant, PTL
===============================================================================
