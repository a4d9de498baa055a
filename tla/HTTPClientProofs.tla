--------------------------- MODULE HTTPClientProofs ---------------------------
(***************************************************************************)
(* Proofs about HTTPClient, for any number of writers, shared clients or   *)
(* their own, any lists of tokens and any number of sessions.              *)
(***************************************************************************)
EXTENDS HTTPClient, WellFoundedInduction, TLAPS

ArgOK == /\ arg.tokens \in Seq(Kinds) /\ arg.client \in ClientMaps
         /\ arg.user \in BOOLEAN /\ arg.extra \in BOOLEAN /\ arg.proxy \in BOOLEAN
         /\ arg.location \in BOOLEAN /\ arg.ownAuth \in BOOLEAN

Places == {"idle", "fetching", "fetched", "posting", "done", "rejected", "failed"}

Opened == 0..opened

\* Sessions are those that the service has opened.
SessionsOK ==
  /\ opened \in 0..MaxSessions
  /\ alive \subseteq 1..opened
  /\ jar \in [Clients -> Opened]
  /\ csrf \in [Writers -> Opened]
  /\ DOMAIN request = Writers /\ DOMAIN response = Writers
  /\ \A w \in Writers : request[w].cookie \in Opened /\ response[w].session \in Opened

\* A writer has got where it is by way of an answer.
FlowOK ==
  /\ pc \in [Writers -> Places]
  /\ \A w \in Writers :
       /\ pc[w] \in {"idle", "fetching"} => csrf[w] = 0
       /\ pc[w] \in {"fetched", "posting"} => csrf[w] # 0

Status(w) == response[w].status

\* The service carries a write out when it answers that it has.
AppliedAt(w) ==
  /\ applied[w] =< 1
  /\ pc[w] \in {"idle", "fetching", "fetched"} => applied[w] = 0
  /\ pc[w] = "posting" => Status(w) \in {"none", "ok", "csrf_required"}
  /\ pc[w] = "posting" /\ Status(w) # "ok" => applied[w] = 0
  /\ pc[w] = "posting" /\ Status(w) = "ok" => applied[w] = 1
  /\ pc[w] = "done" => applied[w] = 1

AppliedOK == applied \in [Writers -> Nat] /\ \A w \in Writers : AppliedAt(w)

\* Somebody who uses client x has been given the token of session s.
Known(x, s) == \E v \in Writers : arg.client[v] = x /\ csrf[v] = s

\* The same after a step.
KnownNext(x, s) == \E v \in Writers : arg'.client[v] = x /\ csrf'[v] = s

\* A jar holds nothing, or a session of which a user of the client has the
\* token; and not nothing once one has.
JarOK ==
  /\ \A x \in Clients : jar[x] # 0 => Known(x, jar[x])
  /\ \A w \in Writers : csrf[w] # 0 => jar[arg.client[w]] # 0

\* What the cookie of a request says of the jar, and of the answer.
CookieAt(w) ==
  /\ pc[w] = "fetching" /\ request[w].cookie # 0 => jar[arg.client[w]] # 0
  /\ pc[w] = "fetching" /\ Status(w) # "none" /\ response[w].session # 0 /\ ~response[w].setCookie
       => jar[arg.client[w]] # 0
  /\ pc[w] = "fetching" /\ Status(w) # "none" /\ response[w].setCookie => response[w].session # 0
  /\ pc[w] = "posting" => request[w].cookie # 0 /\ Known(arg.client[w], request[w].cookie)
  /\ pc[w] = "posting" /\ Status(w) # "none" => ~response[w].setCookie
  /\ pc[w] = "posting" /\ Status(w) = "csrf_required" =>
       csrf[w] # request[w].cookie \/ csrf[w] \notin alive

CookieOK == \A w \in Writers : CookieAt(w)

FetchHeader == RoundTrip(Header("X-CSRF-Token", "Fetch"))
PostHeader  == RoundTrip(AddDefaults(Header("X-CSRF-Token", "csrf"), Own))

\* A request is one of the two, through the chain of RoundTrippers.
RequestOK ==
  \A w \in Writers :
    \/ request[w] = NoRequest
    \/ request[w].header = FetchHeader
    \/ request[w].header = PostHeader

Inv == ArgOK /\ SessionsOK /\ FlowOK /\ AppliedOK /\ JarOK /\ CookieOK /\ RequestOK
-----------------------------------------------------------------------------
\* The client of a writer is one of the clients.
LEMMA ClientType ==
  ASSUME ArgOK
  PROVE  \A w \in Writers : arg.client[w] \in Clients
<1> SUFFICES ASSUME NEW w \in Writers PROVE arg.client[w] \in Clients
  OBVIOUS
<1>1. arg.client \in ClientMaps /\ DOMAIN arg.client = Writers
  BY ClientAssumption DEF ArgOK
<1>2. arg.client[w] \in Range(arg.client)
  BY <1>1 DEF Range
<1> QED
  BY <1>1, <1>2 DEF Clients

\* The headers of the two requests are the call's.
LEMMA ChainKept ==
  ASSUME UNCHANGED arg
  PROVE  FetchHeader' = FetchHeader /\ PostHeader' = PostHeader /\ ArgOK' = ArgOK
<1>1. AuthHeader' = AuthHeader
  BY DEF AuthHeader, BasicHeader
<1>2. ExtraHeaders' = ExtraHeaders /\ Own' = Own
  BY DEF ExtraHeaders, Own
<1>3. ArgOK' = ArgOK
  BY DEF ArgOK
<1>4. FetchHeader' = FetchHeader
  BY <1>1, <1>2 DEF FetchHeader, RoundTrip, ProxyAuth
<1>5. PostHeader' = PostHeader
  BY <1>1, <1>2 DEF PostHeader, RoundTrip, ProxyAuth
<1> QED
  BY <1>3, <1>4, <1>5

\* A token that is known stays known: no writer fetches twice.
LEMMA KnownKept ==
  ASSUME UNCHANGED arg,
         \A v \in Writers : csrf[v] # 0 => csrf'[v] = csrf[v]
  PROVE  \A x, s : s # 0 /\ Known(x, s) => KnownNext(x, s)
  BY DEF Known, KnownNext

\* What holds of the cookie of a writer that takes no part in a step.
LEMMA CookieKept ==
  ASSUME ArgOK, CookieOK, NEW v \in Writers, UNCHANGED arg,
         pc'[v] = pc[v], request'[v] = request[v], response'[v] = response[v], csrf'[v] = csrf[v],
         \A s : s # 0 /\ Known(arg.client[v], s) => KnownNext(arg.client[v], s),
         jar[arg.client[v]] # 0 => jar'[arg.client[v]] # 0,
         csrf[v] \notin alive => csrf[v] \notin alive' \/ pc[v] # "posting"
  PROVE  CookieAt(v)'
<1> DEFINE c == request[v].cookie
           x == arg.client[v]
<1>1. CookieAt(v)
  BY DEF CookieOK
<1>2. /\ Status(v)' = Status(v) /\ request'[v].cookie = c /\ arg'.client[v] = x
  BY DEF Status
<1>3. pc[v] = "posting" => c # 0 /\ KnownNext(x, c)
  BY <1>1 DEF CookieAt
<1>4. pc'[v] = "posting" => request'[v].cookie # 0 /\ KnownNext(arg'.client[v], request'[v].cookie)
  BY <1>2, <1>3
<1>5. /\ pc'[v] = "fetching" /\ request'[v].cookie # 0 => jar'[arg'.client[v]] # 0
      /\ pc'[v] = "fetching" /\ Status(v)' # "none" /\ response'[v].session # 0
           /\ ~response'[v].setCookie => jar'[arg'.client[v]] # 0
      /\ pc'[v] = "fetching" /\ Status(v)' # "none" /\ response'[v].setCookie => response'[v].session # 0
      /\ pc'[v] = "posting" /\ Status(v)' # "none" => ~response'[v].setCookie
  BY <1>1, <1>2 DEF CookieAt
<1>6. pc'[v] = "posting" /\ Status(v)' = "csrf_required" =>
        csrf'[v] # request'[v].cookie \/ csrf'[v] \notin alive'
  BY <1>1, <1>2 DEF CookieAt
<1> QED
  BY <1>4, <1>5, <1>6 DEF CookieAt, Known, KnownNext

\* What holds of the write of a writer that takes no part in a step.
LEMMA AppliedKept ==
  ASSUME NEW v \in Writers, AppliedOK, pc'[v] = pc[v] \/ pc'[v] = "failed",
         response'[v] = response[v], applied'[v] = applied[v]
  PROVE  AppliedAt(v)'
<1>1. AppliedAt(v)
  BY DEF AppliedOK
<1> QED
  BY <1>1 DEF AppliedAt, Status

\* Nothing happens to the tokens and the jars.
LEMMA JarKept == JarOK /\ UNCHANGED <<arg, jar, csrf>> => JarOK'
  BY DEF JarOK, Known
-----------------------------------------------------------------------------
\* A writer starts with nothing sent and nothing known.
LEMMA InvInit == Init => Inv
<1> SUFFICES ASSUME Init PROVE Inv
  OBVIOUS
<1>1. /\ jar = [x \in Clients |-> 0] /\ pc = [w \in Writers |-> "idle"]
      /\ csrf = [w \in Writers |-> 0] /\ request = [w \in Writers |-> NoRequest]
      /\ response = [w \in Writers |-> NoResponse] /\ alive = {} /\ opened = 0
      /\ applied = [w \in Writers |-> 0]
  BY DEF Init
<1>2. ArgOK
  BY ClientAssumption DEF Init, ArgOK
<1>3. SessionsOK
  <2>1. 0 \in 0..MaxSessions /\ 0 \in 0..0
    BY ClientAssumption
  <2>2. \A w \in Writers : request[w].cookie = 0 /\ response[w].session = 0
    BY <1>1 DEF NoRequest, NoResponse
  <2> QED
    BY <1>1, <2>1, <2>2 DEF SessionsOK, Opened
<1>4. FlowOK
  BY <1>1 DEF FlowOK, Places
<1>5. AppliedOK
  BY <1>1 DEF AppliedOK, AppliedAt
<1>6. JarOK
  BY <1>1, <1>2, ClientType DEF JarOK
<1>7. CookieOK
  BY <1>1 DEF CookieOK, CookieAt, NoRequest
<1>8. RequestOK
  BY <1>1 DEF RequestOK
<1> QED
  BY <1>2, <1>3, <1>4, <1>5, <1>6, <1>7, <1>8 DEF Inv

\* A request is sent with the cookie in the jar.
LEMMA DoInv ==
  ASSUME Inv, NEW w \in Writers, NEW header, NEW label, Do(w, header, label),
         \/ /\ pc[w] = "idle" /\ label = "fetching"
            /\ header = Header("X-CSRF-Token", "Fetch")
         \/ /\ pc[w] = "fetched" /\ label = "posting"
            /\ header = AddDefaults(Header("X-CSRF-Token", "csrf"), Own)
  PROVE  Inv'
<1> DEFINE x == arg.client[w]
<1>0. ArgOK /\ SessionsOK /\ FlowOK /\ AppliedOK /\ JarOK /\ CookieOK /\ RequestOK
  BY DEF Inv
<1>1. UNCHANGED <<arg, jar, csrf, alive, opened, applied>>
  BY DEF Do
<1>2. /\ request' = [request EXCEPT ![w] = [header |-> RoundTrip(header), cookie |-> jar[x]]]
      /\ response' = [response EXCEPT ![w] = NoResponse]
      /\ pc' = [pc EXCEPT ![w] = label]
  BY DEF Do
<1>3. \A v \in Writers :
        /\ pc'[v] = IF v = w THEN label ELSE pc[v]
        /\ v # w => request'[v] = request[v] /\ response'[v] = response[v]
        /\ request'[w].cookie = jar[x] /\ request'[w].header = RoundTrip(header)
        /\ response'[w].status = "none" /\ response'[w].session = 0 /\ response'[w].setCookie = FALSE
  BY <1>0, <1>2 DEF SessionsOK, FlowOK, NoResponse
<1>4. x \in Clients
  BY <1>0, ClientType
<1>5. ArgOK' /\ FetchHeader' = FetchHeader /\ PostHeader' = PostHeader
  BY <1>0, <1>1, ChainKept
<1>6. SessionsOK'
  <2>1. jar[x] \in Opened /\ 0 \in Opened
    BY <1>0, <1>4 DEF SessionsOK, Opened
  <2>2. DOMAIN request' = Writers /\ DOMAIN response' = Writers
    BY <1>0, <1>2 DEF SessionsOK
  <2>3. Opened' = Opened
    BY <1>1 DEF Opened
  <2> QED
    BY <1>0, <1>1, <1>3, <2>1, <2>2, <2>3 DEF SessionsOK
<1>7. FlowOK'
  <2>1. pc' \in [Writers -> Places]
    BY <1>0, <1>2 DEF FlowOK, Places
  <2> QED
    BY <1>0, <1>1, <1>3, <2>1 DEF FlowOK
<1>8. AppliedOK'
  <2>1. ASSUME NEW v \in Writers, v # w PROVE AppliedAt(v)'
    BY <1>0, <1>1, <1>3, <2>1, AppliedKept
  <2>2. AppliedAt(w)'
    <3>1. applied[w] = 0
      BY <1>0 DEF AppliedOK, AppliedAt
    <3>2. applied'[w] = 0 /\ applied'[w] =< 1 /\ pc'[w] = label /\ Status(w)' = "none"
      BY <1>1, <1>3, <3>1 DEF Status
    <3> QED
      BY <3>2 DEF AppliedAt
  <2> QED
    BY <1>0, <1>1, <2>1, <2>2 DEF AppliedOK
<1>9. JarOK'
  BY <1>0, <1>1, JarKept
<1>10. CookieOK'
  <2>1. ASSUME NEW v \in Writers, v # w PROVE CookieAt(v)'
    <3>1. \A t : t # 0 /\ Known(arg.client[v], t) => KnownNext(arg.client[v], t)
      BY <1>1, KnownKept
    <3> QED
      BY <1>0, <1>1, <1>3, <2>1, <3>1, CookieKept
  <2>2. CookieAt(w)'
    <3>1. pc'[w] = label /\ Status(w)' = "none" /\ request'[w].cookie = jar[x]
      BY <1>3 DEF Status
    <3>2. label = "posting" => jar[x] # 0 /\ Known(x, jar[x])
      <4>1. label = "posting" => csrf[w] # 0
        BY <1>0 DEF FlowOK
      <4> QED
        BY <1>0, <1>4, <4>1 DEF JarOK
    <3> QED
      BY <1>1, <3>1, <3>2 DEF CookieAt, Known
  <2> QED
    BY <2>1, <2>2 DEF CookieOK
<1>11. RequestOK'
  BY <1>0, <1>3, <1>5 DEF RequestOK, FetchHeader, PostHeader
<1> QED
  BY <1>5, <1>6, <1>7, <1>8, <1>9, <1>10, <1>11 DEF Inv

\* A writer gives up: its request is not sent, or its answer is lost.
LEMMA GiveUpInv ==
  ASSUME Inv, NEW w \in Writers, pc' = [pc EXCEPT ![w] = "failed"],
         UNCHANGED <<arg, jar, csrf, request, response, alive, opened, applied>>
  PROVE  Inv'
<1>0. ArgOK /\ SessionsOK /\ FlowOK /\ AppliedOK /\ JarOK /\ CookieOK /\ RequestOK
  BY DEF Inv
<1>1. \A v \in Writers : pc'[v] = IF v = w THEN "failed" ELSE pc[v]
  BY <1>0 DEF FlowOK
<1>2. ArgOK' /\ FetchHeader' = FetchHeader /\ PostHeader' = PostHeader
  BY <1>0, ChainKept
<1>3. SessionsOK'
  BY <1>0 DEF SessionsOK, Opened
<1>4. FlowOK'
  <2>1. pc' \in [Writers -> Places]
    BY <1>0 DEF FlowOK, Places
  <2> QED
    BY <1>0, <1>1, <2>1 DEF FlowOK
<1>5. AppliedOK'
  <2>1. ASSUME NEW v \in Writers PROVE AppliedAt(v)'
    BY <1>0, <1>1, AppliedKept
  <2> QED
    BY <1>0, <2>1 DEF AppliedOK
<1>6. JarOK'
  BY <1>0, JarKept
<1>7. CookieOK'
  <2>1. ASSUME NEW v \in Writers, v # w PROVE CookieAt(v)'
    <3>1. \A t : t # 0 /\ Known(arg.client[v], t) => KnownNext(arg.client[v], t)
      BY KnownKept
    <3> QED
      BY <1>0, <1>1, <2>1, <3>1, CookieKept
  <2>2. CookieAt(w)'
    <3>1. pc'[w] = "failed"
      BY <1>1
    <3> QED
      BY <3>1 DEF CookieAt
  <2> QED
    BY <2>1, <2>2 DEF CookieOK
<1>8. RequestOK'
  BY <1>0, <1>2 DEF RequestOK
<1> QED
  BY <1>2, <1>3, <1>4, <1>5, <1>6, <1>7, <1>8 DEF Inv

\* FetchCSRF returns, and the response's cookie is in the jar.
LEMMA FetchDoneInv == ASSUME Inv, NEW w \in Writers, FetchDone(w) PROVE Inv'
<1> DEFINE x == arg.client[w]
           s == response[w].session
           label == IF HasToken(response[w]) THEN "fetched" ELSE "failed"
<1>0. ArgOK /\ SessionsOK /\ FlowOK /\ AppliedOK /\ JarOK /\ CookieOK /\ RequestOK
  BY DEF Inv
<1>1. /\ pc[w] = "fetching" /\ Status(w) # "none"
      /\ UNCHANGED <<arg, request, response, alive, opened, applied>>
      /\ jar' = IF response[w].setCookie THEN [jar EXCEPT ![x] = s] ELSE jar
      /\ csrf' = [csrf EXCEPT ![w] = s]
      /\ pc' = [pc EXCEPT ![w] = label]
  BY DEF FetchDone, StoreCookie, Status
<1>2. x \in Clients /\ s \in Opened /\ (label = "fetched" <=> s # 0) /\ label \in {"fetched", "failed"}
  BY <1>0, ClientType DEF SessionsOK, HasToken
<1>3. \A v \in Writers : /\ pc'[v] = IF v = w THEN label ELSE pc[v]
                         /\ csrf'[v] = IF v = w THEN s ELSE csrf[v]
  BY <1>0, <1>1 DEF FlowOK, SessionsOK
<1>4. csrf[w] = 0
  BY <1>0, <1>1 DEF FlowOK
<1>5. ArgOK' /\ FetchHeader' = FetchHeader /\ PostHeader' = PostHeader
  BY <1>0, <1>1, ChainKept
<1>6. \A y, t : t # 0 /\ Known(y, t) => KnownNext(y, t)
  BY <1>1, <1>3, <1>4, KnownKept
<1>7. \A y \in Clients : jar'[y] = IF y = x /\ response[w].setCookie THEN s ELSE jar[y]
  BY <1>0, <1>1, <1>2 DEF SessionsOK
<1>8. response[w].setCookie => s # 0
  BY <1>0, <1>1 DEF CookieOK, CookieAt
<1>9. \A y \in Clients : jar[y] # 0 => jar'[y] # 0
  BY <1>7, <1>8
<1>10. s # 0 => jar'[x] # 0 /\ KnownNext(x, s)
  <2> SUFFICES ASSUME s # 0 PROVE jar'[x] # 0 /\ KnownNext(x, s)
    OBVIOUS
  <2>1. KnownNext(x, s)
    BY <1>1, <1>3 DEF KnownNext
  <2>2. CASE response[w].setCookie
    BY <1>2, <1>7, <2>1, <2>2
  <2>3. CASE ~response[w].setCookie
    <3>1. jar[x] # 0
      BY <1>0, <1>1, <2>3 DEF CookieOK, CookieAt
    <3> QED
      BY <1>2, <1>9, <2>1, <3>1
  <2> QED
    BY <2>2, <2>3
<1>11. SessionsOK'
  <2>1. jar' \in [Clients -> Opened] /\ csrf' \in [Writers -> Opened]
    BY <1>0, <1>1, <1>2 DEF SessionsOK
  <2>2. Opened' = Opened
    BY <1>1 DEF Opened
  <2> QED
    BY <1>0, <1>1, <2>1, <2>2 DEF SessionsOK
<1>12. FlowOK'
  <2>1. pc' \in [Writers -> Places]
    BY <1>0, <1>1, <1>2 DEF FlowOK, Places
  <2> QED
    BY <1>0, <1>2, <1>3, <2>1 DEF FlowOK
<1>13. AppliedOK'
  <2>1. ASSUME NEW v \in Writers, v # w PROVE AppliedAt(v)'
    BY <1>0, <1>1, <1>3, <2>1, AppliedKept
  <2>2. AppliedAt(w)'
    <3>1. applied[w] = 0
      BY <1>0, <1>1 DEF AppliedOK, AppliedAt
    <3>2. applied'[w] = 0 /\ applied'[w] =< 1 /\ pc'[w] \in {"fetched", "failed"}
      BY <1>1, <1>2, <1>3, <3>1
    <3> QED
      BY <3>2 DEF AppliedAt
  <2> QED
    BY <1>0, <1>1, <2>1, <2>2 DEF AppliedOK
<1>14. JarOK'
  <2>1. ASSUME NEW y \in Clients, jar'[y] # 0 PROVE KnownNext(y, jar'[y])
    <3>1. CASE y = x /\ response[w].setCookie
      BY <1>7, <1>8, <1>10, <3>1
    <3>2. CASE ~(y = x /\ response[w].setCookie)
      <4>1. jar'[y] = jar[y]
        BY <1>7, <3>2
      <4>2. Known(y, jar[y])
        BY <1>0, <2>1, <4>1 DEF JarOK
      <4> QED
        BY <1>6, <2>1, <4>1, <4>2
    <3> QED
      BY <3>1, <3>2
  <2>2. ASSUME NEW v \in Writers, csrf'[v] # 0 PROVE jar'[arg.client[v]] # 0
    <3>1. CASE v = w
      BY <1>3, <1>10, <2>2, <3>1
    <3>2. CASE v # w
      <4>1. jar[arg.client[v]] # 0
        BY <1>0, <1>3, <2>2, <3>2 DEF JarOK
      <4> QED
        BY <1>0, <1>9, <4>1, ClientType
    <3> QED
      BY <3>1, <3>2
  <2>3. \A y \in Clients : jar'[y] # 0 => KnownNext(y, jar'[y])
    BY <2>1
  <2> QED
    BY <1>1, <2>2, <2>3 DEF JarOK, Known, KnownNext
<1>15. CookieOK'
  <2>1. ASSUME NEW v \in Writers, v # w PROVE CookieAt(v)'
    <3>1. arg.client[v] \in Clients
      BY <1>0, ClientType
    <3>2. jar[arg.client[v]] # 0 => jar'[arg.client[v]] # 0
      BY <1>9, <3>1
    <3> QED
      BY <1>0, <1>1, <1>3, <1>6, <2>1, <3>2, CookieKept
  <2>2. CookieAt(w)'
    BY <1>2, <1>3 DEF CookieAt
  <2> QED
    BY <2>1, <2>2 DEF CookieOK
<1>16. RequestOK'
  BY <1>0, <1>1, <1>5 DEF RequestOK
<1> QED
  BY <1>5, <1>11, <1>12, <1>13, <1>14, <1>15, <1>16 DEF Inv

\* The write's response is handed over.
LEMMA PostDoneInv == ASSUME Inv, NEW w \in Writers, PostDone(w) PROVE Inv'
<1> DEFINE label == IF response[w].status = "ok" THEN "done" ELSE "rejected"
<1>0. ArgOK /\ SessionsOK /\ FlowOK /\ AppliedOK /\ JarOK /\ CookieOK /\ RequestOK
  BY DEF Inv
<1>1. /\ pc[w] = "posting" /\ Status(w) # "none"
      /\ UNCHANGED <<arg, csrf, request, response, alive, opened, applied>>
      /\ pc' = [pc EXCEPT ![w] = label]
  BY DEF PostDone, Status
<1>2. UNCHANGED jar
  <2>1. ~response[w].setCookie
    BY <1>0, <1>1 DEF CookieOK, CookieAt
  <2> QED
    BY <2>1 DEF PostDone, StoreCookie
<1>3. \A v \in Writers : pc'[v] = IF v = w THEN label ELSE pc[v]
  BY <1>0, <1>1 DEF FlowOK
<1>4. ArgOK' /\ FetchHeader' = FetchHeader /\ PostHeader' = PostHeader
  BY <1>0, <1>1, ChainKept
<1>5. SessionsOK'
  BY <1>0, <1>1, <1>2 DEF SessionsOK, Opened
<1>6. FlowOK'
  <2>1. pc' \in [Writers -> Places]
    BY <1>0, <1>1 DEF FlowOK, Places
  <2> QED
    BY <1>0, <1>1, <1>3, <2>1 DEF FlowOK
<1>7. AppliedOK'
  <2>1. ASSUME NEW v \in Writers, v # w PROVE AppliedAt(v)'
    BY <1>0, <1>1, <1>3, <2>1, AppliedKept
  <2>2. AppliedAt(w)'
    <3>1. applied[w] =< 1 /\ (label = "done" => applied[w] = 1)
      BY <1>0, <1>1 DEF AppliedOK, AppliedAt, Status
    <3>2. applied'[w] =< 1 /\ (label = "done" => applied'[w] = 1) /\ pc'[w] = label
      BY <1>1, <1>3, <3>1
    <3> QED
      BY <3>2 DEF AppliedAt
  <2> QED
    BY <1>0, <1>1, <2>1, <2>2 DEF AppliedOK
<1>8. JarOK'
  BY <1>0, <1>1, <1>2, JarKept
<1>9. CookieOK'
  <2>1. ASSUME NEW v \in Writers, v # w PROVE CookieAt(v)'
    <3>1. \A t : t # 0 /\ Known(arg.client[v], t) => KnownNext(arg.client[v], t)
      BY <1>1, KnownKept
    <3> QED
      BY <1>0, <1>1, <1>2, <1>3, <2>1, <3>1, CookieKept
  <2>2. CookieAt(w)'
    <3>1. pc'[w] \in {"done", "rejected"}
      BY <1>3
    <3> QED
      BY <3>1 DEF CookieAt
  <2> QED
    BY <2>1, <2>2 DEF CookieOK
<1>10. RequestOK'
  BY <1>0, <1>1, <1>4 DEF RequestOK
<1> QED
  BY <1>4, <1>5, <1>6, <1>7, <1>8, <1>9, <1>10 DEF Inv

\* The service answers a GET.
LEMMA ServeFetchInv == ASSUME Inv, NEW w \in Writers, ServeFetch(w) PROVE Inv'
<1> DEFINE x == arg.client[w]
           c == request[w].cookie
<1>0. ArgOK /\ SessionsOK /\ FlowOK /\ AppliedOK /\ JarOK /\ CookieOK /\ RequestOK
  BY DEF Inv
<1>1. /\ pc[w] = "fetching" /\ Status(w) = "none"
      /\ UNCHANGED <<arg, jar, pc, csrf, request, applied>>
  BY DEF ServeFetch, Pending, Status, Respond
<1>2. opened \in Nat /\ MaxSessions \in Nat /\ c \in Opened /\ alive \subseteq 1..opened
  BY <1>0, ClientAssumption DEF SessionsOK
<1>3. PICK st \in {"ok", "refused"}, s \in Nat, new \in BOOLEAN :
        /\ response' = [response EXCEPT ![w] = [status |-> st, session |-> s, setCookie |-> new]]
        /\ new => s # 0
        /\ s # 0 /\ ~new => c # 0
        /\ opened' \in {opened, opened + 1} /\ opened' =< MaxSessions /\ s =< opened'
        /\ alive' \subseteq alive \cup {opened + 1} /\ alive' \subseteq 1..opened'
  <2>1. CASE c \in alive /\ Respond(w, "ok", c, FALSE) /\ UNCHANGED <<alive, opened>>
    <3>1. c # 0 /\ c \in Nat /\ c =< opened /\ opened =< MaxSessions
      BY <1>0, <1>2, <2>1 DEF SessionsOK, Opened
    <3>2. response' = [response EXCEPT ![w] = [status |-> "ok", session |-> c, setCookie |-> FALSE]]
      BY <2>1 DEF Respond
    <3> QED
      BY <1>2, <2>1, <3>1, <3>2
  <2>2. CASE /\ opened < MaxSessions /\ Respond(w, "ok", opened + 1, TRUE)
             /\ opened' = opened + 1 /\ alive' = alive \cup {opened + 1}
    <3>1. opened + 1 \in Nat /\ opened + 1 # 0 /\ opened + 1 =< MaxSessions /\ opened + 1 =< opened'
      BY <1>2, <2>2
    <3>2. response' = [response EXCEPT ![w] = [status |-> "ok", session |-> opened + 1, setCookie |-> TRUE]]
      BY <2>2 DEF Respond
    <3>3. alive' \subseteq 1..opened' /\ alive' \subseteq alive \cup {opened + 1} /\ opened' =< MaxSessions
      BY <1>2, <2>2, <3>1
    <3> QED
      BY <2>2, <3>1, <3>2, <3>3
  <2>3. CASE Respond(w, "refused", 0, FALSE) /\ UNCHANGED <<alive, opened>>
    <3>1. 0 \in Nat /\ 0 =< opened /\ opened =< MaxSessions
      BY <1>0, <1>2 DEF SessionsOK
    <3>2. response' = [response EXCEPT ![w] = [status |-> "refused", session |-> 0, setCookie |-> FALSE]]
      BY <2>3 DEF Respond
    <3> QED
      BY <1>2, <2>3, <3>1, <3>2
  <2> QED
    BY <2>1, <2>2, <2>3 DEF ServeFetch
<1>4. \A v \in Writers : v # w => response'[v] = response[v]
  BY <1>0, <1>3 DEF SessionsOK
<1>5. response'[w].session = s /\ response'[w].setCookie = new
  <2>1. response'[w] = [status |-> st, session |-> s, setCookie |-> new]
    BY <1>0, <1>3 DEF SessionsOK
  <2> QED
    BY <2>1
<1>6. ArgOK' /\ FetchHeader' = FetchHeader /\ PostHeader' = PostHeader
  BY <1>0, <1>1, ChainKept
<1>7. SessionsOK'
  <2>1. opened' \in Nat /\ opened =< opened' /\ Opened \subseteq Opened' /\ s \in Opened'
    BY <1>2, <1>3 DEF Opened
  <2>2. opened' \in 0..MaxSessions
    BY <1>2, <1>3, <2>1
  <2>3. DOMAIN response' = Writers
    BY <1>0, <1>3 DEF SessionsOK
  <2>4. \A v \in Writers : response'[v].session \in Opened'
    BY <1>0, <1>4, <1>5, <2>1 DEF SessionsOK
  <2>5. jar' \in [Clients -> Opened'] /\ csrf' \in [Writers -> Opened']
    BY <1>0, <1>1, <2>1 DEF SessionsOK
  <2>6. \A v \in Writers : request'[v].cookie \in Opened'
    BY <1>0, <1>1, <2>1 DEF SessionsOK
  <2> QED
    BY <1>0, <1>1, <1>3, <2>2, <2>3, <2>4, <2>5, <2>6 DEF SessionsOK
<1>8. FlowOK'
  BY <1>0, <1>1 DEF FlowOK
<1>9. AppliedOK'
  <2>1. ASSUME NEW v \in Writers, v # w PROVE AppliedAt(v)'
    BY <1>0, <1>1, <1>4, <2>1, AppliedKept
  <2>2. AppliedAt(w)'
    BY <1>0, <1>1 DEF AppliedOK, AppliedAt
  <2> QED
    BY <1>0, <1>1, <2>1, <2>2 DEF AppliedOK
<1>10. JarOK'
  BY <1>0, <1>1, JarKept
<1>11. CookieOK'
  <2>1. ASSUME NEW v \in Writers, v # w PROVE CookieAt(v)'
    <3>1. \A t : t # 0 /\ Known(arg.client[v], t) => KnownNext(arg.client[v], t)
      BY <1>1, KnownKept
    <3>2. csrf[v] \notin alive => csrf[v] \notin alive'
      <4>1. csrf[v] \in Opened
        BY <1>0 DEF SessionsOK
      <4>2. csrf[v] # opened + 1
        BY <1>2, <4>1 DEF Opened
      <4> QED
        BY <1>3, <4>2
    <3> QED
      BY <1>0, <1>1, <1>4, <2>1, <3>1, <3>2, CookieKept
  <2>2. CookieAt(w)'
    <3>1. c # 0 => jar[x] # 0
      BY <1>0, <1>1 DEF CookieOK, CookieAt
    <3> QED
      BY <1>1, <1>3, <1>5, <3>1 DEF CookieAt
  <2> QED
    BY <2>1, <2>2 DEF CookieOK
<1>12. RequestOK'
  BY <1>0, <1>1, <1>6 DEF RequestOK
<1> QED
  BY <1>6, <1>7, <1>8, <1>9, <1>10, <1>11, <1>12 DEF Inv

\* The service carries out a POST, or refuses it for its token.
LEMMA ServePostInv == ASSUME Inv, NEW w \in Writers, ServePost(w) PROVE Inv'
<1>0. ArgOK /\ SessionsOK /\ FlowOK /\ AppliedOK /\ JarOK /\ CookieOK /\ RequestOK
  BY DEF Inv
<1>1. /\ pc[w] = "posting" /\ Status(w) = "none"
      /\ UNCHANGED <<arg, jar, pc, csrf, request, alive, opened>>
  BY DEF ServePost, Pending, Status, Respond
<1>2. PICK st \in {"ok", "csrf_required"} :
        /\ response' = [response EXCEPT ![w] = [status |-> st, session |-> 0, setCookie |-> FALSE]]
        /\ applied' = IF st = "ok" THEN [applied EXCEPT ![w] = @ + 1] ELSE applied
        /\ st = "csrf_required" => ~TokenOK(w)
  BY DEF ServePost, Respond
<1>3. \A v \in Writers : v # w => response'[v] = response[v] /\ applied'[v] = applied[v]
  BY <1>0, <1>2 DEF SessionsOK, AppliedOK
<1>4. Status(w)' = st /\ response'[w].session = 0 /\ response'[w].setCookie = FALSE
  <2>1. response'[w] = [status |-> st, session |-> 0, setCookie |-> FALSE]
    BY <1>0, <1>2 DEF SessionsOK
  <2> QED
    BY <2>1 DEF Status
<1>5. ArgOK' /\ FetchHeader' = FetchHeader /\ PostHeader' = PostHeader
  BY <1>0, <1>1, ChainKept
<1>6. SessionsOK'
  <2>1. Opened' = Opened /\ DOMAIN response' = Writers
    BY <1>0, <1>1, <1>2 DEF SessionsOK, Opened
  <2>3. opened \in Nat
    BY <1>0, ClientAssumption DEF SessionsOK
  <2>4. 0 \in Opened
    BY <2>3 DEF Opened
  <2>2. \A v \in Writers : response'[v].session \in Opened
    BY <1>0, <1>3, <1>4, <2>4 DEF SessionsOK
  <2> QED
    BY <1>0, <1>1, <2>1, <2>2 DEF SessionsOK
<1>7. FlowOK'
  BY <1>0, <1>1 DEF FlowOK
<1>8. AppliedOK'
  <2>1. ASSUME NEW v \in Writers, v # w PROVE AppliedAt(v)'
    BY <1>0, <1>1, <1>3, <2>1, AppliedKept
  <2>2. applied[w] = 0
    BY <1>0, <1>1 DEF AppliedOK, AppliedAt
  <2>3. applied'[w] = (IF st = "ok" THEN 1 ELSE 0) /\ applied'[w] =< 1
    <3>1. CASE st = "ok"
      BY <1>0, <1>2, <2>2, <3>1 DEF AppliedOK
    <3>2. CASE st = "csrf_required"
      BY <1>2, <2>2, <3>2
    <3> QED
      BY <3>1, <3>2
  <2>4. AppliedAt(w)'
    <3>1. pc'[w] = "posting" /\ Status(w)' = st
      BY <1>1, <1>4
    <3> QED
      BY <2>3, <3>1 DEF AppliedAt
  <2>5. applied' \in [Writers -> Nat]
    BY <1>0, <1>2 DEF AppliedOK
  <2> QED
    BY <2>1, <2>4, <2>5 DEF AppliedOK
<1>9. JarOK'
  BY <1>0, <1>1, JarKept
<1>10. CookieOK'
  <2>1. ASSUME NEW v \in Writers, v # w PROVE CookieAt(v)'
    <3>1. \A t : t # 0 /\ Known(arg.client[v], t) => KnownNext(arg.client[v], t)
      BY <1>1, KnownKept
    <3> QED
      BY <1>0, <1>1, <1>3, <2>1, <3>1, CookieKept
  <2>2. CookieAt(w)'
    <3>1. request[w].cookie # 0 /\ Known(arg.client[w], request[w].cookie)
      BY <1>0, <1>1 DEF CookieOK, CookieAt
    <3>2. st = "csrf_required" => csrf[w] # request[w].cookie \/ csrf[w] \notin alive
      BY <1>2 DEF TokenOK
    <3> QED
      BY <1>1, <1>4, <3>1, <3>2 DEF CookieAt, Known
  <2> QED
    BY <2>1, <2>2 DEF CookieOK
<1>11. RequestOK'
  BY <1>0, <1>1, <1>5 DEF RequestOK
<1> QED
  BY <1>5, <1>6, <1>7, <1>8, <1>9, <1>10, <1>11 DEF Inv

\* A session ends, or nothing happens.
LEMMA ExpireInv ==
  ASSUME Inv, alive' \subseteq alive,
         UNCHANGED <<arg, jar, pc, csrf, request, response, opened, applied>>
  PROVE  Inv'
<1>0. ArgOK /\ SessionsOK /\ FlowOK /\ AppliedOK /\ JarOK /\ CookieOK /\ RequestOK
  BY DEF Inv
<1>1. ArgOK' /\ FetchHeader' = FetchHeader /\ PostHeader' = PostHeader
  BY <1>0, ChainKept
<1>2. SessionsOK'
  BY <1>0 DEF SessionsOK, Opened
<1>3. FlowOK'
  BY <1>0 DEF FlowOK
<1>4. AppliedOK'
  <2>1. ASSUME NEW v \in Writers PROVE AppliedAt(v)'
    BY <1>0, AppliedKept
  <2> QED
    BY <1>0, <2>1 DEF AppliedOK
<1>5. JarOK'
  BY <1>0, JarKept
<1>6. CookieOK'
  <2>1. ASSUME NEW v \in Writers PROVE CookieAt(v)'
    <3>1. \A t : t # 0 /\ Known(arg.client[v], t) => KnownNext(arg.client[v], t)
      BY KnownKept
    <3> QED
      BY <1>0, <3>1, CookieKept
  <2> QED
    BY <2>1 DEF CookieOK
<1>7. RequestOK'
  BY <1>0, <1>1 DEF RequestOK
<1> QED
  BY <1>1, <1>2, <1>3, <1>4, <1>5, <1>6, <1>7 DEF Inv

\* Every step keeps what the writers, the jars and the service have in common.
LEMMA InvStep == Inv /\ [Next]_vars => Inv'
<1> SUFFICES ASSUME Inv, [Next]_vars PROVE Inv'
  OBVIOUS
<1>1. CASE UNCHANGED vars
  BY <1>1, ExpireInv DEF vars
<1>2. ASSUME NEW w \in Writers, SendFetch(w) \/ SendPost(w)
      PROVE  Inv'
  BY <1>2, DoInv DEF SendFetch, SendPost
<1>3. ASSUME NEW w \in Writers, ProxyTokenFails(w) \/ Lost(w)
      PROVE  Inv'
  BY <1>3, GiveUpInv DEF ProxyTokenFails, Lost, AfterLoss
<1>4. ASSUME NEW w \in Writers, FetchDone(w) \/ PostDone(w) \/ ServeFetch(w) \/ ServePost(w)
      PROVE  Inv'
  BY <1>4, FetchDoneInv, PostDoneInv, ServeFetchInv, ServePostInv
<1>5. ASSUME NEW s \in Sessions, Expire(s)
      PROVE  Inv'
  BY <1>5, ExpireInv DEF Expire
<1> QED
  BY <1>1, <1>2, <1>3, <1>4, <1>5 DEF Next, Finished

\* Every reachable state is as Inv says.
THEOREM Invariant == Spec => []Inv
<1>1. Inv /\ [Next]_vars => Inv'
  BY InvStep
<1> QED
  BY InvInit, <1>1, PTL DEF Spec

\* Types of all variables; a writer posts only with a token.
THEOREM TypeCorrect == Spec => []TypeOK
<1>1. Inv => TypeOK
  <2> SUFFICES ASSUME Inv PROVE TypeOK
    OBVIOUS
  <2>0. SessionsOK /\ FlowOK /\ AppliedOK
    BY DEF Inv
  <2>1. opened \in 0..MaxSessions /\ Opened \subseteq 0..MaxSessions /\ 1..opened \subseteq Sessions
    BY <2>0, ClientAssumption DEF SessionsOK, Opened, Sessions
  <2>2. jar \in [Clients -> 0..MaxSessions] /\ csrf \in [Writers -> 0..MaxSessions]
    BY <2>0, <2>1 DEF SessionsOK
  <2>3. \A w \in Writers : /\ request[w].cookie \in 0..MaxSessions
                           /\ response[w].session \in 0..MaxSessions
    BY <2>0, <2>1 DEF SessionsOK
  <2>4. alive \subseteq Sessions
    BY <2>0, <2>1 DEF SessionsOK
  <2> QED
    BY <2>0, <2>1, <2>2, <2>3, <2>4 DEF TypeOK, FlowOK, AppliedOK, Places
<1> QED
  BY Invariant, <1>1, PTL

\* A write the caller is told of has been carried out once, and no write twice,
\* whatever was lost on the way.
THEOREM WrittenOnceHolds == Spec => []WrittenOnce
<1>1. Inv => WrittenOnce
  BY DEF Inv, AppliedOK, AppliedAt, WrittenOnce
<1> QED
  BY Invariant, <1>1, PTL

\* The token of FetchCSRF suits the writes on the same client until its session
\* has ended, or another user of the client has brought in a session: a write
\* that is refused goes with the cookie of somebody else's token.
THEOREM TokenSuitableHolds == Spec => []TokenSuitable
<1>1. Inv => TokenSuitable
  <2> SUFFICES ASSUME Inv, NEW w \in Writers, pc[w] = "posting",
                      response[w].status = "csrf_required", csrf[w] \in alive
               PROVE  \E v \in Writers \ {w} : /\ arg.client[v] = arg.client[w]
                                               /\ csrf[v] = request[w].cookie
                                               /\ csrf[v] # csrf[w]
    BY DEF TokenSuitable
  <2>1. /\ csrf[w] # request[w].cookie
        /\ Known(arg.client[w], request[w].cookie)
    BY DEF Inv, CookieOK, CookieAt, Status
  <2>2. PICK v \in Writers : arg.client[v] = arg.client[w] /\ csrf[v] = request[w].cookie
    BY <2>1 DEF Known
  <2> QED
    BY <2>1, <2>2
<1> QED
  BY Invariant, <1>1, PTL
-----------------------------------------------------------------------------
\* A set of numbers that is not empty has a least one.
LEMMA LeastNumber == \A T \in SUBSET Nat : T # {} => \E n \in T : \A m \in T : n =< m
<1>1. IsWellFoundedOn(OpToRel(<, Nat), Nat)
  BY NatLessThanWellFounded
<1>2. SUFFICES ASSUME NEW T \in SUBSET Nat, T # {} PROVE \E n \in T : \A m \in T : n =< m
  OBVIOUS
<1>3. PICK n \in T : \A m \in T : ~(<<m, n>> \in OpToRel(<, Nat))
  BY <1>1, <1>2, WFMin
<1>4. \A m \in T : ~(m < n)
  BY <1>3 DEF OpToRel
<1> QED
  BY <1>4

\* The tokens that buildAuthHeader does not pass over.
Good == {i \in 1..Len(arg.tokens) : Usable(arg.tokens[i])}

\* What buildAuthHeader's loop finds from one token on, as a recursion.
LoopFrom(f) ==
  [i \in 1..(Len(arg.tokens) + 1) |->
     IF i > Len(arg.tokens) THEN BasicHeader
     ELSE IF Usable(arg.tokens[i]) THEN TokenHeader(arg.tokens[i])
     ELSE f[i + 1]]

\* The recursion defines a function: from any token on, the loop stops at the
\* next good one or at the end.
LEMMA LoopExists == ArgOK => \E f : f = LoopFrom(f)
<1> SUFFICES ASSUME ArgOK PROVE \E f : f = LoopFrom(f)
  OBVIOUS
<1> DEFINE N == Len(arg.tokens)
           Stops == Good \cup {N + 1}
           At(j) == IF j > N THEN BasicHeader ELSE TokenHeader(arg.tokens[j])
           Stop(i, j) == j \in Stops /\ i =< j /\ \A k \in Stops : i =< k => j =< k
           First(i) == CHOOSE j : Stop(i, j)
           F == [i \in 1..(N + 1) |-> At(First(i))]
<1>1. N \in Nat /\ Stops \in SUBSET Nat /\ \A j \in Stops : j =< N + 1 /\ (j > N <=> j = N + 1)
  BY DEF ArgOK, Good
<1> HIDE DEF N, Stops
<1>2. ASSUME NEW i \in 1..(N + 1) PROVE \E j : Stop(i, j)
  <2> DEFINE T == {j \in Stops : i =< j}
  <2>1. T \in SUBSET Nat /\ N + 1 \in T
    BY <1>1 DEF Stops
  <2>2. PICK j \in T : \A k \in T : j =< k
    BY <2>1, LeastNumber
  <2> QED
    BY <2>2
<1>3. ASSUME NEW i \in 1..(N + 1), NEW j, Stop(i, j) PROVE First(i) = j
  <2>1. ASSUME NEW k, Stop(i, k) PROVE k = j
    <3>1. k =< j /\ j =< k /\ k \in Int /\ j \in Int
      BY <1>1, <1>3, <2>1
    <3> QED
      BY <3>1
  <2>2. Stop(i, First(i))
    BY <1>3
  <2> HIDE DEF Stop, First
  <2> QED
    BY <2>1, <2>2
<1> HIDE DEF First
<1>4. ASSUME NEW i \in 1..(N + 1), i > N PROVE First(i) = N + 1
  <2>1. Stop(i, N + 1)
    BY <1>1, <1>4 DEF Stops
  <2> QED
    BY <1>3, <2>1
<1>5. ASSUME NEW i \in 1..(N + 1), ~(i > N), Usable(arg.tokens[i]) PROVE First(i) = i
  <2>1. i \in Good
    BY <1>1, <1>5 DEF Good, N
  <2>2. Stop(i, i)
    BY <1>1, <2>1 DEF Stops
  <2> QED
    BY <1>3, <2>2
<1>6. ASSUME NEW i \in 1..(N + 1), ~(i > N), ~Usable(arg.tokens[i])
      PROVE  i + 1 \in 1..(N + 1) /\ First(i) = First(i + 1)
  <2>1. i + 1 \in 1..(N + 1)
    BY <1>1, <1>6
  <2>2. i \notin Stops
    BY <1>1, <1>6 DEF Good, Stops
  <2>3. PICK j : Stop(i + 1, j)
    BY <1>2, <2>1
  <2>4. \A k \in Stops : i =< k => i + 1 =< k
    BY <1>1, <2>2
  <2>5. Stop(i, j)
    BY <1>1, <2>3, <2>4
  <2> QED
    BY <1>3, <2>1, <2>3, <2>5
<1>7. \A i \in 1..(N + 1) :
        F[i] = IF i > N THEN BasicHeader
               ELSE IF Usable(arg.tokens[i]) THEN TokenHeader(arg.tokens[i])
               ELSE F[i + 1]
  BY <1>1, <1>4, <1>5, <1>6
<1>8. F = LoopFrom(F)
  <2> DEFINE G == LoopFrom(F)
  <2>1. \A i \in 1..(N + 1) :
          G[i] = IF i > N THEN BasicHeader
                 ELSE IF Usable(arg.tokens[i]) THEN TokenHeader(arg.tokens[i])
                 ELSE F[i + 1]
    BY DEF LoopFrom, N
  <2>2. G = [i \in 1..(N + 1) |-> G[i]]
    BY DEF LoopFrom, N
  <2>3. F = [i \in 1..(N + 1) |-> F[i]]
    OBVIOUS
  <2>4. \A i \in 1..(N + 1) : F[i] = G[i]
    BY <1>7, <2>1
  <2> HIDE DEF F, G
  <2>5. [i \in 1..(N + 1) |-> F[i]] = [i \in 1..(N + 1) |-> G[i]]
    BY <2>4
  <2>6. F = G
    BY <2>2, <2>3, <2>5
  <2> QED
    BY <2>6 DEF G
<1> QED
  BY <1>8

\* buildAuthHeader takes the first good token, and the user if there is none.
LEMMA FirstGood ==
  ASSUME ArgOK
  PROVE  AuthHeader = IF Good = {} THEN BasicHeader ELSE TokenHeader(arg.tokens[Min(Good)])
<1> DEFINE N == Len(arg.tokens)
           F == CHOOSE f : f = LoopFrom(f)
           m == IF Good = {} THEN N + 1 ELSE Min(Good)
           T == {k \in 1..m : F[k] # F[1]}
<1>1. AuthHeader = F[1]
  BY DEF AuthHeader, LoopFrom
<1>2. F = LoopFrom(F)
  BY LoopExists
<1> HIDE DEF F
<1>3. \A i \in 1..(N + 1) :
        F[i] = IF i > N THEN BasicHeader
               ELSE IF Usable(arg.tokens[i]) THEN TokenHeader(arg.tokens[i])
               ELSE F[i + 1]
  <2> DEFINE G == LoopFrom(F)
  <2>1. \A i \in 1..(N + 1) :
          G[i] = IF i > N THEN BasicHeader
                 ELSE IF Usable(arg.tokens[i]) THEN TokenHeader(arg.tokens[i])
                 ELSE F[i + 1]
    BY DEF LoopFrom
  <2> HIDE DEF G
  <2>2. F = G
    BY <1>2 DEF G
  <2> QED
    BY <2>1, <2>2
<1>4. N \in Nat /\ Good \in SUBSET (1..N)
  BY DEF ArgOK, Good
<1>5. Good # {} => Min(Good) \in Good /\ \A k \in Good : Min(Good) =< k
  <2> SUFFICES ASSUME Good # {} PROVE Min(Good) \in Good /\ \A k \in Good : Min(Good) =< k
    OBVIOUS
  <2>1. \E n \in Good : \A k \in Good : n =< k
    BY <1>4, LeastNumber
  <2> QED
    BY <2>1 DEF Min
<1>6. m \in 1..(N + 1) /\ \A k \in 1..m : k < m => k =< N /\ k \notin Good
  <2> HIDE DEF N
  <2>1. CASE Good = {}
    BY <1>4, <2>1
  <2>2. CASE Good # {}
    <3>1. m \in 1..N /\ \A k \in Good : m =< k
      BY <1>4, <1>5, <2>2
    <3> HIDE DEF m
    <3> QED
      BY <1>4, <3>1
  <2> QED
    BY <2>1, <2>2
<1>7. T = {}
  <2> SUFFICES ASSUME T # {} PROVE FALSE
    OBVIOUS
  <2>1. T \in SUBSET Nat
    BY <1>6
  <2>2. PICK n \in T : \A k \in T : n =< k
    BY <2>1, LeastNumber
  <2>3. n \in 1..m /\ n # 1 /\ F[n] # F[1]
    OBVIOUS
  <2>4. n - 1 \in 1..m /\ n - 1 < m /\ n - 1 \in 1..(N + 1) /\ ~(n =< n - 1) /\ (n - 1) + 1 = n
    BY <1>4, <1>6, <2>3
  <2>5. F[n - 1] = F[1]
    BY <2>2, <2>4
  <2>6. n - 1 =< N /\ n - 1 \notin Good /\ n - 1 \in 1..N
    <3> HIDE DEF m, N
    <3> QED
      BY <1>4, <1>6, <2>4
  <2>8. ~(n - 1 > N) /\ ~Usable(arg.tokens[n - 1])
    BY <1>4, <2>6 DEF Good
  <2>7. F[n - 1] = F[n]
    BY <1>3, <2>4, <2>8
  <2> QED
    BY <2>3, <2>5, <2>7
<1>8. F[1] = F[m]
  BY <1>6, <1>7
<1>9. CASE Good = {}
  BY <1>1, <1>3, <1>4, <1>8, <1>9
<1>10. CASE Good # {}
  <2>1. m = Min(Good) /\ m \in Good
    BY <1>5, <1>10
  <2>2. Usable(arg.tokens[m])
    BY <2>1 DEF Good
  <2>3. m \in 1..(N + 1) /\ ~(m > N)
    <3> HIDE DEF m, N
    <3> QED
      BY <1>4, <2>1
  <2>4. F[m] = TokenHeader(arg.tokens[m])
    BY <1>3, <2>2, <2>3
  <2> QED
    BY <1>1, <1>8, <1>10, <2>1, <2>4
<1> QED
  BY <1>9, <1>10

\* The Authorization of a destination, or none.
DestinationAuth ==
  IF Good # {} THEN IF arg.tokens[Min(Good)] = "typed" THEN "token_value" ELSE "token_header"
  ELSE IF arg.user THEN "basic" ELSE "none"

\* The header map of buildAuthHeader is empty or has the Authorization.
LEMMA AuthIs ==
  ASSUME ArgOK
  PROVE  IF DestinationAuth = "none" THEN DOMAIN AuthHeader = {}
         ELSE DOMAIN AuthHeader = {"Authorization"} /\ AuthHeader["Authorization"] = DestinationAuth
<1>1. CASE Good = {}
  BY <1>1, FirstGood DEF BasicHeader, Header, NoHeader, DestinationAuth
<1>2. CASE Good # {}
  <2>1. PICK n \in Good : \A k \in Good : n =< k
    <3>1. Good \in SUBSET Nat
      BY DEF ArgOK, Good
    <3> QED
      BY <1>2, <3>1, LeastNumber
  <2>2. Min(Good) \in Good
    BY <2>1 DEF Min
  <2>3. arg.tokens[Min(Good)] \in {"http_header", "typed"}
    BY <2>2 DEF Good, Usable
  <2> QED
    BY <1>2, <2>3, FirstGood DEF TokenHeader, Header, DestinationAuth
<1> QED
  BY <1>1, <1>2

\* What the chain does to a request that has a token and no proxy headers.
LEMMA ChainIs ==
  ASSUME ArgOK, NEW h, "X-CSRF-Token" \in DOMAIN h, "Proxy-Authorization" \notin DOMAIN h
  PROVE  LET H == RoundTrip(h)
         IN /\ "X-CSRF-Token" \in DOMAIN H /\ H["X-CSRF-Token"] = h["X-CSRF-Token"]
            /\ "Authorization" \in DOMAIN h =>
                 "Authorization" \in DOMAIN H /\ H["Authorization"] = h["Authorization"]
            /\ "Authorization" \notin DOMAIN h =>
                 IF DestinationAuth = "none" THEN "Authorization" \notin DOMAIN H
                 ELSE "Authorization" \in DOMAIN H /\ H["Authorization"] = DestinationAuth
            /\ arg.proxy <=> "Proxy-Authorization" \in DOMAIN H
            /\ arg.proxy /\ arg.location => "Location_ID" \in DOMAIN H
<1> DEFINE A == AddDefaults(h, ExtraHeaders)
           B == AddDefaults(A, AuthHeader)
           H == RoundTrip(h)
           P == IF arg.location THEN [k \in {"Proxy-Authorization", "Location_ID"} |-> "proxy"]
                ELSE Header("Proxy-Authorization", "proxy")
<1>1. DOMAIN ExtraHeaders \subseteq {"Accept", "X-CSRF-Token"}
  BY DEF ExtraHeaders, NoHeader
<1>2. /\ DOMAIN A = DOMAIN h \cup DOMAIN ExtraHeaders
      /\ \A k \in DOMAIN h : A[k] = h[k]
  BY DEF AddDefaults
<1>3. /\ DOMAIN B = DOMAIN A \cup DOMAIN AuthHeader
      /\ \A k \in DOMAIN A : B[k] = A[k]
      /\ \A k \in DOMAIN AuthHeader : k \notin DOMAIN A => B[k] = AuthHeader[k]
  BY DEF AddDefaults
<1> HIDE DEF A, B
<1>4. /\ "X-CSRF-Token" \in DOMAIN B /\ B["X-CSRF-Token"] = h["X-CSRF-Token"]
      /\ "Authorization" \in DOMAIN h =>
           "Authorization" \in DOMAIN B /\ B["Authorization"] = h["Authorization"]
      /\ "Authorization" \notin DOMAIN h =>
           IF DestinationAuth = "none" THEN "Authorization" \notin DOMAIN B
           ELSE "Authorization" \in DOMAIN B /\ B["Authorization"] = DestinationAuth
      /\ "Proxy-Authorization" \notin DOMAIN B
  BY <1>1, <1>2, <1>3, AuthIs
<1>5. CASE ~arg.proxy
  <2>1. H = B
    BY <1>5 DEF RoundTrip, ProxyAuth, A, B
  <2> HIDE DEF H
  <2> QED
    BY <1>4, <1>5, <2>1 DEF H
<1>6. CASE arg.proxy
  <2>1. H = AddDefaults(P, B)
    BY <1>6 DEF RoundTrip, ProxyAuth, A, B
  <2>2. /\ "Proxy-Authorization" \in DOMAIN P
        /\ DOMAIN P \subseteq {"Proxy-Authorization", "Location_ID"}
        /\ arg.location => "Location_ID" \in DOMAIN P
    BY DEF Header
  <2> HIDE DEF P
  <2>3. /\ DOMAIN H = DOMAIN P \cup DOMAIN B
        /\ \A k \in DOMAIN B : k \notin DOMAIN P => H[k] = B[k]
    BY <2>1 DEF AddDefaults
  <2> HIDE DEF H
  <2>4. \A k \in {"X-CSRF-Token", "Authorization"} :
          (k \in DOMAIN H <=> k \in DOMAIN B) /\ (k \in DOMAIN B => H[k] = B[k])
    BY <2>2, <2>3
  <2>5. /\ "X-CSRF-Token" \in DOMAIN H /\ H["X-CSRF-Token"] = h["X-CSRF-Token"]
        /\ "Authorization" \in DOMAIN h =>
             "Authorization" \in DOMAIN H /\ H["Authorization"] = h["Authorization"]
        /\ "Authorization" \notin DOMAIN h =>
             IF DestinationAuth = "none" THEN "Authorization" \notin DOMAIN H
             ELSE "Authorization" \in DOMAIN H /\ H["Authorization"] = DestinationAuth
    BY <1>4, <2>4
  <2>6. "Proxy-Authorization" \in DOMAIN H /\ (arg.location => "Location_ID" \in DOMAIN H)
    BY <2>2, <2>3
  <2> QED
    BY <1>6, <2>5, <2>6 DEF H
<1> QED
  BY <1>5, <1>6

\* Every request carries the headers it needs: the Authorization of the first
\* good token, of the user or of the caller, the caller's X-CSRF-Token, and the
\* proxy's authorization and location.
THEOREM HeadersCompleteHolds == Spec => []HeadersComplete
<1>1. Inv => HeadersComplete
  <2> SUFFICES ASSUME Inv, NEW w \in Writers, request[w] # NoRequest
               PROVE  LET header == request[w].header
                      IN /\ (IF "Authorization" \in DOMAIN header
                                THEN header["Authorization"] ELSE "none") \in Wanted(w)
                         /\ header["X-CSRF-Token"] \in {"Fetch", "csrf"}
                         /\ arg.proxy <=> "Proxy-Authorization" \in DOMAIN header
                         /\ arg.proxy /\ arg.location => "Location_ID" \in DOMAIN header
    BY DEF HeadersComplete
  <2> DEFINE H == request[w].header
             own == arg.ownAuth /\ H["X-CSRF-Token"] = "csrf"
  <2>1. ArgOK /\ (H = FetchHeader \/ H = PostHeader)
    BY DEF Inv, RequestOK
  <2>2. DestinationAuth # "own"
    BY DEF DestinationAuth
  <2>3. (IF own THEN "own" ELSE DestinationAuth) \in Wanted(w)
    <3>1. Good = {i \in DOMAIN arg.tokens : arg.tokens[i] \in {"http_header", "typed"}}
      BY <2>1 DEF Good, Usable, ArgOK
    <3> QED
      BY <3>1 DEF Wanted, DestinationAuth
  <2> HIDE DEF H
  <2>4. CASE H = FetchHeader
    <3> DEFINE h == Header("X-CSRF-Token", "Fetch")
    <3>1. DOMAIN h = {"X-CSRF-Token"} /\ h["X-CSRF-Token"] = "Fetch"
      BY DEF Header
    <3>2. H = RoundTrip(h)
      BY <2>4 DEF FetchHeader
    <3> HIDE DEF h
    <3>3. H["X-CSRF-Token"] = "Fetch" /\ DestinationAuth \in Wanted(w)
      BY <2>1, <2>3, <3>1, <3>2, ChainIs
    <3> QED
      BY <2>1, <3>1, <3>2, <3>3, ChainIs DEF H
  <2>5. CASE H = PostHeader
    <3> DEFINE h == AddDefaults(Header("X-CSRF-Token", "csrf"), Own)
    <3>1. /\ DOMAIN h = {"X-CSRF-Token"} \cup (IF arg.ownAuth THEN {"Authorization"} ELSE {})
          /\ h["X-CSRF-Token"] = "csrf"
          /\ arg.ownAuth => h["Authorization"] = "own"
      BY DEF Header, AddDefaults, Own, NoHeader
    <3>2. H = RoundTrip(h)
      BY <2>5 DEF PostHeader
    <3> HIDE DEF h
    <3>3. H["X-CSRF-Token"] = "csrf" /\ (IF arg.ownAuth THEN "own" ELSE DestinationAuth) \in Wanted(w)
      BY <2>1, <2>3, <3>1, <3>2, ChainIs
    <3> QED
      BY <2>1, <2>2, <3>1, <3>2, <3>3, ChainIs DEF H
  <2> QED
    BY <2>1, <2>4, <2>5
<1> QED
  BY Invariant, <1>1, PTL
=============================================================================
