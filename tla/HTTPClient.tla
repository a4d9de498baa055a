------------------------------ MODULE HTTPClient ------------------------------
(***************************************************************************)
(* Clients built by httpclient.New, used for the OData v2 write flow: GET  *)
(* a CSRF token with FetchCSRF, then POST with it (httpclient/client.go,   *)
(* examples/http-odata/handler.go).                                        *)
(*                                                                         *)
(* A client is a chain of RoundTrippers around a Transport, and a cookie   *)
(* jar.  Writers run the flow concurrently, each on a client of its own as *)
(* in the example, or all on one.  The SAP service is external: a GET      *)
(* without a live session opens one and sets its cookie, the CSRF token it *)
(* returns belongs to that session, and a POST is accepted if its cookie   *)
(* names a live session and its token belongs to it.                       *)
(*                                                                         *)
(* A session stands for its cookie and for its CSRF token.  A header value *)
(* is named by where it comes from.                                        *)
(***************************************************************************)
EXTENDS Integers, Sequences, FiniteSetsExt, Functions

CONSTANTS Writers,     \* goroutines that run the write flow
          ClientMaps,  \* for each writer, the client it uses: own or shared
          TokenLists,  \* the kinds of dest.AuthTokens, in order
          MaxSessions  \* bound on the sessions the service opens, for TLC

Clients  == UNION {Range(f) : f \in ClientMaps}
Sessions == 1..MaxSessions
Kinds    == {"http_header", "typed", "error", "empty"}

ASSUME ClientAssumption ==
  /\ \A f \in ClientMaps : DOMAIN f = Writers
  /\ TokenLists \subseteq Seq(Kinds)
  /\ MaxSessions \in Nat

VARIABLES
  arg,       \* the destination, the Config given to New, and who shares a client
  jar,       \* jar[x]: the session cookie in the jar of client x, or 0
  pc,        \* where each writer is
  csrf,      \* csrf[w]: what FetchCSRF returned to w, or 0
  request,   \* request[w]: the last request w's client put on the wire
  response,  \* response[w]: the service's answer to it
  alive,     \* the live sessions of the service
  opened,    \* how many sessions it has opened
  applied    \* applied[w]: how often the service has carried out w's POST

vars == <<arg, jar, pc, csrf, request, response, alive, opened, applied>>

NoHeader   == [k \in {} |-> ""]
NoRequest  == [header |-> NoHeader, cookie |-> 0]
NoResponse == [status |-> "none", session |-> 0, setCookie |-> FALSE]

Init == /\ arg \in [tokens : TokenLists, user : BOOLEAN, extra : BOOLEAN,
                    proxy : BOOLEAN, location : BOOLEAN, ownAuth : BOOLEAN,
                    client : ClientMaps]
        /\ jar = [x \in Clients |-> 0]
        /\ pc = [w \in Writers |-> "idle"]
        /\ csrf = [w \in Writers |-> 0]
        /\ request = [w \in Writers |-> NoRequest]
        /\ response = [w \in Writers |-> NoResponse]
        /\ alive = {}
        /\ opened = 0
        /\ applied = [w \in Writers |-> 0]
-----------------------------------------------------------------------------
\* A header map with one header.
Header(k, v) == [x \in {k} |-> v]

\* The header map buildAuthHeader makes of an AuthToken: its own http_header,
\* or its type and value; none if it has neither.
TokenHeader(kind) ==
  CASE kind = "http_header" -> Header("Authorization", "token_header")
    [] kind = "typed"       -> Header("Authorization", "token_value")
    [] OTHER                -> NoHeader

\* Mutant: tokens with an error are not skipped.
UsableWithError(kind) == kind \in {"http_header", "typed", "error"}

\* A token with an error, or with neither header nor value, is passed over.
Usable(kind) == kind \in {"http_header", "typed"}

BasicHeader == IF arg.user THEN Header("Authorization", "basic") ELSE NoHeader

\* buildAuthHeader: the loop over the tokens, then Basic from the user.
AuthHeader ==
  LET from[i \in 1..(Len(arg.tokens) + 1)] ==
        IF i > Len(arg.tokens) THEN BasicHeader
        ELSE IF Usable(arg.tokens[i]) THEN TokenHeader(arg.tokens[i])
        ELSE from[i + 1]
  IN from[1]

ExtraHeaders == IF arg.extra THEN [k \in {"Accept", "X-CSRF-Token"} |-> "extra"] ELSE NoHeader

\* headerTransport: add the keys that the request does not have.
AddDefaults(header, defaults) ==
  [k \in DOMAIN header \cup DOMAIN defaults |->
     IF k \in DOMAIN header THEN header[k] ELSE defaults[k]]

\* proxyAuthTransport: set Proxy-Authorization, and the location if there is one.
ProxyAuth(header) ==
  IF ~arg.proxy THEN header
  ELSE AddDefaults(IF arg.location THEN [k \in {"Proxy-Authorization", "Location_ID"} |-> "proxy"]
                                   ELSE Header("Proxy-Authorization", "proxy"), header)

\* The chain New builds: ExtraHeaders outermost, then the auth header, then the
\* proxy's, then the Transport.
RoundTrip(header) ==
  ProxyAuth(AddDefaults(AddDefaults(header, ExtraHeaders), AuthHeader))

\* client.Do puts the request on the wire with the cookie the jar has now.
Do(w, header, label) ==
  /\ request' = [request EXCEPT ![w] = [header |-> RoundTrip(header),
                                        cookie |-> jar[arg.client[w]]]]
  /\ response' = [response EXCEPT ![w] = NoResponse]
  /\ pc' = [pc EXCEPT ![w] = label]
  /\ UNCHANGED <<arg, jar, csrf, alive, opened, applied>>

\* The headers a caller may set itself.
Own == IF arg.ownAuth THEN Header("Authorization", "own") ELSE NoHeader

\* FetchCSRF begins.
SendFetch(w) == pc[w] = "idle" /\ Do(w, Header("X-CSRF-Token", "Fetch"), "fetching")

\* The write that follows, with the token as its header.
SendPost(w) ==
  pc[w] = "fetched" /\ Do(w, AddDefaults(Header("X-CSRF-Token", "csrf"), Own), "posting")

\* The proxy's token source has no token: the request is not sent.
ProxyTokenFails(w) ==
  /\ arg.proxy
  /\ pc[w] \in {"idle", "fetched"}
  /\ pc' = [pc EXCEPT ![w] = "failed"]
  /\ UNCHANGED <<arg, jar, csrf, request, response, alive, opened, applied>>

\* Mutant: the jar is not given to the client.
StoreNoCookie(w) == UNCHANGED jar

\* client.Do stores the response's cookie in the jar, when it arrives.
StoreCookie(w) ==
  jar' = IF response[w].setCookie
           THEN [jar EXCEPT ![arg.client[w]] = response[w].session] ELSE jar

\* Mutant: a response without a token is taken.
AnyResponse(r) == TRUE

HasToken(r) == r.session # 0

\* FetchCSRF returns the token of the response, or an error if it has none.
FetchDone(w) ==
  /\ pc[w] = "fetching" /\ response[w].status # "none"
  /\ StoreCookie(w)
  /\ csrf' = [csrf EXCEPT ![w] = response[w].session]
  /\ pc' = [pc EXCEPT ![w] = IF HasToken(response[w]) THEN "fetched" ELSE "failed"]
  /\ UNCHANGED <<arg, request, response, alive, opened, applied>>

\* The write's response is handed to the caller, whatever its status.
PostDone(w) ==
  /\ pc[w] = "posting" /\ response[w].status # "none"
  /\ StoreCookie(w)
  /\ pc' = [pc EXCEPT ![w] = IF response[w].status = "ok" THEN "done" ELSE "rejected"]
  /\ UNCHANGED <<arg, csrf, request, response, alive, opened, applied>>

\* Mutant: a write whose response was lost is sent again.
AfterLossRetry(label) == IF label = "posting" THEN "fetched" ELSE "failed"

\* writeHandler gives up.
AfterLoss(label) == "failed"

\* The request or its response is lost, or the client's Timeout expires: the
\* caller gets an error, whether or not the service has acted.
Lost(w) ==
  /\ pc[w] \in {"fetching", "posting"}
  /\ pc' = [pc EXCEPT ![w] = AfterLoss(@)]
  /\ UNCHANGED <<arg, jar, csrf, request, response, alive, opened, applied>>
-----------------------------------------------------------------------------
Pending(w, label) == pc[w] = label /\ response[w].status = "none"

Respond(w, status, session, setCookie) ==
  /\ response' = [response EXCEPT ![w] =
       [status |-> status, session |-> session, setCookie |-> setCookie]]
  /\ UNCHANGED <<arg, jar, pc, csrf, request>>

\* The service answers a GET with the token of the cookie's session, or opens
\* a session, or refuses and sends no token.
ServeFetch(w) ==
  /\ Pending(w, "fetching")
  /\ \/ /\ request[w].cookie \in alive
        /\ Respond(w, "ok", request[w].cookie, FALSE)
        /\ UNCHANGED <<alive, opened>>
     \/ /\ request[w].cookie \notin alive
        /\ opened < MaxSessions
        /\ Respond(w, "ok", opened + 1, TRUE)
        /\ opened' = opened + 1
        /\ alive' = alive \cup {opened + 1}
     \/ /\ Respond(w, "refused", 0, FALSE)
        /\ UNCHANGED <<alive, opened>>
  /\ UNCHANGED applied

TokenOK(w) == request[w].cookie \in alive /\ csrf[w] = request[w].cookie

\* The service carries out a POST whose token belongs to its session.
ServePost(w) ==
  /\ Pending(w, "posting")
  /\ IF TokenOK(w)
       THEN /\ Respond(w, "ok", 0, FALSE)
            /\ applied' = [applied EXCEPT ![w] = @ + 1]
       ELSE /\ Respond(w, "csrf_required", 0, FALSE)
            /\ UNCHANGED applied
  /\ UNCHANGED <<alive, opened>>

\* A session ends at the service.
Expire(s) ==
  /\ s \in alive
  /\ alive' = alive \ {s}
  /\ UNCHANGED <<arg, jar, pc, csrf, request, response, opened, applied>>

Ended(w) == pc[w] \in {"done", "rejected", "failed"}

Finished == (\A w \in Writers : Ended(w)) /\ UNCHANGED vars

Next == \/ \E w \in Writers : \/ SendFetch(w) \/ SendPost(w) \/ ProxyTokenFails(w)
                              \/ FetchDone(w) \/ PostDone(w) \/ Lost(w)
                              \/ ServeFetch(w) \/ ServePost(w)
        \/ \E s \in Sessions : Expire(s)
        \/ Finished

Spec == Init /\ [][Next]_vars
-----------------------------------------------------------------------------
\* Types of all variables; a writer posts only with a token.
TypeOK ==
  /\ jar \in [Clients -> 0..MaxSessions]
  /\ pc \in [Writers -> {"idle", "fetching", "fetched", "posting", "done", "rejected", "failed"}]
  /\ csrf \in [Writers -> 0..MaxSessions]
  /\ \A w \in Writers : /\ request[w].cookie \in 0..MaxSessions
                        /\ response[w].session \in 0..MaxSessions
                        /\ pc[w] \in {"fetched", "posting"} => csrf[w] # 0
  /\ alive \subseteq Sessions
  /\ opened \in 0..MaxSessions
  /\ applied \in [Writers -> Nat]

\* FetchCSRF's comment (client.go:162-165) calls the token "suitable for use in
\* subsequent OData v2 write requests on the same client".  A write is refused
\* for its token only if the session of the token has ended, or if another
\* writer on the same client has put its own session in the jar since: never
\* on a client of the writer's own, as the example builds them.
TokenSuitable ==
  \A w \in Writers :
    pc[w] = "posting" /\ response[w].status = "csrf_required" /\ csrf[w] \in alive =>
      \E v \in Writers \ {w} : /\ arg.client[v] = arg.client[w]
                               /\ csrf[v] = request[w].cookie
                               /\ csrf[v] # csrf[w]

\* A write the caller is told of has been carried out once, and no write twice,
\* whatever was lost on the way.
WrittenOnce ==
  \A w \in Writers : applied[w] =< 1 /\ (pc[w] = "done" => applied[w] = 1)

\* What Authorization a request may have, as client.go:261-265 and the comment on
\* headerTransport state it: the caller's own, else that of the first token
\* without an error that has a value, else Basic, else none.  Without any
\* AuthTokens client.go:97 and doc.go:9-10 say none, and client.go:261-265 Basic if there
\* is a user: either will do.
Wanted(w) ==
  LET good == {i \in DOMAIN arg.tokens : arg.tokens[i] \in {"http_header", "typed"}}
  IN IF arg.ownAuth /\ request[w].header["X-CSRF-Token"] = "csrf" THEN {"own"}
     ELSE IF good # {} THEN {IF arg.tokens[Min(good)] = "typed" THEN "token_value"
                                                              ELSE "token_header"}
     ELSE IF ~arg.user THEN {"none"}
     ELSE IF arg.tokens = << >> THEN {"none", "basic"} ELSE {"basic"}

\* Every request on the wire carries the headers it needs through the chain of
\* RoundTrippers: such an Authorization, the caller's own X-CSRF-Token and not the
\* default of ExtraHeaders, and, through the connectivity proxy, its
\* authorization and the location.
HeadersComplete ==
  \A w \in Writers : request[w] # NoRequest =>
    LET header == request[w].header
    IN /\ (IF "Authorization" \in DOMAIN header THEN header["Authorization"] ELSE "none")
            \in Wanted(w)
       /\ header["X-CSRF-Token"] \in {"Fetch", "csrf"}
       /\ arg.proxy <=> "Proxy-Authorization" \in DOMAIN header
       /\ arg.proxy /\ arg.location => "Location_ID" \in DOMAIN header
=============================================================================
