---------------------------- MODULE HTTPTransport ----------------------------
(***************************************************************************)
(* How the clients that httpclient.New builds reach their destination      *)
(* (New and newTransport in httpclient/client.go): the route, what the     *)
(* connectivity proxy must be told, the timeouts and the connections of    *)
(* the http.Transport; with the requests that examples/http-odata makes    *)
(* through them: a read, or the GET of FetchCSRF and the write after it.   *)
(*                                                                         *)
(* net/http is external: it takes an idle connection or dials one, lets a  *)
(* dial whose request has ended go on, keeps a connection whose response   *)
(* was read to the end, and sends a GET again if a kept connection dies    *)
(* before the response.  A tunnel of connectivity.Dialer carries the       *)
(* deadline of its dial, as TunnelDial says.  The server may answer, close *)
(* or fall silent at any point.                                            *)
(***************************************************************************)
EXTENDS Integers

CONSTANTS Loads,            \* [kind, client]: the requests, and the client of each
          Routings,         \* [proxy, dialer, onPremise, https, location, env]; env: the
                            \* environment names a proxy for the destination
          Timeouts,         \* values of Config.Timeout
          DefaultTimeout,   \* what a zero means (30s)
          DialTimeout,      \* the limit on one dial (30s, here and in connectivity)
          ConnectTimeout,   \* net/http's limit on the answer to a CONNECT (1 minute)
          HandshakeTimeout, \* the limit on the TLS handshake (10s)
          IdleConnTimeout,  \* (90s)
          Slots,            \* bound on the connections at one time, for TLC
          LastStart,        \* bound on the start of a request, for TLC
          LastToken,        \* bound on the wait for a CONNECT's token, if it comes, for TLC
          MaxTime           \* bound on the clock, for TLC

ASSUME TimeAssumption ==
  {DefaultTimeout, DialTimeout, ConnectTimeout, HandshakeTimeout, IdleConnTimeout,
   LastStart, LastToken, MaxTime} \cup Timeouts \cup Slots \subseteq Nat

\* Requests are numbered from 1.
ASSUME LoadAssumption ==
  /\ \A load \in Loads : DOMAIN load.kind \subseteq Nat \ {0}
  /\ \A route \in Routings :
       {route.proxy, route.dialer, route.onPremise, route.https, route.location, route.env}
         \subseteq BOOLEAN

VARIABLES
  now,     \* the clock
  arg,     \* the load, the routing and Config.Timeout
  pc,      \* pc[r]: where request r is
  started, \* started[r]: when client.Do was called
  header,  \* header[r]: what proxyAuthTransport has added to r
  conn,    \* conn[i]: the connection in slot i
  ended    \* ended[r]: how r ended, with its response "whole" or "cut" or by an
           \* "error", and when; and on which tunnel, "fresh" or "kept", if it was
           \* the deadline of its tunnel that ended it

vars == <<now, arg, pc, started, header, conn, ended>>

Reqs    == DOMAIN arg.load.kind
Kind(r) == arg.load.kind[r]
Never   == MaxTime + 1

Bare == [auth |-> FALSE, location |-> FALSE]

\* A slot with no connection; else req is the request that waits for the
\* connection or uses it, or 0, and since is when it came into its state.
Free == [state |-> "free", client |-> 0, req |-> 0, reused |-> FALSE, since |-> 0,
         deadline |-> Never, via |-> [peer |-> "none", tunnel |-> FALSE], told |-> Bare]

Init == /\ now = 0
        /\ arg \in [load : Loads, route : Routings, timeout : Timeouts]
        /\ pc = [r \in Reqs |-> "idle"]
        /\ started = [r \in Reqs |-> 0]
        /\ header = [r \in Reqs |-> Bare]
        /\ conn = [i \in Slots |-> Free]
        /\ ended = [r \in Reqs |-> [cause |-> "none", at |-> 0, tunnel |-> "none"]]
-----------------------------------------------------------------------------
\* Mutant: a zero means no timeout.
TimeoutAsGiven == IF arg.timeout = 0 THEN Never ELSE arg.timeout

\* New: Client.Timeout, from the call of Do to the last byte of the body.
Timeout == IF arg.timeout = 0 THEN DefaultTimeout ELSE arg.timeout

\* Mutant: the Dialer wins.
DialerWins ==
  IF arg.route.proxy /\ ~(arg.route.dialer /\ arg.route.onPremise)
  THEN [peer |-> "connectivity", tunnel |-> FALSE]
  ELSE [peer   |-> IF arg.route.env THEN "environment" ELSE "destination",
        tunnel |-> arg.route.dialer /\ arg.route.onPremise]

\* newTransport: whom the connection is made to, and whether through a tunnel.
\* HTTPProxy wins; without it the proxy of the environment stays in force, also
\* for the Dialer, which is for OnPremise only.
Via ==
  IF arg.route.proxy THEN [peer |-> "connectivity", tunnel |-> FALSE]
  ELSE [peer   |-> IF arg.route.env THEN "environment" ELSE "destination",
        tunnel |-> arg.route.dialer /\ arg.route.onPremise]

Marked == [auth |-> TRUE, location |-> arg.route.location]

\* net/http speaks TLS with the destination, through a CONNECT if a proxy is
\* between, for which GetProxyConnectHeader is set with HTTPProxy alone.
Connects(i) == arg.route.https /\ conn[i].via.peer # "destination"
Preamble(i) == arg.route.https /\ conn[i].via.peer = "connectivity"

Opening == {"dialing", "preamble", "handshake"}

\* Mutant: IdleConnTimeout is left zero, which is no limit.
IdleForever(i) == Never

IdleLimit(i) == conn[i].since + IdleConnTimeout

\* When the state of a connection must have ended.  Nothing limits the wait for
\* the token of a CONNECT.
Limit(i) ==
  CASE conn[i].state = "dialing"   -> conn[i].since + DialTimeout
    [] conn[i].state = "handshake" ->
         conn[i].since + HandshakeTimeout + IF Connects(i) THEN ConnectTimeout ELSE 0
    [] conn[i].state = "idle"      -> IdleLimit(i)
    [] OTHER                       -> Never

\* That is when its time is up, or the deadline that a tunnel keeps.
Due(i) == now >= Limit(i) \/ now >= conn[i].deadline

Active(r) == pc[r] \in {"token", "ready", "waiting", "sent", "body"}

\* The handler calls client.Do: a write only after FetchCSRF, r - 1, has returned.
Do(r) ==
  /\ pc[r] = "idle"
  /\ IF Kind(r) = "write" THEN pc[r - 1] = "done" /\ now =< ended[r - 1].at + LastStart
                          ELSE now =< LastStart
  /\ started' = [started EXCEPT ![r] = now]
  /\ pc' = [pc EXCEPT ![r] = IF arg.route.proxy THEN "token" ELSE "ready"]
  /\ UNCHANGED <<now, arg, header, conn, ended>>

EndBy(r, label, cause, tunnel) ==
  /\ pc' = [pc EXCEPT ![r] = label]
  /\ ended' = [ended EXCEPT ![r] = [cause |-> cause, at |-> now, tunnel |-> tunnel]]

End(r, label, cause) == EndBy(r, label, cause, "none")

\* proxyAuthTransport.RoundTrip: the headers for the proxy, or an error.
ProxyToken(r) ==
  /\ pc[r] = "token"
  /\ \/ /\ pc' = [pc EXCEPT ![r] = "ready"]
        /\ header' = [header EXCEPT ![r] = Marked]
        /\ UNCHANGED ended
     \/ End(r, "failed", "error") /\ UNCHANGED header
  /\ UNCHANGED <<now, arg, started, conn>>
-----------------------------------------------------------------------------
Kept(r) == {i \in Slots : conn[i].state = "idle" /\ conn[i].client = arg.load.client[r]}

\* A kept connection of the client is used ...
Reuse(r) ==
  /\ pc[r] = "ready"
  /\ \E i \in Kept(r) :
       conn' = [conn EXCEPT ![i] = [@ EXCEPT !.state = "busy", !.req = r, !.reused = TRUE]]
  /\ pc' = [pc EXCEPT ![r] = "sent"]
  /\ UNCHANGED <<now, arg, started, header, ended>>

\* ... or there is none, and one is dialed.
StartDial(r) ==
  /\ pc[r] = "ready" /\ Kept(r) = {}
  /\ \E i \in Slots :
       /\ conn[i] = Free /\ \A j \in Slots : conn[j] = Free => i =< j
       /\ conn' = [conn EXCEPT ![i] = [Free EXCEPT !.state = "dialing", !.req = r,
                     !.client = arg.load.client[r], !.since = now, !.via = Via]]
  /\ pc' = [pc EXCEPT ![r] = "waiting"]
  /\ UNCHANGED <<now, arg, started, header, ended>>

\* An opened connection is for the request that waits, or kept if that has gone.
Opened(i, c) ==
  /\ conn' = [conn EXCEPT ![i] =
       [c EXCEPT !.state = IF c.req = 0 THEN "idle" ELSE "busy", !.since = now]]
  /\ pc' = IF c.req = 0 THEN pc ELSE [pc EXCEPT ![c.req] = "sent"]

\* The dial succeeds: net.Dialer's or that of connectivity.Dialer, which has told
\* the proxy the location.
Dialed(i) ==
  LET c == IF conn[i].via.tunnel
             THEN [conn[i] EXCEPT !.deadline = conn[i].since + DialTimeout,
                                  !.told = [Bare EXCEPT !.location = arg.route.location]]
             ELSE conn[i]
      next(state) == /\ conn' = [conn EXCEPT ![i] = [c EXCEPT !.state = state, !.since = now]]
                     /\ UNCHANGED pc
  IN /\ conn[i].state = "dialing"
     /\ \/ Preamble(i) /\ next("preamble")
        \/ arg.route.https /\ ~Preamble(i) /\ next("handshake")
        \/ ~arg.route.https /\ Opened(i, c)
     /\ UNCHANGED <<now, arg, started, header, ended>>

\* GetProxyConnectHeader: Token returns, under the context of the dial, which
\* net/http detaches from the request's, and the CONNECT is sent.
PreambleSent(i) ==
  /\ conn[i].state = "preamble" /\ now =< conn[i].since + LastToken
  /\ conn' = [conn EXCEPT ![i] = [@ EXCEPT !.state = "handshake", !.since = now,
                                           !.told = Marked]]
  /\ UNCHANGED <<now, arg, pc, started, header, ended>>

\* The CONNECT is answered and TLS is up.
HandshakeDone(i) ==
  /\ conn[i].state = "handshake"
  /\ Opened(i, conn[i])
  /\ UNCHANGED <<now, arg, started, header, ended>>

\* The dial, Token or a handshake fails, and the request that waits for it.
DialFails(i) ==
  LET r == conn[i].req
  IN /\ conn[i].state \in Opening
     /\ conn' = [conn EXCEPT ![i] = Free]
     /\ IF r = 0 THEN UNCHANGED <<pc, ended>> ELSE End(r, "failed", "error")
     /\ UNCHANGED <<now, arg, started, header>>

\* The headers of a response arrive.
Serve(i) ==
  LET r == conn[i].req
  IN /\ conn[i].state = "busy" /\ pc[r] = "sent"
     /\ pc' = [pc EXCEPT ![r] = "body"]
     /\ UNCHANGED <<now, arg, started, header, conn, ended>>

Released(i) == [conn[i] EXCEPT !.state = "idle", !.req = 0, !.since = now]

\* readHandler and writeHandler forward the body to its end, and close it.
BodyEnds(i) ==
  LET r == conn[i].req
  IN /\ conn[i].state = "busy" /\ pc[r] = "body" /\ Kind(r) # "fetch"
     /\ End(r, "done", "whole")
     /\ conn' = [conn EXCEPT ![i] = Released(i)]
     /\ UNCHANGED <<now, arg, started, header>>

\* Mutant: the body is not closed.
LeaveBody(i) == UNCHANGED conn

\* A body closed before its end is read out by net/http, or takes its
\* connection along.
CloseBody(i) == \E c \in {Released(i), Free} : conn' = [conn EXCEPT ![i] = c]

\* FetchCSRF looks at the headers and closes the body.
FetchReturns(i) ==
  LET r == conn[i].req
  IN /\ conn[i].state = "busy" /\ pc[r] = "body" /\ Kind(r) = "fetch"
     /\ End(r, "done", "whole")
     /\ CloseBody(i)
     /\ UNCHANGED <<now, arg, started, header>>

\* The connection of a request dies: the peer closes, or its deadline passes.
\* A GET on a kept connection goes back for another one; else Do fails, or, in
\* the body, io.Copy does, whose error the handler ignores.
Dies(i, tunnel) ==
  LET r == conn[i].req
  IN /\ conn[i].state = "busy"
     /\ conn' = [conn EXCEPT ![i] = Free]
     /\ \/ /\ pc[r] = "sent" /\ conn[i].reused /\ Kind(r) # "write"
           /\ pc' = [pc EXCEPT ![r] = "ready"]
           /\ UNCHANGED ended
        \/ /\ pc[r] = "sent" /\ ~(conn[i].reused /\ Kind(r) # "write")
           /\ EndBy(r, "failed", "error", tunnel)
        \/ /\ pc[r] = "body" /\ Kind(r) # "fetch"
           /\ EndBy(r, "done", "cut", tunnel)
     /\ UNCHANGED <<now, arg, started, header>>

PeerCloses(i)     == Dies(i, "none")
DeadlinePasses(i) ==
  now >= conn[i].deadline /\ Dies(i, IF conn[i].reused THEN "kept" ELSE "fresh")

\* A request is given up: one that waits leaves the connection it opens behind,
\* one that has a connection takes it along.
Abandon(r, inBody) ==
  /\ Active(r)
  /\ \/ pc[r] # "body" /\ End(r, "failed", "error")
     \/ pc[r] = "body" /\ Kind(r) # "fetch" /\ End(r, "done", inBody)
  /\ conn' = [i \in Slots |-> IF conn[i].req # r THEN conn[i]
                              ELSE IF conn[i].state \in Opening THEN [conn[i] EXCEPT !.req = 0]
                              ELSE Free]
  /\ UNCHANGED <<now, arg, started, header>>

\* Client.Timeout, which cuts a body short ...
TimeoutFires(r) == now >= started[r] + Timeout /\ Abandon(r, "cut")

\* ... or r.Context(): the handler's own caller has gone, and misses nothing.
CallerLeaves(r) == Abandon(r, "error")

\* A kept connection is closed: by the peer, after IdleConnTimeout, or when its
\* deadline ends the read that waits on it.
IdleDies(i) ==
  /\ conn[i].state = "idle"
  /\ conn' = [conn EXCEPT ![i] = Free]
  /\ UNCHANGED <<now, arg, pc, started, header, ended>>

\* What is due ends before the clock moves on.
Tick ==
  /\ now < MaxTime
  /\ \A r \in Reqs : Active(r) => now < started[r] + Timeout
  /\ \A i \in Slots : ~Due(i)
  /\ now' = now + 1
  /\ UNCHANGED <<arg, pc, started, header, conn, ended>>

Finished == now = MaxTime /\ UNCHANGED vars

Next == \/ \E r \in Reqs : \/ Do(r) \/ ProxyToken(r) \/ Reuse(r) \/ StartDial(r)
                           \/ TimeoutFires(r) \/ CallerLeaves(r)
        \/ \E i \in Slots : \/ Dialed(i) \/ PreambleSent(i) \/ HandshakeDone(i)
                            \/ DialFails(i) \/ Serve(i) \/ BodyEnds(i) \/ FetchReturns(i)
                            \/ PeerCloses(i) \/ DeadlinePasses(i) \/ IdleDies(i)
        \/ Tick \/ Finished

Spec == Init /\ [][Next]_vars

\* Timers and deadlines take effect, FetchCSRF runs and time passes; server,
\* proxies and token endpoint owe nothing.
Fairness ==
  /\ WF_vars(\E r \in Reqs : TimeoutFires(r))
  /\ WF_vars(\E i \in Slots : \/ FetchReturns(i)
                              \/ Due(i) /\ (DialFails(i) \/ DeadlinePasses(i) \/ IdleDies(i)))
  /\ WF_vars(Tick)

FairSpec == Spec /\ Fairness
-----------------------------------------------------------------------------
Users(r) == {i \in Slots : conn[i].req = r}

\* Types of all variables; a request holds the one connection it waits for or
\* uses, of its own client, and no other.
TypeOK ==
  /\ now \in 0..MaxTime
  /\ \A r \in Reqs :
       /\ started[r] \in 0..now
       /\ {header[r].auth, header[r].location} \subseteq BOOLEAN
       /\ IF pc[r] \in {"waiting", "sent", "body"}
            THEN \E i \in Slots :
                   /\ Users(r) = {i} /\ conn[i].client = arg.load.client[r]
                   /\ conn[i].state \in IF pc[r] = "waiting" THEN Opening ELSE {"busy"}
            ELSE /\ pc[r] \in {"idle", "token", "ready", "done", "failed"}
                 /\ Users(r) = {}
  /\ \A i \in Slots : conn[i].state \in {"free", "idle", "busy"} \cup Opening

\* Whatever connection carries a request: with an HTTPProxy it goes to the
\* connectivity proxy, past the Dialer, and the proxy has the token and the
\* location, in the request's own headers for http and in the CONNECT for https;
\* for an OnPremise destination with a Dialer alone it is a tunnel, dialed with
\* the location, and to the destination as doc.go:13-18 says, unless the
\* environment names a proxy, which client.go:205 leaves in force.
ProxyInformed ==
  \A r \in Reqs : \A i \in Users(r) : conn[i].state = "busy" =>
    /\ arg.route.proxy =>
         /\ conn[i].via = [peer |-> "connectivity", tunnel |-> FALSE]
         /\ (IF arg.route.https THEN conn[i].told ELSE header[r]) = Marked
    /\ arg.route.onPremise /\ arg.route.dialer /\ ~arg.route.proxy =>
         /\ conn[i].via.tunnel /\ conn[i].told.location = arg.route.location
         /\ ~arg.route.env => conn[i].via.peer = "destination"

\* client.go:76-77: Timeout bounds a request, body included, and zero means the
\* default.  The deadline that a tunnel keeps from its dial ends none before
\* that on the tunnel dialed for it; on a kept one, whose time was not the
\* request's, it may end a write, and any request in its body, but a GET
\* before its response is sent again.
RequestTimed ==
  \A r \in Reqs :
    LET limit == started[r] + IF arg.timeout = 0 THEN DefaultTimeout ELSE arg.timeout
    IN /\ Active(r) => now =< limit
       /\ ended[r].tunnel # "none" /\ ended[r].at < limit =>
            ended[r].tunnel = "kept" /\ (Kind(r) = "write" \/ ended[r].cause = "cut")

\* Every connection is given up in the end, also one whose client has gone
\* with its request and whose peer has fallen silent; but for one that is left
\* waiting for the token of its CONNECT, which client.go:229 fetches without a
\* limit.
ConnectionsReclaimed ==
  \A i \in Slots : []<>(conn[i] = Free \/ conn[i].state = "preamble")

\* handler.go:52: readHandler "streams the response back": a response that is
\* passed on as complete was received to its end.
ForwardedWhole == \A r \in Reqs : ended[r].cause # "cut"
=============================================================================
