------------------------- MODULE HTTPTransportProofs -------------------------
(***************************************************************************)
(* Proofs about HTTPTransport, for any requests on any clients, any route, *)
(* any timeouts and any number of connections.                             *)
(***************************************************************************)
EXTENDS HTTPTransport, TLAPS

Labels  == {"idle", "token", "ready", "waiting", "sent", "body", "done", "failed"}
Holding == {"waiting", "sent", "body"}
Told    == [auth : BOOLEAN, location : BOOLEAN]
Clients == {0} \cup {arg.load.client[r] : r \in Reqs}

Vias    == [peer : {"none", "connectivity", "environment", "destination"}, tunnel : BOOLEAN]
States  == {"free", "dialing", "preamble", "handshake", "idle", "busy"}

Connections ==
  [state : States, client : Clients, req : Reqs \cup {0}, reused : BOOLEAN,
   since : Nat, deadline : Nat, via : Vias, told : Told]

Ends == [cause : {"none", "whole", "cut", "error"}, at : Nat, tunnel : {"none", "fresh", "kept"}]

Typed ==
  /\ now \in 0..MaxTime
  /\ arg \in [load : Loads, route : Routings, timeout : Timeouts]
  /\ pc \in [Reqs -> Labels]
  /\ started \in [Reqs -> Nat]
  /\ header \in [Reqs -> Told]
  /\ conn \in [Slots -> Connections]
  /\ ended \in [Reqs -> Ends]

ReqLimit(r) == started[r] + Timeout

\* What the deadline of a tunnel may do to a request: end a write, or a body, on a
\* kept one; on another no request that has not had the time of a dial.
Excused(r) ==
  \/ ended[r].tunnel = "kept" /\ (Kind(r) = "write" \/ ended[r].cause = "cut")
  \/ ended[r].at >= started[r] + DialTimeout

\* A request has started by now and is within its time, and what the proxy must
\* see in its headers is there once ProxyToken has let it pass.
ReqOK(r) ==
  /\ started[r] =< now
  /\ Active(r) => now =< ReqLimit(r)
  /\ pc[r] \in {"ready"} \cup Holding /\ arg.route.proxy => header[r] = Marked
  /\ pc[r] \notin {"done", "failed"} => ended[r].tunnel = "none"
  /\ ended[r].tunnel # "none" => Excused(r)

\* A connection is made by the route's way, and told what the route says before it
\* is handed over.  It belongs to the request that waits for it or uses it; one
\* that is not a kept one was dialed for that request, and so no earlier than
\* the request started, and its deadline is the dial's.
ConnOK(i) ==
  LET c == conn[i]
  IN /\ c.state \in {"free", "idle"} => c.req = 0
     /\ c.state \in Opening /\ c.req # 0 => pc[c.req] = "waiting"
     /\ c.state = "busy" => c.req # 0 /\ pc[c.req] \in {"sent", "body"}
     /\ c.req # 0 => c.client = arg.load.client[c.req]
     /\ c.state \in Opening => ~c.reused
     /\ c.state = "dialing" => c.deadline = Never
     /\ c.state = "dialing" /\ c.req # 0 => started[c.req] =< c.since
     /\ c.state \in {"preamble", "handshake", "busy"} /\ c.req # 0 /\ ~c.reused =>
          c.deadline = Never \/ c.deadline >= started[c.req] + DialTimeout
     /\ c.state # "free" => c.via = Via
     /\ c.state \in {"handshake", "idle", "busy"} /\ arg.route.https /\ arg.route.proxy =>
          c.told = Marked
     /\ c.state \notin {"free", "dialing"} /\ Via.tunnel =>
          c.told.location = arg.route.location

\* A request that waits or is under way has one connection.
HoldOK ==
  /\ \A r \in Reqs : pc[r] \in Holding => \E i \in Slots : conn[i].req = r
  /\ \A i, j \in Slots : conn[i].req = conn[j].req /\ conn[i].req # 0 => i = j

Inv == /\ Typed /\ HoldOK
       /\ \A r \in Reqs : ReqOK(r)
       /\ \A i \in Slots : ConnOK(i)

-----------------------------------------------------------------------------
\* Who asks, by which route and with which timeout is settled before the call.
LEMMA Facts ==
  ASSUME Typed
  PROVE  /\ Reqs \subseteq Nat \ {0}
         /\ {arg.route.proxy, arg.route.dialer, arg.route.onPremise,
             arg.route.https, arg.route.location, arg.route.env} \subseteq BOOLEAN
         /\ Timeout \in Nat /\ Never \in Nat /\ MaxTime \in Nat /\ DialTimeout \in Nat
         /\ Marked \in Told /\ Via \in Vias /\ Bare \in Told
         /\ Slots \subseteq Nat
<1>1. arg.load \in Loads /\ arg.route \in Routings /\ arg.timeout \in Timeouts
  BY DEF Typed
<1>2. Timeout \in Nat /\ Never \in Nat /\ MaxTime \in Nat /\ DialTimeout \in Nat /\ Slots \subseteq Nat
  BY <1>1, TimeAssumption DEF Timeout, Never
<1>3. Marked \in Told /\ Via \in Vias /\ Bare \in Told
  BY <1>1, LoadAssumption DEF Marked, Via, Vias, Bare, Told
<1> QED
  BY <1>1, <1>2, <1>3, LoadAssumption DEF Reqs

LEMMA SameCall ==
  ASSUME arg' = arg
  PROVE  /\ Reqs' = Reqs /\ Timeout' = Timeout /\ Via' = Via /\ Marked' = Marked
         /\ Connections' = Connections /\ Clients' = Clients
         /\ \A r : Kind(r)' = Kind(r)
BY DEF Reqs, Timeout, Marked, Via, Connections, Clients, Kind

LEMMA TypedKept ==
  ASSUME Typed, arg' = arg, now' \in 0..MaxTime, pc' \in [Reqs -> Labels],
         started' \in [Reqs -> Nat], header' \in [Reqs -> Told],
         conn' \in [Slots -> Connections], ended' \in [Reqs -> Ends]
  PROVE  Typed'
BY SameCall DEF Typed

\* A connection that a step leaves alone, with its request.
LEMMA ConnKept ==
  ASSUME arg' = arg, started' = started, NEW j \in Slots, ConnOK(j), conn'[j] = conn[j],
         conn[j].req # 0 => pc'[conn[j].req] = pc[conn[j].req]
  PROVE  ConnOK(j)'
BY SameCall DEF ConnOK

\* A request that a step leaves alone.
LEMMA ReqKept ==
  ASSUME arg' = arg, now' = now, started' = started, NEW r \in Reqs, ReqOK(r),
         pc'[r] = pc[r], header'[r] = header[r], ended'[r] = ended[r]
  PROVE  ReqOK(r)'
BY SameCall DEF ReqOK, Excused, ReqLimit, Active

\* A connection and its request know each other.
LEMMA Pair ==
  ASSUME Inv, NEW i \in Slots, conn[i].req # 0
  PROVE  /\ conn[i].req \in Reqs
         /\ conn[i].state \in Opening \cup {"busy"}
         /\ pc[conn[i].req] \in Holding
         /\ conn[i].state = "busy" <=> pc[conn[i].req] \in {"sent", "body"}
         /\ \A j \in Slots : j # i => conn[j].req # conn[i].req
<1>1. conn[i] \in Connections /\ ConnOK(i)
  BY DEF Inv, Typed
<1>2. conn[i].req \in Reqs /\ conn[i].state \in States
  BY <1>1 DEF Connections
<1> QED
  BY <1>1, <1>2 DEF ConnOK, Inv, HoldOK, Holding, States, Opening

\* A request that is not waiting for a connection and does not use one has none.
LEMMA Alone ==
  ASSUME Inv, NEW r \in Reqs, pc[r] \notin Holding, NEW i \in Slots
  PROVE  conn[i].req # r
<1>1. r # 0
  BY Facts DEF Inv
<1> QED
  BY <1>1, Pair
-----------------------------------------------------------------------------
LEMMA FreeTyped ==
  ASSUME Bare \in Told, Never \in Nat
  PROVE  Free \in Connections /\ Free.req = 0 /\ Free.state = "free"
BY DEF Free, Connections, Clients, States, Vias

LEMMA InvInit == Init => Inv
<1> SUFFICES ASSUME Init PROVE Inv
  OBVIOUS
<1>1. now = 0 /\ MaxTime \in Nat
  BY TimeAssumption DEF Init
<1>2. arg \in [load : Loads, route : Routings, timeout : Timeouts]
  BY DEF Init
<1>3. Bare \in Told /\ Never \in Nat
  BY <1>1 DEF Bare, Told, Never
<1>4. Free \in Connections
  BY <1>3, FreeTyped
<1>5. conn \in [Slots -> Connections] /\ \A i \in Slots : conn[i] = Free
  BY <1>4 DEF Init
<1>6. Typed
  BY <1>1, <1>2, <1>3, <1>5 DEF Init, Typed, Labels, Ends
<1>7. ASSUME NEW r \in Reqs PROVE ReqOK(r) /\ pc[r] = "idle"
  BY <1>1 DEF Init, ReqOK, Active, Holding
<1>8. ASSUME NEW i \in Slots PROVE ConnOK(i) /\ conn[i].req = 0
  BY <1>5, <1>8 DEF ConnOK, Free, Opening
<1> QED
  BY <1>6, <1>7, <1>8 DEF Inv, HoldOK, Holding

LEMMA DoKeeps == ASSUME Inv, NEW r \in Reqs, Do(r) PROVE Inv'
<1>1. /\ pc[r] = "idle" /\ UNCHANGED <<now, arg, header, conn, ended>>
      /\ started' = [started EXCEPT ![r] = now]
      /\ pc' = [pc EXCEPT ![r] = IF arg.route.proxy THEN "token" ELSE "ready"]
  BY DEF Do
<1>2. Typed'
  <2>1. now \in Nat /\ started' \in [Reqs -> Nat]
    BY <1>1 DEF Inv, Typed
  <2>2. pc' \in [Reqs -> Labels]
    BY <1>1 DEF Inv, Typed, Labels
  <2> QED
    BY <1>1, <2>1, <2>2, TypedKept DEF Inv, Typed, Ends
<1>3. \A i \in Slots : conn[i].req # r
  BY <1>1, Alone DEF Holding
<1>4. ASSUME NEW q \in Reqs, q # r PROVE pc'[q] = pc[q] /\ started'[q] = started[q]
  BY <1>1, <1>4 DEF Inv, Typed
<1>5. pc'[r] \in {"token", "ready"} /\ started'[r] = now /\ (pc'[r] = "ready" => ~arg.route.proxy)
  BY <1>1 DEF Inv, Typed
<1>6. HoldOK'
  BY <1>1, <1>4, <1>5, SameCall DEF Inv, HoldOK, Holding
<1>7. ASSUME NEW q \in Reqs' PROVE ReqOK(q)'
  <2>1. q \in Reqs /\ ReqOK(q)
    BY <1>1, <1>7, SameCall DEF Inv
  <2>2. CASE q = r
    <3>1. now \in Nat /\ Timeout \in Nat /\ ended[r].tunnel = "none"
      BY <1>1, <2>1, <2>2, Facts DEF Inv, Typed, ReqOK
    <3> QED
      BY <1>1, <1>5, <2>2, <3>1, SameCall DEF ReqOK, Excused, ReqLimit, Holding
  <2>3. CASE q # r
    BY <1>1, <1>4, <2>1, <2>3, SameCall DEF ReqOK, Excused, ReqLimit, Active
  <2> QED
    BY <2>2, <2>3
<1>8. ASSUME NEW i \in Slots PROVE ConnOK(i)'
  <2>1. ConnOK(i) /\ conn[i].req \in Reqs \cup {0}
    BY DEF Inv, Typed, Connections
  <2> QED
    BY <1>1, <1>3, <1>4, <2>1, SameCall DEF ConnOK
<1> QED
  BY <1>2, <1>6, <1>7, <1>8 DEF Inv

\* A step of a request that has no connection before it and none after.
LEMMA Apart ==
  ASSUME Inv, UNCHANGED <<now, arg, started>>, conn' = conn, NEW r \in Reqs,
         pc[r] \notin Holding, pc'[r] \notin Holding, pc' \in [Reqs -> Labels],
         header' \in [Reqs -> Told], ended' \in [Reqs -> Ends],
         \A q \in Reqs : q # r => /\ pc'[q] = pc[q] /\ header'[q] = header[q]
                                  /\ ended'[q] = ended[q],
         ReqOK(r)'
  PROVE  Inv'
<1>1. Typed'
  BY TypedKept DEF Inv, Typed
<1>2. HoldOK'
  BY SameCall DEF Inv, HoldOK, Holding
<1>3. ASSUME NEW q \in Reqs' PROVE ReqOK(q)'
  <2>1. q \in Reqs /\ ReqOK(q)
    BY <1>3, SameCall DEF Inv
  <2> QED
    BY <2>1, ReqKept
<1>4. ASSUME NEW i \in Slots PROVE ConnOK(i)'
  <2>1. ConnOK(i) /\ conn[i].req \in Reqs \cup {0} /\ conn[i].req # r
    BY Alone DEF Inv, Typed, Connections
  <2> QED
    BY <2>1, ConnKept
<1> QED
  BY <1>1, <1>2, <1>3, <1>4 DEF Inv

LEMMA ProxyTokenKeeps == ASSUME Inv, NEW r \in Reqs, ProxyToken(r) PROVE Inv'
<1>1. /\ pc[r] = "token" /\ UNCHANGED <<now, arg, started, conn>>
      /\ \/ /\ pc' = [pc EXCEPT ![r] = "ready"]
            /\ header' = [header EXCEPT ![r] = Marked]
            /\ ended' = ended
         \/ /\ pc' = [pc EXCEPT ![r] = "failed"]
            /\ ended' = [ended EXCEPT ![r] = [cause |-> "error", at |-> now, tunnel |-> "none"]]
            /\ header' = header
  BY DEF ProxyToken, End, EndBy
<1>2. now \in Nat /\ Marked \in Told
  BY Facts DEF Inv, Typed
<1>3. pc' \in [Reqs -> Labels] /\ pc'[r] \in {"ready", "failed"}
  BY <1>1 DEF Inv, Typed, Labels
<1>4. header' \in [Reqs -> Told]
  BY <1>1, <1>2 DEF Inv, Typed
<1>5. ended' \in [Reqs -> Ends]
  <2>1. ended \in [Reqs -> Ends] /\ [cause |-> "error", at |-> now, tunnel |-> "none"] \in Ends
    BY <1>2 DEF Inv, Typed, Ends
  <2> QED
    BY <1>1, <2>1
<1>6. ASSUME NEW q \in Reqs, q # r
      PROVE  pc'[q] = pc[q] /\ header'[q] = header[q] /\ ended'[q] = ended[q]
  BY <1>1, <1>6 DEF Inv, Typed
<1>7. ReqOK(r)'
  <2>1. ReqOK(r)
    BY DEF Inv
  <2>2. \/ pc'[r] = "ready" /\ header'[r] = Marked /\ ended'[r].tunnel = "none"
        \/ pc'[r] = "failed" /\ ended'[r].tunnel = "none"
    BY <1>1, <2>1 DEF Inv, Typed, ReqOK
  <2> QED
    BY <1>1, <2>1, <2>2, SameCall DEF ReqOK, Excused, ReqLimit, Active, Holding
<1>8. pc[r] \notin Holding /\ pc'[r] \notin Holding
  BY <1>1, <1>3 DEF Holding
<1> QED
  BY <1>1, <1>3, <1>4, <1>5, <1>6, <1>7, <1>8, Apart
-----------------------------------------------------------------------------
\* A step about one connection and at most one request, r, which no other
\* connection has: only these two must be looked at.
LEMMA Moves ==
  ASSUME Inv, UNCHANGED <<now, arg, started, header>>,
         NEW i \in Slots, NEW r \in Reqs \cup {0}, conn[i].req \in {0, r},
         r # 0 => \A j \in Slots : j # i => conn[j].req # r,
         NEW c \in Connections, conn' = [conn EXCEPT ![i] = c], c.req \in {0, r},
         pc' \in [Reqs -> Labels], ended' \in [Reqs -> Ends],
         \A q \in Reqs : q # r => pc'[q] = pc[q] /\ ended'[q] = ended[q],
         r # 0 => ReqOK(r)' /\ (pc'[r] \in Holding => c.req = r),
         ConnOK(i)'
  PROVE  Inv'
<1>1. /\ conn' \in [Slots -> Connections] /\ conn'[i] = c
      /\ \A j \in Slots : j # i => conn'[j] = conn[j]
  BY DEF Inv, Typed
<1>2. Typed'
  BY <1>1, TypedKept DEF Inv, Typed
<1>3. HoldOK'
  <2>1. ASSUME NEW q \in Reqs, pc'[q] \in Holding PROVE \E j \in Slots : conn'[j].req = q
    <3>1. CASE q = r
      BY <1>1, <2>1, <3>1, Facts DEF Inv
    <3>2. CASE q # r
      <4>1. PICK j \in Slots : conn[j].req = q
        BY <2>1, <3>2 DEF Inv, HoldOK
      <4>2. j # i
        BY <3>2, <4>1, Facts DEF Inv
      <4> QED
        BY <1>1, <4>1, <4>2
    <3> QED
      BY <3>1, <3>2
  <2>2. ASSUME NEW j \in Slots, NEW k \in Slots, conn'[j].req = conn'[k].req, conn'[j].req # 0
        PROVE  j = k
    BY <1>1, <2>2 DEF Inv, HoldOK
  <2> QED
    BY <2>1, <2>2, SameCall DEF HoldOK, Holding
<1>4. ASSUME NEW q \in Reqs' PROVE ReqOK(q)'
  <2>1. q \in Reqs /\ ReqOK(q) /\ q # 0
    BY <1>4, SameCall, Facts DEF Inv
  <2> QED
    BY <2>1, ReqKept
<1>5. ASSUME NEW j \in Slots PROVE ConnOK(j)'
  <2>1. ConnOK(j) /\ conn[j].req \in Reqs \cup {0}
    BY DEF Inv, Typed, Connections
  <2>2. CASE j # i
    BY <1>1, <2>1, <2>2, ConnKept
  <2> QED
    BY <2>2
<1> QED
  BY <1>2, <1>3, <1>4, <1>5 DEF Inv

LEMMA ReuseKeeps == ASSUME Inv, NEW r \in Reqs, Reuse(r) PROVE Inv'
<1>1. /\ pc[r] = "ready" /\ UNCHANGED <<now, arg, started, header, ended>>
      /\ pc' = [pc EXCEPT ![r] = "sent"]
  BY DEF Reuse
<1>2. PICK i \in Kept(r) :
        conn' = [conn EXCEPT ![i] = [@ EXCEPT !.state = "busy", !.req = r, !.reused = TRUE]]
  BY DEF Reuse
<1>3. i \in Slots /\ conn[i].state = "idle" /\ conn[i].client = arg.load.client[r]
  BY <1>2 DEF Kept
<1>4. conn[i] \in Connections /\ conn[i].req = 0 /\ ConnOK(i) /\ r # 0
  BY <1>3, Facts DEF Inv, Typed, ConnOK
<1> DEFINE c == [conn[i] EXCEPT !.state = "busy", !.req = r, !.reused = TRUE]
<1>5. /\ c \in Connections /\ c.state = "busy" /\ c.req = r /\ c.reused
      /\ c.client = conn[i].client /\ c.told = conn[i].told /\ c.via = conn[i].via
  BY <1>4 DEF Connections, States
<1>6. conn' = [conn EXCEPT ![i] = c]
  BY <1>2
<1> HIDE DEF c
<1>7. conn'[i] = c
  BY <1>3, <1>6 DEF Inv, Typed
<1>8. /\ pc' \in [Reqs -> Labels] /\ ended' \in [Reqs -> Ends] /\ pc'[r] = "sent"
      /\ \A q \in Reqs : q # r => pc'[q] = pc[q]
  BY <1>1 DEF Inv, Typed, Labels, Ends
<1>9. ReqOK(r)'
  <2>1. ReqOK(r)
    BY DEF Inv
  <2> QED
    BY <1>1, <1>8, <2>1, SameCall DEF ReqOK, Excused, ReqLimit, Active, Holding
<1>10. ConnOK(i)'
  BY <1>1, <1>3, <1>4, <1>5, <1>7, <1>8, SameCall DEF ConnOK, Opening
<1>11. \A j \in Slots : conn[j].req # r
  BY <1>1, Alone DEF Holding
<1>12. UNCHANGED <<now, arg, started, header>> /\ c \in Connections /\ c.req = r
  BY <1>1, <1>5
<1>13. \A q \in Reqs : q # r => pc'[q] = pc[q] /\ ended'[q] = ended[q]
  BY <1>1, <1>8
<1> QED
  BY <1>3, <1>4, <1>6, <1>8, <1>9, <1>10, <1>11, <1>12, <1>13, Moves

LEMMA StartDialKeeps == ASSUME Inv, NEW r \in Reqs, StartDial(r) PROVE Inv'
<1>1. /\ pc[r] = "ready" /\ UNCHANGED <<now, arg, started, header, ended>>
      /\ pc' = [pc EXCEPT ![r] = "waiting"]
  BY DEF StartDial
<1> DEFINE c == [Free EXCEPT !.state = "dialing", !.req = r,
                   !.client = arg.load.client[r], !.since = now, !.via = Via]
<1>2. PICK i \in Slots : conn[i] = Free /\ conn' = [conn EXCEPT ![i] = c]
  BY DEF StartDial
<1>3. now \in Nat /\ r # 0 /\ Bare \in Told /\ Never \in Nat /\ Via \in Vias
  BY Facts DEF Inv, Typed
<1>4. /\ c \in Connections /\ c.state = "dialing" /\ c.req = r
      /\ c.client = arg.load.client[r] /\ c.since = now /\ c.via = Via /\ c.deadline = Never
      /\ ~c.reused
  BY <1>3 DEF Connections, Clients, Free, States
<1>5. conn[i].req = 0
  BY <1>2 DEF Free
<1> HIDE DEF c
<1>6. conn'[i] = c
  BY <1>2 DEF Inv, Typed
<1>7. /\ pc' \in [Reqs -> Labels] /\ ended' \in [Reqs -> Ends] /\ pc'[r] = "waiting"
      /\ \A q \in Reqs : q # r => pc'[q] = pc[q]
  BY <1>1 DEF Inv, Typed, Labels, Ends
<1>8. ReqOK(r) /\ started[r] =< now
  BY DEF Inv, ReqOK
<1>9. ReqOK(r)'
  BY <1>1, <1>7, <1>8, SameCall DEF ReqOK, Excused, ReqLimit, Active, Holding
<1>10. ConnOK(i)'
  BY <1>1, <1>3, <1>4, <1>6, <1>7, <1>8, SameCall DEF ConnOK, Opening, Never
<1>11. \A j \in Slots : conn[j].req # r
  BY <1>1, Alone DEF Holding
<1>12. UNCHANGED <<now, arg, started, header>>
  BY <1>1
<1>13. \A q \in Reqs : q # r => pc'[q] = pc[q] /\ ended'[q] = ended[q]
  BY <1>1, <1>7
<1> QED
  BY <1>2, <1>4, <1>5, <1>7, <1>9, <1>10, <1>11, <1>12, <1>13, Moves

\* A connection in opening that is handed to its request, or kept without one.
LEMMA OpenedKeeps ==
  ASSUME Inv, UNCHANGED <<now, arg, started, header, ended>>, NEW i \in Slots,
         conn[i].state \in Opening, NEW b \in Connections, Opened(i, b),
         b.req = conn[i].req, b.client = conn[i].client, ~b.reused \/ b.req = 0,
         b.via = Via,
         b.req # 0 => b.deadline = Never \/ b.deadline >= started[b.req] + DialTimeout,
         arg.route.https /\ arg.route.proxy => b.told = Marked,
         Via.tunnel => b.told.location = arg.route.location
  PROVE  Inv'
<1> DEFINE state == IF b.req = 0 THEN "idle" ELSE "busy"
           c == [b EXCEPT !.state = state, !.since = now]
<1>1. conn' = [conn EXCEPT ![i] = c] /\ pc' = IF b.req = 0 THEN pc ELSE [pc EXCEPT ![b.req] = "sent"]
  BY DEF Opened
<1>2. PICK q \in Reqs \cup {0} : q = conn[i].req
  BY DEF Inv, Typed, Connections
<1>3. ConnOK(i) /\ now \in Nat
  BY DEF Inv, Typed
<1>4. state \in States /\ state = IF q = 0 THEN "idle" ELSE "busy"
  BY <1>2 DEF States
<1> HIDE DEF state
<1>5. /\ c \in Connections /\ c.req = q /\ c.state = IF q = 0 THEN "idle" ELSE "busy"
      /\ c.client = b.client /\ c.reused = b.reused /\ c.via = b.via
      /\ c.told = b.told /\ c.deadline = b.deadline
  BY <1>2, <1>3, <1>4 DEF Connections
<1> HIDE DEF c
<1>6. conn'[i] = c
  BY <1>1 DEF Inv, Typed
<1>7. /\ pc' \in [Reqs -> Labels] /\ ended' \in [Reqs -> Ends] /\ (q # 0 => pc'[q] = "sent")
      /\ \A p \in Reqs : p # q => pc'[p] = pc[p]
  BY <1>1, <1>2 DEF Inv, Typed, Labels
<1>8. q # 0 => q \in Reqs /\ ReqOK(q) /\ pc[q] = "waiting"
  BY <1>2, <1>3 DEF Inv, ConnOK
<1>9. q # 0 => ReqOK(q)'
  BY <1>7, <1>8, SameCall DEF ReqOK, Excused, ReqLimit, Active, Holding
<1>10. ConnOK(i)'
  BY <1>2, <1>3, <1>5, <1>6, <1>7, SameCall DEF ConnOK, Never, Opening
<1>11. q # 0 => \A j \in Slots : j # i => conn[j].req # q
  BY <1>2, Pair
<1> QED
  BY <1>1, <1>2, <1>5, <1>7, <1>9, <1>10, <1>11, Moves

\* A connection in opening that comes to its next step.
LEMMA GoesOn ==
  ASSUME Inv, UNCHANGED <<now, arg, pc, started, header, ended>>, NEW i \in Slots,
         conn[i].state \in Opening, NEW c \in Connections, conn' = [conn EXCEPT ![i] = c],
         c.req = conn[i].req, c.client = conn[i].client, c.via = Via,
         c.state \in {"preamble", "handshake"}, ~c.reused,
         c.req # 0 => c.deadline = Never \/ c.deadline >= started[c.req] + DialTimeout,
         c.state = "handshake" /\ arg.route.https /\ arg.route.proxy => c.told = Marked,
         Via.tunnel => c.told.location = arg.route.location
  PROVE  Inv'
<1>1. PICK q \in Reqs \cup {0} : q = conn[i].req
  BY DEF Inv, Typed, Connections
<1>2. ConnOK(i) /\ conn'[i] = c
  BY DEF Inv, Typed
<1>3. pc' \in [Reqs -> Labels] /\ ended' \in [Reqs -> Ends]
  BY DEF Inv, Typed
<1>4. q # 0 => q \in Reqs /\ ReqOK(q)
  BY <1>1 DEF Inv
<1>5. q # 0 => ReqOK(q)'
  BY <1>4, ReqKept
<1>6. ConnOK(i)'
  BY <1>2, SameCall DEF ConnOK, Never, Opening
<1>7. q # 0 => \A j \in Slots : j # i => conn[j].req # q
  BY <1>1, Pair
<1> QED
  BY <1>1, <1>3, <1>5, <1>6, <1>7, Moves

LEMMA DialedKeeps == ASSUME Inv, NEW i \in Slots, Dialed(i) PROVE Inv'
<1> DEFINE b == IF conn[i].via.tunnel
                  THEN [conn[i] EXCEPT !.deadline = conn[i].since + DialTimeout,
                                       !.told = [Bare EXCEPT !.location = arg.route.location]]
                  ELSE conn[i]
           next(state) == [b EXCEPT !.state = state, !.since = now]
<1>1. conn[i].state = "dialing" /\ UNCHANGED <<now, arg, started, header, ended>>
  BY DEF Dialed
<1>2. \/ Preamble(i) /\ conn' = [conn EXCEPT ![i] = next("preamble")] /\ UNCHANGED pc
      \/ arg.route.https /\ ~Preamble(i) /\ UNCHANGED pc
           /\ conn' = [conn EXCEPT ![i] = next("handshake")]
      \/ ~arg.route.https /\ Opened(i, b)
  BY DEF Dialed
<1>3. /\ conn[i] \in Connections /\ ConnOK(i) /\ now \in Nat /\ DialTimeout \in Nat
      /\ arg.route.location \in BOOLEAN /\ Never \in Nat
  BY Facts DEF Inv, Typed
<1>4. /\ conn[i].via = Via /\ conn[i].deadline = Never /\ conn[i].since \in Nat /\ ~conn[i].reused
      /\ conn[i].req # 0 => started[conn[i].req] =< conn[i].since
      /\ conn[i].req # 0 => started[conn[i].req] \in Nat
  BY <1>1, <1>3, Pair DEF ConnOK, Connections, Inv, Typed, Opening
<1>5. /\ b \in Connections /\ b.req = conn[i].req /\ b.client = conn[i].client /\ b.via = Via
      /\ ~b.reused
      /\ b.deadline = IF Via.tunnel THEN conn[i].since + DialTimeout ELSE Never
      /\ Via.tunnel => b.told.location = arg.route.location
  <2> DEFINE d == [Bare EXCEPT !.location = arg.route.location]
             e == conn[i].since + DialTimeout
  <2>1. d \in Told /\ d.location = arg.route.location
    BY <1>3 DEF Bare, Told
  <2>2. e \in Nat
    BY <1>3, <1>4
  <2>3. CASE conn[i].via.tunnel
    <3>1. b = [conn[i] EXCEPT !.deadline = e, !.told = d]
      BY <2>3
    <3> HIDE DEF b, d, e
    <3>2. /\ b \in Connections /\ b.req = conn[i].req /\ b.client = conn[i].client
          /\ b.via = Via /\ b.reused = conn[i].reused /\ b.deadline = e /\ b.told = d
      BY <1>3, <1>4, <2>1, <2>2, <3>1 DEF Connections
    <3> QED
      BY <1>4, <2>1, <2>3, <3>2 DEF e
  <2>4. CASE ~conn[i].via.tunnel
    BY <1>3, <1>4, <2>4
  <2> QED
    BY <2>3, <2>4
<1>6. b.req # 0 => b.deadline = Never \/ b.deadline >= started[b.req] + DialTimeout
  BY <1>3, <1>4, <1>5
<1> HIDE DEF b
<1>7. ASSUME NEW state \in {"preamble", "handshake"}
      PROVE  /\ next(state) \in Connections /\ next(state).req = b.req
             /\ next(state).client = b.client /\ next(state).via = Via
             /\ next(state).state = state /\ next(state).deadline = b.deadline
             /\ next(state).told = b.told /\ ~next(state).reused
  BY <1>3, <1>5 DEF Connections, States
<1> HIDE DEF next
<1>8. conn[i].state \in Opening
  BY <1>1 DEF Opening
<1>9. Via.peer = "connectivity" <=> arg.route.proxy
  BY Facts DEF Via, Inv
<1>10. CASE Preamble(i) /\ conn' = [conn EXCEPT ![i] = next("preamble")] /\ UNCHANGED pc
  BY <1>1, <1>5, <1>6, <1>7, <1>8, <1>10, GoesOn
<1>11. CASE arg.route.https /\ ~Preamble(i) /\ UNCHANGED pc
             /\ conn' = [conn EXCEPT ![i] = next("handshake")]
  <2>1. ~arg.route.proxy
    BY <1>4, <1>9, <1>11 DEF Preamble
  <2> QED
    BY <1>1, <1>5, <1>6, <1>7, <1>8, <1>11, <2>1, GoesOn
<1>12. CASE ~arg.route.https /\ Opened(i, b)
  BY <1>1, <1>5, <1>6, <1>8, <1>12, OpenedKeeps
<1> QED
  BY <1>2, <1>10, <1>11, <1>12

LEMMA PreambleSentKeeps == ASSUME Inv, NEW i \in Slots, PreambleSent(i) PROVE Inv'
<1> DEFINE c == [conn[i] EXCEPT !.state = "handshake", !.since = now, !.told = Marked]
<1>1. /\ conn[i].state = "preamble" /\ conn' = [conn EXCEPT ![i] = c]
      /\ UNCHANGED <<now, arg, pc, started, header, ended>>
  BY DEF PreambleSent
<1>2. conn[i] \in Connections /\ ConnOK(i) /\ now \in Nat /\ Marked \in Told
  BY Facts DEF Inv, Typed
<1>3. /\ c \in Connections /\ c.req = conn[i].req /\ c.client = conn[i].client
      /\ c.via = conn[i].via /\ c.state = "handshake" /\ c.deadline = conn[i].deadline
      /\ c.told = Marked /\ c.reused = conn[i].reused
  BY <1>2 DEF Connections, States
<1> HIDE DEF c
<1>4. Marked.location = arg.route.location
  BY DEF Marked
<1>5. /\ conn[i].via = Via /\ ~conn[i].reused
      /\ conn[i].req # 0 => conn[i].deadline = Never
                            \/ conn[i].deadline >= started[conn[i].req] + DialTimeout
  BY <1>1, <1>2 DEF ConnOK, Opening
<1> QED
  BY <1>1, <1>3, <1>4, <1>5, GoesOn DEF Opening

LEMMA HandshakeDoneKeeps == ASSUME Inv, NEW i \in Slots, HandshakeDone(i) PROVE Inv'
<1>1. /\ conn[i].state = "handshake" /\ Opened(i, conn[i])
      /\ UNCHANGED <<now, arg, started, header, ended>>
  BY DEF HandshakeDone
<1>2. conn[i] \in Connections /\ ConnOK(i) /\ conn[i].state \in Opening
  BY <1>1 DEF Inv, Typed, Opening
<1>3. /\ conn[i].via = Via /\ ~conn[i].reused
      /\ conn[i].req # 0 => conn[i].deadline = Never
                            \/ conn[i].deadline >= started[conn[i].req] + DialTimeout
      /\ arg.route.https /\ arg.route.proxy => conn[i].told = Marked
      /\ Via.tunnel => conn[i].told.location = arg.route.location
  BY <1>1, <1>2 DEF ConnOK
<1> QED
  BY <1>1, <1>2, <1>3, OpenedKeeps

\* A request ends now, and if it is by the deadline of a tunnel then with excuse.
EndsWell(r) ==
  \E cause \in {"whole", "cut", "error"}, tunnel \in {"none", "fresh", "kept"} :
    /\ ended' = [ended EXCEPT ![r] = [cause |-> cause, at |-> now, tunnel |-> tunnel]]
    /\ tunnel # "none" => \/ tunnel = "kept" /\ (Kind(r) = "write" \/ cause = "cut")
                          \/ now >= started[r] + DialTimeout

\* A step in which a request ends, or goes back for another connection, and the
\* one it had is kept or given up.
LEMMA LetsGo ==
  ASSUME Inv, UNCHANGED <<now, arg, started, header>>, NEW i \in Slots, NEW r \in Reqs,
         conn[i].req = r, NEW c \in {Released(i), Free}, conn' = [conn EXCEPT ![i] = c],
         c = Free \/ conn[i].state = "busy",
         NEW label \in {"done", "failed", "ready"}, pc' = [pc EXCEPT ![r] = label],
         label # "ready" => EndsWell(r),
         label = "ready" => ended' = ended
  PROVE  Inv'
<1>1. /\ r # 0 /\ pc[r] \in Holding /\ ReqOK(r) /\ ConnOK(i)
      /\ \A j \in Slots : j # i => conn[j].req # r
  BY Facts, Pair DEF Inv
<1>2. conn[i] \in Connections /\ now \in Nat /\ Bare \in Told /\ Never \in Nat
  BY Facts DEF Inv, Typed
<1>3. Free \in Connections /\ Free.req = 0 /\ Free.state = "free"
  BY <1>2, FreeTyped
<1>4. /\ Released(i) \in Connections /\ Released(i).req = 0 /\ Released(i).state = "idle"
      /\ Released(i).told = conn[i].told /\ Released(i).via = conn[i].via
  BY <1>2 DEF Released, Connections, States
<1>5. c \in Connections /\ c.req = 0 /\ conn'[i] = c
  BY <1>3, <1>4 DEF Inv, Typed
<1>6. /\ pc' \in [Reqs -> Labels] /\ pc'[r] = label
      /\ \A q \in Reqs : q # r => pc'[q] = pc[q]
  BY DEF Inv, Typed, Labels
<1>7. /\ ended' \in [Reqs -> Ends] /\ \A q \in Reqs : q # r => ended'[q] = ended[q]
      /\ ReqOK(r)'
  <2>1. CASE label = "ready"
    <3>1. ended' \in [Reqs -> Ends]
      BY <2>1 DEF Inv, Typed, Ends
    <3> QED
      BY <1>1, <1>6, <2>1, <3>1, SameCall DEF ReqOK, Excused, ReqLimit, Active, Holding
  <2>2. CASE label # "ready"
    <3>1. PICK cause \in {"whole", "cut", "error"}, tunnel \in {"none", "fresh", "kept"} :
             /\ ended' = [ended EXCEPT ![r] = [cause |-> cause, at |-> now, tunnel |-> tunnel]]
             /\ tunnel # "none" => \/ tunnel = "kept" /\ (Kind(r) = "write" \/ cause = "cut")
                                   \/ now >= started[r] + DialTimeout
      BY <2>2 DEF EndsWell
    <3>2. ended \in [Reqs -> Ends] /\ [cause |-> cause, at |-> now, tunnel |-> tunnel] \in Ends
      BY <1>2 DEF Inv, Typed, Ends
    <3>3. /\ ended' \in [Reqs -> Ends]
          /\ ended'[r] = [cause |-> cause, at |-> now, tunnel |-> tunnel]
          /\ \A q \in Reqs : q # r => ended'[q] = ended[q]
      BY <3>1, <3>2
    <3>4. ReqOK(r)'
      BY <1>1, <1>6, <2>2, <3>1, <3>3, SameCall DEF ReqOK, Excused, ReqLimit, Active, Holding
    <3> QED
      BY <3>3, <3>4
  <2> QED
    BY <2>1, <2>2
<1>8. ConnOK(i)'
  <2>1. CASE c = Free
    BY <1>3, <1>5, <2>1 DEF ConnOK, Opening
  <2>2. CASE c = Released(i) /\ conn[i].state = "busy"
    BY <1>1, <1>4, <1>5, <2>2, SameCall DEF ConnOK, Never, Opening
  <2> QED
    BY <2>1, <2>2
<1>9. pc'[r] \notin Holding
  BY <1>6 DEF Holding
<1>10. \A q \in Reqs : q # r => pc'[q] = pc[q] /\ ended'[q] = ended[q]
  BY <1>6, <1>7
<1>11. c.req \in {0, r} /\ conn[i].req \in {0, r} /\ c \in Connections
  BY <1>5
<1>12. r \in Reqs \cup {0} /\ \A j \in Slots : j # i => conn[j].req # r
  BY <1>1
<1>13. pc' \in [Reqs -> Labels] /\ ended' \in [Reqs -> Ends]
  BY <1>6, <1>7
<1>14. ReqOK(r)' /\ (pc'[r] \in Holding => c.req = r)
  BY <1>7, <1>9
<1> QED
  <2>1. PICK d \in Connections : d = c
    BY <1>11
  <2>2. conn' = [conn EXCEPT ![i] = d] /\ d.req \in {0, r} /\ UNCHANGED <<now, arg, started, header>>
    BY <1>11, <2>1
  <2>3. r # 0 => ReqOK(r)' /\ (pc'[r] \in Holding => d.req = r)
    BY <1>14, <2>1
  <2>4. PICK q \in Reqs \cup {0} : q = r
    BY <1>12
  <2>5. /\ conn[i].req \in {0, q} /\ d.req \in {0, q}
        /\ \A j \in Slots : j # i => conn[j].req # q
        /\ \A p \in Reqs : p # q => pc'[p] = pc[p] /\ ended'[p] = ended[p]
        /\ q # 0 => ReqOK(q)' /\ (pc'[q] \in Holding => d.req = q)
    BY <1>10, <1>11, <1>12, <2>2, <2>3, <2>4
  <2> QED
    BY <1>8, <1>13, <2>2, <2>5, Moves

\* A connection that is no request's is given up.
LEMMA NobodysGoes ==
  ASSUME Inv, NEW i \in Slots, conn[i].req = 0, conn' = [conn EXCEPT ![i] = Free],
         UNCHANGED <<now, arg, pc, started, header, ended>>
  PROVE  Inv'
<1>1. Free \in Connections /\ Free.req = 0 /\ Free.state = "free"
  BY Facts, FreeTyped DEF Inv
<1>2. conn'[i] = Free
  BY DEF Inv, Typed
<1>3. ConnOK(i)'
  BY <1>1, <1>2 DEF ConnOK, Opening
<1>4. pc' \in [Reqs -> Labels] /\ ended' \in [Reqs -> Ends]
  BY DEF Inv, Typed, Ends
<1> QED
  BY <1>1, <1>3, <1>4, Moves

LEMMA DialFailsKeeps == ASSUME Inv, NEW i \in Slots, DialFails(i) PROVE Inv'
<1> DEFINE r == conn[i].req
<1>1. /\ UNCHANGED <<now, arg, started, header>>
      /\ conn' = [conn EXCEPT ![i] = Free]
      /\ IF r = 0 THEN UNCHANGED <<pc, ended>> ELSE End(r, "failed", "error")
  BY DEF DialFails
<1>2. CASE r = 0
  BY <1>1, <1>2, NobodysGoes
<1>3. CASE r # 0
  <2>1. PICK q \in Reqs : q = r
    BY <1>3, Pair
  <2>2. pc' = [pc EXCEPT ![q] = "failed"] 
           /\ ended' = [ended EXCEPT ![q] = [cause |-> "error", at |-> now, tunnel |-> "none"]]
    BY <1>1, <1>3, <2>1 DEF End, EndBy
  <2>3. conn[i].req = q
    BY <1>1, <2>1
  <2>4. UNCHANGED <<now, arg, started, header>> /\ conn' = [conn EXCEPT ![i] = Free]
    BY <1>1
  <2> HIDE DEF r
  <2> QED
    BY <2>2, <2>3, <2>4, LetsGo DEF EndsWell
<1> QED
  BY <1>2, <1>3

LEMMA ServeKeeps == ASSUME Inv, NEW i \in Slots, Serve(i) PROVE Inv'
<1>1. PICK r \in Reqs : r = conn[i].req
  BY Pair DEF Serve, Inv, ConnOK
<1>2. /\ conn[i].state = "busy" /\ pc[r] = "sent" /\ pc' = [pc EXCEPT ![r] = "body"]
      /\ UNCHANGED <<now, arg, started, header, conn, ended>>
  BY <1>1 DEF Serve
<1>3. /\ r # 0 /\ ReqOK(r) /\ ConnOK(i) /\ conn[i] \in Connections
      /\ \A j \in Slots : j # i => conn[j].req # r
  BY <1>1, Facts, Pair DEF Inv, Typed
<1>4. conn' = [conn EXCEPT ![i] = conn[i]]
  BY <1>2 DEF Inv, Typed
<1>5. /\ pc' \in [Reqs -> Labels] /\ pc'[r] = "body" /\ ended' \in [Reqs -> Ends]
      /\ \A q \in Reqs : q # r => pc'[q] = pc[q] /\ ended'[q] = ended[q]
  BY <1>2 DEF Inv, Typed, Labels, Ends
<1>6. ReqOK(r)'
  BY <1>2, <1>3, <1>5, SameCall DEF ReqOK, Excused, ReqLimit, Active, Holding
<1>7. ConnOK(i)'
  BY <1>1, <1>2, <1>3, <1>5, SameCall DEF ConnOK, Never, Opening
<1>8. conn[i].req \in {0, r} /\ UNCHANGED <<now, arg, started, header>>
  BY <1>1, <1>2
<1> QED
  BY <1>1, <1>3, <1>4, <1>5, <1>6, <1>7, <1>8, Moves

\* The request of a busy connection.
LEMMA Busy ==
  ASSUME Inv, NEW i \in Slots, conn[i].state = "busy"
  PROVE  conn[i].req \in Reqs
BY Pair DEF Inv, ConnOK

LEMMA BodyEndsKeeps == ASSUME Inv, NEW i \in Slots, BodyEnds(i) PROVE Inv'
<1>1. PICK r \in Reqs : r = conn[i].req
  BY Busy DEF BodyEnds
<1>2. /\ conn[i].state = "busy" /\ pc' = [pc EXCEPT ![r] = "done"]
      /\ ended' = [ended EXCEPT ![r] = [cause |-> "whole", at |-> now, tunnel |-> "none"]]
      /\ conn' = [conn EXCEPT ![i] = Released(i)] /\ UNCHANGED <<now, arg, started, header>>
  BY <1>1 DEF BodyEnds, End, EndBy
<1> QED
  BY <1>1, <1>2, LetsGo DEF EndsWell

LEMMA FetchReturnsKeeps == ASSUME Inv, NEW i \in Slots, FetchReturns(i) PROVE Inv'
<1>1. PICK r \in Reqs : r = conn[i].req
  BY Busy DEF FetchReturns
<1>2. PICK c \in {Released(i), Free} : conn' = [conn EXCEPT ![i] = c]
  BY DEF FetchReturns, CloseBody
<1>3. /\ conn[i].state = "busy" /\ pc' = [pc EXCEPT ![r] = "done"]
      /\ ended' = [ended EXCEPT ![r] = [cause |-> "whole", at |-> now, tunnel |-> "none"]]
      /\ UNCHANGED <<now, arg, started, header>>
  BY <1>1 DEF FetchReturns, End, EndBy
<1> QED
  BY <1>1, <1>2, <1>3, LetsGo DEF EndsWell

LEMMA DiesKeeps ==
  ASSUME Inv, NEW i \in Slots, NEW tunnel \in {"none", "fresh", "kept"}, Dies(i, tunnel),
         tunnel # "none" => /\ now >= conn[i].deadline
                            /\ tunnel = IF conn[i].reused THEN "kept" ELSE "fresh"
  PROVE  Inv'
<1>1. conn[i].state = "busy"
  BY DEF Dies
<1>2. PICK r \in Reqs : r = conn[i].req
  BY <1>1, Busy
<1>3. conn' = [conn EXCEPT ![i] = Free] /\ UNCHANGED <<now, arg, started, header>>
  BY DEF Dies
<1>4. CASE pc' = [pc EXCEPT ![r] = "ready"] /\ UNCHANGED ended
  BY <1>1, <1>2, <1>3, <1>4, LetsGo DEF EndsWell
<1>5. tunnel # "none" => tunnel = "kept" \/ now >= started[r] + DialTimeout
  <2> SUFFICES ASSUME tunnel = "fresh" PROVE now >= started[r] + DialTimeout
    OBVIOUS
  <2>1. /\ ConnOK(i) /\ conn[i] \in Connections /\ ~conn[i].reused /\ r # 0
        /\ now >= conn[i].deadline
    BY <1>2, Facts DEF Inv, Typed
  <2>2. conn[i].deadline = Never \/ conn[i].deadline >= started[r] + DialTimeout
    BY <1>1, <1>2, <2>1 DEF ConnOK
  <2>3. /\ now \in 0..MaxTime /\ started[r] \in Nat /\ conn[i].deadline \in Nat
        /\ DialTimeout \in Nat /\ MaxTime \in Nat
    BY <2>1, Facts DEF Inv, Typed, Connections
  <2> QED
    BY <2>1, <2>2, <2>3 DEF Never
<1>6. CASE ~(conn[i].reused /\ Kind(r) # "write") /\ EndBy(r, "failed", "error", tunnel)
  <2>1. tunnel = "kept" => Kind(r) = "write"
    BY <1>6
  <2> QED
    BY <1>1, <1>2, <1>3, <1>5, <1>6, <2>1, LetsGo DEF EndBy, EndsWell
<1>7. CASE EndBy(r, "done", "cut", tunnel)
  BY <1>1, <1>2, <1>3, <1>5, <1>7, LetsGo DEF EndBy, EndsWell
<1> QED
  BY <1>2, <1>4, <1>6, <1>7 DEF Dies

LEMMA IdleDiesKeeps == ASSUME Inv, NEW i \in Slots, IdleDies(i) PROVE Inv'
<1>1. /\ conn[i].state = "idle" /\ conn' = [conn EXCEPT ![i] = Free]
      /\ UNCHANGED <<now, arg, pc, started, header, ended>>
  BY DEF IdleDies
<1>2. conn[i].req = 0
  BY <1>1 DEF Inv, ConnOK
<1> QED
  BY <1>1, <1>2, NobodysGoes

LEMMA AbandonKeeps ==
  ASSUME Inv, NEW r \in Reqs, NEW inBody \in {"cut", "error"}, Abandon(r, inBody)
  PROVE  Inv'
<1> DEFINE left(i) == IF conn[i].state \in Opening THEN [conn[i] EXCEPT !.req = 0] ELSE Free
<1>1. /\ Active(r) /\ UNCHANGED <<now, arg, started, header>>
      /\ conn' = [i \in Slots |-> IF conn[i].req # r THEN conn[i] ELSE left(i)]
  BY DEF Abandon
<1>2. PICK label \in {"failed", "done"}, cause \in {"cut", "error"} : End(r, label, cause)
  BY DEF Abandon
<1>3. now \in Nat /\ Bare \in Told /\ Never \in Nat /\ r # 0 /\ ReqOK(r)
  BY Facts DEF Inv, Typed
<1>4. ended \in [Reqs -> Ends] /\ [cause |-> cause, at |-> now, tunnel |-> "none"] \in Ends
  BY <1>3 DEF Inv, Typed, Ends
<1>5. /\ pc' \in [Reqs -> Labels] /\ pc'[r] = label
      /\ ended' \in [Reqs -> Ends] /\ ended'[r].tunnel = "none"
      /\ \A q \in Reqs : q # r => pc'[q] = pc[q] /\ ended'[q] = ended[q]
  BY <1>2, <1>4 DEF Inv, Typed, Labels, End, EndBy
<1>6. ReqOK(r)' /\ pc'[r] \notin Holding
  BY <1>1, <1>3, <1>5, SameCall DEF ReqOK, Excused, ReqLimit, Active, Holding
<1>7. CASE pc[r] \notin Holding
  <2>1. conn' = conn
    BY <1>1, <1>7, Alone DEF Inv, Typed
  <2> QED
    BY <1>1, <1>5, <1>6, <1>7, <2>1, Apart DEF Inv, Typed
<1>8. CASE pc[r] \in Holding
  <2>1. PICK i \in Slots : conn[i].req = r
    BY <1>8 DEF Inv, HoldOK
  <2>2. /\ \A j \in Slots : j # i => conn[j].req # r
        /\ ConnOK(i) /\ conn[i] \in Connections
    BY <1>3, <2>1, Pair DEF Inv, Typed
  <2> DEFINE c == left(i)
  <2>3. conn' = [conn EXCEPT ![i] = c]
    BY <1>1, <2>1, <2>2 DEF Inv, Typed
  <2>4. c \in Connections /\ c.req = 0
    BY <1>3, <2>2, FreeTyped DEF Connections
  <2>8. \/ c.state = "free"
        \/ /\ c.state = conn[i].state /\ c.state \in Opening /\ c.reused = conn[i].reused
           /\ c.deadline = conn[i].deadline /\ c.via = conn[i].via /\ c.told = conn[i].told
    BY <1>3, <2>2, FreeTyped DEF Connections
  <2> HIDE DEF c
  <2>5. conn'[i] = c
    BY <2>3 DEF Inv, Typed
  <2>6. ConnOK(i)'
    BY <1>1, <2>2, <2>4, <2>5, <2>8, SameCall DEF ConnOK, Opening, Never
  <2>7. c.req \in {0, r} /\ conn[i].req \in {0, r}
    BY <2>1, <2>4
  <2> QED
    BY <1>1, <1>5, <1>6, <2>2, <2>3, <2>4, <2>6, <2>7, Moves
<1> QED
  BY <1>7, <1>8

LEMMA TickKeeps == Inv /\ Tick => Inv'
<1> SUFFICES ASSUME Inv, Tick PROVE Inv'
  OBVIOUS
<1>1. /\ now < MaxTime /\ now' = now + 1 /\ UNCHANGED <<arg, pc, started, header, conn, ended>>
      /\ \A r \in Reqs : Active(r) => now < ReqLimit(r)
  BY DEF Tick, ReqLimit
<1>2. now' \in 0..MaxTime
  BY <1>1, Facts DEF Inv, Typed
<1>3. Typed'
  BY <1>1, <1>2, TypedKept DEF Inv, Typed, Ends
<1>4. HoldOK'
  BY <1>1, SameCall DEF Inv, HoldOK
<1>5. ASSUME NEW r \in Reqs' PROVE ReqOK(r)'
  <2>1. r \in Reqs /\ ReqOK(r) /\ started[r] \in Nat /\ Timeout \in Nat /\ now \in Nat
    BY <1>1, <1>5, SameCall, Facts DEF Inv, Typed
  <2>2. ReqLimit(r) \in Nat /\ ReqLimit(r)' = ReqLimit(r) /\ (Active(r)' <=> Active(r))
    BY <1>1, <2>1, SameCall DEF ReqLimit, Active
  <2> QED
    BY <1>1, <2>1, <2>2, SameCall DEF ReqOK, Excused
<1>6. ASSUME NEW i \in Slots PROVE ConnOK(i)'
  <2>1. ConnOK(i)
    BY DEF Inv
  <2> QED
    BY <1>1, <2>1, ConnKept
<1> QED
  BY <1>3, <1>4, <1>5, <1>6 DEF Inv

LEMMA InvStep == Inv /\ [Next]_vars => Inv'
<1> SUFFICES ASSUME Inv, [Next]_vars PROVE Inv'
  OBVIOUS
<1>1. ASSUME NEW r \in Reqs, Do(r) PROVE Inv'
  BY <1>1, DoKeeps
<1>2. ASSUME NEW r \in Reqs, ProxyToken(r) PROVE Inv'
  BY <1>2, ProxyTokenKeeps
<1>3. ASSUME NEW r \in Reqs, Reuse(r) PROVE Inv'
  BY <1>3, ReuseKeeps
<1>4. ASSUME NEW r \in Reqs, StartDial(r) PROVE Inv'
  BY <1>4, StartDialKeeps
<1>5. ASSUME NEW r \in Reqs, TimeoutFires(r) \/ CallerLeaves(r) PROVE Inv'
  BY <1>5, AbandonKeeps DEF TimeoutFires, CallerLeaves
<1>6. ASSUME NEW i \in Slots, Dialed(i) PROVE Inv'
  BY <1>6, DialedKeeps
<1>7. ASSUME NEW i \in Slots, DialFails(i) PROVE Inv'
  BY <1>7, DialFailsKeeps
<1>8. ASSUME NEW i \in Slots, Serve(i) PROVE Inv'
  BY <1>8, ServeKeeps
<1>9. ASSUME NEW i \in Slots, BodyEnds(i) PROVE Inv'
  BY <1>9, BodyEndsKeeps
<1>10. ASSUME NEW i \in Slots, FetchReturns(i) PROVE Inv'
  BY <1>10, FetchReturnsKeeps
<1>11. ASSUME NEW i \in Slots, PeerCloses(i) \/ DeadlinePasses(i) PROVE Inv'
  BY <1>11, DiesKeeps DEF PeerCloses, DeadlinePasses
<1>12. ASSUME NEW i \in Slots, IdleDies(i) PROVE Inv'
  BY <1>12, IdleDiesKeeps
<1>15. ASSUME NEW i \in Slots, PreambleSent(i) PROVE Inv'
  BY <1>15, PreambleSentKeeps
<1>16. ASSUME NEW i \in Slots, HandshakeDone(i) PROVE Inv'
  BY <1>16, HandshakeDoneKeeps
<1>13. CASE Tick
  BY <1>13, TickKeeps
<1>14. CASE UNCHANGED vars
  <2>1. Typed' /\ HoldOK'
    BY <1>14, SameCall DEF Inv, Typed, HoldOK, vars
  <2>2. ASSUME NEW r \in Reqs' PROVE ReqOK(r)'
    BY <1>14, <2>2, ReqKept, SameCall DEF Inv, vars
  <2>3. ASSUME NEW i \in Slots PROVE ConnOK(i)'
    BY <1>14, ConnKept DEF Inv, vars
  <2> QED
    BY <2>1, <2>2, <2>3 DEF Inv
<1> QED
  BY <1>1, <1>2, <1>3, <1>4, <1>5, <1>6, <1>7, <1>8, <1>9, <1>10, <1>11, <1>12, <1>13, <1>14,
     <1>15, <1>16 DEF Next, Finished

\* The invariant holds in every reachable state.
THEOREM Invariant == Spec => []Inv
  BY InvInit, InvStep, PTL DEF Spec
-----------------------------------------------------------------------------
\* Types of all variables, and a request holds the one connection it waits for
\* or uses, of its own client, and no other: persistConns are neither shared
\* nor lost.
THEOREM TypeCorrect == Spec => []TypeOK
<1>1. ASSUME Inv PROVE TypeOK
  <2>1. ASSUME NEW r \in Reqs
        PROVE  /\ started[r] \in 0..now
               /\ {header[r].auth, header[r].location} \subseteq BOOLEAN
    BY <1>1, <2>1 DEF Inv, Typed, Told, ReqOK
  <2>2. ASSUME NEW r \in Reqs, pc[r] \in Holding
        PROVE  \E i \in Slots :
                 /\ Users(r) = {i} /\ conn[i].client = arg.load.client[r]
                 /\ conn[i].state \in IF pc[r] = "waiting" THEN Opening ELSE {"busy"}
    <3>1. PICK i \in Slots : conn[i].req = r
      BY <1>1, <2>2 DEF Inv, HoldOK
    <3>2. r # 0 /\ ConnOK(i)
      BY <1>1, <2>2, Facts DEF Inv
    <3>3. Users(r) = {i}
      BY <1>1, <3>1, <3>2, Pair DEF Users
    <3> QED
      BY <1>1, <2>2, <3>1, <3>2, <3>3, Pair DEF ConnOK, Holding
  <2>3. ASSUME NEW r \in Reqs, pc[r] \notin Holding
        PROVE  pc[r] \in {"idle", "token", "ready", "done", "failed"} /\ Users(r) = {}
    BY <1>1, <2>3, Alone DEF Inv, Typed, Labels, Holding, Users
  <2> QED
    BY <1>1, <2>1, <2>2, <2>3 DEF Inv, Typed, TypeOK, Holding, Connections, States, Opening
<1> QED
  BY <1>1, Invariant, PTL

\* ProxyInformed, for every route: HTTPProxy wins over the Dialer, and neither way
\* of telling the connectivity proxy leaves out what it needs.
THEOREM ProxyInformedHolds == Spec => []ProxyInformed
<1>1. ASSUME Inv PROVE ProxyInformed
  <2> SUFFICES ASSUME NEW r \in Reqs, NEW i \in Users(r), conn[i].state = "busy"
               PROVE  /\ arg.route.proxy =>
                           /\ conn[i].via = [peer |-> "connectivity", tunnel |-> FALSE]
                           /\ (IF arg.route.https THEN conn[i].told ELSE header[r]) = Marked
                      /\ arg.route.onPremise /\ arg.route.dialer /\ ~arg.route.proxy =>
                           /\ conn[i].via.tunnel /\ conn[i].told.location = arg.route.location
                           /\ ~arg.route.env => conn[i].via.peer = "destination"
    BY DEF ProxyInformed
  <2>1. i \in Slots /\ conn[i].req = r /\ ConnOK(i) /\ ReqOK(r)
    BY <1>1 DEF Users, Inv
  <2>2. /\ conn[i].via = Via /\ pc[r] \in Holding
        /\ arg.route.https /\ arg.route.proxy => conn[i].told = Marked
        /\ Via.tunnel => conn[i].told.location = arg.route.location
    BY <2>1 DEF ConnOK, Holding
  <2>3. arg.route.proxy => header[r] = Marked
    BY <2>1, <2>2 DEF ReqOK
  <2>4. /\ arg.route.proxy => Via = [peer |-> "connectivity", tunnel |-> FALSE]
        /\ arg.route.onPremise /\ arg.route.dialer /\ ~arg.route.proxy => Via.tunnel
        /\ ~arg.route.proxy /\ ~arg.route.env => Via.peer = "destination"
    BY DEF Via
  <2> QED
    BY <2>2, <2>3, <2>4
<1> QED
  BY <1>1, Invariant, PTL

\* RequestTimed, as long as no Config.Timeout is longer than a dial may take:
\* beyond that the deadline a tunnel keeps ends also the request it was dialed
\* for before its Timeout.
THEOREM RequestTimedHolds ==
  ASSUME \A t \in Timeouts \cup {DefaultTimeout} : t =< DialTimeout
  PROVE  Spec => []RequestTimed
<1>1. ASSUME Inv PROVE RequestTimed
  <2> SUFFICES ASSUME NEW r \in Reqs
               PROVE  /\ Active(r) => now =< ReqLimit(r)
                      /\ ended[r].tunnel # "none" /\ ended[r].at < ReqLimit(r) =>
                           /\ ended[r].tunnel = "kept"
                           /\ Kind(r) = "write" \/ ended[r].cause = "cut"
    BY DEF RequestTimed, ReqLimit, Timeout
  <2>1. ReqOK(r) /\ started[r] \in Nat /\ ended[r].at \in Nat
    BY <1>1 DEF Inv, Typed, Ends
  <2>2. Timeout \in Nat /\ DialTimeout \in Nat /\ Timeout =< DialTimeout
    BY <1>1, Facts DEF Inv, Typed, Timeout
  <2> QED
    BY <2>1, <2>2 DEF ReqOK, Excused, ReqLimit
<1> QED
  BY <1>1, Invariant, PTL
=============================================================================
