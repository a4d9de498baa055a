------------------------------ MODULE Socks5Dial ------------------------------
(***************************************************************************)
(* One call of connectivity.Dialer.Dial (connectivity/dialer.go) with the  *)
(* SOCKS5 handshake on the connection it opens (socks5.go, frame.go).      *)
(* A Dialer has no mutable state, so concurrent calls do not interact.     *)
(*                                                                         *)
(* The proxy answers the client's frames with bytes it delivers in pieces  *)
(* of any size; it may answer wrongly, fall silent or close.  The client   *)
(* reads whole fields with io.ReadFull, so a read waits for the field's    *)
(* last byte, and what follows a field stays on the wire.  Once the CONNECT *)
(* is granted the bytes of the overlaid protocol follow the reply directly. *)
(*                                                                         *)
(* Abstracted: the contents of JWTs, names and addresses (only lengths     *)
(* that a frame declares are kept), and wording of errors.                 *)
(***************************************************************************)
EXTENDS Integers, Sequences

CONSTANTS DialTimeout,     \* Config.DialTimeout as given to NewDialer
          DefaultTimeout,  \* the default that replaces a zero (30s)
          CtxDeadlines,    \* the deadlines the caller's context may have
          TokenSources,    \* whether Config.TokenSource may be set: a set of Booleans
          HostLens,        \* lengths of virtualHost
          LocLens,         \* lengths of the base64 of locationID
          GreetingReplies, AuthReplies, ConnectReplies, \* what the proxy may answer
          Payload,         \* first bytes the on-premises server sends
          MaxTime          \* bound on the clock, for TLC

ASSUME TimeAssumption ==
  /\ DialTimeout \in Nat /\ DefaultTimeout \in Nat /\ MaxTime \in Nat
  /\ CtxDeadlines \subseteq Nat
ASSUME LengthAssumption == HostLens \subseteq Nat /\ LocLens \subseteq Nat

Bytes == 0..255

\* Whatever the proxy's replies say, they are as long as RFC 1928 and the SAP
\* method make them: a reply that is shorter ends the connection, and one that
\* is longer has its end in the tunnel.
ASSUME ReplyAssumption ==
  /\ \A r \in GreetingReplies \cup AuthReplies : r \in Seq(Bytes) /\ Len(r) = 2
  /\ \A r \in ConnectReplies :
       /\ r \in Seq(Bytes) /\ Len(r) >= 5
       /\ r[1] = 5 /\ r[4] \in {1, 3, 4} =>
            Len(r) = CASE r[4] = 1 -> 10 [] r[4] = 3 -> 7 + r[5] [] OTHER -> 22
  /\ Payload \in Seq(Bytes)

VARIABLES
  now,       \* the clock
  arg,       \* the Config and the arguments of Dial
  pc,        \* how far the client is
  stage,     \* StageError.Stage of the error returned
  conn,      \* the TCP connection, as the client holds it
  limit,     \* the deadline of dialCtx
  deadline,  \* the deadline set on the connection
  rep,       \* the REP byte of the CONNECT reply
  need,      \* how many bytes drainBoundAddr has to discard
  sent,      \* the frames the client has written
  replies,   \* the replies the proxy has chosen, one per frame
  out,       \* bytes the proxy has written that have not arrived
  wire,      \* bytes that have arrived and are not yet read
  closed,    \* the proxy has closed the connection
  overlay    \* what the overlaid protocol's reads have got

client == <<arg, pc, stage, conn, limit, deadline, rep, need, sent>>
proxy  == <<replies, out, closed>>
vars   == <<now, arg, pc, stage, conn, limit, deadline, rep, need, sent,
            replies, out, wire, closed, overlay>>

SAP    == 128   \* method 0x80
NoAuth == 0     \* method 0x00
Never  == MaxTime + 1  \* the zero time: no deadline

\* NewDialer: a zero DialTimeout means the default.
Timeout == IF DialTimeout = 0 THEN DefaultTimeout ELSE DialTimeout

Init == /\ now = 0
        /\ arg \in [ts : TokenSources, host : HostLens, loc : LocLens,
                    ctx : CtxDeadlines]
        /\ pc = "idle"
        /\ stage = "none"
        /\ conn = "none"
        /\ limit = Never
        /\ deadline = Never
        /\ rep = 0
        /\ need = 0
        /\ sent = << >>
        /\ replies = << >>
        /\ out = << >>
        /\ wire = << >>
        /\ closed = FALSE
        /\ overlay = "fresh"
-----------------------------------------------------------------------------
\* Dial: the context of the call is bounded by DialTimeout.
Dial ==
  /\ pc = "idle"
  /\ pc' = "tcp"
  /\ limit' = IF arg.ctx < now + Timeout THEN arg.ctx ELSE now + Timeout
  /\ UNCHANGED <<now, arg, stage, conn, deadline, rep, need, sent, proxy, wire, overlay>>

\* Mutant: the connection gets no deadline.
ArmNothing == UNCHANGED deadline

\* handshake sets the connection's deadline from the context, which has one.
ArmDeadline == deadline' = limit

\* DialContext succeeds, and handshake begins.
TcpConnect ==
  /\ pc = "tcp"
  /\ now =< limit
  /\ pc' = "hello"
  /\ conn' = "open"
  /\ ArmDeadline
  /\ UNCHANGED <<now, arg, stage, limit, rep, need, sent, proxy, wire, overlay>>

\* Mutant: a failed handshake leaves the connection open.
LeaveConn == UNCHANGED conn

CloseConn == conn' = "closed"

\* handshake returns an error of stage s and Dial closes the connection.
Fail(s) ==
  /\ pc' = "failed"
  /\ stage' = s
  /\ CloseConn
  /\ UNCHANGED <<arg, limit, deadline, rep, need, sent>>

\* DialContext fails: refused, unreachable, out of time or cancelled.
TcpFails ==
  /\ pc = "tcp"
  /\ pc' = "failed"
  /\ stage' = "dial"
  /\ UNCHANGED <<now, arg, conn, limit, deadline, rep, need, sent, proxy, wire, overlay>>

Goto(label) ==
  /\ pc' = label
  /\ UNCHANGED <<arg, stage, conn, limit, deadline, rep, need, sent>>

\* conn.Write of a frame, before the connection's deadline.
Write(frame, label) ==
  /\ now =< deadline
  /\ sent' = Append(sent, frame)
  /\ pc' = label
  /\ UNCHANGED <<now, arg, stage, conn, limit, deadline, rep, need, proxy, wire, overlay>>

\* io.ReadFull of n bytes, before the connection's deadline.
ReadFull(n) ==
  /\ now =< deadline
  /\ Len(wire) >= n
  /\ wire' = SubSeq(wire, n + 1, Len(wire))
  /\ UNCHANGED <<now, proxy, overlay>>

IOStage == [hello |-> "greeting", greeting |-> "greeting",
            jwt |-> "auth", auth |-> "auth",
            request |-> "connect", header |-> "connect",
            length |-> "connect", bound |-> "connect"]

\* A read or write fails: the deadline has passed, or the proxy has closed.
IOFails ==
  /\ pc \in DOMAIN IOStage
  /\ now >= deadline \/ closed
  /\ Fail(IOStage[pc])
  /\ UNCHANGED <<now, proxy, wire, overlay>>

SendGreeting ==
  /\ pc = "hello"
  /\ Write([kind |-> "greeting", method |-> IF arg.ts THEN SAP ELSE NoAuth,
            declared |-> 0, length |-> 0], "greeting")

\* greeting's reply, and the switch on the method the proxy chose.
ReadGreeting ==
  /\ pc = "greeting"
  /\ ReadFull(2)
  /\ LET version == wire[1]
         method  == wire[2]
         good    == version = 5 /\ method \in {SAP, NoAuth}
     IN \/ ~good                             /\ Fail("greeting")
        \/ good /\ method = SAP /\ arg.ts     /\ Goto("token")
        \/ good /\ method = SAP /\ ~arg.ts    /\ Goto("panicked") \* ts is nil
        \/ good /\ method = NoAuth            /\ Goto("request")

\* ts.Token(ctx) ends with a JWT, or with an error at the latest at the limit.
TokenArrives == pc = "token" /\ now =< limit /\ Goto("jwt")
                /\ UNCHANGED <<now, proxy, wire, overlay>>
TokenFails   == pc = "token" /\ Fail("auth")
                /\ UNCHANGED <<now, proxy, wire, overlay>>

\* BuildAuthFrame keeps the low byte of the location's length.
SendAuth ==
  /\ pc = "jwt"
  /\ Write([kind |-> "auth", method |-> SAP,
            declared |-> arg.loc % 256, length |-> arg.loc], "auth")

\* Mutant: only the version byte of the ack is looked at.
AckVersion(status) == status[1] = 1

Ack(status) == status[1] = 1 /\ status[2] = 0

\* sapAuth's ack.
ReadAuth ==
  /\ pc = "auth"
  /\ ReadFull(2)
  /\ IF Ack(wire) THEN Goto("request") ELSE Fail("auth")

ConnectFrame == [kind |-> "connect", method |-> 0,
                 declared |-> arg.host % 256, length |-> arg.host]

\* Mutant: the length of the host name is not checked.
SendConnectUnchecked == pc = "request" /\ Write(ConnectFrame, "header")

SendConnect ==
  /\ pc = "request"
  /\ \/ /\ arg.host > 255
        /\ Fail("connect")
        /\ UNCHANGED <<now, proxy, wire, overlay>>
     \/ arg.host =< 255 /\ Write(ConnectFrame, "header")

\* Mutant: the port that follows the address is not counted.
DiscardNoPort(addrLen) == addrLen

\* How much drainBoundAddr discards: the address and the port.
Discard(addrLen) == addrLen + 2

\* The first four bytes of the CONNECT reply; ATYP says how long the rest is.
ReadHeader ==
  /\ pc = "header"
  /\ ReadFull(4)
  /\ \/ ~(wire[1] = 5 /\ wire[4] \in {1, 3, 4}) /\ Fail("connect")
     \/ /\ wire[1] = 5 /\ wire[4] \in {1, 3, 4}
        /\ pc' = IF wire[4] = 3 THEN "length" ELSE "bound"
        /\ need' = CASE wire[4] = 1 -> Discard(4)
                     [] wire[4] = 4 -> Discard(16)
                     [] OTHER       -> 0
        /\ rep' = wire[2]
        /\ UNCHANGED <<arg, stage, conn, limit, deadline, sent>>

\* The length byte of a bound address that is a domain name.
ReadLength ==
  /\ pc = "length"
  /\ ReadFull(1)
  /\ need' = Discard(wire[1])
  /\ pc' = "bound"
  /\ UNCHANGED <<arg, stage, conn, limit, deadline, rep, sent>>

\* Mutant: the REP byte is not looked at.
ReadBoundNoRep == pc = "bound" /\ ReadFull(need) /\ Goto("ok")

\* The rest of the bound address; only then is REP looked at.
ReadBound ==
  /\ pc = "bound"
  /\ ReadFull(need)
  /\ IF rep = 0 THEN Goto("ok") ELSE Fail("connect")
-----------------------------------------------------------------------------
\* The proxy chooses its reply to the next unanswered frame; after a granted
\* CONNECT the on-premises server's first bytes follow.
Reply ==
  /\ ~closed /\ conn = "open"
  /\ Len(replies) < Len(sent)
  /\ \E r \in CASE sent[Len(replies) + 1].kind = "greeting" -> GreetingReplies
                [] sent[Len(replies) + 1].kind = "auth"     -> AuthReplies
                [] OTHER                                    -> ConnectReplies :
       /\ replies' = Append(replies, r)
       /\ out' = out \o r \o IF sent[Len(replies) + 1].kind = "connect" /\ r[2] = 0
                               THEN Payload ELSE << >>
  /\ UNCHANGED <<now, client, wire, closed, overlay>>

\* Some more bytes arrive.
Deliver ==
  /\ ~closed /\ conn = "open"
  /\ \E k \in 1..Len(out) : /\ wire' = wire \o SubSeq(out, 1, k)
                            /\ out' = SubSeq(out, k + 1, Len(out))
  /\ UNCHANGED <<now, client, replies, closed, overlay>>

ProxyCloses ==
  /\ ~closed /\ conn = "open"
  /\ closed' = TRUE
  /\ out' = << >>
  /\ UNCHANGED <<now, client, replies, wire, overlay>>

\* A read of the overlaid protocol on the tunnel Dial returned.
OverlayRead ==
  /\ pc = "ok"
  /\ overlay \in {"fresh", "data"}
  /\ \/ /\ now =< deadline /\ wire # << >>
        /\ overlay' = "data"
     \/ /\ now >= deadline
        /\ overlay' = "timeout"
     \/ /\ closed /\ wire = << >>
        /\ overlay' = "eof"
  /\ wire' = << >>
  /\ UNCHANGED <<now, client, proxy>>

Returned == pc \in {"ok", "failed", "panicked"}

\* Time passes, from the start of the call.  A deadline or a context that is
\* due ends the call that waits for it before the clock moves on.
Tick ==
  /\ now < MaxTime /\ pc # "idle"
  /\ pc \in {"tcp", "token"} => now < limit
  /\ pc \in DOMAIN IOStage => now < deadline
  /\ now' = now + 1
  /\ UNCHANGED <<client, proxy, wire, overlay>>

\* The call has returned and the clock has reached its bound.
Finished == Returned /\ now = MaxTime /\ UNCHANGED vars

Next == \/ Dial \/ TcpConnect \/ TcpFails \/ IOFails
        \/ SendGreeting \/ ReadGreeting \/ TokenArrives \/ TokenFails
        \/ SendAuth \/ ReadAuth \/ SendConnect
        \/ ReadHeader \/ ReadLength \/ ReadBound
        \/ Reply \/ Deliver \/ ProxyCloses \/ OverlayRead
        \/ Tick \/ Finished

Spec == Init /\ [][Next]_vars

\* The client runs, its timers fire and time passes; the proxy owes nothing.
Fairness ==
  /\ WF_vars(SendGreeting \/ SendAuth \/ SendConnect)
  /\ WF_vars(ReadGreeting \/ ReadAuth \/ ReadHeader \/ ReadLength \/ ReadBound)
  /\ WF_vars(IOFails /\ now >= deadline)
  /\ WF_vars((TcpFails \/ TokenFails) /\ now >= limit)
  /\ WF_vars(OverlayRead)
  /\ WF_vars(Tick)

FairSpec == Spec /\ Fairness
-----------------------------------------------------------------------------
Frames == [kind : {"greeting", "auth", "connect"}, method : {SAP, NoAuth},
           declared : Bytes, length : Nat]

\* Types of all variables; need is a length drainBoundAddr can ask for.
TypeOK ==
  /\ now \in 0..MaxTime
  /\ pc \in DOMAIN IOStage \cup {"idle", "tcp", "token", "ok", "failed", "panicked"}
  /\ stage \in {"none", "dial", "greeting", "auth", "connect"}
  /\ conn \in {"none", "open", "closed"}
  /\ limit \in Nat /\ deadline \in Nat
  /\ rep \in Bytes
  /\ need = 0 \/ need \in 2..257
  /\ sent \in Seq(Frames)
  /\ out \in Seq(Bytes) /\ wire \in Seq(Bytes)
  /\ closed \in BOOLEAN
  /\ overlay \in {"fresh", "data", "timeout", "eof"}

\* How the proxy settled authentication: it asked for none, or accepted the JWT.
AuthSettled == /\ Len(replies) >= 1 /\ replies[1][1] = 5
               /\ \/ replies[1][2] = NoAuth
                  \/ /\ replies[1][2] = SAP
                     /\ Len(replies) >= 2
                     /\ sent[2].kind = "auth" /\ replies[2] = <<1, 0>>

SentKind(k) == \E i \in DOMAIN sent : sent[i].kind = k

\* The JWT goes only to a proxy that asked for it, and CONNECT only to one that
\* has settled authentication, in whatever pieces its replies arrive.
AuthBeforeConnect ==
  /\ SentKind("auth") => replies[1] = <<5, SAP>>
  /\ SentKind("connect") => AuthSettled

\* A frame declares the length of the field it carries, as frame.go:18 says;
\* unless that is a location of more than 255 bytes, which BuildAuthFrame does not
\* refuse and declares too short.
Declares(f) == f.kind # "auth" \/ f.length =< 255 => f.declared = f.length

\* Dial succeeds only if the proxy granted the CONNECT, and the tunnel it
\* returns starts at the first byte of the overlaid protocol in both directions:
\* every frame declared the length of the field it carried, so that the proxy
\* has taken none of its bytes for another's (but for the one exception in
\* Declares: after a location that is too long the proxy may still answer as if
\* all were well), nothing of the reply is left on the wire and nothing of the
\* payload is eaten, for every form and length of the bound address and every
\* fragmentation.
TunnelAligned ==
  pc = "ok" =>
    /\ \A i \in DOMAIN sent : Declares(sent[i])
    /\ replies[Len(replies)][1] = 5 /\ replies[Len(replies)][2] = 0
    /\ overlay = "fresh" =>
         IF closed THEN \E k \in 0..Len(Payload) : wire = SubSeq(Payload, 1, k)
                   ELSE wire \o out = Payload

\* The stage of an error says how far the handshake got; and a call ends without
\* one, in a panic, only if the proxy asks a dialer without a TokenSource for a
\* JWT.
StageTruthful ==
  /\ pc = "failed" <=> stage # "none"
  /\ pc = "panicked" => ~arg.ts /\ replies = <<<<5, SAP>>>>
  /\ stage = "dial" => conn = "none"
  /\ stage = "greeting" => ~SentKind("auth") /\ ~SentKind("connect")
  /\ stage = "auth" => replies[1] = <<5, SAP>> /\ ~SentKind("connect")
  /\ stage = "connect" => AuthSettled

\* A call is not still under way after its limit.
DialBounded == ~Returned /\ pc # "idle" => now =< limit

\* Dial does what its callers rely on.
Promise == INSTANCE TunnelDial WITH
  Stages <- {"dial", "greeting", "auth", "connect"},
  phase  <- IF pc = "idle" \/ Returned THEN pc ELSE "dialing"

KeepsPromise == Promise!Spec

\* Every call returns, even if the proxy never answers.
DialReturns == pc = "tcp" ~> Returned

\* The comments at dialer.go:34-35 (DialTimeout bounds "a complete Dial call")
\* and :58 (the conn is "ready for any overlaid protocol"): the tunnel is not
\* subject to the dial's deadline.
TunnelOutlivesDial == overlay # "timeout"
=============================================================================
