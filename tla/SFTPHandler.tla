------------------------------ MODULE SFTPHandler ------------------------------
(***************************************************************************)
(* One request to GET /sftp/count, served by the handler of                *)
(* examples/sftp-sshclient, which calls sshclient.Dial, or by that of      *)
(* examples/sftp-count, which opens the tunnel and the SSH connection      *)
(* itself.  The handler goes through its steps; the first that fails is    *)
(* answered with its error, and what has been opened is closed by the      *)
(* deferred calls, last opened first, after the answer is written.         *)
(*                                                                         *)
(* Of sshclient.Dial the module knows what SSHSession says, of             *)
(* connectivity.Dialer what TunnelDial says: the tunnel's I/O ends at a    *)
(* deadline.  The server (and the SSH and SFTP libraries) may answer any   *)
(* step, refuse it or fall silent.  sftp.Client.Close waits for the server *)
(* to close the channel, or for the connection to end.                     *)
(***************************************************************************)
EXTENDS Destination, Integers

CONSTANTS DialTimeout,  \* the dialer's limit on one dial
          KeyTexts,     \* texts that ssh.ParsePrivateKey accepts
          Configs,      \* configurations the destination may have
          MaxTime       \* bound on the clock, for TLC

ASSUME TimeAssumption == DialTimeout \in Nat /\ MaxTime \in Nat

VARIABLES
  now, phase, conn, deadline,  \* SSHSession's
  arg,      \* the handler, whether the request names a destination, its configuration
  pc,       \* the step the handler is at; then "return", at last "done"
  deferred, \* what the deferred calls will close
  answers   \* the answers written: [status, step], the step of the error if any

session == <<phase, conn, deadline>>
vars    == <<now, session, arg, pc, deferred, answers>>

dest == extractDestination(arg.config, << >>)

Session == INSTANCE SSHSession

\* Bound: no tunnel is opened later, so that its deadline is within the clock's.
LastDial == MaxTime - DialTimeout

Handlers == {"sftp-count", "sftp-sshclient"}

Steps == [h \in Handlers |->
  IF h = "sftp-count" THEN <<"query", "find", "port", "dial", "config", "ssh", "sftp", "readdir">>
                      ELSE <<"query", "find", "dial", "sftp", "readdir">>]

\* What a step opens, and its defer closes.
Opens(step) ==
  CASE step = "dial" -> IF arg.handler = "sftp-count" THEN <<"conn">> ELSE <<"ssh">>
    [] step \in {"ssh", "sftp"} -> <<step>>
    [] OTHER -> << >>

\* Mutant: a password among the Properties is not looked for.
buildSSHConfigField(d) ==
  LET key == Value(d.Properties, "sshKey")
  IN IF key # "" THEN key \in KeyTexts ELSE d.field["password"] # ""

\* buildSSHConfig, and SSHConfigFromDestination within sshclient.Dial: a key
\* must parse, and there must be a key or a password.
buildSSHConfig(d) ==
  LET key == Value(d.Properties, "sshKey")
  IN IF key # "" THEN key \in KeyTexts ELSE ResolvedPassword(d) # ""

Init == /\ Session!Init
        /\ deadline = 0
        /\ arg \in [handler : Handlers, named : BOOLEAN, config : Configs]
        /\ pc = "query"
        /\ deferred = << >>
        /\ answers = << >>

\* The step is done: on to the next, or the count is written.
Pass ==
  /\ LET steps == Steps[arg.handler]
         i     == CHOOSE i \in DOMAIN steps : steps[i] = pc
     IN IF i < Len(steps)
          THEN pc' = steps[i + 1] /\ UNCHANGED answers
          ELSE pc' = "return" /\ answers' = Append(answers, [status |-> 200, step |-> "none"])
  /\ deferred' = deferred \o Opens(pc)
  /\ UNCHANGED <<now, arg>>

\* The step failed: its error is written, and the handler returns.
Refuse ==
  /\ pc' = "return"
  /\ answers' = Append(answers, [status |-> IF pc = "query" THEN 400 ELSE 500, step |-> pc])
  /\ UNCHANGED <<now, arg, deferred>>

\* The steps decided by the request and the destination alone.
Holds == CASE pc = "query"  -> arg.named
           [] pc = "port"   -> PortNum(dest).ok
           [] pc = "config" -> buildSSHConfig(dest)

Decide == /\ pc \in {"query", "port", "config"}
          /\ IF Holds THEN Pass ELSE Refuse
          /\ UNCHANGED session

\* destClient.Find, for as long as it takes.
Found    == pc = "find" /\ Pass /\ UNCHANGED session
NotFound == pc = "find" /\ Refuse /\ UNCHANGED session

\* Mutant: the tunnel that is handed out has no deadline.
NoDeadline == {MaxTime + 1}

\* The deadline that the dialer leaves on the tunnel.
DialDeadline == now..(now + DialTimeout)

\* dialer.Dial in sftp-count.
TunnelOpens ==
  /\ pc = "dial" /\ arg.handler = "sftp-count"
  /\ now =< LastDial
  /\ conn' = "open"
  /\ deadline' \in DialDeadline
  /\ Pass
  /\ UNCHANGED phase

TunnelFails == pc = "dial" /\ arg.handler = "sftp-count" /\ Refuse /\ UNCHANGED session

\* sshclient.Dial in sftp-sshclient, as SSHSession says.  A destination that it
\* cannot use fails.
InDial == pc = "dial" /\ arg.handler = "sftp-sshclient"

SessionBegins == InDial /\ Session!Begin /\ UNCHANGED <<arg, pc, deferred, answers>>
SessionOpens  == InDial /\ now =< LastDial /\ PortNum(dest).ok /\ Session!Open
                 /\ UNCHANGED <<arg, pc, deferred, answers>>
SessionDrops  == InDial /\ Session!Drop /\ UNCHANGED <<arg, pc, deferred, answers>>
SessionUp     == InDial /\ buildSSHConfig(dest)
                 /\ Session!Succeed /\ Pass
SessionFails  == InDial /\ phase = "dialing" /\ Session!Fail /\ Refuse

\* A step over the tunnel, which the server answers, or refuses, or leaves to
\* the tunnel's deadline.  The request's context does not reach it.
OverTunnel == pc \in {"ssh", "sftp", "readdir"}

Answered == OverTunnel /\ now =< deadline /\ Pass /\ UNCHANGED session
Broken   == OverTunnel /\ Refuse /\ UNCHANGED session

\* Mutant: the resource opened first is closed first.
NextFirst == 1

\* Deferred calls run last in, first out.
NextDeferred == Len(deferred)

\* Mutant: sshClient.Close leaves the connection to somebody else.
ClosesConnOnly(res) == res = "conn"

\* Closing the SSH client closes the connection under it.
ClosesConn(res) == res \in {"conn", "ssh"}

\* The next deferred Close.
Close ==
  /\ pc = "return" /\ deferred # << >>
  /\ deferred' = SubSeq(deferred, 1, NextDeferred - 1)
                   \o SubSeq(deferred, NextDeferred + 1, Len(deferred))
  /\ conn' = IF ClosesConn(deferred[NextDeferred]) THEN "closed" ELSE conn
  /\ UNCHANGED <<now, phase, deadline, arg, pc, answers>>

Return ==
  /\ pc = "return" /\ deferred = << >>
  /\ pc' = "done"
  /\ UNCHANGED <<now, session, arg, deferred, answers>>

Tick == /\ now < MaxTime
        /\ Session!Tick
        /\ UNCHANGED <<arg, pc, deferred, answers>>

Finished == pc = "done" /\ UNCHANGED vars

Next == \/ Decide \/ Found \/ NotFound \/ TunnelOpens \/ TunnelFails
        \/ SessionBegins \/ SessionOpens \/ SessionDrops \/ SessionUp \/ SessionFails
        \/ Answered \/ Broken \/ Close \/ Return \/ Tick \/ Finished

Spec == Init /\ [][Next]_vars

\* The handler runs; a dial ends (DialReturns); I/O on the tunnel fails once
\* its deadline has passed, also that on which the Close of the SFTP client
\* waits; the server owes nothing.
Fairness ==
  /\ WF_vars(Decide \/ Return)
  /\ WF_vars(SessionBegins) /\ WF_vars(SessionFails) /\ WF_vars(TunnelFails)
  /\ WF_vars(Broken /\ now >= deadline)
  /\ WF_vars(Close /\ (deferred[NextDeferred] = "sftp" => now >= deadline \/ conn = "closed"))
  /\ WF_vars(Tick)

FairSpec == Spec /\ Fairness
-----------------------------------------------------------------------------
\* Types of all variables; the deferred calls stand in the order in which the
\* things they close were opened.
TypeOK ==
  /\ now \in 0..MaxTime /\ deadline \in Nat
  /\ phase \in {"idle", "dialing", "up", "failed"}
  /\ conn \in {"open", "closed"}
  /\ pc \in Range(Steps[arg.handler]) \cup {"return", "done"}
  /\ LET all == IF arg.handler = "sftp-count" THEN <<"conn", "ssh", "sftp">> ELSE <<"ssh", "sftp">>
     IN \E n \in 0..Len(all) : deferred = SubSeq(all, 1, n)

\* What a destination must have for SFTP: a port, and a key that parses or, if
\* there is no key, a password under either name.
Usable(cfg) ==
  /\ Value(cfg, "port") \in PortTexts
  /\ IF Value(cfg, "sshKey") # "" THEN cfg["sshKey"] \in KeyTexts
     ELSE Value(cfg, "password") # "" \/ Value(cfg, "Password") # ""

\* A request gets one answer, before anything is closed; both handlers refuse
\* the same destinations, and a destination that is refused for its
\* configuration cannot be used.
AnswerTruthful ==
  /\ Len(answers) = (IF pc \in {"return", "done"} THEN 1 ELSE 0)
  /\ answers # << >> =>
       /\ answers[1].status = 200 => arg.named /\ Usable(arg.config)
       /\ answers[1].step \in {"port", "config"} => ~Usable(arg.config)
       /\ answers[1].step \in {"sftp", "readdir"} => Usable(arg.config)

\* A request that has been served leaves no tunnel open, whichever step failed;
\* and while an SSH or SFTP client is there to be closed, its tunnel is open.
NothingLeaks ==
  /\ pc = "done" => conn = "closed"
  /\ deferred # << >> /\ deferred[1] = "ssh" => conn = "open"

\* Once the dial has begun the handler returns, even if the server never
\* answers and the caller never goes away: the deadline on the tunnel sees to
\* that, as nothing else bounds the SSH handshake or the SFTP calls.
HandlerReturns == pc = "dial" ~> pc = "done"
=============================================================================
