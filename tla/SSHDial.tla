------------------------------- MODULE SSHDial -------------------------------
(***************************************************************************)
(* sshclient.Dial and dialOnce (sshclient/client.go): retries with         *)
(* exponential backoff and jitter around one attempt, which dials a tunnel *)
(* through Config.Dialer, builds the SSH configuration from the            *)
(* destination and runs the SSH handshake on the tunnel.                   *)
(*                                                                         *)
(* The tunnel is the one connectivity.Dialer returns: its steps are those  *)
(* of TunnelDial, of which this module knows only what TunnelDial says.    *)
(* An error is its origin and the fragment of its text, if any, that       *)
(* IsTransientSSHError looks for.                                          *)
(***************************************************************************)
EXTENDS Integers

CONSTANTS DialTimeout,   \* the dialer's own limit on one dial
          MaxAttempts,   \* values RetryOpts.MaxAttempts may have
          BaseDelays,    \* values RetryOpts.BaseDelay may have
          DefaultDelay,  \* the delay that replaces one that is not positive
          Jitters,       \* values RetryOpts.Jitter may have
          MaxDuration,   \* the largest time.Duration (2^63 - 1)
          MaxTime        \* bound on the clock, for TLC

ASSUME RetryAssumption ==
  /\ DialTimeout \in Nat /\ DefaultDelay \in Nat \ {0} /\ MaxTime \in Nat
  /\ MaxAttempts \subseteq Int /\ BaseDelays \subseteq Int
  /\ Jitters \subseteq BOOLEAN /\ MaxDuration \in Nat \ {0}

VARIABLES
  \* TunnelDial's
  now, phase, conn, limit, deadline, stage,
  arg,       \* RetryOpts and the kind of destination
  pc,        \* where Dial is
  attempt,   \* the loop variable
  err,       \* the error of the last attempt
  failedAt,  \* when the last attempt failed (history)
  timer,     \* when the backoff timer fires
  cancelled, \* ctx is done
  late       \* dials begun with ctx already done (history)

tunnel == <<phase, conn, limit, deadline, stage>>
vars   == <<now, tunnel, arg, pc, attempt, err, failedAt, timer, cancelled, late>>

Stages == {"dial", "greeting", "auth", "connect"}
Tunnel == INSTANCE TunnelDial

NoError == [origin |-> "none", text |-> "none"]

\* The texts an error of each origin can contain.  A net.Dialer's error starts
\* with "dial tcp"; so does that of the token request behind stage "auth".
Texts == [dial     |-> {"dial tcp"},
          greeting |-> {"i/o timeout", "connection reset", "other"},
          auth     |-> {"dial tcp", "i/o timeout", "connection reset", "other"},
          connect  |-> {"connection refused", "i/o timeout", "connection reset", "other"},
          ssh      |-> {"handshake failed: EOF", "i/o timeout", "connection reset", "other"}]

IsTransientSSHError(e) ==
  e.text \in {"handshake failed: EOF", "connection reset", "connection refused",
              "i/o timeout", "dial tcp"}

Attempts == IF arg.max < 1 THEN 1 ELSE arg.max
Base     == IF arg.base =< 0 THEN DefaultDelay ELSE arg.base

\* The Duration an integer comes to: -MaxDuration - 1 follows MaxDuration.
Wrap(x) == ((x + MaxDuration + 1) % (2 * (MaxDuration + 1))) - (MaxDuration + 1)

\* Mutant: every delay is the base delay.
ConstantDelay(k) == Base

\* base << uint(k-1), the delay before attempt k.
Delay(k) == Wrap(Base * 2^(k - 1))

\* int64(delay) / 2, rounded towards zero.
Half(d) == IF d >= 0 THEN d \div 2 ELSE -((-d) \div 2)

Init == /\ Tunnel!Init
        /\ limit = 0 /\ deadline = 0
        /\ arg \in [max : MaxAttempts, base : BaseDelays, jitter : Jitters,
                    dest : {"ok", "bad port", "bad auth"}]
        /\ pc = "start"
        /\ attempt = 0
        /\ err = NoError
        /\ failedAt = 0
        /\ timer = 0
        /\ cancelled = FALSE
        /\ late = 0

\* dialOnce begins: PortNum, then Dialer.Dial with its own limit.  A dialer
\* given a context that is done fails at once.
BeginAttempt ==
  IF arg.dest = "bad port"
    THEN /\ pc' = "failed"
         /\ err' = [origin |-> "port", text |-> "other"]
         /\ UNCHANGED <<now, tunnel, arg, attempt, failedAt, timer, cancelled, late>>
    ELSE /\ pc' = "dialing"
         /\ phase' = "dialing" /\ conn' = "none" /\ stage' = "none"
         /\ limit' = now + DialTimeout
         /\ late' = IF cancelled THEN late + 1 ELSE late
         /\ UNCHANGED <<now, deadline, arg, attempt, err, failedAt, timer, cancelled>>

FirstAttempt == pc = "start" /\ BeginAttempt

\* Mutant: the dialer arms no deadline on the connection.
AcceptNoDeadline ==
  /\ pc = "dialing" /\ late = 0 /\ conn = "none"
  /\ conn' = "open"
  /\ deadline' = MaxTime + 1
  /\ UNCHANGED <<now, phase, limit, stage, arg, pc, attempt, err, failedAt, timer,
                 cancelled, late>>

\* The proxy accepts the dialer's connection.
Accept ==
  /\ pc = "dialing"
  /\ late = 0
  /\ Tunnel!Accept
  /\ UNCHANGED <<arg, pc, attempt, err, failedAt, timer, cancelled, late>>

\* Mutant: the test for the last attempt is off by one.
LastAttemptLate == attempt + 1 > Attempts

LastAttempt == attempt + 1 >= Attempts

GivesUp(e) == ~IsTransientSSHError(e) \/ LastAttempt

\* The loop's reaction to the error of an attempt: return it, give up after
\* the last attempt, or compute the next delay and start the timer.
\* rand.Int64N panics if its argument is not positive.
AfterError(e) ==
  /\ err' = e
  /\ failedAt' = now
  /\ \/ /\ GivesUp(e)
        /\ pc' = "failed"
        /\ UNCHANGED <<attempt, timer>>
     \/ /\ ~GivesUp(e)
        /\ attempt' = attempt + 1
        /\ LET delay == Delay(attempt + 1)
           IN IF ~arg.jitter
                THEN pc' = "backoff" /\ timer' = now + delay
              ELSE IF Half(delay) > 0
                THEN pc' = "backoff" /\ \E j \in 0..(Half(delay) - 1) : timer' = now + delay + j
              ELSE pc' = "panicked" /\ UNCHANGED timer
  /\ UNCHANGED <<now, arg, cancelled, late>>

\* Dialer.Dial returns an error.
DialFails ==
  /\ pc = "dialing"
  /\ Tunnel!Fail
  /\ \E t \in Texts[stage'] : AfterError([origin |-> stage', text |-> t])

\* Dialer.Dial returns the tunnel, and SSHConfigFromDestination accepts the
\* destination ...
DialSucceeds ==
  /\ pc = "dialing"
  /\ arg.dest = "ok"
  /\ Tunnel!Succeed
  /\ pc' = "handshake"
  /\ UNCHANGED <<arg, attempt, err, failedAt, timer, cancelled, late>>

\* Mutant: the tunnel is left open.
LeaveConn == UNCHANGED tunnel

CloseConn == /\ conn' = "closed"
             /\ phase' = "failed"
             /\ UNCHANGED <<limit, deadline, stage>>

\* ... or refuses it (no usable key or password), and the tunnel is closed.
ConfigFails ==
  /\ pc = "dialing"
  /\ arg.dest = "bad auth"
  /\ conn = "open"
  /\ CloseConn
  /\ AfterError([origin |-> "config", text |-> "other"])

\* ssh.NewClientConn completes the handshake before the tunnel's deadline.
HandshakeDone ==
  /\ pc = "handshake"
  /\ now =< deadline
  /\ pc' = "connected"
  /\ UNCHANGED <<now, tunnel, arg, attempt, err, failedAt, timer, cancelled, late>>

\* It fails (a timeout means that the tunnel's deadline has passed, whatever
\* ctx says), and the tunnel is closed.
HandshakeFails ==
  /\ pc = "handshake"
  /\ \E t \in Texts["ssh"] :
       /\ t = "i/o timeout" <=> now >= deadline
       /\ AfterError([origin |-> "ssh", text |-> t])
  /\ CloseConn

\* Mutant: the select has no case for the context.
SelectDeafToCtx == FALSE

\* The select of the backoff: the context is done ...
SelectSeesCtx == cancelled

BackoffCancelled ==
  /\ pc = "backoff"
  /\ SelectSeesCtx
  /\ pc' = "failed"
  /\ err' = [origin |-> "ctx", text |-> "other"]
  /\ UNCHANGED <<now, tunnel, arg, attempt, failedAt, timer, cancelled, late>>

\* ... or the timer fires, and the next attempt begins.
BackoffOver == pc = "backoff" /\ now >= timer /\ BeginAttempt

Returned == pc \in {"connected", "failed", "panicked"}

Cancel ==
  /\ ~cancelled /\ ~Returned
  /\ cancelled' = TRUE
  /\ UNCHANGED <<now, tunnel, arg, pc, attempt, err, failedAt, timer, late>>

\* Time passes, unless a timer or a deadline is due and its wait not over.
Tick ==
  /\ now < MaxTime
  /\ Tunnel!Tick
  /\ pc # "start"
  /\ pc = "backoff" => ~SelectSeesCtx /\ now < timer
  /\ pc = "handshake" => now < deadline
  /\ UNCHANGED <<arg, pc, attempt, err, failedAt, timer, cancelled, late>>

Finished == Returned /\ now = MaxTime /\ UNCHANGED vars

Next == \/ FirstAttempt \/ Accept \/ DialFails \/ DialSucceeds \/ ConfigFails
        \/ HandshakeDone \/ HandshakeFails
        \/ BackoffCancelled \/ BackoffOver
        \/ Cancel \/ Tick \/ Finished

Spec == Init /\ [][Next]_vars

\* Dial runs, its timers and deadlines fire, time passes.
Fairness ==
  /\ WF_vars(FirstAttempt)
  /\ WF_vars(DialFails /\ now >= limit)
  /\ WF_vars(HandshakeFails /\ now >= deadline)
  /\ WF_vars(BackoffCancelled \/ BackoffOver)
  /\ WF_vars(Tick)

FairSpec == Spec /\ Fairness
-----------------------------------------------------------------------------
Errors == [origin : {"none", "ctx", "port", "config", "ssh"} \cup Stages,
           text : {"none"} \cup UNION {Texts[o] : o \in DOMAIN Texts}]

\* Types of all variables; the loop never runs past its last attempt.
TypeOK ==
  /\ now \in 0..MaxTime
  /\ phase \in {"idle", "dialing", "ok", "failed"}
  /\ conn \in {"none", "open", "closed"}
  /\ limit \in Nat /\ deadline \in Nat
  /\ stage \in Stages \cup {"none"}
  /\ pc \in {"start", "dialing", "handshake", "backoff", "connected", "failed", "panicked"}
  /\ attempt \in 0..(Attempts - 1)
  /\ err \in Errors
  /\ failedAt \in Nat /\ timer \in Int
  /\ cancelled \in BOOLEAN
  /\ late \in Nat

\* Dial does what its callers rely on: one tunnel at a time, none left open
\* behind an error (or a panic of rand.Int64N), an open one behind a success.
Promise == INSTANCE SSHSession WITH
  phase <- CASE pc = "start" -> "idle" [] pc = "connected" -> "up"
             [] pc \in {"failed", "panicked"} -> "failed" [] OTHER -> "dialing",
  conn  <- IF conn = "open" THEN "open" ELSE "closed"

KeepsPromise == Promise!Spec

\* Dial retries only what IsTransientSSHError lets through, and a retry waits
\* for the base delay doubled with every attempt, as client.go:51-52 says: for
\* exactly that without jitter.  With jitter client.go:55 says 25% either way and
\* the code at :85 adds up to 50%: the wait lies in what one or the other allows,
\* 3/4 to 6/4 of the delay.  The windows of two attempts do not overlap, so that
\* no wait is shorter than one before it.
BackoffWindow ==
  [][LET delay(k) == Base * 2^(k - 1)
         least(k) == (IF arg.jitter THEN 3 ELSE 4) * delay(k)
         most(k)  == (IF arg.jitter THEN 6 ELSE 4) * delay(k)
     IN /\ pc # "backoff" /\ pc' = "backoff" =>
             /\ IsTransientSSHError(err')
             /\ 4 * (timer' - now) \in least(attempt')..most(attempt')
        /\ pc = "backoff" /\ pc' = "dialing" =>
             4 * (now - failedAt) >= least(attempt)]_vars

\* Once ctx is done Dial begins at most one more attempt: the one whose timer
\* fired before the select saw the context.
CancelStopsRetries == late =< 1

\* The longest that Dial can take: the dialer's limit for each attempt, the
\* SSH handshake included since the tunnel keeps that deadline, and for each
\* retry the delay with its jitter.
Longest ==
  LET wait[k \in 0..Attempts] ==
        IF k = 0 THEN 0 ELSE wait[k - 1] + Base * 2^(k - 1) + (Base * 2^(k - 1)) \div 2
  IN Attempts * DialTimeout + wait[Attempts - 1]

\* Dial does not take longer, even if the server never answers.
DialBounded == ~Returned => now =< Longest

\* Dial returns.
DialReturns == pc = "start" ~> Returned
=============================================================================
