------------------------------ MODULE TunnelDial ------------------------------
(***************************************************************************)
(* What connectivity.Dialer.Dial does for its caller (connectivity/        *)
(* dialer.go, and the sshclient.Dialer interface it satisfies): a call     *)
(* ends within its limit, the earlier of the caller's context deadline and *)
(* DialTimeout; an error leaves no connection open, a success returns an   *)
(* open one that carries a deadline no later than the limit.  It may also  *)
(* panic, on a proxy that asks for what it was not offered.                *)
(***************************************************************************)
EXTENDS Integers

CONSTANTS Stages     \* the stages a StageError may name

VARIABLES now,       \* the clock
          phase,     \* "idle", "dialing", "ok", "failed" or "panicked"
          conn,      \* the TCP connection: "none", "open" or "closed"
          limit,     \* when the call must have ended
          deadline,  \* the deadline armed on the connection
          stage      \* the stage of the error returned

vars == <<now, phase, conn, limit, deadline, stage>>

Init == /\ now = 0
        /\ phase = "idle"
        /\ conn = "none"
        /\ stage = "none"

Start == /\ phase = "idle"
         /\ phase' = "dialing"
         /\ limit' \in Nat
         /\ UNCHANGED <<now, conn, deadline, stage>>

\* The proxy accepts the connection, which is given the limit as its deadline.
Accept == /\ phase = "dialing"
          /\ conn = "none"
          /\ conn' = "open"
          /\ deadline' = limit
          /\ UNCHANGED <<now, phase, limit, stage>>

Succeed == /\ phase = "dialing"
           /\ conn = "open"
           /\ phase' = "ok"
           /\ UNCHANGED <<now, conn, limit, deadline, stage>>

\* No connection is left open behind an error.
Fail == /\ phase = "dialing"
        /\ phase' = "failed"
        /\ stage' \in Stages
        /\ conn' = IF conn = "open" THEN "closed" ELSE conn
        /\ stage' = "dial" <=> conn = "none"
        /\ UNCHANGED <<now, limit, deadline>>

\* The caller's goroutine unwinds, and the connection stays open.
Panic == /\ phase = "dialing"
         /\ conn = "open"
         /\ phase' = "panicked"
         /\ UNCHANGED <<now, conn, limit, deadline, stage>>

Tick == /\ phase = "dialing" => now < limit
        /\ now' = now + 1
        /\ UNCHANGED <<phase, conn, limit, deadline, stage>>

Next == Start \/ Accept \/ Succeed \/ Fail \/ Panic \/ Tick

Spec == Init /\ [][Next]_vars
=============================================================================
