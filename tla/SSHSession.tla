------------------------------ MODULE SSHSession ------------------------------
(***************************************************************************)
(* What sshclient.Dial does for its caller (sshclient/client.go), however   *)
(* often it tries: it holds one tunnel at a time, a call that fails leaves  *)
(* none open, and the client it returns owns an open tunnel whose I/O ends  *)
(* at a deadline no later than DialTimeout after the tunnel was opened.     *)
(***************************************************************************)
EXTENDS Integers

CONSTANT DialTimeout   \* the dialer's limit on one dial

VARIABLES now,       \* the clock
          phase,     \* "idle", "dialing", "up" or "failed"
          conn,      \* the tunnel: "open" or "closed"
          deadline   \* when I/O on the tunnel ends

vars == <<now, phase, conn, deadline>>

Init == now = 0 /\ phase = "idle" /\ conn = "closed"

Begin == /\ phase = "idle"
         /\ phase' = "dialing"
         /\ UNCHANGED <<now, conn, deadline>>

\* An attempt opens its tunnel ...
Open == /\ phase = "dialing" /\ conn = "closed"
        /\ conn' = "open"
        /\ deadline' \in now..(now + DialTimeout)
        /\ UNCHANGED <<now, phase>>

\* ... and closes it before the next attempt.
Drop == /\ phase = "dialing" /\ conn = "open"
        /\ conn' = "closed"
        /\ UNCHANGED <<now, phase, deadline>>

Succeed == /\ phase = "dialing" /\ conn = "open" /\ now =< deadline
           /\ phase' = "up"
           /\ UNCHANGED <<now, conn, deadline>>

Fail == /\ phase \in {"idle", "dialing"}
        /\ phase' = "failed"
        /\ conn' = "closed"
        /\ UNCHANGED <<now, deadline>>

\* An attempt does not outlast its tunnel's deadline.
Tick == /\ phase = "dialing" /\ conn = "open" => now < deadline
        /\ now' = now + 1
        /\ UNCHANGED <<phase, conn, deadline>>

Next == Begin \/ Open \/ Drop \/ Succeed \/ Fail \/ Tick

Spec == Init /\ [][Next]_vars
=============================================================================
