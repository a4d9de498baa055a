---------------------------- MODULE SSHDialProofs ----------------------------
(***************************************************************************)
(* Proofs about SSHDial, for any retry options, timeouts and errors.  What *)
(* needs delays that do not overflow says so (Fits): a base delay doubled  *)
(* too often is no Duration, and then the backoff may be over at once.     *)
(***************************************************************************)
EXTENDS SSHDial, WellFoundedInduction, TLAPS

ArgOK == arg \in [max : MaxAttempts, base : BaseDelays, jitter : Jitters,
                  dest : {"ok", "bad port", "bad auth"}]

\* The tunnel as the loop holds it.
TunnelOK ==
  /\ pc = "start" => phase = "idle" /\ conn = "none"
  /\ pc = "dialing" => /\ phase = "dialing" /\ conn \in {"none", "open"}
                       /\ now =< limit /\ limit =< now + DialTimeout
                       /\ conn = "open" => deadline = limit
  /\ pc = "handshake" => phase = "ok" /\ conn = "open" /\ now =< deadline
  /\ pc = "connected" => phase = "ok" /\ conn = "open"
  /\ pc \in {"backoff", "failed", "panicked"} => phase # "dialing" /\ conn # "open"
  /\ pc = "backoff" => attempt >= 1

Inv == TypeOK /\ ArgOK /\ TunnelOK

\* The doubled base delay, before it is a Duration.
Doubled(b, k) == b * 2^(k - 1)

\* Every delay Dial may compute fits a Duration.
Fits == \A m \in MaxAttempts, b \in BaseDelays \cup {DefaultDelay} :
          \A k \in 1..(m - 1) : b > 0 => Doubled(b, k) \in 1..MaxDuration

\* A fact of arithmetic that the provers, which know little of ^, do not find.
PowersPositive == \A k \in Nat : 2^k >= 1

\* A dial begun with ctx done is the last: it fails, and the select sees ctx
\* before the timer fires.
LateOK ==
  /\ late =< 1
  /\ late = 1 => /\ cancelled
                 /\ pc \in {"dialing", "backoff", "failed", "panicked"}
                 /\ pc = "dialing" => conn = "none"
                 /\ pc = "backoff" => now < timer

\* The timer runs for the delay of the attempt that comes next.
WaitOK == pc = "backoff" => timer >= failedAt + Doubled(Base, attempt)
-----------------------------------------------------------------------------
\* The number of attempts and the base delay, with their defaults.
LEMMA ArgType ==
  ASSUME ArgOK
  PROVE  /\ Attempts \in Nat /\ Attempts >= 1
         /\ Base \in Nat \ {0}
         /\ Base \in BaseDelays \cup {DefaultDelay}
         /\ Attempts > 1 => Attempts \in MaxAttempts
<1>1. arg.max \in Int /\ arg.max \in MaxAttempts /\ arg.base \in Int /\ arg.base \in BaseDelays
  BY RetryAssumption DEF ArgOK
<1>2. Attempts \in Nat /\ Attempts >= 1
  BY <1>1 DEF Attempts
<1>3. Attempts > 1 => Attempts \in MaxAttempts
  BY <1>1 DEF Attempts
<1>4. Base \in Nat \ {0}
  BY <1>1, RetryAssumption DEF Base
<1>5. Base \in BaseDelays \cup {DefaultDelay}
  BY <1>1 DEF Base
<1> QED
  BY <1>2, <1>3, <1>4, <1>5

\* A power of two is a number.
LEMMA PowerType == \A k \in Nat : 2^k \in Int
  OBVIOUS

\* A delay is a Duration.
LEMMA DelayType == ASSUME NEW k \in Nat \ {0}, ArgOK PROVE Delay(k) \in Int
<1>1. Base \in Int
  BY ArgType
<1>2. 2^(k - 1) \in Int
  <2>1. k - 1 \in Nat
    OBVIOUS
  <2> QED
    BY <2>1, PowerType
<1>3. Base * 2^(k - 1) \in Int
  BY <1>1, <1>2
<1>4. \A x \in Int : Wrap(x) \in Int
  <2>1. MaxDuration \in Nat
    BY RetryAssumption
  <2>2. \A x, m \in Int : m > 0 => x % m \in Int
    OBVIOUS
  <2> QED
    BY <2>1, <2>2 DEF Wrap
<1> QED
  BY <1>3, <1>4 DEF Delay

\* A Duration that fits is what it was.
LEMMA WrapFits == \A x \in 1..MaxDuration : Wrap(x) = x
<1> SUFFICES ASSUME NEW x \in 1..MaxDuration PROVE Wrap(x) = x
  OBVIOUS
<1>1. \A a, n \in Nat : a < n => a % n = a
  OBVIOUS
<1> DEFINE a == x + MaxDuration + 1
           n == 2 * (MaxDuration + 1)
<1>2. MaxDuration \in Nat /\ a \in Nat /\ n \in Nat /\ a < n
  BY RetryAssumption
<1> HIDE DEF a, n
<1>3. a % n = a
  BY <1>1, <1>2
<1> QED
  BY <1>2, <1>3 DEF Wrap, a, n
-----------------------------------------------------------------------------
\* What an attempt can fail with is an error.
LEMMA ErrorType ==
  ASSUME NEW o \in Stages \cup {"ssh"}, NEW t \in Texts[o]
  PROVE  [origin |-> o, text |-> t] \in Errors
<1>1. o \in DOMAIN Texts
  BY DEF Texts, Stages
<1>2. t \in UNION {Texts[p] : p \in DOMAIN Texts}
  BY <1>1
<1> QED
  BY <1>2 DEF Errors

\* The other errors are.
LEMMA OtherErrorType ==
  ASSUME NEW o \in {"ctx", "port", "config"}
  PROVE  [origin |-> o, text |-> "other"] \in Errors
<1>1. "other" \in Texts["ssh"] /\ "ssh" \in DOMAIN Texts
  BY DEF Texts
<1>2. "other" \in UNION {Texts[p] : p \in DOMAIN Texts}
  BY <1>1
<1> QED
  BY <1>2 DEF Errors

\* The jitter is less than half of the delay.
LEMMA JitterBound ==
  ASSUME NEW d \in Nat, NEW j \in 0..(Half(d) - 1)
  PROVE  j \in Nat /\ 2 * j =< d
<1>1. Half(d) = d \div 2
  BY DEF Half
<1>2. d \div 2 \in Nat /\ 2 * (d \div 2) =< d
  OBVIOUS
<1> QED
  BY <1>1, <1>2

\* After an error Dial gives up, or waits for the delay of the next attempt.
LEMMA AfterErrorStep ==
  ASSUME TypeOK, ArgOK, NEW e \in Errors, AfterError(e)
  PROVE  /\ err' = e /\ failedAt' = now /\ UNCHANGED <<now, arg, cancelled, late>>
         /\ attempt' \in 0..(Attempts - 1) /\ timer' \in Int
         /\ pc' \in {"failed", "backoff", "panicked"}
         /\ pc' = "backoff" => /\ attempt' = attempt + 1
                               /\ IsTransientSSHError(e)
                               /\ \E j \in Int : /\ timer' = now + Delay(attempt + 1) + j
                                                 /\ j = 0 \/ j \in 0..(Half(Delay(attempt + 1)) - 1)
<1>1. /\ now \in Nat /\ attempt \in 0..(Attempts - 1) /\ timer \in Int
      /\ Attempts \in Nat /\ attempt \in Nat
  BY ArgType DEF TypeOK
<1>2. err' = e /\ failedAt' = now /\ UNCHANGED <<now, arg, cancelled, late>>
  BY DEF AfterError
<1>3. CASE pc' = "failed" /\ UNCHANGED <<attempt, timer>>
  BY <1>1, <1>2, <1>3
<1>4. CASE ~(pc' = "failed" /\ UNCHANGED <<attempt, timer>>)
  <2> DEFINE d == Delay(attempt + 1)
  <2>1. ~GivesUp(e) /\ attempt' = attempt + 1
    BY <1>4 DEF AfterError
  <2>2. \/ pc' = "backoff" /\ timer' = now + d
        \/ pc' = "backoff" /\ \E j \in 0..(Half(d) - 1) : timer' = now + d + j
        \/ pc' = "panicked" /\ UNCHANGED timer
    BY <1>4 DEF AfterError
  <2>3. IsTransientSSHError(e) /\ ~(attempt + 1 >= Attempts)
    BY <2>1 DEF GivesUp, LastAttempt
  <2>4. attempt' \in 0..(Attempts - 1)
    BY <1>1, <2>1, <2>3
  <2>5. d \in Int
    BY <1>1, DelayType
  <2> HIDE DEF d
  <2>6. CASE pc' = "backoff" /\ timer' = now + d
    <3>1. 0 \in Int /\ timer' = now + d + 0 /\ timer' \in Int
      BY <1>1, <2>5, <2>6
    <3> QED
      BY <1>2, <2>1, <2>3, <2>4, <2>6, <3>1 DEF d
  <2>7. ASSUME pc' = "backoff", NEW j \in 0..(Half(d) - 1), timer' = now + d + j
        PROVE  /\ timer' \in Int
               /\ \E i \in Int : timer' = now + d + i /\ (i = 0 \/ i \in 0..(Half(d) - 1))
    <3>1. j \in Int
      OBVIOUS
    <3>2. timer' \in Int
      BY <1>1, <2>5, <2>7, <3>1
    <3> QED
      BY <2>7, <3>1, <3>2
  <2>8. CASE pc' = "panicked" /\ UNCHANGED timer
    BY <1>1, <1>2, <2>4, <2>8
  <2> QED
    BY <1>2, <2>1, <2>2, <2>3, <2>4, <2>6, <2>7, <2>8 DEF d
<1> QED
  BY <1>3, <1>4

\* If the delays fit, the wait is the doubled base delay, and with jitter less
\* than half as much again.
LEMMA WaitStep ==
  ASSUME TypeOK, ArgOK, Fits, NEW e \in Errors, AfterError(e), pc' = "backoff"
  PROVE  /\ attempt + 1 \in 1..(Attempts - 1)
         /\ Doubled(Base, attempt + 1) \in Nat \ {0}
         /\ 2 * (timer' - now) \in
              (2 * Doubled(Base, attempt + 1))..(3 * Doubled(Base, attempt + 1))
         /\ ~arg.jitter => timer' - now = Doubled(Base, attempt + 1)
<1> DEFINE k == attempt + 1
           d == Doubled(Base, k)
<1>1. /\ attempt' = attempt + 1 /\ attempt' \in 0..(Attempts - 1)
      /\ \E j \in Int : timer' = now + Delay(k) + j /\ (j = 0 \/ j \in 0..(Half(Delay(k)) - 1))
  BY AfterErrorStep
<1>2. attempt \in Nat /\ Attempts \in Nat /\ now \in Nat
  BY ArgType DEF TypeOK
<1>3. k \in 1..(Attempts - 1) /\ Attempts > 1
  BY <1>1, <1>2
<1>4. Attempts \in MaxAttempts /\ Base \in BaseDelays \cup {DefaultDelay} /\ Base > 0
  BY <1>3, ArgType
<1>5. d \in 1..MaxDuration
  BY <1>3, <1>4 DEF Fits
<1>6. d \in Nat \ {0}
  BY <1>5
<1>7. Delay(k) = d
  BY <1>5, WrapFits DEF Delay, Doubled
<1>8. PICK j \in Int : timer' = now + d + j /\ (j = 0 \/ j \in 0..(Half(d) - 1))
  BY <1>1, <1>7
<1> HIDE DEF d
<1>9. j \in Nat /\ 2 * j =< d
  BY <1>6, <1>8, JitterBound
<1>10. 2 * (timer' - now) \in (2 * d)..(3 * d)
  BY <1>2, <1>6, <1>8, <1>9
<1>11. ~arg.jitter => timer' = now + Delay(k)
  BY DEF AfterError
<1>12. ~arg.jitter => timer' - now = d
  BY <1>2, <1>6, <1>7, <1>11
<1> QED
  BY <1>3, <1>6, <1>10, <1>12 DEF d
-----------------------------------------------------------------------------
\* A doubled base delay is positive.
LEMMA DoubledType ==
  ASSUME ArgOK, PowersPositive, NEW k \in Nat \ {0}
  PROVE  Doubled(Base, k) \in Nat \ {0}
<1>1. Base \in Nat \ {0} /\ k - 1 \in Nat
  BY ArgType
<1>2. 2^(k - 1) \in Int /\ 2^(k - 1) >= 1
  BY <1>1, PowerType DEF PowersPositive
<1>3. \A b \in Nat \ {0}, p \in Int : p >= 1 => b * p \in Nat \ {0}
  OBVIOUS
<1> QED
  BY <1>1, <1>2, <1>3 DEF Doubled

\* An overflow never makes a delay longer.
LEMMA WrapBelow == \A x \in Nat : Wrap(x) \in Int /\ Wrap(x) =< x
<1> SUFFICES ASSUME NEW x \in Nat PROVE Wrap(x) \in Int /\ Wrap(x) =< x
  OBVIOUS
<1>1. \A a \in Nat, n \in Nat \ {0} : a % n \in Int /\ a % n =< a
  OBVIOUS
<1> DEFINE a == x + MaxDuration + 1
           n == 2 * (MaxDuration + 1)
<1>2. MaxDuration \in Nat /\ a \in Nat /\ n \in Nat \ {0}
  BY RetryAssumption
<1> HIDE DEF a, n
<1>3. a % n \in Int /\ a % n =< a
  BY <1>1, <1>2
<1> QED
  BY <1>2, <1>3 DEF Wrap, a, n

\* A wait is never longer than the doubled base delay and half of it again,
\* even when the delay has overflowed.
LEMMA WaitAtMost ==
  ASSUME TypeOK, ArgOK, PowersPositive, NEW e \in Errors, AfterError(e), pc' = "backoff"
  PROVE  LET d == Doubled(Base, attempt + 1) IN timer' =< now + d + d \div 2
<1> DEFINE d == Doubled(Base, attempt + 1)
           w == Delay(attempt + 1)
<1>1. now \in Nat /\ attempt \in Nat
  BY ArgType DEF TypeOK
<1>2. d \in Nat
  BY <1>1, DoubledType
<1>3. w \in Int /\ w =< d
  BY <1>2, WrapBelow DEF Delay, Doubled
<1>4. PICK j \in Int : timer' = now + w + j /\ (j = 0 \/ j \in 0..(Half(w) - 1))
  BY AfterErrorStep
<1> HIDE DEF d, w
<1>5. j =< d \div 2
  <2>1. CASE j = 0
    BY <1>2, <2>1
  <2>2. CASE j # 0 /\ w >= 0
    <3>1. w \in Nat /\ j \in 0..(Half(w) - 1)
      BY <1>3, <1>4, <2>2
    <3>2. 2 * j =< w
      BY <3>1, JitterBound
    <3>3. \A i, x \in Int, y \in Nat : 2 * i =< x /\ x =< y => i =< y \div 2
      OBVIOUS
    <3> QED
      BY <1>2, <1>3, <3>2, <3>3
  <2>3. CASE j # 0 /\ ~(w >= 0)
    <3>1. Half(w) = -((-w) \div 2) /\ -w \in Nat
      BY <1>3, <2>3 DEF Half
    <3>2. \A x \in Nat : x \div 2 \in Nat
      OBVIOUS
    <3>3. Half(w) \in Int /\ Half(w) =< 0
      BY <3>1, <3>2
    <3> QED
      BY <1>4, <2>3, <3>3
  <2> QED
    BY <2>1, <2>2, <2>3
<1>6. d \div 2 \in Nat
  BY <1>2
<1>7. timer' =< now + d + d \div 2
  BY <1>1, <1>2, <1>3, <1>4, <1>5, <1>6
<1> QED
  BY <1>7 DEF d
-----------------------------------------------------------------------------
\* Zero is a time.
LEMMA ZeroType == 0 \in Nat /\ 0 \in Int /\ \A n \in Nat : 0 \in 0..n
  OBVIOUS

\* A call begins with the types right and no tunnel.
LEMMA InvInit == Init => Inv
<1> SUFFICES ASSUME Init PROVE Inv
  OBVIOUS
<1>1. ArgOK
  BY DEF Init, ArgOK
<1>2. err \in Errors
  <2> DEFINE T == UNION {Texts[o] : o \in DOMAIN Texts}
  <2>1. Errors = [origin : {"none", "ctx", "port", "config", "ssh"} \cup Stages,
                  text : {"none"} \cup T]
    BY DEF Errors
  <2> HIDE DEF T
  <2>2. NoError \in Errors
    BY <2>1 DEF NoError
  <2> QED
    BY <2>2 DEF Init
<1>3. attempt \in 0..(Attempts - 1)
  <2>1. attempt = 0
    BY DEF Init
  <2>2. Attempts \in Nat /\ Attempts >= 1
    BY <1>1, ArgType
  <2>3. 0 \in 0..(Attempts - 1)
    BY <2>2
  <2> QED
    BY <2>1, <2>3, Zenon
<1>4. TypeOK
  <2>1. now \in 0..MaxTime
    <3>1. now = 0
      BY DEF Init, Tunnel!Init
    <3> QED
      BY <3>1, RetryAssumption, ZeroType
  <2>2. limit \in Nat /\ deadline \in Nat /\ failedAt \in Nat /\ timer \in Int /\ late \in Nat
    <3>1. limit = 0 /\ deadline = 0 /\ failedAt = 0 /\ timer = 0 /\ late = 0
      BY DEF Init
    <3> QED
      BY <3>1, ZeroType
  <2>3. /\ phase = "idle" /\ conn = "none" /\ stage = "none" /\ pc = "start"
        /\ cancelled = FALSE
    BY DEF Init, Tunnel!Init
  <2> QED
    BY <1>2, <1>3, <2>1, <2>2, <2>3 DEF TypeOK
<1>5. TunnelOK
  BY DEF Init, Tunnel!Init, TunnelOK
<1> QED
  BY <1>1, <1>4, <1>5 DEF Inv

\* An attempt begins.
LEMMA BeginInv ==
  ASSUME Inv, pc \in {"start", "backoff"}, BeginAttempt
  PROVE  Inv'
<1> USE DEF Inv
<1>1. UNCHANGED arg /\ ArgOK' /\ Attempts' = Attempts
  BY DEF BeginAttempt, ArgOK, Attempts
<1>2. CASE arg.dest = "bad port"
  <2>1. /\ pc' = "failed" /\ err' = [origin |-> "port", text |-> "other"]
        /\ UNCHANGED <<now, tunnel, arg, attempt, failedAt, timer, cancelled, late>>
    BY <1>2 DEF BeginAttempt
  <2>2. err' \in Errors
    BY <2>1, OtherErrorType
  <2>3. TypeOK'
    BY <1>1, <2>1, <2>2 DEF TypeOK, tunnel
  <2>4. TunnelOK'
    BY <2>1 DEF TunnelOK, TypeOK, tunnel
  <2> QED
    BY <1>1, <2>3, <2>4
<1>3. CASE arg.dest # "bad port"
  <2>1. /\ pc' = "dialing" /\ phase' = "dialing" /\ conn' = "none" /\ stage' = "none"
        /\ limit' = now + DialTimeout /\ late' = IF cancelled THEN late + 1 ELSE late
        /\ UNCHANGED <<now, deadline, arg, attempt, err, failedAt, timer, cancelled>>
    BY <1>3 DEF BeginAttempt
  <2>2. now \in Nat /\ limit' \in Nat /\ now =< limit' /\ late' \in Nat
    BY <2>1, RetryAssumption DEF TypeOK
  <2>3. TypeOK'
    BY <1>1, <2>1, <2>2 DEF TypeOK
  <2>4. TunnelOK'
    BY <2>1, <2>2 DEF TunnelOK
  <2> QED
    BY <1>1, <2>3, <2>4
<1> QED
  BY <1>2, <1>3

\* An attempt ends in an error, with no tunnel left open.
LEMMA ErrorInv ==
  ASSUME Inv, NEW e \in Errors, AfterError(e), phase' = "failed", conn' \in {"none", "closed"},
         stage' \in Stages \cup {"none"}, UNCHANGED <<limit, deadline>>
  PROVE  Inv'
<1> USE DEF Inv
<1>1. /\ err' = e /\ failedAt' = now /\ UNCHANGED <<now, arg, cancelled, late>>
      /\ attempt' \in 0..(Attempts - 1) /\ timer' \in Int
      /\ pc' \in {"failed", "backoff", "panicked"}
      /\ pc' = "backoff" => attempt' = attempt + 1
  BY AfterErrorStep
<1>2. Attempts' = Attempts /\ ArgOK'
  BY <1>1 DEF Attempts, ArgOK
<1>3. TypeOK'
  BY <1>1, <1>2 DEF TypeOK
<1>4. attempt \in Nat
  BY ArgType DEF TypeOK
<1>5. TunnelOK'
  BY <1>1, <1>4 DEF TunnelOK
<1> QED
  BY <1>2, <1>3, <1>5

\* The attempt goes on, the context is cancelled, or time passes.
LEMMA OnInv ==
  ASSUME Inv, TunnelOK', UNCHANGED <<arg, attempt, err, failedAt, timer, late>>,
         now' \in 0..MaxTime, phase' \in {"idle", "dialing", "ok", "failed"},
         conn' \in {"none", "open", "closed"}, limit' \in Nat, deadline' \in Nat,
         stage' \in Stages \cup {"none"}, cancelled' \in BOOLEAN,
         pc' \in {"start", "dialing", "handshake", "backoff", "connected", "failed", "panicked"}
  PROVE  Inv'
<1>1. ArgOK' /\ Attempts' = Attempts
  BY DEF Inv, ArgOK, Attempts
<1>2. TypeOK'
  BY <1>1 DEF Inv, TypeOK
<1> QED
  BY <1>1, <1>2 DEF Inv

\* A dial that fails and a handshake that fails do so with an error.
LEMMA DialFailsStep ==
  ASSUME Inv, DialFails
  PROVE  /\ \E e \in Errors : AfterError(e)
         /\ phase' = "failed" /\ conn' \in {"none", "closed"} /\ stage' \in Stages
         /\ UNCHANGED <<limit, deadline>>
<1>1. pc = "dialing" /\ conn \in {"none", "open"}
  BY DEF DialFails, Inv, TunnelOK
<1>2. stage' \in Stages /\ phase' = "failed" /\ UNCHANGED <<limit, deadline>>
      /\ conn' \in {"none", "closed"}
  BY <1>1 DEF DialFails, Tunnel!Fail
<1>3. PICK t \in Texts[stage'] : AfterError([origin |-> stage', text |-> t])
  BY DEF DialFails
<1>4. [origin |-> stage', text |-> t] \in Errors
  BY <1>2, ErrorType
<1> QED
  BY <1>2, <1>3, <1>4

LEMMA HandshakeFailsStep ==
  ASSUME Inv, HandshakeFails
  PROVE  /\ \E e \in Errors : AfterError(e)
         /\ phase' = "failed" /\ conn' = "closed" /\ UNCHANGED <<limit, deadline, stage>>
<1>1. PICK t \in Texts["ssh"] : AfterError([origin |-> "ssh", text |-> t])
  BY DEF HandshakeFails
<1>2. [origin |-> "ssh", text |-> t] \in Errors
  BY ErrorType
<1> QED
  BY <1>1, <1>2 DEF HandshakeFails, CloseConn

LEMMA ConfigFailsStep ==
  ASSUME Inv, ConfigFails
  PROVE  /\ \E e \in Errors : AfterError(e)
         /\ phase' = "failed" /\ conn' = "closed" /\ UNCHANGED <<limit, deadline, stage>>
         /\ pc' = "failed"
<1> DEFINE e == [origin |-> "config", text |-> "other"]
<1>1. e \in Errors /\ AfterError(e)
  BY OtherErrorType DEF ConfigFails
<1>2. GivesUp(e)
  BY DEF GivesUp, IsTransientSSHError
<1>3. pc' = "failed"
  BY <1>1, <1>2 DEF AfterError
<1> QED
  BY <1>1, <1>3 DEF ConfigFails, CloseConn

\* Every step keeps the types, and the tunnel as the loop holds it.
LEMMA InvStep == Inv /\ [Next]_vars => Inv'
<1> SUFFICES ASSUME Inv, [Next]_vars PROVE Inv'
  OBVIOUS
<1>0. /\ now \in 0..MaxTime /\ phase \in {"idle", "dialing", "ok", "failed"}
      /\ conn \in {"none", "open", "closed"} /\ limit \in Nat /\ deadline \in Nat
      /\ stage \in Stages \cup {"none"} /\ cancelled \in BOOLEAN
      /\ pc \in {"start", "dialing", "handshake", "backoff", "connected", "failed", "panicked"}
      /\ attempt \in Nat
  BY ArgType DEF Inv, TypeOK
<1> USE DEF tunnel
<1>1. CASE UNCHANGED vars
  <2>1. TunnelOK'
    BY <1>1 DEF vars, Inv, TunnelOK
  <2> QED
    BY <1>0, <1>1, <2>1, OnInv DEF vars
<1>2. CASE FirstAttempt
  BY <1>2, BeginInv DEF FirstAttempt
<1>3. CASE Accept
  <2>1. TunnelOK'
    BY <1>3 DEF Accept, Tunnel!Accept, Inv, TunnelOK
  <2> QED
    BY <1>0, <1>3, <2>1, OnInv DEF Accept, Tunnel!Accept
<1>4. CASE DialFails
  BY <1>4, DialFailsStep, ErrorInv
<1>5. CASE DialSucceeds
  <2>1. TunnelOK'
    BY <1>5 DEF DialSucceeds, Tunnel!Succeed, Inv, TunnelOK
  <2> QED
    BY <1>0, <1>5, <2>1, OnInv DEF DialSucceeds, Tunnel!Succeed
<1>6. CASE ConfigFails
  BY <1>0, <1>6, ConfigFailsStep, ErrorInv
<1>7. CASE HandshakeDone
  <2>1. TunnelOK'
    BY <1>7 DEF HandshakeDone, Inv, TunnelOK
  <2> QED
    BY <1>0, <1>7, <2>1, OnInv DEF HandshakeDone
<1>8. CASE HandshakeFails
  BY <1>0, <1>8, HandshakeFailsStep, ErrorInv
<1>9. CASE BackoffCancelled
  <2>1. /\ pc = "backoff" /\ pc' = "failed" /\ err' = [origin |-> "ctx", text |-> "other"]
        /\ UNCHANGED <<now, tunnel, arg, attempt, failedAt, timer, cancelled, late>>
    BY <1>9 DEF BackoffCancelled
  <2>2. err' \in Errors
    BY <2>1, OtherErrorType
  <2>3. ArgOK' /\ Attempts' = Attempts
    BY <2>1 DEF Inv, ArgOK, Attempts
  <2>4. TypeOK'
    BY <2>1, <2>2, <2>3 DEF Inv, TypeOK
  <2>5. TunnelOK'
    BY <2>1 DEF Inv, TunnelOK
  <2> QED
    BY <2>3, <2>4, <2>5 DEF Inv
<1>10. CASE BackoffOver
  BY <1>10, BeginInv DEF BackoffOver
<1>11. CASE Cancel
  <2>1. TunnelOK'
    BY <1>11 DEF Cancel, Inv, TunnelOK
  <2> QED
    BY <1>0, <1>11, <2>1, OnInv DEF Cancel
<1>12. CASE Tick
  <2>1. /\ now < MaxTime /\ now' = now + 1 /\ (phase = "dialing" => now < limit)
        /\ (pc = "handshake" => now < deadline)
        /\ UNCHANGED <<phase, conn, limit, deadline, stage, arg, pc, attempt, err, failedAt,
                       timer, cancelled, late>>
    BY <1>12 DEF Tick, Tunnel!Tick
  <2>2. now' \in 0..MaxTime
    BY <1>0, <2>1, RetryAssumption
  <2>3. TunnelOK'
    <3>1. pc = "dialing" => now' =< limit /\ limit =< now' + DialTimeout
      BY <1>0, <2>1, RetryAssumption DEF Inv, TunnelOK
    <3>2. pc = "handshake" => now' =< deadline
      BY <1>0, <2>1
    <3> QED
      BY <2>1, <3>1, <3>2 DEF Inv, TunnelOK
  <2> QED
    BY <1>0, <2>1, <2>2, <2>3, OnInv
<1> QED
  BY <1>1, <1>2, <1>3, <1>4, <1>5, <1>6, <1>7, <1>8, <1>9, <1>10, <1>11, <1>12
     DEF Next, Finished

\* In every state the types are right and the tunnel is as the loop holds it.
THEOREM Invariant == Spec => []Inv
<1>1. Inv /\ [Next]_vars => Inv'
  BY InvStep
<1> QED
  BY InvInit, <1>1, PTL DEF Spec

\* Types of all variables; the loop never runs past its last attempt, and an
\* overflowing delay is still a Duration.
THEOREM TypeCorrect == Spec => []TypeOK
<1>1. Inv => TypeOK
  BY DEF Inv
<1> QED
  BY Invariant, <1>1, PTL

\* A call that began no dial with ctx done is as it should be.
LEMMA Early == (late = 0 => LateOK) /\ (late' = 0 => LateOK')
  BY DEF LateOK

\* A timer that runs for at least d fires d later at the earliest.
LEMMA WaitArithmetic ==
  \A n, d \in Nat, t \in Int : 2 * (t - n) \in (2 * d)..(3 * d) => t >= n + d
  OBVIOUS

\* If the delays fit, a dial begun with ctx done is the last.
LEMMA LateStep == Fits /\ Inv /\ LateOK /\ [Next]_vars => LateOK'
<1> SUFFICES ASSUME Fits, Inv, LateOK, [Next]_vars PROVE LateOK'
  OBVIOUS
<1>0. late \in Nat /\ cancelled \in BOOLEAN /\ (late = 0 \/ late = 1) /\ now \in Nat /\ TypeOK /\ ArgOK
  BY DEF Inv, TypeOK, LateOK
<1> USE DEF tunnel
<1>1. CASE UNCHANGED vars
  BY <1>1 DEF vars, LateOK
<1>2. ASSUME BeginAttempt, late = 0
      PROVE  LateOK'
  <2>1. CASE arg.dest = "bad port"
    <3>1. late' = 0
      BY <1>2, <2>1 DEF BeginAttempt
    <3> QED
      BY <3>1, Early
  <2>2. CASE arg.dest # "bad port"
    <3>1. /\ pc' = "dialing" /\ conn' = "none" /\ cancelled' = cancelled
          /\ late' = IF cancelled THEN 1 ELSE 0
      <4>1. /\ pc' = "dialing" /\ conn' = "none" /\ cancelled' = cancelled
            /\ late' = IF cancelled THEN late + 1 ELSE late
        BY <1>2, <2>2 DEF BeginAttempt
      <4> QED
        BY <1>2, <4>1
    <3>2. CASE cancelled
      BY <3>1, <3>2 DEF LateOK
    <3>3. CASE ~cancelled
      BY <3>1, <3>3, Early
    <3> QED
      BY <3>2, <3>3
  <2> QED
    BY <2>1, <2>2
<1>3. CASE FirstAttempt
  <2>1. late = 0
    BY <1>0, <1>3 DEF FirstAttempt, LateOK
  <2> QED
    BY <1>2, <1>3, <2>1 DEF FirstAttempt
<1>4. ASSUME NEW e \in Errors, AfterError(e), pc \in {"dialing", "handshake"}
      PROVE  LateOK'
  <2>1. /\ UNCHANGED <<now, cancelled, late>>
        /\ pc' \in {"failed", "backoff", "panicked"}
    BY <1>0, <1>4, AfterErrorStep
  <2>2. pc' = "backoff" => now' < timer'
    <3> SUFFICES ASSUME pc' = "backoff" PROVE now' < timer'
      OBVIOUS
    <3>1. PICK d \in Nat \ {0} : 2 * (timer' - now) \in (2 * d)..(3 * d)
      BY <1>0, <1>4, WaitStep
    <3>2. timer' \in Int
      BY <1>0, <1>4, AfterErrorStep
    <3>3. timer' >= now + d
      BY <1>0, <3>1, <3>2, WaitArithmetic
    <3> QED
      BY <1>0, <2>1, <3>2, <3>3
  <2> QED
    BY <1>0, <2>1, <2>2 DEF LateOK
<1>5. CASE Accept \/ Cancel
  BY <1>0, <1>5 DEF Accept, Tunnel!Accept, Cancel, LateOK
<1>6. CASE DialFails \/ ConfigFails
  <2>1. \E e \in Errors : AfterError(e)
    BY <1>6, DialFailsStep, ConfigFailsStep
  <2>2. pc = "dialing"
    BY <1>6 DEF DialFails, ConfigFails
  <2> QED
    BY <1>4, <2>1, <2>2
<1>7. CASE DialSucceeds
  BY <1>0, <1>7 DEF DialSucceeds, Tunnel!Succeed, LateOK
<1>8. CASE HandshakeDone
  BY <1>0, <1>8 DEF HandshakeDone, LateOK
<1>9. CASE HandshakeFails
  <2>1. \E e \in Errors : AfterError(e)
    BY <1>9, HandshakeFailsStep
  <2> QED
    BY <1>4, <1>9, <2>1 DEF HandshakeFails
<1>10. CASE BackoffCancelled
  BY <1>0, <1>10 DEF BackoffCancelled, LateOK
<1>11. CASE BackoffOver
  <2>1. late = 0
    <3>1. now >= timer /\ timer \in Int /\ pc = "backoff"
      BY <1>0, <1>11 DEF BackoffOver, TypeOK
    <3>2. ~(now < timer)
      BY <1>0, <3>1
    <3> QED
      BY <1>0, <3>1, <3>2 DEF LateOK
  <2> QED
    BY <1>2, <1>11, <2>1 DEF BackoffOver
<1>12. CASE Tick
  <2>1. (pc = "backoff" => ~cancelled) /\ UNCHANGED <<pc, conn, cancelled, late>>
    BY <1>12 DEF Tick, Tunnel!Tick, SelectSeesCtx
  <2> QED
    BY <1>0, <2>1 DEF LateOK
<1> QED
  BY <1>1, <1>3, <1>5, <1>6, <1>7, <1>8, <1>9, <1>10, <1>11, <1>12 DEF Next, Finished

\* If every delay fits a Duration, Dial begins at most one attempt after ctx is
\* done: the select of the backoff sees ctx before the next timer fires.
THEOREM CancelStopsRetriesHolds == Fits => (Spec => []CancelStopsRetries)
<1> SUFFICES ASSUME Fits PROVE Spec => []CancelStopsRetries
  OBVIOUS
<1>1. Init => LateOK
  <2>1. Init => late = 0
    BY DEF Init
  <2> QED
    BY <2>1, Early
<1>2. Inv /\ LateOK /\ [Next]_vars => LateOK'
  BY LateStep
<1>3. LateOK => CancelStopsRetries
  BY DEF LateOK, CancelStopsRetries
<1> QED
  BY Invariant, <1>1, <1>2, <1>3, PTL DEF Spec

\* The timer of a backoff is set once.
LEMMA WaitKept == Fits /\ Inv /\ WaitOK /\ [Next]_vars => WaitOK'
<1> SUFFICES ASSUME Fits, Inv, WaitOK, [Next]_vars, pc' = "backoff"
             PROVE  timer' >= failedAt' + Doubled(Base, attempt)'
  BY DEF WaitOK
<1>0. TypeOK /\ ArgOK /\ now \in Nat
  BY DEF Inv, TypeOK
<1>1. ASSUME NEW e \in Errors, AfterError(e)
      PROVE  timer' >= failedAt' + Doubled(Base, attempt)'
  <2> DEFINE d == Doubled(Base, attempt + 1)
  <2>1. d \in Nat \ {0} /\ 2 * (timer' - now) \in (2 * d)..(3 * d)
    BY <1>0, <1>1, WaitStep
  <2>2. timer' \in Int /\ failedAt' = now /\ attempt' = attempt + 1 /\ arg' = arg
    BY <1>0, <1>1, AfterErrorStep
  <2>3. Doubled(Base, attempt)' = d
    BY <2>2 DEF Doubled, Base
  <2> HIDE DEF d
  <2>4. timer' >= now + d
    BY <1>0, <2>1, <2>2, WaitArithmetic
  <2> QED
    BY <2>2, <2>3, <2>4
<1>2. ASSUME pc = "backoff", UNCHANGED <<arg, attempt, failedAt, timer>>
      PROVE  timer' >= failedAt' + Doubled(Base, attempt)'
  BY <1>2 DEF WaitOK, Doubled, Base
<1>3. CASE UNCHANGED vars \/ Cancel \/ Tick
  BY <1>2, <1>3 DEF vars, Cancel, Tick
<1>4. CASE DialFails \/ ConfigFails \/ HandshakeFails
  <2>1. \E e \in Errors : AfterError(e)
    BY <1>4, DialFailsStep, ConfigFailsStep, HandshakeFailsStep
  <2> QED
    BY <1>1, <2>1
<1>5. ~(FirstAttempt \/ Accept \/ DialSucceeds \/ HandshakeDone \/ BackoffCancelled \/ BackoffOver)
  BY DEF FirstAttempt, BeginAttempt, Accept, DialSucceeds, HandshakeDone, BackoffCancelled,
         BackoffOver
<1> QED
  BY <1>3, <1>4, <1>5 DEF Next, Finished

\* If every delay fits a Duration, a retry waits for the base delay doubled
\* with every attempt, and for less than half as much again if it has jitter;
\* only an error IsTransientSSHError lets through is retried.
THEOREM BackoffWindowHolds == Fits => (Spec => BackoffWindow)
<1> SUFFICES ASSUME Fits PROVE Spec => BackoffWindow
  OBVIOUS
<1> DEFINE Window ==
      LET delay(k) == Base * 2^(k - 1)
          least(k) == (IF arg.jitter THEN 3 ELSE 4) * delay(k)
          most(k)  == (IF arg.jitter THEN 6 ELSE 4) * delay(k)
      IN /\ pc # "backoff" /\ pc' = "backoff" =>
              /\ IsTransientSSHError(err')
              /\ 4 * (timer' - now) \in least(attempt')..most(attempt')
         /\ pc = "backoff" /\ pc' = "dialing" =>
              4 * (now - failedAt) >= least(attempt)
     Least(k) == (IF arg.jitter THEN 3 ELSE 4) * Doubled(Base, k)
     Most(k)  == (IF arg.jitter THEN 6 ELSE 4) * Doubled(Base, k)
<1>1. Init => WaitOK
  BY DEF Init, WaitOK
<1>2. Inv /\ WaitOK /\ [Next]_vars => WaitOK'
  BY WaitKept
<1>3. Inv /\ WaitOK /\ [Next]_vars => [Window]_vars
  <2> SUFFICES ASSUME Inv, WaitOK, [Next]_vars PROVE Window \/ UNCHANGED vars
    OBVIOUS
  <2>0. TypeOK /\ ArgOK /\ now \in Nat
    BY DEF Inv, TypeOK
  <2>1. ASSUME pc # "backoff", pc' = "backoff"
        PROVE  /\ IsTransientSSHError(err')
               /\ 4 * (timer' - now) \in Least(attempt')..Most(attempt')
    <3>1. DialFails \/ ConfigFails \/ HandshakeFails
      BY <2>1 DEF Next, Finished, vars, FirstAttempt, BeginAttempt, Accept, DialSucceeds,
                  HandshakeDone, BackoffCancelled, BackoffOver, Cancel, Tick
    <3>2. PICK e \in Errors : AfterError(e)
      BY <3>1, DialFailsStep, ConfigFailsStep, HandshakeFailsStep
    <3>3. err' = e /\ attempt' = attempt + 1 /\ IsTransientSSHError(e)
      BY <2>0, <2>1, <3>2, AfterErrorStep
    <3> DEFINE d == Doubled(Base, attempt + 1)
               w == timer' - now
    <3>4. /\ d \in Nat \ {0} /\ 2 * w \in (2 * d)..(3 * d)
          /\ ~arg.jitter => w = d
      BY <2>0, <2>1, <3>2, WaitStep
    <3>5. w \in Int
      BY <2>0, <2>1, <3>2, AfterErrorStep
    <3> HIDE DEF d, w
    <3>6. 4 * w \in (IF arg.jitter THEN 3 ELSE 4) * d..(IF arg.jitter THEN 6 ELSE 4) * d
      BY <3>4, <3>5
    <3> QED
      BY <3>3, <3>6 DEF d, w
  <2>2. ASSUME pc = "backoff", pc' = "dialing"
        PROVE  4 * (now - failedAt) >= Least(attempt)
    <3>1. BackoffOver
      BY <2>2 DEF Next, Finished, vars, FirstAttempt, Accept, DialFails, ConfigFails,
                  HandshakeFails, DialSucceeds, HandshakeDone, BackoffCancelled, Cancel, Tick
    <3>2. now >= timer /\ timer >= failedAt + Doubled(Base, attempt)
      BY <2>2, <3>1 DEF BackoffOver, WaitOK
    <3>3. /\ timer \in Int /\ failedAt \in Nat
          /\ Doubled(Base, attempt) \in Int /\ Doubled(Base, attempt) >= 0
      <4>1. attempt \in 1..(Attempts - 1) /\ Attempts \in Nat /\ Attempts > 1
        BY <2>0, <2>2, ArgType DEF Inv, TypeOK, TunnelOK
      <4>2. Attempts \in MaxAttempts /\ Base \in BaseDelays \cup {DefaultDelay} /\ Base > 0
        BY <2>0, <4>1, ArgType
      <4>3. Doubled(Base, attempt) \in 1..MaxDuration
        BY <4>1, <4>2 DEF Fits
      <4> QED
        BY <2>0, <4>3, RetryAssumption DEF TypeOK
    <3> DEFINE d == Doubled(Base, attempt)
    <3>4. d \in Int /\ d >= 0 /\ now - failedAt >= d
      BY <2>0, <3>2, <3>3
    <3> HIDE DEF d
    <3>5. 4 * (now - failedAt) >= (IF arg.jitter THEN 3 ELSE 4) * d
      BY <2>0, <3>3, <3>4
    <3> QED
      BY <3>5 DEF d
  <2> QED
    BY <2>1, <2>2 DEF Doubled
<1>4. Spec => [][Window]_vars
  BY Invariant, <1>1, <1>2, <1>3, PTL DEF Spec
<1> QED
  BY <1>4 DEF BackoffWindow
-----------------------------------------------------------------------------
\* The session a call of Dial is for its caller.
SessionPhase == CASE pc = "start" -> "idle" [] pc = "connected" -> "up"
                  [] pc \in {"failed", "panicked"} -> "failed" [] OTHER -> "dialing"
SessionConn  == IF conn = "open" THEN "open" ELSE "closed"

\* What a step of the session changes of the tunnel and the place in the loop.
LEMMA SessionPlace ==
  /\ pc = "start" => SessionPhase = "idle"
  /\ pc = "connected" => SessionPhase = "up"
  /\ pc \in {"failed", "panicked"} => SessionPhase = "failed"
  /\ pc \in {"dialing", "handshake", "backoff"} => SessionPhase = "dialing"
  BY DEF SessionPhase

\* The same of the state after a step.
LEMMA SessionPlaceNext ==
  /\ pc' = "connected" => SessionPhase' = "up"
  /\ pc' \in {"failed", "panicked"} => SessionPhase' = "failed"
  /\ pc' \in {"dialing", "handshake", "backoff"} => SessionPhase' = "dialing"
  /\ pc' = pc => SessionPhase' = SessionPhase
  BY DEF SessionPhase

\* A call begins as a session does.
LEMMA SessionInit == Init => Promise!Init
<1> SUFFICES ASSUME Init PROVE Promise!Init
  OBVIOUS
<1>1. pc = "start" /\ conn = "none" /\ now = 0
  BY DEF Init, Tunnel!Init
<1>2. SessionPhase = "idle" /\ SessionConn = "closed"
  BY <1>1, SessionPlace DEF SessionConn
<1> QED
  BY <1>1, <1>2 DEF Promise!Init, SessionPhase, SessionConn

\* An error ends the session's tunnel, and with the last attempt the session.
LEMMA SessionError ==
  ASSUME Inv, NEW e \in Errors, AfterError(e), pc \in {"dialing", "handshake"},
         conn' \in {"none", "closed"}, UNCHANGED deadline
  PROVE  [Promise!Next]_(Promise!vars)
<1>1. pc' \in {"failed", "backoff", "panicked"} /\ UNCHANGED now
  BY AfterErrorStep DEF Inv
<1>2. SessionPhase = "dialing" /\ SessionConn' = "closed" /\ SessionConn \in {"open", "closed"}
  BY SessionPlace DEF SessionConn
<1>3. CASE pc' \in {"failed", "panicked"}
  <2>1. SessionPhase' = "failed"
    BY <1>3, SessionPlaceNext
  <2>2. Promise!Fail
    BY <1>1, <1>2, <2>1 DEF Promise!Fail, SessionPhase, SessionConn
  <2> QED
    BY <2>2 DEF Promise!Next
<1>4. CASE pc' = "backoff"
  <2>1. SessionPhase' = "dialing"
    BY <1>4, SessionPlaceNext
  <2>2. CASE SessionConn = "open"
    <3>1. Promise!Drop
      BY <1>1, <1>2, <2>1, <2>2 DEF Promise!Drop, SessionPhase, SessionConn
    <3> QED
      BY <3>1 DEF Promise!Next
  <2>3. CASE SessionConn = "closed"
    BY <1>1, <1>2, <2>1, <2>3 DEF Promise!vars, SessionPhase, SessionConn
  <2> QED
    BY <1>2, <2>2, <2>3
<1> QED
  BY <1>1, <1>3, <1>4

\* A step that leaves the session as it is.
LEMMA SessionStutters ==
  ASSUME UNCHANGED <<now, deadline>>, SessionPhase' = SessionPhase, SessionConn' = SessionConn
  PROVE  [Promise!Next]_(Promise!vars)
  BY DEF Promise!vars, SessionPhase, SessionConn

\* An attempt that begins is the session's first, one of many, or its end.
LEMMA SessionBegins ==
  ASSUME Inv, pc \in {"start", "backoff"}, BeginAttempt
  PROVE  [Promise!Next]_(Promise!vars)
<1>1. UNCHANGED <<now, deadline>> /\ conn # "open" /\ conn' # "open"
  BY DEF BeginAttempt, tunnel, Inv, TunnelOK
<1>2. SessionConn = "closed" /\ SessionConn' = "closed" /\ SessionPhase \in {"idle", "dialing"}
  BY <1>1, SessionPlace DEF SessionConn
<1>3. pc' \in {"dialing", "failed"}
  BY DEF BeginAttempt
<1>4. CASE pc' = "failed"
  <2>1. SessionPhase' = "failed"
    BY <1>4, SessionPlaceNext
  <2>2. Promise!Fail
    BY <1>1, <1>2, <2>1 DEF Promise!Fail, SessionPhase, SessionConn
  <2> QED
    BY <2>2 DEF Promise!Next
<1>5. CASE pc' = "dialing" /\ pc = "start"
  <2>1. SessionPhase' = "dialing" /\ SessionPhase = "idle"
    BY <1>5, SessionPlace, SessionPlaceNext
  <2>2. Promise!Begin
    BY <1>1, <1>2, <2>1 DEF Promise!Begin, SessionPhase, SessionConn
  <2> QED
    BY <2>2 DEF Promise!Next
<1>6. CASE pc' = "dialing" /\ pc = "backoff"
  <2>1. SessionPhase' = "dialing" /\ SessionPhase = "dialing"
    BY <1>6, SessionPlace, SessionPlaceNext
  <2> QED
    BY <1>1, <1>2, <2>1, SessionStutters
<1> QED
  BY <1>3, <1>4, <1>5, <1>6

\* Every step is one of the session's, or none.
LEMMA SessionStep == Inv /\ [Next]_vars => [Promise!Next]_(Promise!vars)
<1> SUFFICES ASSUME Inv, [Next]_vars PROVE [Promise!Next]_(Promise!vars)
  OBVIOUS
<1> USE DEF tunnel
<1>1. CASE UNCHANGED vars
  BY <1>1, SessionStutters DEF vars, SessionPhase, SessionConn
<1>2. CASE FirstAttempt \/ BackoffOver
  BY <1>2, SessionBegins DEF FirstAttempt, BackoffOver
<1>3. CASE Accept
  <2>1. /\ pc = "dialing" /\ pc' = pc /\ conn = "none" /\ conn' = "open" /\ UNCHANGED now
        /\ deadline' = limit /\ now =< limit /\ limit =< now + DialTimeout
        /\ limit \in Nat /\ now \in Nat
    BY <1>3 DEF Accept, Tunnel!Accept, Inv, TunnelOK, TypeOK
  <2>2. deadline' \in now..(now + DialTimeout)
    BY <2>1, RetryAssumption
  <2>3. /\ SessionPhase = "dialing" /\ SessionPhase' = SessionPhase
        /\ SessionConn = "closed" /\ SessionConn' = "open"
    BY <2>1, SessionPlace, SessionPlaceNext DEF SessionConn
  <2>4. Promise!Open
    BY <2>1, <2>2, <2>3 DEF Promise!Open, SessionPhase, SessionConn
  <2> QED
    BY <2>4 DEF Promise!Next
<1>4. CASE DialFails
  BY <1>4, DialFailsStep, SessionError DEF DialFails
<1>5. CASE ConfigFails
  BY <1>5, ConfigFailsStep, SessionError DEF ConfigFails
<1>6. CASE HandshakeFails
  BY <1>6, HandshakeFailsStep, SessionError DEF HandshakeFails
<1>7. CASE DialSucceeds
  <2>1. /\ pc = "dialing" /\ pc' = "handshake" /\ conn' = conn /\ UNCHANGED <<now, deadline>>
    BY <1>7 DEF DialSucceeds, Tunnel!Succeed
  <2> QED
    BY <2>1, SessionStutters, SessionPlace, SessionPlaceNext DEF SessionConn
<1>8. CASE HandshakeDone
  <2>1. /\ pc = "handshake" /\ pc' = "connected" /\ conn' = conn /\ UNCHANGED <<now, deadline>>
        /\ conn = "open" /\ now =< deadline
    BY <1>8 DEF HandshakeDone, Inv, TunnelOK
  <2>2. /\ SessionPhase = "dialing" /\ SessionPhase' = "up"
        /\ SessionConn = "open" /\ SessionConn' = SessionConn
    BY <2>1, SessionPlace, SessionPlaceNext DEF SessionConn
  <2>3. Promise!Succeed
    BY <2>1, <2>2 DEF Promise!Succeed, SessionPhase, SessionConn
  <2> QED
    BY <2>3 DEF Promise!Next
<1>9. CASE BackoffCancelled
  <2>1. /\ pc = "backoff" /\ pc' = "failed" /\ conn' = conn /\ UNCHANGED <<now, deadline>>
        /\ conn # "open"
    BY <1>9 DEF BackoffCancelled, Inv, TunnelOK
  <2>2. /\ SessionPhase = "dialing" /\ SessionPhase' = "failed" /\ SessionConn' = "closed"
    BY <2>1, SessionPlace, SessionPlaceNext DEF SessionConn
  <2>3. Promise!Fail
    BY <2>1, <2>2 DEF Promise!Fail, SessionPhase, SessionConn
  <2> QED
    BY <2>3 DEF Promise!Next
<1>10. CASE Cancel
  <2>1. UNCHANGED <<pc, conn, now, deadline>>
    BY <1>10 DEF Cancel
  <2> QED
    BY <2>1, SessionStutters, SessionPlaceNext DEF SessionConn
<1>11. CASE Tick
  <2>1. /\ now' = now + 1 /\ UNCHANGED <<pc, conn, deadline>>
        /\ (phase = "dialing" => now < limit) /\ (pc = "handshake" => now < deadline)
    BY <1>11 DEF Tick, Tunnel!Tick
  <2>2. pc \in {"dialing", "handshake", "backoff"} /\ conn = "open" => now < deadline
    BY <2>1 DEF Inv, TunnelOK
  <2>3. SessionPhase = "dialing" /\ SessionConn = "open" => now < deadline
    <3>1. SessionPhase = "dialing" => pc \in {"dialing", "handshake", "backoff"}
      BY SessionPlace DEF Inv, TypeOK
    <3>2. SessionConn = "open" => conn = "open"
      BY DEF SessionConn
    <3> QED
      BY <2>2, <3>1, <3>2
  <2>4. SessionPhase' = SessionPhase /\ SessionConn' = SessionConn
    BY <2>1, SessionPlaceNext DEF SessionConn
  <2>5. Promise!Tick
    BY <2>1, <2>3, <2>4 DEF Promise!Tick, SessionPhase, SessionConn
  <2> QED
    BY <2>5 DEF Promise!Next
<1> QED
  BY <1>1, <1>2, <1>3, <1>4, <1>5, <1>6, <1>7, <1>8, <1>9, <1>10, <1>11 DEF Next, Finished

\* Dial implements SSHSession, however often it tries: one tunnel at a time,
\* none left open behind an error or a panic, and an open one that ends at a
\* deadline behind a success.
THEOREM Refinement == Spec => KeepsPromise
<1>1. Inv /\ [Next]_vars => [Promise!Next]_(Promise!vars)
  BY SessionStep
<1> QED
  BY Invariant, SessionInit, <1>1, PTL DEF Spec, KeepsPromise, Promise!Spec
-----------------------------------------------------------------------------
\* A set of numbers that is not empty has a least one.
LEMMA LeastNumber == \A T \in SUBSET Nat : T # {} => \E n \in T : \A m \in T : n =< m
<1>1. IsWellFoundedOn(OpToRel(<, Nat), Nat)
  BY NatLessThanWellFounded
<1>2. SUFFICES ASSUME NEW T \in SUBSET Nat, T # {} PROVE \E n \in T : \A m \in T : n =< m
  OBVIOUS
<1>3. PICK n \in T : \A m \in T : ~(<<m, n>> \in OpToRel(<, Nat))
  BY <1>1, <1>2, WFMin
<1>4. \A m \in T : ~(m < n)
  BY <1>3 DEF OpToRel
<1> QED
  BY <1>4

\* Sums of two sequences of terms exist: the recursion that adds them up
\* defines a function.
LEMMA SumsExist ==
  ASSUME NEW N \in Nat, NEW a \in [1..N -> Int], NEW b \in [1..N -> Int]
  PROVE  \E f \in [0..N -> Int] :
           f = [k \in 0..N |-> IF k = 0 THEN 0 ELSE f[k - 1] + a[k] + b[k]]
<1> DEFINE Sums(n) == \E f \in [0..n -> Int] :
                        /\ f[0] = 0
                        /\ \A k \in 1..n : f[k] = f[k - 1] + a[k] + b[k]
           T == {n \in Nat : n =< N /\ ~Sums(n)}
<1>1. Sums(0)
  <2> DEFINE f == [k \in 0..0 |-> 0]
  <2>1. f \in [0..0 -> Int] /\ f[0] = 0
    OBVIOUS
  <2>2. \A k \in 1..0 : FALSE
    OBVIOUS
  <2> HIDE DEF f
  <2> QED
    BY <2>1, <2>2
<1>2. ASSUME NEW n \in Nat, n > 0, n =< N, Sums(n - 1)
      PROVE  Sums(n)
  <2>1. PICK f \in [0..(n - 1) -> Int] : /\ f[0] = 0
                                         /\ \A k \in 1..(n - 1) : f[k] = f[k - 1] + a[k] + b[k]
    BY <1>2
  <2> DEFINE g == [k \in 0..n |-> IF k = n THEN f[n - 1] + a[n] + b[n] ELSE f[k]]
  <2>2. \A k \in 0..n : k # n => k \in 0..(n - 1)
    BY <1>2
  <2>3. n \in 1..N /\ n - 1 \in 0..(n - 1)
    BY <1>2
  <2>4. a[n] \in Int /\ b[n] \in Int /\ f[n - 1] \in Int
    BY <2>3
  <2>5. f[n - 1] + a[n] + b[n] \in Int
    BY <2>4
  <2>6. g \in [0..n -> Int]
    BY <2>2, <2>5
  <2>7. g[n] = f[n - 1] + a[n] + b[n] /\ g[n - 1] = f[n - 1] /\ g[0] = 0
    <3>1. n \in 0..n /\ n - 1 \in 0..n /\ 0 \in 0..n /\ n - 1 # n /\ n # 0
      BY <1>2
    <3> QED
      BY <2>1, <3>1
  <2>8. \A k \in 1..n : g[k] = g[k - 1] + a[k] + b[k]
    <3> SUFFICES ASSUME NEW k \in 1..n, k # n PROVE g[k] = g[k - 1] + a[k] + b[k]
      BY <2>7
    <3>1. k \in 1..(n - 1) /\ k \in 0..n /\ k - 1 \in 0..n /\ k - 1 # n
      BY <1>2
    <3>2. g[k] = f[k] /\ g[k - 1] = f[k - 1]
      BY <3>1
    <3> QED
      BY <2>1, <3>1, <3>2
  <2> HIDE DEF g
  <2> QED
    BY <2>6, <2>7, <2>8
<1> HIDE DEF Sums
<1>3. T = {}
  <2> SUFFICES ASSUME T # {} PROVE FALSE
    OBVIOUS
  <2>1. PICK n \in T : \A m \in T : n =< m
    BY LeastNumber
  <2>2. n \in Nat /\ n =< N /\ ~Sums(n)
    OBVIOUS
  <2>3. n # 0
    BY <1>1, <2>2
  <2>4. n - 1 \in Nat /\ n - 1 =< N /\ ~(n =< n - 1)
    BY <2>2, <2>3
  <2>5. Sums(n - 1)
    BY <2>1, <2>4
  <2> QED
    BY <1>2, <2>2, <2>3, <2>4, <2>5
<1>4. Sums(N)
  BY <1>3
<1>5. PICK f \in [0..N -> Int] : f[0] = 0 /\ \A k \in 1..N : f[k] = f[k - 1] + a[k] + b[k]
  BY <1>4 DEF Sums
<1>6. \A k \in 0..N : f[k] = IF k = 0 THEN 0 ELSE f[k - 1] + a[k] + b[k]
  <2>1. \A k \in 0..N : k # 0 => k \in 1..N
    OBVIOUS
  <2> QED
    BY <1>5, <2>1
<1>7. f = [k \in 0..N |-> IF k = 0 THEN 0 ELSE f[k - 1] + a[k] + b[k]]
  <2>1. f = [k \in 0..N |-> f[k]]
    OBVIOUS
  <2> QED
    BY <1>6, <2>1
<1> QED
  BY <1>7

\* What never falls from one number to the next is largest at the last.
LEMMA GrowsToLast ==
  ASSUME NEW N \in Nat, NEW f \in [0..N -> Int], f[0] = 0, \A k \in 1..N : f[k - 1] =< f[k]
  PROVE  \A k \in 0..N : 0 =< f[k] /\ f[k] =< f[N]
<1> DEFINE Low  == {n \in Nat : n =< N /\ ~(0 =< f[n])}
           High == {n \in Nat : n =< N /\ ~(f[N - n] =< f[N])}
<1>1. \A k \in 0..N : f[k] \in Int
  OBVIOUS
<1>2. Low = {}
  <2> SUFFICES ASSUME Low # {} PROVE FALSE
    OBVIOUS
  <2>1. PICK n \in Low : \A m \in Low : n =< m
    BY LeastNumber
  <2>2. n # 0 /\ n \in Nat /\ n =< N
    OBVIOUS
  <2>3. n - 1 \in Nat /\ n - 1 =< N /\ ~(n =< n - 1) /\ n \in 1..N
    BY <2>2
  <2>4. 0 =< f[n - 1]
    BY <2>1, <2>3
  <2>5. f[n - 1] =< f[n] /\ f[n] \in Int /\ f[n - 1] \in Int
    BY <1>1, <2>3
  <2> QED
    BY <2>1, <2>4, <2>5
<1>3. High = {}
  <2> SUFFICES ASSUME High # {} PROVE FALSE
    OBVIOUS
  <2>1. PICK n \in High : \A m \in High : n =< m
    BY LeastNumber
  <2>2. n \in Nat /\ n =< N /\ ~(f[N - n] =< f[N])
    OBVIOUS
  <2>3. n # 0
    <3>1. N - 0 = N /\ f[N] \in Int
      BY <1>1
    <3> QED
      BY <2>2, <3>1
  <2>4. n - 1 \in Nat /\ n - 1 =< N /\ ~(n =< n - 1) /\ N - (n - 1) \in 1..N
        /\ N - (n - 1) - 1 = N - n /\ N - n \in 0..N
    BY <2>2, <2>3
  <2>5. f[N - (n - 1)] =< f[N]
    BY <2>1, <2>4
  <2>6. f[N - n] =< f[N - (n - 1)]
    BY <2>4
  <2>7. f[N - n] \in Int /\ f[N - (n - 1)] \in Int /\ f[N] \in Int
    BY <1>1, <2>4
  <2> QED
    BY <2>2, <2>5, <2>6, <2>7
<1> SUFFICES ASSUME NEW k \in 0..N PROVE 0 =< f[k] /\ f[k] =< f[N]
  OBVIOUS
<1>4. 0 =< f[k]
  <2>1. k \in Nat /\ k =< N
    OBVIOUS
  <2> QED
    BY <1>2, <2>1
<1>5. N - k \in Nat /\ N - k =< N /\ N - (N - k) = k
  OBVIOUS
<1>6. f[k] =< f[N]
  BY <1>3, <1>5
<1> QED
  BY <1>4, <1>6
-----------------------------------------------------------------------------
\* The waits that Longest adds up.
Waits == LET wait[k \in 0..Attempts] ==
               IF k = 0 THEN 0 ELSE wait[k - 1] + Base * 2^(k - 1) + (Base * 2^(k - 1)) \div 2
         IN wait

\* Longest is its attempts and its waits.
LEMMA LongestParts == Longest = Attempts * DialTimeout + Waits[Attempts - 1]
  BY DEF Longest, Waits

\* Each wait follows from the one before.
LEMMA WaitsRecursion ==
  ASSUME ArgOK
  PROVE  /\ Waits \in [0..Attempts -> Int]
         /\ Waits[0] = 0
         /\ \A k \in 1..Attempts : Waits[k] = Waits[k - 1] + Doubled(Base, k) + Doubled(Base, k) \div 2
<1> DEFINE N == Attempts
           a == [k \in 1..N |-> Base * 2^(k - 1)]
           b == [k \in 1..N |-> (Base * 2^(k - 1)) \div 2]
           Rec(f) == f = [k \in 0..N |-> IF k = 0 THEN 0
                                         ELSE f[k - 1] + Base * 2^(k - 1) + (Base * 2^(k - 1)) \div 2]
<1>1. N \in Nat /\ Base \in Int
  BY ArgType
<1>2. \A k \in 1..N : Base * 2^(k - 1) \in Int /\ (Base * 2^(k - 1)) \div 2 \in Int
  <2> SUFFICES ASSUME NEW k \in 1..N
               PROVE  Base * 2^(k - 1) \in Int /\ (Base * 2^(k - 1)) \div 2 \in Int
    OBVIOUS
  <2>1. k - 1 \in Nat
    BY <1>1
  <2>2. 2^(k - 1) \in Int
    BY <2>1, PowerType
  <2>3. \A x \in Int : x \div 2 \in Int
    OBVIOUS
  <2>4. Base * 2^(k - 1) \in Int
    BY <1>1, <2>2
  <2> QED
    BY <2>3, <2>4
<1>3. a \in [1..N -> Int] /\ b \in [1..N -> Int]
  BY <1>2
<1> HIDE DEF N
<1>4. PICK f \in [0..N -> Int] :
        f = [k \in 0..N |-> IF k = 0 THEN 0 ELSE f[k - 1] + a[k] + b[k]]
  <2> HIDE DEF a, b
  <2> QED
    BY <1>1, <1>3, SumsExist
<1>5. \A k \in 0..N : k # 0 => a[k] = Base * 2^(k - 1) /\ b[k] = (Base * 2^(k - 1)) \div 2
  BY <1>1
<1>6. Rec(f)
  <2> HIDE DEF a, b
  <2> QED
    BY <1>4, <1>5
<1>7. Waits = CHOOSE g : Rec(g)
  BY DEF Waits, N
<1>8. Rec(Waits)
  <2> HIDE DEF Rec
  <2> QED
    BY <1>6, <1>7
<1>9. \A k \in 0..N : Waits[k] = IF k = 0 THEN 0 ELSE Waits[k - 1] + Base * 2^(k - 1) + (Base * 2^(k - 1)) \div 2
  BY <1>8
<1>10. Waits \in [0..N -> Int]
  <2>1. Waits = f
    <3>1. Waits = [k \in 0..N |-> Waits[k]] /\ f = [k \in 0..N |-> f[k]]
      BY <1>8
    <3> DEFINE Bad == {k \in Nat : k =< N /\ ~(Waits[k] = f[k])}
    <3>2. Bad = {}
      <4> SUFFICES ASSUME Bad # {} PROVE FALSE
        OBVIOUS
      <4>1. PICK k \in Bad : \A m \in Bad : k =< m
        BY LeastNumber
      <4>2. k \in Nat /\ k \in 0..N /\ ~(Waits[k] = f[k])
        BY <1>1
      <4>3. Waits[k] = IF k = 0 THEN 0 ELSE Waits[k - 1] + Base * 2^(k - 1) + (Base * 2^(k - 1)) \div 2
        BY <1>9, <4>2
      <4>4. f[k] = IF k = 0 THEN 0 ELSE f[k - 1] + Base * 2^(k - 1) + (Base * 2^(k - 1)) \div 2
        BY <1>6, <4>2
      <4>5. k # 0
        BY <4>2, <4>3, <4>4
      <4>6. k - 1 \in Nat /\ k - 1 =< N /\ ~(k =< k - 1)
        BY <1>1, <4>2, <4>5
      <4>7. Waits[k - 1] = f[k - 1]
        BY <4>1, <4>6
      <4> QED
        BY <4>2, <4>3, <4>4, <4>5, <4>7
    <3>3. \A k \in 0..N : Waits[k] = f[k]
      BY <1>1, <3>2
    <3> QED
      BY <3>1, <3>3
  <2> QED
    BY <2>1
<1>11. \A k \in 1..N : k \in 0..N /\ k # 0
  BY <1>1
<1>12. 0 \in 0..N
  BY <1>1
<1>13. Waits[0] = 0
  BY <1>9, <1>12
<1>14. \A k \in 1..N : Waits[k] = Waits[k - 1] + Doubled(Base, k) + Doubled(Base, k) \div 2
  BY <1>9, <1>11 DEF Doubled
<1> QED
  BY <1>10, <1>13, <1>14 DEF N

\* Every wait before the last attempt is part of the last.
LEMMA WaitsGrow ==
  ASSUME ArgOK, PowersPositive
  PROVE  /\ \A k \in 0..(Attempts - 1) : /\ Waits[k] \in Nat
                                         /\ Waits[k] =< Waits[Attempts - 1]
         /\ \A k \in 1..(Attempts - 1) :
              Waits[k] = Waits[k - 1] + Doubled(Base, k) + Doubled(Base, k) \div 2
<1> DEFINE N == Attempts - 1
           f == [k \in 0..N |-> Waits[k]]
<1>1. N \in Nat /\ Attempts \in Nat /\ \A k \in 0..N : k \in 0..Attempts
  BY ArgType
<1>2. \A k \in 1..N : Doubled(Base, k) \in Nat /\ Doubled(Base, k) \div 2 \in Nat
  <2> SUFFICES ASSUME NEW k \in 1..N
               PROVE  Doubled(Base, k) \in Nat /\ Doubled(Base, k) \div 2 \in Nat
    OBVIOUS
  <2>1. k \in Nat \ {0}
    BY <1>1
  <2>2. Doubled(Base, k) \in Nat
    BY <2>1, DoubledType
  <2>3. \A d \in Nat : d \div 2 \in Nat
    OBVIOUS
  <2> QED
    BY <2>2, <2>3
<1>3. /\ \A k \in 0..N : Waits[k] \in Int
      /\ Waits[0] = 0
      /\ \A k \in 1..N : Waits[k] = Waits[k - 1] + Doubled(Base, k) + Doubled(Base, k) \div 2
  <2>1. \A k \in 1..N : k \in 1..Attempts
    BY <1>1
  <2> QED
    BY <1>1, <2>1, WaitsRecursion
<1> HIDE DEF N
<1>4. f \in [0..N -> Int] /\ f[0] = 0 /\ \A k \in 0..N : f[k] = Waits[k]
  BY <1>1, <1>3
<1>5. \A k \in 1..N : f[k - 1] =< f[k]
  <2> SUFFICES ASSUME NEW k \in 1..N PROVE f[k - 1] =< f[k]
    OBVIOUS
  <2>1. k \in 0..N /\ k - 1 \in 0..N
    BY <1>1
  <2>2. f[k] = Waits[k] /\ f[k - 1] = Waits[k - 1] /\ Waits[k - 1] \in Int
    BY <1>3, <1>4, <2>1
  <2>3. \A w \in Int, d, e \in Nat : w =< w + d + e
    OBVIOUS
  <2> QED
    BY <1>2, <1>3, <2>2, <2>3
<1> HIDE DEF f
<1>6. \A k \in 0..N : 0 =< f[k] /\ f[k] =< f[N]
  BY <1>1, <1>4, <1>5, GrowsToLast
<1>7. N \in 0..N
  BY <1>1
<1> QED
  BY <1>3, <1>4, <1>6, <1>7 DEF N

\* The time by which a wait for attempt k + 1 is over, if the dials before it
\* took as long as they may.
Budget(k) == k * DialTimeout + Waits[k]

\* A call has not used more than its budget.
SpentOK ==
  /\ pc = "start" => now = 0 /\ attempt = 0
  /\ pc = "dialing" => limit =< Budget(attempt) + DialTimeout
  /\ pc = "handshake" => deadline =< Budget(attempt) + DialTimeout
  /\ pc = "backoff" => now =< Budget(attempt) /\ timer =< Budget(attempt)

\* Every attempt adds its dial and its wait to the budget, and the last dial
\* ends within Longest.
LEMMA BudgetStep ==
  ASSUME ArgOK, PowersPositive
  PROVE  /\ Budget(0) = 0
         /\ \A k \in 0..(Attempts - 1) : Budget(k) \in Nat /\ Budget(k) + DialTimeout =< Longest
         /\ Longest \in Nat
         /\ \A k \in 1..(Attempts - 1) :
              Budget(k) = Budget(k - 1) + DialTimeout + Doubled(Base, k) + Doubled(Base, k) \div 2
<1>1. Attempts \in Nat /\ Attempts >= 1 /\ DialTimeout \in Nat
  BY ArgType, RetryAssumption
<1>2. \A k, d \in Nat : /\ k * d \in Nat
                        /\ 0 * d = 0
                        /\ (k + 1) * d = k * d + d
  OBVIOUS
<1>3. \A k, l, d \in Nat : k =< l => k * d =< l * d
  OBVIOUS
<1>4. Waits[0] = 0
  BY ArgType, WaitsRecursion
<1>5. Budget(0) = 0
  BY <1>1, <1>2, <1>4 DEF Budget
<1>6. ASSUME NEW k \in 0..(Attempts - 1)
      PROVE  Budget(k) \in Nat /\ Budget(k) + DialTimeout =< Longest
  <2> DEFINE w == Waits[k]
             last == Waits[Attempts - 1]
             p == k * DialTimeout
             q == Attempts * DialTimeout
  <2>1. Attempts - 1 \in 0..(Attempts - 1) /\ k \in Nat /\ k + 1 \in Nat /\ k + 1 =< Attempts
    BY <1>1
  <2>2. w \in Nat /\ last \in Nat /\ w =< last
    BY <2>1, WaitsGrow
  <2>3. p \in Nat /\ q \in Nat
    BY <1>1, <1>2, <2>1
  <2>4. p + DialTimeout =< q
    <3>1. (k + 1) * DialTimeout = p + DialTimeout
      BY <1>1, <1>2, <2>1
    <3>2. (k + 1) * DialTimeout =< q
      BY <1>1, <1>3, <2>1
    <3> QED
      BY <3>1, <3>2
  <2>5. Budget(k) = p + w /\ Longest = q + last
    BY LongestParts DEF Budget
  <2> HIDE DEF w, last, p, q
  <2> QED
    BY <1>1, <2>2, <2>3, <2>4, <2>5
<1>7. Longest \in Nat
  <2>1. 0 \in 0..(Attempts - 1) /\ Waits[Attempts - 1] \in Nat
    BY <1>1, WaitsGrow
  <2>2. Attempts * DialTimeout \in Nat
    BY <1>1, <1>2
  <2> QED
    BY <2>1, <2>2, LongestParts
<1>8. ASSUME NEW k \in 1..(Attempts - 1)
      PROVE  Budget(k) = Budget(k - 1) + DialTimeout + Doubled(Base, k) + Doubled(Base, k) \div 2
  <2> DEFINE w == Waits[k - 1]
             d == Doubled(Base, k)
             h == d \div 2
             p == (k - 1) * DialTimeout
  <2>1. k - 1 \in 0..(Attempts - 1) /\ k - 1 \in Nat /\ k = (k - 1) + 1
    BY <1>1
  <2>2. w \in Nat /\ Waits[k] = w + d + h
    BY <2>1, WaitsGrow
  <2>3. p \in Nat /\ k * DialTimeout = p + DialTimeout
    BY <1>1, <1>2, <2>1
  <2>4. d \in Int /\ h \in Int
    <3>1. k \in Nat \ {0}
      BY <1>1
    <3>2. d \in Int
      BY <3>1, DoubledType
    <3>3. \A x \in Int : x \div 2 \in Int
      OBVIOUS
    <3> QED
      BY <3>2, <3>3
  <2>5. Budget(k) = p + DialTimeout + (w + d + h) /\ Budget(k - 1) = p + w
    BY <2>2, <2>3 DEF Budget
  <2> HIDE DEF w, d, h, p
  <2>6. Budget(k) = Budget(k - 1) + DialTimeout + d + h
    BY <1>1, <2>2, <2>3, <2>4, <2>5
  <2> QED
    BY <2>6 DEF d, h
<1> QED
  BY <1>5, <1>6, <1>7, <1>8

\* The budget is the call's, whatever it does.
LEMMA BudgetKept == UNCHANGED arg => \A k : Budget(k)' = Budget(k)
  BY DEF Budget, Waits, Attempts, Base

\* No step uses more than the budget.
LEMMA SpentStep == PowersPositive /\ Inv /\ SpentOK /\ [Next]_vars => SpentOK'
<1> SUFFICES ASSUME PowersPositive, Inv, SpentOK, [Next]_vars PROVE SpentOK'
  OBVIOUS
<1>0. /\ TypeOK /\ ArgOK /\ now \in Nat /\ DialTimeout \in Nat
      /\ attempt \in 0..(Attempts - 1) /\ attempt \in Nat /\ Attempts \in Nat
      /\ Budget(attempt) \in Nat
  <2>1. TypeOK /\ ArgOK /\ now \in Nat /\ DialTimeout \in Nat /\ attempt \in 0..(Attempts - 1)
    BY RetryAssumption DEF Inv, TypeOK
  <2>2. Attempts \in Nat /\ attempt \in Nat
    BY <2>1, ArgType
  <2> QED
    BY <2>1, <2>2, BudgetStep
<1>1. ASSUME UNCHANGED <<arg, attempt>>
      PROVE  Budget(attempt)' = Budget(attempt)
  BY <1>1, BudgetKept DEF Budget, Waits, Attempts, Base
<1> USE DEF tunnel
<1>2. CASE UNCHANGED vars
  <2>1. UNCHANGED <<arg, attempt, pc, now, limit, deadline, timer>>
    BY <1>2 DEF vars
  <2> QED
    BY <1>1, <2>1 DEF SpentOK
<1>3. ASSUME BeginAttempt, now =< Budget(attempt)
      PROVE  SpentOK'
  <2>1. CASE arg.dest = "bad port"
    <3>1. pc' = "failed"
      BY <1>3, <2>1 DEF BeginAttempt
    <3> QED
      BY <3>1 DEF SpentOK
  <2>2. CASE arg.dest # "bad port"
    <3>1. pc' = "dialing" /\ limit' = now + DialTimeout /\ UNCHANGED <<arg, attempt>>
      BY <1>3, <2>2 DEF BeginAttempt
    <3>2. limit' =< Budget(attempt) + DialTimeout
      BY <1>0, <1>3, <3>1
    <3>3. Budget(attempt)' = Budget(attempt)
      BY <1>1, <3>1
    <3> QED
      BY <3>1, <3>2, <3>3 DEF SpentOK
  <2> QED
    BY <2>1, <2>2
<1>4. CASE FirstAttempt
  <2>1. now = 0 /\ 0 =< Budget(attempt)
    BY <1>0, <1>4 DEF FirstAttempt, SpentOK
  <2> QED
    BY <1>3, <1>4, <2>1 DEF FirstAttempt
<1>5. CASE BackoffOver
  <2>1. now =< Budget(attempt)
    BY <1>5 DEF BackoffOver, SpentOK
  <2> QED
    BY <1>3, <1>5, <2>1 DEF BackoffOver
<1>6. ASSUME NEW e \in Errors, AfterError(e), now =< Budget(attempt) + DialTimeout
      PROVE  SpentOK'
  <2> DEFINE k == attempt + 1
             d == Doubled(Base, k)
  <2>1. pc' \in {"failed", "backoff", "panicked"} /\ now' = now /\ arg' = arg /\ timer' \in Int
    BY <1>0, <1>6, AfterErrorStep
  <2> SUFFICES ASSUME pc' = "backoff" PROVE now' =< Budget(attempt)' /\ timer' =< Budget(attempt)'
    BY <2>1 DEF SpentOK
  <2>2. attempt' = k /\ k \in 1..(Attempts - 1)
    BY <1>0, <1>6, AfterErrorStep
  <2>3. timer' =< now + d + d \div 2
    BY <1>0, <1>6, WaitAtMost
  <2>4. Budget(k) = Budget(attempt) + DialTimeout + d + d \div 2
    <3>1. k - 1 = attempt
      BY <1>0
    <3> QED
      BY <1>0, <2>2, <3>1, BudgetStep
  <2>5. Budget(attempt)' = Budget(k)
    BY <2>1, <2>2, BudgetKept DEF Budget, Waits, Attempts, Base
  <2>6. d \in Nat /\ d \div 2 \in Nat
    <3>1. d \in Nat
      BY <1>0, <2>2, DoubledType
    <3> QED
      BY <3>1
  <2> HIDE DEF d, k
  <2>7. \A t \in Int, n, b, l, c, h \in Nat :
          t =< n + c + h /\ n =< b + l => t =< b + l + c + h /\ n =< b + l + c + h
    OBVIOUS
  <2>8. /\ timer' =< Budget(attempt) + DialTimeout + d + d \div 2
        /\ now =< Budget(attempt) + DialTimeout + d + d \div 2
    BY <1>0, <1>6, <2>1, <2>3, <2>6, <2>7
  <2> QED
    BY <2>1, <2>4, <2>5, <2>8
<1>7. pc = "dialing" => now =< Budget(attempt) + DialTimeout
  BY <1>0 DEF Inv, TunnelOK, TypeOK, SpentOK
<1>8. pc = "handshake" => now =< Budget(attempt) + DialTimeout
  BY <1>0 DEF Inv, TunnelOK, TypeOK, SpentOK
<1>9. CASE DialFails \/ ConfigFails \/ HandshakeFails
  <2>1. \E e \in Errors : AfterError(e)
    BY <1>9, DialFailsStep, ConfigFailsStep, HandshakeFailsStep
  <2>2. pc \in {"dialing", "handshake"}
    BY <1>9 DEF DialFails, ConfigFails, HandshakeFails
  <2> QED
    BY <1>6, <1>7, <1>8, <2>1, <2>2
<1>10. CASE Accept
  <2>1. pc = "dialing" /\ pc' = pc /\ UNCHANGED <<limit, arg, attempt>>
    BY <1>10 DEF Accept, Tunnel!Accept
  <2> QED
    BY <1>1, <2>1 DEF SpentOK
<1>11. CASE DialSucceeds
  <2>1. /\ pc = "dialing" /\ pc' = "handshake" /\ UNCHANGED <<arg, attempt, deadline>>
        /\ deadline = limit
    BY <1>11 DEF DialSucceeds, Tunnel!Succeed, Inv, TunnelOK
  <2> QED
    BY <1>1, <2>1 DEF SpentOK
<1>12. CASE HandshakeDone \/ BackoffCancelled
  <2>1. pc' \in {"connected", "failed"}
    BY <1>12 DEF HandshakeDone, BackoffCancelled
  <2> QED
    BY <2>1 DEF SpentOK
<1>13. CASE Cancel
  <2>1. UNCHANGED <<pc, now, arg, attempt, limit, deadline, timer>>
    BY <1>13 DEF Cancel
  <2> QED
    BY <1>1, <2>1 DEF SpentOK
<1>14. CASE Tick
  <2>1. /\ UNCHANGED <<pc, arg, attempt, limit, deadline, timer>> /\ now' = now + 1
        /\ pc # "start" /\ (pc = "backoff" => now < timer)
    BY <1>14 DEF Tick, Tunnel!Tick
  <2>2. pc = "backoff" => now' =< Budget(attempt)
    BY <1>0, <2>1 DEF TypeOK, SpentOK
  <2> QED
    BY <1>1, <2>1, <2>2 DEF SpentOK
<1> QED
  BY <1>2, <1>4, <1>5, <1>9, <1>10, <1>11, <1>12, <1>13, <1>14 DEF Next, Finished

\* Dial is over when each attempt has used up its limit and each retry its
\* delay with all of its jitter, overflow or not: a delay that overflows is
\* never longer than the one that was meant.
THEOREM DialBoundedHolds == PowersPositive => (Spec => []DialBounded)
<1> SUFFICES ASSUME PowersPositive PROVE Spec => []DialBounded
  OBVIOUS
<1>1. Init => SpentOK
  <2> SUFFICES ASSUME Init PROVE SpentOK
    OBVIOUS
  <2>1. pc = "start" /\ now = 0 /\ attempt = 0
    BY DEF Init, Tunnel!Init
  <2> QED
    BY <2>1 DEF SpentOK
<1>2. Inv /\ SpentOK /\ [Next]_vars => SpentOK'
  BY SpentStep
<1>3. Inv /\ SpentOK => DialBounded
  <2> SUFFICES ASSUME Inv, SpentOK, ~Returned PROVE now =< Longest
    BY DEF DialBounded
  <2>1. ArgOK /\ attempt \in 0..(Attempts - 1) /\ now \in Nat /\ DialTimeout \in Nat
    BY RetryAssumption DEF Inv, TypeOK
  <2>2. Budget(attempt) \in Nat /\ Budget(attempt) + DialTimeout =< Longest /\ Longest \in Nat
    BY <2>1, BudgetStep
  <2>3. CASE pc = "start"
    BY <2>2, <2>3 DEF SpentOK
  <2>4. CASE pc = "dialing"
    BY <2>1, <2>2, <2>4 DEF SpentOK, Inv, TunnelOK, TypeOK
  <2>5. CASE pc = "handshake"
    BY <2>1, <2>2, <2>5 DEF SpentOK, Inv, TunnelOK, TypeOK
  <2>6. CASE pc = "backoff"
    BY <2>1, <2>2, <2>6 DEF SpentOK
  <2> QED
    BY <2>3, <2>4, <2>5, <2>6 DEF Returned, Inv, TypeOK
<1> QED
  BY Invariant, <1>1, <1>2, <1>3, PTL DEF Spec
=============================================================================
