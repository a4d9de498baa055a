-------------------------- MODULE SFTPHandlerProofs --------------------------
(***************************************************************************)
(* Proofs about SFTPHandler, for any destination configurations, any texts *)
(* that pass for ports and keys, and any limit on a dial.                  *)
(***************************************************************************)
EXTENDS SFTPHandler, SequenceTheorems, TLAPS

\* What the handler opens, in the order in which it does.
Order == IF arg.handler = "sftp-count" THEN <<"conn", "ssh", "sftp">> ELSE <<"ssh", "sftp">>

\* The first n of them, deferred to be closed.
Opened(n) == SubSeq(Order, 1, n)

Depth == Len(deferred)

CallOK == arg.handler \in Handlers /\ arg.named \in BOOLEAN

\* The deferred calls are those of what has been opened, at every step.
StackOK ==
  /\ Depth \in 0..Len(Order) /\ deferred = Opened(Depth)
  /\ arg.handler = "sftp-count" =>
       /\ pc \in {"query", "find", "port", "dial"} => Depth = 0
       /\ pc \in {"config", "ssh"} => Depth = 1
       /\ pc = "sftp" => Depth = 2
       /\ pc = "readdir" => Depth = 3
  /\ arg.handler = "sftp-sshclient" =>
       /\ pc \in {"query", "find", "dial"} => Depth = 0
       /\ pc = "sftp" => Depth = 1
       /\ pc = "readdir" => Depth = 2
  /\ pc = "done" => Depth = 0

\* The tunnel is open for as long as an SSH client is to be closed, and closed
\* when nothing is, except while sshclient.Dial is at work.
ConnOK ==
  /\ Depth >= Len(Order) - 1 => conn = "open"
  /\ pc # "return" /\ Depth = 1 => conn = "open"
  /\ Depth = 0 /\ phase # "dialing" => conn = "closed"
  /\ phase = "dialing" => pc = "dial" /\ arg.handler = "sftp-sshclient"

PlaceOK ==
  /\ now \in 0..MaxTime /\ deadline \in Nat
  /\ phase \in {"idle", "dialing", "up", "failed"}
  /\ conn \in {"open", "closed"}
  /\ pc \in Range(Steps[arg.handler]) \cup {"return", "done"}

PortOK == PortNum(dest).ok
KeyOK  == buildSSHConfig(dest)

\* The handler has got where it is by way of the checks that come before.
CheckedOK ==
  /\ pc \notin {"query", "return", "done"} => arg.named
  /\ arg.handler = "sftp-count" => /\ pc \in {"dial", "config", "ssh", "sftp", "readdir"} => PortOK
                                   /\ pc \in {"ssh", "sftp", "readdir"} => KeyOK
  /\ arg.handler = "sftp-sshclient" => /\ pc \in {"sftp", "readdir"} => PortOK /\ KeyOK
                                       /\ pc = "dial" /\ conn = "open" => PortOK

\* The answer, once there is one, says what the checks said.
AnswerOK ==
  /\ pc \notin {"return", "done"} => answers = << >>
  /\ pc \in {"return", "done"} =>
       /\ Len(answers) = 1
       /\ answers[1].status = 200 => arg.named /\ PortOK /\ KeyOK
       /\ answers[1].step = "port" => ~PortOK
       /\ answers[1].step = "config" => ~KeyOK
       /\ answers[1].step \in {"sftp", "readdir"} => PortOK /\ KeyOK

Inv == CallOK /\ PlaceOK /\ StackOK /\ ConnOK /\ CheckedOK /\ AnswerOK
-----------------------------------------------------------------------------
\* What is deferred is a sequence of the things a handler opens.
LEMMA OrderType ==
  ASSUME CallOK
  PROVE  /\ Order \in Seq({"conn", "ssh", "sftp"})
         /\ arg.handler = "sftp-count" =>
              Len(Order) = 3 /\ Order[1] = "conn" /\ Order[2] = "ssh" /\ Order[3] = "sftp"
         /\ arg.handler = "sftp-sshclient" => Len(Order) = 2 /\ Order[1] = "ssh" /\ Order[2] = "sftp"
<1>1. CASE arg.handler = "sftp-count"
  <2>1. Order = <<"conn", "ssh", "sftp">>
    BY <1>1 DEF Order
  <2> QED
    BY <1>1, <2>1
<1>2. CASE arg.handler = "sftp-sshclient"
  <2>1. Order = <<"ssh", "sftp">>
    BY <1>2 DEF Order
  <2> QED
    BY <1>2, <2>1
<1> QED
  BY <1>1, <1>2 DEF CallOK, Handlers

\* The first n things opened are n, and those.
LEMMA OpenedType ==
  ASSUME CallOK, NEW n \in 0..Len(Order)
  PROVE  Len(Opened(n)) = n /\ \A i \in 1..n : Opened(n)[i] = Order[i]
<1> DEFINE s == Order
<1>1. s \in Seq({"conn", "ssh", "sftp"}) /\ Len(s) \in Nat
  BY OrderType, LenProperties
<1>2. \A i \in 1..n : s[i] \in {"conn", "ssh", "sftp"}
  <2>1. \A i \in 1..n : i \in 1..Len(s)
    BY <1>1
  <2> QED
    BY <1>1, <2>1, ElementOfSeq
<1> HIDE DEF s
<1>3. Len(SubSeq(s, 1, n)) = n /\ \A i \in 1..n : SubSeq(s, 1, n)[i] = s[i]
  <2>1. n \in Int /\ 1 \in Int
    BY <1>1 DEF s
  <2>2. /\ Len(SubSeq(s, 1, n)) = IF 1 =< n THEN n - 1 + 1 ELSE 0
        /\ \A i \in 1..(n - 1 + 1) : SubSeq(s, 1, n)[i] = s[1 + i - 1]
    BY <1>2, <2>1, SubSeqProperties
  <2>3. n - 1 + 1 = n /\ n >= 0
    BY <1>1 DEF s
  <2>4. \A i \in 1..n : 1 + i - 1 = i
    BY <2>1
  <2> QED
    BY <2>2, <2>3, <2>4
<1> QED
  BY <1>3 DEF s, Opened

\* Opening the next thing defers its Close.
LEMMA OpensNext ==
  ASSUME CallOK, NEW n \in 0..(Len(Order) - 1)
  PROVE  Opened(n) \o <<Order[n + 1]>> = Opened(n + 1)
<1>1. Order \in Seq({"conn", "ssh", "sftp"}) /\ Len(Order) \in Nat
  BY OrderType, LenProperties
<1>2. 1 \in 1..Len(Order) /\ n + 1 \in 1..Len(Order) /\ (n + 1) - 1 = n
  BY <1>1
<1>3. SubSeq(Order, 1, n + 1) = SubSeq(Order, 1, (n + 1) - 1) \o <<Order[n + 1]>>
  BY <1>1, <1>2, SubSeqRecursiveSecond
<1> QED
  BY <1>2, <1>3 DEF Opened

\* A step that opens nothing defers nothing.
LEMMA OpensNothing ==
  ASSUME CallOK, NEW n \in 0..Len(Order)
  PROVE  Opened(n) \o << >> = Opened(n)
<1>1. Order \in Seq({"conn", "ssh", "sftp"}) /\ Len(Order) \in Nat
  BY OrderType, LenProperties
<1>2. \A i \in 1..n : i \in 1..Len(Order)
  BY <1>1
<1>3. \A i \in 1..n : Order[i] \in {"conn", "ssh", "sftp"}
  BY <1>1, <1>2, ElementOfSeq
<1>4. Opened(n) \in Seq({"conn", "ssh", "sftp"})
  BY <1>1, <1>3, SubSeqProperties DEF Opened
<1> QED
  BY <1>4, ConcatEmptySeq

\* Running the last deferred call leaves the others.
LEMMA ClosesLast ==
  ASSUME CallOK, NEW n \in 1..Len(Order)
  PROVE  SubSeq(Opened(n), 1, n - 1) \o SubSeq(Opened(n), n + 1, n) = Opened(n - 1)
<1>1. Order \in Seq({"conn", "ssh", "sftp"}) /\ Len(Order) \in Nat /\ n \in Nat /\ n >= 1
  BY OrderType, LenProperties
<1>2. SubSeq(Opened(n), n + 1, n) = << >>
  <2>1. n + 1 \in Int /\ n \in Int /\ n < n + 1
    BY <1>1
  <2> QED
    BY <2>1, SubSeqEmpty
<1>3. SubSeq(Opened(n), 1, n - 1) = Opened(n - 1)
  <2>1. CASE n = 1
    <3>1. 1 \in Int /\ 0 \in Int /\ 0 < 1 /\ n - 1 = 0
      BY <2>1
    <3> QED
      BY <3>1, SubSeqEmpty DEF Opened
  <2>2. CASE n # 1
    <3>1. /\ 1 \in 1..Len(Order) /\ n \in 1..Len(Order)
          /\ 1 \in 1..(n - 1 + 1) /\ n - 1 \in 1..(n - 1 + 1)
          /\ 1 + 1 - 1 = 1 /\ 1 + (n - 1) - 1 = n - 1
      BY <1>1, <2>2
    <3>2. SubSeq(SubSeq(Order, 1, n), 1, n - 1) = SubSeq(Order, 1 + 1 - 1, 1 + (n - 1) - 1)
      BY <1>1, <3>1, SubSeqOfSubSeq
    <3> QED
      BY <3>1, <3>2 DEF Opened
  <2> QED
    BY <2>1, <2>2
<1>4. n - 1 \in 0..Len(Order)
  BY <1>1
<1> QED
  BY <1>2, <1>3, <1>4, OpensNothing
-----------------------------------------------------------------------------
\* The step that follows a step that passes.
LEMMA PassStep ==
  ASSUME CallOK, pc \in Range(Steps[arg.handler]), Pass
  PROVE  /\ UNCHANGED <<now, arg>> /\ deferred' = deferred \o Opens(pc)
         /\ pc = "readdir" => /\ pc' = "return"
                              /\ answers' = Append(answers, [status |-> 200, step |-> "none"])
         /\ pc # "readdir" => UNCHANGED answers
         /\ pc = "query" => pc' = "find"
         /\ pc = "find" => pc' = IF arg.handler = "sftp-count" THEN "port" ELSE "dial"
         /\ pc = "port" => pc' = "dial"
         /\ pc = "dial" => pc' = IF arg.handler = "sftp-count" THEN "config" ELSE "sftp"
         /\ pc = "config" => pc' = "ssh"
         /\ pc = "ssh" => pc' = "sftp"
         /\ pc = "sftp" => pc' = "readdir"
<1> DEFINE steps == Steps[arg.handler]
           i == CHOOSE j \in DOMAIN steps : steps[j] = pc
           done == [status |-> 200, step |-> "none"]
<1>1. UNCHANGED <<now, arg>> /\ deferred' = deferred \o Opens(pc)
  BY DEF Pass
<1>2. IF i < Len(steps) THEN pc' = steps[i + 1] /\ UNCHANGED answers
      ELSE pc' = "return" /\ answers' = Append(answers, done)
  BY DEF Pass
<1>3. i \in DOMAIN steps /\ steps[i] = pc
  <2>1. \E j \in DOMAIN steps : steps[j] = pc
    BY DEF Range
  <2> QED
    BY <2>1
<1> HIDE DEF i, done
<1>4. CASE arg.handler = "sftp-count"
  <2>1. steps = <<"query", "find", "port", "dial", "config", "ssh", "sftp", "readdir">>
    BY <1>4 DEF Steps, Handlers
  <2> HIDE DEF steps
  <2>2. i \in 1..8 /\ Len(steps) = 8
    BY <1>3, <2>1
  <2>3. /\ pc = "query" => i = 1
        /\ pc = "find" => i = 2
        /\ pc = "port" => i = 3
        /\ pc = "dial" => i = 4
        /\ pc = "config" => i = 5
        /\ pc = "ssh" => i = 6
        /\ pc = "sftp" => i = 7
        /\ pc = "readdir" <=> i = 8
    BY <1>3, <2>1, <2>2
  <2>4. /\ steps[2] = "find" /\ steps[3] = "port" /\ steps[4] = "dial" /\ steps[5] = "config"
        /\ steps[6] = "ssh" /\ steps[7] = "sftp" /\ steps[8] = "readdir"
    BY <2>1
  <2>5. pc = "readdir" => pc' = "return" /\ answers' = Append(answers, done)
    BY <1>2, <2>2, <2>3
  <2>6. pc # "readdir" => pc' = steps[i + 1] /\ UNCHANGED answers
    BY <1>2, <2>2, <2>3
  <2>7. /\ pc = "query" => pc' = "find"
        /\ pc = "find" => pc' = "port"
        /\ pc = "port" => pc' = "dial"
        /\ pc = "dial" => pc' = "config"
    BY <2>3, <2>4, <2>6
  <2>8. /\ pc = "config" => pc' = "ssh"
        /\ pc = "ssh" => pc' = "sftp"
        /\ pc = "sftp" => pc' = "readdir"
    BY <2>3, <2>4, <2>6
  <2> QED
    BY <1>1, <1>4, <2>5, <2>6, <2>7, <2>8 DEF done
<1>5. CASE arg.handler = "sftp-sshclient"
  <2>1. steps = <<"query", "find", "dial", "sftp", "readdir">>
    BY <1>5 DEF Steps, Handlers
  <2> HIDE DEF steps
  <2>2. i \in 1..5 /\ Len(steps) = 5
    BY <1>3, <2>1
  <2>3. /\ pc = "query" => i = 1
        /\ pc = "find" => i = 2
        /\ pc = "dial" => i = 3
        /\ pc = "sftp" => i = 4
        /\ pc = "readdir" <=> i = 5
        /\ pc \notin {"port", "config", "ssh"}
    BY <1>3, <2>1, <2>2
  <2>4. steps[2] = "find" /\ steps[3] = "dial" /\ steps[4] = "sftp" /\ steps[5] = "readdir"
    BY <2>1
  <2>5. pc = "readdir" => pc' = "return" /\ answers' = Append(answers, done)
    BY <1>2, <2>2, <2>3
  <2>6. pc # "readdir" => pc' = steps[i + 1] /\ UNCHANGED answers
    BY <1>2, <2>2, <2>3
  <2>7. /\ pc = "query" => pc' = "find"
        /\ pc = "find" => pc' = "dial"
        /\ pc = "dial" => pc' = "sftp"
        /\ pc = "sftp" => pc' = "readdir"
    BY <2>3, <2>4, <2>6
  <2> QED
    BY <1>1, <1>5, <2>3, <2>5, <2>6, <2>7 DEF done
<1> QED
  BY <1>4, <1>5 DEF CallOK, Handlers

\* The steps a handler may be at.
LEMMA PlacesOf ==
  ASSUME CallOK
  PROVE  Range(Steps[arg.handler]) =
           IF arg.handler = "sftp-count"
             THEN {"query", "find", "port", "dial", "config", "ssh", "sftp", "readdir"}
             ELSE {"query", "find", "dial", "sftp", "readdir"}
<1> DEFINE steps == Steps[arg.handler]
<1>1. CASE arg.handler = "sftp-count"
  <2>1. steps = <<"query", "find", "port", "dial", "config", "ssh", "sftp", "readdir">>
    BY <1>1 DEF Steps, Handlers
  <2>2. Range(steps) = {"query", "find", "port", "dial", "config", "ssh", "sftp", "readdir"}
    BY <2>1 DEF Range
  <2> QED
    BY <1>1, <2>2
<1>2. CASE arg.handler = "sftp-sshclient"
  <2>1. steps = <<"query", "find", "dial", "sftp", "readdir">>
    BY <1>2 DEF Steps, Handlers
  <2>2. Range(steps) = {"query", "find", "dial", "sftp", "readdir"}
    BY <2>1 DEF Range
  <2> QED
    BY <1>2, <2>2
<1> QED
  BY <1>1, <1>2 DEF CallOK, Handlers
-----------------------------------------------------------------------------
\* What is derived from the call alone does not change.
LEMMA CallKept ==
  ASSUME UNCHANGED arg
  PROVE  /\ CallOK' = CallOK /\ Order' = Order /\ PortOK' = PortOK /\ KeyOK' = KeyOK
         /\ \A n : Opened(n)' = Opened(n)
  BY DEF CallOK, Order, PortOK, KeyOK, Opened, dest, PortNum, buildSSHConfig, ResolvedPassword, Resolved

\* How many calls are deferred after a step that passes.
LEMMA PassDepth ==
  ASSUME CallOK, StackOK, pc \in Range(Steps[arg.handler]), Pass
  PROVE  /\ Depth' \in 0..Len(Order) /\ deferred' = Opened(Depth')
         /\ pc \in {"dial", "ssh", "sftp"} => Depth' = Depth + 1
         /\ pc \notin {"dial", "ssh", "sftp"} => Depth' = Depth
<1> DEFINE n == Depth
<1>1. deferred' = Opened(n) \o Opens(pc)
  BY PassStep DEF StackOK
<1>2. n \in 0..Len(Order) /\ Len(Order) \in {2, 3}
  BY OrderType DEF StackOK, CallOK, Handlers
<1>3. CASE pc \in {"dial", "ssh", "sftp"}
  <2>1. n \in 0..(Len(Order) - 1) /\ Opens(pc) = <<Order[n + 1]>>
    <3>1. CASE arg.handler = "sftp-count"
      <4>1. Len(Order) = 3 /\ Order[1] = "conn" /\ Order[2] = "ssh" /\ Order[3] = "sftp"
        BY <3>1, OrderType
      <4>2. CASE pc = "dial"
        <5>1. n = 0 /\ n + 1 = 1 /\ Opens(pc) = <<"conn">>
          BY <3>1, <4>2 DEF StackOK, Opens
        <5> QED
          BY <4>1, <5>1
      <4>3. CASE pc = "ssh"
        <5>1. n = 1 /\ n + 1 = 2 /\ Opens(pc) = <<"ssh">>
          BY <3>1, <4>3 DEF StackOK, Opens
        <5> QED
          BY <4>1, <5>1
      <4>4. CASE pc = "sftp"
        <5>1. n = 2 /\ n + 1 = 3 /\ Opens(pc) = <<"sftp">>
          BY <3>1, <4>4 DEF StackOK, Opens
        <5> QED
          BY <4>1, <5>1
      <4> QED
        BY <1>3, <4>2, <4>3, <4>4
    <3>2. CASE arg.handler = "sftp-sshclient"
      <4>1. Len(Order) = 2 /\ Order[1] = "ssh" /\ Order[2] = "sftp"
        BY <3>2, OrderType
      <4>2. CASE pc = "dial"
        <5>1. n = 0 /\ n + 1 = 1 /\ Opens(pc) = <<"ssh">>
          BY <3>2, <4>2 DEF StackOK, Opens
        <5> QED
          BY <4>1, <5>1
      <4>3. CASE pc = "sftp"
        <5>1. n = 1 /\ n + 1 = 2 /\ Opens(pc) = <<"sftp">>
          BY <3>2, <4>3 DEF StackOK, Opens
        <5> QED
          BY <4>1, <5>1
      <4>4. pc # "ssh"
        BY <3>2, PlacesOf
      <4> QED
        BY <1>3, <4>2, <4>3, <4>4
    <3> QED
      BY <3>1, <3>2 DEF CallOK, Handlers
  <2>2. deferred' = Opened(n + 1)
    BY <1>1, <2>1, OpensNext
  <2>3. n + 1 \in 0..Len(Order)
    BY <1>2, <2>1
  <2>4. Depth' = n + 1
    BY <2>2, <2>3, OpenedType DEF Depth
  <2> QED
    BY <1>3, <2>2, <2>3, <2>4
<1>4. CASE pc \notin {"dial", "ssh", "sftp"}
  <2>1. Opens(pc) = << >>
    BY <1>4 DEF Opens
  <2>2. deferred' = Opened(n)
    BY <1>1, <1>2, <2>1, OpensNothing
  <2>3. Depth' = n
    BY <1>2, <2>2, OpenedType DEF Depth
  <2> QED
    BY <1>2, <1>4, <2>2, <2>3
<1> QED
  BY <1>3, <1>4

\* A step that passes what it checks, and opens what it opens.
LEMMA PassInv ==
  ASSUME Inv, pc \in Range(Steps[arg.handler]), Pass,
         pc = "query" => arg.named,
         pc = "port" => PortOK,
         pc = "config" => KeyOK,
         pc = "dial" => /\ conn' = "open" /\ phase' \in {"idle", "up", "failed"}
                        /\ arg.handler = "sftp-sshclient" => PortOK /\ KeyOK,
         pc # "dial" => UNCHANGED <<phase, conn>>,
         deadline' \in Nat
  PROVE  Inv'
<1> DEFINE count == arg.handler = "sftp-count"
           client == arg.handler = "sftp-sshclient"
<1>0. CallOK /\ PlaceOK /\ StackOK /\ ConnOK /\ CheckedOK /\ AnswerOK
  BY DEF Inv
<1>1. /\ UNCHANGED <<now, arg>>
      /\ Order' = Order /\ CallOK' /\ PortOK' = PortOK /\ KeyOK' = KeyOK
  BY <1>0, PassStep, CallKept
<1>2. /\ Depth' \in 0..Len(Order) /\ deferred' = Opened(Depth')
      /\ pc \in {"dial", "ssh", "sftp"} => Depth' = Depth + 1
      /\ pc \notin {"dial", "ssh", "sftp"} => Depth' = Depth
  BY <1>0, PassDepth
<1>3. /\ pc = "query" => pc' = "find"
      /\ pc = "find" => pc' = IF count THEN "port" ELSE "dial"
      /\ pc = "port" => pc' = "dial"
      /\ pc = "dial" => pc' = IF count THEN "config" ELSE "sftp"
      /\ pc = "config" => pc' = "ssh"
      /\ pc = "ssh" => pc' = "sftp"
      /\ pc = "sftp" => pc' = "readdir"
      /\ pc = "readdir" => pc' = "return"
  BY <1>0, PassStep
<1>4. /\ (count \/ client) /\ ~(count /\ client)
      /\ pc \in IF count THEN {"query", "find", "port", "dial", "config", "ssh", "sftp", "readdir"}
                ELSE {"query", "find", "dial", "sftp", "readdir"}
      /\ Len(Order) = IF count THEN 3 ELSE 2
  BY <1>0, PlacesOf, OrderType DEF CallOK, Handlers
<1>5. pc' \in Range(Steps[arg.handler]) \cup {"return", "done"}
  BY <1>0, <1>3, <1>4, PlacesOf
<1>6. PlaceOK'
  <2>1. now' \in 0..MaxTime /\ phase' \in {"idle", "dialing", "up", "failed"}
        /\ conn' \in {"open", "closed"}
    BY <1>0, <1>1 DEF PlaceOK
  <2> QED
    BY <1>1, <1>5, <2>1 DEF PlaceOK
<1>7. Depth \in Nat
  BY <1>0, <1>4 DEF StackOK
<1>8. StackOK'
  <2>1. count => /\ pc' \in {"query", "find", "port", "dial"} => Depth' = 0
                 /\ pc' \in {"config", "ssh"} => Depth' = 1
                 /\ pc' = "sftp" => Depth' = 2
                 /\ pc' = "readdir" => Depth' = 3
    BY <1>0, <1>2, <1>3, <1>4, <1>7 DEF StackOK
  <2>2. client => /\ pc' \in {"query", "find", "dial"} => Depth' = 0
                  /\ pc' = "sftp" => Depth' = 1
                  /\ pc' = "readdir" => Depth' = 2
    BY <1>0, <1>2, <1>3, <1>4, <1>7 DEF StackOK
  <2>3. pc' # "done"
    BY <1>3, <1>4
  <2> QED
    BY <1>1, <1>2, <2>1, <2>2, <2>3 DEF StackOK, Opened
<1>9. ConnOK'
  <2>1. CASE pc \in {"query", "find", "port"}
    <3>1. Depth' = 0 /\ Len(Order) >= 2 /\ phase' = phase /\ conn' = conn /\ Depth = 0
      BY <1>0, <1>2, <1>4, <2>1 DEF StackOK
    <3>2. phase # "dialing" /\ conn = "closed"
      BY <1>0, <2>1, <3>1 DEF ConnOK
    <3> QED
      BY <1>1, <3>1, <3>2 DEF ConnOK
  <2>2. CASE pc = "dial"
    <3>1. Depth' = 1
      BY <1>0, <1>2, <1>4, <2>2 DEF StackOK
    <3> QED
      BY <2>2, <3>1 DEF ConnOK
  <2>3. CASE pc \in {"config", "ssh", "sftp", "readdir"}
    <3>1. phase' = phase /\ conn' = conn /\ Depth \in {1, 2, 3} /\ Depth' >= 1
      BY <1>0, <1>2, <1>4, <2>3 DEF StackOK
    <3>2. conn = "open"
      <4>1. Depth = 1 \/ Depth >= Len(Order) - 1
        BY <1>4, <3>1
      <4> QED
        BY <1>0, <2>3, <4>1 DEF ConnOK
    <3>3. phase # "dialing"
      BY <1>0, <2>3 DEF ConnOK
    <3> QED
      BY <3>1, <3>2, <3>3 DEF ConnOK
  <2> QED
    BY <1>4, <2>1, <2>2, <2>3
<1>10. CheckedOK'
  <2>1. /\ pc' \notin {"query", "return", "done"} => arg.named
        /\ count => /\ pc' \in {"dial", "config", "ssh", "sftp", "readdir"} => PortOK
                    /\ pc' \in {"ssh", "sftp", "readdir"} => KeyOK
        /\ client /\ pc' \in {"sftp", "readdir"} => PortOK /\ KeyOK
    BY <1>0, <1>3, <1>4 DEF CheckedOK
  <2>2. client /\ pc' = "dial" => conn' # "open"
    <3> SUFFICES ASSUME client, pc' = "dial" PROVE conn' # "open"
      OBVIOUS
    <3>1. pc = "find" /\ conn' = conn
      BY <1>3, <1>4
    <3>2. Depth = 0 /\ phase # "dialing"
      BY <1>0, <3>1 DEF StackOK, ConnOK
    <3> QED
      BY <1>0, <3>1, <3>2 DEF ConnOK
  <2> QED
    BY <1>1, <2>1, <2>2 DEF CheckedOK
<1>11. AnswerOK'
  <2>1. CASE pc = "readdir"
    <3> DEFINE done == [status |-> 200, step |-> "none"]
    <3>1. answers = << >> /\ answers' = Append(answers, done) /\ pc' = "return"
      BY <1>0, <2>1, PassStep DEF AnswerOK
    <3>2. Len(answers') = 1 /\ answers'[1] = done
      <4> HIDE DEF done
      <4> QED
        BY <3>1
    <3>3. arg.named /\ PortOK /\ KeyOK
      BY <1>0, <1>4, <2>1 DEF CheckedOK
    <3> QED
      BY <1>1, <3>1, <3>2, <3>3 DEF AnswerOK
  <2>2. CASE pc # "readdir"
    <3>1. answers = << >> /\ answers' = answers /\ pc' \notin {"return", "done"}
      BY <1>0, <1>3, <1>4, <2>2, PassStep DEF AnswerOK
    <3> QED
      BY <3>1 DEF AnswerOK
  <2> QED
    BY <2>1, <2>2
<1> QED
  BY <1>1, <1>6, <1>8, <1>9, <1>10, <1>11 DEF Inv

\* A step that fails is answered, with what was opened still to be closed.
LEMMA RefuseInv ==
  ASSUME Inv, pc \in Range(Steps[arg.handler]), Refuse,
         pc = "port" => ~PortOK,
         pc = "config" => ~KeyOK,
         \/ UNCHANGED <<phase, conn>> /\ phase # "dialing"
         \/ pc = "dial" /\ arg.handler = "sftp-sshclient" /\ phase' = "failed" /\ conn' = "closed",
         UNCHANGED deadline
  PROVE  Inv'
<1>0. CallOK /\ PlaceOK /\ StackOK /\ ConnOK /\ CheckedOK /\ AnswerOK
  BY DEF Inv
<1>1. /\ UNCHANGED <<now, arg, deferred>> /\ pc' = "return"
      /\ Order' = Order /\ CallOK' /\ PortOK' = PortOK /\ KeyOK' = KeyOK
      /\ Depth' = Depth /\ Opened(Depth)' = Opened(Depth)
  BY <1>0, CallKept DEF Refuse, Opened, Depth
<1>2. pc \in {"query", "find", "port", "dial", "config", "ssh", "sftp", "readdir"}
      /\ Depth \in Nat /\ Len(Order) \in {2, 3}
  BY <1>0, PlacesOf, OrderType DEF StackOK, CallOK, Handlers
<1>3. PlaceOK'
  BY <1>0, <1>1 DEF PlaceOK
<1>4. StackOK'
  BY <1>0, <1>1 DEF StackOK
<1>5. ConnOK'
  <2>1. CASE UNCHANGED <<phase, conn>> /\ phase # "dialing"
    BY <1>0, <1>1, <2>1 DEF ConnOK
  <2>2. CASE pc = "dial" /\ arg.handler = "sftp-sshclient" /\ phase' = "failed" /\ conn' = "closed"
    <3>1. Depth = 0
      BY <1>0, <2>2 DEF StackOK
    <3>2. Depth' = 0 /\ Len(Order') \in {2, 3} /\ ~(0 >= Len(Order') - 1)
      BY <1>1, <1>2, <3>1
    <3> QED
      BY <1>1, <2>2, <3>2 DEF ConnOK
  <2> QED
    BY <2>1, <2>2
<1>6. CheckedOK'
  BY <1>1 DEF CheckedOK
<1>7. AnswerOK'
  <2> DEFINE error == [status |-> IF pc = "query" THEN 400 ELSE 500, step |-> pc]
  <2>1. answers = << >> /\ answers' = Append(answers, error)
    BY <1>0, <1>2 DEF AnswerOK, Refuse
  <2>2. Len(answers') = 1 /\ answers'[1] = error
    <3> HIDE DEF error
    <3> QED
      BY <2>1
  <2>3. answers'[1].step = pc /\ answers'[1].status # 200
    BY <2>2
  <2>4. pc \in {"sftp", "readdir"} => PortOK /\ KeyOK
    BY <1>0 DEF CheckedOK, CallOK, Handlers
  <2> QED
    BY <1>1, <2>2, <2>3, <2>4 DEF AnswerOK
<1> QED
  BY <1>1, <1>3, <1>4, <1>5, <1>6, <1>7 DEF Inv
-----------------------------------------------------------------------------
\* A request is accepted with nothing open.
LEMMA InvInit == Init => Inv
<1> SUFFICES ASSUME Init PROVE Inv
  OBVIOUS
<1>1. /\ now = 0 /\ phase = "idle" /\ conn = "closed" /\ deadline = 0 /\ pc = "query"
      /\ deferred = << >> /\ answers = << >>
  BY DEF Init, Session!Init
<1>2. CallOK
  BY DEF Init, CallOK
<1>3. Len(Order) \in {2, 3} /\ Depth = 0
  BY <1>1, <1>2, OrderType DEF CallOK, Handlers, Depth
<1>4. PlaceOK
  <2>1. 0 \in 0..MaxTime /\ 0 \in Nat
    BY TimeAssumption
  <2>2. "query" \in Range(Steps[arg.handler])
    BY <1>2, PlacesOf
  <2> QED
    BY <1>1, <2>1, <2>2 DEF PlaceOK
<1>5. StackOK
  <2>1. Opened(0) = << >>
    <3>1. 1 \in Int /\ 0 \in Int /\ 0 < 1
      OBVIOUS
    <3> QED
      BY <3>1, SubSeqEmpty DEF Opened
  <2> QED
    BY <1>1, <1>3, <2>1 DEF StackOK
<1>6. ConnOK
  BY <1>1, <1>3 DEF ConnOK
<1>7. CheckedOK /\ AnswerOK
  BY <1>1 DEF CheckedOK, AnswerOK
<1> QED
  BY <1>2, <1>4, <1>5, <1>6, <1>7 DEF Inv

\* The steps of sshclient.Dial before it returns.
LEMMA DialInv ==
  ASSUME Inv, InDial, UNCHANGED <<arg, pc, deferred, answers, now>>,
         phase' \in {"idle", "dialing", "up", "failed"}, conn' \in {"open", "closed"},
         phase' # "dialing" => conn' = "closed",
         conn' = "open" => PortOK,
         deadline' \in Nat
  PROVE  Inv'
<1>0. CallOK /\ PlaceOK /\ StackOK /\ ConnOK /\ CheckedOK /\ AnswerOK
  BY DEF Inv
<1>1. /\ Order' = Order /\ CallOK' /\ PortOK' = PortOK /\ KeyOK' = KeyOK /\ Depth' = Depth
      /\ Opened(Depth)' = Opened(Depth)
  BY <1>0, CallKept DEF Opened, Depth
<1>2. Depth = 0 /\ Len(Order) = 2 /\ pc = "dial" /\ arg.handler = "sftp-sshclient"
  BY <1>0, OrderType DEF InDial, StackOK
<1>3. PlaceOK'
  BY <1>0 DEF PlaceOK
<1>4. StackOK'
  BY <1>0, <1>1 DEF StackOK
<1>5. ConnOK'
  <2>1. Depth' = 0 /\ Len(Order') = 2 /\ ~(0 >= Len(Order') - 1)
    BY <1>1, <1>2
  <2> QED
    BY <1>2, <2>1 DEF ConnOK
<1>6. CheckedOK'
  BY <1>0, <1>1, <1>2 DEF CheckedOK
<1>7. AnswerOK'
  BY <1>0, <1>1 DEF AnswerOK
<1> QED
  BY <1>1, <1>3, <1>4, <1>5, <1>6, <1>7 DEF Inv

\* A deferred Close closes what was opened last, and with an SSH client the
\* tunnel under it.
LEMMA CloseInv == ASSUME Inv, Close PROVE Inv'
<1> DEFINE n == Depth
<1>0. CallOK /\ PlaceOK /\ StackOK /\ ConnOK /\ CheckedOK /\ AnswerOK
  BY DEF Inv
<1>1. /\ pc = "return" /\ UNCHANGED <<now, phase, deadline, arg, pc, answers>>
      /\ deferred # << >>
      /\ deferred' = SubSeq(deferred, 1, n - 1) \o SubSeq(deferred, n + 1, n)
      /\ conn' = IF ClosesConn(deferred[n]) THEN "closed" ELSE conn
  BY DEF Close, NextDeferred, Depth
<1>2. Order' = Order /\ CallOK' /\ PortOK' = PortOK /\ KeyOK' = KeyOK
  BY <1>0, <1>1, CallKept
<1>3. n \in 0..Len(Order) /\ deferred = Opened(n) /\ Len(Order) \in {2, 3}
  BY <1>0, OrderType DEF StackOK, CallOK, Handlers
<1>4. n # 0
  <2>1. CASE n = 0
    <3>1. 1 \in Int /\ 0 \in Int /\ 0 < 1
      OBVIOUS
    <3>2. Opened(0) = << >>
      BY <3>1, SubSeqEmpty DEF Opened
    <3> QED
      BY <1>1, <1>3, <2>1, <3>2
  <2> QED
    BY <2>1
<1>5. n \in 1..Len(Order) /\ n - 1 \in 0..Len(Order) /\ n \in Nat
  BY <1>3, <1>4
<1>6. deferred' = Opened(n - 1)
  BY <1>0, <1>1, <1>3, <1>5, ClosesLast
<1>7. Depth' = n - 1
  BY <1>0, <1>5, <1>6, OpenedType DEF Depth
<1>8. deferred[n] = Order[n]
  <2>1. n \in 1..n
    BY <1>5
  <2> QED
    BY <1>0, <1>3, <2>1, OpenedType
<1>9. PlaceOK'
  BY <1>0, <1>1 DEF PlaceOK
<1>10. StackOK'
  BY <1>1, <1>2, <1>5, <1>6, <1>7 DEF StackOK, Opened
<1>11. ConnOK'
  <2>1. phase # "dialing" /\ phase' = phase /\ pc' = "return"
    BY <1>0, <1>1 DEF ConnOK
  <2>2. Depth' >= Len(Order) - 1 => conn' = "open"
    <3> SUFFICES ASSUME n - 1 >= Len(Order) - 1 PROVE conn' = "open"
      BY <1>7
    <3>1. n = Len(Order)
      BY <1>3, <1>5
    <3>2. Order[n] = "sftp"
      BY <1>0, <3>1, OrderType DEF CallOK, Handlers
    <3>3. conn = "open"
      <4>1. n >= Len(Order) - 1
        BY <1>3, <3>1
      <4> QED
        BY <1>0, <4>1 DEF ConnOK
    <3> QED
      BY <1>1, <1>8, <3>2, <3>3 DEF ClosesConn
  <2>3. Depth' = 0 => conn' = "closed"
    <3> SUFFICES ASSUME n - 1 = 0 PROVE conn' = "closed"
      BY <1>7
    <3>1. n = 1
      BY <1>5
    <3>2. Order[n] \in {"conn", "ssh"}
      BY <1>0, <3>1, OrderType DEF CallOK, Handlers
    <3> QED
      BY <1>1, <1>8, <3>2 DEF ClosesConn
  <2> QED
    BY <1>2, <2>1, <2>2, <2>3 DEF ConnOK
<1>12. CheckedOK'
  BY <1>0, <1>1, <1>2 DEF CheckedOK
<1>13. AnswerOK'
  BY <1>0, <1>1, <1>2 DEF AnswerOK
<1> QED
  BY <1>2, <1>9, <1>10, <1>11, <1>12, <1>13 DEF Inv

\* The handler returns, or time passes.
LEMMA RestInv ==
  ASSUME Inv, UNCHANGED <<session, arg, deferred, answers>>, now' \in 0..MaxTime,
         \/ pc' = pc
         \/ pc = "return" /\ deferred = << >> /\ pc' = "done"
  PROVE  Inv'
<1>0. CallOK /\ PlaceOK /\ StackOK /\ ConnOK /\ CheckedOK /\ AnswerOK
  BY DEF Inv
<1>1. /\ Order' = Order /\ CallOK' /\ PortOK' = PortOK /\ KeyOK' = KeyOK /\ Depth' = Depth
      /\ Opened(Depth)' = Opened(Depth) /\ UNCHANGED <<phase, conn, deadline>>
  BY <1>0, CallKept DEF Opened, Depth, session
<1>2. CASE pc' = pc
  <2>1. PlaceOK'
    BY <1>0, <1>1, <1>2 DEF PlaceOK
  <2>2. StackOK'
    BY <1>0, <1>1, <1>2 DEF StackOK
  <2>3. ConnOK' /\ CheckedOK' /\ AnswerOK'
    BY <1>0, <1>1, <1>2 DEF ConnOK, CheckedOK, AnswerOK
  <2> QED
    BY <1>1, <2>1, <2>2, <2>3 DEF Inv
<1>3. CASE pc = "return" /\ deferred = << >> /\ pc' = "done"
  <2>1. Depth = 0
    BY <1>3 DEF Depth
  <2>2. PlaceOK'
    BY <1>0, <1>1, <1>3 DEF PlaceOK
  <2>3. StackOK'
    BY <1>0, <1>1, <1>3, <2>1 DEF StackOK
  <2>4. ConnOK'
    <3>1. Depth' = 0 /\ Len(Order') \in {2, 3} /\ ~(0 >= Len(Order') - 1)
      BY <1>0, <1>1, <2>1, OrderType DEF CallOK, Handlers
    <3>2. phase' # "dialing" /\ conn' = "closed"
      BY <1>0, <1>1, <1>3, <2>1 DEF ConnOK
    <3> QED
      BY <3>1, <3>2 DEF ConnOK
  <2>5. CheckedOK' /\ AnswerOK'
    BY <1>0, <1>1, <1>3 DEF CheckedOK, AnswerOK
  <2> QED
    BY <1>1, <2>2, <2>3, <2>4, <2>5 DEF Inv
<1> QED
  BY <1>2, <1>3

\* Every step keeps the tunnel, the deferred calls and the answer in step.
LEMMA InvStep == Inv /\ [Next]_vars => Inv'
<1> SUFFICES ASSUME Inv, [Next]_vars PROVE Inv'
  OBVIOUS
<1>0. /\ CallOK /\ PlaceOK /\ StackOK /\ ConnOK /\ CheckedOK
      /\ now \in 0..MaxTime /\ now \in Nat /\ deadline \in Nat /\ DialTimeout \in Nat
      /\ phase \in {"idle", "dialing", "up", "failed"} /\ conn \in {"open", "closed"}
  BY TimeAssumption DEF Inv, PlaceOK
<1>1. pc \notin {"return", "done"} => pc \in Range(Steps[arg.handler])
  BY <1>0 DEF PlaceOK
<1>2. phase # "dialing" \/ InDial
  BY <1>0 DEF ConnOK, InDial
<1>3. CASE UNCHANGED vars
  <2>1. UNCHANGED <<session, arg, deferred, answers, now, pc>>
    BY <1>3 DEF vars
  <2> QED
    BY <1>0, <2>1, RestInv
<1>4. CASE Decide
  <2>1. pc \in {"query", "port", "config"} /\ UNCHANGED <<phase, conn, deadline>>
    BY <1>4 DEF Decide, session
  <2>2. CASE Holds /\ Pass
    <3>1. (pc = "query" => arg.named) /\ (pc = "port" => PortOK) /\ (pc = "config" => KeyOK)
      BY <2>1, <2>2 DEF Holds, PortOK, KeyOK
    <3> QED
      BY <1>0, <1>1, <2>1, <2>2, <3>1, PassInv
  <2>3. CASE ~Holds /\ Refuse
    <3>1. (pc = "port" => ~PortOK) /\ (pc = "config" => ~KeyOK)
      BY <2>1, <2>3 DEF Holds, PortOK, KeyOK
    <3>2. phase # "dialing"
      BY <1>2, <2>1 DEF InDial
    <3> QED
      BY <1>1, <2>1, <2>3, <3>1, <3>2, RefuseInv
  <2> QED
    BY <1>4, <2>2, <2>3 DEF Decide
<1>5. CASE Found \/ Answered
  <2>1. pc \in {"find", "ssh", "sftp", "readdir"} /\ Pass /\ UNCHANGED <<phase, conn, deadline>>
    BY <1>5 DEF Found, Answered, OverTunnel, session
  <2> QED
    BY <1>0, <1>1, <2>1, PassInv
<1>6. CASE NotFound \/ TunnelFails \/ Broken
  <2>1. /\ pc \in {"find", "dial", "ssh", "sftp", "readdir"} /\ ~InDial
        /\ Refuse /\ UNCHANGED <<phase, conn, deadline>>
    BY <1>6 DEF NotFound, TunnelFails, Broken, OverTunnel, session, InDial
  <2> QED
    BY <1>1, <1>2, <2>1, RefuseInv
<1>7. CASE TunnelOpens
  <2>1. /\ pc = "dial" /\ arg.handler = "sftp-count" /\ conn' = "open" /\ Pass
        /\ deadline' \in now..(now + DialTimeout) /\ phase' = phase
    BY <1>7 DEF TunnelOpens, DialDeadline
  <2>2. phase # "dialing" /\ deadline' \in Nat
    BY <1>0, <1>2, <2>1 DEF InDial
  <2> QED
    BY <1>0, <1>1, <2>1, <2>2, PassInv
<1>8. CASE SessionBegins
  <2>1. /\ InDial /\ phase = "idle" /\ phase' = "dialing"
        /\ UNCHANGED <<now, conn, deadline, arg, pc, deferred, answers>>
    BY <1>8 DEF SessionBegins, Session!Begin
  <2>2. conn = "open" => PortOK
    BY <1>0, <2>1 DEF CheckedOK, InDial
  <2> QED
    BY <1>0, <2>1, <2>2, DialInv
<1>9. CASE SessionOpens
  <2>1. /\ InDial /\ phase = "dialing" /\ conn' = "open" /\ PortOK
        /\ deadline' \in now..(now + DialTimeout)
        /\ UNCHANGED <<now, phase, arg, pc, deferred, answers>>
    BY <1>9 DEF SessionOpens, Session!Open, PortOK
  <2>2. deadline' \in Nat
    BY <1>0, <2>1
  <2> QED
    BY <1>0, <2>1, <2>2, DialInv
<1>10. CASE SessionDrops
  <2>1. /\ InDial /\ conn' = "closed"
        /\ UNCHANGED <<now, phase, deadline, arg, pc, deferred, answers>>
    BY <1>10 DEF SessionDrops, Session!Drop
  <2> QED
    BY <1>0, <2>1, DialInv
<1>11. CASE SessionUp
  <2>1. /\ InDial /\ KeyOK /\ conn = "open" /\ phase' = "up" /\ conn' = conn /\ Pass
        /\ UNCHANGED deadline
    BY <1>11 DEF SessionUp, Session!Succeed, KeyOK
  <2>2. PortOK /\ pc = "dial"
    BY <1>0, <2>1 DEF CheckedOK, InDial
  <2> QED
    BY <1>0, <1>1, <2>1, <2>2, PassInv
<1>12. CASE SessionFails
  <2>1. /\ pc = "dial" /\ arg.handler = "sftp-sshclient" /\ phase' = "failed" /\ conn' = "closed"
        /\ UNCHANGED deadline /\ Refuse
    BY <1>12 DEF SessionFails, Session!Fail, InDial
  <2> QED
    BY <1>1, <2>1, RefuseInv
<1>13. CASE Close
  BY <1>13, CloseInv
<1>14. CASE Return
  BY <1>0, <1>14, RestInv DEF Return
<1>15. CASE Tick
  <2>1. /\ now < MaxTime /\ now' = now + 1 /\ UNCHANGED <<session, arg, pc, deferred, answers>>
    BY <1>15 DEF Tick, Session!Tick, session
  <2>2. now' \in 0..MaxTime
    BY <1>0, <2>1, TimeAssumption
  <2> QED
    BY <2>1, <2>2, RestInv
<1> QED
  BY <1>3, <1>4, <1>5, <1>6, <1>7, <1>8, <1>9, <1>10, <1>11, <1>12, <1>13, <1>14, <1>15
     DEF Next, Finished

\* Every reachable state is as Inv says.
THEOREM Invariant == Spec => []Inv
<1>1. Inv /\ [Next]_vars => Inv'
  BY InvStep
<1> QED
  BY InvInit, <1>1, PTL DEF Spec

\* Types of all variables; the deferred calls stand in the order in which the
\* things they close were opened.
THEOREM TypeCorrect == Spec => []TypeOK
<1>1. Inv => TypeOK
  <2> SUFFICES ASSUME Inv PROVE TypeOK
    OBVIOUS
  <2>1. Depth \in 0..Len(Order) /\ deferred = SubSeq(Order, 1, Depth)
    BY DEF Inv, StackOK, Opened
  <2>2. \E n \in 0..Len(Order) : deferred = SubSeq(Order, 1, n)
    BY <2>1
  <2>3. PlaceOK
    BY DEF Inv
  <2> QED
    BY <2>2, <2>3 DEF TypeOK, PlaceOK, Order
<1> QED
  BY Invariant, <1>1, PTL

\* A request that has been served leaves no tunnel open, whichever step failed,
\* and an SSH or SFTP client is closed before the tunnel under it.
THEOREM NothingLeaksHolds == Spec => []NothingLeaks
<1>1. Inv => NothingLeaks
  <2> SUFFICES ASSUME Inv PROVE NothingLeaks
    OBVIOUS
  <2>0. CallOK /\ StackOK /\ ConnOK
    BY DEF Inv
  <2>1. pc = "done" => conn = "closed"
    BY <2>0 DEF StackOK, ConnOK
  <2>2. ASSUME deferred # << >>, deferred[1] = "ssh"
        PROVE  conn = "open"
    <3>1. Depth \in 0..Len(Order) /\ deferred = Opened(Depth) /\ Len(Order) \in {2, 3}
      BY <2>0, OrderType DEF StackOK, CallOK, Handlers
    <3>2. Depth # 0
      <4>1. CASE Depth = 0
        <5>1. 1 \in Int /\ 0 \in Int /\ 0 < 1
          OBVIOUS
        <5>2. Opened(0) = << >>
          BY <5>1, SubSeqEmpty DEF Opened
        <5> QED
          BY <2>2, <3>1, <4>1, <5>2
      <4> QED
        BY <4>1
    <3>3. 1 \in 1..Depth /\ Depth >= 1
      BY <3>1, <3>2
    <3>4. Order[1] = "ssh"
      BY <2>0, <2>2, <3>1, <3>3, OpenedType
    <3>5. Len(Order) = 2
      BY <2>0, <3>4, OrderType DEF CallOK, Handlers
    <3>6. Depth >= Len(Order) - 1
      BY <3>1, <3>3, <3>5
    <3> QED
      BY <2>0, <3>6 DEF ConnOK
  <2> QED
    BY <2>1, <2>2 DEF NothingLeaks
<1> QED
  BY Invariant, <1>1, PTL

\* A destination passes both checks exactly when it can be used: what
\* extractDestination keeps of its configuration is what they look at.
LEMMA UsableChecked == PortOK /\ KeyOK <=> Usable(arg.config)
<1> DEFINE cfg == arg.config
           key == Value(cfg, "sshKey")
<1>1. /\ "port" \in StructFields /\ "password" \in StructFields
      /\ "sshKey" \notin knownFields /\ "Password" \notin knownFields
  BY DEF StructFields, knownFields
<1>2. /\ dest.field = [k \in StructFields |-> Value(cfg, k)]
      /\ dest.Properties = Restrict(cfg, DOMAIN cfg \ knownFields)
  BY DEF dest, extractDestination
<1>3. dest.field["port"] = Value(cfg, "port") /\ dest.field["password"] = Value(cfg, "password")
  BY <1>1, <1>2
<1>4. \A k : k \notin knownFields => Value(dest.Properties, k) = Value(cfg, k)
  BY <1>2 DEF Value, Restrict
<1>5. Value(dest.Properties, "sshKey") = key /\ Value(dest.Properties, "Password") = Value(cfg, "Password")
  BY <1>1, <1>4
<1>6. PortOK <=> Value(cfg, "port") \in PortTexts
  BY <1>3 DEF PortOK, PortNum
<1>7. KeyOK <=> IF key # "" THEN key \in KeyTexts
                ELSE Value(cfg, "password") # "" \/ Value(cfg, "Password") # ""
  BY <1>3, <1>5 DEF KeyOK, buildSSHConfig, ResolvedPassword, Resolved
<1>8. key # "" => cfg["sshKey"] = key
  BY DEF Value
<1> QED
  BY <1>6, <1>7, <1>8 DEF Usable

\* A request gets one answer, before anything is closed; both handlers refuse
\* the same destinations, and a destination that is refused for its
\* configuration cannot be used.
THEOREM AnswerTruthfulHolds == Spec => []AnswerTruthful
<1>1. Inv => AnswerTruthful
  <2> SUFFICES ASSUME Inv PROVE AnswerTruthful
    OBVIOUS
  <2>1. AnswerOK
    BY DEF Inv
  <2>2. CASE pc \notin {"return", "done"}
    <3>1. answers = << >> /\ Len(answers) = 0
      BY <2>1, <2>2 DEF AnswerOK
    <3> QED
      BY <2>2, <3>1 DEF AnswerTruthful
  <2>3. CASE pc \in {"return", "done"}
    BY <2>1, <2>3, UsableChecked DEF AnswerOK, AnswerTruthful
  <2> QED
    BY <2>2, <2>3
<1> QED
  BY Invariant, <1>1, PTL
=============================================================================
