--------------------------- MODULE Socks5DialProofs ---------------------------
(***************************************************************************)
(* Proofs about Socks5Dial, for any lengths, timeouts and deadlines and    *)
(* for whatever replies the proxy may give, in whatever pieces.            *)
(***************************************************************************)
EXTENDS Socks5Dial, SequenceTheorems, TLAPS

\* The arguments of the call.
ArgOK == /\ arg.host \in Nat /\ arg.loc \in Nat /\ arg.ctx \in Nat

\* A call that has begun and not returned is within its limit, and so is the
\* connection's deadline, once there is one.
TimeOK ==
  /\ pc = "idle" => now = 0
  /\ pc \notin {"idle", "tcp"} /\ ~Returned => deadline = limit
  /\ DialBounded

\* The connection is open from TcpConnect to the error, and the error is
\* recorded when the connection is closed.
ConnOK ==
  /\ pc \in {"idle", "tcp"} => conn = "none"
  /\ pc \in DOMAIN IOStage \cup {"token", "ok", "panicked"} => conn = "open"
  /\ pc = "failed" => conn = IF stage = "dial" THEN "none" ELSE "closed"
  /\ pc = "failed" <=> stage # "none"
-----------------------------------------------------------------------------
ReplySet(kind) == CASE kind = "greeting" -> GreetingReplies
                    [] kind = "auth"     -> AuthReplies
                    [] OTHER             -> ConnectReplies

\* The proxy answers frame by frame, and a frame declares its field's length.
FramesOK ==
  /\ replies \in Seq(Seq(Bytes))
  /\ Len(replies) =< Len(sent)
  /\ \A i \in 1..Len(replies) : replies[i] \in ReplySet(sent[i].kind)
  /\ \A i \in 1..Len(sent) : /\ sent[i].kind = "greeting" <=> i = 1
                             /\ sent[i].kind = "auth" => i = 2
                             /\ Declares(sent[i])

Asked == Len(replies) >= 1 /\ replies[1] = <<5, SAP>>

\* Which frames have been sent and answered when the client is where it is.
OrderOK ==
  /\ pc \in {"idle", "tcp", "hello"} => sent = << >>
  /\ pc \in {"greeting", "token", "jwt", "panicked"} => Len(sent) = 1
  /\ pc \in {"token", "jwt"} => Asked
  /\ pc = "panicked" => Asked /\ ~arg.ts
  /\ pc = "auth" => Len(sent) = 2 /\ sent[2].kind = "auth" /\ Asked
  /\ pc = "request" => Len(replies) = Len(sent) /\ AuthSettled
  /\ pc \in {"header", "length", "bound", "ok"} =>
       /\ Len(sent) >= 1 /\ sent[Len(sent)].kind = "connect"
       /\ Len(replies) >= Len(sent) - 1
       /\ pc # "header" => Len(replies) = Len(sent)
       /\ AuthSettled
  /\ pc \notin {"header", "length", "bound", "ok", "failed"} => ~SentKind("connect")
  /\ SentKind("auth") => Len(sent) >= 2 /\ sent[2].kind = "auth" /\ Asked
  /\ SentKind("connect") => AuthSettled
  /\ stage = "greeting" => Len(sent) =< 1
  /\ stage = "auth" => Asked /\ ~SentKind("connect")
  /\ stage = "connect" => AuthSettled
  /\ pc # "ok" => overlay = "fresh"

Last == replies[Len(replies)]

\* What the proxy sends from the start of its last reply.
Stream == Last \o IF sent[Len(replies)].kind = "connect" /\ Last[2] = 0
                    THEN Payload ELSE << >>

\* What follows the first k elements of s, up to the nth.
Part(s, k, n) == SubSeq(s, k + 1, n)

\* The first n elements of w are those of s after the kth.
Matches(w, s, k, n) == \A i \in 1..n : w[i] = s[k + i]

\* The bytes w that have arrived and o that have not are what follows the first
\* k bytes of s, as far as it had arrived if the proxy has closed.
Follow(w, o, s, k) == k =< Len(s) /\ w \o o = Part(s, k, Len(s))
Begin(w, s, k)     == k =< Len(s) /\ \E n \in k..Len(s) : w = Part(s, k, n)
Remains(w, o, cut, s, k) ==
  IF cut THEN o = << >> /\ Begin(w, s, k) ELSE Follow(w, o, s, k)

Unread(s, k) == Remains(wire, out, closed, s, k)

\* What has been read of the last reply, and what was kept of it.
WireOK ==
  /\ pc \in {"idle", "tcp", "hello", "token", "jwt", "request"} => wire = << >> /\ out = << >>
  /\ pc \in {"greeting", "auth", "header"} =>
       IF Len(replies) < Len(sent) THEN wire = << >> /\ out = << >> ELSE Unread(Stream, 0)
  /\ pc \in {"length", "bound", "ok"} => Last[1] = 5 /\ Last[4] \in {1, 3, 4} /\ rep = Last[2]
  /\ pc = "length" => Last[4] = 3 /\ Unread(Stream, 4)
  /\ pc = "bound" => need =< Len(Last) /\ Unread(Stream, Len(Last) - need)
  /\ pc = "ok" => rep = 0 /\ (overlay = "fresh" => Unread(Stream, Len(Last)))

Base == TypeOK /\ ArgOK /\ TimeOK /\ ConnOK
Flow == FramesOK /\ OrderOK /\ WireOK
IInv == Base /\ Flow
-----------------------------------------------------------------------------
\* Reading n bytes from the front of what has arrived of a stream leaves what
\* follows them.
LEMMA DropConcat ==
  ASSUME NEW s \in Seq(Bytes), NEW w \in Seq(Bytes), NEW o \in Seq(Bytes),
         NEW k \in Nat, NEW n \in Nat, n =< Len(w), Follow(w, o, s, k)
  PROVE  Matches(w, s, k, n) /\ Follow(Part(w, n, Len(w)), o, s, k + n)
<1> DEFINE rest == Part(s, k, Len(s))
           tail == Part(w, n, Len(w))
           left == Part(s, k + n, Len(s))
<1>0. /\ Len(s) \in Nat /\ Len(w) \in Nat /\ Len(o) \in Nat
      /\ k =< Len(s) /\ w \o o = Part(s, k, Len(s))
  BY DEF Follow
<1>1. rest \in Seq(Bytes) /\ Len(rest) = Len(s) - k
      /\ \A i \in 1..(Len(s) - k) : rest[i] = s[k + i]
  BY <1>0, SubSeqProperties, SMTT(30) DEF Part
<1>2. Len(w) + Len(o) = Len(s) - k
  BY <1>0, <1>1, ConcatProperties
<1>3. ASSUME NEW i \in 1..Len(w) PROVE w[i] = s[k + i]
  <2>0. \A j \in 1..(Len(w) + Len(o)) :
          (w \o o)[j] = IF j =< Len(w) THEN w[j] ELSE o[j - Len(w)]
    BY ConcatProperties
  <2>1. (w \o o)[i] = w[i]
    <3>1. i \in 1..(Len(w) + Len(o)) /\ i =< Len(w)
      BY <1>0
    <3> QED
      BY <2>0, <3>1
  <2>2. i \in 1..(Len(s) - k)
    BY <1>0, <1>2
  <2>3. (w \o o)[i] = s[k + i]
    BY <1>0, <1>1, <2>2
  <2> QED
    BY <2>1, <2>3
<1>4. ASSUME NEW i \in 1..Len(o) PROVE o[i] = s[k + Len(w) + i]
  <2>1. \A j \in 1..(Len(w) + Len(o)) :
          (w \o o)[j] = IF j =< Len(w) THEN w[j] ELSE o[j - Len(w)]
    BY ConcatProperties
  <2>2. PICK j \in 1..(Len(w) + Len(o)) : j = Len(w) + i
    BY <1>0
  <2>3. ~(j =< Len(w)) /\ j - Len(w) = i
    BY <1>0, <2>2
  <2>4. o[i] = (w \o o)[j]
    BY <2>1, <2>3
  <2>5. (w \o o)[j] = s[k + j]
    BY <1>0, <1>1, <1>2
  <2> QED
    BY <1>0, <2>2, <2>4, <2>5
<1>5. tail \in Seq(Bytes) /\ Len(tail) = Len(w) - n
      /\ \A i \in 1..(Len(w) - n) : tail[i] = w[n + i]
  BY <1>0, SubSeqProperties, SMTT(30) DEF Part
<1>6. left \in Seq(Bytes) /\ Len(left) = Len(s) - k - n
      /\ \A i \in 1..(Len(s) - k - n) : left[i] = s[k + n + i]
  BY <1>0, <1>2, SubSeqProperties, SMTT(30) DEF Part
<1> HIDE DEF rest, tail, left
<1>7. tail \o o \in Seq(Bytes) /\ Len(tail \o o) = Len(left)
  <2>1. tail \o o \in Seq(Bytes) /\ Len(tail \o o) = Len(tail) + Len(o)
    BY <1>5, ConcatProperties
  <2> QED
    BY <1>0, <1>2, <1>5, <1>6, <2>1
<1>8. ASSUME NEW i \in 1..Len(left) PROVE (tail \o o)[i] = left[i]
  <2>1. \A j \in 1..(Len(tail) + Len(o)) :
          (tail \o o)[j] = IF j =< Len(tail) THEN tail[j] ELSE o[j - Len(tail)]
    BY <1>5, ConcatProperties
  <2>5. i \in 1..(Len(tail) + Len(o))
    BY <1>0, <1>2, <1>5, <1>6
  <2>2. left[i] = s[k + n + i]
    BY <1>6
  <2>3. CASE i =< Len(tail)
    <3>0. i \in 1..(Len(w) - n)
      BY <1>5, <2>3, <2>5
    <3>1. tail[i] = w[n + i] /\ n + i \in 1..Len(w)
      BY <1>0, <1>5, <3>0
    <3>2. w[n + i] = s[k + n + i]
      BY <1>0, <1>3, <3>1
    <3> QED
      BY <2>1, <2>2, <2>3, <2>5, <3>1, <3>2
  <2>4. CASE ~(i =< Len(tail))
    <3>0. Len(tail) \in Nat /\ i \in Int
      BY <1>5, <2>5
    <3>4. i - Len(tail) \in 1..Len(o)
      BY <1>0, <2>4, <2>5, <3>0
    <3>1. PICK j \in 1..Len(o) : j = i - Len(tail)
      BY <3>4
    <3>2. o[j] = s[k + Len(w) + j]
      BY <1>4, <3>1
    <3>3. k + Len(w) + j = k + n + i
      BY <1>0, <1>5, <2>5, <3>1
    <3> QED
      BY <2>1, <2>2, <2>4, <2>5, <3>1, <3>2, <3>3
  <2> QED
    BY <2>3, <2>4
<1>9. tail \o o = left
  BY <1>6, <1>7, <1>8, SeqEqual
<1>10. k + n =< Len(s)
  BY <1>0, <1>2
<1>11. Matches(w, s, k, n)
  BY <1>0, <1>3 DEF Matches
<1> QED
  BY <1>9, <1>10, <1>11 DEF Follow, tail, left

\* The same when the proxy has closed, and the stream ends at n.
LEMMA DropCut ==
  ASSUME NEW s \in Seq(Bytes), NEW w \in Seq(Bytes), NEW k \in Nat, NEW m \in Nat,
         m =< Len(w), Begin(w, s, k)
  PROVE  Matches(w, s, k, m) /\ Begin(Part(w, m, Len(w)), s, k + m)
<1> PICK n \in k..Len(s) : w = Part(s, k, n)
  BY DEF Begin
<1> DEFINE tail == Part(w, m, Len(w))
           left == Part(s, k + m, n)
<1>0. Len(s) \in Nat /\ n \in Nat /\ n =< Len(s) /\ k =< n
  OBVIOUS
<1>1. w \in Seq(Bytes) /\ Len(w) = n - k /\ \A i \in 1..(n - k) : w[i] = s[k + i]
  BY <1>0, SubSeqProperties, SMTT(30) DEF Part
<1>2. k + m =< n
  BY <1>0, <1>1
<1>3. tail \in Seq(Bytes) /\ Len(tail) = n - k - m
      /\ \A i \in 1..(n - k - m) : tail[i] = w[m + i]
  BY <1>0, <1>1, <1>2, SubSeqProperties, SMTT(30) DEF Part
<1>4. left \in Seq(Bytes) /\ Len(left) = n - k - m
      /\ \A i \in 1..(n - k - m) : left[i] = s[k + m + i]
  BY <1>0, <1>2, SubSeqProperties, SMTT(30) DEF Part
<1> HIDE DEF tail, left
<1>5. ASSUME NEW i \in 1..Len(left) PROVE tail[i] = left[i]
  <2>1. m + i \in 1..(n - k) /\ i \in 1..(n - k - m)
    BY <1>0, <1>2, <1>4
  <2>2. tail[i] = w[m + i]
    BY <1>3, <2>1
  <2>3. left[i] = s[k + m + i]
    BY <1>4, <2>1
  <2>4. PICK j \in 1..(n - k) : j = m + i
    BY <2>1
  <2>5. w[j] = s[k + j] /\ k + j = k + m + i
    BY <1>0, <1>1, <2>1, <2>4
  <2> QED
    BY <2>2, <2>3, <2>4, <2>5
<1>6. tail = left
  BY <1>3, <1>4, <1>5, SeqEqual
<1>7. Matches(w, s, k, m)
  BY <1>0, <1>1, <1>2 DEF Matches
<1>8. n \in (k + m)..Len(s) /\ k + m =< Len(s)
  BY <1>0, <1>2
<1> QED
  BY <1>6, <1>7, <1>8 DEF Begin, tail, left

\* What has arrived of a stream when the proxy closes is cut at some n.
LEMMA CutConcat ==
  ASSUME NEW s \in Seq(Bytes), NEW w \in Seq(Bytes), NEW o \in Seq(Bytes),
         NEW k \in Nat, Follow(w, o, s, k)
  PROVE  Begin(w, s, k)
<1> DEFINE m   == Len(w)
           cut == Part(s, k, k + m)
<1>0. Len(s) \in Nat /\ m \in Nat /\ m =< Len(w) /\ k =< Len(s)
  BY DEF Follow
<1> HIDE DEF m
<1>1. Matches(w, s, k, m) /\ Follow(Part(w, m, Len(w)), o, s, k + m)
  BY <1>0, DropConcat
<1>2. k + m =< Len(s) /\ \A i \in 1..m : w[i] = s[k + i]
  BY <1>1 DEF Follow, Matches
<1>3. cut \in Seq(Bytes) /\ Len(cut) = m /\ \A i \in 1..m : cut[i] = s[k + i]
  BY <1>0, <1>2, SubSeqProperties, SMTT(30) DEF Part
<1> HIDE DEF cut
<1>4. w = cut
  BY <1>2, <1>3, SeqEqual DEF m
<1>5. k + m \in k..Len(s)
  BY <1>0, <1>2
<1> QED
  BY <1>0, <1>4, <1>5 DEF Begin, cut

\* Bytes that arrive move from the end of one sequence to the other's.
LEMMA MoveBytes ==
  ASSUME NEW w \in Seq(Bytes), NEW o \in Seq(Bytes), NEW k \in 1..Len(o)
  PROVE  (w \o SubSeq(o, 1, k)) \o SubSeq(o, k + 1, Len(o)) = w \o o
<1> DEFINE a == SubSeq(o, 1, k)
           b == SubSeq(o, k + 1, Len(o))
<1>1. a \in Seq(Bytes) /\ b \in Seq(Bytes)
  BY SubSeqProperties
<1>2. a \o b = SubSeq(o, 1, Len(o))
  BY ConcatAdjacentSubSeq
<1>3. SubSeq(o, 1, Len(o)) = o
  BY SubSeqFull
<1> HIDE DEF a, b
<1>4. a \o b = o
  BY <1>2, <1>3
<1>5. (w \o a) \o b = w \o (a \o b)
  BY <1>1, ConcatAssociative, SMTT(60)
<1> QED
  BY <1>4, <1>5 DEF a, b

\* The front of what follows s in s \o t is the front of t.
LEMMA TailConcat ==
  ASSUME NEW s \in Seq(Bytes), NEW t \in Seq(Bytes), NEW n \in 0..Len(t)
  PROVE  SubSeq(s \o t, Len(s) + 1, Len(s) + n) = SubSeq(t, 1, n)
<1> DEFINE u == s \o t
           a == SubSeq(u, Len(s) + 1, Len(s) + n)
           b == SubSeq(t, 1, n)
<1>0. Len(s) \in Nat /\ Len(t) \in Nat /\ n \in Nat /\ n =< Len(t)
  OBVIOUS
<1>1. u \in Seq(Bytes) /\ Len(u) = Len(s) + Len(t)
      /\ \A i \in 1..(Len(s) + Len(t)) : u[i] = IF i =< Len(s) THEN s[i] ELSE t[i - Len(s)]
  BY ConcatProperties
<1> HIDE DEF u
<1>2. a \in Seq(Bytes) /\ Len(a) = n /\ \A i \in 1..n : a[i] = u[Len(s) + i]
  BY <1>0, <1>1, SubSeqProperties DEF Part
<1>3. b \in Seq(Bytes) /\ Len(b) = n /\ \A i \in 1..n : b[i] = t[i]
  BY <1>0, SubSeqProperties
<1> HIDE DEF a, b
<1>4. ASSUME NEW i \in 1..n PROVE a[i] = b[i]
  <2>1. PICK j \in 1..(Len(s) + Len(t)) : j = Len(s) + i
    BY <1>0
  <2>2. ~(j =< Len(s)) /\ j - Len(s) = i
    BY <1>0, <2>1
  <2>3. u[j] = t[i]
    BY <1>1, <2>2
  <2> QED
    BY <1>2, <1>3, <2>1, <2>3
<1>5. a = b
  BY <1>2, <1>3, <1>4, SeqEqual
<1> QED
  BY <1>5 DEF a, b, u

\* A read takes its bytes from the stream.
LEMMA RemainsRead ==
  ASSUME NEW s \in Seq(Bytes), NEW w \in Seq(Bytes), NEW o \in Seq(Bytes),
         NEW cut \in BOOLEAN, NEW k \in Nat, NEW m \in Nat, m =< Len(w),
         Remains(w, o, cut, s, k)
  PROVE  Matches(w, s, k, m) /\ Remains(Part(w, m, Len(w)), o, cut, s, k + m)
  BY DropCut, DropConcat DEF Remains

\* A stream that has been read to its end leaves nothing.
LEMMA RemainsNothing ==
  ASSUME NEW s \in Seq(Bytes), NEW w \in Seq(Bytes), NEW o \in Seq(Bytes),
         NEW cut \in BOOLEAN, Remains(w, o, cut, s, Len(s))
  PROVE  w = << >> /\ o = << >>
<1>1. Len(s) \in Nat
  OBVIOUS
<1>2. Part(s, Len(s), Len(s)) = << >>
  BY <1>1, SubSeqEmpty DEF Part
<1>3. CASE cut
  <2>1. PICK n \in Len(s)..Len(s) : w = Part(s, Len(s), n)
    BY <1>3 DEF Remains, Begin
  <2>2. n = Len(s)
    BY <1>1, <2>1
  <2> QED
    BY <1>2, <1>3, <2>1, <2>2 DEF Remains
<1>4. CASE ~cut
  <2>1. w \o o = << >>
    BY <1>2, <1>4 DEF Remains, Follow
  <2> QED
    BY <2>1, ConcatEqualIffEmpty
<1> QED
  BY <1>3, <1>4

\* Bytes arrive.
LEMMA RemainsMove ==
  ASSUME NEW s \in Seq(Bytes), NEW w \in Seq(Bytes), NEW o \in Seq(Bytes),
         NEW k \in Nat, NEW n \in 1..Len(o), Remains(w, o, FALSE, s, k)
  PROVE  Remains(w \o SubSeq(o, 1, n), SubSeq(o, n + 1, Len(o)), FALSE, s, k)
  BY MoveBytes DEF Remains, Follow

\* The proxy closes: what has arrived is the beginning of the rest.
LEMMA RemainsCut ==
  ASSUME NEW s \in Seq(Bytes), NEW w \in Seq(Bytes), NEW o \in Seq(Bytes),
         NEW k \in Nat, Remains(w, o, FALSE, s, k)
  PROVE  Remains(w, << >>, TRUE, s, k)
  BY CutConcat DEF Remains

\* A reply begins.
LEMMA RemainsAll ==
  ASSUME NEW s \in Seq(Bytes) PROVE Remains(<< >>, s, FALSE, s, 0)
<1>1. << >> \o s = s
  BY ConcatEmptySeq
<1>2. Part(s, 0, Len(s)) = s
  BY SubSeqFull DEF Part
<1> QED
  BY <1>1, <1>2 DEF Remains, Follow
-----------------------------------------------------------------------------
\* The default replaces a zero.
LEMMA TimeoutType == Timeout \in Nat /\ Never \in Nat
  BY TimeAssumption DEF Timeout, Never

\* A read gives bytes, and leaves bytes.
LEMMA ReadTypes ==
  ASSUME wire \in Seq(Bytes), NEW n \in Nat, ReadFull(n)
  PROVE  /\ wire' \in Seq(Bytes)
         /\ \A i \in 1..n : wire[i] \in Bytes
         /\ now =< deadline
         /\ UNCHANGED <<now, replies, out, closed, overlay>>
<1>1. wire' \in Seq(Bytes)
  BY SubSeqProperties DEF ReadFull
<1>2. \A i \in 1..n : wire[i] \in Bytes
  BY ElementOfSeq DEF ReadFull
<1> QED
  BY <1>1, <1>2 DEF ReadFull, proxy

\* drainBoundAddr is never asked for more than a name and a port.
LEMMA DiscardType ==
  /\ \A b \in Bytes : Discard(b) \in 2..257
  /\ Discard(4) = 6 /\ Discard(16) = 18
  BY DEF Discard, Bytes

\* A frame whose field has the length it declares is a frame.
LEMMA WriteTypes ==
  ASSUME sent \in Seq(Frames), NEW f \in Frames, NEW label, Write(f, label)
  PROVE  sent' \in Seq(Frames)
  BY AppendProperties DEF Write

\* A length in a byte is the length.
LEMMA ByteLength == \A n \in 0..255 : n % 256 = n
  OBVIOUS

\* byte(n) is a byte.
LEMMA ByteType == \A n \in Nat : n % 256 \in Bytes
  BY DEF Bytes

\* A call begins with the types right and nothing open.
LEMMA BaseInit == Init => Base
<1> SUFFICES ASSUME Init PROVE Base
  OBVIOUS
<1> USE TimeAssumption, LengthAssumption, TimeoutType
<1>1. sent \in Seq(Frames) /\ out \in Seq(Bytes) /\ wire \in Seq(Bytes)
  BY EmptySeq DEF Init
<1>2. TypeOK
  <2>1. now \in 0..MaxTime /\ limit \in Nat /\ deadline \in Nat /\ rep \in Bytes
    BY DEF Init, Bytes
  <2> QED
    BY <1>1, <2>1 DEF Init, TypeOK
<1>3. ArgOK /\ TimeOK /\ ConnOK
  BY DEF Init, ArgOK, TimeOK, ConnOK, IOStage, Returned, DialBounded
<1> QED
  BY <1>2, <1>3 DEF Base

Working == DOMAIN IOStage \cup {"token"}

\* The client goes on while it works on the handshake.
LEMMA GotoBase ==
  ASSUME Base, pc \in Working, NEW label \in Working \cup {"ok", "panicked"}, Goto(label),
         wire' \in Seq(Bytes), UNCHANGED <<now, out, closed, overlay>>
  PROVE  Base'
<1> USE DEF Base, TypeOK, Goto, Working, IOStage
<1>1. TypeOK' /\ ArgOK'
  BY DEF ArgOK
<1>2. TimeOK' /\ ConnOK'
  BY DEF TimeOK, ConnOK, DialBounded, Returned
<1> QED
  BY <1>1, <1>2

\* It fails while it works on the handshake.
LEMMA FailBase ==
  ASSUME Base, pc \in Working, NEW s \in {"greeting", "auth", "connect"}, Fail(s),
         wire' \in Seq(Bytes), UNCHANGED <<now, out, closed, overlay>>
  PROVE  Base'
<1> USE DEF Base, TypeOK, Fail, CloseConn, Working, IOStage
<1>1. TypeOK' /\ ArgOK'
  BY DEF ArgOK
<1>2. TimeOK' /\ ConnOK'
  BY DEF TimeOK, ConnOK, DialBounded, Returned
<1> QED
  BY <1>1, <1>2

\* It writes a frame.
LEMMA WriteBase ==
  ASSUME Base, pc \in Working, NEW label \in Working, NEW f \in Frames, Write(f, label)
  PROVE  Base'
<1> USE DEF Base, TypeOK, Write, Working, IOStage, proxy
<1>1. sent' \in Seq(Frames)
  BY WriteTypes
<1>2. TypeOK' /\ ArgOK'
  BY <1>1 DEF ArgOK
<1>3. TimeOK' /\ ConnOK'
  BY DEF TimeOK, ConnOK, DialBounded, Returned
<1> QED
  BY <1>2, <1>3

\* The client does nothing.
LEMMA IdleBase ==
  ASSUME Base, UNCHANGED <<now, client>>, wire' \in Seq(Bytes), out' \in Seq(Bytes),
         closed' \in BOOLEAN, overlay' \in {"fresh", "data", "timeout", "eof"}
  PROVE  Base'
<1> USE DEF Base, client
<1>1. TypeOK' /\ ArgOK'
  BY DEF TypeOK, ArgOK
<1>2. TimeOK' /\ ConnOK'
  BY DEF TimeOK, ConnOK, DialBounded, Returned
<1> QED
  BY <1>1, <1>2

\* Every step keeps the types, the arguments, the limit and the connection.
LEMMA BaseStep == Base /\ [Next]_vars => Base'
<1> SUFFICES ASSUME Base, [Next]_vars PROVE Base'
  OBVIOUS
<1>0. /\ wire \in Seq(Bytes) /\ out \in Seq(Bytes) /\ closed \in BOOLEAN
      /\ overlay \in {"fresh", "data", "timeout", "eof"}
      /\ arg.host \in Nat /\ arg.loc \in Nat
  BY DEF Base, TypeOK, ArgOK
<1>1. CASE UNCHANGED vars
  BY <1>0, <1>1, IdleBase DEF vars, client
<1>2. CASE Dial
  <2>1. limit' \in Nat /\ now =< limit'
    BY <1>2, TimeoutType DEF Dial, Base, TypeOK, ArgOK, TimeOK
  <2>2. TypeOK' /\ ArgOK'
    BY <1>2, <2>1 DEF Dial, Base, TypeOK, ArgOK, proxy
  <2>3. TimeOK' /\ ConnOK'
    BY <1>2, <2>1 DEF Dial, Base, TypeOK, TimeOK, ConnOK, DialBounded, Returned, IOStage
  <2> QED
    BY <2>2, <2>3 DEF Base
<1>3. CASE TcpConnect
  <2>1. TypeOK' /\ ArgOK'
    BY <1>3 DEF TcpConnect, ArmDeadline, Base, TypeOK, ArgOK, proxy, IOStage
  <2>2. TimeOK' /\ ConnOK'
    BY <1>3 DEF TcpConnect, ArmDeadline, Base, TypeOK, TimeOK, ConnOK, DialBounded,
                Returned, IOStage
  <2> QED
    BY <2>1, <2>2 DEF Base
<1>4. CASE TcpFails
  <2>1. TypeOK' /\ ArgOK'
    BY <1>4 DEF TcpFails, Base, TypeOK, ArgOK, proxy
  <2>2. TimeOK' /\ ConnOK'
    BY <1>4 DEF TcpFails, Base, TypeOK, TimeOK, ConnOK, DialBounded, Returned, IOStage
  <2> QED
    BY <2>1, <2>2 DEF Base
<1>5. CASE IOFails
  <2>1. PICK s \in {"greeting", "auth", "connect"} : Fail(s)
    BY <1>5 DEF IOFails, IOStage
  <2> QED
    BY <1>0, <1>5, <2>1, FailBase DEF IOFails, Working, proxy
<1>6. CASE SendGreeting
  <2>1. [kind |-> "greeting", method |-> IF arg.ts THEN SAP ELSE NoAuth,
         declared |-> 0, length |-> 0] \in Frames
    BY DEF Frames, Bytes, SAP, NoAuth
  <2> QED
    BY <1>6, <2>1, WriteBase DEF SendGreeting, Working, IOStage
<1>7. CASE ReadGreeting
  <2>1. wire' \in Seq(Bytes) /\ UNCHANGED <<now, replies, out, closed, overlay>>
    BY <1>0, <1>7, ReadTypes DEF ReadGreeting
  <2>2. pc \in Working /\ \/ Fail("greeting")
                          \/ Goto("token") \/ Goto("panicked") \/ Goto("request")
    BY <1>7 DEF ReadGreeting, Working, IOStage
  <2> QED
    BY <2>1, <2>2, FailBase, GotoBase DEF Working, IOStage
<1>8. CASE TokenArrives
  BY <1>0, <1>8, GotoBase DEF TokenArrives, proxy, Working, IOStage
<1>9. CASE TokenFails
  BY <1>0, <1>9, FailBase DEF TokenFails, proxy, Working, IOStage
<1>10. CASE SendAuth
  <2>1. [kind |-> "auth", method |-> SAP,
         declared |-> arg.loc % 256, length |-> arg.loc] \in Frames
    <3>1. arg.loc \in Nat
      BY <1>0
    <3>2. arg.loc % 256 \in Bytes
      BY <3>1, ByteType
    <3> QED
      BY <3>1, <3>2 DEF Frames, SAP
  <2> QED
    BY <1>10, <2>1, WriteBase DEF SendAuth, Working, IOStage
<1>11. CASE ReadAuth
  <2>1. wire' \in Seq(Bytes) /\ UNCHANGED <<now, replies, out, closed, overlay>>
    BY <1>0, <1>11, ReadTypes DEF ReadAuth
  <2>2. pc \in Working /\ (Fail("auth") \/ Goto("request"))
    BY <1>11 DEF ReadAuth, Working, IOStage
  <2> QED
    BY <2>1, <2>2, FailBase, GotoBase DEF Working, IOStage
<1>12. CASE SendConnect
  <2>1. pc \in Working
    BY <1>12 DEF SendConnect, Working, IOStage
  <2>2. CASE Write(ConnectFrame, "header")
    <3>1. ConnectFrame \in Frames
      BY <1>0, ByteType DEF ConnectFrame, Frames, NoAuth
    <3> QED
      BY <2>1, <2>2, <3>1, WriteBase DEF Working, IOStage
  <2>3. CASE Fail("connect") /\ UNCHANGED <<now, proxy, wire, overlay>>
    BY <1>0, <2>1, <2>3, FailBase DEF proxy
  <2> QED
    BY <1>12, <2>2, <2>3 DEF SendConnect
<1>13. CASE ReadHeader
  <2>1. ReadFull(4) /\ pc \in Working
    BY <1>13 DEF ReadHeader, Working, IOStage
  <2>2. /\ wire' \in Seq(Bytes) /\ wire[2] \in Bytes
        /\ UNCHANGED <<now, replies, out, closed, overlay>>
    BY <1>0, <2>1, ReadTypes
  <2>3. CASE Fail("connect")
    BY <2>1, <2>2, <2>3, FailBase
  <2>4. CASE ~Fail("connect")
    <3>1. pc = "header" /\ pc' \in {"length", "bound"} /\ rep' = wire[2]
          /\ UNCHANGED <<arg, stage, conn, limit, deadline, sent>>
      BY <1>13, <2>4 DEF ReadHeader
    <3>2. need' = 0 \/ need' \in 2..257
      BY <1>13, <2>4, DiscardType DEF ReadHeader
    <3>3. TypeOK' /\ ArgOK'
      BY <2>2, <3>1, <3>2 DEF Base, TypeOK, ArgOK, IOStage
    <3>4. TimeOK' /\ ConnOK'
      BY <2>2, <3>1 DEF Base, TypeOK, TimeOK, ConnOK, DialBounded, Returned, IOStage
    <3> QED
      BY <3>3, <3>4 DEF Base
  <2> QED
    BY <2>3, <2>4
<1>14. CASE ReadLength
  <2>1. ReadFull(1)
    BY <1>14 DEF ReadLength
  <2>2. /\ wire' \in Seq(Bytes) /\ wire[1] \in Bytes
        /\ UNCHANGED <<now, replies, out, closed, overlay>>
    BY <1>0, <2>1, ReadTypes
  <2>3. need' \in 2..257
    BY <1>14, <2>2, DiscardType DEF ReadLength
  <2>4. TypeOK' /\ ArgOK'
    BY <1>14, <2>2, <2>3 DEF ReadLength, Base, TypeOK, ArgOK, IOStage
  <2>5. TimeOK' /\ ConnOK'
    BY <1>14, <2>2 DEF ReadLength, Base, TypeOK, TimeOK, ConnOK, DialBounded, Returned,
                       IOStage
  <2> QED
    BY <2>4, <2>5 DEF Base
<1>15. CASE ReadBound
  <2>1. need \in Nat
    <3>1. need = 0 \/ need \in 2..257
      BY DEF Base, TypeOK
    <3> QED
      BY <3>1
  <2>2. wire' \in Seq(Bytes) /\ UNCHANGED <<now, replies, out, closed, overlay>>
    BY <1>0, <1>15, <2>1, ReadTypes DEF ReadBound
  <2>3. pc \in Working /\ (Fail("connect") \/ Goto("ok"))
    BY <1>15 DEF ReadBound, Working, IOStage
  <2> QED
    BY <2>2, <2>3, FailBase, GotoBase
<1>16. CASE Reply
  <2>1. PICK r \in GreetingReplies \cup AuthReplies \cup ConnectReplies :
          out' = out \o r \o Payload \/ out' = out \o r \o << >>
    BY <1>16 DEF Reply
  <2>2. r \in Seq(Bytes) /\ Payload \in Seq(Bytes)
    BY <2>1, ReplyAssumption
  <2>3. out \o r \in Seq(Bytes)
    BY <1>0, <2>2, ConcatProperties
  <2>4. CASE out' = out \o r \o Payload
    <3>1. out' \in Seq(Bytes)
      BY <2>2, <2>3, <2>4, ConcatProperties
    <3> QED
      BY <1>0, <1>16, <3>1, IdleBase DEF Reply
  <2>5. CASE out' = out \o r \o << >>
    <3>1. out' \in Seq(Bytes)
      BY <2>3, <2>5, ConcatProperties, EmptySeq
    <3> QED
      BY <1>0, <1>16, <3>1, IdleBase DEF Reply
  <2> QED
    BY <2>1, <2>4, <2>5
<1>17. CASE Deliver
  <2>1. PICK k \in 1..Len(out) : wire' = wire \o SubSeq(out, 1, k)
                               /\ out' = SubSeq(out, k + 1, Len(out))
    BY <1>17 DEF Deliver
  <2>2. SubSeq(out, 1, k) \in Seq(Bytes) /\ SubSeq(out, k + 1, Len(out)) \in Seq(Bytes)
    BY <1>0, <2>1, SubSeqProperties
  <2>3. wire' \in Seq(Bytes) /\ out' \in Seq(Bytes)
    BY <1>0, <2>1, <2>2, ConcatProperties
  <2> QED
    BY <1>0, <1>17, <2>3, IdleBase DEF Deliver
<1>18. CASE ProxyCloses
  BY <1>0, <1>18, EmptySeq, IdleBase DEF ProxyCloses
<1>19. CASE OverlayRead
  BY <1>0, <1>19, EmptySeq, IdleBase DEF OverlayRead, proxy
<1>20. CASE Tick
  <2>1. TypeOK' /\ ArgOK'
    BY <1>20, TimeAssumption DEF Tick, Base, TypeOK, ArgOK, client, proxy
  <2>2. TimeOK' /\ ConnOK'
    BY <1>20 DEF Tick, Base, TypeOK, TimeOK, ConnOK, DialBounded, Returned, IOStage, client
  <2> QED
    BY <2>1, <2>2 DEF Base
<1> QED
  BY <1>1, <1>2, <1>3, <1>4, <1>5, <1>6, <1>7, <1>8, <1>9, <1>10, <1>11, <1>12, <1>13,
     <1>14, <1>15, <1>16, <1>17, <1>18, <1>19, <1>20 DEF Next, Finished

\* In every state the types are right, the call is within its limit, and the
\* connection is open exactly while the handshake or the tunnel needs it.
THEOREM BaseHolds == Spec => []Base
<1>1. Base /\ [Next]_vars => Base'
  BY BaseStep
<1> QED
  BY BaseInit, <1>1, PTL DEF Spec

\* Types of all variables; drainBoundAddr never asks for more than a name.
THEOREM TypeCorrect == Spec => []TypeOK
<1>1. Base => TypeOK
  BY DEF Base
<1> QED
  BY BaseHolds, <1>1, PTL

\* A call is not under way after its limit, whatever the proxy does.
THEOREM DialBoundedHolds == Spec => []DialBounded
<1>1. Base => DialBounded
  BY DEF Base, TimeOK
<1> QED
  BY BaseHolds, <1>1, PTL

\* Dial does what TunnelDial promises: every step is one of the promise, or
\* none of it.
THEOREM Refinement == Spec => KeepsPromise
<1>1. Init => Promise!Init
  BY DEF Init, Promise!Init, Returned
<1>2. Base /\ Base' /\ [Next]_vars => [Promise!Next]_(Promise!vars)
  <2> SUFFICES ASSUME Base, Base', [Next]_vars
               PROVE  [Promise!Next]_(Promise!vars)
    OBVIOUS
  <2> USE DEF Base, TimeOK, ConnOK, Returned, IOStage, Promise!Next, Promise!vars
  <2>1. CASE UNCHANGED vars
    BY <2>1 DEF vars
  <2>2. CASE Dial
    BY <2>2 DEF Dial, Promise!Start, TypeOK
  <2>3. CASE TcpConnect
    BY <2>3 DEF TcpConnect, ArmDeadline, Promise!Accept
  <2>4. CASE TcpFails
    BY <2>4 DEF TcpFails, Promise!Fail
  <2>5. ASSUME NEW s \in {"greeting", "auth", "connect"}, Fail(s), pc \in Working, now' = now
        PROVE  Promise!Fail
    BY <2>5 DEF Fail, CloseConn, Working, Promise!Fail
  <2>6. ASSUME Goto("panicked") \/ Goto("ok"), pc \in Working, now' = now
        PROVE  Promise!Panic \/ Promise!Succeed
    BY <2>6 DEF Goto, Working, Promise!Panic, Promise!Succeed
  <2>7. ASSUME pc \in Working, pc' \in Working,
               UNCHANGED <<now, stage, conn, limit, deadline>>
        PROVE  UNCHANGED Promise!vars
    BY <2>7 DEF Working
  <2>8. CASE IOFails
    <3>1. PICK s \in {"greeting", "auth", "connect"} : Fail(s)
      BY <2>8 DEF IOFails
    <3> QED
      BY <2>5, <2>8, <3>1 DEF IOFails, Working
  <2>9. CASE SendGreeting \/ SendAuth
    BY <2>7, <2>9 DEF SendGreeting, SendAuth, Write, Working
  <2>10. CASE SendConnect
    BY <2>5, <2>7, <2>10 DEF SendConnect, Write, Working
  <2>11. CASE ReadGreeting
    <3>1. pc \in Working /\ now' = now
      BY <2>11 DEF ReadGreeting, ReadFull, Working
    <3>2. \/ Fail("greeting") \/ Goto("panicked")
          \/ Goto("token") \/ Goto("request")
      BY <2>11 DEF ReadGreeting
    <3>3. Goto("token") \/ Goto("request") => UNCHANGED Promise!vars
      BY <2>7, <3>1 DEF Goto, Working
    <3> QED
      BY <2>5, <2>6, <3>1, <3>2, <3>3
  <2>12. CASE TokenArrives
    BY <2>7, <2>12 DEF TokenArrives, Goto, Working
  <2>13. CASE TokenFails
    BY <2>5, <2>13 DEF TokenFails, Working
  <2>14. CASE ReadAuth
    <3>1. pc \in Working /\ now' = now
      BY <2>14 DEF ReadAuth, ReadFull, Working
    <3>2. Fail("auth") \/ Goto("request")
      BY <2>14 DEF ReadAuth
    <3>3. Goto("request") => UNCHANGED Promise!vars
      BY <2>7, <3>1 DEF Goto, Working
    <3> QED
      BY <2>5, <3>1, <3>2, <3>3
  <2>15. CASE ReadHeader
    <3>1. pc \in Working /\ now' = now
      BY <2>15 DEF ReadHeader, ReadFull, Working
    <3>2. \/ Fail("connect")
          \/ pc' \in Working /\ UNCHANGED <<stage, conn, limit, deadline>>
      BY <2>15 DEF ReadHeader, Working
    <3> QED
      BY <2>5, <2>7, <3>1, <3>2
  <2>16. CASE ReadLength
    BY <2>7, <2>16 DEF ReadLength, ReadFull, Working
  <2>17. CASE ReadBound
    <3>1. pc \in Working /\ now' = now
      BY <2>17 DEF ReadBound, ReadFull, Working
    <3>2. Fail("connect") \/ Goto("ok")
      BY <2>17 DEF ReadBound
    <3> QED
      BY <2>5, <2>6, <3>1, <3>2
  <2>18. CASE Reply \/ Deliver \/ ProxyCloses \/ OverlayRead
    BY <2>18 DEF Reply, Deliver, ProxyCloses, OverlayRead, client
  <2>19. CASE Tick
    <3>1. pc \notin {"idle", "ok", "failed", "panicked"} => now < limit
      BY <2>19 DEF Tick, TypeOK
    <3> QED
      BY <2>19, <3>1 DEF Tick, Promise!Tick, client
  <2> QED
    BY <2>1, <2>2, <2>3, <2>4, <2>8, <2>9, <2>10, <2>11, <2>12, <2>13, <2>14, <2>15,
       <2>16, <2>17, <2>18, <2>19 DEF Next, Finished
<1> QED
  BY <1>1, <1>2, BaseHolds, PTL DEF Spec, Promise!Spec, KeepsPromise
-----------------------------------------------------------------------------
\* A reply of two bytes is those bytes.
LEMMA Pair ==
  ASSUME NEW r \in Seq(Bytes), Len(r) = 2
  PROVE  r = <<r[1], r[2]>>
<1> DEFINE p == <<r[1], r[2]>>
<1>1. r[1] \in Bytes /\ r[2] \in Bytes
  <2>1. 1 \in 1..Len(r) /\ 2 \in 1..Len(r)
    OBVIOUS
  <2> QED
    BY <2>1, ElementOfSeq
<1>2. p \in Seq(Bytes) /\ Len(p) = 2 /\ p[1] = r[1] /\ p[2] = r[2]
  BY <1>1
<1> HIDE DEF p
<1>3. \A i \in 1..2 : r[i] = p[i]
  BY <1>2
<1>4. r = p
  BY <1>2, <1>3, SeqEqual
<1> QED
  BY <1>4 DEF p

\* A sequence that grows keeps its elements.
LEMMA Grows ==
  ASSUME NEW S, NEW s \in Seq(S), NEW e \in S, NEW t, t = s \/ t = Append(s, e)
  PROVE  /\ t \in Seq(S) /\ Len(s) \in Nat /\ Len(t) \in Nat /\ Len(t) >= Len(s)
         /\ \A i \in 1..Len(s) : t[i] = s[i]
  BY AppendProperties

\* A reply that is the only one is the whole sequence.
LEMMA Single ==
  ASSUME NEW S, NEW s \in Seq(S), Len(s) =< 1, Len(s) >= 1
  PROVE  Len(s) = 1 /\ s = <<s[1]>>
<1> DEFINE u == <<s[1]>>
<1>1. Len(s) \in Nat /\ Len(s) = 1
  <2>1. Len(s) \in Nat
    OBVIOUS
  <2>2. \A n \in Nat : n =< 1 /\ n >= 1 => n = 1
    OBVIOUS
  <2> QED
    BY <2>1, <2>2
<1>2. s[1] \in S
  BY <1>1, ElementOfSeq
<1>3. u \in Seq(S) /\ Len(u) = 1 /\ u[1] = s[1]
  BY <1>2
<1> HIDE DEF u
<1>4. \A i \in 1..1 : s[i] = u[i]
  BY <1>3
<1>5. s = u
  BY <1>1, <1>3, <1>4, SeqEqual
<1> QED
  BY <1>1, <1>5 DEF u

\* What has been sent and answered stays sent and answered.
LEMMA Kept ==
  ASSUME sent \in Seq(Frames), replies \in Seq(Seq(Bytes)),
         NEW f \in Frames, NEW r \in Seq(Bytes),
         sent' = sent \/ sent' = Append(sent, f),
         replies' = replies \/ replies' = Append(replies, r), Len(replies) =< Len(sent)
  PROVE  /\ Asked => Asked'
         /\ AuthSettled => AuthSettled'
         /\ Len(sent) >= 2 => Len(sent') >= 2 /\ sent'[2] = sent[2]
<1>1. /\ Len(sent) \in Nat /\ Len(sent') \in Nat /\ Len(sent') >= Len(sent)
      /\ \A i \in 1..Len(sent) : sent'[i] = sent[i]
  BY Grows
<1>2. /\ Len(replies) \in Nat /\ Len(replies') \in Nat /\ Len(replies') >= Len(replies)
      /\ \A i \in 1..Len(replies) : replies'[i] = replies[i]
  <2> DEFINE S == Seq(Bytes)
  <2>1. replies \in Seq(S) /\ r \in S
    OBVIOUS
  <2> HIDE DEF S
  <2> QED
    BY <2>1, Grows
<1>4. Len(replies) >= 1 => Len(replies') >= 1 /\ replies'[1] = replies[1]
  BY <1>2
<1>5. Len(replies) >= 2 => Len(replies') >= 2 /\ replies'[2] = replies[2]
  BY <1>2
<1>6. Len(sent) >= 2 => Len(sent') >= 2 /\ sent'[2] = sent[2]
  BY <1>1
<1>7. Asked => Asked'
  BY <1>4 DEF Asked
<1>8. AuthSettled => AuthSettled'
  <2> SUFFICES ASSUME AuthSettled PROVE AuthSettled'
    OBVIOUS
  <2> DEFINE m == replies[1]
  <2>1. Len(replies') >= 1 /\ replies'[1] = m /\ m[1] = 5
    BY <1>4 DEF AuthSettled
  <2>2. CASE m[2] = NoAuth
    BY <2>1, <2>2 DEF AuthSettled
  <2>3. CASE m[2] # NoAuth
    <3>1. m[2] = SAP /\ Len(replies) >= 2 /\ sent[2].kind = "auth" /\ replies[2] = <<1, 0>>
      BY <2>3 DEF AuthSettled
    <3>2. Len(sent) >= 2
      BY <1>1, <1>2, <3>1
    <3> QED
      BY <1>5, <1>6, <2>1, <3>1, <3>2 DEF AuthSettled
  <2> QED
    BY <2>2, <2>3
<1> QED
  BY <1>6, <1>7, <1>8

\* A frame is of the kinds sent once it is sent, and no other is.
LEMMA SentGrows ==
  ASSUME sent \in Seq(Frames), NEW f \in Frames, sent' = Append(sent, f), NEW k
  PROVE  SentKind(k)' <=> SentKind(k) \/ f.kind = k
<1>1. /\ Len(sent) \in Nat /\ DOMAIN sent = 1..Len(sent)
      /\ Len(sent') = Len(sent) + 1 /\ DOMAIN sent' = 1..(Len(sent) + 1)
      /\ sent'[Len(sent) + 1] = f /\ \A i \in 1..Len(sent) : sent'[i] = sent[i]
  BY AppendProperties
<1> QED
  BY <1>1 DEF SentKind

\* A frame of the right kind keeps the frames in order ...
LEMMA FramesWrite ==
  ASSUME sent \in Seq(Frames), FramesOK, NEW f \in Frames, sent' = Append(sent, f),
         UNCHANGED replies, f.kind = "greeting" <=> Len(sent) = 0,
         f.kind = "auth" => Len(sent) = 1, Declares(f)
  PROVE  FramesOK'
<1> DEFINE n == Len(sent)
<1>1. /\ n \in Nat /\ Len(sent') = n + 1 /\ sent'[n + 1] = f
      /\ \A i \in 1..n : sent'[i] = sent[i]
  BY AppendProperties
<1>2. replies \in Seq(Seq(Bytes)) /\ Len(replies) \in Nat /\ Len(replies) =< n
  BY DEF FramesOK
<1>3. \A i \in 1..Len(replies) : replies'[i] \in ReplySet(sent'[i].kind)
  BY <1>1, <1>2 DEF FramesOK
<1>4. ASSUME NEW i \in 1..(n + 1)
      PROVE  /\ sent'[i].kind = "greeting" <=> i = 1
             /\ sent'[i].kind = "auth" => i = 2
             /\ Declares(sent'[i])
  <2>1. CASE i = n + 1
    BY <1>1, <2>1
  <2>2. CASE i # n + 1
    <3>1. i \in 1..n
      BY <1>1, <2>2
    <3> QED
      BY <1>1, <3>1 DEF FramesOK
  <2> QED
    BY <2>1, <2>2
<1>5. Len(replies') =< Len(sent') /\ replies' \in Seq(Seq(Bytes)) /\ Len(replies') = Len(replies)
  BY <1>1, <1>2
<1> QED
  BY <1>1, <1>3, <1>4, <1>5 DEF FramesOK

\* ... and so does a reply to the next frame.
LEMMA FramesReply ==
  ASSUME FramesOK, sent \in Seq(Frames), UNCHANGED sent, Len(replies) < Len(sent),
         NEW r \in Seq(Bytes), r \in ReplySet(sent[Len(replies) + 1].kind),
         replies' = Append(replies, r)
  PROVE  FramesOK' /\ Len(replies') = Len(replies) + 1 /\ Last' = r
<1> DEFINE n == Len(replies)
           S == Seq(Bytes)
<1>0. replies \in Seq(S) /\ r \in S
  BY DEF FramesOK
<1> HIDE DEF S
<1>1. /\ n \in Nat /\ replies' \in Seq(S) /\ Len(replies') = n + 1 /\ replies'[n + 1] = r
      /\ \A i \in 1..n : replies'[i] = replies[i]
  BY <1>0, AppendProperties
<1>2. ASSUME NEW i \in 1..(n + 1) PROVE replies'[i] \in ReplySet(sent[i].kind)
  <2>1. CASE i = n + 1
    BY <1>1, <2>1
  <2>2. CASE i # n + 1
    <3>1. i \in 1..n
      BY <1>1, <2>2
    <3> QED
      BY <1>1, <3>1 DEF FramesOK
  <2> QED
    BY <2>1, <2>2
<1>3. Len(replies') =< Len(sent') /\ replies' \in Seq(Seq(Bytes))
  BY <1>1 DEF S
<1>4. \A i \in 1..Len(sent') : /\ sent'[i].kind = "greeting" <=> i = 1
                               /\ sent'[i].kind = "auth" => i = 2
                               /\ Declares(sent'[i])
  BY DEF FramesOK
<1>5. FramesOK'
  BY <1>1, <1>2, <1>3, <1>4 DEF FramesOK
<1> QED
  BY <1>1, <1>5 DEF Last

\* The last reply, and what follows it.
LEMMA StreamFacts ==
  ASSUME FramesOK, sent \in Seq(Frames), Len(replies) >= 1
  PROVE  LET k == sent[Len(replies)].kind
         IN /\ Last \in ReplySet(k) /\ Last \in Seq(Bytes) /\ Stream \in Seq(Bytes)
            /\ Len(Last) =< Len(Stream) /\ \A i \in 1..Len(Last) : Stream[i] = Last[i]
            /\ k # "connect" => Stream = Last /\ Len(Last) = 2
            /\ k = "connect" => Last \in ConnectReplies
<1> DEFINE k    == sent[Len(replies)].kind
           more == IF k = "connect" /\ Last[2] = 0 THEN Payload ELSE << >>
<1>1. /\ replies \in Seq(Seq(Bytes)) /\ Len(replies) \in 1..Len(replies)
      /\ Len(replies) \in 1..Len(sent)
  BY DEF FramesOK
<1>2. Last \in Seq(Bytes)
  BY <1>1, ElementOfSeq DEF Last
<1>3. Last \in ReplySet(k)
  BY <1>1 DEF Last, FramesOK
<1>4. k \in {"greeting", "auth", "connect"}
  <2>1. sent[Len(replies)] \in Frames
    BY <1>1, ElementOfSeq
  <2> QED
    BY <2>1 DEF Frames
<1>5. /\ k # "connect" => Last \in GreetingReplies \cup AuthReplies
      /\ k = "connect" => Last \in ConnectReplies
  BY <1>3, <1>4 DEF ReplySet
<1>6. more \in Seq(Bytes) /\ (k # "connect" => more = << >>)
  BY ReplyAssumption, EmptySeq
<1> HIDE DEF more
<1>7. Stream = Last \o more
  BY DEF Stream, more
<1>8. Stream \in Seq(Bytes) /\ Len(Last) =< Len(Stream) /\ \A i \in 1..Len(Last) : Stream[i] = Last[i]
  BY <1>2, <1>6, <1>7, ConcatProperties
<1>9. ASSUME k # "connect" PROVE Stream = Last /\ Len(Last) = 2
  <2>1. Last \o << >> = Last
    BY <1>2, ConcatEmptySeq
  <2>2. Len(Last) = 2
    BY <1>5, <1>9, ReplyAssumption
  <2> QED
    BY <1>6, <1>7, <1>9, <2>1, <2>2
<1> QED
  BY <1>2, <1>3, <1>5, <1>8, <1>9

\* A read of the client takes the next bytes of the stream.
LEMMA ReadUnread ==
  ASSUME FramesOK, TypeOK, Len(replies) >= 1, NEW k \in Nat, NEW n \in Nat,
         Unread(Stream, k), ReadFull(n), UNCHANGED sent
  PROVE  /\ \A i \in 1..n : wire[i] = Stream[k + i]
         /\ Remains(wire', out', closed', Stream', k + n)
<1> DEFINE st == Stream
<1>1. st \in Seq(Bytes)
  BY StreamFacts DEF TypeOK
<1>2. UNCHANGED <<replies, out, closed>> /\ wire' = Part(wire, n, Len(wire))
      /\ n =< Len(wire)
  BY DEF ReadFull, proxy, Part
<1>3. Stream' = st
  BY <1>2 DEF Stream, Last
<1>4. wire \in Seq(Bytes) /\ out \in Seq(Bytes) /\ closed \in BOOLEAN
      /\ Remains(wire, out, closed, st, k)
  BY DEF TypeOK, Unread
<1> HIDE DEF st
<1>5. Matches(wire, st, k, n) /\ Remains(wire', out, closed, st, k + n)
  BY <1>1, <1>2, <1>4, RemainsRead
<1> QED
  BY <1>2, <1>3, <1>5 DEF Matches, st

\* The bytes of a two-byte reply, when the client has read them.
LEMMA ReadReply ==
  ASSUME Base, Flow, pc \in {"greeting", "auth"}, ReadFull(2), UNCHANGED sent
  PROVE  /\ Len(replies) = Len(sent) /\ Last = <<wire[1], wire[2]>>
         /\ wire' = << >> /\ out' = << >>
<1>1. Len(replies) \in Nat /\ Len(sent) \in Nat /\ Len(replies) =< Len(sent)
      /\ FramesOK /\ TypeOK /\ sent \in Seq(Frames)
  <2>1. FramesOK /\ TypeOK
    BY DEF Base, Flow
  <2>2. sent \in Seq(Frames) /\ replies \in Seq(Seq(Bytes)) /\ Len(replies) =< Len(sent)
    BY <2>1 DEF FramesOK, TypeOK
  <2>3. Len(sent) \in Nat
    BY <2>2
  <2>4. Len(replies) \in Nat
    BY <2>2
  <2> QED
    BY <2>1, <2>2, <2>3, <2>4
<1>2. wire # << >>
  BY DEF ReadFull
<1>3. Len(replies) = Len(sent) /\ Unread(Stream, 0)
  <2>1. IF Len(replies) < Len(sent) THEN wire = << >> /\ out = << >> ELSE Unread(Stream, 0)
    BY DEF Flow, WireOK
  <2>2. ~(Len(replies) < Len(sent))
    BY <1>2, <2>1
  <2>3. Len(replies) = Len(sent)
    BY <1>1, <2>2
  <2>4. Unread(Stream, 0)
    BY <2>1, <2>2
  <2> QED
    BY <2>3, <2>4
<1>4. Len(sent) >= 1
  <2>1. pc = "greeting" => Len(sent) = 1
    BY DEF Flow, OrderOK
  <2>2. pc = "auth" => Len(sent) = 2
    BY DEF Flow, OrderOK
  <2> QED
    BY <2>1, <2>2
<1>5. sent[Len(sent)].kind # "connect"
  BY <1>1, <1>4 DEF Flow, OrderOK, SentKind
<1>6. Last \in Seq(Bytes) /\ Stream = Last /\ Len(Last) = 2
  BY <1>1, <1>3, <1>4, <1>5, StreamFacts
<1>7. /\ \A i \in 1..2 : wire[i] = Stream[0 + i]
      /\ Remains(wire', out', closed', Stream', 0 + 2)
  BY <1>1, <1>3, <1>4, ReadUnread
<1>8. wire[1] = Last[1] /\ wire[2] = Last[2]
  BY <1>6, <1>7
<1>9. Last = <<wire[1], wire[2]>>
  BY <1>6, <1>8, Pair
<1>10. wire' \in Seq(Bytes) /\ out' \in Seq(Bytes) /\ closed' \in BOOLEAN /\ Stream' = Last
  <2>1. wire' \in Seq(Bytes) /\ UNCHANGED <<replies, out, closed>>
    BY <1>1, ReadTypes DEF TypeOK
  <2>2. Stream' = Stream
    BY <2>1 DEF Stream, Last
  <2> QED
    BY <1>1, <1>6, <2>1, <2>2 DEF TypeOK
<1>11. Remains(wire', out', closed', Last, Len(Last))
  BY <1>6, <1>7, <1>10
<1>12. wire' = << >> /\ out' = << >>
  BY <1>6, <1>10, <1>11, RemainsNothing
<1> QED
  BY <1>3, <1>9, <1>12

\* Nothing the flow is about changes.
LEMMA FlowSame ==
  ASSUME Flow, UNCHANGED <<arg, pc, stage, rep, need, sent, replies, out, wire, closed, overlay>>
  PROVE  Flow'
<1>1. FramesOK'
  BY DEF Flow, FramesOK
<1>2. OrderOK'
  BY DEF Flow, OrderOK, Asked, AuthSettled, SentKind
<1>3. WireOK'
  BY DEF Flow, WireOK, Unread, Stream, Last
<1> QED
  BY <1>1, <1>2, <1>3 DEF Flow

\* The stage of an error is as far as the client got.
LEMMA FlowFail ==
  ASSUME Flow, pc \in Working, NEW s \in {"greeting", "auth", "connect"}, Fail(s),
         UNCHANGED <<replies, overlay>>,
         s = "greeting" => Len(sent) =< 1,
         s = "auth" => Asked /\ ~SentKind("connect"),
         s = "connect" => AuthSettled
  PROVE  Flow'
<1> USE DEF Working, IOStage
<1>1. pc' = "failed" /\ stage' = s /\ UNCHANGED <<arg, rep, need, sent, replies, overlay>>
  BY DEF Fail
<1>2. FramesOK' /\ (Asked' <=> Asked) /\ (AuthSettled' <=> AuthSettled)
  BY <1>1 DEF Flow, FramesOK, Asked, AuthSettled
<1>5. /\ SentKind("auth")' <=> SentKind("auth")
      /\ SentKind("connect")' <=> SentKind("connect")
  BY <1>1 DEF SentKind
<1>3. OrderOK'
  <2>1. pc # "ok" /\ overlay = "fresh"
    BY DEF Flow, OrderOK
  <2>2. SentKind("auth")' => Len(sent') >= 2 /\ sent'[2].kind = "auth" /\ Asked'
    BY <1>1, <1>2, <1>5 DEF Flow, OrderOK
  <2>3. SentKind("connect")' => AuthSettled'
    BY <1>2, <1>5 DEF Flow, OrderOK
  <2>4. /\ stage' = "greeting" => Len(sent') =< 1
        /\ stage' = "auth" => Asked' /\ ~SentKind("connect")'
        /\ stage' = "connect" => AuthSettled'
    BY <1>1, <1>2, <1>5
  <2> QED
    BY <1>1, <2>1, <2>2, <2>3, <2>4 DEF OrderOK
<1>4. WireOK'
  BY <1>1 DEF WireOK
<1> QED
  BY <1>2, <1>3, <1>4 DEF Flow

\* The client goes on with no reply unread.
LEMMA FlowGoto ==
  ASSUME Flow, pc \in Working, NEW label \in {"token", "jwt", "request", "panicked"}, Goto(label),
         UNCHANGED <<replies, overlay>>,
         ~SentKind("connect"), Len(sent) >= 1,
         label \in {"token", "jwt", "panicked"} => Len(sent) = 1 /\ Asked,
         label = "panicked" => ~arg.ts,
         label = "request" => Len(replies) = Len(sent) /\ AuthSettled,
         wire' = << >>, out' = << >>
  PROVE  Flow'
<1> USE DEF Working, IOStage
<1>1. pc' = label /\ UNCHANGED <<arg, stage, rep, need, sent, replies, overlay>>
  BY DEF Goto
<1>2. FramesOK' /\ (Asked' <=> Asked) /\ (AuthSettled' <=> AuthSettled)
  BY <1>1 DEF Flow, FramesOK, Asked, AuthSettled
<1>5. /\ SentKind("auth")' <=> SentKind("auth")
      /\ SentKind("connect")' <=> SentKind("connect")
  BY <1>1 DEF SentKind
<1>3. OrderOK'
  <2>1. overlay = "fresh"
    BY DEF Flow, OrderOK
  <2>2. SentKind("auth")' => Len(sent') >= 2 /\ sent'[2].kind = "auth" /\ Asked'
    BY <1>1, <1>2, <1>5 DEF Flow, OrderOK
  <2>3. ~SentKind("connect")'
    BY <1>5
  <2>4. /\ stage' = "greeting" => Len(sent') =< 1
        /\ stage' = "auth" => Asked'
        /\ stage' = "connect" => AuthSettled'
    BY <1>1, <1>2 DEF Flow, OrderOK
  <2>5. /\ pc' \in {"token", "jwt"} => Asked' /\ Len(sent') = 1
        /\ pc' = "panicked" => Asked' /\ ~arg'.ts /\ Len(sent') = 1
        /\ pc' = "request" => Len(replies') = Len(sent') /\ AuthSettled'
        /\ pc' \in {"token", "jwt", "panicked", "request"}
    BY <1>1, <1>2
  <2> QED
    BY <1>1, <2>1, <2>2, <2>3, <2>4, <2>5 DEF OrderOK
<1>4. WireOK'
  BY <1>1 DEF WireOK
<1> QED
  BY <1>2, <1>3, <1>4 DEF Flow

\* A frame goes out with no reply unread.
LEMMA FlowWrite ==
  ASSUME Base, Flow, NEW f \in Frames, NEW label \in {"greeting", "auth", "header"},
         Write(f, label), wire = << >>, out = << >>, Len(replies) >= Len(sent),
         pc \in {"hello", "jwt", "request"}, stage = "none",
         label = "greeting" => Len(sent) = 0 /\ f.kind = "greeting",
         label = "auth" => Len(sent) = 1 /\ f.kind = "auth" /\ Asked,
         label = "header" => Len(sent) >= 1 /\ f.kind = "connect" /\ AuthSettled,
         Declares(f)
  PROVE  Flow'
<1>1. /\ pc' = label /\ sent' = Append(sent, f)
      /\ UNCHANGED <<arg, stage, rep, need, replies, overlay, wire, out>>
  BY DEF Write, proxy
<1>2. sent \in Seq(Frames) /\ FramesOK
  BY DEF Base, Flow, TypeOK
<1>3. FramesOK'
  <2>0. Len(sent) \in Nat
    BY <1>2
  <2>1. f.kind = "greeting" <=> Len(sent) = 0
    <3>1. CASE label = "greeting"
      BY <3>1
    <3>2. CASE label = "auth"
      <4>1. Len(sent) = 1
        BY <3>2
      <4>2. f.kind = "auth"
        BY <3>2
      <4> QED
        BY <4>1, <4>2
    <3>3. CASE label = "header"
      BY <2>0, <3>3
    <3> QED
      BY <3>1, <3>2, <3>3
  <2>2. f.kind = "auth" => Len(sent) = 1
    OBVIOUS
  <2> QED
    BY <1>1, <1>2, <2>1, <2>2, FramesWrite
<1>4. /\ Asked => Asked'
      /\ AuthSettled => AuthSettled'
      /\ Len(sent) >= 2 => Len(sent') >= 2 /\ sent'[2] = sent[2]
  <2>1. replies \in Seq(Seq(Bytes)) /\ Len(replies) =< Len(sent) /\ << >> \in Seq(Bytes)
    BY <1>2, EmptySeq DEF FramesOK
  <2> QED
    BY <1>1, <1>2, <2>1, Kept
<1>5. /\ SentKind("auth")' <=> SentKind("auth") \/ f.kind = "auth"
      /\ SentKind("connect")' <=> SentKind("connect") \/ f.kind = "connect"
  BY <1>1, <1>2, SentGrows
<1>6. /\ Len(sent) \in Nat /\ Len(sent') = Len(sent) + 1 /\ sent'[Len(sent')] = f
      /\ Len(replies) \in Nat /\ Len(replies) = Len(sent)
  BY <1>1, <1>2, AppendProperties DEF FramesOK
<1>7. OrderOK'
  <2>1. overlay' = "fresh" /\ stage' = "none"
    BY <1>1 DEF Flow, OrderOK
  <2>2. pc' = "greeting" => Len(sent') = 1
    BY <1>1, <1>6
  <2>3. pc' = "auth" => Len(sent') = 2 /\ sent'[2].kind = "auth" /\ Asked'
    BY <1>1, <1>4, <1>6
  <2>4. pc' = "header" => /\ Len(sent') >= 1 /\ sent'[Len(sent')].kind = "connect"
                          /\ Len(replies') >= Len(sent') - 1 /\ AuthSettled'
    BY <1>1, <1>4, <1>6
  <2>5. pc' # "header" => ~SentKind("connect")'
    BY <1>1, <1>5 DEF Flow, OrderOK
  <2>6. SentKind("auth")' => Len(sent') >= 2 /\ sent'[2].kind = "auth" /\ Asked'
    <3>1. CASE SentKind("auth")
      BY <1>4, <3>1 DEF Flow, OrderOK
    <3>2. CASE f.kind = "auth"
      <4>1. label = "auth"
        BY <3>2
      <4> QED
        BY <1>1, <2>3, <4>1, <1>6
    <3> QED
      BY <1>5, <3>1, <3>2
  <2>7. SentKind("connect")' => AuthSettled'
    <3>1. CASE SentKind("connect")
      BY <1>4, <3>1 DEF Flow, OrderOK
    <3>2. CASE f.kind = "connect"
      BY <1>4, <3>2
    <3> QED
      BY <1>5, <3>1, <3>2
  <2>8. pc' \in {"greeting", "auth", "header"}
    BY <1>1
  <2> QED
    BY <2>1, <2>2, <2>3, <2>4, <2>5, <2>6, <2>7, <2>8 DEF OrderOK
<1>8. WireOK'
  BY <1>1, <1>6 DEF WireOK
<1> QED
  BY <1>3, <1>7, <1>8 DEF Flow

\* A reply begins when the client waits for it and has read all before it.
LEMMA FlowReply ==
  ASSUME Base, Flow, Reply
  PROVE  Flow'
<1> DEFINE n == Len(replies)
<1>1. PICK r \in ReplySet(sent[n + 1].kind) :
        /\ replies' = Append(replies, r)
        /\ out' = out \o r \o IF sent[n + 1].kind = "connect" /\ r[2] = 0
                                THEN Payload ELSE << >>
  BY DEF Reply, ReplySet
<1>2. /\ UNCHANGED <<arg, pc, stage, rep, need, sent, wire, closed, overlay>>
      /\ ~closed /\ conn = "open" /\ n < Len(sent)
  BY DEF Reply, client
<1>3. sent \in Seq(Frames) /\ FramesOK /\ OrderOK /\ n \in Nat /\ Len(sent) \in Nat
      /\ replies \in Seq(Seq(Bytes))
  BY DEF Base, TypeOK, Flow, FramesOK
<1>4. pc \in {"greeting", "auth", "header"} /\ Len(sent) = n + 1
  <2>1. pc \in DOMAIN IOStage \cup {"token", "ok", "panicked"}
    BY <1>2 DEF Base, TypeOK, ConnOK
  <2>2. pc \notin {"hello", "request", "length", "bound", "ok"}
    BY <1>2, <1>3, <2>1 DEF OrderOK
  <2>3. pc \notin {"token", "jwt", "panicked"}
    BY <1>2, <1>3, <2>1 DEF OrderOK, Asked
  <2>4. pc \in {"greeting", "auth", "header"}
    BY <2>1, <2>2, <2>3 DEF IOStage
  <2>5. pc = "greeting" => Len(sent) = 1
    BY <1>3 DEF OrderOK
  <2>6. pc = "auth" => Len(sent) = 2 /\ n >= 1
    BY <1>3 DEF OrderOK, Asked
  <2>7. pc = "header" => n >= Len(sent) - 1
    BY <1>3 DEF OrderOK
  <2>8. pc = "greeting" => Len(sent) = n + 1
    BY <1>2, <1>3, <2>5
  <2>9. pc = "auth" => Len(sent) = n + 1
    BY <1>2, <1>3, <2>6
  <2>10. pc = "header" => Len(sent) = n + 1
    BY <1>2, <1>3, <2>7
  <2> QED
    BY <2>4, <2>8, <2>9, <2>10
<1>5. wire = << >> /\ out = << >>
  BY <1>2, <1>4 DEF Flow, WireOK
<1>6. r \in Seq(Bytes) /\ Payload \in Seq(Bytes)
  BY <1>1, ReplyAssumption DEF ReplySet
<1>7. FramesOK' /\ Len(replies') = n + 1 /\ Last' = r
  BY <1>1, <1>2, <1>3, <1>6, FramesReply
<1>8. (Asked => Asked') /\ (AuthSettled => AuthSettled')
  <2>1. PICK f \in Frames : f = sent[n + 1]
    BY <1>3, <1>4, ElementOfSeq
  <2> QED
    <3>1. sent' = sent \/ sent' = Append(sent, f)
      BY <1>2
    <3>2. replies' = replies \/ replies' = Append(replies, r)
      BY <1>1
    <3>3. Len(replies) =< Len(sent)
      BY <1>2, <1>3
    <3> QED
      BY <1>3, <1>6, <3>1, <3>2, <3>3, Kept
<1>9. /\ SentKind("auth")' <=> SentKind("auth")
      /\ SentKind("connect")' <=> SentKind("connect")
  BY <1>2 DEF SentKind
<1>10. OrderOK'
  <2>1. pc' # "ok" /\ overlay' = "fresh" /\ stage' = stage
    BY <1>2, <1>3, <1>4 DEF OrderOK
  <2>2. /\ pc' = "greeting" => Len(sent') = 1
        /\ pc' = "auth" => Len(sent') = 2 /\ sent'[2].kind = "auth" /\ Asked'
        /\ pc' \in {"greeting", "auth"} => ~SentKind("connect")'
    BY <1>2, <1>3, <1>8, <1>9 DEF OrderOK
  <2>3. pc' = "header" => /\ Len(sent') >= 1 /\ sent'[Len(sent')].kind = "connect"
                          /\ Len(replies') >= Len(sent') - 1 /\ AuthSettled'
    BY <1>2, <1>3, <1>4, <1>7, <1>8 DEF OrderOK
  <2>4. /\ SentKind("auth")' => Len(sent') >= 2 /\ sent'[2].kind = "auth" /\ Asked'
        /\ SentKind("connect")' => AuthSettled'
    BY <1>2, <1>3, <1>8, <1>9 DEF OrderOK
  <2>5. /\ stage' = "greeting" => Len(sent') =< 1
        /\ stage' = "auth" => Asked' /\ ~SentKind("connect")'
        /\ stage' = "connect" => AuthSettled'
    BY <1>2, <1>3, <1>8, <1>9 DEF OrderOK
  <2>6. pc' \in {"greeting", "auth", "header"}
    BY <1>2, <1>4
  <2> QED
    BY <2>1, <2>2, <2>3, <2>4, <2>5, <2>6 DEF OrderOK
<1>11. WireOK'
  <2> DEFINE more == IF sent[n + 1].kind = "connect" /\ r[2] = 0 THEN Payload ELSE << >>
             st   == r \o more
  <2>1. more \in Seq(Bytes)
    BY <1>6, EmptySeq
  <2>2. out' = out \o r \o more
    BY <1>1
  <2>3. Stream' = st
    <3>1. Stream' = Last' \o IF sent'[Len(replies')].kind = "connect" /\ Last'[2] = 0
                               THEN Payload ELSE << >>
      BY DEF Stream
    <3> QED
      BY <1>2, <1>7, <3>1
  <2> HIDE DEF more
  <2>4. << >> \o r = r
    BY <1>6, ConcatEmptySeq
  <2>5. out' = st /\ st \in Seq(Bytes)
    BY <1>5, <1>6, <2>1, <2>2, <2>4, ConcatProperties
  <2> HIDE DEF st
  <2>6. Remains(<< >>, st, FALSE, st, 0)
    BY <2>5, RemainsAll
  <2>7. wire' = << >> /\ closed' = FALSE
    BY <1>2, <1>5 DEF Base, TypeOK
  <2>8. Unread(Stream, 0)'
    BY <2>3, <2>5, <2>6, <2>7 DEF Unread
  <2>9. ~(Len(replies') < Len(sent')) /\ pc' \in {"greeting", "auth", "header"}
    BY <1>2, <1>3, <1>4, <1>7
  <2> QED
    BY <2>8, <2>9 DEF WireOK
<1> QED
  BY <1>7, <1>10, <1>11 DEF Flow

\* What drainBoundAddr has to discard is a length.
LEMMA NeedType == TypeOK => need \in Nat
<1> SUFFICES ASSUME TypeOK PROVE need \in Nat
  OBVIOUS
<1>1. need = 0 \/ need \in 2..257
  BY DEF TypeOK
<1> QED
  BY <1>1

\* The length of a sequence is a number.
LEMMA LengthType == \A r \in Seq(Bytes) : Len(r) \in Nat
  OBVIOUS

\* A length that fits a byte.
LEMMA ShortType == \A n \in Nat : n =< 255 => n \in 0..255
  OBVIOUS

\* A difference of lengths.
LEMMA MinusType == \A a, b \in Nat : b =< a => a - b \in Nat
  OBVIOUS

\* The client stays where it is while bytes move or the proxy closes.
LEMMA FlowMove ==
  ASSUME Base, Flow,
         UNCHANGED <<arg, pc, stage, rep, need, sent, replies, overlay>>,
         wire = << >> /\ out = << >> => wire' = << >> /\ out' = << >>,
         \A k \in Nat : Unread(Stream, k) /\ Len(replies) >= 1
                          => Remains(wire', out', closed', Stream, k)
  PROVE  Flow'
<1>1. FramesOK'
  BY DEF Flow, FramesOK
<1>2. OrderOK'
  BY DEF Flow, OrderOK, Asked, AuthSettled, SentKind
<1>3. Last' = Last /\ Stream' = Stream
  BY DEF Last, Stream
<1>4. \A k \in Nat : Unread(Stream, k) /\ Len(replies) >= 1 => Unread(Stream, k)'
  BY <1>3 DEF Unread
<1>5. sent \in Seq(Frames) /\ FramesOK /\ OrderOK
      /\ Len(replies) \in Nat /\ Len(sent) \in Nat /\ Len(replies) =< Len(sent)
  BY DEF Base, TypeOK, Flow, FramesOK
<1>6. pc \in {"greeting", "auth", "header", "length", "bound", "ok"} => Len(sent) >= 1
  <2>1. pc = "greeting" => Len(sent) = 1
    BY <1>5 DEF OrderOK
  <2>2. pc = "auth" => Len(sent) = 2
    BY <1>5 DEF OrderOK
  <2>3. pc \in {"header", "length", "bound", "ok"} => Len(sent) >= 1
    BY <1>5 DEF OrderOK
  <2> QED
    BY <2>1, <2>2, <2>3
<1>7. pc \in {"length", "bound", "ok"} => Len(replies) >= 1
  BY <1>5, <1>6 DEF OrderOK
<1>8. Len(replies) >= 1 => Last \in Seq(Bytes)
  BY <1>5, StreamFacts
<1>9. WireOK'
  <2>1. pc' \in {"idle", "tcp", "hello", "token", "jwt", "request"} =>
          wire' = << >> /\ out' = << >>
    BY DEF Flow, WireOK
  <2>2. ASSUME pc' \in {"greeting", "auth", "header"}
        PROVE  IF Len(replies') < Len(sent') THEN wire' = << >> /\ out' = << >>
                                             ELSE Unread(Stream, 0)'
    <3>1. IF Len(replies) < Len(sent) THEN wire = << >> /\ out = << >> ELSE Unread(Stream, 0)
      BY <2>2 DEF Flow, WireOK
    <3>2. CASE Len(replies) < Len(sent)
      BY <3>1, <3>2
    <3>3. CASE ~(Len(replies) < Len(sent))
      <4>1. Len(replies) >= 1
        BY <1>5, <1>6, <2>2, <3>3
      <4>2. Unread(Stream, 0)'
        BY <1>4, <3>1, <3>3, <4>1
      <4> QED
        BY <3>3, <4>2
    <3> QED
      BY <3>2, <3>3
  <2>3. pc' \in {"length", "bound", "ok"} =>
          Last'[1] = 5 /\ Last'[4] \in {1, 3, 4} /\ rep' = Last'[2]
    BY <1>3 DEF Flow, WireOK
  <2>4. pc' = "length" => Last'[4] = 3 /\ Unread(Stream, 4)'
    BY <1>3, <1>4, <1>7 DEF Flow, WireOK
  <2>5. ASSUME pc' = "bound" PROVE need' =< Len(Last') /\ Unread(Stream, Len(Last) - need)'
    <3>1. need =< Len(Last) /\ Unread(Stream, Len(Last) - need) /\ Len(replies) >= 1
      BY <1>7, <2>5 DEF Flow, WireOK
    <3>2. need \in Nat
      BY NeedType DEF Base
    <3>3. Len(Last) \in Nat
      BY <1>8, <3>1, LengthType
    <3>4. PICK k \in Nat : k = Len(Last) - need
      BY <3>1, <3>2, <3>3, MinusType
    <3>5. Remains(wire', out', closed', Stream, k)
      BY <3>1, <3>4
    <3> QED
      BY <1>3, <3>1, <3>4, <3>5 DEF Unread
  <2>6. ASSUME pc' = "ok" PROVE rep' = 0 /\ (overlay' = "fresh" => Unread(Stream, Len(Last))')
    <3>1. rep = 0 /\ (overlay = "fresh" => Unread(Stream, Len(Last))) /\ Len(replies) >= 1
      BY <1>7, <2>6 DEF Flow, WireOK
    <3>2. PICK k \in Nat : k = Len(Last)
      BY <1>8, <3>1, LengthType
    <3>3. overlay = "fresh" => Remains(wire', out', closed', Stream, k)
      BY <3>1, <3>2
    <3> QED
      BY <1>3, <3>1, <3>2, <3>3 DEF Unread
  <2> QED
    BY <2>1, <2>2, <2>3, <2>4, <2>5, <2>6 DEF WireOK
<1> QED
  BY <1>1, <1>2, <1>9 DEF Flow

\* The client goes on in the CONNECT reply.
LEMMA FlowOn ==
  ASSUME Flow, pc \in {"header", "length", "bound"}, pc' \in {"length", "bound", "ok"},
         Len(replies) = Len(sent), UNCHANGED <<arg, stage, sent, replies, overlay>>
  PROVE  FramesOK' /\ OrderOK' /\ Last' = Last /\ Stream' = Stream
<1>1. FramesOK' /\ (Asked' <=> Asked) /\ (AuthSettled' <=> AuthSettled)
  BY DEF Flow, FramesOK, Asked, AuthSettled
<1>2. /\ SentKind("auth")' <=> SentKind("auth")
      /\ SentKind("connect")' <=> SentKind("connect")
  BY DEF SentKind
<1>3. OrderOK'
  <2>1. /\ Len(sent) >= 1 /\ sent[Len(sent)].kind = "connect" /\ AuthSettled
        /\ Len(replies) >= Len(sent) - 1 /\ overlay = "fresh"
    BY DEF Flow, OrderOK
  <2>2. SentKind("auth")' => Len(sent') >= 2 /\ sent'[2].kind = "auth" /\ Asked'
    BY <1>1, <1>2 DEF Flow, OrderOK
  <2>3. /\ stage' = "greeting" => Len(sent') =< 1
        /\ stage' = "auth" => Asked' /\ ~SentKind("connect")'
        /\ stage' = "connect" => AuthSettled'
    BY <1>1, <1>2 DEF Flow, OrderOK
  <2> QED
    BY <1>1, <2>1, <2>2, <2>3 DEF OrderOK
<1> QED
  BY <1>1, <1>3 DEF Last, Stream

\* The reply to CONNECT is as long as its address says.
LEMMA ConnectLength ==
  ASSUME NEW r \in ConnectReplies, r[1] = 5, r[4] \in {1, 3, 4}
  PROVE  /\ r \in Seq(Bytes) /\ Len(r) \in Nat /\ Len(r) >= 5
         /\ r[4] = 1 => Len(r) = 10
         /\ r[4] = 3 => Len(r) = 7 + r[5] /\ r[5] \in Bytes
         /\ r[4] = 4 => Len(r) = 22
<1>1. r \in Seq(Bytes) /\ Len(r) >= 5
      /\ Len(r) = CASE r[4] = 1 -> 10 [] r[4] = 3 -> 7 + r[5] [] OTHER -> 22
  BY ReplyAssumption
<1>2. Len(r) \in Nat
  BY <1>1
<1>3. r[5] \in Bytes
  <2>1. 5 \in 1..Len(r)
    BY <1>1, <1>2
  <2> QED
    BY <1>1, <2>1, ElementOfSeq
<1> QED
  BY <1>1, <1>2, <1>3

\* What the client knows before it reads from the reply to its CONNECT.
LEMMA InConnect ==
  ASSUME Base, Flow, pc \in {"header", "length", "bound"}, Len(replies) = Len(sent)
  PROVE  /\ FramesOK /\ TypeOK /\ Len(replies) >= 1 /\ Last \in ConnectReplies
         /\ Last \in Seq(Bytes) /\ Len(Last) \in Nat /\ AuthSettled
         /\ \A i \in 1..Len(Last) : Stream[i] = Last[i]
<1>1. FramesOK /\ TypeOK /\ sent \in Seq(Frames) /\ OrderOK
  BY DEF Base, Flow, TypeOK
<1>2. Len(sent) >= 1 /\ sent[Len(sent)].kind = "connect" /\ AuthSettled
  BY <1>1 DEF OrderOK
<1> QED
  BY <1>1, <1>2, StreamFacts, LengthType

\* The first four bytes of the CONNECT reply.
LEMMA FlowHeader ==
  ASSUME Base, Flow, ReadHeader
  PROVE  Flow'
<1>0. pc = "header" /\ ReadFull(4)
  BY DEF ReadHeader
<1>1. wire # << >>
  BY <1>0 DEF ReadFull
<1>2. Len(replies) = Len(sent) /\ Unread(Stream, 0)
  <2>1. IF Len(replies) < Len(sent) THEN wire = << >> /\ out = << >> ELSE Unread(Stream, 0)
    BY <1>0 DEF Flow, WireOK
  <2>2. ~(Len(replies) < Len(sent))
    BY <1>1, <2>1
  <2>3. Len(replies) \in Nat /\ Len(sent) \in Nat /\ Len(replies) =< Len(sent)
    BY DEF Base, TypeOK, Flow, FramesOK
  <2>4. Len(replies) = Len(sent)
    BY <2>2, <2>3
  <2> QED
    BY <2>1, <2>2, <2>4
<1>3. /\ FramesOK /\ TypeOK /\ Len(replies) >= 1 /\ Last \in ConnectReplies
      /\ Last \in Seq(Bytes) /\ Len(Last) \in Nat /\ AuthSettled
      /\ \A i \in 1..Len(Last) : Stream[i] = Last[i]
  BY <1>0, <1>2, InConnect
<1>4. UNCHANGED <<now, replies, out, closed, overlay>> /\ UNCHANGED sent
  BY <1>0 DEF ReadFull, proxy, ReadHeader, Fail
<1>5. /\ \A i \in 1..4 : wire[i] = Stream[0 + i]
      /\ Remains(wire', out', closed', Stream', 0 + 4)
  BY <1>0, <1>2, <1>3, <1>4, ReadUnread
<1>6. Len(Last) >= 5
  BY <1>3, ReplyAssumption
<1>7. wire[1] = Last[1] /\ wire[2] = Last[2] /\ wire[4] = Last[4]
  BY <1>3, <1>5, <1>6
<1>8. CASE Fail("connect")
  BY <1>0, <1>3, <1>4, <1>8, FlowFail DEF Working, IOStage
<1>9. CASE ~Fail("connect")
  <2>1. /\ wire[1] = 5 /\ wire[4] \in {1, 3, 4}
        /\ pc' = IF wire[4] = 3 THEN "length" ELSE "bound"
        /\ need' = CASE wire[4] = 1 -> Discard(4)
                     [] wire[4] = 4 -> Discard(16)
                     [] OTHER       -> 0
        /\ rep' = wire[2]
        /\ UNCHANGED <<arg, stage, sent>>
    BY <1>9 DEF ReadHeader
  <2>2. FramesOK' /\ OrderOK' /\ Last' = Last /\ Stream' = Stream
    BY <1>0, <1>2, <1>4, <2>1, FlowOn
  <2>3. Last[1] = 5 /\ Last[4] \in {1, 3, 4} /\ rep' = Last[2]
    BY <1>7, <2>1
  <2>4. Unread(Stream, 4)'
    BY <1>5 DEF Unread
  <2>5. CASE Last[4] = 3
    BY <1>7, <2>1, <2>2, <2>3, <2>4, <2>5 DEF WireOK, Flow
  <2>6. CASE Last[4] # 3
    <3>1. pc' = "bound"
      BY <1>7, <2>1, <2>6
    <3>2. need' =< Len(Last) /\ Len(Last) - need' = 4
      <4>1. CASE Last[4] = 1
        <5>1. Len(Last) = 10
          BY <1>3, <2>3, <4>1, ConnectLength
        <5>2. need' = 6
          BY <1>7, <2>1, <4>1, DiscardType
        <5> QED
          BY <5>1, <5>2
      <4>2. CASE Last[4] = 4
        <5>1. Len(Last) = 22
          BY <1>3, <2>3, <4>2, ConnectLength
        <5>2. need' = 18
          BY <1>7, <2>1, <4>2, DiscardType
        <5> QED
          BY <5>1, <5>2
      <4> QED
        BY <2>3, <2>6, <4>1, <4>2
    <3>3. Unread(Stream, Len(Last) - need)'
      <4>1. Len(Last)' - need' = 4
        BY <2>2, <3>2
      <4> QED
        BY <2>4, <4>1 DEF Unread
    <3> QED
      BY <2>2, <2>3, <3>1, <3>2, <3>3 DEF WireOK, Flow
  <2> QED
    BY <2>5, <2>6
<1> QED
  BY <1>8, <1>9

\* The length byte of a domain name.
LEMMA FlowLength ==
  ASSUME Base, Flow, ReadLength
  PROVE  Flow'
<1>0. pc = "length" /\ ReadFull(1) /\ pc' = "bound" /\ need' = Discard(wire[1])
      /\ UNCHANGED <<arg, stage, rep, sent>>
  BY DEF ReadLength
<1>1. /\ Len(replies) = Len(sent) /\ Unread(Stream, 4)
      /\ Last[1] = 5 /\ Last[4] = 3 /\ rep = Last[2]
  <2>1. Len(replies) = Len(sent)
    BY <1>0 DEF Flow, OrderOK
  <2> QED
    BY <1>0, <2>1 DEF Flow, WireOK
<1>2. /\ FramesOK /\ TypeOK /\ Len(replies) >= 1 /\ Last \in ConnectReplies
      /\ Last \in Seq(Bytes) /\ Len(Last) \in Nat
      /\ \A i \in 1..Len(Last) : Stream[i] = Last[i]
  BY <1>0, <1>1, InConnect
<1>3. UNCHANGED <<now, replies, out, closed, overlay>>
  BY <1>0 DEF ReadFull, proxy
<1>4. FramesOK' /\ OrderOK' /\ Last' = Last /\ Stream' = Stream
  BY <1>0, <1>1, <1>3, FlowOn
<1>5. /\ \A i \in 1..1 : wire[i] = Stream[4 + i]
      /\ Remains(wire', out', closed', Stream', 4 + 1)
  BY <1>0, <1>1, <1>2, ReadUnread
<1>6. Len(Last) = 7 + Last[5] /\ Last[5] \in Bytes /\ Len(Last) >= 5
  BY <1>1, <1>2, ConnectLength
<1>7. wire[1] = Last[5]
  BY <1>2, <1>5, <1>6
<1>8. need' = Last[5] + 2
  BY <1>0, <1>7 DEF Discard
<1>9. need' =< Len(Last) /\ Len(Last) - need' = 5
  <2>1. PICK b \in 0..255 : b = Last[5]
    BY <1>6 DEF Bytes
  <2>2. need' = b + 2 /\ Len(Last) = 7 + b
    BY <1>6, <1>8, <2>1
  <2> QED
    BY <2>2
<1>10. Unread(Stream, Len(Last) - need)'
  <2>1. Len(Last)' - need' = 5
    BY <1>4, <1>9
  <2> QED
    BY <1>5, <2>1 DEF Unread
<1>11. WireOK'
  BY <1>0, <1>1, <1>4, <1>9, <1>10 DEF WireOK
<1> QED
  BY <1>4, <1>11 DEF Flow

\* The rest of the bound address, and the verdict.
LEMMA FlowBound ==
  ASSUME Base, Flow, ReadBound
  PROVE  Flow'
<1>0. pc = "bound" /\ ReadFull(need) /\ IF rep = 0 THEN Goto("ok") ELSE Fail("connect")
  BY DEF ReadBound
<1>1. /\ Len(replies) = Len(sent) /\ Unread(Stream, Len(Last) - need) /\ need =< Len(Last)
      /\ Last[1] = 5 /\ Last[4] \in {1, 3, 4} /\ rep = Last[2]
  <2>1. Len(replies) = Len(sent)
    BY <1>0 DEF Flow, OrderOK
  <2> QED
    BY <1>0, <2>1 DEF Flow, WireOK
<1>2. /\ FramesOK /\ TypeOK /\ Len(replies) >= 1 /\ AuthSettled
      /\ Last \in Seq(Bytes) /\ Len(Last) \in Nat
  BY <1>0, <1>1, InConnect
<1>3. UNCHANGED <<now, replies, out, closed, overlay>>
  BY <1>0 DEF ReadFull, proxy
<1>4. CASE rep # 0
  <2>1. Fail("connect")
    BY <1>0, <1>4
  <2> QED
    BY <1>0, <1>2, <1>3, <2>1, FlowFail DEF Working, IOStage
<1>5. CASE rep = 0
  <2>1. pc' = "ok" /\ UNCHANGED <<arg, stage, rep, sent>>
    BY <1>0, <1>5 DEF Goto
  <2>2. FramesOK' /\ OrderOK' /\ Last' = Last /\ Stream' = Stream
    BY <1>0, <1>1, <1>3, <2>1, FlowOn
  <2>3. need \in Nat
    BY <1>2, NeedType
  <2>4. PICK k \in Nat : k = Len(Last) - need
    BY <1>1, <1>2, <2>3, MinusType
  <2>5. Unread(Stream, k)
    BY <1>1, <2>4
  <2>6. Remains(wire', out', closed', Stream', k + need)
    BY <1>0, <1>2, <2>1, <2>3, <2>5, ReadUnread
  <2>7. k + need = Len(Last)
    BY <1>2, <2>3, <2>4
  <2>8. Unread(Stream, Len(Last))'
    BY <2>2, <2>6, <2>7 DEF Unread
  <2>9. WireOK'
    BY <1>1, <1>5, <2>1, <2>2, <2>8 DEF WireOK
  <2> QED
    BY <2>2, <2>9 DEF Flow
<1> QED
  BY <1>4, <1>5

\* The greeting's reply says how to go on.
LEMMA FlowGreeting ==
  ASSUME Base, Flow, ReadGreeting
  PROVE  Flow'
<1>0. pc = "greeting" /\ ReadFull(2) /\ UNCHANGED sent
  BY DEF ReadGreeting, Fail, Goto
<1>1. /\ Len(replies) = Len(sent) /\ Last = <<wire[1], wire[2]>>
      /\ wire' = << >> /\ out' = << >>
  BY <1>0, ReadReply
<1>2. Len(sent) = 1 /\ ~SentKind("connect")
  BY <1>0 DEF Flow, OrderOK
<1>3. Len(replies) = 1 /\ replies[1] = <<wire[1], wire[2]>>
  BY <1>1, <1>2 DEF Last
<1>4. UNCHANGED <<replies, overlay>> /\ pc \in Working
  BY <1>0 DEF ReadFull, proxy, Working, IOStage
<1>5. CASE Fail("greeting")
  BY <1>2, <1>4, <1>5, FlowFail
<1>6. CASE Goto("token") \/ (Goto("panicked") /\ ~arg.ts)
  <2>1. Asked
    <3>1. Fail("greeting") \/ (wire[1] = 5 /\ wire[2] = SAP) \/ Goto("request")
      BY DEF ReadGreeting
    <3>2. ~Fail("greeting") /\ ~Goto("request")
      BY <1>6 DEF Fail, Goto
    <3> QED
      BY <1>3, <3>1, <3>2 DEF Asked
  <2>2. CASE Goto("token")
    BY <1>1, <1>2, <1>4, <2>1, <2>2, FlowGoto
  <2>3. CASE Goto("panicked") /\ ~arg.ts
    BY <1>1, <1>2, <1>4, <2>1, <2>3, FlowGoto
  <2> QED
    BY <1>6, <2>2, <2>3
<1>7. CASE Goto("request")
  <2>1. wire[1] = 5 /\ wire[2] = NoAuth
    <3>1. Fail("greeting") \/ Goto("token") \/ Goto("panicked") \/ (wire[1] = 5 /\ wire[2] = NoAuth)
      BY DEF ReadGreeting
    <3> QED
      BY <1>7, <3>1 DEF Fail, Goto
  <2>2. AuthSettled
    BY <1>3, <2>1 DEF AuthSettled
  <2> QED
    BY <1>1, <1>2, <1>4, <1>7, <2>2, FlowGoto
<1>8. \/ Fail("greeting") \/ Goto("token") \/ (Goto("panicked") /\ ~arg.ts) \/ Goto("request")
  BY DEF ReadGreeting
<1> QED
  BY <1>5, <1>6, <1>7, <1>8

\* The proxy's verdict on the JWT.
LEMMA FlowAuth ==
  ASSUME Base, Flow, ReadAuth
  PROVE  Flow'
<1>0. pc = "auth" /\ ReadFull(2) /\ UNCHANGED sent
      /\ (Fail("auth") \/ (Goto("request") /\ wire[1] = 1 /\ wire[2] = 0))
  BY DEF ReadAuth, Fail, Goto, Ack
<1>1. /\ Len(replies) = Len(sent) /\ Last = <<wire[1], wire[2]>>
      /\ wire' = << >> /\ out' = << >>
  BY <1>0, ReadReply
<1>2. Len(sent) = 2 /\ sent[2].kind = "auth" /\ Asked /\ ~SentKind("connect")
  BY <1>0 DEF Flow, OrderOK
<1>3. UNCHANGED <<replies, overlay>> /\ pc \in Working
  BY <1>0 DEF ReadFull, proxy, Working, IOStage
<1>4. CASE Fail("auth")
  BY <1>2, <1>3, <1>4, FlowFail
<1>5. CASE Goto("request") /\ wire[1] = 1 /\ wire[2] = 0
  <2>1. Len(replies) = 2 /\ replies[2] = <<1, 0>>
    BY <1>1, <1>2, <1>5 DEF Last
  <2>2. replies[1][1] = 5 /\ replies[1][2] = SAP
    BY <1>2 DEF Asked
  <2>3. AuthSettled
    BY <1>2, <2>1, <2>2 DEF AuthSettled
  <2> QED
    BY <1>1, <1>2, <1>3, <1>5, <2>3, FlowGoto
<1> QED
  BY <1>0, <1>4, <1>5

\* An error records how far the client got.
LEMMA FlowIOFails ==
  ASSUME Base, Flow, pc \in Working, NEW s \in {"greeting", "auth", "connect"}, Fail(s),
         s = "greeting" => pc \in {"hello", "greeting"},
         s = "auth" => pc \in {"token", "jwt", "auth"},
         s = "connect" => pc \in {"request", "header", "length", "bound"},
         UNCHANGED <<replies, overlay>>
  PROVE  Flow'
<1>1. s = "greeting" => Len(sent) =< 1
  <2>1. CASE pc = "hello"
    <3>1. Len(sent) = 0
      BY <2>1 DEF Flow, OrderOK
    <3>2. Len(sent) =< 1
      BY <3>1
    <3> QED
      BY <3>2
  <2>2. CASE pc = "greeting"
    <3>1. Len(sent) = 1
      BY <2>2 DEF Flow, OrderOK
    <3>2. Len(sent) =< 1
      BY <3>1
    <3> QED
      BY <3>2
  <2> QED
    BY <2>1, <2>2, Zenon
<1>2. s = "auth" => Asked /\ ~SentKind("connect")
  BY DEF Flow, OrderOK
<1>3. s = "connect" => AuthSettled
  BY DEF Flow, OrderOK
<1> QED
  BY <1>1, <1>2, <1>3, FlowFail

\* Before the first frame nothing has been sent or answered.
LEMMA FlowBegin ==
  ASSUME Base, Flow, pc \in {"idle", "tcp"}, pc' \in {"tcp", "hello", "failed"},
         stage' \in {"none", "dial"},
         UNCHANGED <<arg, rep, need, sent, replies, out, wire, closed, overlay>>
  PROVE  Flow'
<1>1. FramesOK' /\ sent' = << >> /\ overlay' = "fresh" /\ wire' = << >> /\ out' = << >>
  BY DEF Flow, FramesOK, OrderOK, WireOK
<1>2. ~SentKind("auth")' /\ ~SentKind("connect")'
  BY <1>1 DEF SentKind
<1>3. OrderOK'
  BY <1>1, <1>2 DEF OrderOK
<1>4. WireOK'
  BY <1>1 DEF WireOK
<1> QED
  BY <1>1, <1>3, <1>4 DEF Flow

\* A call begins with nothing sent, answered or on the wire.
LEMMA FlowInit == Init => Flow
<1> SUFFICES ASSUME Init PROVE Flow
  OBVIOUS
<1>1. sent = << >> /\ replies = << >> /\ replies \in Seq(Seq(Bytes))
      /\ Len(sent) = 0 /\ Len(replies) = 0
  BY EmptySeq DEF Init
<1>2. FramesOK
  BY <1>1 DEF FramesOK
<1>3. ~SentKind("auth") /\ ~SentKind("connect")
  BY <1>1 DEF SentKind
<1>4. OrderOK
  BY <1>1, <1>3 DEF Init, OrderOK
<1>5. WireOK
  BY DEF Init, WireOK
<1> QED
  BY <1>2, <1>4, <1>5 DEF Flow

\* Every step keeps the order of the frames and the place in the stream.
LEMMA FlowStep == Base /\ Flow /\ [Next]_vars => Flow'
<1> SUFFICES ASSUME Base, Flow, [Next]_vars PROVE Flow'
  OBVIOUS
<1>0. /\ wire \in Seq(Bytes) /\ out \in Seq(Bytes) /\ closed \in BOOLEAN
      /\ sent \in Seq(Frames) /\ replies \in Seq(Seq(Bytes)) /\ FramesOK
      /\ arg.host \in Nat /\ arg.loc \in Nat
  BY DEF Base, TypeOK, ArgOK, Flow, FramesOK
<1>1. CASE UNCHANGED vars \/ Tick
  BY <1>1, FlowSame DEF vars, Tick, client, proxy
<1>2. CASE Dial \/ TcpConnect \/ TcpFails
  BY <1>2, FlowBegin DEF Dial, TcpConnect, TcpFails, proxy, Base, ConnOK
<1>3. CASE IOFails
  <2>1. PICK s \in {"greeting", "auth", "connect"} : s = IOStage[pc] /\ Fail(s)
    BY <1>3 DEF IOFails, IOStage
  <2>2. pc \in Working /\ UNCHANGED <<replies, overlay>>
    BY <1>3 DEF IOFails, Working, proxy
  <2>3. /\ s = "greeting" => pc \in {"hello", "greeting"}
        /\ s = "auth" => pc \in {"token", "jwt", "auth"}
        /\ s = "connect" => pc \in {"request", "header", "length", "bound"}
    BY <1>3, <2>1 DEF IOFails, IOStage
  <2> QED
    BY <2>1, <2>2, <2>3, FlowIOFails
<1>4. CASE SendGreeting
  <2>1. PICK f \in Frames : /\ Write(f, "greeting") /\ f.kind = "greeting"
                            /\ Declares(f)
    BY <1>4 DEF SendGreeting, Frames, Bytes, SAP, NoAuth, Declares
  <2>2. /\ pc = "hello" /\ sent = << >> /\ wire = << >> /\ out = << >> /\ stage = "none"
    BY <1>4 DEF SendGreeting, Flow, OrderOK, WireOK, Base, ConnOK
  <2>3. Len(sent) = 0 /\ Len(replies) >= Len(sent)
    BY <1>0, <2>2
  <2> QED
    BY <2>1, <2>2, <2>3, FlowWrite
<1>5. CASE ReadGreeting
  BY <1>5, FlowGreeting
<1>6. CASE TokenArrives
  <2>1. /\ Len(sent) = 1 /\ Asked /\ ~SentKind("connect")
        /\ wire' = << >> /\ out' = << >> /\ UNCHANGED <<replies, overlay>>
    BY <1>6 DEF TokenArrives, proxy, Flow, OrderOK, WireOK
  <2> QED
    BY <1>6, <2>1, FlowGoto DEF TokenArrives, Working
<1>7. CASE TokenFails
  BY <1>7, FlowIOFails DEF TokenFails, Working, proxy
<1>8. CASE SendAuth
  <2>1. arg.loc \in Nat /\ arg.loc % 256 \in Bytes
    BY <1>0, ByteType
  <2>2. arg.loc =< 255 => arg.loc % 256 = arg.loc
    BY <2>1, ShortType, ByteLength
  <2> DEFINE frame == [kind |-> "auth", method |-> SAP,
                       declared |-> arg.loc % 256, length |-> arg.loc]
  <2>6. frame \in Frames
    BY <2>1 DEF Frames, SAP
  <2>7. Declares(frame)
    BY <2>2 DEF Declares
  <2>3. PICK f \in Frames : /\ Write(f, "auth") /\ f.kind = "auth"
                            /\ Declares(f)
    BY <1>8, <2>6, <2>7 DEF SendAuth
  <2>4. /\ pc = "jwt" /\ Len(sent) = 1 /\ Asked /\ wire = << >> /\ out = << >> /\ stage = "none"
    BY <1>8 DEF SendAuth, Flow, OrderOK, WireOK, Base, ConnOK, IOStage
  <2>5. Len(replies) >= Len(sent)
    BY <2>4 DEF Asked
  <2> QED
    BY <2>3, <2>4, <2>5, FlowWrite
<1>9. CASE ReadAuth
  BY <1>9, FlowAuth
<1>10. CASE SendConnect
  <2>1. /\ pc = "request" /\ pc \in Working /\ AuthSettled /\ wire = << >> /\ out = << >>
        /\ stage = "none" /\ Len(replies) = Len(sent)
    BY <1>10 DEF SendConnect, Flow, OrderOK, WireOK, Base, ConnOK, IOStage, Working
  <2>2. CASE Fail("connect") /\ UNCHANGED <<now, proxy, wire, overlay>>
    BY <2>1, <2>2, FlowFail DEF proxy
  <2>3. CASE arg.host =< 255 /\ Write(ConnectFrame, "header")
    <3>1. PICK n \in 0..255 : n = arg.host
      <4>1. arg.host \in Nat /\ arg.host =< 255
        BY <1>0, <2>3
      <4> QED
        BY <4>1, ShortType
    <3>2. n % 256 = n /\ n \in Nat /\ n \in Bytes
      BY ByteLength DEF Bytes
    <3>3. PICK f \in Frames : /\ Write(f, "header") /\ f.kind = "connect"
                              /\ Declares(f)
      BY <2>3, <3>1, <3>2 DEF ConnectFrame, Frames, NoAuth, Declares
    <3>4. Len(sent) >= 1
      BY <2>1 DEF AuthSettled
    <3> QED
      BY <2>1, <3>3, <3>4, FlowWrite
  <2> QED
    BY <1>10, <2>2, <2>3 DEF SendConnect
<1>11. CASE ReadHeader
  BY <1>11, FlowHeader
<1>12. CASE ReadLength
  BY <1>12, FlowLength
<1>13. CASE ReadBound
  BY <1>13, FlowBound
<1>14. CASE Reply
  BY <1>14, FlowReply
<1>15. ASSUME NEW k \in Nat, Unread(Stream, k), Len(replies) >= 1
       PROVE  Stream \in Seq(Bytes) /\ Remains(wire, out, closed, Stream, k)
  BY <1>0, <1>15, StreamFacts DEF Unread
<1>16. CASE Deliver
  <2>1. PICK n \in 1..Len(out) : /\ wire' = wire \o SubSeq(out, 1, n)
                                 /\ out' = SubSeq(out, n + 1, Len(out))
    BY <1>16 DEF Deliver
  <2>2. out # << >>
    BY <1>0, <2>1
  <2>3. closed = FALSE /\ UNCHANGED <<arg, pc, stage, rep, need, sent, replies, closed, overlay>>
    BY <1>0, <1>16 DEF Deliver, client
  <2>4. ASSUME NEW k \in Nat, Unread(Stream, k), Len(replies) >= 1
        PROVE  Remains(wire', out', closed', Stream, k)
    <3>1. Stream \in Seq(Bytes) /\ Remains(wire, out, FALSE, Stream, k)
      BY <1>15, <2>3, <2>4
    <3>2. Remains(wire \o SubSeq(out, 1, n), SubSeq(out, n + 1, Len(out)), FALSE, Stream, k)
      BY <1>0, <3>1, RemainsMove
    <3> QED
      BY <2>1, <2>3, <3>2
  <2> QED
    BY <2>2, <2>3, <2>4, FlowMove
<1>17. CASE ProxyCloses
  <2>1. /\ closed = FALSE /\ closed' = TRUE /\ out' = << >>
        /\ UNCHANGED <<arg, pc, stage, rep, need, sent, replies, wire, overlay>>
    BY <1>0, <1>17 DEF ProxyCloses, client
  <2>2. ASSUME NEW k \in Nat, Unread(Stream, k), Len(replies) >= 1
        PROVE  Remains(wire', out', closed', Stream, k)
    <3>1. Stream \in Seq(Bytes) /\ Remains(wire, out, FALSE, Stream, k)
      BY <1>15, <2>1, <2>2
    <3>2. Remains(wire, << >>, TRUE, Stream, k)
      BY <1>0, <3>1, RemainsCut
    <3> QED
      BY <2>1, <3>2
  <2> QED
    BY <2>1, <2>2, FlowMove
<1>18. CASE OverlayRead
  <2>1. /\ pc = "ok" /\ overlay' # "fresh"
        /\ UNCHANGED <<arg, pc, stage, rep, need, sent, replies>>
    BY <1>18 DEF OverlayRead, client, proxy
  <2>2. FramesOK' /\ Last' = Last
    BY <1>0, <2>1 DEF FramesOK, Last
  <2>3. OrderOK'
    BY <2>1 DEF Flow, OrderOK, Asked, AuthSettled, SentKind
  <2>4. WireOK'
    BY <2>1, <2>2 DEF Flow, WireOK
  <2> QED
    BY <2>2, <2>3, <2>4 DEF Flow
<1> QED
  BY <1>1, <1>2, <1>3, <1>4, <1>5, <1>6, <1>7, <1>8, <1>9, <1>10, <1>11, <1>12, <1>13,
     <1>14, <1>16, <1>17, <1>18 DEF Next, Finished

\* In every state the frames are in order, and what is on the wire is what the
\* client has not read of the last reply.
THEOREM Invariant == Spec => []IInv
<1>1. Init => IInv
  BY BaseInit, FlowInit DEF IInv
<1>2. IInv /\ [Next]_vars => IInv'
  BY BaseStep, FlowStep DEF IInv
<1> QED
  BY <1>1, <1>2, PTL DEF Spec

\* The JWT goes only to a proxy that asked for it, and CONNECT only to one that
\* has settled authentication (Dialer.handshake), in whatever pieces its replies
\* arrive.
THEOREM AuthBeforeConnectHolds == Spec => []AuthBeforeConnect
<1>1. IInv => AuthBeforeConnect
  BY DEF IInv, Flow, OrderOK, Asked, AuthBeforeConnect
<1> QED
  BY Invariant, <1>1, PTL

\* The stage of a StageError says how far the handshake got.
THEOREM StageTruthfulHolds == Spec => []StageTruthful
<1>1. IInv => StageTruthful
  <2> SUFFICES ASSUME IInv PROVE StageTruthful
    OBVIOUS
  <2>1. (pc = "failed" <=> stage # "none") /\ (stage = "dial" => conn = "none")
    BY DEF IInv, Base, ConnOK
  <2>2. pc = "panicked" => ~arg.ts /\ replies = <<<<5, SAP>>>>
    <3> SUFFICES ASSUME pc = "panicked" PROVE ~arg.ts /\ replies = <<<<5, SAP>>>>
      OBVIOUS
    <3> DEFINE S == Seq(Bytes)
    <3>1. /\ Len(sent) = 1 /\ Asked /\ ~arg.ts /\ replies \in Seq(S)
          /\ Len(replies) =< Len(sent)
      BY DEF IInv, Flow, OrderOK, FramesOK
    <3> HIDE DEF S
    <3>2. Len(replies) >= 1 /\ replies[1] = <<5, SAP>>
      BY <3>1 DEF Asked
    <3>4. Len(replies) =< 1
      BY <3>1
    <3>3. Len(replies) = 1 /\ replies = <<replies[1]>>
      BY <3>1, <3>2, <3>4, Single
    <3> QED
      BY <3>1, <3>2, <3>3
  <2>3. stage = "greeting" => ~SentKind("auth") /\ ~SentKind("connect")
    <3> SUFFICES ASSUME stage = "greeting"
                 PROVE  ~SentKind("auth") /\ ~SentKind("connect")
      OBVIOUS
    <3>1. Len(sent) =< 1 /\ sent \in Seq(Frames) /\ Len(sent) \in Nat
          /\ \A i \in 1..Len(sent) : sent[i].kind = "greeting" <=> i = 1
      BY DEF IInv, Base, TypeOK, Flow, OrderOK, FramesOK
    <3>2. \A i \in DOMAIN sent : sent[i].kind = "greeting"
      BY <3>1
    <3> QED
      BY <3>2 DEF SentKind
  <2>4. stage = "auth" => replies[1] = <<5, SAP>> /\ ~SentKind("connect")
    BY DEF IInv, Flow, OrderOK, Asked
  <2>5. stage = "connect" => AuthSettled
    BY DEF IInv, Flow, OrderOK
  <2> QED
    BY <2>1, <2>2, <2>3, <2>4, <2>5 DEF StageTruthful
<1> QED
  BY Invariant, <1>1, PTL

\* Dial succeeds only if the proxy granted the CONNECT, and the tunnel starts at
\* the first byte of the overlaid protocol in both directions (socks5.go's
\* drainBoundAddr, frame.go), for every bound address and fragmentation.
THEOREM TunnelAlignedHolds == Spec => []TunnelAligned
<1>1. IInv => TunnelAligned
  <2> SUFFICES ASSUME IInv, pc = "ok"
               PROVE  /\ \A i \in DOMAIN sent : Declares(sent[i])
                      /\ replies[Len(replies)][1] = 5 /\ replies[Len(replies)][2] = 0
                      /\ overlay = "fresh" =>
                           IF closed THEN \E k \in 0..Len(Payload) : wire = SubSeq(Payload, 1, k)
                                     ELSE wire \o out = Payload
    BY DEF TunnelAligned
  <2>1. /\ FramesOK /\ OrderOK /\ WireOK /\ sent \in Seq(Frames)
        /\ DOMAIN sent = 1..Len(sent) /\ closed \in BOOLEAN
    BY DEF IInv, Flow, Base, TypeOK
  <2>2. \A i \in DOMAIN sent : Declares(sent[i])
    BY <2>1 DEF FramesOK
  <2>3. Last[1] = 5 /\ Last[2] = 0 /\ (overlay = "fresh" => Unread(Stream, Len(Last)))
    BY <2>1 DEF WireOK
  <2>4. Len(replies) >= 1 /\ sent[Len(replies)].kind = "connect"
    BY <2>1 DEF OrderOK
  <2>5. Last \in Seq(Bytes) /\ Payload \in Seq(Bytes)
    BY <2>1, <2>4, StreamFacts, ReplyAssumption
  <2>6. Stream = Last \o Payload
    BY <2>3, <2>4 DEF Stream
  <2> DEFINE m == Len(Last)
             p == Len(Payload)
  <2>7. m \in Nat /\ p \in Nat /\ Len(Stream) = m + p
    BY <2>5, <2>6, ConcatProperties, LengthType
  <2>8. ASSUME overlay = "fresh", closed
        PROVE  \E k \in 0..Len(Payload) : wire = SubSeq(Payload, 1, k)
    <3>1. PICK n \in m..(m + p) : wire = SubSeq(Stream, m + 1, n)
      BY <2>3, <2>7, <2>8 DEF Unread, Remains, Begin, Follow, Part
    <3>2. PICK k \in 0..p : n = m + k
      BY <2>7, <3>1
    <3>3. wire = SubSeq(Payload, 1, k)
      BY <2>5, <2>6, <3>1, <3>2, TailConcat
    <3> QED
      BY <3>3
  <2>9. ASSUME overlay = "fresh", ~closed PROVE wire \o out = Payload
    <3>1. wire \o out = SubSeq(Stream, m + 1, m + p)
      BY <2>3, <2>7, <2>9 DEF Unread, Remains, Begin, Follow, Part
    <3>2. p \in 0..Len(Payload)
      BY <2>7
    <3>3. SubSeq(Last \o Payload, m + 1, m + p) = SubSeq(Payload, 1, p)
      BY <2>5, <3>2, TailConcat
    <3>4. SubSeq(Payload, 1, p) = Payload
      BY <2>5, SubSeqFull
    <3> QED
      BY <2>6, <3>1, <3>3, <3>4
  <2> QED
    BY <2>2, <2>3, <2>8, <2>9 DEF Last
<1> QED
  BY Invariant, <1>1, PTL
=============================================================================
