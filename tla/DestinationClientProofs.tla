----------------------- MODULE DestinationClientProofs -----------------------
(***************************************************************************)
(* Proofs about DestinationClient, for any destinations and tokens, and    *)
(* any changes at the service meanwhile.                                   *)
(***************************************************************************)
EXTENDS DestinationClient, FiniteSetTheorems, SequenceTheorems, TLAPS

\* What the client can make of the configurations.
Extracts == UNION {{extractDestination(Config[d], t) : t \in {<< >>} \cup Range(AuthTokens)} :
                     d \in Names}

\* The call, the service and the clock.
CallOK ==
  /\ now \in 0..MaxTime /\ changes \in 0..MaxChanges /\ calls \in 1..MaxCalls
  /\ scope \in [Names -> Scopes]
  /\ pc \in {"start", "find", "subaccount", "instance", "done"}
  /\ arg \in Names \cup {"all"}
  /\ pc = "find" => arg \in Names
  /\ pc \in {"subaccount", "instance"} => arg = "all"
  /\ tok.taken \in Nat /\ tok.expires \in Nat
  /\ Requesting => tok.expires >= tok.taken + Margin
  /\ ~Requesting => reply = NoReply

\* A list of names has the untouched destinations that scope s holds, once.
Exact(q, s) ==
  \A d \in Names \ touched :
    /\ (\E i \in DOMAIN q : q[i] = d) <=> scope[d] = s
    /\ \A i, j \in DOMAIN q : q[i] = d /\ q[j] = d => i = j

NamesIn(list) == [i \in DOMAIN list |-> list[i].field["Name"]]

\* An answer that has not arrived is true of what nobody has touched.
ReplyOK ==
  reply # NoReply =>
    /\ Requesting
    /\ reply.status \in {200, 401, 404, 500}
    /\ reply.dests \in Seq(Names)
    /\ reply.status = 401 => now > tok.expires
    /\ reply.status = 404 => arg \in Names /\ (arg \notin touched => scope[arg] # "subaccount")
    /\ reply.status = 200 /\ Decodes =>
         IF pc = "find"
           THEN /\ reply.dests # << >>
                /\ \A i \in DOMAIN reply.dests : reply.dests[i] = arg
                /\ arg \notin touched => scope[arg] = "subaccount"
           ELSE Exact(reply.dests, pc)

\* What ListAll has of the first scope is true of what nobody has touched.
SubOK ==
  /\ sub \in Seq(Extracts)
  /\ pc \in {"start", "find", "subaccount"} => sub = << >>
  /\ pc = "instance" => Exact(NamesIn(sub), "subaccount")

\* ListAll's result has the untouched destinations once, the subaccount's first.
ListOK ==
  \A d \in Names \ touched :
    /\ Listed(d) # {} <=> scope[d] # "none"
    /\ \A i, j \in Listed(d) : i = j
    /\ \A e \in Names \ touched : \A i \in Listed(d), j \in Listed(e) :
         scope[d] = "subaccount" /\ scope[e] = "instance" => i < j

FindOK ==
  /\ Listed(arg) # {}
  /\ arg \notin touched => scope[arg] = "subaccount"
  /\ \A e \in Range(result.dests) : e.AuthTokens = AuthTokens[arg]

ResultOK ==
  /\ result.kind \in {"none", "ok", "error"}
  /\ result.kind = "none" <=> pc # "done"
  /\ result.dests \in Seq(Extracts)
  /\ result.kind = "ok" /\ arg = "all" => ListOK
  /\ result.kind = "ok" /\ arg # "all" => FindOK
  /\ result.status = 404 => arg \in Names /\ (arg \notin touched => scope[arg] # "subaccount")

Inv == CallOK /\ ReplyOK /\ SubOK /\ ResultOK
-----------------------------------------------------------------------------
\* A destination made of a configuration says all of it, and a key is a field
\* of it or a property.
LEMMA ExtractIs ==
  ASSUME NEW e \in Extracts
  PROVE  SaysAll(e) /\ DOMAIN e.Properties \cap StructFields = {}
<1>1. PICK d \in Names, t \in {<< >>} \cup Range(AuthTokens) : e = extractDestination(Config[d], t)
  BY DEF Extracts
<1> DEFINE cfg == Config[d]
<1>2. /\ e.field = [k \in StructFields |-> Value(cfg, k)]
      /\ e.Properties = [k \in DOMAIN cfg \ knownFields |-> cfg[k]]
  BY <1>1 DEF extractDestination, Restrict
<1>3. StructFields = knownFields /\ "Name" \in StructFields
  BY DEF StructFields, knownFields
<1>4. e.field["Name"] = d
  BY <1>2, <1>3, ConfigAssumption DEF Value
<1> HIDE DEF cfg
<1>5. DOMAIN e.Properties = DOMAIN cfg \ StructFields
  BY <1>2, <1>3
<1>6. ASSUME NEW k \in DOMAIN cfg
      PROVE  cfg[k] = IF k \in StructFields THEN e.field[k] ELSE Value(e.Properties, k)
  <2>1. CASE k \in StructFields
    BY <1>2, <1>6, <2>1 DEF Value
  <2>2. CASE k \notin StructFields
    BY <1>2, <1>3, <1>5, <1>6, <2>2 DEF Value
  <2> QED
    BY <2>1, <2>2
<1> QED
  BY <1>4, <1>5, <1>6 DEF SaysAll, cfg

\* The destinations made of an answer, one by one.
Got(q, find) ==
  [i \in DOMAIN q |-> extractDestination(Config[q[i]], IF find THEN AuthTokens[q[i]] ELSE << >>)]

LEMMA GotIs ==
  ASSUME NEW q \in Seq(Names), NEW find \in BOOLEAN
  PROVE  /\ Got(q, find) \in Seq(Extracts) /\ Len(Got(q, find)) = Len(q)
         /\ NamesIn(Got(q, find)) = q
         /\ find => \A i \in DOMAIN q : Got(q, find)[i].AuthTokens = AuthTokens[q[i]]
<1> DEFINE got == Got(q, find)
<1>1. Len(q) \in Nat /\ DOMAIN q = 1..Len(q) /\ \A i \in DOMAIN q : q[i] \in Names
  OBVIOUS
<1>2. ASSUME NEW i \in DOMAIN q
      PROVE  /\ got[i] \in Extracts
             /\ got[i].field["Name"] = q[i]
             /\ find => got[i].AuthTokens = AuthTokens[q[i]]
  <2> DEFINE t == IF find THEN AuthTokens[q[i]] ELSE << >>
  <2>1. got[i] = extractDestination(Config[q[i]], t)
    BY DEF Got
  <2>2. t \in {<< >>} \cup Range(AuthTokens)
    BY <1>1, <1>2, ConfigAssumption DEF Range
  <2>3. got[i] \in Extracts
    BY <1>1, <1>2, <2>1, <2>2 DEF Extracts
  <2>4. got[i].field = [k \in StructFields |-> Value(Config[q[i]], k)] /\ got[i].AuthTokens = t
    BY <2>1 DEF extractDestination
  <2>5. got[i].field["Name"] = q[i]
    BY <1>1, <1>2, <2>4, ConfigAssumption DEF Value, StructFields
  <2> QED
    BY <2>3, <2>4, <2>5
<1>3. got = [i \in 1..Len(q) |-> got[i]] /\ DOMAIN got = DOMAIN q
  BY <1>1 DEF Got
<1> HIDE DEF got
<1>4. got \in [1..Len(q) -> Extracts]
  BY <1>1, <1>2, <1>3
<1>5. got \in Seq(Extracts) /\ Len(got) = Len(q)
  BY <1>1, <1>4
<1>6. NamesIn(got) = q
  <2>1. NamesIn(got) = [i \in DOMAIN q |-> q[i]]
    BY <1>2, <1>3 DEF NamesIn
  <2>2. q = [i \in DOMAIN q |-> q[i]]
    BY <1>1
  <2> QED
    BY <2>1, <2>2
<1> QED
  BY <1>2, <1>5, <1>6 DEF got

\* An order of a set has each of its elements once.
LEMMA OrderIs ==
  ASSUME NEW S, IsFiniteSet(S), NEW order \in SetToSeqs(S)
  PROVE  /\ Cardinality(S) \in Nat
         /\ order \in Seq(S) /\ Len(order) = Cardinality(S)
         /\ \A d \in S : \E i \in DOMAIN order : order[i] = d
         /\ \A i, j \in DOMAIN order : order[i] = order[j] => i = j
<1> DEFINE n == Cardinality(S)
<1>1. n \in Nat
  BY FS_CardinalityType
<1>2. order \in [1..n -> S] /\ \A i, j \in 1..n : i # j => order[i] # order[j]
  BY DEF SetToSeqs
<1>3. order \in Injection(1..n, S)
  BY <1>2 DEF Injection, IsInjective
<1>4. IsFiniteSet(1..n) /\ Cardinality(1..n) = n
  <2>1. Cardinality(1..n) = IF 1 > n THEN 0 ELSE n - 1 + 1
    BY <1>1, FS_Interval
  <2> QED
    BY <1>1, <2>1, FS_Interval
<1>5. order \in Surjection(1..n, S)
  BY <1>3, <1>4, FS_Injection
<1>6. order \in Seq(S) /\ Len(order) = n /\ DOMAIN order = 1..n
  BY <1>1, <1>2
<1> QED
  BY <1>1, <1>2, <1>5, <1>6 DEF Surjection

\* All of a sequence is that sequence.
LEMMA WholeSeq == ASSUME NEW S, NEW q \in Seq(S) PROVE SubSeq(q, 1, Len(q)) = q
<1> DEFINE p == SubSeq(q, 1, Len(q))
<1>1. Len(q) \in Nat /\ \A i \in 1..Len(q) : q[i] \in S
  OBVIOUS
<1>2. p \in Seq(S) /\ Len(p) = Len(q) /\ \A i \in 1..Len(q) : p[i] = q[i]
  BY <1>1
<1> HIDE DEF p
<1>3. p = q
  BY <1>2, SeqEqual
<1> QED
  BY <1>3 DEF p

\* What is exact stays so as long as only touched destinations change.
ExactNext(q, s) ==
  \A d \in Names \ touched' :
    /\ (\E i \in DOMAIN q : q[i] = d) <=> scope'[d] = s
    /\ \A i, j \in DOMAIN q : q[i] = d /\ q[j] = d => i = j

LEMMA ExactKept ==
  ASSUME touched \subseteq touched', \A d \in Names \ touched' : scope'[d] = scope[d]
  PROVE  \A q, s : Exact(q, s) => ExactNext(q, s)
  BY DEF Exact, ExactNext

\* The subaccount's list, then the instance's.
LEMMA AppendedIs ==
  ASSUME NEW q \in Seq(Extracts), NEW p \in Seq(Extracts),
         Exact(NamesIn(q), "subaccount"), Exact(NamesIn(p), "instance"),
         scope \in [Names -> Scopes]
  PROVE  LET At(d) == {i \in DOMAIN (q \o p) : (q \o p)[i].field["Name"] = d}
         IN \A d \in Names \ touched :
              /\ At(d) # {} <=> scope[d] # "none"
              /\ \A i, j \in At(d) : i = j
              /\ \A e \in Names \ touched : \A i \in At(d), j \in At(e) :
                   scope[d] = "subaccount" /\ scope[e] = "instance" => i < j
<1> DEFINE L == q \o p
           m == Len(q)
           At(d) == {i \in DOMAIN L : L[i].field["Name"] = d}
<1>1. /\ m \in Nat /\ Len(p) \in Nat /\ DOMAIN q = 1..m /\ DOMAIN p = 1..Len(p)
      /\ DOMAIN L = 1..(m + Len(p))
      /\ \A i \in DOMAIN L : L[i] = IF i =< m THEN q[i] ELSE p[i - m]
  BY ConcatProperties
<1>2. /\ DOMAIN NamesIn(q) = DOMAIN q /\ \A i \in DOMAIN q : NamesIn(q)[i] = q[i].field["Name"]
      /\ DOMAIN NamesIn(p) = DOMAIN p /\ \A i \in DOMAIN p : NamesIn(p)[i] = p[i].field["Name"]
  BY DEF NamesIn
<1> HIDE DEF L, m
<1>3. ASSUME NEW d \in Names \ touched, NEW i \in At(d)
      PROVE  /\ i \in Nat
             /\ i =< m => i \in DOMAIN q /\ NamesIn(q)[i] = d /\ scope[d] = "subaccount"
             /\ i > m => i - m \in DOMAIN p /\ NamesIn(p)[i - m] = d /\ scope[d] = "instance"
  <2>1. i \in DOMAIN L /\ L[i].field["Name"] = d /\ i \in Nat
    BY <1>1, <1>3
  <2>2. i =< m => i \in DOMAIN q /\ NamesIn(q)[i] = d
    BY <1>1, <1>2, <2>1
  <2>3. i > m => i - m \in DOMAIN p /\ NamesIn(p)[i - m] = d
    BY <1>1, <1>2, <2>1
  <2> QED
    BY <1>2, <2>1, <2>2, <2>3 DEF Exact
<1>4. ASSUME NEW d \in Names \ touched
      PROVE  At(d) # {} <=> scope[d] # "none"
  <2>1. scope[d] \in {"subaccount", "instance", "none"}
    BY DEF Scopes
  <2>2. CASE scope[d] = "none"
    BY <1>1, <1>3, <2>2
  <2>3. CASE scope[d] = "subaccount"
    <3>1. PICK i \in DOMAIN q : NamesIn(q)[i] = d
      BY <1>2, <2>3 DEF Exact
    <3>2. i \in DOMAIN L /\ i =< m
      BY <1>1
    <3> QED
      BY <1>1, <1>2, <2>3, <3>1, <3>2
  <2>4. CASE scope[d] = "instance"
    <3>1. PICK i \in DOMAIN p : NamesIn(p)[i] = d
      BY <1>2, <2>4 DEF Exact
    <3>2. i + m \in DOMAIN L /\ ~(i + m =< m) /\ (i + m) - m = i
      BY <1>1
    <3> QED
      BY <1>1, <1>2, <2>4, <3>1, <3>2
  <2> QED
    BY <2>1, <2>2, <2>3, <2>4
<1>5. ASSUME NEW d \in Names \ touched, NEW i \in At(d), NEW j \in At(d)
      PROVE  i = j
  <2>1. i \in Nat /\ j \in Nat
    BY <1>3
  <2>2. CASE scope[d] = "subaccount"
    <3>1. i =< m /\ j =< m
      BY <1>1, <1>3, <2>1, <2>2
    <3> QED
      BY <1>2, <1>3, <3>1 DEF Exact
  <2>3. CASE scope[d] # "subaccount"
    <3>1. i > m /\ j > m
      BY <1>1, <1>3, <2>1, <2>3
    <3>2. i - m \in DOMAIN p /\ NamesIn(p)[i - m] = d /\ j - m \in DOMAIN p /\ NamesIn(p)[j - m] = d
      BY <1>3, <3>1
    <3>3. i - m = j - m
      BY <1>2, <3>2 DEF Exact
    <3> QED
      BY <1>1, <2>1, <3>3
  <2> QED
    BY <2>2, <2>3
<1>6. ASSUME NEW d \in Names \ touched, NEW e \in Names \ touched, NEW i \in At(d), NEW j \in At(e),
             scope[d] = "subaccount", scope[e] = "instance"
      PROVE  i < j
  <2>1. i \in Nat /\ j \in Nat
    BY <1>3
  <2>2. i =< m /\ j > m
    BY <1>1, <1>3, <1>6, <2>1
  <2> QED
    BY <1>1, <2>1, <2>2
<1> QED
  BY <1>4, <1>5, <1>6 DEF L
-----------------------------------------------------------------------------
\* The first call has yet to begin, and the service has nothing to answer.
LEMMA InvInit == Init => Inv
<1> SUFFICES ASSUME Init PROVE Inv
  OBVIOUS
<1>1. /\ now = 0 /\ scope \in [Names -> Scopes] /\ changes = 0 /\ calls = 1
      /\ arg \in Names \cup {"all"} /\ pc = "start" /\ tok = NoTok /\ reply = NoReply
      /\ sub = << >> /\ result = NoResult
  BY DEF Init
<1>2. CallOK
  BY <1>1, LifeAssumption DEF CallOK, Requesting, NoTok
<1>3. ReplyOK
  BY <1>1 DEF ReplyOK
<1>4. SubOK
  BY <1>1 DEF SubOK
<1>5. ResultOK
  BY <1>1 DEF ResultOK, NoResult
<1> QED
  BY <1>2, <1>3, <1>4, <1>5 DEF Inv

\* The call has its token, and its first request goes out.
LEMMA TakeTokenKeeps == Inv /\ TakeToken => Inv'
<1> SUFFICES ASSUME Inv, TakeToken PROVE Inv'
  OBVIOUS
<1>0. CallOK /\ ReplyOK /\ SubOK /\ ResultOK
  BY DEF Inv
<1>1. /\ pc = "start" /\ pc' = IF arg = "all" THEN "subaccount" ELSE "find"
      /\ UNCHANGED <<now, scope, changes, calls, arg, reply, sub, result, touched>>
  BY DEF TakeToken
<1>2. PICK l \in Lives : tok' = [taken |-> now, expires |-> now + l]
  BY DEF TakeToken, Bearer
<1>3. tok'.taken \in Nat /\ tok'.expires \in Nat /\ tok'.expires >= tok'.taken + Margin
  <2>1. tok'.taken = now /\ tok'.expires = now + l
    BY <1>2
  <2>2. now \in Nat /\ l \in Nat /\ l >= Margin /\ Margin \in Nat
    BY <1>0, LifeAssumption DEF CallOK
  <2> QED
    BY <2>1, <2>2
<1>4. reply = NoReply
  BY <1>0, <1>1 DEF CallOK, Requesting
<1>5. CallOK'
  BY <1>0, <1>1, <1>3, <1>4, ConfigAssumption DEF CallOK, Requesting
<1>6. ReplyOK'
  BY <1>1, <1>4 DEF ReplyOK
<1>7. SubOK'
  BY <1>0, <1>1 DEF SubOK
<1>8. ResultOK'
  BY <1>0, <1>1 DEF ResultOK
<1> QED
  BY <1>5, <1>6, <1>7, <1>8 DEF Inv

\* A call that returns an error says nothing of the destinations.
LEMMA ErrorKeeps ==
  ASSUME Inv, NEW status, pc \in {"start", "find", "subaccount", "instance"},
         Return("error", status, << >>), reply' = NoReply,
         status = 404 => arg \in Names /\ (arg \notin touched => scope[arg] # "subaccount"),
         UNCHANGED <<now, scope, changes, calls, arg, tok, sub, touched>>
  PROVE  Inv'
<1>0. CallOK /\ ReplyOK /\ SubOK /\ ResultOK
  BY DEF Inv
<1>1. pc' = "done" /\ result'.kind = "error" /\ result'.status = status /\ result'.dests = << >>
  BY DEF Return
<1>2. CallOK'
  BY <1>0, <1>1 DEF CallOK, Requesting
<1>3. ReplyOK'
  BY DEF ReplyOK
<1>4. SubOK'
  BY <1>0, <1>1 DEF SubOK
<1>5. ResultOK'
  BY <1>1 DEF ResultOK
<1> QED
  BY <1>2, <1>3, <1>4, <1>5 DEF Inv

\* An answer arrives.
LEMMA ReplyArrivesKeeps == Inv /\ ReplyArrives => Inv'
<1> SUFFICES ASSUME Inv, ReplyArrives PROVE Inv'
  OBVIOUS
<1> DEFINE got == Got(reply.dests, pc = "find")
<1>0. CallOK /\ ReplyOK /\ SubOK /\ ResultOK
  BY DEF Inv
<1>1. /\ Requesting /\ reply # NoReply /\ reply' = NoReply
      /\ UNCHANGED <<now, scope, changes, calls, arg, tok, touched>>
      /\ IF ~(StatusOK /\ Decodes)
           THEN Return("error", reply.status, << >>) /\ UNCHANGED sub
         ELSE IF pc = "subaccount"
           THEN sub' = got /\ pc' = "instance" /\ UNCHANGED result
         ELSE Return("ok", 200, sub \o got) /\ UNCHANGED sub
  BY DEF ReplyArrives, Got
<1>2. /\ got \in Seq(Extracts) /\ Len(got) = Len(reply.dests) /\ NamesIn(got) = reply.dests
      /\ pc = "find" => \A i \in DOMAIN reply.dests : got[i].AuthTokens = AuthTokens[reply.dests[i]]
  <2>1. reply.dests \in Seq(Names) /\ (pc = "find") \in BOOLEAN
    BY <1>0, <1>1 DEF ReplyOK
  <2> HIDE DEF got
  <2>2. \A q \in Seq(Names), find \in BOOLEAN :
          /\ Got(q, find) \in Seq(Extracts) /\ Len(Got(q, find)) = Len(q)
          /\ NamesIn(Got(q, find)) = q
          /\ find => \A i \in DOMAIN q : Got(q, find)[i].AuthTokens = AuthTokens[q[i]]
    BY GotIs
  <2> QED
    BY <2>1, <2>2, Zenon DEF got
<1> HIDE DEF got
<1>3. ReplyOK'
  BY <1>1 DEF ReplyOK
<1>4. CASE ~(StatusOK /\ Decodes)
  <2>1. reply.status = 404 => arg \in Names /\ (arg \notin touched => scope[arg] # "subaccount")
    BY <1>0, <1>1 DEF ReplyOK
  <2> QED
    BY <1>1, <1>4, <2>1, ErrorKeeps DEF Requesting
<1>5. CASE StatusOK /\ Decodes /\ pc = "subaccount"
  <2>1. sub' = got /\ pc' = "instance" /\ UNCHANGED result
    BY <1>1, <1>5
  <2>2. CallOK'
    BY <1>0, <1>1, <1>5, <2>1 DEF CallOK, Requesting
  <2>3. Exact(NamesIn(got), "subaccount")
    BY <1>0, <1>1, <1>2, <1>5 DEF ReplyOK, StatusOK
  <2>4. SubOK'
    <3>1. ExactNext(NamesIn(got), "subaccount")
      BY <1>1, <2>3, ExactKept
    <3> QED
      BY <1>2, <2>1, <3>1 DEF SubOK, Exact, ExactNext, NamesIn
  <2>5. ResultOK'
    BY <1>0, <1>1, <1>5, <2>1 DEF ResultOK
  <2> QED
    BY <1>3, <2>2, <2>4, <2>5 DEF Inv
<1>6. CASE StatusOK /\ Decodes /\ pc # "subaccount"
  <2>1. /\ pc' = "done" /\ UNCHANGED sub
        /\ result'.kind = "ok" /\ result'.status = 200 /\ result'.dests = sub \o got
    BY <1>1, <1>6 DEF Return
  <2>2. CallOK'
    BY <1>0, <1>1, <2>1 DEF CallOK, Requesting
  <2>3. SubOK'
    BY <1>0, <2>1 DEF SubOK
  <2>4. sub \in Seq(Extracts) /\ result'.dests \in Seq(Extracts)
    BY <1>0, <1>2, <2>1, ConcatProperties DEF SubOK
  <2>5. CASE pc = "instance"
    <3>1. arg' = "all" /\ Exact(NamesIn(sub), "subaccount")
      BY <1>0, <1>1, <2>5 DEF CallOK, SubOK
    <3>2. Exact(NamesIn(got), "instance")
      BY <1>0, <1>1, <1>2, <1>6, <2>5 DEF ReplyOK, StatusOK
    <3>3. LET At(d) == {i \in DOMAIN (sub \o got) : (sub \o got)[i].field["Name"] = d}
          IN \A d \in Names \ touched :
               /\ At(d) # {} <=> scope[d] # "none"
               /\ \A i, j \in At(d) : i = j
               /\ \A e \in Names \ touched : \A i \in At(d), j \in At(e) :
                    scope[d] = "subaccount" /\ scope[e] = "instance" => i < j
      BY <1>0, <1>2, <2>4, <3>1, <3>2, AppendedIs DEF CallOK
    <3>4. ListOK'
      BY <1>1, <2>1, <3>3 DEF ListOK, Listed
    <3>5. ResultOK'
      BY <2>1, <2>4, <3>1, <3>4 DEF ResultOK
    <3> QED
      BY <1>3, <2>2, <2>3, <3>5 DEF Inv
  <2>6. CASE pc = "find"
    <3>1. arg \in Names /\ arg # "all" /\ sub = << >>
      BY <1>0, <2>6, ConfigAssumption DEF CallOK, SubOK
    <3>2. /\ reply.dests # << >> /\ reply.dests \in Seq(Names)
          /\ \A i \in DOMAIN reply.dests : reply.dests[i] = arg
          /\ arg \notin touched => scope[arg] = "subaccount"
      BY <1>0, <1>1, <1>6, <2>6 DEF ReplyOK, StatusOK
    <3>3. result'.dests = got
      BY <1>2, <2>1, <3>1, ConcatEmptySeq
    <3>4. 1 \in DOMAIN reply.dests /\ DOMAIN got = DOMAIN reply.dests
      BY <1>2, <3>2
    <3>5. \A i \in DOMAIN got : /\ got[i].field["Name"] = arg
                                /\ got[i].AuthTokens = AuthTokens[arg]
      <4>1. \A i \in DOMAIN got : NamesIn(got)[i] = got[i].field["Name"]
        BY DEF NamesIn
      <4> QED
        BY <1>2, <2>6, <3>2, <3>4, <4>1
    <3>6. FindOK'
      <4>1. 1 \in Listed(arg)'
        BY <1>1, <3>3, <3>4, <3>5 DEF Listed
      <4>2. \A e \in Range(result'.dests) : e.AuthTokens = AuthTokens[arg']
        BY <1>1, <3>3, <3>5 DEF Range
      <4> QED
        BY <1>1, <3>2, <4>1, <4>2 DEF FindOK
    <3>7. ResultOK'
      BY <1>1, <2>1, <2>4, <3>1, <3>6 DEF ResultOK
    <3> QED
      BY <1>3, <2>2, <2>3, <3>7 DEF Inv
  <2> QED
    BY <1>1, <1>6, <2>5, <2>6 DEF Requesting
<1> QED
  BY <1>4, <1>5, <1>6

\* The next call begins.
LEMMA BeginKeeps == Inv /\ Begin => Inv'
<1> SUFFICES ASSUME Inv, Begin PROVE Inv'
  OBVIOUS
<1>0. CallOK /\ ReplyOK /\ SubOK /\ ResultOK
  BY DEF Inv
<1>1. /\ pc = "done" /\ calls < MaxCalls /\ calls' = calls + 1 /\ arg' \in Names \cup {"all"}
      /\ pc' = "start" /\ sub' = << >> /\ result' = NoResult
      /\ UNCHANGED <<now, scope, changes, tok, reply>>
  BY DEF Begin
<1>2. reply = NoReply /\ calls' \in 1..MaxCalls
  BY <1>0, <1>1, LifeAssumption DEF CallOK, Requesting
<1>3. CallOK'
  BY <1>0, <1>1, <1>2 DEF CallOK, Requesting
<1>4. ReplyOK'
  BY <1>1, <1>2 DEF ReplyOK
<1>5. SubOK'
  BY <1>1 DEF SubOK
<1>6. ResultOK'
  BY <1>1 DEF ResultOK, NoResult
<1> QED
  BY <1>3, <1>4, <1>5, <1>6 DEF Inv

\* The service decides on a request.
LEMMA ServeKeeps == Inv /\ Serve => Inv'
<1> SUFFICES ASSUME Inv, Serve PROVE Inv'
  OBVIOUS
<1>0. CallOK /\ ReplyOK /\ SubOK /\ ResultOK
  BY DEF Inv
<1>1. /\ Requesting /\ reply = NoReply
      /\ UNCHANGED <<now, scope, changes, calls, arg, pc, tok, sub, result, touched>>
  BY DEF Serve, call
<1>2. CallOK' /\ SubOK' /\ ResultOK'
  <2>1. CallOK'
    BY <1>0, <1>1 DEF CallOK, Requesting
  <2>2. SubOK'
    BY <1>0, <1>1 DEF SubOK, Exact, NamesIn
  <2>3. ResultOK'
    BY <1>0, <1>1 DEF ResultOK, ListOK, FindOK, Listed
  <2> QED
    BY <2>1, <2>2, <2>3
<1>3. Requesting'
  BY <1>1 DEF Requesting
<1>4. CASE now > tok.expires /\ reply' = [NoReply EXCEPT !.status = 401]
  <2>1. reply'.status = 401 /\ reply'.dests = << >>
    BY <1>4 DEF NoReply
  <2>2. now' > tok'.expires /\ << >> \in Seq(Names)
    BY <1>1, <1>4
  <2>3. ReplyOK'
    BY <1>3, <2>1, <2>2 DEF ReplyOK
  <2> QED
    BY <1>2, <2>3 DEF Inv
<1>5. CASE pc = "find" /\ Held = {} /\ reply' = [NoReply EXCEPT !.status = 404]
  <2>1. reply'.status = 404 /\ reply'.dests = << >>
    BY <1>5 DEF NoReply
  <2>2. arg \in Names /\ scope[arg] # "subaccount"
    BY <1>0, <1>5 DEF CallOK, Held
  <2>3. arg' \in Names /\ scope'[arg'] # "subaccount" /\ << >> \in Seq(Names)
    BY <1>1, <2>2
  <2>4. ReplyOK'
    BY <1>3, <2>1, <2>3 DEF ReplyOK
  <2> QED
    BY <1>2, <2>4 DEF Inv
<1>6. ASSUME NEW order \in SetToSeqs(Held), NEW n \in 0..Cardinality(Held), NEW cut \in BOOLEAN,
             pc = "find" => Held # {}, n < Cardinality(Held) => cut,
             reply' = [status |-> 200, dests |-> SubSeq(order, 1, n), cut |-> cut]
      PROVE  Inv'
  <2>1. reply'.status = 200 /\ reply'.dests = SubSeq(order, 1, n) /\ (Decodes' <=> ~cut)
    BY <1>6 DEF Decodes
  <2>2. Held \subseteq Names /\ IsFiniteSet(Held)
    <3>1. Held \subseteq Names
      BY DEF Held
    <3> QED
      BY <3>1, ConfigAssumption, FS_Subset
  <2>3. /\ Cardinality(Held) \in Nat
        /\ order \in Seq(Held) /\ Len(order) = Cardinality(Held)
        /\ \A d \in Held : \E i \in DOMAIN order : order[i] = d
        /\ \A i, j \in DOMAIN order : order[i] = order[j] => i = j
    BY <2>2, OrderIs
  <2>4. reply'.dests \in Seq(Names)
    <3>1. n \in Int /\ \A i \in 1..n : order[i] \in Names
      BY <1>6, <2>2, <2>3
    <3> QED
      BY <2>1, <3>1, SubSeqProperties
  <2>5. ASSUME ~cut PROVE reply'.dests = order
    <3>1. n = Len(order)
      BY <1>6, <2>3, <2>5
    <3> QED
      BY <2>1, <2>3, <3>1, WholeSeq
  <2>6. \A i \in DOMAIN order : order[i] \in Held
    BY <2>3
  <2>7. ASSUME ~cut, pc = "find"
        PROVE  /\ reply'.dests # << >>
               /\ \A i \in DOMAIN reply'.dests : reply'.dests[i] = arg
               /\ scope[arg] = "subaccount"
    <3>1. PICK d \in Held : TRUE
      BY <1>6, <2>7
    <3>2. \A e \in Held : e = arg /\ scope[arg] = "subaccount"
      BY <2>7 DEF Held
    <3>3. DOMAIN order # {}
      BY <2>3, <3>1
    <3>4. order # << >>
      BY <3>3
    <3> QED
      BY <2>5, <2>6, <2>7, <3>1, <3>2, <3>4
  <2>8. ASSUME ~cut, pc # "find" PROVE Exact(reply'.dests, pc)
    <3>1. \A d \in Names : d \in Held <=> scope[d] = pc
      BY <2>8 DEF Held
    <3>2. Exact(order, pc)
      BY <2>3, <2>6, <3>1 DEF Exact
    <3> QED
      BY <2>5, <2>8, <3>2
  <2>9. ASSUME ~cut, pc # "find" PROVE Exact(reply.dests, pc)'
    BY <1>1, <2>8, <2>9 DEF Exact
  <2>10. ReplyOK'
    BY <1>1, <1>3, <2>1, <2>4, <2>7, <2>9 DEF ReplyOK
  <2> QED
    BY <1>2, <2>10 DEF Inv
<1>7. CASE reply' = [NoReply EXCEPT !.status = 500]
  <2>1. reply'.status = 500 /\ reply'.dests = << >>
    BY <1>7 DEF NoReply
  <2> QED
    BY <1>1, <1>2, <1>3, <2>1 DEF Inv, ReplyOK
<1> QED
  BY <1>4, <1>5, <1>6, <1>7 DEF Serve

\* A destination changes, or time passes, or nothing happens: a call knows no
\* more and no less of what nobody has touched.
LEMMA OutsideKeeps ==
  ASSUME Inv, UNCHANGED <<call, reply>>,
         now' \in 0..MaxTime, now' >= now, changes' \in 0..MaxChanges, scope' \in [Names -> Scopes],
         touched \subseteq touched', \A d \in Names \ touched' : scope'[d] = scope[d]
  PROVE  Inv'
<1>0. CallOK /\ ReplyOK /\ SubOK /\ ResultOK
  BY DEF Inv
<1>1. UNCHANGED <<calls, arg, pc, tok, sub, result, reply>>
  BY DEF call
<1>2. CallOK'
  BY <1>0, <1>1 DEF CallOK, Requesting
<1>3. \A q, s : Exact(q, s) => ExactNext(q, s)
  BY ExactKept
<1>4. arg \in Names /\ arg \notin touched' => arg \notin touched /\ scope'[arg] = scope[arg]
  OBVIOUS
<1>5. ReplyOK'
  <2> SUFFICES ASSUME reply # NoReply PROVE ReplyOK'
    BY <1>1 DEF ReplyOK
  <2>1. Requesting' /\ (Decodes' <=> Decodes)
    BY <1>0, <1>1 DEF ReplyOK, Requesting, Decodes
  <2>2. reply'.status = 401 => now' > tok'.expires
    <3>1. now \in Nat /\ now' \in Nat /\ tok.expires \in Nat
      BY <1>0, LifeAssumption DEF CallOK
    <3> QED
      BY <1>0, <1>1, <3>1 DEF ReplyOK
  <2>3. reply'.status = 404 => arg' \in Names /\ (arg' \notin touched' => scope'[arg'] # "subaccount")
    BY <1>0, <1>1, <1>4 DEF ReplyOK
  <2>4. reply'.status = 200 /\ Decodes' =>
          IF pc' = "find"
            THEN /\ reply'.dests # << >>
                 /\ \A i \in DOMAIN reply'.dests : reply'.dests[i] = arg'
                 /\ arg' \notin touched' => scope'[arg'] = "subaccount"
            ELSE ExactNext(reply'.dests, pc')
    BY <1>0, <1>1, <1>3, <1>4, <2>1 DEF ReplyOK, CallOK
  <2> QED
    BY <1>0, <1>1, <2>1, <2>2, <2>3, <2>4 DEF ReplyOK, Exact, ExactNext
<1>6. SubOK'
  <2>1. pc' = "instance" => ExactNext(NamesIn(sub), "subaccount")
    BY <1>0, <1>1, <1>3 DEF SubOK
  <2> QED
    BY <1>0, <1>1, <2>1 DEF SubOK, Exact, ExactNext, NamesIn
<1>7. ResultOK'
  <2>1. ListOK => ListOK'
    BY <1>1 DEF ListOK, Listed
  <2>2. arg \in Names /\ FindOK => FindOK'
    BY <1>1, <1>4 DEF FindOK, Listed
  <2> QED
    BY <1>0, <1>1, <1>4, <2>1, <2>2 DEF ResultOK, CallOK
<1> QED
  BY <1>2, <1>5, <1>6, <1>7 DEF Inv

\* Every step of the calls, the service and the clock.
LEMMA InvStep == Inv /\ [Next]_vars => Inv'
<1> SUFFICES ASSUME Inv, [Next]_vars PROVE Inv'
  OBVIOUS
<1>0. /\ now \in 0..MaxTime /\ changes \in 0..MaxChanges /\ scope \in [Names -> Scopes]
      /\ MaxTime \in Nat /\ MaxChanges \in Nat
  BY LifeAssumption DEF Inv, CallOK
<1>1. CASE TakeToken \/ ReplyArrives \/ Begin \/ Serve
  BY <1>1, TakeTokenKeeps, ReplyArrivesKeeps, BeginKeeps, ServeKeeps
<1>2. CASE Fails
  BY <1>2, ErrorKeeps DEF Fails, Requesting
<1>3. ASSUME NEW d \in Names, Change(d) PROVE Inv'
  <2>1. PICK s \in Scopes : scope' = [scope EXCEPT ![d] = s]
    BY <1>3 DEF Change
  <2>2. /\ changes < MaxChanges /\ changes' = changes + 1 /\ touched' = touched \cup {d}
        /\ UNCHANGED <<now, call, reply>>
    BY <1>3 DEF Change
  <2>3. scope' \in [Names -> Scopes] /\ \A e \in Names \ touched' : scope'[e] = scope[e]
    BY <1>0, <2>1, <2>2
  <2>4. changes' \in 0..MaxChanges /\ now' \in 0..MaxTime /\ now' >= now
    BY <1>0, <2>2
  <2> QED
    BY <2>2, <2>3, <2>4, OutsideKeeps
<1>4. CASE Tick
  <2>1. now < MaxTime /\ now' = now + 1 /\ UNCHANGED <<scope, changes, call, reply, touched>>
    BY <1>4 DEF Tick
  <2>2. now' \in 0..MaxTime /\ now' >= now
    BY <1>0, <2>1
  <2> QED
    BY <1>0, <2>1, <2>2, OutsideKeeps
<1>5. CASE UNCHANGED vars
  <2>1. UNCHANGED <<now, scope, changes, call, reply, touched>>
    BY <1>5 DEF vars
  <2>2. now' >= now
    BY <1>0, <2>1
  <2> QED
    BY <1>0, <2>1, <2>2, OutsideKeeps
<1> QED
  BY <1>1, <1>2, <1>3, <1>4, <1>5 DEF Next, Finished

\* Every reachable state is as Inv says.
THEOREM Invariant == Spec => []Inv
<1>1. Inv /\ [Next]_vars => Inv'
  BY InvStep
<1> QED
  BY InvInit, <1>1, PTL DEF Spec

\* What is handed out has been made of a configuration.
LEMMA HandedOut == ASSUME Inv, NEW e \in Range(result.dests) PROVE e \in Extracts
  BY DEF Inv, ResultOK, Range

\* Types of all variables; in every destination handed out a key is a field or
\* a property, never both.
THEOREM TypeCorrect == Spec => []TypeOK
<1>1. Inv => TypeOK
  <2> SUFFICES ASSUME Inv PROVE TypeOK
    OBVIOUS
  <2>1. \A e \in Range(result.dests) : DOMAIN e.Properties \cap StructFields = {}
    BY HandedOut, ExtractIs
  <2>2. reply.status \in {0, 200, 401, 404, 500}
    <3>1. NoReply.status = 0
      BY DEF NoReply
    <3> QED
      BY <3>1 DEF Inv, ReplyOK
  <2> QED
    BY <2>1, <2>2 DEF Inv, CallOK, ResultOK, TypeOK
<1> QED
  BY Invariant, <1>1, PTL

\* The margin that the token source leaves reaches the service: a request is
\* refused for its token only if it has come later than the margin.
THEOREM TokenHonouredHolds == Spec => []TokenHonoured
<1>1. Inv => TokenHonoured
  <2> SUFFICES ASSUME Inv, reply.status = 401 PROVE now > tok.taken + Margin
    BY DEF TokenHonoured
  <2>1. reply # NoReply
    BY DEF NoReply
  <2>2. now > tok.expires /\ tok.expires >= tok.taken + Margin
    BY <2>1 DEF Inv, ReplyOK, CallOK
  <2>3. now \in Nat /\ tok.expires \in Nat /\ tok.taken \in Nat /\ Margin \in Nat
    BY LifeAssumption DEF Inv, CallOK
  <2> QED
    BY <2>2, <2>3
<1> QED
  BY Invariant, <1>1, PTL

\* What a call returns is complete and true of the destinations that nobody has
\* touched since it began: ListAll returns each of them once, and Find the one
\* it is asked for with its tokens, as their configurations say them.
THEOREM ResultExactHolds == Spec => []ResultExact
<1>1. Inv => ResultExact
  <2> SUFFICES ASSUME Inv PROVE ResultExact
    OBVIOUS
  <2>0. ResultOK
    BY DEF Inv
  <2>1. \A e \in Range(result.dests) : SaysAll(e)
    BY HandedOut, ExtractIs
  <2>2. ASSUME result.kind = "ok", arg = "all", NEW d \in Names \ touched
        PROVE  /\ Cardinality(Listed(d)) = (IF scope[d] = "none" THEN 0 ELSE 1)
               /\ \A e \in Names \ touched : \A i \in Listed(d), j \in Listed(e) :
                    scope[d] = "subaccount" /\ scope[e] = "instance" => i < j
    <3>1. ListOK
      BY <2>0, <2>2 DEF ResultOK
    <3>2. Listed(d) # {} <=> scope[d] # "none"
      BY <3>1 DEF ListOK
    <3>3. \A i, j \in Listed(d) : i = j
      BY <3>1 DEF ListOK
    <3>4. \A e \in Names \ touched : \A i \in Listed(d), j \in Listed(e) :
            scope[d] = "subaccount" /\ scope[e] = "instance" => i < j
      BY <3>1 DEF ListOK
    <3>5. CASE scope[d] = "none"
      <4>1. Listed(d) = {}
        BY <3>2, <3>5
      <4> QED
        BY <3>4, <3>5, <4>1, FS_EmptySet
    <3>6. CASE scope[d] # "none"
      <4>1. PICK i \in Listed(d) : TRUE
        BY <3>2, <3>6
      <4>2. Listed(d) = {i}
        BY <3>3, <4>1
      <4> QED
        BY <3>4, <3>6, <4>2, FS_Singleton
    <3> QED
      BY <3>5, <3>6
  <2>3. result.kind = "ok" /\ arg # "all" => FindOK
    BY <2>0 DEF ResultOK
  <2>4. result.status = 404 /\ arg \notin touched => scope[arg] # "subaccount"
    BY <2>0 DEF ResultOK
  <2> QED
    BY <2>1, <2>2, <2>3, <2>4 DEF ResultExact, FindOK
<1> QED
  BY Invariant, <1>1, PTL
=============================================================================
