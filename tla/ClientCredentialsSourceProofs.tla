-------------------- MODULE ClientCredentialsSourceProofs --------------------
(***************************************************************************)
(* Proofs about ClientCredentialsSource, for any set of calls and any      *)
(* skew, latency, lifetimes and clock bound.                               *)
(***************************************************************************)
EXTENDS ClientCredentialsSource, TLAPS

\* A call whose channel is in the list, in a leader's copy, or closed, is
\* past Join; only a leader in its closing loop holds a copy.
PlacesOK ==
  \A c \in Calls :
    /\ c \in waiters => pc[c] \in {"wait", "done"}
    /\ c \in closed => pc[c] \in {"wait", "woken", "done"}
    /\ pc[c] = "woken" => c \in closed
    /\ \A l \in Calls : c \in toWake[l] => pc[l] = "wake" /\ pc[c] \in {"wait", "done"}

\* Somebody will take the waiter list whenever it is not empty.
WaitersServed == waiters # {} => inflight

\* A fetch is under way only while no token is usable.
StaleInFlight == inflight => ~CacheUsable

\* An answer on its way is at most MaxLatency old.
GrantOK ==
  \A c \in Calls : pc[c] = "answered" =>
    life[c] \in Lifetimes /\ issued[c] =< now /\ now =< issued[c] + MaxLatency

\* What a leader is about to publish, or has published.
EntryOK ==
  \A c \in Calls :
    /\ pc[c] = "publish" /\ entry[c] # Nil =>
         /\ entry[c].value = c
         /\ life[c] \in Lifetimes
         /\ entry[c].expiresAt =< now + life[c] - Skew
         /\ entry[c].expiresAt =< issued[c] + life[c] - Skew + MaxLatency
    /\ pc[c] = "wake" => IF entry[c] = Nil
                           THEN outcome[c] = "error"
                           ELSE outcome[c] = "token" /\ entry[c].value = c

\* A fetch has ended only if its call is past Publish.
OutcomeOK == \A c \in Calls : outcome[c] # "none" => pc[c] \in {"wake", "done"}

\* The cached token is one that a fetch obtained, and its expiry is early.
CachedOK ==
  cached # Nil =>
    /\ cached.value \in Calls
    /\ outcome[cached.value] = "token"
    /\ cached.expiresAt + Skew =<
         issued[cached.value] + life[cached.value] + MaxLatency

\* A call has seen only fetches that ended, never its own before it ends.
SeenOK == \A c \in Calls : seen[c] \subseteq Ended /\ c \notin seen[c]

\* result and err hold the outcome of Latest; a waiter that has left the list
\* finds there the outcome of a fetch that ended after it called Token.
LatestOK ==
  /\ err # NoCall => outcome[err] = "error"
  /\ err = NoCall /\ result.value # NoCall => outcome[result.value] = "token"
  /\ \A c \in Calls : pc[c] \in {"wait", "woken"} /\ c \notin waiters =>
       Latest \in Ended \ seen[c]

IInv == /\ TypeOK
        /\ SingleFlight
        /\ NoLostWakeup
        /\ ClosedOnce
        /\ PlacesOK
        /\ WaitersServed
        /\ StaleInFlight
        /\ GrantOK
        /\ EntryOK
        /\ OutcomeOK
        /\ CachedOK
        /\ SeenOK
        /\ LatestOK
-----------------------------------------------------------------------------
\* The skew in force is a natural number, whatever the configuration.
LEMMA SkewType == Skew \in Nat
  BY TimeAssumption DEF Skew

\* The initial state satisfies the invariant.
LEMMA InitInv == Init => IInv
<1> SUFFICES ASSUME Init PROVE IInv
  OBVIOUS
<1>1. TypeOK
  <2>1. cached \in Entries /\ result \in Entries /\ entry \in [Calls -> Entries]
    BY DEF Init, Entries, CallOrNone, Nil
  <2>2. pc \in [Calls -> Labels]
    BY DEF Init, Labels
  <2>3. answer \in [Calls -> [kind : {"token", "error"}, from : Calls] \cup
                            [kind : {"none", "ctx"}, from : {NoCall}]]
    BY DEF Init, NoAnswer
  <2> QED
    BY <2>1, <2>2, <2>3 DEF Init, TypeOK, CallOrNone
<1>2. CachedOK /\ LatestOK
  BY DEF Init, CachedOK, LatestOK, Nil
<1> QED
  BY <1>1, <1>2
  DEF Init, IInv, TypeOK, SingleFlight, NoLostWakeup, ClosedOnce, PlacesOK,
      WaitersServed, StaleInFlight, GrantOK, EntryOK, OutcomeOK, SeenOK, Flying,
      CacheUsable

\* A new call has seen only what had ended, and is nowhere yet.
LEMMA CallStep ==
  ASSUME IInv, NEW c \in Calls, Call(c) PROVE IInv'
<1> USE CallsAssumption, TimeAssumption, SkewType DEF IInv, TypeOK, Call,
    Goto, shared, server, history, Nil
<1>1. TypeOK'
  BY DEF Ended, Entries, CallOrNone, Labels
<1>2. SingleFlight'
  BY DEF SingleFlight, Flying, Entries, CallOrNone
<1>3. NoLostWakeup'
  BY DEF NoLostWakeup, PlacesOK, WaitersServed, Entries, CallOrNone
<1>4. PlacesOK'
  BY DEF PlacesOK, ClosedOnce, Entries, CallOrNone
<1>5. GrantOK'
  BY DEF GrantOK, Entries, CallOrNone
<1>6. EntryOK'
  BY DEF EntryOK, GrantOK, Entries, CallOrNone
<1>7. OutcomeOK'
  BY DEF OutcomeOK, Entries, CallOrNone
<1>8. SeenOK'
  BY DEF SeenOK, OutcomeOK, Ended, Entries, CallOrNone
<1>9. LatestOK'
  BY DEF LatestOK, SeenOK, OutcomeOK, EntryOK, PlacesOK, ClosedOnce, Latest,
      Ended, Entries, CallOrNone
<1>10. ClosedOnce' /\ WaitersServed' /\ StaleInFlight' /\ CachedOK'
  BY DEF ClosedOnce, WaitersServed, StaleInFlight, CacheUsable, Flying,
      CachedOK
<1> QED
  BY <1>1, <1>2, <1>3, <1>4, <1>5, <1>6, <1>7, <1>8, <1>9, <1>10

\* A context being done changes nothing the invariant speaks of.
LEMMA CancelStep ==
  ASSUME IInv, NEW c \in Calls, Cancel(c) PROVE IInv'
<1> USE CallsAssumption, TimeAssumption, SkewType DEF IInv, TypeOK, Cancel,
    shared, server, history, Nil
<1>1. TypeOK'
  BY DEF Entries, CallOrNone, Labels
<1>2. SingleFlight' /\ NoLostWakeup' /\ ClosedOnce' /\ PlacesOK' /\
    WaitersServed' /\ StaleInFlight' /\ GrantOK' /\ EntryOK' /\ OutcomeOK' /\
    CachedOK' /\ SeenOK' /\ LatestOK'
  BY DEF SingleFlight, Flying, NoLostWakeup, ClosedOnce, PlacesOK,
      WaitersServed, StaleInFlight, CacheUsable, GrantOK, EntryOK, OutcomeOK,
      CachedOK, SeenOK, Ended, LatestOK, Latest
<1> QED
  BY <1>1, <1>2

\* A hit reports a token that a fetch obtained.
LEMMA CacheHitStep ==
  ASSUME IInv, NEW c \in Calls, CacheHit(c) PROVE IInv'
<1> USE CallsAssumption, TimeAssumption, SkewType DEF IInv, TypeOK, CacheHit,
    Return, Goto, shared, server, history, Nil
<1>1. TypeOK'
  <2>1. cached.value \in Calls
    BY DEF CacheHit, CacheUsable, CachedOK
  <2>2. answer' \in [Calls -> [kind : {"token", "error"}, from : Calls] \cup
                             [kind : {"none", "ctx"}, from : {NoCall}]]
    BY <2>1
  <2>3. pc' \in [Calls -> Labels]
    BY DEF Labels
  <2> QED
    BY <2>2, <2>3
<1>2. SingleFlight'
  BY DEF SingleFlight, Flying, Entries, CallOrNone
<1>3. NoLostWakeup'
  BY DEF NoLostWakeup, PlacesOK, WaitersServed, Entries, CallOrNone
<1>4. PlacesOK'
  BY DEF PlacesOK, ClosedOnce, Entries, CallOrNone
<1>5. GrantOK'
  BY DEF GrantOK, Entries, CallOrNone
<1>6. EntryOK'
  BY DEF EntryOK, GrantOK, Entries, CallOrNone
<1>7. OutcomeOK'
  BY DEF OutcomeOK, Entries, CallOrNone
<1>8. LatestOK'
  BY DEF LatestOK, SeenOK, OutcomeOK, EntryOK, PlacesOK, ClosedOnce, Latest,
      Ended, Entries, CallOrNone
<1>9. ClosedOnce' /\ WaitersServed' /\ StaleInFlight' /\ CachedOK' /\ SeenOK'
  BY DEF ClosedOnce, WaitersServed, StaleInFlight, CacheUsable, Flying,
      CachedOK, SeenOK, Ended
<1> QED
  BY <1>1, <1>2, <1>3, <1>4, <1>5, <1>6, <1>7, <1>8, <1>9

\* A call that joins is new to the list, and a fetch is under way.
LEMMA JoinStep ==
  ASSUME IInv, NEW c \in Calls, Join(c) PROVE IInv'
<1> USE CallsAssumption, TimeAssumption, SkewType DEF IInv, TypeOK, Join,
    Goto, shared, server, history, Nil
<1>1. TypeOK'
  BY DEF Entries, CallOrNone, Labels
<1>2. SingleFlight'
  BY DEF SingleFlight, Flying, Entries, CallOrNone
<1>3. NoLostWakeup'
  BY DEF NoLostWakeup, PlacesOK, WaitersServed, Entries, CallOrNone
<1>4. ClosedOnce'
  BY DEF ClosedOnce, PlacesOK, Entries, CallOrNone
<1>5. PlacesOK'
  BY DEF PlacesOK, ClosedOnce, Entries, CallOrNone
<1>6. WaitersServed'
  BY DEF WaitersServed, Entries, CallOrNone
<1>7. GrantOK'
  BY DEF GrantOK, Entries, CallOrNone
<1>8. EntryOK'
  BY DEF EntryOK, GrantOK, Entries, CallOrNone
<1>9. OutcomeOK'
  BY DEF OutcomeOK, Entries, CallOrNone
<1>10. LatestOK'
  BY DEF LatestOK, SeenOK, OutcomeOK, EntryOK, PlacesOK, ClosedOnce, Latest,
      Ended, Entries, CallOrNone
<1>11. StaleInFlight' /\ CachedOK' /\ SeenOK'
  BY DEF StaleInFlight, CacheUsable, Flying, CachedOK, SeenOK, Ended
<1> QED
  BY <1>1, <1>2, <1>3, <1>4, <1>5, <1>6, <1>7, <1>8, <1>9, <1>10, <1>11

\* A call leads only when nobody flies and no token is usable.
LEMMA LeadStep ==
  ASSUME IInv, NEW c \in Calls, Lead(c) PROVE IInv'
<1> USE CallsAssumption, TimeAssumption, SkewType DEF IInv, TypeOK, Lead,
    BecomeLeader, Goto, shared, server, history, Nil
<1>1. TypeOK'
  BY DEF Entries, CallOrNone, Labels
<1>2. SingleFlight'
  BY DEF SingleFlight, Flying, Entries, CallOrNone
<1>3. NoLostWakeup'
  BY DEF NoLostWakeup, PlacesOK, WaitersServed, Entries, CallOrNone
<1>4. PlacesOK'
  BY DEF PlacesOK, ClosedOnce, Entries, CallOrNone
<1>5. WaitersServed'
  BY DEF WaitersServed, Entries, CallOrNone
<1>6. StaleInFlight'
  BY DEF StaleInFlight, SingleFlight, CacheUsable, Flying, Entries, CallOrNone
<1>7. GrantOK'
  BY DEF GrantOK, Entries, CallOrNone
<1>8. EntryOK'
  BY DEF EntryOK, GrantOK, Entries, CallOrNone
<1>9. OutcomeOK'
  BY DEF OutcomeOK, Entries, CallOrNone
<1>10. LatestOK'
  BY DEF LatestOK, SeenOK, OutcomeOK, EntryOK, PlacesOK, ClosedOnce, Latest,
      Ended, Entries, CallOrNone
<1>11. ClosedOnce' /\ CachedOK' /\ SeenOK'
  BY DEF ClosedOnce, CachedOK, SeenOK, Ended
<1> QED
  BY <1>1, <1>2, <1>3, <1>4, <1>5, <1>6, <1>7, <1>8, <1>9, <1>10, <1>11

\* An answer is dated when it is issued.
LEMMA IssueStep ==
  ASSUME IInv, NEW c \in Calls, Issue(c) PROVE IInv'
<1> USE CallsAssumption, TimeAssumption, SkewType DEF IInv, TypeOK, Issue,
    Goto, shared, server, history, Nil
<1>1. TypeOK'
  BY DEF Entries, CallOrNone, Labels
<1>2. SingleFlight'
  BY DEF SingleFlight, Flying, Entries, CallOrNone
<1>3. NoLostWakeup'
  BY DEF NoLostWakeup, PlacesOK, WaitersServed, Entries, CallOrNone
<1>4. PlacesOK'
  BY DEF PlacesOK, ClosedOnce, Entries, CallOrNone
<1>5. GrantOK'
  BY DEF GrantOK, Entries, CallOrNone
<1>6. EntryOK'
  BY DEF EntryOK, GrantOK, Entries, CallOrNone
<1>7. OutcomeOK'
  BY DEF OutcomeOK, Entries, CallOrNone
<1>8. CachedOK'
  BY DEF CachedOK, EntryOK, OutcomeOK, Entries, CallOrNone
<1>9. LatestOK'
  BY DEF LatestOK, SeenOK, OutcomeOK, EntryOK, PlacesOK, ClosedOnce, Latest,
      Ended, Entries, CallOrNone
<1>10. ClosedOnce' /\ WaitersServed' /\ StaleInFlight' /\ SeenOK'
  BY DEF ClosedOnce, WaitersServed, StaleInFlight, CacheUsable, Flying,
      SeenOK, Ended
<1> QED
  BY <1>1, <1>2, <1>3, <1>4, <1>5, <1>6, <1>7, <1>8, <1>9, <1>10

\* The expiry of a token received is early by the skew.
LEMMA ReceiveStep ==
  ASSUME IInv, NEW c \in Calls, Receive(c) PROVE IInv'
<1> USE CallsAssumption, TimeAssumption, SkewType DEF IInv, TypeOK, Receive,
    Goto, Expiry, shared, server, history, Nil
<1>1. TypeOK'
  BY DEF Entries, CallOrNone, Labels
<1>2. SingleFlight'
  BY DEF SingleFlight, Flying, Entries, CallOrNone
<1>3. NoLostWakeup'
  BY DEF NoLostWakeup, PlacesOK, WaitersServed, Entries, CallOrNone
<1>4. PlacesOK'
  BY DEF PlacesOK, ClosedOnce, Entries, CallOrNone
<1>5. GrantOK'
  BY DEF GrantOK, Entries, CallOrNone
<1>6. EntryOK'
  BY DEF EntryOK, GrantOK, Entries, CallOrNone
<1>7. OutcomeOK'
  BY DEF OutcomeOK, Entries, CallOrNone
<1>8. LatestOK'
  BY DEF LatestOK, SeenOK, OutcomeOK, EntryOK, PlacesOK, ClosedOnce, Latest,
      Ended, Entries, CallOrNone
<1>9. ClosedOnce' /\ WaitersServed' /\ StaleInFlight' /\ CachedOK' /\ SeenOK'
  BY DEF ClosedOnce, WaitersServed, StaleInFlight, CacheUsable, Flying,
      CachedOK, SeenOK, Ended
<1> QED
  BY <1>1, <1>2, <1>3, <1>4, <1>5, <1>6, <1>7, <1>8, <1>9

\* A failed fetch has nothing to publish but its error.
LEMMA FetchFailsStep ==
  ASSUME IInv, NEW c \in Calls, FetchFails(c) PROVE IInv'
<1> USE CallsAssumption, TimeAssumption, SkewType DEF IInv, TypeOK,
    FetchFails, Goto, shared, server, history, Nil
<1>1. TypeOK'
  BY DEF Entries, CallOrNone, Labels
<1>2. SingleFlight'
  BY DEF SingleFlight, Flying, Entries, CallOrNone
<1>3. NoLostWakeup'
  BY DEF NoLostWakeup, PlacesOK, WaitersServed, Entries, CallOrNone
<1>4. PlacesOK'
  BY DEF PlacesOK, ClosedOnce, Entries, CallOrNone
<1>5. GrantOK'
  BY DEF GrantOK, Entries, CallOrNone
<1>6. EntryOK'
  BY DEF EntryOK, GrantOK, Entries, CallOrNone
<1>7. OutcomeOK'
  BY DEF OutcomeOK, Entries, CallOrNone
<1>8. LatestOK'
  BY DEF LatestOK, SeenOK, OutcomeOK, EntryOK, PlacesOK, ClosedOnce, Latest,
      Ended, Entries, CallOrNone
<1>9. ClosedOnce' /\ WaitersServed' /\ StaleInFlight' /\ CachedOK' /\ SeenOK'
  BY DEF ClosedOnce, WaitersServed, StaleInFlight, CacheUsable, Flying,
      CachedOK, SeenOK, Ended
<1> QED
  BY <1>1, <1>2, <1>3, <1>4, <1>5, <1>6, <1>7, <1>8, <1>9

\* Publishing ends the flight and hands the whole list over.
LEMMA PublishStep ==
  ASSUME IInv, NEW c \in Calls, Publish(c) PROVE IInv'
<1> USE CallsAssumption, TimeAssumption, SkewType DEF IInv, TypeOK, Publish,
    Settle, TakeWaiters, Goto, shared, server, history, Nil
<1>1. TypeOK'
  BY DEF Entries, CallOrNone, Labels
<1>2. SingleFlight'
  BY DEF SingleFlight, Flying, Entries, CallOrNone
<1>3. NoLostWakeup'
  BY DEF NoLostWakeup, PlacesOK, WaitersServed, Entries, CallOrNone
<1>4. ClosedOnce'
  BY DEF ClosedOnce, PlacesOK, Entries, CallOrNone
<1>5. PlacesOK'
  BY DEF PlacesOK, ClosedOnce, Entries, CallOrNone
<1>6. WaitersServed'
  BY DEF WaitersServed, Entries, CallOrNone
<1>7. StaleInFlight'
  BY DEF StaleInFlight, SingleFlight, CacheUsable, Flying, Entries, CallOrNone
<1>8. GrantOK'
  BY DEF GrantOK, Entries, CallOrNone
<1>9. EntryOK'
  BY DEF EntryOK, GrantOK, Entries, CallOrNone
<1>10. OutcomeOK'
  BY DEF OutcomeOK, Entries, CallOrNone
<1>11. CachedOK'
  BY DEF CachedOK, EntryOK, OutcomeOK, Entries, CallOrNone
<1>12. SeenOK'
  BY DEF SeenOK, OutcomeOK, Ended, Entries, CallOrNone
<1>13. LatestOK'
  BY DEF LatestOK, SeenOK, OutcomeOK, EntryOK, PlacesOK, ClosedOnce, Latest,
      Ended, Entries, CallOrNone
<1> QED
  BY <1>1, <1>2, <1>3, <1>4, <1>5, <1>6, <1>7, <1>8, <1>9, <1>10, <1>11, <1>12, <1>13

\* A channel in a leader's copy is still open.
LEMMA CloseOneStep ==
  ASSUME IInv, NEW c \in Calls, CloseOne(c) PROVE IInv'
<1> USE CallsAssumption, TimeAssumption, SkewType DEF IInv, TypeOK, CloseOne,
    shared, server, history, Nil
<1>1. TypeOK'
  BY DEF Entries, CallOrNone, Labels
<1>2. NoLostWakeup'
  BY DEF NoLostWakeup, PlacesOK, WaitersServed, Entries, CallOrNone
<1>3. ClosedOnce'
  BY DEF ClosedOnce, PlacesOK, Entries, CallOrNone
<1>4. PlacesOK'
  BY DEF PlacesOK, ClosedOnce, Entries, CallOrNone
<1>5. SingleFlight' /\ WaitersServed' /\ StaleInFlight' /\ GrantOK' /\
    EntryOK' /\ OutcomeOK' /\ CachedOK' /\ SeenOK' /\ LatestOK'
  BY DEF SingleFlight, Flying, WaitersServed, StaleInFlight, CacheUsable,
      GrantOK, EntryOK, OutcomeOK, CachedOK, SeenOK, Ended, LatestOK, Latest
<1> QED
  BY <1>1, <1>2, <1>3, <1>4, <1>5

\* The leader reports its own fetch.
LEMMA LeaderReturnStep ==
  ASSUME IInv, NEW c \in Calls, LeaderReturn(c) PROVE IInv'
<1> USE CallsAssumption, TimeAssumption, SkewType DEF IInv, TypeOK,
    LeaderReturn, Return, Goto, shared, server, history, Nil
<1>0. pc' = [pc EXCEPT ![c] = "done"]
  OBVIOUS
<1>1. TypeOK'
  <2>1. entry[c] # Nil => entry[c].value = c
    BY DEF EntryOK
  <2>2. answer' \in [Calls -> [kind : {"token", "error"}, from : Calls] \cup
                             [kind : {"none", "ctx"}, from : {NoCall}]]
    BY <2>1
  <2>3. pc' \in [Calls -> Labels]
    BY <1>0 DEF Labels
  <2>4. entry' \in [Calls -> Entries]
    BY DEF Entries, CallOrNone
  <2> QED
    BY <2>2, <2>3, <2>4
<1>2. SingleFlight'
  <2>1. pc[c] = "wake" /\ inflight' = inflight
    OBVIOUS
  <2> HIDE DEF LeaderReturn
  <2> QED
    BY <1>0, <2>1 DEF SingleFlight, Flying
<1>3. NoLostWakeup'
  BY DEF NoLostWakeup, PlacesOK, WaitersServed, Entries, CallOrNone
<1>4. PlacesOK'
  BY DEF PlacesOK, ClosedOnce, Entries, CallOrNone
<1>5. GrantOK'
  BY DEF GrantOK, Entries, CallOrNone
<1>6. EntryOK'
  BY DEF EntryOK, GrantOK, Entries, CallOrNone
<1>7. OutcomeOK'
  BY DEF OutcomeOK, Entries, CallOrNone
<1>8. LatestOK'
  BY DEF LatestOK, SeenOK, OutcomeOK, EntryOK, PlacesOK, ClosedOnce, Latest,
      Ended, Entries, CallOrNone
<1>9. ClosedOnce' /\ WaitersServed' /\ StaleInFlight' /\ CachedOK' /\ SeenOK'
  BY DEF ClosedOnce, WaitersServed, StaleInFlight, CacheUsable, Flying,
      CachedOK, SeenOK, Ended
<1> QED
  BY <1>1, <1>2, <1>3, <1>4, <1>5, <1>6, <1>7, <1>8, <1>9

\* A waiter that gives up may stay in the list.
LEMMA WaiterCtxStep ==
  ASSUME IInv, NEW c \in Calls, WaiterCtx(c) PROVE IInv'
<1> USE CallsAssumption, TimeAssumption, SkewType DEF IInv, TypeOK, WaiterCtx,
    Return, Goto, shared, server, history, Nil
<1>1. TypeOK'
  BY DEF Entries, CallOrNone, Labels
<1>2. SingleFlight'
  BY DEF SingleFlight, Flying, Entries, CallOrNone
<1>3. NoLostWakeup'
  BY DEF NoLostWakeup, PlacesOK, WaitersServed, Entries, CallOrNone
<1>4. PlacesOK'
  BY DEF PlacesOK, ClosedOnce, Entries, CallOrNone
<1>5. GrantOK'
  BY DEF GrantOK, Entries, CallOrNone
<1>6. EntryOK'
  BY DEF EntryOK, GrantOK, Entries, CallOrNone
<1>7. OutcomeOK'
  BY DEF OutcomeOK, Entries, CallOrNone
<1>8. LatestOK'
  BY DEF LatestOK, SeenOK, OutcomeOK, EntryOK, PlacesOK, ClosedOnce, Latest,
      Ended, Entries, CallOrNone
<1>9. ClosedOnce' /\ WaitersServed' /\ StaleInFlight' /\ CachedOK' /\ SeenOK'
  BY DEF ClosedOnce, WaitersServed, StaleInFlight, CacheUsable, Flying,
      CachedOK, SeenOK, Ended
<1> QED
  BY <1>1, <1>2, <1>3, <1>4, <1>5, <1>6, <1>7, <1>8, <1>9

\* A woken waiter has left the list.
LEMMA WaiterWokenStep ==
  ASSUME IInv, NEW c \in Calls, WaiterWoken(c) PROVE IInv'
<1> USE CallsAssumption, TimeAssumption, SkewType DEF IInv, TypeOK,
    WaiterWoken, Goto, shared, server, history, Nil
<1>1. TypeOK'
  BY DEF Entries, CallOrNone, Labels
<1>2. SingleFlight'
  BY DEF SingleFlight, Flying, Entries, CallOrNone
<1>3. NoLostWakeup'
  BY DEF NoLostWakeup, PlacesOK, WaitersServed, Entries, CallOrNone
<1>4. PlacesOK'
  BY DEF PlacesOK, ClosedOnce, Entries, CallOrNone
<1>5. GrantOK'
  BY DEF GrantOK, Entries, CallOrNone
<1>6. EntryOK'
  BY DEF EntryOK, GrantOK, Entries, CallOrNone
<1>7. OutcomeOK'
  BY DEF OutcomeOK, Entries, CallOrNone
<1>8. LatestOK'
  BY DEF LatestOK, SeenOK, OutcomeOK, EntryOK, PlacesOK, ClosedOnce, Latest,
      Ended, Entries, CallOrNone
<1>9. ClosedOnce' /\ WaitersServed' /\ StaleInFlight' /\ CachedOK' /\ SeenOK'
  BY DEF ClosedOnce, WaitersServed, StaleInFlight, CacheUsable, Flying,
      CachedOK, SeenOK, Ended
<1> QED
  BY <1>1, <1>2, <1>3, <1>4, <1>5, <1>6, <1>7, <1>8, <1>9

\* A woken waiter reports the outcome of Latest.
LEMMA WaiterReturnStep ==
  ASSUME IInv, NEW c \in Calls, WaiterReturn(c) PROVE IInv'
<1> USE CallsAssumption, TimeAssumption, SkewType DEF IInv, TypeOK,
    WaiterReturn, Return, Goto, shared, server, history, Nil
<1>1. TypeOK'
  <2>1. Latest \in Calls
    BY DEF LatestOK, PlacesOK, ClosedOnce, Ended
  <2>2. answer' \in [Calls -> [kind : {"token", "error"}, from : Calls] \cup
                             [kind : {"none", "ctx"}, from : {NoCall}]]
    BY <2>1 DEF Latest
  <2>3. pc' \in [Calls -> Labels]
    BY DEF Labels
  <2> QED
    BY <2>2, <2>3
<1>2. SingleFlight'
  BY DEF SingleFlight, Flying, Entries, CallOrNone
<1>3. NoLostWakeup'
  BY DEF NoLostWakeup, PlacesOK, WaitersServed, Entries, CallOrNone
<1>4. PlacesOK'
  BY DEF PlacesOK, ClosedOnce, Entries, CallOrNone
<1>5. GrantOK'
  BY DEF GrantOK, Entries, CallOrNone
<1>6. EntryOK'
  BY DEF EntryOK, GrantOK, Entries, CallOrNone
<1>7. OutcomeOK'
  BY DEF OutcomeOK, Entries, CallOrNone
<1>8. LatestOK'
  BY DEF LatestOK, SeenOK, OutcomeOK, EntryOK, PlacesOK, ClosedOnce, Latest,
      Ended, Entries, CallOrNone
<1>9. ClosedOnce' /\ WaitersServed' /\ StaleInFlight' /\ CachedOK' /\ SeenOK'
  BY DEF ClosedOnce, WaitersServed, StaleInFlight, CacheUsable, Flying,
      CachedOK, SeenOK, Ended
<1> QED
  BY <1>1, <1>2, <1>3, <1>4, <1>5, <1>6, <1>7, <1>8, <1>9

\* Time expires tokens and ages answers, and only that.
LEMMA TickStep ==
  ASSUME IInv, Tick PROVE IInv'
<1> USE CallsAssumption, TimeAssumption, SkewType DEF IInv, TypeOK, Tick,
    shared, server, history, Nil
<1>1. TypeOK'
  BY DEF Entries, CallOrNone, Labels
<1>2. StaleInFlight'
  BY DEF StaleInFlight, SingleFlight, CacheUsable, Flying, Entries, CallOrNone
<1>3. GrantOK'
  BY DEF GrantOK, Entries, CallOrNone
<1>4. EntryOK'
  BY DEF EntryOK, GrantOK, Entries, CallOrNone
<1>5. SingleFlight' /\ NoLostWakeup' /\ ClosedOnce' /\ PlacesOK' /\
    WaitersServed' /\ OutcomeOK' /\ CachedOK' /\ SeenOK' /\ LatestOK'
  BY DEF SingleFlight, Flying, NoLostWakeup, ClosedOnce, PlacesOK,
      WaitersServed, OutcomeOK, CachedOK, SeenOK, Ended, LatestOK, Latest
<1> QED
  BY <1>1, <1>2, <1>3, <1>4, <1>5

\* The strengthened invariant holds in every reachable state.
THEOREM Invariance == Spec => []IInv
<1>1. Init => IInv
  BY InitInv
<1>2. IInv /\ [Next]_vars => IInv'
  <2> SUFFICES ASSUME IInv, [Next]_vars PROVE IInv'
    OBVIOUS
  <2>1. CASE UNCHANGED vars
    BY <2>1
    DEF vars, IInv, TypeOK, SingleFlight, NoLostWakeup, ClosedOnce, PlacesOK,
        WaitersServed, StaleInFlight, GrantOK, EntryOK, OutcomeOK, CachedOK,
        SeenOK, LatestOK, Flying, CacheUsable, Ended, Latest
  <2>2. CASE Tick
    BY <2>2, TickStep
  <2>3. ASSUME NEW c \in Calls,
               \/ Call(c) \/ Cancel(c)
               \/ CacheHit(c) \/ Join(c) \/ Lead(c)
               \/ Issue(c) \/ Receive(c) \/ FetchFails(c)
               \/ Publish(c) \/ CloseOne(c) \/ LeaderReturn(c)
               \/ WaiterCtx(c) \/ WaiterWoken(c) \/ WaiterReturn(c)
        PROVE  IInv'
    BY <2>3, CallStep, CancelStep, CacheHitStep, JoinStep,
       LeadStep, IssueStep, ReceiveStep, FetchFailsStep,
       PublishStep, CloseOneStep, LeaderReturnStep, WaiterCtxStep,
       WaiterWokenStep, WaiterReturnStep
  <2> QED
    BY <2>1, <2>2, <2>3 DEF Next, Finished
<1> QED
  BY <1>1, <1>2, PTL DEF Spec

\* TypeOK, for any constants.
THEOREM TypeCorrect == Spec => []TypeOK
  BY Invariance, PTL DEF IInv

\* At most one request to the token endpoint is outstanding (token.go:85,106,112).
THEOREM SingleFlightHolds == Spec => []SingleFlight
  BY Invariance, PTL DEF IInv

\* No blocked waiter is forgotten (token.go:84-94,122-129).
THEOREM NoLostWakeupHolds == Spec => []NoLostWakeup
  BY Invariance, PTL DEF IInv

\* No channel is closed twice (token.go:122-129).
THEOREM ClosedOnceHolds == Spec => []ClosedOnce
  BY Invariance, PTL DEF IInv

\* A cache hit leaves the margin that Config.Skew is for (token.go:78,170).
THEOREM CacheLeavesMarginHolds == Spec => []CacheLeavesMargin
<1>1. IInv => CacheLeavesMargin
  BY SkewType, TimeAssumption
  DEF IInv, TypeOK, CacheLeavesMargin, CacheUsable, CachedOK, Entries, CallOrNone
<1> QED
  BY <1>1, Invariance, PTL

\* s.cached changes only once it has expired (token.go:78,114,118).
THEOREM UsableTokenKeptHolds == Spec => UsableTokenKept
<1>1. IInv /\ [Next]_vars => [CacheUsable => cached' = cached]_vars
  <2> SUFFICES ASSUME IInv, Next, CacheUsable PROVE cached' = cached
    BY DEF vars
  <2>1. ASSUME NEW c \in Calls, Publish(c) PROVE cached' = cached
    BY <2>1 DEF IInv, Publish, SingleFlight, StaleInFlight, Flying
  <2> QED
    BY <2>1
    DEF Next, Call, Cancel, CacheHit, Join, Lead, BecomeLeader, Issue, Receive,
        FetchFails, CloseOne, LeaderReturn, WaiterCtx, WaiterWoken,
        WaiterReturn, Tick, Finished, vars, shared
<1> QED
  BY <1>1, Invariance, PTL DEF Spec, UsableTokenKept
-----------------------------------------------------------------------------
\* The refinement: Leader stands for the promise's fetch under way.
LEMMA LeaderUnique ==
  ASSUME SingleFlight
  PROVE  /\ \A c \in Calls : Flying(c) => Leader = c
         /\ ~inflight => Leader = NoCall
<1>1. ASSUME NEW c \in Calls, Flying(c) PROVE Leader = c
  <2>1. (CHOOSE d \in Calls : Flying(d)) \in Calls /\ Flying(CHOOSE d \in Calls : Flying(d))
    BY <1>1
  <2> QED
    BY <1>1, <2>1 DEF Leader, SingleFlight
<1> QED
  BY <1>1 DEF Leader, SingleFlight

\* A step that leaves every flight as it is leaves Leader as it is.
LEMMA LeaderKept ==
  ASSUME SingleFlight, SingleFlight', inflight' = inflight,
         \A c \in Calls : Flying(c) => Flying(c)'
  PROVE  Leader' = Leader
<1>1. CASE inflight
  <2>1. PICK c \in Calls : Flying(c)
    BY <1>1 DEF SingleFlight
  <2>2. Leader = c
    BY <2>1, LeaderUnique
  <2>3. Leader' = c
    <3> DEFINE L == CHOOSE d \in Calls : pc'[d] \in {"fetch", "answered", "publish"}
    <3>1. L \in Calls /\ pc'[L] \in {"fetch", "answered", "publish"}
      BY <2>1 DEF Flying
    <3>2. L = c
      BY <2>1, <3>1 DEF SingleFlight, Flying
    <3> QED
      BY <2>1, <3>2 DEF Leader, Flying
  <2> QED
    BY <2>2, <2>3
<1>2. CASE ~inflight
  BY <1>2 DEF Leader, SingleFlight
<1> QED
  BY <1>1, <1>2

\* What a step makes of Progress: a call between idle and done is open.
LEMMA ProgressKept ==
  ASSUME TypeOK, TypeOK', NEW c \in Calls, NEW m \in Labels \ {"idle", "done"},
         pc[c] \notin {"idle", "done"}, pc' = [pc EXCEPT ![c] = m]
  PROVE  Progress' = Progress
  BY DEF TypeOK, Progress, Labels

\* A call that returns becomes done, and nothing else changes.
LEMMA ProgressDone ==
  ASSUME TypeOK, NEW c \in Calls, pc[c] \notin {"idle", "done"},
         pc' = [pc EXCEPT ![c] = "done"]
  PROVE  Progress[c] = "open" /\ Progress' = [Progress EXCEPT ![c] = "done"]
  BY DEF TypeOK, Progress, Labels

\* Every step of the source is a step of the promise, or none of it.
THEOREM Refinement == Spec => KeepsPromise
<1> USE CallsAssumption
<1>1. Init => Promise!Init
  BY DEF Init, Promise!Init, Leader, Flying, Progress, Nil, Promise!NoToken,
         NoAnswer, Promise!NoAnswer
<1>2. IInv /\ IInv' /\ [Next]_vars => [Promise!Next]_(Promise!vars)
  <2> SUFFICES ASSUME IInv, IInv', [Next]_vars
               PROVE  [Promise!Next]_(Promise!vars)
    OBVIOUS
  <2> USE DEF IInv, shared, server, history
  <2>1. CASE UNCHANGED vars
    BY <2>1 DEF vars, Promise!vars, Leader, Flying, Progress
  <2>2. CASE Tick
    BY <2>2 DEF Tick, Promise!Next, Promise!Tick, Leader, Flying, Progress
  <2>3. ASSUME NEW c \in Calls, Call(c) PROVE Promise!Next
    <3>1. Leader' = Leader
      BY <2>3, LeaderKept DEF Call, Goto, Flying
    <3>2. Progress[c] = "idle" /\ Progress' = [Progress EXCEPT ![c] = "open"]
      BY <2>3 DEF Call, Goto, Progress, TypeOK, Labels
    <3>3. Promise!Open(c)
      BY <2>3, <3>1, <3>2 DEF Call, Promise!Open, Promise!Ended, Ended
    <3> QED
      BY <3>3 DEF Promise!Next
  <2>4. ASSUME NEW c \in Calls, Cancel(c) PROVE Promise!Next
    <3>1. Progress[c] = "open"
      BY <2>4 DEF Cancel, Progress, TypeOK, Labels
    <3>2. Promise!Cancel(c)
      BY <2>4, <3>1 DEF Cancel, Promise!Cancel, Leader, Flying, Progress
    <3> QED
      BY <3>2 DEF Promise!Next
  <2>5. ASSUME NEW c \in Calls, CacheHit(c) PROVE Promise!Next
    <3>1. Leader' = Leader
      BY <2>5, LeaderKept DEF CacheHit, Return, Goto, Flying
    <3>2. Progress[c] = "open" /\ Progress' = [Progress EXCEPT ![c] = "done"]
      BY <2>5, ProgressDone DEF CacheHit, Return, Goto
    <3>3. Promise!Usable
      BY <2>5 DEF CacheHit, CacheUsable, CachedOK, Promise!Usable
    <3>4. Promise!ReturnCached(c)
      BY <2>5, <3>1, <3>2, <3>3
      DEF CacheHit, Return, Promise!ReturnCached, Promise!Return
    <3> QED
      BY <3>4 DEF Promise!Next
  <2>6. ASSUME NEW c \in Calls, Join(c) PROVE UNCHANGED Promise!vars
    <3>1. Leader' = Leader
      BY <2>6, LeaderKept DEF Join, Goto, Flying
    <3>2. Progress' = Progress
      BY <2>6, ProgressKept DEF Join, Goto, Labels
    <3> QED
      BY <2>6, <3>1, <3>2 DEF Join, Promise!vars
  <2>7. ASSUME NEW c \in Calls, Lead(c) PROVE Promise!Next
    <3>1. Leader = NoCall
      BY <2>7, LeaderUnique DEF Lead
    <3>2. Leader' = c
      <4>1. c \in Calls /\ pc'[c] = "fetch"
        BY <2>7 DEF Lead, BecomeLeader, Goto, TypeOK
      <4> DEFINE L == CHOOSE d \in Calls : pc'[d] \in {"fetch", "answered", "publish"}
      <4>2. L \in Calls /\ pc'[L] \in {"fetch", "answered", "publish"}
        BY <4>1
      <4>3. L = c
        BY <4>1, <4>2 DEF SingleFlight, Flying
      <4> QED
        BY <4>1, <4>3 DEF Leader, Flying
    <3>3. Progress[c] = "open" /\ Progress' = Progress
      BY <2>7 DEF Lead, BecomeLeader, Goto, Progress, TypeOK, Labels
    <3>4. outcome[c] = "none"
      BY <2>7 DEF Lead, OutcomeOK
    <3>5. ~Promise!Usable
      BY <2>7 DEF Lead, CacheUsable, Promise!Usable, Nil
    <3>6. Promise!BeginFetch(c)
      BY <2>7, <3>1, <3>2, <3>3, <3>4, <3>5
      DEF Lead, BecomeLeader, Promise!BeginFetch
    <3> QED
      BY <3>6 DEF Promise!Next
  <2>8. ASSUME NEW c \in Calls, Issue(c) \/ Receive(c) \/ FetchFails(c)
        PROVE  UNCHANGED Promise!vars
    <3>1. Leader' = Leader
      BY <2>8, LeaderKept DEF Issue, Receive, FetchFails, Goto, Flying, TypeOK
    <3>2. Progress' = Progress
      BY <2>8, ProgressKept DEF Issue, Receive, FetchFails, Goto, Labels
    <3> QED
      BY <2>8, <3>1, <3>2 DEF Issue, Receive, FetchFails, Promise!vars
  <2>9. ASSUME NEW c \in Calls, Publish(c) PROVE Promise!Next
    <3> USE DEF Publish, Settle, TakeWaiters
    <3>1. Leader = c
      BY <2>9, LeaderUnique DEF Flying
    <3>2. Leader' = NoCall
      BY <2>9 DEF Leader, SingleFlight
    <3>3. Progress' = Progress
      BY <2>9, ProgressKept DEF Goto, Labels
    <3>4. \/ /\ outcome' = [outcome EXCEPT ![c] = "token"]
             /\ cached'.value = c
             /\ \E l \in Lifetimes : cached'.expiresAt =< now + l - Skew
          \/ /\ outcome' = [outcome EXCEPT ![c] = "error"]
             /\ cached' = Nil
      BY <2>9 DEF EntryOK
    <3>5. Promise!EndFetch
      BY <2>9, <3>1, <3>2, <3>3, <3>4 DEF Promise!EndFetch, Promise!NoToken, Nil
    <3> QED
      BY <3>5 DEF Promise!Next
  <2>10. ASSUME NEW c \in Calls, CloseOne(c) PROVE UNCHANGED Promise!vars
    BY <2>10 DEF CloseOne, Promise!vars, Leader, Flying, Progress
  <2>11. ASSUME NEW c \in Calls, LeaderReturn(c) PROVE Promise!Next
    <3>1. pc[c] = "wake" /\ pc' = [pc EXCEPT ![c] = "done"] /\ inflight' = inflight
      BY <2>11 DEF LeaderReturn, Return, Goto
    <3>2. Leader' = Leader
      BY <3>1, LeaderKept DEF Flying
    <3>3. Progress[c] = "open" /\ Progress' = [Progress EXCEPT ![c] = "done"]
      BY <3>1, ProgressDone
    <3>4. c \in Promise!Ended \ seen[c]
      BY <3>1 DEF EntryOK, SeenOK, Promise!Ended
    <3>5. answer' = [answer EXCEPT ![c] = [kind |-> outcome[c], from |-> c]]
      BY <2>11, <3>1 DEF LeaderReturn, Return, EntryOK
    <3>6. UNCHANGED <<now, cached, outcome, cancelled, seen>>
      BY <2>11 DEF LeaderReturn, Return
    <3>7. Promise!ReturnFetched(c)
      BY <3>2, <3>3, <3>4, <3>5, <3>6 DEF Promise!ReturnFetched, Promise!Return
    <3> QED
      BY <3>7 DEF Promise!Next
  <2>12. ASSUME NEW c \in Calls, WaiterCtx(c) PROVE Promise!Next
    <3>1. Leader' = Leader
      BY <2>12, LeaderKept DEF WaiterCtx, Return, Goto, Flying
    <3>2. Progress[c] = "open" /\ Progress' = [Progress EXCEPT ![c] = "done"]
      BY <2>12, ProgressDone DEF WaiterCtx, Return, Goto
    <3>3. Promise!ReturnCtx(c)
      BY <2>12, <3>1, <3>2 DEF WaiterCtx, Return, Promise!ReturnCtx, Promise!Return
    <3> QED
      BY <3>3 DEF Promise!Next
  <2>13. ASSUME NEW c \in Calls, WaiterWoken(c) PROVE UNCHANGED Promise!vars
    <3>1. Leader' = Leader
      BY <2>13, LeaderKept DEF WaiterWoken, Goto, Flying
    <3>2. Progress' = Progress
      BY <2>13, ProgressKept DEF WaiterWoken, Goto, Labels
    <3> QED
      BY <2>13, <3>1, <3>2 DEF WaiterWoken, Promise!vars
  <2>14. ASSUME NEW c \in Calls, WaiterReturn(c) PROVE Promise!Next
    <3>1. pc[c] = "woken" /\ pc' = [pc EXCEPT ![c] = "done"] /\ inflight' = inflight
      BY <2>14 DEF WaiterReturn, Return, Goto
    <3>2. Leader' = Leader
      BY <3>1, LeaderKept DEF Flying
    <3>3. Progress[c] = "open" /\ Progress' = [Progress EXCEPT ![c] = "done"]
      BY <3>1, ProgressDone
    <3>4. Latest \in Promise!Ended \ seen[c]
      BY <3>1 DEF LatestOK, PlacesOK, ClosedOnce, Promise!Ended, Ended
    <3>5. answer' = [answer EXCEPT ![c] = [kind |-> outcome[Latest], from |-> Latest]]
      <4>1. Latest \in Calls
        BY <3>4 DEF Promise!Ended
      <4> QED
        BY <2>14, <4>1 DEF WaiterReturn, Return, LatestOK, Latest
    <3>6. UNCHANGED <<now, cached, outcome, cancelled, seen>>
      BY <2>14 DEF WaiterReturn, Return
    <3>7. Promise!ReturnFetched(c)
      BY <3>2, <3>3, <3>4, <3>5, <3>6 DEF Promise!ReturnFetched, Promise!Return
    <3> QED
      BY <3>7 DEF Promise!Next
  <2> QED
    BY <2>1, <2>2, <2>3, <2>4, <2>5, <2>6, <2>7, <2>8, <2>9, <2>10, <2>11, <2>12,
       <2>13, <2>14 DEF Next, Finished
<1> QED
  BY <1>1, <1>2, Invariance, PTL DEF Spec, Promise!Spec, KeepsPromise
=============================================================================
