----------------------- MODULE ClientCredentialsSource -----------------------
(***************************************************************************)
(* xsuaa.clientCredentialsSource: the token cache with a hand-rolled       *)
(* singleflight (xsuaa/token.go).                                          *)
(*                                                                         *)
(* Any number of goroutines call Token.  The call that finds no usable     *)
(* token and no fetch under way becomes the leader and fetches; a call     *)
(* that finds a fetch under way appends a channel to s.waiters and blocks  *)
(* in a select.  Each critical section of s.mu is one action; everything   *)
(* the code does outside the mutex (the HTTP exchange, the closing of the  *)
(* channels one by one, the wake-up of a waiter and its second Lock) is a  *)
(* step of its own, so that all their interleavings occur.                 *)
(*                                                                         *)
(* A call is one invocation of Token and a fetch is named by the call that *)
(* made it; so is the token it obtains.  A nil *tokenEntry and the zero    *)
(* tokenEntry{} are both Nil: fetch never returns an empty value without   *)
(* an error, so a local entry is Nil exactly when err is not nil.          *)
(***************************************************************************)
EXTENDS Integers, FiniteSets

CONSTANTS Calls,        \* the invocations of Token
          NoCall,       \* no call: the value of the zero entry, the nil error
          Cancellable,  \* the calls whose context may be cancelled
          Lifetimes,    \* the expires_in values the endpoint may answer
          ConfigSkew,   \* Config.Skew as given to NewClientCredentialsSource
          DefaultSkew,  \* the default that replaces a zero Skew (60s)
          MaxLatency,   \* how long an answer may take to reach the client
          MaxTime       \* bound on the clock, for TLC

ASSUME CallsAssumption == NoCall \notin Calls /\ Cancellable \subseteq Calls
ASSUME TimeAssumption  == /\ Lifetimes \subseteq Nat
                          /\ ConfigSkew \in Nat
                          /\ DefaultSkew \in Nat
                          /\ MaxLatency \in Nat
                          /\ MaxTime \in Nat

VARIABLES
  now,        \* time.Now()
  cached,     \* s.cached
  inflight,   \* s.inflight
  waiters,    \* s.waiters: the calls whose channel is in the list
  result,     \* s.result
  err,        \* s.err: the fetch whose error it is, NoCall for nil
  pc,         \* where each call is
  entry,      \* the leader's local entry
  toWake,     \* the leader's local copy of the waiter list, still to close
  closed,     \* the calls whose channel is closed
  cancelled,  \* the calls whose ctx is done
  issued,     \* when the endpoint issued the token of a fetch
  life,       \* the expires_in the endpoint answered a fetch with
  \* history variables, read by no action
  outcome,    \* outcome[f]: how fetch f ended ("none" until it is published)
  seen,       \* seen[c]: the fetches that had ended when c called Token
  joined,     \* joined[c]: the fetch c subscribed to
  answer      \* answer[c]: what Token returned to c

shared  == <<cached, inflight, waiters, result, err>>
server  == <<issued, life>>
history == <<outcome, seen, joined, answer>>
vars    == <<now, cached, inflight, waiters, result, err, pc, entry, toWake,
             closed, cancelled, issued, life, outcome, seen, joined, answer>>

Nil      == [value |-> NoCall, expiresAt |-> 0]
NoAnswer == [kind |-> "none", from |-> NoCall]

\* NewClientCredentialsSource: a zero Skew means the default.
Skew == IF ConfigSkew = 0 THEN DefaultSkew ELSE ConfigSkew

Init == /\ now = 0
        /\ cached = Nil
        /\ inflight = FALSE
        /\ waiters = {}
        /\ result = Nil
        /\ err = NoCall
        /\ pc = [c \in Calls |-> "idle"]
        /\ entry = [c \in Calls |-> Nil]
        /\ toWake = [c \in Calls |-> {}]
        /\ closed = {}
        /\ cancelled = {}
        /\ issued = [c \in Calls |-> 0]
        /\ life = [c \in Calls |-> 0]
        /\ outcome = [c \in Calls |-> "none"]
        /\ seen = [c \in Calls |-> {}]
        /\ joined = [c \in Calls |-> NoCall]
        /\ answer = [c \in Calls |-> NoAnswer]

CacheUsable == cached # Nil /\ now < cached.expiresAt

Ended == {f \in Calls : outcome[f] # "none"}

\* The fetch whose outcome result and err hold.
Latest == IF err = NoCall THEN result.value ELSE err

Goto(c, label) == pc' = [pc EXCEPT ![c] = label]

\* What the caller sees; the history of the call ends here.
Return(c, kind, from) ==
  /\ Goto(c, "done")
  /\ answer' = [answer EXCEPT ![c] = [kind |-> kind, from |-> from]]
  /\ UNCHANGED <<outcome, seen, joined>>

\* A goroutine calls Token and is about to lock s.mu.
Call(c) ==
  /\ pc[c] = "idle"
  /\ Goto(c, "entering")
  /\ seen' = [seen EXCEPT ![c] = Ended]
  /\ UNCHANGED <<now, shared, entry, toWake, closed, cancelled, server,
                 outcome, joined, answer>>

\* The caller's context is cancelled or times out.
Cancel(c) ==
  /\ c \in Cancellable \ cancelled
  /\ pc[c] \notin {"idle", "done"}
  /\ cancelled' = cancelled \cup {c}
  /\ UNCHANGED <<now, shared, pc, entry, toWake, closed, server, history>>

\* First critical section: the cached token is still usable.
CacheHit(c) ==
  /\ pc[c] = "entering"
  /\ CacheUsable
  /\ Return(c, "token", cached.value)
  /\ UNCHANGED <<now, shared, entry, toWake, closed, cancelled, server>>

\* First critical section: a fetch is under way, subscribe to it.
Join(c) ==
  /\ pc[c] = "entering"
  /\ ~CacheUsable
  /\ inflight
  /\ waiters' = waiters \cup {c}
  /\ Goto(c, "wait")
  /\ joined' = [joined EXCEPT ![c] = CHOOSE l \in Calls :
                  pc[l] \in {"fetch", "answered", "publish"}]
  /\ UNCHANGED <<now, cached, inflight, result, err, entry, toWake, closed,
                 cancelled, server, outcome, seen, answer>>

\* First critical section: become the leader.
BecomeLeader(c) ==
  /\ inflight' = TRUE
  /\ Goto(c, "fetch")
  /\ UNCHANGED <<now, cached, waiters, result, err, entry, toWake, closed,
                 cancelled, server, history>>

\* Mutant: the cached token is not looked at.
LeadEagerly(c) == pc[c] = "entering" /\ ~inflight /\ BecomeLeader(c)

Lead(c) == pc[c] = "entering" /\ ~CacheUsable /\ ~inflight /\ BecomeLeader(c)

\* The token endpoint issues a token to the leader's request.
Issue(c) ==
  /\ pc[c] = "fetch"
  /\ \E l \in Lifetimes : life' = [life EXCEPT ![c] = l]
  /\ issued' = [issued EXCEPT ![c] = now]
  /\ Goto(c, "answered")
  /\ UNCHANGED <<now, shared, entry, toWake, closed, cancelled, history>>

\* Mutant: the skew is not subtracted.
ExpiryNoSkew(c) == now + life[c]

\* time.Now() when the answer has been read, plus expires_in, less the skew.
Expiry(c) == now + life[c] - Skew

\* fetch decodes the answer.
Receive(c) ==
  /\ pc[c] = "answered"
  /\ entry' = [entry EXCEPT ![c] = [value |-> c, expiresAt |-> Expiry(c)]]
  /\ Goto(c, "publish")
  /\ UNCHANGED <<now, shared, toWake, closed, cancelled, server, history>>

\* fetch returns an error: no request or connection, a status that is not 200,
\* an undecodable or empty answer, or the leader's own context.
FetchFails(c) ==
  /\ pc[c] \in {"fetch", "answered"}
  /\ entry' = [entry EXCEPT ![c] = Nil]
  /\ Goto(c, "publish")
  /\ UNCHANGED <<now, shared, toWake, closed, cancelled, server, history>>

\* Mutant: a failed fetch leaves s.inflight set.
SettleKeepsInflight(c) ==
  /\ inflight' = (entry[c] = Nil)
  /\ cached' = entry[c]
  /\ result' = entry[c]
  /\ err' = IF entry[c] # Nil THEN NoCall ELSE c

\* Mutant: a success leaves the error of an earlier fetch in s.err.
SettleKeepsErr(c) ==
  /\ inflight' = FALSE
  /\ cached' = entry[c]
  /\ result' = entry[c]
  /\ err' = IF entry[c] # Nil THEN err ELSE c

\* The leader stores the outcome ...
Settle(c) ==
  /\ inflight' = FALSE
  /\ cached' = entry[c]
  /\ result' = entry[c]
  /\ err' = IF entry[c] # Nil THEN NoCall ELSE c

\* Mutant: a failed fetch drops the waiters without waking them.
TakeOnSuccess(c) ==
  /\ toWake' = [toWake EXCEPT ![c] = IF entry[c] # Nil THEN waiters ELSE {}]
  /\ waiters' = {}

\* Mutant: s.waiters is not reset.
TakeNoReset(c) ==
  /\ toWake' = [toWake EXCEPT ![c] = waiters]
  /\ UNCHANGED waiters

\* ... and takes the waiter list,
TakeWaiters(c) ==
  /\ toWake' = [toWake EXCEPT ![c] = waiters]
  /\ waiters' = {}

\* both in its second critical section.
Publish(c) ==
  /\ pc[c] = "publish"
  /\ Settle(c)
  /\ TakeWaiters(c)
  /\ Goto(c, "wake")
  /\ outcome' = [outcome EXCEPT ![c] = IF entry[c] # Nil THEN "token" ELSE "error"]
  /\ UNCHANGED <<now, entry, closed, cancelled, server, seen, joined, answer>>

\* Mutant: the loop ends after the first waiter.
CloseFirstOnly(c) ==
  /\ pc[c] = "wake"
  /\ \E w \in toWake[c] : closed' = closed \cup {w}
  /\ toWake' = [toWake EXCEPT ![c] = {}]
  /\ UNCHANGED <<now, shared, pc, entry, cancelled, server, history>>

\* One close(ch) of the loop over the waiters.
CloseOne(c) ==
  /\ pc[c] = "wake"
  /\ \E w \in toWake[c] :
       /\ closed' = closed \cup {w}
       /\ toWake' = [toWake EXCEPT ![c] = @ \ {w}]
  /\ UNCHANGED <<now, shared, pc, entry, cancelled, server, history>>

LeaderReturn(c) ==
  /\ pc[c] = "wake"
  /\ toWake[c] = {}
  /\ IF entry[c] = Nil THEN Return(c, "error", c)
                       ELSE Return(c, "token", entry[c].value)
  /\ entry' = [entry EXCEPT ![c] = Nil]  \* its frame is gone
  /\ UNCHANGED <<now, shared, toWake, closed, cancelled, server>>

\* Mutant: a waiter receives from its channel without a select.
WaiterDeafToCtx(c) == FALSE /\ pc[c] = "wait" /\ UNCHANGED vars

\* The select of a waiter: its context is done ...
WaiterCtx(c) ==
  /\ pc[c] = "wait"
  /\ c \in cancelled
  /\ Return(c, "ctx", NoCall)
  /\ UNCHANGED <<now, shared, entry, toWake, closed, cancelled, server>>

\* ... or its channel is closed.
WaiterWoken(c) ==
  /\ pc[c] = "wait"
  /\ c \in closed
  /\ Goto(c, "woken")
  /\ UNCHANGED <<now, shared, entry, toWake, closed, cancelled, server, history>>

\* Mutant: the waiter does not look at s.err.
WaiterReturnNoErr(c) ==
  /\ pc[c] = "woken"
  /\ Return(c, "token", result.value)
  /\ UNCHANGED <<now, shared, entry, toWake, closed, cancelled, server>>

\* Second critical section of a waiter: read result and err, and return.
WaiterReturn(c) ==
  /\ pc[c] = "woken"
  /\ IF err # NoCall THEN Return(c, "error", err)
                     ELSE Return(c, "token", result.value)
  /\ UNCHANGED <<now, shared, entry, toWake, closed, cancelled, server>>

\* Time passes, but an answer never spends more than MaxLatency on its way.
Tick ==
  /\ now < MaxTime
  /\ \A c \in Calls : pc[c] = "answered" => now < issued[c] + MaxLatency
  /\ now' = now + 1
  /\ UNCHANGED <<shared, pc, entry, toWake, closed, cancelled, server, history>>

\* Every call has returned.
Finished == (\A c \in Calls : pc[c] = "done") /\ UNCHANGED vars

Next == \/ \E c \in Calls :
             \/ Call(c) \/ Cancel(c)
             \/ CacheHit(c) \/ Join(c) \/ Lead(c)
             \/ Issue(c) \/ Receive(c) \/ FetchFails(c)
             \/ Publish(c) \/ CloseOne(c) \/ LeaderReturn(c)
             \/ WaiterCtx(c) \/ WaiterWoken(c) \/ WaiterReturn(c)
        \/ Tick
        \/ Finished

Spec == Init /\ [][Next]_vars

\* A goroutine that can run does, and sync.Mutex starves nobody.  The HTTP
\* client gives up once the request's context is done; nothing makes the
\* token endpoint answer.
Fairness ==
  \A c \in Calls :
    /\ WF_vars(CacheHit(c) \/ Join(c) \/ Lead(c))
    /\ WF_vars(c \in cancelled /\ FetchFails(c))
    /\ WF_vars(Publish(c))
    /\ WF_vars(CloseOne(c) \/ LeaderReturn(c))
    /\ WF_vars(WaiterCtx(c) \/ WaiterWoken(c))
    /\ WF_vars(WaiterReturn(c))

FairSpec == Spec /\ Fairness
-----------------------------------------------------------------------------
Labels == {"idle", "entering", "fetch", "answered", "publish", "wake",
           "wait", "woken", "done"}
CallOrNone == Calls \cup {NoCall}
Entries    == [value : CallOrNone, expiresAt : Int]

\* Types of all variables.
TypeOK ==
  /\ now \in Nat
  /\ cached \in Entries
  /\ inflight \in BOOLEAN
  /\ waiters \in SUBSET Calls
  /\ result \in Entries
  /\ err \in CallOrNone
  /\ pc \in [Calls -> Labels]
  /\ entry \in [Calls -> Entries]
  /\ toWake \in [Calls -> SUBSET Calls]
  /\ closed \in SUBSET Calls
  /\ cancelled \in SUBSET Calls
  /\ issued \in [Calls -> Nat]
  /\ life \in [Calls -> Nat]
  /\ outcome \in [Calls -> {"none", "token", "error"}]
  /\ seen \in [Calls -> SUBSET Calls]
  /\ joined \in [Calls -> CallOrNone]
  /\ answer \in [Calls -> [kind : {"token", "error"}, from : Calls] \cup
                          [kind : {"none", "ctx"}, from : {NoCall}]]

Flying(c) == pc[c] \in {"fetch", "answered", "publish"}

\* The singleflight: s.inflight is true exactly while one call is between
\* becoming the leader and publishing, so at most one request to the token
\* endpoint is outstanding and the flag is never left behind.
SingleFlight ==
  /\ inflight <=> \E c \in Calls : Flying(c)
  /\ \A c, d \in Calls : Flying(c) /\ Flying(d) => c = d

\* A blocked waiter is never forgotten: its channel is closed, or a leader
\* holds it in its local copy of the list, or it is in s.waiters while a
\* fetch is under way whose leader will take the list.
NoLostWakeup ==
  \A c \in Calls : pc[c] = "wait" =>
    \/ c \in closed
    \/ \E l \in Calls : pc[l] = "wake" /\ c \in toWake[l]
    \/ c \in waiters /\ inflight

\* Each waiter's channel is closed at most once (a second close panics): while
\* it waits in s.waiters or in one leader's local copy it is still open, and
\* it is in one of these places only, even when its call has already returned.
ClosedOnce ==
  /\ \A c \in waiters : c \notin closed /\ \A l \in Calls : c \notin toWake[l]
  /\ \A l \in Calls : \A c \in toWake[l] :
       c \notin closed /\ \A m \in Calls \ {l} : c \notin toWake[m]

\* A token served from the cache has at least Skew less the answer's latency
\* left before the endpoint's own expiry: the skew covers the latency.
CacheLeavesMargin ==
  CacheUsable => now + Skew < issued[cached.value] + life[cached.value] + MaxLatency

\* A token that is still usable is never dropped or replaced, whatever the
\* refreshes of other calls end with: s.cached changes only after it expired.
UsableTokenKept == [][CacheUsable => cached' = cached]_vars

\* The call that is fetching, and how far each call looks from outside.
Leader   == IF \E c \in Calls : Flying(c) THEN CHOOSE c \in Calls : Flying(c)
                                          ELSE NoCall
Progress == [c \in Calls |-> CASE pc[c] = "idle" -> "idle"
                               [] pc[c] = "done" -> "done"
                               [] OTHER          -> "open"]

\* The promise of xsuaa.TokenSource, with the mutex and the waiters hidden.
Promise == INSTANCE TokenService WITH
  token  <- cached,
  flying <- Leader,
  status <- Progress

\* The source implements that promise, step by step.
KeepsPromise == Promise!Spec

\* A call whose context is done returns, even when the endpoint never answers:
\* as a waiter through its select, as the leader through its request's context.
CancelledCallReturns ==
  \A c \in Calls : c \in cancelled ~> pc[c] = "done"

\* Once the leader has its answer, good or bad, every waiter of the list returns.
WaitersReleased ==
  \A l, c \in Calls : (pc[l] = "publish" /\ c \in waiters) ~> pc[c] = "done"
=============================================================================
