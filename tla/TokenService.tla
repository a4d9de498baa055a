---------------------------- MODULE TokenService ----------------------------
(***************************************************************************)
(* What xsuaa.TokenSource promises its callers (xsuaa/token.go, doc.go),   *)
(* with no mutex, channel or waiter list: at most one token fetch is under *)
(* way, it starts only when no usable token is cached, and a call that     *)
(* returns has either been served a token that was usable at that moment,  *)
(* or the outcome of a fetch that ended during the call, or its own        *)
(* context's error.                                                        *)
(*                                                                         *)
(* A call is one invocation of Token.  A fetch is named by the call that   *)
(* made it, and a token by the fetch that obtained it.                     *)
(***************************************************************************)
EXTENDS Integers

CONSTANTS Calls,      \* the invocations of Token
          NoCall,     \* no call, no fetch, no token
          Lifetimes,  \* the expires_in values the token endpoint may answer
          Skew        \* Config.Skew in force

VARIABLES now,        \* the clock
          token,      \* the cached token: [value, expiresAt]
          flying,     \* the fetch under way, or NoCall
          outcome,    \* outcome[f]: what fetch f ended with
          status,     \* status[c]: "idle", "open" or "done"
          cancelled,  \* the calls whose context is done
          seen,       \* seen[c]: the fetches that had ended when c began
          answer      \* answer[c]: what c returned

vars == <<now, token, flying, outcome, status, cancelled, seen, answer>>

NoToken  == [value |-> NoCall, expiresAt |-> 0]
NoAnswer == [kind |-> "none", from |-> NoCall]

Ended  == {f \in Calls : outcome[f] # "none"}
Usable == token.value # NoCall /\ now < token.expiresAt

Init == /\ now = 0
        /\ token = NoToken
        /\ flying = NoCall
        /\ outcome = [f \in Calls |-> "none"]
        /\ status = [c \in Calls |-> "idle"]
        /\ cancelled = {}
        /\ seen = [c \in Calls |-> {}]
        /\ answer = [c \in Calls |-> NoAnswer]

Open(c) == /\ status[c] = "idle"
           /\ status' = [status EXCEPT ![c] = "open"]
           /\ seen' = [seen EXCEPT ![c] = Ended]
           /\ UNCHANGED <<now, token, flying, outcome, cancelled, answer>>

Cancel(c) == /\ status[c] = "open"
             /\ cancelled' = cancelled \cup {c}
             /\ UNCHANGED <<now, token, flying, outcome, status, seen, answer>>

BeginFetch(c) == /\ status[c] = "open"
                 /\ flying = NoCall
                 /\ outcome[c] = "none"
                 /\ ~Usable
                 /\ flying' = c
                 /\ UNCHANGED <<now, token, outcome, status, cancelled, seen, answer>>

\* A fetch that succeeds replaces the token by one that is never used beyond
\* a lifetime less the skew from now; one that fails leaves no token.
EndFetch == /\ flying # NoCall
            /\ \/ /\ outcome' = [outcome EXCEPT ![flying] = "token"]
                  /\ token'.value = flying
                  /\ \E l \in Lifetimes : token'.expiresAt =< now + l - Skew
               \/ /\ outcome' = [outcome EXCEPT ![flying] = "error"]
                  /\ token' = NoToken
            /\ flying' = NoCall
            /\ UNCHANGED <<now, status, cancelled, seen, answer>>

Return(c, a) == /\ status[c] = "open"
                /\ status' = [status EXCEPT ![c] = "done"]
                /\ answer' = [answer EXCEPT ![c] = a]
                /\ UNCHANGED <<now, token, flying, outcome, cancelled, seen>>

ReturnCached(c) == /\ Usable
                   /\ Return(c, [kind |-> "token", from |-> token.value])

ReturnFetched(c) == \E f \in Ended \ seen[c] :
                      Return(c, [kind |-> outcome[f], from |-> f])

ReturnCtx(c) == /\ c \in cancelled
                /\ Return(c, [kind |-> "ctx", from |-> NoCall])

Tick == /\ now' = now + 1
        /\ UNCHANGED <<token, flying, outcome, status, cancelled, seen, answer>>

Next == \/ \E c \in Calls : \/ Open(c) \/ Cancel(c) \/ BeginFetch(c)
                            \/ ReturnCached(c) \/ ReturnFetched(c) \/ ReturnCtx(c)
        \/ EndFetch
        \/ Tick

Spec == Init /\ [][Next]_vars
=============================================================================
