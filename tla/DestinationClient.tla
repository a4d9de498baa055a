--------------------------- MODULE DestinationClient ---------------------------
(***************************************************************************)
(* destination.Client: calls of Find and ListAll, one after the other      *)
(* (destination/client.go).  The client has no state that changes, so      *)
(* concurrent calls do not interact: a call takes one token and makes one  *)
(* request, or two.                                                        *)
(*                                                                         *)
(* The token source is the one of TokenService: a token it hands out stays *)
(* valid for at least Margin (CacheLeavesMargin), perhaps longer.  The     *)
(* Destination Service is external: its administrators create, move and    *)
(* delete destinations at any time, it looks at a request's token and at   *)
(* its own state at one moment, and its answer arrives later, in part, or  *)
(* never.  A body that is cut short is no JSON, which is all that notices  *)
(* it: the error of io.ReadAll is dropped.                                 *)
(***************************************************************************)
EXTENDS Destination, Integers, SequencesExt

CONSTANTS Config,     \* Config[d]: the configuration map of destination d
          AuthTokens, \* AuthTokens[d]: the tokens that come with d from Find
          Margin,     \* how long a token stays valid at least
          Lives,      \* how long it may stay valid
          MaxCalls, MaxChanges, MaxTime  \* bounds on calls, changes, clock, for TLC

Names  == DOMAIN Config
Scopes == {"subaccount", "instance", "none"}

ASSUME LifeAssumption ==
  /\ Margin \in Nat /\ Lives \subseteq Nat /\ \A l \in Lives : l >= Margin
  /\ MaxCalls \in Nat \ {0} /\ MaxChanges \in Nat /\ MaxTime \in Nat

\* The service keeps destinations by their names, and "all" is none.
ASSUME ConfigAssumption ==
  /\ IsFiniteSet(Names) /\ "all" \notin Names /\ DOMAIN AuthTokens = Names
  /\ \A d \in Names : "Name" \in DOMAIN Config[d] /\ Config[d]["Name"] = d

VARIABLES
  now,      \* the clock
  scope,    \* scope[d]: where the service keeps destination d
  changes,  \* how often that has changed
  calls,    \* how many calls have begun
  arg,      \* "all" for ListAll, or the name given to Find
  pc,       \* "start", what is being requested ("find" or a scope), "done"
  tok,      \* the token of the call: [taken, expires]
  reply,    \* the service's answer that has not arrived
  sub,      \* what ListAll got of the first scope
  result,   \* what the call returned
  touched   \* the destinations changed since the call began (history)

call == <<calls, arg, pc, tok, sub, result>>
vars == <<now, scope, changes, call, reply, touched>>

NoReply  == [status |-> 0, dests |-> << >>, cut |-> FALSE]
NoResult == [kind |-> "none", status |-> 0, dests |-> << >>]
NoTok    == [taken |-> 0, expires |-> 0]

Init == /\ now = 0
        /\ scope \in [Names -> Scopes]
        /\ changes = 0
        /\ calls = 1
        /\ arg \in Names \cup {"all"}
        /\ pc = "start"
        /\ tok = NoTok
        /\ reply = NoReply
        /\ sub = << >>
        /\ result = NoResult
        /\ touched = {}

Requesting == pc \in {"find", "subaccount", "instance"}

Return(kind, status, dests) ==
  /\ pc' = "done"
  /\ result' = [kind |-> kind, status |-> status, dests |-> dests]

\* Mutant: the client keeps the token of its first call.
FirstToken(fresh) == IF tok = NoTok THEN fresh ELSE [fresh EXCEPT !.expires = tok.expires]

\* Each call uses the token it has taken itself.
Bearer(fresh) == fresh

\* tokens.Token returns, and the first request goes out ...
TakeToken ==
  /\ pc = "start"
  /\ \E l \in Lives : tok' = Bearer([taken |-> now, expires |-> now + l])
  /\ pc' = IF arg = "all" THEN "subaccount" ELSE "find"
  /\ UNCHANGED <<now, scope, changes, calls, arg, reply, sub, result, touched>>

\* ... or it fails; so does a request that is lost or whose context ends.
Fails ==
  /\ pc = "start" \/ Requesting
  /\ Return("error", 0, << >>)
  /\ reply' = NoReply
  /\ UNCHANGED <<now, scope, changes, calls, arg, tok, sub, touched>>

StatusOK == reply.status = 200

\* Mutant: what could be read of a body is kept.
DecodesPart == TRUE

\* json.Unmarshal of what io.ReadAll got.
Decodes == ~reply.cut

\* The answer arrives: an error, the destination, the first scope, or both.
\* listScope gives extractDestination no tokens.
ReplyArrives ==
  /\ Requesting /\ reply # NoReply
  /\ reply' = NoReply
  /\ LET got == [i \in DOMAIN reply.dests |->
                   LET d == reply.dests[i]
                   IN extractDestination(Config[d], IF pc = "find" THEN AuthTokens[d] ELSE << >>)]
     IN IF ~(StatusOK /\ Decodes)
          THEN Return("error", reply.status, << >>) /\ UNCHANGED sub
        ELSE IF pc = "subaccount"
          THEN sub' = got /\ pc' = "instance" /\ UNCHANGED result
        ELSE Return("ok", 200, sub \o got) /\ UNCHANGED sub
  /\ UNCHANGED <<now, scope, changes, calls, arg, tok, touched>>

\* The next call.
Begin ==
  /\ pc = "done" /\ calls < MaxCalls
  /\ calls' = calls + 1
  /\ arg' \in Names \cup {"all"}
  /\ pc' = "start" /\ sub' = << >> /\ result' = NoResult /\ touched' = {}
  /\ UNCHANGED <<now, scope, changes, tok, reply>>
-----------------------------------------------------------------------------
\* What the service holds of what is requested.
Held == {d \in Names : IF pc = "find" THEN d = arg /\ scope[d] = "subaccount"
                                      ELSE scope[d] = pc}

\* The service decides on a request; it lists destinations in any order, and
\* its answer may be cut short on the way.
Serve ==
  /\ Requesting /\ reply = NoReply
  /\ \/ /\ now > tok.expires
        /\ reply' = [NoReply EXCEPT !.status = 401]
     \/ /\ now =< tok.expires /\ pc = "find" /\ Held = {}
        /\ reply' = [NoReply EXCEPT !.status = 404]
     \/ /\ now =< tok.expires /\ (pc = "find" => Held # {})
        /\ \E order \in SetToSeqs(Held), n \in 0..Cardinality(Held), cut \in BOOLEAN :
             /\ n < Cardinality(Held) => cut
             /\ reply' = [status |-> 200, dests |-> SubSeq(order, 1, n), cut |-> cut]
     \/ reply' = [NoReply EXCEPT !.status = 500]
  /\ UNCHANGED <<now, scope, changes, call, touched>>

\* A destination is created, deleted or moved to the other scope.
Change(d) ==
  /\ changes < MaxChanges
  /\ \E s \in Scopes \ {scope[d]} : scope' = [scope EXCEPT ![d] = s]
  /\ changes' = changes + 1
  /\ touched' = touched \cup {d}
  /\ UNCHANGED <<now, call, reply>>

Tick == /\ now < MaxTime
        /\ now' = now + 1
        /\ UNCHANGED <<scope, changes, call, reply, touched>>

Finished == pc = "done" /\ calls = MaxCalls /\ UNCHANGED vars

Next == \/ TakeToken \/ Fails \/ ReplyArrives \/ Begin
        \/ Serve \/ \E d \in Names : Change(d)
        \/ Tick \/ Finished

Spec == Init /\ [][Next]_vars
-----------------------------------------------------------------------------
\* Types of all variables; in every destination handed out a key is a field or
\* a property, never both.
TypeOK ==
  /\ now \in 0..MaxTime /\ changes \in 0..MaxChanges /\ calls \in 1..MaxCalls
  /\ scope \in [Names -> Scopes]
  /\ pc \in {"start", "find", "subaccount", "instance", "done"}
  /\ tok.taken \in Nat /\ tok.expires \in Nat
  /\ reply.status \in {0, 200, 401, 404, 500}
  /\ result.kind \in {"none", "ok", "error"}
  /\ result.kind = "none" <=> pc # "done"
  /\ \A e \in Range(result.dests) : DOMAIN e.Properties \cap StructFields = {}

\* A destination handed out says what the configuration says, key for key.
SaysAll(e) ==
  LET d == e.field["Name"]
  IN /\ d \in Names
     /\ \A k \in DOMAIN Config[d] :
          Config[d][k] = IF k \in StructFields THEN e.field[k] ELSE Value(e.Properties, k)
     /\ DOMAIN e.Properties \subseteq DOMAIN Config[d]

Listed(d) == {i \in DOMAIN result.dests : result.dests[i].field["Name"] = d}

\* What a call returns is complete and true as far as the service stood still:
\* a destination that nobody touched during the call is in ListAll's result
\* exactly once if it exists and else not at all, those of the subaccount
\* first; Find returns it, with its tokens, if and only if the subaccount has
\* it; and nothing returned lacks or changes a key.
ResultExact ==
  /\ \A e \in Range(result.dests) : SaysAll(e)
  /\ result.kind = "ok" /\ arg = "all" =>
       \A d \in Names \ touched :
         /\ Cardinality(Listed(d)) = (IF scope[d] = "none" THEN 0 ELSE 1)
         /\ \A e \in Names \ touched : \A i \in Listed(d), j \in Listed(e) :
              scope[d] = "subaccount" /\ scope[e] = "instance" => i < j
  /\ result.kind = "ok" /\ arg # "all" =>
       /\ Listed(arg) # {}
       /\ arg \notin touched => scope[arg] = "subaccount"
       /\ \A e \in Range(result.dests) : e.AuthTokens = AuthTokens[arg]
  /\ result.status = 404 /\ arg \notin touched => scope[arg] # "subaccount"

\* The margin that the token source leaves reaches the service: a request is
\* refused for its token only if it has come later than the margin.
TokenHonoured == reply.status = 401 => now > tok.taken + Margin
=============================================================================
