# TLA+ specifications of btp-go

btp-go is a set of small Go modules for programs on SAP BTP: they obtain
tokens, look up destinations, open tunnels through the Cloud Connector, and run
SSH and HTTP over them.  This directory models the parts whose correctness
depends on interleaving, failure, order or time.  Each module is translated
from the Go source; `PROJECT.json` maps every definition to its lines.

Contents: 1 inventory, 2 modules and their correspondence with the code,
3 runs, 4 proofs, 5 what is not modelled, 6 plan.

## 1. Inventory

| Component | State it keeps | Operations | What is hard | What makes it correct |
|---|---|---|---|---|
| `xsuaa` token source | cached token, `inflight`, waiter channels, last result and error, under one mutex | `Token`, `fetch` | any number of goroutines; a fetch outside the mutex; wake-ups and contexts that race; expiry | one fetch at a time; no waiter forgotten or closed twice; usable tokens kept; skew covers latency |
| `connectivity` dialer | none; per call a TCP connection with a deadline | `Dial`, the SOCKS5 handshake | replies in pieces, wrong, late or cut short; deadline; connection owned by exactly one side | authenticates before CONNECT; hands over an aligned tunnel; leaks nothing; ends in time |
| `sshclient` | none; per call the retry loop | `Dial`, `dialOnce`, `IsTransientSSHError` | retries racing cancellation; a handshake that ignores the context; arithmetic on delays | retries the right errors, late enough, a bounded number of times; one tunnel at most |
| `binding/kyma` | none; reads a volume that the kubelet changes | `Binding` | several reads that are not atomic | returns one binding as it is |
| `binding`, `binding/cf`, `binding/auto` | parsed `VCAP_SERVICES`, never changed | lookups, typed extractors, selection of the provider | two runtimes and two layouts for one thing | the same struct from each |
| `httpclient` | header values fixed at construction, cookie jar, connections of the transport | `New`, `FetchCSRF`, `RoundTrip` | writers that share a jar; lost answers; nested header defaults; connections that outlive requests and carry deadlines | token fits session; no write twice; needed headers and route on every request; timeouts hold; connections come free |
| `destination` client | none | `Find`, `ListAll` | two requests that are not atomic; one token for both; answers cut short | exact for what nobody touched |
| `examples/http-odata` | none | read and write handlers | a client for each request; errors after the status is written | as `httpclient`; forwards whole bodies |
| `examples/sftp-*` | none | a handler of up to eight steps | any step fails or hangs after others have opened something | one true answer; nothing left open; returns |
| `main.go` of the examples | none | startup | nothing over time | |

How they interact: `xsuaa`'s source is handed to `connectivity.Dialer`,
`destination.Client` and `httpclient` as a one-method interface and called
concurrently by all of them.  `connectivity.Dialer` is handed to
`sshclient` and `httpclient`, which own the tunnel that it returns (`sshclient`
for the SSH session, `httpclient` through the pool of `http.Transport`).
A `Destination` found by `destination.Client` configures both.  There are no
callbacks into the libraries.  Bindings configure the token sources and the
dialer at startup.  The shared state is the token source's and the
cookie jar.  Nothing is persisted, so there is no recovery to model.

The hazards at their lines are listed in `PROJECT.json`.

## 2. Modules

| Module | Models |
|---|---|
| `TokenService` | abstract: what a caller of a token source may rely on |
| `ClientCredentialsSource` | `xsuaa/token.go`, refines `TokenService` |
| `TunnelDial` | abstract: what a caller of `connectivity.Dialer.Dial` may rely on |
| `Socks5Dial` | `connectivity/dialer.go`, `socks5.go`, `frame.go`, refines `TunnelDial` |
| `SSHSession` | abstract: what a caller of `sshclient.Dial` may rely on |
| `SSHDial` | `sshclient/client.go`, composed with `TunnelDial` for its dialer, refines `SSHSession` |
| `KymaBinding` | `binding/kyma/kyma.go` and the kubelet's updates |
| `Bindings` | `binding/auto`, `binding/cf` and the extractors of `binding/binding.go`, over `KymaBinding` |
| `HTTPClient` | headers, cookies and CSRF tokens of `httpclient/client.go`, the write flow of `examples/http-odata`, and an OData service |
| `HTTPTransport` | routes, timeouts and connections of `httpclient/client.go`, and the handlers of `examples/http-odata` that use them |
| `Destination` | `destination/types.go` and `extractDestination`, as operators |
| `DestinationClient` | `destination/client.go` and the Destination Service |
| `SFTPHandler` | the handlers of `examples/sftp-count` and `examples/sftp-sshclient`, over `TunnelDial`'s deadline and `SSHSession` |
| `MC...` | instances for TLC |
| `...Proofs` | theorems about `ClientCredentialsSource`, `Socks5Dial`, `SSHDial`, `Bindings` with `KymaBinding`, `HTTPClient`, `HTTPTransport`, `DestinationClient` and `SFTPHandler` |

Operators whose comment begins with "Mutant:" are wrong variants of the
definition after them.  They occur in no specification; replacing the
definition by the variant breaks the property named in `PROJECT.json`, which
shows that the property depends on that piece of code.

**ClientCredentialsSource.** A *call* is one invocation of `Token`.  Each
critical section of `s.mu` is one action: `CacheHit`, `Join` and `Lead` are the
three exits of the first one, `Publish` is the leader's second, `WaiterReturn`
the waiter's second.  What happens outside the mutex has actions of its own:
`Issue` (the endpoint), `Receive` and `FetchFails` (the ends of `fetch`),
`CloseOne` (one `close(ch)` of the loop), `WaiterCtx` and `WaiterWoken` (the
select).  The mutex needs no variable: a section is atomic.  `issued` and
`life` are the endpoint's view of a token; `outcome`, `seen`, `joined` and
`answer` are history variables, read by no guard.  `TokenService` has neither
mutex nor waiters: it says that a call returns a token that was usable at that
moment, or the outcome of a fetch that ended during the call, or its own
context's error, and that a fetch starts only if none is under way and no
usable token is cached.

**Socks5Dial.** One call of `Dial`; a `Dialer` has no mutable state, so that
concurrent calls do not interact.  Each `conn.Write` and each `io.ReadFull` is an action.
The proxy answers each frame with a reply from a small set of byte sequences,
which arrive in pieces of any size (`Deliver`); it may fall silent or close.
After a granted CONNECT the on-premises server's first bytes follow directly,
which is what makes alignment worth checking.  A dialer without a token source
panics if the proxy chooses 0x80 all the same (`pc = "panicked"`).  `TunnelDial`
hides the protocol and keeps the connection, its deadline, the time limit and
the possible panic, which leaves the connection open.

**SSHDial.** `Dial`'s loop and `dialOnce`.  The tunnel's variables are those of
`TunnelDial`, instantiated as `Tunnel`; `Accept`, `DialFails`, `DialSucceeds`
and `Tick` are conjunctions of its actions with the loop's, so that
the retry logic is checked against what any dialer that keeps `TunnelDial`'s promise may
do, and `Socks5Dial` is shown to keep it.  The dialer has a token source, so that
`Panic` is no step here.  `SSHSession` hides attempts, delays and errors and keeps
the tunnel and its deadline.  An error is its origin and the
fragment of its text that `IsTransientSSHError` looks for.

**KymaBinding.** `os.ReadDir` of the root, `os.ReadDir` of each directory and,
for each file, the resolution of its path and the read are separate actions;
the kubelet's atomic rename of `..data` (`Rotate`), the later removal of the
old version (`Clean`) and an unmount may come between any two.  `todo` has the
entries the loop has still to visit by their places in the sorted listing, so
that the next one is the least.

**Bindings.** Extends `KymaBinding` with the choice of the provider
(`NewProvider`), the lookup in `VCAP_SERVICES` (`CFBinding`, one action, since
nothing changes under it; `findCredentials` has the places of the instances with
the name asked for, of which the first is taken) and the extractor's struct (`Extract`).  `KymaStep`
is any step of `KymaBinding`.  `KeysOf` is the table from struct fields to keys;
`Meant` says, without it, which struct each version of each binding stands for.

**HTTPClient.** The service is external: sessions with a cookie and a CSRF
token.  `RoundTrip` is the composition of the RoundTrippers that `New` builds; a
header's value is named by its origin.  `ClientMaps` says which writers share a
client; in `examples/http-odata` each request has its own.

**HTTPTransport.** A request goes from `client.Do` through the proxy's
RoundTripper (`ProxyToken`) to the transport, which is external and modelled
for HTTP/1.1 as net/http of the Go version in `go.mod` behaves: `Reuse` of a kept connection or
`StartDial`, a dial that goes on without its request, one retry of a GET for
each kept connection that dies (`Dies`).  `Via` is the choice of route in
`newTransport`: whom the connection is made to, and whether through a tunnel; the
proxy that the environment may name (`env`) stays in force wherever there is no
`HTTPProxy`, on the tunnel too.  A connection opens in up to three states, each with
its own limit (`Limit`): `dialing`, which gives a SOCKS tunnel the deadline that
`TunnelDial` says it has; `preamble`, while `GetProxyConnectHeader` waits for a
token, which has no limit; and `handshake`, for the CONNECT's answer and TLS.  It
records by which way it was made (`via`) and what the proxy was told (`told`).
`HTTPClient` looks at values and lets every loss happen at any time; `HTTPTransport` looks at time and
connections and leaves values out, so the two are checked separately.

**DestinationClient.** Calls one after the other, since the client has no state that changes.
The service decides on a request at one moment (`Serve`) and its answer arrives
later (`ReplyArrives`), perhaps cut short, or never (`Fails`); the order in which
it lists destinations is its own.  A destination may
be created, deleted or moved between the scopes at any time (`Change`);
`touched` remembers which were during the call.  Tokens live as long as the
margin that `ClientCredentialsSource` is proved to leave, or longer.

**SFTPHandler.** `Steps` is the order of the steps of each handler, `Refuse`
the error answer of a step, `deferred` the stack of deferred closes.
`sftp-sshclient` dials with the actions of `SSHSession`, which `SSHDial` is shown
to implement; `sftp-count` dials and then goes through SSH itself.

## 3. Runs

`tlc -config <run>.cfg <module>` with the module given in `PROJECT.json`.

| Run | Question | Bounds |
|---|---|---|
| `token` | is the singleflight safe, and does it implement `TokenService`? | 3 calls, all cancellable; lifetimes 1 and 2 with skew 1; latency up to 1; clock up to 2 |
| `token_live` | do cancelled calls and woken waiters return? | 3 calls, one cancellable; clock at 0 |
| `socks5` | handshake order, alignment, ownership, time, refinement of `TunnelDial` | limit 2, context deadlines before, at once and after it; 5, 3 and 7 replies; location lengths 0, 252 and 256 in base64; clock to 3 |
| `socks5_deadline` | does the tunnel outlive the dial? **No** | as `socks5`, lengths 0 and 252 |
| `ssh` | refinement of `SSHSession`, retry policy, total time | 1 and 3 attempts, base 1 and the default, jitter or none; clock to 26 |
| `bindings` | the same struct from every provider and layout, never a mix of bindings? | 2 bindings of 2 versions each, a dotted directory, a plain file, bad credentials; every environment |
| `kyma_lost` | does "not found" mean absent? **No** | as `bindings` |
| `http` | CSRF tokens, writes, headers | 2 writers with own clients or one, 2 sessions, 4 token lists, every combination of options |
| `transport` | routes, timeouts, connections that come free | 2 requests (reads, or FetchCSRF and write) on own clients or one; 5 routes; 3 slots; timeouts 0 (default 2) and 1, dial 2, CONNECT 2, handshake 1, idle 2; a CONNECT's token within 1 or never; starts up to 1, clock to 14 |
| `odata_cut` | is what is forwarded whole? **No** | as `transport` |
| `destination` | complete and true lists; the token's margin | 2 calls, 2 changes, tokens that live 1 or 2, clock to 4 |
| `sftp` | one true answer, nothing left open, the handler returns | 6 kinds of destination, both handlers, deadline up to 2, clock to 6 |

Why the bounds are enough.  For the safety properties and the refinements the
proofs of section 4 lift them; what follows is about the cases the runs reach.  *token*: three calls are the fewest with a leader,
a waiter and a later leader that publishes before the waiter reads; skew 1 and
lifetimes 1 and 2 give a token that is stale on arrival and one that is cached and then
expires within the clock's bound.  *socks5*: the replies contain every branch
of `greeting`, `sapAuth`, `connect` and `drainBoundAddr` (each ATYP, a name of no
byte and of one), host names of 255 and 256 bytes lie on both sides of the
check, and locations whose base64 has 252 and 256 characters on both sides of the
missing one.  *ssh*: the third attempt is the first whose delay has doubled; 26 is
beyond the longest run that `Longest` allows, so that `DialBounded` is
not true for lack of time.  A base delay of 1 with jitter makes
`rand.Int64N(0)` panic, which the run reaches and `KeepsPromise` covers.  *bindings*: the first
binding changes between files per key and one credentials blob, the second
changes type.  *http*: two sessions suffice for one writer's cookie to replace another's, and
no behaviour of two writers opens a third.
*transport*: the routes are the HTTPProxy for http and https (the latter with a Dialer
and an environment proxy beside it), the tunnel for http and, with an environment
proxy, for https, and no proxy at all; the last request starts by 4 (a write 1 after
the end of its FetchCSRF) and dials by 6, an orphaned connection is dialed by 8, has
its token by 9 if ever, is up by 12 and idle to 14, so the clock never ends a
connection's life; three slots are more than two requests and an orphan need at
once, and a request that found none would still end by its timeout.
*destination*: two changes let a destination leave one scope and come
back, or two cross; a second call would show a token or a result kept from the first.
*sftp*: the kinds are a password as field or property, a key that parses or
not, no authentication, a bad port.

Fairness.  `token_live`: goroutines run, `sync.Mutex` starves nobody, and
net/http ends an exchange whose context is done; nothing makes the endpoint
answer, so a call without a deadline may wait for ever, as in the code.
`socks5` and `ssh`: the client runs, its timers and deadlines fire, time passes; the
proxy and the SSH server owe nothing.  `transport`: timers and deadlines fire,
FetchCSRF runs, time passes; the server, the proxies, the token endpoint and the
callers owe nothing, not even to begin.  What has no limit in the code is not
made to end: `GetProxyConnectHeader` calls `Token` under a context that
net/http detached from the request's (`client.go:229`), and `xsuaa`'s client has no timeout, so a
connection may stay in `preamble` for ever, and `ConnectionsReclaimed` excepts it.
`sftp`:
the handler runs, a dial ends (`DialReturns`), I/O on the tunnel fails
after its deadline; the server owes nothing.  `Find`, before the dial, is
bounded by nothing if the request's context is not, and `HandlerReturns` starts
after it.  `bindings`, `http` and `destination` check safety only.

Time.  In `Socks5Dial` and `SSHDial` the clock waits for a step whose deadline,
timer or context is due, so the bounds on time (`DialBounded`) and
`CancelStopsRetries` are up to the scheduler's delay, which the model takes as
less than a tick.  At equal times either outcome is possible, as in the
code: a timer and a context that are both due race in the `select`.

What the runs with a counterexample show:

- `socks5_deadline`: the deadline of `socks5.go:151` is never cleared, so that
  any session on a tunnel ends at most `DialTimeout` (30 s) after the dial began.
  `SSHDial` and `SFTPHandler` rely on the same deadline: as `ssh.NewClientConn`
  and the SFTP calls have no context, it is all that bounds a silent SSH
  server (`DialBounded`, `HandlerReturns`).  Clearing the deadline needs another
  bound there.
- `kyma_lost`: `kyma.go:136-138` ignores read errors; with a rotation between
  listing and reading the `type` key is missing and the binding is skipped.
- `odata_cut`: `handler.go:94` (and `:160` for a write) ignores the error of `io.Copy`; the
  status has been sent, so a body cut short by Client.Timeout, by a tunnel's
  deadline or by the peer reaches the caller as a complete response.

Other places where the code does not do what a comment says; the property that covers
the case states the exception, and claims nothing that the comment denies:

- `frame.go:18` has the length byte say the location's length; `:30` keeps its low
  byte, unchecked.  A location of more than 189 bytes has a base64 of 256 characters or
  more and is declared 256 too short, so the proxy takes its end for something
  else (exception in `Declares`, of `TunnelAligned`).
- `client.go:55` of `sshclient` says that jitter is 25% either way; `:85` adds up to
  half the delay and never takes away.  `BackoffWindow` allows what either says, in
  which the windows of two attempts still do not overlap.
- `httpclient/doc.go:9` and `client.go:97` say that no auth header is sent if the
  destination has no AuthTokens; `client.go:261-265` says, and `buildAuthHeader` does,
  Basic if there is a user.  `HeadersComplete` takes either in that case.
- `client.go:76` of `httpclient` has one Timeout per request; but the deadline that
  `socks5_deadline` shows stays on a connection in the pool, and ends a write, or any
  request in its body, on a kept tunnel before that (`RequestTimed` says that nothing
  else is ended early).
- `doc.go:13-18` has the tunnel end at the destination; `client.go:205` leaves
  `http.ProxyFromEnvironment` in place when `DialContext` is replaced at `:255`, so with
  HTTP_PROXY or HTTPS_PROXY set the tunnel is asked for that proxy's address
  (exception in `ProxyInformed`).
- `token.go:84` says that a waiter subscribes to the result of the fetch it
  found under way.  `token.go:96-98` re-reads `s.result` and `s.err` after the
  wake-up, so that a fetch that ended later may answer (`answer.from` and
  `joined` then differ).  That is harmless for freshness: `KeepsPromise` allows it.
- `dialer.go:30-31` and `:59` promise method 0x00 and a `*StageError` for a dialer without a token
  source; `socks5.go:168` calls `Token` on a nil interface if the proxy
  chooses 0x80 (`StageTruthful` says that this is the only way).
- `client.go:163-165` of `httpclient` calls a CSRF token suitable for later
  writes on the same client; another `FetchCSRF` on that client may replace its
  session cookie (`TokenSuitable` says that nothing else can).

## 4. Proofs

Every invariant, action property and refinement that a passing run checks is also
proved, by `tlapm`, for all values of the constants that the assumptions allow.
Only the liveness properties (section 3) are left to TLC.

| Module | Theorem | Statement |
|---|---|---|
| all | `TypeCorrect` | `TypeOK` (`BindingsTypeOK`) |
| all | `Invariant` (`Invariance` in the first) | the inductive invariant behind the others |
| `ClientCredentialsSourceProofs` | `SingleFlightHolds`, `NoLostWakeupHolds`, `ClosedOnceHolds`, `CacheLeavesMarginHolds` | the invariants of run `token` |
| | `UsableTokenKeptHolds` | its action property |
| | `Refinement` | `KeepsPromise`: implements `TokenService` |
| `Socks5DialProofs` | `AuthBeforeConnectHolds`, `StageTruthfulHolds`, `TunnelAlignedHolds`, `DialBoundedHolds` | the invariants of run `socks5` |
| | `Refinement` | `KeepsPromise`: implements `TunnelDial` |
| `SSHDialProofs` | `CancelStopsRetriesHolds` (if `Fits`), `DialBoundedHolds` (given `PowersPositive`) | the invariants of run `ssh` |
| | `BackoffWindowHolds` (if `Fits`) | its action property |
| | `Refinement` | `KeepsPromise`: implements `SSHSession` |
| `BindingsProofs` | `OneBindingHolds`, `QuietReadExactHolds` | the invariants of run `bindings` |
| `HTTPClientProofs` | `WrittenOnceHolds`, `TokenSuitableHolds`, `HeadersCompleteHolds` | the invariants of run `http` |
| `HTTPTransportProofs` | `ProxyInformedHolds`, `RequestTimedHolds` | the invariants of run `transport` |
| `DestinationClientProofs` | `TokenHonouredHolds`, `ResultExactHolds` | the invariants of run `destination` |
| `SFTPHandlerProofs` | `NothingLeaksHolds`, `AnswerTruthfulHolds` | the invariants of run `sftp` |

Each proof has the same shape: `Init => Inv`, one lemma per action (or per group
of actions that do the same to the state) that the action keeps `Inv`, and for each
property the step from `Inv` to it.  TLC has checked every `Inv` as an
invariant of the component's run.

**Assumptions.**  TLC evaluates all of them in the runs.

- Times, durations and bounds are numbers, and a number that stands for "none"
  is no value (`CallsAssumption`, `TimeAssumption`, `RetryAssumption`,
  `LifeAssumption`).  `LifeAssumption` also says that tokens live as long as the
  margin that `CacheLeavesMarginHolds` gives.
- `LengthAssumption`: lengths of host names and locations are numbers, of any size.
  `TunnelAligned` is proved for all of them and excepts, in `Declares`, the auth frame
  of a location too long for its length byte.  `ReplyAssumption`: the proxy's frames have
  the lengths of RFC 1928.  The proxy may still send any prefix, close or stop, and
  choose any method, status and address type.
- `ClientAssumption`: token lists are made of the four kinds that
  `buildAuthHeader` tells apart.  `ConfigAssumption`: the service keeps
  destinations by their names, and a configuration holds its name.
- `ContentAssumption`: a volume's directories have a first version and no key is
  a sentinel.  `MeantAssumption` and `VcapAssumption` say what `QuietReadExact`
  is relative to: `Meant` is what the files say, and VCAP_SERVICES has the
  same instances in the same order.  Credentials that cannot be decoded stand alone
  under their label.
- `LoadAssumption`: requests are numbered from 1, options are Booleans.

Two hypotheses stand in theorems, since the properties fail without them (TLC
finds the counterexamples when the constants break them):

- `Fits`, for `CancelStopsRetries` and `BackoffWindow`: every delay that `Dial` may
  compute lies in 1..`MaxDuration`.  Otherwise the doubled delay wraps around; with
  the default of 200 ms the first to do so is the wait before the 38th attempt, and
  a timer of a negative delay fires at once.  `DialBounded`, `Refinement` and
  `TypeCorrect` do not need it: a delay that wraps is only shorter (`WrapBelow`).
- `RequestTimedHolds`: no `Config.Timeout` is longer than `DialTimeout`.  With
  a longer one, the deadline that a SOCKS tunnel keeps does end a request early on the
  tunnel dialed for it; on a kept one it may do so with any timeout.

A third is no restriction but arithmetic that the installed provers, which know
little of `^`, cannot find: `PowersPositive`, every power of two is at least one.
`DialBoundedHolds` needs it, since a negative delay would shrink the sum of the waits.

**Why the invariants are stronger than the properties.**

*Token source.*  `IInv` adds where a call
may be whose channel is listed, copied or closed (`PlacesOK`); that the list is
not empty only during a flight, whose leader will take it (`WaitersServed`);
that no usable token is cached during a flight (`StaleInFlight`), the reason
why a failed refresh drops nothing usable; how old an answer on its way is
(`GrantOK`) and what follows for the entry made of it (`EntryOK`) and for the
cache (`CachedOK`), which give the margin; and that `result` and `err` hold the
outcome of a fetch a waiter has not seen end (`LatestOK` with `SeenOK` and
`OutcomeOK`), which gives the refinement step of `WaiterReturn`.  `Refinement` maps `Lead` to `BeginFetch`,
`Publish` to `EndFetch`, the returns to the three returns of the promise, and
everything else to `Open`, `Cancel`, `Tick` or a stutter.

*SOCKS5 dialer.*  `Base` has the connection, the deadline and the limit, and is
enough for `DialBounded` and the refinement.  `Flow` has the protocol: which
frames have been sent and answered at each step (`OrderOK`) and, the core of
`TunnelAligned`, that what has arrived and what is on its way are together what follows
the bytes read so far of the last reply and the server's first bytes (`WireOK`,
`Unread`), with the number of bytes read at each step.

*SSH dial.*  `TunnelOK` says when the attempt's tunnel is open, and is enough for
the refinement.  `LateOK` and `WaitOK` follow the select and its timer.  `SpentOK`
gives `DialBounded`: an attempt ends within the dials and the longest waits up to
it, a wait that overflowed included (`WaitAtMost`).  `Longest` is a recursive
function; that its value splits at any attempt is proved by taking the least
attempt at which it would not.

*Bindings.*  While no volume changes, the directories passed do not match, the map
built so far is a part of what the directory says, and files read and
files to read together are all of it (`QuietOK`, `ReadingOK`).  Without that
assumption the map is still of one directory (`OutOK`).  For VCAP_SERVICES the
order of instances is that of the directories, so the first that
`findCredentials` takes is the first that matches (`VcapFirst`).

*HTTP client.*  `SessionsOK`, `JarOK` and `CookieOK` say whose session a cookie and
a token on their way are of; `AppliedOK` ties a write carried out to the
one POST of its writer.  For the headers, `AuthIs` proves what `buildAuthHeader`'s loop finds in a list
of any length, and `ChainIs` what the RoundTrippers make of it.

*HTTP transport.*  Requests and connections know each other (`HoldOK`, `ConnOK`), which
gives `TypeOK`'s claim that a connection is shared by no two requests and
lost by none.  A connection that is not a kept one was dialed for its request, so
its deadline is at least a dial after the request's start: that gives
`RequestTimed`, with `Excused` for what a tunnel's deadline may have done by then to a
request that has ended.  Any connection, kept or new, was made by the route's way and
told what the route says before it is handed over, which gives `ProxyInformed`.

*Destination client.*  An answer on its way is true of everything that has not been
touched (`ReplyOK`), and so is the list of the first scope while the second is
fetched (`SubOK`); a token in use has its margin (`CallOK`).

*Handlers.*  What is open is what has been opened and not closed, and the stack of
deferred calls has the closes of exactly that (`StackOK`, `ConnOK`); an answer
that has been decided on says what the configuration is (`CheckedOK`).

**Left to TLC.**  Liveness: `CancelledCallReturns`, `WaitersReleased`,
`DialReturns`, `ConnectionsReclaimed` and `HandlerReturns` rest on fairness and
ENABLED, which the prover does not treat; and the counterexamples of section 3.
The library's induction rules cannot be instantiated by the installed
provers; where a proof needs induction over numbers (`LeastNumber` in three
modules) it takes the least counterexample.

## 5. Not modelled

- The SSH and SFTP libraries, TLS, HTTP framing and HTTP/2, JSON, base64, URLs, names and
  contents of messages.
- The `main.go` of the examples: straight-line startup that exits at the first error.
- Checks of query parameters in `examples/http-odata`, `BestAuthToken` (a
  search without a caller), `DisableCookieJar` and `TLSConfig`.
- In modelled code: a panic inside `fetch` (which would leave `inflight` set), and
  overflow of `expires_in`.  In net/http: a request that waits for its dial may
  take a connection that comes free meanwhile, and TLS after a CONNECT has a limit
  of its own (here one limit for both).
- Which hosts the environment's proxy settings exempt (NO_PROXY): `env` is what they
  come to for the destination.

## 6. Plan

Every component is modelled, and every safety property of the runs is proved.
What could be added:

1. Consequences of the abstract specifications for their users, as theorems:
   what `TokenService`, `TunnelDial` and `SSHSession` alone imply.
2. The step-wise part of the liveness arguments, such as bounds on the
   number of steps until a waiter is woken.
3. `SSHDial` without `Fits`: how many attempts a done context may still cause.
