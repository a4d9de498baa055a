--------------------------- MODULE MCHTTPTransport ---------------------------
(***************************************************************************)
(* An instance of HTTPTransport for TLC: two reads, or a write and its     *)
(* FetchCSRF with a read beside them, on clients of their own as in the    *)
(* example or all on one client; and each kind of route.                   *)
(***************************************************************************)
EXTENDS HTTPTransport

MCLoads ==
  {[kind |-> <<"read", "read">>, client |-> <<1, 1>>],
   [kind |-> <<"fetch", "write">>, client |-> <<1, 1>>],
   [kind |-> <<"read", "read">>, client |-> <<1, 2>>]}

Route(proxy, dialer, onPremise, https, location, env) ==
  [proxy |-> proxy, dialer |-> dialer, onPremise |-> onPremise,
   https |-> https, location |-> location, env |-> env]

MCRoutings == {Route(TRUE, FALSE, TRUE, FALSE, TRUE, FALSE), Route(TRUE, TRUE, TRUE, TRUE, TRUE, TRUE),
               Route(FALSE, TRUE, TRUE, FALSE, TRUE, FALSE), Route(FALSE, TRUE, TRUE, TRUE, TRUE, TRUE),
               Route(FALSE, TRUE, FALSE, TRUE, FALSE, FALSE)}
=============================================================================
