----------------------------- MODULE MCHTTPClient -----------------------------
(***************************************************************************)
(* Instances of HTTPClient for TLC: two writers, with a client each or one *)
(* client for both, and lists of tokens good and bad.                      *)
(***************************************************************************)
EXTENDS HTTPClient, TLC

CONSTANTS w1, w2

MCWriters    == {w1, w2}
MCClientMaps == {w1 :> "x1" @@ w2 :> "x2", w1 :> "x1" @@ w2 :> "x1"}
MCTokenLists == {<< >>, <<"error">>, <<"error", "empty", "typed", "http_header">>,
                 <<"http_header", "error">>}
=============================================================================
