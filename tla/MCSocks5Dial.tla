----------------------------- MODULE MCSocks5Dial -----------------------------
(***************************************************************************)
(* Instances of Socks5Dial for TLC.  The replies hold every branch of      *)
(* greeting, sapAuth, connect and drainBoundAddr: good and bad versions,   *)
(* each method class, each ATYP, a domain name of no bytes and of one.     *)
(***************************************************************************)
EXTENDS Socks5Dial

MCGreetingReplies == {<<5, NoAuth>>, <<5, SAP>>, <<5, 255>>, <<5, 2>>, <<4, 0>>}
MCAuthReplies     == {<<1, 0>>, <<1, 1>>, <<5, 0>>}
MCConnectReplies  ==
  {<<5, 0, 0, 1, 0, 0, 0, 0, 0, 0>>, <<5, 5, 0, 1, 0, 0, 0, 0, 0, 0>>,
   <<5, 0, 0, 4, 0, 0, 0, 0, 0, 0, 0, 0, 0, 0, 0, 0, 0, 0, 0, 0, 0, 0>>,
   <<5, 0, 0, 3, 0, 0, 0>>, <<5, 0, 0, 3, 1, 97, 0, 0>>,
   <<5, 0, 0, 2, 0, 0>>, <<4, 0, 0, 1, 0, 0, 0, 0, 0, 0>>}
\* "SS", the start of an SSH version string.
MCPayload         == <<83, 83>>
=============================================================================
