------------------------- MODULE MCDestinationClient -------------------------
(***************************************************************************)
(* An instance of DestinationClient for TLC: a TCP destination with fields *)
(* only and one with properties of names close to those of fields.         *)
(***************************************************************************)
EXTENDS DestinationClient, TLC

MCConfig ==
  "a" :> ("Name" :> "a" @@ "host" :> "h" @@ "port" :> "22" @@ "user" :> "u")
  @@ "b" :> ("Name" :> "b" @@ "User" :> "v" @@ "sshKey" :> "k")
MCAuthTokens == "a" :> <<"token">> @@ "b" :> << >>
=============================================================================
