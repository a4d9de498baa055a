---------------------------- MODULE MCSFTPHandler ----------------------------
(***************************************************************************)
(* An instance of SFTPHandler for TLC: destinations with a password as a   *)
(* field and as a property, with keys that parse and do not, without any   *)
(* authentication, and with a port that is out of range.                   *)
(***************************************************************************)
EXTENDS SFTPHandler, TLC

Base == "Name" :> "d" @@ "host" :> "h" @@ "port" :> "22"

MCConfigs ==
  {Base @@ "password" :> "p", Base @@ "User" :> "u" @@ "Password" :> "p",
   Base @@ "sshKey" :> "pem", Base @@ "sshKey" :> "garbled" @@ "Password" :> "p",
   Base, "port" :> "70000" @@ Base @@ "password" :> "p"}
=============================================================================
