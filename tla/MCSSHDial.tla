------------------------------ MODULE MCSSHDial ------------------------------
(***************************************************************************)
(* Instances of SSHDial for TLC: no retry and three attempts, a default    *)
(* delay of 4 (delays 4 and 8) and a base delay of 1, jitter or none.      *)
(***************************************************************************)
EXTENDS SSHDial

MCMaxAttempts == {0, 3}
MCBaseDelays  == {0, 1}
=============================================================================
