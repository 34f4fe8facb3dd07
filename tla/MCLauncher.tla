----------------------------- MODULE MCLauncher ----------------------------
(***************************************************************************)
(* Three builds for TLC, two of them configured alike.                     *)
(***************************************************************************)
EXTENDS Launcher, TLC

CONSTANTS c1, c2, c3, mine, other

MCSettings == c1 :> mine @@ c2 :> mine @@ c3 :> other
MCSettingsTwo == c1 :> mine @@ c2 :> mine
=============================================================================
