---------------------------- MODULE MCBotSession ----------------------------
(***************************************************************************)
(* A few presses of one customer for BotSession.                           *)
(***************************************************************************)
EXTENDS BotSession, TLC

PressSymmetry == Permutations(Presses)
=============================================================================
