------------------------------ MODULE MCRecovery ------------------------------
(* One turn, a bot and the bot that replaces it: they may be up together.      *)
EXTENDS Recovery, TLC
CONSTANTS t1, old, new
MCTurns == {t1}
MCBots == {old, new}
MCDelays == {1, 2}
===============================================================================
