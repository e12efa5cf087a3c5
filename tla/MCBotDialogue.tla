---------------------------- MODULE MCBotDialogue ----------------------------
(* Instances of BotDialogue for TLC. *)
EXTENDS BotDialogue

\* Nothing to pay with, or every method.
AllOrNothing == {{}, Methods}
===============================================================================
