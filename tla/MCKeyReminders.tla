---------------------------- MODULE MCKeyReminders ----------------------------
(* KeyReminders on small instances; reminders.cfg gives the constants. *)
EXTENDS KeyReminders
===============================================================================
