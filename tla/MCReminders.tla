----------------------------- MODULE MCReminders -----------------------------
(* An instance of Reminders for TLC; its constants are plain values. *)
EXTENDS Reminders, TLC
=============================================================================
