----------------------------- MODULE MCSession ------------------------------
(* Instances of Session for TLC: private texts of two users, and a command *)
(* in each of two channels.                                                *)
EXTENDS Session

Text(actor, channelId, message) ==
  [actor |-> actor, channelId |-> channelId, message |-> message]

MCTexts ==
  {Text(7, Absent, "other"), Text(8, Absent, "#play"), Text(7, 1, "#play"),
   Text(8, 2, "#stop")}
=============================================================================
