----------------------------- MODULE MCChatTurn -----------------------------
(***************************************************************************)
(* Model checking of ChatTurn on a small connection: two messages, three   *)
(* proposed actions of which a reply may show two, two answers or stops.   *)
(***************************************************************************)
EXTENDS ChatTurn
=============================================================================
