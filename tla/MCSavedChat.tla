---------------------------- MODULE MCSavedChat ----------------------------
(***************************************************************************)
(* Two chats and a briefing, under three limits: a long conversation, one  *)
(* with a write that fails, and two connections.                           *)
(***************************************************************************)
EXTENDS SavedChat
Interchangeable == Permutations(Chats)
Limit(o, t, f) == [open |-> o, turns |-> t, failures |-> f]
MCLimits == {Limit(1, 3, 0), Limit(1, 2, 1), Limit(2, 2, 0)}
=============================================================================
