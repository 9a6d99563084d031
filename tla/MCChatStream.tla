---------------------------- MODULE MCChatStream ----------------------------
(* Two tool calls and bodies of a few lines.                               *)
EXTENDS ChatStream

MCTools == {0, 1}

=============================================================================
