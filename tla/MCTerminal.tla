----------------------------- MODULE MCTerminal -----------------------------
(* Terminal for TLC: the alternate screen and the pushed keyboard protocol,  *)
(* a self-pipe that one marker fills, and two window sizes.                   *)
EXTENDS Terminal

MCModes == <<"alternate_screen", "keyboard">>
=============================================================================
