------------------------------- MODULE MCPlay -------------------------------
(* Instance of RtmpPlayer for TLC.  The life cycle is examined with a server  *)
(* that sends nothing, the play buffer with one that refuses nothing.         *)
EXTENDS RtmpPlayer

Scenarios == {
    {"silent", "refuse"},
    {"silent", "refuse", "restart"},
    {"silent", "nosocket", "refuse"},
    {"nosound"},
    {} }

=============================================================================
