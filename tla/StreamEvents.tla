---------------------------- MODULE StreamEvents ----------------------------
(***************************************************************************)
(* What the application that pushes a stream is promised about the         *)
(* callbacks it gets, without threads, locks and sockets: a stream is      *)
(* reported connected, or as reconnecting for the first, second, ... time  *)
(* in a row, and as failed only after the last attempt; nothing follows a  *)
(* failure, and nothing is reported when there is no stream.               *)
(***************************************************************************)
EXTENDS Naturals

CONSTANT MaxRetry       \* how many reconnections in a row are announced

VARIABLES
    live,               \* whether there is a stream
    told,               \* the last callback of the stream
    times               \* the number the last OnStreamReconnecting carried

eventVars == <<live, told, times>>

Init == live = FALSE /\ told = "nothing" /\ times = 0

Begin == ~live /\ live' = TRUE /\ UNCHANGED <<told, times>>

TellOk ==
    /\ live /\ told \in {"nothing", "reconnecting"}
    /\ told' = "ok" /\ times' = 0 /\ UNCHANGED live

TellReconnecting ==
    /\ live /\ told # "failed" /\ times < MaxRetry
    /\ told' = "reconnecting" /\ times' = times + 1 /\ UNCHANGED live

TellFailed ==
    /\ live /\ told = "reconnecting" /\ times = MaxRetry
    /\ told' = "failed" /\ UNCHANGED <<live, times>>

End ==
    /\ live
    /\ live' = FALSE /\ told' = "nothing" /\ times' = 0

Next == Begin \/ TellOk \/ TellReconnecting \/ TellFailed \/ End

Spec == Init /\ [][Next]_eventVars

=============================================================================
