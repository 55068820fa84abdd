----------------------------- MODULE PlayEvents -----------------------------
(***************************************************************************)
(* What the application is told of one play.  It is told ok, or refused    *)
(* after MaxRetry + 1 attempts, never both.  A connection that was told ok *)
(* may be lost: attempts are made again, a new connection is told ok once  *)
(* more, and when as many have failed the loss is told, and nothing after  *)
(* it.  Which losses are noticed is not said here.                         *)
(***************************************************************************)
EXTENDS Naturals

CONSTANT MaxRetry

VARIABLES live, outcome, tries

eventVars == <<live, outcome, tries>>

Init == live = FALSE /\ outcome = "nothing" /\ tries = 0

Begin == ~live /\ live' = TRUE /\ outcome' = "nothing" /\ tries' = 0

Trying == live /\ outcome \in {"nothing", "ok"} /\ tries <= MaxRetry

AttemptFails ==
    /\ Trying
    /\ tries' = tries + 1
    /\ UNCHANGED <<live, outcome>>

TellOk ==
    /\ Trying
    /\ outcome' = "ok" /\ tries' = 0
    /\ UNCHANGED live

GivenUp == live /\ tries = MaxRetry + 1

TellRefused ==
    /\ GivenUp /\ outcome = "nothing"
    /\ outcome' = "refused"
    /\ UNCHANGED <<live, tries>>

TellLost ==
    /\ GivenUp /\ outcome = "ok"
    /\ outcome' = "lost"
    /\ UNCHANGED <<live, tries>>

End == live /\ live' = FALSE /\ outcome' = outcome /\ tries' = 0

Next == Begin \/ AttemptFails \/ TellOk \/ TellRefused \/ TellLost \/ End

Spec == Init /\ [][Next]_eventVars

=============================================================================
