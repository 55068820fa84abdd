------------------------------ MODULE Downloads ------------------------------
(***************************************************************************)
(* What the download component promises the rest of the terminal, without  *)
(* its service, threads, messages and table: callers hand over requests;   *)
(* the files they ask for become whole; a request may be told "finished",  *)
(* and more than once, only when its file is whole; and a file that is     *)
(* whole stays so.                                                         *)
(***************************************************************************)
EXTENDS Naturals

CONSTANTS TaskInfos, Urls, NoUrl

VARIABLES
    urlOf,          \* the url each request asks for, NoUrl until it is made
    whole,          \* the urls whose file is on the disk in full
    finishedCalls   \* how often each request was told that it is finished

abstractVars == <<urlOf, whole, finishedCalls>>

Init ==
    /\ urlOf = [t \in TaskInfos |-> NoUrl]
    /\ whole = {}
    /\ finishedCalls = [t \in TaskInfos |-> 0]

Ask(t, u) ==
    /\ urlOf[t] = NoUrl
    /\ urlOf' = [urlOf EXCEPT ![t] = u]
    /\ UNCHANGED <<whole, finishedCalls>>

BecomeWhole(u) ==
    /\ whole' = whole \cup {u}
    /\ UNCHANGED <<urlOf, finishedCalls>>

TellFinished(t) ==
    /\ urlOf[t] \in whole
    /\ finishedCalls' = [finishedCalls EXCEPT ![t] = @ + 1]
    /\ UNCHANGED <<urlOf, whole>>

Next ==
    \/ \E t \in TaskInfos, u \in Urls : Ask(t, u)
    \/ \E u \in Urls : BecomeWhole(u)
    \/ \E t \in TaskInfos : TellFinished(t)

Spec == Init /\ [][Next]_abstractVars

=============================================================================
