---------------------------- MODULE DownloadLife ----------------------------
(***************************************************************************)
(* The life of one download that nobody pauses, as the caller who started  *)
(* it sees it: it waits, is listed and runs, and is told finished once, or *)
(* once more when the last block was reported by the loop that read it and *)
(* by the end of the thread.  The second report may come before the first  *)
(* has taken the download off the list, or late.                           *)
(*                                                                         *)
(* This is what the update of the strategy takes a download to be, and     *)
(* what the service makes of one whose file has at most 2^24 bytes; the    *)
(* float progress of a larger one may say 100 oftener.                     *)
(***************************************************************************)

VARIABLE load

Init == load = "none"

(* It is handed to the service, which drops it if its url is listed. *)
Start  == load = "none" /\ load' = "queued"
Listed == load = "queued" /\ load' = "running"

TellAgain == (load = "told" /\ load' = "again") \/ (load = "late" /\ load' = "none")
Tell      == (load = "running" /\ load' = "told") \/ TellAgain

(* Its first MSG_DOWNLOAD_FINISHED has been handled. *)
Unlist ==
    \/ load = "told" /\ load' \in {"none", "late"}
    \/ load = "again" /\ load' = "none"

(* It fails, or the thread that had told it does before it comes to its end. *)
Fail == load \in {"queued", "running", "late"} /\ load' = "none"

(* The process is killed. *)
Die == load' = "none"

Next == Start \/ Listed \/ Tell \/ Unlist \/ Fail \/ Die

Spec == Init /\ [][Next]_load

=============================================================================
