------------------------------ MODULE MCManager ------------------------------
(***************************************************************************)
(* DownloadManager on small instances.                                     *)
(***************************************************************************)
EXTENDS DownloadManager, TLC

CONSTANTS t1, t2, t3, u1, u2, w1, w2

TwoTasks == {t1, t2}
ThreeTasks == {t1, t2, t3}
OneUrl == {u1}
TwoUrls == {u1, u2}
OneWorker == {w1}
TwoWorkers == {w1, w2}

FullReads == [n \in 0..Length |-> 4096 * n]

Symmetry == Permutations(TaskInfos) \cup Permutations(Urls) \cup Permutations(Workers)

=============================================================================
