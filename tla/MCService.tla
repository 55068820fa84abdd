------------------------------ MODULE MCService ------------------------------
(***************************************************************************)
(* DownloadService on small instances.                                     *)
(***************************************************************************)
EXTENDS DownloadService, TLC

CONSTANTS t1, t2, t3, u1, u2, w1, w2

TwoTasks == {t1, t2}
ThreeTasks == {t1, t2, t3}
OneUrl == {u1}
TwoUrls == {u1, u2}
OneWorker == {w1}
TwoWorkers == {w1, w2}

(* Files whose blocks are full reads, and a video of 100 MB whose last read    *)
(* brings four bytes: floats of that size are eight apart.                    *)
FullReads == [n \in 0..Length |-> 4096 * n]
Video == [n \in 0..Length |->
            IF n = 0 THEN 0 ELSE IF n = Length THEN 100000000
            ELSE IF n = Length - 1 THEN 99999996 ELSE 99600000]

(* That the floats decide, as Says100 takes it, for floats of seven bits: the *)
(* argument is the same for any number of bits that 100 fits into.            *)
ASSUME ProgressAssumption ==
    \A b \in 1..300 : \A a \in 1..b :
        Progress(a, b, 128) >= 100 <=> Float(a, 128) >= Float(b, 128)

Symmetry == Permutations(TaskInfos) \cup Permutations(Urls) \cup Permutations(Workers)

=============================================================================
