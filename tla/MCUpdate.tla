------------------------------ MODULE MCUpdate ------------------------------
(* Three files; c2 is another id for the file of c. *)
EXTENDS Players

MCIds == {"a", "b", "c", "c2"}
MCFiles == {"a", "b", "c"}
MCFileOf == [i \in MCIds |-> IF i = "c2" THEN "c" ELSE i]
MCLocal == {"local"}
MCWatched == {"c"}
MCRenamed == {"c2"}
MCStrategies == {{"a"}, {"a", "c"}, {"b", "c"}, {"b", "c2"}}

Scenarios == {
    {},
    {"removal"},
    {"fail"},
    {"overlap"},
    {"queued"},
    {"twice"},
    {"kill", "overlap"},
    {"renamed"},
    {"video", "kill"},
    {"video", "camera"},
    {"image", "kill"}}

=============================================================================
