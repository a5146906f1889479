---------------------------- MODULE MCBlockCache ----------------------------
(* The instance of BlockCache that TLC checks: the guest runs cached code   *)
(* everywhere and uncached code from the first line.                        *)
EXTENDS BlockCache

MCProgram == [l \in 0 .. 2 |-> IF l = 0 THEN "mem" ELSE "jump"]

MCEntries == {[line |-> l, cached |-> TRUE] : l \in {0, 2}}
               \cup {[line |-> 0, cached |-> FALSE]}
=============================================================================
