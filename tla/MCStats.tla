------------------------------- MODULE MCStats -------------------------------
(***************************************************************************)
(* Small instances of Stats: an idle counter of 0, which the first call    *)
(* moves back below zero, and counters that wrap while they are watched.   *)
(***************************************************************************)
EXTENDS Stats

MCBoot == {[busy |-> 0, idle |-> 0, utime |-> 0, stime |-> 0],
           [busy |-> Word - 1, idle |-> Word - 1, utime |-> Word - 2, stime |-> 1]}
=============================================================================
