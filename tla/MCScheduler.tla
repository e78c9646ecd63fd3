---------------------------- MODULE MCScheduler ----------------------------
(***************************************************************************)
(* Instances of Scheduler: the idle thread, the IO worker at the highest   *)
(* of three priorities, and program threads of the middle one.             *)
(***************************************************************************)
EXTENDS Scheduler

CONSTANTS idle, worker, a, b

MCPriority == [t \in Threads |-> CASE t = idle   -> 0
                                   [] t = worker -> 2
                                   [] OTHER      -> 1]

\* Programs created at the worker's own priority.
MCOnePriority == [t \in Threads |-> IF t = idle THEN 0 ELSE 2]

Programs == Permutations({a, b})

=============================================================================
