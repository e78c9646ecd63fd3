--------------------------- MODULE MCIoRequests ---------------------------
(***************************************************************************)
(* Instances of IoRequests.  The standard input is one kernel file that    *)
(* all the programs share.                                                 *)
(***************************************************************************)
EXTENDS IoRequests

\* stdio_ of user_ke_services_mt serves every program.
SharedStdio == [p \in Programs |-> CHOOSE f \in Files : TRUE]

\* Requests are alike, and so are the programs, which share the file.
Symmetry == Permutations(Irps) \cup Permutations(Programs)

=============================================================================
