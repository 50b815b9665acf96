---------------------------- MODULE MCMachine ----------------------------
(***************************************************************************)
(* Boot and InterruptEntry, with tables of five entries, four of which     *)
(* lead to directories.                                                    *)
(***************************************************************************)
EXTENDS InterruptEntry

\* Divide error, general protection fault, timer, mouse.
MCVectors == {0, 13, 32, 44}

==========================================================================
