------------------------------- MODULE MCKernel -------------------------------
(* Instances of Kernel for TLC.                                            *)
EXTENDS Kernel

MCScancodes == {30, 170}
===============================================================================
