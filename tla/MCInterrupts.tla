----------------------------- MODULE MCInterrupts ------------------------------
(* Instances of Interrupts for TLC.                                        *)
EXTENDS Interrupts

MCScancodes == {30, 170}
MCOneScancode == {30}
================================================================================
