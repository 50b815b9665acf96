----------------------------- MODULE MCDisplay -----------------------------
(***************************************************************************)
(* An instance of Display for TLC.                                         *)
(***************************************************************************)
EXTENDS Display

\* Nothing but Enter and Backspace is typed; a message wraps.
MCPairs == {}
MCMessages == {[i \in 1..19 |-> "x"]}

=============================================================================
