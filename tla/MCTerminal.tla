---------------------------- MODULE MCTerminal ----------------------------
(***************************************************************************)
(* An instance of Terminal for TLC.                                        *)
(***************************************************************************)
EXTENDS Terminal

\* The key x, with and without shift, and messages of two characters.
MCPairs == {<<"x", "x">>}
MCMessages == {[i \in 1..2 |-> "x"]}

===========================================================================
