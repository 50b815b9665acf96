----------------------------- MODULE MCLoader -----------------------------
(***************************************************************************)
(* Instances of Loader for TLC: names some of which begin with another.    *)
(***************************************************************************)
EXTENDS Loader

MCNames == {<<"f">>, <<"f", "o">>, <<"l">>}
MCOutcomes == {"table", "nothing", "false", "syntax error", "runtime error"}

===========================================================================
