------------------------------- MODULE Loader -------------------------------
(***************************************************************************)
(* require() with the searcher of luakernel.lua, which hands every name to *)
(* lua_loader of luakernel.c, and the bundle of modules that was compiled  *)
(* into the kernel.                                                        *)
(***************************************************************************)
EXTENDS Naturals, Sequences

CONSTANTS
  Names,      \* module names, as sequences of characters
  Outcomes,   \* what a module of the bundle does whenever it is loaded and run
  MaxBundle   \* bound: modules in the bundle

ASSUME NamesAssumption == \A name \in Names : name \in Seq({name[k] : k \in DOMAIN name})
ASSUME OutcomesAssumption ==
  Outcomes \subseteq {"table", "nothing", "false", "syntax error", "runtime error"}
ASSUME MaxBundleAssumption == MaxBundle \in Nat

VARIABLES
  lua_bundle,  \* sequence of modules, each with a name and an outcome
  loaded       \* package.loaded

loader_vars == <<lua_bundle, loaded>>

Nil == <<"nil">>
True == <<"true">>
False == <<"false">>

\* generate-lua-bundle.sh: the bundle has a module for each of several files
Bundles == UNION {[1..k -> [name : Names, outcome : Outcomes]] : k \in 1..MaxBundle}

LoaderInit ==
  /\ lua_bundle \in {b \in Bundles : \A i, j \in DOMAIN b : b[i].name = b[j].name => i = j}
  /\ loaded = [m \in Names |-> Nil]

-----------------------------------------------------------------------------
(* memcmp(modname, name, len) with the length of modname                   *)
Matches(modname, name) ==
  Len(modname) <= Len(name) /\ SubSeq(name, 1, Len(modname)) = modname

Matching(modname) == {i \in DOMAIN lua_bundle : Matches(modname, lua_bundle[i].name)}

\* Mutant: the loop stops at the first match.
FoundFirst(modname) == CHOOSE i \in Matching(modname) : \A j \in Matching(modname) : i <= j

\* the loop keeps the last match
Found(modname) == CHOOSE i \in Matching(modname) : \A j \in Matching(modname) : j <= i

(* lua_loader.  After an error it traps and goes on: what it returns is on *)
(* top of the stack, the error message or, for a module without a result,  *)
(* the name it was called with.                                            *)
lua_loader(modname) ==
  IF Matching(modname) = {} THEN Nil
  ELSE LET i == Found(modname) IN
       IF lua_bundle[i].outcome = "table" THEN <<"module", i>>
       ELSE IF lua_bundle[i].outcome = "nothing" THEN <<"name", modname>>
       ELSE IF lua_bundle[i].outcome = "false" THEN False
       ELSE <<"message", i>>

(* require() of loadlib.c.  A module that returned false is loaded again.  *)
Require(modname) ==
  /\ loaded' = IF loaded[modname] \notin {Nil, False} THEN loaded
               ELSE [loaded EXCEPT ![modname] =
                       IF lua_loader(modname) = Nil THEN True ELSE lua_loader(modname)]
  /\ UNCHANGED lua_bundle

LoaderNext == \E modname \in Names : Require(modname)

LoaderSpec == LoaderInit /\ [][LoaderNext]_loader_vars

-----------------------------------------------------------------------------
(* A module of the bundle that returns a table is what require() returns   *)
(* for its name, although the loader compares only the first characters,   *)
(* provided no later module's name begins with that name.                  *)
ModuleFoundByName ==
  \A i \in DOMAIN lua_bundle :
    LET m == lua_bundle[i] IN
    /\ m.outcome = "table"
    /\ \A j \in i + 1..Len(lua_bundle) : ~ Matches(m.name, lua_bundle[j].name)
    => loaded[m.name] \in {Nil, <<"module", i>>}

=============================================================================
