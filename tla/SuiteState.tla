---- MODULE SuiteState ----
(***************************************************************************)
(* NativeCalls and StoresAndTimelines each put together components that share *)
(* no state.  A behaviour is one of one component: the one chosen initially *)
(* owns the variables it names, and those of the others stay 0.            *)
(***************************************************************************)
EXTENDS Integers, Sequences

CONSTANT None

VARIABLE component
====
