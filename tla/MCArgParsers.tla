---------------------------- MODULE MCArgParsers ----------------------------
(***************************************************************************)
(* The command-line argument parsers of src/cli/src/main.rs, checked as   *)
(* pure functions: the state is one argument as a user may type it, over  *)
(* the alphabet of RangeArg, and nothing changes once it is given.        *)
(***************************************************************************)
EXTENDS RangeArg

CONSTANT MaxArgLen

VARIABLE arg

Init == arg \in Args(MaxArgLen)

Next == UNCHANGED arg

Spec == Init /\ [][Next]_arg

-----------------------------------------------------------------------------
(* Properties.                                                              *)

\* A value a user types never crashes the process: over one argument typed
\* as --byte-range (or --row-range) and as --timeout, each parse ends in a
\* value or, where the code has one, a refusal, never in a panic (exit
\* 101).  The range closure's None is its deliberate `.ok()?`; its
\* `parts.next().unwrap()` and the timeout's `parse().unwrap()` panic.
MalformedArgsNeverPanic ==
  /\ ParseRange(arg).kind # UnwrapPanic
  /\ ParseTimeout(arg).kind # UnwrapPanic

=============================================================================
