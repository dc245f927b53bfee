------------------------------ MODULE CliMain ------------------------------
(***************************************************************************)
(* main (src/cli/src/main.rs): how the way run returned becomes the exit  *)
(* status.  An io::Error of kind BrokenPipe is ignored and main returns   *)
(* (status 0); any other error, the empty one of a failed parse run too,  *)
(* ends with exit(1); a panic (println! to a closed stdout, an index out *)
(* of bounds, an unwrap of None) ends with 101.                           *)
(***************************************************************************)

\* How run ended, as named by the subcommand models.
Succeeded  == "succeeded"
BrokenPipe == "broken_pipe"
PrintPanic == "print_panic"
IndexPanic == "index_panic"
UnwrapPanic == "unwrap_panic"

\* A panic ends the process with the default status of a Rust panic.
Panics == {PrintPanic, IndexPanic, UnwrapPanic}

ExitStatus(ph) ==
  CASE ph \in {Succeeded, BrokenPipe} -> 0
    [] ph \in Panics                  -> 101
    [] OTHER                          -> 1

=============================================================================
