------------------------------ MODULE BatchRun ------------------------------
(***************************************************************************)
(* What spec.md (sections 4.4, 4.5 and 7) promises of a multi-file run:   *)
(* files are attempted in order, each with one outcome; a per-file fault  *)
(* is recorded and the run goes on; the summary is the fold of the        *)
(* outcomes; once every file has been attempted the verdict is failure    *)
(* iff some file failed.  A fatal error may end the run with failure, and *)
(* a reader that went away may end it without a verdict.                  *)
(***************************************************************************)
EXTENDS Naturals, Sequences

CONSTANTS
  Outcomes,     \* records [successful, bytes, duration]
  NoDuration    \* parse_result.duration = None

VARIABLES files, attempted, summary, verdict

Verdicts == {"running", "ok", "fail", "abandoned"}

ZeroSummary ==
  [total_parses |-> 0, successful_parses |-> 0, total_bytes |-> 0, total_duration |-> 0]

\* spec.md 4.5: total always counts, successful only on success, bytes and
\* duration only when a duration was measured.
AddOutcome(s, o) ==
  [total_parses      |-> s.total_parses + 1,
   successful_parses |-> s.successful_parses + (IF o.successful THEN 1 ELSE 0),
   total_bytes       |-> s.total_bytes + (IF o.duration # NoDuration THEN o.bytes ELSE 0),
   total_duration    |-> s.total_duration + (IF o.duration # NoDuration THEN o.duration ELSE 0)]

Attempt ==
  /\ verdict = "running"
  /\ Len(attempted) < Len(files)
  /\ \E o \in Outcomes :
       /\ attempted' = Append(attempted, o)
       /\ summary' = AddOutcome(summary, o)
  /\ UNCHANGED <<files, verdict>>

Conclude ==
  /\ verdict = "running"
  /\ Len(attempted) = Len(files)
  /\ verdict' = IF \A n \in 1..Len(attempted) : attempted[n].successful
                THEN "ok" ELSE "fail"
  /\ UNCHANGED <<files, attempted, summary>>

FatalError ==
  /\ verdict = "running"
  /\ verdict' = "fail"
  /\ UNCHANGED <<files, attempted, summary>>

ReaderGone ==
  /\ verdict = "running"
  /\ verdict' = "abandoned"
  /\ UNCHANGED <<files, attempted, summary>>

Next == Attempt \/ Conclude \/ FatalError \/ ReaderGone

\* files is fixed by the caller; any list the refinement maps to is allowed.
Spec ==
  /\ attempted = <<>> /\ summary = ZeroSummary /\ verdict = "running"
  /\ [][Next]_<<files, attempted, summary, verdict>>

=============================================================================
