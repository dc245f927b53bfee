----------------------------- MODULE RangeArg -----------------------------
(***************************************************************************)
(* The closures of the query subcommand (src/cli/src/main.rs) that turn   *)
(* the values of --byte-range and --row-range into a range:               *)
(*                                                                         *)
(*   let mut parts = arg.split(':');                                       *)
(*   let start = parts.next()?.parse().ok()?;                              *)
(*   let end = parts.next().unwrap().parse().ok()?;                        *)
(*                                                                         *)
(* An argument is a sequence of characters over a small alphabet: two     *)
(* digits, the separator ':', the sign '+' that usize::from_str accepts,  *)
(* and one other character.  The outcome is a range, NoRange (the         *)
(* closure returned None: the query runs over the whole file) or          *)
(* UnwrapPanic (the unwrap found no second part).  MCArgParsers checks   *)
(* ParseRange against DecimalValue over every short argument.             *)
(***************************************************************************)
EXTENDS Naturals, Sequences, SequencesExt, CliMain

\* usize::MAX (u64::MAX on the 64-bit targets), scaled down so that a
\* short numeral can overflow it: str::parse returns Err on overflow.
CONSTANT MaxUsize

Colon == ":"
Plus  == "+"
DigitValue == ("0" :> 0) @@ ("1" :> 1)
ArgChars == DOMAIN DigitValue \cup {Colon, Plus, "x"}

\* The outcomes of a closure: Some(start..end), None, or the unwrap's panic.
SomeRange(start, end) == [kind |-> "range", start |-> start, end |-> end]
NoRange == [kind |-> "none"]
Unwrapped == [kind |-> UnwrapPanic]

\* Every argument of length 1..n.
Args(n) == SeqOf(ArgChars, n) \ {<<>>}

\* str::parse::<usize>() succeeds: an optional '+', then at least one
\* digit, and a value that fits.
Unsigned(s) == IF s # <<>> /\ Head(s) = Plus THEN Tail(s) ELSE s
UsizeValue(s) == FoldLeft(LAMBDA acc, c : 10 * acc + DigitValue[c], 0, Unsigned(s))
IsUsize(s) ==
  /\ Unsigned(s) # <<>>
  /\ \A n \in 1..Len(Unsigned(s)) : Unsigned(s)[n] \in DOMAIN DigitValue
  /\ UsizeValue(s) <= MaxUsize

\* Position of the first ':' in s, 0 when there is none.
FirstColon(s) == SelectInSeq(s, LAMBDA c : c = Colon)

\* Mutant: the part is cut one character late and keeps its ':'.
FirstPartWithColon(s) == IF FirstColon(s) = 0 THEN s ELSE SubSeq(s, 1, FirstColon(s))

\* The first part of split(':'), and the rest after the first ':'.
FirstPart(s) == IF FirstColon(s) = 0 THEN s ELSE SubSeq(s, 1, FirstColon(s) - 1)
AfterColon(s) == SubSeq(s, FirstColon(s) + 1, Len(s))

\* The closure: the start is parsed before the second part is taken, so
\* "x" gives None while "1" reaches the unwrap; a third part is ignored.
ParseRange(arg) ==
  LET end == FirstPart(AfterColon(arg)) IN
  CASE ~IsUsize(FirstPart(arg)) -> NoRange
    [] FirstColon(arg) = 0      -> Unwrapped
    [] ~IsUsize(end)            -> NoRange
    [] OTHER                    -> SomeRange(UsizeValue(FirstPart(arg)), UsizeValue(end))

\* The --timeout value of the parse arm, `t.parse::<u64>().unwrap()`: the
\* syntax of u64 is that of usize, and a value that is not one panics.
Micros(v) == [kind |-> "micros", value |-> v]
ParseTimeout(arg) == IF IsUsize(arg) THEN Micros(UsizeValue(arg)) ELSE Unwrapped

-----------------------------------------------------------------------------
(* Reference: the help text's "range" is <start>:<end>, two decimals.      *)

\* The value of a decimal numeral, digit by digit from the right.
RECURSIVE DecimalValue(_)
DecimalValue(d) ==
  IF d = <<>> THEN 0 ELSE DigitValue[Last(d)] + 10 * DecimalValue(Front(d))

=============================================================================
