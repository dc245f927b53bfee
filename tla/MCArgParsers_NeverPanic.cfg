CONSTANT MaxUsize = 10
CONSTANT MaxArgLen = 4

SPECIFICATION Spec

INVARIANT MalformedArgsNeverPanic
