--------------------------- MODULE TruncateOutput ---------------------------
(***************************************************************************)
(* truncate_output (src/runner.cpp): how much of the two outputs of a step *)
(* the reply shows.  An output is known by its length; the subtractions    *)
(* are those of size_t.                                                    *)
(***************************************************************************)
EXTENDS Integers

CONSTANTS
    TitleSize,      \* length of kErrTitle
    MarkSize,       \* length of kTruncateOut and of kTruncateError
    SizeRange       \* the number of values of size_t

ASSUME SizesAssumption ==
    /\ TitleSize \in Nat \ {0} /\ MarkSize \in Nat \ {0} /\ SizeRange \in Nat
    /\ TitleSize + 4 * MarkSize < SizeRange

\* Subtraction, and what remains of a prefix of n bytes.
Minus(a, b) == IF a >= b THEN a - b ELSE a - b + SizeRange
Prefix(n, size) == IF n < size THEN n ELSE size
Above(a, b) == IF a > b THEN a - b ELSE 0

\* The error title is written only over an error output.
Title(err) == IF err > 0 THEN TitleSize ELSE 0
Available(err, capacity) == Above(capacity, Title(err))

Fits(out, err, capacity) == out + err < Available(err, capacity)
Half(err, capacity) == Available(err, capacity) \div 2

\* What is kept of both outputs when both are long, of the error output when the other
\* one is short, and of the standard output when only that is long.
ShareOfBoth(err, capacity) == Minus(Minus(Available(err, capacity), MarkSize), MarkSize) \div 2
KeepOfErr(out, err, capacity) ==
    Prefix(Above(Minus(Available(err, capacity), MarkSize), out), err)
KeepOfOut(out, err, capacity) ==
    Prefix(Above(Minus(Available(err, capacity), MarkSize), err), out)

\* The bytes of each output that are shown, and the marks of what is not.
Shown(out, err, capacity) ==
    IF Fits(out, err, capacity)
    THEN [out |-> out, err |-> err, marks |-> 0]
    ELSE IF out > Half(err, capacity) /\ err > Half(err, capacity)
    THEN [out |-> Prefix(ShareOfBoth(err, capacity), out),
          err |-> Prefix(ShareOfBoth(err, capacity), err), marks |-> 2]
    ELSE IF out <= Half(err, capacity)
    THEN [out |-> out, err |-> KeepOfErr(out, err, capacity), marks |-> 1]
    ELSE [out |-> KeepOfOut(out, err, capacity), err |-> err, marks |-> 1]

\* The length of the result.
ShownSize(out, err, capacity) ==
    LET shown == Shown(out, err, capacity)
    IN  shown.out + shown.err + shown.marks * MarkSize + Title(err)

\* A capacity that the marks and the title leave room for.
Roomy(capacity) == capacity \in Nat /\ capacity < SizeRange /\ capacity >= TitleSize + 4 * MarkSize

\* runner.h, "Combined output exactly as the Go agent's iohandler.TruncateOutput does": the
\* reply stays within the capacity, shows both outputs whole and unmarked when they leave
\* room, and never drops the shorter output for the sake of the longer one.
WithinCapacity(out, err, capacity) == ShownSize(out, err, capacity) <= capacity
ShorterIsShown(out, err, capacity) ==
    LET shown == Shown(out, err, capacity)
    IN  /\ err <= Half(err, capacity) /\ out > Half(err, capacity) => shown.err = err
        /\ out <= Half(err, capacity) /\ err > Half(err, capacity) => shown.out = out
=============================================================================
