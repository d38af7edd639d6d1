----------------------------- MODULE MCRuntime -----------------------------
(* Small instances of Runtime for TLC.                                     *)
EXTENDS Runtime, TLC

Line(o, t, port, chip) == [override |-> o, timed |-> t, IpPort |-> port,
                           ChipId |-> chip, UseTLS |-> FALSE]
\* A socket file, a port, no chip; with -o, with -t.
Lines == {Line(FALSE, FALSE, 0, 12), Line(FALSE, TRUE, 8080, 0),
          Line(TRUE, FALSE, 8080, 12)}
\* "yes", a number, nothing, a negative number.
Found == {[yes |-> TRUE, int |-> 0], [yes |-> FALSE, int |-> 12], Empty,
          [yes |-> FALSE, int |-> -1]}

Symmetry == Permutations(Threads)
=============================================================================
