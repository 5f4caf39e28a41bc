----------------------------- MODULE MCJobStream -----------------------------
(* Small instances of JobStream.                                           *)
EXTENDS JobStream

(* Lines of 1, 2 and 2 bytes: a window of 3 holds the first two of them.   *)
MCOffset == [i \in 0..NumLines |-> IF i = 0 THEN 0 ELSE 2 * i - 1]
(* Two lines of 1 byte, then one of 3, which no window of 2 can hold.      *)
MCOffsetWide == [i \in 0..NumLines |-> IF i < 3 THEN i ELSE 5]
=============================================================================
