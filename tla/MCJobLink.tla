------------------------------ MODULE MCJobLink ------------------------------
(* Small instances of JobLink.                                             *)
EXTENDS JobLink

(* Lines of 1, 2 and 2 bytes: a window of 3 holds the first two of them.   *)
MCOffset == [i \in 0..NumLines |-> IF i = 0 THEN 0 ELSE 2 * i - 1]
=============================================================================
