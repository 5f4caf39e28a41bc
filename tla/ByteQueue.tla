------------------------------ MODULE ByteQueue ------------------------------
(***************************************************************************)
(* What the receive ring promises to the two tasks that share it: a        *)
(* bounded first-in first-out queue of bytes.  A delivery that finds too   *)
(* little room loses its tail, never its head and never a byte that was    *)
(* accepted.                                                               *)
(***************************************************************************)
EXTENDS Integers, Sequences

CONSTANTS Size, Chunks

VARIABLES
  q,            (* accepted bytes that the sink has not seen               *)
  out           (* the byte the sink saw last                              *)

Bytes == UNION {{c[i] : i \in DOMAIN c} : c \in Chunks}

QInit == q = <<>> /\ out \in Bytes

(* A delivery is accepted up to some point, within the queue's bound.      *)
Put == \E c \in Chunks : \E n \in 0..Len(c) :
  /\ Len(q) + n <= Size
  /\ q' = q \o SubSeq(c, 1, n) /\ UNCHANGED out

Get == q # <<>> /\ out' = Head(q) /\ q' = Tail(q)

QNext == Put \/ Get
QSpec == QInit /\ [][QNext]_<<q, out>>
=============================================================================
