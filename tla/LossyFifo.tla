----------------------------- MODULE LossyFifo -----------------------------
(***************************************************************************)
(* What one direction of the ESP-NOW to UART bridge promises: packets come *)
(* out in the order they went in, each at most once; any may be lost.      *)
(***************************************************************************)
EXTENDS Integers, Sequences

CONSTANT NumPackets

VARIABLES
  put,          (* packets that went in, numbered from 1                   *)
  got           (* those that came out                                     *)

Init == put = 0 /\ got = <<>>
Put == put < NumPackets /\ put' = put + 1 /\ UNCHANGED got
Take == \E i \in 1..put :
  /\ \A k \in 1..Len(got) : got[k] < i
  /\ got' = Append(got, i) /\ UNCHANGED put
Spec == Init /\ [][Put \/ Take]_<<put, got>>
=============================================================================
