------------------------------ MODULE MCRxRing ------------------------------
(* Small instances of RxRing.                                              *)
EXTENDS RxRing

(* Deliveries of one to five bytes, the last too long for a ring of four.  *)
MCChunks == {<<1>>, <<2>>, <<1, 2>>, <<1, 1, 2>>, <<2, 1, 2, 1, 1>>}
=============================================================================
