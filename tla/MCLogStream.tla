---------------------------- MODULE MCLogStream ----------------------------
(* Model checking of LogStream.                                              *)
EXTENDS LogStream
=============================================================================
