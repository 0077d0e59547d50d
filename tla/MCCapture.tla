------------------------------ MODULE MCCapture ------------------------------
(* A small instance of Capture for TLC.                                     *)
EXTENDS Capture
=============================================================================
