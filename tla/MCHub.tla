------------------------------- MODULE MCHub -------------------------------
(* A small instance of Hub for TLC.                                        *)
EXTENDS Hub
=============================================================================
