-------------------------- MODULE MCRestTransport --------------------------
(* Instances of RestTransport for TLC. *)
EXTENDS RestTransport

CONSTANTS b1, b2, b3, w1, w2
=============================================================================
