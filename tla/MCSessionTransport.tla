------------------------ MODULE MCSessionTransport ------------------------
(* Instances of SessionTransport for TLC. *)
EXTENDS SessionTransport, TLC

Symmetry == Permutations(Conn) \cup Permutations(Entry)
=============================================================================
