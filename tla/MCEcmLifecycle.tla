--------------------------- MODULE MCEcmLifecycle ---------------------------
(* Threads and connections are interchangeable.                            *)
EXTENDS EcmLifecycle, TLC

Symmetry == Permutations(Thread) \cup Permutations(Conn)
=============================================================================
