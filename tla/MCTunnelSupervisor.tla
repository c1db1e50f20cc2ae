------------------------- MODULE MCTunnelSupervisor -------------------------
(* Small instances of TunnelSupervisor.  Children are interchangeable.       *)
EXTENDS TunnelSupervisor, TLC

MCSymmetry == Permutations(Child)
=============================================================================
