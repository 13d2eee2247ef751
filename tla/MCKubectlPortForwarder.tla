----------------------- MODULE MCKubectlPortForwarder -----------------------
(* KubectlPortForwarder for TLC: small sets of hosts, ports and processes. *)
EXTENDS KubectlPortForwarder, TLC

\* Nothing tells one port from another; only invariants are checked.
PortSymmetry == Permutations(Ports)
=============================================================================
