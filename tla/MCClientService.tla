--------------------------- MODULE MCClientService ---------------------------
(* ClientService on a few connections.                                     *)
EXTENDS ClientService, TLC

ConnSymmetry == Permutations(Conns)

\* Descriptor numbers for every connection and one to spare.
FewFds == 1 .. Cardinality(Conns) + 1
=============================================================================
