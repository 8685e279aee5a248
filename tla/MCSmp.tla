-------------------------------- MODULE MCSmp --------------------------------
(***************************************************************************)
(* Smp.tla for TLC: small topologies.                                       *)
(***************************************************************************)
EXTENDS Smp

\* CPU 0 and CPU 1 in the boot cluster, the others in another.
TwoClusters == [c \in Cpus |-> IF c > 1 THEN 1 ELSE 0]
OneCluster  == [c \in Cpus |-> 0]

\* The boards of the repository have Aff3 zero everywhere.
NoAff3   == [c \in Cpus |-> 0]
SomeAff3 == [c \in Cpus |-> IF c = 0 THEN 0 ELSE 1]
==============================================================================
