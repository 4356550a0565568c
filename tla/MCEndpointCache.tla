-------------------------- MODULE MCEndpointCache --------------------------
(* Model-checking instance of EndpointCache.                               *)
EXTENDS EndpointCache

\* Every order of every set of distinct instances: the Instancer reports a
\* set, in whatever order it observed it.
MCEventLists == UNION {SetToSeqs(S) : S \in SUBSET Instances}

\* Lists that may name an instance twice, as a []string can.
MCEventListsDup == SeqOf(Instances, 2)

=============================================================================
