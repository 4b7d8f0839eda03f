--------------------------- MODULE MCHostPipeline ---------------------------
(***************************************************************************)
(* Instances of HostPipeline for TLC. Credit is counted in units: an       *)
(* encoded chart is one, a chart of the input one or two.                  *)
(***************************************************************************)
EXTENDS HostPipeline

S == INSTANCE Schedule

\* input sizes by position: alike, or the second one larger
EvenBytes == [p \in Positions |-> 1]
OddBytes  == [p \in Positions |-> IF p = 1 THEN 3 ELSE 1]

\* chart ids that spread over two partitions
SpreadBuckets == [p \in Positions |-> p]

\* The positions of the pipeline are those of the charts of the manifest, each
\* once, whatever the policies, their share and the number of partitions: for
\* three charts in two buckets, listed in any order, small and large ones.
Manifests ==
    {[i \in 1 .. 3 |-> [id |-> ids[i], bytes |-> bytes[i], work |-> 3 - bytes[i]]] :
        ids \in {f \in [1 .. 3 -> {0, 1, 256}] : \A i, j \in 1 .. 3 : f[i] = f[j] => i = j},
        bytes \in [1 .. 3 -> {1, 2}]}

ASSUME ScheduleIsAPermutation ==
    \A m \in Manifests, p \in S!Policies, q \in S!Policies, weight \in {0, 40, 100},
       partitions \in 1 .. 3 :
        S!IsWorkOrder(m, S!HybridOrder(m, p, q, weight, partitions))
=============================================================================
