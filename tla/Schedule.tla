------------------------------ MODULE Schedule ------------------------------
(***************************************************************************)
(* The order in which the pipeline of 07-maimoe takes up the charts of the *)
(* manifest: make_work_order and make_work_order_hybrid of Schedule.cpp.   *)
(* A manifest is a sequence of charts [id, bytes, work], no two of one id; *)
(* an order is a sequence of indices into it.                              *)
(***************************************************************************)
EXTENDS Naturals, Sequences, SequencesExt

Policies == {"Manifest", "SizeDescending", "WorkLpt", "BucketLocality",
             "BucketInterleave"}

\* bucket_of: the low byte of the id.
BucketOf(chart) == chart.id % 256

LargerFirst(l, r) == IF l.bytes # r.bytes THEN l.bytes > r.bytes ELSE l.id < r.id
LongerFirst(l, r) == IF l.work # r.work THEN l.work > r.work ELSE l.id < r.id
ByBucket(l, r) ==
    IF BucketOf(l) # BucketOf(r) THEN BucketOf(l) < BucketOf(r) ELSE LargerFirst(l, r)

Iota(manifest) == [i \in DOMAIN manifest |-> i]

Before(policy, l, r) ==
    CASE policy = "SizeDescending" -> LargerFirst(l, r)
      [] policy = "WorkLpt"        -> LongerFirst(l, r)
      [] OTHER                     -> ByBucket(l, r)

Sorted(manifest, policy) ==
    SortSeq(Iota(manifest), LAMBDA l, r : Before(policy, manifest[l], manifest[r]))

\* The charts of each partition in order, one of each partition in turn.
Interleaved(manifest, order, partitions) ==
    LET lane(p) == SelectSeq(order, LAMBDA i : BucketOf(manifest[i]) % partitions = p)
        row(depth) == FlattenSeq([p \in 1 .. partitions |->
                          IF depth <= Len(lane(p - 1)) THEN <<lane(p - 1)[depth]>> ELSE <<>>])
    IN  FlattenSeq([depth \in DOMAIN order |-> row(depth)])

WorkOrder(manifest, policy, partitions) ==
    IF policy = "Manifest" THEN Iota(manifest)
    ELSE IF policy = "BucketInterleave" /\ partitions > 1
    THEN Interleaved(manifest, Sorted(manifest, policy), partitions)
    ELSE Sorted(manifest, policy)

\* The first charts, a share of "weight" in a hundred, by the one policy, the
\* others by the other.
PrefixSize(count, weight) ==
    LET size == (weight * count + 50) \div 100
    IN  IF size > count THEN count ELSE size

HybridOrder(manifest, primary, secondary, weight, partitions) ==
    LET prefix == SubSeq(WorkOrder(manifest, primary, partitions), 1,
                         PrefixSize(Len(manifest), weight))
        rest   == SelectSeq(WorkOrder(manifest, secondary, partitions),
                            LAMBDA i : ~Contains(prefix, i))
    IN  prefix \o rest

\* What HostPipeline takes from it: every chart has one position.
IsWorkOrder(manifest, order) ==
    /\ Len(order) = Len(manifest)
    /\ ToSet(order) = DOMAIN manifest
=============================================================================
