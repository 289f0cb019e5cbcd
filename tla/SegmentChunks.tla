--------------------------- MODULE SegmentChunks ---------------------------
(***************************************************************************)
(* How the sizes of one table are spread over TableSizeEntry records       *)
(* (src/src/quotamodel.c).  A record holds SEGMENT_SIZE_ARRAY_LENGTH       *)
(* sizes; segment -1 stands for the total over coordinator and segments.   *)
(***************************************************************************)
EXTENDS Integers

CONSTANTS
    SEGCOUNT,                   \* number of primary segments
    SEGMENT_SIZE_ARRAY_LENGTH   \* sizes per record

ASSUME ChunkAssumption ==
    /\ SEGCOUNT \in Nat \ {0}
    /\ SEGMENT_SIZE_ARRAY_LENGTH \in Nat \ {0}

Segids == -1 .. SEGCOUNT - 1

TableSizeEntryId(segid)    == (segid + 1) \div SEGMENT_SIZE_ARRAY_LENGTH
TableSizeEntryIndex(segid) == (segid + 1) % SEGMENT_SIZE_ARRAY_LENGTH

TableSizeEntrySegidStart(id) == id * SEGMENT_SIZE_ARRAY_LENGTH - 1

\* One past the last segment of the record.
TableSizeEntrySegidEnd(id) ==
    IF (id + 1) * SEGMENT_SIZE_ARRAY_LENGTH - 1 < SEGCOUNT
    THEN (id + 1) * SEGMENT_SIZE_ARRAY_LENGTH - 1
    ELSE SEGCOUNT

\* The segments that the loops over one record visit.
SegidsOf(id) == TableSizeEntrySegidStart(id) .. TableSizeEntrySegidEnd(id) - 1

EntryIds == {TableSizeEntryId(s) : s \in Segids}
=============================================================================
