----------------------------- MODULE FthdIommu -----------------------------
(***************************************************************************)
(* The camera's IOMMU (fthd_buffer.c): a table of page descriptors in the  *)
(* device, a resource tree that hands out ranges of it, and buffers whose  *)
(* scatter-gather segments are entered there and cleared again.            *)
(*                                                                         *)
(* Lengths are in fractions of a page, Page of them to the page.           *)
(*                                                                         *)
(* External: allocate_resource and release_resource, and vb2, which maps a *)
(* buffer once and frees it once.                                          *)
(***************************************************************************)
EXTENDS Naturals, Sequences, FiniteSets

LOCAL INSTANCE SequencesExt

CONSTANTS Buf,       \* buffers
          Entries,   \* entries of the table
          Page,      \* a page
          Lists      \* the segment lists, sequences of lengths

VARIABLES
    obj,      \* per buffer: the iommu_obj's offset, size and segments, or None
    table,    \* per entry: the buffer and the page of it, or Clear
    beside,   \* descriptors written behind the table
    ragged    \* history: a segment but the last of its list ended inside a page

vars == <<obj, table, beside, ragged>>

None  == [size |-> 0]
Clear == <<>>
Index == 0 .. Entries - 1
Live  == {b \in Buf : obj[b] # None}
Span(b) == {obj[b].off + k : k \in 0 .. obj[b].size - 1}

TotalLen(s) == FoldLeft(+, 0, s)
\* total_len += 4095; total_len /= 4096.
Pages(len) == (len + Page - 1) \div Page

\* The steps of the loop over one segment.
Descriptors(len) == Cardinality({k \in 0 .. len : k % Page = 0 /\ k < len})
Written(s) == TotalLen([i \in 1 .. Len(s) |-> Descriptors(s[i])])

\* fthd_buffer_init.
Init ==
    /\ obj = [b \in Buf |-> None]
    /\ table = [i \in Index |-> Clear]
    /\ beside = 0 /\ ragged = FALSE

\* External: allocate_resource takes the lowest gap that is large enough.
Fits(o, n) == /\ o + n <= Entries
              /\ \A b \in Live : Span(b) \cap (o .. o + n - 1) = {}
Lowest(n) == CHOOSE o \in Index : Fits(o, n) /\ \A p \in Index : Fits(p, n) => o <= p

\* FTHD_S2_REG_WRITE(dma_addr++, pos).
Enter(b, o, n) ==
    [i \in Index |-> IF i \in o .. o + n - 1 THEN <<b, i - o>> ELSE table[i]]

\* iommu_allocate_sgtable, for segments that start on a page.
Allocate(b, s) ==
    LET n == Pages(TotalLen(s)) IN
    /\ obj[b] = None /\ n > 0
    /\ \E o \in Index : Fits(o, n)
    /\ obj' = [obj EXCEPT ![b] = [off |-> Lowest(n), size |-> n, segs |-> s]]
    /\ table' = Enter(b, Lowest(n), Written(s))
    /\ beside' = IF Lowest(n) + Written(s) > Entries
                 THEN Lowest(n) + Written(s) - Entries ELSE beside
    /\ ragged' = (ragged \/ \E i \in 1 .. Len(s) - 1 : s[i] % Page # 0)

\* Mutant: the last descriptor stays.
ClearedLess(b) == {obj[b].off + k : k \in 0 .. obj[b].size - 2}
\* The loop of iommu_free.
Cleared(b) == Span(b)

\* iommu_free.
Free(b) ==
    /\ obj[b] # None
    /\ table' = [i \in Index |-> IF i \in Cleared(b) THEN Clear ELSE table[i]]
    /\ obj' = [obj EXCEPT ![b] = None]
    /\ UNCHANGED <<beside, ragged>>

Next == \E b \in Buf : Free(b) \/ \E s \in Lists : Allocate(b, s)
Spec == Init /\ [][Next]_vars

---------------------------------------------------------------------------
(* The number of descriptors that are right for a list of segments.        *)
DescriptorsNeeded(s) == TotalLen([i \in 1 .. Len(s) |-> (s[i] + Page - 1) \div Page])

(* The device maps exactly the pages of the live buffers, each at its      *)
(* place, and nothing else: no frame goes to a buffer that was freed or to *)
(* a neighbour's.  It takes segments that end on page boundaries, which    *)
(* the code does not check as it does their start.                         *)
MapsLiveBuffers ==
    ~ragged =>
        \A i \in Index : table[i] =
            IF \E b \in Live : i \in Span(b)
            THEN LET b == CHOOSE c \in Live : i \in Span(c) IN <<b, i - obj[b].off>>
            ELSE Clear

(* Every page of a live buffer has a descriptor of its own in the table.   *)
WholeBufferMapped ==
    ~ragged => beside = 0 /\ \A b \in Live : obj[b].size = DescriptorsNeeded(obj[b].segs)
============================================================================
