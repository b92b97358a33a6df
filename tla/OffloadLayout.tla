---------------------------- MODULE OffloadLayout ----------------------------
(***************************************************************************)
(* The byte layout of a SharedOffloadRegion: what __init__ populates and   *)
(* what create_next_view hands out.  The file holds NumBlocks rows of      *)
(* RowStride bytes; in every row rank r owns the cell of CpuPageSize bytes *)
(* at r * CpuPageSize, and each view takes the next bytes of that cell, in *)
(* all rows.  Addresses are offsets in the file; an interval is the record *)
(* [from, to] of its first byte and the byte after its last.  A rank first *)
(* populates its cells, block by block, as far as the kernel lets it, then *)
(* hands out views.                                                        *)
(***************************************************************************)
EXTENDS Integers

CONSTANTS
    PageSize,      \* mmap.PAGESIZE
    NumBlocks,     \* num_blocks
    NumRanks,      \* M, the workers that share the region
    CpuPageSize,   \* cpu_page_size, the bytes of one worker's cell
    RowStride,     \* kv_bytes_per_block
    TensorSizes    \* the tensor_page_size arguments of the callers

ASSUME SizesAssumption ==
    /\ PageSize \in Nat \ {0}
    /\ NumBlocks \in Nat \ {0}
    /\ NumRanks \in Nat \ {0}
    /\ CpuPageSize \in Nat \ {0}
    /\ RowStride \in Nat \ {0}
    /\ TensorSizes \subseteq Nat \ {0}

\* assert kv_bytes_per_block % self.page_size == 0
ASSUME RowsAreWholePages == RowStride % PageSize = 0

\* What the caller computes and the class does not check: the cells of all
\* workers fit in a row ("row_stride = cpu_page_size * M").
ASSUME CellsFitInRow == NumRanks * CpuPageSize <= RowStride

Ranks == 0..(NumRanks - 1)
Blocks == 0..(NumBlocks - 1)
TotalSize == NumBlocks * RowStride
AreaStart(r) == r * CpuPageSize
AreaEnd(r) == (r + 1) * CpuPageSize

VARIABLES
    block,         \* the block that each rank's populate loop comes to
    resident,      \* the intervals that an madvise has made resident
    rejected,      \* the pairs <<rank, block>> whose madvise raised OSError
    offset,        \* _worker_offset of each rank
    views,         \* the views handed out, of all ranks
    overflowed     \* the ranks whose caller ran into the assertion

populate == <<block, resident, rejected>>
vars == <<populate, offset, views, overflowed>>

Views == [rank : Ranks, start : Nat, len : Nat]

\* as_strided(size=(num_blocks, len), stride=(row_stride, 1), storage_offset)
BytesOf(v, b) ==
    [from |-> b * RowStride + v.start, to |-> b * RowStride + v.start + v.len]

Disjoint(x, y) == x.to <= y.from \/ y.to <= x.from
Within(x, y) == y.from <= x.from /\ x.to <= y.to

\* Mutant: the hint covers cpu_page_size bytes from the aligned address on.
PopulatedShort(r, b) ==
    LET raw == b * RowStride + AreaStart(r)
        aligned == (raw \div PageSize) * PageSize
    IN [from |-> aligned, to |-> aligned + CpuPageSize]

\* The range that __init__ populates for block b of rank r: from the page its
\* cell begins in to the end of the cell.
Populated(r, b) ==
    LET raw == b * RowStride + AreaStart(r)
        aligned == (raw \div PageSize) * PageSize
    IN [from |-> aligned, to |-> raw + CpuPageSize]

\* Row b of the (num_blocks, row_stride) memoryview of create_kv_memoryview.
KvRow(b) == [from |-> b * RowStride, to |-> (b + 1) * RowStride]

Init ==
    /\ block = [r \in Ranks |-> 0]
    /\ resident = {}
    /\ rejected = {}
    /\ offset = [r \in Ranks |-> AreaStart(r)]
    /\ views = {}
    /\ overflowed = {}

\* Mutant: the first OSError ends the loop.
AfterFirstError(r) == NumBlocks

\* _madvise_populate swallows the OSError, and the loop goes on.
AfterError(r) == block[r] + 1

\* One turn of the populate loop: the kernel takes the hint or rejects it.
PopulateBlock(r) ==
    /\ block[r] < NumBlocks
    /\ \/ /\ resident' = resident \cup {Populated(r, block[r])}
          /\ block' = [block EXCEPT ![r] = @ + 1]
          /\ UNCHANGED rejected
       \/ /\ rejected' = rejected \cup {<<r, block[r]>>}
          /\ block' = [block EXCEPT ![r] = AfterError(r)]
          /\ UNCHANGED resident
    /\ UNCHANGED <<offset, views, overflowed>>

\* Mutants: the bound is the end of the row, not of the worker's cell, or the
\* assertion is compiled out.
FitsRow(r, n) == offset[r] + n <= RowStride

FitsUnchecked(r, n) == TRUE

Fits(r, n) == offset[r] + n <= AreaEnd(r)

\* Mutant: the offset is not advanced past the view.
NewOffsetSame(r, n) == offset[r]

NewOffset(r, n) == offset[r] + n

CreateNextView(r, n) ==
    /\ block[r] = NumBlocks
    /\ r \notin overflowed
    /\ Fits(r, n)
    /\ offset' = [offset EXCEPT ![r] = NewOffset(r, n)]
    /\ views' = views \cup {[rank |-> r, start |-> offset[r], len |-> n]}
    /\ UNCHANGED <<populate, overflowed>>

\* The AssertionError ends the worker's set-up.
Overflow(r, n) ==
    /\ block[r] = NumBlocks
    /\ r \notin overflowed
    /\ ~Fits(r, n)
    /\ overflowed' = overflowed \cup {r}
    /\ UNCHANGED <<populate, offset, views>>

Next ==
    \E r \in Ranks :
        \/ PopulateBlock(r)
        \/ \E n \in TensorSizes : CreateNextView(r, n) \/ Overflow(r, n)

Spec == Init /\ [][Next]_vars

-----------------------------------------------------------------------------
(* Properties.                                                             *)

\* Offsets and views have their types; an offset stays in its worker's cell.
TypeOK ==
    /\ block \in [Ranks -> 0..NumBlocks]
    /\ resident \subseteq {Populated(r, b) : r \in Ranks, b \in Blocks}
    /\ rejected \subseteq Ranks \X Blocks
    /\ offset \in [Ranks -> Nat]
    /\ \A r \in Ranks : AreaStart(r) <= offset[r] /\ offset[r] <= AreaEnd(r)
    /\ views \subseteq Views
    /\ overflowed \subseteq Ranks

\* No byte of the region belongs to two views, or to two blocks of one view:
\* a worker's swap never overwrites another worker's, tensor's or block's data.
ViewsDisjoint ==
    \A v, w \in views, b, c \in Blocks :
        v # w \/ b # c => Disjoint(BytesOf(v, b), BytesOf(w, c))

\* Row b of the memoryview that a secondary tier reads holds block b of every
\* view and nothing of another block; with b < NumBlocks it ends in the file.
RowsHoldBlocks ==
    \A v \in views, b \in Blocks : Within(BytesOf(v, b), KvRow(b))

\* A byte of a view is left to demand paging only where the kernel rejected the
\* very call for this worker's block: what it takes is whole, and one rejection
\* costs no other block its pages.
DemandPagingHasACause ==
    \A v \in views, b \in Blocks :
        \/ <<v.rank, b>> \in rejected
        \/ \E i \in resident : Within(BytesOf(v, b), i)

-----------------------------------------------------------------------------
(* The inductive strengthening that the proofs use.                        *)

InCells ==
    \A v \in views : AreaStart(v.rank) <= v.start /\ v.start + v.len <= offset[v.rank]

Stacked ==
    \A v, w \in views : v # w /\ v.rank = w.rank =>
        v.start + v.len <= w.start \/ w.start + w.len <= v.start

\* The loop leaves no block out, and views come after it.
Hinted ==
    /\ \A r \in Ranks, b \in Blocks : b < block[r] =>
         <<r, b>> \in rejected \/ Populated(r, b) \in resident
    /\ \A v \in views : block[v.rank] = NumBlocks

LayoutInv == TypeOK /\ InCells /\ Stacked /\ Hinted

=============================================================================
