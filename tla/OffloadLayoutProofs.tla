------------------------- MODULE OffloadLayoutProofs -------------------------
(***************************************************************************)
(* Theorems about OffloadLayout, for every page size, cell size, row       *)
(* stride, number of ranks and number of blocks that its assumptions allow.*)
(***************************************************************************)
EXTENDS OffloadLayout, TLAPS

-----------------------------------------------------------------------------
(* Arithmetic.                                                             *)

\* Items of one size laid out one after another do not overlap.
LEMMA MultiplesApart ==
    ASSUME NEW b \in Nat, NEW c \in Nat, NEW S \in Nat, b < c
    PROVE  b * S + S <= c * S
<1>1. PICK d \in Nat : c = b + 1 + d
  <2>1. c - b - 1 \in Nat /\ c = b + 1 + (c - b - 1)
    OBVIOUS
  <2> QED BY <2>1
<1>2. c * S = b * S + S + d * S
  BY <1>1
<1>3. d * S >= 0
  OBVIOUS
<1>4. b * S \in Nat /\ c * S \in Nat /\ d * S \in Nat
  OBVIOUS
<1> QED BY <1>2, <1>3, <1>4

LEMMA RankTypes ==
    ASSUME NEW r \in Ranks
    PROVE  /\ r \in Nat
           /\ AreaStart(r) \in Nat
           /\ AreaEnd(r) = AreaStart(r) + CpuPageSize
           /\ AreaEnd(r) <= RowStride
<1>1. r \in Nat /\ r + 1 <= NumRanks
  BY SizesAssumption DEF Ranks
<1>2. r * CpuPageSize \in Nat /\ (r + 1) * CpuPageSize = r * CpuPageSize + CpuPageSize
  BY <1>1, SizesAssumption
<1>3. (r + 1) * CpuPageSize <= NumRanks * CpuPageSize
  <2>1. CASE r + 1 = NumRanks
    BY <2>1, <1>1, SizesAssumption
  <2>2. CASE r + 1 < NumRanks
    <3>1. (r + 1) * CpuPageSize + CpuPageSize <= NumRanks * CpuPageSize
      BY <2>2, <1>1, MultiplesApart, SizesAssumption
    <3> QED BY <3>1, <1>1, <1>2, SizesAssumption
  <2> QED BY <2>1, <2>2, <1>1, SizesAssumption
<1>4. NumRanks * CpuPageSize \in Nat
  BY SizesAssumption
<1>5. (r + 1) * CpuPageSize <= RowStride
  BY <1>1, <1>2, <1>3, <1>4, CellsFitInRow, SizesAssumption
<1> QED BY <1>1, <1>2, <1>5 DEF AreaStart, AreaEnd

\* The cells of two workers do not overlap.
LEMMA CellsApart ==
    ASSUME NEW r \in Ranks, NEW s \in Ranks, r < s
    PROVE  AreaEnd(r) <= AreaStart(s)
<1>1. r \in Nat /\ s \in Nat
  BY RankTypes
<1>2. r * CpuPageSize + CpuPageSize <= s * CpuPageSize
  BY <1>1, MultiplesApart, SizesAssumption
<1>3. (r + 1) * CpuPageSize = r * CpuPageSize + CpuPageSize
  BY <1>1, SizesAssumption
<1> QED BY <1>2, <1>3 DEF AreaStart, AreaEnd

-----------------------------------------------------------------------------
(* The inductive invariant.                                                *)

LEMMA LayoutInit == Init => LayoutInv
<1> SUFFICES ASSUME Init PROVE LayoutInv
  OBVIOUS
<1>1. TypeOK
  BY RankTypes, SizesAssumption DEF Init, TypeOK
<1>2. \A b \in Blocks : ~(b < 0)
  BY SizesAssumption DEF Blocks
<1> QED BY <1>1, <1>2 DEF Init, LayoutInv, InCells, Stacked, Hinted

LEMMA LayoutStep == LayoutInv /\ [Next]_vars => LayoutInv'
<1> SUFFICES ASSUME LayoutInv, [Next]_vars PROVE LayoutInv'
  OBVIOUS
<1> USE DEF LayoutInv
<1>1. ASSUME NEW r \in Ranks, NEW n \in TensorSizes, CreateNextView(r, n)
      PROVE  LayoutInv'
  <2> DEFINE new == [rank |-> r, start |-> offset[r], len |-> n]
  <2>1. /\ n \in Nat /\ n > 0
        /\ offset \in [Ranks -> Nat]
        /\ offset[r] + n <= AreaEnd(r)
        /\ offset' = [offset EXCEPT ![r] = offset[r] + n]
        /\ views' = views \cup {new}
        /\ overflowed' = overflowed
    BY <1>1, SizesAssumption DEF CreateNextView, Fits, NewOffset, TypeOK
  <2>7. UNCHANGED <<block, resident, rejected>> /\ block[r] = NumBlocks
    BY <1>1 DEF CreateNextView, populate
  <2>2. new \in Views
    BY <2>1 DEF Views
  <2>3. \A s \in Ranks : offset'[s] \in Nat /\ offset'[s] >= offset[s]
    BY <2>1
  <2>4. TypeOK'
    <3>1. \A s \in Ranks : AreaStart(s) <= offset'[s] /\ offset'[s] <= AreaEnd(s)
      BY <2>1, RankTypes DEF TypeOK
    <3> QED BY <2>1, <2>2, <2>7, <3>1 DEF TypeOK
  <2>5. InCells'
    <3>1. ASSUME NEW v \in views
          PROVE  AreaStart(v.rank) <= v.start /\ v.start + v.len <= offset'[v.rank]
      <4>1. v.rank \in Ranks /\ v.start \in Nat /\ v.len \in Nat
        BY DEF TypeOK, Views
      <4>2. offset[v.rank] \in Nat
        BY <4>1, <2>1
      <4> QED BY <2>3, <4>1, <4>2 DEF InCells
    <3>2. AreaStart(new.rank) <= new.start /\ new.start + new.len <= offset'[new.rank]
      BY <2>1 DEF TypeOK
    <3> QED BY <2>1, <3>1, <3>2 DEF InCells
  <2>6. Stacked'
    <3>1. ASSUME NEW v \in views, v.rank = r
          PROVE  v.start + v.len <= new.start
      BY <3>1 DEF InCells
    <3> QED BY <2>1, <3>1 DEF Stacked
  <2>8. Hinted'
    BY <2>1, <2>7 DEF Hinted
  <2> QED BY <2>4, <2>5, <2>6, <2>8
<1>2. ASSUME NEW r \in Ranks, NEW n \in TensorSizes, Overflow(r, n)
      PROVE  LayoutInv'
  BY <1>2 DEF Overflow, populate, TypeOK, InCells, Stacked, Hinted
<1>3. CASE UNCHANGED vars
  BY <1>3 DEF vars, populate, TypeOK, InCells, Stacked, Hinted
<1>4. ASSUME NEW r \in Ranks, PopulateBlock(r) PROVE LayoutInv'
  <2>1. /\ block \in [Ranks -> 0..NumBlocks] /\ block[r] \in Blocks
        /\ block' = [block EXCEPT ![r] = block[r] + 1]
        /\ block[r] + 1 \in 0..NumBlocks
        /\ UNCHANGED <<offset, views, overflowed>>
        /\ resident \subseteq resident' /\ rejected \subseteq rejected'
        /\ <<r, block[r]>> \in rejected' \/ Populated(r, block[r]) \in resident'
    BY <1>4, SizesAssumption DEF PopulateBlock, AfterError, TypeOK, Blocks
  <2>2. TypeOK'
    <3>1. /\ resident' \subseteq {Populated(q, b) : q \in Ranks, b \in Blocks}
          /\ rejected' \subseteq Ranks \X Blocks
      BY <1>4, <2>1 DEF PopulateBlock, TypeOK
    <3> QED BY <2>1, <3>1 DEF TypeOK
  <2>3. Hinted'
    <3>1. ASSUME NEW q \in Ranks, NEW b \in Blocks, b < block'[q]
          PROVE  <<q, b>> \in rejected' \/ Populated(q, b) \in resident'
      <4>1. CASE q = r /\ b = block[r]
        BY <2>1, <4>1
      <4>2. CASE ~(q = r /\ b = block[r])
        <5>1. b < block[q]
          BY <2>1, <3>1, <4>2, SizesAssumption DEF Blocks
        <5> QED BY <2>1, <5>1 DEF Hinted
      <4> QED BY <4>1, <4>2
    <3>2. \A v \in views : v.rank # r
      BY <1>4, SizesAssumption DEF PopulateBlock, Hinted
    <3> QED BY <2>1, <3>1, <3>2 DEF Hinted, TypeOK, Views
  <2> QED BY <2>1, <2>2, <2>3 DEF InCells, Stacked
<1> QED BY <1>1, <1>2, <1>3, <1>4 DEF Next

-----------------------------------------------------------------------------
(* What the invariant says of the views' bytes.                            *)

\* Where a view lies in a row.
LEMMA ViewInRow ==
    ASSUME LayoutInv, NEW v \in views
    PROVE  /\ v.rank \in Ranks /\ v.start \in Nat /\ v.len \in Nat
           /\ AreaStart(v.rank) <= v.start
           /\ v.start + v.len <= AreaEnd(v.rank)
           /\ v.start + v.len <= RowStride
<1>1. v.rank \in Ranks /\ v.start \in Nat /\ v.len \in Nat
  BY DEF LayoutInv, TypeOK, Views
<1>2. offset[v.rank] \in Nat /\ offset[v.rank] <= AreaEnd(v.rank)
  BY <1>1 DEF LayoutInv, TypeOK
<1>3. AreaStart(v.rank) <= v.start /\ v.start + v.len <= offset[v.rank]
  BY DEF LayoutInv, InCells
<1>4. AreaEnd(v.rank) \in Nat /\ AreaEnd(v.rank) <= RowStride
  BY <1>1, RankTypes, SizesAssumption
<1> QED BY <1>1, <1>2, <1>3, <1>4, SizesAssumption

LEMMA RowTypes ==
    ASSUME NEW b \in Blocks
    PROVE  /\ b \in Nat
           /\ b * RowStride \in Nat
           /\ (b + 1) * RowStride = b * RowStride + RowStride
           /\ (b + 1) * RowStride <= TotalSize
<1>1. b \in Nat /\ b + 1 <= NumBlocks
  BY SizesAssumption DEF Blocks
<1>2. b * RowStride \in Nat /\ (b + 1) * RowStride = b * RowStride + RowStride
  BY <1>1, SizesAssumption
<1>3. (b + 1) * RowStride <= NumBlocks * RowStride
  <2>1. CASE b + 1 = NumBlocks
    BY <2>1, <1>2, SizesAssumption
  <2>2. CASE b + 1 < NumBlocks
    <3>1. (b + 1) * RowStride + RowStride <= NumBlocks * RowStride
      BY <2>2, <1>1, MultiplesApart, SizesAssumption
    <3> QED BY <3>1, <1>1, <1>2, SizesAssumption
  <2> QED BY <2>1, <2>2, <1>1, SizesAssumption
<1> QED BY <1>1, <1>2, <1>3 DEF TotalSize

\* Two views that are disjoint in a row are disjoint in every two rows.
LEMMA RowsApart ==
    ASSUME LayoutInv, NEW v \in views, NEW w \in views,
           NEW b \in Blocks, NEW c \in Blocks, b < c
    PROVE  (BytesOf(v, b)).to <= (BytesOf(w, c)).from
<1>1. b * RowStride + RowStride <= c * RowStride
  BY RowTypes, MultiplesApart, SizesAssumption
<1>2. v.start \in Nat /\ v.len \in Nat /\ v.start + v.len <= RowStride /\ w.start \in Nat
  BY ViewInRow
<1>3. b * RowStride \in Nat /\ c * RowStride \in Nat
  BY RowTypes
<1>4. b * RowStride + v.start + v.len <= c * RowStride + w.start
  BY <1>1, <1>2, <1>3, SizesAssumption
<1> QED BY <1>4 DEF BytesOf

\* Different views of one row are disjoint.
LEMMA ViewsApart ==
    ASSUME LayoutInv, NEW v \in views, NEW w \in views, v # w, NEW b \in Blocks
    PROVE  Disjoint(BytesOf(v, b), BytesOf(w, b))
<1>0. /\ v.rank \in Ranks /\ v.start \in Nat /\ v.len \in Nat
      /\ w.rank \in Ranks /\ w.start \in Nat /\ w.len \in Nat
      /\ AreaStart(v.rank) <= v.start /\ v.start + v.len <= AreaEnd(v.rank)
      /\ AreaStart(w.rank) <= w.start /\ w.start + w.len <= AreaEnd(w.rank)
  BY ViewInRow
<1>1. v.start + v.len <= w.start \/ w.start + w.len <= v.start
  <2>1. CASE v.rank = w.rank
    BY <2>1 DEF LayoutInv, Stacked
  <2>2. CASE v.rank < w.rank
    <3>1. AreaEnd(v.rank) <= AreaStart(w.rank)
      BY <2>2, <1>0, CellsApart
    <3>2. AreaEnd(v.rank) \in Int /\ AreaStart(w.rank) \in Int
      BY <1>0, RankTypes, SizesAssumption
    <3> QED BY <1>0, <3>1, <3>2
  <2>3. CASE w.rank < v.rank
    <3>1. AreaEnd(w.rank) <= AreaStart(v.rank)
      BY <2>3, <1>0, CellsApart
    <3>2. AreaEnd(w.rank) \in Int /\ AreaStart(v.rank) \in Int
      BY <1>0, RankTypes, SizesAssumption
    <3> QED BY <1>0, <3>1, <3>2
  <2> QED BY <2>1, <2>2, <2>3, <1>0, RankTypes
<1>2. b * RowStride \in Nat
  BY RowTypes
<1> QED BY <1>0, <1>1, <1>2 DEF Disjoint, BytesOf

-----------------------------------------------------------------------------
(* Theorems.                                                               *)

\* Offsets never leave their worker's cell.
THEOREM LayoutTypes == Spec => []TypeOK
<1>1. LayoutInv => TypeOK
  BY DEF LayoutInv
<1> QED BY LayoutInit, LayoutStep, <1>1, PTL DEF Spec

\* No byte of the region belongs to two views or to two blocks, for any sizes.
THEOREM ViewsNeverOverlap == Spec => []ViewsDisjoint
<1>1. LayoutInv => ViewsDisjoint
  <2> SUFFICES ASSUME LayoutInv, NEW v \in views, NEW w \in views,
                      NEW b \in Blocks, NEW c \in Blocks, v # w \/ b # c
               PROVE  Disjoint(BytesOf(v, b), BytesOf(w, c))
    BY DEF ViewsDisjoint
  <2>1. CASE b < c
    BY <2>1, RowsApart DEF Disjoint
  <2>2. CASE c < b
    BY <2>2, RowsApart DEF Disjoint
  <2>3. CASE b = c
    BY <2>3, ViewsApart
  <2> QED BY <2>1, <2>2, <2>3, RowTypes
<1> QED BY LayoutInit, LayoutStep, <1>1, PTL DEF Spec

\* Row b of the memoryview holds block b of every view, for any sizes.
THEOREM RowsAreBlocks == Spec => []RowsHoldBlocks
<1>1. LayoutInv => RowsHoldBlocks
  <2> SUFFICES ASSUME LayoutInv, NEW v \in views, NEW b \in Blocks
               PROVE  Within(BytesOf(v, b), KvRow(b))
    BY DEF RowsHoldBlocks
  <2>1. v.start \in Nat /\ v.len \in Nat /\ v.start + v.len <= RowStride
    BY ViewInRow
  <2>2. b * RowStride \in Nat /\ (b + 1) * RowStride = b * RowStride + RowStride
    BY RowTypes
  <2> QED BY <2>1, <2>2, SizesAssumption DEF Within, BytesOf, KvRow
<1> QED BY LayoutInit, LayoutStep, <1>1, PTL DEF Spec

LEMMA RoundDown ==
    ASSUME NEW x \in Nat
    PROVE  /\ (x \div PageSize) * PageSize \in Nat
           /\ (x \div PageSize) * PageSize <= x
           /\ ((x \div PageSize) * PageSize) % PageSize = 0
<1>1. PageSize \in Nat /\ PageSize > 0
  BY SizesAssumption
<1>2. x \div PageSize \in Nat
  BY <1>1
<1>3. x = PageSize * (x \div PageSize) + (x % PageSize) /\ x % PageSize \in 0..(PageSize - 1)
  BY <1>1
<1>4. (x \div PageSize) * PageSize \in Nat
  BY <1>1, <1>2
<1>5. (x \div PageSize) * PageSize <= x
  BY <1>1, <1>2, <1>3, <1>4
<1>6. ((x \div PageSize) * PageSize) % PageSize = 0
  BY <1>1, <1>2
<1> QED BY <1>4, <1>5, <1>6

\* What a worker touches, its own populate loop has made resident, unless the kernel
\* rejected the call for that block, for any sizes.
THEOREM PagingNeedsARejection == Spec => []DemandPagingHasACause
<1>1. LayoutInv => DemandPagingHasACause
  <2> SUFFICES ASSUME LayoutInv, NEW v \in views, NEW b \in Blocks,
                      <<v.rank, b>> \notin rejected
               PROVE  \E i \in resident : Within(BytesOf(v, b), i)
    BY DEF DemandPagingHasACause
  <2>6. Populated(v.rank, b) \in resident
    <3>1. v.rank \in Ranks /\ b < block[v.rank]
      BY ViewInRow, SizesAssumption DEF LayoutInv, Hinted, Blocks
    <3> QED BY <3>1 DEF LayoutInv, Hinted
  <2> DEFINE raw == b * RowStride + AreaStart(v.rank)
  <2>1. /\ v.rank \in Ranks /\ v.start \in Nat /\ v.len \in Nat
        /\ AreaStart(v.rank) <= v.start /\ v.start + v.len <= AreaEnd(v.rank)
    BY ViewInRow
  <2>2. b * RowStride \in Nat /\ AreaStart(v.rank) \in Nat
        /\ AreaEnd(v.rank) = AreaStart(v.rank) + CpuPageSize
    BY <2>1, RowTypes, RankTypes
  <2>3. (raw \div PageSize) * PageSize \in Nat /\ (raw \div PageSize) * PageSize <= raw
    BY <2>2, RoundDown
  <2> HIDE DEF raw
  <2>4. raw = b * RowStride + AreaStart(v.rank)
    BY DEF raw
  <2>5. Populated(v.rank, b) = [from |-> (raw \div PageSize) * PageSize, to |-> raw + CpuPageSize]
    BY <2>4 DEF Populated
  <2>7. Within(BytesOf(v, b), Populated(v.rank, b))
    BY <2>1, <2>2, <2>3, <2>4, <2>5, SizesAssumption DEF Within, BytesOf
  <2> QED BY <2>6, <2>7
<1> QED BY LayoutInit, LayoutStep, <1>1, PTL DEF Spec

\* Every call of the populate loop is one the kernel can accept: it begins on a
\* page and ends in the file.
THEOREM PopulateIsLegal ==
    ASSUME NEW r \in Ranks, NEW b \in Blocks
    PROVE  /\ (Populated(r, b)).from % PageSize = 0
           /\ 0 <= (Populated(r, b)).from
           /\ (Populated(r, b)).from < (Populated(r, b)).to
           /\ (Populated(r, b)).to <= TotalSize
<1> DEFINE raw == b * RowStride + AreaStart(r)
<1>1. /\ b * RowStride \in Nat
      /\ (b + 1) * RowStride = b * RowStride + RowStride
      /\ (b + 1) * RowStride <= TotalSize
      /\ AreaStart(r) \in Nat
      /\ AreaStart(r) + CpuPageSize <= RowStride
  BY RowTypes, RankTypes
<1>2. raw \in Nat /\ TotalSize \in Nat
  BY <1>1, SizesAssumption DEF TotalSize
<1>3. /\ (raw \div PageSize) * PageSize \in Nat
      /\ (raw \div PageSize) * PageSize <= raw
      /\ ((raw \div PageSize) * PageSize) % PageSize = 0
  BY <1>2, RoundDown
<1>4. raw + CpuPageSize <= TotalSize
  BY <1>1, <1>2, SizesAssumption
<1> HIDE DEF raw
<1>5. Populated(r, b) = [from |-> (raw \div PageSize) * PageSize, to |-> raw + CpuPageSize]
  BY DEF Populated, raw
<1> QED BY <1>2, <1>3, <1>4, <1>5, SizesAssumption

=============================================================================
