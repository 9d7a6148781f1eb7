------------------------------ MODULE MpcPool ------------------------------
(***************************************************************************)
(* The memory of an input (core/mpc.c): a pool of small cells in front of  *)
(* malloc.  Values and errors live in it while a parse runs; what the      *)
(* parse returns is exported, because the pool goes away with the input.   *)
(*                                                                         *)
(* A pointer is a cell number or Malloced (its own block from malloc);     *)
(* what a block holds is one datum, read and written through its pointer.  *)
(***************************************************************************)
EXTENDS Integers

CONSTANTS
    CellNum,    \* MPC_INPUT_MEM_NUM
    CellSize,   \* sizeof(mpc_mem_t)
    Sizes,      \* bound: the sizes asked for
    Handles,    \* bound: the variables of the parser that hold a pointer
    Data        \* bound: what is written to a block

ASSUME PoolAssumption == CellNum \in Nat \ {0} /\ CellSize \in Nat /\ Sizes \subseteq Nat

Cells    == 0..(CellNum - 1)
Malloced == CellNum
Null     == CellNum + 1

VARIABLES
    mem_full,   \* which cells are taken
    mem_index,  \* the cell to try first
    mem,        \* what the cells hold
    heap,       \* what the malloced block of a handle holds
    ptr,        \* the pointer in each handle
    alive,      \* the input has not been deleted
    wrote       \* history: what the owner of each handle wrote last

pool == <<mem_full, mem_index, mem, heap, ptr, alive, wrote>>

PoolInit ==
    /\ mem_full = [c \in Cells |-> FALSE] /\ mem_index = 0
    /\ mem \in [Cells -> Data] /\ heap \in [Handles -> Data]
    /\ ptr = [h \in Handles |-> Null]
    /\ alive = TRUE /\ wrote = heap

Pooled(h) == ptr[h] \in Cells

Contents(h) == IF Pooled(h) THEN mem[ptr[h]] ELSE heap[h]

\* The d-th cell tried from mem_index on.
Tried(d) == (mem_index + d) % CellNum

Store(h, p, x) ==
    /\ ptr' = [ptr EXCEPT ![h] = p]
    /\ IF p \in Cells THEN mem' = [mem EXCEPT ![p] = x] /\ UNCHANGED heap
       ELSE heap' = [heap EXCEPT ![h] = x] /\ UNCHANGED mem

Release(h) ==
    mem_full' = IF Pooled(h) THEN [mem_full EXCEPT ![ptr[h]] = FALSE] ELSE mem_full

\* Bug: the index of the next cell does not wrap around.
MallocCellNoWrap(h, n, x) ==
    /\ alive /\ ptr[h] = Null /\ n <= CellSize
    /\ \E d \in Cells :
          /\ ~mem_full[Tried(d)] /\ \A b \in 0..(d - 1) : mem_full[Tried(b)]
          /\ Store(h, Tried(d), x)
          /\ mem_full' = [mem_full EXCEPT ![Tried(d)] = TRUE]
          /\ mem_index' = Tried(d) + 1
    /\ wrote' = [wrote EXCEPT ![h] = x] /\ UNCHANGED alive

\* mpc_malloc, and x written to the block.
MallocCell(h, n, x) ==
    /\ alive /\ ptr[h] = Null /\ n <= CellSize
    /\ \E d \in Cells :
          /\ ~mem_full[Tried(d)] /\ \A b \in 0..(d - 1) : mem_full[Tried(b)]
          /\ Store(h, Tried(d), x)
          /\ mem_full' = [mem_full EXCEPT ![Tried(d)] = TRUE]
          /\ mem_index' = (Tried(d) + 1) % CellNum
    /\ wrote' = [wrote EXCEPT ![h] = x] /\ UNCHANGED alive

\* mpc_realloc of no block is realloc, whatever the size and the cells that are free: so
\* begin the lists of expectations of the errors.
ReallocNull(h, x) ==
    /\ alive /\ ptr[h] = Null
    /\ Store(h, Malloced, x) /\ wrote' = [wrote EXCEPT ![h] = x]
    /\ UNCHANGED <<mem_full, mem_index, alive>>

\* mpc_malloc of what is larger than a cell, or when every cell is taken.
MallocBlock(h, n, x) ==
    /\ alive /\ ptr[h] = Null
    /\ n > CellSize \/ \A c \in Cells : mem_full[c]
    /\ Store(h, Malloced, x) /\ wrote' = [wrote EXCEPT ![h] = x]
    /\ UNCHANGED <<mem_full, mem_index, alive>>

\* The owner writes through its pointer.
Write(h, x) ==
    /\ ptr[h] # Null
    /\ Store(h, ptr[h], x) /\ wrote' = [wrote EXCEPT ![h] = x]
    /\ UNCHANGED <<mem_full, mem_index, alive>>

\* mpc_free while the input lives, free for a malloced block at any time.
Free(h) ==
    /\ ptr[h] # Null /\ (alive \/ ~Pooled(h))
    /\ Release(h)
    /\ ptr' = [ptr EXCEPT ![h] = Null]
    /\ UNCHANGED <<mem_index, mem, heap, alive, wrote>>

\* Bug: the block moves out of its cell and the cell stays taken.
ReallocKeepsCell(h, n) ==
    /\ alive /\ ptr[h] # Null
    /\ IF Pooled(h) /\ n > CellSize THEN Store(h, Malloced, mem[ptr[h]])
       ELSE UNCHANGED <<ptr, mem, heap>>
    /\ UNCHANGED <<mem_full, mem_index, alive, wrote>>

\* Bug: the block moves out of its cell and its contents do not.
ReallocNoCopy(h, n) ==
    /\ alive /\ ptr[h] # Null
    /\ IF Pooled(h) /\ n > CellSize THEN Store(h, Malloced, heap[h]) /\ Release(h)
       ELSE UNCHANGED <<ptr, mem, heap, mem_full>>
    /\ UNCHANGED <<mem_index, alive, wrote>>

\* A cell that gets too small is copied out; otherwise the block stays what it is.
Realloc(h, n) ==
    /\ alive /\ ptr[h] # Null
    /\ IF Pooled(h) /\ n > CellSize THEN Store(h, Malloced, mem[ptr[h]]) /\ Release(h)
       ELSE UNCHANGED <<ptr, mem, heap, mem_full>>
    /\ UNCHANGED <<mem_index, alive, wrote>>

\* mpc_export: out of the pool, for the caller of the parser.
Export(h) ==
    /\ alive /\ ptr[h] # Null
    /\ IF Pooled(h) THEN Store(h, Malloced, mem[ptr[h]]) /\ Release(h)
       ELSE UNCHANGED <<ptr, mem, heap, mem_full>>
    /\ UNCHANGED <<mem_index, alive, wrote>>

\* mpc_input_delete, once everything that is still wanted has been exported.
Delete ==
    /\ alive /\ \A h \in Handles : ~Pooled(h)
    /\ alive' = FALSE /\ mem' \in [Cells -> Data]
    /\ UNCHANGED <<mem_full, mem_index, heap, ptr, wrote>>

PoolNext ==
    \/ \E h \in Handles :
          \/ \E n \in Sizes, x \in Data : MallocCell(h, n, x) \/ MallocBlock(h, n, x)
          \/ \E x \in Data : Write(h, x) \/ ReallocNull(h, x)
          \/ Free(h) \/ Export(h)
          \/ \E n \in Sizes : Realloc(h, n)
    \/ Delete

PoolSpec == PoolInit /\ [][PoolNext]_pool

----------------------------------------------------------------------------
(* Properties *)

\* Flags, cells and pointers have the values the code gives them.
PoolTypeOK ==
    /\ mem_full \in [Cells -> BOOLEAN] /\ mem_index \in Cells
    /\ mem \in [Cells -> Data] /\ heap \in [Handles -> Data]
    /\ ptr \in [Handles -> Cells \cup {Malloced, Null}]
    /\ alive \in BOOLEAN /\ wrote \in [Handles -> Data]

\* A cell is marked taken exactly while one pointer refers to it: no cell is given
\* to two owners, none is lost, however allocations, reallocations, exports and
\* releases are interleaved.
CellsAccounted ==
    /\ \A c \in Cells : mem_full[c] <=> \E h \in Handles : ptr[h] = c
    /\ \A g, h \in Handles : Pooled(g) /\ ptr[g] = ptr[h] => g = h

\* The pool is invisible: a block holds what its owner wrote last, in whichever cell
\* or malloced block it has ended up, whatever the other owners do and also after
\* the input was deleted.
BlocksKeepData == \A h \in Handles : ptr[h] # Null => Contents(h) = wrote[h]
=============================================================================
