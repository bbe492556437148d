------------------------------ MODULE MCMemory ------------------------------
(* An instance of VirtualMemory for TLC. *)
EXTENDS VirtualMemory

\* Which of the frames that are not reserved a table or page lies in makes no
\* difference: the view keeps the mapped pages and the number of entries of each
\* user half and of the kernel half, how many address spaces were lost with which of
\* them, the number of used frames, and not the names of the frames.
Half(bpt, pages, index) ==
    <<{p \in pages : IsMapped(mem, bpt, p)}, Cardinality(Slots(bpt, index))>>

UserHalf(bpt) == Half(bpt, 0 .. UserPages - 1, UserIndex)

SharesKernel(bpt) == \A j \in KernelIndex : mem.pt[bpt][j] = mem.pt[base[Kernel]][j]

LostHalf(bpt) == <<UserHalf(bpt), SharesKernel(bpt)>>

View == <<Cardinality(mem.used),
          [a \in Live |-> <<UserHalf(base[a]), SharesKernel(base[a]), heapLimit[a]>>],
          Half(base[Kernel], UserPages .. 2 * UserPages - 1, KernelIndex),
          [h \in {LostHalf(bpt) : bpt \in lost} |->
               Cardinality({bpt \in lost : LostHalf(bpt) = h})],
          IF cr3 = base[active] THEN {} ELSE UserHalf(cr3), active, exiting>>
=============================================================================
