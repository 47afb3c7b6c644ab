---------------------------- MODULE MCBufferPool ----------------------------
(***************************************************************************)
(* Instances of BufferPool for TLC; data values are interchangeable, and   *)
(* nothing reads the words of page 0 behind the entries that are counted.  *)
(***************************************************************************)
EXTENDS BufferPool

Symmetry == Permutations(Data)

Read == [i \in DOMAIN page0 |-> IF i <= page0[0] \/ i = ROOT_ID_OFFSET THEN page0[i] ELSE 0]

View == <<frames, page_table, free_frames, lru_list, free_pages, num_pages, Read, disk,
          contents, root>>
=============================================================================
