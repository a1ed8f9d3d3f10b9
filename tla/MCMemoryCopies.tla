--------------------------- MODULE MCMemoryCopies ---------------------------
(***************************************************************************)
(* A memory of 16 bytes at 0 and a window of 8 bytes at 16; files that are *)
(* missing, short, as long as the window, and longer than either memory;   *)
(* two stores, wide, narrow, with strobes, at the two ends of the window,  *)
(* below it in the shared memory, and to no device.                        *)
(***************************************************************************)
EXTENDS MemoryCopies

MCDevices == << [start |-> 16, mask |-> 7], [start |-> 0, mask |-> 15] >>

FileOf(n) == [open |-> TRUE, bytes |-> [i \in 1 .. n |-> 1 + (i % 2)]]

MCFiles == { [open |-> FALSE, bytes |-> <<>>],
             FileOf(3), FileOf(8), FileOf(12), FileOf(20) }

StoreAt(addr, size, strb, value) ==
  [addr |-> addr, size |-> size, strb |-> strb, data |-> [l \in Lanes |-> value]]

MCStores ==
  { StoreAt(16, 4, 0 .. 3, 3), StoreAt(16, 4, {1, 2}, 0), StoreAt(18, 2, {}, 0),
    StoreAt(21, 2, {}, 3), StoreAt(2, 1, {}, 2), StoreAt(8, 4, 0 .. 3, 3),
    StoreAt(40, 4, 0 .. 3, 1) }

MCPrograms == [1 .. 2 -> MCStores]
=============================================================================
