---------------------------- MODULE MCFrameAlloc ----------------------------
(* FrameAlloc with frames of two bytes, words of two frames, a default of   *)
(* six frames and a bitmap for twelve.                                     *)
EXTENDS FrameAlloc

Entry(b, l, t) == [base |-> b, len |-> l, typ |-> t]

\* Maps the allocator copes with; the last is laid out as a PC's, with reserved regions
\* below the kernel's end, inside the RAM and above it.
OrderlyMaps ==
  { <<>>,
    << Entry(0, 12, 1), Entry(9, 2, 2) >>,
    << Entry(0, 20, 1), Entry(9, 1, 3), Entry(10, 0, 2), Entry(10, 2, 4) >>,
    << Entry(0, 8, 1), Entry(8, 32, 1), Entry(8, 3, 2) >>,
    << Entry(0, 1, 1), Entry(1, 1, 2), Entry(3, 13, 1), Entry(9, 1, 2), Entry(30, 2, 5) >> }

ASSUME MapsOrderly == \A m \in OrderlyMaps : Orderly(m)
=============================================================================
