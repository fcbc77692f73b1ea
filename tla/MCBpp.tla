------------------------------- MODULE MCBpp -------------------------------
\* Bpp with UPPs around the segment boundaries: nothing, less than a segment,
\* one, just over one, two, just over two.
EXTENDS Bpp

MCSegmentSize == 2

MCTwoSegments == {<<1, 2, 3>>}

MCUpps == {[i \in 1 .. n |-> i] : n \in 0 .. 5}

=============================================================================
