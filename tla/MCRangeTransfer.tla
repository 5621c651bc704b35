--------------------------- MODULE MCRangeTransfer ---------------------------
EXTENDS RangeTransfer, TLC
CONSTANTS u1, u2, a1, a2, b1, s1, s2, e1, e2, m1

\* One server replaces a1 by a2, of which an If-Range can say nothing; the
\* mirror serves another object with the headers of a1.
MCUrlOf == (a1 :> u1) @@ (a2 :> u1) @@ (b1 :> u2)
MCHeader ==
  LET first == [size |-> s1, etag |-> e1, modified |-> m1]
  IN (a1 :> first) @@ (a2 :> [size |-> s2, etag |-> e2, modified |-> Absent]) @@ (b1 :> first)
=============================================================================
