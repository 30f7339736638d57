---------------------------- MODULE MCEnumeration ----------------------------
\* List A of two episodes with a nested List A/B, a List beyond the depth the walk goes to,
\* and a prefix beside them that makes one too many for the walk.
EXTENDS Enumeration

Objects == <<
  <<"A", "B", "C", "raw", "e1", "bag">>,
  <<"A", "B", "raw", "e1", "bag">>,
  <<"A", "processed", "e1", "manifest">>,
  <<"A", "raw", "e1", "bag">>,
  <<"A", "raw", "e2", "bag">>,
  <<"D", "text">> >>

Segments == UNION {{Objects[i][j] : j \in 1..Len(Objects[i])} : i \in 1..Len(Objects)}

=============================================================================
