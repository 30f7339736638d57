--------------------------- MODULE MCSourcePresence ---------------------------
\* Episode e1 is seen with every combination of its sources that matters, e2
\* comes and goes as a whole.
EXTENDS SourcePresence

CONSTANTS e1, e2

SeenAs(parts, video) == [parts |-> parts, video |-> video]

Views == [e \in Episode |->
  IF e = e1
  THEN {Unseen,
        SeenAs({"raw"}, FALSE),
        SeenAs({"raw", "processed", "manifest"}, TRUE),
        SeenAs({"raw", "processed", "manifest", "video"}, TRUE),
        SeenAs({"processed", "manifest", "video"}, FALSE),
        SeenAs({"processed", "video"}, FALSE)}
  ELSE {Unseen, SeenAs({"raw"}, FALSE)}]

=============================================================================
