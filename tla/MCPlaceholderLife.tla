------------------------- MODULE MCPlaceholderLife -------------------------
EXTENDS PlaceholderLife
Changes == [x \in Modes |-> IF x = "protect_siblings" THEN 2 ELSE 1]
=============================================================================
