--------------------------- MODULE MCWindowLayers ---------------------------
\* Values for TLC: no text, no digest and no deriver is special.
EXTENDS WindowLayers, TLC

Symmetry == Permutations(Contents) \cup Permutations(Extras) \cup Permutations(Derivers)
=============================================================================
