--------------------------- MODULE MCReflexSession --------------------------
EXTENDS ReflexSession, TLC

MCSurface == [p \in Policies |-> "standard"]

\* Nothing tells the filled texts or the descriptions apart.
Symmetry == Permutations(Texts \ {Blank}) \cup Permutations(Descriptions)

=============================================================================
