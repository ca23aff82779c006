----------------------------- MODULE MCTaskFile -----------------------------
EXTENDS TaskFile, TLC

\* What the constructor may be given: also no number, which no caller in the
\* repository passes on.
Sizes == {-1, 0, 1, 2, Null}

\* What a client may ask for.
AskedFor == {-1, 1, 2}

Symmetry == Permutations(Url) \cup Permutations(Path)
=============================================================================
