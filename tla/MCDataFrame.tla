---------------------------- MODULE MCDataFrame ----------------------------
EXTENDS DataFrame, TLC

\* A rectangular file, one with a short line, and one with a field that is no
\* number.
MCFiles == {<<<<1>>, <<0>>>>, <<<<1>>, <<0, 1>>>>, <<<<NaN>>>>}

\* The memory behind a block may look like a stored number or like another one.
MCJunk == {1, 7}

Symmetry == Permutations(Objects)
=============================================================================
