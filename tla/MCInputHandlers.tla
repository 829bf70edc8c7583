--------------------------- MODULE MCInputHandlers ---------------------------
\* Instances of InputHandlers for TLC: Longs of four values, files of at most two lines.
EXTENDS InputHandlers

CONSTANTS d1, t1, t2

L(digits, data) == [digits |-> digits, data |-> data]

Uploads == {<<L(1, d1)>>}

Recordings == {<<[delay |-> 1, data |-> NoData], [delay |-> -1, data |-> d1]>>}

Alike == Permutations({t1, t2})
=============================================================================
