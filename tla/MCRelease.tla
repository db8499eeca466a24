----------------------------- MODULE MCRelease ------------------------------
EXTENDS Release, TLC

CONSTANTS good, revised, drifted, reordered

SignalOrder == <<"nullifier", "eligible">>
Circuits == {good, revised, drifted, reordered}
CircuitSymmetry == Permutations({good, revised})
=============================================================================
