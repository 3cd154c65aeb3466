--------------------------- MODULE MCAndroidHost ---------------------------
\* Instance of AndroidHost for TLC: two sizes that the output and the client choose
\* between, the smaller one also the size a settle falls back to.
EXTENDS AndroidHost

CONSTANT none

MCOutputs == {1, 6}
MCSizes == {1, 6}
=============================================================================
