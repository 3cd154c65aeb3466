----------------------------- MODULE MCGtkHost -----------------------------
\* Instance of GtkHost for TLC: one decoration mode, sizes one pixel
\* apart and far apart.
EXTENDS GtkHost

CONSTANTS ssd, none

MCSizes == {2, 3, 6}
=============================================================================
