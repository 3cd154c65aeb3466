------------------------ MODULE MCToplevelConfigure ------------------------
\* Instance of ToplevelConfigure for TLC.  Sizes 2 and 3 are one pixel apart
\* (the slack of sizes_match), 6 is the output.
EXTENDS ToplevelConfigure

CONSTANTS csd, ssd, none

MCSizes == {2, 3, 6}
MCModes == {csd, ssd}
=============================================================================
