---------------------------- MODULE MCGtkPresent ----------------------------
\* Instances of GtkPresent for TLC: a toplevel with three buffers, and a
\* toplevel with two that shares its window with a subsurface.
EXTENDS GtkPresent, TLC

CONSTANTS s1, s2, w1, a1, a2, a3, b1, none

OneWindow == s1 :> w1
OnePool == s1 :> {a1, a2, a3}

TwoSurfaces == {s1, s2}
SharedWindow == s1 :> w1 @@ s2 :> w1
TwoPools == s1 :> {a1, a2} @@ s2 :> {b1}

=============================================================================
