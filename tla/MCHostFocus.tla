---------------------------- MODULE MCHostFocus ----------------------------
\* Instance of HostFocus for TLC: a toplevel with two nested popups, another
\* client's toplevel, and a layer surface of that client.
EXTENDS HostFocus

CONSTANTS a, b, U, V, p, q, l

MCOwner == U :> a @@ p :> a @@ q :> a @@ V :> b @@ l :> b
MCTop == p :> U @@ q :> U
MCAbove == p :> {p} @@ q :> {p, q}
=============================================================================
