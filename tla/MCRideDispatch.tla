--------------------------- MODULE MCRideDispatch ---------------------------
(* RideDispatch with rankings of no, one or two drivers.                    *)
EXTENDS RideDispatch

CONSTANTS d1, d2

Rankings == {<<>>, <<d2>>, <<d1, d2>>}
=============================================================================
