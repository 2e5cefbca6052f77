-------------------------------- MODULE Fleet --------------------------------
(* What Assignment and RideDispatch have in common: the drivers, and the     *)
(* requests and tasks that run at the same time.                             *)
CONSTANTS Drivers, Calls, None
=============================================================================
