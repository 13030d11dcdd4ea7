------------------------ MODULE MCConnectionListener ------------------------
(* Instances of ConnectionListener for TLC.  Descriptors are not symmetric:  *)
(* liveness is checked.                                                      *)
EXTENDS ConnectionListener
=============================================================================
