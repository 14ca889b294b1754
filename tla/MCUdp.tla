------------------------------- MODULE MCUdp --------------------------------
(* Model values for TLC.                                                    *)
EXTENDS Udp

CONSTANT t1

OneToken == {t1}
=============================================================================
