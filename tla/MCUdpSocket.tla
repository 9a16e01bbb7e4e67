---------------------------- MODULE MCUdpSocket ----------------------------
(* A small instance of UdpSocket for TLC.                                  *)
EXTENDS UdpSocket

CONSTANTS c1, c2, s1

TwoReceives == {c1, c2}
OneSend == {s1}
=============================================================================
