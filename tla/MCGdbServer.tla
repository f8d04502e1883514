----------------------------- MODULE MCGdbServer -----------------------------
(* A query, a write of an escaped '#', one that cannot be parsed, continue, *)
(* step and an unknown command, over a buffer in which the end of a packet  *)
(* falls on every position.                                                 *)
EXTENDS GdbServer

MCPackets == {<<"q">>, <<"X", "#">>, <<"X">>, <<"c">>, <<"s">>, <<"m">>}
==============================================================================
