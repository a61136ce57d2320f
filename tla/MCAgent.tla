------------------------------ MODULE MCAgent ------------------------------
(* Instances of Agent for TLC.                                              *)
EXTENDS Agent

QuickSets == {<<"quick">>, <<"quick", "bad">>}
OneQuick == {<<"quick">>}
NoStartup == <<>>
TimedStartup == <<"timed">>
=============================================================================
