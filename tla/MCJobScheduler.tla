--------------------------- MODULE MCJobScheduler ---------------------------
(* Two clients that compete for one PE and two regions: each may start the PE *)
(* twice, with or without giving it back in between, and one transfer fails.  *)
EXTENDS JobScheduler, TLC

MCParamLists == {<<"in", "out">>, <<"out", "bad">>, <<"c2h">>, <<"h2c", "h2c">>}
MixedParamLists == {<<"in", "c2h", "out">>}
=============================================================================
