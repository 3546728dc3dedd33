---------------------------- MODULE MCAliceCore -----------------------------
(* Two known scenarios, one of them requested together with a name no      *)
(* scenario has, over both address families and both media modes.          *)
EXTENDS AliceCore

MCAllTests == {"alice_1", "alice_3"}
MCRequested == {"alice_1", "alice_99"}
MCTtype == <<"IP4", "IP6">>
=============================================================================
