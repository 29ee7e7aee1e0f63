----------------------------- MODULE MCGameSession -----------------------------
(* A session of four mods: a library that hooks the game and keeps a reference *)
(* to it, a launch provider that uses the library through another mod, and a   *)
(* mod with a hook group that has nothing to do with them; builtin orders may  *)
(* contradict the dependencies.                                                *)
EXTENDS GameSession

MCDeps == <<{}, {1}, {2}, {}>>
MCOffers == <<{"fallback"}, {}, {"launch"}, {"launch"}>>
MCUses == <<{"direct", "ref"}, {}, {"ref"}, {"group", "ref"}>>
MCOrders == {Default, <<1, 2, 3, 0>>, <<3, 0, 1, 2>>}
================================================================================
