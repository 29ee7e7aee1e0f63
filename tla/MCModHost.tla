------------------------------- MODULE MCModHost -------------------------------
(* ModHost on a chain of three mods, the last of which uses the first only    *)
(* through the second; a builtin order may contradict that.                   *)
EXTENDS ModHost

MCDeps == <<{}, {1}, {2}>>
MCOffers == <<{"fallback"}, {"service"}, {"launch"}>>
MCUses == <<{"direct"}, {"group"}, {"ref"}>>
MCOrders == {Default, <<1, 2, 0>>}
================================================================================
