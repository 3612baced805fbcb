---------------------------- MODULE MCLsfgClassic ----------------------------
(* LsfgClassic for TLC: the default profile and two others.                *)
EXTENDS LsfgClassic

MCNames == <<"decky-lsfg-vk", "racing", "strategy">>
=============================================================================
