--------------------------- MODULE MCLuaHotReload ---------------------------
(* A module whose name has an even number of units, and another file.      *)
EXTENDS LuaHotReload
CONSTANTS m1, log
MCEven == {m1}
=============================================================================
