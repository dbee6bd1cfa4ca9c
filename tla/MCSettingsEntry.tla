--------------------------- MODULE MCSettingsEntry --------------------------
(* Three runs of the effect, one after the other.                          *)
EXTENDS SettingsEntry
=============================================================================
