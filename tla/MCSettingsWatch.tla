--------------------------- MODULE MCSettingsWatch ----------------------------
(* Paused and enabled stand for whatever another component changes.           *)
EXTENDS SettingsWatch

CONSTANTS paused, enabled

MCState == {paused, enabled}
===============================================================================
