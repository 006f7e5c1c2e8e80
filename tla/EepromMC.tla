------------------------------- MODULE EepromMC -------------------------------
(***************************************************************************)
(* A small instance of Eeprom for TLC: the CO2 controller and the network  *)
(* manager with one record each.                                           *)
(***************************************************************************)
EXTENDS Eeprom

CONSTANTS co2, net, targetAddr, ssidAddr, target, lowTarget, ssid

\* The records of the two tasks.
MCOwner == [a \in Addresses |-> IF a = targetAddr THEN co2 ELSE net]

\* A target, one that begins with a zero byte, a name, the empty name.
MCAsks == [a \in Addresses |-> IF a = targetAddr THEN {target, lowTarget}
                               ELSE {ssid, Nothing}]

=============================================================================
