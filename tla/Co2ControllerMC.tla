--------------------------- MODULE Co2ControllerMC ---------------------------
(***************************************************************************)
(* Small instances of Co2Controller for TLC.                               *)
(***************************************************************************)
EXTENDS Co2Controller

Record(d, e, c) == [data |-> d, end |-> e, crc |-> c]

\* An EEPROM never written, and one that holds 1000 ppm.
NewDevice  == {Record(65535, FALSE, Erased)}
UsedDevice == {Record(1000, TRUE, 1000)}

=============================================================================
