-------------------------- MODULE MCFirmwareBuild --------------------------
(* A small instance of FirmwareBuild.                                       *)
EXTENDS FirmwareBuild

CONSTANTS k1, k2
=============================================================================
