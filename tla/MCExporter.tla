----------------------------- MODULE MCExporter -----------------------------
(***************************************************************************)
(* Small instances of JsonlExporter: files of three bytes, so that almost   *)
(* every record rotates.                                                   *)
(***************************************************************************)
EXTENDS JsonlExporter

CONSTANTS p1, p2

MCProcs == {p1, p2}
=============================================================================
