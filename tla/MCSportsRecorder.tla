--------------------------- MODULE MCSportsRecorder ---------------------------
(* Instances of SportsRecorder for TLC.                                    *)
EXTENDS SportsRecorder, TLC

CONSTANTS t1, t2

(* t1 stays in the catalog, t2 comes and goes. *)
MCCatalogs == {{t1}, {t1, t2}}
=============================================================================
