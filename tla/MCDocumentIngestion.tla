------------------------ MODULE MCDocumentIngestion ------------------------
(* The ingestion pipeline for TLC, without symmetry as the run checks       *)
(* liveness.                                                                *)
EXTENDS DocumentIngestion
=============================================================================
