---------------------------- MODULE MCIngestQueue ----------------------------
(* TLC instances of the ingestion queue. *)
EXTENDS IngestQueue

=============================================================================
