----------------------------- MODULE MCQuality ------------------------------
(* Four marks, of which any may be lost: enough reports for one to be      *)
(* replaced before the pipeline reads it, and for a second pipeline.       *)
EXTENDS Quality
=============================================================================
