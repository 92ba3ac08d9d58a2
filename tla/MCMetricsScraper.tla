-------------------------- MODULE MCMetricsScraper --------------------------
(***************************************************************************)
(* Small instances of MetricsScraper for TLC.                              *)
(***************************************************************************)
EXTENDS MetricsScraper

\* Two reasons, in the order of FINISHED_REASONS, are enough for a window in
\* which they differ.
MCReasons == <<"stop", "length">>
MCOneReason == <<"stop">>
=============================================================================
