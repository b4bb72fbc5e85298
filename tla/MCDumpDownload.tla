--------------------------- MODULE MCDumpDownload ---------------------------
(* Instances of DumpDownload. *)
EXTENDS DumpDownload

(* The dump grows, or shrinks. *)
TwoWeeks   == <<2, 3>>
Shrinking  == <<3, 2>>
=============================================================================
