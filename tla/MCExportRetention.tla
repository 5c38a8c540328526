------------------------- MODULE MCExportRetention -------------------------
(* Two exports of two files, and time for the first to outlive its TTL.      *)
EXTENDS ExportRetention
CONSTANTS e1, e2, f1, f2
MCExport == {e1, e2}
MCFile == {f1, f2}
=============================================================================
