----------------------------- MODULE MCJobFeed ------------------------------
(* One job of either kind, followed by one page.                             *)
EXTENDS JobFeed
MCKinds == {"login", "export"}
=============================================================================
