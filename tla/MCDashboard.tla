------------------------------ MODULE MCDashboard ------------------------------
(* Small instance of Dashboard: every page with its own bounds. *)
EXTENDS Dashboard
=============================================================================
