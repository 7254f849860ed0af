----------------------------- MODULE MCScanners -----------------------------
(***************************************************************************)
(* The scanners on the small projects of SqlProjects, RouteProjects and    *)
(* PanProjects.                                                            *)
(***************************************************************************)
EXTENDS Scanners, SqlProjects, RouteProjects, PanProjects
=============================================================================
