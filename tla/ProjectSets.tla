---------------------------- MODULE ProjectSets -----------------------------
(* Large sets of small projects.                                           *)

(* S \cup T.  TLC sorts S to go through it, and so need not compare each   *)
(* element of T with all of S.                                             *)
Both(S, T) == {s \in S : TRUE} \cup T
=============================================================================
