------------------------------ MODULE Scanners ------------------------------
(***************************************************************************)
(* A call of the SQL, the audit, the authentication or the PAN scanner on  *)
(* one of its projects.                                                    *)
(***************************************************************************)
EXTENDS SqlSchema, AuthScan, PanScan

Init == SqlInit \/ AuditInit \/ AuthInit \/ PanInit

Next ==
    \/ scanner = "sql" /\ SqlNext
    \/ scanner = "audit" /\ AuditNext
    \/ scanner = "auth" /\ AuthNext
    \/ scanner = "pan" /\ PanNext
    \/ Returned

Spec == Init /\ [][Next]_callVars
=============================================================================
