-------------------------- MODULE MCHybridSession --------------------------
(* Instances of HybridSession for TLC. *)
EXTENDS HybridSession, TLC

ClientSymmetry == Permutations(Clients)

Req(t, x, q, l) ==
    [tool |-> t, path |-> "app", exclude |-> x, tests |-> FALSE,
     quality |-> q, limit |-> l]

\* A summary call, a filtered call with a limit, and a scoped call.
OneToolRequests ==
    {Req("tls", "default", FALSE, 0), Req("tls", "default", TRUE, 1)}

OneToolPageSize == [t \in {"tls"} |-> 2]

\* Requests of two tools, with every reason to be refused among them.
RefusalRequests ==
    {Req("tls", "default", FALSE, 0), Req("tls", "custom", FALSE, 0),
     Req("tls", "default", FALSE, -1), Req("tls", "default", FALSE, 3),
     Req("dep", "default", FALSE, 0), Req("dep", "default", TRUE, 1)}

TwoToolPageSize == [t \in {"tls", "dep"} |-> IF t = "tls" THEN 2 ELSE 1]

\* Two scopes, sent by two clients.
ScopeRequests ==
    {Req("tls", "default", FALSE, 2), Req("tls", "custom", FALSE, 0),
     Req("tls", "default", FALSE, 0)}
=============================================================================
