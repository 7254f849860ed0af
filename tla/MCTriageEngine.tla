--------------------------- MODULE MCTriageEngine ---------------------------
(* Instances of TriageEngine for TLC. *)
EXTENDS TriageEngine, TLC

Two == {"shop", "bank"}

\* The shop's login file mentions a one-time password, its other files do not.
TwoFiles ==
    [p \in Two |-> IF p = "shop" THEN <<"cart", "login", "pay">> ELSE <<"teller">>]

F(k, f) == [kind |-> k, file |-> f]

Req(p, fs) == [project |-> p, findings |-> fs]

\* Every collector, a verified-OK marker, and a rule without collector.
AllCollectors ==
    {Req("shop", <<F("ok", "cart"), F("mfa", "pay"), F("key", "cart")>>),
     Req("bank", <<F("other", "teller"), F("audit", "teller"), F("csp", "teller")>>)}

ClientSymmetry == Permutations(Clients)
=============================================================================
