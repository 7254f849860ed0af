-------------------------- MODULE MCReportPipeline --------------------------
(* Instances of ReportPipeline for TLC. *)
EXTENDS ReportPipeline

F(sev, req, rel, pkgs, ignored) ==
    [sev |-> sev, req |-> req, related |-> rel, pkgs |-> pkgs,
     ignored |-> ignored, drops |-> 0]

UpTo2(S) == {<<>>} \cup {<<f>> : f \in S} \cup {<<f, g>> : f, g \in S}

ThreeScanners == <<"auth", "secret", "dep">>

ThreeCovers ==
    [s \in {"auth", "secret", "dep"} |->
        CASE s = "auth" -> {"8.4.2"} [] s = "secret" -> {"8.6.2"}
          [] s = "dep" -> {"6.3.3"}]

AllReqs == {"8.4.2", "8.6.2", "6.3.3", "6.3.2", "8.6.1", "8.3.1"}

\* The machine-to-machine downgrade (INFO, naming 8.6.1), a missing MFA, a
\* secret that also names 8.3.1, suppressed and excluded variants of them.
ThreeOutputs ==
    [s \in {"auth", "secret", "dep"} |->
        CASE s = "auth" ->
               UpTo2({F("INFO", "8.4.2", {"8.6.1", "8.6.2"}, {}, FALSE),
                      F("HIGH", "8.4.2", {}, {}, FALSE),
                      F("HIGH", "8.4.2", {}, {"gen/**"}, FALSE)})
          [] s = "secret" ->
               UpTo2({F("CRITICAL", "8.6.2", {"8.3.1"}, {}, FALSE),
                      F("MEDIUM", "8.6.2", {"8.6.1"}, {}, TRUE),
                      F("LOW", "8.6.2", {"8.6.1"}, {"gen/**", "mock/**"}, FALSE),
                      F("MEDIUM", "8.6.2", {}, {"mock/**"}, FALSE)})
          [] s = "dep" ->
               {<<>>, <<F("HIGH", "6.3.3", {}, {}, FALSE)>>,
                <<F("INFO", "6.3.3", {}, {}, FALSE)>>}]

TwoRules == <<"gen/**", "mock/**">>
=============================================================================
