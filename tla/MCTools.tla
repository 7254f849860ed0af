------------------------------- MODULE MCTools -------------------------------
(***************************************************************************)
(* All tools, on scans of up to five findings.                             *)
(***************************************************************************)
EXTENDS ToolCall

F(rule, sev, file, line) == [rule |-> rule, sev |-> sev, file |-> file, line |-> line]

(* The third scan has a verified-OK marker (rule 4), the fourth two        *)
(* findings of one place, the fifth more rules than a histogram names.     *)
MCScans ==
    { <<>>,
      <<F(1, "HIGH", 1, 1)>>,
      <<F(1, "HIGH", 1, 1), F(4, "INFO", 1, 2), F(2, "LOW", 2, 1), F(4, "INFO", 2, 3)>>,
      <<F(2, "CRITICAL", 1, 1), F(2, "MEDIUM", 1, 1), F(1, "MEDIUM", 2, 4)>>,
      <<F(3, "HIGH", 2, 1), F(2, "HIGH", 2, 2), F(1, "LOW", 1, 5), F(3, "HIGH", 1, 1),
        F(2, "MEDIUM", 1, 9)>> }

NoRule == [kind |-> "none", ids |-> {}]
Plain == [limit |-> 0, minSev |-> "", rule |-> NoRule, scope |-> {}, mode |-> "",
          path |-> "project", cursor |-> NoCursor]

Limits == {-2, -1, 0, 1, 2, 3}
Floors == Severities \cup {"", " ", "bogus"}
MCRuleFilters == {NoRule, [kind |-> "list", ids |-> {2}], [kind |-> "regex", ids |-> {1, 3}],
                [kind |-> "bad", ids |-> {}]}

(* At most one limit, one floor and one rule filter, or one scope.         *)
MCFirstRequests ==
    {[Plain EXCEPT !.limit = n, !.minSev = m, !.rule = r] :
        n \in Limits, m \in Floors, r \in MCRuleFilters}
    \cup {[Plain EXCEPT !.scope = {p}, !.limit = n] : p \in FileScope \cup {"taint"}, n \in {-2, 0, 1}}
    \cup {[Plain EXCEPT !.mode = m] : m \in {"auto", "online"}}
    \cup {[Plain EXCEPT !.path = ""], [Plain EXCEPT !.cursor = Foreign]}

(* What may come with a cursor.                                            *)
MCFollowRequests ==
    {Plain, [Plain EXCEPT !.limit = 1], [Plain EXCEPT !.limit = 3], [Plain EXCEPT !.minSev = "LOW"],
     [Plain EXCEPT !.scope = {"tests"}], [Plain EXCEPT !.mode = "auto"]}
=============================================================================
