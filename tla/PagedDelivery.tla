---------------------------- MODULE PagedDelivery ----------------------------
(***************************************************************************)
(* What a paginated tool promises a client that keeps following the        *)
(* cursors it is given: the wanted findings, in order, each once, in       *)
(* chunks; the end is announced only when all of them have been given.     *)
(* How long the chunks are, what an overview looks like and when a session *)
(* is lost is left open.                                                   *)
(***************************************************************************)
EXTENDS Naturals, Sequences

CONSTANT Items

VARIABLES wanted,      \* the findings the request selects
          delivered,   \* what the pages have given so far
          status       \* "asked", "open", "complete", "refused" or "lost"

vars == <<wanted, delivered, status>>

Init == wanted \in Seq(Items) /\ delivered = <<>> /\ status = "asked"

Refuse ==
    /\ status = "asked" /\ status' = "refused"
    /\ UNCHANGED <<wanted, delivered>>

Overview ==
    /\ status = "asked" /\ status' = "open"
    /\ UNCHANGED <<wanted, delivered>>

Deliver ==
    /\ status \in {"asked", "open"}
    /\ \E n \in Len(delivered)..Len(wanted) :
         /\ delivered' = SubSeq(wanted, 1, n)
         /\ status' \in {"open", "complete"}
         /\ status' = "complete" => n = Len(wanted)
    /\ UNCHANGED wanted

(* The session ran out, or the client itself broke the call off.           *)
Lose ==
    /\ status \in {"asked", "open"} /\ status' = "lost"
    /\ UNCHANGED <<wanted, delivered>>

Next == Refuse \/ Overview \/ Deliver \/ Lose

Spec == Init /\ [][Next]_vars
=============================================================================
