------------------------------ MODULE ScanCall ------------------------------
(***************************************************************************)
(* One call of one scanner: which scanner runs, on which project (its      *)
(* sources as the scanner sees them), how far it is, and what it has       *)
(* worked out so far.  The scanner modules extend this one and add their   *)
(* passes as actions; no two scanners share anything else, so a behaviour  *)
(* is the run of one scanner on one project.                               *)
(***************************************************************************)

VARIABLES scanner,   \* the scanner that runs
          project,   \* the sources it reads; nothing changes them
          pc,        \* the pass it is in, "done" or "failed"
          work       \* the findings and maps of that scanner

callVars == <<scanner, project, pc, work>>

(* Before the first pass: scanner s is called on project p.                *)
Called(s, p, w) ==
    scanner = s /\ project = p /\ pc = "start" /\ work = w

(* A pass of scanner s that goes from one program point to the next.       *)
Pass(s, from, to, w) ==
    /\ scanner = s
    /\ pc = from
    /\ pc' = to
    /\ work' = w
    /\ UNCHANGED <<scanner, project>>

(* A scan that has returned stays returned.                                *)
Returned == pc \in {"done", "failed"} /\ UNCHANGED callVars

Done(s) == scanner = s /\ pc = "done"
=============================================================================
