----------------------------- MODULE MCOsvCache -----------------------------
(* Instances of OsvCache for TLC. *)
EXTENDS OsvCache, TLC

ProcSymmetry == Permutations(Procs)

Dir(canonical, dated) ==
    [n \in Names |-> IF n = Canonical THEN canonical
                     ELSE IF n = 0 THEN dated ELSE NoFile]

F(data, at) == [data |-> data, at |-> at]

\* An empty directory, an old canonical file, a file from before the canonical
\* name was introduced, and one that does not parse.
Found ==
    {Dir(NoFile, NoFile), Dir(F(1, -2), NoFile), Dir(NoFile, F(1, -1)),
     Dir(NoFile, F(0, 0))}

OldCanonical == {Dir(F(1, -2), NoFile)}
=============================================================================
