----------------------------- MODULE DevContext -----------------------------
(***************************************************************************)
(* How the place of a file and the literal found in it move the severity   *)
(* of a credential finding (scanner/devcontext.go).                        *)
(*                                                                         *)
(* A place is [above, below, base]: the directory names above the scan     *)
(* root, those between the root and the file, and what the file's own name *)
(* says ("dev", "prod" or "").  A value is a member of Literals.           *)
(***************************************************************************)
EXTENDS Integers

ProdPathSegments == {"prod", "k8s"}
DevPathSegments == {"dev", "test", "docker", "examples"}
DedicatedDevSegments == {"dev", "test", "sandbox", "examples"}
ExamplesSegments == {"examples"}

(* The values of the table, and three that are not in it.                  *)
PlaceholderValues == {"changeme", "secret"}
Literals == PlaceholderValues \cup {"", "todo", "s3cr3t"}

SeverityRank == [CRITICAL |-> 5, HIGH |-> 4, MEDIUM |-> 3, LOW |-> 2, INFO |-> 1]

Segments(place) == place.above \cup place.below

IsProdPath(place) == Segments(place) \cap ProdPathSegments # {} \/ place.base = "prod"

(* Only the names below the scan root count here ...                       *)
IsDevPath(place) == place.below \cap DevPathSegments # {} \/ place.base = "dev"
IsExamplesPath(place) == place.below \cap ExamplesSegments # {}

(* ... and here those above it count as well.                              *)
IsDedicatedDevPath(place) == Segments(place) \cap DedicatedDevSegments # {}

IsPlaceholderValue(value) == value \in PlaceholderValues

(* The production override comes first and settles it; otherwise a         *)
(* candidate severity replaces a higher one.                               *)
ClassifyDevContextInRoot(place, value, sev) ==
    LET dev == IsDevPath(place)
        placeholder == IsPlaceholderValue(value)
        candidate == IF dev /\ placeholder THEN "INFO"
                     ELSE IF dev \/ placeholder THEN "MEDIUM" ELSE sev
    IN  IF IsProdPath(place)
        THEN [sev |-> "CRITICAL", prod |-> TRUE, dedicated |-> FALSE,
              examples |-> FALSE, dev |-> FALSE]
        ELSE [sev |-> IF SeverityRank[candidate] < SeverityRank[sev] THEN candidate ELSE sev,
              prod |-> FALSE, dedicated |-> IsDedicatedDevPath(place),
              examples |-> IsExamplesPath(place), dev |-> dev \/ placeholder]
=============================================================================
