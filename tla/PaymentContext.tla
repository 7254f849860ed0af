--------------------------- MODULE PaymentContext ---------------------------
(***************************************************************************)
(* Which functions the scanners treat as payment code and which as HTTP    *)
(* handlers (internal/keywords and internal/detector).                     *)
(*                                                                         *)
(* A file has [imports, paymentDir]: the import paths that matter, and     *)
(* whether a segment of its directory is in SharedPathWhitelist.           *)
(* A function has [name, words, types, fields, params]: the keyword tables *)
(* its name matches, the types it declares or takes, the fields it selects *)
(* and the handler types among its parameters.                             *)
(***************************************************************************)
EXTENDS Integers, FiniteSets, FiniteSetsExt

PaymentContextThreshold == 2

(* The weights of the signals; a signal counts once, however often it      *)
(* fires.                                                                  *)
Weight == [name |-> 2, path |-> 2, sdk |-> 3, chdParam |-> 2, chdField |-> 2,
           internalImport |-> 2]

Signals(file, fn) ==
    {s \in DOMAIN Weight :
        CASE s = "name" -> "keyword" \in fn.words
          [] s = "path" -> file.paymentDir
          [] s = "sdk" -> "sdk" \in file.imports
          [] s = "chdParam" -> "chd" \in fn.types
          [] s = "chdField" -> "chd" \in fn.fields
          [] s = "internalImport" -> "payment" \in file.imports}

PaymentContextScore(file, fn) == MapThenSumSet(LAMBDA s : Weight[s], Signals(file, fn))

IsPaymentContext(file, fn) == PaymentContextScore(file, fn) >= PaymentContextThreshold

FileHasTier1Keyword(fns) == \E f \in fns : "tier1" \in f.words

(* The keywords of tier 3 count only beside a function of tier 1.          *)
PaymentFuncTier(fn, fileTier1Present) ==
    CASE "tier1" \in fn.words -> 1
      [] "tier1" \notin fn.words /\ "tier2" \in fn.words -> 2
      [] fn.words \cap {"tier1", "tier2"} = {} /\ "tier3" \in fn.words
            /\ fileTier1Present -> 3
      [] OTHER -> 0

(* One framework per file: gin hides echo, both hide net/http.             *)
DetectFramework(file) ==
    IF "gin" \in file.imports THEN "gin"
    ELSE IF "echo" \in file.imports THEN "echo" ELSE "http"

IsHTTPHandler(fn, fw) == fw \in fn.params
=============================================================================
