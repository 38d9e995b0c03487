----------------------------- MODULE GuardWatch -----------------------------
(***************************************************************************)
(* A reference for the detectors: what an observer who saw every event of  *)
(* one actor, one at a time and without a bounded window, would remember.  *)
(* The detectors recompute all of it from a truncated, filtered history.   *)
(*                                                                         *)
(*   status     what is known about the writes made so far                 *)
(*   failing    the call that has failed `failures' times in a row, no     *)
(*              other result in between                                    *)
(*   repeating  the call made `repeats' times in a row                     *)
(***************************************************************************)
EXTENDS Guard

Unwatched == [status |-> "clean", failing |-> None, failures |-> 0,
              repeating |-> None, repeats |-> 0]

NextStatus(status, e) ==
  CASE IsWrite(e) -> "missing"
    [] IsValidation(e) /\ status # "clean"
         -> IF e.outcome \in {"success", "failure"} THEN e.outcome ELSE "unknown"
    [] OTHER -> status

Observe(w, e) ==
  LET print == Fingerprint(e)
      fails == e.type \in ResultTypes /\ e.outcome = "failure"
  IN  [status |-> NextStatus(w.status, e),
       failing |-> IF fails THEN print ELSE IF e.type \in ResultTypes THEN None ELSE w.failing,
       failures |-> CASE fails -> 1 + IF w.failing = print THEN w.failures ELSE 0
                      [] ~fails /\ e.type \in ResultTypes -> 0
                      [] OTHER -> w.failures,
       repeating |-> IF e.type = "tool.before" THEN print ELSE w.repeating,
       repeats |-> IF e.type = "tool.before"
                   THEN 1 + IF w.repeating = print THEN w.repeats ELSE 0
                   ELSE w.repeats]
=============================================================================
