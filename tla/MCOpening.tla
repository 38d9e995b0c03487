------------------------------ MODULE MCOpening ------------------------------
(***************************************************************************)
(* The databases an older agent-drift may leave to the processes and       *)
(* requests of MCDurable: the edit is old and judged, the failed validation*)
(* is recent and its process died before it was judged.                    *)
(***************************************************************************)
EXTENDS MCDurable, StoreOpening

MCStored(id, body, sequence) ==
  [id |-> id, session |-> "s1", body |-> body, sequence |-> sequence]

\* Schema 1 stored what the agent sent; later schemas store it redacted.
MCOld(body) == MCStored("e1", body, 0)
MCRecent == MCStored("e2", Validate("failure"), 1)

MCAllow == [action |-> "allow", fallback |-> None, severity |-> "info",
            drift_type |-> None, score |-> None]

MCTimestamp(e) == IF e.id = "e1" THEN 1 ELSE 2

MCFound(version, rows, mark) ==
  [schema |-> version, events |-> rows, lastRun |-> mark,
   decisions |-> {[id |-> "e1", decision |-> MCAllow] : row \in rows},
   next |-> [s \in Sessions |-> Cardinality(rows)]]

MCRows(body, old, recent) ==
  {[event |-> MCOld(body), stored_at |-> old], [event |-> MCRecent, stored_at |-> recent]}

MCDatabases ==
  {MCFound(0, {}, None),
   MCFound(1, MCRows(Edit, 0, 0), None),
   MCFound(2, MCRows(MCRedact(Edit), 1, 2), None),
   MCFound(2, MCRows(MCRedact(Edit), 1, 2), 2),
   MCFound(4, MCRows(MCRedact(Edit), 1, 2), 2)}
=============================================================================
