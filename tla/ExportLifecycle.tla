--------------------------- MODULE ExportLifecycle ---------------------------
(***************************************************************************)
(* What the subject of an export is promised about its status, as the      *)
(* status field of GET /privacy/exports/{id} shows it: a request waits or  *)
(* is answered at once, it is settled once, and a settled request only     *)
(* ever closes.  "processing" never shows.                                 *)
(***************************************************************************)
CONSTANT Exports

VARIABLE status

Closed == {"failed", "expired"}

\* The moves one export can make.
Moves == ({"absent"} \X {"pending", "ready"})
         \cup ({"pending"} \X {"ready", "failed"})
         \cup ({"ready"} \X Closed)
         \cup (Closed \X Closed)

Init == status = [e \in Exports |-> "absent"]

\* One commit may move several exports: a poll settles a whole batch.
Next ==
    /\ status' \in [Exports -> {"absent", "pending", "ready"} \cup Closed]
    /\ \A e \in Exports : status'[e] = status[e] \/ <<status[e], status'[e]>> \in Moves

Spec == Init /\ [][Next]_status
=============================================================================
