--------------------------- MODULE SandboxPromise ---------------------------
(***************************************************************************)
(* What a client of the sandbox API may rely on, as a graph on the public  *)
(* labels: which label can follow which.  A running sandbox stops only     *)
(* through stopping, archives only from stopped, comes back only through   *)
(* starting; error is left again only toward a label that is on its way    *)
(* somewhere; destroyed is the end, except that a direct destroy whose     *)
(* metering failed is retried through destroying, and that the record may  *)
(* be purged.                                                              *)
(***************************************************************************)
CONSTANT Sandboxes
VARIABLE label

Follows ==
  [absent     |-> {"creating"},
   creating   |-> {"started", "error", "destroying", "destroyed"},
   started    |-> {"stopping", "error", "destroying", "destroyed"},
   stopping   |-> {"stopped", "error", "destroying", "destroyed"},
   stopped    |-> {"archiving", "starting", "destroying", "destroyed"},
   archiving  |-> {"archived", "error", "destroying", "destroyed"},
   archived   |-> {"starting", "destroying", "destroyed"},
   starting   |-> {"started", "error", "destroying", "destroyed"},
   error      |-> {"starting", "stopping", "archiving", "destroying", "destroyed"},
   destroying |-> {"destroyed", "error"},
   destroyed  |-> {"destroying", "purged"},
   purged     |-> {}]

Init == label = [s \in Sandboxes |-> "absent"]

Move(s, to) ==
  /\ to \in Follows[label[s]]
  /\ label' = [label EXCEPT ![s] = to]

Next == \E s \in Sandboxes : \E to \in Follows[label[s]] : Move(s, to)

Spec == Init /\ [][Next]_label
=============================================================================
