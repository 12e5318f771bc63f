------------------------------- MODULE Labels -------------------------------
(***************************************************************************)
(* Capability labels and the requirements a task puts on them              *)
(* (dtest/src/jobs.cpp, labels_satisfy).  The text "kvm=true" is the       *)
(* record [key |-> "kvm", value |-> "true"]; a text without '=' has the    *)
(* value NoValue.                                                          *)
(***************************************************************************)

NoValue == ""

Label(k, v) == [key |-> k, value |-> v]

(* "key=value" must be present literally; a bare "key" is met by the bare  *)
(* label and by the key with any value.                                    *)
Meets(l, req) ==
  IF req.value # NoValue THEN l = req ELSE l.key = req.key

labels_satisfy(agent_labels, needs) ==
  \A req \in needs : \E l \in agent_labels : Meets(l, req)
=============================================================================
