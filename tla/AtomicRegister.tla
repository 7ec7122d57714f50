--------------------------- MODULE AtomicRegister ---------------------------
(***************************************************************************)
(* What a settings file or a publication journal promises its callers: a   *)
(* set of updates that only grows, in which every update is one step, and  *)
(* an update is reported only when it is in.                               *)
(***************************************************************************)
CONSTANT Updates

VARIABLES value, reported

Init == value = {} /\ reported = {}

Apply(u) ==
  /\ u \notin value
  /\ value' = value \cup {u}
  /\ UNCHANGED reported

Report(u) ==
  /\ u \in value
  /\ reported' = reported \cup {u}
  /\ UNCHANGED value

Next == \E u \in Updates : Apply(u) \/ Report(u)

Spec == Init /\ [][Next]_<<value, reported>>
=============================================================================
