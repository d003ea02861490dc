---------------------------- MODULE DraftPromise ----------------------------
(***************************************************************************)
(* What one issue's fix loop promises the people who read its pull         *)
(* request and the night that reads its result, whatever happens inside:   *)
(*   - a pull request is born a draft, and only over something pushed;     *)
(*   - it becomes ready only while what fixowl last pushed is what its CI  *)
(*     gate last let through, and fixowl pushes nothing after that;        *)
(*   - it reports once, and reports "ready" only of a ready pull request.  *)
(***************************************************************************)
CONSTANT Nothing   \* nothing pushed, nothing let through

VARIABLES
  pull,     \* "none", "draft" or "ready"
  pushed,   \* what fixowl last pushed
  vetted,   \* what the CI gate last let through
  report    \* "running", then "ready", "draft" or "none"

vars == <<pull, pushed, vetted, report>>

Init ==
  /\ pull = "none"
  /\ pushed = Nothing
  /\ vetted = Nothing
  /\ report = "running"

(* The head moves to anything at all, until the pull request is ready.     *)
Publish ==
  /\ report = "running"
  /\ pull # "ready"
  /\ UNCHANGED <<pull, vetted, report>>

Open ==
  /\ report = "running"
  /\ pull = "none"
  /\ pushed # Nothing
  /\ pull' = "draft"
  /\ UNCHANGED <<pushed, vetted, report>>

Vet ==
  /\ report = "running"
  /\ pull = "draft"
  /\ vetted' = pushed
  /\ UNCHANGED <<pull, pushed, report>>

(* Flipping may be the last thing done, or something may still fail.       *)
Flip ==
  /\ report = "running"
  /\ pull = "draft"
  /\ vetted = pushed
  /\ pull' = "ready"
  /\ report' \in {"running", "ready"}
  /\ UNCHANGED <<pushed, vetted>>

Finish ==
  /\ report = "running"
  /\ report' \in {"ready", "draft", "none"}
  /\ report' = "ready" => pull = "ready"
  /\ report' = "draft" => pull # "none"
  /\ UNCHANGED <<pull, pushed, vetted>>

Next == Publish \/ Open \/ Vet \/ Flip \/ Finish

Spec == Init /\ [][Next]_vars
=============================================================================
