--------------------------- MODULE RequestService ---------------------------
(***************************************************************************)
(* What handler isolation promises for every dispatched request, whichever *)
(* broker serves it (docs/beyond-php/web.md, "Request isolation"):         *)
(*   - its handler is begun at most once and never resumed,                *)
(*   - at most Concurrency handlers run at a time,                         *)
(*   - a client sees a complete response only from a handler that finished *)
(*     and a broken one only when no handler will ever finish it.          *)
(* Several requests may move in one step (a process exit ends them all).   *)
(***************************************************************************)
EXTENDS Naturals, FiniteSets

CONSTANTS Requests, Limit

VARIABLES status,    \* what became of the request on the handler's side
          answer     \* what its client was told

Init ==
    /\ status = [r \in Requests |-> "idle"]
    /\ answer = [r \in Requests |-> "none"]

StatusStep(r) ==
    \/ status'[r] = status[r]
    \/ status[r] = "idle"    /\ status'[r] \in {"queued", "dropped"}
    \/ status[r] = "queued"  /\ status'[r] \in {"running", "dropped"}
    \/ status[r] = "running" /\ status'[r] \in {"finished", "dropped"}

AnswerStep(r) ==
    \/ answer'[r] = answer[r]
    \/ /\ answer[r] = "none"
       /\ \/ answer'[r] = "complete" /\ status[r] = "finished"
          \/ answer'[r] = "broken"   /\ status'[r] = "dropped"
          \/ answer'[r] = "left"

Running == {r \in Requests : status[r] = "running"}

Next ==
    /\ \A r \in Requests : StatusStep(r) /\ AnswerStep(r)
    /\ Cardinality(Running') <= Limit

Spec == Init /\ [][Next]_<<status, answer>>
=============================================================================
