-------------------------- MODULE RequestLifecycle --------------------------
(***************************************************************************)
(* The finite-state machine of one request, prism_infer/engine/request.py,  *)
(* and the promise the engine makes about all requests together: each moves *)
(* along the table of allowed transitions and ends in a terminal state.     *)
(* The scheduler is shown to implement this specification.                  *)
(***************************************************************************)
CONSTANT Requests

VARIABLE state   (* RequestLifecycle.state, or "new" before submission      *)

TerminalStates == {"finished", "cancelled", "rejected"}

LiveStates == {"waiting", "prefilling", "decoding", "swapped"}

\* _ALLOWED_TRANSITIONS, and the construction of the request in WAITING.
AllowedTransitions ==
  [new |-> {"waiting", "rejected"},
   waiting |-> {"prefilling", "cancelled", "rejected"},
   prefilling |-> {"decoding", "waiting", "cancelled", "finished"},
   decoding |-> {"swapped", "waiting", "finished", "cancelled"},
   swapped |-> {"decoding", "waiting", "cancelled"},
   finished |-> {},
   cancelled |-> {},
   rejected |-> {}]

\* RequestLifecycle.transition raises unless the target is the state itself or
\* an allowed successor of it.
MayMove(source, target) == target = source \/ target \in AllowedTransitions[source]

Init == state = [r \in Requests |-> "new"]

\* One engine operation may move several requests, each along one edge.
Next ==
  /\ DOMAIN state' = Requests
  /\ \A r \in Requests : MayMove(state[r], state'[r])
  /\ state' # state

SafeSpec == Init /\ [][Next]_state

Spec == SafeSpec /\ \A r \in Requests : <>[](state[r] \in TerminalStates \cup {"new"})
=============================================================================
