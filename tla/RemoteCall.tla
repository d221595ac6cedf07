----------------------------- MODULE RemoteCall -----------------------------
(***************************************************************************)
(* What the control link promises the tool that calls it, with no sockets  *)
(* in it: the caller is told one thing, once; the laptop does what it was  *)
(* asked at most once, perhaps after the caller has given up; an answer is *)
(* given only for what was done, and a call the brain says it did not make *)
(* is never done on the laptop.                                            *)
(***************************************************************************)
CONSTANTS
  Calls,    \* calls a tool makes
  Unmade,   \* what a caller is told when nothing reached the laptop
  Unsure    \* what a caller is told when the laptop may or may not have acted

VARIABLES
  told,     \* call -> what its caller has been told so far
  runs      \* call -> times the laptop has carried it out

Init == told = [c \in Calls |-> "nothing"] /\ runs = [c \in Calls |-> 0]

(* The laptop carries c out, while the caller waits or after it gave up. *)
Act(c) ==
  /\ told[c] \in {"nothing"} \cup Unsure
  /\ runs[c] = 0
  /\ runs' = [runs EXCEPT ![c] = 1]
  /\ UNCHANGED told

Answer(c) ==
  /\ told[c] = "nothing" /\ runs[c] = 1
  /\ told' = [told EXCEPT ![c] = "answer"]
  /\ UNCHANGED runs

GiveUp(c, why) ==
  /\ told[c] = "nothing"
  /\ why \in Unmade => runs[c] = 0
  /\ told' = [told EXCEPT ![c] = why]
  /\ UNCHANGED runs

Next == \E c \in Calls : Act(c) \/ Answer(c) \/ \E why \in Unmade \cup Unsure : GiveUp(c, why)

Spec == Init /\ [][Next]_<<told, runs>>
=============================================================================
