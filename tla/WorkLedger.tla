----------------------------- MODULE WorkLedger -----------------------------
(***************************************************************************)
(* What the record of delegated work promises, with no database in it:     *)
(* a job's units are posted together, the lowest-numbered open unit is     *)
(* taken by one worker in one step, and only that worker settles it, once. *)
(***************************************************************************)
EXTENDS Naturals

CONSTANTS
  Workers,   \* the names workers claim under
  Results,   \* the answers and error texts a worker can give
  Nothing,   \* the empty text: no owner, no result
  MaxJobs,   \* bound: jobs ever posted
  MaxUnits   \* bound: units in one job

Jobs  == 1..MaxJobs
Units == Jobs \X (1..MaxUnits)

VARIABLES
  state,    \* unit -> where it stands in its life
  owner,    \* unit -> who took it
  result    \* unit -> what it came to

ledger == <<state, owner, result>>

Init ==
  /\ state  = [u \in Units |-> "absent"]
  /\ owner  = [u \in Units |-> Nothing]
  /\ result = [u \in Units |-> Nothing]

(* A job nobody has posted yet gets its first n units, all open. *)
Post(j, n) ==
  /\ \A u \in Units : u[1] = j => state[u] = "absent"
  /\ state' = [u \in Units |-> IF u[1] = j /\ u[2] <= n THEN "open" ELSE state[u]]
  /\ UNCHANGED <<owner, result>>

(* Worker w takes u, the first open unit of its job. *)
Take(w, u) ==
  /\ state[u] = "open"
  /\ \A v \in Units : v[1] = u[1] /\ state[v] = "open" => u[2] <= v[2]
  /\ state' = [state EXCEPT ![u] = "held"]
  /\ owner' = [owner EXCEPT ![u] = w]
  /\ UNCHANGED result

(* The worker that took u writes what it came to. *)
Settle(w, u, s, r) ==
  /\ state[u] = "held" /\ owner[u] = w
  /\ state'  = [state EXCEPT ![u] = s]
  /\ result' = [result EXCEPT ![u] = r]
  /\ UNCHANGED owner

Next ==
  \/ \E j \in Jobs, n \in 1..MaxUnits : Post(j, n)
  \/ \E w \in Workers, u \in Units : Take(w, u)
  \/ \E w \in Workers, u \in Units, s \in {"done", "failed"}, r \in Results \cup {Nothing} :
        Settle(w, u, s, r)

Spec == Init /\ [][Next]_ledger
=============================================================================
