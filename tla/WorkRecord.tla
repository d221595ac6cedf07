----------------------------- MODULE WorkRecord -----------------------------
(***************************************************************************)
(* The work record (brain/coordination.py): units of delegated work in one *)
(* SQLite table that any number of workers, in any number of threads and   *)
(* processes, claim from and write back to.                                *)
(*                                                                         *)
(* Each function opens its own connection and commits when it returns, so  *)
(* an action is a transaction.  `claim` alone is two: its SELECT runs      *)
(* outside any transaction, and others write before its UPDATE takes the   *)
(* write lock.  An UPDATE that matches nothing keeps that lock, so the     *)
(* second pass of the loop cannot be raced.                                *)
(***************************************************************************)
EXTENDS Naturals, FiniteSets

CONSTANTS
  Workers,   \* the names workers claim under
  Briefs,    \* questions; two units with one brief are a second opinion
  Results,   \* the answers and error texts a worker can give
  Nothing,   \* the empty text: no owner, no result
  NoClaim,   \* a worker that is not between the two halves of `claim`
  MaxJobs,   \* bound: jobs ever posted
  MaxUnits   \* bound: units in one job

ASSUME BoundAssumption    == MaxJobs \in Nat /\ MaxUnits \in Nat
ASSUME SentinelAssumption ==
  Nothing \notin Results /\ Nothing \notin Workers /\ NoClaim \notin (1..MaxJobs) \X (1..MaxUnits)

Jobs    == 1..MaxJobs
Units   == Jobs \X (1..MaxUnits)
Texts   == Results \cup {Nothing}
Settled == {"done", "failed"}

Row == [state  : {"absent", "open", "held"} \cup Settled,
        brief  : Briefs \cup {Nothing},
        owner  : Workers \cup {Nothing},
        result : Texts]

NoRow == [state |-> "absent", brief |-> Nothing, owner |-> Nothing, result |-> Nothing]

VARIABLES
  rows,      \* the units table: unit <<job, seq>> -> its row
  call,      \* worker -> the unit its claim's SELECT returned
  handed,    \* history: worker -> the units `claim` has returned to it
  accepted   \* history: the answers `finish` returned True for

vars == <<rows, call, handed, accepted>>

Init ==
  /\ rows     = [u \in Units |-> NoRow]
  /\ call     = [w \in Workers |-> NoClaim]
  /\ handed   = [w \in Workers |-> {}]
  /\ accepted = {}

Open(j) == {u \in Units : u[1] = j /\ rows[u].state = "open"}

\* Variant: the ORDER BY dropped.
IsFirstUnordered(u) == u \in Open(u[1])

(* ORDER BY seq LIMIT 1 *)
IsFirst(u) == u \in Open(u[1]) /\ \A v \in Open(u[1]) : u[2] <= v[2]

-----------------------------------------------------------------------------
\* Variant: a job name used twice, and INSERT OR REPLACE wipes its units.
PostReplaces(j, n, b) ==
  /\ rows' = [u \in Units |-> IF u[1] = j /\ u[2] <= n
                              THEN [NoRow EXCEPT !.state = "open", !.brief = b[u[2]]]
                              ELSE rows[u]]
  /\ UNCHANGED <<call, handed, accepted>>

(* post: a job nobody has used, its n units in one transaction. *)
Post(j, n, b) ==
  /\ \A u \in Units : u[1] = j => rows[u].state = "absent"
  /\ rows' = [u \in Units |-> IF u[1] = j /\ u[2] <= n
                              THEN [NoRow EXCEPT !.state = "open", !.brief = b[u[2]]]
                              ELSE rows[u]]
  /\ UNCHANGED <<call, handed, accepted>>

(* claim, first half: the SELECT finds the first open unit of the job. *)
ClaimSelect(w, u) ==
  /\ call[w] = NoClaim
  /\ IsFirst(u)
  /\ call' = [call EXCEPT ![w] = u]
  /\ UNCHANGED <<rows, handed, accepted>>

(* The UPDATE lands on u and `claim` returns it to w. *)
Take(w, u) ==
  /\ rows'   = [rows EXCEPT ![u].state = "held", ![u].owner = w]
  /\ handed' = [handed EXCEPT ![w] = @ \cup {u}]
  /\ call'   = [call EXCEPT ![w] = NoClaim]
  /\ UNCHANGED accepted

\* Variant: the UPDATE without its AND state='open'.
ClaimWinsBlindly(w) ==
  /\ call[w] # NoClaim
  /\ Take(w, call[w])

(* claim, second half: the unit selected is still open. *)
ClaimWins(w) ==
  /\ call[w] # NoClaim
  /\ rows[call[w]].state = "open"
  /\ Take(w, call[w])

(* Somebody else took it first: with the write lock held, take the next. *)
ClaimNext(w, u) ==
  /\ call[w] # NoClaim
  /\ rows[call[w]].state # "open"
  /\ u[1] = call[w][1] /\ IsFirst(u)
  /\ Take(w, u)

(* claim returns None: nothing is left, the database raised, or the process *)
(* died before the commit.                                                  *)
ClaimNothing(w) ==
  /\ call[w] # NoClaim
  /\ call' = [call EXCEPT ![w] = NoClaim]
  /\ UNCHANGED <<rows, handed, accepted>>

\* Variant: the UPDATE without its AND state='held'.
FinishAgain(w, u, r) ==
  /\ rows[u].owner = w
  /\ rows'     = [rows EXCEPT ![u].state = "done", ![u].result = r]
  /\ accepted' = accepted \cup {[unit |-> u, by |-> w, result |-> r]}
  /\ UNCHANGED <<call, handed>>

(* finish: any worker may call it, for any unit; only the holder is heard. *)
Finish(w, u, r) ==
  /\ rows[u].state = "held" /\ rows[u].owner = w
  /\ rows'     = [rows EXCEPT ![u].state = "done", ![u].result = r]
  /\ accepted' = accepted \cup {[unit |-> u, by |-> w, result |-> r]}
  /\ UNCHANGED <<call, handed>>

\* Variant: the failure recorded under a state nothing else knows.
FailMisspelt(w, u, r) ==
  /\ rows[u].state = "held" /\ rows[u].owner = w
  /\ rows' = [rows EXCEPT ![u].state = "error", ![u].result = r]
  /\ UNCHANGED <<call, handed, accepted>>

(* fail: the same guard, the error in the result slot. *)
Fail(w, u, r) ==
  /\ rows[u].state = "held" /\ rows[u].owner = w
  /\ rows' = [rows EXCEPT ![u].state = "failed", ![u].result = r]
  /\ UNCHANGED <<call, handed, accepted>>

Next ==
  \/ \E j \in Jobs, n \in 1..MaxUnits : \E b \in [1..n -> Briefs] : Post(j, n, b)
  \/ \E w \in Workers, u \in Units : ClaimSelect(w, u) \/ ClaimNext(w, u)
  \/ \E w \in Workers : ClaimWins(w) \/ ClaimNothing(w)
  \/ \E w \in Workers, u \in Units, r \in Texts : Finish(w, u, r) \/ Fail(w, u, r)

Spec == Init /\ [][Next]_vars

-----------------------------------------------------------------------------
(* merge: a job's briefs, sorted by what their units came to. *)
Group(j, b)   == {u \in Units : u[1] = j /\ rows[u].state # "absent" /\ rows[u].brief = b}
\* Variant: only the first unit of a brief is asked, as if the rest agreed.
AnswersOfFirst(j, b) ==
  {rows[u].result : u \in {v \in Group(j, b) : /\ rows[v].state = "done"
                                              /\ \A x \in Group(j, b) : v[2] <= x[2]}} \ {Nothing}
Answers(j, b) == {rows[u].result : u \in {v \in Group(j, b) : rows[v].state = "done"}} \ {Nothing}
Conflicts(j)  == {b \in Briefs : \E r, s \in Answers(j, b) : r # s}
Missing(j)    == {b \in Briefs : /\ Group(j, b) # {} /\ Answers(j, b) = {}
                                 /\ \A u \in Group(j, b) : rows[u].state # "failed"}

-----------------------------------------------------------------------------
TypeOK ==
  /\ rows     \in [Units -> Row]
  /\ call     \in [Workers -> Units \cup {NoClaim}]
  /\ handed   \in [Workers -> SUBSET Units]
  /\ accepted \subseteq [unit : Units, by : Workers, result : Texts]

(* No unit is ever handed to two workers, however their claims interleave  *)
(* and whichever of them die: the docstring of claim().                    *)
HandedOnce ==
  \A v, w \in Workers : v # w => handed[v] \cap handed[w] = {}

(* The result slot belongs to the holder: every answer finish() accepted    *)
(* came from the worker that claim() handed the unit to, and nothing that   *)
(* happened later replaced it.                                              *)
AnswersStand ==
  \A a \in accepted : /\ a.unit \in handed[a.by]
                      /\ rows[a.unit].state = "done" /\ rows[a.unit].result = a.result

(* merge() never hides a disagreement: two accepted answers to one brief of *)
(* one job that differ leave that brief in the conflicts, for good.         *)
DisagreementSurfaces ==
  \A a, c \in accepted :
    /\ a.unit[1] = c.unit[1] /\ rows[a.unit].brief = rows[c.unit].brief
    /\ a.result # Nothing /\ c.result # Nothing /\ a.result # c.result
    => rows[a.unit].brief \in Conflicts(a.unit[1])

(* A brief that has been answered or has failed never goes back to "still   *)
(* outstanding": once merge() stops listing it as missing it stays off.     *)
NeverMissingAgain ==
  [][\A j \in Jobs, b \in Briefs :
       Group(j, b) # {} /\ b \notin Missing(j) => b \notin Missing(j)']_vars

(* The table is a ledger in which claiming is one indivisible step that     *)
(* always takes the first open unit, although the code selects and updates  *)
(* in two.                                                                  *)
Ledger == INSTANCE WorkLedger WITH
            state  <- [u \in Units |-> rows[u].state],
            owner  <- [u \in Units |-> rows[u].owner],
            result <- [u \in Units |-> rows[u].result]

ImplementsLedger == Ledger!Spec
=============================================================================
