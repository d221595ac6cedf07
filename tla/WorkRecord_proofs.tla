------------------------- MODULE WorkRecord_proofs -------------------------
(***************************************************************************)
(* Proofs about the work record, for every set of workers, briefs and      *)
(* answers and for any number of jobs and units: that no unit is handed to *)
(* two workers, that no accepted answer is lost or hidden by merge, and    *)
(* that the two-statement claim implements a one-step take.                *)
(***************************************************************************)
EXTENDS WorkRecord, TLAPS

\* What claim() told each worker and what the table says are one thing.
Owned ==
  \A u \in Units, w \in Workers :
    u \in handed[w] <=> rows[u].state \in {"held"} \cup Settled /\ rows[u].owner = w

\* A unit on the record carries a real brief, and one that is not is blank.
Briefed ==
  \A u \in Units : IF rows[u].state = "absent"
                   THEN rows[u].owner = Nothing /\ rows[u].result = Nothing
                   ELSE rows[u].brief \in Briefs

\* What a SELECT returned is on the record, and while it is still open no
\* open unit of its job comes before it.
Selected ==
  \A w \in Workers : call[w] # NoClaim =>
    /\ rows[call[w]].state # "absent"
    /\ rows[call[w]].state = "open" => IsFirst(call[w])

\* The strengthening all the results rest on.
IInv == TypeOK /\ Owned /\ AnswersStand /\ Briefed /\ Selected

\* The empty table satisfies the strengthened invariant.
LEMMA InitIInv == Init => IInv
  <1> SUFFICES ASSUME Init PROVE IInv
    OBVIOUS
  <1>1. TypeOK
    BY DEF Init, TypeOK, NoRow, Row, Texts
  <1>2. Owned /\ Briefed
    BY DEF Init, Owned, Briefed, NoRow, Settled
  <1>3. AnswersStand /\ Selected
    BY DEF Init, AnswersStand, Selected
  <1> QED BY <1>1, <1>2, <1>3 DEF IInv

\* An update that takes one unit out of the open ones and opens none leaves
\* every SELECT result first among what is still open.
LEMMA SelectedSurvives ==
  ASSUME IInv, call' \in [Workers -> Units \cup {NoClaim}],
         \A w \in Workers : call'[w] # NoClaim => call'[w] = call[w],
         \A v \in Units : rows'[v].state = "open" => rows[v].state = "open",
         \A v \in Units : rows'[v].state = "absent" => rows[v].state = "absent"
  PROVE  Selected'
  <1> SUFFICES ASSUME NEW w \in Workers, call'[w] # NoClaim
               PROVE  /\ rows'[call'[w]].state # "absent"
                      /\ rows'[call'[w]].state = "open" => IsFirst(call[w])'
    BY DEF Selected
  <1>1. /\ call'[w] = call[w] /\ call[w] \in Units
        /\ rows[call[w]].state # "absent"
        /\ rows[call[w]].state = "open" => IsFirst(call[w])
    BY DEF IInv, Selected, TypeOK
  <1>2. rows'[call[w]].state = "open" => IsFirst(call[w])'
    BY <1>1 DEF IsFirst, Open
  <1> QED BY <1>1, <1>2

\* Taking an open unit keeps the strengthened invariant.
LEMMA TakeIInv ==
  ASSUME IInv, NEW w \in Workers, NEW u \in Units, rows[u].state = "open", Take(w, u)
  PROVE  IInv'
  <1>1. /\ rows' = [rows EXCEPT ![u].state = "held", ![u].owner = w]
        /\ handed' = [handed EXCEPT ![w] = @ \cup {u}]
        /\ call' = [call EXCEPT ![w] = NoClaim] /\ accepted' = accepted
    BY DEF Take
  <1>2. TypeOK
    BY DEF IInv
  <1>3. /\ \A v \in Units : v # u => rows'[v] = rows[v]
        /\ rows'[u] = [rows[u] EXCEPT !.state = "held", !.owner = w]
        /\ rows[u] \in Row
    BY <1>1, <1>2 DEF TypeOK
  <1>4. TypeOK'
    <2>1. rows'[u] \in Row
      BY <1>3 DEF Row
    <2> QED BY <1>1, <1>2, <1>3, <2>1 DEF TypeOK
  <1>5. Owned'
    <2> SUFFICES ASSUME NEW v \in Units, NEW x \in Workers
                 PROVE  v \in handed'[x] <=> /\ rows'[v].state \in {"held"} \cup Settled
                                             /\ rows'[v].owner = x
      BY DEF Owned
    <2>1. v \in handed[x] <=> /\ rows[v].state \in {"held"} \cup Settled
                              /\ rows[v].owner = x
      BY DEF IInv, Owned
    <2>2. CASE v = u
      BY <2>1, <2>2, <1>1, <1>2, <1>3 DEF Row, Settled, TypeOK
    <2>3. CASE v # u
      BY <2>1, <2>3, <1>1, <1>2, <1>3 DEF TypeOK
    <2> QED BY <2>2, <2>3
  <1>6. AnswersStand'
    BY <1>1, <1>2, <1>3 DEF IInv, AnswersStand, TypeOK
  <1>7. Briefed'
    BY <1>3 DEF IInv, Briefed, Row
  <1>8. Selected'
    <2>1. rows'[u].state = "held"
      BY <1>3 DEF Row
    <2>2. call' \in [Workers -> Units \cup {NoClaim}]
      BY <1>4 DEF TypeOK
    <2>3. \A x \in Workers : call'[x] # NoClaim => call'[x] = call[x]
      BY <1>1, <1>2 DEF TypeOK
    <2> QED BY <2>1, <2>2, <2>3, <1>3, SelectedSurvives
  <1> QED BY <1>4, <1>5, <1>6, <1>7, <1>8 DEF IInv

\* The row q with a state and a result written into it.
Written(q, s, r) == [q EXCEPT !.state = s, !.result = r]

\* Writing a state and a result changes those two columns only.
LEMMA SettledRow ==
  ASSUME NEW q \in Row, NEW s \in Settled, NEW r \in Texts
  PROVE  /\ Written(q, s, r) \in Row
         /\ Written(q, s, r).state = s /\ Written(q, s, r).result = r
         /\ Written(q, s, r).owner = q.owner /\ Written(q, s, r).brief = q.brief
  BY DEF Row, Settled, Written

\* Settling a held unit keeps the strengthened invariant, whatever finish()
\* then remembers of it.
LEMMA SettleIInv ==
  ASSUME IInv, NEW w \in Workers, NEW u \in Units, NEW s \in Settled, NEW r \in Texts,
         rows[u].state = "held", rows[u].owner = w,
         rows' = [rows EXCEPT ![u].state = s, ![u].result = r],
         UNCHANGED <<call, handed>>,
         \/ accepted' = accepted
         \/ s = "done" /\ accepted' = accepted \cup {[unit |-> u, by |-> w, result |-> r]}
  PROVE  IInv'
  <1>2. TypeOK
    BY DEF IInv
  <1>3. /\ \A v \in Units : v # u => rows'[v] = rows[v]
        /\ rows'[u] = [rows[u] EXCEPT !.state = s, !.result = r]
        /\ rows[u] \in Row
    BY <1>2 DEF TypeOK
  <1>32. /\ rows'[u] \in Row /\ rows'[u].state = s /\ rows'[u].result = r
         /\ rows'[u].owner = w /\ rows'[u].brief = rows[u].brief
    <2>1. rows'[u] = Written(rows[u], s, r) /\ rows[u] \in Row
      BY <1>3 DEF Written
    <2>2. /\ rows'[u] \in Row /\ rows'[u].state = s /\ rows'[u].result = r
          /\ rows'[u].owner = rows[u].owner /\ rows'[u].brief = rows[u].brief
      BY <2>1, SettledRow
    <2> QED BY <2>2
  <1>4. TypeOK'
    <2>3. rows' \in [Units -> Row]
      BY <1>2, <1>32 DEF TypeOK
    <2>4. accepted' \subseteq [unit : Units, by : Workers, result : Texts]
      BY <1>2 DEF TypeOK
    <2> QED BY <1>2, <2>3, <2>4 DEF TypeOK
  <1>5. Owned'
    <2> SUFFICES ASSUME NEW v \in Units, NEW x \in Workers
                 PROVE  v \in handed[x] <=> /\ rows'[v].state \in {"held"} \cup Settled
                                            /\ rows'[v].owner = x
      BY DEF Owned
    <2>1. v \in handed[x] <=> /\ rows[v].state \in {"held"} \cup Settled
                              /\ rows[v].owner = x
      BY DEF IInv, Owned
    <2>2. CASE v = u
      BY <2>1, <2>2, <1>32
    <2>3. CASE v # u
      BY <2>1, <2>3, <1>3
    <2> QED BY <2>2, <2>3
  <1>6. AnswersStand'
    <2> SUFFICES ASSUME NEW a \in accepted'
                 PROVE  /\ a.unit \in handed[a.by]
                        /\ rows'[a.unit].state = "done" /\ rows'[a.unit].result = a.result
      BY DEF AnswersStand
    <2>1. CASE a \in accepted
      <3>1. /\ a.unit \in handed[a.by] /\ a.unit \in Units
            /\ rows[a.unit].state = "done" /\ rows[a.unit].result = a.result
        BY <2>1, <1>2 DEF IInv, AnswersStand, TypeOK
      <3>2. a.unit # u
        BY <3>1
      <3> QED BY <3>1, <3>2, <1>3
    <2>2. CASE a \notin accepted
      <3>1. s = "done" /\ a = [unit |-> u, by |-> w, result |-> r]
        BY <2>2
      <3>2. u \in handed[w]
        BY DEF IInv, Owned
      <3> QED BY <3>1, <3>2, <1>32
    <2> QED BY <2>1, <2>2
  <1>7. Briefed'
    <2> SUFFICES ASSUME NEW v \in Units
                 PROVE  IF rows'[v].state = "absent"
                        THEN rows'[v].owner = Nothing /\ rows'[v].result = Nothing
                        ELSE rows'[v].brief \in Briefs
      BY DEF Briefed
    <2>1. CASE v = u
      BY <2>1, <1>32 DEF IInv, Briefed, Settled
    <2>2. CASE v # u
      BY <2>2, <1>3 DEF IInv, Briefed
    <2> QED BY <2>1, <2>2
  <1>8. Selected'
    <2>1. /\ call' \in [Workers -> Units \cup {NoClaim}] /\ call' = call
          /\ rows'[u].state # "open" /\ rows'[u].state # "absent"
      BY <1>2, <1>32 DEF TypeOK, Settled
    <2> QED BY <2>1, <1>3, SelectedSurvives
  <1> QED BY <1>4, <1>5, <1>6, <1>7, <1>8 DEF IInv

\* The row Post inserts is open, carries its briefing and is well typed.
LEMMA OpenedRow ==
  ASSUME NEW q \in Briefs, NEW r, r = [NoRow EXCEPT !.state = "open", !.brief = q]
  PROVE  r.state = "open" /\ r.brief \in Briefs /\ r \in Row
  <1>1. NoRow \in Row
    BY DEF NoRow, Row, Texts
  <1>2. ASSUME NEW s \in Row
        PROVE  LET t == [s EXCEPT !.state = "open", !.brief = q]
               IN  t.state = "open" /\ t.brief = q /\ t \in Row
    BY DEF Row
  <1> QED BY <1>1, <1>2

\* Posting a job nobody used keeps the strengthened invariant: no SELECT can
\* have returned a unit of it.
LEMMA PostIInv ==
  ASSUME IInv, NEW j \in Jobs, NEW n \in 1..MaxUnits, NEW b \in [1..n -> Briefs],
         Post(j, n, b)
  PROVE  IInv'
  <1> DEFINE New == {u \in Units : u[1] = j /\ u[2] <= n}
  <1>2. TypeOK /\ UNCHANGED <<call, handed, accepted>>
    BY DEF IInv, Post
  <1>3. /\ \A v \in Units \ New : rows'[v] = rows[v]
        /\ \A v \in New : rows'[v] = [NoRow EXCEPT !.state = "open", !.brief = b[v[2]]]
        /\ \A v \in Units : v[1] = j => rows[v].state = "absent"
    BY DEF Post
  <1>4. \A v \in New : /\ rows'[v].state = "open" /\ rows'[v].brief \in Briefs
                       /\ rows'[v] \in Row /\ rows[v].state = "absent"
    <2> SUFFICES ASSUME NEW v \in New
                 PROVE  /\ rows'[v].state = "open" /\ rows'[v].brief \in Briefs
                        /\ rows'[v] \in Row /\ rows[v].state = "absent"
      OBVIOUS
    <2>1. v[2] \in 1..n
      BY BoundAssumption DEF Units
    <2>2. b[v[2]] \in Briefs
      BY <2>1
    <2>3. rows[v].state = "absent"
      BY <1>3
    <2>4. rows'[v] = [NoRow EXCEPT !.state = "open", !.brief = b[v[2]]]
      BY <1>3
    <2> HIDE DEF New
    <2>5. rows'[v].state = "open" /\ rows'[v].brief \in Briefs /\ rows'[v] \in Row
      BY <2>2, <2>4, OpenedRow
    <2> QED BY <2>3, <2>5
  <1>5. TypeOK'
    <2>1. rows' \in [Units -> Row]
      <3>1. DOMAIN rows' = Units /\ rows' = [v \in Units |-> rows'[v]]
        BY DEF Post
      <3>2. ASSUME NEW v \in Units PROVE rows'[v] \in Row
        <4>1. CASE v \in New
          BY <4>1, <1>4
        <4>2. CASE v \in Units \ New
          <5>1. rows'[v] = rows[v]
            BY <4>2, <1>3
          <5>2. rows[v] \in Row
            BY <1>2 DEF TypeOK
          <5> QED BY <5>1, <5>2
        <4> QED BY <4>1, <4>2
      <3> QED BY <3>1, <3>2
    <2> QED BY <2>1, <1>2 DEF TypeOK
  <1>6. Owned'
    <2> SUFFICES ASSUME NEW v \in Units, NEW x \in Workers
                 PROVE  v \in handed[x] <=> /\ rows'[v].state \in {"held"} \cup Settled
                                            /\ rows'[v].owner = x
      BY <1>2 DEF Owned
    <2>1. v \in handed[x] <=> /\ rows[v].state \in {"held"} \cup Settled
                              /\ rows[v].owner = x
      BY DEF IInv, Owned
    <2>2. CASE v \in New
      BY <2>1, <2>2, <1>4 DEF Settled
    <2>3. CASE v \notin New
      BY <2>1, <2>3, <1>3
    <2> QED BY <2>2, <2>3
  <1>7. AnswersStand'
    <2>1. ASSUME NEW a \in accepted PROVE a.unit \in Units \ New
      <3>1. a.unit \in Units /\ rows[a.unit].state = "done"
        BY <1>2 DEF IInv, AnswersStand, TypeOK
      <3> QED BY <3>1, <1>4
    <2> QED BY <2>1, <1>2, <1>3 DEF IInv, AnswersStand
  <1>8. Briefed'
    <2> SUFFICES ASSUME NEW v \in Units
                 PROVE  IF rows'[v].state = "absent"
                        THEN rows'[v].owner = Nothing /\ rows'[v].result = Nothing
                        ELSE rows'[v].brief \in Briefs
      BY DEF Briefed
    <2>1. CASE v \in New
      BY <2>1, <1>4
    <2>2. CASE v \in Units \ New
      BY <2>2, <1>3 DEF IInv, Briefed
    <2> QED BY <2>1, <2>2
  <1>9. Selected'
    <2> SUFFICES ASSUME NEW w \in Workers, call[w] # NoClaim
                 PROVE  /\ rows'[call[w]].state # "absent"
                        /\ rows'[call[w]].state = "open" => IsFirst(call[w])'
      BY <1>2 DEF Selected
    <2>1. /\ call[w] \in Units /\ rows[call[w]].state # "absent"
          /\ rows[call[w]].state = "open" => IsFirst(call[w])
      BY <1>2 DEF IInv, Selected, TypeOK
    <2>2. \A v \in Units : v[1] = call[w][1] => rows'[v] = rows[v]
      BY <2>1, <1>3
    <2>3. IsFirst(call[w]) => IsFirst(call[w])'
      BY <2>1, <2>2, <1>2 DEF IsFirst, Open
    <2> QED BY <2>1, <2>2, <2>3
  <1> QED BY <1>5, <1>6, <1>7, <1>8, <1>9 DEF IInv

\* Every step keeps the strengthened invariant.
LEMMA StepIInv == IInv /\ [Next]_vars => IInv'
  <1> SUFFICES ASSUME IInv, [Next]_vars PROVE IInv'
    OBVIOUS
  <1>0. TypeOK
    BY DEF IInv
  <1>1. ASSUME NEW j \in Jobs, NEW n \in 1..MaxUnits, NEW b \in [1..n -> Briefs],
               Post(j, n, b)
        PROVE  IInv'
    BY <1>1, PostIInv
  <1>2. ASSUME NEW w \in Workers, NEW u \in Units, ClaimSelect(w, u) PROVE IInv'
    <2>1. /\ call' = [call EXCEPT ![w] = u] /\ IsFirst(u) /\ rows[u].state = "open"
          /\ UNCHANGED <<rows, handed, accepted>>
      BY <1>2 DEF ClaimSelect, IsFirst, Open
    <2>2. TypeOK' /\ Owned' /\ AnswersStand' /\ Briefed'
      BY <2>1, <1>0 DEF IInv, TypeOK, Owned, AnswersStand, Briefed
    <2>3. Selected'
      <3> SUFFICES ASSUME NEW x \in Workers, call'[x] # NoClaim
                   PROVE  /\ rows[call'[x]].state # "absent"
                          /\ rows[call'[x]].state = "open" => IsFirst(call'[x])
        BY <2>1 DEF Selected, IsFirst, Open
      <3>1. call'[x] = IF x = w THEN u ELSE call[x]
        BY <2>1, <1>0 DEF TypeOK
      <3> QED BY <3>1, <2>1 DEF IInv, Selected
    <2> QED BY <2>2, <2>3 DEF IInv
  <1>3. ASSUME NEW w \in Workers, NEW u \in Units, ClaimNext(w, u) PROVE IInv'
    BY <1>3, TakeIInv DEF ClaimNext, IsFirst, Open
  <1>4. ASSUME NEW w \in Workers, ClaimWins(w) PROVE IInv'
    <2>1. call[w] \in Units
      BY <1>4, <1>0 DEF ClaimWins, TypeOK
    <2> QED BY <2>1, <1>4, TakeIInv DEF ClaimWins
  <1>5. ASSUME NEW w \in Workers, ClaimNothing(w) PROVE IInv'
    <2>1. call' = [call EXCEPT ![w] = NoClaim] /\ UNCHANGED <<rows, handed, accepted>>
      BY <1>5 DEF ClaimNothing
    <2>2. TypeOK' /\ Owned' /\ AnswersStand' /\ Briefed'
      BY <2>1, <1>0 DEF IInv, TypeOK, Owned, AnswersStand, Briefed
    <2>3. Selected'
      <3>1. \A x \in Workers : call'[x] # NoClaim => call'[x] = call[x]
        BY <2>1, <1>0 DEF TypeOK
      <3>2. call' \in [Workers -> Units \cup {NoClaim}]
        BY <2>2 DEF TypeOK
      <3> QED BY <3>1, <3>2, <2>1, SelectedSurvives
    <2> QED BY <2>2, <2>3 DEF IInv
  <1>6. ASSUME NEW w \in Workers, NEW u \in Units, NEW r \in Texts, Finish(w, u, r)
        PROVE  IInv'
    <2>1. "done" \in Settled
      BY DEF Settled
    <2> QED BY <2>1, <1>6, SettleIInv DEF Finish
  <1>7. ASSUME NEW w \in Workers, NEW u \in Units, NEW r \in Texts, Fail(w, u, r)
        PROVE  IInv'
    <2>1. "failed" \in Settled
      BY DEF Settled
    <2> QED BY <2>1, <1>7, SettleIInv DEF Fail
  <1>8. CASE UNCHANGED vars
    BY <1>8 DEF vars, IInv, TypeOK, Owned, AnswersStand, Briefed, Selected, IsFirst, Open
  <1> QED BY <1>1, <1>2, <1>3, <1>4, <1>5, <1>6, <1>7, <1>8 DEF Next

\* The strengthened invariant holds throughout every behaviour.
THEOREM RecordInvariant == Spec => []IInv
  <1> QED BY InitIInv, StepIInv, PTL DEF Spec

\* Every behaviour is well typed.
THEOREM RecordTypeCorrect == Spec => []TypeOK
  <1>1. IInv => TypeOK
    BY DEF IInv
  <1> QED BY RecordInvariant, <1>1, PTL

\* No unit is handed to two workers, however their claims interleave.
THEOREM RecordHandedOnce == Spec => []HandedOnce
  <1>1. IInv => HandedOnce
    <2> SUFFICES ASSUME IInv, NEW v \in Workers, NEW w \in Workers, v # w,
                        NEW u \in handed[v], u \in handed[w]
                 PROVE  FALSE
      BY DEF HandedOnce
    <2>1. u \in Units
      BY DEF IInv, TypeOK
    <2> QED BY <2>1 DEF IInv, Owned
  <1> QED BY RecordInvariant, <1>1, PTL

\* An accepted answer came from the holder and is never replaced.
THEOREM RecordAnswersStand == Spec => []AnswersStand
  <1>1. IInv => AnswersStand
    BY DEF IInv
  <1> QED BY RecordInvariant, <1>1, PTL

\* What merge() sees of an accepted answer: the text is among the answers to
\* the unit's brief.
LEMMA AcceptedIsMerged ==
  ASSUME IInv, NEW a \in accepted, a.result # Nothing
  PROVE  /\ a.unit \in Units /\ rows[a.unit].brief \in Briefs
         /\ a.result \in Answers(a.unit[1], rows[a.unit].brief)
  <1>1. /\ a.unit \in Units /\ a.result \in Texts
        /\ rows[a.unit].state = "done" /\ rows[a.unit].result = a.result
    BY DEF IInv, TypeOK, AnswersStand
  <1>2. rows[a.unit].brief \in Briefs
    BY <1>1 DEF IInv, Briefed
  <1>3. a.unit \in Group(a.unit[1], rows[a.unit].brief)
    BY <1>1 DEF Group
  <1> QED BY <1>1, <1>2, <1>3 DEF Answers

\* Two accepted answers that differ are always reported as a conflict.
THEOREM RecordDisagreementSurfaces == Spec => []DisagreementSurfaces
  <1>1. IInv => DisagreementSurfaces
    <2> SUFFICES ASSUME IInv, NEW a \in accepted, NEW c \in accepted,
                        a.unit[1] = c.unit[1], rows[a.unit].brief = rows[c.unit].brief,
                        a.result # Nothing, c.result # Nothing, a.result # c.result
                 PROVE  rows[a.unit].brief \in Conflicts(a.unit[1])
      BY DEF DisagreementSurfaces
    <2>1. /\ rows[a.unit].brief \in Briefs
          /\ a.result \in Answers(a.unit[1], rows[a.unit].brief)
          /\ c.result \in Answers(a.unit[1], rows[a.unit].brief)
      BY AcceptedIsMerged
    <2> QED BY <2>1 DEF Conflicts
  <1> QED BY RecordInvariant, <1>1, PTL

\* A step that keeps a job's briefs and its settled rows keeps what merge()
\* no longer lists as missing.
LEMMA MissingStaysOff ==
  ASSUME NEW j \in Jobs, NEW b \in Briefs, Group(j, b) # {}, b \notin Missing(j),
         \A v \in Units : v[1] = j =>
           /\ rows'[v].brief = rows[v].brief
           /\ rows'[v].state = "absent" => rows[v].state = "absent"
           /\ rows[v].state \in Settled => rows'[v] = rows[v]
  PROVE  b \notin Missing(j)'
  <1>1. CASE Answers(j, b) # {}
    <2>1. PICK u \in Units : /\ u[1] = j /\ rows[u].brief = b
                             /\ rows[u].state = "done" /\ rows[u].result # Nothing
      BY <1>1 DEF Answers, Group
    <2>2. rows'[u] = rows[u]
      BY <2>1 DEF Settled
    <2>3. u \in Group(j, b)'
      BY <2>1, <2>2 DEF Group
    <2>4. rows[u].result \in Answers(j, b)'
      BY <2>1, <2>2, <2>3 DEF Answers
    <2> QED BY <2>4 DEF Missing
  <1>2. CASE Answers(j, b) = {}
    <2>1. PICK u \in Group(j, b) : rows[u].state = "failed"
      BY <1>2 DEF Missing
    <2>2. u \in Units /\ u[1] = j /\ rows'[u] = rows[u]
      BY <2>1 DEF Group, Settled
    <2>3. u \in Group(j, b)' /\ rows'[u].state = "failed"
      BY <2>1, <2>2 DEF Group
    <2> QED BY <2>3 DEF Missing
  <1> QED BY <1>1, <1>2

\* Writing to one unsettled unit keeps every job's briefs and settled rows.
LEMMA OneRowWritten ==
  ASSUME IInv, NEW u \in Units, rows[u].state \notin Settled,
         \A v \in Units : v # u => rows'[v] = rows[v],
         rows'[u].brief = rows[u].brief, rows'[u].state # "absent",
         NEW j \in Jobs, NEW b \in Briefs, Group(j, b) # {}, b \notin Missing(j)
  PROVE  b \notin Missing(j)'
  <1>1. ASSUME NEW v \in Units
        PROVE  /\ rows'[v].brief = rows[v].brief
               /\ rows'[v].state = "absent" => rows[v].state = "absent"
               /\ rows[v].state \in Settled => rows'[v] = rows[v]
    BY <1>1
  <1> QED BY <1>1, MissingStaysOff

\* What merge() stopped listing as missing never comes back as missing.
THEOREM RecordNeverMissingAgain == Spec => NeverMissingAgain
  <1> DEFINE Stays == \A j \in Jobs, b \in Briefs :
                        Group(j, b) # {} /\ b \notin Missing(j) => b \notin Missing(j)'
  <1>1. IInv /\ [Next]_vars => [Stays]_vars
    <2> SUFFICES ASSUME IInv, Next, NEW j \in Jobs, NEW b \in Briefs,
                        Group(j, b) # {}, b \notin Missing(j)
                 PROVE  b \notin Missing(j)'
      OBVIOUS
    <2>0. TypeOK
      BY DEF IInv
    <2>1. ASSUME NEW w \in Workers, NEW u \in Units, rows[u].state = "open", Take(w, u)
          PROVE  b \notin Missing(j)'
      <3>1. rows' = [rows EXCEPT ![u].state = "held", ![u].owner = w] /\ rows[u] \in Row
        BY <2>1, <2>0 DEF Take, TypeOK
      <3>2. /\ \A v \in Units : v # u => rows'[v] = rows[v]
            /\ rows'[u].brief = rows[u].brief /\ rows'[u].state = "held"
        BY <3>1, <2>0 DEF TypeOK, Row
      <3>3. rows[u].state \notin Settled
        BY <2>1 DEF Settled
      <3> QED BY <3>2, <3>3, OneRowWritten
    <2>2. ASSUME NEW w \in Workers, NEW u \in Units, NEW r \in Texts, NEW s \in Settled,
                 rows[u].state = "held",
                 rows' = [rows EXCEPT ![u].state = s, ![u].result = r]
          PROVE  b \notin Missing(j)'
      <3>1. /\ \A v \in Units : v # u => rows'[v] = rows[v]
            /\ rows'[u] = Written(rows[u], s, r) /\ rows[u] \in Row
        BY <2>2, <2>0 DEF TypeOK, Written
      <3>2. rows'[u].brief = rows[u].brief /\ rows'[u].state # "absent"
        BY <3>1, SettledRow DEF Settled
      <3>3. rows[u].state \notin Settled
        BY <2>2 DEF Settled
      <3> QED BY <3>1, <3>2, <3>3, OneRowWritten
    <2>3. ASSUME NEW i \in Jobs, NEW n \in 1..MaxUnits, NEW q \in [1..n -> Briefs],
                 Post(i, n, q)
          PROVE  b \notin Missing(j)'
      <3>1. i # j
        BY <2>3 DEF Post, Group
      <3>2. \A v \in Units : v[1] = j => rows'[v] = rows[v]
        BY <3>1, <2>3 DEF Post
      <3> QED BY <3>2, MissingStaysOff
    <2>4. ASSUME rows' = rows PROVE b \notin Missing(j)'
      BY <2>4, MissingStaysOff
    <2>5. ASSUME NEW w \in Workers, ClaimWins(w) PROVE b \notin Missing(j)'
      <3>1. PICK u \in Units : u = call[w] /\ rows[u].state = "open" /\ Take(w, u)
        BY <2>5, <2>0 DEF ClaimWins, TypeOK
      <3> QED BY <3>1, <2>1
    <2>6. ASSUME NEW w \in Workers, NEW u \in Units, ClaimNext(w, u)
          PROVE  b \notin Missing(j)'
      BY <2>6, <2>1 DEF ClaimNext, IsFirst, Open
    <2>7. ASSUME NEW w \in Workers, NEW u \in Units, NEW r \in Texts,
                 Finish(w, u, r) \/ Fail(w, u, r)
          PROVE  b \notin Missing(j)'
      <3>1. CASE Finish(w, u, r)
        BY <3>1, <2>2 DEF Finish, Settled
      <3>2. CASE Fail(w, u, r)
        BY <3>2, <2>2 DEF Fail, Settled
      <3> QED BY <2>7, <3>1, <3>2
    <2> QED BY <2>3, <2>4, <2>5, <2>6, <2>7 DEF Next, ClaimSelect, ClaimNothing
  <1> QED BY <1>1, RecordInvariant, PTL DEF Spec, NeverMissingAgain

-----------------------------------------------------------------------------
\* The empty table is the empty ledger.
LEMMA InitMaps == Init => Ledger!Init
  BY DEF Init, Ledger!Init, NoRow, Units, Jobs, Ledger!Units, Ledger!Jobs

\* Taking the first open unit of a job is the ledger's Take.
LEMMA TakeMaps ==
  ASSUME IInv, NEW w \in Workers, NEW u \in Units, IsFirst(u), Take(w, u)
  PROVE  Ledger!Take(w, u)
  <1>1. TypeOK /\ rows[u] \in Row
    BY DEF IInv, TypeOK
  <1>2. /\ rows' = [rows EXCEPT ![u].state = "held", ![u].owner = w]
        /\ rows[u].state = "open"
    BY DEF Take, IsFirst, Open
  <1>3. /\ \A v \in Units : v # u => rows'[v] = rows[v]
        /\ rows'[u].state = "held" /\ rows'[u].owner = w
        /\ rows'[u].result = rows[u].result
    BY <1>1, <1>2 DEF TypeOK, Row
  <1>4. \A v \in Units : v[1] = u[1] /\ rows[v].state = "open" => u[2] <= v[2]
    BY DEF IsFirst, Open
  <1>5. [x \in Units |-> rows'[x].state] = [[x \in Units |-> rows[x].state] EXCEPT ![u] = "held"]
    BY <1>3
  <1>6. [x \in Units |-> rows'[x].owner] = [[x \in Units |-> rows[x].owner] EXCEPT ![u] = w]
    BY <1>3
  <1>7. [x \in Units |-> rows'[x].result] = [x \in Units |-> rows[x].result]
    BY <1>3
  <1>8. Ledger!Units = Units
    BY DEF Units, Jobs, Ledger!Units, Ledger!Jobs
  <1> QED BY <1>2, <1>4, <1>5, <1>6, <1>7, <1>8 DEF Ledger!Take

\* Settling a unit one holds is the ledger's Settle.
LEMMA SettleMaps ==
  ASSUME IInv, NEW w \in Workers, NEW u \in Units, NEW s \in Settled, NEW r \in Texts,
         rows[u].state = "held", rows[u].owner = w,
         rows' = [rows EXCEPT ![u].state = s, ![u].result = r]
  PROVE  Ledger!Settle(w, u, s, r)
  <1>1. /\ \A v \in Units : v # u => rows'[v] = rows[v]
        /\ rows'[u] = Written(rows[u], s, r) /\ rows[u] \in Row
    BY DEF IInv, TypeOK, Written
  <1>2. /\ rows'[u].state = s /\ rows'[u].result = r /\ rows'[u].owner = rows[u].owner
    BY <1>1, SettledRow
  <1>21. ASSUME NEW v \in Units
         PROVE  /\ rows'[v].state  = IF v = u THEN s ELSE rows[v].state
                /\ rows'[v].result = IF v = u THEN r ELSE rows[v].result
                /\ rows'[v].owner  = rows[v].owner
    <2>1. CASE v = u
      BY <2>1, <1>2
    <2>2. CASE v # u
      <3>1. rows'[v] = rows[v]
        BY <2>2, <1>1
      <3> QED BY <2>2, <3>1
    <2> QED BY <2>1, <2>2
  <1>3. [x \in Units |-> rows'[x].state] = [[x \in Units |-> rows[x].state] EXCEPT ![u] = s]
    BY <1>21
  <1>4. [x \in Units |-> rows'[x].result] = [[x \in Units |-> rows[x].result] EXCEPT ![u] = r]
    BY <1>21
  <1>5. [x \in Units |-> rows'[x].owner] = [x \in Units |-> rows[x].owner]
    <2>1. \A x \in Units : rows'[x].owner = rows[x].owner
      BY <1>21
    <2> QED BY <2>1, Zenon
  <1> QED BY <1>3, <1>4, <1>5 DEF Ledger!Settle

\* Every step of the table is a step of the ledger or changes nothing in it.
LEMMA StepMaps == IInv /\ [Next]_vars => [Ledger!Next]_(Ledger!ledger)
  <1> SUFFICES ASSUME IInv, [Next]_vars PROVE [Ledger!Next]_(Ledger!ledger)
    OBVIOUS
  <1>0. Ledger!Units = Units /\ Ledger!Jobs = Jobs
    BY DEF Units, Jobs, Ledger!Units, Ledger!Jobs
  <1>1. ASSUME NEW j \in Jobs, NEW n \in 1..MaxUnits, NEW b \in [1..n -> Briefs],
               Post(j, n, b)
        PROVE  Ledger!Next
    <2>1. \A u \in Units : u[1] = j => /\ rows[u].state = "absent"
                                       /\ rows[u].owner = Nothing /\ rows[u].result = Nothing
      BY <1>1 DEF Post, IInv, Briefed
    <2>2. \A u \in Units :
            /\ rows'[u].state = IF u[1] = j /\ u[2] <= n THEN "open" ELSE rows[u].state
            /\ rows'[u].owner = rows[u].owner /\ rows'[u].result = rows[u].result
      BY <1>1, <2>1 DEF Post, NoRow
    <2>3. [x \in Units |-> rows'[x].state]
            = [x \in Units |-> IF x[1] = j /\ x[2] <= n THEN "open"
                               ELSE [y \in Units |-> rows[y].state][x]]
      BY <2>2
    <2>4. /\ [x \in Units |-> rows'[x].owner] = [x \in Units |-> rows[x].owner]
          /\ [x \in Units |-> rows'[x].result] = [x \in Units |-> rows[x].result]
      BY <2>2
    <2>5. Ledger!Post(j, n)
      BY <1>0, <2>1, <2>3, <2>4 DEF Ledger!Post
    <2> QED BY <1>0, <2>5 DEF Ledger!Next
  <1>2. ASSUME NEW w \in Workers, NEW u \in Units, ClaimNext(w, u) PROVE Ledger!Next
    BY <1>0, <1>2, TakeMaps DEF ClaimNext, Ledger!Next
  <1>3. ASSUME NEW w \in Workers, ClaimWins(w) PROVE Ledger!Next
    <2>1. PICK u \in Units : u = call[w] /\ IsFirst(u) /\ Take(w, u)
      BY <1>3 DEF ClaimWins, IInv, TypeOK, Selected
    <2>2. Ledger!Take(w, u)
      BY <2>1, TakeMaps
    <2> QED BY <1>0, <2>1, <2>2 DEF Ledger!Next
  <1>4. ASSUME NEW w \in Workers, NEW u \in Units, NEW r \in Texts,
               Finish(w, u, r) \/ Fail(w, u, r)
        PROVE  Ledger!Next
    <2>1. PICK s \in Settled : Ledger!Settle(w, u, s, r)
      BY <1>4, SettleMaps DEF Finish, Fail, Settled
    <2> QED BY <1>0, <2>1 DEF Ledger!Next, Texts, Settled
  <1>5. ASSUME rows' = rows PROVE UNCHANGED Ledger!ledger
    BY <1>5 DEF Ledger!ledger
  <1> QED BY <1>1, <1>2, <1>3, <1>4, <1>5 DEF Next, ClaimSelect, ClaimNothing, vars

\* The table implements the ledger: claiming is one step of it.
THEOREM RecordImplementsLedger == Spec => ImplementsLedger
  <1> QED BY InitMaps, StepMaps, RecordInvariant, PTL
          DEF Spec, ImplementsLedger, Ledger!Spec

-----------------------------------------------------------------------------
\* The units of a job are handed out in the order they were posted: no open
\* unit stands before one that somebody has, although a claim may land on what
\* it selected long before (coordination.py claim, ORDER BY seq).
HandedInOrder ==
  \A u, v \in Units :
    u[1] = v[1] /\ rows[u].state = "open" /\ rows[v].state \in {"held"} \cup Settled
      => v[2] < u[2]

\* A disagreement that merge() has reported stays reported (coordination.py
\* merge): no later answer, failure, claim or job takes it off the conflicts.
ConflictsStand == [][\A j \in Jobs : Conflicts(j) \subseteq Conflicts(j)']_vars

\* Only the row of u changes, and u keeps its brief and takes state s.
Rewritten(u, s) ==
  /\ \A v \in Units : v # u => rows'[v] = rows[v]
  /\ rows'[u].state = s /\ rows'[u].brief = rows[u].brief

\* A job that nobody had used is posted, and no other one is touched.
Posted(j) ==
  \A v \in Units : /\ v[1] # j => rows'[v] = rows[v]
                   /\ v[1] = j => rows[v].state = "absent" /\ rows'[v].state \in {"absent", "open"}

\* All that a step can do to the table.
LEMMA TableStep ==
  ASSUME IInv, [Next]_vars
  PROVE  \/ rows' = rows
         \/ \E j \in Jobs : Posted(j)
         \/ \E u \in Units : IsFirst(u) /\ Rewritten(u, "held")
         \/ \E u \in Units, s \in Settled : rows[u].state = "held" /\ Rewritten(u, s)
  <1>0. TypeOK
    BY DEF IInv
  <1>1. ASSUME NEW j \in Jobs, NEW n \in 1..MaxUnits, NEW b \in [1..n -> Briefs], Post(j, n, b)
        PROVE  Posted(j)
    <2>1. \A v \in Units : /\ v[1] # j => rows'[v] = rows[v]
                           /\ v[1] = j => /\ rows[v].state = "absent"
                                          /\ rows'[v].state = "open" \/ rows'[v] = rows[v]
      BY <1>1 DEF Post, NoRow
    <2> QED BY <2>1 DEF Posted
  <1>2. ASSUME NEW w \in Workers, NEW u \in Units, Take(w, u) PROVE Rewritten(u, "held")
    <2>1. rows' = [rows EXCEPT ![u].state = "held", ![u].owner = w] /\ rows[u] \in Row
      BY <1>0, <1>2 DEF Take, TypeOK
    <2> QED BY <1>0, <2>1 DEF TypeOK, Row, Rewritten
  <1>3. ASSUME NEW w \in Workers, ClaimWins(w)
        PROVE  \E u \in Units : IsFirst(u) /\ Rewritten(u, "held")
    <2>1. PICK u \in Units : u = call[w] /\ IsFirst(u) /\ Take(w, u)
      BY <1>3 DEF ClaimWins, IInv, TypeOK, Selected
    <2> QED BY <1>2, <2>1
  <1>4. ASSUME NEW w \in Workers, NEW u \in Units, ClaimNext(w, u)
        PROVE  IsFirst(u) /\ Rewritten(u, "held")
    BY <1>2, <1>4 DEF ClaimNext
  <1>5. ASSUME NEW w \in Workers, NEW u \in Units, NEW r \in Texts, Finish(w, u, r) \/ Fail(w, u, r)
        PROVE  \E s \in Settled : rows[u].state = "held" /\ Rewritten(u, s)
    <2>1. PICK s \in Settled : /\ rows[u].state = "held"
                               /\ rows' = [rows EXCEPT ![u].state = s, ![u].result = r]
      BY <1>5 DEF Finish, Fail, Settled
    <2>2. /\ \A v \in Units : v # u => rows'[v] = rows[v]
          /\ rows'[u] = Written(rows[u], s, r) /\ rows[u] \in Row
      BY <1>0, <2>1 DEF TypeOK, Written
    <2>3. rows'[u].state = s /\ rows'[u].brief = rows[u].brief
      BY <2>2, SettledRow
    <2> QED BY <2>1, <2>2, <2>3 DEF Rewritten
  <1> QED BY <1>1, <1>3, <1>4, <1>5 DEF Next, ClaimSelect, ClaimNothing, vars

\* The first open unit is taken, so nothing open is left before what is taken.
LEMMA OrderStep ==
  ASSUME IInv, HandedInOrder, [Next]_vars PROVE HandedInOrder'
  <1> SUFFICES ASSUME NEW u \in Units, NEW v \in Units, u[1] = v[1],
                      rows'[u].state = "open", rows'[v].state \in {"held"} \cup Settled
               PROVE  v[2] < u[2]
    BY DEF HandedInOrder
  <1>0. u[2] \in Nat /\ v[2] \in Nat /\ u[1] \in Jobs
    BY BoundAssumption DEF Units
  <1>1. CASE rows' = rows
    BY <1>1 DEF HandedInOrder
  <1>2. ASSUME NEW j \in Jobs, Posted(j) PROVE v[2] < u[2]
    <2>1. u[1] # j
      BY <1>2 DEF Posted, Settled
    <2> QED BY <1>2, <2>1 DEF Posted, HandedInOrder
  <1>3. ASSUME NEW x \in Units, IsFirst(x), Rewritten(x, "held") PROVE v[2] < u[2]
    <2>1. u # x /\ rows[u].state = "open"
      BY <1>3 DEF Rewritten
    <2>2. CASE v = x
      <3>1. x[2] <= u[2] /\ x[1] = u[1]
        BY <1>3, <2>1, <2>2 DEF IsFirst, Open
      <3>2. x[2] # u[2]
        BY <2>1, <3>1 DEF Units
      <3> QED BY <1>0, <2>2, <3>1, <3>2
    <2>3. CASE v # x
      BY <1>3, <2>1, <2>3 DEF Rewritten, HandedInOrder
    <2> QED BY <2>2, <2>3
  <1>4. ASSUME NEW x \in Units, NEW s \in Settled, rows[x].state = "held", Rewritten(x, s)
        PROVE  v[2] < u[2]
    <2>1. u # x /\ rows[u].state = "open" /\ rows[v].state \in {"held"} \cup Settled
      BY <1>4 DEF Rewritten, Settled
    <2> QED BY <2>1 DEF HandedInOrder
  <1> QED BY <1>1, <1>2, <1>3, <1>4, TableStep

\* A step that keeps the settled rows keeps what they disagree about.
LEMMA ConflictsStay ==
  ASSUME NEW j \in Jobs, NEW b \in Conflicts(j),
         \A v \in Units : v[1] = j /\ rows[v].state \in Settled => rows'[v] = rows[v]
  PROVE  b \in Conflicts(j)'
  <1>1. b \in Briefs /\ \E r, s \in Answers(j, b) : r # s
    BY DEF Conflicts
  <1>2. ASSUME NEW r \in Answers(j, b) PROVE r \in Answers(j, b)'
    <2>1. r # Nothing
      BY DEF Answers
    <2>2. PICK v \in Units : /\ v[1] = j /\ rows[v].state = "done"
                             /\ rows[v].brief = b /\ rows[v].result = r
      BY DEF Answers, Group
    <2>3. rows'[v] = rows[v]
      BY <2>2 DEF Settled
    <2>4. v \in Group(j, b)'
      BY <2>2, <2>3 DEF Group
    <2> QED BY <2>1, <2>2, <2>3, <2>4 DEF Answers
  <1> QED BY <1>1, <1>2 DEF Conflicts

\* A job's units are handed out in order, however the claims race.
THEOREM RecordHandedInOrder == Spec => []HandedInOrder
  <1>1. Init => HandedInOrder
    BY DEF Init, HandedInOrder, NoRow
  <1> QED BY <1>1, OrderStep, RecordInvariant, PTL DEF Spec

\* A conflict that merge() reports is never taken back.
THEOREM RecordConflictsStand == Spec => ConflictsStand
  <1> DEFINE Stay == \A j \in Jobs : Conflicts(j) \subseteq Conflicts(j)'
  <1>1. IInv /\ [Next]_vars => [Stay]_vars
    <2> SUFFICES ASSUME IInv, Next, NEW j \in Jobs, NEW b \in Conflicts(j)
                 PROVE  b \in Conflicts(j)'
      OBVIOUS
    <2>1. \A v \in Units : rows[v].state \in Settled => rows'[v] = rows[v]
      BY TableStep DEF Posted, Rewritten, IsFirst, Open, Settled
    <2> QED BY <2>1, ConflictsStay
  <1> QED BY <1>1, RecordInvariant, PTL DEF Spec, ConflictsStand
=============================================================================
