--------------------------- MODULE Unprompted_proofs ---------------------------
(***************************************************************************)
(* Proofs about Unprompted, for any keys, urgencies, budget, windows,      *)
(* times, midnights, restarts and bad writes.                              *)
(*                                                                         *)
(* The invariant has four parts that hardly meet: what the files know of   *)
(* the lines said lately, the count of the day, the modes, and the ledger. *)
(***************************************************************************)
EXTENDS Unprompted, SequenceTheorems, TLAPS

-----------------------------------------------------------------------------
(* The invariant. *)

\* The time a repeat is judged by: a tick goes by its start.
Now == IF tick.phase = "idle" THEN clock ELSE tick.now

\* A delivery that was saved is known to the engine until its window is over,
\* and to the file; the line on its way is not one of them.
Suppressed ==
  /\ tick.now <= clock
  /\ \A l \in Lines : kept[l] # Never =>
       \/ spoken[l] # Never /\ kept[l] <= spoken[l]
       \/ Now - kept[l] >= Window
  /\ \A l \in Lines : kept[l] # Never =>
       file.spoken[l] = kept[l] \/ clock - kept[l] >= Window
  /\ tick.phase \in {"emit", "out"} =>
       spoken[tick.line] = Never \/ tick.now - spoken[tick.line] >= Window

\* The line that is out and not yet counted.
Out == IF tick.phase = "out" THEN 1 ELSE 0

\* What was sent on a date is what the engine has counted, what it does not know
\* of, and what is out.
Counted ==
  /\ day = today \/ tick.phase # "idle" => sent[day] = used + forgot[day] + Out
  /\ day # today => sent[today] = forgot[today]
  /\ \A d \in Days : d > today => sent[d] = 0 /\ forgot[d] = 0
  /\ day \in Days => day <= today /\ used <= sent[day]
  /\ file.day \in Days => file.day <= today /\ file.used <= sent[file.day]
  /\ used <= Budget /\ file.used <= Budget
  /\ tick.phase # "idle" => used < Budget
  /\ BudgetHolds

\* A mode lets no tick begin, and so at most one line out.
Muted ==
  /\ late <= 1
  /\ tick.phase \in {"sources", "select", "emit"} \/ ~muted => late = 0

\* The second chance of some delivery of k is not spent.
Unspent(k) == \E i \in DOMAIN rows : rows[i].key = k /\ ~rows[i].reraised

\* A re-raise of k is out and not yet taken down.
Raised(k) == IF tick.phase = "out" /\ tick.line = Again(k) THEN 1 ELSE 0

\* Rows are recorded deliveries; while a key has one, its re-raises are the one
\* in the ledger, those that slipped, and the one that is out.
Chances ==
  /\ SpentMeansHeard
  /\ \A i \in DOMAIN rows : noted[rows[i].key] > 0
  /\ \A i, j \in DOMAIN rows : rows[i].key = rows[j].key /\ noted[rows[i].key] = 1 => i = j
  /\ \A k \in Keys : noted[k] = 0 => chances[k] = 0 /\ k \notin tick.due
  /\ \A k \in Keys : noted[k] = 1 => chances[k] <= slipped[k] + 1
  /\ \A k \in Keys : noted[k] = 1 /\ Unspent(k) => chances[k] <= slipped[k] + Raised(k)
  /\ \A k \in Keys : noted[k] = 1 /\ k \in tick.due => Unspent(k)
  /\ tick.phase \in {"emit", "out"} /\ tick.line.again => tick.line.key \in tick.due
  /\ tick.phase \in {"idle", "sources"} => tick.due = {}
  /\ tick.phase = "out" /\ tick.line.again => chances[tick.line.key] > 0

IInv == TypeOK /\ Suppressed /\ Counted /\ Muted /\ Chances

-----------------------------------------------------------------------------
(* The parts of a step. *)

\* The ticks there can be.
Ticks == [phase : {"idle", "sources", "select", "emit", "out"}, now : Times,
          quiet : BOOLEAN, due : SUBSET Keys, line : Lines \cup {Never}]

\* What a save of s, u and d can leave: the file and what it has of the past.
Saving(s, u, d) ==
  \/ file' = [spoken |-> Live(s), used |-> u, day |-> d] /\ kept' = s
  \/ file' = file /\ kept' = kept
  \/ file' = Blank /\ kept' = Blank.spoken

(* Every save leaves one of the three. *)
LEMMA SaveSaves ==
  ASSUME TypeOK, NEW s \in Spoken, NEW u \in Nat, NEW d \in Days \cup {Never},
         Saving(s, u, d)
  PROVE  file' \in Saved /\ kept' \in Spoken
  <1>1. Live(s) \in Spoken
    BY DEF Live, Spoken
  <1>2. Blank \in Saved /\ Blank.spoken \in Spoken
    BY DEF Blank, Saved, Spoken
  <1> QED BY <1>1, <1>2 DEF Saving, Saved, TypeOK

(* A restart or a bad write is counted. *)
LEMMA FaultCounted == TypeOK /\ Fault => faults' \in 0..MaxFaults
  BY BoundsAssumption DEF Fault, TypeOK

(* What the engine writes, and that its writes may fail. *)
LEMMA SaveCases ==
  ASSUME TypeOK, NEW s, NEW u, NEW d, Save(s, u, d)
  PROVE  Saving(s, u, d) /\ faults' \in 0..MaxFaults
  BY FaultCounted DEF Save, SaveGood, SaveBad, Saving, TypeOK

(* Times are numbers, and no time is `Never`. *)
LEMMA Numbers ==
  /\ Times \subseteq Nat /\ Days \subseteq Nat /\ Budget \in Nat /\ Window \in Nat \ {0}
  /\ Never \notin Times /\ Never \notin Days /\ Never \notin Lines
  /\ Keep \in Nat \ {0}
  BY KeysAssumption, BoundsAssumption, SentinelAssumption DEF Times, Days

(* Recording appends a row, and lets the oldest go when the ledger is full. *)
LEMMA RecordedRows ==
  ASSUME TypeOK, NEW k \in Keys
  PROVE  LET gone == IF Len(rows) = Keep THEN 1 ELSE 0
         IN  /\ Recorded(k) \in Seq(Row) /\ Len(Recorded(k)) <= Keep
             /\ \A i \in DOMAIN Recorded(k) :
                  \/ i + gone \in DOMAIN rows /\ Recorded(k)[i] = rows[i + gone]
                  \/ i + gone = Len(rows) + 1 /\ Recorded(k)[i].key = k /\ ~Recorded(k)[i].reraised
  <1> DEFINE row == [key |-> k, at |-> clock, state |-> "delivered", reraised |-> FALSE]
             all == Append(rows, row)
  <1>1. rows \in Seq(Row) /\ Len(rows) \in Nat /\ Len(rows) <= Keep /\ row \in Row
    BY DEF TypeOK, Row
  <1>2. /\ all \in Seq(Row) /\ Len(all) = Len(rows) + 1 /\ all[Len(rows) + 1] = row
        /\ \A i \in 1..Len(rows) : all[i] = rows[i]
    BY <1>1
  <1>3. row.key = k /\ ~row.reraised
    OBVIOUS
  <1> HIDE DEF row, all
  <1>4. CASE Len(rows) = Keep
    <2>1. Recorded(k) = Tail(all)
      BY <1>4 DEF Recorded, all, row
    <2>2. /\ Tail(all) \in Seq(Row) /\ Len(Tail(all)) = Len(rows)
          /\ \A i \in 1..Len(rows) : Tail(all)[i] = all[i + 1]
      BY <1>1, <1>2
    <2> QED BY <1>1, <1>2, <1>3, <1>4, <2>1, <2>2
  <1>5. CASE Len(rows) # Keep
    <2>1. Recorded(k) = all
      BY <1>5 DEF Recorded, all, row
    <2> QED BY <1>1, <1>2, <1>3, <1>5, <2>1, Numbers
  <1> QED BY <1>4, <1>5

(* The owner's reaction and a spent chance leave every row where it was. *)
LEMMA MarkedRows ==
  ASSUME TypeOK, NEW k, NEW s \in {"delivered", "seen", "acted"}
  PROVE  /\ Marked(k, s) \in Seq(Row) /\ Len(Marked(k, s)) = Len(rows)
         /\ \A i \in DOMAIN rows : /\ Marked(k, s)[i].key = rows[i].key
                                   /\ Marked(k, s)[i].reraised = rows[i].reraised
  <1>1. rows \in Seq(Row) /\ Len(rows) \in Nat /\ DOMAIN rows = 1..Len(rows)
    BY DEF TypeOK
  <1>2. \A r \in Row : /\ [r EXCEPT !.state = s] \in Row /\ [r EXCEPT !.state = s].key = r.key
                        /\ [r EXCEPT !.state = s].reraised = r.reraised
    BY DEF Row
  <1>3. \A i \in DOMAIN rows : rows[i] \in Row
    BY <1>1
  <1> HIDE DEF Row
  <1>4. \A i \in DOMAIN rows :
          /\ Marked(k, s)[i] \in Row /\ Marked(k, s)[i].key = rows[i].key
          /\ Marked(k, s)[i].reraised = rows[i].reraised
    BY <1>2, <1>3 DEF Marked
  <1>5. Marked(k, s) \in Seq(Row) /\ Len(Marked(k, s)) = Len(rows)
    BY <1>1, <1>4 DEF Marked
  <1> QED BY <1>4, <1>5

LEMMA ReraisedRows ==
  ASSUME TypeOK, NEW k
  PROVE  /\ Reraised(k) \in Seq(Row) /\ Len(Reraised(k)) = Len(rows)
         /\ \A i \in DOMAIN rows : /\ Reraised(k)[i].key = rows[i].key
                                   /\ Reraised(k)[i].reraised <=> rows[i].reraised \/ i \in Newest(k)
  <1>1. rows \in Seq(Row) /\ Len(rows) \in Nat /\ DOMAIN rows = 1..Len(rows)
    BY DEF TypeOK
  <1>2. \A r \in Row : /\ [r EXCEPT !.reraised = TRUE] \in Row
                        /\ [r EXCEPT !.reraised = TRUE].key = r.key
                        /\ [r EXCEPT !.reraised = TRUE].reraised
    BY DEF Row
  <1>3. \A i \in DOMAIN rows : rows[i] \in Row
    BY <1>1
  <1> HIDE DEF Row
  <1>4. \A i \in DOMAIN rows :
          /\ Reraised(k)[i] \in Row /\ Reraised(k)[i].key = rows[i].key
          /\ Reraised(k)[i].reraised <=> rows[i].reraised \/ i \in Newest(k)
    BY <1>2, <1>3 DEF Reraised
  <1>5. Reraised(k) \in Seq(Row) /\ Len(Reraised(k)) = Len(rows)
    BY <1>1, <1>4 DEF Reraised
  <1> QED BY <1>4, <1>5

(* A tick begins with the count of the date, or is held and saves. *)
LEMMA Starts ==
  ASSUME TypeOK, TickStart
  PROVE  /\ tick.phase = "idle" /\ used' = UsedToday /\ day' = today
         /\ UNCHANGED <<rows, spoken, pending, world, sent, forgot, late, noted, chances, slipped>>
         /\ \/ /\ UsedToday < Budget /\ ~muted
               /\ tick'.phase = "sources" /\ tick'.now = clock /\ tick'.due = {}
            \/ tick' = Idle
         /\ Save(spoken, used', day') \/ UNCHANGED <<file, kept, faults>>
  <1>1. /\ tick.phase = "idle" /\ used' = UsedToday /\ day' = today
        /\ UNCHANGED <<rows, spoken, pending, world, sent, forgot, late, noted, chances, slipped>>
    BY DEF TickStart
  <1>2. CASE UsedToday < Budget /\ ~Hushed
    <2>1. PICK quiet \in BOOLEAN :
            tick' = [Idle EXCEPT !.phase = "sources", !.now = clock, !.quiet = quiet]
      BY <1>2 DEF TickStart
    <2>2. Save(spoken, used', day') \/ UNCHANGED <<file, kept, faults>>
      BY <1>2 DEF TickStart
    <2>3. tick'.phase = "sources" /\ tick'.now = clock /\ tick'.due = {}
      BY <2>1 DEF Idle
    <2> QED BY <1>1, <1>2, <2>2, <2>3 DEF Hushed
  <1>3. CASE ~(UsedToday < Budget /\ ~Hushed)
    <2>1. tick' = Idle /\ Save(spoken, used', day')
      BY <1>3 DEF TickStart
    <2> QED BY <1>1, <2>1
  <1> QED BY <1>2, <1>3

(* A line that passes the gates is one of the signals and was not said lately. *)
LEMMA Selects ==
  ASSUME TypeOK, Select
  PROVE  \/ GiveUp
         \/ \E l \in Lines : /\ ~RecentlySaid(l) /\ (l.again => l.key \in tick.due)
                             /\ tick' = [tick EXCEPT !.phase = "emit", !.line = l]
                             /\ UNCHANGED <<file, kept, faults>>
  <1>1. PICK raised \in SUBSET ({Plain(k) : k \in Keys} \cup {Again(k) : k \in tick.due}) :
          \/ GiveUp
          \/ \E l \in raised, busy \in BOOLEAN :
               /\ ~RecentlySaid(l)
               /\ tick' = [tick EXCEPT !.phase = "emit", !.line = l]
               /\ UNCHANGED <<file, kept, faults>>
    BY DEF Select
  <1>2. \A l \in raised : l \in Lines /\ (l.again => l.key \in tick.due)
    <2>1. tick.due \subseteq Keys
      BY DEF TypeOK
    <2>2. \A k \in Keys : Plain(k) \in Lines /\ ~Plain(k).again
      BY DEF Plain, Lines
    <2>3. \A k \in tick.due : Again(k) \in Lines /\ Again(k).key \in tick.due
      BY <2>1 DEF Again, Lines
    <2> QED BY <2>2, <2>3
  <1> QED BY <1>1, <1>2

(* A delivery is one more of its day, and one more chance of a re-raised key. *)
LEMMA Delivers ==
  ASSUME TypeOK, Deliver
  PROVE  /\ tick.phase = "emit" /\ tick' = [tick EXCEPT !.phase = "out"]
         /\ tick.line \in Lines /\ tick.line.key \in Keys /\ day \in Days
         /\ sent' = [sent EXCEPT ![day] = @ + 1]
         /\ late' = IF muted THEN late + 1 ELSE late
         /\ chances' = IF tick.line.again THEN [chances EXCEPT ![tick.line.key] = @ + 1] ELSE chances
         /\ UNCHANGED <<rows, engine, world, kept, forgot, noted, slipped, faults>>
  <1>1. tick.phase = "emit"
    BY DEF Deliver
  <1>2. tick.line \in Lines /\ tick.line.key \in Keys /\ day \in Days
    BY <1>1 DEF TypeOK, Lines
  <1> QED BY <1>1, <1>2 DEF Deliver, Heard

(* A failed emission ends the tick: nothing went out, or something did that   *)
(* nobody books, and both sides of every count note it.                       *)
LEMMA Fails ==
  ASSUME TypeOK, EmitFails
  PROVE  /\ tick.phase = "emit" /\ tick' = Idle
         /\ tick.line \in Lines /\ tick.line.key \in Keys /\ day \in Days
         /\ Saving(spoken, used, day) /\ faults' \in 0..MaxFaults
         /\ \/ UNCHANGED <<sent, forgot, late, chances, slipped>>
            \/ /\ sent' = [sent EXCEPT ![day] = @ + 1] /\ forgot' = [forgot EXCEPT ![day] = @ + 1]
               /\ late' = IF muted THEN late + 1 ELSE late
               /\ chances' = IF tick.line.again THEN [chances EXCEPT ![tick.line.key] = @ + 1]
                             ELSE chances
               /\ slipped' = Unrecorded(tick.line)
         /\ UNCHANGED <<rows, spoken, used, day, pending, world, noted>>
  <1>1. tick.phase = "emit" /\ tick' = Idle /\ Save(spoken, used, day)
    BY DEF EmitFails, GiveUp
  <1>2. tick.line \in Lines /\ tick.line.key \in Keys /\ day \in Days
    BY <1>1 DEF TypeOK, Lines
  <1>3. Saving(spoken, used, day) /\ faults' \in 0..MaxFaults
    BY <1>1, SaveCases
  <1> QED BY <1>1, <1>2, <1>3 DEF EmitFails, Heard

(* A reply books the file, the mark, both or neither. *)
LEMMA Replies ==
  ASSUME TypeOK, NEW verdict, Reply(verdict)
  PROVE  Saving(spoken, used, day) /\ faults' \in 0..MaxFaults
  <1>1. CASE Save(spoken, used, day)
    BY <1>1, SaveCases
  <1>2. CASE UNCHANGED <<file, kept, faults>>
    BY <1>2 DEF Saving, TypeOK
  <1>3. CASE Fault /\ (UNCHANGED <<file, kept>> \/ SaveGood(spoken, used, day) \/ SaveBad)
    BY <1>3, FaultCounted DEF Saving, SaveGood, SaveBad
  <1> QED BY <1>1, <1>2, <1>3 DEF Reply

(* What went out is booked as a whole, but for the ledger's row and the file. *)
LEMMA Books ==
  ASSUME TypeOK, Book
  PROVE  /\ tick.phase = "out" /\ tick' = Idle
         /\ tick.line \in Lines /\ tick.line.key \in Keys /\ day \in Days
         /\ spoken' = [spoken EXCEPT ![tick.line] = tick.now] /\ used' = used + 1
         /\ pending' = [line |-> tick.line, at |-> tick.now]
         /\ Saving(spoken', used', day) /\ faults' \in 0..MaxFaults
         /\ \/ Record(tick.line) /\ slipped' = slipped
            \/ rows' = rows /\ noted' = noted /\ slipped' = Unrecorded(tick.line)
         /\ UNCHANGED <<day, world, sent, forgot, late, chances>>
  <1>1. /\ tick.phase = "out" /\ tick' = Idle
        /\ spoken' = [spoken EXCEPT ![tick.line] = tick.now] /\ used' = used + 1
        /\ pending' = [line |-> tick.line, at |-> tick.now]
        /\ UNCHANGED <<day, world, sent, forgot, late, chances>>
    BY DEF Book
  <1>2. tick.line \in Lines /\ tick.line.key \in Keys /\ day \in Days
    BY <1>1 DEF TypeOK, Lines
  <1>3. \/ Record(tick.line) /\ slipped' = slipped /\ Save(spoken', used', day)
        \/ /\ Fault /\ rows' = rows /\ noted' = noted /\ slipped' = Unrecorded(tick.line)
           /\ SaveGood(spoken', used', day) \/ SaveBad
    BY DEF Book
  <1>4. Saving(spoken', used', day) /\ faults' \in 0..MaxFaults
    <2>1. CASE Save(spoken', used', day)
      BY <2>1, SaveCases
    <2>2. CASE Fault /\ (SaveGood(spoken', used', day) \/ SaveBad)
      BY <2>2, FaultCounted DEF Saving, SaveGood, SaveBad
    <2> QED BY <1>3, <2>1, <2>2
  <1> QED BY <1>1, <1>2, <1>3, <1>4

(* A re-raise is the line with its prefix and its key. *)
LEMMA AgainLines ==
  ASSUME NEW l \in Lines, NEW k
  PROVE  l = Again(k) <=> l.again /\ l.key = k
  <1>1. l.again \in BOOLEAN /\ l = [key |-> l.key, again |-> l.again]
    BY DEF Lines
  <1> QED BY <1>1 DEF Again

(* What has slipped is counted. *)
LEMMA Slips ==
  ASSUME TypeOK, NEW l \in Lines
  PROVE  /\ Unrecorded(l) \in [Keys -> Nat]
         /\ \A k \in Keys : Unrecorded(l)[k] = IF l = Again(k) THEN slipped[k] + 1 ELSE slipped[k]
  <1>1. l.key \in Keys
    BY DEF Lines
  <1>2. \A k \in Keys : l = Again(k) <=> l.again /\ l.key = k
    BY AgainLines
  <1>3. slipped \in [Keys -> Nat]
    BY DEF TypeOK
  <1> QED BY <1>1, <1>2, <1>3 DEF Unrecorded

-----------------------------------------------------------------------------
(* The invariant holds at the start. *)

LEMMA InitIInv == Init => IInv
  <1> SUFFICES ASSUME Init PROVE IInv
    OBVIOUS
  <1>1. TypeOK
    <2>1. Blank \in Saved /\ Blank.spoken \in Spoken /\ Blank.used \in Nat /\ Blank.day = Never
      BY DEF Blank, Saved, Spoken
    <2>2. /\ Idle \in Ticks
          /\ Idle.phase = "idle"
      BY BoundsAssumption DEF Idle, Times, Ticks
    <2>3. 0 \in Times /\ 0 \in Days /\ 0 \in 0..MaxFaults
      BY BoundsAssumption DEF Times, Days
    <2>4. rows \in Seq(Row) /\ Len(rows) <= Keep
      BY Numbers DEF Init
    <2> QED BY <2>1, <2>2, <2>3, <2>4 DEF Init, TypeOK, Ticks
  <1>2. Suppressed
    BY Numbers, BoundsAssumption DEF Init, Suppressed, Blank, Idle, Lines
  <1>3. Counted
    BY Numbers, BoundsAssumption DEF Init, Counted, BudgetHolds, Out, Blank, Idle, Days
  <1>4. Muted
    BY DEF Init, Muted
  <1>5. Chances
    BY DEF Init, Chances, SpentMeansHeard, Unspent, Raised, Idle
  <1> QED BY <1>1, <1>2, <1>3, <1>4, <1>5 DEF IInv

-----------------------------------------------------------------------------
(* Every step keeps the types. *)

LEMMA TypesKept == IInv /\ [Next]_vars => TypeOK'
  <1> SUFFICES ASSUME IInv, [Next]_vars PROVE TypeOK'
    OBVIOUS
  <1> USE Numbers, BoundsAssumption
  <1>t. TypeOK /\ spoken \in Spoken /\ used \in Nat /\ day \in Days \cup {Never} /\ today \in Days
    BY DEF IInv, TypeOK
  <1>i. Idle \in Ticks
    BY DEF Idle, Times, Ticks
  <1>1. CASE TickStart
    <2>1. UsedToday \in Nat
      BY <1>t DEF UsedToday
    <2>2. file' \in Saved /\ kept' \in Spoken /\ faults' \in 0..MaxFaults
      <3>1. CASE Save(spoken, used', day')
        <4>1. used' \in Nat /\ day' \in Days \cup {Never}
          BY <1>1, <1>t, <2>1 DEF TickStart
        <4> QED BY <3>1, <4>1, <1>t, SaveCases, SaveSaves
      <3>2. CASE UNCHANGED <<file, kept, faults>>
        BY <3>2, <1>t DEF TypeOK
      <3> QED BY <3>1, <3>2, <1>1 DEF TickStart
    <2>3. /\ tick' \in Ticks
          /\ tick'.phase \in {"idle", "sources"}
      BY <1>1, <1>t, <1>i DEF TickStart, TypeOK, Ticks, Idle
    <2>4. /\ UNCHANGED <<rows, spoken, pending, muted, clock, today, sent, forgot, late, noted>>
          /\ UNCHANGED <<chances, slipped>> /\ used' = UsedToday /\ day' = today
      BY <1>1 DEF TickStart, world
    <2>5. tick'.phase \in {"emit", "out"} => tick'.line \in Lines
      BY <2>3
    <2>6. tick'.phase # "idle" => day' \in Days
      BY <1>t, <2>4
    <2>7. used' \in Nat /\ day' \in Days \cup {Never} /\ tick' \in Ticks
      BY <1>t, <2>1, <2>3, <2>4
    <2> QED BY <1>t, <2>2, <2>4, <2>5, <2>6, <2>7 DEF TypeOK, Ticks
  <1>2. CASE Sources
    <2>1. Due \subseteq Keys
      BY DEF Due
    <2>2. tick' \in Ticks /\ tick'.phase = "select" /\ day \in Days
      BY <1>2, <1>t, <2>1 DEF Sources, TypeOK, Ticks
    <2>3. /\ UNCHANGED <<rows, spoken, used, day, file, pending, muted, clock, today, kept, sent, forgot>>
          /\ UNCHANGED <<late, noted, chances, slipped, faults>>
      BY <1>2 DEF Sources, engine, world, history
    <2> QED BY <1>t, <2>2, <2>3 DEF TypeOK, Ticks
  <1>3. CASE Select
    <2>1. file' \in Saved /\ kept' \in Spoken /\ faults' \in 0..MaxFaults
      <3>1. CASE Save(spoken, used, day)
        BY <3>1, <1>t, SaveCases, SaveSaves
      <3>2. CASE UNCHANGED <<file, kept, faults>>
        BY <3>2, <1>t DEF TypeOK
      <3> QED BY <3>1, <3>2, <1>3 DEF Select, GiveUp
    <2>3. /\ tick' \in Ticks
          /\ tick'.phase \in {"emit", "out"} => tick'.line \in Lines
          /\ tick'.phase # "idle" => day \in Days
      <3>1. tick.phase = "select" /\ day \in Days
        BY <1>3, <1>t DEF Select, TypeOK
      <3>2. CASE tick' = Idle
        BY <3>2, <1>i DEF Idle
      <3>3. ASSUME NEW l \in Lines, tick' = [tick EXCEPT !.phase = "emit", !.line = l]
            PROVE  tick' \in Ticks /\ tick'.line \in Lines
        BY <3>3, <1>t DEF TypeOK, Ticks
      <3> QED BY <1>3, <1>t, <3>1, <3>2, <3>3, Selects DEF GiveUp, Ticks
    <2> QED BY <1>3, <1>t, <2>1, <2>3 DEF Select, TypeOK, Ticks, world
  <1>4. CASE Deliver
    <2>1. tick' \in Ticks /\ tick'.line \in Lines /\ day \in Days
      BY <1>4, <1>t, Delivers DEF TypeOK, Ticks
    <2>2. sent' \in [Days -> Nat] /\ late' \in Nat /\ chances' \in [Keys -> Nat]
      <3>1. /\ sent \in [Days -> Nat] /\ late \in Nat /\ chances \in [Keys -> Nat]
            /\ day \in Days /\ tick.line.key \in Keys
        BY <1>4, <1>t, Delivers DEF TypeOK
      <3>2. /\ sent' = [sent EXCEPT ![day] = @ + 1] /\ (late' = late \/ late' = late + 1)
            /\ \/ chances' = chances
               \/ chances' = [chances EXCEPT ![tick.line.key] = @ + 1]
        BY <1>4, <1>t, Delivers
      <3> QED BY <3>1, <3>2
    <2>3. UNCHANGED <<rows, spoken, used, day, file, pending, clock, today, muted, kept, forgot,
                      noted, slipped, faults>>
      BY <1>4, <1>t, Delivers DEF engine, world
    <2> QED BY <1>t, <2>1, <2>2, <2>3 DEF TypeOK, Ticks
  <1>5. CASE EmitFails
    <2>1. file' \in Saved /\ kept' \in Spoken /\ faults' \in 0..MaxFaults
      BY <1>5, <1>t, Fails, SaveSaves DEF TypeOK
    <2>2. /\ sent' \in [Days -> Nat] /\ forgot' \in [Days -> Nat] /\ late' \in Nat
          /\ chances' \in [Keys -> Nat] /\ slipped' \in [Keys -> Nat]
      <3>1. /\ sent \in [Days -> Nat] /\ forgot \in [Days -> Nat] /\ late \in Nat
            /\ chances \in [Keys -> Nat] /\ slipped \in [Keys -> Nat]
            /\ day \in Days /\ tick.line.key \in Keys
        BY <1>5, <1>t, Fails DEF TypeOK
      <3>2. Unrecorded(tick.line) \in [Keys -> Nat]
        BY <1>5, <1>t, Fails, Slips
      <3>3. CASE UNCHANGED <<sent, forgot, late, chances, slipped>>
        BY <3>1, <3>3
      <3>4. CASE /\ sent' = [sent EXCEPT ![day] = @ + 1] /\ forgot' = [forgot EXCEPT ![day] = @ + 1]
                 /\ late' = late \/ late' = late + 1
                 /\ \/ chances' = chances
                    \/ chances' = [chances EXCEPT ![tick.line.key] = @ + 1]
                 /\ slipped' = Unrecorded(tick.line)
        BY <3>1, <3>2, <3>4
      <3> QED BY <1>5, <1>t, <3>3, <3>4, Fails
    <2>3. UNCHANGED <<rows, spoken, used, day, pending, clock, today, muted, noted>> /\ tick' = Idle
      BY <1>5, <1>t, Fails DEF world
    <2> QED BY <1>t, <1>i, <2>1, <2>2, <2>3 DEF TypeOK, Ticks, Idle
  <1>6. CASE Book
    <2> DEFINE l == tick.line
    <2>1. tick.now \in Times /\ l \in Lines /\ l.key \in Keys /\ day \in Days
      BY <1>6, <1>t, Books DEF TypeOK
    <2>2. spoken' \in Spoken /\ used' \in Nat /\ pending' \in [line : Lines, at : Times]
      BY <1>6, <1>t, <2>1, Books DEF Spoken
    <2>3. file' \in Saved /\ kept' \in Spoken /\ faults' \in 0..MaxFaults
      BY <1>6, <1>t, <2>2, Books, SaveSaves
    <2>4. /\ rows' \in Seq(Row) /\ Len(rows') <= Keep /\ noted' \in [Keys -> Nat]
          /\ slipped' \in [Keys -> Nat]
      <3>1. CASE Record(l) /\ slipped' = slipped
        <4>1. Len(rows) <= Keep /\ noted \in [Keys -> Nat] /\ slipped \in [Keys -> Nat]
          BY <1>t DEF TypeOK
        <4>2. CASE l.again
          BY <3>1, <4>1, <4>2, <1>t, ReraisedRows DEF Record
        <4>3. CASE ~l.again
          <5>1. rows' = Recorded(l.key) /\ noted' = [noted EXCEPT ![l.key] = @ + 1]
            BY <3>1, <4>3 DEF Record
          <5>2. rows' \in Seq(Row) /\ Len(rows') <= Keep
            BY <5>1, <2>1, <1>t, RecordedRows
          <5> QED BY <3>1, <4>1, <5>1, <5>2, <2>1
        <4> QED BY <4>2, <4>3
      <3>2. CASE rows' = rows /\ noted' = noted /\ slipped' = Unrecorded(l)
        BY <3>2, <2>1, <1>t, Slips DEF TypeOK
      <3> QED BY <3>1, <3>2, <1>6, <1>t, Books
    <2>5. UNCHANGED <<day, clock, today, muted, sent, forgot, late, chances>> /\ tick' = Idle
      BY <1>6, <1>t, Books DEF world
    <2> HIDE DEF l
    <2> QED BY <1>t, <1>i, <2>2, <2>3, <2>4, <2>5 DEF TypeOK, Ticks, Idle
  <1>7. ASSUME NEW verdict \in {"positive", "negative", "neutral"}, Reply(verdict) PROVE TypeOK'
    <2>1. file' \in Saved /\ kept' \in Spoken /\ faults' \in 0..MaxFaults
      BY <1>7, <1>t, Replies, SaveSaves DEF TypeOK
    <2>2. rows' \in Seq(Row) /\ Len(rows') <= Keep
      BY <1>7, <1>t, MarkedRows DEF Reply, Evidence, TypeOK
    <2>3. pending' = pending \/ pending' = Never
      BY <1>7 DEF Reply
    <2>4. UNCHANGED <<spoken, used, day, tick, clock, today, muted, sent, forgot, late, noted, chances, slipped>>
      BY <1>7 DEF Reply, world
    <2> QED BY <1>t, <2>1, <2>2, <2>3, <2>4 DEF TypeOK
  <1>8. CASE Pass
    <2>1. clock' \in Times /\ today' \in Days
      <3>1. clock \in Times /\ clock < MaxClock /\ clock' = clock + 1
        BY <1>8, <1>t DEF Pass, TypeOK
      <3>2. today \in Days /\ (today' = today \/ (today < MaxDays /\ today' = today + 1))
        BY <1>8, <1>t DEF Pass
      <3> QED BY <3>1, <3>2 DEF Times, Days
    <2>2. UNCHANGED <<rows, spoken, used, day, file, pending, tick, muted, kept, sent, forgot,
                      late, noted, chances, slipped, faults>>
      BY <1>8 DEF Pass, engine, history
    <2> QED BY <1>t, <2>1, <2>2 DEF TypeOK
  <1>9. CASE SetMode
    BY <1>9, <1>t DEF SetMode, TypeOK, engine
  <1>10. CASE Restart
    <2>1. spoken' \in Spoken /\ used' \in Nat /\ day' \in Days \cup {Never}
      BY <1>10, <1>t DEF Restart, Load, TypeOK, Saved
    <2>2. faults' \in 0..MaxFaults
      BY <1>10, <1>t, FaultCounted DEF Restart
    <2>3. forgot' \in [Days -> Nat]
      <3>1. file.day = today => file.used <= sent[today]
        BY <1>t DEF IInv, Counted
      <3>2. sent[today] - (IF file.day = today THEN file.used ELSE 0) \in Nat
        BY <3>1, <1>t DEF TypeOK, Saved
      <3> QED BY <1>10, <3>2, <1>t DEF Restart, TypeOK
    <2>4. slipped' \in [Keys -> Nat]
      BY <1>10, <1>t, Slips DEF Restart, TypeOK
    <2> QED BY <1>10, <1>t, <1>i, <2>1, <2>2, <2>3, <2>4 DEF Restart, TypeOK, Ticks, Idle
  <1>11. CASE UNCHANGED vars
    BY <1>11, <1>t DEF vars, engine, world, history, TypeOK
  <1> QED BY <1>1, <1>2, <1>3, <1>4, <1>5, <1>6, <1>7, <1>8, <1>9, <1>10, <1>11 DEF Next

-----------------------------------------------------------------------------
(* Every step keeps the modes' part. *)

LEMMA MutedKept == IInv /\ [Next]_vars => Muted'
  <1> SUFFICES ASSUME IInv, [Next]_vars PROVE Muted'
    OBVIOUS
  <1>t. TypeOK /\ Muted /\ late \in Nat
    BY DEF IInv, TypeOK
  <1>1. CASE TickStart
    <2>1. tick.phase = "idle" /\ UNCHANGED <<muted, late>> /\ (~muted \/ tick'.phase = "idle")
      BY <1>1, <1>t, Starts DEF Idle, world
    <2> QED BY <1>t, <2>1 DEF Muted
  <1>2. CASE Sources
    BY <1>2, <1>t DEF Sources, Muted, world, history
  <1>3. CASE Select
    <2>1. tick.phase = "select" /\ UNCHANGED <<muted, late>>
      BY <1>3 DEF Select, world
    <2> QED BY <1>t, <2>1 DEF Muted
  <1>4. CASE Deliver
    <2>1. tick'.phase = "out"
      BY <1>4, <1>t, Delivers DEF TypeOK
    <2>2. late = 0
      BY <1>4, <1>t, Delivers DEF Muted
    <2> QED BY <1>4, <1>t, <2>1, <2>2, Delivers DEF Muted, world
  <1>5. CASE EmitFails
    <2>1. tick'.phase = "idle"
      BY <1>5, <1>t, Fails DEF Idle
    <2>2. late = 0
      BY <1>5, <1>t, Fails DEF Muted
    <2> QED BY <1>5, <1>t, <2>1, <2>2, Fails DEF Muted, world
  <1>6. CASE Book
    BY <1>6, <1>t, Books DEF Idle, Muted, world
  <1>7. ASSUME NEW verdict \in {"positive", "negative", "neutral"}, Reply(verdict) PROVE Muted'
    BY <1>7, <1>t DEF Reply, Muted, world
  <1>8. CASE Pass
    BY <1>8, <1>t DEF Pass, Muted, history
  <1>9. CASE SetMode
    BY <1>9 DEF SetMode, Muted
  <1>10. CASE Restart
    BY <1>10 DEF Restart, Muted
  <1>11. CASE UNCHANGED vars
    BY <1>11, <1>t DEF vars, world, history, Muted
  <1> QED BY <1>1, <1>2, <1>3, <1>4, <1>5, <1>6, <1>7, <1>8, <1>9, <1>10, <1>11 DEF Next

-----------------------------------------------------------------------------
(* Every step keeps the count. *)

\* What the file may say of a date: no more than was sent, nor than the budget.
FileCounted(f) == f.used <= Budget /\ (f.day \in Days => f.day <= today /\ f.used <= sent[f.day])

(* A save of a sound count leaves a sound file. *)
LEMMA SavedCount ==
  ASSUME TypeOK, Counted, NEW s, NEW u \in Nat, NEW d \in Days,
         Saving(s, u, d), u <= Budget, d <= today, u <= sent[d]
  PROVE  FileCounted(file')
  <1>1. CASE file' = [spoken |-> Live(s), used |-> u, day |-> d]
    BY <1>1 DEF FileCounted
  <1>2. CASE file' = file
    BY <1>2 DEF FileCounted, Counted
  <1>3. CASE file' = Blank
    BY <1>3, Numbers DEF FileCounted, Blank
  <1> QED BY <1>1, <1>2, <1>3 DEF Saving

LEMMA CountedKept == IInv /\ [Next]_vars => Counted'
  <1> SUFFICES ASSUME IInv, [Next]_vars PROVE Counted'
    OBVIOUS
  <1>t. /\ TypeOK /\ Counted /\ used \in Nat /\ day \in Days \cup {Never} /\ today \in Days
        /\ sent \in [Days -> Nat] /\ forgot \in [Days -> Nat] /\ file \in Saved
    BY DEF IInv, TypeOK
  <1>n. Days \subseteq Nat /\ Never \notin Days /\ Budget \in Nat
    BY Numbers
  <1>f. FileCounted(file)
    BY <1>t DEF Counted, FileCounted
  <1>r. ASSUME UNCHANGED <<used, day, today, sent, forgot>>, FileCounted(file'),
               tick'.phase = tick.phase \/ (tick.phase # "out" /\ tick'.phase = "idle")
        PROVE  Counted'
    BY <1>r, <1>t DEF Counted, FileCounted, Out, BudgetHolds
  <1>1. CASE TickStart
    <2>1. /\ tick.phase = "idle" /\ used' = UsedToday /\ day' = today
          /\ UNCHANGED <<today, sent, forgot>>
          /\ \/ UsedToday < Budget /\ tick'.phase = "sources"
             \/ tick'.phase = "idle"
          /\ Save(spoken, used', day') \/ file' = file
      BY <1>1, <1>t, Starts DEF Idle, world
    <2>2. used' \in Nat /\ used' <= Budget /\ used' <= sent[today]
      BY <2>1, <1>t, <1>n DEF UsedToday, Counted
    <2>3. sent[today] = used' + forgot[today]
      BY <2>1, <1>t, <1>n DEF UsedToday, Counted, Out
    <2>4. FileCounted(file')
      <3>1. CASE Save(spoken, used', day')
        <4>1. Saving(spoken, used', day')
          BY <3>1, <1>t, SaveCases
        <4> QED BY <4>1, <2>1, <2>2, <1>t, <1>n, SavedCount
      <3>2. CASE file' = file
        BY <3>2, <1>f
      <3> QED BY <2>1, <3>1, <3>2
    <2>5. Out' = 0
      BY <2>1 DEF Out
    <2>6. tick'.phase # "idle" => used' < Budget
      BY <2>1
    <2> QED BY <2>1, <2>2, <2>3, <2>4, <2>5, <2>6, <1>t, <1>n DEF Counted, FileCounted, BudgetHolds
  <1>2. CASE Sources
    <2>1. UNCHANGED <<used, day, today, sent, forgot, file>> /\ tick.phase = "sources"
      BY <1>2 DEF Sources, engine, world, history
    <2>2. tick'.phase = "select"
      BY <1>2, <1>t DEF Sources, TypeOK
    <2> QED BY <2>1, <2>2, <1>t, <1>f DEF Counted, FileCounted, Out, BudgetHolds
  <1>3. CASE Select
    <2>1. UNCHANGED <<used, day, today, sent, forgot>> /\ tick.phase = "select"
      BY <1>3 DEF Select, world
    <2>2. /\ tick'.phase \in {"idle", "emit"}
          /\ Save(spoken, used, day) \/ file' = file
      <3>1. CASE GiveUp
        BY <3>1 DEF GiveUp, Idle
      <3>2. CASE ~GiveUp
        <4>1. PICK l \in Lines : tick' = [tick EXCEPT !.phase = "emit", !.line = l] /\ file' = file
          BY <1>3, <1>t, <3>2, Selects
        <4>2. tick'.phase = "emit"
          BY <4>1, <1>t DEF TypeOK
        <4> QED BY <4>1, <4>2
      <3> QED BY <3>1, <3>2
    <2>3. FileCounted(file')
      <3>1. day \in Days /\ day <= today /\ used <= Budget /\ used <= sent[day]
        BY <2>1, <1>t DEF Counted, TypeOK
      <3> QED BY <2>2, <3>1, <1>t, <1>f, SaveCases, SavedCount
    <2> QED BY <2>1, <2>2, <2>3, <1>t DEF Counted, FileCounted, Out, BudgetHolds
  <1>4. CASE Deliver
    <2>1. /\ tick.phase = "emit" /\ day \in Days /\ sent' = [sent EXCEPT ![day] = @ + 1]
          /\ UNCHANGED <<used, day, today, forgot, file>>
      BY <1>4, <1>t, Delivers DEF engine, world
    <2>2. tick'.phase = "out"
      BY <1>4, <1>t, Delivers DEF TypeOK
    <2>3. sent[day] = used + forgot[day] /\ used < Budget /\ day <= today
      BY <2>1, <1>t DEF Counted, Out
    <2>4. /\ \A d \in Days : sent'[d] = IF d = day THEN sent[d] + 1 ELSE sent[d]
          /\ \A d \in Days : sent[d] \in Nat /\ forgot[d] \in Nat
      BY <2>1, <1>t
    <2> QED BY <2>1, <2>2, <2>3, <2>4, <1>t, <1>n DEF Counted, Out, BudgetHolds, Saved
  <1>5. CASE EmitFails
    <2>1. /\ UNCHANGED <<used, day, today>> /\ tick.phase = "emit" /\ tick'.phase = "idle"
          /\ day \in Days /\ Saving(spoken, used, day)
      BY <1>5, <1>t, Fails DEF world, Idle
    <2>2. /\ sent[day] = used + forgot[day] /\ day <= today /\ used <= Budget /\ used <= sent[day]
      BY <2>1, <1>t DEF Counted, Out, TypeOK
    <2>3. FileCounted(file')
      BY <2>1, <2>2, <1>t, SavedCount
    <2>4. CASE UNCHANGED <<sent, forgot>>
      BY <2>1, <2>3, <2>4, <1>t, <1>r
    <2>5. CASE sent' = [sent EXCEPT ![day] = @ + 1] /\ forgot' = [forgot EXCEPT ![day] = @ + 1]
      <3>1. /\ \A d \in Days : /\ sent'[d] = IF d = day THEN sent[d] + 1 ELSE sent[d]
                               /\ forgot'[d] = IF d = day THEN forgot[d] + 1 ELSE forgot[d]
            /\ \A d \in Days : sent[d] \in Nat /\ forgot[d] \in Nat
        BY <2>5, <1>t
      <3>2. FileCounted(file') /\ \A d \in Days : sent'[d] >= sent[d]
        BY <2>3, <3>1
      <3>3. /\ file'.day \in Days => file'.day <= today /\ file'.used <= sent'[file'.day]
            /\ file'.used <= Budget
        <4>1. file' \in Saved
          BY <1>t, TypesKept DEF IInv, TypeOK
        <4> QED BY <3>1, <3>2, <4>1 DEF FileCounted, Saved
      <3>4. BudgetHolds'
        BY <2>1, <3>1, <1>t, <1>n DEF Counted, BudgetHolds
      <3>5. Out' = 0
        BY <2>1 DEF Out
      <3> QED BY <2>1, <2>2, <3>1, <3>3, <3>4, <3>5, <1>t, <1>n DEF Counted
    <2> QED BY <1>5, <1>t, <2>4, <2>5, Fails
  <1>6. CASE Book
    <2>1. /\ tick.phase = "out" /\ tick'.phase = "idle" /\ day \in Days /\ used' = used + 1
          /\ UNCHANGED <<day, today, sent, forgot>> /\ Saving(spoken', used', day)
      BY <1>6, <1>t, Books DEF world, Idle
    <2>2. sent[day] = used + forgot[day] + 1 /\ used < Budget /\ day <= today
      BY <2>1, <1>t DEF Counted, Out
    <2>3. used' \in Nat /\ used' <= Budget /\ used' <= sent[day] /\ sent[day] = used' + forgot[day]
      BY <2>1, <2>2, <1>t, <1>n
    <2>4. FileCounted(file')
      BY <2>1, <2>2, <2>3, <1>t, SavedCount
    <2> QED BY <2>1, <2>2, <2>3, <2>4, <1>t DEF Counted, FileCounted, Out, BudgetHolds
  <1>7. ASSUME NEW verdict \in {"positive", "negative", "neutral"}, Reply(verdict) PROVE Counted'
    <2>1. /\ UNCHANGED <<used, day, today, sent, forgot, tick>>
          /\ Saving(spoken, used, day) /\ used <= Budget
      BY <1>7, <1>t, Replies DEF Reply, world, Counted
    <2>2. FileCounted(file')
      <3>1. CASE day \in Days
        <4>1. day <= today /\ used <= Budget /\ used <= sent[day]
          BY <3>1, <1>t DEF Counted
        <4> QED BY <2>1, <3>1, <4>1, <1>t, SavedCount
      <3>2. CASE day \notin Days
        BY <2>1, <3>2, <1>f, <1>n DEF Saving, FileCounted, Blank
      <3> QED BY <3>1, <3>2
    <2> QED BY <2>1, <2>2, <1>r
  <1>8. CASE Pass
    <2>1. /\ UNCHANGED <<used, day, sent, forgot, file, tick>>
          /\ today' = today \/ today' = today + 1
          /\ today' \in Days
      BY <1>8, <1>t, TypesKept DEF Pass, engine, history, TypeOK
    <2>2. CASE today' = today
      BY <2>1, <2>2, <1>t, <1>r, <1>f
    <2>3. CASE today' = today + 1
      <3>1. today' \in Days /\ today < today' /\ today' \in Nat /\ today \in Nat
        BY <2>1, <2>3, <1>t, <1>n
      <3>2. day # today' /\ (day \in Days => day <= today')
        BY <3>1, <1>t, <1>n DEF Counted
      <3>3. sent[today'] = 0 /\ forgot[today'] = 0
        BY <3>1, <1>t DEF Counted
      <3>4. \A d \in Days : d > today' => d > today
        BY <3>1, <1>n
      <3>5. file.day \in Days => file.day <= today'
        <4>1. file.day \in Days => file.day <= today
          BY <1>f DEF FileCounted
        <4>2. \A d \in Days : d <= today => d <= today'
          BY <3>1, <1>n
        <4> QED BY <4>1, <4>2
      <3> QED BY <2>1, <3>2, <3>3, <3>4, <3>5, <1>t DEF Counted, Out, BudgetHolds
    <2> QED BY <2>1, <2>2, <2>3
  <1>9. CASE SetMode
    BY <1>9, <1>f, <1>r DEF SetMode, engine
  <1>10. CASE Restart
    <2>1. /\ used' = file.used /\ day' = file.day /\ tick'.phase = "idle"
          /\ UNCHANGED <<file, today, sent>>
          /\ forgot' = [forgot EXCEPT ![today] =
                          sent[today] - (IF file.day = today THEN file.used ELSE 0)]
      BY <1>10 DEF Restart, Load, Idle
    <2>2. \A d \in Days : forgot'[d] = IF d = today
                             THEN sent[today] - (IF file.day = today THEN file.used ELSE 0)
                             ELSE forgot[d]
      BY <2>1, <1>t
    <2>3. \A d \in Days : sent[d] \in Nat /\ forgot[d] \in Nat
      BY <1>t
    <2>4. file.used \in Nat /\ file.day \in Days \cup {Never}
      BY <1>t DEF Saved
    <2>5. Out' = 0
      BY <2>1 DEF Out
    <2> QED BY <2>1, <2>2, <2>3, <2>4, <2>5, <1>t, <1>n, <1>f DEF Counted, FileCounted, BudgetHolds
  <1>11. CASE UNCHANGED vars
    BY <1>11, <1>f, <1>r DEF vars, engine, world, history
  <1> QED BY <1>1, <1>2, <1>3, <1>4, <1>5, <1>6, <1>7, <1>8, <1>9, <1>10, <1>11 DEF Next

-----------------------------------------------------------------------------
(* Every step keeps what suppresses a repeat. *)

\* No line that was saved comes round again within its window: the engine
\* knows it, or its time is over.
Known(l) ==
  kept[l] # Never =>
    \/ spoken[l] # Never /\ kept[l] <= spoken[l]
    \/ Now - kept[l] >= Window

\* And so does the file.
Filed(l) == kept[l] # Never => file.spoken[l] = kept[l] \/ clock - kept[l] >= Window

(* A save of what the engine knows leaves it known and filed. *)
LEMMA SavedLines ==
  ASSUME TypeOK, Suppressed, NEW u, NEW d, Saving(spoken', u, d), clock' = clock,
         spoken' \in Spoken, Now' = clock,
         NEW l \in Lines, kept[l] # Never =>
           \/ spoken'[l] # Never /\ kept[l] <= spoken'[l]
           \/ clock - kept[l] >= Window
  PROVE  Known(l)' /\ Filed(l)'
  <1>1. clock \in Nat /\ spoken'[l] \in Nat \cup {Never} /\ kept[l] \in Nat \cup {Never} /\ Window \in Nat
    BY Numbers DEF TypeOK, Spoken
  <1>2. CASE file' = [spoken |-> Live(spoken'), used |-> u, day |-> d] /\ kept' = spoken'
    <2>1. file'.spoken[l] = IF spoken'[l] # Never /\ clock - spoken'[l] < Window THEN spoken'[l] ELSE Never
      BY <1>2 DEF Live
    <2> QED BY <1>1, <1>2, <2>1 DEF Known, Filed
  <1>3. CASE file' = file /\ kept' = kept
    BY <1>1, <1>3 DEF Known, Filed, Suppressed
  <1>4. CASE kept' = Blank.spoken
    BY <1>4 DEF Blank, Known, Filed
  <1> QED BY <1>2, <1>3, <1>4 DEF Saving

LEMMA SuppressedKept == IInv /\ [Next]_vars => Suppressed'
  <1> SUFFICES ASSUME IInv, [Next]_vars PROVE Suppressed'
    OBVIOUS
  <1>t. /\ TypeOK /\ TypeOK' /\ Suppressed /\ clock \in Nat /\ tick.now \in Nat /\ tick.now <= clock
        /\ spoken \in Spoken /\ kept \in Spoken
    BY TypesKept, Numbers DEF IInv, TypeOK, Suppressed
  <1>n. /\ Window \in Nat \ {0} /\ Now \in Nat /\ Now <= clock
        /\ \A l \in Lines : spoken[l] \in Nat \cup {Never} /\ kept[l] \in Nat \cup {Never}
    <2>1. \A l \in Lines : spoken[l] \in Nat \cup {Never} /\ kept[l] \in Nat \cup {Never}
      BY <1>t, Numbers DEF Spoken
    <2>2. Now \in Nat /\ Now <= clock
      BY <1>t DEF Now
    <2> QED BY <2>1, <2>2, Numbers
  <1>k. \A l \in Lines : Known(l) /\ Filed(l)
    BY <1>t DEF Suppressed, Known, Filed
  <1>s. SUFFICES /\ tick'.now <= clock'
                 /\ \A l \in Lines : Known(l)' /\ Filed(l)'
                 /\ tick'.phase \in {"emit", "out"} =>
                      spoken'[tick'.line] = Never \/ tick'.now - spoken'[tick'.line] >= Window
    BY DEF Suppressed, Known, Filed
  <1>i. /\ Idle.phase = "idle" /\ Idle.now = 0
        /\ (tick' = Idle => Now' = clock' /\ tick'.now <= clock')
    BY <1>t, Numbers DEF Idle, Now, TypeOK
  \* Nothing is saved, and time does not run backwards.
  <1>u. ASSUME UNCHANGED <<spoken, file, kept>>, clock' >= clock, Now' >= Now, NEW l \in Lines
        PROVE  Known(l)' /\ Filed(l)'
    <2>1. Now' \in Nat /\ clock' \in Nat
      BY <1>t, Numbers DEF TypeOK, Now
    <2> QED BY <2>1, <1>u, <1>k, <1>n, <1>t DEF Known, Filed
  \* The engine saves as much as it knew, as its tick ends.
  <1>v. ASSUME UNCHANGED <<spoken, clock>>, Now' = clock, NEW u, NEW d, Saving(spoken, u, d),
               NEW l \in Lines
        PROVE  Known(l)' /\ Filed(l)'
    <2>1. kept[l] # Never => \/ spoken'[l] # Never /\ kept[l] <= spoken'[l]
                             \/ clock - kept[l] >= Window
      BY <1>v, <1>k, <1>n, <1>t DEF Known
    <2> QED BY <1>v, <2>1, <1>t, SavedLines
  <1>1. CASE TickStart
    <2>1. UNCHANGED <<spoken, clock>> /\ tick.phase = "idle" /\ tick'.phase \in {"idle", "sources"}
      BY <1>1, <1>t, <1>i, Starts DEF world
    <2>2. Now' = clock /\ Now = clock /\ tick'.now <= clock'
      BY <1>1, <1>t, <1>i, Starts DEF Now, world
    <2>3. \A l \in Lines : Known(l)' /\ Filed(l)'
      <3>1. CASE Save(spoken, used', day')
        <4>1. Saving(spoken, used', day')
          BY <3>1, <1>t, SaveCases
        <4> QED BY <4>1, <2>1, <2>2, <1>v
      <3>2. CASE UNCHANGED <<file, kept, faults>>
        BY <3>2, <2>1, <2>2, <1>u, <1>t
      <3> QED BY <3>1, <3>2, <1>1, <1>t, Starts
    <2> QED BY <2>1, <2>2, <2>3
  <1>2. CASE Sources
    <2>1. UNCHANGED <<spoken, file, clock, kept>> /\ tick.phase = "sources"
      BY <1>2 DEF Sources, engine, world, history
    <2>2. tick'.phase = "select" /\ tick'.now = tick.now
      BY <1>2, <1>t DEF Sources, TypeOK
    <2>3. Now' = Now
      BY <2>1, <2>2 DEF Now
    <2> QED BY <2>1, <2>2, <2>3, <1>t, <1>n, <1>u
  <1>3. CASE Select
    <2>1. UNCHANGED <<spoken, clock>> /\ tick.phase = "select"
      BY <1>3 DEF Select, world
    <2>2. CASE GiveUp
      <3>1. tick' = Idle /\ Saving(spoken, used, day)
        BY <2>2, <1>t, SaveCases DEF GiveUp
      <3> QED BY <2>1, <3>1, <1>i, <1>v
    <2>3. ASSUME NEW l \in Lines, ~RecentlySaid(l), UNCHANGED <<file, kept, faults>>,
                 tick' = [tick EXCEPT !.phase = "emit", !.line = l]
          PROVE  /\ tick'.now <= clock'
                 /\ \A m \in Lines : Known(m)' /\ Filed(m)'
                 /\ spoken'[tick'.line] = Never \/ tick'.now - spoken'[tick'.line] >= Window
      <3>1. tick'.phase = "emit" /\ tick'.line = l /\ tick'.now = tick.now
        BY <2>3, <1>t DEF TypeOK
      <3>2. Now' = Now
        BY <2>1, <3>1 DEF Now
      <3>3. spoken[l] = Never \/ tick.now - spoken[l] >= Window
        BY <2>3, <1>t, <1>n DEF RecentlySaid
      <3> QED BY <2>1, <2>3, <3>1, <3>2, <3>3, <1>t, <1>n, <1>u
    <2> QED BY <1>3, <1>t, <2>2, <2>3, Selects
  <1>4. CASE Deliver
    <2>1. UNCHANGED <<spoken, file, clock, kept>> /\ tick.phase = "emit"
      BY <1>4, <1>t, Delivers DEF engine, world
    <2>2. tick'.phase = "out" /\ tick'.now = tick.now /\ tick'.line = tick.line
      BY <1>4, <1>t, Delivers DEF TypeOK
    <2>3. Now' = Now
      BY <2>1, <2>2 DEF Now
    <2>4. spoken[tick.line] = Never \/ tick.now - spoken[tick.line] >= Window
      BY <2>1, <1>t DEF Suppressed
    <2> QED BY <2>1, <2>2, <2>3, <2>4, <1>t, <1>n, <1>u
  <1>5. CASE EmitFails
    <2>1. UNCHANGED <<spoken, clock>> /\ tick' = Idle /\ Saving(spoken, used, day)
      BY <1>5, <1>t, Fails DEF world
    <2> QED BY <2>1, <1>i, <1>v
  <1>6. CASE Book
    <2>1. /\ tick.phase = "out" /\ tick' = Idle /\ tick.line \in Lines /\ clock' = clock
          /\ spoken' = [spoken EXCEPT ![tick.line] = tick.now] /\ Saving(spoken', used', day)
      BY <1>6, <1>t, Books DEF world
    <2>2. spoken[tick.line] = Never \/ tick.now - spoken[tick.line] >= Window
      BY <2>1, <1>t DEF Suppressed
    <2>3. Now = tick.now
      BY <2>1 DEF Now
    <2>4. ASSUME NEW l \in Lines, kept[l] # Never
          PROVE  \/ spoken'[l] # Never /\ kept[l] <= spoken'[l]
                 \/ clock - kept[l] >= Window
      <3>1. spoken'[l] = IF l = tick.line THEN tick.now ELSE spoken[l]
        BY <2>1, <1>t DEF Spoken
      <3>2. kept[l] \in Nat /\ tick.now # Never
        BY <2>4, <1>n, <1>t, SentinelAssumption
      <3>3. Known(l)
        BY <1>k
      <3>4. CASE l = tick.line
        BY <3>1, <3>2, <3>3, <3>4, <2>2, <2>3, <2>4, <1>n, <1>t DEF Known
      <3>5. CASE l # tick.line
        BY <3>1, <3>2, <3>3, <3>5, <2>3, <2>4, <1>n, <1>t DEF Known
      <3> QED BY <3>4, <3>5
    <2>5. \A l \in Lines : Known(l)' /\ Filed(l)'
      BY <2>1, <2>4, <1>i, <1>t, SavedLines DEF TypeOK
    <2> QED BY <2>1, <2>5, <1>i
  <1>7. ASSUME NEW verdict \in {"positive", "negative", "neutral"}, Reply(verdict)
        PROVE  Suppressed'
    <2>1. /\ UNCHANGED <<spoken, clock, tick>>
          /\ Saving(spoken, used, day)
      BY <1>7, <1>t, Replies DEF Reply, world
    <2>2. \A l \in Lines : Known(l)' /\ Filed(l)'
      <3>1. Now' = Now
        BY <2>1 DEF Now
      <3>2. CASE UNCHANGED <<file, kept>>
        BY <3>2, <3>1, <2>1, <1>u, <1>t, <1>n
      <3>3. CASE ~UNCHANGED <<file, kept>>
        <4>1. \/ file' = [spoken |-> Live(spoken), used |-> used, day |-> day] /\ kept' = spoken
              \/ kept' = Blank.spoken
          BY <2>1, <3>3 DEF Saving
        <4>2. ASSUME NEW l \in Lines, kept' = spoken,
                     file' = [spoken |-> Live(spoken), used |-> used, day |-> day]
              PROVE  Known(l)' /\ Filed(l)'
          <5>1. file'.spoken[l] = IF spoken[l] # Never /\ clock - spoken[l] < Window
                                  THEN spoken[l] ELSE Never
            BY <4>2 DEF Live
          <5> QED BY <4>2, <5>1, <2>1, <1>n, <1>t DEF Known, Filed
        <4>3. ASSUME NEW l \in Lines, kept' = Blank.spoken PROVE Known(l)' /\ Filed(l)'
          BY <4>3 DEF Known, Filed, Blank
        <4> QED BY <4>1, <4>2, <4>3
      <3> QED BY <3>2, <3>3
    <2> QED BY <2>1, <2>2, <1>t DEF Suppressed, Known, Filed
  <1>8. CASE Pass
    <2>1. UNCHANGED <<spoken, file, kept, tick>> /\ clock' = clock + 1
      BY <1>8 DEF Pass, engine, history
    <2>2. Now' >= Now
      BY <2>1, <1>t DEF Now
    <2> QED BY <2>1, <2>2, <1>t, <1>u DEF Suppressed
  <1>9. CASE SetMode
    <2>1. UNCHANGED <<spoken, file, kept, tick, clock>>
      BY <1>9 DEF SetMode, engine
    <2>2. Now' = Now
      BY <2>1 DEF Now
    <2> QED BY <2>1, <2>2, <1>t, <1>n, <1>u DEF Suppressed
  <1>10. CASE Restart
    <2>1. spoken' = file.spoken /\ tick' = Idle /\ UNCHANGED <<file, clock, kept>>
      BY <1>10 DEF Restart, Load
    <2>2. ASSUME NEW l \in Lines PROVE Known(l)' /\ Filed(l)'
      BY <2>1, <1>i, <1>k, <1>n, <1>t DEF Known, Filed
    <2> QED BY <2>1, <2>2, <1>i
  <1>11. CASE UNCHANGED vars
    <2>1. UNCHANGED <<spoken, file, kept, tick, clock>>
      BY <1>11 DEF vars, engine, world, history
    <2>2. Now' = Now
      BY <2>1 DEF Now
    <2> QED BY <2>1, <2>2, <1>t, <1>n, <1>u DEF Suppressed
  <1> QED BY <1>1, <1>2, <1>3, <1>4, <1>5, <1>6, <1>7, <1>8, <1>9, <1>10, <1>11 DEF Next, Suppressed, Known, Filed

-----------------------------------------------------------------------------
(* Every step keeps the ledger's chances. *)

\* What the tick knows of the ledger: a line that is a re-raise was due.
Ticking ==
  /\ tick.phase \in {"emit", "out"} /\ tick.line.again => tick.line.key \in tick.due
  /\ tick.phase \in {"idle", "sources"} => tick.due = {}
  /\ tick.phase = "out" /\ tick.line.again => chances[tick.line.key] > 0

LEMMA RowKeys ==
  ASSUME TypeOK
  PROVE  /\ DOMAIN rows = 1..Len(rows) /\ Len(rows) \in Nat
         /\ \A i \in DOMAIN rows : rows[i].key \in Keys
  <1>1. rows \in Seq(Row)
    BY DEF TypeOK
  <1>2. \A r \in Row : r.key \in Keys
    BY DEF Row
  <1>3. \A i \in DOMAIN rows : rows[i] \in Row
    BY <1>1
  <1> QED BY <1>1, <1>2, <1>3

(* A step that delivers and records nothing keeps the count of every key, if it
   keeps the rows and takes down what it drops. *)
LEMMA ChancesStand ==
  ASSUME TypeOK, TypeOK', Chances, UNCHANGED <<noted, chances>>,
         Len(rows') = Len(rows),
         \A i \in DOMAIN rows : /\ rows'[i].key = rows[i].key
                                /\ rows'[i].reraised = rows[i].reraised,
         \A k \in Keys : slipped'[k] + Raised(k)' = slipped[k] + Raised(k),
         \A k \in Keys : slipped'[k] >= slipped[k],
         tick'.due \subseteq tick.due, Ticking'
  PROVE  Chances'
  <1>1. DOMAIN rows' = DOMAIN rows
    <2>1. rows' \in Seq(Row) /\ rows \in Seq(Row)
      BY DEF TypeOK
    <2> QED BY <2>1
  <1>2. \A i \in DOMAIN rows : rows[i].key \in Keys
    BY RowKeys
  <1>3. SpentMeansHeard'
    BY <1>1, <1>2 DEF Chances, SpentMeansHeard
  <1>4. /\ \A i \in DOMAIN rows' : noted'[rows'[i].key] > 0
        /\ \A i, j \in DOMAIN rows' : rows'[i].key = rows'[j].key /\ noted'[rows'[i].key] = 1 => i = j
    BY <1>1 DEF Chances
  <1>5. \A k \in Keys : Unspent(k)' <=> Unspent(k)
    BY <1>1 DEF Unspent
  <1>6. /\ \A k \in Keys : noted[k] \in Nat /\ chances[k] \in Nat /\ slipped[k] \in Nat
        /\ \A k \in Keys : slipped'[k] \in Nat
    BY DEF TypeOK
  <1>7. \A k \in Keys : noted'[k] = 0 => chances'[k] = 0 /\ k \notin tick'.due
    BY DEF Chances
  <1>8. \A k \in Keys : noted'[k] = 1 => chances'[k] <= slipped'[k] + 1
    BY <1>6 DEF Chances
  <1>9. \A k \in Keys : noted'[k] = 1 /\ Unspent(k)' => chances'[k] <= slipped'[k] + Raised(k)'
    BY <1>5, <1>6 DEF Chances
  <1>10. \A k \in Keys : noted'[k] = 1 /\ k \in tick'.due => Unspent(k)'
    BY <1>5 DEF Chances
  <1> QED BY <1>3, <1>4, <1>7, <1>8, <1>9, <1>10 DEF Chances, Ticking

(* So does a step that ends the tick with nothing out, *)
LEMMA ChancesIdle ==
  ASSUME TypeOK, TypeOK', Chances, UNCHANGED <<noted, chances, rows, slipped>>,
         tick.phase # "out", tick' = Idle
  PROVE  Chances'
  <1>1. tick'.phase = "idle" /\ tick'.due = {}
    BY DEF Idle
  <1>2. \A k \in Keys : Raised(k) = 0 /\ Raised(k)' = 0
    BY <1>1 DEF Raised
  <1>3. \A k \in Keys : slipped[k] \in Nat
    BY DEF TypeOK
  <1>4. Ticking'
    BY <1>1 DEF Ticking
  <1> QED BY <1>1, <1>2, <1>3, <1>4, ChancesStand

(* and one that ends it with a line out and notes what the ledger has missed. *)
LEMMA ChancesSlip ==
  ASSUME TypeOK, TypeOK', Chances, UNCHANGED <<noted, chances, rows>>,
         tick' = Idle, tick.line \in Lines, tick.phase = "out", slipped' = Unrecorded(tick.line)
  PROVE  Chances'
  <1>1. tick'.phase = "idle" /\ tick'.due = {}
    BY DEF Idle
  <1>2. \A k \in Keys : /\ slipped[k] \in Nat /\ Raised(k)' = 0
                        /\ slipped'[k] = slipped[k] + Raised(k)
    <2>1. \A k \in Keys : slipped[k] \in Nat
      BY DEF TypeOK
    <2>2. \A k \in Keys : slipped'[k] = IF tick.line = Again(k) THEN slipped[k] + 1 ELSE slipped[k]
      BY Slips
    <2>3. \A k \in Keys : /\ Raised(k)' = 0
                          /\ Raised(k) = IF tick.line = Again(k) THEN 1 ELSE 0
      BY <1>1 DEF Raised
    <2> QED BY <2>1, <2>2, <2>3
  <1>3. \A k \in Keys : Raised(k) \in Nat
    BY DEF Raised
  <1>4. Ticking'
    BY <1>1 DEF Ticking
  <1> QED BY <1>1, <1>2, <1>3, <1>4, ChancesStand

(* A line that arrived though it was reported failed is one chance more of a  *)
(* key that was re-raised, and one more that the ledger has not taken down.   *)
LEMMA ChancesUnbooked ==
  ASSUME TypeOK, TypeOK', Chances, UNCHANGED <<rows, noted>>,
         tick' = Idle, tick.line \in Lines, tick.phase = "emit",
         chances' = IF tick.line.again THEN [chances EXCEPT ![tick.line.key] = @ + 1] ELSE chances,
         slipped' = Unrecorded(tick.line)
  PROVE  Chances'
  <1> DEFINE q == tick.line.key
  <1> DEFINE more(k) == IF tick.line = Again(k) THEN 1 ELSE 0
  <1>1. tick'.phase = "idle" /\ tick'.due = {} /\ q \in Keys
    BY DEF Idle, Lines
  <1>2. \A k \in Keys : /\ noted[k] \in Nat /\ chances[k] \in Nat /\ slipped[k] \in Nat
                        /\ Raised(k) = 0 /\ Raised(k)' = 0 /\ (Unspent(k)' <=> Unspent(k))
    BY <1>1 DEF TypeOK, Raised, Unspent
  <1>3. \A k \in Keys : tick.line = Again(k) <=> tick.line.again /\ q = k
    BY AgainLines
  <1>4. \A k \in Keys : slipped'[k] = slipped[k] + more(k) /\ chances'[k] = chances[k] + more(k)
    <2>1. \A k \in Keys : slipped'[k] = IF tick.line = Again(k) THEN slipped[k] + 1 ELSE slipped[k]
      BY Slips
    <2>2. \A k \in Keys : chances'[k] = IF tick.line = Again(k) THEN chances[k] + 1 ELSE chances[k]
      BY <1>1, <1>3 DEF TypeOK
    <2> QED BY <1>2, <2>1, <2>2
  <1>5. \A k \in Keys : noted[k] = 0 => chances[k] = 0 /\ more(k) = 0
    BY <1>3 DEF Chances
  <1>6. \A k \in Keys : more(k) \in Nat
    OBVIOUS
  <1> HIDE DEF more, q
  <1>7. \A k \in Keys : /\ noted[k] = 0 => chances'[k] = 0
                        /\ noted[k] = 1 => chances'[k] <= slipped'[k] + 1
                        /\ noted[k] = 1 /\ Unspent(k) => chances'[k] <= slipped'[k]
                        /\ chances[k] > 0 => chances'[k] > 0
    BY <1>2, <1>4, <1>5, <1>6 DEF Chances
  <1>8. SpentMeansHeard'
    <2>1. \A i \in DOMAIN rows : rows[i].key \in Keys
      BY RowKeys
    <2> QED BY <1>7, <2>1 DEF Chances, SpentMeansHeard
  <1>9. /\ \A i \in DOMAIN rows' : noted'[rows'[i].key] > 0
        /\ \A i, j \in DOMAIN rows' : rows'[i].key = rows'[j].key /\ noted'[rows'[i].key] = 1 => i = j
    BY DEF Chances
  <1>10. /\ \A k \in Keys : noted'[k] = 0 => chances'[k] = 0 /\ k \notin tick'.due
         /\ \A k \in Keys : noted'[k] = 1 => chances'[k] <= slipped'[k] + 1
         /\ \A k \in Keys : noted'[k] = 1 /\ k \in tick'.due => Unspent(k)'
    BY <1>1, <1>7
  <1>11. \A k \in Keys : noted'[k] = 1 /\ Unspent(k)' => chances'[k] <= slipped'[k] + Raised(k)'
    <2>1. \A k \in Keys : slipped'[k] + Raised(k)' = slipped'[k]
      BY <1>2 DEF TypeOK
    <2> QED BY <1>2, <1>7, <2>1
  <1> QED BY <1>1, <1>8, <1>9, <1>10, <1>11 DEF Chances

(* A step that leaves the ledger and the tick alone disturbs nothing. *)
LEMMA ChancesAlone ==
  ASSUME Chances, UNCHANGED <<noted, chances, rows, slipped, tick>>
  PROVE  Chances'
  BY DEF Chances, SpentMeansHeard, Unspent, Raised

(* A re-raise that is booked spends the key's one chance. *)
LEMMA ChancesSpent ==
  ASSUME TypeOK, TypeOK', Chances, UNCHANGED <<noted, chances, slipped>>,
         tick' = Idle, tick.line \in Lines, tick.phase = "out", tick.line.again,
         rows' = Reraised(tick.line.key)
  PROVE  Chances'
  <1> DEFINE q == tick.line.key
  <1>1. tick'.phase = "idle" /\ tick'.due = {} /\ q \in Keys /\ chances[q] > 0
    BY DEF Idle, Lines, Chances
  <1>2. /\ DOMAIN rows' = DOMAIN rows /\ DOMAIN rows = 1..Len(rows) /\ Len(rows) \in Nat
        /\ \A i \in DOMAIN rows : /\ rows'[i].key = rows[i].key /\ rows[i].key \in Keys
                                  /\ rows'[i].reraised <=> rows[i].reraised \/ i \in Newest(q)
    <2>1. /\ rows' \in Seq(Row) /\ Len(rows') = Len(rows)
          /\ \A i \in DOMAIN rows : /\ rows'[i].key = rows[i].key
                                    /\ rows'[i].reraised <=> rows[i].reraised \/ i \in Newest(q)
      BY ReraisedRows
    <2>2. DOMAIN rows' = 1..Len(rows')
      BY <2>1
    <2> QED BY <2>1, <2>2, RowKeys
  <1>3. SpentMeansHeard'
    BY <1>1, <1>2 DEF Chances, SpentMeansHeard, Newest
  <1>4. /\ \A i \in DOMAIN rows' : noted'[rows'[i].key] > 0
        /\ \A i, j \in DOMAIN rows' : rows'[i].key = rows'[j].key /\ noted'[rows'[i].key] = 1 => i = j
    BY <1>2 DEF Chances
  <1>5. \A k \in Keys : noted'[k] = 0 => chances'[k] = 0 /\ k \notin tick'.due
    BY <1>1 DEF Chances
  <1>6. \A k \in Keys : noted'[k] = 1 => chances'[k] <= slipped'[k] + 1
    BY DEF Chances
  <1>7. ASSUME NEW k \in Keys, noted[k] = 1, Unspent(k)' PROVE chances[k] <= slipped[k] + Raised(k)'
    <2>1. PICK i \in DOMAIN rows : rows[i].key = k /\ ~rows[i].reraised /\ i \notin Newest(q)
      BY <1>2, <1>7 DEF Unspent
    <2>2. k # q
      <3>1. SUFFICES ASSUME k = q PROVE FALSE
        OBVIOUS
      <3>2. \A j \in DOMAIN rows : rows[j].key = k => j = i
        BY <1>7, <2>1 DEF Chances
      <3>3. \A j \in i+1..Len(rows) : j \in DOMAIN rows /\ j # i
        BY <1>2, <2>1
      <3>4. i \in Newest(q)
        BY <2>1, <3>1, <3>2, <3>3 DEF Newest
      <3> QED BY <2>1, <3>4
    <2>3. Unspent(k) /\ Raised(k) = 0 /\ Raised(k)' = 0
      BY <1>1, <2>1, <2>2 DEF Unspent, Raised, Again
    <2> QED BY <1>7, <2>3 DEF Chances
  <1> QED BY <1>1, <1>3, <1>4, <1>5, <1>6, <1>7 DEF Chances

(* A delivery that is recorded brings a key its first chance, or a second row. *)
LEMMA ChancesRecorded ==
  ASSUME TypeOK, TypeOK', Chances, UNCHANGED <<chances, slipped>>,
         tick' = Idle, tick.line \in Lines, tick.phase = "out", ~tick.line.again,
         rows' = Recorded(tick.line.key),
         noted' = [noted EXCEPT ![tick.line.key] = @ + 1]
  PROVE  Chances'
  <1> DEFINE q == tick.line.key
             gone == IF Len(rows) = Keep THEN 1 ELSE 0
             Old(i) == i + gone \in DOMAIN rows /\ rows'[i] = rows[i + gone]
             New(i) == i + gone = Len(rows) + 1 /\ rows'[i].key = q /\ ~rows'[i].reraised
  <1>1. tick'.phase = "idle" /\ tick'.due = {} /\ q \in Keys
    BY DEF Idle, Lines
  <1>2. \A i \in DOMAIN rows' : Old(i) \/ New(i)
    BY <1>1, RecordedRows
  <1>3. /\ DOMAIN rows = 1..Len(rows) /\ Len(rows) \in Nat /\ gone \in {0, 1}
        /\ \A i \in DOMAIN rows' : i \in Nat
        /\ \A i \in DOMAIN rows : rows[i].key \in Keys
    <2>1. \A i \in DOMAIN rows' : i \in Nat
      <3>1. rows' \in Seq(Row)
        BY DEF TypeOK
      <3> QED BY <3>1
    <2> QED BY <2>1, RowKeys
  <1>4. /\ \A k \in Keys : noted[k] \in Nat /\ chances[k] \in Nat /\ slipped[k] \in Nat
        /\ \A k \in Keys : noted'[k] = IF k = q THEN noted[k] + 1 ELSE noted[k]
    BY <1>1 DEF TypeOK
  <1>5. \A k \in Keys : Raised(k) = 0 /\ Raised(k)' = 0
    BY <1>1 DEF Raised, Again
  <1> HIDE DEF gone, Old, New
  <1>6. SpentMeansHeard'
    BY <1>2 DEF Chances, SpentMeansHeard, Old, New
  <1>7. \A i \in DOMAIN rows' : noted'[rows'[i].key] > 0
    BY <1>1, <1>2, <1>3, <1>4 DEF Chances, Old, New
  <1>8. ASSUME NEW i \in DOMAIN rows', NEW j \in DOMAIN rows',
               rows'[i].key = rows'[j].key, noted'[rows'[i].key] = 1
        PROVE  i = j
    <2>1. CASE Old(i) /\ Old(j)
      <3>1. rows[i + gone].key = rows[j + gone].key /\ noted[rows[i + gone].key] > 0
        BY <1>8, <2>1 DEF Chances, Old
      <3>2. noted[rows[i + gone].key] = 1
        BY <1>3, <1>4, <1>8, <2>1, <3>1 DEF Old
      <3>3. i + gone = j + gone
        BY <2>1, <3>1, <3>2 DEF Chances, Old
      <3> QED BY <1>3, <3>3
    <2>2. CASE New(i) /\ New(j)
      BY <1>3, <2>2 DEF New
    <2>3. \A m \in DOMAIN rows' : Old(m) /\ noted'[q] = 1 => rows'[m].key # q
      <3>1. SUFFICES ASSUME NEW m \in DOMAIN rows', Old(m), noted'[q] = 1 PROVE rows'[m].key # q
        OBVIOUS
      <3>2. noted[q] = 0
        BY <1>1, <1>4, <3>1
      <3>3. noted[rows[m + gone].key] > 0
        BY <3>1 DEF Chances, Old
      <3> QED BY <3>1, <3>2, <3>3 DEF Old
    <2> QED BY <1>2, <1>8, <2>1, <2>2, <2>3 DEF New
  <1>9. \A k \in Keys : noted'[k] = 0 => chances'[k] = 0 /\ k \notin tick'.due
    BY <1>1, <1>4 DEF Chances
  <1>10. ASSUME NEW k \in Keys, noted'[k] = 1
         PROVE  /\ chances'[k] <= slipped'[k] + 1
                /\ Unspent(k)' => chances'[k] <= slipped'[k] + Raised(k)'
    <2>1. CASE k = q
      <3>1. noted[k] = 0
        BY <1>4, <1>10, <2>1
      <3>2. chances[k] = 0
        BY <3>1 DEF Chances
      <3> QED BY <1>4, <1>5, <3>2
    <2>2. CASE k # q
      <3>1. noted[k] = 1
        BY <1>4, <1>10, <2>2
      <3>2. Unspent(k)' => Unspent(k)
        BY <1>2, <2>2 DEF Unspent, Old, New
      <3> QED BY <1>4, <1>5, <3>1, <3>2 DEF Chances
    <2> QED BY <2>1, <2>2
  <1> QED BY <1>1, <1>6, <1>7, <1>8, <1>9, <1>10 DEF Chances

LEMMA ChancesKept == IInv /\ [Next]_vars => Chances'
  <1> SUFFICES ASSUME IInv, [Next]_vars PROVE Chances'
    OBVIOUS
  <1>t. TypeOK /\ TypeOK' /\ Chances
    BY TypesKept DEF IInv
  <1>1. CASE TickStart
    <2>1. UNCHANGED <<noted, chances, rows, slipped>> /\ tick.phase = "idle"
      BY <1>1, <1>t, Starts
    <2>2. CASE tick' = Idle
      BY <2>1, <2>2, <1>t, ChancesIdle
    <2>3. CASE tick'.phase = "sources" /\ tick'.due = {}
      <3>1. Ticking' /\ \A k \in Keys : Raised(k) = 0 /\ Raised(k)' = 0
        BY <2>1, <2>3 DEF Raised, Ticking
      <3>2. \A k \in Keys : slipped[k] \in Nat
        BY <1>t DEF TypeOK
      <3> QED BY <2>1, <2>3, <3>1, <3>2, <1>t, ChancesStand
    <2> QED BY <1>1, <1>t, <2>2, <2>3, Starts
  <1>2. CASE Sources
    <2>1. /\ UNCHANGED <<noted, chances, rows, slipped>> /\ tick.phase = "sources"
          /\ tick'.phase = "select" /\ tick'.due = Due
      BY <1>2, <1>t DEF Sources, TypeOK, history
    <2>2. \A k \in Due : Unspent(k) /\ noted[k] > 0
      BY <1>t DEF Due, Unspent, Chances
    <2>3. \A k \in Keys : Raised(k) = 0 /\ Raised(k)' = 0 /\ (Unspent(k)' <=> Unspent(k))
      BY <2>1 DEF Raised, Unspent
    <2> QED BY <2>1, <2>2, <2>3, <1>t DEF Chances, SpentMeansHeard
  <1>3. CASE Select
    <2>1. UNCHANGED <<noted, chances, rows, slipped>> /\ tick.phase = "select"
      BY <1>3 DEF Select
    <2>2. CASE GiveUp
      BY <2>1, <2>2, <1>t, ChancesIdle DEF GiveUp
    <2>3. ASSUME NEW l \in Lines, l.again => l.key \in tick.due,
                 tick' = [tick EXCEPT !.phase = "emit", !.line = l]
          PROVE  Chances'
      <3>1. tick'.phase = "emit" /\ tick'.line = l /\ tick'.due = tick.due
        BY <2>3, <1>t DEF TypeOK
      <3>2. Ticking' /\ \A k \in Keys : Raised(k) = 0 /\ Raised(k)' = 0
        BY <2>1, <2>3, <3>1 DEF Raised, Ticking
      <3>3. \A k \in Keys : slipped[k] \in Nat
        BY <1>t DEF TypeOK
      <3> QED BY <2>1, <3>1, <3>2, <3>3, <1>t, ChancesStand
    <2> QED BY <1>3, <1>t, <2>2, <2>3, Selects
  <1>4. CASE Deliver
    <2> DEFINE q == tick.line.key
    <2>1. /\ tick.phase = "emit" /\ tick.line \in Lines /\ q \in Keys
          /\ UNCHANGED <<rows, noted, slipped>>
          /\ chances' = IF tick.line.again THEN [chances EXCEPT ![q] = @ + 1] ELSE chances
      BY <1>4, <1>t, Delivers
    <2>2. tick'.phase = "out" /\ tick'.line = tick.line /\ tick'.due = tick.due
      BY <1>4, <1>t, Delivers DEF TypeOK
    <2>3. \A k \in Keys : /\ noted[k] \in Nat /\ chances[k] \in Nat /\ slipped[k] \in Nat
                          /\ tick.line = Again(k) <=> tick.line.again /\ k = q
      <3>1. \A k \in Keys : tick.line = Again(k) <=> tick.line.again /\ tick.line.key = k
        BY <2>1, AgainLines
      <3> QED BY <3>1, <1>t DEF TypeOK
    <2>4. \A k \in Keys : /\ Raised(k) = 0
                          /\ Raised(k)' = IF tick.line.again /\ k = q THEN 1 ELSE 0
                          /\ chances'[k] = chances[k] + Raised(k)'
                          /\ Unspent(k)' <=> Unspent(k)
      <3>1. \A k \in Keys : /\ Raised(k) = 0
                            /\ Raised(k)' = IF tick.line.again /\ k = q THEN 1 ELSE 0
                            /\ Unspent(k)' <=> Unspent(k)
        BY <2>1, <2>2, <2>3 DEF Raised, Unspent, Again
      <3>2. \A k \in Keys : chances'[k] = IF tick.line.again /\ k = q THEN chances[k] + 1 ELSE chances[k]
        BY <2>1, <1>t DEF TypeOK
      <3> QED BY <2>3, <3>1, <3>2
    <2>5. tick.line.again => q \in tick.due /\ noted[q] # 0 /\ (noted[q] = 1 => Unspent(q))
      BY <2>1, <1>t DEF Chances
    <2>6. \A i \in DOMAIN rows : rows[i].key \in Keys
      BY <1>t, RowKeys
    <2>7. SpentMeansHeard'
      BY <2>1, <2>3, <2>4, <2>6, <1>t DEF Chances, SpentMeansHeard
    <2>8. ASSUME NEW k \in Keys
          PROVE  /\ noted[k] = 0 => chances'[k] = 0 /\ k \notin tick.due
                 /\ noted[k] = 1 => chances'[k] <= slipped[k] + 1
                 /\ noted[k] = 1 /\ Unspent(k) => chances'[k] <= slipped[k] + Raised(k)'
      BY <2>3, <2>4, <2>5, <1>t DEF Chances
    <2>9. tick'.line.again => chances'[tick'.line.key] > 0
      BY <2>1, <2>2, <2>3, <2>4
    <2> QED BY <2>1, <2>2, <2>4, <2>5, <2>7, <2>8, <2>9, <1>t DEF Chances
  <1>5. CASE EmitFails
    BY <1>5, <1>t, Fails, ChancesIdle, ChancesUnbooked
  <1>6. CASE Book
    <2>1. /\ tick.phase = "out" /\ tick' = Idle /\ tick.line \in Lines /\ chances' = chances
          /\ \/ Record(tick.line) /\ slipped' = slipped
             \/ rows' = rows /\ noted' = noted /\ slipped' = Unrecorded(tick.line)
      BY <1>6, <1>t, Books
    <2>2. CASE Record(tick.line) /\ slipped' = slipped /\ tick.line.again
      BY <2>1, <2>2, <1>t, ChancesSpent DEF Record
    <2>3. CASE Record(tick.line) /\ slipped' = slipped /\ ~tick.line.again
      BY <2>1, <2>3, <1>t, ChancesRecorded DEF Record
    <2>4. CASE rows' = rows /\ noted' = noted /\ slipped' = Unrecorded(tick.line)
      BY <2>1, <2>4, <1>t, ChancesSlip
    <2> QED BY <2>1, <2>2, <2>3, <2>4
  <1>7. ASSUME NEW verdict \in {"positive", "negative", "neutral"}, Reply(verdict)
        PROVE  Chances'
    <2>1. /\ UNCHANGED <<noted, chances, slipped, tick>>
          /\ \/ rows' = rows
             \/ \E k \in Keys, s \in {"acted", "seen"} : rows' = Marked(k, s)
      <3>1. UNCHANGED <<noted, chances, slipped, tick>>
        BY <1>7 DEF Reply
      <3>2. pending.line \in Lines
        BY <1>7, <1>t DEF Reply, TypeOK
      <3>3. rows' = rows \/ rows' = Evidence(pending.line, verdict)
              \/ rows' = Evidence(pending.line, "neutral")
        BY <1>7 DEF Reply
      <3>4. pending.line.key \in Keys
        BY <3>2 DEF Lines
      <3> QED BY <3>1, <3>3, <3>4 DEF Evidence
    <2>2. /\ Len(rows') = Len(rows)
          /\ \A i \in DOMAIN rows : /\ rows'[i].key = rows[i].key
                                    /\ rows'[i].reraised = rows[i].reraised
      BY <2>1, <1>t, MarkedRows
    <2>3. Ticking' /\ \A k \in Keys : Raised(k)' = Raised(k)
      BY <2>1, <1>t DEF Ticking, Chances, Raised
    <2>4. \A k \in Keys : slipped[k] \in Nat
      BY <1>t DEF TypeOK
    <2> QED BY <2>1, <2>2, <2>3, <2>4, <1>t, ChancesStand
  <1>8. CASE Pass
    BY <1>8, <1>t, ChancesAlone DEF Pass, history
  <1>9. CASE SetMode
    BY <1>9, <1>t, ChancesAlone DEF SetMode
  <1>10. CASE Restart
    <2>1. /\ UNCHANGED <<rows, noted, chances>> /\ tick' = Idle
          /\ slipped' = IF tick.phase = "out" THEN Unrecorded(tick.line) ELSE slipped
      BY <1>10 DEF Restart
    <2>2. CASE tick.phase = "out"
      <3>1. tick.line \in Lines
        BY <2>2, <1>t DEF TypeOK
      <3> QED BY <2>1, <2>2, <3>1, <1>t, ChancesSlip
    <2>3. CASE tick.phase # "out"
      BY <2>1, <2>3, <1>t, ChancesIdle
    <2> QED BY <2>2, <2>3
  <1>11. CASE UNCHANGED vars
    BY <1>11, <1>t, ChancesAlone DEF vars, history
  <1> QED BY <1>1, <1>2, <1>3, <1>4, <1>5, <1>6, <1>7, <1>8, <1>9, <1>10, <1>11 DEF Next

-----------------------------------------------------------------------------
(* The invariant, and what follows from it. *)

(* The four parts hold in every state, however ticks, replies, midnights,
   modes, restarts and bad writes interleave (proactive.py, delivery.py). *)
THEOREM UnpromptedInvariant == Spec => []IInv
  <1>1. Init => IInv
    BY InitIInv
  <1>2. IInv /\ [Next]_vars => IInv'
    BY TypesKept, SuppressedKept, CountedKept, MutedKept, ChancesKept DEF IInv
  <1> QED BY <1>1, <1>2, PTL DEF Spec

(* The state keeps its types, the ledger its bound (delivery.py:85). *)
THEOREM UnpromptedTypes == Spec => []TypeOK
  <1>1. IInv => TypeOK
    BY DEF IInv
  <1> QED BY <1>1, UnpromptedInvariant, PTL

(* A line is not said again within the window of a delivery that was saved,
   over restarts and midnights (proactive.py:435-437, 634-636). *)
THEOREM LinesAreNotRepeated == Spec => []NoEarlyRepeat
  <1>1. IInv => NoEarlyRepeat
    <2> SUFFICES ASSUME IInv, tick.phase \in {"emit", "out"}, kept[tick.line] # Never
                 PROVE  tick.now - kept[tick.line] >= Window
      BY DEF NoEarlyRepeat
    <2>1. /\ tick.line \in Lines /\ tick.now \in Nat /\ spoken \in Spoken /\ kept \in Spoken
          /\ Window \in Nat
      BY Numbers DEF IInv, TypeOK
    <2>2. /\ spoken[tick.line] \in Nat \cup {Never} /\ kept[tick.line] \in Nat
          /\ Now = tick.now
      BY <2>1, Numbers DEF Spoken, Now
    <2>3. \/ spoken[tick.line] # Never /\ kept[tick.line] <= spoken[tick.line]
          \/ tick.now - kept[tick.line] >= Window
      BY <2>1, <2>2 DEF IInv, Suppressed
    <2>4. spoken[tick.line] = Never \/ tick.now - spoken[tick.line] >= Window
      BY DEF IInv, Suppressed
    <2> QED BY <2>1, <2>2, <2>3, <2>4
  <1> QED BY <1>1, UnpromptedInvariant, PTL

(* A day's deliveries stay within the budget, but for those a restart no longer
   knew of (proactive.py:517-528, 459-470). *)
THEOREM DaysStayInBudget == Spec => []BudgetHolds
  <1>1. IInv => BudgetHolds
    BY DEF IInv, Counted
  <1> QED BY <1>1, UnpromptedInvariant, PTL

(* No second chance is spent unheard (delivery.py:170-176). *)
THEOREM ChancesAreHeard == Spec => []SpentMeansHeard
  <1>1. IInv => SpentMeansHeard
    BY DEF IInv, Chances
  <1> QED BY <1>1, UnpromptedInvariant, PTL

(* A delivery under a key of its own is re-raised at most once, but for the
   re-raises the ledger never took down (delivery.py:22-25). *)
THEOREM OneSecondChance == Spec => []ReraisedOnce
  <1>1. IInv => ReraisedOnce
    BY DEF IInv, Chances, ReraisedOnce, TypeOK
  <1> QED BY <1>1, UnpromptedInvariant, PTL

(* A mode lets through the line already past its check, and no other
   (proactive.py:691-700). *)
THEOREM ModesMute == Spec => []AtMostOneLate
  <1>1. IInv => AtMostOneLate
    BY DEF IInv, Muted, AtMostOneLate
  <1> QED BY <1>1, UnpromptedInvariant, PTL

-----------------------------------------------------------------------------
(* The ledger as a record of the past: rows stay in the order of their        *)
(* deliveries and only ever move forward.                                     *)

\* A row that is later than another in the life of one delivery.
Forward(before, after) ==
  /\ after.key = before.key /\ after.at = before.at
  /\ Rank(before.state) <= Rank(after.state)
  /\ before.reraised => after.reraised

\* q has every row of the ledger, none of them moved back, but the first `gone`;
\* whatever else it has is one delivery of now.
Onward(q, gone) ==
  /\ gone \in {0, 1} /\ (gone = 1 => Len(rows) = Keep)
  /\ \A i \in DOMAIN rows : i > gone => i - gone \in DOMAIN q /\ Forward(rows[i], q[i - gone])
  /\ \A i \in DOMAIN q : i + gone \notin DOMAIN rows =>
        /\ i + gone = Len(rows) + 1
        /\ q[i].state = "delivered" /\ q[i].at = clock /\ ~q[i].reraised

\* A delivery is forgotten only when the ledger is full and never goes back to
\* an earlier state, nor does its spent second chance come back, whatever the
\* owner's turns, the ticks and the failed writes do (delivery.py:45-47, 80-111).
LedgerForward == [][\E gone \in {0, 1} : Onward(rows', gone)]_vars

\* Rows are in the order of their deliveries, so the newest of a key is the last
\* one and the row that falls out is the oldest (delivery.py:85, 91-95).
LedgerInOrder ==
  /\ \A i \in DOMAIN rows : rows[i].at <= clock
  /\ \A i, j \in DOMAIN rows : i < j => rows[i].at <= rows[j].at

(* Rows, their states and their times, with nothing else of the state. *)
LEMMA RowFields ==
  ASSUME TypeOK
  PROVE  /\ rows \in Seq(Row) /\ DOMAIN rows = 1..Len(rows) /\ Len(rows) \in Nat
         /\ \A i \in DOMAIN rows : /\ rows[i] \in Row /\ rows[i].at \in Nat
                                   /\ rows[i].state \in {"delivered", "seen", "acted"}
  <1>1. rows \in Seq(Row)
    BY DEF TypeOK
  <1>2. \A r \in Row : r.at \in Nat /\ r.state \in {"delivered", "seen", "acted"}
    BY Numbers DEF Row
  <1> HIDE DEF Row
  <1>3. \A i \in DOMAIN rows : rows[i] \in Row
    BY <1>1
  <1> QED BY <1>1, <1>2, <1>3

LEMMA StaysForward ==
  ASSUME NEW r \in Row
  PROVE  Forward(r, r)
  <1>1. r.state \in {"delivered", "seen", "acted"}
    BY DEF Row
  <1> QED BY <1>1 DEF Forward, Rank

(* A recorded delivery is the new last row; a full ledger loses its first. *)
LEMMA RecordedOnward ==
  ASSUME TypeOK, NEW k \in Keys
  PROVE  Onward(Recorded(k), IF Len(rows) = Keep THEN 1 ELSE 0)
  <1> DEFINE row == [key |-> k, at |-> clock, state |-> "delivered", reraised |-> FALSE]
             all == Append(rows, row)
  <1>1. rows \in Seq(Row) /\ Len(rows) \in Nat /\ DOMAIN rows = 1..Len(rows) /\ row \in Row
    BY RowFields DEF TypeOK, Row
  <1>2. /\ all \in Seq(Row) /\ Len(all) = Len(rows) + 1 /\ all[Len(rows) + 1] = row
        /\ \A i \in 1..Len(rows) : all[i] = rows[i]
    BY <1>1
  <1>3. row.state = "delivered" /\ row.at = clock /\ ~row.reraised
    OBVIOUS
  <1>4. \A i \in 1..Len(rows) : Forward(rows[i], rows[i])
    BY <1>1, RowFields, StaysForward
  <1> HIDE DEF row, all
  <1>5. CASE Len(rows) = Keep
    <2>1. Recorded(k) = Tail(all)
      BY <1>5 DEF Recorded, all, row
    <2>2. /\ DOMAIN Tail(all) = 1..Len(rows)
          /\ \A i \in 1..Len(rows) : Tail(all)[i] = all[i + 1]
      BY <1>1, <1>2
    <2> QED BY <1>1, <1>2, <1>3, <1>4, <1>5, <2>1, <2>2 DEF Onward
  <1>6. CASE Len(rows) # Keep
    <2>1. Recorded(k) = all /\ DOMAIN all = 1..(Len(rows) + 1)
      BY <1>2, <1>6 DEF Recorded, all, row
    <2> QED BY <1>1, <1>2, <1>3, <1>4, <1>6, <2>1 DEF Onward
  <1> QED BY <1>5, <1>6

(* A mark moves the newest row of its key forward, or nothing. *)
LEMMA MarkedOnward ==
  ASSUME TypeOK, NEW k, NEW s \in {"delivered", "seen", "acted"}
  PROVE  Onward(Marked(k, s), 0)
  <1>1. \A r \in Row : Rank(r.state) < Rank(s) => Forward(r, [r EXCEPT !.state = s])
    BY DEF Row, Forward, Rank
  <1>2. DOMAIN rows = 1..Len(rows) /\ \A i \in DOMAIN rows : rows[i] \in Row
    BY RowFields
  <1> HIDE DEF Row
  <1>3. DOMAIN Marked(k, s) = DOMAIN rows
        /\ \A i \in DOMAIN rows : Forward(rows[i], Marked(k, s)[i])
    BY <1>1, <1>2, StaysForward DEF Marked
  <1> QED BY <1>2, <1>3, RowFields DEF Onward

(* A spent chance stays spent. *)
LEMMA ReraisedOnward ==
  ASSUME TypeOK, NEW k
  PROVE  Onward(Reraised(k), 0)
  <1>1. \A r \in Row : Forward(r, [r EXCEPT !.reraised = TRUE])
    BY DEF Row, Forward, Rank
  <1>2. DOMAIN rows = 1..Len(rows) /\ \A i \in DOMAIN rows : rows[i] \in Row
    BY RowFields
  <1> HIDE DEF Row
  <1>3. DOMAIN Reraised(k) = DOMAIN rows
        /\ \A i \in DOMAIN rows : Forward(rows[i], Reraised(k)[i])
    BY <1>1, <1>2, StaysForward DEF Reraised
  <1> QED BY <1>2, <1>3, RowFields DEF Onward

(* What each step does to the ledger. *)
LEMMA RowsStep ==
  ASSUME TypeOK, [Next]_vars
  PROVE  \/ rows' = rows
         \/ \E k \in Keys : rows' = Recorded(k) \/ rows' = Reraised(k)
         \/ \E k \in Keys, s \in {"seen", "acted"} : rows' = Marked(k, s)
  <1>1. CASE Book
    BY <1>1, Books DEF Record
  <1>2. ASSUME NEW verdict \in {"positive", "negative", "neutral"}, Reply(verdict)
        PROVE  rows' = rows \/ \E k \in Keys, s \in {"seen", "acted"} : rows' = Marked(k, s)
    <2>1. pending.line.key \in Keys
      BY <1>2 DEF Reply, TypeOK, Lines
    <2>2. rows' = rows \/ \E v \in {"positive", "negative", "neutral"} :
                            rows' = Evidence(pending.line, v)
      BY <1>2 DEF Reply
    <2> QED BY <2>1, <2>2 DEF Evidence
  <1>3. CASE UNCHANGED rows
    BY <1>3
  <1> QED
    BY <1>1, <1>2, <1>3
    DEF Next, vars, TickStart, Sources, Select, Deliver, EmitFails, Pass, SetMode, Restart

LEMMA StepOnward ==
  ASSUME TypeOK, [Next]_vars PROVE \E gone \in {0, 1} : Onward(rows', gone)
  <1>1. CASE rows' = rows
    <2>1. Onward(rows, 0)
      BY RowFields, StaysForward DEF Onward
    <2> QED BY <1>1, <2>1
  <1>2. ASSUME NEW k \in Keys, rows' = Recorded(k) PROVE \E gone \in {0, 1} : Onward(rows', gone)
    BY <1>2, RecordedOnward
  <1>3. ASSUME NEW k \in Keys, rows' = Reraised(k) PROVE \E gone \in {0, 1} : Onward(rows', gone)
    BY <1>3, ReraisedOnward
  <1>4. ASSUME NEW k \in Keys, NEW s \in {"seen", "acted"}, rows' = Marked(k, s)
        PROVE  \E gone \in {0, 1} : Onward(rows', gone)
    BY <1>4, MarkedOnward
  <1> QED BY <1>1, <1>2, <1>3, <1>4, RowsStep

(* Moving forward keeps the order: what stays keeps its time, what comes is of *)
(* now, and time does not go back.                                             *)
LEMMA StepInOrder ==
  ASSUME IInv, LedgerInOrder, [Next]_vars PROVE LedgerInOrder'
  <1>0. TypeOK /\ TypeOK'
    BY TypesKept DEF IInv
  <1>1. PICK gone \in {0, 1} : Onward(rows', gone)
    BY <1>0, StepOnward
  <1>2. clock \in Nat /\ clock' \in Nat /\ clock <= clock'
    <2>1. clock \in Nat /\ clock' \in Nat
      BY <1>0, Numbers DEF TypeOK
    <2>2. CASE Pass
      BY <2>1, <2>2 DEF Pass
    <2>3. CASE clock' = clock
      BY <2>1, <2>3
    <2>4. Pass \/ clock' = clock
      BY DEF Next, vars, world, TickStart, Sources, Select, Deliver, EmitFails, Book, Reply, SetMode,
             Restart
    <2> QED BY <2>2, <2>3, <2>4
  <1>3. /\ DOMAIN rows = 1..Len(rows) /\ Len(rows) \in Nat
        /\ \A i \in DOMAIN rows : rows[i].at \in Nat
        /\ \A i \in DOMAIN rows' : i \in Nat \ {0} /\ rows'[i].at \in Nat
    <2>1. rows' \in Seq(Row)
      BY <1>0 DEF TypeOK
    <2>2. \A r \in Row : r.at \in Nat
      BY Numbers DEF Row
    <2> HIDE DEF Row
    <2>3. \A i \in DOMAIN rows' : i \in Nat \ {0} /\ rows'[i] \in Row
      BY <2>1
    <2> QED BY <1>0, <2>2, <2>3, RowFields
  <1>4. \A i \in DOMAIN rows' :
          \/ i + gone \in DOMAIN rows /\ rows'[i].at = rows[i + gone].at
          \/ i + gone = Len(rows) + 1 /\ rows'[i].at = clock
    BY <1>1, <1>3 DEF Onward, Forward
  <1>5. \A i \in DOMAIN rows' : rows'[i].at <= clock
    BY <1>2, <1>3, <1>4 DEF LedgerInOrder
  <1>6. ASSUME NEW i \in DOMAIN rows', NEW j \in DOMAIN rows', i < j
        PROVE  rows'[i].at <= rows'[j].at
    <2>1. i + gone \in DOMAIN rows /\ rows'[i].at = rows[i + gone].at
      BY <1>3, <1>4, <1>6
    <2> QED BY <1>3, <1>4, <1>5, <1>6, <2>1 DEF LedgerInOrder
  <1> QED BY <1>2, <1>3, <1>5, <1>6 DEF LedgerInOrder

(* Deliveries only move forward, and one is forgotten only by a full ledger. *)
THEOREM DeliveriesMoveForward == Spec => LedgerForward
  <1>1. IInv /\ [Next]_vars => [\E gone \in {0, 1} : Onward(rows', gone)]_vars
    BY StepOnward DEF IInv
  <1> QED BY <1>1, UnpromptedInvariant, PTL DEF Spec, LedgerForward

(* The ledger is in the order of its deliveries, whatever is forgotten. *)
THEOREM DeliveriesInOrder == Spec => []LedgerInOrder
  <1>1. Init => LedgerInOrder
    BY DEF Init, LedgerInOrder
  <1>2. IInv /\ LedgerInOrder /\ [Next]_vars => LedgerInOrder'
    BY StepInOrder
  <1> QED BY <1>1, <1>2, UnpromptedInvariant, PTL DEF Spec
=============================================================================
