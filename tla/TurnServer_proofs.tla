-------------------------- MODULE TurnServer_proofs --------------------------
(***************************************************************************)
(* Proofs about TurnServer, for any devices, turns, sentences, proactive   *)
(* lines, restarts and failing snapshots.                                  *)
(*                                                                         *)
(* The history is only ever extended, by answers or by the holder's own    *)
(* question, or replaced by a thread that was snapshot. So the lemmas say  *)
(* what each of these does to a thread, and the invariant adds who holds   *)
(* the lock and whose question may be the last word.                       *)
(***************************************************************************)
EXTENDS TurnServer, SequenceTheorems, TLAPS

-----------------------------------------------------------------------------
(* Threads. *)

Running == {"alarm", "inside", "sending", "wrapping"}

\* Things Afon said.
Answering(e) == e \in Seq(Entry) /\ \A i \in 1..Len(e) : e[i].role = "assistant"

\* A thread that ends with something Afon said, or with a question nobody can answer any more.
Settled(h, gone) == h # <<>> /\ h[Len(h)].role = "user" => h[Len(h)].turn \in gone

\* Only questions of `gone` have another one right behind them.
Guarded(h, gone) == \A i \in Unanswered(h) : h[i].turn \in gone

(* The entries of a concatenation. *)
LEMMA Concatenated ==
  ASSUME NEW h \in Seq(Entry), NEW e \in Seq(Entry)
  PROVE  /\ h \o e \in Seq(Entry) /\ Len(h \o e) = Len(h) + Len(e)
         /\ \A i \in 1..Len(h) : (h \o e)[i] = h[i]
         /\ \A i \in 1..Len(e) : (h \o e)[Len(h) + i] = e[i]
  OBVIOUS

(* Two entries go in one after the other. *)
LEMMA TwoAppended ==
  ASSUME NEW h \in Seq(Entry), NEW x \in Entry, NEW y \in Entry
  PROVE  h \o <<x, y>> = (h \o <<x>>) \o <<y>>
  <1> DEFINE l == h \o <<x, y>>
             r == (h \o <<x>>) \o <<y>>
  <1>1. /\ <<x, y>> \in Seq(Entry) /\ Len(<<x, y>>) = 2 /\ <<x, y>>[1] = x /\ <<x, y>>[2] = y
        /\ <<x>> \in Seq(Entry) /\ <<y>> \in Seq(Entry) /\ Len(h) \in Nat
    OBVIOUS
  <1>2. l \in Seq(Entry) /\ Len(l) = Len(h) + 2 /\ \A i \in 1..Len(h) : l[i] = h[i]
    BY <1>1, Concatenated
  <1>3. l[Len(h) + 1] = x /\ l[Len(h) + 2] = y
    BY <1>1, Concatenated
  <1>4. /\ h \o <<x>> \in Seq(Entry) /\ Len(h \o <<x>>) = Len(h) + 1
        /\ (h \o <<x>>)[Len(h) + 1] = x /\ \A i \in 1..Len(h) : (h \o <<x>>)[i] = h[i]
    BY <1>1, Concatenated
  <1>5. /\ r \in Seq(Entry) /\ Len(r) = Len(h) + 2 /\ r[Len(h) + 2] = y
        /\ \A i \in 1..Len(h) + 1 : r[i] = (h \o <<x>>)[i]
    BY <1>1, <1>4, Concatenated
  <1> HIDE DEF l, r
  <1>6. \A i \in 1..Len(l) : l[i] = r[i]
    BY <1>1, <1>2, <1>3, <1>4, <1>5
  <1>7. l = r
    BY <1>2, <1>5, <1>6, SeqEqual
  <1> QED BY <1>7 DEF l, r

(* One entry and another are two. *)
LEMMA OneAndOne ==
  ASSUME NEW x \in Entry, NEW y \in Entry
  PROVE  <<x>> \o <<y>> = <<x, y>>
  <1> DEFINE l == <<x>> \o <<y>>
             r == <<x, y>>
  <1>1. /\ <<x>> \in Seq(Entry) /\ Len(<<x>>) = 1 /\ <<x>>[1] = x
        /\ <<y>> \in Seq(Entry) /\ Len(<<y>>) = 1 /\ <<y>>[1] = y
        /\ r \in Seq(Entry) /\ Len(r) = 2 /\ r[1] = x /\ r[2] = y
    OBVIOUS
  <1>2. l \in Seq(Entry) /\ Len(l) = 2 /\ l[1] = x /\ l[1 + 1] = y
    BY <1>1, Concatenated
  <1> HIDE DEF l, r
  <1>3. \A i \in 1..Len(l) : l[i] = r[i]
    BY <1>1, <1>2
  <1>4. l = r
    BY <1>1, <1>2, <1>3, SeqEqual
  <1> QED BY <1>4 DEF l, r

(* What is said last is an answer, and questions keep their places. *)
LEMMA SaidAfter ==
  ASSUME NEW h \in Seq(Entry), NEW e, Answering(e), e # <<>>, NEW gone
  PROVE  /\ h \o e \in Seq(Entry) /\ h \o e # <<>>
         /\ (h \o e)[Len(h \o e)].role = "assistant"
         /\ Guarded(h, gone) => Guarded(h \o e, gone)
         /\ \A t \in Turns : Owns(t, h) => Owns(t, h \o e)
  <1> DEFINE g == h \o e
  <1>1. /\ e \in Seq(Entry) /\ Len(e) \in Nat \ {0} /\ Len(h) \in Nat
        /\ \A i \in 1..Len(e) : e[i].role = "assistant"
    BY DEF Answering
  <1>2. /\ g \in Seq(Entry) /\ Len(g) = Len(h) + Len(e)
        /\ \A i \in 1..Len(h) : g[i] = h[i]
        /\ \A i \in 1..Len(e) : g[Len(h) + i] = e[i]
    BY <1>1, Concatenated
  <1> HIDE DEF g
  <1>3. \A j \in Len(h) + 1..Len(g) : g[j].role = "assistant"
    <2> TAKE j \in Len(h) + 1..Len(g)
    <2>1. j - Len(h) \in 1..Len(e) /\ j = Len(h) + (j - Len(h))
      BY <1>1, <1>2
    <2> QED BY <2>1, <1>1, <1>2
  <1>4. g[Len(g)].role = "assistant" /\ g # <<>>
    BY <1>1, <1>2, <1>3
  <1>5. ASSUME Guarded(h, gone) PROVE Guarded(g, gone)
    <2> SUFFICES ASSUME NEW i \in 1..(Len(g) - 1), g[i].role = "user", g[i + 1].role = "user"
                 PROVE g[i].turn \in gone
      BY DEF Guarded, Unanswered
    <2>1. i + 1 \notin Len(h) + 1..Len(g)
      BY <1>3
    <2>2. i \in 1..(Len(h) - 1) /\ i \in 1..Len(h) /\ i + 1 \in 1..Len(h)
      BY <1>1, <1>2, <2>1
    <2> QED BY <1>2, <1>5, <2>2 DEF Guarded, Unanswered
  <1>6. ASSUME NEW t \in Turns, Owns(t, h) PROVE Owns(t, g)
    <2>1. PICK i \in 1..Len(h) : h[i] = User(t) /\ \A j \in i+1..Len(h) : h[j].role = "assistant"
      BY <1>6 DEF Owns
    <2>2. i \in 1..Len(g) /\ g[i] = User(t)
      BY <2>1, <1>1, <1>2
    <2>3. ASSUME NEW j \in i+1..Len(g) PROVE g[j].role = "assistant"
      <3>1. CASE j \in Len(h) + 1..Len(g)
        BY <3>1, <1>3
      <3>2. CASE j \notin Len(h) + 1..Len(g)
        <4>1. j \in i+1..Len(h) /\ j \in 1..Len(h)
          BY <3>2, <1>1, <1>2
        <4> QED BY <4>1, <2>1, <1>2
      <3> QED BY <3>1, <3>2
    <2> QED BY <2>2, <2>3 DEF Owns
  <1> QED BY <1>2, <1>4, <1>5, <1>6 DEF g

(* A question on a settled thread is its last one, and leaves it guarded. *)
LEMMA AskedAfter ==
  ASSUME NEW h \in Seq(Entry), NEW t \in Turns, NEW gone, Settled(h, gone), Guarded(h, gone)
  PROVE  LET g == h \o <<User(t)>>
         IN  /\ g \in Seq(Entry) /\ g # <<>> /\ g[Len(g)] = User(t)
             /\ Guarded(g, gone) /\ Owns(t, g)
  <1> DEFINE g == h \o <<User(t)>>
  <1>1. User(t) \in Entry /\ <<User(t)>> \in Seq(Entry) /\ Len(<<User(t)>>) = 1 /\ Len(h) \in Nat
    BY DEF User, Entry
  <1>2. /\ g \in Seq(Entry) /\ Len(g) = Len(h) + 1 /\ g[Len(h) + 1] = User(t)
        /\ \A i \in 1..Len(h) : g[i] = h[i]
    BY <1>1, Concatenated
  <1> HIDE DEF g
  <1>3. Owns(t, g)
    <2>1. Len(g) \in 1..Len(g) /\ g[Len(g)] = User(t) /\ Len(g) + 1..Len(g) = {}
      BY <1>1, <1>2
    <2> QED BY <2>1 DEF Owns
  <1>4. Guarded(g, gone)
    <2> SUFFICES ASSUME NEW i \in 1..(Len(g) - 1), g[i].role = "user", g[i + 1].role = "user"
                 PROVE g[i].turn \in gone
      BY DEF Guarded, Unanswered
    <2>1. CASE i = Len(h)
      BY <2>1, <1>1, <1>2 DEF Settled
    <2>2. CASE i # Len(h)
      <3>1. i \in 1..(Len(h) - 1) /\ i \in 1..Len(h) /\ i + 1 \in 1..Len(h)
        BY <2>2, <1>1, <1>2
      <3> QED BY <3>1, <1>2 DEF Guarded, Unanswered
    <2> QED BY <2>1, <2>2
  <1> QED BY <1>1, <1>2, <1>3, <1>4 DEF g

(* What a recorded answer does to the thread and to the snapshot. *)
LEMMA RecordAnswers ==
  ASSUME history \in Seq(Entry), saved \in Seq(Entry), NEW e, Answering(e), Record(e),
         SnapshotEndsAnswered, NEW gone, Guarded(history, gone), Guarded(saved, gone)
  PROVE  /\ history' \in Seq(Entry) /\ saved' \in Seq(Entry)
         /\ SnapshotEndsAnswered'
         /\ Guarded(history', gone) /\ Guarded(saved', gone)
         /\ \A t \in Turns : Owns(t, history) => Owns(t, history')
         /\ \/ e = <<>> /\ history' = history
            \/ history' # <<>> /\ history'[Len(history')].role = "assistant"
  <1>1. CASE e = <<>>
    <2>1. history' = history /\ saved' = saved
      BY <1>1 DEF Record
    <2> QED BY <1>1, <2>1 DEF SnapshotEndsAnswered
  <1>2. CASE e # <<>>
    <2>1. history' = history \o e /\ Snapshot(history')
      BY <1>2 DEF Record
    <2>2. /\ history' \in Seq(Entry) /\ history' # <<>>
          /\ history'[Len(history')].role = "assistant" /\ Guarded(history', gone)
          /\ \A t \in Turns : Owns(t, history) => Owns(t, history')
      BY <1>2, <2>1, SaidAfter
    <2>3. saved' = history' \/ saved' = saved \/ saved' = <<>>
      BY <2>1 DEF Snapshot
    <2>4. Guarded(<<>>, gone) /\ <<>> \in Seq(Entry)
      BY DEF Guarded, Unanswered
    <2> QED BY <2>2, <2>3, <2>4 DEF SnapshotEndsAnswered
  <1> QED BY <1>1, <1>2

(* An answer, a line of Afon's own, and the two together are things Afon said. *)
LEMMA Sayings ==
  /\ Answering(<<>>) /\ Answering(<<Nudge>>)
  /\ \A t \in Turns : Answering(<<Answer(t)>>) /\ Answering(<<Nudge, Answer(t)>>)
  /\ \A t \in Turns : User(t) \in Entry /\ User(t).role = "user" /\ User(t).turn = t
  BY DEF Answering, Answer, Nudge, User, Entry

(* Two things said are things Afon said. *)
LEMMA SaidTogether ==
  ASSUME NEW e, NEW f, Answering(e), Answering(f), e # <<>>
  PROVE  Answering(e \o f) /\ e \o f # <<>>
  <1>1. /\ e \in Seq(Entry) /\ f \in Seq(Entry) /\ Len(e) \in Nat \ {0} /\ Len(f) \in Nat
    BY DEF Answering
  <1>2. /\ e \o f \in Seq(Entry) /\ Len(e \o f) = Len(e) + Len(f)
        /\ \A i \in 1..Len(e) : (e \o f)[i] = e[i]
        /\ \A i \in 1..Len(f) : (e \o f)[Len(e) + i] = f[i]
    BY <1>1, Concatenated
  <1>3. ASSUME NEW i \in 1..Len(e \o f) PROVE (e \o f)[i].role = "assistant"
    <2>1. i \in 1..Len(e) \/ (i - Len(e) \in 1..Len(f) /\ i = Len(e) + (i - Len(e)))
      BY <1>1, <1>2
    <2> QED BY <2>1, <1>2 DEF Answering
  <1> QED BY <1>1, <1>2, <1>3 DEF Answering

-----------------------------------------------------------------------------
(* The invariant. *)

\* The holder of the lock is the only turn that is running.
Holder == \A t \in Turns : lock = t <=> at[t] \in Running

\* The turn a device would cancel is a streamed one of its own.
OwnTurns == \A s \in Sessions : cur[s] # None => sess[cur[s]] = s /\ at[cur[s]] # "unsent"

\* The holder, its question recorded and its answer not.
Awaiting(u) ==
  /\ u \in Turns /\ lock = u
  /\ \/ at[u] = "inside" /\ (sess[u] # Direct => ~done)
     \/ at[u] = "sending" /\ ~done

\* A question standing last in the thread is the holder's, whose guard has yet
\* to answer for it, or one that no guard covered.
Standing ==
  history # <<>> /\ history[Len(history)].role = "user" =>
    LET u == history[Len(history)].turn
    IN  \/ u \in unguarded
        \/ Awaiting(u)

Tasks   == Holder /\ OwnTurns /\ OneLiveTurnPerSession
Threads ==
  /\ RunnerOwnsThread /\ SnapshotEndsAnswered /\ Standing
  /\ Guarded(history, unguarded) /\ Guarded(saved, unguarded)

IInv == TypeOK /\ Tasks /\ Threads

(* Nothing is said yet. *)
LEMMA InitIInv == Init => IInv
  <1> SUFFICES ASSUME Init PROVE IInv
    OBVIOUS
  <1>1. TypeOK
    BY ServerAssumption DEF Init, TypeOK, Places, Turns
  <1>2. Tasks
    BY ServerAssumption
    DEF Init, Tasks, Holder, OwnTurns, OneLiveTurnPerSession, Running, Live, Turns
  <1>3. Threads
    BY DEF Init, Threads, RunnerOwnsThread, SnapshotEndsAnswered, Standing, Guarded, Unanswered
  <1> QED BY <1>1, <1>2, <1>3 DEF IInv

(* The threads when turns of `gone` are cancelled and what Afon says of it is *)
(* recorded.                                                                  *)
LEMMA CancelThreads ==
  ASSUME IInv, NEW gone, \A u \in gone \cap Turns : sess[u] # Direct,
         NEW e, Answering(e), CancelledEntries(gone) # <<>> => e # <<>>, Record(e),
         lock' = (IF lock \in gone THEN None ELSE lock), done' = done,
         unguarded' = unguarded \cup {u \in gone \cap Turns : at[u] = "sending"},
         \A u \in Turns : at'[u] \in Running => at'[u] = at[u],
         lock \notin gone /\ lock # None => at'[lock] = at[lock] /\ sess'[lock] = sess[lock]
  PROVE  history' \in Seq(Entry) /\ saved' \in Seq(Entry) /\ Threads'
  <1>1. /\ history \in Seq(Entry) /\ saved \in Seq(Entry) /\ SnapshotEndsAnswered
        /\ Guarded(history, unguarded') /\ Guarded(saved, unguarded')
    BY DEF IInv, TypeOK, Threads, Guarded
  <1>2. /\ history' \in Seq(Entry) /\ saved' \in Seq(Entry) /\ SnapshotEndsAnswered'
        /\ Guarded(history', unguarded') /\ Guarded(saved', unguarded')
        /\ \A t \in Turns : Owns(t, history) => Owns(t, history')
        /\ \/ e = <<>> /\ history' = history
           \/ history' # <<>> /\ history'[Len(history')].role = "assistant"
    BY <1>1, RecordAnswers
  <1>3. RunnerOwnsThread'
    BY <1>2 DEF IInv, Threads, RunnerOwnsThread, Running
  <1>4. Standing'
    <2> DEFINE u == history[Len(history)].turn
    <2> SUFFICES ASSUME history' # <<>>, history'[Len(history')].role = "user"
                 PROVE  u \in unguarded' \/ Awaiting(u)'
      BY <1>2 DEF Standing
    <2>1. e = <<>> /\ history' = history /\ CancelledEntries(gone) = <<>>
      BY <1>2
    <2>2. u \in unguarded \/ Awaiting(u)
      BY <2>1 DEF IInv, Threads, Standing
    <2>3. CASE u \in unguarded
      BY <2>3
    <2>4. CASE Awaiting(u) /\ u \in gone
      <3>1. None \notin Turns
        BY ServerAssumption DEF Turns
      <3>2. CASE at[u] = "inside"
        BY <3>1, <3>2, <2>1, <2>4 DEF CancelledEntries, Awaiting
      <3>3. CASE at[u] = "sending"
        BY <3>3, <2>4 DEF Awaiting
      <3> QED BY <2>4, <3>2, <3>3 DEF Awaiting
    <2>5. CASE Awaiting(u) /\ u \notin gone
      <3>1. u \in Turns /\ lock = u /\ lock' = u /\ at'[u] = at[u] /\ sess'[u] = sess[u]
        BY <2>5, ServerAssumption DEF Turns, Awaiting
      <3> QED BY <2>5, <2>1, <3>1 DEF Awaiting
    <2> QED BY <2>2, <2>3, <2>4, <2>5
  <1> QED BY <1>2, <1>3, <1>4 DEF Threads

-----------------------------------------------------------------------------
(* Cancellation. *)

(* What a session would cancel is a streamed turn, never a blocking one. *)
LEMMA CancelledAreStreamed ==
  ASSUME TypeOK, OwnTurns, NEW s \in Sessions, cur[s] \in Turns
  PROVE  sess[cur[s]] # Direct /\ sess[cur[s]] = s /\ at[cur[s]] # "unsent"
  BY ServerAssumption DEF OwnTurns, Turns

(* Whatever Afon says of it, cancelling turns of the devices keeps the invariant. *)
LEMMA CancelStep ==
  ASSUME IInv, NEW gone, \A u \in gone \cap Turns : sess[u] # Direct,
         NEW e, Answering(e), CancelledEntries(gone) # <<>> => e # <<>>, Record(e),
         CancelTurns(gone), UNCHANGED <<link, cur, sess, sentences, done, crashes>>,
         nudges' \in 0..MaxNudges, pushing' \in [1..MaxNudges -> SUBSET Sessions]
  PROVE  IInv'
  <1>0. None \notin Turns
    BY ServerAssumption DEF Turns
  <1>1. /\ at' = [t \in Turns |-> IF t \in gone /\ Live(t) THEN "over" ELSE at[t]]
        /\ lock' = (IF lock \in gone THEN None ELSE lock)
        /\ closing' = closing \cup {t \in gone \cap Turns : at[t] = "sending"}
        /\ unguarded' = unguarded \cup {t \in gone \cap Turns : at[t] = "sending"}
    BY DEF CancelTurns
  <1>2. /\ TypeOK /\ Holder /\ OwnTurns /\ OneLiveTurnPerSession
        /\ \A t \in Turns : lock = t <=> at[t] \in Running
    BY DEF IInv, Tasks, Holder
  <1>3. \A t \in Turns : /\ at'[t] \in {at[t], "over"}
                         /\ at'[t] \in Running => at'[t] = at[t]
                         /\ t \in gone => at'[t] \notin Running
                         /\ t \notin gone => at'[t] = at[t]
    BY <1>1 DEF Live, Running
  <1>4. Tasks'
    <2>1. Holder'
      BY <1>0, <1>1, <1>2, <1>3 DEF Holder, TypeOK
    <2>2. OwnTurns'
      BY <1>0, <1>2, <1>3 DEF OwnTurns, TypeOK
    <2>3. OneLiveTurnPerSession'
      BY <1>2, <1>3 DEF OneLiveTurnPerSession, Live
    <2> QED BY <2>1, <2>2, <2>3 DEF Tasks
  <1>5. lock \notin gone /\ lock # None => at'[lock] = at[lock] /\ sess'[lock] = sess[lock]
    BY <1>2, <1>3 DEF TypeOK
  <1>6. history' \in Seq(Entry) /\ saved' \in Seq(Entry) /\ Threads'
    BY <1>1, <1>3, <1>5, CancelThreads
  <1>7. TypeOK'
    <2>1. at' \in [Turns -> Places] /\ lock' \in Turns \cup {None}
      BY <1>1, <1>2 DEF TypeOK, Places
    <2> QED BY <1>1, <1>2, <1>6, <2>1 DEF TypeOK, link
  <1> QED BY <1>4, <1>6, <1>7 DEF IInv

(* What a cancellation makes Afon say is nothing, or an answer. *)
LEMMA CancelledSayings ==
  ASSUME TypeOK, NEW gone
  PROVE  Answering(CancelledEntries(gone))
         /\ Answering(<<Nudge>> \o CancelledEntries(gone))
         /\ <<Nudge>> \o CancelledEntries(gone) # <<>>
  <1>1. CancelledEntries(gone) = <<>> \/ \E t \in Turns : CancelledEntries(gone) = <<Answer(t)>>
    BY DEF CancelledEntries, TypeOK
  <1>2. Answering(CancelledEntries(gone)) /\ Answering(<<Nudge>>) /\ <<Nudge>> # <<>>
    BY <1>1, Sayings
  <1> HIDE DEF Nudge
  <1> QED BY <1>2, SaidTogether

(* A barge-in. *)
LEMMA BargeStep ==
  ASSUME IInv, NEW s \in Sessions, Barge(s)
  PROVE  IInv'
  <1>1. cur[s] \in Turns \cup {None} /\ TypeOK /\ OwnTurns
    BY DEF Barge, IInv, Tasks, TypeOK
  <1>2. \A u \in {cur[s]} \cap Turns : sess[u] # Direct
    BY <1>1, CancelledAreStreamed
  <1>3. nudges' \in 0..MaxNudges /\ pushing' \in [1..MaxNudges -> SUBSET Sessions]
    BY <1>1 DEF TypeOK, Barge, pushes
  <1> QED BY <1>1, <1>2, <1>3, CancelledSayings, CancelStep DEF Barge

(* A proactive line on its way to the first device. *)
LEMMA BroadcastStep ==
  ASSUME IInv, Broadcast
  PROVE  IInv'
  <1> DEFINE targets == IF active \in conns THEN {active} ELSE conns
  <1>1. /\ TypeOK /\ OwnTurns /\ nudges' \in 1..MaxNudges /\ targets \subseteq Sessions
        /\ UNCHANGED <<link, cur, sess, sentences, done, crashes>>
    BY ServerAssumption DEF Broadcast, IInv, Tasks, TypeOK
  <1>2. CASE targets = {} /\ Record(<<Nudge>>) /\ UNCHANGED <<at, lock, closing, unguarded, pushing>>
    <2>1. CancelTurns({})
      BY <1>1, <1>2 DEF CancelTurns, TypeOK
    <2>2. CancelledEntries({}) = <<>>
      BY DEF CancelledEntries
    <2> QED BY <1>1, <1>2, <2>1, <2>2, Sayings, CancelStep DEF TypeOK
  <1>3. ASSUME NEW s \in targets, CancelTurns({cur[s]}),
               Record(<<Nudge>> \o CancelledEntries({cur[s]})),
               pushing' = [pushing EXCEPT ![nudges'] = targets \ {s}]
        PROVE  IInv'
    <2>1. \A u \in {cur[s]} \cap Turns : sess[u] # Direct
      BY <1>1, CancelledAreStreamed
    <2>2. pushing' \in [1..MaxNudges -> SUBSET Sessions]
      BY <1>1, <1>3 DEF TypeOK
    <2>3. nudges' \in 0..MaxNudges
      BY <1>1
    <2> QED BY <1>1, <1>3, <2>1, <2>2, <2>3, CancelledSayings, CancelStep
  <1> QED BY <1>2, <1>3 DEF Broadcast

(* The same line reaching its next device. *)
LEMMA InterruptStep ==
  ASSUME IInv, NEW n \in 1..MaxNudges, NEW s \in Sessions, Interrupt(n, s)
  PROVE  IInv'
  <1>1. TypeOK /\ OwnTurns
    BY DEF IInv, Tasks
  <1>2. \A u \in {cur[s]} \cap Turns : sess[u] # Direct
    BY <1>1, CancelledAreStreamed
  <1>3. nudges' \in 0..MaxNudges /\ pushing' \in [1..MaxNudges -> SUBSET Sessions]
    BY <1>1 DEF TypeOK, Interrupt
  <1> QED BY <1>1, <1>2, <1>3, CancelledSayings, CancelStep DEF Interrupt

(* An utterance: the session's turn is superseded, the taken-over device's cut. *)
LEMMA UtteranceStep ==
  ASSUME IInv, NEW s \in Sessions, NEW p \in Sessions, NEW t \in Turns, Utterance(s, t, p)
  PROVE  IInv'
  <1> DEFINE gone == {cur[s], cur[p]} \cap Turns
  <1>0. None \notin Turns /\ Direct \notin Sessions
    BY ServerAssumption DEF Turns
  <1>1. /\ TypeOK /\ OwnTurns /\ OneLiveTurnPerSession
        /\ \A u \in Turns : lock = u <=> at[u] \in Running
    BY DEF IInv, Tasks, Holder
  <1>2. \A u \in gone : sess[u] # Direct /\ at[u] # "unsent"
    BY <1>1, CancelledAreStreamed
  <1>3. at[t] = "unsent" /\ t \notin gone /\ lock # t
    BY <1>1, <1>2 DEF Utterance, NextTurn, Running
  <1>4. /\ cur' = [cur EXCEPT ![s] = t] /\ sess' = [sess EXCEPT ![t] = s] /\ done' = done
        /\ at' = [u \in Turns |-> IF u = t THEN "waiting"
                                  ELSE IF u \in gone /\ Live(u) THEN "over" ELSE at[u]]
        /\ lock' = (IF lock \in gone THEN None ELSE lock)
        /\ unguarded' = unguarded \cup {u \in gone \cap Turns : at[u] = "sending"}
        /\ closing' = closing \cup {u \in gone : at[u] = "sending"}
        /\ Record(CancelledEntries(gone))
    BY DEF Utterance
  <1>5. \A u \in Turns : /\ at'[u] \in Running => at'[u] = at[u]
                         /\ u \in gone => at'[u] \notin Running
                         /\ u \notin gone /\ u # t => at'[u] = at[u]
    BY <1>3, <1>4 DEF Live, Running
  <1>6. Tasks'
    <2>1. Holder'
      BY <1>0, <1>1, <1>3, <1>4, <1>5 DEF Holder, TypeOK, Running
    <2>2. OwnTurns'
      <3> SUFFICES ASSUME NEW q \in Sessions, cur'[q] # None
                   PROVE  sess'[cur'[q]] = q /\ at'[cur'[q]] # "unsent"
        BY DEF OwnTurns
      <3>1. CASE q = s
        BY <3>1, <1>1, <1>4 DEF TypeOK
      <3>2. CASE q # s
        <4>1. cur'[q] = cur[q] /\ cur[q] \in Turns /\ sess[cur[q]] = q /\ at[cur[q]] # "unsent"
          BY <3>2, <1>1, <1>4 DEF TypeOK, OwnTurns
        <4>2. cur[q] # t
          BY <4>1, <1>3
        <4> QED BY <4>1, <4>2, <1>1, <1>4, <1>5 DEF TypeOK
      <3> QED BY <3>1, <3>2
    <2>3. OneLiveTurnPerSession'
      <3> SUFFICES ASSUME NEW u \in Turns, Live(u)', sess'[u] # Direct
                   PROVE  cur'[sess'[u]] = u
        BY DEF OneLiveTurnPerSession
      <3>1. CASE u = t
        BY <3>1, <1>1, <1>4 DEF TypeOK
      <3>2. CASE u # t
        <4>1. u \notin gone /\ Live(u) /\ sess'[u] = sess[u] /\ sess[u] # Direct
          BY <3>2, <1>1, <1>4 DEF Live, TypeOK
        <4>2. cur[sess[u]] = u /\ sess[u] \in Sessions
          BY <4>1, <1>1 DEF OneLiveTurnPerSession, TypeOK
        <4>3. sess[u] # s
          BY <4>1, <4>2
        <4> QED BY <4>1, <4>2, <4>3, <1>1, <1>4 DEF TypeOK
      <3> QED BY <3>1, <3>2
    <2> QED BY <2>1, <2>2, <2>3 DEF Tasks
  <1>7. history' \in Seq(Entry) /\ saved' \in Seq(Entry) /\ Threads'
    <2>1. lock \notin gone /\ lock # None => at'[lock] = at[lock] /\ sess'[lock] = sess[lock]
      BY <1>1, <1>3, <1>4, <1>5 DEF TypeOK
    <2> HIDE DEF gone
    <2>2. \A u \in gone \cap Turns : sess[u] # Direct
      BY <1>2
    <2> QED BY <1>1, <1>4, <1>5, <2>1, <2>2, CancelledSayings, CancelThreads
  <1>8. TypeOK'
    <2>1. /\ at' \in [Turns -> Places] /\ lock' \in Turns \cup {None}
          /\ cur' \in [Sessions -> Turns \cup {None}] /\ sess' \in [Turns -> Sessions \cup {Direct}]
      BY <1>1, <1>4 DEF TypeOK, Places
    <2>2. closing' \subseteq Turns /\ unguarded' \subseteq Turns
      BY <1>1, <1>4 DEF TypeOK
    <2>3. active' \in Sessions \cup {None} /\ UNCHANGED <<conns, sentences, nudges, pushing, crashes>>
      BY DEF Utterance, pushes
    <2> QED BY <1>1, <1>4, <1>7, <2>1, <2>2, <2>3 DEF TypeOK
  <1> QED BY <1>6, <1>7, <1>8 DEF IInv

-----------------------------------------------------------------------------
(* The turn that holds the lock, and the turns that do not. *)

(* What the invariant says of the holder. *)
LEMMA HolderAlone ==
  ASSUME IInv
  PROVE  /\ TypeOK /\ OwnTurns /\ OneLiveTurnPerSession /\ Threads /\ None \notin Turns
         /\ \A u \in Turns : lock = u <=> at[u] \in Running
  BY ServerAssumption DEF IInv, Tasks, Holder, Turns

(* The holder moves on, or leaves. *)
LEMMA HolderSteps ==
  ASSUME IInv, NEW t \in Turns, lock = t, UNCHANGED <<cur, sess>>,
         NEW p, at' = [at EXCEPT ![t] = p],
         \/ p \in Running /\ lock' = lock
         \/ p = "over" /\ lock' = None
  PROVE  Tasks' /\ lock' \in Turns \cup {None} /\ at' \in [Turns -> Places]
  <1>1. /\ TypeOK /\ OwnTurns /\ OneLiveTurnPerSession /\ None \notin Turns
        /\ \A u \in Turns : lock = u <=> at[u] \in Running
    BY HolderAlone
  <1>2. /\ p \in Places \ {"unsent"} /\ at'[t] = p /\ Live(t)
        /\ \A u \in Turns \ {t} : at'[u] = at[u]
    BY <1>1 DEF TypeOK, Places, Running, Live
  <1>3. Holder'
    BY <1>1, <1>2 DEF Holder, Running
  <1>4. OwnTurns'
    BY <1>1, <1>2 DEF OwnTurns, TypeOK
  <1>5. OneLiveTurnPerSession'
    BY <1>1, <1>2 DEF OneLiveTurnPerSession, Live
  <1> QED BY <1>1, <1>2, <1>3, <1>4, <1>5 DEF Tasks, TypeOK

(* The threads when nothing is said: no guard is lost but for a turn that *)
(* ended where it had none.                                               *)
LEMMA QuietThreads ==
  ASSUME IInv, UNCHANGED <<history, saved>>, unguarded \subseteq unguarded',
         \A u \in Turns : at'[u] \in Running \ {"alarm"} => at[u] \in Running \ {"alarm"},
         \A u \in Turns : Awaiting(u) => Awaiting(u)' \/ u \in unguarded'
  PROVE  Threads'
  <1>1. RunnerOwnsThread'
    BY DEF IInv, Threads, RunnerOwnsThread, Running
  <1>2. Standing'
    BY DEF IInv, Threads, Standing, Awaiting
  <1>3. SnapshotEndsAnswered' /\ Guarded(history', unguarded') /\ Guarded(saved', unguarded')
    BY DEF IInv, Threads, SnapshotEndsAnswered, Guarded, Unanswered
  <1> QED BY <1>1, <1>2, <1>3 DEF Threads

(* The threads when something is said. *)
LEMMA AnsweredThreads ==
  ASSUME IInv, NEW e, Answering(e), e # <<>>, Record(e), unguarded' = unguarded,
         \A u \in Turns : at'[u] \in Running \ {"alarm"} => at[u] \in Running \ {"alarm"}
  PROVE  history' \in Seq(Entry) /\ saved' \in Seq(Entry) /\ Threads'
  <1>1. /\ history \in Seq(Entry) /\ saved \in Seq(Entry) /\ SnapshotEndsAnswered
        /\ Guarded(history, unguarded) /\ Guarded(saved, unguarded)
    BY DEF IInv, TypeOK, Threads
  <1>2. /\ history' \in Seq(Entry) /\ saved' \in Seq(Entry) /\ SnapshotEndsAnswered'
        /\ Guarded(history', unguarded') /\ Guarded(saved', unguarded')
        /\ \A t \in Turns : Owns(t, history) => Owns(t, history')
        /\ history' # <<>> /\ history'[Len(history')].role = "assistant"
    BY <1>1, RecordAnswers
  <1>3. RunnerOwnsThread'
    BY <1>2 DEF IInv, Threads, RunnerOwnsThread, Running
  <1>4. Standing'
    BY <1>2 DEF Standing
  <1> QED BY <1>2, <1>3, <1>4 DEF Threads

(* Devices come and go. *)
LEMMA LinkStep ==
  ASSUME IInv, UNCHANGED <<tasks, agent, pushes, crashes, unguarded>>,
         conns' \subseteq Sessions, active' \in Sessions \cup {None}
  PROVE  IInv'
  <1> USE DEF tasks, agent, pushes
  <1>1. TypeOK'
    BY DEF IInv, TypeOK
  <1>2. Tasks'
    BY DEF IInv, Tasks, Holder, OwnTurns, OneLiveTurnPerSession, Live
  <1>3. Threads'
    BY DEF IInv, Threads, RunnerOwnsThread, SnapshotEndsAnswered, Standing, Awaiting, Guarded,
           Unanswered
  <1> QED BY <1>1, <1>2, <1>3 DEF IInv

(* A turn that never began. *)
LEMMA UnheardStep ==
  ASSUME IInv, NEW t \in Turns, Unheard(t)
  PROVE  IInv'
  <1>1. /\ TypeOK /\ OwnTurns /\ OneLiveTurnPerSession /\ None \notin Turns
        /\ \A u \in Turns : lock = u <=> at[u] \in Running
    BY HolderAlone
  <1>2. /\ at[t] = "waiting" /\ at' = [at EXCEPT ![t] = "over"]
        /\ UNCHANGED <<link, cur, sess, sentences, lock, agent, pushes, crashes, unguarded>>
    BY DEF Unheard
  <1>3. at'[t] = "over" /\ \A u \in Turns \ {t} : at'[u] = at[u]
    BY <1>1, <1>2 DEF TypeOK
  <1>4. TypeOK'
    BY <1>1, <1>2 DEF TypeOK, Places, link, agent, pushes
  <1>5. Tasks'
    BY <1>1, <1>2, <1>3 DEF Tasks, Holder, OwnTurns, OneLiveTurnPerSession, Live, Running, TypeOK
  <1>6. Threads'
    <2>1. \A u \in Turns : at'[u] \in Running => u # t /\ at'[u] = at[u]
      BY <1>3 DEF Running
    <2>2. \A u \in Turns : Awaiting(u) => u # t /\ Awaiting(u)'
      BY <1>2, <1>3 DEF Awaiting, agent
    <2> QED BY <1>2, <2>1, <2>2, QuietThreads DEF agent
  <1> QED BY <1>4, <1>5, <1>6 DEF IInv

(* A blocking request gets in line. *)
LEMMA DirectRequestStep ==
  ASSUME IInv, NEW t \in Turns, DirectRequest(t)
  PROVE  IInv'
  <1>1. /\ TypeOK /\ OwnTurns /\ OneLiveTurnPerSession /\ None \notin Turns
        /\ \A u \in Turns : lock = u <=> at[u] \in Running
    BY HolderAlone
  <1>2. /\ at[t] = "unsent" /\ at' = [at EXCEPT ![t] = "waiting"]
        /\ sess' = [sess EXCEPT ![t] = Direct]
        /\ UNCHANGED <<link, cur, sentences, lock, agent, pushes, crashes, unguarded>>
    BY DEF DirectRequest, NextTurn
  <1>3. /\ at'[t] = "waiting" /\ sess'[t] = Direct
        /\ \A u \in Turns \ {t} : at'[u] = at[u] /\ sess'[u] = sess[u]
    BY <1>1, <1>2 DEF TypeOK
  <1>4. TypeOK'
    BY <1>1, <1>2 DEF TypeOK, Places, link, agent, pushes
  <1>5. Tasks'
    BY <1>1, <1>2, <1>3 DEF Tasks, Holder, OwnTurns, OneLiveTurnPerSession, Live, Running, TypeOK
  <1>6. Threads'
    <2>1. \A u \in Turns : at'[u] \in Running => u # t /\ at'[u] = at[u]
      BY <1>3 DEF Running
    <2>2. \A u \in Turns : Awaiting(u) => u # t /\ Awaiting(u)'
      BY <1>2, <1>3 DEF Awaiting, agent
    <2> QED BY <1>2, <2>1, <2>2, QuietThreads DEF agent
  <1> QED BY <1>4, <1>5, <1>6 DEF IInv

(* A turn opens: its question is the last word of a thread nobody else owes. *)
LEMMA AcquireStep ==
  ASSUME IInv, NEW t \in Turns, NEW idle \in BOOLEAN, NEW alarm \in BOOLEAN,
         Acquire(t, idle, alarm)
  PROVE  IInv'
  <1> DEFINE base == IF idle THEN <<>> ELSE history
  <1>1. /\ TypeOK /\ OwnTurns /\ OneLiveTurnPerSession /\ Threads /\ None \notin Turns
        /\ \A u \in Turns : lock = u <=> at[u] \in Running
    BY HolderAlone
  <1>2. /\ lock = None /\ at[t] = "waiting" /\ lock' = t
        /\ at' = [at EXCEPT ![t] = IF alarm THEN "alarm" ELSE "inside"]
        /\ done' = (IF sess[t] = Direct THEN done ELSE FALSE)
        /\ history' = base \o (IF alarm THEN <<>> ELSE <<User(t)>>)
        /\ UNCHANGED <<link, cur, sess, sentences, closing, pushes, crashes, unguarded>>
    BY DEF Acquire
  <1>3. saved' = saved \/ saved' = <<>>
    BY DEF Acquire, Snapshot
  <1>4. /\ at'[t] = (IF alarm THEN "alarm" ELSE "inside")
        /\ \A u \in Turns \ {t} : at'[u] = at[u] /\ at'[u] \notin Running
    BY <1>1, <1>2 DEF TypeOK
  <1>5. base \in Seq(Entry) /\ Settled(base, unguarded) /\ Guarded(base, unguarded)
    <2>1. Settled(history, unguarded) /\ Guarded(history, unguarded) /\ history \in Seq(Entry)
      BY <1>1, <1>2 DEF Threads, Standing, Awaiting, Settled, TypeOK
    <2>2. Settled(<<>>, unguarded) /\ Guarded(<<>>, unguarded) /\ <<>> \in Seq(Entry)
      BY DEF Settled, Guarded, Unanswered
    <2> QED BY <2>1, <2>2
  <1>6. /\ history' \in Seq(Entry) /\ Guarded(history', unguarded)
        /\ alarm => Settled(history', unguarded)
        /\ ~alarm => history' # <<>> /\ history'[Len(history')] = User(t) /\ Owns(t, history')
    <2> HIDE DEF base
    <2>1. CASE alarm
      <3>1. history' = base
        BY <2>1, <1>2, <1>5
      <3> QED BY <2>1, <3>1, <1>5
    <2>2. CASE ~alarm
      <3>1. history' = base \o <<User(t)>>
        BY <2>2, <1>2
      <3> QED BY <2>2, <3>1, <1>5, AskedAfter
    <2> QED BY <2>1, <2>2
  <1>7. Tasks'
    <2>1. Holder'
      BY <1>1, <1>2, <1>4 DEF Holder, Running
    <2>2. OwnTurns'
      BY <1>1, <1>2, <1>4 DEF OwnTurns, TypeOK
    <2>3. OneLiveTurnPerSession'
      BY <1>1, <1>2, <1>4 DEF OneLiveTurnPerSession, Live
    <2> QED BY <2>1, <2>2, <2>3 DEF Tasks
  <1>8. Threads'
    <2>1. RunnerOwnsThread'
      BY <1>4, <1>6 DEF RunnerOwnsThread, Running
    <2>2. Standing'
      <3>1. CASE alarm
        BY <3>1, <1>2, <1>6 DEF Standing, Settled
      <3>2. CASE ~alarm
        <4>1. history'[Len(history')].turn = t
          BY <3>2, <1>6, Sayings
        <4>2. Awaiting(t)'
          BY <3>2, <1>2, <1>4 DEF Awaiting
        <4> QED BY <4>1, <4>2 DEF Standing
      <3> QED BY <3>1, <3>2
    <2>3. SnapshotEndsAnswered' /\ Guarded(saved', unguarded)
      BY <1>1, <1>3 DEF Threads, SnapshotEndsAnswered, Guarded, Unanswered
    <2> QED BY <1>2, <1>6, <2>1, <2>2, <2>3 DEF Threads
  <1>9. TypeOK'
    <2>1. at' \in [Turns -> Places]
      BY <1>1, <1>2 DEF TypeOK, Places
    <2>2. done' \in BOOLEAN /\ lock' \in Turns
      BY <1>1, <1>2 DEF TypeOK
    <2>3. saved' \in Seq(Entry)
      <3>1. saved \in Seq(Entry) /\ <<>> \in Seq(Entry)
        BY <1>1 DEF TypeOK
      <3> QED BY <1>3, <3>1
    <2> QED BY <1>1, <1>2, <1>6, <2>1, <2>2, <2>3 DEF TypeOK, link, pushes
  <1> QED BY <1>7, <1>8, <1>9 DEF IInv

(* An alarm's question and answer are recorded together. *)
LEMMA AlarmedStep ==
  ASSUME IInv, NEW t \in Turns, Alarmed(t)
  PROVE  IInv'
  <1>1. /\ TypeOK /\ Threads /\ \A u \in Turns : lock = u <=> at[u] \in Running
    BY HolderAlone
  <1>2. /\ lock = t /\ at[t] = "alarm" /\ Record(<<User(t), Answer(t)>>)
        /\ UNCHANGED <<link, cur, sess, sentences, closing, pushes, crashes, unguarded>>
        /\ \/ at' = [at EXCEPT ![t] = "over"] /\ lock' = None /\ done' = done
           \/ at' = [at EXCEPT ![t] = "sending"] /\ lock' = lock /\ done' = TRUE
    BY DEF Alarmed, Leave
  <1>3. Tasks' /\ lock' \in Turns \cup {None} /\ at' \in [Turns -> Places]
    BY <1>2, HolderSteps DEF Running
  <1>4. /\ history \in Seq(Entry) /\ Settled(history, unguarded) /\ Guarded(history, unguarded)
    BY <1>1, <1>2 DEF Threads, Standing, Awaiting, Settled, TypeOK
  <1>5. /\ history' \in Seq(Entry) /\ history' # <<>> /\ history'[Len(history')].role = "assistant"
        /\ Guarded(history', unguarded) /\ Owns(t, history')
        /\ Snapshot(history')
    <2> DEFINE asked == history \o <<User(t)>>
    <2>1. history' = asked \o <<Answer(t)>> /\ Snapshot(history')
      <3>1. <<User(t), Answer(t)>> # <<>>
        OBVIOUS
      <3>2. history' = history \o <<User(t), Answer(t)>> /\ Snapshot(history')
        BY <1>2, <3>1 DEF Record
      <3>3. User(t) \in Entry /\ Answer(t) \in Entry
        BY DEF User, Answer, Entry
      <3> QED BY <1>4, <3>2, <3>3, TwoAppended
    <2>2. asked \in Seq(Entry) /\ Guarded(asked, unguarded) /\ Owns(t, asked)
      BY <1>4, AskedAfter
    <2> HIDE DEF asked
    <2> QED BY <2>1, <2>2, Sayings, SaidAfter
  <1>6. saved' = history' \/ saved' = saved \/ saved' = <<>>
    BY <1>5 DEF Snapshot
  <1>7. Threads' /\ saved' \in Seq(Entry)
    <2>1. \A u \in Turns \ {t} : at'[u] \notin Running
      BY <1>1, <1>2 DEF TypeOK
    <2>2. RunnerOwnsThread' /\ Standing'
      BY <1>5, <2>1 DEF RunnerOwnsThread, Standing, Running
    <2>3. SnapshotEndsAnswered /\ Guarded(saved, unguarded) /\ saved \in Seq(Entry)
      BY <1>1 DEF Threads, TypeOK
    <2>4. Guarded(<<>>, unguarded) /\ <<>> \in Seq(Entry)
      BY DEF Guarded, Unanswered
    <2>5. SnapshotEndsAnswered' /\ Guarded(saved', unguarded) /\ saved' \in Seq(Entry)
      BY <1>5, <1>6, <2>3, <2>4 DEF SnapshotEndsAnswered
    <2> QED BY <1>2, <1>5, <2>2, <2>5 DEF Threads
  <1>8. TypeOK'
    BY <1>1, <1>2, <1>3, <1>5, <1>7 DEF TypeOK, link, pushes
  <1> QED BY <1>3, <1>7, <1>8 DEF IInv

(* A sentence, or the whole reply, on its way to the socket and back. *)
LEMMA StreamStep ==
  ASSUME IInv, NEW t \in Turns, Yield(t) \/ Sent(t) \/ SendFails(t)
  PROVE  IInv'
  <1>1. /\ TypeOK /\ None \notin Turns
        /\ \A u \in Turns : lock = u <=> at[u] \in Running
    BY HolderAlone
  <1>2. CASE Yield(t)
    <2>1. /\ lock = t /\ at[t] = "inside" /\ sess[t] # Direct
          /\ at' = [at EXCEPT ![t] = "sending"] /\ sentences' \in [Turns -> 0..MaxSentences]
          /\ UNCHANGED <<link, cur, sess, lock, agent, pushes, crashes, unguarded>>
      BY <1>1, <1>2, ServerAssumption DEF Yield, TypeOK
    <2>2. Tasks' /\ at' \in [Turns -> Places]
      BY <2>1, HolderSteps DEF Running
    <2>3. \A u \in Turns : Awaiting(u) => Awaiting(u)'
      BY <1>1, <2>1 DEF Awaiting, TypeOK, agent
    <2>4. Threads'
      BY <1>1, <2>1, <2>3, QuietThreads DEF TypeOK, agent, Running
    <2> QED BY <1>1, <2>1, <2>2, <2>4 DEF IInv, TypeOK, link, agent, pushes
  <1>3. CASE Sent(t)
    <2>1. /\ lock = t /\ at[t] = "sending"
          /\ at' = [at EXCEPT ![t] = IF done THEN "wrapping" ELSE "inside"]
          /\ UNCHANGED <<link, cur, sess, sentences, lock, agent, pushes, crashes, unguarded>>
      BY <1>3 DEF Sent
    <2>2. Tasks' /\ at' \in [Turns -> Places]
      BY <2>1, HolderSteps DEF Running
    <2>3. \A u \in Turns : Awaiting(u) => Awaiting(u)'
      BY <1>1, <2>1 DEF Awaiting, TypeOK, agent
    <2>4. Threads'
      BY <1>1, <2>1, <2>3, QuietThreads DEF TypeOK, agent, Running
    <2> QED BY <1>1, <2>1, <2>2, <2>4 DEF IInv, TypeOK, link, agent, pushes
  <1>4. CASE SendFails(t)
    <2>1. /\ lock = t /\ at[t] = "sending" /\ at' = [at EXCEPT ![t] = "over"] /\ lock' = None
          /\ closing' = closing \cup {t} /\ unguarded' = unguarded \cup {t}
          /\ UNCHANGED <<link, cur, sess, sentences, pushes, crashes, history, done, saved>>
      BY <1>4 DEF SendFails, Leave
    <2>2. Tasks' /\ at' \in [Turns -> Places]
      BY <2>1, HolderSteps DEF Running
    <2>3. \A u \in Turns : Awaiting(u) => u \in unguarded'
      BY <2>1 DEF Awaiting
    <2>4. Threads'
      BY <1>1, <2>1, <2>3, QuietThreads DEF TypeOK, Running
    <2> QED BY <1>1, <2>1, <2>2, <2>4 DEF IInv, TypeOK, link, pushes
  <1> QED BY <1>2, <1>3, <1>4

(* The holder records its answer and goes on, or leaves. *)
LEMMA AnswerRecorded ==
  ASSUME IInv, NEW t \in Turns, lock = t, at[t] = "inside",
         NEW p, at' = [at EXCEPT ![t] = p],
         \/ p \in Running /\ lock' = lock
         \/ p = "over" /\ lock' = None,
         Record(<<Answer(t)>>), done' \in BOOLEAN,
         UNCHANGED <<link, cur, sess, sentences, closing, pushes, crashes, unguarded>>
  PROVE  IInv'
  <1>1. TypeOK /\ Answering(<<Answer(t)>>) /\ <<Answer(t)>> # <<>>
    BY HolderAlone, Sayings
  <1>2. Tasks' /\ lock' \in Turns \cup {None} /\ at' \in [Turns -> Places]
    BY HolderSteps
  <1>3. \A u \in Turns : at'[u] \in Running \ {"alarm"} => at[u] \in Running \ {"alarm"}
    BY <1>1 DEF TypeOK, Running
  <1>4. history' \in Seq(Entry) /\ saved' \in Seq(Entry) /\ Threads'
    BY <1>1, <1>3, AnsweredThreads
  <1> QED BY <1>1, <1>2, <1>4 DEF IInv, TypeOK, link, pushes

(* The reply is recorded: a streamed turn goes on, a blocking one leaves. *)
LEMMA AnswerStep ==
  ASSUME IInv, NEW t \in Turns, Finish(t) \/ Respond(t)
  PROVE  IInv'
  <1>1. CASE Finish(t)
    <2>1. PICK p \in {"sending", "wrapping"} : at' = [at EXCEPT ![t] = p]
      BY <1>1 DEF Finish
    <2>2. p \in Running
      BY DEF Running
    <2>3. /\ lock = t /\ at[t] = "inside" /\ lock' = lock /\ Record(<<Answer(t)>>) /\ done' \in BOOLEAN
          /\ UNCHANGED <<link, cur, sess, sentences, closing, pushes, crashes, unguarded>>
      BY <1>1 DEF Finish
    <2> QED BY <2>1, <2>2, <2>3, AnswerRecorded
  <1>2. CASE Respond(t)
    <2>1. /\ lock = t /\ at[t] = "inside" /\ at' = [at EXCEPT ![t] = "over"] /\ lock' = None
          /\ Record(<<Answer(t)>>) /\ done' \in BOOLEAN
          /\ UNCHANGED <<link, cur, sess, sentences, closing, pushes, crashes, unguarded>>
      BY <1>2 DEF Respond, Leave, IInv, TypeOK
    <2> QED BY <2>1, AnswerRecorded
  <1> QED BY <1>1, <1>2

(* The last of a turn: a digest, or nothing more. *)
LEMMA WrapStep ==
  ASSUME IInv, NEW t \in Turns, Wrap(t)
  PROVE  IInv'
  <1>1. TypeOK /\ Answering(<<Nudge>>) /\ <<Nudge>> # <<>>
    BY HolderAlone, Sayings
  <1>2. /\ lock = t /\ at[t] = "wrapping" /\ at' = [at EXCEPT ![t] = "over"] /\ lock' = None
        /\ UNCHANGED <<link, cur, sess, sentences, done, closing, pushes, crashes, unguarded>>
        /\ UNCHANGED <<history, saved>> \/ Record(<<Nudge>>)
    BY DEF Wrap, Leave
  <1>3. Tasks' /\ at' \in [Turns -> Places]
    BY <1>2, HolderSteps
  <1>4. \A u \in Turns : at'[u] \in Running \ {"alarm"} => at[u] \in Running \ {"alarm"}
    BY <1>1, <1>2 DEF TypeOK, Running
  <1>5. history' \in Seq(Entry) /\ saved' \in Seq(Entry) /\ Threads'
    <2>1. CASE UNCHANGED <<history, saved>>
      <3>1. \A u \in Turns : ~Awaiting(u)
        BY <1>2 DEF Awaiting
      <3> QED BY <1>1, <1>2, <1>4, <2>1, <3>1, QuietThreads DEF TypeOK
    <2>2. CASE Record(<<Nudge>>)
      BY <1>1, <1>2, <1>4, <2>2, AnsweredThreads
    <2> QED BY <1>2, <2>1, <2>2
  <1> QED BY <1>1, <1>2, <1>3, <1>5 DEF IInv, TypeOK, link, pushes

(* The model chain raises: the guard answers, where there is one. *)
LEMMA RaiseStep ==
  ASSUME IInv, NEW t \in Turns, Raise(t)
  PROVE  IInv'
  <1>1. TypeOK /\ Answering(<<Answer(t)>>) /\ <<Answer(t)>> # <<>>
    BY HolderAlone, Sayings
  <1>2. /\ lock = t /\ at[t] \in {"alarm", "inside"}
        /\ at' = [at EXCEPT ![t] = "over"] /\ lock' = None
        /\ UNCHANGED <<link, cur, sess, sentences, done, closing, pushes, crashes>>
    BY DEF Raise, Leave
  <1>3. Tasks' /\ at' \in [Turns -> Places]
    BY <1>2, HolderSteps
  <1>4. \A u \in Turns : at'[u] \in Running \ {"alarm"} => at[u] \in Running \ {"alarm"}
    BY <1>1, <1>2 DEF TypeOK, Running
  <1>5. \/ /\ sess[t] = Direct /\ unguarded' = unguarded \cup {t} /\ UNCHANGED <<history, saved>>
        \/ /\ sess[t] # Direct /\ done /\ UNCHANGED <<history, saved, unguarded>>
        \/ Record(<<Answer(t)>>) /\ unguarded' = unguarded
    <2>1. /\ sess[t] = Direct => unguarded' = unguarded \cup {t} /\ UNCHANGED <<history, saved>>
          /\ sess[t] # Direct => /\ unguarded' = unguarded
                                 /\ Record(IF done THEN <<>> ELSE <<Answer(t)>>)
      BY DEF Raise
    <2>2. Record(<<>>) => UNCHANGED <<history, saved>>
      BY <1>1, ConcatEmptySeq DEF Record, TypeOK
    <2>3. CASE done
      BY <2>1, <2>2, <2>3
    <2>4. CASE ~done
      BY <2>1, <2>4
    <2> QED BY <2>3, <2>4
  <1>6. /\ history' \in Seq(Entry) /\ saved' \in Seq(Entry) /\ Threads' /\ unguarded' \subseteq Turns
    <2>1. CASE sess[t] = Direct /\ unguarded' = unguarded \cup {t} /\ UNCHANGED <<history, saved>>
      <3>1. \A u \in Turns : Awaiting(u) => u \in unguarded'
        BY <1>2, <2>1 DEF Awaiting
      <3> QED BY <1>1, <1>4, <2>1, <3>1, QuietThreads DEF TypeOK
    <2>2. CASE sess[t] # Direct /\ done /\ UNCHANGED <<history, saved, unguarded>>
      <3>1. \A u \in Turns : ~Awaiting(u)
        BY <1>2, <2>2 DEF Awaiting
      <3> QED BY <1>1, <1>4, <2>2, <3>1, QuietThreads DEF TypeOK
    <2>3. CASE Record(<<Answer(t)>>) /\ unguarded' = unguarded
      BY <1>1, <1>4, <2>3, AnsweredThreads DEF TypeOK
    <2> QED BY <1>5, <2>1, <2>2, <2>3
  <1> QED BY <1>1, <1>2, <1>3, <1>6 DEF IInv, TypeOK, link, pushes

(* An abandoned generator is closed. *)
LEMMA FinaliseStep ==
  ASSUME IInv, NEW t \in Turns, Finalise(t)
  PROVE  IInv'
  <1>1. TypeOK /\ Answering(<<Answer(t)>>) /\ <<Answer(t)>> # <<>>
    BY HolderAlone, Sayings
  <1>2. /\ closing' = closing \ {t} /\ Record(IF done THEN <<>> ELSE <<Answer(t)>>)
        /\ UNCHANGED <<conns, active, cur, sess, at, sentences, lock, done, nudges, pushing>>
        /\ UNCHANGED <<crashes, unguarded>>
    BY DEF Finalise, link, tasks, pushes
  <1>3. Tasks'
    BY <1>2 DEF IInv, Tasks, Holder, OwnTurns, OneLiveTurnPerSession, Live
  <1>4. history' \in Seq(Entry) /\ saved' \in Seq(Entry) /\ Threads'
    <2>1. CASE done
      <3>1. UNCHANGED <<history, saved>>
        BY <1>1, <1>2, <2>1, ConcatEmptySeq DEF Record, TypeOK
      <3>2. \A u \in Turns : Awaiting(u) => Awaiting(u)'
        BY <1>2 DEF Awaiting
      <3> QED BY <1>1, <1>2, <3>1, <3>2, QuietThreads DEF TypeOK
    <2>2. CASE ~done
      BY <1>1, <1>2, <2>2, AnsweredThreads
    <2> QED BY <2>1, <2>2
  <1> QED BY <1>1, <1>2, <1>3, <1>4 DEF IInv, TypeOK

(* The brain comes back on a thread that was snapshot, or on none. *)
LEMMA RestartStep ==
  ASSUME IInv, Restart
  PROVE  IInv'
  <1>1. TypeOK /\ SnapshotEndsAnswered /\ Guarded(saved, unguarded) /\ None \notin Turns
    BY HolderAlone DEF Threads
  <1>2. /\ conns' = {} /\ active' = None /\ crashes' \in 0..MaxCrashes
        /\ cur' = [s \in Sessions |-> None]
        /\ at' = [t \in Turns |-> IF at[t] = "unsent" THEN "unsent" ELSE "over"]
        /\ lock' = None /\ done' = TRUE /\ closing' = {}
        /\ pushing' = [n \in 1..MaxNudges |-> {}]
        /\ UNCHANGED <<sess, sentences, nudges, unguarded>>
    BY <1>1, ServerAssumption DEF Restart, TypeOK
  <1>3. history' \in {saved, <<>>} /\ saved' \in {history', saved}
    BY DEF Restart
  <1>4. /\ history' \in Seq(Entry) /\ saved' \in Seq(Entry)
        /\ Guarded(history', unguarded) /\ Guarded(saved', unguarded)
        /\ history' # <<>> => history'[Len(history')].role = "assistant"
        /\ saved' # <<>> => saved'[Len(saved')].role = "assistant"
    <2>1. Guarded(<<>>, unguarded) /\ <<>> \in Seq(Entry)
      BY DEF Guarded, Unanswered
    <2>2. /\ saved \in Seq(Entry) /\ Guarded(saved, unguarded)
          /\ saved # <<>> => saved[Len(saved)].role = "assistant"
      BY <1>1 DEF TypeOK, SnapshotEndsAnswered
    <2> QED BY <1>3, <2>1, <2>2
  <1>5. \A t \in Turns : at'[t] \in {"unsent", "over"}
    BY <1>2
  <1>6. Tasks'
    BY <1>1, <1>2, <1>5 DEF Tasks, Holder, OwnTurns, OneLiveTurnPerSession, Live, Running
  <1>7. Threads'
    BY <1>2, <1>4, <1>5 DEF Threads, RunnerOwnsThread, SnapshotEndsAnswered, Standing
  <1>8. TypeOK'
    <2>1. at' \in [Turns -> Places] /\ cur' \in [Sessions -> Turns \cup {None}]
          /\ pushing' \in [1..MaxNudges -> SUBSET Sessions]
      BY <1>2 DEF Places
    <2> QED BY <1>1, <1>2, <1>4, <2>1 DEF TypeOK
  <1> QED BY <1>6, <1>7, <1>8 DEF IInv

-----------------------------------------------------------------------------
(* The theorems. *)

(* No step of any task, device or restart breaks the invariant. *)
LEMMA NextIInv == IInv /\ [Next]_vars => IInv'
  <1> SUFFICES ASSUME IInv, [Next]_vars PROVE IInv'
    OBVIOUS
  <1>1. ASSUME NEW s \in Sessions, Hello(s) \/ Disconnect(s) PROVE IInv'
    <2>1. /\ UNCHANGED <<tasks, agent, pushes, crashes, unguarded>>
          /\ conns' \subseteq Sessions /\ active' \in Sessions \cup {None}
      BY <1>1 DEF IInv, TypeOK, Hello, Disconnect, tasks
    <2> QED BY <2>1, LinkStep
  <1>2. ASSUME NEW s \in Sessions, Barge(s) PROVE IInv'
    BY <1>2, BargeStep
  <1>3. ASSUME NEW s \in Sessions, NEW p \in Sessions, NEW t \in Turns, Utterance(s, t, p) PROVE IInv'
    BY <1>3, UtteranceStep
  <1>4. ASSUME NEW t \in Turns, Unheard(t) \/ DirectRequest(t) PROVE IInv'
    BY <1>4, UnheardStep, DirectRequestStep
  <1>5. ASSUME NEW t \in Turns, Step(t) PROVE IInv'
    <2>1. ASSUME NEW idle \in BOOLEAN, NEW alarm \in BOOLEAN, Acquire(t, idle, alarm) PROVE IInv'
      BY <2>1, AcquireStep
    <2>2. CASE Alarmed(t)
      BY <2>2, AlarmedStep
    <2>3. CASE Yield(t) \/ Sent(t) \/ SendFails(t)
      BY <2>3, StreamStep
    <2>4. CASE Finish(t) \/ Respond(t)
      BY <2>4, AnswerStep
    <2>5. CASE Wrap(t)
      BY <2>5, WrapStep
    <2>6. CASE Raise(t)
      BY <2>6, RaiseStep
    <2> QED BY <1>5, <2>1, <2>2, <2>3, <2>4, <2>5, <2>6 DEF Step
  <1>6. ASSUME NEW t \in Turns, Finalise(t) PROVE IInv'
    BY <1>6, FinaliseStep
  <1>7. CASE Broadcast
    BY <1>7, BroadcastStep
  <1>8. ASSUME NEW n \in 1..MaxNudges, NEW s \in Sessions, Interrupt(n, s) PROVE IInv'
    BY <1>8, InterruptStep
  <1>9. CASE Restart
    BY <1>9, RestartStep
  <1>10. CASE UNCHANGED vars
    <2>1. /\ UNCHANGED <<tasks, agent, pushes, crashes, unguarded>>
          /\ conns' \subseteq Sessions /\ active' \in Sessions \cup {None}
      BY <1>10 DEF vars, link, IInv, TypeOK
    <2> QED BY <2>1, LinkStep
  <1> QED BY <1>1, <1>2, <1>3, <1>4, <1>5, <1>6, <1>7, <1>8, <1>9, <1>10 DEF Next

(* The invariant holds in every reachable state. *)
THEOREM ServerInvariant == Spec => []IInv
  <1> QED BY InitIInv, NextIInv, PTL DEF Spec

(* The server, the agent and the snapshot keep their types. *)
THEOREM ServerTypes == Spec => []TypeOK
  <1>1. IInv => TypeOK
    BY DEF IInv
  <1> QED BY <1>1, ServerInvariant, PTL

(* Whoever runs, the thread's last question is its own: no answer is recorded *)
(* against another device's question (the lock of respond_stream's turns).    *)
THEOREM AnswersFollowTheirQuestions == Spec => []RunnerOwnsThread
  <1>1. IInv => RunnerOwnsThread
    BY DEF IInv, Threads
  <1> QED BY <1>1, ServerInvariant, PTL

(* A session never has two live turns, and a barge-in cancels the live one. *)
THEOREM UtterancesSupersede == Spec => []OneLiveTurnPerSession
  <1>1. IInv => OneLiveTurnPerSession
    BY DEF IInv, Tasks
  <1> QED BY <1>1, ServerInvariant, PTL

(* Two questions stand next to each other only where no guard covered the first. *)
THEOREM GuardsAnswer == Spec => []GuardAnswers
  <1>1. IInv => GuardAnswers
    BY DEF IInv, Threads, Guarded, GuardAnswers
  <1> QED BY <1>1, ServerInvariant, PTL

(* A restart resumes on something Afon said, whatever writes failed. *)
THEOREM SnapshotsAreAnswered == Spec => []SnapshotEndsAnswered
  <1>1. IInv => SnapshotEndsAnswered
    BY DEF IInv, Threads
  <1> QED BY <1>1, ServerInvariant, PTL

-----------------------------------------------------------------------------
(* What the thread says of which answer belongs to which question: a model  *)
(* reads it by position only, so the invariant above is worth having only   *)
(* if no later step puts a question between.                                *)

\* Does the question of t stand in the thread?
Asked(t, h) == \E i \in 1..Len(h) : h[i] = User(t)

\* A question is put into a thread once.
Once(h) == \A t \in Turns : \A i, j \in 1..Len(h) : h[i] = User(t) /\ h[j] = User(t) => i = j

\* Between a question and an answer of the same turn nothing else is asked,
\* unless the turn is one of `gone`.
InPlace(h, gone) ==
  \A t \in Turns \ gone : \A k, i \in 1..Len(h) :
    k < i /\ h[k] = User(t) /\ h[i] = Answer(t) => \A m \in k+1..i : h[m].role = "assistant"

\* Both, of the working thread and of the snapshot: each question is recorded
\* once, and an answer stands behind its own question with no other in between,
\* but for the turns that were left where no guard covers them (agent.py's
\* abandoned generators, closed when another turn may already have asked).
AnswersInPlace ==
  \A h \in {history, saved} : Once(h) /\ InPlace(h, unguarded)

\* A turn that has not begun to run, or is still on the emergency ladder, has
\* asked nothing; a generator left behind is one of the unguarded.
Early == {"unsent", "waiting", "alarm"}
Unsaid(h) == \A t \in Turns : at[t] \in Early => ~Asked(t, h)
OrderInv ==
  /\ \A h \in {history, saved} : Once(h) /\ InPlace(h, unguarded) /\ Unsaid(h)
  /\ closing \subseteq unguarded

\* An answer of t at the end of h is in its place.
Fits(t, h, gone) == t \in gone \/ Owns(t, h) \/ ~Asked(t, h)

(* One more answer: it fits, and asks nothing. *)
LEMMA OneAnswerMore ==
  ASSUME NEW h \in Seq(Entry), NEW x \in Entry, x.role = "assistant", NEW gone,
         Once(h), InPlace(h, gone), \A t \in Turns : x = Answer(t) => Fits(t, h, gone)
  PROVE  LET g == h \o <<x>>
         IN  /\ g \in Seq(Entry) /\ Once(g) /\ InPlace(g, gone)
             /\ \A t \in Turns : (Asked(t, g) => Asked(t, h)) /\ (Owns(t, h) => Owns(t, g))
  <1> DEFINE g == h \o <<x>>
  <1>1. /\ <<x>> \in Seq(Entry) /\ Len(<<x>>) = 1 /\ <<x>>[1] = x /\ <<x>> # <<>>
        /\ Len(h) \in Nat /\ Answering(<<x>>)
    BY DEF Answering
  <1>2. /\ g \in Seq(Entry) /\ Len(g) = Len(h) + 1 /\ g[Len(h) + 1] = x
        /\ \A i \in 1..Len(h) : g[i] = h[i]
    BY <1>1, Concatenated
  <1>3. \A t \in Turns : Owns(t, h) => Owns(t, g)
    BY <1>1, SaidAfter
  <1> HIDE DEF g
  <1>4. \A t \in Turns, i \in 1..Len(g) : g[i] = User(t) => i \in 1..Len(h) /\ h[i] = User(t)
    BY <1>1, <1>2, Sayings
  <1>5. Once(g)
    BY <1>4 DEF Once
  <1>6. ASSUME NEW t \in Turns \ gone, NEW k \in 1..Len(g), NEW i \in 1..Len(g),
               k < i, g[k] = User(t), g[i] = Answer(t), NEW m \in k+1..i
        PROVE  g[m].role = "assistant"
    <2>1. k \in 1..Len(h) /\ h[k] = User(t)
      BY <1>4, <1>6
    <2>2. CASE i \in 1..Len(h)
      <3>1. m \in 1..Len(h) /\ h[i] = Answer(t)
        BY <1>1, <1>2, <1>6, <2>2
      <3> QED BY <1>2, <1>6, <2>1, <2>2, <3>1 DEF InPlace
    <2>3. CASE i = Len(h) + 1
      <3>1. Owns(t, h)
        BY <1>2, <1>6, <2>1, <2>3 DEF Fits, Asked
      <3>2. PICK o \in 1..Len(h) : h[o] = User(t) /\ \A j \in o+1..Len(h) : h[j].role = "assistant"
        BY <3>1 DEF Owns
      <3>3. o = k
        BY <2>1, <3>2 DEF Once
      <3>4. m = Len(h) + 1 \/ m \in o+1..Len(h)
        BY <1>1, <1>6, <2>3, <3>3
      <3>5. m \in o+1..Len(h) => m \in 1..Len(h)
        BY <1>1
      <3> QED BY <1>2, <3>2, <3>4, <3>5
    <2> QED BY <1>1, <1>2, <1>6, <2>2, <2>3
  <1>7. InPlace(g, gone)
    BY <1>6 DEF InPlace
  <1>8. \A t \in Turns : Asked(t, g) => Asked(t, h)
    BY <1>4 DEF Asked
  <1> QED BY <1>2, <1>3, <1>5, <1>7, <1>8 DEF g

(* One more question, of a turn that has not asked yet. *)
LEMMA OneQuestionMore ==
  ASSUME NEW h \in Seq(Entry), NEW t \in Turns, NEW gone, Once(h), InPlace(h, gone), ~Asked(t, h)
  PROVE  LET g == h \o <<User(t)>>
         IN  /\ g \in Seq(Entry) /\ Once(g) /\ InPlace(g, gone) /\ Owns(t, g)
             /\ \A u \in Turns : Asked(u, g) => u = t \/ Asked(u, h)
  <1> DEFINE g == h \o <<User(t)>>
  <1>1. /\ <<User(t)>> \in Seq(Entry) /\ Len(<<User(t)>>) = 1 /\ <<User(t)>>[1] = User(t)
        /\ Len(h) \in Nat /\ User(t) # Answer(t)
        /\ \A u \in Turns : (User(u) = User(t) => u = t) /\ User(t) # Answer(u)
    BY Sayings DEF User, Answer
  <1>2. /\ g \in Seq(Entry) /\ Len(g) = Len(h) + 1 /\ g[Len(h) + 1] = User(t)
        /\ \A i \in 1..Len(h) : g[i] = h[i]
    BY <1>1, Concatenated
  <1> HIDE DEF g
  <1>3. \A u \in Turns, i \in 1..Len(g) :
          g[i] = User(u) => \/ i = Len(h) + 1 /\ u = t
                            \/ i \in 1..Len(h) /\ h[i] = User(u) /\ u # t
    BY <1>1, <1>2 DEF Asked
  <1>4. Once(g)
    BY <1>3 DEF Once
  <1>5. ASSUME NEW u \in Turns \ gone, NEW k \in 1..Len(g), NEW i \in 1..Len(g),
               k < i, g[k] = User(u), g[i] = Answer(u), NEW m \in k+1..i
        PROVE  g[m].role = "assistant"
    <2>1. i \in 1..Len(h) /\ k \in 1..Len(h) /\ m \in 1..Len(h)
      BY <1>1, <1>2, <1>5
    <2>2. h[k] = User(u) /\ h[i] = Answer(u) /\ g[m] = h[m]
      BY <1>2, <1>5, <2>1
    <2> QED BY <1>5, <2>1, <2>2 DEF InPlace
  <1>6. InPlace(g, gone)
    BY <1>5 DEF InPlace
  <1>7. Owns(t, g)
    <2>1. Len(g) \in 1..Len(g) /\ g[Len(g)] = User(t) /\ Len(g) + 1..Len(g) = {}
      BY <1>1, <1>2
    <2> QED BY <2>1 DEF Owns
  <1>8. \A u \in Turns : Asked(u, g) => u = t \/ Asked(u, h)
    BY <1>3 DEF Asked
  <1> QED BY <1>2, <1>4, <1>6, <1>7, <1>8 DEF g

(* More turns left without a guard promise no less. *)
LEMMA InPlaceStill ==
  ASSUME NEW h, NEW gone, NEW more, gone \subseteq more, InPlace(h, gone)
  PROVE  InPlace(h, more)
  BY DEF InPlace

(* A turn that runs never goes back to where it had asked nothing. *)
LEMMA OnlyOnwards ==
  ASSUME TypeOK, Next
  PROVE  /\ \A u \in Turns : at'[u] \in Early => at[u] \in Early
         /\ unguarded \subseteq unguarded'
  <1>1. ASSUME NEW gone, CancelTurns(gone)
        PROVE  /\ \A u \in Turns : at'[u] \in Early => at[u] \in Early
               /\ unguarded \subseteq unguarded'
    BY <1>1 DEF CancelTurns, Early
  <1>2. ASSUME NEW s \in Sessions, Hello(s) \/ Disconnect(s) \/ Barge(s)
        PROVE  /\ \A u \in Turns : at'[u] \in Early => at[u] \in Early
               /\ unguarded \subseteq unguarded'
    BY <1>1, <1>2 DEF Hello, Disconnect, Barge
  <1>3. ASSUME NEW s \in Sessions, NEW p \in Sessions, NEW t \in Turns, Utterance(s, t, p)
        PROVE  /\ \A u \in Turns : at'[u] \in Early => at[u] \in Early
               /\ unguarded \subseteq unguarded'
    BY <1>3 DEF Utterance, NextTurn, Early
  <1>4. ASSUME NEW t \in Turns, Unheard(t) \/ DirectRequest(t) \/ Finalise(t)
        PROVE  /\ \A u \in Turns : at'[u] \in Early => at[u] \in Early
               /\ unguarded \subseteq unguarded'
    BY <1>4 DEF Unheard, DirectRequest, Finalise, NextTurn, Early, tasks, TypeOK
  <1>5. ASSUME NEW t \in Turns, Step(t)
        PROVE  /\ \A u \in Turns : at'[u] \in Early => at[u] \in Early
               /\ unguarded \subseteq unguarded'
    <2>1. /\ unguarded \subseteq unguarded'
          /\ \E p \in Places : at' = [at EXCEPT ![t] = p] /\ (p \in Early => at[t] \in Early)
      BY <1>5 DEF Step, Acquire, Alarmed, Yield, Sent, SendFails, Finish, Wrap, Respond, Raise, Leave,
                  Places, Early
    <2> QED BY <2>1 DEF TypeOK
  <1>6. CASE Broadcast
    BY <1>1, <1>6 DEF Broadcast
  <1>7. ASSUME NEW n \in 1..MaxNudges, NEW s \in Sessions, Interrupt(n, s)
        PROVE  /\ \A u \in Turns : at'[u] \in Early => at[u] \in Early
               /\ unguarded \subseteq unguarded'
    BY <1>1, <1>7 DEF Interrupt
  <1>8. CASE Restart
    BY <1>8 DEF Restart, Early
  <1> QED BY <1>2, <1>3, <1>4, <1>5, <1>6, <1>7, <1>8 DEF Next

(* The order when nothing is said. *)
LEMMA QuietOrder ==
  ASSUME OrderInv, UNCHANGED <<history, saved>>, unguarded \subseteq unguarded',
         \A u \in Turns : at'[u] \in Early => at[u] \in Early, closing' \subseteq unguarded'
  PROVE  OrderInv'
  <1>1. \A h \in {history, saved} : /\ Once(h) /\ InPlace(h, unguarded')
                                    /\ \A t \in Turns : at'[t] \in Early => ~Asked(t, h)
    BY InPlaceStill DEF OrderInv, Unsaid
  <1> QED BY <1>1 DEF OrderInv, Unsaid

(* The order when a thread of the agent's, or none, is the new one, and the *)
(* snapshot follows it or not.                                              *)
LEMMA ThreadOrder ==
  ASSUME OrderInv, unguarded \subseteq unguarded', closing' \subseteq unguarded',
         \A u \in Turns : at'[u] \in Early => at[u] \in Early,
         Once(history'), InPlace(history', unguarded'),
         \A t \in Turns : at'[t] \in Early => ~Asked(t, history'),
         saved' \in {saved, history', <<>>}
  PROVE  OrderInv'
  <1>1. /\ Once(saved) /\ InPlace(saved, unguarded')
        /\ \A t \in Turns : at'[t] \in Early => ~Asked(t, saved)
    BY InPlaceStill DEF OrderInv, Unsaid
  <1>2. Once(<<>>) /\ InPlace(<<>>, unguarded') /\ \A t \in Turns : ~Asked(t, <<>>)
    BY DEF Once, InPlace, Asked
  <1> QED BY <1>1, <1>2 DEF OrderInv, Unsaid

(* The order when Afon speaks: a line of its own, an answer that fits, or both. *)
LEMMA SpokenOrder ==
  ASSUME IInv, OrderInv, unguarded \subseteq unguarded', closing' \subseteq unguarded',
         \A u \in Turns : at'[u] \in Early => at[u] \in Early,
         NEW e, Record(e),
         \/ e = <<>> \/ e = <<Nudge>>
         \/ \E t \in Turns : /\ Fits(t, history, unguarded')
                             /\ e = <<Answer(t)>> \/ e = <<Nudge, Answer(t)>>
  PROVE  OrderInv'
  <1>1. /\ history \in Seq(Entry) /\ Once(history) /\ InPlace(history, unguarded')
        /\ \A t \in Turns : at'[t] \in Early => ~Asked(t, history)
    BY InPlaceStill DEF IInv, TypeOK, OrderInv, Unsaid
  <1>2. /\ Nudge \in Entry /\ Nudge.role = "assistant" /\ None \notin Turns
        /\ \A t \in Turns : /\ Answer(t) \in Entry /\ Answer(t).role = "assistant" /\ Nudge # Answer(t)
                            /\ \A u \in Turns : Answer(t) = Answer(u) => t = u
    BY ServerAssumption DEF Nudge, Answer, Entry, Turns
  <1>3. CASE e = <<>>
    <2>1. UNCHANGED <<history, saved>>
      BY <1>1, <1>3, ConcatEmptySeq DEF Record
    <2> QED BY <2>1, QuietOrder
  <1>4. CASE e # <<>>
    <2>1. history' = history \o e /\ saved' \in {saved, history', <<>>}
      BY <1>4 DEF Record, Snapshot
    <2>2. CASE e = <<Nudge>>
      BY <1>1, <1>2, <2>1, <2>2, OneAnswerMore, ThreadOrder
    <2>3. ASSUME NEW t \in Turns, Fits(t, history, unguarded'), e = <<Answer(t)>>
          PROVE  OrderInv'
      BY <1>1, <1>2, <2>1, <2>3, OneAnswerMore, ThreadOrder
    <2>4. ASSUME NEW t \in Turns, Fits(t, history, unguarded'), e = <<Nudge, Answer(t)>>
          PROVE  OrderInv'
      <3> DEFINE g == history \o <<Nudge>>
      <3>1. /\ g \in Seq(Entry) /\ Once(g) /\ InPlace(g, unguarded')
            /\ \A u \in Turns : (Asked(u, g) => Asked(u, history)) /\ (Owns(u, history) => Owns(u, g))
        BY <1>1, <1>2, OneAnswerMore
      <3>2. history' = g \o <<Answer(t)>>
        BY <1>1, <1>2, <2>1, <2>4, TwoAppended
      <3> HIDE DEF g
      <3>3. Fits(t, g, unguarded')
        BY <2>4, <3>1 DEF Fits
      <3>4. /\ Once(history') /\ InPlace(history', unguarded')
            /\ \A u \in Turns : Asked(u, history') => Asked(u, g)
        BY <1>2, <3>1, <3>2, <3>3, OneAnswerMore
      <3> QED BY <1>1, <2>1, <3>1, <3>4, ThreadOrder
    <2> QED BY <1>4, <2>2, <2>3, <2>4
  <1> QED BY <1>3, <1>4

(* A turn inside its generator owns the thread's last question; one on the *)
(* ladder has asked nothing: what either says fits.                        *)
LEMMA HolderFits ==
  ASSUME IInv, OrderInv, NEW t \in Turns, at[t] \in {"alarm", "inside"}, NEW gone
  PROVE  Fits(t, history, gone)
  BY DEF IInv, Threads, RunnerOwnsThread, OrderInv, Unsaid, Early, Fits

(* What cancelling makes Afon say fits. *)
LEMMA CancelledFits ==
  ASSUME IInv, OrderInv, NEW gone, NEW lost
  PROVE  LET e == CancelledEntries(gone)
         IN  \/ e = <<>> /\ <<Nudge>> \o e = <<Nudge>>
             \/ \E t \in Turns : /\ Fits(t, history, lost)
                                 /\ e = <<Answer(t)>> /\ <<Nudge>> \o e = <<Nudge, Answer(t)>>
  <1>1. CASE CancelledEntries(gone) = <<>>
    <2>1. <<Nudge>> \in Seq(Entry)
      BY Sayings DEF Answering
    <2> QED BY <1>1, <2>1, ConcatEmptySeq
  <1>2. CASE CancelledEntries(gone) # <<>>
    <2>1. /\ lock \in Turns /\ at[lock] \in {"alarm", "inside"}
          /\ CancelledEntries(gone) = <<Answer(lock)>>
      BY <1>2 DEF CancelledEntries, IInv, TypeOK
    <2>2. <<Nudge>> \o <<Answer(lock)>> = <<Nudge, Answer(lock)>>
      <3>1. Nudge \in Entry /\ Answer(lock) \in Entry
        BY <2>1 DEF Nudge, Answer, Entry
      <3> QED BY <3>1, OneAndOne
    <2> QED BY <2>1, <2>2, HolderFits
  <1> QED BY <1>1, <1>2

(* The turns that are cancelled, and a line of Afon's own. *)
LEMMA CancelOrder ==
  ASSUME IInv, OrderInv, Next, NEW gone, CancelTurns(gone),
         \/ Record(CancelledEntries(gone)) \/ Record(<<Nudge>> \o CancelledEntries(gone))
  PROVE  OrderInv'
  <1>1. closing' \subseteq unguarded'
    BY DEF CancelTurns, OrderInv
  <1>2. TypeOK
    BY DEF IInv
  <1> QED BY <1>1, <1>2, OnlyOnwards, CancelledFits, SpokenOrder

LEMMA UtteranceOrder ==
  ASSUME IInv, OrderInv, Next, NEW s \in Sessions, NEW p \in Sessions, NEW t \in Turns,
         Utterance(s, t, p)
  PROVE  OrderInv'
  <1> DEFINE gone == {cur[s], cur[p]} \cap Turns
  <1>1. closing' \subseteq unguarded' /\ Record(CancelledEntries(gone))
    BY DEF Utterance, OrderInv
  <1>2. TypeOK
    BY DEF IInv
  <1> HIDE DEF gone
  <1> QED BY <1>1, <1>2, OnlyOnwards, CancelledFits, SpokenOrder

(* A turn opens, on the thread or after an idle gap on none: it asks for the *)
(* first time, or, an alarm, later.                                          *)
LEMMA AcquireOrder ==
  ASSUME IInv, OrderInv, Next, NEW t \in Turns, NEW idle \in BOOLEAN, NEW alarm \in BOOLEAN,
         Acquire(t, idle, alarm)
  PROVE  OrderInv'
  <1> DEFINE base == IF idle THEN <<>> ELSE history
  <1>1. /\ at[t] = "waiting" /\ at' = [at EXCEPT ![t] = IF alarm THEN "alarm" ELSE "inside"]
        /\ history' = base \o (IF alarm THEN <<>> ELSE <<User(t)>>)
        /\ saved' \in {saved, <<>>} /\ closing' = closing /\ unguarded' = unguarded
    BY DEF Acquire, Snapshot
  <1>2. TypeOK
    BY DEF IInv
  <1>3. /\ base \in Seq(Entry) /\ Once(base) /\ InPlace(base, unguarded) /\ Unsaid(base)
    <2>1. history \in Seq(Entry) /\ <<>> \in Seq(Entry)
      BY <1>2 DEF TypeOK
    <2>2. Once(<<>>) /\ InPlace(<<>>, unguarded) /\ Unsaid(<<>>)
      BY DEF Once, InPlace, Unsaid, Asked
    <2> QED BY <2>1, <2>2 DEF OrderInv
  <1> HIDE DEF base
  <1>4. \A u \in Turns : at'[u] \in Early => at[u] \in Early /\ (~alarm => u # t)
    BY <1>1, <1>2, OnlyOnwards DEF Early, TypeOK
  <1>5. /\ Once(history') /\ InPlace(history', unguarded)
        /\ \A u \in Turns : at'[u] \in Early => ~Asked(u, history')
    <2>1. CASE alarm
      <3>1. history' = base
        BY <1>1, <1>3, <2>1, ConcatEmptySeq
      <3> QED BY <3>1, <1>3, <1>4 DEF Unsaid
    <2>2. CASE ~alarm
      <3>1. ~Asked(t, base)
        BY <1>1, <1>3 DEF Unsaid, Early
      <3>2. /\ Once(history') /\ InPlace(history', unguarded)
            /\ \A u \in Turns : Asked(u, history') => u = t \/ Asked(u, base)
        BY <1>1, <1>3, <2>2, <3>1, OneQuestionMore
      <3> QED BY <2>2, <3>2, <1>3, <1>4 DEF Unsaid
    <2> QED BY <2>1, <2>2
  <1>6. closing' \subseteq unguarded' /\ unguarded \subseteq unguarded'
    BY <1>1 DEF OrderInv
  <1> QED BY <1>1, <1>4, <1>5, <1>6, ThreadOrder

(* An alarm asks and is answered at once. *)
LEMMA AlarmedOrder ==
  ASSUME IInv, OrderInv, Next, NEW t \in Turns, Alarmed(t)
  PROVE  OrderInv'
  <1> DEFINE asked == history \o <<User(t)>>
  <1>1. /\ at[t] = "alarm" /\ closing' = closing /\ unguarded' = unguarded
        /\ \/ at' = [at EXCEPT ![t] = "over"]
           \/ at' = [at EXCEPT ![t] = "sending"]
    BY DEF Alarmed, Leave
  <1>2. history' = history \o <<User(t), Answer(t)>> /\ saved' \in {saved, history', <<>>}
    BY DEF Alarmed, Record, Snapshot
  <1>3. TypeOK /\ history \in Seq(Entry)
    BY DEF IInv, TypeOK
  <1>4. User(t) \in Entry /\ Answer(t) \in Entry /\ Answer(t).role = "assistant"
        /\ \A u \in Turns : Answer(t) = Answer(u) => t = u
    BY DEF User, Answer, Entry
  <1>5. /\ Once(history) /\ InPlace(history, unguarded) /\ Unsaid(history) /\ ~Asked(t, history)
    BY <1>1 DEF OrderInv, Unsaid, Early
  <1>6. history' = asked \o <<Answer(t)>>
    BY <1>2, <1>3, <1>4, TwoAppended
  <1>7. /\ asked \in Seq(Entry) /\ Once(asked) /\ InPlace(asked, unguarded) /\ Owns(t, asked)
        /\ \A u \in Turns : Asked(u, asked) => u = t \/ Asked(u, history)
    BY <1>3, <1>5, OneQuestionMore
  <1> HIDE DEF asked
  <1>8. Fits(t, asked, unguarded)
    BY <1>7 DEF Fits
  <1>9. /\ Once(history') /\ InPlace(history', unguarded)
        /\ \A u \in Turns : Asked(u, history') => Asked(u, asked)
    BY <1>4, <1>6, <1>7, <1>8, OneAnswerMore
  <1>10. \A u \in Turns : at'[u] \in Early => at[u] \in Early /\ u # t
    BY <1>1, <1>3, OnlyOnwards DEF Early, TypeOK
  <1>11. \A u \in Turns : at'[u] \in Early => ~Asked(u, history')
    BY <1>5, <1>7, <1>9, <1>10 DEF Unsaid
  <1>12. closing' \subseteq unguarded' /\ unguarded \subseteq unguarded'
    BY <1>1 DEF OrderInv
  <1> QED BY <1>1, <1>2, <1>9, <1>10, <1>11, <1>12, ThreadOrder

(* The holder speaks, or does not. *)
LEMMA HolderOrder ==
  ASSUME IInv, OrderInv, Next, NEW t \in Turns,
         \/ Yield(t) \/ Sent(t) \/ SendFails(t) \/ Finish(t) \/ Wrap(t) \/ Respond(t) \/ Raise(t)
  PROVE  OrderInv'
  <1>1. TypeOK
    BY DEF IInv
  <1>2. closing' \subseteq unguarded'
    BY DEF Yield, Sent, SendFails, Finish, Wrap, Respond, Raise, OrderInv, agent
  <1>3. /\ unguarded \subseteq unguarded' /\ \A u \in Turns : at'[u] \in Early => at[u] \in Early
    BY <1>1, OnlyOnwards
  <1>4. CASE Yield(t) \/ Sent(t) \/ SendFails(t)
    <2>1. UNCHANGED <<history, saved>>
      BY <1>4 DEF Yield, Sent, SendFails, agent
    <2> QED BY <1>2, <1>3, <2>1, QuietOrder
  <1>5. CASE Finish(t) \/ Respond(t)
    <2>1. at[t] = "inside" /\ Record(<<Answer(t)>>)
      BY <1>5 DEF Finish, Respond
    <2> QED BY <1>2, <1>3, <2>1, HolderFits, SpokenOrder
  <1>6. CASE Wrap(t)
    <2>1. UNCHANGED <<history, saved>> \/ Record(<<Nudge>>)
      BY <1>6 DEF Wrap
    <2> QED BY <1>2, <1>3, <2>1, QuietOrder, SpokenOrder
  <1>7. CASE Raise(t)
    <2>1. /\ at[t] \in {"alarm", "inside"}
          /\ UNCHANGED <<history, saved>> \/ Record(<<>>) \/ Record(<<Answer(t)>>)
      BY <1>7 DEF Raise
    <2> QED BY <1>2, <1>3, <2>1, HolderFits, QuietOrder, SpokenOrder
  <1> QED BY <1>4, <1>5, <1>6, <1>7

(* A generator closed late speaks for a turn that no guard covered. *)
LEMMA FinaliseOrder ==
  ASSUME IInv, OrderInv, Next, NEW t \in Turns, Finalise(t)
  PROVE  OrderInv'
  <1>1. /\ TypeOK /\ unguarded' = unguarded /\ closing' \subseteq unguarded' /\ t \in unguarded
        /\ Record(<<>>) \/ Record(<<Answer(t)>>)
    BY DEF IInv, OrderInv, Finalise
  <1>2. Fits(t, history, unguarded')
    BY <1>1 DEF Fits
  <1> QED BY <1>1, <1>2, OnlyOnwards, SpokenOrder

LEMMA RestartOrder ==
  ASSUME IInv, OrderInv, Next, Restart
  PROVE  OrderInv'
  <1>1. /\ TypeOK /\ unguarded' = unguarded /\ closing' \subseteq unguarded'
        /\ history' \in {saved, <<>>} /\ saved' \in {history', saved}
    BY DEF IInv, Restart
  <1>2. \A u \in Turns : at'[u] \in Early => at[u] \in Early
    BY <1>1, OnlyOnwards
  <1>3. /\ Once(saved) /\ InPlace(saved, unguarded) /\ Unsaid(saved)
        /\ Once(<<>>) /\ InPlace(<<>>, unguarded) /\ Unsaid(<<>>)
    BY DEF OrderInv, Once, InPlace, Unsaid, Asked
  <1> QED BY <1>1, <1>2, <1>3, ThreadOrder DEF Unsaid

(* No step puts a question between a question and its answer. *)
LEMMA NextOrder == IInv /\ OrderInv /\ [Next]_vars => OrderInv'
  <1> SUFFICES ASSUME IInv, OrderInv, [Next]_vars PROVE OrderInv'
    OBVIOUS
  <1>1. TypeOK
    BY DEF IInv
  <1>2. CASE UNCHANGED vars
    <2>1. UNCHANGED <<history, saved, at, unguarded, closing>>
      BY <1>2 DEF vars, agent, tasks
    <2> QED BY <2>1 DEF OrderInv, Unsaid
  <1>3. CASE Next
    <2>1. ASSUME NEW s \in Sessions, Hello(s) \/ Disconnect(s) PROVE OrderInv'
      <3>1. UNCHANGED <<history, saved, at, unguarded, closing>>
        BY <2>1 DEF Hello, Disconnect, agent
      <3> QED BY <3>1 DEF OrderInv, Unsaid
    <2>2. ASSUME NEW s \in Sessions, Barge(s) PROVE OrderInv'
      BY <1>3, <2>2, CancelOrder DEF Barge
    <2>3. ASSUME NEW s \in Sessions, NEW p \in Sessions, NEW t \in Turns, Utterance(s, t, p)
          PROVE  OrderInv'
      BY <1>3, <2>3, UtteranceOrder
    <2>4. ASSUME NEW t \in Turns, Unheard(t) \/ DirectRequest(t) PROVE OrderInv'
      <3>1. UNCHANGED <<history, saved, unguarded, closing>>
        BY <2>4 DEF Unheard, DirectRequest, agent
      <3> QED BY <1>1, <1>3, <3>1, OnlyOnwards, QuietOrder DEF OrderInv
    <2>5. ASSUME NEW t \in Turns, Step(t) PROVE OrderInv'
      <3>1. ASSUME NEW idle \in BOOLEAN, NEW alarm \in BOOLEAN, Acquire(t, idle, alarm)
            PROVE  OrderInv'
        BY <1>3, <3>1, AcquireOrder
      <3>2. CASE Alarmed(t)
        BY <1>3, <3>2, AlarmedOrder
      <3> QED BY <1>3, <2>5, <3>1, <3>2, HolderOrder DEF Step
    <2>6. ASSUME NEW t \in Turns, Finalise(t) PROVE OrderInv'
      BY <1>3, <2>6, FinaliseOrder
    <2>7. CASE Broadcast
      <3>1. CASE Record(<<Nudge>>) /\ UNCHANGED <<at, closing, unguarded>>
        <4>1. closing' \subseteq unguarded'
          BY <3>1 DEF OrderInv
        <4> QED BY <1>1, <1>3, <3>1, <4>1, OnlyOnwards, SpokenOrder
      <3>2. ASSUME NEW s, CancelTurns({cur[s]}), Record(<<Nudge>> \o CancelledEntries({cur[s]}))
            PROVE  OrderInv'
        BY <1>3, <3>2, CancelOrder
      <3> QED BY <2>7, <3>1, <3>2 DEF Broadcast
    <2>8. ASSUME NEW n \in 1..MaxNudges, NEW s \in Sessions, Interrupt(n, s) PROVE OrderInv'
      BY <1>3, <2>8, CancelOrder DEF Interrupt
    <2>9. CASE Restart
      BY <1>3, <2>9, RestartOrder
    <2> QED BY <1>3, <2>1, <2>2, <2>3, <2>4, <2>5, <2>6, <2>7, <2>8, <2>9 DEF Next
  <1> QED BY <1>2, <1>3

(* In the thread, and in the one a restart resumes, each question stands once *)
(* and its answer behind it with no other question in between, but for turns  *)
(* that a failed send or a parked generator left without their guard.         *)
THEOREM AnswersStandInPlace == Spec => []AnswersInPlace
  <1>1. Init => OrderInv
    BY DEF Init, OrderInv, Once, InPlace, Unsaid, Asked
  <1>2. OrderInv => AnswersInPlace
    BY DEF OrderInv, AnswersInPlace
  <1> QED BY <1>1, <1>2, NextOrder, ServerInvariant, PTL DEF Spec
=============================================================================
