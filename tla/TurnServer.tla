----------------------------- MODULE TurnServer -----------------------------
(***************************************************************************)
(* The brain's turns: BrainServer (brain/server.py) serialising the turns  *)
(* of every device over one agent, and the agent's working history         *)
(* (brain/agent.py) that those turns append to.                            *)
(*                                                                         *)
(* A streamed turn is a task: it waits for the server's lock, then         *)
(* alternates between running inside the agent's generator and being       *)
(* suspended in a websocket send with the generator parked at a yield.  A  *)
(* cancellation or an error inside the generator runs its `finally` at     *)
(* once; one that hits the send abandons the generator, which the event    *)
(* loop closes in a task of its own after the lock has been released.      *)
(* A blocking turn (Telegram, the phone shortcut) has no such guard.       *)
(***************************************************************************)
EXTENDS Naturals, Sequences, FiniteSets

CONSTANTS
  Sessions,      \* devices holding a websocket session
  Direct,        \* the session of blocking turns: no socket, never cancelled
  MaxTurns,      \* bound: turns
  MaxSentences,  \* bound: sentences one turn yields
  MaxNudges,     \* bound: proactive lines
  MaxCrashes,    \* bound: restarts
  SavesFail,     \* may a snapshot write (or its removal) fail?
  None           \* no turn

ASSUME ServerAssumption ==
  /\ Direct \notin Sessions
  /\ MaxTurns \in Nat /\ MaxSentences \in Nat
  /\ MaxNudges \in Nat /\ MaxCrashes \in Nat
  /\ SavesFail \in BOOLEAN
  /\ None \notin 1..MaxTurns

Turns == 1..MaxTurns

VARIABLES
  conns,      \* BrainServer._conns: sessions with a live socket
  active,     \* _active_sid: the device last spoken to
  cur,        \* _turns: session -> its latest turn task
  sess,       \* turn -> its session, Direct for a blocking turn
  at,         \* turn -> where its task is
  sentences,  \* turn -> sentences yielded
  lock,       \* the turn holding `_lock`
  history,    \* agent._history: entries [role, turn]
  done,       \* agent._stream_done: one flag for all turns
  closing,    \* turns whose abandoned generator is not closed yet
  saved,      \* what afon_session.json holds
  nudges,     \* proactive lines so far
  pushing,    \* proactive line -> devices it still has to be spoken to
  crashes,
  unguarded   \* history: turns that ended where no guard could answer for them

link  == <<conns, active>>
tasks == <<cur, sess, at, sentences, lock>>
agent == <<history, done, closing, saved>>
pushes == <<nudges, pushing>>
vars  == <<link, tasks, agent, pushes, crashes, unguarded>>

\* Where a turn's task can be: working the emergency ladder with nothing of the
\* turn recorded yet ("alarm"), suspended in a model or tool call ("inside"), in
\* a send with the generator parked ("sending"), or after its end ("wrapping").
Places == {"unsent", "waiting", "alarm", "inside", "sending", "wrapping", "over"}
Live(t) == at[t] \notin {"unsent", "over"}

Entry == [role : {"user", "assistant"}, turn : Turns \cup {None}]
User(t)   == [role |-> "user", turn |-> t]
Answer(t) == [role |-> "assistant", turn |-> t]
Nudge     == [role |-> "assistant", turn |-> None]

TypeOK ==
  /\ conns \subseteq Sessions
  /\ active \in Sessions \cup {None}
  /\ cur \in [Sessions -> Turns \cup {None}]
  /\ sess \in [Turns -> Sessions \cup {Direct}]
  /\ at \in [Turns -> Places]
  /\ sentences \in [Turns -> 0..MaxSentences]
  /\ lock \in Turns \cup {None}
  /\ history \in Seq(Entry)
  /\ done \in BOOLEAN
  /\ closing \subseteq Turns
  /\ saved \in Seq(Entry)
  /\ nudges \in 0..MaxNudges
  /\ pushing \in [1..MaxNudges -> SUBSET Sessions]
  /\ crashes \in 0..MaxCrashes
  /\ unguarded \subseteq Turns

Init ==
  /\ conns = {} /\ active = None
  /\ cur = [s \in Sessions |-> None]
  /\ sess = [t \in Turns |-> Direct]
  /\ at = [t \in Turns |-> "unsent"]
  /\ sentences = [t \in Turns |-> 0]
  /\ lock = None
  /\ history = <<>> /\ done = TRUE /\ closing = {} /\ saved = <<>>
  /\ nudges = 0 /\ pushing = [n \in 1..MaxNudges |-> {}]
  /\ crashes = 0
  /\ unguarded = {}

-----------------------------------------------------------------------------
\* `_persist_session` swallows every error: the file keeps what it held, or is
\* left truncated, which loads as no thread at all.
Snapshot(thread) ==
  \/ saved' = thread
  \/ SavesFail /\ saved' \in {saved, <<>>}

\* Append entries that end with an assistant's: `_trim` always follows, and
\* snapshots the thread.
Record(entries) ==
  /\ history' = history \o entries
  /\ IF entries = <<>> THEN UNCHANGED saved ELSE Snapshot(history')

\* Variant: a cancelled turn is not answered for.
CancelledEntriesNone(gone) == <<>>

\* What cancelling the turns in `gone` makes the agent say: the lock's holder,
\* cancelled inside the generator before its answer was recorded.
CancelledEntries(gone) ==
  IF lock # None /\ lock \in gone /\ at[lock] \in {"alarm", "inside"} /\ ~done
  THEN <<Answer(lock)>>
  ELSE <<>>

\* task.cancel() on every live turn of `gone`, to its end: waiters stop waiting,
\* the holder releases the lock, a parked generator is left behind.
CancelTurns(gone) ==
  LET parked == {t \in gone \cap Turns : at[t] = "sending"}
  IN  /\ at' = [t \in Turns |-> IF t \in gone /\ Live(t) THEN "over" ELSE at[t]]
      /\ lock' = IF lock \in gone THEN None ELSE lock
      /\ closing' = closing \cup parked
      /\ unguarded' = unguarded \cup parked

\* Hello: the session registers its socket, in place of any earlier one.
Hello(s) ==
  /\ conns' = conns \cup {s}
  /\ UNCHANGED <<active, cur, sess, at, sentences, lock, agent, pushes, crashes, unguarded>>

\* The socket closes: nothing is pushed to it any more; its turn runs on.
Disconnect(s) ==
  /\ s \in conns
  /\ conns' = conns \ {s}
  /\ active' = IF active = s THEN None ELSE active
  /\ UNCHANGED <<cur, sess, at, sentences, lock, agent, pushes, crashes, unguarded>>

\* The next turn number, in order of arrival.
NextTurn(t) == at[t] = "unsent" /\ \A u \in Turns : at[u] = "unsent" => t <= u

\* Variant: the new turn does not supersede the session's previous one.
UtteranceKeepsOld(s, t, p) ==
  /\ s \in conns /\ NextTurn(t)
  /\ active' = s
  /\ cur' = [cur EXCEPT ![s] = t]
  /\ sess' = [sess EXCEPT ![t] = s]
  /\ at' = [at EXCEPT ![t] = "waiting"]
  /\ UNCHANGED <<conns, sentences, lock, agent, pushes, crashes, unguarded>>

\* An utterance cancels the session's current turn and starts a new one. When
\* device p sent the same words seconds ago and s heard them better, s takes
\* the sentence over and p's current turn is cancelled too (p = s: no takeover;
\* the device that heard worse is told to stay silent, and nothing changes).
\* Clocks and scores are left out: any device that has spoken can be p.
Utterance(s, t, p) ==
  LET gone == {cur[s], cur[p]} \cap Turns
  IN  /\ s \in conns /\ NextTurn(t)
      /\ p # s => cur[p] # None
      /\ active' = s
      /\ cur' = [cur EXCEPT ![s] = t]
      /\ sess' = [sess EXCEPT ![t] = s]
      /\ at' = [u \in Turns |-> IF u = t THEN "waiting"
                                ELSE IF u \in gone /\ Live(u) THEN "over" ELSE at[u]]
      /\ lock' = IF lock \in gone THEN None ELSE lock
      /\ closing' = closing \cup {u \in gone : at[u] = "sending"}
      /\ unguarded' = unguarded \cup {u \in gone : at[u] = "sending"}
      /\ Record(CancelledEntries(gone))
      /\ UNCHANGED <<conns, sentences, done, pushes, crashes>>

\* The socket closes before the turn has said "thinking": it ends there. (Only
\* a turn not in line for the lock yet can; `waiting` stands for both.)
Unheard(t) ==
  /\ at[t] = "waiting" /\ sess[t] # Direct
  /\ at' = [at EXCEPT ![t] = "over"]
  /\ UNCHANGED <<link, cur, sess, sentences, lock, agent, pushes, crashes, unguarded>>

\* Variant: a direct request is taken for the device last spoken to.
DirectRequestActive(t) ==
  /\ NextTurn(t)
  /\ active' = Direct
  /\ sess' = [sess EXCEPT ![t] = Direct]
  /\ at' = [at EXCEPT ![t] = "waiting"]
  /\ UNCHANGED <<conns, cur, sentences, lock, agent, pushes, crashes, unguarded>>

\* A Telegram message or a phone-shortcut request queues for the same lock.
DirectRequest(t) ==
  /\ NextTurn(t)
  /\ sess' = [sess EXCEPT ![t] = Direct]
  /\ at' = [at EXCEPT ![t] = "waiting"]
  /\ UNCHANGED <<link, cur, sentences, lock, agent, pushes, crashes, unguarded>>

\* Barge: the owner talks over the reply.
Barge(s) ==
  /\ s \in conns /\ cur[s] # None /\ Live(cur[s])
  /\ CancelTurns({cur[s]})
  /\ Record(CancelledEntries({cur[s]}))
  /\ UNCHANGED <<link, cur, sess, sentences, done, pushes, crashes>>

\* _broadcast_assistant: the line enters the history, then device after device
\* has its turn in flight cancelled and is sent the line. The sends are awaited,
\* so the world moves on between the first device and the next.
Broadcast ==
  LET targets == IF active \in conns THEN {active} ELSE conns
  IN  /\ nudges < MaxNudges
      /\ nudges' = nudges + 1
      /\ \/ /\ targets = {}
            /\ Record(<<Nudge>>)
            /\ UNCHANGED <<at, lock, closing, unguarded, pushing>>
         \/ \E s \in targets :
              /\ CancelTurns({cur[s]})
              /\ Record(<<Nudge>> \o CancelledEntries({cur[s]}))
              /\ pushing' = [pushing EXCEPT ![nudges'] = targets \ {s}]
      /\ UNCHANGED <<link, cur, sess, sentences, done, crashes>>

\* The same broadcast reaches its next device.
Interrupt(n, s) ==
  /\ s \in pushing[n]
  /\ pushing' = [pushing EXCEPT ![n] = @ \ {s}]
  /\ CancelTurns({cur[s]})
  /\ Record(CancelledEntries({cur[s]}))
  /\ UNCHANGED <<link, cur, sess, sentences, done, nudges, crashes>>

-----------------------------------------------------------------------------
\* Variant: a turn does not wait for the lock to be free.
AcquireUnlocked(t, idle, alarm) ==
  /\ at[t] = "waiting"
  /\ lock' = t
  /\ at' = [at EXCEPT ![t] = "inside"]
  /\ done' = IF sess[t] = Direct THEN done ELSE FALSE
  /\ history' = Append(history, User(t))
  /\ UNCHANGED <<link, cur, sess, sentences, closing, saved, pushes, crashes, unguarded>>

\* Variant: the owner's message is snapshot before it is answered.
AcquireSaves(t, idle, alarm) ==
  /\ lock = None /\ at[t] = "waiting"
  /\ lock' = t
  /\ at' = [at EXCEPT ![t] = "inside"]
  /\ done' = IF sess[t] = Direct THEN done ELSE FALSE
  /\ history' = Append(history, User(t))
  /\ Snapshot(history')
  /\ UNCHANGED <<link, cur, sess, sentences, closing, pushes, crashes, unguarded>>

\* A waiter gets the lock (asyncio wakes the first in line, but the turns get in
\* line in any order, each after its "thinking" event); its turn opens, after an
\* idle gap with a fresh thread. The owner's message is recorded before anything
\* is awaited, except an alarm's: that one goes up the emergency ladder first.
Acquire(t, idle, alarm) ==
  /\ lock = None /\ at[t] = "waiting"
  /\ lock' = t
  /\ at' = [at EXCEPT ![t] = IF alarm THEN "alarm" ELSE "inside"]
  /\ done' = IF sess[t] = Direct THEN done ELSE FALSE
  /\ idle => history # <<>> /\ closing = {}
  /\ history' = (IF idle THEN <<>> ELSE history) \o (IF alarm THEN <<>> ELSE <<User(t)>>)
  /\ IF idle THEN Snapshot(<<>>) ELSE UNCHANGED saved
  /\ UNCHANGED <<link, cur, sess, sentences, closing, pushes, crashes, unguarded>>

\* The holder's task ends and the lock is released.
Leave(t) ==
  /\ at' = [at EXCEPT ![t] = "over"]
  /\ lock' = None
  /\ UNCHANGED <<link, cur, sess, sentences, pushes, crashes>>

\* _raise_emergency: the ladder has been worked, question and answer are recorded
\* together, and the answer is spoken.
Alarmed(t) ==
  /\ lock = t /\ at[t] = "alarm"
  /\ Record(<<User(t), Answer(t)>>)
  /\ IF sess[t] = Direct
       THEN Leave(t) /\ UNCHANGED done
       ELSE /\ at' = [at EXCEPT ![t] = "sending"]
            /\ done' = TRUE
            /\ UNCHANGED <<link, cur, sess, sentences, lock, pushes, crashes>>
  /\ UNCHANGED <<closing, unguarded>>

\* The generator yields a sentence and the task awaits its send.
Yield(t) ==
  /\ lock = t /\ at[t] = "inside" /\ sess[t] # Direct
  /\ sentences[t] < MaxSentences
  /\ sentences' = [sentences EXCEPT ![t] = @ + 1]
  /\ at' = [at EXCEPT ![t] = "sending"]
  /\ UNCHANGED <<link, cur, sess, lock, agent, pushes, crashes, unguarded>>

\* The send completes and the generator runs on; past its end it is exhausted.
Sent(t) ==
  /\ lock = t /\ at[t] = "sending"
  /\ at' = [at EXCEPT ![t] = IF done THEN "wrapping" ELSE "inside"]
  /\ UNCHANGED <<link, cur, sess, sentences, lock, agent, pushes, crashes, unguarded>>

\* Variant: a failed send leaves without releasing the lock.
SendFailsHoldingLock(t) ==
  /\ lock = t /\ at[t] = "sending"
  /\ at' = [at EXCEPT ![t] = "over"]
  /\ closing' = closing \cup {t}
  /\ unguarded' = unguarded \cup {t}
  /\ UNCHANGED <<link, cur, sess, sentences, lock, history, done, saved, pushes, crashes>>

\* The socket went away: the send raises, outside the generator.
SendFails(t) ==
  /\ lock = t /\ at[t] = "sending"
  /\ closing' = closing \cup {t}
  /\ unguarded' = unguarded \cup {t}
  /\ Leave(t)
  /\ UNCHANGED <<history, done, saved>>

\* _finish: the whole reply is recorded; a streamed turn may still yield a last
\* admission about its sources, a refusal its only sentence.
Finish(t) ==
  /\ lock = t /\ at[t] = "inside" /\ sess[t] # Direct
  /\ Record(<<Answer(t)>>)
  /\ done' = TRUE
  /\ at' \in {[at EXCEPT ![t] = p] : p \in {"sending", "wrapping"}}
  /\ UNCHANGED <<link, cur, sess, sentences, lock, closing, pushes, crashes, unguarded>>

\* The digest addendum and the final marker; a dead socket only ends it sooner.
Wrap(t) ==
  /\ lock = t /\ at[t] = "wrapping"
  /\ \/ UNCHANGED <<history, saved>>
     \/ Record(<<Nudge>>)
  /\ Leave(t)
  /\ UNCHANGED <<done, closing, unguarded>>

\* A blocking turn answers, records its reply and leaves.
Respond(t) ==
  /\ lock = t /\ at[t] = "inside" /\ sess[t] = Direct
  /\ Record(<<Answer(t)>>)
  /\ Leave(t)
  /\ UNCHANGED <<done, closing, unguarded>>

\* The model chain or the ladder raised: the streaming guard records an
\* interruption, a blocking turn records nothing.
Raise(t) ==
  /\ lock = t /\ at[t] \in {"alarm", "inside"}
  /\ IF sess[t] = Direct
       THEN unguarded' = unguarded \cup {t} /\ UNCHANGED <<history, saved>>
       ELSE UNCHANGED unguarded /\ Record(IF done THEN <<>> ELSE <<Answer(t)>>)
  /\ Leave(t)
  /\ UNCHANGED <<done, closing>>

\* The event loop closes an abandoned generator: its `finally` reads the flag
\* as it is now.
Finalise(t) ==
  /\ t \in closing
  /\ closing' = closing \ {t}
  /\ Record(IF done THEN <<>> ELSE <<Answer(t)>>)
  /\ UNCHANGED <<link, tasks, done, pushes, crashes, unguarded>>

\* The brain dies and comes back on the snapshot, unless that is gone or stale.
Restart ==
  /\ crashes < MaxCrashes
  /\ crashes' = crashes + 1
  /\ conns' = {} /\ active' = None
  /\ cur' = [s \in Sessions |-> None]
  /\ at' = [t \in Turns |-> IF at[t] = "unsent" THEN "unsent" ELSE "over"]
  /\ lock' = None
  /\ history' \in {saved, <<>>}
  /\ saved' \in {history', saved}
  /\ done' = TRUE /\ closing' = {}
  /\ pushing' = [n \in 1..MaxNudges |-> {}]
  /\ UNCHANGED <<sess, sentences, nudges, unguarded>>

\* What the event loop does for a turn by itself, given time.
Step(t) ==
  \/ \E idle, alarm \in BOOLEAN : Acquire(t, idle, alarm)
  \/ Alarmed(t) \/ Yield(t) \/ Sent(t) \/ SendFails(t)
  \/ Finish(t) \/ Wrap(t) \/ Respond(t) \/ Raise(t)

Next ==
  \/ \E s \in Sessions : Hello(s) \/ Disconnect(s) \/ Barge(s)
  \/ \E s, p \in Sessions, t \in Turns : Utterance(s, t, p)
  \/ \E t \in Turns : Unheard(t) \/ DirectRequest(t) \/ Step(t) \/ Finalise(t)
  \/ Broadcast
  \/ \E n \in 1..MaxNudges, s \in Sessions : Interrupt(n, s)
  \/ Restart

Spec == Init /\ [][Next]_vars

\* Model calls, tools and sends return or raise, and the loop runs what is ready.
FairSpec == Spec /\ \A t \in Turns : WF_vars(Step(t)) /\ WF_vars(Finalise(t))

-----------------------------------------------------------------------------
\* Is the thread's last question t's own?
Owns(t, h) ==
  \E i \in 1..Len(h) : h[i] = User(t) /\ \A j \in i+1..Len(h) : h[j].role = "assistant"

\* The questions with another one right behind them.
Unanswered(h) == {i \in 1..(Len(h) - 1) : h[i].role = "user" /\ h[i + 1].role = "user"}

\* Serialisation: whichever turn is running, the thread's last question is its
\* own, so no answer is recorded against another device's question.
RunnerOwnsThread ==
  \A t \in Turns : at[t] \in {"inside", "sending", "wrapping"} => Owns(t, history)

\* A new utterance supersedes: a session never has two live turns, and the live
\* one is the one a barge-in would cancel.
OneLiveTurnPerSession ==
  \A t \in Turns : Live(t) /\ sess[t] # Direct => cur[sess[t]] = t

\* The interruption guard: two questions stand next to each other in the thread
\* only if the first one's turn ended where no guard covers it, in a send or in
\* a blocking turn that raised.
GuardAnswers == \A i \in Unanswered(history) : history[i].turn \in unguarded

\* A restart never resumes on a question without an answer: the snapshot is
\* taken only where the thread ends with something Afon said.
SnapshotEndsAnswered ==
  saved # <<>> => saved[Len(saved)].role = "assistant"

\* Every accepted utterance gets its turn over with: whatever is cancelled,
\* raised or disconnected, the lock comes free for the next in line.
EveryTurnEnds ==
  \A t \in Turns : at[t] = "waiting" ~> at[t] = "over"

\* "Two consecutive user turns can 400 on the next replay ... The `finally`
\* records a short placeholder so that never happens" (respond_stream): the
\* question of a streamed turn is never left standing before the next one.
NeverTwoQuestions == \A i \in Unanswered(history) : sess[history[i].turn] = Direct
=============================================================================
