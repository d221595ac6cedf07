--------------------------- MODULE PcLink_proofs ---------------------------
(***************************************************************************)
(* Proofs about PcLink, for any sets of calls and connections.             *)
(*                                                                         *)
(* AnswersMatch is not inductive: an answer is right because a command id  *)
(* is in one place at a time (on one socket, being executed, or executed   *)
(* with its result on the way), and that is what the invariant adds.       *)
(* OldLinkFailsNobody needs that a command that is still unanswered has    *)
(* the registered connection among those it has seen (Linked).             *)
(***************************************************************************)
EXTENDS PcLink, TLAPS

\* Something on the wire or on the laptop still stems from c.
Abroad(c) ==
  \/ op = c
  \/ \E s \in Sockets : Command(s, c) \in net \/ Result(s, c) \in net

\* A call that sent nothing has left no trace beyond the brain.
UnsentLeavesNoTrace ==
  \A c \in Calls : pc[c] \in {"idle", "ping"} \/ told[c] \in Unmade
     => ~Abroad(c) /\ runs[c] = 0

\* A command is in one place: on one socket and not yet run, or being executed.
OnePlace ==
  /\ \A c \in Calls, s \in Sockets : Command(s, c) \in net
        => op # c /\ runs[c] = 0 /\ \A t \in Sockets : Command(t, c) \in net => t = s
  /\ \A c \in Calls : op = c => runs[c] = IF ran THEN 1 ELSE 0
  /\ \A c \in Calls, s \in Sockets : Result(s, c) \in net => runs[c] = 1

\* Where the coroutine stands and what its future and its caller have.
Coroutine ==
  /\ \A c \in Calls : pc[c] \in {"idle", "ping"} => fut[c] = "unmade" /\ c \notin pending
  /\ \A c \in Calls : pc[c] = "done" <=> told[c] # "nothing"
  /\ \A c \in Calls : fut[c] = "result" \/ told[c] = "answer" => got[c] = c /\ runs[c] = 1
  /\ op # None => session # None

\* While a command is out and unanswered some connection is registered, and it is
\* the one the command went out on or one registered since.
Linked ==
  \A c \in Calls : pc[c] \in {"send", "wait"} /\ fut[c] = "open" => ws # None /\ ws \in links[c]

IInv ==
  /\ TypeOK /\ UnsentLeavesNoTrace /\ OnePlace /\ Coroutine
  /\ NoWaiterForgotten /\ RegisteredIsServed /\ Linked

(* Nothing is registered, pending or on the wire at first. *)
LEMMA InitIInv == Init => IInv
  <1> SUFFICES ASSUME Init PROVE IInv
    OBVIOUS
  <1>1. TypeOK
    BY DEF Init, TypeOK, Outcomes
  <1>2. UnsentLeavesNoTrace /\ OnePlace
    BY SentinelAssumption DEF Init, UnsentLeavesNoTrace, Abroad, OnePlace
  <1>3. Coroutine /\ NoWaiterForgotten /\ RegisteredIsServed /\ Linked
    BY DEF Init, Coroutine, NoWaiterForgotten, RegisteredIsServed, Linked
  <1> QED BY <1>1, <1>2, <1>3 DEF IInv

(* Frames of different kinds, sockets or ids are different frames, and each   *)
(* is one of those net may hold.                                              *)
LEMMA FramesDiffer ==
  /\ \A s, t \in Sockets, c, d \in Calls :
        /\ Command(s, c) # Result(t, d)
        /\ Command(s, c) # Hello(t) /\ Result(s, c) # Hello(t)
        /\ Command(s, c) = Command(t, d) => s = t /\ c = d
        /\ Result(s, c) = Result(t, d) => s = t /\ c = d
  /\ \A s \in Sockets : Hello(s) \in Frames
  /\ \A s \in Sockets, c \in Calls : Command(s, c) \in Frames /\ Result(s, c) \in Frames
  BY DEF Command, Result, Hello, Frames

(* A dispatched call has sent nothing yet. *)
LEMMA DispatchStep ==
  ASSUME IInv, NEW c \in Calls, Dispatch(c) PROVE IInv'
  <1> USE DEF IInv
  <1>1. TypeOK'
    <2>1. CASE Ping(c)
      BY <2>1 DEF TypeOK, Outcomes, Coroutine, Dispatch, Ping, laptop
    <2>2. CASE ws = None /\ End(c, "local") /\ UNCHANGED <<fut, using, got>>
      BY <2>2 DEF TypeOK, Outcomes, Unmade, Coroutine, Dispatch, End, laptop
    <2> QED BY <2>1, <2>2 DEF Dispatch
  <1>2. UnsentLeavesNoTrace'
    BY DEF TypeOK, UnsentLeavesNoTrace, Abroad, OnePlace, Coroutine, Unmade, Unsure, Dispatch, Ping, End, laptop
  <1>3. OnePlace'
    BY DEF TypeOK, UnsentLeavesNoTrace, Abroad, OnePlace, Coroutine, Dispatch, Ping, End, laptop
  <1>4. Coroutine'
    <2>1. CASE Ping(c)
      BY <2>1 DEF TypeOK, Outcomes, Coroutine, Dispatch, Ping, laptop
    <2>2. CASE ws = None /\ End(c, "local") /\ UNCHANGED <<fut, using, got>>
      BY <2>2 DEF TypeOK, Outcomes, Unmade, Coroutine, Dispatch, End, laptop
    <2> QED BY <2>1, <2>2 DEF Dispatch
  <1>5. NoWaiterForgotten' /\ RegisteredIsServed'
    BY SentinelAssumption DEF TypeOK, Coroutine, NoWaiterForgotten, RegisteredIsServed, Dispatch, Ping, End, laptop
  <1>6. Linked'
    BY SentinelAssumption DEF TypeOK, Coroutine, Linked, Dispatch, Ping, End, laptop
  <1> QED BY <1>1, <1>2, <1>3, <1>4, <1>5, <1>6

(* So has a repository call. *)
LEMMA RepoForwardStep ==
  ASSUME IInv, NEW c \in Calls, RepoForward(c) PROVE IInv'
  <1> USE DEF IInv
  <1>1. TypeOK'
    <2>1. CASE Ping(c)
      BY <2>1 DEF TypeOK, Outcomes, Coroutine, RepoForward, Ping, laptop
    <2>2. CASE ws = None /\ End(c, "refused") /\ UNCHANGED <<fut, using, got>>
      BY <2>2 DEF TypeOK, Outcomes, Unmade, Coroutine, RepoForward, End, laptop
    <2> QED BY <2>1, <2>2 DEF RepoForward
  <1>2. UnsentLeavesNoTrace'
    BY DEF TypeOK, UnsentLeavesNoTrace, Abroad, OnePlace, Coroutine, Unmade, Unsure, RepoForward, Ping, End, laptop
  <1>3. OnePlace'
    BY DEF TypeOK, UnsentLeavesNoTrace, Abroad, OnePlace, Coroutine, RepoForward, Ping, End, laptop
  <1>4. Coroutine'
    <2>1. CASE Ping(c)
      BY <2>1 DEF TypeOK, Outcomes, Coroutine, RepoForward, Ping, laptop
    <2>2. CASE ws = None /\ End(c, "refused") /\ UNCHANGED <<fut, using, got>>
      BY <2>2 DEF TypeOK, Outcomes, Unmade, Coroutine, RepoForward, End, laptop
    <2> QED BY <2>1, <2>2 DEF RepoForward
  <1>5. NoWaiterForgotten' /\ RegisteredIsServed'
    BY SentinelAssumption DEF TypeOK, Coroutine, NoWaiterForgotten, RegisteredIsServed, RepoForward, Ping, End, laptop
  <1>6. Linked'
    BY SentinelAssumption DEF TypeOK, Coroutine, Linked, RepoForward, Ping, End, laptop
  <1> QED BY <1>1, <1>2, <1>3, <1>4, <1>5, <1>6

(* A call that gives up on its ping sent nothing. *)
LEMMA UnreachableStep ==
  ASSUME IInv, NEW c \in Calls, Unreachable(c) PROVE IInv'
  <1> USE DEF IInv
  <1>1. TypeOK'
    BY DEF TypeOK, Outcomes, Unmade, Unsure, Unreachable, End, laptop
  <1>2. UnsentLeavesNoTrace'
    BY DEF TypeOK, UnsentLeavesNoTrace, Abroad, OnePlace, Coroutine, Unmade, Unsure, Unreachable, End, laptop
  <1>3. OnePlace'
    BY DEF TypeOK, UnsentLeavesNoTrace, Abroad, OnePlace, Coroutine, Unreachable, End, laptop
  <1>4. Coroutine'
    BY SentinelAssumption DEF TypeOK, UnsentLeavesNoTrace, OnePlace, Coroutine, Unmade, Abroad, Unreachable, End, laptop
  <1>5. NoWaiterForgotten' /\ RegisteredIsServed'
    BY SentinelAssumption DEF TypeOK, Coroutine, NoWaiterForgotten, RegisteredIsServed, Unreachable, End, laptop
  <1>6. Linked'
    BY SentinelAssumption DEF TypeOK, Coroutine, Linked, Unreachable, End, laptop
  <1> QED BY <1>1, <1>2, <1>3, <1>4, <1>5, <1>6

(* The one place a command goes to is the socket it is sent on, with its future listed. *)
LEMMA SendStep ==
  ASSUME IInv, NEW c \in Calls, Send(c) PROVE IInv'
  <1> USE DEF IInv
  <1>1. TypeOK'
    <2>1. ws # None => Command(ws, c) \in Frames
      BY FramesDiffer DEF TypeOK
    <2>2. net' \subseteq Frames
      BY <2>1 DEF TypeOK, Send, Written, Unsent
    <2>3. ws' \in Sockets \cup {None} /\ pending' \subseteq Calls
      BY DEF TypeOK, Send, Written, Unsent, End, laptop
    <2>5. /\ pc' \in [Calls -> {"idle", "ping", "send", "wait", "done"}]
          /\ using' \in [Calls -> Sockets \cup {None}]
          /\ links' \in [Calls -> SUBSET Sockets]
          /\ told' \in [Calls -> Outcomes \cup {"nothing"}]
          /\ link' \in [Sockets -> {"unused", "open", "cut", "closed"}]
          /\ handler' \in [Sockets -> {"none", "running", "ended"}]
          /\ session' \in Sockets \cup {None} /\ op' \in Calls \cup {None}
          /\ ran' \in BOOLEAN /\ runs' \in [Calls -> Nat]
      BY DEF TypeOK, Outcomes, Unmade, Send, Written, Unsent, End, laptop
    <2>4. fut' \in [Calls -> {"unmade", "open", "result", "error", "cancelled"}]
          /\ got' \in [Calls -> Calls \cup {None}]
      BY DEF TypeOK, Send, Written, Unsent, End, laptop
    <2> QED BY <2>2, <2>3, <2>4, <2>5 DEF TypeOK
  <1>2. UnsentLeavesNoTrace'
    <2>1. CASE ws # None /\ link[ws] # "closed" /\ Written(ws, c)
      <3>1. pc'[c] \in {"send", "wait"} /\ told[c] = "nothing" /\ UNCHANGED <<told, runs, op>>
        BY <2>1 DEF TypeOK, Coroutine, Send, Written, laptop
      <3>2. \A d \in Calls : d # c => pc'[d] = pc[d]
        BY <2>1 DEF TypeOK, Written
      <3>3. \A d \in Calls, s \in Sockets :
              /\ d # c /\ Command(s, d) \in net' => Command(s, d) \in net
              /\ Result(s, d) \in net' => Result(s, d) \in net
        BY <2>1, FramesDiffer DEF TypeOK, Written
      <3> QED BY <3>1, <3>2, <3>3 DEF UnsentLeavesNoTrace, Abroad, Unmade
    <2>2. CASE Unsent(c)
      BY <2>2 DEF TypeOK, UnsentLeavesNoTrace, Abroad, OnePlace, Coroutine, Unmade, Unsure, Send, Unsent, End, laptop
    <2> QED BY <2>1, <2>2 DEF Send
  <1>3. OnePlace'
    BY FramesDiffer DEF TypeOK, UnsentLeavesNoTrace, Abroad, OnePlace, Coroutine, Send, Written, Unsent, End, laptop
  <1>4. Coroutine'
    BY SentinelAssumption DEF TypeOK, UnsentLeavesNoTrace, OnePlace, Coroutine, Unmade, Abroad, Send, Written, Unsent, End, laptop
  <1>5. NoWaiterForgotten' /\ RegisteredIsServed'
    BY SentinelAssumption DEF TypeOK, Coroutine, NoWaiterForgotten, RegisteredIsServed, Send, Written, Unsent, End, laptop
  <1>6. Linked'
    BY SentinelAssumption DEF TypeOK, Coroutine, Linked, Send, Written, Unsent, End, laptop
  <1> QED BY <1>1, <1>2, <1>3, <1>4, <1>5, <1>6

(* A write that is through leaves the call to its result window. *)
LEMMA DrainedStep ==
  ASSUME IInv, NEW c \in Calls, Drained(c) PROVE IInv'
  <1> USE DEF IInv
  <1>1. TypeOK'
    BY DEF TypeOK, Outcomes, Drained, laptop
  <1>2. UnsentLeavesNoTrace'
    BY DEF TypeOK, UnsentLeavesNoTrace, Abroad, OnePlace, Coroutine, Drained, laptop
  <1>3. OnePlace'
    BY DEF TypeOK, OnePlace, Drained, laptop
  <1>4. Coroutine'
    BY DEF TypeOK, Coroutine, Drained, laptop
  <1>5. NoWaiterForgotten' /\ RegisteredIsServed'
    BY DEF TypeOK, NoWaiterForgotten, RegisteredIsServed, Drained, laptop
  <1>6. Linked'
    BY DEF TypeOK, Linked, Drained, laptop
  <1> QED BY <1>1, <1>2, <1>3, <1>4, <1>5, <1>6

(* One that raises ends the call in doubt. *)
LEMMA SendRaisesStep ==
  ASSUME IInv, NEW c \in Calls, SendRaises(c) PROVE IInv'
  <1> USE DEF IInv
  <1>1. TypeOK'
    BY DEF TypeOK, Outcomes, Unmade, Unsure, SendRaises, End, laptop
  <1>2. UnsentLeavesNoTrace'
    BY DEF TypeOK, UnsentLeavesNoTrace, Abroad, OnePlace, Coroutine, Unmade, Unsure, SendRaises, End, laptop
  <1>3. OnePlace'
    BY DEF TypeOK, OnePlace, SendRaises, End, laptop
  <1>4. Coroutine'
    BY DEF TypeOK, Coroutine, SendRaises, End, laptop
  <1>5. NoWaiterForgotten' /\ RegisteredIsServed'
    BY DEF TypeOK, NoWaiterForgotten, RegisteredIsServed, SendRaises, End, laptop
  <1>6. Linked'
    BY DEF TypeOK, Linked, SendRaises, End, laptop
  <1> QED BY <1>1, <1>2, <1>3, <1>4, <1>5, <1>6

(* A caller is told what its future holds. *)
LEMMA ReturnStep ==
  ASSUME IInv, NEW c \in Calls, Return(c) PROVE IInv'
  <1> USE DEF IInv
  <1>1. TypeOK'
    BY DEF TypeOK, Outcomes, Unmade, Unsure, Return, End, laptop
  <1>2. UnsentLeavesNoTrace'
    BY DEF TypeOK, UnsentLeavesNoTrace, Abroad, OnePlace, Coroutine, Unmade, Unsure, Return, End, laptop
  <1>3. OnePlace'
    BY DEF TypeOK, UnsentLeavesNoTrace, Abroad, OnePlace, Coroutine, Return, End, laptop
  <1>4. Coroutine'
    <2>1. CASE fut[c] = "result" /\ End(c, "answer")
      BY <2>1 DEF TypeOK, Coroutine, Return, End, laptop
    <2>2. CASE fut[c] = "error" /\ End(c, "disconnected")
      BY <2>2 DEF TypeOK, Coroutine, Return, End, laptop
    <2> QED BY <2>1, <2>2 DEF Return
  <1>5. NoWaiterForgotten' /\ RegisteredIsServed'
    BY SentinelAssumption DEF TypeOK, Coroutine, NoWaiterForgotten, RegisteredIsServed, Return, End, laptop
  <1>6. Linked'
    BY SentinelAssumption DEF TypeOK, Coroutine, Linked, Return, End, laptop
  <1> QED BY <1>1, <1>2, <1>3, <1>4, <1>5, <1>6

(* Giving up takes the call off the table. *)
LEMMA TimeoutStep ==
  ASSUME IInv, NEW c \in Calls, Timeout(c) PROVE IInv'
  <1> USE DEF IInv
  <1>1. TypeOK'
    BY DEF TypeOK, Outcomes, Unmade, Unsure, Timeout, End, laptop
  <1>2. UnsentLeavesNoTrace'
    BY DEF TypeOK, UnsentLeavesNoTrace, Abroad, OnePlace, Coroutine, Unmade, Unsure, Timeout, End, laptop
  <1>3. OnePlace'
    BY DEF TypeOK, UnsentLeavesNoTrace, Abroad, OnePlace, Coroutine, Timeout, End, laptop
  <1>4. Coroutine'
    BY SentinelAssumption DEF TypeOK, UnsentLeavesNoTrace, OnePlace, Coroutine, Unmade, Abroad, Timeout, End, laptop
  <1>5. NoWaiterForgotten' /\ RegisteredIsServed'
    BY SentinelAssumption DEF TypeOK, Coroutine, NoWaiterForgotten, RegisteredIsServed, Timeout, End, laptop
  <1>6. Linked'
    BY SentinelAssumption DEF TypeOK, Coroutine, Linked, Timeout, End, laptop
  <1> QED BY <1>1, <1>2, <1>3, <1>4, <1>5, <1>6

(* A cancelled call stays on the table with its future done. *)
LEMMA CancelStep ==
  ASSUME IInv, NEW c \in Calls, Cancel(c) PROVE IInv'
  <1> USE DEF IInv
  <1>1. TypeOK'
    BY DEF TypeOK, Outcomes, Unmade, Unsure, Cancel, End, laptop
  <1>2. UnsentLeavesNoTrace'
    BY DEF TypeOK, UnsentLeavesNoTrace, Abroad, OnePlace, Coroutine, Unmade, Unsure, Cancel, End, laptop
  <1>3. OnePlace'
    BY DEF TypeOK, UnsentLeavesNoTrace, Abroad, OnePlace, Coroutine, Cancel, End, laptop
  <1>4. Coroutine'
    BY SentinelAssumption DEF TypeOK, UnsentLeavesNoTrace, OnePlace, Coroutine, Unmade, Abroad, Cancel, End, laptop
  <1>5. NoWaiterForgotten' /\ RegisteredIsServed'
    BY SentinelAssumption DEF TypeOK, Coroutine, NoWaiterForgotten, RegisteredIsServed, Cancel, End, laptop
  <1>6. Linked'
    BY SentinelAssumption DEF TypeOK, Coroutine, Linked, Cancel, End, laptop
  <1> QED BY <1>1, <1>2, <1>3, <1>4, <1>5, <1>6

(* The handler that registers is running. *)
LEMMA RegisterStep ==
  ASSUME IInv, NEW s \in Sockets, Register(s) PROVE IInv'
  <1> USE DEF IInv
  <1>1. TypeOK'
    BY DEF TypeOK, Outcomes, Unmade, Unsure, Register, Registered, laptop
  <1>2. UnsentLeavesNoTrace'
    BY DEF TypeOK, UnsentLeavesNoTrace, Abroad, OnePlace, Coroutine, Unmade, Unsure, Register, Registered, laptop
  <1>3. OnePlace'
    BY DEF TypeOK, UnsentLeavesNoTrace, Abroad, OnePlace, Coroutine, Register, Registered, laptop
  <1>4. Coroutine'
    BY SentinelAssumption DEF TypeOK, UnsentLeavesNoTrace, OnePlace, Coroutine, Unmade, Abroad, Register, Registered, laptop
  <1>5. NoWaiterForgotten' /\ RegisteredIsServed'
    BY SentinelAssumption DEF TypeOK, Coroutine, NoWaiterForgotten, RegisteredIsServed, Register, Registered, laptop
  <1>6. Linked'
    BY SentinelAssumption DEF TypeOK, Coroutine, Linked, Register, Registered, laptop
  <1> QED BY <1>1, <1>2, <1>3, <1>4, <1>5, <1>6

(* So is the one that hears the hello. *)
LEMMA HearHelloStep ==
  ASSUME IInv, NEW s \in Sockets, HearHello(s) PROVE IInv'
  <1> USE DEF IInv
  <1>1. TypeOK'
    BY FramesDiffer DEF TypeOK, Outcomes, Unmade, Unsure, HearHello, Registered, laptop
  <1>2. UnsentLeavesNoTrace'
    BY FramesDiffer DEF TypeOK, UnsentLeavesNoTrace, Abroad, OnePlace, Coroutine, Unmade, Unsure, HearHello, Registered, laptop
  <1>3. OnePlace'
    BY FramesDiffer DEF TypeOK, UnsentLeavesNoTrace, Abroad, OnePlace, Coroutine, HearHello, Registered, laptop
  <1>4. Coroutine'
    BY SentinelAssumption DEF TypeOK, UnsentLeavesNoTrace, OnePlace, Coroutine, Unmade, Abroad, HearHello, Registered, laptop
  <1>5. NoWaiterForgotten' /\ RegisteredIsServed'
    BY SentinelAssumption DEF TypeOK, Coroutine, NoWaiterForgotten, RegisteredIsServed, HearHello, Registered, laptop
  <1>6. Linked'
    BY SentinelAssumption DEF TypeOK, Coroutine, Linked, HearHello, Registered, laptop
  <1> QED BY <1>1, <1>2, <1>3, <1>4, <1>5, <1>6

(* Every future taken off the table is set. *)
LEMMA HandlerEndsStep ==
  ASSUME IInv, NEW s \in Sockets, HandlerEnds(s) PROVE IInv'
  <1> USE DEF IInv
  <1>1. TypeOK'
    BY DEF TypeOK, Outcomes, Unmade, Unsure, HandlerEnds, Unregister, laptop
  <1>2. UnsentLeavesNoTrace'
    BY DEF TypeOK, UnsentLeavesNoTrace, Abroad, OnePlace, Coroutine, Unmade, Unsure, HandlerEnds, Unregister, laptop
  <1>3. OnePlace'
    BY DEF TypeOK, UnsentLeavesNoTrace, Abroad, OnePlace, Coroutine, HandlerEnds, Unregister, laptop
  <1>4. Coroutine'
    BY SentinelAssumption DEF TypeOK, UnsentLeavesNoTrace, OnePlace, Coroutine, Unmade, Abroad, HandlerEnds, Unregister, laptop
  <1>5. NoWaiterForgotten' /\ RegisteredIsServed'
    BY SentinelAssumption DEF TypeOK, Coroutine, NoWaiterForgotten, RegisteredIsServed, HandlerEnds, Unregister, laptop
  <1>6. Linked'
    BY DEF TypeOK, Coroutine, NoWaiterForgotten, Linked, HandlerEnds, Unregister, laptop
  <1> QED BY <1>1, <1>2, <1>3, <1>4, <1>5, <1>6

(* The result of a command is that of its one run. *)
LEMMA ResolveStep ==
  ASSUME IInv, NEW s \in Sockets, NEW c \in Calls, Resolve(s, c) PROVE IInv'
  <1> USE DEF IInv
  <1>1. TypeOK'
    <2>2. net' \subseteq Frames
      BY DEF TypeOK, Resolve
    <2>3. ws' \in Sockets \cup {None} /\ pending' \subseteq Calls
      BY DEF TypeOK, Resolve, laptop
    <2>5. /\ pc' \in [Calls -> {"idle", "ping", "send", "wait", "done"}]
          /\ using' \in [Calls -> Sockets \cup {None}]
          /\ links' \in [Calls -> SUBSET Sockets]
          /\ told' \in [Calls -> Outcomes \cup {"nothing"}]
          /\ link' \in [Sockets -> {"unused", "open", "cut", "closed"}]
          /\ handler' \in [Sockets -> {"none", "running", "ended"}]
          /\ session' \in Sockets \cup {None} /\ op' \in Calls \cup {None}
          /\ ran' \in BOOLEAN /\ runs' \in [Calls -> Nat]
      BY DEF TypeOK, Outcomes, Unmade, Resolve, laptop
    <2>4. fut' \in [Calls -> {"unmade", "open", "result", "error", "cancelled"}]
          /\ got' \in [Calls -> Calls \cup {None}]
      BY DEF TypeOK, Resolve, laptop
    <2> QED BY <2>2, <2>3, <2>4, <2>5 DEF TypeOK
  <1>2. UnsentLeavesNoTrace'
    BY FramesDiffer DEF TypeOK, UnsentLeavesNoTrace, Abroad, OnePlace, Coroutine, Unmade, Unsure, Resolve, laptop
  <1>3. OnePlace'
    BY FramesDiffer DEF TypeOK, UnsentLeavesNoTrace, Abroad, OnePlace, Coroutine, Resolve, laptop
  <1>4. Coroutine'
    BY SentinelAssumption DEF TypeOK, UnsentLeavesNoTrace, OnePlace, Coroutine, Unmade, Abroad, Resolve, laptop
  <1>5. NoWaiterForgotten' /\ RegisteredIsServed'
    BY SentinelAssumption DEF TypeOK, Coroutine, NoWaiterForgotten, RegisteredIsServed, Resolve, laptop
  <1>6. Linked'
    BY SentinelAssumption DEF TypeOK, Coroutine, Linked, Resolve, laptop
  <1> QED BY <1>1, <1>2, <1>3, <1>4, <1>5, <1>6

(* Losing frames puts no command anywhere. *)
LEMMA CutStep ==
  ASSUME IInv, NEW s \in Sockets, Cut(s) PROVE IInv'
  <1> USE DEF IInv
  <1>1. TypeOK'
    BY FramesDiffer DEF TypeOK, Outcomes, Unmade, Unsure, Cut, FramesOf, caller, laptop
  <1>2. UnsentLeavesNoTrace'
    BY FramesDiffer DEF TypeOK, UnsentLeavesNoTrace, Abroad, OnePlace, Coroutine, Unmade, Unsure, Cut, FramesOf, caller, laptop
  <1>3. OnePlace'
    BY FramesDiffer DEF TypeOK, UnsentLeavesNoTrace, Abroad, OnePlace, Coroutine, Cut, FramesOf, caller, laptop
  <1>4. Coroutine'
    BY SentinelAssumption DEF TypeOK, UnsentLeavesNoTrace, OnePlace, Coroutine, Unmade, Abroad, Cut, FramesOf, caller, laptop
  <1>5. NoWaiterForgotten' /\ RegisteredIsServed'
    BY SentinelAssumption DEF TypeOK, Coroutine, NoWaiterForgotten, RegisteredIsServed, Cut, FramesOf, caller, laptop
  <1>6. Linked'
    BY SentinelAssumption DEF TypeOK, Coroutine, Linked, Cut, FramesOf, caller, laptop
  <1> QED BY <1>1, <1>2, <1>3, <1>4, <1>5, <1>6

(* Closing a socket moves no command. *)
LEMMA NoticeStep ==
  ASSUME IInv, NEW s \in Sockets, Notice(s) PROVE IInv'
  <1> USE DEF IInv
  <1>1. TypeOK'
    BY DEF TypeOK, Outcomes, Unmade, Unsure, Notice, caller, laptop
  <1>2. UnsentLeavesNoTrace'
    BY DEF TypeOK, UnsentLeavesNoTrace, Abroad, OnePlace, Coroutine, Unmade, Unsure, Notice, caller, laptop
  <1>3. OnePlace'
    BY DEF TypeOK, UnsentLeavesNoTrace, Abroad, OnePlace, Coroutine, Notice, caller, laptop
  <1>4. Coroutine'
    BY SentinelAssumption DEF TypeOK, UnsentLeavesNoTrace, OnePlace, Coroutine, Unmade, Abroad, Notice, caller, laptop
  <1>5. NoWaiterForgotten' /\ RegisteredIsServed'
    BY SentinelAssumption DEF TypeOK, Coroutine, NoWaiterForgotten, RegisteredIsServed, Notice, caller, laptop
  <1>6. Linked'
    BY SentinelAssumption DEF TypeOK, Coroutine, Linked, Notice, caller, laptop
  <1> QED BY <1>1, <1>2, <1>3, <1>4, <1>5, <1>6

(* A new session starts with no command. *)
LEMMA ConnectStep ==
  ASSUME IInv, NEW s \in Sockets, Connect(s) PROVE IInv'
  <1> USE DEF IInv
  <1>1. TypeOK'
    <2>2. net' \subseteq Frames
      BY FramesDiffer DEF TypeOK, Connect
    <2>3. ws' \in Sockets \cup {None} /\ pending' \subseteq Calls
      BY DEF TypeOK, Connect, caller
    <2>5. /\ pc' \in [Calls -> {"idle", "ping", "send", "wait", "done"}]
          /\ using' \in [Calls -> Sockets \cup {None}]
          /\ links' \in [Calls -> SUBSET Sockets]
          /\ told' \in [Calls -> Outcomes \cup {"nothing"}]
          /\ link' \in [Sockets -> {"unused", "open", "cut", "closed"}]
          /\ handler' \in [Sockets -> {"none", "running", "ended"}]
          /\ session' \in Sockets \cup {None} /\ op' \in Calls \cup {None}
          /\ ran' \in BOOLEAN /\ runs' \in [Calls -> Nat]
      BY DEF TypeOK, Outcomes, Unmade, Connect, caller
    <2>4. fut' \in [Calls -> {"unmade", "open", "result", "error", "cancelled"}]
          /\ got' \in [Calls -> Calls \cup {None}]
      BY DEF TypeOK, Connect, caller
    <2> QED BY <2>2, <2>3, <2>4, <2>5 DEF TypeOK
  <1>2. UnsentLeavesNoTrace'
    BY FramesDiffer DEF TypeOK, UnsentLeavesNoTrace, Abroad, OnePlace, Coroutine, Unmade, Unsure, Connect, caller
  <1>3. OnePlace'
    BY FramesDiffer DEF TypeOK, UnsentLeavesNoTrace, Abroad, OnePlace, Coroutine, Connect, caller
  <1>4. Coroutine'
    BY SentinelAssumption DEF TypeOK, UnsentLeavesNoTrace, OnePlace, Coroutine, Unmade, Abroad, Connect, caller
  <1>5. NoWaiterForgotten' /\ RegisteredIsServed'
    BY SentinelAssumption DEF TypeOK, Coroutine, NoWaiterForgotten, RegisteredIsServed, Connect, caller
  <1>6. Linked'
    BY SentinelAssumption DEF TypeOK, Coroutine, Linked, Connect, caller
  <1> QED BY <1>1, <1>2, <1>3, <1>4, <1>5, <1>6

(* The command moves from its socket to the executor. *)
LEMMA TakeStep ==
  ASSUME IInv, NEW c \in Calls, Take(c) PROVE IInv'
  <1> USE DEF IInv
  <1>1. TypeOK'
    BY FramesDiffer DEF TypeOK, Outcomes, Unmade, Unsure, Take, caller
  <1>2. UnsentLeavesNoTrace'
    BY FramesDiffer DEF TypeOK, UnsentLeavesNoTrace, Abroad, OnePlace, Coroutine, Unmade, Unsure, Take, caller
  <1>3. OnePlace'
    BY FramesDiffer DEF TypeOK, UnsentLeavesNoTrace, Abroad, OnePlace, Coroutine, Take, caller
  <1>4. Coroutine'
    BY SentinelAssumption DEF TypeOK, UnsentLeavesNoTrace, OnePlace, Coroutine, Unmade, Abroad, Take, caller
  <1>5. NoWaiterForgotten' /\ RegisteredIsServed'
    BY SentinelAssumption DEF TypeOK, Coroutine, NoWaiterForgotten, RegisteredIsServed, Take, caller
  <1>6. Linked'
    BY SentinelAssumption DEF TypeOK, Coroutine, Linked, Take, caller
  <1> QED BY <1>1, <1>2, <1>3, <1>4, <1>5, <1>6

(* It runs for the first time. *)
LEMMA RunOpStep ==
  ASSUME IInv, RunOp PROVE IInv'
  <1> USE DEF IInv
  <1>1. TypeOK'
    <2>3. op \in Calls /\ runs' \in [Calls -> Nat]
      BY DEF TypeOK, RunOp
    <2> QED BY <2>3 DEF TypeOK, Outcomes, RunOp, caller
  <1>2. UnsentLeavesNoTrace'
    BY SentinelAssumption DEF TypeOK, UnsentLeavesNoTrace, Abroad, OnePlace, Coroutine, Unmade, Unsure, RunOp, caller
  <1>3. OnePlace'
    <2>1. op \in Calls /\ ~ran
      BY DEF TypeOK, RunOp
    <2>2. runs[op] = 0
      BY <2>1 DEF OnePlace
    <2>3. op \in Calls /\ runs' = [runs EXCEPT ![op] = 1] /\ ran' = TRUE
          /\ UNCHANGED <<net, op>>
      BY <2>1, <2>2 DEF RunOp
    <2>4. \A c \in Calls : c # op => runs'[c] = runs[c]
      BY <2>3 DEF TypeOK
    <2>5. \A c \in Calls : op = c => runs'[c] = 1
      BY <2>3 DEF TypeOK
    <2>6. \A s \in Sockets : Command(s, op) \notin net
      BY <2>3 DEF OnePlace
    <2> QED BY <2>3, <2>4, <2>5, <2>6 DEF OnePlace
  <1>4. Coroutine'
    BY SentinelAssumption DEF TypeOK, UnsentLeavesNoTrace, OnePlace, Coroutine, Unmade, Abroad, RunOp, caller
  <1>5. NoWaiterForgotten' /\ RegisteredIsServed'
    BY SentinelAssumption DEF TypeOK, Coroutine, NoWaiterForgotten, RegisteredIsServed, RunOp, caller
  <1>6. Linked'
    BY SentinelAssumption DEF TypeOK, Coroutine, Linked, RunOp, caller
  <1> QED BY <1>1, <1>2, <1>3, <1>4, <1>5, <1>6

(* It moves on as a result, or nowhere. *)
LEMMA ReplyStep ==
  ASSUME IInv, Reply PROVE IInv'
  <1> USE DEF IInv
  <1>1. TypeOK'
    <2>1. session \in Sockets /\ op \in Calls
      BY SentinelAssumption DEF TypeOK, Coroutine, Reply
    <2>2. net' \subseteq Frames
      BY <2>1, FramesDiffer DEF TypeOK, Reply
    <2>3. ws' \in Sockets \cup {None} /\ pending' \subseteq Calls
      BY DEF TypeOK, Reply, caller
    <2>5. /\ pc' \in [Calls -> {"idle", "ping", "send", "wait", "done"}]
          /\ using' \in [Calls -> Sockets \cup {None}]
          /\ links' \in [Calls -> SUBSET Sockets]
          /\ told' \in [Calls -> Outcomes \cup {"nothing"}]
          /\ link' \in [Sockets -> {"unused", "open", "cut", "closed"}]
          /\ handler' \in [Sockets -> {"none", "running", "ended"}]
          /\ session' \in Sockets \cup {None} /\ op' \in Calls \cup {None}
          /\ ran' \in BOOLEAN /\ runs' \in [Calls -> Nat]
      BY DEF TypeOK, Outcomes, Unmade, Reply, caller
    <2>4. fut' \in [Calls -> {"unmade", "open", "result", "error", "cancelled"}]
          /\ got' \in [Calls -> Calls \cup {None}]
      BY DEF TypeOK, Reply, caller
    <2> QED BY <2>2, <2>3, <2>4, <2>5 DEF TypeOK
  <1>2. UnsentLeavesNoTrace'
    BY FramesDiffer, SentinelAssumption DEF TypeOK, UnsentLeavesNoTrace, Abroad, OnePlace, Coroutine, Unmade, Unsure, Reply, caller
  <1>3. OnePlace'
    BY FramesDiffer, SentinelAssumption DEF TypeOK, UnsentLeavesNoTrace, Abroad, OnePlace, Coroutine, Reply, caller
  <1>4. Coroutine'
    BY SentinelAssumption DEF TypeOK, UnsentLeavesNoTrace, OnePlace, Coroutine, Unmade, Abroad, Reply, caller
  <1>5. NoWaiterForgotten' /\ RegisteredIsServed'
    BY SentinelAssumption DEF TypeOK, Coroutine, NoWaiterForgotten, RegisteredIsServed, Reply, caller
  <1>6. Linked'
    BY SentinelAssumption DEF TypeOK, Coroutine, Linked, Reply, caller
  <1> QED BY <1>1, <1>2, <1>3, <1>4, <1>5, <1>6

(* Unread commands are dropped. *)
LEMMA LeaveStep ==
  ASSUME IInv, Leave PROVE IInv'
  <1> USE DEF IInv
  <1>1. TypeOK'
    BY FramesDiffer DEF TypeOK, Outcomes, Unmade, Unsure, Leave, caller
  <1>2. UnsentLeavesNoTrace'
    BY FramesDiffer DEF TypeOK, UnsentLeavesNoTrace, Abroad, OnePlace, Coroutine, Unmade, Unsure, Leave, caller
  <1>3. OnePlace'
    BY FramesDiffer DEF TypeOK, UnsentLeavesNoTrace, Abroad, OnePlace, Coroutine, Leave, caller
  <1>4. Coroutine'
    BY SentinelAssumption DEF TypeOK, UnsentLeavesNoTrace, OnePlace, Coroutine, Unmade, Abroad, Leave, caller
  <1>5. NoWaiterForgotten' /\ RegisteredIsServed'
    BY SentinelAssumption DEF TypeOK, Coroutine, NoWaiterForgotten, RegisteredIsServed, Leave, caller
  <1>6. Linked'
    BY SentinelAssumption DEF TypeOK, Coroutine, Linked, Leave, caller
  <1> QED BY <1>1, <1>2, <1>3, <1>4, <1>5, <1>6

(* So are the one being executed and its result. *)
LEMMA DieStep ==
  ASSUME IInv, Die PROVE IInv'
  <1> USE DEF IInv
  <1>1. TypeOK'
    BY FramesDiffer, SentinelAssumption DEF TypeOK, Outcomes, Unmade, Unsure, Die, caller
  <1>2. UnsentLeavesNoTrace'
    BY FramesDiffer, SentinelAssumption DEF TypeOK, UnsentLeavesNoTrace, Abroad, OnePlace, Coroutine, Unmade, Unsure, Die, caller
  <1>3. OnePlace'
    BY FramesDiffer, SentinelAssumption DEF TypeOK, UnsentLeavesNoTrace, Abroad, OnePlace, Coroutine, Die, caller
  <1>4. Coroutine'
    BY SentinelAssumption DEF TypeOK, UnsentLeavesNoTrace, OnePlace, Coroutine, Unmade, Abroad, Die, caller
  <1>5. NoWaiterForgotten' /\ RegisteredIsServed'
    BY SentinelAssumption DEF TypeOK, Coroutine, NoWaiterForgotten, RegisteredIsServed, Die, caller
  <1>6. Linked'
    BY SentinelAssumption DEF TypeOK, Coroutine, Linked, Die, caller
  <1> QED BY <1>1, <1>2, <1>3, <1>4, <1>5, <1>6

(* Every step keeps the invariant. *)
LEMMA NextIInv == IInv /\ [Next]_vars => IInv'
  <1> SUFFICES ASSUME IInv, [Next]_vars PROVE IInv'
    OBVIOUS
  <1>1. CASE UNCHANGED vars
    BY <1>1 DEF vars, IInv, TypeOK, UnsentLeavesNoTrace, Abroad, OnePlace, Coroutine,
       NoWaiterForgotten, RegisteredIsServed, Linked
  <1>2. CASE Brain
    BY <1>2, DispatchStep, RepoForwardStep, UnreachableStep, SendStep, DrainedStep,
       SendRaisesStep, ReturnStep, TimeoutStep, CancelStep, RegisterStep, HearHelloStep, HandlerEndsStep, ResolveStep DEF Brain
  <1>3. CASE World
    BY <1>3, CutStep, NoticeStep, ConnectStep, TakeStep, RunOpStep, ReplyStep, LeaveStep,
       DieStep DEF World
  <1> QED BY <1>1, <1>2, <1>3 DEF Next

(* The strengthened invariant holds of every behaviour. *)
LEMMA Invariant == Spec => []IInv
  <1>1. Init => IInv
    BY InitIInv
  <1>2. IInv /\ [Next]_vars => IInv'
    BY NextIInv
  <1> QED BY <1>1, <1>2, PTL DEF Spec

(* The fields keep their types through every reconnect (pc_link.py __init__). *)
THEOREM TypesHold == Spec => []TypeOK
  <1>1. IInv => TypeOK
    BY DEF IInv
  <1> QED BY <1>1, Invariant, PTL

(* An answer is that of the caller's own command, which ran exactly once      *)
(* (pc_link.py resolve and forward).                                          *)
THEOREM AnswersAreOwn == Spec => []AnswersMatch
  <1>1. IInv => AnswersMatch
    BY DEF IInv, Coroutine, AnswersMatch
  <1> QED BY <1>1, Invariant, PTL

(* A call that still waits is on the table unregister and resolve work from   *)
(* (pc_link.py).                                                              *)
THEOREM WaitersAreListed == Spec => []NoWaiterForgotten
  <1>1. IInv => NoWaiterForgotten
    BY DEF IInv
  <1> QED BY <1>1, Invariant, PTL

(* The registered socket has a running handler (pc_link.py register, server.py *)
(* _control_handler).                                                          *)
THEOREM LinkIsServed == Spec => []RegisteredIsServed
  <1>1. IInv => RegisteredIsServed
    BY DEF IInv
  <1> QED BY <1>1, Invariant, PTL

(* A step that ends a handler is that handler's own finally: of the actions,  *)
(* only HandlerEnds writes an "ended".                                        *)
LEMMA OnlyItsOwnEnd ==
  ASSUME IInv, Next, NEW s \in Sockets, handler[s] = "running", handler'[s] = "ended"
  PROVE  HandlerEnds(s)
  <1>1. ASSUME NEW t \in Sockets, HandlerEnds(t) PROVE HandlerEnds(s)
    <2>1. handler' = [handler EXCEPT ![t] = "ended"]
      BY <1>1 DEF HandlerEnds
    <2>2. t = s
      BY <2>1 DEF IInv, TypeOK
    <2> QED BY <1>1, <2>2
  <1>2. CASE \E t \in Sockets : Register(t)
    BY <1>2 DEF Register, IInv, TypeOK
  <1>3. CASE UNCHANGED handler
    BY <1>3
  <1>4. ASSUME NEW t \in Sockets,
               HearHello(t) \/ (\E c \in Calls : Resolve(t, c)) \/ Cut(t) \/ Notice(t) \/ Connect(t)
        PROVE  UNCHANGED handler
    BY <1>4 DEF HearHello, Resolve, Cut, Notice, Connect
  <1>5. ASSUME NEW c \in Calls,
               \/ Dispatch(c) \/ RepoForward(c) \/ Unreachable(c) \/ Send(c)
               \/ Drained(c) \/ SendRaises(c)
               \/ Return(c) \/ Timeout(c) \/ Cancel(c) \/ Take(c)
        PROVE  UNCHANGED handler
    BY <1>5 DEF Dispatch, RepoForward, Unreachable, Send, Drained, SendRaises, Return, Timeout, Cancel, Take
  <1>6. RunOp \/ Reply \/ Leave \/ Die => UNCHANGED handler
    BY DEF RunOp, Reply, Leave, Die
  <1> QED BY <1>1, <1>2, <1>3, <1>4, <1>5, <1>6 DEF Next, Brain, World

(* Only a connection that was registered since a command was written can fail *)
(* it by ending: an old handler that finishes after the laptop has come back  *)
(* finds the new connection registered, and by Linked every command that is   *)
(* still out has seen that one (pc_link.py unregister; server.py finally).    *)
THEOREM OnlyItsOwnLinksFailACall == Spec => OldLinkFailsNobody
  <1> DEFINE Fails(c, s) ==
        /\ handler[s] = "running" /\ handler'[s] = "ended"
        /\ pc[c] \in {"send", "wait"} /\ fut[c] = "open" /\ fut'[c] = "error"
  <1> DEFINE Own == \A c \in Calls, s \in Sockets : Fails(c, s) => s \in links[c]
  <1>1. ASSUME IInv, Next, NEW c \in Calls, NEW s \in Sockets, Fails(c, s) PROVE s \in links[c]
    <2>1. HandlerEnds(s)
      BY <1>1, OnlyItsOwnEnd
    <2>2. ws = s
      BY <1>1, <2>1 DEF HandlerEnds, Unregister
    <2> QED BY <1>1, <2>2 DEF IInv, Linked
  <1>2. IInv /\ [Next]_vars => [Own]_vars
    BY <1>1
  <1>3. Spec => [][Own]_vars
    BY <1>2, Invariant, PTL DEF Spec
  <1> QED BY <1>3 DEF OldLinkFailsNobody

(* A step of the link is one step of the call it implements, or none.         *)
LEMMA StepImplements ==
  ASSUME IInv, Next
  PROVE  Call!Next \/ UNCHANGED <<told, runs>>
  <1> USE DEF IInv, TypeOK
  <1>1. ASSUME NEW c \in Calls, Dispatch(c) \/ RepoForward(c) PROVE Call!Next \/ UNCHANGED <<told, runs>>
    <2>1. told[c] = "nothing" /\ runs[c] = 0
      BY <1>1 DEF Dispatch, RepoForward, Coroutine, UnsentLeavesNoTrace
    <2>2. UNCHANGED <<told, runs>> \/ \E why \in Unmade : Call!GiveUp(c, why)
      BY <1>1, <2>1 DEF Dispatch, RepoForward, Ping, End, laptop, Unmade, Call!GiveUp
    <2> QED BY <2>2 DEF Call!Next
  <1>2. ASSUME NEW c \in Calls, Unreachable(c) \/ Send(c) PROVE Call!Next \/ UNCHANGED <<told, runs>>
    <2>1. told[c] = "nothing" /\ runs[c] = 0
      BY <1>2 DEF Unreachable, Send, Coroutine, UnsentLeavesNoTrace
    <2>2. UNCHANGED <<told, runs>> \/ \E why \in Unmade : Call!GiveUp(c, why)
      BY <1>2, <2>1 DEF Unreachable, Send, Written, Unsent, End, laptop, Unmade, Call!GiveUp
    <2> QED BY <2>2 DEF Call!Next
  <1>3. ASSUME NEW c \in Calls, Return(c) PROVE Call!Next
    <2>1. told[c] = "nothing"
      BY <1>3 DEF Return, Coroutine
    <2>2. Call!Answer(c) \/ Call!GiveUp(c, "disconnected")
      BY <1>3, <2>1 DEF Return, Coroutine, End, laptop, Unmade, Call!Answer, Call!GiveUp
    <2> QED BY <2>2 DEF Call!Next, Unsure
  <1>4. ASSUME NEW c \in Calls, Timeout(c) \/ Cancel(c) \/ SendRaises(c) PROVE Call!Next
    <2>1. told[c] = "nothing"
      BY <1>4 DEF Timeout, Cancel, SendRaises, Coroutine
    <2>2. \E why \in Unsure : Call!GiveUp(c, why)
      BY <1>4, <2>1 DEF Timeout, Cancel, SendRaises, End, laptop, Unmade, Unsure, Call!GiveUp
    <2> QED BY <2>2 DEF Call!Next
  <1>5. ASSUME RunOp PROVE Call!Next
    <2>1. op \in Calls /\ ~ran
      BY <1>5 DEF RunOp
    <2>2. runs[op] = 0 /\ Abroad(op)
      BY <2>1 DEF OnePlace, Abroad
    <2>3. told[op] \in {"nothing"} \cup Unsure
      BY <2>1, <2>2 DEF Coroutine, UnsentLeavesNoTrace, Outcomes
    <2>4. runs' = [runs EXCEPT ![op] = 1] /\ UNCHANGED told
      BY <1>5, <2>2 DEF RunOp, caller
    <2> QED BY <2>1, <2>2, <2>3, <2>4 DEF Call!Next, Call!Act
  <1>6. ASSUME NEW s \in Sockets,
               \/ Register(s) \/ HearHello(s) \/ HandlerEnds(s) \/ (\E c \in Calls : Resolve(s, c))
               \/ Cut(s) \/ Notice(s) \/ Connect(s)
        PROVE  UNCHANGED <<told, runs>>
    BY <1>6 DEF Register, HearHello, Registered, HandlerEnds, Resolve, Cut, Notice, Connect, caller, laptop
  <1>7. (\E c \in Calls : Take(c) \/ Drained(c)) \/ Reply \/ Leave \/ Die => UNCHANGED <<told, runs>>
    BY DEF Take, Drained, laptop, Reply, Leave, Die, caller
  <1> QED BY <1>1, <1>2, <1>3, <1>4, <1>5, <1>6, <1>7 DEF Next, Brain, World

(* The link implements RemoteCall: one outcome per call, at most one run, no  *)
(* answer without a run, no run behind a call the brain says it did not make  *)
(* (pc_link.py forward, system.py _dispatch, pc_agent.py _session).           *)
THEOREM LinkImplementsCall == Spec => ImplementsCall
  <1>1. Init => Call!Init
    BY DEF Init, Call!Init
  <1>2. IInv /\ [Next]_vars => [Call!Next]_<<told, runs>>
    <2>1. UNCHANGED vars => UNCHANGED <<told, runs>>
      BY DEF vars
    <2> QED BY <2>1, StepImplements
  <1> QED BY <1>1, <1>2, Invariant, PTL DEF Spec, ImplementsCall, Call!Spec
=============================================================================
