------------------------------- MODULE PcLink -------------------------------
(***************************************************************************)
(* The link over which the brain runs tools on the owner's laptop: the     *)
(* registered socket and the pending futures of brain/pc_link.py, the      *)
(* server's control handler, the tools' dispatch, and the laptop's         *)
(* executor with its reconnect loop (edge/pc_agent.py).                    *)
(*                                                                         *)
(* One action is the code between two awaits. A frame is a record in       *)
(* `net`; the frames of a socket are taken in any order, which allows more *)
(* than the stream does, and a cut loses any subset of them. A forward has *)
(* its own command id, so a call is its own id.                            *)
(*                                                                         *)
(* `await wait_for(self._ws.ping(), 3)` returns once the ping frame is     *)
(* written: the websockets library's ping() is a coroutine that RETURNS a  *)
(* future for the pong. So a ping may succeed on a link that is cut, and   *)
(* may always time out.                                                    *)
(***************************************************************************)
EXTENDS Naturals

CONSTANTS
  Calls,     \* forwards the brain's tools make, each with a fresh command id
  RepoCalls, \* the calls that never fall back to the brain's own host
  Sockets,   \* connections the laptop opens, one after the other
  None       \* no socket, no call

ASSUME SentinelAssumption == None \notin Calls /\ None \notin Sockets

VARIABLES
  ws,        \* PcLink._ws
  pending,   \* the ids in PcLink._pending
  fut,       \* call -> its future: unmade, open, result, error, cancelled
  pc,        \* call -> where its coroutine stands
  using,     \* call -> the socket it is pinging or writing to
  got,       \* call -> the call whose output its future was given
  told,      \* call -> what its caller was told
  links,     \* history: call -> the sockets registered since it was written, its own included
  link,      \* socket -> unused, open, cut (the brain has not noticed), closed
  handler,   \* socket -> its _control_handler on the brain
  net,       \* the frames in flight or unread
  session,   \* the socket the laptop's _session is on
  op,        \* the command the laptop is executing
  ran,       \* has `op` been carried out, its result not yet sent?
  runs       \* history: call -> times the laptop carried it out

caller == <<fut, pc, using, got, told, links>>
laptop == <<session, op, ran, runs>>
vars   == <<ws, pending, fut, pc, using, got, told, links, link, handler, net,
            session, op, ran, runs>>

Hello(s)      == [type |-> "pc_hello", sock |-> s, id |-> None]
Command(s, c) == [type |-> "pc_command", sock |-> s, id |-> c]
Result(s, c)  == [type |-> "pc_result", sock |-> s, id |-> c]
FramesOf(s)   == {f \in net : f.sock = s}
Frames == [type : {"pc_hello", "pc_command", "pc_result"}, sock : Sockets, id : Calls \cup {None}]

\* How a call can end, as forward() tells it: what it returns or raises. _dispatch
\* has one sentence for every way it can raise. The first group raises (or runs
\* elsewhere) before anything is written.
Unmade   == {"local", "refused", "offline", "unsent"}
Unsure   == {"broken", "disconnected", "timeout", "cancelled"}
Outcomes == Unmade \cup Unsure \cup {"answer"}

TypeOK ==
  /\ ws \in Sockets \cup {None}
  /\ pending \subseteq Calls
  /\ fut \in [Calls -> {"unmade", "open", "result", "error", "cancelled"}]
  /\ pc \in [Calls -> {"idle", "ping", "send", "wait", "done"}]
  /\ using \in [Calls -> Sockets \cup {None}]
  /\ got \in [Calls -> Calls \cup {None}]
  /\ told \in [Calls -> Outcomes \cup {"nothing"}]
  /\ links \in [Calls -> SUBSET Sockets]
  /\ link \in [Sockets -> {"unused", "open", "cut", "closed"}]
  /\ handler \in [Sockets -> {"none", "running", "ended"}]
  /\ net \subseteq Frames
  /\ session \in Sockets \cup {None}
  /\ op \in Calls \cup {None}
  /\ ran \in BOOLEAN
  /\ runs \in [Calls -> Nat]

Init ==
  /\ ws = None /\ pending = {} /\ net = {}
  /\ fut = [c \in Calls |-> "unmade"]
  /\ pc = [c \in Calls |-> "idle"]
  /\ using = [c \in Calls |-> None]
  /\ got = [c \in Calls |-> None]
  /\ told = [c \in Calls |-> "nothing"]
  /\ links = [c \in Calls |-> {}]
  /\ link = [s \in Sockets |-> "unused"]
  /\ handler = [s \in Sockets |-> "none"]
  /\ session = None /\ op = None /\ ran = FALSE
  /\ runs = [c \in Calls |-> 0]

-----------------------------------------------------------------------------
(* The brain's tools. *)

End(c, o) ==
  /\ pc' = [pc EXCEPT ![c] = "done"]
  /\ told' = [told EXCEPT ![c] = o]
  /\ links' = [links EXCEPT ![c] = {}]

\* forward() up to its ping: it pings the socket registered now.
Ping(c) ==
  /\ ws # None
  /\ pc' = [pc EXCEPT ![c] = "ping"]
  /\ using' = [using EXCEPT ![c] = ws]
  /\ UNCHANGED <<fut, got, told, links>>

\* _dispatch: with a link the op is forwarded, without one it runs here.
Dispatch(c) ==
  /\ pc[c] = "idle" /\ c \notin RepoCalls
  /\ \/ Ping(c)
     \/ ws = None /\ End(c, "local") /\ UNCHANGED <<fut, using, got>>
  /\ UNCHANGED <<ws, pending, link, handler, net, laptop>>

\* The repository tools' _forward: without a link nothing runs anywhere.
RepoForward(c) ==
  /\ pc[c] = "idle" /\ c \in RepoCalls
  /\ \/ Ping(c)
     \/ ws = None /\ End(c, "refused") /\ UNCHANGED <<fut, using, got>>
  /\ UNCHANGED <<ws, pending, link, handler, net, laptop>>

\* Variant: an unanswered ping is taken for a slow laptop and the command goes.
UnreachableButSent(c) ==
  /\ pc[c] = "ping"
  /\ End(c, "offline")
  /\ using' = [using EXCEPT ![c] = None]
  /\ net' = IF ws # None /\ link[ws] = "open" THEN net \cup {Command(ws, c)} ELSE net
  /\ UNCHANGED <<ws, pending, fut, got, link, handler, laptop>>

\* reachable() was False: the ping raised or timed out.
Unreachable(c) ==
  /\ pc[c] = "ping"
  /\ End(c, "offline")
  /\ using' = [using EXCEPT ![c] = None]
  /\ UNCHANGED <<ws, pending, fut, got, link, handler, net, laptop>>

\* The command is written: into a dead connection, it goes nowhere. The write
\* returns at once, or waits for the connection to take what is queued.
Written(s, c) ==
  /\ net' = IF link[s] = "open" THEN net \cup {Command(s, c)} ELSE net
  /\ links' = [links EXCEPT ![c] = {s}]
  /\ \/ pc' = [pc EXCEPT ![c] = "wait"] /\ using' = [using EXCEPT ![c] = None]
     \/ pc' = [pc EXCEPT ![c] = "send"] /\ using' = [using EXCEPT ![c] = s]
  /\ UNCHANGED told

Unsent(c) == End(c, "unsent") /\ using' = [using EXCEPT ![c] = None] /\ UNCHANGED net

\* reachable() was True: the future is listed, then the command is sent on the
\* socket registered NOW. A missing or closed socket raises, and the entry stays.
Send(c) ==
  /\ pc[c] = "ping" /\ link[using[c]] # "closed"
  /\ pending' = pending \cup {c}
  /\ fut' = [fut EXCEPT ![c] = "open"]
  /\ IF ws # None /\ link[ws] # "closed" THEN Written(ws, c) ELSE Unsent(c)
  /\ UNCHANGED <<ws, got, link, handler, laptop>>

\* The write is through: the result window opens.
Drained(c) ==
  /\ pc[c] = "send" /\ link[using[c]] # "closed"
  /\ pc' = [pc EXCEPT ![c] = "wait"]
  /\ using' = [using EXCEPT ![c] = None]
  /\ UNCHANGED <<ws, pending, fut, got, told, links, link, handler, net, laptop>>

\* The socket closes under the write, which raises: the entry stays listed, and
\* the command may have gone out.
SendRaises(c) ==
  /\ pc[c] = "send" /\ link[using[c]] = "closed"
  /\ End(c, "broken")
  /\ using' = [using EXCEPT ![c] = None]
  /\ UNCHANGED <<ws, pending, fut, got, link, handler, net, laptop>>

\* wait_for: the future was resolved or failed.
Return(c) ==
  /\ pc[c] = "wait"
  /\ \/ fut[c] = "result" /\ End(c, "answer")
     \/ fut[c] = "error" /\ End(c, "disconnected")
  /\ UNCHANGED <<ws, pending, fut, using, got, link, handler, net, laptop>>

\* Variant: no window of its own; a waiting call is left to unregister.
TimeoutWhenUnlinked(c) ==
  /\ pc[c] = "wait" /\ fut[c] = "open" /\ ws = None
  /\ fut' = [fut EXCEPT ![c] = "cancelled"]
  /\ pending' = pending \ {c}
  /\ End(c, "timeout")
  /\ UNCHANGED <<ws, using, got, link, handler, net, laptop>>

\* Variant: an outcome no caller knows.
TimeoutMisspelt(c) ==
  /\ pc[c] = "wait" /\ fut[c] = "open"
  /\ fut' = [fut EXCEPT ![c] = "cancelled"]
  /\ pending' = pending \ {c}
  /\ End(c, "expired")
  /\ UNCHANGED <<ws, using, got, link, handler, net, laptop>>

\* wait_for: the window ran out. The laptop may still be at it; on Python 3.12
\* and later the window may even beat a result set in the same loop pass.
Timeout(c) ==
  /\ pc[c] = "wait"
  /\ fut' = [fut EXCEPT ![c] = IF @ = "open" THEN "cancelled" ELSE @]
  /\ pending' = pending \ {c}
  /\ End(c, "timeout")
  /\ UNCHANGED <<ws, using, got, link, handler, net, laptop>>

\* The awaiting task is cancelled: the turn at its face check (a tool has a task
\* of its own and goes on), the presence poller. The entry stays listed; its
\* future is cancelled with wait_for, but not with an unfinished write.
Cancel(c) ==
  /\ pc[c] \in {"ping", "send", "wait"} /\ c \notin RepoCalls
  /\ fut' = [fut EXCEPT ![c] = IF pc[c] = "wait" /\ @ = "open" THEN "cancelled" ELSE @]
  /\ using' = [using EXCEPT ![c] = None]
  /\ End(c, "cancelled")
  /\ UNCHANGED <<ws, pending, got, link, handler, net, laptop>>

-----------------------------------------------------------------------------
(* The brain's handler of a control socket. *)

\* register(ws). The history of the commands that are out notes it.
Registered(s) ==
  /\ ws' = s
  /\ links' = [c \in Calls |-> IF pc[c] \in {"send", "wait"} THEN links[c] \cup {s} ELSE links[c]]

\* The handler of a connection the laptop opened starts by registering it.
Register(s) ==
  /\ link[s] # "unused" /\ handler[s] = "none"
  /\ handler' = [handler EXCEPT ![s] = "running"]
  /\ Registered(s)
  /\ UNCHANGED <<pending, fut, pc, using, got, told, link, net, laptop>>

\* pc_hello registers the socket again, now with its host.
HearHello(s) ==
  /\ handler[s] = "running" /\ Hello(s) \in net
  /\ Registered(s)
  /\ net' = net \ {Hello(s)}
  /\ UNCHANGED <<pending, fut, pc, using, got, told, link, handler, laptop>>

\* Variant: a result is given to whoever is waiting.
ResolveAny(s, c) ==
  /\ handler[s] = "running" /\ Result(s, c) \in net
  /\ net' = net \ {Result(s, c)}
  /\ \E d \in pending :
        /\ pending' = pending \ {d}
        /\ fut' = [fut EXCEPT ![d] = IF @ = "open" THEN "result" ELSE @]
        /\ got' = [got EXCEPT ![d] = IF fut[d] = "open" THEN c ELSE @]
  /\ UNCHANGED <<ws, pc, using, told, links, link, handler, laptop>>

\* pc_result: resolve(id). A result nobody lists, or whose caller is gone, is
\* dropped.
Resolve(s, c) ==
  /\ handler[s] = "running" /\ Result(s, c) \in net
  /\ net' = net \ {Result(s, c)}
  /\ pending' = pending \ {c}
  /\ IF c \in pending /\ fut[c] = "open"
     THEN /\ fut' = [fut EXCEPT ![c] = "result"]
          /\ got' = [got EXCEPT ![c] = c]
     ELSE UNCHANGED <<fut, got>>
  /\ UNCHANGED <<ws, pc, using, told, links, link, handler, laptop>>

\* Variant: the last handler to end clears the link, whoever is registered.
UnregisterAnyone(s) ==
  /\ ws' = None
  /\ fut' = [c \in Calls |-> IF c \in pending /\ fut[c] = "open" THEN "error" ELSE fut[c]]
  /\ pending' = {}

\* Variant: the table is cleared and its futures are left unset.
UnregisterSilently(s) ==
  IF ws = s
  THEN ws' = None /\ pending' = {} /\ UNCHANGED fut
  ELSE UNCHANGED <<ws, fut, pending>>

\* unregister(ws): only the registered socket takes the link down, and with it
\* every command that waits, on whichever socket it was sent.
Unregister(s) ==
  IF ws = s
  THEN /\ ws' = None
       /\ fut' = [c \in Calls |-> IF c \in pending /\ fut[c] = "open" THEN "error" ELSE fut[c]]
       /\ pending' = {}
  ELSE UNCHANGED <<ws, fut, pending>>

\* Variant: the handler ends without unregistering its socket.
HandlerEndsQuietly(s) ==
  /\ handler[s] = "running" /\ link[s] = "closed"
  /\ \A f \in FramesOf(s) : f.type = "pc_command"
  /\ handler' = [handler EXCEPT ![s] = "ended"]
  /\ UNCHANGED <<ws, fut, pending, pc, using, got, told, links, link, net, laptop>>

\* The socket is closed and read out: the handler's finally runs.
HandlerEnds(s) ==
  /\ handler[s] = "running" /\ link[s] = "closed"
  /\ \A f \in FramesOf(s) : f.type = "pc_command"
  /\ handler' = [handler EXCEPT ![s] = "ended"]
  /\ Unregister(s)
  /\ UNCHANGED <<pc, using, got, told, links, link, net, laptop>>

-----------------------------------------------------------------------------
(* The network and the laptop. *)

\* The connection breaks and any of its unread frames are lost.
Cut(s) ==
  /\ link[s] = "open"
  /\ link' = [link EXCEPT ![s] = "cut"]
  /\ \E lost \in SUBSET FramesOf(s) : net' = net \ lost
  /\ UNCHANGED <<ws, pending, caller, handler, laptop>>

\* The brain's side of the socket learns of it (close frame, keepalive).
Notice(s) ==
  /\ link[s] = "cut"
  /\ link' = [link EXCEPT ![s] = "closed"]
  /\ UNCHANGED <<ws, pending, caller, handler, net, laptop>>

\* main() opens the next connection and _session says hello.
Connect(s) ==
  /\ session = None /\ link[s] = "unused"
  /\ session' = s
  /\ link' = [link EXCEPT ![s] = "open"]
  /\ net' = net \cup {Hello(s)}
  /\ UNCHANGED <<ws, pending, caller, handler, op, ran, runs>>

\* _session takes its next command, one at a time.
Take(c) ==
  /\ session # None /\ op = None
  /\ Command(session, c) \in net
  /\ op' = c /\ ran' = FALSE
  /\ net' = net \ {Command(session, c)}
  /\ UNCHANGED <<ws, pending, caller, link, handler, session, runs>>

\* _run_op: the handler did its work; or the op is unknown or refused, or it
\* raised, and the sentence that says so is the result.
RunOp ==
  /\ op # None /\ ~ran
  /\ ran' = TRUE
  /\ runs' = [runs EXCEPT ![op] = @ + 1]
  /\ UNCHANGED <<ws, pending, caller, link, handler, net, session, op>>

\* The result goes back on the session's socket. On a dead one it is lost, the
\* op stays done, and the send may raise, which ends the session.
Reply ==
  /\ op # None /\ ran
  /\ op' = None /\ ran' = FALSE
  /\ \/ link[session] = "open" /\ net' = net \cup {Result(session, op)} /\ UNCHANGED session
     \/ link[session] # "open" /\ session' \in {session, None} /\ UNCHANGED net
  /\ UNCHANGED <<ws, pending, caller, link, handler, runs>>

\* The session's socket closed: back to main()'s reconnect loop. What it had
\* not read is gone.
Leave ==
  /\ session # None /\ op = None /\ link[session] # "open"
  /\ session' = None
  /\ net' = {f \in net : f.sock = session => f.type # "pc_command"}
  /\ UNCHANGED <<ws, pending, caller, link, handler, op, ran, runs>>

\* The executor process dies, in the middle of an op perhaps.
Die ==
  /\ session # None
  /\ session' = None /\ op' = None /\ ran' = FALSE
  /\ link' = [link EXCEPT ![session] = IF @ = "open" THEN "cut" ELSE @]
  /\ net' = {f \in net : f.sock = session => f.type # "pc_command"}
  /\ UNCHANGED <<ws, pending, caller, handler, runs>>

Brain ==
  \/ \E c \in Calls : \/ Dispatch(c) \/ RepoForward(c) \/ Unreachable(c) \/ Send(c)
                      \/ Drained(c) \/ SendRaises(c)
                      \/ Return(c) \/ Timeout(c) \/ Cancel(c)
  \/ \E s \in Sockets : \/ Register(s) \/ HearHello(s) \/ HandlerEnds(s)
                        \/ \E c \in Calls : Resolve(s, c)

World ==
  \/ \E s \in Sockets : Cut(s) \/ Notice(s) \/ Connect(s)
  \/ (\E c \in Calls : Take(c)) \/ RunOp \/ Reply \/ Leave \/ Die

Next == Brain \/ World

Spec == Init /\ [][Next]_vars

(* The event loop runs what is ready and its timers fire. A write ends: what  *)
(* is queued is taken, or the keepalive closes the socket and it raises.      *)
(* Nothing else is assumed of the laptop or of the network.                   *)
Fairness ==
  \A c \in Calls : /\ WF_vars(Unreachable(c) \/ Send(c))
                   /\ WF_vars(Drained(c) \/ SendRaises(c))
                   /\ WF_vars(Return(c) \/ Timeout(c))

FairSpec == Spec /\ Fairness

-----------------------------------------------------------------------------
(* A caller that is told an answer is told the one of its own command, which *)
(* the laptop carried out exactly once: late, lost and crossed results,      *)
(* reconnects and timeouts included (pc_link.py resolve, forward).           *)
AnswersMatch == \A c \in Calls : told[c] = "answer" => got[c] = c /\ runs[c] = 1

(* A call whose future is still open is on the table, where a result or the  *)
(* loss of the link can reach it: neither unregister nor a late frame ever   *)
(* takes it off unset (pc_link.py unregister, resolve).                      *)
NoWaiterForgotten ==
  \A c \in Calls : pc[c] \in {"send", "wait"} /\ fut[c] = "open" => c \in pending

(* The registered socket is one whose handler still reads it, so a link that *)
(* `active` reports can be answered: no frame handled late re-registers a    *)
(* connection that is over (pc_link.py register; server.py finally).         *)
RegisteredIsServed == ws # None => handler[ws] = "running"

(* A command that is out is given up for lost only at the end of a connection *)
(* that was registered when it was written or has registered since: the old  *)
(* handler, ending after the laptop reconnected, fails no command of the new *)
(* link, unless its own late hello took the link back (pc_link.py register,  *)
(* unregister; server.py:459).                                               *)
OldLinkFailsNobody ==
  [][\A c \in Calls, s \in Sockets :
        /\ handler[s] = "running" /\ handler'[s] = "ended"
        /\ pc[c] \in {"send", "wait"} /\ fut[c] = "open" /\ fut'[c] = "error"
        => s \in links[c]]_vars

(* Whatever happens to the laptop, a tool call that was forwarded ends: the  *)
(* ping and the result window bound their awaits, the keepalive bounds the   *)
(* write between them (pc_link.py forward).                                  *)
EveryCallEnds == \A c \in Calls : pc[c] \in {"ping", "send", "wait"} ~> pc[c] = "done"

(* The link implements the call its users rely on: one outcome, at most one  *)
(* run, no answer without a run, no run behind "nothing was run".            *)
Call == INSTANCE RemoteCall WITH told <- told, runs <- runs
ImplementsCall == Call!Spec
=============================================================================
