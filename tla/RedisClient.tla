----------------------------- MODULE RedisClient -----------------------------
(***************************************************************************)
(* The pooled Redis client (simpleredis): commands that borrow a socket     *)
(* under an in-use turn, send one request, read its reply, retry, and are   *)
(* cancelled at any point; Eval and MSetEX, which send a second or third    *)
(* command on certain error replies; Close.                                 *)
(*                                                                          *)
(* A command is a process.  Its RESP bytes are left out: a request is the   *)
(* command that sent it, a reply names the command it answers.  The server  *)
(* is external: it answers each request once and in order, may restart,     *)
(* may refuse while loading, and may send a surplus reply along.            *)
(***************************************************************************)
EXTENDS Integers, FiniteSets, Sequences, Functions

CONSTANTS
  Commands,      \* calls of exec, Eval and MSetEX
  Groups,        \* which of them are MSetEX
  Scripts,       \* which of them are Eval
  Cancelled,     \* which of them have a context that may end
  Sockets,       \* sockets that can be dialed
  PoolSize, MaxIdleConns,
  MaxRetries,    \* extra attempts after the first
  MaxFaults,     \* bound on restarts, refusals, surplus replies and failed dials
  NativeGroup,   \* the server knows MSETEX
  Preloaded,     \* the server has the script of Eval from earlier calls
  None

ASSUME ClientAssumption ==
  /\ Groups \cup Scripts \cup Cancelled \subseteq Commands
  /\ PoolSize \in Nat \ {0} /\ MaxIdleConns \in 1 .. PoolSize
  /\ MaxRetries \in Nat /\ MaxFaults \in Nat /\ NativeGroup \in BOOLEAN /\ Preloaded \in BOOLEAN
  /\ None \notin Commands \cup Sockets
  /\ IsFiniteSet(Commands) /\ IsFiniteSet(Sockets)

VARIABLES
  turns,         \* tokens in inUseTurns
  idle,          \* idleConns, newest last
  closed,        \* "no", "yes" once Close set the flag, "drained" once it emptied idle
  groupWrite,    \* groupWritePath: "unknown", "native" or "lua"
  sock,          \* both ends of every socket
  closers,       \* sockets that a fired watchConnClose is about to close
  cmd,           \* the locals of every command
  ctx,           \* "live", "late" (past its deadline, Done still open) or "done"
  loaded,        \* the server has the script of Eval
  applied,       \* how often the server executed each command
  faults,        \* restarts, refusals, surplus replies and failed dials so far
  restarts,      \* restarts so far
  skipped        \* some command dialed past the idle list

server == <<loaded, applied, faults, restarts>>
client == <<turns, idle, closed, groupWrite, closers, cmd, ctx, skipped>>
vars == <<client, sock, server>>

Hops == {"command", "msetex", "evalsha", "eval"}
Answers == {"ok", "loading", "noscript", "unknown"}
Outcomes == Answers \cup {"unreachable", "stop"}
Reply == [to : Commands \cup {None}, answer : Answers]
Socket ==
  [open : BOOLEAN,                             \* the client's end
   alive : BOOLEAN,                            \* the peer's end
   request : {None} \cup [by : Commands, hop : Hops],
   replies : Seq(Reply)]                       \* arrived, not read yet
Command ==
  [pc : {"idle", "borrow", "wait", "turn", "dial", "do", "read", "stopWatch",
         "release", "free", "ok", "failed"},
   hop : Hops, attempt : 0 .. MaxRetries, skipIdle : BOOLEAN, conn : Sockets \cup {None},
   fromIdle : BOOLEAN, watching : BOOLEAN, reusable : BOOLEAN,
   outcome : Outcomes, reply : Reply \cup {None}]

TypeOK ==
  /\ turns \in 0 .. PoolSize
  /\ idle \in Seq(Sockets) /\ closers \subseteq Sockets
  /\ closed \in {"no", "yes", "drained"} /\ groupWrite \in {"unknown", "native", "lua"}
  /\ sock \in [Sockets -> Socket] /\ cmd \in [Commands -> Command]
  /\ ctx \in [Commands -> {"live", "late", "done"}]
  /\ loaded \in BOOLEAN /\ skipped \in BOOLEAN
  /\ applied \in [Commands -> Nat] /\ faults \in 0 .. MaxFaults /\ restarts \in 0 .. faults

NoSocket == [open |-> FALSE, alive |-> FALSE, request |-> None, replies |-> <<>>]
NoCommand == [pc |-> "idle", hop |-> "command", attempt |-> 0, skipIdle |-> FALSE, conn |-> None,
              fromIdle |-> FALSE, watching |-> FALSE, reusable |-> FALSE, outcome |-> "ok",
              reply |-> None]

Init ==
  /\ turns = PoolSize /\ idle = <<>> /\ closed = "no" /\ groupWrite = "unknown"
  /\ sock = [s \in Sockets |-> NoSocket] /\ cmd = [c \in Commands |-> NoCommand]
  /\ ctx = [c \in Commands |-> "live"]
  /\ closers = {} /\ loaded = Preloaded /\ faults = 0 /\ restarts = 0 /\ skipped = FALSE
  /\ applied = [c \in Commands |-> 0]

-----------------------------------------------------------------------------
(* exec: the loop over attempts.                                            *)

(* contextStop.                                                             *)
Stopped(c) == ctx[c] # "live"

At(c, pc) == cmd[c].pc = pc
Goto(c, pc) == cmd' = [cmd EXCEPT ![c].pc = pc]

(* A call that has returned.                                                *)
Over(result) == [NoCommand EXCEPT !.pc = result]
End(c) == cmd' = [cmd EXCEPT ![c] = Over("failed")]

(* A new exec, for the first or a later hop of Eval and MSetEX.             *)
Hop(hop) == [NoCommand EXCEPT !.pc = "borrow", !.hop = hop]

(* The next round of the loop, or its end.  The backoff before it and the   *)
(* contextStop at its head end the call as borrowSocket's own check does.   *)
Again(r) ==
  IF r.attempt < MaxRetries
  THEN [Hop(r.hop) EXCEPT !.attempt = r.attempt + 1, !.skipIdle = r.skipIdle]
  ELSE Over("failed")

Start(c) ==
  /\ At(c, "idle")
  /\ cmd' = [cmd EXCEPT ![c] =
       IF Stopped(c) THEN Over("failed")
       ELSE Hop(IF c \in Groups /\ groupWrite # "lua" THEN "msetex"
                ELSE IF c \in Groups \cup Scripts THEN "evalsha" ELSE "command")]
  /\ UNCHANGED <<turns, idle, closed, groupWrite, sock, closers, ctx, server, skipped>>

-----------------------------------------------------------------------------
(* borrowSocket.                                                            *)

Borrow(c) ==
  /\ At(c, "borrow")
  /\ \/ /\ closed # "no" \/ Stopped(c)
        /\ End(c)
        /\ UNCHANGED turns
     \/ /\ closed = "no" /\ ~Stopped(c)
        /\ Goto(c, IF turns > 0 THEN "turn" ELSE "wait")
        /\ turns' = IF turns > 0 THEN turns - 1 ELSE 0
  /\ UNCHANGED <<idle, closed, groupWrite, sock, closers, ctx, server, skipped>>

(* A waiter past PoolSize: a turn, the end of its context, or PoolTimeout,  *)
(* which is not retried.                                                    *)
Wait(c) ==
  /\ At(c, "wait")
  /\ \/ turns > 0 /\ turns' = turns - 1 /\ Goto(c, "turn")
     \/ End(c) /\ UNCHANGED turns
  /\ UNCHANGED <<idle, closed, groupWrite, sock, closers, ctx, server, skipped>>

(* Mutant: the turn is not given back.                                      *)
FreedNothing == turns

(* freeInUseTurn: a turn too many is dropped.                               *)
Freed == IF turns < PoolSize THEN turns + 1 ELSE turns

(* conn.close; a request already written still reaches a live peer.         *)
Shut(shut) ==
  [s \in Sockets |->
     IF s \in shut
     THEN [NoSocket EXCEPT !.alive = sock[s].alive /\ sock[s].request # None,
                           !.request = sock[s].request]
     ELSE sock[s]]

(* Mutant: the last socket of the list is not taken.                        *)
ReusesAllButOne(young) == Len(young) > 1

Reuses(young) == young # <<>>

(* What a sweep leaves of a list: the sockets at the kept places, in order. *)
Survivors(list, kept) ==
  UNION {{[i \in 1 .. n |-> list[place[i]]] :
            place \in {p \in Bijection(1 .. n, kept) : \A i, j \in 1 .. n : i < j => p[i] < p[j]}} :
         n \in 0 .. Len(list)}

(* takeIdleConn: sweep what was unused for idleTimeout, which may be any    *)
(* of the list, and take the newest of the rest.  The swept sockets are     *)
(* closed after the unlock, when nobody else can reach them: one step.      *)
TakeIdle(c) ==
  /\ At(c, "turn") /\ ~cmd[c].skipIdle
  /\ \/ /\ closed # "no"
        /\ turns' = Freed
        /\ End(c)
        /\ UNCHANGED <<idle, sock>>
     \/ /\ closed = "no"
        /\ \E kept \in SUBSET DOMAIN idle : \E young \in Survivors(idle, kept) :
             /\ sock' = Shut({idle[i] : i \in DOMAIN idle \ kept})
             /\ \/ /\ Reuses(young)
                   /\ idle' = SubSeq(young, 1, Len(young) - 1)
                   /\ cmd' = [cmd EXCEPT ![c].pc = "do", ![c].conn = young[Len(young)],
                                         ![c].fromIdle = TRUE]
                \/ ~Reuses(young) /\ idle' = young /\ Goto(c, "dial")
        /\ UNCHANGED turns
  /\ UNCHANGED <<closed, groupWrite, closers, ctx, server, skipped>>

(* skipIdle: this command met a dead socket on the idle list before.        *)
SkipIdle(c) ==
  /\ At(c, "turn") /\ cmd[c].skipIdle
  /\ \/ closed # "no" /\ turns' = Freed /\ End(c) /\ UNCHANGED skipped
     \/ closed = "no" /\ Goto(c, "dial") /\ skipped' = TRUE /\ UNCHANGED turns
  /\ UNCHANGED <<idle, closed, groupWrite, sock, closers, ctx, server>>

InUse == {c \in Commands : cmd[c].conn # None}

(* A name for a new socket: nobody refers to it any more.                   *)
Fresh(s) == sock[s] = NoSocket /\ s \notin closers /\ \A c \in InUse : cmd[c].conn # s

(* A reply nobody asked for.                                                *)
Stray == [to |-> None, answer |-> "ok"]

(* dial and its AUTH and SELECT; the server may send more than the          *)
(* handshake's replies.                                                     *)
Dial(c) ==
  /\ At(c, "dial") /\ ~Stopped(c)
  /\ \E s \in Sockets, surplus \in BOOLEAN :
       /\ Fresh(s)
       /\ surplus => faults < MaxFaults
       /\ faults' = IF surplus THEN faults + 1 ELSE faults
       /\ sock' = [sock EXCEPT ![s].open = TRUE, ![s].alive = TRUE,
                               ![s].replies = IF surplus THEN <<Stray>> ELSE <<>>]
       /\ cmd' = [cmd EXCEPT ![c].pc = "do", ![c].conn = s, ![c].fromIdle = FALSE]
  /\ UNCHANGED <<turns, idle, closed, groupWrite, closers, ctx, loaded, applied, restarts, skipped>>

(* No connection: retried unless the client is closed or the context ended. *)
(* A refused handshake is not retried.                                      *)
DialFails(c) ==
  /\ At(c, "dial")
  /\ \/ Stopped(c) /\ End(c) /\ UNCHANGED faults
     \/ /\ ~Stopped(c) /\ faults < MaxFaults
        /\ faults' = faults + 1
        /\ \/ cmd' = [cmd EXCEPT ![c] = IF closed # "no" THEN Over("failed") ELSE Again(@)]
           \/ End(c)
  /\ turns' = Freed
  /\ UNCHANGED <<idle, closed, groupWrite, sock, closers, ctx, loaded, applied, restarts, skipped>>

-----------------------------------------------------------------------------
(* runOnConn and do: one request, its reply, and the context in between.    *)

(* Mutant: unread bytes before the write are not looked at.                 *)
UnreadIgnored(s) == FALSE

(* reader.Buffered() before the write: what is there is not this reply.     *)
(* A reply is in the reader as soon as the server has sent it: Buffered     *)
(* does not see bytes that are still in the kernel, the model has none.     *)
Unread(s) == sock[s].replies # <<>>

(* The checks before the write, then the write; a dead peer swallows it.    *)
Send(c) ==
  LET s == cmd[c].conn
  IN /\ At(c, "do")
     /\ \/ /\ Stopped(c)
           /\ cmd' = [cmd EXCEPT ![c].pc = "release", ![c].outcome = "stop"]
           /\ UNCHANGED sock
        \/ /\ ~Stopped(c) /\ Unread(s)
           /\ cmd' = [cmd EXCEPT ![c].pc = "stopWatch", ![c].watching = TRUE,
                                 ![c].outcome = "unreachable"]
           /\ UNCHANGED sock
        \/ /\ ~Stopped(c) /\ ~Unread(s)
           /\ sock' = IF sock[s].alive
                      THEN [sock EXCEPT ![s].request = [by |-> c, hop |-> cmd[c].hop]]
                      ELSE sock
           /\ cmd' = [cmd EXCEPT ![c].pc = "read", ![c].watching = TRUE]
     /\ UNCHANGED <<turns, idle, closed, groupWrite, closers, ctx, server, skipped>>

(* Mutant: a reply with another one behind it counts as a broken socket.    *)
PoisonedFails(c, r) == IF Stopped(c) THEN "stop"
                       ELSE IF Len(sock[cmd[c].conn].replies) > 1 THEN "unreachable" ELSE r.answer

(* What do returns once readReply has.                                      *)
Returned(c, r) == IF Stopped(c) THEN "stop" ELSE r.answer

(* Nothing of another reply is left in the reader.                          *)
Reusable(c) == ~Stopped(c) /\ Len(sock[cmd[c].conn].replies) = 1

(* readReply returns the next reply, whoever it was for.                    *)
Read(c) ==
  LET s == cmd[c].conn
      r == Head(sock[s].replies)
  IN /\ At(c, "read") /\ sock[s].open /\ sock[s].replies # <<>>
     /\ sock' = [sock EXCEPT ![s].replies = Tail(@)]
     /\ cmd' = [cmd EXCEPT ![c].pc = "stopWatch", ![c].reply = r,
                  ![c].reusable = Reusable(c), ![c].outcome = Returned(c, r)]
     /\ UNCHANGED <<turns, idle, closed, groupWrite, closers, ctx, server, skipped>>

(* ioOrContext.                                                             *)
IoOrContext(c) == IF Stopped(c) THEN "stop" ELSE "unreachable"

(* The read fails: the deadline on the socket, its close by the watcher, or *)
(* a peer that went away.                                                   *)
ReadFails(c) ==
  LET s == cmd[c].conn
  IN /\ At(c, "read")
     /\ ctx[c] = "late" \/ ~sock[s].open \/ ~sock[s].alive
     /\ cmd' = [cmd EXCEPT ![c].pc = "stopWatch",
                  ![c].outcome = IoOrContext(c)]
     /\ UNCHANGED <<turns, idle, closed, groupWrite, sock, closers, ctx, server, skipped>>

(* The deferred stopWatch of do: keeps a watcher that did not fire from     *)
(* firing, and does not wait for one that did.                              *)
StopWatch(c) ==
  /\ At(c, "stopWatch")
  /\ cmd' = [cmd EXCEPT ![c].pc = "release", ![c].watching = FALSE]
  /\ UNCHANGED <<turns, idle, closed, groupWrite, sock, closers, ctx, server, skipped>>

(* Mutant: the context is not looked at again once do has returned.         *)
NoCheck(c) == FALSE

EndedDuringDo(c) == Stopped(c)

(* Mutant: a socket is parked although Close has drained the list.          *)
ParksAfterClose == Len(idle) < MaxIdleConns

Parks == closed = "no" /\ Len(idle) < MaxIdleConns

(* The end of runOnConn: the context once more, then release up to the turn.*)
Release(c) ==
  LET s == cmd[c].conn
      park == cmd[c].reusable /\ ~EndedDuringDo(c) /\ Parks
  IN /\ At(c, "release")
     /\ idle' = IF park THEN Append(idle, s) ELSE idle
     /\ sock' = IF park THEN sock ELSE Shut({s})
     /\ cmd' = [cmd EXCEPT ![c].pc = "free", ![c].conn = None, ![c].reply = None,
                  ![c].outcome = IF EndedDuringDo(c) THEN "stop" ELSE @]
     /\ UNCHANGED <<turns, closed, groupWrite, closers, ctx, server, skipped>>

(* shouldRetry: a broken socket and the refusals a server takes back.       *)
ShouldRetry(outcome) == outcome \in {"unreachable", "loading"}

(* The command that Eval and msetex send after this one.                    *)
FallsBack(outcome) == outcome \in {"noscript", "unknown"}
Fallback(outcome) == IF outcome = "noscript" THEN "eval" ELSE "evalsha"

(* What exec, Eval and msetex make of the outcome.                          *)
Decide(r) ==
  LET skip == r.skipIdle \/ (r.fromIdle /\ r.outcome = "unreachable")
  IN CASE ShouldRetry(r.outcome) -> Again([r EXCEPT !.skipIdle = skip])
       [] FallsBack(r.outcome) -> Hop(Fallback(r.outcome))
       [] OTHER -> Over(IF r.outcome = "ok" THEN "ok" ELSE "failed")

(* freeInUseTurn ends release; then the loop goes on.                       *)
FreeTurn(c) ==
  /\ At(c, "free")
  /\ turns' = Freed
  /\ cmd' = [cmd EXCEPT ![c] = Decide(@)]
  /\ groupWrite' = CASE cmd[c].outcome = "unknown" -> "lua"
                     [] cmd[c].outcome = "ok" /\ cmd[c].hop = "msetex" -> "native"
                     [] OTHER -> groupWrite
  /\ UNCHANGED <<idle, closed, sock, closers, ctx, server, skipped>>

-----------------------------------------------------------------------------
(* Close, and the contexts with their watchers.                             *)

CloseSets ==
  /\ closed = "no"
  /\ closed' = "yes"
  /\ UNCHANGED <<turns, idle, groupWrite, sock, closers, cmd, ctx, server, skipped>>

(* Close takes the idle list under the lock and closes its sockets after    *)
(* the unlock, when nobody else can reach them: one step.                   *)
CloseDrains ==
  /\ closed = "yes"
  /\ closed' = "drained"
  /\ idle' = <<>>
  /\ sock' = Shut(Range(idle))
  /\ UNCHANGED <<turns, groupWrite, closers, cmd, ctx, server, skipped>>

(* The deadline passes, or the context is done and its AfterFunc starts.    *)
ContextEnds(c) ==
  /\ c \in Cancelled /\ ctx[c] # "done" /\ cmd[c].pc \notin {"ok", "failed"}
  /\ \/ /\ ctx[c] = "live"
        /\ ctx' = [ctx EXCEPT ![c] = "late"]
        /\ UNCHANGED <<closers, cmd>>
     \/ /\ ctx' = [ctx EXCEPT ![c] = "done"]
        /\ closers' = IF cmd[c].watching THEN closers \cup {cmd[c].conn} ELSE closers
        /\ cmd' = [cmd EXCEPT ![c].watching = FALSE]
  /\ UNCHANGED <<turns, idle, closed, groupWrite, sock, server, skipped>>

(* The body of the AfterFunc, as late as it likes.                          *)
WatcherCloses(s) ==
  /\ s \in closers
  /\ closers' = closers \ {s}
  /\ sock' = Shut({s})
  /\ UNCHANGED <<turns, idle, closed, groupWrite, cmd, ctx, server, skipped>>

-----------------------------------------------------------------------------
(* The server.                                                              *)

Answer(hop) ==
  CASE hop = "msetex" /\ ~NativeGroup -> "unknown"
    [] hop = "evalsha" /\ ~loaded -> "noscript"
    [] OTHER -> "ok"

(* A request is answered, with a surplus reply or a refusal as a fault; a   *)
(* client that hung up does not see the answer.                             *)
Serve(s) ==
  LET q == sock[s].request
  IN /\ sock[s].alive /\ q # None
     /\ \E fault \in {"none", "surplus", "loading"} :
          LET answer == IF fault = "loading" THEN "loading" ELSE Answer(q.hop)
              reply == <<[to |-> q.by, answer |-> answer]>>
          IN /\ fault # "none" => faults < MaxFaults
             /\ faults' = IF fault = "none" THEN faults ELSE faults + 1
             /\ applied' = IF answer = "ok" THEN [applied EXCEPT ![q.by] = @ + 1] ELSE applied
             /\ loaded' = (loaded \/ (answer = "ok" /\ q.hop = "eval"))
             /\ sock' = [sock EXCEPT ![s] =
                  IF ~@.open THEN NoSocket
                  ELSE [@ EXCEPT !.request = None,
                          !.replies = IF fault = "surplus" THEN Append(reply, Stray) ELSE reply]]
     /\ UNCHANGED <<client, restarts>>

(* The peer restarts: its sockets, what was on them and its script cache    *)
(* are lost.  It is also the only loss of a connection in the model, so all *)
(* of them are lost together.                                               *)
Restart ==
  /\ faults < MaxFaults
  /\ faults' = faults + 1 /\ restarts' = restarts + 1
  /\ loaded' = FALSE
  /\ sock' = [s \in Sockets |->
                [sock[s] EXCEPT !.alive = FALSE, !.request = None, !.replies = <<>>]]
  /\ UNCHANGED <<client, applied>>

Next ==
  \/ \E c \in Commands :
       \/ Start(c) \/ Borrow(c) \/ Wait(c) \/ TakeIdle(c) \/ SkipIdle(c)
       \/ Dial(c) \/ DialFails(c) \/ Send(c) \/ Read(c) \/ ReadFails(c) \/ StopWatch(c)
       \/ Release(c) \/ FreeTurn(c) \/ ContextEnds(c)
  \/ \E s \in Sockets : WatcherCloses(s) \/ Serve(s)
  \/ CloseSets \/ CloseDrains \/ Restart

Spec == Init /\ [][Next]_vars

-----------------------------------------------------------------------------
(* Properties.                                                              *)

Live == {s \in Sockets : sock[s].open}

(* Every turn is in the channel or with one command, on all the paths out   *)
(* of borrowSocket, dial and release: none is leaked and none returned      *)
(* twice (OverFrees stays 0).                                               *)
TurnsConserved ==
  turns + Cardinality({c \in Commands :
            cmd[c].pc \in {"turn", "dial", "do", "read", "stopWatch", "release", "free"}})
    = PoolSize

(* A socket is parked once or used by one command, the idle list keeps its  *)
(* bound and holds clean sockets only, and every socket still open belongs  *)
(* to one of them: a cancelled, failed or poisoned exchange leaks none, and *)
(* after Close nothing is parked that nobody would close.                   *)
SocketsAccounted ==
  /\ Len(idle) <= MaxIdleConns /\ Cardinality(Range(idle)) = Len(idle)
  /\ \A c, d \in InUse : cmd[c].conn = cmd[d].conn => c = d
  /\ \A c \in InUse : cmd[c].conn \notin Range(idle)
  /\ \A s \in Range(idle) : sock[s].open /\ sock[s].request = None /\ sock[s].replies = <<>>
  /\ Live \subseteq Range(idle) \cup {cmd[c].conn : c \in InUse}
  /\ closed = "drained" => idle = <<>>

(* The reply a command reads answers its own request: a socket goes back to *)
(* the pool only with nothing outstanding on it (do, runOnConn, release).   *)
RepliesMatch == \A c \in Commands : cmd[c].reply # None => cmd[c].reply.to = c

(* A watcher that fired and closes its socket late hits neither a parked    *)
(* socket nor another command's (watchConnClose, runOnConn).                *)
LateCloseIsHarmless ==
  \A s \in closers :
    s \notin Range(idle) /\ \A c \in InUse : cmd[c].conn = s => ctx[c] = "done"

(* Until a command had to dial past a dead idle list, idle and in-use       *)
(* sockets together stay within PoolSize, although only the in-use ones     *)
(* hold turns.                                                              *)
LiveCap == ~skipped => Cardinality(Live) <= PoolSize

(* The server runs a command once, and once more per loss of connections    *)
(* (Restart) at most: only a lost reply is sent again, not a refusal, a     *)
(* second hop, a poisoned socket or an ended context.  A command that       *)
(* succeeds was run.                                                        *)
AppliedOnce ==
  \A c \in Commands :
    applied[c] <= 1 + restarts /\ (At(c, "ok") => applied[c] >= 1)

=============================================================================
