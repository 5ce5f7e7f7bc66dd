---------------------------- MODULE WindowCounter ----------------------------
(***************************************************************************)
(* The buffered sliding-window limiter (windowcounter/limiter.go with       *)
(* sync_rate > 0): Take counts a hit in a local buffer, a timer flushes the *)
(* buffers to Redis with one EVAL per window.  GET and EVAL run without     *)
(* l.mu, so every other call runs in between; that is what is modelled.     *)
(*                                                                          *)
(* Time is counted in windows of one opaque key: the Redis key of a window  *)
(* is its number, a Take in window w reads w and w - 1, and w expires at    *)
(* w + 2.  The wait of one sync_rate is the action SyncRatePasses.  The     *)
(* sliding weight of the estimate changes no state and is left out.         *)
(***************************************************************************)
EXTENDS Integers, FiniteSets, FiniteSetsExt

CONSTANTS
  Limiters,    \* limiter instances sharing one Redis
  Calls,       \* Take and Peek calls
  Peeks,       \* which of them may be Peek
  Owners,      \* who calls Sleep, Wake and Close, one call at a time each
  Stoppers,    \* which of them may call Sleep and Close
  Timers,      \* AfterFunc timers; one id is one timer until its tick is over
  LimiterOf,   \* the limiter a call, owner or timer belongs to
  MaxClock,    \* bound on the clock
  MaxFaults,   \* bound on failed Redis commands
  Uses,        \* how many Sleep, Wake and Close calls an owner makes
  None         \* nil

Procs == Calls \cup Owners \cup Timers
Windows == 0 .. MaxClock

ASSUME CounterAssumption ==
  /\ Peeks \subseteq Calls /\ Stoppers \subseteq Owners
  /\ LimiterOf \in [Procs -> Limiters]
  /\ MaxClock \in Nat \ {0} /\ MaxFaults \in Nat /\ Uses \in [Owners -> Nat]
  /\ None \notin Procs
  /\ Calls \cap Owners = {} /\ Calls \cap Timers = {} /\ Owners \cap Timers = {}

VARIABLES
  clock,       \* the current window
  redis,       \* the shared counters: count (0: no such key) and expireAt
  faults,      \* how many Redis commands have failed so far
  lim,         \* the Limiter structs
  pc,          \* where each call, owner and tick stands
  reg,         \* the local variables of each of them
  uses,        \* lifecycle calls an owner has left
  taken,       \* hits counted by Take, per limiter and window
  warned       \* a flush had failed when the call began, and none succeeded since

env == <<clock, redis, faults>>
ghosts == <<uses, taken, warned>>
vars == <<env, lim, pc, reg, ghosts>>

Failed == -1   \* the reply of a failed Redis command
Buffer == [known : Nat, delta : Nat, expireAt : Nat, flush : Nat]
Limiter ==
  [mu : Procs \cup {None},                   \* who holds l.mu
   windows : [Windows -> Buffer \cup {None}],
   lastErr : BOOLEAN,                        \* lastFlushErr # nil
   fresh : BOOLEAN,                          \* lastRedisOK is within one sync_rate
   closed : BOOLEAN, stopping : BOOLEAN,
   flushTimer : Timers \cup {None}, flushBusy : Nat]
Job == [window : Windows, delta : Nat, expireAt : Nat]
Locals ==
  [peek : BOOLEAN, win : Windows,            \* Peek or Take, the window it works on
   held : {"none", "mapped", "detached"},    \* a Take's *windowState: in the map or not
   reply : Nat \cup {Failed},                \* what its Redis command returned
   jobs : SUBSET Job, job : Job \cup {None}, \* snapshots to send, the one in flight
   now : Windows, err : BOOLEAN,             \* a flush's nowUnix and firstErr # nil
   ref : Timers \cup {None}]                 \* the timer stopFlushAndWait detached
Pcs ==
  {"idle", "window", "getCurrent", "gotCurrent", "previous", "getPrevious",
   "gotPrevious", "count", "probe", "getProbe", "gotProbe", "ok", "error"}
  \cup {"flush", "flushNext", "evalSent", "evalDone"}
  \cup {"rest", "stop", "stopTimer", "wait", "unstop"} \cup {"free", "armed", "tickEnd"}

ASSUME NilAssumption == None \notin Buffer \cup Job

TypeOK ==
  /\ clock \in Windows /\ faults \in 0 .. MaxFaults
  /\ redis \in [Windows -> [count : Nat, expireAt : Nat]]
  /\ lim \in [Limiters -> Limiter]
  /\ pc \in [Procs -> Pcs] /\ reg \in [Procs -> Locals]
  /\ uses \in [Owners -> Nat]
  /\ taken \in [Limiters -> [Windows -> Nat]]
  /\ warned \in [Calls -> BOOLEAN]

(* New: every limiter starts with its flush timer armed.                    *)
Init ==
  /\ clock = 1 /\ faults = 0
  /\ redis = [w \in Windows |-> [count |-> 0, expireAt |-> 0]]
  /\ \E first \in [Limiters -> Timers] :
       /\ \A l \in Limiters : LimiterOf[first[l]] = l
       /\ lim = [l \in Limiters |->
                   [mu |-> None, windows |-> [w \in Windows |-> None], lastErr |-> FALSE,
                    fresh |-> FALSE, closed |-> FALSE, stopping |-> FALSE,
                    flushTimer |-> first[l], flushBusy |-> 1]]
       /\ pc = [p \in Procs |-> IF p \in Calls THEN "idle" ELSE IF p \in Owners THEN "rest"
                                ELSE IF p = first[LimiterOf[p]] THEN "armed" ELSE "free"]
  /\ reg = [p \in Procs |-> [peek |-> FALSE, win |-> 0, held |-> "none", reply |-> 0, jobs |-> {},
                             job |-> None, now |-> 0, err |-> FALSE, ref |-> None]]
  /\ uses = Uses
  /\ taken = [l \in Limiters |-> [w \in Windows |-> 0]]
  /\ warned = [c \in Calls |-> FALSE]

(* p's limiter, and the step to another place in p's code.                  *)
Of(p) == lim[LimiterOf[p]]
CanLock(p) == Of(p).mu = None
Goto(p, next) == pc' = [pc EXCEPT ![p] = next]

-----------------------------------------------------------------------------
(* Take and Peek.                                                           *)

Raised(b, at) == [b EXCEPT !.expireAt = Max({@, at})]

(* applyGetLocked: what a GET leaves in a buffer that may have moved on.    *)
Seeded(b, known, at) ==
  IF b = None THEN [known |-> known, delta |-> 0, expireAt |-> at, flush |-> 0]
  ELSE [Raised(b, at) EXCEPT !.known = IF b.delta = 0 THEN known ELSE @]

(* Take or Peek is called; slidingAt reads the clock before l.mu is taken.  *)
StartCall(c) ==
  /\ pc[c] = "idle"
  /\ \E peek \in {FALSE} \cup {c \in Peeks} :
       reg' = [reg EXCEPT ![c] = [@ EXCEPT !.win = clock, !.peek = peek]]
  /\ Goto(c, "window")
  /\ UNCHANGED <<env, lim, ghosts>>

(* windowLocked (peekCountLocked): a Take trusts a buffer with hits of its  *)
(* own, a Peek any buffer; otherwise the count is read from Redis.          *)
CurrentWindow(c) ==
  LET l == LimiterOf[c]
      w == reg[c].win
      b == lim[l].windows[w]
      known == b # None /\ (reg[c].peek \/ b.delta # 0)
  IN /\ pc[c] = "window" /\ CanLock(c)
     /\ lim' = [lim EXCEPT ![l] = [@ EXCEPT
          !.windows[w] = IF b = None THEN b ELSE Raised(b, w + 2),
          !.mu = IF known THEN c ELSE None]]
     /\ reg' = [reg EXCEPT ![c].held = IF known /\ ~reg[c].peek THEN "mapped" ELSE "none"]
     /\ warned' = [warned EXCEPT ![c] = lim[l].lastErr]
     /\ Goto(c, IF known THEN "previous" ELSE "getCurrent")
     /\ UNCHANGED <<env, uses, taken>>

Asking == [getCurrent |-> "gotCurrent", getPrevious |-> "gotPrevious", getProbe |-> "gotProbe"]

(* Redis answers a GET.  What the probe reads is not used.                  *)
GetRuns(c) ==
  /\ pc[c] \in DOMAIN Asking
  /\ reg' = [reg EXCEPT ![c].reply =
       IF pc[c] = "getProbe" THEN 0
       ELSE redis[IF pc[c] = "getCurrent" THEN reg[c].win ELSE reg[c].win - 1].count]
  /\ Goto(c, Asking[pc[c]])
  /\ UNCHANGED <<env, lim, ghosts>>

(* A GET fails: unreachable, timed out, or not an integer.                  *)
GetFails(c) ==
  /\ pc[c] \in DOMAIN Asking
  /\ faults < MaxFaults
  /\ faults' = faults + 1
  /\ reg' = [reg EXCEPT ![c].reply = Failed]
  /\ Goto(c, Asking[pc[c]])
  /\ UNCHANGED <<clock, redis, lim, ghosts>>

(* getCountUnlocked re-locks; the count seeds the window that was asked     *)
(* for, or its error is returned.                                           *)
ApplyGet(c) ==
  LET l == LimiterOf[c]
      current == pc[c] = "gotCurrent"
      w == IF current THEN reg[c].win ELSE reg[c].win - 1
  IN /\ pc[c] \in {"gotCurrent", "gotPrevious"} /\ CanLock(c)
     /\ \/ /\ reg[c].reply = Failed
           /\ Goto(c, "error")
           /\ UNCHANGED lim
        \/ /\ reg[c].reply # Failed
           /\ lim' = [lim EXCEPT ![l] = [@ EXCEPT
                !.windows[w] = Seeded(lim[l].windows[w], reg[c].reply, IF current THEN w + 2 ELSE 0),
                !.mu = c, !.fresh = TRUE]]
           /\ Goto(c, IF current THEN "previous" ELSE "count")
     /\ reg' = [reg EXCEPT ![c] = [@ EXCEPT
          !.held = IF current /\ ~reg[c].peek THEN "mapped" ELSE reg[c].held, !.reply = 0]]
     /\ UNCHANGED <<env, ghosts>>

(* bufferedCountLocked of the previous window.                              *)
PreviousWindow(c) ==
  LET known == Of(c).windows[reg[c].win - 1] # None
  IN /\ pc[c] = "previous"
     /\ lim' = [lim EXCEPT ![LimiterOf[c]].mu = IF known THEN c ELSE None]
     /\ Goto(c, IF known THEN "count" ELSE "getPrevious")
     /\ UNCHANGED <<env, reg, ghosts>>

(* Mutant: a retained flush error is not looked at.                         *)
OutageForgetsError(l) == IF l.fresh THEN "ok" ELSE "flush"

(* bufferedOutageErrorLocked before it touches Redis: a retained error, a   *)
(* recent contact, or a flush on this goroutine.                            *)
Outage(l) == IF l.lastErr THEN "error" ELSE IF l.fresh THEN "ok" ELSE "flush"

(* The end of takeBuffered and peekBuffered: a Take counts its hit in the   *)
(* *windowState it looked up, wherever that is now.                         *)
CountHit(c) ==
  LET l == LimiterOf[c]
      w == reg[c].win
      mu == IF Outage(lim[l]) = "flush" THEN c ELSE None
  IN /\ pc[c] = "count"
     /\ \/ /\ ~reg[c].peek /\ reg[c].held = "mapped"
           /\ lim' = [lim EXCEPT ![l] =
                [@ EXCEPT !.windows[w].delta = lim[l].windows[w].delta + 1, !.mu = mu]]
        \/ /\ reg[c].peek \/ reg[c].held = "detached"
           /\ lim' = [lim EXCEPT ![l].mu = mu]
     /\ taken' = IF reg[c].peek THEN taken ELSE [taken EXCEPT ![l][w] = @ + 1]
     /\ reg' = [reg EXCEPT ![c].held = "none"]
     /\ Goto(c, Outage(lim[l]))
     /\ UNCHANGED <<env, uses, warned>>

(* bufferedOutageErrorLocked after its flush: probe with a GET when nothing *)
(* was flushed and some window is buffered.                                 *)
Probe(c) ==
  LET l == Of(c)
      next == IF reg[c].err \/ l.lastErr THEN "error"
              ELSE IF l.fresh \/ \A w \in Windows : l.windows[w] = None THEN "ok"
              ELSE "getProbe"
  IN /\ pc[c] = "probe"
     /\ lim' = [lim EXCEPT ![LimiterOf[c]].mu = None]
     /\ Goto(c, next)
     /\ UNCHANGED <<env, reg, ghosts>>

ProbeReturns(c) ==
  LET l == Of(c)
      failed == reg[c].reply = Failed
  IN /\ pc[c] = "gotProbe" /\ CanLock(c)
     /\ lim' = [lim EXCEPT ![LimiterOf[c]] =
                  [@ EXCEPT !.lastErr = l.lastErr \/ failed, !.fresh = l.fresh \/ ~failed]]
     /\ reg' = [reg EXCEPT ![c].reply = 0]
     /\ Goto(c, IF failed THEN "error" ELSE "ok")
     /\ UNCHANGED <<env, ghosts>>

-----------------------------------------------------------------------------
(* flushPendingLocked, run by a tick, by Sleep and Close, or by a call.     *)

(* Mutant: a key whose EVAL is in flight is snapshotted again.              *)
FlushableAgain(b) == b # None /\ b.delta > 0

(* A window with hits that no other flusher has in flight.                  *)
Flushable(b) == b # None /\ b.delta > 0 /\ b.flush = 0

FlushSnapshot(p) ==
  LET l == LimiterOf[p]
      buf == lim[l].windows
      now == {w \in Windows : Flushable(buf[w])}
  IN /\ pc[p] = "flush" /\ lim[l].mu \in {None, p}
     /\ lim' = [lim EXCEPT ![l] = [@ EXCEPT !.mu = p, !.windows = [w \in Windows |->
                  IF w \in now THEN [buf[w] EXCEPT !.flush = buf[w].delta] ELSE buf[w]]]]
     /\ reg' = [reg EXCEPT ![p] = [@ EXCEPT !.now = clock, !.err = FALSE, !.jobs =
          {[window |-> w, delta |-> buf[w].delta, expireAt |-> buf[w].expireAt] : w \in now}]]
     /\ Goto(p, "flushNext")
     /\ UNCHANGED <<env, ghosts>>

(* flushEvalUnlocked drops l.mu.                                            *)
FlushSend(p) ==
  /\ pc[p] = "flushNext"
  /\ \E j \in reg[p].jobs : reg' = [reg EXCEPT ![p] = [@ EXCEPT !.jobs = reg[p].jobs \ {j}, !.job = j]]
  /\ lim' = [lim EXCEPT ![LimiterOf[p]].mu = None]
  /\ Goto(p, "evalSent")
  /\ UNCHANGED <<env, ghosts>>

(* flushScript on the server: INCRBY, and EXPIREAT when the key is new.     *)
Stored(r, j) ==
  LET s == IF r.count = 0 THEN [count |-> j.delta, expireAt |-> j.expireAt]
           ELSE [r EXCEPT !.count = @ + j.delta]
  IN IF s.expireAt <= clock THEN [count |-> 0, expireAt |-> 0] ELSE s

EvalRuns(p) ==
  LET j == reg[p].job
  IN /\ pc[p] = "evalSent"
     /\ redis' = [redis EXCEPT ![j.window] = Stored(@, j)]
     /\ reg' = [reg EXCEPT ![p].reply = redis[j.window].count + j.delta]
     /\ Goto(p, "evalDone")
     /\ UNCHANGED <<clock, faults, lim, ghosts>>

(* The EVAL fails before or after the server ran it, or its reply is lost   *)
(* and the client's retry runs it a second time.                            *)
EvalFails(p) ==
  LET j == reg[p].job
      once == Stored(redis[j.window], j)
  IN /\ pc[p] = "evalSent"
     /\ faults < MaxFaults
     /\ faults' = faults + 1
     /\ \/ reg' = [reg EXCEPT ![p].reply = Failed] /\ UNCHANGED redis
        \/ /\ reg' = [reg EXCEPT ![p].reply = Failed]
           /\ redis' = [redis EXCEPT ![j.window] = once]
        \/ /\ reg' = [reg EXCEPT ![p].reply = once.count + j.delta]
           /\ redis' = [redis EXCEPT ![j.window] = Stored(once, j)]
     /\ Goto(p, "evalDone")
     /\ UNCHANGED <<clock, lim, ghosts>>

(* Mutant: a successful flush clears all pending hits.                      *)
FlushedAll(b, n, delta) == [b EXCEPT !.known = n, !.delta = 0, !.flush = 0]

Flushed(b, n, delta) == [b EXCEPT !.known = n, !.delta = @ - delta, !.flush = 0]
Unflushed(b) == [b EXCEPT !.flush = 0]

(* Back under l.mu: a success moves the flushed hits to redisKnown and      *)
(* clears the retained error, a failure leaves them pending.                *)
FlushReceive(p) ==
  LET l == LimiterOf[p]
      j == reg[p].job
      b == lim[l].windows[j.window]
      failed == reg[p].reply = Failed
      done == ~failed /\ b # None
  IN /\ pc[p] = "evalDone" /\ CanLock(p)
     /\ lim' = [lim EXCEPT ![l] =
          [@ EXCEPT !.windows[j.window] = IF b = None THEN None ELSE IF failed THEN Unflushed(b)
                                          ELSE Flushed(b, reg[p].reply, j.delta),
                    !.lastErr = lim[l].lastErr /\ ~done, !.fresh = lim[l].fresh \/ done, !.mu = p]]
     /\ warned' = [c \in Calls |-> warned[c] /\ ~(done /\ LimiterOf[c] = l)]
     /\ reg' = [reg EXCEPT ![p] = [@ EXCEPT !.err = reg[p].err \/ failed, !.reply = 0, !.job = None]]
     /\ Goto(p, "flushNext")
     /\ UNCHANGED <<env, uses, taken>>

Droppable(b, now) ==
  b # None /\ b.delta = 0 /\ b.flush = 0 /\ (b.expireAt = 0 \/ now >= b.expireAt)

(* The last EVAL is back: drop expired windows, keep the first error.       *)
FlushEnd(p) ==
  LET l == LimiterOf[p]
      dropped == {w \in Windows : Droppable(lim[l].windows[w], reg[p].now)}
      lost == {c \in Calls : /\ LimiterOf[c] = l /\ reg[c].held = "mapped"
                             /\ reg[c].win \in dropped}
  IN /\ pc[p] = "flushNext" /\ reg[p].jobs = {}
     /\ lim' = [lim EXCEPT ![l] = [@ EXCEPT
          !.windows = [w \in Windows |-> IF w \in dropped THEN None ELSE lim[l].windows[w]],
          !.lastErr = lim[l].lastErr \/ reg[p].err,
          !.mu = IF p \in Calls THEN p ELSE None]]
     /\ reg' = [q \in Procs |-> IF q \in lost THEN [reg[q] EXCEPT !.held = "detached"] ELSE reg[q]]
     /\ Goto(p, IF p \in Calls THEN "probe" ELSE IF p \in Owners THEN "stop" ELSE "tickEnd")
     /\ UNCHANGED <<env, ghosts>>

-----------------------------------------------------------------------------
(* The flush timer, Sleep, Wake and Close.                                  *)

TimerFires(k) ==
  /\ pc[k] = "armed"
  /\ Goto(k, "flush")
  /\ UNCHANGED <<env, lim, reg, ghosts>>

(* A timer value nobody refers to any more.                                 *)
FreeTimers(l) ==
  {k \in Timers : LimiterOf[k] = l /\ pc[k] = "free" /\ \A o \in Owners : reg[o].ref # k}

(* flushAfterTick after its flush: re-arm, or leave when the timer was      *)
(* stopped meanwhile.                                                       *)
TickEnds(k) ==
  LET l == LimiterOf[k]
      leave == lim[l].closed \/ lim[l].stopping \/ lim[l].flushTimer = None
  IN /\ pc[k] = "tickEnd" /\ CanLock(k)
     /\ \/ /\ leave
           /\ lim' = [lim EXCEPT ![l].flushBusy = @ - 1]
           /\ Goto(k, "free")
        \/ /\ ~leave
           /\ \E n \in FreeTimers(l) :
                /\ lim' = [lim EXCEPT ![l].flushTimer = n]
                /\ pc' = [pc EXCEPT ![k] = "free", ![n] = "armed"]
     /\ UNCHANGED <<env, reg, ghosts>>

(* An owner makes one of its calls.                                         *)
Use(o) ==
  /\ pc[o] = "rest" /\ uses[o] > 0
  /\ uses' = [uses EXCEPT ![o] = @ - 1]
  /\ UNCHANGED <<env, reg, taken, warned>>

Sleep(o) ==
  /\ Use(o) /\ o \in Stoppers
  /\ Goto(o, "flush")
  /\ UNCHANGED lim

(* Close, up to its flush: a second Close returns at once.                  *)
Close(o) ==
  LET l == LimiterOf[o]
  IN /\ Use(o) /\ o \in Stoppers /\ CanLock(o)
     /\ lim' = [lim EXCEPT ![l].closed = TRUE]
     /\ Goto(o, IF lim[l].closed THEN "rest" ELSE "flush")

(* Mutant: Wake does not look at stopping.                                  *)
RefusesClosed(l) == lim[l].closed \/ lim[l].flushTimer # None

(* The early returns of Wake and startFlushLocked: closed, stopping, a timer *)
(* already there.                                                           *)
RefusesWake(l) == lim[l].closed \/ lim[l].stopping \/ lim[l].flushTimer # None

(* Wake and startFlushLocked.                                               *)
Wake(o) ==
  LET l == LimiterOf[o]
      refused == RefusesWake(l)
  IN /\ Use(o) /\ CanLock(o)
     /\ \/ refused /\ UNCHANGED <<lim, pc>>
        \/ /\ ~refused
           /\ \E n \in FreeTimers(l) :
                /\ lim' = [lim EXCEPT ![l] =
                     [@ EXCEPT !.flushBusy = lim[l].flushBusy + 1, !.flushTimer = n]]
                /\ Goto(n, "armed")

(* Mutant: nothing keeps a Wake from starting a timer while the tick that   *)
(* is waited for ends.                                                      *)
DetachUnmarked(o) ==
  LET l == LimiterOf[o]
      k == lim[l].flushTimer
  IN /\ pc[o] = "stop" /\ CanLock(o)
     /\ lim' = [lim EXCEPT ![l].flushTimer = None]
     /\ reg' = [reg EXCEPT ![o].ref = k]
     /\ Goto(o, IF k = None THEN "rest" ELSE "stopTimer")
     /\ UNCHANGED <<env, ghosts>>

(* stopFlushAndWait takes the timer, if there is one; without one it clears *)
(* the stopping flag that another caller may still rely on.                 *)
DetachTimer(o) ==
  LET l == LimiterOf[o]
      k == lim[l].flushTimer
  IN /\ pc[o] = "stop" /\ CanLock(o)
     /\ lim' = [lim EXCEPT ![l] = [@ EXCEPT !.stopping = k # None, !.flushTimer = None]]
     /\ reg' = [reg EXCEPT ![o].ref = k]
     /\ Goto(o, IF k = None THEN "rest" ELSE "stopTimer")
     /\ UNCHANGED <<env, ghosts>>

(* Mutant: the tick is taken off flushBusy whether or not Stop reached it.  *)
DoneAlways(stopped) == 1

Done(stopped) == IF stopped THEN 1 ELSE 0

(* timer.Stop() is true when the timer has not fired: no tick calls Done.   *)
StopTimer(o) ==
  LET k == reg[o].ref
      stopped == pc[k] = "armed"
  IN /\ pc[o] = "stopTimer"
     /\ lim' = [lim EXCEPT ![LimiterOf[o]].flushBusy = @ - Done(stopped)]
     /\ pc' = [pc EXCEPT ![o] = "wait", ![k] = IF stopped THEN "free" ELSE pc[k]]
     /\ UNCHANGED <<env, reg, ghosts>>

(* Mutant: Sleep and Close do not wait for a tick in flight.                *)
NoWait(o) == pc[o] = "wait" /\ Goto(o, "unstop") /\ UNCHANGED <<env, lim, reg, ghosts>>

(* flushBusy.Wait().                                                        *)
WaitForTick(o) ==
  /\ pc[o] = "wait" /\ Of(o).flushBusy = 0
  /\ Goto(o, "unstop")
  /\ UNCHANGED <<env, lim, reg, ghosts>>

StopReturns(o) ==
  /\ pc[o] = "unstop" /\ CanLock(o)
  /\ lim' = [lim EXCEPT ![LimiterOf[o]].stopping = FALSE]
  /\ reg' = [reg EXCEPT ![o].ref = None]
  /\ Goto(o, "rest")
  /\ UNCHANGED <<env, ghosts>>

-----------------------------------------------------------------------------
(* Time.                                                                    *)

(* The next window begins, and Redis drops the keys that expire with it.    *)
NextWindow ==
  /\ clock < MaxClock
  /\ clock' = clock + 1
  /\ redis' = [w \in Windows |-> IF redis[w].expireAt <= clock + 1
                                 THEN [count |-> 0, expireAt |-> 0] ELSE redis[w]]
  /\ UNCHANGED <<faults, lim, pc, reg, ghosts>>

(* One sync_rate has passed without a contact.                              *)
SyncRatePasses(l) ==
  /\ lim[l].fresh
  /\ lim' = [lim EXCEPT ![l].fresh = FALSE]
  /\ UNCHANGED <<env, pc, reg, ghosts>>

CallStep(c) ==
  \/ CurrentWindow(c) \/ GetRuns(c) \/ ApplyGet(c) \/ PreviousWindow(c)
  \/ CountHit(c) \/ Probe(c) \/ ProbeReturns(c)
FlushStep(p) ==
  FlushSnapshot(p) \/ FlushSend(p) \/ EvalRuns(p) \/ FlushReceive(p) \/ FlushEnd(p)
OwnerStep(o) == DetachTimer(o) \/ StopTimer(o) \/ WaitForTick(o) \/ StopReturns(o)
TimerStep(k) == TimerFires(k) \/ TickEnds(k)

Step(p) ==
  \/ p \in Calls /\ CallStep(p)
  \/ p \in Owners /\ OwnerStep(p)
  \/ p \in Timers /\ TimerStep(p)
  \/ FlushStep(p)

Next ==
  \/ \E p \in Procs : Step(p) \/ EvalFails(p)
  \/ \E c \in Calls : StartCall(c) \/ GetFails(c)
  \/ \E o \in Owners : Sleep(o) \/ Close(o) \/ Wake(o)
  \/ NextWindow
  \/ \E l \in Limiters : SyncRatePasses(l)

Spec == Init /\ [][Next]_vars

(* Timers fire, Redis answers or fails, and sync.Mutex hands l.mu to a      *)
(* waiter that keeps waiting (its starvation mode), hence strong fairness.  *)
FairSpec == Spec /\ \A p \in Procs : SF_vars(Step(p))

-----------------------------------------------------------------------------
(* Properties.                                                              *)

(* What Redis and the limiters hold of a window's hits.  An EVAL that ran   *)
(* but was not received yet is in both.                                     *)
Pending(l, w) == IF lim[l].windows[w] = None THEN 0 ELSE lim[l].windows[w].delta
Unreceived(p, w) ==
  IF pc[p] = "evalDone" /\ reg[p].reply # Failed /\ reg[p].job.window = w
  THEN reg[p].job.delta ELSE 0
Accounted(w) ==
  redis[w].count + MapThenSumSet(LAMBDA l : Pending(l, w), Limiters)
    - MapThenSumSet(LAMBDA p : Unreceived(p, w), Procs)

Hits(w) == MapThenSumSet(LAMBDA l : taken[l][w], Limiters)

(* While a window still counts towards an estimate, every hit of Take is in *)
(* Redis or in a buffer a flush will find, whatever GETs, flushes of any    *)
(* goroutine and deletions of expired buffers interleave; without Redis     *)
(* failures it is there exactly once (flushPendingLocked, applyGetLocked).  *)
HitsConserved ==
  \A w \in Windows : clock < w + 2 =>
    /\ Accounted(w) >= Hits(w)
    /\ faults = 0 => Accounted(w) = Hits(w)

(* A snapshot is sent by one flusher only, and its amount stays in          *)
(* localDelta until the reply (flushDelta).                                 *)
OneFlushInFlight ==
  \A l \in Limiters, w \in Windows :
    LET b == lim[l].windows[w]
        flights == {p \in Procs : LimiterOf[p] = l /\
                      \E j \in reg[p].jobs \cup {reg[p].job} : j # None /\ j.window = w}
    IN /\ Cardinality(flights) <= 1
       /\ flights # {} => b # None /\ 0 < b.flush /\ b.flush <= b.delta

(* flushBusy counts the timers armed or ticking, so its Done is never one   *)
(* too many and Sleep and Close wait for exactly the tick in flight.        *)
TicksAreCounted ==
  \A l \in Limiters :
    lim[l].flushBusy = Cardinality({k \in Timers : LimiterOf[k] = l /\ pc[k] # "free"})

(* Once Sleep or Close has returned no tick is armed or running, until Wake: *)
(* no timer outlives the limiter (stopFlushAndWait, flushAfterTick).        *)
StoppedIsQuiet ==
  \A k \in Timers : pc[k] # "free" =>
    \/ Of(k).flushTimer # None
    \/ \E o \in Owners : LimiterOf[o] = LimiterOf[k] /\ pc[o] \in {"stopTimer", "wait"}

(* A call that began after a failed flush, with no flush succeeding since,  *)
(* returns an error: the local admit is not silent.                         *)
FailureIsNotSilent == \A c \in Calls : pc[c] = "ok" => ~warned[c]

(* Sleep and Close return, whatever tick, call or concurrent Wake is in     *)
(* flight.  It needs a single caller of Sleep and Close at a time: a second *)
(* one clears stopping while the first waits, and a Wake then starts a      *)
(* timer whose ticks keep flushBusy above zero (stopFlushAndWait).          *)
LifecycleReturns == \A o \in Owners : pc[o] # "rest" ~> pc[o] = "rest"

(* A counted hit reaches Redis once Redis answers again, unless the limiter *)
(* is put to sleep or its buffer expires.                                   *)
HitsReachRedis ==
  \A l \in Limiters, w \in Windows :
    Pending(l, w) > 0 ~> (Pending(l, w) = 0 \/ lim[l].flushTimer = None)

=============================================================================
