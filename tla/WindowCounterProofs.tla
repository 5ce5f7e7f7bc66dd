------------------------- MODULE WindowCounterProofs -------------------------
(***************************************************************************)
(* Proofs about WindowCounter for every number of limiters, calls, owners,  *)
(* timers and windows.  The state of one process, of one limiter and of one *)
(* buffer is described by predicates on those values; a step lemma says     *)
(* what the values of the process that moves become, and general lemmas     *)
(* carry the predicates of every other process over the step.               *)
(***************************************************************************)
EXTENDS WindowCounter, TLAPS

(* The snapshots a process has not finished with.                           *)
Held(r) == r.jobs \cup ({r.job} \ {None})

Flushing == {"flushNext", "evalSent", "evalDone"}

(* Every snapshot is one the buffer knows of: its window is in the map and  *)
(* flushDelta is its amount, which localDelta still contains.               *)
Backed(r, win) ==
  \A j \in Held(r) :
    /\ win[j.window] # None /\ 0 < j.delta
    /\ win[j.window].flush = j.delta /\ j.delta <= win[j.window].delta

(* No process holds two snapshots of one window.                            *)
Single(r) == /\ r.job \notin r.jobs
             /\ \A j, k \in Held(r) : j.window = k.window => j = k

(* Snapshots exist only inside flushPendingLocked, one of them on its way   *)
(* while l.mu is dropped.                                                   *)
Stage(at, r) ==
  /\ at \notin Flushing => r.jobs = {}
  /\ at \in {"evalSent", "evalDone"} <=> r.job # None

FlightOK(at, r, win) == Stage(at, r) /\ Backed(r, win) /\ Single(r)

(* Two processes hold no snapshot of the same window.                       *)
Apart(r, s) == \A j \in Held(r), k \in Held(s) : j.window # k.window

FlightsOK ==
  /\ \A p \in Procs : FlightOK(pc[p], reg[p], Of(p).windows)
  /\ \A p, q \in Procs : p # q /\ LimiterOf[p] = LimiterOf[q] => Apart(reg[p], reg[q])

(* A call past its first lookup: the buffer it will count in is in the map  *)
(* unless a flush took it out, and it has a window before its own.          *)
Counting == {"previous", "getPrevious", "gotPrevious", "count"}
CallOK(at, r, win) ==
  /\ at # "idle" => r.win > 0
  /\ at \in Counting /\ r.held = "mapped" => win[r.win] # None

(* A call that was warned still finds the error: lastFlushErr stays until a *)
(* flush succeeds, and past the last look at it no warned call is left.     *)
Told(at, warn, err) ==
  /\ warn => err
  /\ at \in {"ok", "getProbe", "gotProbe"} => ~warn

CallsOK ==
  /\ clock > 0
  /\ \A c \in Calls : CallOK(pc[c], reg[c], Of(c).windows)
ToldOK == \A c \in Calls : Told(pc[c], warned[c], Of(c).lastErr)

(* The timers of a limiter that are armed or ticking.                       *)
Busy(l) == {k \in Timers : LimiterOf[k] = l /\ pc[k] # "free"}

TimersOK ==
  /\ \A l \in Limiters : lim[l].flushTimer # None => LimiterOf[lim[l].flushTimer] = l
  /\ \A o \in Owners : pc[o] = "stopTimer" =>
       reg[o].ref \in Timers /\ LimiterOf[reg[o].ref] = LimiterOf[o]
  /\ \A l \in Limiters : IsFiniteSet(Busy(l)) /\ lim[l].flushBusy = Cardinality(Busy(l))
  /\ StoppedIsQuiet

IndInv == TypeOK /\ FlightsOK /\ CallsOK /\ ToldOK /\ TimersOK

-----------------------------------------------------------------------------
(* Values.                                                                  *)

LEMMA Shape ==
  /\ LimiterOf \in [Procs -> Limiters] /\ Peeks \subseteq Calls
  /\ Calls \subseteq Procs /\ Owners \subseteq Procs /\ Timers \subseteq Procs
  /\ Calls \cap Owners = {} /\ Calls \cap Timers = {} /\ Owners \cap Timers = {}
  /\ None \notin Procs /\ None \notin Buffer /\ None \notin Job
  /\ MaxClock \in Nat \ {0} /\ MaxFaults \in Nat /\ Uses \in [Owners -> Nat]
  BY CounterAssumption, NilAssumption, Zenon DEF Procs

LEMMA WindowFacts ==
  /\ \A w \in Windows : w \in Nat /\ w + 2 \in Nat /\ (w > 0 => w - 1 \in Windows)
  /\ 0 \in Windows /\ 1 \in Windows
  BY Shape DEF Windows

LEMMA MaxOfTwo ==
  ASSUME NEW a \in Nat, NEW b \in Nat
  PROVE  Max({a, b}) \in Nat
<1>1. \E x \in {a, b} : \A y \in {a, b} : x >= y
  <2>1. a >= b \/ b >= a
    OBVIOUS
  <2> QED
    BY <2>1
<1>2. Max({a, b}) \in {a, b}
  BY <1>1, Zenon DEF Max
<1> QED
  BY <1>2, Zenon

(* GETs and the clock leave what was counted and what is in flight alone.   *)
LEMMA RaisedBuffer ==
  ASSUME NEW b \in Buffer, NEW at \in Nat
  PROVE  /\ Raised(b, at) \in Buffer
         /\ Raised(b, at).delta = b.delta /\ Raised(b, at).flush = b.flush
<1>1. Max({b.expireAt, at}) \in Nat
  BY MaxOfTwo DEF Buffer
<1> DEFINE m == Max({b.expireAt, at})
<1>2. Raised(b, at) = [b EXCEPT !.expireAt = m]
  BY Zenon DEF Raised
<1> HIDE DEF m
<1>3. m \in Nat
  BY <1>1, Zenon DEF m
<1> QED
  BY <1>2, <1>3, Zenon DEF Buffer

LEMMA SeededBuffer ==
  ASSUME NEW b \in Buffer \cup {None}, NEW n \in Nat, NEW at \in Nat
  PROVE  /\ Seeded(b, n, at) \in Buffer
         /\ b # None => Seeded(b, n, at).delta = b.delta /\ Seeded(b, n, at).flush = b.flush
<1>1. CASE b = None
  <2>1. 0 \in Nat
    OBVIOUS
  <2> QED
    BY <1>1, <2>1, Zenon DEF Seeded, Buffer
<1>2. CASE b # None
  <2> DEFINE d == Raised(b, at)
             k == IF b.delta = 0 THEN n ELSE d.known
  <2>1. b \in Buffer
    BY <1>2, Zenon
  <2>2. d \in Buffer /\ d.delta = b.delta /\ d.flush = b.flush
    BY <2>1, RaisedBuffer, Zenon
  <2>3. Seeded(b, n, at) = [d EXCEPT !.known = k]
    BY <1>2, Zenon DEF Seeded
  <2> HIDE DEF d
  <2>4. k \in Nat
    BY <2>2, Zenon DEF Buffer
  <2> HIDE DEF k
  <2> QED
    BY <2>2, <2>3, <2>4, Zenon DEF Buffer
<1> QED
  BY <1>1, <1>2, Zenon

LEMMA HitBuffer ==
  ASSUME NEW b \in Buffer
  PROVE  LET d == [b EXCEPT !.delta = @ + 1]
         IN  d \in Buffer /\ d.delta = b.delta + 1 /\ d.flush = b.flush
<1>1. b.delta + 1 \in Nat
  BY DEF Buffer
<1> QED
  BY <1>1, Zenon DEF Buffer

(* A reply takes the snapshot off, and only the snapshot.                   *)
LEMMA FlushedBuffer ==
  ASSUME NEW b \in Buffer, NEW n \in Nat, NEW d \in Nat, d <= b.delta
  PROVE  Flushed(b, n, d) \in Buffer /\ Unflushed(b) \in Buffer
<1>1. b.delta - d \in Nat /\ 0 \in Nat
  BY DEF Buffer
<1>2. Flushed(b, n, d) \in Buffer
  BY <1>1, Zenon DEF Flushed, Buffer
<1>3. Unflushed(b) \in Buffer
  BY <1>1, Zenon DEF Unflushed, Buffer
<1> QED
  BY <1>2, <1>3, Zenon

-----------------------------------------------------------------------------
(* Buffers from one step to the next.                                       *)

Buffers == [Windows -> Buffer \cup {None}]

(* No window leaves the map.                                                *)
Keeps(old, new) == \A w \in Windows : old[w] # None => new[w] # None

(* A window with a snapshot in flight stays, with the snapshot in it.       *)
Guards(old, new) ==
  \A w \in Windows : old[w] # None /\ old[w].flush > 0 =>
    new[w] # None /\ new[w].flush = old[w].flush /\ new[w].delta >= old[w].delta

LEMMA HeldJobs ==
  ASSUME NEW r \in Locals
  PROVE  Held(r) \subseteq Job /\ \A j \in Held(r) : j.window \in Windows /\ j.delta \in Nat
<1>1. Held(r) \subseteq Job
  BY Zenon DEF Held, Locals
<1> QED
  BY <1>1, Zenon DEF Job

LEMMA BackedKept ==
  ASSUME NEW old \in Buffers, NEW new \in Buffers, Guards(old, new),
         NEW r \in Locals, Backed(r, old), NEW x, Held(x) \subseteq Held(r)
  PROVE  Backed(x, new)
<1> SUFFICES ASSUME NEW j \in Held(x)
             PROVE  /\ new[j.window] # None /\ 0 < j.delta
                    /\ new[j.window].flush = j.delta /\ j.delta <= new[j.window].delta
  BY Zenon DEF Backed
<1>1. j \in Held(r) /\ j.window \in Windows /\ j.delta \in Nat
  BY HeldJobs, Zenon
<1> DEFINE b == old[j.window]
           d == new[j.window]
<1>2. b # None /\ 0 < j.delta /\ b.flush = j.delta /\ j.delta <= b.delta
  BY <1>1, Zenon DEF Backed
<1>3. b \in Buffer
  BY <1>1, <1>2, Zenon DEF Buffers
<1>4. b.flush > 0
  BY <1>1, <1>2
<1>5. d # None /\ d.flush = b.flush /\ d.delta >= b.delta
  BY <1>1, <1>2, <1>4, Zenon DEF Guards
<1>6. d \in Buffer
  BY <1>1, <1>5, Zenon DEF Buffers
<1> HIDE DEF b, d
<1>7. j.delta <= d.delta
  BY <1>1, <1>2, <1>3, <1>5, <1>6 DEF Buffer
<1> QED
  BY <1>2, <1>5, <1>7, Zenon DEF b, d

(* One window is written, with an amount in flight unchanged.               *)
LEMMA OneWindow ==
  ASSUME NEW old \in Buffers, NEW w \in Windows, NEW d \in Buffer \cup {None},
         old[w] # None => d # None /\ d.flush = old[w].flush /\ d.delta >= old[w].delta,
         NEW new, new = [old EXCEPT ![w] = d]
  PROVE  new \in Buffers /\ Keeps(old, new) /\ Guards(old, new)
<1>1. new \in Buffers
  BY Zenon DEF Buffers
<1>2. \A v \in Windows : v # w => new[v] = old[v]
  BY Zenon DEF Buffers
<1>3. new[w] = d
  BY Zenon DEF Buffers
<1>4. Keeps(old, new)
  BY <1>2, <1>3, Zenon DEF Keeps
<1>5. \A v \in Windows : old[v] # None => old[v].delta >= old[v].delta
  <2>1. SUFFICES ASSUME NEW v \in Windows, old[v] # None PROVE old[v].delta \in Nat
    BY <2>1
  <2>2. old[v] \in Buffer
    BY <2>1, Zenon DEF Buffers
  <2> QED
    BY <2>2, Zenon DEF Buffer
<1>6. Guards(old, new)
  BY <1>2, <1>3, <1>5, Zenon DEF Guards
<1> QED
  BY <1>1, <1>4, <1>6, Zenon

LEMMA SameWindows ==
  ASSUME NEW old \in Buffers
  PROVE  Keeps(old, old) /\ Guards(old, old)
<1>1. \A v \in Windows : old[v] # None => old[v].delta >= old[v].delta
  <2>1. SUFFICES ASSUME NEW v \in Windows, old[v] # None PROVE old[v].delta \in Nat
    BY <2>1
  <2>2. old[v] \in Buffer
    BY <2>1, Zenon DEF Buffers
  <2> QED
    BY <2>2, Zenon DEF Buffer
<1> QED
  BY <1>1, Zenon DEF Keeps, Guards

-----------------------------------------------------------------------------
(* Carrying the invariant over a step.                                      *)

LEMMA Types ==
  ASSUME TypeOK
  PROVE  /\ \A l \in Limiters : /\ lim[l] \in Limiter /\ lim[l].windows \in Buffers
                                /\ lim[l].flushTimer \in Timers \cup {None}
                                /\ lim[l].flushBusy \in Nat /\ lim[l].lastErr \in BOOLEAN
         /\ \A p \in Procs : /\ LimiterOf[p] \in Limiters /\ reg[p] \in Locals
                             /\ pc[p] \in Pcs
         /\ \A p \in Procs : Of(p) \in Limiter /\ Of(p).windows \in Buffers
<1>1. \A r \in Limiter : /\ r.windows \in Buffers /\ r.flushTimer \in Timers \cup {None}
                         /\ r.flushBusy \in Nat /\ r.lastErr \in BOOLEAN
  BY Zenon DEF Limiter, Buffers
<1>2. \A l \in Limiters : lim[l] \in Limiter
  BY Zenon DEF TypeOK
<1>3. \A p \in Procs : LimiterOf[p] \in Limiters /\ reg[p] \in Locals /\ pc[p] \in Pcs
  BY Shape, Zenon DEF TypeOK
<1> QED
  BY <1>1, <1>2, <1>3, Zenon DEF Of

LEMMA TypesNext ==
  ASSUME TypeOK'
  PROVE  /\ \A l \in Limiters : lim'[l] \in Limiter /\ lim'[l].windows \in Buffers
         /\ \A p \in Procs : reg'[p] \in Locals /\ pc'[p] \in Pcs
<1>1. \A r \in Limiter : r.windows \in Buffers
  BY Zenon DEF Limiter, Buffers
<1>2. \A l \in Limiters : lim'[l] \in Limiter
  BY Zenon DEF TypeOK
<1>3. \A p \in Procs : reg'[p] \in Locals /\ pc'[p] \in Pcs
  BY Zenon DEF TypeOK
<1> QED
  BY <1>1, <1>2, <1>3, Zenon

LEMMA SingleKept ==
  ASSUME NEW r, NEW x, Single(r), Held(x) \subseteq Held(r), x.job \notin x.jobs
  PROVE  Single(x)
  BY Zenon DEF Single

LEMMA ApartKept ==
  ASSUME NEW r, NEW s, NEW x, NEW y, Apart(r, s), Held(x) \subseteq Held(r), Held(y) \subseteq Held(s)
  PROVE  Apart(x, y)
  BY Zenon DEF Apart

(* No process takes a snapshot, and the buffers keep those in flight.       *)
LEMMA FlightsKept ==
  ASSUME TypeOK, TypeOK', FlightsOK,
         \A p \in Procs : /\ Held(reg'[p]) \subseteq Held(reg[p])
                          /\ Stage(pc'[p], reg'[p]) /\ reg'[p].job \notin reg'[p].jobs,
         \A l \in Limiters : Guards(lim[l].windows, lim'[l].windows)
  PROVE  FlightsOK'
<1>1. ASSUME NEW p \in Procs
      PROVE  FlightOK(pc'[p], reg'[p], lim'[LimiterOf[p]].windows)
  <2> DEFINE l == LimiterOf[p]
  <2>1. l \in Limiters /\ lim[l].windows \in Buffers /\ reg[p] \in Locals
    BY Types, Zenon
  <2>2. lim'[l].windows \in Buffers
    BY <2>1, TypesNext, Zenon
  <2>3. Backed(reg[p], lim[l].windows) /\ Single(reg[p])
    BY Zenon DEF FlightsOK, FlightOK, Of
  <2>4. Guards(lim[l].windows, lim'[l].windows)
    BY <2>1, Zenon
  <2>5. Held(reg'[p]) \subseteq Held(reg[p])
    BY Zenon
  <2>6. Backed(reg'[p], lim'[l].windows)
    BY <2>1, <2>2, <2>3, <2>4, <2>5, BackedKept, Zenon
  <2>7. Single(reg'[p])
    BY <2>3, <2>5, SingleKept, Zenon
  <2> QED
    BY <2>6, <2>7, Zenon DEF FlightOK
<1>2. ASSUME NEW p \in Procs, NEW q \in Procs, p # q, LimiterOf[p] = LimiterOf[q]
      PROVE  Apart(reg'[p], reg'[q])
  <2>1. Apart(reg[p], reg[q])
    BY <1>2, Zenon DEF FlightsOK
  <2>2. Held(reg'[p]) \subseteq Held(reg[p]) /\ Held(reg'[q]) \subseteq Held(reg[q])
    BY Zenon
  <2> QED
    BY <2>1, <2>2, ApartKept, Zenon
<1> QED
  BY <1>1, <1>2, Zenon DEF FlightsOK, Of

LEMMA CallKept ==
  ASSUME NEW old, NEW new, Keeps(old, new), NEW r \in Locals, NEW at, CallOK(at, r, old)
  PROVE  CallOK(at, r, new)
<1>1. r.win \in Windows
  BY Zenon DEF Locals
<1> QED
  BY <1>1, Zenon DEF CallOK, Keeps

(* A call stands where it was and its buffer stays, or it moves on well.    *)
LEMMA CallsKept ==
  ASSUME TypeOK, CallsOK, clock' = clock,
         \A c \in Calls : \/ CallOK(pc'[c], reg'[c], lim'[LimiterOf[c]].windows)
                          \/ /\ pc'[c] = pc[c] /\ reg'[c] = reg[c]
                             /\ Keeps(lim[LimiterOf[c]].windows, lim'[LimiterOf[c]].windows)
  PROVE  CallsOK'
<1>1. ASSUME NEW c \in Calls PROVE CallOK(pc'[c], reg'[c], lim'[LimiterOf[c]].windows)
  <2>1. reg[c] \in Locals
    BY Types, Shape, Zenon
  <2>2. CallOK(pc[c], reg[c], lim[LimiterOf[c]].windows)
    BY Zenon DEF CallsOK, Of
  <2>3. CASE /\ pc'[c] = pc[c] /\ reg'[c] = reg[c]
             /\ Keeps(lim[LimiterOf[c]].windows, lim'[LimiterOf[c]].windows)
    <3>0. Keeps(lim[LimiterOf[c]].windows, lim'[LimiterOf[c]].windows)
      BY <2>3, Zenon
    <3>1. CallOK(pc[c], reg[c], lim'[LimiterOf[c]].windows)
      BY <2>1, <2>2, <3>0, CallKept, ZenonT(60)
    <3> QED
      BY <2>3, <3>1, Zenon
  <2> QED
    BY <2>3, Zenon
<1>2. clock' > 0
  BY Zenon DEF CallsOK
<1> QED
  BY <1>1, <1>2, Zenon DEF CallsOK, Of

LEMMA ToldKept ==
  ASSUME ToldOK,
         \A c \in Calls : \/ Told(pc'[c], warned'[c], lim'[LimiterOf[c]].lastErr)
                          \/ /\ pc'[c] = pc[c] /\ warned'[c] = warned[c]
                             /\ lim[LimiterOf[c]].lastErr => lim'[LimiterOf[c]].lastErr
  PROVE  ToldOK'
<1>1. ASSUME NEW c \in Calls PROVE Told(pc'[c], warned'[c], lim'[LimiterOf[c]].lastErr)
  BY Zenon DEF ToldOK, Told, Of
<1> QED
  BY <1>1, Zenon DEF ToldOK, Of

Stopping == {"stopTimer", "wait"}

(* No timer is armed or given up, no Sleep or Close moves on.               *)
LEMMA TimersKept ==
  ASSUME TimersOK,
         \A l \in Limiters : /\ lim'[l].flushTimer = lim[l].flushTimer
                             /\ lim'[l].flushBusy = lim[l].flushBusy,
         \A p \in Procs : /\ pc'[p] = "free" <=> pc[p] = "free"
                          /\ pc'[p] \in Stopping <=> pc[p] \in Stopping
                          /\ pc'[p] = "stopTimer" => pc[p] = "stopTimer" /\ reg'[p].ref = reg[p].ref
  PROVE  TimersOK'
<1>1. \A l \in Limiters : Busy(l)' = Busy(l)
  BY Shape, Zenon DEF Busy
<1>2. \A l \in Limiters : lim'[l].flushTimer # None => LimiterOf[lim'[l].flushTimer] = l
  BY Zenon DEF TimersOK
<1>3. \A o \in Owners : pc'[o] = "stopTimer" =>
        reg'[o].ref \in Timers /\ LimiterOf[reg'[o].ref] = LimiterOf[o]
  BY Shape, Zenon DEF TimersOK
<1>4. \A l \in Limiters : IsFiniteSet(Busy(l)') /\ lim'[l].flushBusy = Cardinality(Busy(l)')
  BY <1>1, Zenon DEF TimersOK
<1>5. StoppedIsQuiet'
  <2> SUFFICES ASSUME NEW k \in Timers, pc'[k] # "free"
               PROVE  \/ lim'[LimiterOf[k]].flushTimer # None
                      \/ \E o \in Owners : LimiterOf[o] = LimiterOf[k] /\ pc'[o] \in Stopping
    BY Zenon DEF StoppedIsQuiet, Of, Stopping
  <2>1. k \in Procs /\ LimiterOf[k] \in Limiters
    BY Shape, Zenon
  <2>2. pc[k] # "free"
    BY <2>1, Zenon
  <2>3. \/ lim[LimiterOf[k]].flushTimer # None
        \/ \E o \in Owners : LimiterOf[o] = LimiterOf[k] /\ pc[o] \in Stopping
    BY <2>2, Zenon DEF TimersOK, StoppedIsQuiet, Of, Stopping
  <2>4. \A o \in Owners : pc'[o] \in Stopping <=> pc[o] \in Stopping
    BY Shape, Zenon
  <2> QED
    BY <2>1, <2>3, <2>4, Zenon
<1> QED
  BY <1>2, <1>3, <1>4, <1>5, Zenon DEF TimersOK

(* What an ordinary step does to its limiter and to the process.            *)
LimStep(old, r) ==
  /\ r \in Limiter
  /\ Keeps(old.windows, r.windows) /\ Guards(old.windows, r.windows)
  /\ old.lastErr => r.lastErr
  /\ r.flushTimer = old.flushTimer /\ r.flushBusy = old.flushBusy

Move(at, r, s, x) ==
  /\ x \in Locals /\ s \in Pcs
  /\ Held(x) \subseteq Held(r) /\ Stage(s, x) /\ x.job \notin x.jobs
  /\ s = "free" <=> at = "free"
  /\ s \in Stopping <=> at \in Stopping
  /\ s = "stopTimer" => at = "stopTimer" /\ x.ref = r.ref

(* The rest of the state keeps its types, and the clock stands.             *)
Rest ==
  /\ clock' = clock /\ faults' \in 0 .. MaxFaults
  /\ redis' \in [Windows -> [count : Nat, expireAt : Nat]]
  /\ uses' \in [Owners -> Nat]
  /\ taken' \in [Limiters -> [Windows -> Nat]]
  /\ warned' \in [Calls -> BOOLEAN]

LEMMA StepTypes ==
  ASSUME TypeOK, Rest, NEW p \in Procs, NEW l \in Limiters,
         NEW r \in Limiter, NEW x \in Locals, NEW s \in Pcs,
         lim' = [lim EXCEPT ![l] = r], reg' = [reg EXCEPT ![p] = x], pc' = [pc EXCEPT ![p] = s]
  PROVE  TypeOK'
<1>1. lim' \in [Limiters -> Limiter] /\ reg' \in [Procs -> Locals] /\ pc' \in [Procs -> Pcs]
  BY Zenon DEF TypeOK
<1> QED
  BY <1>1, Zenon DEF TypeOK, Rest

(* An ordinary step of p keeps the invariant.                               *)
LEMMA ProcStep ==
  ASSUME IndInv, Rest, NEW p \in Procs, NEW l, l = LimiterOf[p], NEW r, NEW x, NEW s,
         lim' = [lim EXCEPT ![l] = r], reg' = [reg EXCEPT ![p] = x], pc' = [pc EXCEPT ![p] = s],
         LimStep(lim[l], r), Move(pc[p], reg[p], s, x),
         p \in Calls => CallOK(s, x, r.windows) /\ Told(s, warned'[p], r.lastErr),
         \A c \in Calls : c # p => warned'[c] = warned[c]
  PROVE  IndInv'
<1>1. TypeOK /\ FlightsOK /\ CallsOK /\ ToldOK /\ TimersOK /\ l \in Limiters
  BY Types, Zenon DEF IndInv
<1>2. r \in Limiter /\ x \in Locals /\ s \in Pcs
  BY Zenon DEF LimStep, Move
<1>3. TypeOK'
  BY <1>1, <1>2, StepTypes, Zenon
<1>4. /\ lim'[l] = r /\ \A k \in Limiters : k # l => lim'[k] = lim[k]
      /\ reg'[p] = x /\ \A q \in Procs : q # p => reg'[q] = reg[q]
      /\ pc'[p] = s /\ \A q \in Procs : q # p => pc'[q] = pc[q]
  BY <1>1, Zenon DEF TypeOK
<1>5. \A k \in Limiters : /\ Keeps(lim[k].windows, lim'[k].windows)
                          /\ Guards(lim[k].windows, lim'[k].windows)
                          /\ lim[k].lastErr => lim'[k].lastErr
                          /\ lim'[k].flushTimer = lim[k].flushTimer
                          /\ lim'[k].flushBusy = lim[k].flushBusy
  <2> TAKE k \in Limiters
  <2>1. CASE k = l
    BY <1>4, <2>1, Zenon DEF LimStep
  <2>2. CASE k # l
    BY <1>1, <1>4, <2>2, Types, SameWindows, Zenon
  <2> QED
    BY <2>1, <2>2, Zenon
<1>6. FlightsOK'
  <2>1. \A q \in Procs : Stage(pc[q], reg[q]) /\ reg[q].job \notin reg[q].jobs
    BY <1>1, Zenon DEF FlightsOK, FlightOK, Single
  <2>2. \A q \in Procs : /\ Held(reg'[q]) \subseteq Held(reg[q])
                         /\ Stage(pc'[q], reg'[q]) /\ reg'[q].job \notin reg'[q].jobs
    BY <1>4, <2>1, ZenonT(60) DEF Move
  <2>3. \A k \in Limiters : Guards(lim[k].windows, lim'[k].windows)
    BY <1>5, Zenon
  <2> QED
    BY <1>1, <1>3, <2>2, <2>3, FlightsKept, Zenon
<1>7. CallsOK'
  <2>1. \A c \in Calls : \/ CallOK(pc'[c], reg'[c], lim'[LimiterOf[c]].windows)
                         \/ /\ pc'[c] = pc[c] /\ reg'[c] = reg[c]
                            /\ Keeps(lim[LimiterOf[c]].windows, lim'[LimiterOf[c]].windows)
    <3> TAKE c \in Calls
    <3>1. c \in Procs /\ LimiterOf[c] \in Limiters
      BY Shape, Types, <1>1, Zenon
    <3> QED
      BY <1>4, <1>5, <3>1, ZenonT(60)
  <2> QED
    BY <1>1, <2>1, CallsKept, Zenon DEF Rest
<1>8. ToldOK'
  <2>1. \A c \in Calls : \/ Told(pc'[c], warned'[c], lim'[LimiterOf[c]].lastErr)
                         \/ /\ pc'[c] = pc[c] /\ warned'[c] = warned[c]
                            /\ lim[LimiterOf[c]].lastErr => lim'[LimiterOf[c]].lastErr
    <3> TAKE c \in Calls
    <3>1. c \in Procs /\ LimiterOf[c] \in Limiters
      BY Shape, Types, <1>1, Zenon
    <3> QED
      <4>1. CASE c = p
        BY <1>4, <4>1, Zenon
      <4>2. CASE c # p
        BY <1>4, <1>5, <3>1, <4>2, Zenon
      <4> QED
        BY <4>1, <4>2, Zenon
  <2> QED
    BY <1>1, <2>1, ToldKept, Zenon
<1>9. TimersOK'
  <2>1. \A q \in Procs : /\ pc'[q] = "free" <=> pc[q] = "free"
                         /\ pc'[q] \in Stopping <=> pc[q] \in Stopping
                         /\ pc'[q] = "stopTimer" => pc[q] = "stopTimer" /\ reg'[q].ref = reg[q].ref
    <3> TAKE q \in Procs
    <3>1. CASE q = p
      BY <1>4, <3>1, Zenon DEF Move
    <3>2. CASE q # p
      BY <1>4, <3>2, Zenon
    <3> QED
      BY <3>1, <3>2, Zenon
  <2>2. \A k \in Limiters : /\ lim'[k].flushTimer = lim[k].flushTimer
                            /\ lim'[k].flushBusy = lim[k].flushBusy
    BY <1>5, Zenon
  <2> QED
    BY <1>1, <2>1, <2>2, TimersKept, Zenon
<1> QED
  BY <1>3, <1>6, <1>7, <1>8, <1>9, Zenon DEF IndInv

(* The places where a process holds no snapshot and stops no timer.         *)
Calm == Pcs \ (Flushing \cup Stopping \cup {"free"})

LEMMA CalmMove ==
  ASSUME NEW at \in Calm, NEW s \in Calm, NEW r, Stage(at, r), r.job \notin r.jobs,
         NEW x \in Locals, x.jobs = r.jobs, x.job = r.job
  PROVE  Move(at, r, s, x)
<1>1. r.jobs = {} /\ r.job = None
  BY Zenon DEF Stage, Calm, Flushing
<1>2. Held(x) = Held(r) /\ x.job \notin x.jobs /\ x.jobs = {} /\ x.job = None
  BY <1>1, Zenon DEF Held
<1>3. Stage(s, x)
  BY <1>2, Zenon DEF Stage, Calm, Flushing
<1>4. s \in Pcs /\ s # "free" /\ at # "free" /\ s \notin Stopping /\ at \notin Stopping /\ s # "stopTimer"
  BY Zenon DEF Calm, Stopping
<1> QED
  BY <1>2, <1>3, <1>4, Zenon DEF Move

LEMMA CalmPlaces ==
  /\ {"idle", "window", "getCurrent", "gotCurrent", "previous", "getPrevious", "gotPrevious",
      "count", "probe", "getProbe", "gotProbe", "ok", "error"} \subseteq Calm
  /\ {"flush", "rest", "stop", "unstop", "armed", "tickEnd"} \subseteq Calm
  BY Zenon DEF Calm, Pcs, Flushing, Stopping

(* What the invariant says of one process.                                  *)
LEMMA Locally ==
  ASSUME IndInv, NEW p \in Procs
  PROVE  /\ LimiterOf[p] \in Limiters /\ Of(p) \in Limiter /\ Of(p).windows \in Buffers
         /\ reg[p] \in Locals /\ pc[p] \in Pcs
         /\ Stage(pc[p], reg[p]) /\ reg[p].job \notin reg[p].jobs
         /\ Backed(reg[p], Of(p).windows) /\ Single(reg[p])
         /\ LimStep(Of(p), Of(p))
<1>1. TypeOK /\ FlightsOK
  BY Zenon DEF IndInv
<1>2. /\ LimiterOf[p] \in Limiters /\ Of(p) \in Limiter /\ Of(p).windows \in Buffers
      /\ reg[p] \in Locals /\ pc[p] \in Pcs
  BY <1>1, Types, Zenon
<1>3. /\ Stage(pc[p], reg[p]) /\ reg[p].job \notin reg[p].jobs
      /\ Backed(reg[p], Of(p).windows) /\ Single(reg[p])
  BY <1>1, Zenon DEF FlightsOK, FlightOK, Single
<1>4. LimStep(Of(p), Of(p))
  BY <1>2, SameWindows, Zenon DEF LimStep
<1> QED
  BY <1>2, <1>3, <1>4, Zenon

LEMMA OfCall ==
  ASSUME IndInv, NEW c \in Calls
  PROVE  /\ c \in Procs /\ CallOK(pc[c], reg[c], Of(c).windows)
         /\ warned[c] => Of(c).lastErr
         /\ Told(pc[c], warned[c], Of(c).lastErr)
  BY Shape, Zenon DEF IndInv, CallsOK, ToldOK, Told

LEMMA RestKept ==
  ASSUME TypeOK, UNCHANGED <<env, ghosts>>
  PROVE  Rest /\ warned' = warned
  BY Zenon DEF TypeOK, Rest, env, ghosts

LEMMA SameLim ==
  ASSUME TypeOK, UNCHANGED lim, NEW l \in Limiters
  PROVE  lim' = [lim EXCEPT ![l] = lim[l]]
  BY Zenon DEF TypeOK

LEMMA SameReg ==
  ASSUME TypeOK, UNCHANGED reg, NEW p \in Procs
  PROVE  reg' = [reg EXCEPT ![p] = reg[p]]
  BY Zenon DEF TypeOK

-----------------------------------------------------------------------------
(* Take and Peek.                                                           *)

LEMMA StartCallStep ==
  ASSUME IndInv, NEW c \in Calls, StartCall(c)
  PROVE  IndInv'
<1> DEFINE l == LimiterOf[c]
<1>1. /\ c \in Procs /\ TypeOK /\ clock > 0 /\ clock \in Windows
      /\ l \in Limiters /\ reg[c] \in Locals /\ Stage(pc[c], reg[c])
      /\ reg[c].job \notin reg[c].jobs /\ LimStep(lim[l], lim[l]) /\ (warned[c] => lim[l].lastErr)
  BY OfCall, Locally, Zenon DEF IndInv, CallsOK, TypeOK, Of
<1>2. PICK peek \in BOOLEAN :
           reg' = [reg EXCEPT ![c] = [reg[c] EXCEPT !.win = clock, !.peek = peek]]
  BY Zenon DEF StartCall
<1> DEFINE x == [reg[c] EXCEPT !.win = clock, !.peek = peek]
<1>3. x \in Locals /\ x.win = clock /\ x.jobs = reg[c].jobs /\ x.job = reg[c].job
  BY <1>1, Zenon DEF Locals
<1>4. reg' = [reg EXCEPT ![c] = x]
  BY <1>2, Zenon
<1> HIDE DEF x
<1>5. /\ pc[c] = "idle" /\ pc' = [pc EXCEPT ![c] = "window"] /\ UNCHANGED lim
      /\ UNCHANGED <<env, ghosts>>
  BY Zenon DEF StartCall, Goto
<1>6. Move(pc[c], reg[c], "window", x)
  BY <1>1, <1>3, <1>5, CalmMove, CalmPlaces, Zenon
<1>7. CallOK("window", x, lim[l].windows) /\ Told("window", warned[c], lim[l].lastErr)
  BY <1>1, <1>3, Zenon DEF CallOK, Counting, Told
<1>8. Rest /\ warned' = warned /\ lim' = [lim EXCEPT ![l] = lim[l]]
  BY <1>1, <1>5, RestKept, SameLim, Zenon
<1> HIDE DEF l
<1> QED
  BY <1>1, <1>4, <1>5, <1>6, <1>7, <1>8, ProcStep, Zenon DEF l

LEMMA CurrentWindowStep ==
  ASSUME IndInv, NEW c \in Calls, CurrentWindow(c)
  PROVE  IndInv'
<1> DEFINE l == LimiterOf[c]
           w == reg[c].win
           b == lim[l].windows[w]
           known == b # None /\ (reg[c].peek \/ b.delta # 0)
           d == IF b = None THEN b ELSE Raised(b, w + 2)
           m == IF known THEN c ELSE None
           v == [lim[l].windows EXCEPT ![w] = d]
           r == [lim[l] EXCEPT !.windows = v, !.mu = m]
           h == IF known /\ ~reg[c].peek THEN "mapped" ELSE "none"
           x == [reg[c] EXCEPT !.held = h]
           s == IF known THEN "previous" ELSE "getCurrent"
<1>1. /\ c \in Procs /\ TypeOK /\ l \in Limiters /\ lim[l] \in Limiter /\ lim[l].windows \in Buffers
      /\ reg[c] \in Locals /\ Stage(pc[c], reg[c]) /\ reg[c].job \notin reg[c].jobs
      /\ CallOK(pc[c], reg[c], lim[l].windows)
  BY OfCall, Locally, Zenon DEF IndInv, Of
<1>2. w \in Windows /\ w + 2 \in Nat
  BY <1>1, WindowFacts, Zenon DEF Locals
<1>3. /\ pc[c] = "window" /\ lim' = [lim EXCEPT ![l] = r] /\ reg' = [reg EXCEPT ![c] = x]
      /\ pc' = [pc EXCEPT ![c] = s] /\ warned' = [warned EXCEPT ![c] = lim[l].lastErr]
      /\ UNCHANGED <<env, uses, taken>>
  BY Zenon DEF CurrentWindow, Goto
<1>4. b \in Buffer \cup {None}
  BY <1>1, <1>2, Zenon DEF Buffers
<1>5. d \in Buffer \cup {None} /\ (b # None => d # None /\ d.flush = b.flush /\ d.delta >= b.delta)
  <2>1. CASE b = None
    BY <2>1, Zenon
  <2>2. CASE b # None
    <3>1. b \in Buffer /\ d = Raised(b, w + 2)
      BY <1>4, <2>2, Zenon
    <3>2. d \in Buffer /\ d.delta = b.delta /\ d.flush = b.flush
      BY <1>2, <3>1, RaisedBuffer, Zenon
    <3> HIDE DEF d, b
    <3>3. d.delta >= b.delta
      BY <3>1, <3>2 DEF Buffer
    <3>4. d # None
      BY <3>2, Shape, Zenon
    <3> QED
      BY <3>2, <3>3, <3>4, Zenon
  <2> QED
    BY <2>1, <2>2, Zenon
<1>6. v \in Buffers /\ Keeps(lim[l].windows, v) /\ Guards(lim[l].windows, v)
  <2> HIDE DEF d
  <2> QED
    BY <1>1, <1>2, <1>5, OneWindow, Zenon
<1>7. m \in Procs \cup {None} /\ h \in {"none", "mapped", "detached"} /\ s \in {"previous", "getCurrent"}
  BY <1>1, Zenon
<1>8. CallOK(s, x, v)
  <2>1. x.win = w /\ x.held = h
    BY <1>1, <1>7, Zenon DEF Locals
  <2>2. w > 0
    BY <1>1, <1>3, Zenon DEF CallOK
  <2>3. h = "mapped" => b # None
    BY Zenon
  <2>4. b # None => v[w] # None
    <3> HIDE DEF v
    <3> QED
      BY <1>2, <1>6, Zenon DEF Keeps
  <2> HIDE DEF x, v, h, b, s
  <2> QED
    BY <2>1, <2>2, <2>3, <2>4, Zenon DEF CallOK
<1> HIDE DEF known, d, m, v, h, s
<1>9. /\ r \in Limiter /\ r.windows = v /\ r.lastErr = lim[l].lastErr
      /\ r.flushTimer = lim[l].flushTimer /\ r.flushBusy = lim[l].flushBusy
  BY <1>1, <1>6, <1>7, Zenon DEF Limiter, Buffers
<1>10. x \in Locals /\ x.jobs = reg[c].jobs /\ x.job = reg[c].job
  BY <1>1, <1>7, Zenon DEF Locals
<1> HIDE DEF r, x
<1>11. LimStep(lim[l], r)
  BY <1>6, <1>9, Zenon DEF LimStep
<1>12. Move(pc[c], reg[c], s, x)
  <2>1. s \in Calm /\ pc[c] \in Calm
    BY <1>3, <1>7, CalmPlaces, Zenon
  <2> QED
    BY <1>1, <1>10, <2>1, CalmMove, Zenon
<1>13. Told(s, warned'[c], r.lastErr)
  <2>1. warned'[c] = lim[l].lastErr
    BY <1>1, <1>3, Zenon DEF TypeOK
  <2> QED
    BY <1>7, <1>9, <2>1, Zenon DEF Told
<1>14. Rest /\ \A q \in Calls : q # c => warned'[q] = warned[q]
  <2>1. lim[l].lastErr \in BOOLEAN
    BY <1>1, Zenon DEF Limiter
  <2>2. warned' \in [Calls -> BOOLEAN] /\ \A q \in Calls : q # c => warned'[q] = warned[q]
    BY <1>1, <1>3, <2>1, Zenon DEF TypeOK
  <2> QED
    BY <1>1, <1>3, <2>2, Zenon DEF Rest, TypeOK, env
<1>15. CallOK(s, x, r.windows)
  BY <1>8, <1>9, Zenon DEF x
<1> HIDE DEF l, w, b
<1> QED
  BY <1>1, <1>3, <1>11, <1>12, <1>13, <1>14, <1>15, ProcStep, Zenon DEF l

(* A Redis command comes back to a call.                                    *)
LEMMA GetStep ==
  ASSUME IndInv, NEW c \in Calls, GetRuns(c) \/ GetFails(c)
  PROVE  IndInv'
<1> DEFINE l == LimiterOf[c]
           s == Asking[pc[c]]
<1>1. /\ c \in Procs /\ TypeOK /\ l \in Limiters /\ reg[c] \in Locals /\ Stage(pc[c], reg[c])
      /\ reg[c].job \notin reg[c].jobs /\ LimStep(lim[l], lim[l])
      /\ CallOK(pc[c], reg[c], lim[l].windows) /\ Told(pc[c], warned[c], lim[l].lastErr)
  BY OfCall, Locally, Zenon DEF IndInv, Of
<1>2. /\ pc[c] \in {"getCurrent", "getPrevious", "getProbe"} /\ UNCHANGED lim
      /\ s \in {"gotCurrent", "gotPrevious", "gotProbe"}
      /\ s = "gotPrevious" => pc[c] = "getPrevious"
      /\ s = "gotProbe" => pc[c] = "getProbe"
      /\ pc' = [pc EXCEPT ![c] = s] /\ warned' = warned
  <2>1. /\ pc[c] \in DOMAIN Asking /\ UNCHANGED lim /\ warned' = warned
        /\ pc' = [pc EXCEPT ![c] = s]
    BY Zenon DEF GetRuns, GetFails, Goto, ghosts
  <2>2. /\ DOMAIN Asking = {"getCurrent", "getPrevious", "getProbe"}
        /\ Asking["getCurrent"] = "gotCurrent" /\ Asking["getPrevious"] = "gotPrevious"
        /\ Asking["getProbe"] = "gotProbe"
    BY DEF Asking
  <2>3. CASE pc[c] = "getCurrent"
    BY <2>1, <2>2, <2>3, Zenon
  <2>4. CASE pc[c] = "getPrevious"
    BY <2>1, <2>2, <2>4, Zenon
  <2>5. CASE pc[c] = "getProbe"
    BY <2>1, <2>2, <2>5, Zenon
  <2> QED
    BY <2>1, <2>2, <2>3, <2>4, <2>5, Zenon
<1>3. PICK n \in Nat \cup {Failed} : reg' = [reg EXCEPT ![c] = [reg[c] EXCEPT !.reply = n]]
  <2>1. CASE GetFails(c)
    BY <2>1, Zenon DEF GetFails
  <2>2. CASE GetRuns(c)
    <3>1. reg[c].win \in Windows /\ reg[c].win - 1 \in Windows
      BY <1>1, <1>2, WindowFacts, Zenon DEF CallOK, Locals
    <3>2. \A w \in Windows : redis[w].count \in Nat
      BY <1>1, Zenon DEF TypeOK
    <3>3. 0 \in Nat
      OBVIOUS
    <3> DEFINE n == IF pc[c] = "getProbe" THEN 0
                    ELSE redis[IF pc[c] = "getCurrent" THEN reg[c].win ELSE reg[c].win - 1].count
    <3>4. n \in Nat
      BY <3>1, <3>2, <3>3, Zenon
    <3>5. reg' = [reg EXCEPT ![c] = [reg[c] EXCEPT !.reply = n]]
      BY <2>2, Zenon DEF GetRuns
    <3> HIDE DEF n
    <3> QED
      BY <3>4, <3>5, Zenon
  <2> QED
    BY <2>1, <2>2, Zenon
<1> DEFINE x == [reg[c] EXCEPT !.reply = n]
<1>4. /\ x \in Locals /\ x.win = reg[c].win /\ x.held = reg[c].held
      /\ x.jobs = reg[c].jobs /\ x.job = reg[c].job
  BY <1>1, Zenon DEF Locals
<1>5. reg' = [reg EXCEPT ![c] = x]
  BY <1>3, Zenon
<1> HIDE DEF x, s
<1>6. Move(pc[c], reg[c], s, x)
  <2>1. s \in Calm /\ pc[c] \in Calm
    BY <1>2, CalmPlaces, Zenon
  <2> QED
    BY <1>1, <1>4, <2>1, CalmMove, Zenon
<1>7. CallOK(s, x, lim[l].windows)
  BY <1>1, <1>2, <1>4, Zenon DEF CallOK, Counting
<1>8. Told(s, warned[c], lim[l].lastErr)
  BY <1>1, <1>2, Zenon DEF Told
<1>9. lim' = [lim EXCEPT ![l] = lim[l]]
  BY <1>1, <1>2, SameLim, Zenon
<1>10. Rest
  <2>1. faults' \in 0 .. MaxFaults
    <3>1. faults \in 0 .. MaxFaults
      BY <1>1, Zenon DEF TypeOK
    <3>2. faults' = faults \/ (faults < MaxFaults /\ faults' = faults + 1)
      BY Zenon DEF GetRuns, GetFails, env
    <3> QED
      BY <3>1, <3>2, Shape
  <2> QED
    BY <1>1, <2>1, Zenon DEF GetRuns, GetFails, env, ghosts, TypeOK, Rest
<1> HIDE DEF l
<1> QED
  BY <1>1, <1>2, <1>5, <1>6, <1>7, <1>8, <1>9, <1>10, ProcStep, Zenon DEF l

LEMMA ApplyGetStep ==
  ASSUME IndInv, NEW c \in Calls, ApplyGet(c)
  PROVE  IndInv'
<1> DEFINE l == LimiterOf[c]
           current == pc[c] = "gotCurrent"
           w == IF current THEN reg[c].win ELSE reg[c].win - 1
           h == IF current /\ ~reg[c].peek THEN "mapped" ELSE reg[c].held
           x == [reg[c] EXCEPT !.held = h, !.reply = 0]
<1>1. /\ c \in Procs /\ TypeOK /\ l \in Limiters /\ lim[l] \in Limiter /\ lim[l].windows \in Buffers
      /\ reg[c] \in Locals /\ Stage(pc[c], reg[c]) /\ reg[c].job \notin reg[c].jobs
      /\ LimStep(lim[l], lim[l])
      /\ CallOK(pc[c], reg[c], lim[l].windows) /\ (warned[c] => lim[l].lastErr)
  BY OfCall, Locally, Zenon DEF IndInv, Of
<1>2. /\ pc[c] \in {"gotCurrent", "gotPrevious"} /\ UNCHANGED <<env, ghosts>>
      /\ reg' = [reg EXCEPT ![c] = x]
  BY Zenon DEF ApplyGet
<1>3. /\ reg[c].win \in Windows /\ reg[c].win > 0 /\ w \in Windows /\ w + 2 \in Nat
      /\ reg[c].reply \in Nat \cup {Failed} /\ reg[c].held \in {"none", "mapped", "detached"}
  BY <1>1, <1>2, WindowFacts, Zenon DEF CallOK, Locals
<1>4. h \in {"none", "mapped", "detached"} /\ 0 \in Nat
  BY <1>3, Zenon
<1>5. Rest /\ warned' = warned
  BY <1>1, <1>2, RestKept, Zenon
<1> DEFINE at == IF current THEN w + 2 ELSE 0
           d == Seeded(lim[l].windows[w], reg[c].reply, at)
           v == [lim[l].windows EXCEPT ![w] = d]
           r == [lim[l] EXCEPT !.windows = v, !.mu = c, !.fresh = TRUE]
           s == IF current THEN "previous" ELSE "count"
<1>a. /\ pc[c] = "gotPrevious" /\ h = "mapped" => lim[l].windows[reg[c].win] # None
      /\ pc[c] = "gotCurrent" => w = reg[c].win
  <2>1. pc[c] = "gotPrevious" => h = reg[c].held /\ pc[c] \in Counting
    BY Zenon DEF Counting
  <2> HIDE DEF h
  <2> QED
    BY <1>1, <2>1, Zenon DEF CallOK
<1> HIDE DEF h
<1>6. /\ x \in Locals /\ x.win = reg[c].win /\ x.held = h
      /\ x.jobs = reg[c].jobs /\ x.job = reg[c].job
  BY <1>1, <1>4, Zenon DEF Locals
<1> HIDE DEF x
<1>7. CASE /\ reg[c].reply = Failed /\ Goto(c, "error") /\ UNCHANGED lim
  <2>1. Move(pc[c], reg[c], "error", x)
    <3>1. "error" \in Calm /\ pc[c] \in Calm
      BY <1>2, CalmPlaces, Zenon
    <3> QED
      BY <1>1, <1>6, <3>1, CalmMove, Zenon
  <2>2. CallOK("error", x, lim[l].windows) /\ Told("error", warned[c], lim[l].lastErr)
    BY <1>1, <1>3, <1>6, Zenon DEF CallOK, Counting, Told
  <2>3. lim' = [lim EXCEPT ![l] = lim[l]] /\ pc' = [pc EXCEPT ![c] = "error"]
    BY <1>1, <1>7, SameLim, Zenon DEF Goto
  <2> HIDE DEF l, current, w
  <2> QED
    BY <1>1, <1>2, <1>5, <2>1, <2>2, <2>3, ProcStep, Zenon DEF l
<1>8. CASE reg[c].reply # Failed /\ lim' = [lim EXCEPT ![l] = r] /\ Goto(c, s)
  <2>1. reg[c].reply \in Nat /\ at \in Nat /\ lim[l].windows[w] \in Buffer \cup {None}
    BY <1>1, <1>3, <1>4, <1>8, Zenon DEF Buffers
  <2> HIDE DEF at
  <2>2. /\ d \in Buffer
        /\ lim[l].windows[w] # None =>
             d.delta = lim[l].windows[w].delta /\ d.flush = lim[l].windows[w].flush
    BY <2>1, SeededBuffer, Zenon
  <2> HIDE DEF d
  <2>3. /\ d \in Buffer \cup {None}
        /\ lim[l].windows[w] # None => /\ d # None /\ d.flush = lim[l].windows[w].flush
                                       /\ d.delta >= lim[l].windows[w].delta
    <3>1. d # None /\ d.delta \in Nat
      BY <2>2, Shape, Zenon DEF Buffer
    <3>2. d.delta >= d.delta
      BY <3>1
    <3> QED
      BY <2>2, <3>1, <3>2, Zenon
  <2>4. v \in Buffers /\ Keeps(lim[l].windows, v) /\ Guards(lim[l].windows, v)
    BY <1>1, <1>3, <2>3, OneWindow, Zenon
  <2>5. v[w] # None
    BY <1>1, <1>3, <2>2, Shape, Zenon DEF Buffers
  <2> HIDE DEF v
  <2>6. /\ r \in Limiter /\ r.windows = v /\ r.lastErr = lim[l].lastErr
        /\ r.flushTimer = lim[l].flushTimer /\ r.flushBusy = lim[l].flushBusy
    BY <1>1, <2>4, Zenon DEF Limiter, Buffers
  <2> HIDE DEF r
  <2>7. LimStep(lim[l], r)
    BY <2>4, <2>6, Zenon DEF LimStep
  <2>8. s \in {"previous", "count"} /\ s \in Calm /\ pc[c] \in Calm
    BY <1>2, CalmPlaces, Zenon
  <2>9. Move(pc[c], reg[c], s, x)
    <3> HIDE DEF s
    <3> QED
      BY <1>1, <1>6, <2>8, CalmMove, Zenon
  <2>10. h = "mapped" => v[reg[c].win] # None
    <3>1. CASE pc[c] = "gotCurrent"
      BY <1>a, <2>5, <3>1, Zenon
    <3>2. CASE pc[c] = "gotPrevious"
      BY <1>a, <1>3, <2>4, <3>2, Zenon DEF Keeps
    <3> QED
      BY <1>2, <3>1, <3>2, Zenon
  <2>11. CallOK(s, x, r.windows) /\ Told(s, warned[c], r.lastErr)
    <3> HIDE DEF s
    <3> QED
      BY <1>1, <1>3, <1>6, <2>6, <2>8, <2>10, Zenon DEF CallOK, Told
  <2>12. pc' = [pc EXCEPT ![c] = s]
    BY <1>8, Zenon DEF Goto
  <2> HIDE DEF l, w, s
  <2> QED
    BY <1>1, <1>2, <1>5, <1>8, <2>7, <2>9, <2>11, <2>12, ProcStep, Zenon DEF l
<1> QED
  BY <1>7, <1>8, Zenon DEF ApplyGet

LEMMA PreviousWindowStep ==
  ASSUME IndInv, NEW c \in Calls, PreviousWindow(c)
  PROVE  IndInv'
<1> DEFINE l == LimiterOf[c]
           known == Of(c).windows[reg[c].win - 1] # None
           m == IF known THEN c ELSE None
           r == [lim[l] EXCEPT !.mu = m]
           s == IF known THEN "count" ELSE "getPrevious"
<1>1. /\ c \in Procs /\ TypeOK /\ l \in Limiters /\ lim[l] \in Limiter /\ lim[l].windows \in Buffers
      /\ reg[c] \in Locals /\ Stage(pc[c], reg[c]) /\ reg[c].job \notin reg[c].jobs
      /\ CallOK(pc[c], reg[c], lim[l].windows) /\ (warned[c] => lim[l].lastErr)
  BY OfCall, Locally, Zenon DEF IndInv, Of
<1>2. /\ pc[c] = "previous" /\ lim' = [lim EXCEPT ![l] = r] /\ pc' = [pc EXCEPT ![c] = s]
      /\ UNCHANGED reg /\ UNCHANGED <<env, ghosts>>
  BY Zenon DEF PreviousWindow, Goto
<1>3. m \in Procs \cup {None} /\ s \in {"count", "getPrevious"}
  BY <1>1, Zenon
<1> HIDE DEF m, s
<1>4. /\ r \in Limiter /\ r.windows = lim[l].windows /\ r.lastErr = lim[l].lastErr
      /\ r.flushTimer = lim[l].flushTimer /\ r.flushBusy = lim[l].flushBusy
  BY <1>1, <1>3, Zenon DEF Limiter
<1> HIDE DEF r
<1>5. LimStep(lim[l], r)
  BY <1>1, <1>4, SameWindows, Zenon DEF LimStep
<1>6. Move(pc[c], reg[c], s, reg[c])
  <2>1. s \in Calm /\ pc[c] \in Calm
    BY <1>2, <1>3, CalmPlaces, Zenon
  <2> QED
    BY <1>1, <2>1, CalmMove, Zenon
<1>7. CallOK(s, reg[c], r.windows) /\ Told(s, warned[c], r.lastErr)
  BY <1>1, <1>2, <1>3, <1>4, Zenon DEF CallOK, Counting, Told
<1>8. Rest /\ warned' = warned /\ reg' = [reg EXCEPT ![c] = reg[c]]
  BY <1>1, <1>2, RestKept, SameReg, Zenon
<1> HIDE DEF l
<1> QED
  BY <1>1, <1>2, <1>5, <1>6, <1>7, <1>8, ProcStep, Zenon DEF l

LEMMA CountHitStep ==
  ASSUME IndInv, NEW c \in Calls, CountHit(c)
  PROVE  IndInv'
<1> DEFINE l == LimiterOf[c]
           w == reg[c].win
           b == lim[l].windows[w]
           m == IF Outage(lim[l]) = "flush" THEN c ELSE None
           d == [b EXCEPT !.delta = b.delta + 1]
           v == [lim[l].windows EXCEPT ![w] = d]
           x == [reg[c] EXCEPT !.held = "none"]
           s == Outage(lim[l])
<1>1. /\ c \in Procs /\ TypeOK /\ l \in Limiters /\ lim[l] \in Limiter /\ lim[l].windows \in Buffers
      /\ reg[c] \in Locals /\ Stage(pc[c], reg[c]) /\ reg[c].job \notin reg[c].jobs
      /\ CallOK(pc[c], reg[c], lim[l].windows) /\ (warned[c] => lim[l].lastErr)
  BY OfCall, Locally, Zenon DEF IndInv, Of
<1>2. /\ pc[c] = "count" /\ reg' = [reg EXCEPT ![c] = x] /\ pc' = [pc EXCEPT ![c] = s]
      /\ UNCHANGED <<env, uses, warned>>
      /\ taken' = IF reg[c].peek THEN taken ELSE [taken EXCEPT ![l][w] = taken[l][w] + 1]
  BY Zenon DEF CountHit, Goto
<1>3. w \in Windows /\ w > 0
  BY <1>1, <1>2, Zenon DEF Locals, CallOK
<1>4. s \in {"error", "ok", "flush"} /\ (s = "ok" => ~lim[l].lastErr) /\ m \in Procs \cup {None}
  BY <1>1, Zenon DEF Outage
<1>5. PICK new : /\ new \in Buffers /\ Keeps(lim[l].windows, new) /\ Guards(lim[l].windows, new)
                 /\ lim' = [lim EXCEPT ![l] = [lim[l] EXCEPT !.windows = new, !.mu = m]]
  <2>1. CASE /\ ~reg[c].peek /\ reg[c].held = "mapped"
             /\ lim' = [lim EXCEPT ![l] = [lim[l] EXCEPT !.windows[w].delta = b.delta + 1, !.mu = m]]
    <3>1. b # None
      BY <1>1, <1>2, <2>1, Zenon DEF CallOK, Counting
    <3>2. b \in Buffer
      BY <1>1, <1>3, <3>1, Zenon DEF Buffers
    <3> HIDE DEF b
    <3>3. d \in Buffer /\ d.delta = b.delta + 1 /\ d.flush = b.flush /\ b.delta \in Nat
      BY <3>2, HitBuffer, Zenon DEF Buffer
    <3>4. d.delta >= b.delta
      BY <3>3
    <3> HIDE DEF d
    <3>5. d \in Buffer \cup {None} /\ d # None /\ d.flush = b.flush /\ d.delta >= b.delta
      BY <3>3, <3>4, Shape, Zenon
    <3>6. v \in Buffers /\ Keeps(lim[l].windows, v) /\ Guards(lim[l].windows, v)
      BY <1>1, <1>3, <3>5, OneWindow, Zenon DEF b
    <3>7. lim' = [lim EXCEPT ![l] = [lim[l] EXCEPT !.windows = v, !.mu = m]]
      BY <2>1, Zenon DEF d, b
    <3> HIDE DEF v
    <3> QED
      BY <3>6, <3>7, Zenon
  <2>2. CASE lim' = [lim EXCEPT ![l].mu = m]
    <3>1. [lim[l] EXCEPT !.windows = lim[l].windows, !.mu = m] = [lim[l] EXCEPT !.mu = m]
      BY <1>1, Zenon DEF Limiter
    <3>2. lim' = [lim EXCEPT ![l] = [lim[l] EXCEPT !.mu = m]]
      BY <2>2, Zenon
    <3> QED
      BY <1>1, <3>1, <3>2, SameWindows, Zenon
  <2> QED
    BY <2>1, <2>2, Zenon DEF CountHit
<1> DEFINE r == [lim[l] EXCEPT !.windows = new, !.mu = m]
<1> HIDE DEF m, s
<1>6. /\ r \in Limiter /\ r.windows = new /\ r.lastErr = lim[l].lastErr
      /\ r.flushTimer = lim[l].flushTimer /\ r.flushBusy = lim[l].flushBusy
  BY <1>1, <1>4, <1>5, Zenon DEF Limiter, Buffers
<1>7. lim' = [lim EXCEPT ![l] = r]
  BY <1>5, Zenon
<1>8. x \in Locals /\ x.win = w /\ x.jobs = reg[c].jobs /\ x.job = reg[c].job
  BY <1>1, Zenon DEF Locals
<1> HIDE DEF r, x
<1>9. LimStep(lim[l], r)
  BY <1>5, <1>6, Zenon DEF LimStep
<1>10. Move(pc[c], reg[c], s, x)
  <2>1. s \in Calm /\ pc[c] \in Calm
    BY <1>2, <1>4, CalmPlaces, Zenon
  <2> QED
    BY <1>1, <1>8, <2>1, CalmMove, Zenon
<1>11. CallOK(s, x, r.windows) /\ Told(s, warned[c], r.lastErr)
  BY <1>1, <1>3, <1>4, <1>6, <1>8, Zenon DEF CallOK, Counting, Told
<1>12. Rest
  <2>1. taken[l] \in [Windows -> Nat] /\ taken[l][w] \in Nat
    BY <1>1, <1>3, Zenon DEF TypeOK
  <2>2. taken[l][w] + 1 \in Nat
    BY <2>1
  <2>3. [taken EXCEPT ![l][w] = taken[l][w] + 1] \in [Limiters -> [Windows -> Nat]]
    <3>1. [taken[l] EXCEPT ![w] = taken[l][w] + 1] \in [Windows -> Nat]
      BY <2>1, <2>2, Zenon
    <3> QED
      BY <1>1, <3>1, Zenon DEF TypeOK
  <2>4. taken' \in [Limiters -> [Windows -> Nat]]
    BY <1>1, <1>2, <2>3, Zenon DEF TypeOK
  <2> QED
    BY <1>1, <1>2, <2>4, Zenon DEF Rest, TypeOK, env
<1> HIDE DEF l, w
<1> QED
  BY <1>1, <1>2, <1>7, <1>9, <1>10, <1>11, <1>12, ProcStep, Zenon DEF l

LEMMA ProbeStep ==
  ASSUME IndInv, NEW c \in Calls, Probe(c)
  PROVE  IndInv'
<1> DEFINE l == LimiterOf[c]
           s == IF reg[c].err \/ lim[l].lastErr THEN "error"
                ELSE IF lim[l].fresh \/ \A w \in Windows : lim[l].windows[w] = None THEN "ok"
                ELSE "getProbe"
           r == [lim[l] EXCEPT !.mu = None]
<1>1. /\ c \in Procs /\ TypeOK /\ l \in Limiters /\ lim[l] \in Limiter /\ lim[l].windows \in Buffers
      /\ reg[c] \in Locals /\ Stage(pc[c], reg[c]) /\ reg[c].job \notin reg[c].jobs
      /\ CallOK(pc[c], reg[c], lim[l].windows) /\ (warned[c] => lim[l].lastErr)
  BY OfCall, Locally, Zenon DEF IndInv, Of
<1>2. /\ pc[c] = "probe" /\ lim' = [lim EXCEPT ![l] = r] /\ pc' = [pc EXCEPT ![c] = s]
      /\ UNCHANGED reg /\ UNCHANGED <<env, ghosts>>
  BY Zenon DEF Probe, Goto, Of
<1>3. s \in {"error", "ok", "getProbe"} /\ (s # "error" => ~lim[l].lastErr)
  BY Zenon
<1> HIDE DEF s
<1>4. /\ r \in Limiter /\ r.windows = lim[l].windows /\ r.lastErr = lim[l].lastErr
      /\ r.flushTimer = lim[l].flushTimer /\ r.flushBusy = lim[l].flushBusy
  BY <1>1, Zenon DEF Limiter
<1> HIDE DEF r
<1>5. LimStep(lim[l], r)
  BY <1>1, <1>4, SameWindows, Zenon DEF LimStep
<1>6. Move(pc[c], reg[c], s, reg[c])
  <2>1. s \in Calm /\ pc[c] \in Calm
    BY <1>2, <1>3, CalmPlaces, Zenon
  <2> QED
    BY <1>1, <2>1, CalmMove, Zenon
<1>7. CallOK(s, reg[c], r.windows) /\ Told(s, warned[c], r.lastErr)
  <2>1. CallOK(s, reg[c], r.windows)
    BY <1>1, <1>2, <1>3, Zenon DEF CallOK, Counting
  <2>2. Told(s, warned[c], r.lastErr)
    BY <1>1, <1>3, <1>4, Zenon DEF Told
  <2> QED
    BY <2>1, <2>2, Zenon
<1>8. Rest /\ warned' = warned /\ reg' = [reg EXCEPT ![c] = reg[c]]
  BY <1>1, <1>2, RestKept, SameReg, Zenon
<1> HIDE DEF l
<1> QED
  BY <1>1, <1>2, <1>5, <1>6, <1>7, <1>8, ProcStep, Zenon DEF l

LEMMA ProbeReturnsStep ==
  ASSUME IndInv, NEW c \in Calls, ProbeReturns(c)
  PROVE  IndInv'
<1> DEFINE l == LimiterOf[c]
           failed == reg[c].reply = Failed
           e == lim[l].lastErr \/ failed
           f == lim[l].fresh \/ ~failed
           s == IF failed THEN "error" ELSE "ok"
           r == [lim[l] EXCEPT !.lastErr = e, !.fresh = f]
           x == [reg[c] EXCEPT !.reply = 0]
<1>1. /\ c \in Procs /\ TypeOK /\ l \in Limiters /\ lim[l] \in Limiter /\ lim[l].windows \in Buffers
      /\ reg[c] \in Locals /\ Stage(pc[c], reg[c]) /\ reg[c].job \notin reg[c].jobs
      /\ CallOK(pc[c], reg[c], lim[l].windows) /\ Told(pc[c], warned[c], lim[l].lastErr)
  BY OfCall, Locally, Zenon DEF IndInv, Of
<1>2. /\ pc[c] = "gotProbe" /\ lim' = [lim EXCEPT ![l] = r] /\ pc' = [pc EXCEPT ![c] = s]
      /\ reg' = [reg EXCEPT ![c] = x] /\ UNCHANGED <<env, ghosts>>
  BY Zenon DEF ProbeReturns, Goto, Of
<1>3. s \in {"error", "ok"} /\ e \in BOOLEAN /\ f \in BOOLEAN /\ (lim[l].lastErr => e) /\ 0 \in Nat
  BY Zenon
<1>4. ~warned[c]
  BY <1>1, <1>2, Zenon DEF Told
<1> HIDE DEF s, e, f
<1>5. /\ r \in Limiter /\ r.windows = lim[l].windows /\ r.lastErr = e
      /\ r.flushTimer = lim[l].flushTimer /\ r.flushBusy = lim[l].flushBusy
  BY <1>1, <1>3, Zenon DEF Limiter
<1>6. x \in Locals /\ x.win = reg[c].win /\ x.jobs = reg[c].jobs /\ x.job = reg[c].job
  BY <1>1, <1>3, Zenon DEF Locals
<1> HIDE DEF r, x
<1>7. LimStep(lim[l], r)
  BY <1>1, <1>3, <1>5, SameWindows, Zenon DEF LimStep
<1>8. Move(pc[c], reg[c], s, x)
  <2>1. s \in Calm /\ pc[c] \in Calm
    BY <1>2, <1>3, CalmPlaces, Zenon
  <2> QED
    BY <1>1, <1>6, <2>1, CalmMove, Zenon
<1>9. CallOK(s, x, r.windows) /\ Told(s, warned[c], r.lastErr)
  BY <1>1, <1>2, <1>3, <1>4, <1>6, Zenon DEF CallOK, Counting, Told
<1>10. Rest /\ warned' = warned
  BY <1>1, <1>2, RestKept, Zenon
<1> HIDE DEF l
<1> QED
  BY <1>1, <1>2, <1>7, <1>8, <1>9, <1>10, ProcStep, Zenon DEF l

-----------------------------------------------------------------------------
(* The flush.                                                               *)

(* A call inside its flush keeps what it knows of its window and the error. *)
LEMMA CallFlushes ==
  ASSUME IndInv, NEW p \in Calls, pc[p] # "idle",
         NEW s, s \notin Counting \cup {"ok", "getProbe", "gotProbe"},
         NEW x, x.win = reg[p].win, NEW win, NEW e, Of(p).lastErr => e
  PROVE  CallOK(s, x, win) /\ Told(s, warned[p], e)
<1>1. CallOK(pc[p], reg[p], Of(p).windows) /\ (warned[p] => Of(p).lastErr)
  BY OfCall, Zenon
<1>2. CallOK(s, x, win)
  BY <1>1, Zenon DEF CallOK
<1>3. Told(s, warned[p], e)
  BY <1>1, Zenon DEF Told
<1> QED
  BY <1>2, <1>3, Zenon

LEMMA FlushSendStep ==
  ASSUME IndInv, NEW p \in Procs, FlushSend(p)
  PROVE  IndInv'
<1> DEFINE l == LimiterOf[p]
           r == [lim[l] EXCEPT !.mu = None]
<1>1. /\ TypeOK /\ l \in Limiters /\ lim[l] \in Limiter /\ lim[l].windows \in Buffers
      /\ reg[p] \in Locals /\ Stage(pc[p], reg[p]) /\ reg[p].job \notin reg[p].jobs
  BY Locally, Zenon DEF IndInv, Of
<1>2. PICK j \in reg[p].jobs :
           reg' = [reg EXCEPT ![p] = [reg[p] EXCEPT !.jobs = reg[p].jobs \ {j}, !.job = j]]
  BY Zenon DEF FlushSend
<1> DEFINE x == [reg[p] EXCEPT !.jobs = reg[p].jobs \ {j}, !.job = j]
<1>3. /\ pc[p] = "flushNext" /\ lim' = [lim EXCEPT ![l] = r] /\ pc' = [pc EXCEPT ![p] = "evalSent"]
      /\ reg' = [reg EXCEPT ![p] = x] /\ UNCHANGED <<env, ghosts>>
  BY <1>2, Zenon DEF FlushSend, Goto
<1>4. j \in Job /\ j # None /\ reg[p].job = None /\ reg[p].jobs \in SUBSET Job
  BY <1>1, <1>3, Shape, Zenon DEF Locals, Stage
<1>5. reg[p].jobs \ {j} \in SUBSET Job
  BY <1>4, Zenon
<1>6. x \in Locals /\ x.win = reg[p].win /\ x.jobs = reg[p].jobs \ {j} /\ x.job = j
  BY <1>1, <1>4, <1>5, Zenon DEF Locals
<1>7. /\ r \in Limiter /\ r.windows = lim[l].windows /\ r.lastErr = lim[l].lastErr
      /\ r.flushTimer = lim[l].flushTimer /\ r.flushBusy = lim[l].flushBusy
  BY <1>1, Zenon DEF Limiter
<1> HIDE DEF r, x
<1>8. LimStep(lim[l], r)
  BY <1>1, <1>7, SameWindows, Zenon DEF LimStep
<1>9. Move(pc[p], reg[p], "evalSent", x)
  <2>1. Held(x) \subseteq Held(reg[p]) /\ x.job \notin x.jobs
    BY <1>2, <1>4, <1>6, Zenon DEF Held
  <2>2. Stage("evalSent", x)
    BY <1>4, <1>6, Zenon DEF Stage, Flushing
  <2> QED
    BY <1>3, <1>6, <2>1, <2>2, Zenon DEF Move, Pcs, Stopping
<1>10. Rest /\ warned' = warned
  BY <1>1, <1>3, RestKept, Zenon
<1>11. p \in Calls => CallOK("evalSent", x, r.windows) /\ Told("evalSent", warned[p], r.lastErr)
  BY <1>3, <1>6, <1>7, CallFlushes, Zenon DEF Counting, Of
<1> HIDE DEF l
<1> QED
  BY <1>1, <1>3, <1>8, <1>9, <1>10, <1>11, ProcStep, Zenon DEF l

LEMMA StoredTypes ==
  ASSUME clock \in Nat, NEW r \in [count : Nat, expireAt : Nat], NEW j \in Job
  PROVE  Stored(r, j) \in [count : Nat, expireAt : Nat]
<1> DEFINE s == IF r.count = 0 THEN [count |-> j.delta, expireAt |-> j.expireAt]
                ELSE [r EXCEPT !.count = r.count + j.delta]
<1>1. j.delta \in Nat /\ j.expireAt \in Nat /\ r.count \in Nat
  BY Zenon DEF Job
<1>2. r.count + j.delta \in Nat /\ 0 \in Nat
  BY <1>1
<1>3. s \in [count : Nat, expireAt : Nat]
  BY <1>1, <1>2, Zenon
<1>4. [count |-> 0, expireAt |-> 0] \in [count : Nat, expireAt : Nat]
  BY <1>2, Zenon
<1>5. Stored(r, j) = IF s.expireAt <= clock THEN [count |-> 0, expireAt |-> 0] ELSE s
  BY Zenon DEF Stored
<1> HIDE DEF s
<1> QED
  BY <1>3, <1>4, <1>5, Zenon

(* The server runs the EVAL, once, twice or not at all.                     *)
LEMMA EvalStep ==
  ASSUME IndInv, NEW p \in Procs, EvalRuns(p) \/ EvalFails(p)
  PROVE  IndInv'
<1> DEFINE l == LimiterOf[p]
           j == reg[p].job
           Key == [count : Nat, expireAt : Nat]
           once == Stored(redis[j.window], j)
<1>1. /\ TypeOK /\ l \in Limiters /\ reg[p] \in Locals /\ Stage(pc[p], reg[p])
      /\ reg[p].job \notin reg[p].jobs /\ LimStep(lim[l], lim[l])
  BY Locally, Zenon DEF IndInv, Of
<1>2. /\ pc[p] = "evalSent" /\ pc' = [pc EXCEPT ![p] = "evalDone"] /\ UNCHANGED lim
      /\ UNCHANGED clock /\ UNCHANGED ghosts
      /\ faults' = faults \/ (faults < MaxFaults /\ faults' = faults + 1)
  BY Zenon DEF EvalRuns, EvalFails, Goto
<1>3. j \in Job /\ j.window \in Windows /\ j.delta \in Nat
  BY <1>1, <1>2, Zenon DEF Stage, Locals, Job
<1>4. clock \in Nat
  BY <1>1, WindowFacts, Zenon DEF TypeOK
<1>5. redis[j.window] \in Key /\ once \in Key /\ Stored(once, j) \in Key
  <2>1. redis[j.window] \in Key
    BY <1>1, <1>3, Zenon DEF TypeOK
  <2>2. once \in Key
    BY <1>3, <1>4, <2>1, StoredTypes, Zenon
  <2> HIDE DEF once
  <2>3. Stored(once, j) \in Key
    BY <1>3, <1>4, <2>2, StoredTypes, Zenon
  <2> QED
    BY <2>1, <2>2, <2>3, Zenon
<1>6. redis[j.window].count + j.delta \in Nat /\ once.count + j.delta \in Nat
  <2> HIDE DEF once
  <2>1. redis[j.window].count \in Nat /\ once.count \in Nat
    BY <1>5, Zenon
  <2> QED
    BY <1>3, <2>1
<1>7. PICK n \in Nat \cup {Failed} : reg' = [reg EXCEPT ![p] = [reg[p] EXCEPT !.reply = n]]
  <2>1. CASE EvalRuns(p)
    BY <1>6, <2>1, Zenon DEF EvalRuns
  <2>2. CASE EvalFails(p)
    BY <1>6, <2>2, Zenon DEF EvalFails
  <2> QED
    BY <2>1, <2>2, Zenon
<1>8. redis' \in [Windows -> Key]
  <2>1. redis \in [Windows -> Key]
    BY <1>1, Zenon DEF TypeOK
  <2>2. \/ redis' = redis \/ redis' = [redis EXCEPT ![j.window] = once]
        \/ redis' = [redis EXCEPT ![j.window] = Stored(once, j)]
    BY Zenon DEF EvalRuns, EvalFails
  <2> HIDE DEF once, Key
  <2> QED
    BY <1>3, <1>5, <2>1, <2>2, Zenon
<1> DEFINE x == [reg[p] EXCEPT !.reply = n]
<1>9. /\ x \in Locals /\ x.win = reg[p].win /\ x.jobs = reg[p].jobs /\ x.job = reg[p].job
      /\ reg' = [reg EXCEPT ![p] = x]
  BY <1>1, <1>7, Zenon DEF Locals
<1> HIDE DEF x
<1>10. Move(pc[p], reg[p], "evalDone", x)
  <2>1. Held(x) \subseteq Held(reg[p]) /\ x.job \notin x.jobs
    BY <1>1, <1>9, Zenon DEF Held
  <2>2. Stage("evalDone", x)
    BY <1>1, <1>2, <1>9, Zenon DEF Stage, Flushing
  <2> QED
    BY <1>2, <1>9, <2>1, <2>2, Zenon DEF Move, Pcs, Stopping
<1>11. Rest /\ warned' = warned
  <2>1. faults \in 0 .. MaxFaults
    BY <1>1, Zenon DEF TypeOK
  <2>2. faults' \in 0 .. MaxFaults
    BY <1>2, <2>1, Shape
  <2> QED
    BY <1>1, <1>2, <1>8, <2>2, Zenon DEF Rest, TypeOK, ghosts
<1>12. lim' = [lim EXCEPT ![l] = lim[l]]
  BY <1>1, <1>2, SameLim, Zenon
<1>13. p \in Calls =>
         CallOK("evalDone", x, lim[l].windows) /\ Told("evalDone", warned[p], lim[l].lastErr)
  BY <1>2, <1>9, CallFlushes, Zenon DEF Counting, Of
<1> HIDE DEF l
<1> QED
  BY <1>1, <1>2, <1>9, <1>10, <1>11, <1>12, <1>13, ProcStep, Zenon DEF l

(* One process changes its snapshots, every other keeps what it has.        *)
LEMMA FlightsMove ==
  ASSUME FlightsOK, NEW p \in Procs,
         FlightOK(pc'[p], reg'[p], lim'[LimiterOf[p]].windows),
         \A q \in Procs : q # p =>
           /\ pc'[q] = pc[q] /\ reg'[q] = reg[q]
           /\ Backed(reg[q], lim'[LimiterOf[q]].windows)
           /\ LimiterOf[q] = LimiterOf[p] => Apart(reg'[p], reg[q])
  PROVE  FlightsOK'
<1>1. ASSUME NEW q \in Procs PROVE FlightOK(pc'[q], reg'[q], lim'[LimiterOf[q]].windows)
  <2>1. CASE q = p
    BY <2>1, Zenon
  <2>2. CASE q # p
    <3>1. Stage(pc[q], reg[q]) /\ Single(reg[q])
      BY Zenon DEF FlightsOK, FlightOK
    <3> QED
      BY <2>2, <3>1, Zenon DEF FlightOK
  <2> QED
    BY <2>1, <2>2, Zenon
<1>2. \A r, s : Apart(r, s) => Apart(s, r)
  BY Zenon DEF Apart
<1>3. ASSUME NEW q \in Procs, NEW o \in Procs, q # o, LimiterOf[q] = LimiterOf[o]
      PROVE  Apart(reg'[q], reg'[o])
  <2>1. CASE q = p
    BY <1>3, <2>1, Zenon
  <2>2. CASE o = p
    BY <1>2, <1>3, <2>2, Zenon
  <2>3. CASE q # p /\ o # p
    <3>1. Apart(reg[q], reg[o]) /\ reg'[q] = reg[q] /\ reg'[o] = reg[o]
      BY <1>3, <2>3, Zenon DEF FlightsOK
    <3> QED
      BY <3>1, Zenon
  <2> QED
    BY <2>1, <2>2, <2>3, Zenon
<1> QED
  BY <1>1, <1>3, Zenon DEF FlightsOK, Of

(* The snapshot: the buffers it marks, and the jobs it makes of them.       *)
Marked(buf, v, J) ==
  /\ v \in Buffers /\ Keeps(buf, v) /\ Guards(buf, v) /\ J \in SUBSET Job
  /\ \A j \in J : /\ Flushable(buf[j.window]) /\ j.window \in Windows
                  /\ v[j.window] # None /\ 0 < j.delta
                  /\ v[j.window].flush = j.delta /\ j.delta <= v[j.window].delta
  /\ \A j, k \in J : j.window = k.window => j = k

LEMMA Snapshot ==
  ASSUME NEW buf \in Buffers, NEW now, now = {w \in Windows : Flushable(buf[w])},
         NEW v, v = [w \in Windows |->
                       IF w \in now THEN [buf[w] EXCEPT !.flush = buf[w].delta] ELSE buf[w]],
         NEW J, J = {[window |-> w, delta |-> buf[w].delta, expireAt |-> buf[w].expireAt] : w \in now}
  PROVE  Marked(buf, v, J)
<1>1. ASSUME NEW w \in now
      PROVE  /\ w \in Windows /\ buf[w] \in Buffer /\ buf[w].delta \in Nat /\ buf[w].expireAt \in Nat
             /\ 0 < buf[w].delta /\ buf[w].flush = 0 /\ v[w] \in Buffer
             /\ v[w].flush = buf[w].delta /\ v[w].delta = buf[w].delta
  <2>1. w \in Windows /\ Flushable(buf[w])
    BY Zenon
  <2>2. buf[w] # None /\ buf[w].delta > 0 /\ buf[w].flush = 0
    BY <2>1, Zenon DEF Flushable
  <2>3. buf[w] \in Buffer
    BY <2>1, <2>2, Zenon DEF Buffers
  <2>4. buf[w].delta \in Nat /\ buf[w].expireAt \in Nat
    BY <2>3, Zenon DEF Buffer
  <2>5. v[w] = [buf[w] EXCEPT !.flush = buf[w].delta]
    BY <2>1, Zenon
  <2>6. v[w] \in Buffer /\ v[w].flush = buf[w].delta /\ v[w].delta = buf[w].delta
    BY <2>3, <2>4, <2>5, Zenon DEF Buffer
  <2>7. 0 < buf[w].delta
    BY <2>2, <2>4
  <2> QED
    BY <2>1, <2>2, <2>3, <2>4, <2>6, <2>7, Zenon
<1>2. ASSUME NEW w \in Windows, w \notin now PROVE v[w] = buf[w] /\ buf[w] \in Buffer \cup {None}
  BY <1>2, Zenon DEF Buffers
<1>3. v \in Buffers
  <2>1. \A w \in Windows : v[w] \in Buffer \cup {None}
    BY <1>1, <1>2, Zenon
  <2> QED
    BY <2>1, Zenon DEF Buffers
<1>4. Keeps(buf, v)
  BY <1>1, <1>2, Shape, Zenon DEF Keeps
<1>5. Guards(buf, v)
  <2> SUFFICES ASSUME NEW w \in Windows, buf[w] # None, buf[w].flush > 0
               PROVE  v[w] # None /\ v[w].flush = buf[w].flush /\ v[w].delta >= buf[w].delta
    BY Zenon DEF Guards
  <2>1. w \notin now
    <3>1. SUFFICES ASSUME w \in now PROVE FALSE
      BY Zenon
    <3>2. buf[w].flush = 0
      BY <1>1, <3>1, Zenon
    <3> QED
      BY <3>2
  <2>2. v[w] = buf[w] /\ buf[w] \in Buffer
    BY <1>2, <2>1, Zenon
  <2>3. buf[w].delta >= buf[w].delta
    BY <2>2 DEF Buffer
  <2> QED
    BY <2>2, <2>3, Zenon
<1>6. ASSUME NEW j \in J
      PROVE  \E w \in now : /\ j = [window |-> w, delta |-> buf[w].delta, expireAt |-> buf[w].expireAt]
                            /\ j.window = w /\ j.delta = buf[w].delta
  <2>1. PICK w \in now : j = [window |-> w, delta |-> buf[w].delta, expireAt |-> buf[w].expireAt]
    BY Zenon
  <2>2. j.window = w /\ j.delta = buf[w].delta
    BY <2>1
  <2> QED
    BY <2>1, <2>2, Zenon
<1>7. J \in SUBSET Job
  <2>1. ASSUME NEW j \in J PROVE j \in Job
    <3>1. PICK w \in now : j = [window |-> w, delta |-> buf[w].delta, expireAt |-> buf[w].expireAt]
      BY <1>6, Zenon
    <3>2. w \in Windows /\ buf[w].delta \in Nat /\ buf[w].expireAt \in Nat
      BY <1>1, Zenon
    <3> QED
      BY <3>1, <3>2 DEF Job
  <2> QED
    BY <2>1, Zenon
<1>8. ASSUME NEW j \in J
      PROVE  /\ Flushable(buf[j.window]) /\ j.window \in Windows
             /\ v[j.window] # None /\ 0 < j.delta
             /\ v[j.window].flush = j.delta /\ j.delta <= v[j.window].delta
  <2>1. j.window \in now /\ j.delta = buf[j.window].delta
    BY <1>6, Zenon
  <2>2. /\ j.window \in Windows /\ v[j.window] # None /\ 0 < j.delta
        /\ v[j.window].flush = j.delta /\ v[j.window].delta = j.delta /\ j.delta \in Nat
    <3> DEFINE w == j.window
    <3>1. w \in now /\ j.delta = buf[w].delta
      BY <2>1, Zenon
    <3> HIDE DEF w
    <3>2. /\ w \in Windows /\ v[w] \in Buffer /\ 0 < buf[w].delta
          /\ v[w].flush = buf[w].delta /\ v[w].delta = buf[w].delta /\ buf[w].delta \in Nat
      BY <1>1, <3>1, ZenonT(60)
    <3>3. v[w] # None
      BY <3>2, Shape, Zenon
    <3> QED
      BY <3>1, <3>2, <3>3, Zenon DEF w
  <2>3. j.delta <= v[j.window].delta
    BY <2>2
  <2> QED
    BY <2>1, <2>2, <2>3, Zenon
<1>9. ASSUME NEW j \in J, NEW k \in J, j.window = k.window PROVE j = k
  <2>1. PICK w \in now : /\ j = [window |-> w, delta |-> buf[w].delta, expireAt |-> buf[w].expireAt]
                         /\ j.window = w
    BY <1>6, Zenon
  <2>2. PICK u \in now : /\ k = [window |-> u, delta |-> buf[u].delta, expireAt |-> buf[u].expireAt]
                         /\ k.window = u
    BY <1>6, Zenon
  <2>3. u = w
    BY <1>9, <2>1, <2>2, Zenon
  <2> QED
    BY <2>1, <2>2, <2>3, Zenon
<1> QED
  BY <1>3, <1>4, <1>5, <1>7, <1>8, <1>9, Zenon DEF Marked

LEMMA FlushSnapshotStep ==
  ASSUME IndInv, NEW p \in Procs, FlushSnapshot(p)
  PROVE  IndInv'
<1> DEFINE l == LimiterOf[p]
           buf == lim[l].windows
           now == {w \in Windows : Flushable(buf[w])}
           v == [w \in Windows |-> IF w \in now THEN [buf[w] EXCEPT !.flush = buf[w].delta] ELSE buf[w]]
           J == {[window |-> w, delta |-> buf[w].delta, expireAt |-> buf[w].expireAt] : w \in now}
           r == [lim[l] EXCEPT !.mu = p, !.windows = v]
           x == [reg[p] EXCEPT !.now = clock, !.err = FALSE, !.jobs = J]
<1>1. /\ TypeOK /\ FlightsOK /\ CallsOK /\ ToldOK /\ TimersOK
      /\ l \in Limiters /\ lim[l] \in Limiter /\ lim[l].windows \in Buffers
      /\ reg[p] \in Locals /\ Stage(pc[p], reg[p]) /\ clock \in Windows
  BY Locally, Zenon DEF IndInv, Of, TypeOK
<1>2. /\ pc[p] = "flush" /\ lim' = [lim EXCEPT ![l] = r] /\ pc' = [pc EXCEPT ![p] = "flushNext"]
      /\ reg' = [reg EXCEPT ![p] = x] /\ UNCHANGED <<env, ghosts>>
  BY Zenon DEF FlushSnapshot, Goto
<1>3. /\ v \in Buffers /\ Keeps(buf, v) /\ Guards(buf, v) /\ J \in SUBSET Job
      /\ \A j \in J : /\ Flushable(buf[j.window]) /\ j.window \in Windows
                      /\ v[j.window] # None /\ 0 < j.delta
                      /\ v[j.window].flush = j.delta /\ j.delta <= v[j.window].delta
      /\ \A j, k \in J : j.window = k.window => j = k
  <2>1. Marked(buf, v, J)
    BY <1>1, Snapshot, Zenon
  <2> QED
    BY <2>1, Zenon DEF Marked
<1> HIDE DEF v, J, now
<1>4. /\ r \in Limiter /\ r.windows = v /\ r.lastErr = lim[l].lastErr
      /\ r.flushTimer = lim[l].flushTimer /\ r.flushBusy = lim[l].flushBusy
  BY <1>1, <1>3, Zenon DEF Limiter, Buffers
<1>5. x \in Locals /\ x.win = reg[p].win /\ x.jobs = J /\ x.job = reg[p].job
  BY <1>1, <1>3, Zenon DEF Locals
<1>6. reg[p].job = None
  BY <1>1, <1>2, Zenon DEF Stage
<1> HIDE DEF r, x
<1>7. Rest /\ warned' = warned
  BY <1>1, <1>2, RestKept, Zenon
<1>8. TypeOK'
  <2>1. "flushNext" \in Pcs
    BY Zenon DEF Pcs
  <2> HIDE DEF l, buf
  <2> QED
    BY <1>1, <1>2, <1>4, <1>5, <1>7, <2>1, StepTypes, Zenon
<1>9. /\ lim'[l] = r /\ \A k \in Limiters : k # l => lim'[k] = lim[k]
      /\ reg'[p] = x /\ \A q \in Procs : q # p => reg'[q] = reg[q]
      /\ pc'[p] = "flushNext" /\ \A q \in Procs : q # p => pc'[q] = pc[q]
  BY <1>1, <1>2, Zenon DEF TypeOK
<1>10. \A k \in Limiters : /\ Keeps(lim[k].windows, lim'[k].windows)
                           /\ Guards(lim[k].windows, lim'[k].windows)
                           /\ lim'[k].lastErr = lim[k].lastErr
                           /\ lim'[k].flushTimer = lim[k].flushTimer
                           /\ lim'[k].flushBusy = lim[k].flushBusy
  <2> TAKE k \in Limiters
  <2>1. CASE k = l
    BY <1>3, <1>4, <1>9, <2>1, Zenon
  <2>2. CASE k # l
    BY <1>1, <1>9, <2>2, Types, SameWindows, Zenon
  <2> QED
    BY <2>1, <2>2, Zenon
<1>11. FlightsOK'
  <2>1. Held(x) = J /\ x.job \notin x.jobs
    <3>1. None \notin J
      BY <1>3, Shape, Zenon
    <3> QED
      BY <1>5, <1>6, <3>1, Zenon DEF Held
  <2>2. FlightOK("flushNext", x, v)
    <3>1. Stage("flushNext", x)
      BY <1>5, <1>6, Zenon DEF Stage, Flushing
    <3>2. Backed(x, v)
      BY <1>3, <2>1, Zenon DEF Backed
    <3>3. Single(x)
      BY <1>3, <2>1, Zenon DEF Single
    <3> QED
      BY <3>1, <3>2, <3>3, Zenon DEF FlightOK
  <2>3. FlightOK(pc'[p], reg'[p], lim'[LimiterOf[p]].windows)
    BY <1>4, <1>9, <2>2, Zenon
  <2>4. ASSUME NEW q \in Procs, q # p
        PROVE  /\ Backed(reg[q], lim'[LimiterOf[q]].windows)
               /\ LimiterOf[q] = l => Apart(x, reg[q])
    <3>1. /\ LimiterOf[q] \in Limiters /\ reg[q] \in Locals
          /\ lim[LimiterOf[q]].windows \in Buffers /\ lim'[LimiterOf[q]].windows \in Buffers
      BY <1>1, <1>8, Types, TypesNext, Zenon
    <3>2. Backed(reg[q], lim[LimiterOf[q]].windows)
      BY <1>1, Zenon DEF FlightsOK, FlightOK, Of
    <3>3. Guards(lim[LimiterOf[q]].windows, lim'[LimiterOf[q]].windows)
      BY <1>10, <3>1, Zenon
    <3>4. Backed(reg[q], lim'[LimiterOf[q]].windows)
      BY <3>1, <3>2, <3>3, BackedKept, Zenon
    <3>5. ASSUME LimiterOf[q] = l PROVE Apart(x, reg[q])
      <4> SUFFICES ASSUME NEW j \in Held(x), NEW k \in Held(reg[q]), j.window = k.window PROVE FALSE
        BY Zenon DEF Apart
      <4>1. buf[j.window].flush = 0
        BY <1>3, <2>1, Zenon DEF Flushable
      <4>2. buf[k.window].flush = k.delta /\ 0 < k.delta
        BY <3>2, <3>5, Zenon DEF Backed
      <4>3. 0 < 0
        BY <4>1, <4>2, Zenon
      <4> QED
        BY <4>3
    <3> QED
      BY <3>4, <3>5, Zenon
  <2>5. \A q \in Procs : q # p =>
           /\ pc'[q] = pc[q] /\ reg'[q] = reg[q]
           /\ Backed(reg[q], lim'[LimiterOf[q]].windows)
           /\ LimiterOf[q] = LimiterOf[p] => Apart(reg'[p], reg[q])
    BY <1>9, <2>4, Zenon
  <2> QED
    BY <1>1, <2>3, <2>5, FlightsMove, Zenon
<1>12. p \in Calls => CallOK("flushNext", x, r.windows) /\ Told("flushNext", warned[p], r.lastErr)
  BY <1>2, <1>4, <1>5, CallFlushes, Zenon DEF Counting, Of
<1>13. CallsOK'
  <2>1. \A c \in Calls : \/ CallOK(pc'[c], reg'[c], lim'[LimiterOf[c]].windows)
                         \/ /\ pc'[c] = pc[c] /\ reg'[c] = reg[c]
                            /\ Keeps(lim[LimiterOf[c]].windows, lim'[LimiterOf[c]].windows)
    <3> TAKE c \in Calls
    <3>1. c \in Procs /\ LimiterOf[c] \in Limiters
      BY Shape, Types, <1>1, Zenon
    <3>2. CASE c = p
      BY <1>9, <1>12, <3>2, Zenon
    <3>3. CASE c # p
      BY <1>9, <1>10, <3>1, <3>3, Zenon
    <3> QED
      BY <3>2, <3>3, Zenon
  <2> QED
    BY <1>1, <1>7, <2>1, CallsKept, Zenon DEF Rest
<1>14. ToldOK'
  <2>1. \A c \in Calls : \/ Told(pc'[c], warned'[c], lim'[LimiterOf[c]].lastErr)
                         \/ /\ pc'[c] = pc[c] /\ warned'[c] = warned[c]
                            /\ lim[LimiterOf[c]].lastErr => lim'[LimiterOf[c]].lastErr
    <3> TAKE c \in Calls
    <3>1. c \in Procs /\ LimiterOf[c] \in Limiters
      BY Shape, Types, <1>1, Zenon
    <3>2. CASE c = p
      BY <1>7, <1>9, <1>12, <3>2, Zenon
    <3>3. CASE c # p
      BY <1>7, <1>9, <1>10, <3>1, <3>3, Zenon
    <3> QED
      BY <3>2, <3>3, Zenon
  <2> QED
    BY <1>1, <2>1, ToldKept, Zenon
<1>15. TimersOK'
  <2>1. \A q \in Procs : /\ pc'[q] = "free" <=> pc[q] = "free"
                         /\ pc'[q] \in Stopping <=> pc[q] \in Stopping
                         /\ pc'[q] = "stopTimer" => pc[q] = "stopTimer" /\ reg'[q].ref = reg[q].ref
    <3> TAKE q \in Procs
    <3>1. CASE q = p
      BY <1>2, <1>9, <3>1, Zenon DEF Stopping
    <3>2. CASE q # p
      BY <1>9, <3>2, Zenon
    <3> QED
      BY <3>1, <3>2, Zenon
  <2>2. \A k \in Limiters : /\ lim'[k].flushTimer = lim[k].flushTimer
                            /\ lim'[k].flushBusy = lim[k].flushBusy
    BY <1>10, Zenon
  <2> QED
    BY <1>1, <2>1, <2>2, TimersKept, Zenon
<1> QED
  BY <1>8, <1>11, <1>13, <1>14, <1>15, Zenon DEF IndInv

LEMMA BackedElsewhere ==
  ASSUME NEW old \in Buffers, NEW r \in Locals, Backed(r, old), NEW x, Held(x) \subseteq Held(r),
         NEW w, \A k \in Held(x) : k.window # w, NEW d
  PROVE  Backed(x, [old EXCEPT ![w] = d])
<1> DEFINE v == [old EXCEPT ![w] = d]
<1>1. ASSUME NEW k \in Held(x) PROVE v[k.window] = old[k.window] /\ k \in Held(r)
  <2>1. k \in Held(r) /\ k.window \in Windows /\ k.window # w
    BY HeldJobs, Zenon
  <2> QED
    BY <2>1, Zenon DEF Buffers
<1> QED
  BY <1>1, Zenon DEF Backed

LEMMA FlushReceiveStep ==
  ASSUME IndInv, NEW p \in Procs, FlushReceive(p)
  PROVE  IndInv'
<1> DEFINE l == LimiterOf[p]
           j == reg[p].job
           w == j.window
           b == lim[l].windows[w]
           failed == reg[p].reply = Failed
           done == ~failed /\ b # None
           d == IF b = None THEN None ELSE IF failed THEN Unflushed(b)
                ELSE Flushed(b, reg[p].reply, j.delta)
           v == [lim[l].windows EXCEPT ![w] = d]
           e == lim[l].lastErr /\ ~done
           f == lim[l].fresh \/ done
           g == reg[p].err \/ failed
           r == [lim[l] EXCEPT !.windows = v, !.lastErr = e, !.fresh = f, !.mu = p]
           x == [reg[p] EXCEPT !.err = g, !.reply = 0, !.job = None]
<1>1. /\ TypeOK /\ FlightsOK /\ CallsOK /\ ToldOK /\ TimersOK
      /\ l \in Limiters /\ lim[l] \in Limiter /\ lim[l].windows \in Buffers
      /\ reg[p] \in Locals /\ Stage(pc[p], reg[p]) /\ Single(reg[p])
      /\ Backed(reg[p], lim[l].windows)
  BY Locally, Zenon DEF IndInv, Of
<1>2. /\ pc[p] = "evalDone" /\ lim' = [lim EXCEPT ![l] = r] /\ pc' = [pc EXCEPT ![p] = "flushNext"]
      /\ reg' = [reg EXCEPT ![p] = x] /\ UNCHANGED <<env, uses, taken>>
      /\ warned' = [c \in Calls |-> warned[c] /\ ~(done /\ LimiterOf[c] = l)]
  BY Zenon DEF FlushReceive, Goto
<1>3. /\ j \in Job /\ j # None /\ j \in Held(reg[p]) /\ w \in Windows /\ j.delta \in Nat
      /\ b # None /\ b \in Buffer /\ j.delta <= b.delta /\ reg[p].reply \in Nat \cup {Failed}
  <2>1. j # None /\ j \in Job /\ reg[p].reply \in Nat \cup {Failed}
    BY <1>1, <1>2, Zenon DEF Stage, Locals
  <2>2. j \in Held(reg[p])
    BY <2>1, Zenon DEF Held
  <2>3. w \in Windows /\ j.delta \in Nat
    BY <2>1, Zenon DEF Job
  <2>4. b # None /\ j.delta <= b.delta
    BY <1>1, <2>2, Zenon DEF Backed
  <2>5. b \in Buffer
    BY <1>1, <2>3, <2>4, Zenon DEF Buffers
  <2> QED
    BY <2>1, <2>2, <2>3, <2>4, <2>5, Zenon
<1>4. d \in Buffer
  <2>1. CASE failed
    <3>1. 0 \in Nat
      OBVIOUS
    <3>2. Unflushed(b) \in Buffer
      BY <1>3, <3>1, Zenon DEF Unflushed, Buffer
    <3> QED
      BY <1>3, <2>1, <3>2, Zenon
  <2>2. CASE ~failed
    <3>1. reg[p].reply \in Nat
      BY <1>3, <2>2, Zenon
    <3>2. Flushed(b, reg[p].reply, j.delta) \in Buffer
      BY <1>3, <3>1, FlushedBuffer, Zenon
    <3> QED
      BY <1>3, <2>2, <3>2, Zenon
  <2> QED
    BY <2>1, <2>2, Zenon
<1> HIDE DEF d
<1>5. v \in Buffers /\ Keeps(lim[l].windows, v)
  <2>1. v \in Buffers
    BY <1>1, <1>4, Zenon DEF Buffers
  <2>2. \A u \in Windows : v[u] = IF u = w THEN d ELSE lim[l].windows[u]
    BY <1>1, Zenon DEF Buffers
  <2> QED
    BY <1>4, <2>1, <2>2, Shape, Zenon DEF Keeps
<1>6. e \in BOOLEAN /\ f \in BOOLEAN /\ g \in BOOLEAN /\ done \in BOOLEAN /\ 0 \in Nat
  BY Zenon
<1>7. e = (lim[l].lastErr /\ ~done)
  BY Zenon
<1> HIDE DEF e, f, g, v, done
<1>8. /\ r \in Limiter /\ r.windows = v /\ r.lastErr = e
      /\ r.flushTimer = lim[l].flushTimer /\ r.flushBusy = lim[l].flushBusy
  BY <1>1, <1>5, <1>6, Zenon DEF Limiter, Buffers
<1>9. x \in Locals /\ x.win = reg[p].win /\ x.jobs = reg[p].jobs /\ x.job = None
  BY <1>1, <1>6, Zenon DEF Locals
<1> HIDE DEF r, x
<1>10. Rest
  <2>1. warned' \in [Calls -> BOOLEAN]
    BY <1>2, Zenon
  <2> QED
    BY <1>1, <1>2, <2>1, Zenon DEF Rest, TypeOK, env
<1>11. TypeOK'
  <2>1. "flushNext" \in Pcs
    BY Zenon DEF Pcs
  <2> HIDE DEF l, j, w, b, failed
  <2> QED
    BY <1>1, <1>2, <1>8, <1>9, <1>10, <2>1, StepTypes, Zenon
<1>12. /\ lim'[l] = r /\ \A k \in Limiters : k # l => lim'[k] = lim[k]
       /\ reg'[p] = x /\ \A q \in Procs : q # p => reg'[q] = reg[q]
       /\ pc'[p] = "flushNext" /\ \A q \in Procs : q # p => pc'[q] = pc[q]
  BY <1>1, <1>2, Zenon DEF TypeOK
<1>13. Held(x) \subseteq Held(reg[p]) /\ None \notin x.jobs /\ \A k \in Held(x) : k.window # w
  <2>1. reg[p].jobs \in SUBSET Job /\ j \notin reg[p].jobs
    BY <1>1, Zenon DEF Locals, Single
  <2>2. Held(x) = reg[p].jobs /\ None \notin x.jobs
    BY <1>9, <2>1, Shape, Zenon DEF Held
  <2>3. Held(x) \subseteq Held(reg[p])
    BY <2>2, Zenon DEF Held
  <2>4. \A k \in Held(x) : k # j /\ k \in Held(reg[p])
    BY <2>1, <2>2, <2>3, Zenon
  <2>5. \A k \in Held(x) : k.window # w
    BY <1>1, <1>3, <2>4, Zenon DEF Single
  <2> QED
    BY <2>2, <2>3, <2>5, Zenon
<1>14. FlightsOK'
  <2>1. FlightOK("flushNext", x, v)
    <3>1. Stage("flushNext", x)
      BY <1>9, Zenon DEF Stage, Flushing
    <3>2. v = [lim[l].windows EXCEPT ![w] = d]
      BY Zenon DEF v
    <3>3. Backed(x, v)
      <4>1. /\ lim[l].windows \in Buffers /\ reg[p] \in Locals /\ Backed(reg[p], lim[l].windows)
            /\ Held(x) \subseteq Held(reg[p]) /\ \A k \in Held(x) : k.window # w
        BY <1>1, <1>13, Zenon
      <4> HIDE DEF l, w, j, b
      <4>2. Backed(x, [lim[l].windows EXCEPT ![w] = d])
        BY <4>1, BackedElsewhere, Zenon
      <4> QED
        BY <3>2, <4>2, Zenon
    <3>4. Single(x)
      BY <1>1, <1>9, <1>13, SingleKept, Zenon
    <3> QED
      BY <3>1, <3>3, <3>4, Zenon DEF FlightOK
  <2>2. FlightOK(pc'[p], reg'[p], lim'[LimiterOf[p]].windows)
    BY <1>8, <1>12, <2>1, Zenon
  <2>3. ASSUME NEW q \in Procs, q # p
        PROVE  /\ Backed(reg[q], lim'[LimiterOf[q]].windows)
               /\ LimiterOf[q] = l => Apart(x, reg[q])
    <3>1. LimiterOf[q] \in Limiters /\ reg[q] \in Locals
      BY <1>1, Types, Zenon
    <3>2. Backed(reg[q], lim[LimiterOf[q]].windows)
      BY <1>1, Zenon DEF FlightsOK, FlightOK, Of
    <3>3. CASE LimiterOf[q] # l
      BY <1>12, <3>1, <3>2, <3>3, Zenon
    <3>4. CASE LimiterOf[q] = l
      <4>1. Apart(reg[p], reg[q])
        BY <1>1, <2>3, <3>4, Zenon DEF FlightsOK
      <4>2. \A k \in Held(reg[q]) : k.window # w
        BY <1>3, <4>1, Zenon DEF Apart
      <4>3. v = [lim[l].windows EXCEPT ![w] = d] /\ Backed(reg[q], lim[l].windows)
        BY <3>2, <3>4, Zenon DEF v
      <4>4. Backed(reg[q], v)
        <5>1. lim[l].windows \in Buffers /\ reg[q] \in Locals /\ Held(reg[q]) \subseteq Held(reg[q])
          BY <1>1, <3>1, Zenon
        <5> HIDE DEF l, w, j, b
        <5>2. Backed(reg[q], [lim[l].windows EXCEPT ![w] = d])
          BY <4>2, <4>3, <5>1, BackedElsewhere, Zenon
        <5> QED
          BY <4>3, <5>2, Zenon
      <4>5. Apart(x, reg[q])
        BY <1>13, <4>1, Zenon DEF Apart
      <4> QED
        BY <1>8, <1>12, <3>4, <4>4, <4>5, Zenon
    <3> QED
      BY <3>3, <3>4, Zenon
  <2>4. \A q \in Procs : q # p =>
           /\ pc'[q] = pc[q] /\ reg'[q] = reg[q]
           /\ Backed(reg[q], lim'[LimiterOf[q]].windows)
           /\ LimiterOf[q] = LimiterOf[p] => Apart(reg'[p], reg[q])
    BY <1>12, <2>3, Zenon
  <2> QED
    BY <1>1, <2>2, <2>4, FlightsMove, Zenon
<1>15. CallsOK'
  <2>1. \A c \in Calls : \/ CallOK(pc'[c], reg'[c], lim'[LimiterOf[c]].windows)
                         \/ /\ pc'[c] = pc[c] /\ reg'[c] = reg[c]
                            /\ Keeps(lim[LimiterOf[c]].windows, lim'[LimiterOf[c]].windows)
    <3> TAKE c \in Calls
    <3>1. c \in Procs /\ LimiterOf[c] \in Limiters
      BY Shape, Types, <1>1, Zenon
    <3>2. CASE c = p
      <4>1. CallOK(pc[c], reg[c], lim[l].windows)
        BY <1>1, <3>2, Zenon DEF CallsOK, Of
      <4>2. CallOK("flushNext", x, lim'[LimiterOf[c]].windows)
        BY <1>2, <1>9, <3>2, <4>1, Zenon DEF CallOK, Counting
      <4> QED
        BY <1>12, <3>2, <4>2, Zenon
    <3>3. CASE c # p
      <4>1. Keeps(lim[LimiterOf[c]].windows, lim'[LimiterOf[c]].windows)
        BY <1>1, <1>5, <1>8, <1>12, <3>1, Types, SameWindows, Zenon
      <4> QED
        BY <1>12, <3>1, <3>3, <4>1, Zenon
    <3> QED
      BY <3>2, <3>3, Zenon
  <2> QED
    BY <1>1, <1>10, <2>1, CallsKept, Zenon DEF Rest
<1>16. ToldOK'
  <2>1. ASSUME NEW c \in Calls PROVE Told(pc'[c], warned'[c], lim'[LimiterOf[c]].lastErr)
    <3>1. c \in Procs /\ LimiterOf[c] \in Limiters /\ Told(pc[c], warned[c], lim[LimiterOf[c]].lastErr)
      BY <1>1, Types, Shape, Zenon DEF ToldOK, Of
    <3>2. warned'[c] <=> warned[c] /\ ~(done /\ LimiterOf[c] = l)
      BY <1>2, Zenon
    <3>3. warned'[c] => lim'[LimiterOf[c]].lastErr
      <4>1. CASE LimiterOf[c] = l
        BY <1>7, <1>8, <1>12, <3>1, <3>2, <4>1, Zenon DEF Told
      <4>2. CASE LimiterOf[c] # l
        BY <1>12, <3>1, <3>2, <4>2, Zenon DEF Told
      <4> QED
        BY <4>1, <4>2, Zenon
    <3>4. pc'[c] \in {"ok", "getProbe", "gotProbe"} => pc[c] \in {"ok", "getProbe", "gotProbe"}
      BY <1>12, <3>1, Zenon
    <3> QED
      BY <3>1, <3>2, <3>3, <3>4, Zenon DEF Told
  <2> QED
    BY <2>1, Zenon DEF ToldOK, Of
<1>17. TimersOK'
  <2>1. \A q \in Procs : /\ pc'[q] = "free" <=> pc[q] = "free"
                         /\ pc'[q] \in Stopping <=> pc[q] \in Stopping
                         /\ pc'[q] = "stopTimer" => pc[q] = "stopTimer" /\ reg'[q].ref = reg[q].ref
    <3> TAKE q \in Procs
    <3>1. CASE q = p
      BY <1>2, <1>12, <3>1, Zenon DEF Stopping
    <3>2. CASE q # p
      BY <1>12, <3>2, Zenon
    <3> QED
      BY <3>1, <3>2, Zenon
  <2>2. \A k \in Limiters : /\ lim'[k].flushTimer = lim[k].flushTimer
                            /\ lim'[k].flushBusy = lim[k].flushBusy
    BY <1>8, <1>12, Zenon
  <2> QED
    BY <1>1, <2>1, <2>2, TimersKept, Zenon
<1> QED
  BY <1>11, <1>14, <1>15, <1>16, <1>17, Zenon DEF IndInv

LEMMA FlushEndStep ==
  ASSUME IndInv, NEW p \in Procs, FlushEnd(p)
  PROVE  IndInv'
<1> DEFINE l == LimiterOf[p]
           old == lim[l].windows
           dropped == {w \in Windows : Droppable(old[w], reg[p].now)}
           lost == {c \in Calls : /\ LimiterOf[c] = l /\ reg[c].held = "mapped"
                                  /\ reg[c].win \in dropped}
           v == [w \in Windows |-> IF w \in dropped THEN None ELSE old[w]]
           e == lim[l].lastErr \/ reg[p].err
           m == IF p \in Calls THEN p ELSE None
           r == [lim[l] EXCEPT !.windows = v, !.lastErr = e, !.mu = m]
           s == IF p \in Calls THEN "probe" ELSE IF p \in Owners THEN "stop" ELSE "tickEnd"
<1>1. /\ TypeOK /\ FlightsOK /\ CallsOK /\ ToldOK /\ TimersOK
      /\ l \in Limiters /\ lim[l] \in Limiter /\ old \in Buffers
      /\ reg[p] \in Locals /\ Stage(pc[p], reg[p])
  BY Locally, Zenon DEF IndInv, Of
<1>2. /\ pc[p] = "flushNext" /\ reg[p].jobs = {} /\ lim' = [lim EXCEPT ![l] = r]
      /\ pc' = [pc EXCEPT ![p] = s] /\ UNCHANGED <<env, ghosts>>
      /\ reg' = [q \in Procs |-> IF q \in lost THEN [reg[q] EXCEPT !.held = "detached"] ELSE reg[q]]
  BY Zenon DEF FlushEnd, Goto
<1>3. v \in Buffers /\ Guards(old, v) /\ \A w \in Windows \ dropped : v[w] = old[w]
  <2>1. \A w \in Windows : v[w] = IF w \in dropped THEN None ELSE old[w]
    BY Zenon
  <2>2. v \in Buffers
    BY <1>1, Zenon DEF Buffers
  <2> HIDE DEF v
  <2>3. Guards(old, v)
    <3> SUFFICES ASSUME NEW w \in Windows, old[w] # None, old[w].flush > 0
                 PROVE  v[w] # None /\ v[w].flush = old[w].flush /\ v[w].delta >= old[w].delta
      BY Zenon DEF Guards
    <3>1. w \notin dropped
      <4>1. SUFFICES ASSUME w \in dropped PROVE FALSE
        BY Zenon
      <4>2. old[w].flush = 0
        BY <4>1, Zenon DEF Droppable
      <4> QED
        BY <4>2
    <3>2. v[w] = old[w] /\ old[w] \in Buffer
      BY <1>1, <2>1, <3>1, Zenon DEF Buffers
    <3>3. old[w].delta >= old[w].delta
      BY <3>2 DEF Buffer
    <3> QED
      BY <3>2, <3>3, Zenon
  <2> QED
    BY <2>1, <2>2, <2>3, Zenon
<1>4. e \in BOOLEAN /\ (lim[l].lastErr => e) /\ m \in Procs \cup {None}
      /\ s \in {"probe", "stop", "tickEnd"}
  BY Zenon
<1> HIDE DEF v, e, m, s
<1>5. /\ r \in Limiter /\ r.windows = v /\ r.lastErr = e
      /\ r.flushTimer = lim[l].flushTimer /\ r.flushBusy = lim[l].flushBusy
  BY <1>1, <1>3, <1>4, Zenon DEF Limiter, Buffers
<1> HIDE DEF r
<1>6. ASSUME NEW q \in Procs
      PROVE  /\ reg'[q] \in Locals /\ reg'[q].jobs = reg[q].jobs /\ reg'[q].job = reg[q].job
             /\ reg'[q].win = reg[q].win /\ reg'[q].ref = reg[q].ref
             /\ q \notin lost => reg'[q] = reg[q]
             /\ q \in lost => reg'[q].held = "detached"
  <2>1. reg[q] \in Locals
    BY <1>1, Types, Zenon
  <2>2. CASE q \in lost
    <3>1. reg'[q] = [reg[q] EXCEPT !.held = "detached"]
      BY <1>2, <2>2, Zenon
    <3> QED
      BY <2>1, <2>2, <3>1, Zenon DEF Locals
  <2>3. CASE q \notin lost
    <3>1. reg'[q] = reg[q]
      BY <1>2, <2>3, Zenon
    <3> QED
      BY <2>1, <2>3, <3>1, Zenon
  <2> QED
    BY <2>2, <2>3, Zenon
<1>7. Rest /\ warned' = warned
  BY <1>1, <1>2, RestKept, Zenon
<1>8. TypeOK'
  <2>1. reg' \in [Procs -> Locals]
    <3>1. DOMAIN reg' = Procs /\ reg' = [q \in Procs |-> reg'[q]]
      BY <1>2, Zenon
    <3> QED
      BY <1>6, <3>1, Zenon
  <2>2. s \in Pcs
    BY <1>4, Zenon DEF Pcs
  <2>3. lim' \in [Limiters -> Limiter] /\ pc' \in [Procs -> Pcs]
    BY <1>1, <1>2, <1>5, <2>2, Zenon DEF TypeOK
  <2> QED
    BY <1>1, <1>7, <2>1, <2>3, Zenon DEF TypeOK, Rest
<1>9. /\ lim'[l] = r /\ \A k \in Limiters : k # l => lim'[k] = lim[k]
      /\ pc'[p] = s /\ \A q \in Procs : q # p => pc'[q] = pc[q]
  BY <1>1, <1>2, Zenon DEF TypeOK
<1>10. \A k \in Limiters : /\ Guards(lim[k].windows, lim'[k].windows)
                           /\ lim[k].lastErr => lim'[k].lastErr
                           /\ lim'[k].flushTimer = lim[k].flushTimer
                           /\ lim'[k].flushBusy = lim[k].flushBusy
  <2> TAKE k \in Limiters
  <2>1. CASE k = l
    BY <1>3, <1>4, <1>5, <1>9, <2>1, Zenon
  <2>2. CASE k # l
    BY <1>1, <1>9, <2>2, Types, SameWindows, Zenon
  <2> QED
    BY <2>1, <2>2, Zenon
<1>11. FlightsOK'
  <2>1. reg[p].job = None
    BY <1>1, <1>2, Zenon DEF Stage
  <2>2. ASSUME NEW q \in Procs
        PROVE  /\ Held(reg'[q]) \subseteq Held(reg[q])
               /\ Stage(pc'[q], reg'[q]) /\ reg'[q].job \notin reg'[q].jobs
    <3>1. Stage(pc[q], reg[q]) /\ reg[q].job \notin reg[q].jobs
      BY <1>1, Zenon DEF FlightsOK, FlightOK, Single
    <3>2. Held(reg'[q]) = Held(reg[q])
      BY <1>6, Zenon DEF Held
    <3>3. Stage(pc'[q], reg'[q])
      <4>1. CASE q = p
        <5>0. reg[q].jobs = {} /\ reg[q].job = None
          BY <1>2, <2>1, <4>1, Zenon
        <5>1. reg'[q].jobs = {} /\ reg'[q].job = None
          BY <1>6, <5>0, Zenon
        <5>2. pc'[q] \notin Flushing
          BY <1>4, <1>9, <4>1, Zenon DEF Flushing
        <5> QED
          BY <5>1, <5>2, Zenon DEF Stage, Flushing
      <4>2. CASE q # p
        BY <1>6, <1>9, <3>1, <4>2, Zenon DEF Stage
      <4> QED
        BY <4>1, <4>2, Zenon
    <3> QED
      BY <1>6, <3>1, <3>2, <3>3, Zenon
  <2>3. \A k \in Limiters : Guards(lim[k].windows, lim'[k].windows)
    BY <1>10, Zenon
  <2> QED
    BY <1>1, <1>8, <2>2, <2>3, FlightsKept, Zenon
<1>12. CallsOK'
  <2>1. ASSUME NEW c \in Calls PROVE CallOK(pc'[c], reg'[c], lim'[LimiterOf[c]].windows)
    <3>1. c \in Procs /\ LimiterOf[c] \in Limiters /\ reg[c] \in Locals
      BY <1>1, Types, Shape, Zenon
    <3>2. CallOK(pc[c], reg[c], lim[LimiterOf[c]].windows) /\ reg[c].win \in Windows
      BY <1>1, <3>1, Zenon DEF CallsOK, Of, Locals
    <3>3. pc'[c] # "idle" => reg'[c].win > 0
      <4>1. reg'[c].win = reg[c].win
        BY <1>6, <3>1, Zenon
      <4>2. pc[c] = "idle" => pc'[c] = "idle"
        BY <1>2, <1>9, <3>1, Zenon
      <4> QED
        BY <3>2, <4>1, <4>2, Zenon DEF CallOK
    <3>4. ASSUME pc'[c] \in Counting, reg'[c].held = "mapped"
          PROVE  lim'[LimiterOf[c]].windows[reg'[c].win] # None
      <4>1. c # p
        BY <1>4, <1>9, <3>4, Zenon DEF Counting
      <4>2. c \notin lost /\ reg'[c] = reg[c] /\ pc'[c] = pc[c]
        BY <1>6, <1>9, <3>1, <3>4, <4>1, Zenon
      <4>3. lim[LimiterOf[c]].windows[reg[c].win] # None
        BY <3>2, <3>4, <4>2, Zenon DEF CallOK
      <4>4. CASE LimiterOf[c] = l
        <5>1. reg[c].win \notin dropped
          BY <3>4, <4>2, <4>4, Zenon
        <5>2. v[reg[c].win] = old[reg[c].win]
          BY <1>3, <3>2, <5>1, Zenon
        <5> QED
          BY <1>5, <1>9, <4>2, <4>3, <4>4, <5>2, Zenon
      <4>5. CASE LimiterOf[c] # l
        BY <1>9, <3>1, <4>2, <4>3, <4>5, Zenon
      <4> QED
        BY <4>4, <4>5, Zenon
    <3> QED
      BY <3>3, <3>4, Zenon DEF CallOK
  <2>2. clock' = clock /\ clock > 0
    BY <1>1, <1>7, Zenon DEF CallsOK, Rest
  <2> QED
    BY <2>1, <2>2, Zenon DEF CallsOK, Of
<1>13. ToldOK'
  <2>1. ASSUME NEW c \in Calls PROVE Told(pc'[c], warned'[c], lim'[LimiterOf[c]].lastErr)
    <3>1. c \in Procs /\ LimiterOf[c] \in Limiters /\ Told(pc[c], warned[c], lim[LimiterOf[c]].lastErr)
      BY <1>1, Types, Shape, Zenon DEF ToldOK, Of
    <3>2. pc'[c] \in {"ok", "getProbe", "gotProbe"} => pc[c] \in {"ok", "getProbe", "gotProbe"}
      BY <1>4, <1>9, <3>1, Zenon
    <3>3. lim[LimiterOf[c]].lastErr => lim'[LimiterOf[c]].lastErr
      BY <1>10, <3>1, Zenon
    <3> QED
      BY <1>7, <3>1, <3>2, <3>3, Zenon DEF Told
  <2> QED
    BY <2>1, Zenon DEF ToldOK, Of
<1>14. TimersOK'
  <2>1. ASSUME NEW q \in Procs
        PROVE  /\ pc'[q] = "free" <=> pc[q] = "free"
               /\ pc'[q] \in Stopping <=> pc[q] \in Stopping
               /\ pc'[q] = "stopTimer" => pc[q] = "stopTimer" /\ reg'[q].ref = reg[q].ref
    <3>1. CASE q = p
      BY <1>2, <1>4, <1>9, <3>1, Zenon DEF Stopping
    <3>2. CASE q # p
      BY <1>6, <1>9, <3>2, Zenon
    <3> QED
      BY <3>1, <3>2, Zenon
  <2>2. \A k \in Limiters : /\ lim'[k].flushTimer = lim[k].flushTimer
                            /\ lim'[k].flushBusy = lim[k].flushBusy
    BY <1>10, Zenon
  <2> QED
    BY <1>1, <2>1, <2>2, TimersKept, Zenon
<1> QED
  BY <1>8, <1>11, <1>12, <1>13, <1>14, Zenon DEF IndInv

-----------------------------------------------------------------------------
(* The flush timer, Sleep, Wake and Close.                                  *)

LEMMA OfUse ==
  ASSUME TypeOK, NEW o \in Owners, Use(o)
  PROVE  Rest /\ UNCHANGED <<reg, warned>> /\ pc[o] = "rest"
<1>1. /\ pc[o] = "rest" /\ uses[o] > 0 /\ uses' = [uses EXCEPT ![o] = uses[o] - 1]
      /\ UNCHANGED <<env, reg, taken, warned>>
  BY Zenon DEF Use
<1>2. uses[o] \in Nat
  BY Shape, Zenon DEF TypeOK
<1>3. uses[o] - 1 \in Nat
  BY <1>1, <1>2
<1>4. uses' \in [Owners -> Nat]
  BY <1>1, <1>3, Zenon DEF TypeOK
<1> QED
  BY <1>1, <1>4, Zenon DEF TypeOK, Rest, env

(* A step of an owner or a timer that stops nothing and arms nothing.       *)
LEMMA QuietStep ==
  ASSUME IndInv, Rest, UNCHANGED warned, NEW p \in Owners \cup Timers, NEW r, NEW x \in Locals,
         NEW s \in Calm, pc[p] \in Calm, x.jobs = reg[p].jobs, x.job = reg[p].job,
         lim' = [lim EXCEPT ![LimiterOf[p]] = r], reg' = [reg EXCEPT ![p] = x],
         pc' = [pc EXCEPT ![p] = s], LimStep(lim[LimiterOf[p]], r)
  PROVE  IndInv'
<1>1. p \in Procs /\ p \notin Calls
  BY Shape, Zenon
<1>2. Move(pc[p], reg[p], s, x)
  BY <1>1, Locally, CalmMove, Zenon
<1> DEFINE l == LimiterOf[p]
<1>3. l = LimiterOf[p]
  OBVIOUS
<1> HIDE DEF l
<1> QED
  BY <1>1, <1>2, <1>3, ProcStep, Zenon

LEMMA TimerFiresStep ==
  ASSUME IndInv, NEW k \in Timers, TimerFires(k)
  PROVE  IndInv'
<1>1. k \in Procs /\ TypeOK /\ reg[k] \in Locals /\ LimiterOf[k] \in Limiters
      /\ LimStep(lim[LimiterOf[k]], lim[LimiterOf[k]])
  BY Locally, Zenon DEF IndInv, Of, Procs
<1>2. /\ pc[k] \in Calm /\ "flush" \in Calm /\ pc' = [pc EXCEPT ![k] = "flush"]
      /\ UNCHANGED <<lim, reg>> /\ UNCHANGED <<env, ghosts>>
  BY CalmPlaces, Zenon DEF TimerFires, Goto
<1>3. /\ lim' = [lim EXCEPT ![LimiterOf[k]] = lim[LimiterOf[k]]]
      /\ reg' = [reg EXCEPT ![k] = reg[k]] /\ Rest /\ UNCHANGED warned
  BY <1>1, <1>2, SameLim, SameReg, RestKept, Zenon
<1> QED
  BY <1>1, <1>2, <1>3, QuietStep, Zenon

LEMMA SleepStep ==
  ASSUME IndInv, NEW o \in Owners, Sleep(o)
  PROVE  IndInv'
<1>1. o \in Procs /\ TypeOK /\ reg[o] \in Locals /\ LimiterOf[o] \in Limiters
      /\ LimStep(lim[LimiterOf[o]], lim[LimiterOf[o]])
  BY Locally, Zenon DEF IndInv, Of, Procs
<1>2. /\ "flush" \in Calm /\ pc' = [pc EXCEPT ![o] = "flush"] /\ UNCHANGED lim
      /\ Rest /\ UNCHANGED <<reg, warned>> /\ pc[o] \in Calm
  BY <1>1, OfUse, CalmPlaces, Zenon DEF Sleep, Goto
<1>3. /\ lim' = [lim EXCEPT ![LimiterOf[o]] = lim[LimiterOf[o]]]
      /\ reg' = [reg EXCEPT ![o] = reg[o]]
  BY <1>1, <1>2, SameLim, SameReg, Zenon
<1> QED
  BY <1>1, <1>2, <1>3, QuietStep, Zenon

LEMMA CloseStep ==
  ASSUME IndInv, NEW o \in Owners, Close(o)
  PROVE  IndInv'
<1> DEFINE l == LimiterOf[o]
           r == [lim[l] EXCEPT !.closed = TRUE]
           s == IF lim[l].closed THEN "rest" ELSE "flush"
<1>1. o \in Procs /\ TypeOK /\ reg[o] \in Locals /\ l \in Limiters
      /\ lim[l] \in Limiter /\ LimStep(lim[l], lim[l])
  BY Locally, Zenon DEF IndInv, Of, Procs
<1>2. /\ s \in Calm /\ pc' = [pc EXCEPT ![o] = s] /\ lim' = [lim EXCEPT ![l] = r]
      /\ Rest /\ UNCHANGED <<reg, warned>> /\ pc[o] \in Calm
  BY <1>1, OfUse, CalmPlaces, Zenon DEF Close, Goto
<1>3. r \in Limiter /\ r.windows = lim[l].windows /\ r.lastErr = lim[l].lastErr
      /\ r.flushTimer = lim[l].flushTimer /\ r.flushBusy = lim[l].flushBusy
  BY <1>1, Zenon DEF Limiter
<1> HIDE DEF r, s
<1>4. LimStep(lim[l], r)
  BY <1>1, <1>3, Zenon DEF LimStep
<1>5. reg' = [reg EXCEPT ![o] = reg[o]]
  BY <1>1, <1>2, SameReg, Zenon
<1> QED
  BY <1>1, <1>2, <1>4, <1>5, QuietStep, Zenon

LEMMA StopReturnsStep ==
  ASSUME IndInv, NEW o \in Owners, StopReturns(o)
  PROVE  IndInv'
<1> DEFINE l == LimiterOf[o]
           r == [lim[l] EXCEPT !.stopping = FALSE]
           x == [reg[o] EXCEPT !.ref = None]
<1>1. o \in Procs /\ TypeOK /\ reg[o] \in Locals /\ l \in Limiters
      /\ lim[l] \in Limiter /\ LimStep(lim[l], lim[l])
  BY Locally, Zenon DEF IndInv, Of, Procs
<1>2. /\ "rest" \in Calm /\ pc' = [pc EXCEPT ![o] = "rest"] /\ lim' = [lim EXCEPT ![l] = r]
      /\ reg' = [reg EXCEPT ![o] = x] /\ UNCHANGED <<env, ghosts>> /\ pc[o] \in Calm
  BY <1>1, CalmPlaces, Zenon DEF StopReturns, Goto
<1>3. r \in Limiter /\ r.windows = lim[l].windows /\ r.lastErr = lim[l].lastErr
      /\ r.flushTimer = lim[l].flushTimer /\ r.flushBusy = lim[l].flushBusy
  BY <1>1, Zenon DEF Limiter
<1>4. x \in Locals /\ x.jobs = reg[o].jobs /\ x.job = reg[o].job
  BY <1>1, Zenon DEF Locals
<1> HIDE DEF r, x
<1>5. LimStep(lim[l], r)
  BY <1>1, <1>3, Zenon DEF LimStep
<1>6. Rest /\ UNCHANGED warned
  BY <1>1, <1>2, RestKept, Zenon
<1> QED
  BY <1>1, <1>2, <1>4, <1>5, <1>6, QuietStep, Zenon

(* A step that touches no snapshot, no call and no buffer.                  *)
LEMMA Aside ==
  ASSUME IndInv, TypeOK', clock' > 0, UNCHANGED warned,
         \A q \in Procs : /\ reg'[q].jobs = reg[q].jobs /\ reg'[q].job = reg[q].job
                          /\ \/ pc'[q] = pc[q]
                             \/ q \notin Calls /\ {pc[q], pc'[q]} \cap Flushing = {},
         \A c \in Calls : reg'[c] = reg[c],
         \A l \in Limiters : lim'[l].windows = lim[l].windows /\ lim'[l].lastErr = lim[l].lastErr
  PROVE  FlightsOK' /\ CallsOK' /\ ToldOK'
<1>1. TypeOK /\ FlightsOK /\ CallsOK /\ ToldOK
  BY Zenon DEF IndInv
<1>2. \A l \in Limiters : Guards(lim[l].windows, lim'[l].windows)
  BY <1>1, Types, SameWindows, Zenon
<1>3. ASSUME NEW q \in Procs
      PROVE  /\ Held(reg'[q]) \subseteq Held(reg[q])
             /\ Stage(pc'[q], reg'[q]) /\ reg'[q].job \notin reg'[q].jobs
  <2>1. Stage(pc[q], reg[q]) /\ reg[q].job \notin reg[q].jobs
    BY <1>1, Zenon DEF FlightsOK, FlightOK, Single
  <2>2. reg'[q].jobs = reg[q].jobs /\ reg'[q].job = reg[q].job
    BY Zenon
  <2>3. Stage(pc'[q], reg'[q])
    <3>1. CASE pc'[q] = pc[q]
      BY <2>1, <2>2, <3>1, Zenon DEF Stage
    <3>2. CASE pc[q] \notin Flushing /\ pc'[q] \notin Flushing
      BY <2>1, <2>2, <3>2, Zenon DEF Stage, Flushing
    <3> QED
      BY <3>1, <3>2, Zenon
  <2> QED
    BY <2>1, <2>2, <2>3, Zenon DEF Held
<1>4. FlightsOK'
  BY <1>1, <1>2, <1>3, FlightsKept, Zenon
<1>5. ASSUME NEW c \in Calls
      PROVE  /\ pc'[c] = pc[c] /\ reg'[c] = reg[c] /\ lim'[LimiterOf[c]].windows = lim[LimiterOf[c]].windows
             /\ lim'[LimiterOf[c]].lastErr = lim[LimiterOf[c]].lastErr
  BY <1>1, Shape, Types, Zenon
<1>6. CallsOK'
  BY <1>1, <1>5, Zenon DEF CallsOK, Of
<1>7. ToldOK'
  BY <1>1, <1>5, Zenon DEF ToldOK, Of
<1> QED
  BY <1>4, <1>6, <1>7, Zenon

-----------------------------------------------------------------------------
(* Time.                                                                    *)

LEMMA SyncRatePassesStep ==
  ASSUME IndInv, NEW l \in Limiters, SyncRatePasses(l)
  PROVE  IndInv'
<1> DEFINE r == [lim[l] EXCEPT !.fresh = FALSE]
<1>1. /\ TypeOK /\ TimersOK /\ clock > 0 /\ lim[l] \in Limiter
      /\ lim' = [lim EXCEPT ![l] = r] /\ UNCHANGED <<pc, reg>> /\ UNCHANGED <<env, ghosts>>
  BY Zenon DEF IndInv, CallsOK, TypeOK, SyncRatePasses
<1>2. r \in Limiter /\ r.windows = lim[l].windows /\ r.lastErr = lim[l].lastErr
      /\ r.flushTimer = lim[l].flushTimer /\ r.flushBusy = lim[l].flushBusy
  BY <1>1, Zenon DEF Limiter
<1> HIDE DEF r
<1>3. Rest /\ UNCHANGED warned /\ clock' > 0
  BY <1>1, RestKept, Zenon DEF Rest
<1>4. TypeOK'
  BY <1>1, <1>2, <1>3, Zenon DEF TypeOK, Rest
<1>5. \A k \in Limiters : /\ lim'[k].windows = lim[k].windows /\ lim'[k].lastErr = lim[k].lastErr
                          /\ lim'[k].flushTimer = lim[k].flushTimer
                          /\ lim'[k].flushBusy = lim[k].flushBusy
  BY <1>1, <1>2, Zenon DEF TypeOK
<1>6. FlightsOK' /\ CallsOK' /\ ToldOK'
  BY <1>1, <1>3, <1>4, <1>5, Aside, Zenon
<1>7. TimersOK'
  BY <1>1, <1>5, TimersKept, Zenon
<1> QED
  BY <1>4, <1>6, <1>7, Zenon DEF IndInv

LEMMA NextWindowStep ==
  ASSUME IndInv, NextWindow
  PROVE  IndInv'
<1>1. /\ TypeOK /\ TimersOK /\ clock > 0
      /\ UNCHANGED <<lim, pc, reg, warned>> /\ UNCHANGED <<faults, uses, taken>>
  BY Zenon DEF IndInv, CallsOK, NextWindow, ghosts
<1>2. clock' \in Windows /\ clock' > 0
  <2>1. clock \in Windows /\ clock < MaxClock /\ clock' = clock + 1 /\ MaxClock \in Nat
    BY <1>1, Shape, Zenon DEF TypeOK, NextWindow
  <2> QED
    BY <2>1 DEF Windows
<1>3. redis' \in [Windows -> [count : Nat, expireAt : Nat]]
  <2> DEFINE z == [count |-> 0, expireAt |-> 0]
  <2>1. z \in [count : Nat, expireAt : Nat]
    OBVIOUS
  <2> HIDE DEF z
  <2>2. redis' = [w \in Windows |-> IF redis[w].expireAt <= clock + 1 THEN z ELSE redis[w]]
    BY Zenon DEF NextWindow, z
  <2> QED
    BY <1>1, <2>1, <2>2, Zenon DEF TypeOK
<1>4. TypeOK'
  BY <1>1, <1>2, <1>3, Zenon DEF TypeOK
<1>5. FlightsOK' /\ CallsOK' /\ ToldOK'
  BY <1>1, <1>2, <1>4, Aside, Zenon
<1>6. TimersOK'
  BY <1>1, TimersKept, Zenon
<1> QED
  BY <1>4, <1>5, <1>6, Zenon DEF IndInv

LEMMA StutterStep ==
  ASSUME IndInv, UNCHANGED vars
  PROVE  IndInv'
<1>1. /\ TypeOK /\ TimersOK /\ clock > 0
      /\ UNCHANGED <<lim, pc, reg, warned, clock>> /\ UNCHANGED <<redis, faults, uses, taken>>
  BY Zenon DEF IndInv, CallsOK, vars, env, ghosts
<1>2. TypeOK' /\ clock' > 0
  BY <1>1, Zenon DEF TypeOK
<1>3. FlightsOK' /\ CallsOK' /\ ToldOK'
  BY <1>1, <1>2, Aside, Zenon
<1>4. TimersOK'
  BY <1>1, TimersKept, Zenon
<1> QED
  BY <1>2, <1>3, <1>4, Zenon DEF IndInv

-----------------------------------------------------------------------------
(* Timers that are armed, given up or stopped.                              *)
INSTANCE FiniteSetTheorems

(* A step at the timers of limiter l leaves the others alone, and those of  *)
(* l as the invariant wants them.                                           *)
TimersMove(l) ==
  /\ \A k \in Timers : LimiterOf[k] # l => (pc'[k] = "free" <=> pc[k] = "free")
  /\ \A k \in Limiters : k # l => /\ lim'[k].flushTimer = lim[k].flushTimer
                                  /\ lim'[k].flushBusy = lim[k].flushBusy
  /\ \A o \in Owners : LimiterOf[o] # l => pc'[o] = pc[o] /\ reg'[o].ref = reg[o].ref
  /\ lim'[l].flushTimer # None => LimiterOf[lim'[l].flushTimer] = l
  /\ \A o \in Owners : LimiterOf[o] = l /\ pc'[o] = "stopTimer" =>
       reg'[o].ref \in Timers /\ LimiterOf[reg'[o].ref] = l
  /\ IsFiniteSet(Busy(l)') /\ lim'[l].flushBusy = Cardinality(Busy(l)')
  /\ \/ Busy(l)' = {} \/ lim'[l].flushTimer # None
     \/ \E o \in Owners : LimiterOf[o] = l /\ pc'[o] \in Stopping

LEMMA TimersStep ==
  ASSUME IndInv, NEW l \in Limiters, TimersMove(l)
  PROVE  TimersOK'
<1>1. TimersOK
  BY Zenon DEF IndInv
<1>2. \A k \in Limiters : k # l => Busy(k)' = Busy(k)
  BY Zenon DEF Busy, TimersMove
<1>3. \A k \in Limiters : lim'[k].flushTimer # None => LimiterOf[lim'[k].flushTimer] = k
  BY <1>1, Zenon DEF TimersOK, TimersMove
<1>4. \A o \in Owners : pc'[o] = "stopTimer" =>
        reg'[o].ref \in Timers /\ LimiterOf[reg'[o].ref] = LimiterOf[o]
  BY <1>1, Zenon DEF TimersOK, TimersMove
<1>5. \A k \in Limiters : IsFiniteSet(Busy(k)') /\ lim'[k].flushBusy = Cardinality(Busy(k)')
  BY <1>1, <1>2, Zenon DEF TimersOK, TimersMove
<1>6. ASSUME NEW k \in Timers, pc'[k] # "free"
      PROVE  \/ lim'[LimiterOf[k]].flushTimer # None
             \/ \E o \in Owners : LimiterOf[o] = LimiterOf[k] /\ pc'[o] \in {"stopTimer", "wait"}
  <2>1. CASE LimiterOf[k] = l
    <3>1. k \in Busy(l)'
      BY <1>6, <2>1, Zenon DEF Busy
    <3> QED
      BY <2>1, <3>1, Zenon DEF Stopping, TimersMove
  <2>2. CASE LimiterOf[k] # l
    <3>1. pc[k] # "free" /\ LimiterOf[k] \in Limiters
      BY <1>6, <2>2, Shape, Zenon DEF TimersMove
    <3>2. \/ lim[LimiterOf[k]].flushTimer # None
          \/ \E o \in Owners : LimiterOf[o] = LimiterOf[k] /\ pc[o] \in {"stopTimer", "wait"}
      BY <1>1, <3>1, Zenon DEF TimersOK, StoppedIsQuiet, Of
    <3> QED
      BY <2>2, <3>1, <3>2, Zenon DEF TimersMove
  <2> QED
    BY <2>1, <2>2, Zenon
<1>7. StoppedIsQuiet'
  BY <1>6, Zenon DEF StoppedIsQuiet, Of
<1> QED
  BY <1>3, <1>4, <1>5, <1>7, Zenon DEF TimersOK

LEMMA OfTimers ==
  ASSUME IndInv, NEW l \in Limiters
  PROVE  /\ lim[l] \in Limiter /\ IsFiniteSet(Busy(l)) /\ lim[l].flushBusy = Cardinality(Busy(l))
         /\ lim[l].flushTimer # None => lim[l].flushTimer \in Timers /\ LimiterOf[lim[l].flushTimer] = l
         /\ Busy(l) # {} => \/ lim[l].flushTimer # None
                            \/ \E o \in Owners : LimiterOf[o] = l /\ pc[o] \in Stopping
<1>1. TypeOK /\ TimersOK
  BY Zenon DEF IndInv
<1>2. lim[l] \in Limiter
  BY <1>1, Zenon DEF TypeOK
<1>3. lim[l].flushTimer # None => lim[l].flushTimer \in Timers
  BY <1>2, Zenon DEF Limiter
<1>4. ASSUME Busy(l) # {}
      PROVE  \/ lim[l].flushTimer # None
             \/ \E o \in Owners : LimiterOf[o] = l /\ pc[o] \in Stopping
  <2>1. PICK k \in Timers : LimiterOf[k] = l /\ pc[k] # "free"
    BY <1>4, Zenon DEF Busy
  <2> QED
    BY <1>1, <2>1, Zenon DEF TimersOK, StoppedIsQuiet, Of, Stopping
<1> QED
  BY <1>1, <1>2, <1>3, <1>4, Zenon DEF TimersOK

(* One tick or armed timer fewer, and one fewer in flushBusy.               *)
LEMMA OneFewer ==
  ASSUME IndInv, NEW l \in Limiters, NEW k \in Busy(l), Busy(l)' = Busy(l) \ {k},
         lim'[l].flushBusy = lim[l].flushBusy - 1
  PROVE  /\ lim[l].flushBusy - 1 \in Nat /\ IsFiniteSet(Busy(l)')
         /\ lim'[l].flushBusy = Cardinality(Busy(l)')
<1>1. IsFiniteSet(Busy(l)) /\ lim[l].flushBusy = Cardinality(Busy(l))
  BY OfTimers, Zenon
<1>2. IsFiniteSet(Busy(l) \ {k}) /\ Cardinality(Busy(l) \ {k}) = Cardinality(Busy(l)) - 1
  BY <1>1, FS_RemoveElement, Zenon
<1>3. Cardinality(Busy(l) \ {k}) \in Nat
  BY <1>2, FS_CardinalityType, Zenon
<1> QED
  BY <1>1, <1>2, <1>3, Zenon

LEMMA LeaveStep ==
  ASSUME IndInv, NEW l \in Limiters, NEW k \in Busy(l), pc[k] \notin Flushing,
         NEW o \in Procs, o \notin Calls, LimiterOf[o] = l, pc[o] \notin Flushing,
         NEW s \in Pcs \ Flushing, s # "free",
         \/ o = k /\ pc' = [pc EXCEPT ![k] = "free"]
         \/ /\ o \in Owners /\ pc[o] = "stopTimer" /\ s = "wait"
            /\ pc' = [pc EXCEPT ![o] = s, ![k] = "free"],
         lim' = [lim EXCEPT ![l].flushBusy = lim[l].flushBusy - 1],
         UNCHANGED reg, UNCHANGED <<env, ghosts>>
  PROVE  IndInv'
<1> DEFINE r == [lim[l] EXCEPT !.flushBusy = lim[l].flushBusy - 1]
<1>1. TypeOK /\ TimersOK /\ clock > 0 /\ lim[l] \in Limiter
      /\ k \in Timers /\ LimiterOf[k] = l /\ pc[k] # "free" /\ k \in Procs /\ k \notin Calls /\ k \notin Owners
  BY OfTimers, Shape, Zenon DEF IndInv, CallsOK, Busy
<1>2. lim' = [lim EXCEPT ![l] = r] /\ r.flushBusy = lim[l].flushBusy - 1
      /\ r.windows = lim[l].windows /\ r.lastErr = lim[l].lastErr /\ r.flushTimer = lim[l].flushTimer
  BY <1>1, Zenon DEF Limiter
<1>3. lim[l].flushBusy - 1 \in Nat => r \in Limiter
  BY <1>1, Zenon DEF Limiter
<1> HIDE DEF r
<1>4. lim'[l] = r /\ \A m \in Limiters : m # l => lim'[m] = lim[m]
  BY <1>1, <1>2, Zenon DEF TypeOK
<1>5. /\ pc'[k] = "free" /\ pc' \in [Procs -> Pcs]
      /\ \A q \in Procs : q # k /\ q # o => pc'[q] = pc[q]
      /\ o = k \/ (o \in Owners /\ pc[o] = "stopTimer" /\ pc'[o] = "wait")
  <2>1. "free" \in Pcs /\ "wait" \in Pcs /\ pc \in [Procs -> Pcs]
    BY <1>1, Zenon DEF Pcs, TypeOK
  <2> QED
    BY <1>1, <2>1, Zenon
<1>6. Busy(l)' = Busy(l) \ {k}
  <2>1. \A t \in Timers : t # k => pc'[t] = pc[t]
    BY <1>1, <1>5, Shape, Zenon
  <2> QED
    BY <1>5, <2>1, Zenon DEF Busy
<1>7. /\ lim[l].flushBusy - 1 \in Nat /\ IsFiniteSet(Busy(l)')
      /\ lim'[l].flushBusy = Cardinality(Busy(l)')
  BY <1>2, <1>4, <1>6, OneFewer, Zenon
<1>8. Rest /\ UNCHANGED warned /\ clock' > 0
  BY <1>1, RestKept, Zenon DEF Rest
<1>9. TypeOK'
  BY <1>1, <1>2, <1>3, <1>5, <1>7, <1>8, Zenon DEF TypeOK, Rest
<1>10. FlightsOK' /\ CallsOK' /\ ToldOK'
  <2>1. "free" \notin Flushing /\ "wait" \notin Flushing
    BY Zenon DEF Flushing
  <2>2. \A q \in Procs : \/ pc'[q] = pc[q]
                         \/ q \notin Calls /\ {pc[q], pc'[q]} \cap Flushing = {}
    BY <1>1, <1>5, <2>1, Zenon
  <2>3. \A m \in Limiters : lim'[m].windows = lim[m].windows /\ lim'[m].lastErr = lim[m].lastErr
    BY <1>2, <1>4, Zenon
  <2> QED
    BY <1>8, <1>9, <2>2, <2>3, Aside, Zenon
<1>11. Busy(l)' = {} \/ lim'[l].flushTimer # None
         \/ \E u \in Owners : LimiterOf[u] = l /\ pc'[u] \in Stopping
  <2>1. \/ lim[l].flushTimer # None
        \/ \E u \in Owners : LimiterOf[u] = l /\ pc[u] \in Stopping
    BY OfTimers, Zenon
  <2>2. \A u \in Owners : pc[u] \in Stopping => pc'[u] \in Stopping
    BY <1>1, <1>5, Shape, Zenon DEF Stopping
  <2> QED
    BY <1>2, <1>4, <2>1, <2>2, Zenon
<1>12. TimersOK'
  <2>1. \A t \in Timers : LimiterOf[t] # l => (pc'[t] = "free" <=> pc[t] = "free")
    BY <1>1, <1>5, Shape, Zenon
  <2>2. \A u \in Owners : /\ LimiterOf[u] # l => pc'[u] = pc[u] /\ reg'[u].ref = reg[u].ref
                          /\ pc'[u] = "stopTimer" => pc[u] = "stopTimer" /\ reg'[u].ref = reg[u].ref
    BY <1>1, <1>5, Shape, Zenon
  <2>3. \A u \in Owners : LimiterOf[u] = l /\ pc'[u] = "stopTimer" =>
          reg'[u].ref \in Timers /\ LimiterOf[reg'[u].ref] = l
    BY <1>1, <2>2, Zenon DEF TimersOK
  <2>4. lim'[l].flushTimer # None => LimiterOf[lim'[l].flushTimer] = l
    BY <1>2, <1>4, OfTimers, ZenonT(60)
  <2>5. \A m \in Limiters : m # l => /\ lim'[m].flushTimer = lim[m].flushTimer
                                     /\ lim'[m].flushBusy = lim[m].flushBusy
    BY <1>4, Zenon
  <2>6. TimersMove(l)
    BY <1>7, <1>11, <2>1, <2>2, <2>3, <2>4, <2>5, Zenon DEF TimersMove
  <2> QED
    BY <2>6, TimersStep, Zenon
<1> QED
  BY <1>9, <1>10, <1>12, Zenon DEF IndInv

(* Sleep or Close moves on, and no timer does.                              *)
LEMMA OwnerStops ==
  ASSUME IndInv, NEW o \in Owners, pc[o] \notin Flushing, NEW s \in Pcs \ Flushing,
         NEW l \in Limiters, l = LimiterOf[o], NEW r \in Limiter, NEW x \in Locals,
         pc' = [pc EXCEPT ![o] = s], lim' = [lim EXCEPT ![l] = r], reg' = [reg EXCEPT ![o] = x],
         r.windows = lim[l].windows, r.lastErr = lim[l].lastErr, r.flushBusy = lim[l].flushBusy,
         x.jobs = reg[o].jobs, x.job = reg[o].job, UNCHANGED <<env, ghosts>>,
         r.flushTimer # None => r.flushTimer = lim[l].flushTimer,
         s = "stopTimer" => x.ref \in Timers /\ LimiterOf[x.ref] = l,
         Busy(l) = {} \/ r.flushTimer # None \/ s \in Stopping
           \/ (pc[o] \notin Stopping /\ lim[l].flushTimer = None)
  PROVE  IndInv'
<1>1. TypeOK /\ TimersOK /\ clock > 0 /\ o \in Procs /\ o \notin Calls /\ o \notin Timers
  BY Shape, Zenon DEF IndInv, CallsOK
<1>2. lim'[l] = r /\ \A m \in Limiters : m # l => lim'[m] = lim[m]
  BY <1>1, Zenon DEF TypeOK
<1>3. /\ pc'[o] = s /\ \A q \in Procs : q # o => pc'[q] = pc[q]
      /\ reg'[o] = x /\ \A q \in Procs : q # o => reg'[q] = reg[q]
  BY <1>1, Zenon DEF TypeOK
<1>4. Rest /\ UNCHANGED warned /\ clock' > 0
  BY <1>1, RestKept, Zenon DEF Rest
<1>5. TypeOK'
  BY <1>1, <1>4, StepTypes, Zenon
<1>6. FlightsOK' /\ CallsOK' /\ ToldOK'
  <2>1. \A q \in Procs : /\ reg'[q].jobs = reg[q].jobs /\ reg'[q].job = reg[q].job
                         /\ \/ pc'[q] = pc[q]
                            \/ q \notin Calls /\ {pc[q], pc'[q]} \cap Flushing = {}
    <3> TAKE q \in Procs
    <3>1. CASE q = o
      <4>1. s \notin Flushing /\ pc[q] \notin Flushing /\ pc'[q] = s
        BY <1>3, <3>1, Zenon
      <4>2. {pc[q], pc'[q]} \cap Flushing = {}
        BY <4>1, Zenon
      <4>3. reg'[q].jobs = reg[q].jobs /\ reg'[q].job = reg[q].job
        BY <1>3, <3>1, Zenon
      <4> QED
        BY <1>1, <3>1, <4>2, <4>3, Zenon
    <3>2. CASE q # o
      BY <1>3, <3>2, Zenon
    <3> QED
      BY <3>1, <3>2, Zenon
  <2>2. \A c \in Calls : reg'[c] = reg[c]
    BY <1>1, <1>3, Shape, Zenon
  <2>3. \A m \in Limiters : lim'[m].windows = lim[m].windows /\ lim'[m].lastErr = lim[m].lastErr
    BY <1>2, Zenon
  <2> QED
    BY <1>4, <1>5, <2>1, <2>2, <2>3, Aside, Zenon
<1>7. \A t \in Timers : pc'[t] = pc[t]
  BY <1>1, <1>3, Shape, Zenon
<1>8. Busy(l)' = Busy(l)
  BY <1>7, Zenon DEF Busy
<1>9. IsFiniteSet(Busy(l)') /\ lim'[l].flushBusy = Cardinality(Busy(l)')
  BY <1>2, <1>8, OfTimers, ZenonT(60)
<1>10. /\ lim[l].flushTimer # None => LimiterOf[lim[l].flushTimer] = l
       /\ \A u \in Owners : pc[u] = "stopTimer" =>
            reg[u].ref \in Timers /\ LimiterOf[reg[u].ref] = LimiterOf[u]
  BY <1>1, Zenon DEF TimersOK
<1>11. Busy(l)' = {} \/ lim'[l].flushTimer # None
         \/ \E u \in Owners : LimiterOf[u] = l /\ pc'[u] \in Stopping
  <2>1. CASE pc[o] \notin Stopping /\ lim[l].flushTimer = None /\ Busy(l) # {}
    <3>1. PICK u \in Owners : LimiterOf[u] = l /\ pc[u] \in Stopping
      BY <2>1, OfTimers, Zenon
    <3>2. u # o /\ u \in Procs
      BY <2>1, <3>1, Shape, Zenon
    <3> QED
      BY <1>3, <3>1, <3>2, Zenon
  <2>2. CASE Busy(l) = {} \/ r.flushTimer # None \/ s \in Stopping
    BY <1>2, <1>3, <1>8, <2>2, Zenon
  <2> QED
    BY <2>1, <2>2, Zenon
<1>12. TimersOK'
  <2>1. \A u \in Owners : /\ u = o => pc'[u] = s /\ reg'[u] = x
                          /\ u # o => pc'[u] = pc[u] /\ reg'[u] = reg[u]
    BY <1>1, <1>3, Shape, Zenon
  <2>2. \A u \in Owners : LimiterOf[u] = l /\ pc'[u] = "stopTimer" =>
          reg'[u].ref \in Timers /\ LimiterOf[reg'[u].ref] = l
    <3> TAKE u \in Owners
    <3>1. CASE u = o
      BY <2>1, <3>1, Zenon
    <3>2. CASE u # o
      <4>1. pc'[u] = pc[u] /\ reg'[u] = reg[u]
        BY <2>1, <3>2, Zenon
      <4> QED
        BY <1>10, <4>1, Zenon
    <3> QED
      BY <3>1, <3>2, Zenon
  <2>3. lim'[l].flushTimer # None => LimiterOf[lim'[l].flushTimer] = l
    <3>1. r.flushTimer # None => LimiterOf[r.flushTimer] = l
      BY <1>10, Zenon
    <3> QED
      BY <1>2, <3>1, Zenon
  <2>4. \A t \in Timers : LimiterOf[t] # l => (pc'[t] = "free" <=> pc[t] = "free")
    BY <1>7, Zenon
  <2>5. \A m \in Limiters : m # l => /\ lim'[m].flushTimer = lim[m].flushTimer
                                     /\ lim'[m].flushBusy = lim[m].flushBusy
    BY <1>2, Zenon
  <2>6. \A u \in Owners : LimiterOf[u] # l => pc'[u] = pc[u] /\ reg'[u].ref = reg[u].ref
    BY <2>1, Zenon
  <2>7. TimersMove(l)
    BY <1>9, <1>11, <2>2, <2>3, <2>4, <2>5, <2>6, Zenon DEF TimersMove
  <2> QED
    BY <2>7, TimersStep, Zenon
<1> QED
  BY <1>5, <1>6, <1>12, Zenon DEF IndInv

LEMMA DetachTimerStep ==
  ASSUME IndInv, NEW o \in Owners, DetachTimer(o)
  PROVE  IndInv'
<1> DEFINE l == LimiterOf[o]
           k == lim[l].flushTimer
           b == k # None
           r == [lim[l] EXCEPT !.stopping = b, !.flushTimer = None]
           x == [reg[o] EXCEPT !.ref = k]
           s == IF k = None THEN "rest" ELSE "stopTimer"
<1>1. /\ o \in Procs /\ l \in Limiters /\ lim[l] \in Limiter /\ reg[o] \in Locals
      /\ k \in Timers \cup {None} /\ (k # None => LimiterOf[k] = l)
  <2>1. /\ o \in Procs /\ l \in Limiters /\ lim[l] \in Limiter /\ reg[o] \in Locals
    BY Locally, Shape, Zenon DEF Of
  <2> QED
    BY <2>1, OfTimers, Zenon
<1>2. /\ pc[o] = "stop" /\ pc' = [pc EXCEPT ![o] = s] /\ lim' = [lim EXCEPT ![l] = r]
      /\ reg' = [reg EXCEPT ![o] = x] /\ UNCHANGED <<env, ghosts>>
  BY <1>1, Zenon DEF DetachTimer, Goto
<1>3. /\ r \in Limiter /\ r.windows = lim[l].windows /\ r.lastErr = lim[l].lastErr
      /\ r.flushBusy = lim[l].flushBusy /\ r.flushTimer = None
  <2>1. b \in BOOLEAN
    BY Zenon
  <2> HIDE DEF b, k
  <2> QED
    BY <1>1, <2>1, Zenon DEF Limiter
<1>4. x \in Locals /\ x.ref = k /\ x.jobs = reg[o].jobs /\ x.job = reg[o].job
  BY <1>1, Zenon DEF Locals
<1> HIDE DEF r, x
<1>5. /\ s \in Pcs \ Flushing /\ (k = None => s = "rest") /\ (k # None => s = "stopTimer")
      /\ pc[o] \notin Flushing /\ pc[o] \notin Stopping
  BY <1>2, Zenon DEF Pcs, Flushing, Stopping
<1>6. s = "stopTimer" => x.ref \in Timers /\ LimiterOf[x.ref] = l
  BY <1>1, <1>4, <1>5, Zenon
<1>7. s \in Stopping \/ lim[l].flushTimer = None
  BY <1>5, Zenon DEF Stopping
<1> HIDE DEF s
<1>8. l = LimiterOf[o]
  OBVIOUS
<1> HIDE DEF l
<1> QED
  BY <1>1, <1>2, <1>3, <1>4, <1>5, <1>6, <1>7, <1>8, OwnerStops, Zenon

LEMMA WaitForTickStep ==
  ASSUME IndInv, NEW o \in Owners, WaitForTick(o)
  PROVE  IndInv'
<1> DEFINE l == LimiterOf[o]
<1>1. o \in Procs /\ l \in Limiters /\ lim[l] \in Limiter /\ reg[o] \in Locals /\ TypeOK
  BY Locally, Shape, Zenon DEF Of, IndInv
<1>2. /\ pc[o] = "wait" /\ pc' = [pc EXCEPT ![o] = "unstop"] /\ UNCHANGED <<env, ghosts>>
  BY Zenon DEF WaitForTick, Goto, Of
<1>3. Busy(l) = {}
  <2>1. lim[l].flushBusy = 0
    BY Zenon DEF WaitForTick, Of
  <2> QED
    BY <1>1, <2>1, OfTimers, FS_EmptySet, Zenon
<1>4. "unstop" \in Pcs \ Flushing /\ pc[o] \notin Flushing /\ "unstop" # "stopTimer"
  BY <1>2, Zenon DEF Pcs, Flushing
<1>5. lim' = [lim EXCEPT ![l] = lim[l]] /\ reg' = [reg EXCEPT ![o] = reg[o]]
  BY <1>1, SameLim, SameReg, Zenon DEF WaitForTick
<1>6. l = LimiterOf[o]
  OBVIOUS
<1> HIDE DEF l
<1> QED
  BY <1>1, <1>2, <1>3, <1>4, <1>5, <1>6, OwnerStops, Zenon

LEMMA StopTimerStep ==
  ASSUME IndInv, NEW o \in Owners, StopTimer(o)
  PROVE  IndInv'
<1> DEFINE l == LimiterOf[o]
           k == reg[o].ref
<1>1. /\ o \in Procs /\ l \in Limiters /\ lim[l] \in Limiter /\ reg[o] \in Locals /\ TypeOK
      /\ TimersOK /\ o \notin Calls
  BY Locally, Shape, Zenon DEF Of, IndInv
<1>2. pc[o] = "stopTimer" /\ UNCHANGED reg /\ UNCHANGED <<env, ghosts>>
  BY Zenon DEF StopTimer
<1>3. k \in Timers /\ LimiterOf[k] = l /\ k # o /\ k \in Procs
  BY <1>1, <1>2, Shape, Zenon DEF TimersOK
<1>4. /\ "wait" \in Pcs \ Flushing /\ "wait" # "free" /\ pc[o] \notin Flushing
      /\ "wait" # "stopTimer" /\ "wait" \in Stopping
  BY <1>2, Zenon DEF Pcs, Flushing, Stopping
<1>5. CASE pc[k] = "armed"
  <2>1. lim' = [lim EXCEPT ![l].flushBusy = lim[l].flushBusy - 1]
    BY <1>1, <1>5, Zenon DEF StopTimer, Done
  <2>2. pc' = [pc EXCEPT ![o] = "wait", ![k] = "free"]
    BY <1>1, <1>5, Zenon DEF StopTimer
  <2>3. k \in Busy(l) /\ pc[k] \notin Flushing
    BY <1>3, <1>5, Zenon DEF Busy, Flushing
  <2>4. LimiterOf[o] = l
    OBVIOUS
  <2> HIDE DEF k, l
  <2> QED
    BY <1>1, <1>2, <1>4, <2>1, <2>2, <2>3, <2>4, LeaveStep, Zenon
<1>6. CASE pc[k] # "armed"
  <2> DEFINE r == [lim[l] EXCEPT !.flushBusy = lim[l].flushBusy - 0]
  <2>1. lim' = [lim EXCEPT ![l] = r]
    BY <1>1, <1>6, Zenon DEF StopTimer, Done
  <2>2. lim[l].flushBusy - 0 = lim[l].flushBusy
    BY <1>1 DEF Limiter
  <2>3. r = lim[l]
    BY <1>1, <2>2, Zenon DEF Limiter
  <2>4. pc' = [pc EXCEPT ![o] = "wait"]
    <3>1. pc' = [pc EXCEPT ![o] = "wait", ![k] = pc[k]]
      BY <1>6, Zenon DEF StopTimer
    <3> QED
      BY <1>1, <1>3, <3>1, Zenon DEF TypeOK
  <2>5. reg' = [reg EXCEPT ![o] = reg[o]]
    BY <1>1, <1>2, SameReg, Zenon
  <2>6. l = LimiterOf[o] /\ lim' = [lim EXCEPT ![l] = lim[l]]
    BY <2>1, <2>3, Zenon
  <2> HIDE DEF l, k, r
  <2> QED
    BY <1>1, <1>2, <1>4, <2>4, <2>5, <2>6, OwnerStops, Zenon
<1> QED
  BY <1>5, <1>6, Zenon

(* A timer is armed, and becomes the limiter's flushTimer.                  *)
Arms(l, n, r) ==
  /\ lim' = [lim EXCEPT ![l] = r] /\ r.flushTimer = n
  /\ r.windows = lim[l].windows /\ r.lastErr = lim[l].lastErr
  /\ Rest /\ UNCHANGED <<reg, warned>> /\ pc' \in [Procs -> Pcs] /\ pc'[n] = "armed"
  /\ \A q \in Procs : pc'[q] # pc[q] => q = n \/ (q \in Timers /\ pc[q] = "tickEnd" /\ pc'[q] = "free")
  /\ \A q \in Timers : pc'[q] # pc[q] => LimiterOf[q] = l
  /\ IsFiniteSet(Busy(l)') /\ r.flushBusy = Cardinality(Busy(l)')

(* Arming keeps the invariant.                                              *)
LEMMA ArmStep ==
  ASSUME IndInv, NEW l \in Limiters, NEW n \in FreeTimers(l), NEW r \in Limiter, Arms(l, n, r)
  PROVE  IndInv'
<1>a. /\ lim' = [lim EXCEPT ![l] = r] /\ r.flushTimer = n
      /\ r.windows = lim[l].windows /\ r.lastErr = lim[l].lastErr
      /\ Rest /\ UNCHANGED <<reg, warned>> /\ pc' \in [Procs -> Pcs] /\ pc'[n] = "armed"
      /\ \A q \in Procs : pc'[q] # pc[q] => q = n \/ (q \in Timers /\ pc[q] = "tickEnd" /\ pc'[q] = "free")
      /\ \A q \in Timers : pc'[q] # pc[q] => LimiterOf[q] = l
      /\ IsFiniteSet(Busy(l)') /\ r.flushBusy = Cardinality(Busy(l)')
  BY Zenon DEF Arms
<1> USE <1>a
<1>1. /\ TypeOK /\ TimersOK /\ clock > 0 /\ n \in Timers /\ LimiterOf[n] = l /\ pc[n] = "free"
      /\ n \in Procs
  BY Shape, Zenon DEF IndInv, CallsOK, FreeTimers
<1>2. lim'[l] = r /\ \A m \in Limiters : m # l => lim'[m] = lim[m]
  BY <1>1, Zenon DEF TypeOK
<1>3. TypeOK'
  <2>1. lim' \in [Limiters -> Limiter]
    BY <1>1, Zenon DEF TypeOK
  <2> QED
    BY <1>1, <2>1, Zenon DEF TypeOK, Rest
<1>4. clock' > 0
  BY <1>1, Zenon DEF Rest
<1>5. FlightsOK' /\ CallsOK' /\ ToldOK'
  <2>1. ASSUME NEW q \in Procs, pc'[q] # pc[q]
        PROVE  q \notin Calls /\ {pc[q], pc'[q]} \cap Flushing = {}
    <3>1. q \in Timers /\ pc[q] \in {"free", "tickEnd"} /\ pc'[q] \in {"free", "armed"}
      <4>1. CASE q = n
        BY <1>1, <4>1, Zenon
      <4>2. CASE q # n
        BY <2>1, <4>2, Zenon
      <4> QED
        BY <4>1, <4>2, Zenon
    <3>2. pc[q] \notin Flushing /\ pc'[q] \notin Flushing
      BY <3>1, Zenon DEF Flushing
    <3>3. q \notin Calls
      BY <3>1, Shape, Zenon
    <3>4. {pc[q], pc'[q]} \cap Flushing = {}
      BY <3>2, Zenon
    <3> QED
      BY <3>3, <3>4, Zenon
  <2>2. \A m \in Limiters : lim'[m].windows = lim[m].windows /\ lim'[m].lastErr = lim[m].lastErr
    BY <1>2, Zenon
  <2>3. \A q \in Procs : /\ reg'[q].jobs = reg[q].jobs /\ reg'[q].job = reg[q].job
                         /\ \/ pc'[q] = pc[q]
                            \/ q \notin Calls /\ {pc[q], pc'[q]} \cap Flushing = {}
    BY <2>1, Zenon
  <2> QED
    BY <1>3, <1>4, <2>2, <2>3, Aside, Zenon
<1>6. TimersMove(l)
  <2>1. \A o \in Owners : pc'[o] = pc[o] /\ reg'[o].ref = reg[o].ref
    BY <1>1, Shape, Zenon
  <2>2. \A k \in Timers : LimiterOf[k] # l => (pc'[k] = "free" <=> pc[k] = "free")
    BY Zenon
  <2>3. \A k \in Limiters : k # l => /\ lim'[k].flushTimer = lim[k].flushTimer
                                     /\ lim'[k].flushBusy = lim[k].flushBusy
    BY <1>2, Zenon
  <2>4. \A o \in Owners : LimiterOf[o] = l /\ pc'[o] = "stopTimer" =>
          reg'[o].ref \in Timers /\ LimiterOf[reg'[o].ref] = l
    <3>1. \A o \in Owners : pc[o] = "stopTimer" =>
            reg[o].ref \in Timers /\ LimiterOf[reg[o].ref] = LimiterOf[o]
      BY <1>1, Zenon DEF TimersOK
    <3> QED
      BY <2>1, <3>1, Zenon
  <2>5. /\ lim'[l].flushTimer = n /\ n # None /\ LimiterOf[n] = l
        /\ lim'[l].flushBusy = Cardinality(Busy(l)')
    BY <1>1, <1>2, Shape, Zenon
  <2>6. lim'[l].flushTimer # None /\ LimiterOf[lim'[l].flushTimer] = l
    BY <2>5, Zenon
  <2> QED
    BY <2>1, <2>2, <2>3, <2>4, <2>5, <2>6, Zenon DEF TimersMove
<1>7. TimersOK'
  BY <1>6, TimersStep, Zenon
<1> QED
  BY <1>3, <1>5, <1>7, Zenon DEF IndInv

LEMMA OfFree ==
  ASSUME NEW l, NEW n \in FreeTimers(l)
  PROVE  n \in Timers /\ LimiterOf[n] = l /\ pc[n] = "free" /\ n \notin Busy(l) /\ n \in Procs
  BY Shape, Zenon DEF FreeTimers, Busy

LEMMA TickEndsStep ==
  ASSUME IndInv, NEW k \in Timers, TickEnds(k)
  PROVE  IndInv'
<1> DEFINE l == LimiterOf[k]
<1>1. /\ TypeOK /\ k \in Procs /\ k \notin Calls /\ l \in Limiters /\ lim[l] \in Limiter
      /\ LimiterOf[k] = l
  BY Locally, Shape, Zenon DEF IndInv, Of
<1>2. /\ pc[k] = "tickEnd" /\ UNCHANGED reg /\ UNCHANGED <<env, ghosts>>
      /\ k \in Busy(l) /\ pc[k] \notin Flushing
  BY <1>1, Zenon DEF TickEnds, Busy, Flushing
<1>3. CASE /\ lim' = [lim EXCEPT ![l].flushBusy = lim[l].flushBusy - 1]
           /\ pc' = [pc EXCEPT ![k] = "free"]
  <2>1. "rest" \in Pcs \ Flushing /\ "rest" # "free"
    BY Zenon DEF Pcs, Flushing
  <2> HIDE DEF l
  <2> QED
    BY <1>1, <1>2, <1>3, <2>1, LeaveStep, Zenon
<1>4. ASSUME NEW n \in FreeTimers(l),
             lim' = [lim EXCEPT ![l].flushTimer = n], pc' = [pc EXCEPT ![k] = "free", ![n] = "armed"]
      PROVE  IndInv'
  <2> DEFINE r == [lim[l] EXCEPT !.flushTimer = n]
  <2>1. n \in Timers /\ LimiterOf[n] = l /\ pc[n] = "free" /\ n \notin Busy(l) /\ n \in Procs /\ n # k
    BY <1>2, OfFree, Zenon
  <2>2. /\ r \in Limiter /\ r.flushTimer = n /\ lim' = [lim EXCEPT ![l] = r]
        /\ r.windows = lim[l].windows /\ r.lastErr = lim[l].lastErr /\ r.flushBusy = lim[l].flushBusy
    BY <1>1, <1>4, <2>1, Zenon DEF Limiter
  <2> HIDE DEF r, l
  <2>3. /\ pc'[n] = "armed" /\ pc'[k] = "free"
        /\ \A q \in Procs : q # n /\ q # k => pc'[q] = pc[q]
        /\ pc' \in [Procs -> Pcs]
    <3>1. pc \in [Procs -> Pcs] /\ "free" \in Pcs /\ "armed" \in Pcs
      BY <1>1, Zenon DEF TypeOK, Pcs
    <3> QED
      BY <1>1, <1>4, <2>1, <3>1, Zenon
  <2>4. Busy(l)' = (Busy(l) \ {k}) \cup {n}
    <3>1. \A t \in Timers : t # n /\ t # k => pc'[t] = pc[t]
      BY <2>3, Shape, Zenon
    <3>2. "armed" # "free"
      OBVIOUS
    <3> QED
      BY <1>1, <1>2, <2>1, <2>3, <3>1, <3>2, Zenon DEF Busy
  <2>5. IsFiniteSet(Busy(l)') /\ r.flushBusy = Cardinality(Busy(l)')
    <3>1. IsFiniteSet(Busy(l)) /\ lim[l].flushBusy = Cardinality(Busy(l))
      BY <1>1, OfTimers, Zenon
    <3>2. IsFiniteSet(Busy(l) \ {k}) /\ Cardinality(Busy(l) \ {k}) = Cardinality(Busy(l)) - 1
      BY <1>2, <3>1, FS_RemoveElement, Zenon
    <3>3. n \notin Busy(l) \ {k}
      BY <2>1, Zenon
    <3>4. /\ IsFiniteSet((Busy(l) \ {k}) \cup {n})
          /\ Cardinality((Busy(l) \ {k}) \cup {n}) = Cardinality(Busy(l) \ {k}) + 1
      BY <3>2, <3>3, FS_AddElement, Zenon
    <3>5. Cardinality(Busy(l)) \in Nat
      BY <3>1, FS_CardinalityType, Zenon
    <3>6. ASSUME NEW a \in Nat, NEW b, b = a - 1 PROVE b + 1 = a
      BY <3>6
    <3>7. Cardinality(Busy(l) \ {k}) + 1 = Cardinality(Busy(l))
      BY <3>2, <3>5, <3>6, Zenon
    <3> QED
      BY <2>2, <2>4, <3>1, <3>4, <3>7, Zenon
  <2>6. Rest /\ UNCHANGED <<reg, warned>>
    BY <1>1, <1>2, RestKept, Zenon
  <2>7. /\ \A q \in Procs : pc'[q] # pc[q] =>
             q = n \/ (q \in Timers /\ pc[q] = "tickEnd" /\ pc'[q] = "free")
        /\ \A q \in Timers : pc'[q] # pc[q] => LimiterOf[q] = l
    BY <1>1, <1>2, <2>1, <2>3, Shape, Zenon
  <2>8. lim' = [lim EXCEPT ![l] = r] /\ r.windows = lim[l].windows /\ r.lastErr = lim[l].lastErr
    BY <2>2, Zenon
  <2>9. r \in Limiter /\ r.flushTimer = n /\ pc'[n] = "armed" /\ pc' \in [Procs -> Pcs]
    BY <2>2, <2>3, Zenon
  <2> QED
    <3>1. Arms(l, n, r)
      BY <2>5, <2>6, <2>7, <2>8, <2>9, Zenon DEF Arms
    <3> QED
      BY <1>1, <1>4, <2>9, <3>1, ArmStep, Zenon
<1> QED
  BY <1>1, <1>3, <1>4, Zenon DEF TickEnds, Goto

LEMMA WakeStep ==
  ASSUME IndInv, NEW o \in Owners, Wake(o)
  PROVE  IndInv'
<1> DEFINE l == LimiterOf[o]
<1>1. /\ TypeOK /\ o \in Procs /\ l \in Limiters /\ lim[l] \in Limiter /\ reg[o] \in Locals
      /\ LimStep(lim[l], lim[l])
  BY Locally, Shape, Zenon DEF IndInv, Of
<1>2. Rest /\ UNCHANGED <<reg, warned>> /\ pc[o] = "rest"
  BY <1>1, OfUse, Zenon DEF Wake
<1>3. CASE UNCHANGED <<lim, pc>>
  <2>1. "rest" \in Calm
    BY CalmPlaces, Zenon
  <2>2. /\ lim' = [lim EXCEPT ![l] = lim[l]] /\ reg' = [reg EXCEPT ![o] = reg[o]]
        /\ pc' = [pc EXCEPT ![o] = "rest"]
    BY <1>1, <1>2, <1>3, SameLim, SameReg, Zenon DEF TypeOK
  <2> QED
    BY <1>1, <1>2, <2>1, <2>2, QuietStep, Zenon
<1>4. ASSUME NEW n \in FreeTimers(l), pc' = [pc EXCEPT ![n] = "armed"],
             lim' = [lim EXCEPT ![l] =
               [lim[l] EXCEPT !.flushBusy = lim[l].flushBusy + 1, !.flushTimer = n]]
      PROVE  IndInv'
  <2> DEFINE b == lim[l].flushBusy + 1
             r == [lim[l] EXCEPT !.flushBusy = b, !.flushTimer = n]
  <2>1. n \in Timers /\ LimiterOf[n] = l /\ pc[n] = "free" /\ n \notin Busy(l) /\ n \in Procs
    BY OfFree, Zenon
  <2>2. b \in Nat
    BY <1>1 DEF Limiter
  <2>3. lim' = [lim EXCEPT ![l] = r]
    BY <1>4, Zenon
  <2> HIDE DEF l
  <2>4. IsFiniteSet(Busy(l)') /\ b = Cardinality(Busy(l)')
    <3>1. IsFiniteSet(Busy(l)) /\ lim[l].flushBusy = Cardinality(Busy(l))
      BY <1>1, OfTimers, Zenon
    <3>2. /\ IsFiniteSet(Busy(l) \cup {n}) /\ Cardinality(Busy(l) \cup {n}) = Cardinality(Busy(l)) + 1
      BY <2>1, <3>1, FS_AddElement, Zenon
    <3>3. Busy(l)' = Busy(l) \cup {n}
      <4>1. pc'[n] = "armed" /\ \A t \in Timers : t # n => pc'[t] = pc[t]
        BY <1>1, <1>4, <2>1, Shape, Zenon DEF TypeOK
      <4>2. "armed" # "free"
        OBVIOUS
      <4> QED
        BY <2>1, <4>1, <4>2, Zenon DEF Busy
    <3> QED
      BY <3>1, <3>2, <3>3, Zenon
  <2> HIDE DEF b
  <2>5. /\ r \in Limiter /\ r.flushTimer = n /\ r.flushBusy = b
        /\ r.windows = lim[l].windows /\ r.lastErr = lim[l].lastErr
    BY <1>1, <2>1, <2>2, Zenon DEF Limiter
  <2> HIDE DEF r
  <2>6. /\ pc' \in [Procs -> Pcs] /\ pc'[n] = "armed" /\ \A q \in Procs : q # n => pc'[q] = pc[q]
    <3>1. "armed" \in Pcs
      BY Zenon DEF Pcs
    <3> QED
      BY <1>1, <1>4, <2>1, <3>1, Zenon DEF TypeOK
  <2>7. /\ \A q \in Procs : pc'[q] # pc[q] =>
             q = n \/ (q \in Timers /\ pc[q] = "tickEnd" /\ pc'[q] = "free")
        /\ \A q \in Timers : pc'[q] # pc[q] => LimiterOf[q] = l
    BY <2>1, <2>6, Shape, Zenon
  <2>8. r.flushBusy = Cardinality(Busy(l)')
    BY <2>4, <2>5, Zenon
  <2> QED
    <3>1. Arms(l, n, r)
      BY <1>2, <2>3, <2>4, <2>5, <2>6, <2>7, <2>8, Zenon DEF Arms
    <3> QED
      BY <1>1, <1>4, <2>5, <3>1, ArmStep, Zenon
<1> QED
  BY <1>1, <1>3, <1>4, Zenon DEF Wake, Goto

-----------------------------------------------------------------------------
(* The invariant.                                                           *)

LEMMA InitInv == Init => IndInv
<1> SUFFICES ASSUME Init PROVE IndInv
  OBVIOUS
<1> DEFINE a(f) == [p \in Procs |-> IF p \in Calls THEN "idle" ELSE IF p \in Owners THEN "rest"
                                    ELSE IF p = f[LimiterOf[p]] THEN "armed" ELSE "free"]
           e(f, l) == [mu |-> None, windows |-> [w \in Windows |-> None], lastErr |-> FALSE,
                       fresh |-> FALSE, closed |-> FALSE, stopping |-> FALSE,
                       flushTimer |-> f[l], flushBusy |-> 1]
           z == [peek |-> FALSE, win |-> 0, held |-> "none", reply |-> 0, jobs |-> {},
                 job |-> None, now |-> 0, err |-> FALSE, ref |-> None]
<1>1. PICK f \in [Limiters -> Timers] : /\ \A l \in Limiters : LimiterOf[f[l]] = l
                                        /\ lim = [l \in Limiters |-> e(f, l)] /\ pc = a(f)
  BY Zenon DEF Init
<1>2. /\ clock = 1 /\ faults = 0 /\ redis = [w \in Windows |-> [count |-> 0, expireAt |-> 0]]
      /\ reg = [p \in Procs |-> z] /\ uses = Uses
      /\ taken = [l \in Limiters |-> [w \in Windows |-> 0]] /\ warned = [c \in Calls |-> FALSE]
  BY Zenon DEF Init
<1>3. z \in Locals /\ z.jobs = {} /\ z.job = None
  BY WindowFacts DEF Locals
<1>4. ASSUME NEW l \in Limiters
      PROVE  /\ e(f, l) \in Limiter /\ e(f, l).lastErr = FALSE
             /\ e(f, l).flushTimer = f[l] /\ e(f, l).flushBusy = 1
  <2> DEFINE v == [w \in Windows |-> None]
  <2>1. v \in [Windows -> Buffer \cup {None}] /\ f[l] \in Timers
    BY <1>1, Zenon
  <2> HIDE DEF v
  <2>2. e(f, l) = [mu |-> None, windows |-> v, lastErr |-> FALSE,
                   fresh |-> FALSE, closed |-> FALSE, stopping |-> FALSE,
                   flushTimer |-> f[l], flushBusy |-> 1]
    BY Zenon DEF v
  <2> HIDE DEF e
  <2> QED
    BY <2>1, <2>2 DEF Limiter
<1>5. \A l \in Limiters : lim[l] = e(f, l)
  BY <1>1, Zenon
<1> HIDE DEF z, e
<1>6. ASSUME NEW p \in Procs
      PROVE  /\ pc[p] \in {"idle", "rest", "armed", "free"} /\ reg[p] = z
             /\ p \in Calls => pc[p] = "idle"
             /\ p \in Owners => pc[p] = "rest"
             /\ p \in Timers => (pc[p] # "free" <=> p = f[LimiterOf[p]])
  <2>1. pc[p] = IF p \in Calls THEN "idle" ELSE IF p \in Owners THEN "rest"
                ELSE IF p = f[LimiterOf[p]] THEN "armed" ELSE "free"
    BY <1>1, Zenon
  <2>2. reg[p] = z
    BY <1>2, Zenon
  <2>3. CASE p \in Calls
    <3>1. p \notin Owners /\ p \notin Timers
      BY <2>3, Shape, Zenon
    <3> QED
      BY <2>1, <2>2, <2>3, <3>1, Zenon
  <2>4. CASE p \in Owners
    <3>1. p \notin Calls /\ p \notin Timers
      BY <2>4, Shape, Zenon
    <3> QED
      BY <2>1, <2>2, <2>4, <3>1, Zenon
  <2>5. CASE p \in Timers
    <3>1. p \notin Calls /\ p \notin Owners /\ "armed" # "free"
      BY <2>5, Shape, Zenon
    <3> QED
      BY <2>1, <2>2, <2>5, <3>1, Zenon
  <2> QED
    BY <2>3, <2>4, <2>5, Zenon DEF Procs
<1>7. TypeOK
  <2>1. clock \in Windows /\ faults \in 0 .. MaxFaults
    BY <1>2, WindowFacts, Shape
  <2>2. redis \in [Windows -> [count : Nat, expireAt : Nat]]
    BY <1>2
  <2>3. lim \in [Limiters -> Limiter]
    BY <1>1, <1>4, Zenon
  <2>4. pc \in [Procs -> Pcs]
    <3>1. {"idle", "rest", "armed", "free"} \subseteq Pcs
      BY Zenon DEF Pcs
    <3> QED
      BY <1>1, <1>6, <3>1, Zenon
  <2>5. reg \in [Procs -> Locals] /\ warned \in [Calls -> BOOLEAN]
    BY <1>2, <1>3, Zenon
  <2>6. uses \in [Owners -> Nat]
    BY <1>2, Shape
  <2>7. taken \in [Limiters -> [Windows -> Nat]]
    BY <1>2
  <2> QED
    BY <2>1, <2>2, <2>3, <2>4, <2>5, <2>6, <2>7, Zenon DEF TypeOK
<1>8. FlightsOK
  <2>1. Held(z) = {}
    BY <1>3, Zenon DEF Held
  <2>2. ASSUME NEW p \in Procs PROVE FlightOK(pc[p], reg[p], Of(p).windows)
    <3>1. pc[p] \in {"idle", "rest", "armed", "free"} /\ reg[p] = z
      BY <1>6, Zenon
    <3>2. Stage(pc[p], z)
      BY <1>3, <3>1, Zenon DEF Stage
    <3> QED
      BY <1>3, <2>1, <3>1, <3>2, Zenon DEF FlightOK, Backed, Single
  <2>3. \A p, q \in Procs : Apart(reg[p], reg[q])
    BY <1>6, <2>1, Zenon DEF Apart
  <2> QED
    BY <2>2, <2>3, Zenon DEF FlightsOK
<1>9. CallsOK
  <2>1. clock > 0
    BY <1>2
  <2> QED
    BY <1>6, <2>1, Shape, Zenon DEF CallsOK, CallOK, Counting
<1>10. ToldOK
  BY <1>2, <1>6, Shape, Zenon DEF ToldOK, Told
<1>11. TimersOK
  <2>1. ASSUME NEW l \in Limiters PROVE Busy(l) = {f[l]} /\ f[l] \in Timers /\ LimiterOf[f[l]] = l
    <3>1. f[l] \in Timers /\ LimiterOf[f[l]] = l
      BY <1>1, Zenon
    <3>2. \A k \in Timers : pc[k] # "free" <=> k = f[LimiterOf[k]]
      BY <1>6, Shape, Zenon
    <3> QED
      BY <3>1, <3>2, Zenon DEF Busy
  <2>2. \A l \in Limiters : IsFiniteSet(Busy(l)) /\ lim[l].flushBusy = Cardinality(Busy(l))
    <3> TAKE l \in Limiters
    <3>1. Busy(l) = {f[l]} /\ lim[l].flushBusy = 1
      BY <1>4, <1>5, <2>1, Zenon
    <3>2. IsFiniteSet({f[l]}) /\ Cardinality({f[l]}) = 1
      BY FS_Singleton, Zenon
    <3> QED
      BY <3>1, <3>2, Zenon
  <2>3. \A l \in Limiters : lim[l].flushTimer # None /\ LimiterOf[lim[l].flushTimer] = l
    <3> TAKE l \in Limiters
    <3>1. lim[l].flushTimer = f[l]
      BY <1>4, <1>5, Zenon
    <3>2. f[l] \in Timers /\ LimiterOf[f[l]] = l
      BY <2>1, Zenon
    <3>3. f[l] # None
      <4>1. None \notin Timers
        BY Shape, Zenon
      <4> QED
        BY <3>2, <4>1, Zenon
    <3> QED
      BY <3>1, <3>2, <3>3, Zenon
  <2>4. \A o \in Owners : pc[o] # "stopTimer"
    BY <1>6, Shape, Zenon
  <2>5. StoppedIsQuiet
    BY <2>3, Shape, Zenon DEF StoppedIsQuiet, Of
  <2> QED
    BY <2>2, <2>3, <2>4, <2>5, Zenon DEF TimersOK
<1> QED
  BY <1>7, <1>8, <1>9, <1>10, <1>11, Zenon DEF IndInv

LEMMA NextInv == IndInv /\ [Next]_vars => IndInv'
<1> SUFFICES ASSUME IndInv, [Next]_vars PROVE IndInv'
  OBVIOUS
<1>1. ASSUME NEW c \in Calls, CallStep(c) \/ StartCall(c) \/ GetFails(c) PROVE IndInv'
  BY <1>1, StartCallStep, CurrentWindowStep, GetStep, ApplyGetStep, PreviousWindowStep,
     CountHitStep, ProbeStep, ProbeReturnsStep, Zenon DEF CallStep
<1>2. ASSUME NEW p \in Procs, FlushStep(p) \/ EvalFails(p) PROVE IndInv'
  BY <1>2, FlushSnapshotStep, FlushSendStep, EvalStep, FlushReceiveStep, FlushEndStep, Zenon
     DEF FlushStep
<1>3. ASSUME NEW o \in Owners, OwnerStep(o) \/ Sleep(o) \/ Close(o) \/ Wake(o) PROVE IndInv'
  BY <1>3, DetachTimerStep, StopTimerStep, WaitForTickStep, StopReturnsStep,
     SleepStep, CloseStep, WakeStep, Zenon DEF OwnerStep
<1>4. ASSUME NEW k \in Timers, TimerStep(k) PROVE IndInv'
  BY <1>4, TimerFiresStep, TickEndsStep, Zenon DEF TimerStep
<1>5. ASSUME NEW p \in Procs, Step(p) PROVE IndInv'
  BY <1>1, <1>2, <1>3, <1>4, <1>5, Zenon DEF Step
<1>6. CASE Next
  BY <1>1, <1>2, <1>3, <1>5, <1>6, NextWindowStep, SyncRatePassesStep, Zenon DEF Next
<1>7. CASE UNCHANGED vars
  BY <1>7, StutterStep, Zenon
<1> QED
  BY <1>6, <1>7, Zenon

(* The inductive invariant: what a flush has in flight is in the buffer it  *)
(* came from, what a call holds is in the map or known to be out of it, and *)
(* flushBusy and the detached timers agree with the timers that run.        *)
THEOREM Invariance == Spec => []IndInv
<1>1. Init => IndInv
  BY InitInv
<1>2. IndInv /\ [Next]_vars => IndInv'
  BY NextInv
<1> QED
  BY <1>1, <1>2, PTL DEF Spec

(* Every variable keeps its type: no counter of a buffer, of Redis or of    *)
(* flushBusy ever goes below zero (localDelta -= delta, flushBusy.Done).    *)
THEOREM TypeCorrect == Spec => []TypeOK
<1>1. IndInv => TypeOK
  BY Zenon DEF IndInv
<1> QED
  BY <1>1, Invariance, PTL

(* However ticks, Sleep, Close and calls that flush on their own goroutine  *)
(* overlap, a window's snapshot is in the hands of one flusher, and the     *)
(* hits it counts stay in localDelta until the reply (flushPendingLocked).  *)
THEOREM FlushesAreExclusive == Spec => []OneFlushInFlight
<1>1. ASSUME IndInv, NEW l \in Limiters, NEW w \in Windows
      PROVE  LET b == lim[l].windows[w]
                 flights == {p \in Procs : LimiterOf[p] = l /\
                               \E j \in reg[p].jobs \cup {reg[p].job} : j # None /\ j.window = w}
             IN /\ Cardinality(flights) <= 1
                /\ flights # {} => b # None /\ 0 < b.flush /\ b.flush <= b.delta
  <2> DEFINE b == lim[l].windows[w]
             flights == {p \in Procs : LimiterOf[p] = l /\
                           \E j \in reg[p].jobs \cup {reg[p].job} : j # None /\ j.window = w}
  <2>1. FlightsOK /\ TypeOK
    BY <1>1, Zenon DEF IndInv
  <2>2. ASSUME NEW p \in flights
        PROVE  p \in Procs /\ LimiterOf[p] = l /\ \E j \in Held(reg[p]) : j.window = w
    <3>1. p \in Procs /\ LimiterOf[p] = l
      BY <2>2, Zenon
    <3>2. PICK j \in reg[p].jobs \cup {reg[p].job} : j # None /\ j.window = w
      BY <2>2, Zenon
    <3>3. j \in Held(reg[p])
      BY <3>2, Zenon DEF Held
    <3> QED
      BY <3>1, <3>2, <3>3, Zenon
  <2>3. \A p, q \in flights : p = q
    <3> SUFFICES ASSUME NEW p \in flights, NEW q \in flights, p # q PROVE FALSE
      BY Zenon
    <3>1. Apart(reg[p], reg[q])
      BY <2>1, <2>2, Zenon DEF FlightsOK
    <3>2. PICK j \in Held(reg[p]) : j.window = w
      BY <2>2, Zenon
    <3>3. PICK k \in Held(reg[q]) : k.window = w
      BY <2>2, Zenon
    <3> QED
      BY <3>1, <3>2, <3>3, Zenon DEF Apart
  <2>4. ASSUME NEW p \in flights
        PROVE  b # None /\ 0 < b.flush /\ b.flush <= b.delta
    <3>1. PICK j \in Held(reg[p]) : j.window = w
      BY <2>2, <2>4, Zenon
    <3>2. Backed(reg[p], lim[l].windows)
      BY <2>1, <2>2, <2>4, Zenon DEF FlightsOK, FlightOK, Of
    <3> QED
      BY <3>1, <3>2, Zenon DEF Backed
  <2> HIDE DEF flights, b
  <2>5. Cardinality(flights) <= 1
    <3>1. CASE flights = {}
      <4>1. Cardinality(flights) = 0
        BY <3>1, FS_EmptySet, Zenon
      <4> QED
        BY <4>1
    <3>2. CASE flights # {}
      <4>1. PICK p \in flights : TRUE
        BY <3>2, Zenon
      <4>2. flights = {p}
        BY <2>3, <4>1, Zenon
      <4>3. Cardinality({p}) = 1
        BY FS_Singleton, Zenon
      <4>4. Cardinality(flights) = 1
        BY <4>2, <4>3, Zenon
      <4> QED
        BY <4>4
    <3> QED
      BY <3>1, <3>2, Zenon
  <2>6. flights # {} => b # None /\ 0 < b.flush /\ b.flush <= b.delta
    BY <2>4, Zenon
  <2> QED
    BY <2>5, <2>6, Zenon DEF flights, b
<1>2. IndInv => OneFlushInFlight
  BY <1>1, Zenon DEF OneFlushInFlight
<1> QED
  BY <1>2, Invariance, PTL

(* A call that began after a failed flush returns the error unless a flush  *)
(* succeeded meanwhile: lastFlushErr outlives every path of a call that     *)
(* drops l.mu (bufferedOutageErrorLocked).                                  *)
THEOREM OutagesAreReported == Spec => []FailureIsNotSilent
<1>1. IndInv => FailureIsNotSilent
  BY Zenon DEF IndInv, ToldOK, Told, FailureIsNotSilent
<1> QED
  BY <1>1, Invariance, PTL

(* flushBusy counts exactly the timers armed or ticking through every race  *)
(* of timer.Stop with a tick, so no Done is one too many and no Wait ends   *)
(* early (startFlushLocked, stopFlushAndWait, flushAfterTick).              *)
THEOREM BusyCountIsExact == Spec => []TicksAreCounted
<1>1. IndInv => TicksAreCounted
  BY Zenon DEF IndInv, TimersOK, Busy, TicksAreCounted
<1> QED
  BY <1>1, Invariance, PTL

(* When no Sleep or Close is still stopping and the limiter has no          *)
(* flushTimer, no tick is armed or running, whichever owners called Sleep,  *)
(* Wake and Close at the same time.                                         *)
THEOREM NoTickOutlivesStop == Spec => []StoppedIsQuiet
<1>1. IndInv => StoppedIsQuiet
  BY Zenon DEF IndInv, TimersOK
<1> QED
  BY <1>1, Invariance, PTL

=============================================================================
