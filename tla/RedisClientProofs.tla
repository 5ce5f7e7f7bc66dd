-------------------------- MODULE RedisClientProofs -------------------------
(***************************************************************************)
(* The pool keeps its accounts for every number of commands and sockets,    *)
(* every pool size, retry limit and order of replies, restarts,             *)
(* cancellations and Close.  First what befalls the commands (Close, the end *)
(* of a context, a watcher's close, the server), then the counts.           *)
(***************************************************************************)
EXTENDS RedisClientSteps

(* The idle list and the sockets in use stay as they are.                   *)
LEMMA PoolStands ==
  ASSUME StepInv, UNCHANGED <<idle, closed>>,
         \A d \in Commands : cmd'[d].conn = cmd[d].conn,
         \A u \in Sockets : sock'[u].open => sock[u].open,
         \A u \in Range(idle) : /\ sock'[u].open /\ sock'[u].request = None
                                /\ sock'[u].replies = <<>> /\ u \notin closers'
  PROVE  Pool'
<1>1. Pool /\ InUse' = InUse /\ InUse \subseteq Commands /\ Live' \subseteq Live
  BY Zenon DEF StepInv, InUse, Live
<1>2. /\ \A d, e \in InUse' : cmd'[d].conn = cmd'[e].conn => d = e
      /\ \A d \in InUse' : cmd'[d].conn \notin Range(idle')
  BY <1>1 DEF Pool, Parked, Apart, Owned
<1>3. \A u \in Live' : u \in Range(idle') \/ \E d \in InUse' : cmd'[d].conn = u
  BY <1>1, Zenon DEF Pool, Parked, Apart, Owned
<1> QED
  BY <1>1, <1>2, <1>3, Zenon DEF Pool, Parked, Apart, Owned

LEMMA NobodyMoves ==
  ASSUME StepInv, UNCHANGED <<turns, idle, skipped>>, \A d \in Commands : cmd'[d].pc = cmd[d].pc
  PROVE  Balanced
<1>1. PICK n \in Nat : Len(idle') = n /\ n <= Len(idle)
  BY PoolFacts
<1> QED
  BY <1>1, CountsKept, ZenonT(60) DEF NoneMoves

(* A socket nobody may reuse is closed, or a peer answers or goes away: the *)
(* idle list, the sockets in use and the turns stay as they are.            *)
LEMMA SocketsStep ==
  ASSUME StepInv, sock' \in [Sockets -> Socket],
         \A u \in Sockets : sock'[u].open => sock[u].open,
         \A u \in Range(idle) : /\ sock'[u].open /\ sock'[u].request = None
                                /\ sock'[u].replies = <<>> /\ u \notin closers',
         UNCHANGED <<turns, idle, closed, groupWrite, skipped>>,
         cmd' \in [Commands -> Command],
         \A d \in Commands : cmd'[d].pc = cmd[d].pc /\ cmd'[d].conn = cmd[d].conn,
         closers' \subseteq Sockets, ctx' \in [Commands -> {"live", "late", "done"}],
         loaded' \in BOOLEAN, applied' \in [Commands -> Nat],
         faults' \in 0 .. MaxFaults, restarts' \in 0 .. faults',
         \A d \in Commands : Locals(d)' /\ Exchange(d)' /\ Runs(d)',
         \A u \in Sockets : HalfDuplex(u)'
  PROVE  Preserved
<1>1. TypeOK'
  BY Zenon DEF StepInv, TypeOK
<1>3. Pool'
  BY PoolStands, ZenonT(60)
<1>4. Balanced
  BY NobodyMoves, ZenonT(60)
<1> QED
  BY <1>1, <1>3, <1>4, Zenon DEF Preserved

(* Nothing moves but the closed flag, if that.                              *)
LEMMA OnlyCloses ==
  ASSUME StepInv, closed' \in {"no", "yes", "drained"}, closed' = "drained" => idle = <<>>,
         UNCHANGED <<turns, idle, groupWrite, sock, closers, cmd, ctx>>,
         UNCHANGED <<loaded, applied, faults, restarts, skipped>>
  PROVE  Preserved
<1>2. TypeOK'
  BY Zenon DEF StepInv, TypeOK
<1>3. Pool'
  BY PoolKept, Zenon
<1>4. Balanced
  <2>1. \A d \in Commands : cmd'[d].pc = cmd[d].pc
    BY Zenon
  <2> QED
    BY <2>1, NobodyMoves, ZenonT(60)
<1>5. ASSUME NEW d \in Commands
      PROVE  Locals(d)' /\ Exchange(d)' /\ Runs(d)'
  <2>1. Outstanding(d)' = Outstanding(d)
    BY Zenon DEF Outstanding
  <2> QED
    BY <2>1, KeptOn, Zenon
<1>6. \A s \in Sockets : HalfDuplex(s)'
  BY Zenon DEF StepInv, HalfDuplex
<1> QED
  BY <1>2, <1>3, <1>4, <1>5, <1>6, Zenon DEF Preserved

LEMMA CloseSetsStep ==
  ASSUME StepInv, CloseSets
  PROVE  Preserved
  BY OnlyCloses, Zenon DEF CloseSets, server

LEMMA CloseDrainsStep ==
  ASSUME StepInv, CloseDrains
  PROVE  Preserved
<1>1. /\ UNCHANGED <<turns, groupWrite, closers, cmd, ctx, loaded, applied, faults, restarts, skipped>>
      /\ closed' = "drained" /\ idle' = <<>> /\ sock' = Shut(Range(idle))
  BY Zenon DEF CloseDrains, server
<1>2. /\ sock' \in [Sockets -> Socket]
      /\ \A u \in Sockets : HalfDuplex(u)'
      /\ \A d \in Commands : Outstanding(d)' = Outstanding(d)
      /\ \A d \in Commands : cmd[d].conn # None => sock'[cmd[d].conn] = sock[cmd[d].conn]
      /\ Live' \subseteq (Range(idle) \ Range(idle)) \cup {cmd[d].conn : d \in InUse}
  BY <1>1, IdleShut, ZenonT(60)
<1>3. idle' \in Seq(Sockets) /\ Len(idle') = 0 /\ Range(idle') = {} /\ DOMAIN idle' = {}
  BY <1>1, EmptyFacts, Zenon DEF Range
<1>4. TypeOK'
  BY <1>1, <1>2, <1>3, Zenon DEF TypeOK, StepInv
<1>5. Pool'
  <2>2. InUse' = InUse
    BY <1>1, Zenon DEF InUse
  <2>3. \A u \in Live' : \E d \in InUse' : cmd'[d].conn = u
    BY <1>1, <1>2, <2>2, Zenon DEF InUse
  <2>4. \A d, e \in InUse' : cmd'[d].conn = cmd'[e].conn => d = e
    BY <1>1, <2>2, Zenon DEF StepInv, Pool, Parked, Apart, Owned
  <2> QED
    BY <1>1, <2>3, <2>4, EmptyPool, ZenonT(60)
<1>6. Balanced
  <2>1. PICK n \in Nat : Len(idle') = n /\ n <= Len(idle)
    BY <1>3, PoolFacts
  <2>2. \A d \in Commands : cmd'[d].pc = cmd[d].pc
    BY <1>1, Zenon
  <2> QED
    BY <1>1, <2>1, <2>2, CountsKept, ZenonT(60) DEF NoneMoves
<1>7. ASSUME NEW d \in Commands
      PROVE  Locals(d)' /\ Exchange(d)' /\ Runs(d)'
  BY <1>1, <1>2, KeptOn, Zenon
<1> QED
  BY <1>2, <1>4, <1>5, <1>6, <1>7, Zenon DEF Preserved


LEMMA ContextEndsStep ==
  ASSUME StepInv, NEW c \in Commands, ContextEnds(c)
  PROVE  Preserved
<1>1. /\ UNCHANGED <<turns, idle, closed, groupWrite, sock, loaded, applied, faults, restarts, skipped>>
      /\ ctx[c] # "done"
  BY Zenon DEF ContextEnds, server
<1>2. /\ TypeOK /\ ctx \in [Commands -> {"live", "late", "done"}] /\ applied \in [Commands -> Nat]
      /\ faults \in 0 .. MaxFaults /\ restarts \in 0 .. faults /\ loaded \in BOOLEAN
      /\ Locals(c) /\ Exchange(c) /\ Runs(c)
  BY Zenon DEF StepInv, TypeOK
<1>3. \A d \in Commands : Outstanding(d)' = Outstanding(d)
  BY <1>1, Zenon DEF Outstanding
<1>4. PICK k, w : /\ ctx' = [ctx EXCEPT ![c] = k] /\ k \in {"late", "done"}
                  /\ cmd' = [cmd EXCEPT ![c] = [cmd[c] EXCEPT !.watching = w]]
                  /\ w \in BOOLEAN /\ (w => cmd[c].watching)
                  /\ \/ closers' = closers
                     \/ k = "done" /\ cmd[c].watching /\ closers' = closers \cup {cmd[c].conn}
  <2>1. cmd = [cmd EXCEPT ![c] = [cmd[c] EXCEPT !.watching = cmd[c].watching]]
        /\ cmd[c].watching \in BOOLEAN
    BY PoolFacts DEF Command
  <2>2. CASE ctx' = [ctx EXCEPT ![c] = "late"] /\ UNCHANGED <<closers, cmd>>
    BY <2>1, <2>2, ZenonT(60)
  <2>3. CASE /\ ctx' = [ctx EXCEPT ![c] = "done"]
             /\ closers' = IF cmd[c].watching THEN closers \cup {cmd[c].conn} ELSE closers
             /\ cmd' = [cmd EXCEPT ![c].watching = FALSE]
    BY <2>3, ZenonT(60)
  <2> QED
    BY <2>2, <2>3, Zenon DEF ContextEnds
<1> DEFINE r == [cmd[c] EXCEPT !.watching = w]
<1>5. /\ r \in Command /\ r.pc = cmd[c].pc /\ r.conn = cmd[c].conn /\ r.watching = w
      /\ r.reply = cmd[c].reply /\ r.reusable = cmd[c].reusable /\ r.outcome = cmd[c].outcome
  <2>1. cmd[c] \in Command /\ w \in BOOLEAN
    BY <1>4, PoolFacts, Zenon
  <2> QED
    BY <2>1, Zenon DEF Command
<1> HIDE DEF r
<1>6. cmd' \in [Commands -> Command] /\ cmd'[c] = r /\ \A d \in Commands \ {c} : cmd'[d] = cmd[d]
  <2>1. cmd' = [cmd EXCEPT ![c] = r] /\ cmd \in [Commands -> Command]
    BY <1>4, PoolFacts, Zenon DEF r
  <2> QED
    BY <1>5, <2>1, Zenon
<1>7. /\ ctx' \in [Commands -> {"live", "late", "done"}] /\ ctx'[c] = k
      /\ \A d \in Commands \ {c} : ctx'[d] = ctx[d]
  BY <1>2, <1>4, Zenon
<1>8. cmd[c].watching => cmd[c].conn # None /\ cmd[c].conn \in Sockets
  BY <1>2, PoolFacts, Zenon DEF Locals, LocalsOf, Connected
<1>9. closers' \subseteq Sockets /\ \A u \in Range(idle) : u \notin closers'
  BY <1>4, <1>8, PoolFacts, Zenon
<1>10. ASSUME NEW d \in Commands \ {c}
       PROVE  Locals(d)' /\ Exchange(d)' /\ Runs(d)'
  <2>1. cmd[d].conn # None => (cmd[d].conn \in closers' => cmd[d].conn \in closers)
    BY <1>4, PoolFacts
  <2> QED
    BY <1>1, <1>3, <1>6, <1>7, <2>1, KeptOn, Zenon
<1>11. Locals(c)'
  BY <1>2, <1>4, <1>5, <1>6, ZenonT(60) DEF Locals, LocalsOf
<1>12. Exchange(c)'
  <2>1. CASE cmd[c].conn = None
    BY <1>5, <1>6, <2>1, Zenon DEF Exchange, ExchangeOf
  <2>2. CASE cmd[c].conn # None
    <3>1. PICK s : s = cmd[c].conn
      BY Zenon
    <3>2. /\ ~sock[s].open \/ s \in closers => ctx[c] = "done"
          /\ cmd[c].pc = "do" \/ cmd[c].reusable => sock[s].request = None
          /\ cmd[c].reusable => sock[s].replies = <<>>
          /\ cmd[c].pc = "read" /\ sock[s].request # None => sock[s].request.by = c
          /\ cmd[c].pc = "read" /\ sock[s].replies # <<>> => Head(sock[s].replies).to = c
      BY <1>2, <2>2, <3>1, ExchangeFacts, ZenonT(60)
    <3>3. /\ ~sock'[s].open \/ s \in closers' => ctx'[c] = "done"
          /\ cmd'[c].conn = s
      BY <1>1, <1>4, <1>5, <1>6, <1>7, <3>1, <3>2, SMTT(60)
    <3>4. /\ cmd'[c].pc = "do" \/ cmd'[c].reusable => sock'[s].request = None
          /\ cmd'[c].reusable => sock'[s].replies = <<>>
          /\ cmd'[c].pc = "read" /\ sock'[s].request # None => sock'[s].request.by = c
          /\ cmd'[c].pc = "read" /\ sock'[s].replies # <<>> => Head(sock'[s].replies).to = c
      BY <1>1, <1>5, <1>6, <3>2, Zenon
    <3> QED
      BY <3>3, <3>4, ExchangeHolds, ZenonT(60)
  <2> QED
    BY <2>1, <2>2, Zenon
<1>13. Runs(c)'
  <2>1. sock'[cmd'[c].conn] = sock[cmd[c].conn] /\ Outstanding(c)' = Outstanding(c)
    BY <1>1, <1>3, <1>5, <1>6, ZenonT(60)
  <2> QED
    BY <1>1, <1>2, <1>5, <1>6, <2>1, RunsSame DEF Runs
<1>14. /\ \A u \in Sockets : HalfDuplex(u)' /\ (sock'[u].open => sock[u].open)
       /\ \A u \in Range(idle) : /\ sock'[u].open /\ sock'[u].request = None
                                 /\ sock'[u].replies = <<>>
       /\ sock' \in [Sockets -> Socket]
  BY <1>1, PoolFacts, Zenon DEF StepInv, HalfDuplex
<1>15. /\ \A d \in Commands : cmd'[d].pc = cmd[d].pc /\ cmd'[d].conn = cmd[d].conn
       /\ \A d \in Commands : Locals(d)' /\ Exchange(d)' /\ Runs(d)'
  BY <1>5, <1>6, <1>10, <1>11, <1>12, <1>13, SMTT(60)
<1>16. /\ loaded' \in BOOLEAN /\ applied' \in [Commands -> Nat]
       /\ faults' \in 0 .. MaxFaults /\ restarts' \in 0 .. faults'
  BY <1>1, <1>2, Zenon
<1> QED
  BY <1>1, <1>6, <1>7, <1>9, <1>14, <1>15, <1>16, SocketsStep, ZenonT(60)

LEMMA WatcherClosesStep ==
  ASSUME StepInv, NEW s \in Sockets, WatcherCloses(s)
  PROVE  Preserved
<1>1. /\ UNCHANGED <<turns, idle, closed, groupWrite, cmd, ctx, loaded, applied, faults, restarts, skipped>>
      /\ s \in closers /\ closers' = closers \ {s} /\ sock' = Shut({s})
  BY Zenon DEF WatcherCloses, server
<1>2. /\ ctx \in [Commands -> {"live", "late", "done"}] /\ applied \in [Commands -> Nat]
      /\ faults \in 0 .. MaxFaults /\ restarts \in 0 .. faults /\ loaded \in BOOLEAN
  BY Zenon DEF StepInv, TypeOK
<1>3. /\ sock' \in [Sockets -> Socket] /\ \A u \in Sockets \ {s} : sock'[u] = sock[u]
      /\ ~sock'[s].open /\ sock'[s].replies = <<>>
      /\ \A u \in Sockets : HalfDuplex(u)' /\ sock'[u].request = sock[u].request
  BY <1>1, ShutFacts DEF HalfDuplex
<1>4. \A d \in Commands : Outstanding(d)' = Outstanding(d)
  BY <1>3, Zenon DEF Outstanding
<1>5. s \notin Range(idle)
  BY <1>1, PoolFacts, Zenon
<1>6. ASSUME NEW d \in Commands
      PROVE  Locals(d)' /\ Exchange(d)' /\ Runs(d)'
  <2>1. CASE cmd[d].conn # s
    BY <1>1, <1>3, <1>4, <2>1, PoolFacts, KeptOn, ZenonT(60)
  <2>2. CASE cmd[d].conn = s
    <3>1. Locals(d) /\ Exchange(d) /\ Runs(d) /\ s # None
      BY PoolFacts, Zenon DEF StepInv
    <3>2. /\ ctx[d] = "done"
          /\ cmd[d].pc = "do" \/ cmd[d].reusable => sock[s].request = None
          /\ cmd[d].pc = "read" /\ sock[s].request # None => sock[s].request.by = d
      BY <1>1, <2>2, <3>1, ExchangeFacts, Zenon
    <3>3. Locals(d)'
      BY <1>1, <3>1, Zenon DEF Locals, LocalsOf
    <3>4. Exchange(d)'
      BY <1>1, <1>3, <2>2, <3>2, ExchangeHolds, ZenonT(60)
    <3>5. Runs(d)'
      <4>1. cmd'[d] = cmd[d] /\ applied'[d] = applied[d] /\ restarts' = restarts
            /\ Outstanding(d)' = Outstanding(d) /\ cmd'[d].conn = s
        BY <1>1, <1>4, <2>2, Zenon
      <4> QED
        BY <1>3, <3>1, <4>1, Zenon DEF Runs, RunsOf
    <3> QED
      BY <3>3, <3>4, <3>5, Zenon
  <2> QED
    BY <2>1, <2>2, Zenon
<1>7. /\ \A u \in Sockets : sock'[u].open => sock[u].open
      /\ \A u \in Range(idle) : /\ sock'[u].open /\ sock'[u].request = None
                                /\ sock'[u].replies = <<>> /\ u \notin closers'
      /\ closers' \subseteq Sockets
  BY <1>1, <1>3, <1>5, PoolFacts, ZenonT(60)
<1>8. /\ cmd' \in [Commands -> Command]
      /\ \A d \in Commands : cmd'[d].pc = cmd[d].pc /\ cmd'[d].conn = cmd[d].conn
      /\ ctx' \in [Commands -> {"live", "late", "done"}] /\ loaded' \in BOOLEAN
      /\ applied' \in [Commands -> Nat] /\ faults' \in 0 .. MaxFaults /\ restarts' \in 0 .. faults'
  BY <1>1, <1>2, PoolFacts, Zenon
<1> QED
  BY <1>1, <1>3, <1>6, <1>7, <1>8, SocketsStep, ZenonT(60)


LEMMA RestartStep ==
  ASSUME StepInv, Restart
  PROVE  Preserved
<1>1. /\ UNCHANGED <<turns, idle, closed, groupWrite, closers, cmd, ctx, skipped, applied>>
      /\ faults < MaxFaults /\ faults' = faults + 1 /\ restarts' = restarts + 1 /\ loaded' = FALSE
      /\ sock' = [s \in Sockets |->
                    [sock[s] EXCEPT !.alive = FALSE, !.request = None, !.replies = <<>>]]
  BY ZenonT(60) DEF Restart, client
<1>2. /\ ctx \in [Commands -> {"live", "late", "done"}] /\ applied \in [Commands -> Nat]
      /\ faults \in 0 .. MaxFaults /\ restarts \in 0 .. faults /\ MaxFaults \in Nat
  BY ClientAssumption, Zenon DEF StepInv, TypeOK
<1>3. ASSUME NEW u \in Sockets
      PROVE  /\ sock'[u] \in Socket /\ sock'[u].open = sock[u].open /\ sock'[u].request = None
             /\ sock'[u].replies = <<>>
  <2>1. sock[u] \in Socket /\ <<>> \in Seq(Reply)
    BY PoolFacts
  <2> QED
    BY <1>1, <2>1, ZenonT(60) DEF Socket
<1>4. sock' \in [Sockets -> Socket]
  BY <1>1, <1>3, ZenonT(60)
<1>5. \A d \in Commands : Outstanding(d)' = {}
  BY <1>3, Zenon DEF Outstanding
<1>6. \A u \in Sockets : HalfDuplex(u)'
  BY <1>3, Zenon DEF HalfDuplex
<1>7. ASSUME NEW d \in Commands
      PROVE  Locals(d)' /\ Exchange(d)' /\ Runs(d)'
  <2>1. Locals(d) /\ Exchange(d) /\ Runs(d) /\ cmd'[d] = cmd[d] /\ ctx'[d] = ctx[d]
    BY <1>1, ZenonT(60) DEF StepInv
  <2>2. Locals(d)'
    BY <2>1, Zenon DEF Locals, LocalsOf
  <2>3. Exchange(d)'
    <3>1. CASE cmd[d].conn = None
      BY <2>1, <3>1, Zenon DEF Exchange, ExchangeOf
    <3>2. CASE cmd[d].conn # None
      <4>1. PICK s \in Sockets : s = cmd[d].conn /\ s # None
        BY <3>2, PoolFacts, Zenon
      <4>2. ~sock[s].open \/ s \in closers => ctx[d] = "done"
        BY <2>1, <4>1, ExchangeFacts, Zenon
      <4> QED
        BY <1>1, <1>3, <2>1, <4>1, <4>2, ExchangeHolds, ZenonT(60)
    <3> QED
      BY <3>1, <3>2, Zenon
  <2>4. applied[d] <= restarts' /\ applied'[d] = applied[d] /\ applied[d] \in Nat /\ restarts' \in Nat
    <3>1. applied[d] <= 1 + restarts
      BY <2>1, Zenon DEF Runs, RunsOf
    <3>2. applied[d] \in Nat /\ restarts + 1 \in Nat /\ applied[d] <= restarts + 1
      BY <1>2, <3>1
    <3> QED
      BY <1>1, <3>2, ZenonT(60)
  <2>5. cmd'[d].pc \in {"stopWatch", "release", "free"} /\ cmd'[d].outcome = "ok" => applied'[d] >= 1
    BY <2>1, <2>4, OutcomeFacts, Zenon
  <2>6. cmd'[d].pc = "ok" => applied'[d] >= 1
    BY <2>1, <2>4, Zenon DEF Runs, RunsOf
  <2>7. cmd'[d].pc = "read" => sock'[cmd'[d].conn].replies = <<>>
    BY <1>3, <2>1, PoolFacts, Zenon DEF Locals, LocalsOf, Connected
  <2>8. Runs(d)'
    BY <1>5, <2>4, <2>5, <2>6, <2>7 DEF Runs, RunsOf
  <2> QED
    BY <2>2, <2>3, <2>8, Zenon
<1>8. /\ \A u \in Sockets : sock'[u].open => sock[u].open
      /\ \A u \in Range(idle) : /\ sock'[u].open /\ sock'[u].request = None
                                /\ sock'[u].replies = <<>> /\ u \notin closers'
      /\ closers' \subseteq Sockets
  BY <1>1, <1>3, PoolFacts, ZenonT(60)
<1>9. /\ cmd' \in [Commands -> Command]
      /\ \A d \in Commands : cmd'[d].pc = cmd[d].pc /\ cmd'[d].conn = cmd[d].conn
      /\ ctx' \in [Commands -> {"live", "late", "done"}] /\ loaded' \in BOOLEAN
      /\ applied' \in [Commands -> Nat]
  BY <1>1, <1>2, PoolFacts, ZenonT(60)
<1>10. faults' \in 0 .. MaxFaults /\ restarts' \in 0 .. faults'
  <2>1. faults < MaxFaults
    BY <1>1, ZenonT(60)
  <2>2. faults + 1 \in 0 .. MaxFaults /\ restarts + 1 \in 0 .. (faults + 1)
    BY <1>2, <2>1
  <2> QED
    BY <1>1, <2>2, ZenonT(60)
<1> QED
  BY <1>1, <1>4, <1>6, <1>7, <1>8, <1>9, <1>10, SocketsStep, ZenonT(60)


(* Where a command stands while its request waits for an answer.            *)
LEMMA AskerFacts ==
  ASSUME StepInv, NEW s \in Sockets, NEW c \in Commands, sock[s].request # None,
         sock[s].request.by = c
  PROVE  /\ Locals(c) /\ Exchange(c) /\ applied[c] \in Nat /\ restarts \in Nat
         /\ Outstanding(c) = {s} /\ applied[c] <= restarts
         /\ cmd[c].pc \notin {"idle", "borrow", "wait", "turn", "dial", "do"}
         /\ cmd[c].pc \in {"stopWatch", "release", "free"} => cmd[c].outcome \in {"ok", "stop"}
         /\ cmd[c].pc \in {"stopWatch", "release", "free"} /\ cmd[c].outcome = "ok" => applied[c] >= 1
         /\ cmd[c].pc = "ok" => applied[c] >= 1
         /\ cmd[c].pc = "read" => cmd[c].conn = s
<1>1. Locals(c) /\ Exchange(c) /\ Runs(c) /\ applied[c] \in Nat /\ restarts \in Nat
  <2>1. TypeOK /\ Locals(c) /\ Exchange(c) /\ Runs(c)
    BY Zenon DEF StepInv
  <2>2. /\ applied \in [Commands -> Nat] /\ restarts \in 0 .. faults /\ faults \in 0 .. MaxFaults
        /\ MaxFaults \in Nat
    BY <2>1, ClientAssumption, ZenonT(60) DEF TypeOK
  <2> QED
    BY <2>1, <2>2
<1>2. s \in Outstanding(c) /\ Outstanding(c) = {s}
  BY <1>1, Zenon DEF Outstanding, Runs, RunsOf
<1>4. applied[c] <= restarts
  BY <1>1, <1>2, Zenon DEF Runs, RunsOf
<1>5. cmd[c].pc \notin {"idle", "borrow", "wait", "turn", "dial", "do"}
  BY <1>2, NothingSent, Zenon
<1>6. cmd[c].pc \in {"stopWatch", "release", "free"} =>
        cmd[c].outcome \in {"ok", "stop"} /\ (cmd[c].outcome = "ok" => applied[c] >= 1)
  BY <1>1, <1>2, OutcomeFacts, Zenon
<1>7. cmd[c].pc = "ok" => applied[c] >= 1
  BY <1>1, Zenon DEF Runs, RunsOf
<1>8. cmd[c].pc = "read" => cmd[c].conn = s
  <2>1. cmd[c].pc = "read" => Outstanding(c) \subseteq {cmd[c].conn}
    BY <1>1, Zenon DEF Runs, RunsOf
  <2> QED
    BY <1>2, <2>1, ZenonT(60)
<1> QED
  BY <1>1, <1>2, <1>4, <1>5, <1>6, <1>7, <1>8, ZenonT(60)

(* What an answer to the request on s does to a command, whether or not it  *)
(* is the one that asked.                                                   *)
LEMMA ServedAsker ==
  ASSUME StepInv, NEW s \in Sockets, NEW c \in Commands, sock[s].request # None, sock[s].request.by = c,
         cmd' = cmd, ctx' = ctx, closers' = closers, restarts' = restarts, NEW a,
         a = "ok" => applied'[c] = applied[c] + 1, a # "ok" => applied'[c] = applied[c],
         \A u \in Sockets \ {s} : sock'[u] = sock[u],
         sock'[s].request = None, sock'[s].open = sock[s].open,
         sock'[s].open => /\ sock'[s].alive /\ sock'[s].replies # <<>>
                          /\ Head(sock'[s].replies).to = c /\ Head(sock'[s].replies).answer = a,
         ~sock'[s].open => sock'[s].replies = <<>>
  PROVE  Locals(c)' /\ Exchange(c)' /\ Runs(c)'
<1>1. /\ Locals(c) /\ Exchange(c) /\ applied[c] \in Nat /\ restarts \in Nat
      /\ Outstanding(c) = {s} /\ applied[c] <= restarts
  BY AskerFacts, ZenonT(60)
<1>3. Outstanding(c)' = {}
  BY <1>1 DEF Outstanding
<1>5. PICK m \in Nat : /\ applied'[c] = m /\ m <= 1 + restarts /\ applied[c] <= m
                       /\ IF a = "ok" THEN m >= 1 ELSE m <= restarts
  BY <1>1
<1>6. /\ cmd[c].pc \notin {"idle", "borrow", "wait", "turn", "dial", "do"}
      /\ cmd[c].pc \in {"stopWatch", "release", "free"} => cmd[c].outcome \in {"ok", "stop"}
      /\ cmd[c].pc \in {"stopWatch", "release", "free"} /\ cmd[c].outcome = "ok" => applied[c] >= 1
      /\ cmd[c].pc = "ok" => applied[c] >= 1
      /\ cmd[c].pc = "read" => cmd[c].conn = s
  BY AskerFacts, ZenonT(60)
<1>7. Locals(c)'
  BY <1>1, Zenon DEF Locals, LocalsOf
<1>8. Exchange(c)'
  <2>1. CASE cmd[c].conn = None
    BY <2>1, Zenon DEF Exchange, ExchangeOf
  <2>2. CASE cmd[c].conn # None /\ cmd[c].conn # s
    <3>1. sock'[cmd[c].conn] = sock[cmd[c].conn]
      BY <2>2, PoolFacts, Zenon
    <3> QED
      BY <1>1, <2>2, <3>1, ExchangeKept, Zenon DEF Exchange
  <2>3. CASE cmd[c].conn = s /\ s # None
    <3>1. /\ ~sock[s].open \/ s \in closers => ctx[c] = "done"
          /\ ~cmd[c].reusable
      BY <1>1, <2>3, ExchangeFacts, Zenon
    <3>2. sock'[s].replies # <<>> => Head(sock'[s].replies).to = c
      BY Zenon
    <3> QED
      BY <2>3, <3>1, <3>2, ExchangeHolds, Zenon
  <2> QED
    BY <2>1, <2>2, <2>3, PoolFacts, Zenon
<1>9. Runs(c)'
  <2>1. CASE cmd[c].pc = "read"
    <3>1. sock'[s].open /\ ~sock'[s].alive => applied'[c] <= restarts'
      BY Zenon
    <3>2. sock'[s].replies # <<>> => IF Head(sock'[s].replies).answer = "ok" THEN applied'[c] >= 1
                                     ELSE applied'[c] <= restarts'
      BY <1>5, Zenon
    <3>3. applied'[c] <= 1 + restarts' /\ cmd'[c].conn = s /\ cmd'[c].pc = "read"
          /\ Outstanding(c)' = {} /\ Outstanding(c)' \subseteq {s}
      BY <1>3, <1>5, <1>6, <2>1, Zenon
    <3> QED
      BY <3>1, <3>2, <3>3, RunsReading, ZenonT(60)
  <2>2. CASE cmd[c].pc # "read"
    <3>1. m >= applied[c] /\ (applied[c] >= 1 => m >= 1)
      BY <1>1, <1>5, Zenon
    <3>2. /\ Outstanding(c)' = {} /\ applied'[c] <= 1 + restarts' /\ cmd'[c] = cmd[c]
          /\ applied[c] >= 1 => applied'[c] >= 1
      BY <1>3, <1>5, <3>1, Zenon
    <3> QED
      BY <1>6, <2>2, <3>2, RunsServed, ZenonT(60) DEF Runs
  <2> QED
    BY <2>1, <2>2, Zenon
<1> QED
  BY <1>7, <1>8, <1>9, Zenon

LEMMA ServedOther ==
  ASSUME StepInv, NEW s \in Sockets, NEW c \in Commands, sock[s].request # None, sock[s].request.by # c,
         cmd' = cmd, ctx' = ctx, closers' = closers, restarts' = restarts, applied'[c] = applied[c],
         \A u \in Sockets \ {s} : sock'[u] = sock[u],
         sock'[s].request = None, sock'[s].open = sock[s].open
  PROVE  Locals(c)' /\ Exchange(c)' /\ Runs(c)'
<1>1. Locals(c) /\ Exchange(c) /\ Runs(c)
  BY Zenon DEF StepInv
<1>2. Outstanding(c)' = Outstanding(c)
  BY Zenon DEF Outstanding
<1>3. CASE cmd[c].conn # s
  BY <1>2, <1>3, PoolFacts, KeptOn, Zenon
<1>4. CASE cmd[c].conn = s
  <2>1. s # None
    BY PoolFacts, Zenon
  <2>2. /\ ~sock[s].open \/ s \in closers => ctx[c] = "done"
        /\ cmd[c].pc \notin {"do", "read"} /\ ~cmd[c].reusable
    BY <1>1, <1>4, <2>1, ExchangeFacts
  <2>3. Exchange(c)'
    BY <1>4, <2>2, ExchangeHolds, Zenon
  <2>4. Locals(c)'
    BY <1>1, Zenon DEF Locals, LocalsOf
  <2>5. cmd[c].pc \in {"stopWatch", "release"}
    BY <1>1, <1>4, <2>1, <2>2, Zenon DEF Locals, LocalsOf, Connected
  <2>6. Runs(c)'
    BY <1>1, <1>2, <2>5, RunsKept DEF Runs
  <2> QED
    BY <2>3, <2>4, <2>6, Zenon
<1> QED
  BY <1>3, <1>4, Zenon


LEMMA ServeStep ==
  ASSUME StepInv, NEW s \in Sockets, Serve(s)
  PROVE  Preserved
<1> DEFINE q == sock[s].request
<1>1. /\ UNCHANGED <<turns, idle, closed, groupWrite, closers, cmd, ctx, skipped, restarts>>
      /\ sock[s].alive /\ q # None
  BY Zenon DEF Serve, client
<1>2. PICK fault \in {"none", "surplus", "loading"} :
        LET answer == IF fault = "loading" THEN "loading" ELSE Answer(q.hop)
            reply == <<[to |-> q.by, answer |-> answer]>>
        IN /\ fault # "none" => faults < MaxFaults
           /\ faults' = IF fault = "none" THEN faults ELSE faults + 1
           /\ applied' = IF answer = "ok" THEN [applied EXCEPT ![q.by] = @ + 1] ELSE applied
           /\ loaded' = (loaded \/ (answer = "ok" /\ q.hop = "eval"))
           /\ sock' = [sock EXCEPT ![s] =
                IF ~@.open THEN NoSocket
                ELSE [@ EXCEPT !.request = None,
                        !.replies = IF fault = "surplus" THEN Append(reply, Stray) ELSE reply]]
  BY ZenonT(60) DEF Serve
<1>3. /\ ctx \in [Commands -> {"live", "late", "done"}] /\ applied \in [Commands -> Nat]
      /\ faults \in 0 .. MaxFaults /\ restarts \in 0 .. faults /\ MaxFaults \in Nat
      /\ loaded \in BOOLEAN /\ sock[s] \in Socket /\ sock \in [Sockets -> Socket]
  BY ClientAssumption, Zenon DEF StepInv, TypeOK
<1>4. q.by \in Commands /\ q.hop \in Hops /\ Commands \subseteq Commands \cup {None}
  BY <1>1, <1>3, Zenon DEF Socket
<1>5. PICK c \in Commands : c = q.by
  BY <1>4, Zenon
<1>6. PICK a \in Answers : a = IF fault = "loading" THEN "loading" ELSE Answer(q.hop)
  BY Zenon DEF Answers, Answer
<1> DEFINE reply == <<[to |-> c, answer |-> a]>>
           rs == IF fault = "surplus" THEN Append(reply, Stray) ELSE reply
           t == IF ~sock[s].open THEN NoSocket
                ELSE [sock[s] EXCEPT !.request = None, !.replies = rs]
<1>7. rs \in Seq(Reply) /\ rs # <<>> /\ Head(rs).to = c /\ Head(rs).answer = a
  <2>1. [to |-> c, answer |-> a] \in Reply /\ Stray \in Reply
    BY <1>5, <1>6, Zenon DEF Reply, Stray, Answers
  <2>2. /\ reply \in Seq(Reply) /\ Len(reply) = 1 /\ reply[1] = [to |-> c, answer |-> a]
    BY <2>1
  <2>3. CASE fault # "surplus"
    BY <2>2, <2>3
  <2>4. CASE fault = "surplus"
    <3>1. /\ Append(reply, Stray) \in Seq(Reply) /\ Len(Append(reply, Stray)) = 2
          /\ Append(reply, Stray)[1] = [to |-> c, answer |-> a]
      BY <2>1, <2>2, AppendedFacts
    <3>2. Append(reply, Stray) # <<>> /\ Head(Append(reply, Stray)) = [to |-> c, answer |-> a]
      BY <3>1
    <3> QED
      BY <2>4, <3>1, <3>2
  <2> QED
    BY <2>3, <2>4, Zenon
<1>8. /\ sock' = [sock EXCEPT ![s] = t]
      /\ applied' = IF a = "ok" THEN [applied EXCEPT ![c] = applied[c] + 1] ELSE applied
      /\ faults' = (IF fault = "none" THEN faults ELSE faults + 1) /\ loaded' \in BOOLEAN
      /\ fault # "none" => faults < MaxFaults
  BY <1>2, <1>3, <1>5, <1>6, Zenon
<1> HIDE DEF rs
<1>9. /\ t \in Socket /\ t.open = sock[s].open /\ t.request = None
      /\ t.open => t.alive /\ t.replies = rs
      /\ ~t.open => t.replies = <<>>
  <2>1. NoSocket \in Socket
    BY DEF NoSocket, Socket
  <2>2. CASE ~sock[s].open
    <3>1. t = NoSocket
      BY <2>2, Zenon
    <3>2. t.open = FALSE /\ t.request = None /\ t.replies = <<>>
      BY <3>1, ZenonT(60) DEF NoSocket
    <3>3. sock[s].open = FALSE
      BY <1>3, <2>2, Zenon DEF Socket
    <3> QED
      BY <2>1, <3>1, <3>2, <3>3, ZenonT(60)
  <2>3. CASE sock[s].open
    BY <1>1, <1>3, <1>7, <2>3, ZenonT(60) DEF Socket
  <2> QED
    BY <2>2, <2>3, Zenon
<1> HIDE DEF t
<1>10. sock' \in [Sockets -> Socket] /\ sock'[s] = t /\ \A u \in Sockets \ {s} : sock'[u] = sock[u]
  BY <1>3, <1>8, <1>9, Zenon
<1>11. \A u \in Sockets : HalfDuplex(u)' /\ (sock'[u].open => sock[u].open)
  <2>1. ASSUME NEW u \in Sockets \ {s}
        PROVE  HalfDuplex(u)' /\ (sock'[u].open => sock[u].open)
    BY <1>10, Zenon DEF StepInv, HalfDuplex
  <2>2. HalfDuplex(s)' /\ (sock'[s].open => sock[s].open)
    BY <1>9, <1>10, Zenon DEF HalfDuplex
  <2> QED
    BY <2>1, <2>2, Zenon
<1>12. s \notin Range(idle)
  BY <1>1, PoolFacts, Zenon
<1>13. /\ \A u \in Range(idle) : /\ sock'[u].open /\ sock'[u].request = None
                                 /\ sock'[u].replies = <<>> /\ u \notin closers'
       /\ closers' \subseteq Sockets
  BY <1>1, <1>10, <1>12, PoolFacts
<1>14. /\ applied' \in [Commands -> Nat] /\ \A d \in Commands \ {c} : applied'[d] = applied[d]
       /\ a = "ok" => applied'[c] = applied[c] + 1
       /\ a # "ok" => applied'[c] = applied[c]
  BY <1>3, <1>8
<1>15. Locals(c)' /\ Exchange(c)' /\ Runs(c)'
  <2>1. /\ sock[s].request # None /\ sock[s].request.by = c
        /\ cmd' = cmd /\ ctx' = ctx /\ closers' = closers /\ restarts' = restarts
    BY <1>1, <1>5, Zenon
  <2>2. /\ sock'[s].request = None /\ sock'[s].open = sock[s].open
        /\ sock'[s].open => /\ sock'[s].alive /\ sock'[s].replies # <<>>
                            /\ Head(sock'[s].replies).to = c /\ Head(sock'[s].replies).answer = a
        /\ ~sock'[s].open => sock'[s].replies = <<>>
    BY <1>7, <1>9, <1>10, Zenon
  <2>3. /\ a = "ok" => applied'[c] = applied[c] + 1
        /\ a # "ok" => applied'[c] = applied[c]
        /\ \A u \in Sockets \ {s} : sock'[u] = sock[u]
    BY <1>10, <1>14, Zenon
  <2>4. StepInv /\ s \in Sockets /\ c \in Commands
    BY <1>1, Zenon
  <2> QED
    BY <2>1, <2>2, <2>3, <2>4, ServedAsker, ZenonT(60)
<1>16. ASSUME NEW d \in Commands \ {c}
       PROVE  Locals(d)' /\ Exchange(d)' /\ Runs(d)'
  <2>1. /\ sock[s].request # None /\ sock[s].request.by # d
        /\ cmd' = cmd /\ ctx' = ctx /\ closers' = closers /\ restarts' = restarts
        /\ applied'[d] = applied[d] /\ sock'[s].request = None /\ sock'[s].open = sock[s].open
    BY <1>1, <1>5, <1>9, <1>10, <1>14, Zenon
  <2> QED
    BY <1>10, <2>1, ServedOther, ZenonT(60)
<1>17. faults' \in 0 .. MaxFaults /\ restarts' \in 0 .. faults'
  <2>1. PICK f \in 0 .. MaxFaults : f = (IF fault = "none" THEN faults ELSE faults + 1) /\ faults <= f
    <3>1. fault # "none" => faults < MaxFaults
      BY <1>8, Zenon
    <3> QED
      BY <1>3, <3>1
  <2>2. restarts \in 0 .. f
    BY <1>3, <2>1
  <2> QED
    BY <1>1, <1>8, <2>1, <2>2, Zenon
<1>18. /\ cmd' \in [Commands -> Command] /\ ctx' \in [Commands -> {"live", "late", "done"}]
       /\ \A d \in Commands : cmd'[d].pc = cmd[d].pc /\ cmd'[d].conn = cmd[d].conn
       /\ \A d \in Commands : Locals(d)' /\ Exchange(d)' /\ Runs(d)'
  BY <1>1, <1>3, <1>15, <1>16, PoolFacts
<1>19. loaded' \in BOOLEAN
  BY <1>8
<1> QED
  BY <1>1, <1>10, <1>11, <1>13, <1>14, <1>17, <1>18, <1>19, SocketsStep, ZenonT(60)

LEMMA StutterStep ==
  ASSUME StepInv, UNCHANGED vars
  PROVE  Preserved
<1>1. /\ UNCHANGED <<turns, idle, closed, groupWrite, sock, closers, cmd, ctx>>
      /\ UNCHANGED <<loaded, applied, faults, restarts, skipped>>
  BY Zenon DEF vars, client, server
<1>2. closed' \in {"no", "yes", "drained"} /\ (closed' = "drained" => idle = <<>>)
  BY <1>1, Zenon DEF StepInv, TypeOK, Pool, Parked, Apart, Owned
<1> QED
  BY <1>1, <1>2, OnlyCloses, Zenon

(* Every step of a command, of a watcher, of Close and of the server.       *)
LEMMA EveryStep ==
  ASSUME StepInv, [Next]_vars
  PROVE  Preserved
<1>1. CASE UNCHANGED vars
  BY <1>1, StutterStep, Zenon
<1>2. ASSUME NEW c \in Commands,
             \/ Start(c) \/ Borrow(c) \/ Wait(c) \/ TakeIdle(c) \/ SkipIdle(c)
             \/ Dial(c) \/ DialFails(c)
      PROVE  Preserved
  BY <1>2, StartStep, BorrowStep, TakeIdleStep, SkipIdleStep, DialStep, DialFailsStep, ZenonT(60)
<1>3. ASSUME NEW c \in Commands,
             \/ Send(c) \/ Read(c) \/ ReadFails(c) \/ StopWatch(c)
             \/ Release(c) \/ FreeTurn(c) \/ ContextEnds(c)
      PROVE  Preserved
  BY <1>3, SendStep, ReadStep, ReadFailsStep, StopWatchStep, ReleaseStep, FreeTurnStep,
     ContextEndsStep, ZenonT(60)
<1>4. ASSUME NEW s \in Sockets, WatcherCloses(s) \/ Serve(s)
      PROVE  Preserved
  BY <1>4, WatcherClosesStep, ServeStep, ZenonT(60)
<1>5. CASE CloseSets \/ CloseDrains \/ Restart
  BY <1>5, CloseSetsStep, CloseDrainsStep, RestartStep, ZenonT(60)
<1> QED
  BY <1>1, <1>2, <1>3, <1>4, <1>5, ZenonT(60) DEF Next

-----------------------------------------------------------------------------
INSTANCE FiniteSetTheorems

(* The sockets that hold, or will hold, a turn of their own, and the idle   *)
(* ones, while nobody dialed past the idle list.                            *)
Claims == {c \in Commands : cmd[c].pc \in Claiming}
Cap == ~skipped => Len(idle) + Cardinality(Claims) <= PoolSize


(* What every reachable state satisfies and every step keeps.               *)
IndInv == StepInv /\ TurnsConserved /\ Cap

-----------------------------------------------------------------------------
(* Counting turns.                                                          *)

Holders == {c \in Commands : cmd[c].pc \in Holding}

LEMMA TurnsDef == TurnsConserved <=> turns + Cardinality(Holders) = PoolSize
  BY Zenon DEF TurnsConserved, Holders, Holding, Connected

LEMMA TurnsDefPrimed == TurnsConserved' <=> turns' + Cardinality(Holders') = PoolSize
  BY Zenon DEF TurnsConserved, Holders, Holding, Connected

LEMMA FiniteCommands ==
  /\ IsFiniteSet(Holders) /\ Cardinality(Holders) \in Nat
  /\ IsFiniteSet(Claims) /\ Cardinality(Claims) \in Nat
  /\ Cardinality(Claims) <= Cardinality(Holders)
<1>1. IsFiniteSet(Holders)
  BY ClientAssumption, FS_Subset, Zenon DEF Holders
<1>2. Claims \subseteq Holders
  BY DEF Claims, Holders, Claiming, Holding
<1> QED
  BY <1>1, <1>2, FS_Subset, FS_CardinalityType, Zenon

(* A set that gains or loses one member at most.                            *)
LEMMA OneMember ==
  ASSUME NEW S, IsFiniteSet(S), NEW T, NEW x, T \ {x} = S \ {x}
  PROVE  /\ IsFiniteSet(T) /\ Cardinality(T) \in Nat /\ Cardinality(S) \in Nat
         /\ Cardinality(T) + (IF x \in S THEN 1 ELSE 0) = Cardinality(S) + (IF x \in T THEN 1 ELSE 0)
<1> DEFINE R == S \ {x}
<1>1. IsFiniteSet(R) /\ Cardinality(R) \in Nat
  BY FS_Subset, FS_CardinalityType, Zenon
<1>2. IsFiniteSet(R \cup {x}) /\ Cardinality(R \cup {x}) = Cardinality(R) + 1
  BY <1>1, FS_AddElement, ZenonT(60)
<1>3. (S = R \/ S = R \cup {x}) /\ (T = R \/ T = R \cup {x}) /\ x \notin R
  BY Zenon
<1> HIDE DEF R
<1> QED
  BY <1>1, <1>2, <1>3

(* The commands that hold a turn, or claim a socket, after c has moved.     *)
LEMMA CountMoves ==
  ASSUME NEW c \in Commands, \A d \in Commands \ {c} : cmd'[d].pc = cmd[d].pc
  PROVE  /\ Cardinality(Holders) \in Nat /\ Cardinality(Holders') \in Nat
         /\ Cardinality(Claims) \in Nat /\ Cardinality(Claims') \in Nat
         /\ Cardinality(Claims') <= Cardinality(Holders')
         /\ Cardinality(Holders') + (IF cmd[c].pc \in Holding THEN 1 ELSE 0)
              = Cardinality(Holders) + (IF cmd'[c].pc \in Holding THEN 1 ELSE 0)
         /\ Cardinality(Claims') + (IF cmd[c].pc \in Claiming THEN 1 ELSE 0)
              = Cardinality(Claims) + (IF cmd'[c].pc \in Claiming THEN 1 ELSE 0)
<1>1. Holders' \ {c} = Holders \ {c} /\ Claims' \ {c} = Claims \ {c}
  BY DEF Holders, Claims
<1>2. /\ c \in Holders <=> cmd[c].pc \in Holding
      /\ c \in Holders' <=> cmd'[c].pc \in Holding
      /\ c \in Claims <=> cmd[c].pc \in Claiming
      /\ c \in Claims' <=> cmd'[c].pc \in Claiming
  BY Zenon DEF Holders, Claims
<1>3. Claims' \subseteq Holders'
  BY Zenon DEF Claims, Holders, Claiming, Holding
<1>4. /\ IsFiniteSet(Holders')
      /\ Cardinality(Holders') + (IF c \in Holders THEN 1 ELSE 0)
           = Cardinality(Holders) + (IF c \in Holders' THEN 1 ELSE 0)
  BY <1>1, FiniteCommands, OneMember, Zenon
<1>5. /\ IsFiniteSet(Claims')
      /\ Cardinality(Claims') + (IF c \in Claims THEN 1 ELSE 0)
           = Cardinality(Claims) + (IF c \in Claims' THEN 1 ELSE 0)
  BY <1>1, FiniteCommands, OneMember, Zenon
<1>6. Cardinality(Claims') <= Cardinality(Holders') /\ Cardinality(Claims') \in Nat
      /\ Cardinality(Holders') \in Nat
  BY <1>3, <1>4, FS_Subset, FS_CardinalityType, Zenon
<1> QED
  BY <1>2, <1>4, <1>5, <1>6, FiniteCommands, Zenon

(* A turn and a claim for a turn and a claim.                               *)
LEMMA CountOne ==
  ASSUME IndInv, NEW c \in Commands, NEW n \in Nat, OneMoves(c, n)
  PROVE  TurnsConserved' /\ Cap'
<1>0. /\ \A d \in Commands \ {c} : cmd'[d].pc = cmd[d].pc
      /\ turns' = turns + Bit(cmd[c].pc \in Holding) - Bit(cmd'[c].pc \in Holding)
      /\ turns' >= 0 /\ Len(idle') = n
      /\ \/ skipped'
         \/ n = 0
         \/ /\ ~skipped
            /\ n <= Len(idle) + Bit(cmd[c].pc \in Claiming) - Bit(cmd'[c].pc \in Claiming)
  BY Zenon DEF OneMoves
<1> DEFINE x == Bit(cmd[c].pc \in Holding)
           y == Bit(cmd'[c].pc \in Holding)
           v == Bit(cmd[c].pc \in Claiming)
           w == Bit(cmd'[c].pc \in Claiming)
           h == Cardinality(Holders)
           i == Cardinality(Holders')
           k == Cardinality(Claims)
           l == Cardinality(Claims')
<1>1. turns \in Nat /\ PoolSize \in Nat /\ Len(idle) \in Nat
  BY ClientAssumption DEF IndInv, StepInv, TypeOK
<1>2. turns + h = PoolSize
  BY TurnsDef, Zenon DEF IndInv
<1>3. ~skipped => Len(idle) + k <= PoolSize
  BY Zenon DEF IndInv, Cap
<1>4. x \in Nat /\ y \in Nat /\ v \in Nat /\ w \in Nat
  BY Zenon DEF Bit
<1>5. /\ h \in Nat /\ i \in Nat /\ k \in Nat /\ l \in Nat
      /\ l <= i /\ i + x = h + y /\ l + v = k + w
  BY <1>0, CountMoves, Zenon DEF Bit
<1>6. turns' = turns + x - y /\ turns + x - y >= 0
  BY <1>0, Zenon
<1>7. skipped' \/ n = 0 \/ (~skipped /\ n <= Len(idle) + v - w)
  BY <1>0, Zenon
<1> HIDE DEF x, y, v, w, h, i, k, l
<1>8. turns + x - y + i = PoolSize /\ i <= PoolSize
  BY <1>1, <1>2, <1>4, <1>5, <1>6, SMTT(30)
<1>9. turns' + i = PoolSize
  BY <1>6, <1>8, Zenon
<1>10. CASE n = 0
  BY <1>0, <1>1, <1>5, <1>8, <1>9, <1>10, TurnsDefPrimed DEF Cap, i, l
<1>11. CASE ~skipped /\ n <= Len(idle) + v - w
  <2>1. n + l <= PoolSize
    BY <1>1, <1>3, <1>4, <1>5, <1>11, SMTT(30)
  <2> QED
    BY <1>0, <1>9, <2>1, TurnsDefPrimed DEF Cap, i, l
<1> QED
  BY <1>7, <1>9, <1>10, <1>11, TurnsDefPrimed DEF Cap, i

LEMMA CountNone ==
  ASSUME IndInv, NEW n \in Nat, NoneMoves(n)
  PROVE  TurnsConserved' /\ Cap'
<1>0. /\ \A d \in Commands : cmd'[d].pc = cmd[d].pc
      /\ turns' = turns /\ skipped' = skipped /\ Len(idle') = n /\ n <= Len(idle)
  BY Zenon DEF NoneMoves
<1>1. Holders' = Holders /\ Claims' = Claims
  BY <1>0, Zenon DEF Holders, Claims
<1>2. turns + Cardinality(Holders) = PoolSize
  BY TurnsDef DEF IndInv
<1>3. ~skipped => Len(idle) + Cardinality(Claims) <= PoolSize
  BY Zenon DEF IndInv, Cap
<1>4. Len(idle) \in Nat /\ PoolSize \in Nat
  BY ClientAssumption DEF IndInv, StepInv, TypeOK
<1>5. ~skipped => n + Cardinality(Claims) <= PoolSize
  BY <1>0, <1>3, <1>4, FiniteCommands
<1>6. turns' + Cardinality(Holders') = PoolSize
  BY <1>0, <1>1, <1>2, Zenon
<1> QED
  BY <1>0, <1>1, <1>5, <1>6, TurnsDefPrimed, Zenon DEF Cap

(* A turn that is held is missing from the channel.                         *)
LEMMA OutOfTurns == TypeOK /\ TurnsConserved => TurnsOut
<1> SUFFICES ASSUME TypeOK, TurnsConserved, NEW c \in Commands, cmd[c].pc \in Holding
             PROVE  turns < PoolSize
  BY DEF TurnsOut
<1>1. Cardinality(Holders) # 0
  BY FiniteCommands, FS_EmptySet DEF Holders
<1>2. turns + Cardinality(Holders) = PoolSize /\ turns \in Nat /\ PoolSize \in Nat
  BY TurnsDef, ClientAssumption DEF TypeOK
<1> QED
  BY <1>1, <1>2, FiniteCommands

LEMMA OutOfTurnsPrimed == TypeOK' /\ TurnsConserved' => TurnsOut'
  BY OutOfTurns, PTL

LEMMA Initially == Init => IndInv
<1> SUFFICES ASSUME Init
             PROVE  IndInv
  BY Zenon
<1>1. /\ turns = PoolSize /\ idle = <<>> /\ closed = "no" /\ groupWrite = "unknown"
      /\ sock = [s \in Sockets |-> NoSocket] /\ cmd = [c \in Commands |-> NoCommand]
      /\ ctx = [c \in Commands |-> "live"] /\ closers = {} /\ loaded = Preloaded /\ faults = 0
      /\ restarts = 0 /\ skipped = FALSE /\ applied = [c \in Commands |-> 0]
  BY Zenon DEF Init
<1>2. /\ NoSocket \in Socket /\ ~NoSocket.open /\ NoSocket.request = None /\ NoSocket.replies = <<>>
  BY DEF NoSocket, Socket
<1>3. /\ NoCommand \in Command /\ NoCommand.conn = None /\ NoCommand.reply = None
      /\ ~NoCommand.watching /\ ~NoCommand.reusable /\ NoCommand.pc = "idle"
  BY Records, Zenon
<1>4. idle \in Seq(Sockets) /\ Len(idle) = 0 /\ Range(idle) = {} /\ DOMAIN idle = {}
  BY <1>1, EmptyFacts, Zenon DEF Range
<1>5. /\ PoolSize \in Nat /\ MaxIdleConns \in Nat /\ MaxFaults \in Nat /\ Preloaded \in BOOLEAN
  BY ClientAssumption
<1>6. TypeOK
  <2>1. turns \in 0 .. PoolSize /\ faults \in 0 .. MaxFaults /\ restarts \in 0 .. faults
    BY <1>1, <1>5
  <2>2. /\ applied \in [Commands -> Nat] /\ ctx \in [Commands -> {"live", "late", "done"}]
        /\ sock \in [Sockets -> Socket] /\ cmd \in [Commands -> Command]
    BY <1>1, <1>2, <1>3, Zenon
  <2> QED
    BY <1>1, <1>4, <1>5, <2>1, <2>2, ZenonT(60) DEF TypeOK
<1>7. Holders = {} /\ Claims = {} /\ Cardinality({}) = 0
  BY <1>1, <1>3, FS_EmptySet, Zenon DEF Holders, Claims, Holding, Claiming, Connected
<1>8. TurnsConserved /\ Cap
  BY <1>1, <1>4, <1>5, <1>7, TurnsDef DEF Cap
<1>9. Pool
  BY <1>1, <1>2, <1>3, <1>4, <1>5 DEF Pool, Parked, Apart, Owned, InUse, Live
<1>10. ASSUME NEW c \in Commands
       PROVE  Locals(c) /\ Exchange(c) /\ Runs(c)
  <2>1. cmd[c] = NoCommand /\ applied[c] = 0 /\ restarts = 0 /\ Outstanding(c) = {}
    BY <1>1, <1>2, Zenon DEF Outstanding
  <2>2. Locals(c) /\ Exchange(c)
    BY <1>3, <2>1, Zenon DEF Locals, LocalsOf, Exchange, ExchangeOf, Connected
  <2>3. Runs(c)
    BY <1>3, <2>1 DEF Runs, RunsOf
  <2> QED
    BY <2>2, <2>3, Zenon
<1>11. \A s \in Sockets : HalfDuplex(s)
  BY <1>1, <1>2, Zenon DEF HalfDuplex
<1> QED
  BY <1>6, <1>8, <1>9, <1>10, <1>11, OutOfTurns, Zenon DEF IndInv, StepInv

-----------------------------------------------------------------------------
(* The accounts of the client.                                              *)

(* Every step of a command, of a watcher, of Close and of the server keeps  *)
(* the inductive invariant.                                                 *)
THEOREM Invariance == Spec => []IndInv
<1>1. Init => IndInv
  BY Initially, Zenon
<1>2. IndInv /\ [Next]_vars => IndInv'
  <2> SUFFICES ASSUME IndInv, [Next]_vars
               PROVE  IndInv'
    BY Zenon
  <2>1. Preserved
    BY EveryStep, Zenon DEF IndInv
  <2>2. TurnsConserved' /\ Cap'
    BY <2>1, CountOne, CountNone, Zenon DEF Preserved, Balanced
  <2>3. TurnsOut'
    BY <2>1, <2>2, OutOfTurnsPrimed, Zenon DEF Preserved
  <2> QED
    BY <2>1, <2>2, <2>3, Zenon DEF IndInv, StepInv, Preserved
<1> QED
  BY <1>1, <1>2, PTL DEF Spec

(* No path through borrowSocket, takeIdleConn, dial, runOnConn and release  *)
(* leaks a turn of inUseTurns or returns one twice.                         *)
THEOREM TurnsAreConserved == Spec => []TurnsConserved
<1>1. IndInv => TurnsConserved
  BY DEF IndInv
<1> QED
  BY <1>1, Invariance, PTL

(* A reply that a command takes from its socket answers its own request.    *)
THEOREM RepliesAreMatched == Spec => []RepliesMatch
<1>1. IndInv => RepliesMatch
  BY DEF IndInv, StepInv, Locals, LocalsOf, RepliesMatch
<1> QED
  BY <1>1, Invariance, PTL

(* A watcher's close, however late, finds a socket that is neither parked   *)
(* nor in the hands of a command whose context goes on.                     *)
THEOREM LateClosesAreHarmless == Spec => []LateCloseIsHarmless
<1>1. ASSUME IndInv
      PROVE  LateCloseIsHarmless
  <2>1. StepInv
    BY <1>1, Zenon DEF IndInv
  <2>2. \A s \in closers : s \notin Range(idle)
    BY <2>1, ParkedFacts, ZenonT(60)
  <2>3. \A c \in InUse : cmd[c].conn \in closers => ctx[c] = "done"
    BY <2>1, ExchangeFacts, ZenonT(60) DEF StepInv, InUse
  <2> QED
    BY <2>2, <2>3, Zenon DEF LateCloseIsHarmless
<1> QED
  BY <1>1, Invariance, PTL

(* A command takes effect once per life of the server at most, and has if   *)
(* it succeeds.                                                             *)
THEOREM CommandsRunOnce == Spec => []AppliedOnce
<1>1. IndInv => AppliedOnce
  BY Zenon DEF IndInv, StepInv, Runs, RunsOf, AppliedOnce, At
<1> QED
  BY <1>1, Invariance, PTL

(* A sequence without repetitions has as many members as places.            *)
LEMMA DistinctCounts ==
  ASSUME NEW q \in Seq(Sockets), Distinct(q)
  PROVE  IsFiniteSet(Range(q)) /\ Cardinality(Range(q)) = Len(q) /\ Len(q) \in Nat
<1>1. Len(q) \in Nat /\ DOMAIN q = 1 .. Len(q)
  BY SeqFacts, Zenon
<1>2. IsFiniteSet(1 .. Len(q)) /\ Cardinality(1 .. Len(q)) = Len(q)
  <2>1. 1 \in Int /\ Len(q) \in Int
    BY <1>1
  <2>2. /\ IsFiniteSet(1 .. Len(q))
        /\ Cardinality(1 .. Len(q)) = IF 1 > Len(q) THEN 0 ELSE Len(q) - 1 + 1
    BY <2>1, FS_Interval, ZenonT(60)
  <2> QED
    BY <1>1, <2>2
<1>3. q \in Bijection(1 .. Len(q), Range(q))
  <2>1. q \in [1 .. Len(q) -> Range(q)]
    BY <1>1, SeqFacts DEF Range
  <2>2. IsInjective(q)
    BY Zenon DEF IsInjective, Distinct
  <2>3. \A u \in Range(q) : \E i \in 1 .. Len(q) : q[i] = u
    BY <1>1, Zenon DEF Range
  <2> QED
    BY <2>1, <2>2, <2>3, Zenon DEF Bijection, Injection, Surjection
<1>4. ExistsBijection(1 .. Len(q), Range(q))
  BY <1>3, Zenon DEF ExistsBijection
<1> QED
  BY <1>1, <1>2, <1>4, FS_Bijection, Zenon

(* Every open socket is parked once or with one command.                    *)
THEOREM SocketsAreAccounted == Spec => []SocketsAccounted
<1>1. IndInv => SocketsAccounted
  <2> SUFFICES ASSUME IndInv
               PROVE  SocketsAccounted
    BY Zenon
  <2>1. Cardinality(Range(idle)) = Len(idle)
    BY PoolFacts, DistinctCounts, Zenon DEF IndInv
  <2>2. Live \subseteq Range(idle) \cup {cmd[c].conn : c \in InUse}
    BY PoolFacts, Zenon DEF Live, IndInv
  <2> QED
    BY <2>1, <2>2, Zenon DEF SocketsAccounted, IndInv, StepInv, Pool, Parked, Apart, Owned
<1> QED
  BY <1>1, Invariance, PTL

(* While no command dialed past the idle list, PoolSize bounds the sockets. *)
THEOREM LiveSocketsAreCapped == Spec => []LiveCap
<1>1. IndInv => LiveCap
  <2> SUFFICES ASSUME IndInv, ~skipped
               PROVE  Cardinality(Live) <= PoolSize
    BY Zenon DEF LiveCap
  <2> DEFINE B == {cmd[c].conn : c \in Claims}
  <2>1. IsFiniteSet(Range(idle)) /\ Cardinality(Range(idle)) = Len(idle) /\ Len(idle) \in Nat
    BY PoolFacts, DistinctCounts, Zenon DEF IndInv
  <2>2. IsFiniteSet(Claims) /\ Cardinality(Claims) \in Nat
    BY FiniteCommands, Zenon
  <2>3. IsFiniteSet(B) /\ Cardinality(B) <= Cardinality(Claims) /\ Cardinality(B) \in Nat
    <3>1. [c \in Claims |-> cmd[c].conn] \in Surjection(Claims, B)
      BY Zenon DEF Surjection
    <3>2. IsFiniteSet(B) /\ Cardinality(B) <= Cardinality(Claims)
      BY <2>2, <3>1, FS_Surjection, Zenon
    <3> QED
      BY <3>2, FS_CardinalityType, Zenon
  <2>4. Live \subseteq Range(idle) \cup B
    <3>1. InUse \subseteq Claims
      BY Zenon DEF InUse, Claims, Claiming, IndInv, StepInv, Locals, LocalsOf
    <3> QED
      BY <3>1, PoolFacts DEF Live, IndInv
  <2> HIDE DEF B
  <2>5. /\ IsFiniteSet(Range(idle) \cup B)
        /\ Cardinality(Range(idle) \cup B) \in Nat
        /\ Cardinality(Range(idle) \cup B) <= Cardinality(Range(idle)) + Cardinality(B)
    <3>1. IsFiniteSet(Range(idle) \cap B) /\ Cardinality(Range(idle) \cap B) \in Nat
      BY <2>1, FS_Subset, FS_CardinalityType, Zenon
    <3>2. /\ IsFiniteSet(Range(idle) \cup B)
          /\ Cardinality(Range(idle) \cup B)
               = Cardinality(Range(idle)) + Cardinality(B) - Cardinality(Range(idle) \cap B)
      BY <2>1, <2>3, FS_Union, ZenonT(60)
    <3>3. Cardinality(Range(idle) \cup B) \in Nat
      BY <3>2, FS_CardinalityType, Zenon
    <3> QED
      BY <2>1, <2>3, <3>1, <3>2, <3>3
  <2>6. Cardinality(Live) <= Cardinality(Range(idle) \cup B) /\ Cardinality(Live) \in Nat
    BY <2>4, <2>5, FS_Subset, FS_CardinalityType, Zenon
  <2>7. Len(idle) + Cardinality(Claims) <= PoolSize /\ PoolSize \in Nat
    BY ClientAssumption, Zenon DEF IndInv, Cap
  <2> QED
    BY <2>1, <2>2, <2>3, <2>5, <2>6, <2>7
<1> QED
  BY <1>1, Invariance, PTL
=============================================================================
