-------------------------- MODULE RedisClientSteps --------------------------
(***************************************************************************)
(* The pool keeps its accounts for every number of commands and sockets,    *)
(* every pool size, retry limit and order of replies, restarts,             *)
(* cancellations and Close.                                                 *)
(***************************************************************************)
EXTENDS RedisClient, TLAPS

(* Where a command holds a turn, and where it holds a socket too.           *)
Connected == {"do", "read", "stopWatch", "release"}
Holding == Connected \cup {"turn", "dial", "free"}
Claiming == Connected \cup {"dial"}

(* Where a command has a socket, a reply or a watcher.                      *)
LocalsOf(c, r) ==
  /\ r.conn # None <=> r.pc \in Connected
  /\ r.watching => r.pc \in {"read", "stopWatch"}
  /\ r.reply # None => r.pc \in {"stopWatch", "release"} /\ r.reply.to = c
  /\ r.reusable => r.pc \in {"stopWatch", "release", "free"}

Locals(c) == LocalsOf(c, cmd[c])

(* What is on the socket a command uses: nothing of another command.        *)
ExchangeOf(c, r, k, closing, context) ==
  r.conn # None =>
    /\ ~k.open \/ r.conn \in closing => context = "done"
    /\ r.pc = "do" \/ r.reusable => k.request = None
    /\ r.reusable => k.replies = <<>>
    /\ r.pc = "read" /\ k.request # None => k.request.by = c
    /\ r.pc = "read" /\ k.replies # <<>> => Head(k.replies).to = c

Exchange(c) == ExchangeOf(c, cmd[c], sock[cmd[c].conn], closers, ctx[c])

(* A socket carries a request or replies, and neither without its peer.     *)
HalfDuplex(s) ==
  /\ sock[s].request # None => sock[s].replies = <<>>
  /\ ~sock[s].alive => sock[s].request = None /\ sock[s].replies = <<>>

(* The idle list and the sockets in use.                                    *)
Parked(s) == sock[s].open /\ sock[s].request = None /\ sock[s].replies = <<>> /\ s \notin closers

Apart ==
  /\ \A c, d \in InUse : cmd[c].conn = cmd[d].conn => c = d
  /\ \A c \in InUse : cmd[c].conn \notin Range(idle)

Owned == \A s \in Live : s \in Range(idle) \/ \E c \in InUse : cmd[c].conn = s

Pool ==
  /\ Len(idle) <= MaxIdleConns
  /\ \A i, j \in DOMAIN idle : idle[i] = idle[j] => i = j
  /\ \A s \in Range(idle) : Parked(s)
  /\ Apart /\ Owned
  /\ closed = "drained" => idle = <<>>

(* Where a request of this command waits to be served.                      *)
Outstanding(c) == {s \in Sockets : sock[s].request # None /\ sock[s].request.by = c}

(* A command sends only while all it has sent before was lost in restarts.  *)
RunsOf(r, k, runs, lost, out) ==
  /\ runs <= 1 + lost
  /\ out # {} => runs <= lost
  /\ \A s1, s2 \in out : s1 = s2
  /\ r.pc \in {"idle", "borrow", "wait", "turn", "dial", "do"} => runs <= lost /\ out = {}
  /\ r.pc = "read" =>
       /\ out \subseteq {r.conn}
       /\ k.open /\ ~k.alive => runs <= lost
       /\ k.replies # <<>> => IF Head(k.replies).answer = "ok" THEN runs >= 1 ELSE runs <= lost
  /\ r.pc \in {"stopWatch", "release", "free"} =>
       /\ r.outcome = "ok" => runs >= 1
       /\ r.outcome \notin {"ok", "stop"} => runs <= lost /\ out = {}
  /\ r.pc = "ok" => runs >= 1

Runs(c) == RunsOf(cmd[c], sock[cmd[c].conn], applied[c], restarts, Outstanding(c))

(* A turn can still be given back.                                          *)
TurnsOut == \A c \in Commands : cmd[c].pc \in Holding => turns < PoolSize

(* What the steps need and keep, the counts apart.                          *)
StepInv ==
  /\ TypeOK /\ TurnsOut /\ Pool
  /\ \A c \in Commands : Locals(c) /\ Exchange(c) /\ Runs(c)
  /\ \A s \in Sockets : HalfDuplex(s)

(* What a step does to the counts, without counting: at most one command    *)
(* gives or takes a turn or a claim.                                        *)
Bit(b) == IF b THEN 1 ELSE 0

OneMoves(c, n) ==
  /\ Len(idle') = n
  /\ \A d \in Commands \ {c} : cmd'[d].pc = cmd[d].pc
  /\ turns' = turns + Bit(cmd[c].pc \in Holding) - Bit(cmd'[c].pc \in Holding)
  /\ turns' >= 0
  /\ \/ skipped'
     \/ n = 0
     \/ /\ ~skipped
        /\ n <= Len(idle) + Bit(cmd[c].pc \in Claiming) - Bit(cmd'[c].pc \in Claiming)

NoneMoves(n) ==
  /\ Len(idle') = n /\ n <= Len(idle)
  /\ \A d \in Commands : cmd'[d].pc = cmd[d].pc
  /\ turns' = turns /\ skipped' = skipped

Balanced == \E n \in Nat : NoneMoves(n) \/ \E c \in Commands : OneMoves(c, n)

Preserved ==
  /\ TypeOK' /\ Pool' /\ Balanced
  /\ \A c \in Commands : Locals(c)' /\ Exchange(c)' /\ Runs(c)'
  /\ \A s \in Sockets : HalfDuplex(s)'

-----------------------------------------------------------------------------
(* Sequences.                                                               *)

LEMMA SeqFacts ==
  ASSUME NEW S, NEW q \in Seq(S)
  PROVE  /\ Len(q) \in Nat /\ q \in [1 .. Len(q) -> S] /\ DOMAIN q = 1 .. Len(q)
         /\ Range(q) \in SUBSET S /\ (q # <<>> => Len(q) # 0)
  BY DEF Range

LEMMA EmptyFacts ==
  ASSUME NEW S
  PROVE  <<>> \in Seq(S) /\ Len(<<>>) = 0 /\ Range(<<>>) = {} /\ DOMAIN <<>> = {}
  BY DEF Range

LEMMA AppendedFacts ==
  ASSUME NEW S, NEW q \in Seq(S), NEW e \in S
  PROVE  /\ Append(q, e) \in Seq(S) /\ Len(Append(q, e)) = Len(q) + 1 /\ Append(q, e) # <<>>
         /\ \A i \in 1 .. Len(q) : Append(q, e)[i] = q[i]
         /\ Append(q, e)[Len(q) + 1] = e
  OBVIOUS

(* Steps that move one command between the states that count, or none.      *)
LEMMA Balance ==
  ASSUME NEW c \in Commands, NEW n \in Nat, OneMoves(c, n)
  PROVE  Balanced
  BY Zenon DEF Balanced

LEMMA CountsKept ==
  ASSUME NEW n \in Nat, NoneMoves(n)
  PROVE  Balanced
  BY Zenon DEF Balanced

LEMMA FreedGivesBack ==
  ASSUME StepInv, NEW c \in Commands, cmd[c].pc \in Holding
  PROVE  Freed = turns + 1 /\ turns + 1 \in 0 .. PoolSize
<1>1. turns \in Nat /\ PoolSize \in Nat /\ turns < PoolSize
  BY ClientAssumption DEF StepInv, TypeOK, TurnsOut
<1> QED
  BY <1>1 DEF Freed

-----------------------------------------------------------------------------
(* What a step leaves alone.                                                *)

(* A command the step does not touch, nor its socket.                       *)

LEMMA ExchangeKept ==
  ASSUME NEW c, NEW r, NEW k, NEW l, NEW C, NEW D, NEW x, ExchangeOf(c, r, k, C, x),
         r.conn # None => k = l /\ (r.conn \in D => r.conn \in C)
  PROVE  ExchangeOf(c, r, l, D, x)
  BY Zenon DEF ExchangeOf

LEMMA RunsKept ==
  ASSUME NEW r, NEW k, NEW l, NEW n, NEW m, NEW X, RunsOf(r, k, n, m, X), r.pc = "read" => k = l
  PROVE  RunsOf(r, l, n, m, X)
  BY Zenon DEF RunsOf

LEMMA KeptOn ==
  ASSUME StepInv, NEW d \in Commands, cmd'[d] = cmd[d], ctx'[d] = ctx[d],
         applied'[d] = applied[d], restarts' = restarts, Outstanding(d)' = Outstanding(d),
         cmd[d].conn # None => /\ sock'[cmd[d].conn] = sock[cmd[d].conn]
                               /\ cmd[d].conn \in closers' => cmd[d].conn \in closers
  PROVE  Locals(d)' /\ Exchange(d)' /\ Runs(d)'
<1>1. Locals(d) /\ Exchange(d) /\ Runs(d)
  BY Zenon DEF StepInv
<1>2. cmd[d].pc = "read" => cmd[d].conn # None
  BY <1>1, Zenon DEF Locals, LocalsOf, Connected
<1>3. Locals(d)'
  BY <1>1, Zenon DEF Locals
<1>4. Exchange(d)'
  BY <1>1, ExchangeKept DEF Exchange
<1>5. Runs(d)'
  BY <1>1, <1>2, RunsKept, Zenon DEF Runs
<1> QED
  BY <1>3, <1>4, <1>5, Zenon

(* A command without a socket.                                              *)
LEMMA NoExchange ==
  ASSUME NEW c \in Commands, cmd'[c].conn = None
  PROVE  Exchange(c)'
  BY Zenon DEF Exchange, ExchangeOf

(* A command whose exchange is over keeps what was said of its socket.      *)
LEMMA ExchangeOver ==
  ASSUME NEW c, NEW r, NEW q, NEW k, NEW C, NEW x, ExchangeOf(c, r, k, C, x),
         q.conn = r.conn, q.pc \notin {"do", "read"}, q.reusable => r.reusable
  PROVE  ExchangeOf(c, q, k, C, x)
  BY Zenon DEF ExchangeOf

(* A command that has sent nothing.                                         *)
LEMMA RunsUnsent ==
  ASSUME NEW r, NEW k, NEW n \in Nat, NEW m \in Nat, n <= m, NEW X, X = {},
         r.pc \in {"borrow", "wait", "turn", "dial", "do"}
  PROVE  RunsOf(r, k, n, m, X)
  BY DEF RunsOf

(* A command the step gives nothing but another watcher.                    *)
LEMMA RunsSame ==
  ASSUME NEW r, NEW q, NEW k, NEW n, NEW m, NEW X, RunsOf(r, k, n, m, X),
         q.pc = r.pc, q.conn = r.conn, q.outcome = r.outcome
  PROVE  RunsOf(q, k, n, m, X)
  BY Zenon DEF RunsOf

(* A command that has been served.                                          *)
LEMMA RunsServed ==
  ASSUME NEW r, NEW k, NEW n, NEW m, NEW X, X = {}, n <= 1 + m,
         r.pc \notin {"idle", "borrow", "wait", "turn", "dial", "do", "read"},
         r.pc \in {"stopWatch", "release", "free"} =>
           r.outcome \in {"ok", "stop"} /\ (r.outcome = "ok" => n >= 1),
         r.pc = "ok" => n >= 1
  PROVE  RunsOf(r, k, n, m, X)
  BY Zenon DEF RunsOf

LEMMA OthersKept ==
  ASSUME StepInv, NEW c \in Commands, \A d \in Commands \ {c} : cmd'[d] = cmd[d],
         UNCHANGED <<sock, closers, ctx, applied, restarts>>
  PROVE  \A d \in Commands \ {c} : Locals(d)' /\ Exchange(d)' /\ Runs(d)'
<1> SUFFICES ASSUME NEW d \in Commands \ {c}
             PROVE  Locals(d)' /\ Exchange(d)' /\ Runs(d)'
  BY Zenon
<1>1. Outstanding(d)' = Outstanding(d)
  BY Zenon DEF Outstanding
<1> QED
  BY <1>1, KeptOn, Zenon

LEMMA PoolKept ==
  ASSUME StepInv, \A d \in Commands : cmd'[d].conn = cmd[d].conn,
         UNCHANGED <<sock, closers, idle>>, closed' = "drained" => idle = <<>>
  PROVE  Pool'
<1>1. InUse' = InUse /\ Live' = Live
  BY Zenon DEF InUse, Live
<1>2. \A c \in InUse : c \in Commands
  BY Zenon DEF InUse
<1> QED
  BY <1>1, <1>2 DEF StepInv, Pool, Parked, Apart, Owned

(* A command that has no socket before and after the step.                  *)
LEMMA Unconnected ==
  ASSUME StepInv, NEW c \in Commands, NEW r \in Command, cmd' = [cmd EXCEPT ![c] = r],
         cmd[c].conn = None, r.conn = None, r.pc \notin Connected, ~r.watching, r.reply = None,
         r.reusable => r.pc = "free",
         UNCHANGED <<sock, closers, ctx, applied, restarts, idle, closed>>,
         Runs(c)'
  PROVE  /\ cmd' \in [Commands -> Command] /\ Pool'
         /\ \A d \in Commands : Locals(d)' /\ Exchange(d)' /\ Runs(d)'
         /\ \A s \in Sockets : HalfDuplex(s)'
<1>1. cmd \in [Commands -> Command]
  BY Zenon DEF StepInv, TypeOK
<1>2. cmd' \in [Commands -> Command] /\ cmd'[c] = r /\ \A d \in Commands \ {c} : cmd'[d] = cmd[d]
  BY <1>1, Zenon
<1>3. Pool'
  BY <1>2, PoolKept, Zenon DEF StepInv, Pool, Parked, Apart, Owned
<1>4. Locals(c)' /\ Exchange(c)'
  BY <1>2, Zenon DEF Locals, LocalsOf, Exchange, ExchangeOf
<1>5. \A s \in Sockets : HalfDuplex(s)'
  BY Zenon DEF StepInv, HalfDuplex
<1> QED
  BY <1>2, <1>3, <1>4, <1>5, OthersKept, Zenon

(* A step of a command that has no socket, up to the turn and the reply.    *)
LEMMA LocalStep ==
  ASSUME StepInv, NEW c \in Commands, NEW r \in Command, cmd' = [cmd EXCEPT ![c] = r],
         cmd[c].pc \notin Connected, r.pc \notin Connected, r.conn = None, ~r.watching,
         r.reply = None, r.reusable => r.pc = "free",
         UNCHANGED <<sock, closers, ctx, applied, restarts, idle, closed, loaded>>,
         groupWrite' \in {"unknown", "native", "lua"}, skipped' \in BOOLEAN,
         faults' \in 0 .. MaxFaults, faults <= faults', turns' \in 0 .. PoolSize,
         turns' = turns + Bit(cmd[c].pc \in Holding) - Bit(r.pc \in Holding),
         skipped' \/ (~skipped /\ (r.pc = "dial" => cmd[c].pc = "dial")),
         r.pc \in {"idle", "borrow", "wait", "turn", "dial"} =>
           applied[c] <= restarts /\ Outstanding(c) = {},
         r.pc = "free" => cmd[c].pc = "free" /\ cmd[c].outcome = r.outcome,
         r.pc = "ok" => applied[c] >= 1
  PROVE  Preserved
<1>1. TypeOK /\ cmd[c].conn = None /\ Runs(c)
  BY Zenon DEF StepInv, Locals, LocalsOf
<1>2. cmd' \in [Commands -> Command] /\ cmd'[c] = r /\ \A d \in Commands \ {c} : cmd'[d] = cmd[d]
  BY <1>1, Zenon DEF TypeOK
<1>3. TypeOK'
  BY <1>1, <1>2 DEF TypeOK
<1>4. Outstanding(c)' = Outstanding(c)
  BY Zenon DEF Outstanding
<1>5. Runs(c)'
  BY <1>1, <1>2, <1>4 DEF Runs, RunsOf, Command, Connected
<1>6. /\ Pool' /\ \A s \in Sockets : HalfDuplex(s)'
      /\ \A d \in Commands : Locals(d)' /\ Exchange(d)' /\ Runs(d)'
  BY <1>1, <1>5, Unconnected, ZenonT(60)
<1>7. Len(idle) \in Nat /\ Len(idle') = Len(idle)
  BY <1>1 DEF TypeOK
<1>8. /\ cmd'[c].pc = r.pc /\ turns' >= 0
      /\ skipped' \/ (~skipped /\ Len(idle) <= Len(idle) + Bit(cmd[c].pc \in Claiming)
                                                           - Bit(r.pc \in Claiming))
  BY <1>1, <1>2, <1>7 DEF Bit, Claiming, TypeOK
<1>9. Balanced
  BY <1>2, <1>7, <1>8, Balance, Zenon DEF OneMoves
<1> QED
  BY <1>3, <1>6, <1>9, Zenon DEF Preserved

(* Where LocalStep applies: the records a command is given.                 *)
LEMMA Records ==
  /\ NoCommand \in Command /\ NoCommand.conn = None /\ NoCommand.reply = None
  /\ ~NoCommand.watching /\ ~NoCommand.reusable /\ NoCommand.pc = "idle"
  /\ \A p \in {"ok", "failed"} :
       /\ Over(p) \in Command /\ Over(p).conn = None /\ Over(p).reply = None
       /\ ~Over(p).watching /\ ~Over(p).reusable /\ Over(p).pc = p
  /\ \A h \in Hops :
       /\ Hop(h) \in Command /\ Hop(h).conn = None /\ Hop(h).reply = None
       /\ ~Hop(h).watching /\ ~Hop(h).reusable /\ Hop(h).pc = "borrow" /\ Hop(h).hop = h
<1>1. MaxRetries \in Nat /\ 0 \in 0 .. MaxRetries
  BY ClientAssumption
<1> QED
  BY <1>1, ZenonT(60) DEF NoCommand, Command, Hops, Outcomes, Answers, Over, Hop

LEMMA AgainRecord ==
  ASSUME NEW r \in Command
  PROVE  /\ Again(r) \in Command /\ Again(r).conn = None /\ Again(r).reply = None
         /\ ~Again(r).watching /\ ~Again(r).reusable /\ Again(r).pc \in {"borrow", "failed"}
<1>1. r.hop \in Hops /\ r.attempt \in 0 .. MaxRetries /\ r.skipIdle \in BOOLEAN /\ MaxRetries \in Nat
  BY ClientAssumption, Zenon DEF Command
<1>2. CASE r.attempt < MaxRetries
  <2>1. Again(r) = [Hop(r.hop) EXCEPT !.attempt = r.attempt + 1, !.skipIdle = r.skipIdle]
    BY <1>2, Zenon DEF Again
  <2>2. r.attempt + 1 \in 0 .. MaxRetries
    BY <1>1, <1>2
  <2> QED
    BY <1>1, <2>1, <2>2, ZenonT(60) DEF Command, Hop, NoCommand, Outcomes, Answers
<1>3. CASE ~(r.attempt < MaxRetries)
  BY <1>3, Records, Zenon DEF Again
<1> QED
  BY <1>2, <1>3, Zenon

(* A turn is with c or back in the channel.                                 *)
LEMMA TurnTypes ==
  ASSUME StepInv
  PROVE  /\ turns \in 0 .. PoolSize /\ PoolSize \in Nat
         /\ faults \in 0 .. MaxFaults /\ MaxFaults \in Nat
         /\ groupWrite \in {"unknown", "native", "lua"} /\ skipped \in BOOLEAN
         /\ \A c \in Commands : cmd[c] \in Command
  BY ClientAssumption, Zenon DEF StepInv, TypeOK

LEMMA StartStep ==
  ASSUME StepInv, NEW c \in Commands, Start(c)
  PROVE  Preserved
<1> DEFINE h == IF c \in Groups /\ groupWrite # "lua" THEN "msetex"
                ELSE IF c \in Groups \cup Scripts THEN "evalsha" ELSE "command"
           r == IF Stopped(c) THEN Over("failed") ELSE Hop(h)
<1>1. cmd' = [cmd EXCEPT ![c] = r]
  BY Zenon DEF Start
<1>7. h \in Hops
  BY Zenon DEF Hops
<1> HIDE DEF h
<1>2. /\ r \in Command /\ r.conn = None /\ r.reply = None /\ ~r.watching /\ ~r.reusable
      /\ r.pc \in {"failed", "borrow"}
  BY <1>7, Records, Zenon
<1> HIDE DEF r
<1>3. cmd[c].pc = "idle" /\ applied[c] <= restarts /\ Outstanding(c) = {}
  BY Zenon DEF Start, At, StepInv, Runs, RunsOf
<1>4. turns' = turns + Bit(cmd[c].pc \in Holding) - Bit(r.pc \in Holding)
  BY <1>2, <1>3, TurnTypes DEF Start, Bit, Holding, Connected
<1>5. cmd[c].pc \notin Connected /\ r.pc \notin Connected
  BY <1>2, <1>3, Zenon DEF Connected
<1>6. UNCHANGED <<turns, idle, closed, groupWrite, sock, closers, ctx, loaded, applied, faults, restarts, skipped>>
  BY Zenon DEF Start, server
<1>8. /\ groupWrite' \in {"unknown", "native", "lua"} /\ skipped' \in BOOLEAN
      /\ faults' \in 0 .. MaxFaults /\ faults <= faults' /\ turns' \in 0 .. PoolSize
      /\ skipped' \/ ~skipped
  BY <1>6, TurnTypes
<1> QED
  BY <1>1, <1>2, <1>3, <1>4, <1>5, <1>6, <1>8, LocalStep, ZenonT(60)

(* The record of a command that only moves on, before it has a socket.      *)
LEMMA GotoRecord ==
  ASSUME StepInv, NEW c \in Commands, cmd[c].pc \in {"borrow", "wait", "turn"},
         NEW p \in {"wait", "turn", "dial"}, NEW r, r = [cmd[c] EXCEPT !.pc = p]
  PROVE  /\ r \in Command /\ r.conn = None /\ r.reply = None
         /\ ~r.watching /\ ~r.reusable /\ r.pc = p
<1>1. cmd[c] \in Command /\ Locals(c)
  BY TurnTypes, Zenon DEF StepInv
<1> QED
  BY <1>1, Zenon DEF Command, Locals, LocalsOf, Connected

(* Before the command has sent anything in this attempt.                    *)
LEMMA NothingSent ==
  ASSUME StepInv, NEW c \in Commands,
         cmd[c].pc \in {"idle", "borrow", "wait", "turn", "dial", "do"}
  PROVE  applied[c] <= restarts /\ Outstanding(c) = {}
  BY Zenon DEF StepInv, Runs, RunsOf

LEMMA BorrowStep ==
  ASSUME StepInv, NEW c \in Commands, Borrow(c) \/ Wait(c)
  PROVE  Preserved
<1>1. cmd[c].pc \in {"borrow", "wait"} /\ cmd[c].pc \notin Connected /\ cmd[c].pc \notin Holding
  BY Zenon DEF Borrow, Wait, At, Connected, Holding
<1>2. UNCHANGED <<idle, closed, groupWrite, sock, closers, ctx, loaded, applied, faults, restarts, skipped>>
  BY Zenon DEF Borrow, Wait, server
<1>3. /\ groupWrite' \in {"unknown", "native", "lua"} /\ skipped' \in BOOLEAN
      /\ faults' \in 0 .. MaxFaults /\ faults <= faults' /\ (skipped' \/ ~skipped)
  BY <1>2, TurnTypes
<1>4. CASE End(c) /\ UNCHANGED turns
  <2> DEFINE r == Over("failed")
  <2>1. /\ cmd' = [cmd EXCEPT ![c] = r] /\ r \in Command /\ r.conn = None /\ r.reply = None
        /\ ~r.watching /\ ~r.reusable /\ r.pc = "failed"
    BY <1>4, Records, Zenon DEF End
  <2> HIDE DEF r
  <2>2. turns' \in 0 .. PoolSize /\ turns' = turns + Bit(cmd[c].pc \in Holding) - Bit(r.pc \in Holding)
    BY <1>1, <1>4, <2>1, TurnTypes DEF Bit, Holding, Connected
  <2>3. r.pc \notin Connected
    BY <2>1, Zenon DEF Connected
  <2> QED
    BY <1>1, <1>2, <1>3, <2>1, <2>2, <2>3, LocalStep, ZenonT(60)
<1>5. CASE turns > 0 /\ turns' = turns - 1 /\ Goto(c, "turn")
  <2> DEFINE r == [cmd[c] EXCEPT !.pc = "turn"]
  <2>1. /\ cmd' = [cmd EXCEPT ![c] = r] /\ r \in Command /\ r.conn = None /\ r.reply = None
        /\ ~r.watching /\ ~r.reusable /\ r.pc = "turn"
    <3>1. cmd' = [cmd EXCEPT ![c] = r]
      BY <1>5, Zenon DEF Goto
    <3>2. cmd[c].pc \in {"borrow", "wait", "turn"} /\ "turn" \in {"wait", "turn", "dial"}
      BY <1>1, Zenon
    <3>3. /\ r \in Command /\ r.conn = None /\ r.reply = None
          /\ ~r.watching /\ ~r.reusable /\ r.pc = "turn"
      BY <3>2, GotoRecord, Zenon
    <3> QED
      BY <3>1, <3>3, Zenon
  <2> HIDE DEF r
  <2>2. turns' \in 0 .. PoolSize /\ turns' = turns + Bit(cmd[c].pc \in Holding) - Bit(r.pc \in Holding)
    BY <1>1, <1>5, <2>1, TurnTypes, SMTT(60) DEF Bit, Holding, Connected
  <2>3. r.pc \notin Connected
    BY <2>1, Zenon DEF Connected
  <2> QED
    BY <1>1, <1>2, <1>3, <2>1, <2>2, <2>3, NothingSent, LocalStep, ZenonT(60)
<1>6. CASE turns = 0 /\ turns' = 0 /\ Goto(c, "wait")
  <2> DEFINE r == [cmd[c] EXCEPT !.pc = "wait"]
  <2>1. /\ cmd' = [cmd EXCEPT ![c] = r] /\ r \in Command /\ r.conn = None /\ r.reply = None
        /\ ~r.watching /\ ~r.reusable /\ r.pc = "wait"
    BY <1>1, <1>6, GotoRecord, ZenonT(60) DEF Goto
  <2> HIDE DEF r
  <2>2. turns' \in 0 .. PoolSize /\ turns' = turns + Bit(cmd[c].pc \in Holding) - Bit(r.pc \in Holding)
    BY <1>1, <1>6, <2>1, TurnTypes, SMTT(60) DEF Bit, Holding, Connected
  <2>3. r.pc \notin Connected
    BY <2>1, Zenon DEF Connected
  <2> QED
    BY <1>1, <1>2, <1>3, <2>1, <2>2, <2>3, NothingSent, LocalStep, ZenonT(60)
<1> QED
  BY <1>4, <1>5, <1>6, TurnTypes, SMTT(60) DEF Borrow, Wait

(* A command gives its turn back and ends, starts over or goes to its next  *)
(* hop.                                                                     *)
LEMMA TurnGivenBack ==
  ASSUME StepInv, NEW c \in Commands, NEW r \in Command, cmd' = [cmd EXCEPT ![c] = r],
         cmd[c].pc \in {"turn", "dial", "free"}, r.pc \in {"borrow", "ok", "failed"}, r.conn = None,
         ~r.watching, r.reply = None, ~r.reusable, turns' = Freed,
         UNCHANGED <<sock, closers, ctx, applied, restarts, idle, closed, loaded, skipped>>,
         groupWrite' \in {"unknown", "native", "lua"}, faults' \in 0 .. MaxFaults, faults <= faults',
         r.pc = "borrow" => applied[c] <= restarts /\ Outstanding(c) = {},
         r.pc = "ok" => applied[c] >= 1
  PROVE  Preserved
<1>1. /\ cmd[c].pc \in Holding /\ cmd[c].pc \notin Connected
      /\ r.pc \notin Holding /\ r.pc \notin Connected
  BY Zenon DEF Holding, Connected
<1>2. turns' \in 0 .. PoolSize /\ turns' = turns + Bit(cmd[c].pc \in Holding) - Bit(r.pc \in Holding)
  BY <1>1, FreedGivesBack, TurnTypes DEF Bit
<1>3. skipped' \in BOOLEAN /\ (skipped' \/ ~skipped)
  BY TurnTypes, Zenon
<1> QED
  BY <1>1, <1>2, <1>3, LocalStep, ZenonT(60)

LEMMA SkipIdleStep ==
  ASSUME StepInv, NEW c \in Commands, SkipIdle(c)
  PROVE  Preserved
<1>1. cmd[c].pc = "turn" /\ cmd[c].pc \notin Connected /\ cmd[c].pc \in Holding
  BY Zenon DEF SkipIdle, At, Connected, Holding
<1>2. UNCHANGED <<idle, closed, groupWrite, sock, closers, ctx, loaded, applied, faults, restarts>>
  BY Zenon DEF SkipIdle, server
<1>3. /\ groupWrite' \in {"unknown", "native", "lua"}
      /\ faults' \in 0 .. MaxFaults /\ faults <= faults'
  BY <1>2, TurnTypes
<1>4. CASE turns' = Freed /\ End(c) /\ UNCHANGED skipped
  BY <1>1, <1>2, <1>3, <1>4, Records, TurnGivenBack, ZenonT(60) DEF End
<1>5. CASE Goto(c, "dial") /\ skipped' = TRUE /\ UNCHANGED turns
  <2> DEFINE r == [cmd[c] EXCEPT !.pc = "dial"]
  <2>1. /\ cmd' = [cmd EXCEPT ![c] = r] /\ r \in Command /\ r.conn = None /\ r.reply = None
        /\ ~r.watching /\ ~r.reusable /\ r.pc = "dial"
    BY <1>1, <1>5, GotoRecord, ZenonT(60) DEF Goto
  <2> HIDE DEF r
  <2>2. turns' \in 0 .. PoolSize /\ turns' = turns + Bit(cmd[c].pc \in Holding) - Bit(r.pc \in Holding)
    BY <1>1, <1>5, <2>1, TurnTypes, SMTT(60) DEF Bit, Holding, Connected
  <2>3. r.pc \notin Connected
    BY <2>1, Zenon DEF Connected
  <2> QED
    BY <1>1, <1>2, <1>3, <1>5, <2>1, <2>2, <2>3, NothingSent, LocalStep, ZenonT(60)
<1> QED
  BY <1>4, <1>5, ZenonT(60) DEF SkipIdle

LEMMA DialFailsStep ==
  ASSUME StepInv, NEW c \in Commands, DialFails(c)
  PROVE  Preserved
<1>1. cmd[c].pc = "dial" /\ turns' = Freed
  BY Zenon DEF DialFails, At
<1>2. UNCHANGED <<idle, closed, groupWrite, sock, closers, ctx, loaded, applied, restarts, skipped>>
  BY Zenon DEF DialFails
<1>3. /\ groupWrite' \in {"unknown", "native", "lua"}
      /\ faults' \in 0 .. MaxFaults /\ faults <= faults'
  BY <1>2, TurnTypes DEF DialFails
<1>4. CASE End(c)
  BY <1>1, <1>2, <1>3, <1>4, Records, TurnGivenBack, ZenonT(60) DEF End
<1>5. CASE cmd' = [cmd EXCEPT ![c] = Again(cmd[c])]
  BY <1>1, <1>2, <1>3, <1>5, TurnTypes, AgainRecord, NothingSent, TurnGivenBack, ZenonT(60)
<1> QED
  BY <1>4, <1>5, Zenon DEF DialFails, End

LEMMA FreeTurnStep ==
  ASSUME StepInv, NEW c \in Commands, FreeTurn(c)
  PROVE  Preserved
<1> DEFINE r == Decide(cmd[c])
<1>1. cmd[c].pc = "free" /\ turns' = Freed /\ cmd' = [cmd EXCEPT ![c] = r]
  BY Zenon DEF FreeTurn, At
<1>2. UNCHANGED <<idle, closed, faults, sock, closers, ctx, loaded, applied, restarts, skipped>>
  BY Zenon DEF FreeTurn, server
<1>3. /\ groupWrite' \in {"unknown", "native", "lua"}
      /\ faults' \in 0 .. MaxFaults /\ faults <= faults'
  BY <1>2, TurnTypes DEF FreeTurn
<1>4. /\ cmd[c].outcome = "ok" => applied[c] >= 1
      /\ cmd[c].outcome \notin {"ok", "stop"} => applied[c] <= restarts /\ Outstanding(c) = {}
  BY <1>1, Zenon DEF StepInv, Runs, RunsOf
<1>5. cmd[c] \in Command
  BY TurnTypes, Zenon
<1>6. CASE ShouldRetry(cmd[c].outcome)
  <2> DEFINE q == [cmd[c] EXCEPT !.skipIdle = cmd[c].skipIdle \/
                                   (cmd[c].fromIdle /\ cmd[c].outcome = "unreachable")]
  <2>4. ~FallsBack(cmd[c].outcome)
    BY <1>6, Zenon DEF ShouldRetry, FallsBack
  <2>1. r = Again(q)
    BY <1>6, <2>4, Zenon DEF Decide
  <2>2. q \in Command
    BY <1>5 DEF Command
  <2>3. cmd[c].outcome \notin {"ok", "stop"}
    BY <1>6, Zenon DEF ShouldRetry
  <2> HIDE DEF q, r
  <2> QED
    BY <1>1, <1>2, <1>3, <1>4, <2>1, <2>2, <2>3, AgainRecord, TurnGivenBack, ZenonT(60)
<1>7. CASE FallsBack(cmd[c].outcome)
  <2>1. ~ShouldRetry(cmd[c].outcome) /\ cmd[c].outcome \notin {"ok", "stop"}
    BY <1>7, Zenon DEF ShouldRetry, FallsBack
  <2>2. r = Hop(Fallback(cmd[c].outcome)) /\ Fallback(cmd[c].outcome) \in Hops
    BY <1>7, <2>1, Zenon DEF Decide, Fallback, Hops
  <2> HIDE DEF r
  <2> QED
    BY <1>1, <1>2, <1>3, <1>4, <2>1, <2>2, Records, TurnGivenBack, ZenonT(60)
<1>8. CASE ~ShouldRetry(cmd[c].outcome) /\ ~FallsBack(cmd[c].outcome)
  <2>1. r = Over(IF cmd[c].outcome = "ok" THEN "ok" ELSE "failed")
    BY <1>8, Zenon DEF Decide
  <2> HIDE DEF r
  <2> QED
    BY <1>1, <1>2, <1>3, <1>4, <2>1, Records, TurnGivenBack, ZenonT(60)
<1> QED
  BY <1>6, <1>7, <1>8, SMTT(60)

-----------------------------------------------------------------------------
(* The pool, fact by fact.                                                  *)

(* No socket is twice in the list.                                          *)
Distinct(q) == \A i, j \in DOMAIN q : q[i] = q[j] => i = j

LEMMA PoolTypes ==
  ASSUME StepInv
  PROVE  /\ idle \in Seq(Sockets) /\ Len(idle) \in Nat /\ Distinct(idle) /\ Range(idle) \subseteq Sockets
         /\ sock \in [Sockets -> Socket] /\ cmd \in [Commands -> Command] /\ closers \subseteq Sockets
         /\ None \notin Sockets /\ \A d \in Commands : cmd[d].conn \in Sockets \cup {None}
<1>1. idle \in Seq(Sockets) /\ sock \in [Sockets -> Socket] /\ cmd \in [Commands -> Command]
      /\ closers \subseteq Sockets /\ Pool
  BY Zenon DEF StepInv, TypeOK
<1>2. Len(idle) \in Nat /\ Range(idle) \subseteq Sockets
  BY <1>1, SeqFacts, Zenon
<1>3. None \notin Sockets /\ \A d \in Commands : cmd[d].conn \in Sockets \cup {None}
  BY <1>1, ClientAssumption, Zenon DEF Command
<1> QED
  BY <1>1, <1>2, <1>3, Zenon DEF Pool, Distinct

LEMMA ParkedFacts ==
  ASSUME StepInv, NEW u \in Range(idle)
  PROVE  /\ u \in Sockets /\ sock[u].open /\ sock[u].request = None /\ sock[u].replies = <<>>
         /\ u \notin closers /\ \A d \in Commands : cmd[d].conn # u
<1>1. u \in Sockets /\ u # None
  BY PoolTypes, Zenon
<1> QED
  BY <1>1, Zenon DEF StepInv, Pool, Parked, Apart, InUse

LEMMA ConnsApart ==
  ASSUME StepInv
  PROVE  \A d, e \in Commands : cmd[d].conn # None /\ cmd[d].conn = cmd[e].conn => d = e
  BY Zenon DEF StepInv, Pool, Apart, InUse

LEMMA OpenOwned ==
  ASSUME StepInv
  PROVE  \A u \in Sockets : sock[u].open => u \in Range(idle) \/ u \in {cmd[d].conn : d \in InUse}
  BY DEF StepInv, Pool, Owned, Live

LEMMA PoolFacts ==
  ASSUME StepInv
  PROVE  /\ idle \in Seq(Sockets) /\ Len(idle) \in Nat /\ Distinct(idle) /\ Range(idle) \subseteq Sockets
         /\ sock \in [Sockets -> Socket] /\ cmd \in [Commands -> Command] /\ closers \subseteq Sockets
         /\ \A u \in Range(idle) : /\ sock[u].open /\ sock[u].request = None /\ sock[u].replies = <<>>
                                   /\ u \notin closers /\ \A d \in Commands : cmd[d].conn # u
         /\ \A d, e \in Commands : cmd[d].conn # None /\ cmd[d].conn = cmd[e].conn => d = e
         /\ \A u \in Sockets : sock[u].open => \/ u \in Range(idle)
                                               \/ u \in {cmd[d].conn : d \in InUse}
         /\ \A d \in Commands : cmd[d].conn \in Sockets \cup {None}
         /\ None \notin Sockets
  BY PoolTypes, ParkedFacts, ConnsApart, OpenOwned, Zenon

-----------------------------------------------------------------------------
(* The steps of a command on its socket.                                    *)

LEMMA ExchangeStep ==
  ASSUME StepInv, NEW c \in Commands, NEW r \in Command, cmd' = [cmd EXCEPT ![c] = r],
         NEW s \in Sockets, NEW t \in Socket, sock' = [sock EXCEPT ![s] = t],
         cmd[c].conn = s, r.conn = s, r.pc \in Connected, t.open = sock[s].open,
         UNCHANGED <<turns, idle, closed, groupWrite, closers, ctx, loaded, applied, faults, restarts, skipped>>,
         HalfDuplex(s)', Locals(c)', Exchange(c)', Runs(c)',
         \A d \in Commands \ {c} : (t.request # None /\ t.request.by = d) <=>
                                  (sock[s].request # None /\ sock[s].request.by = d)
  PROVE  Preserved
<1>1. TypeOK /\ s # None /\ Locals(c) /\ Pool
  BY ClientAssumption, Zenon DEF StepInv
<1>2. /\ cmd' \in [Commands -> Command] /\ cmd'[c] = r /\ sock' \in [Sockets -> Socket] /\ sock'[s] = t
      /\ \A d \in Commands \ {c} : cmd'[d] = cmd[d]
      /\ \A u \in Sockets \ {s} : sock'[u] = sock[u]
  BY <1>1, Zenon DEF TypeOK
<1>3. TypeOK'
  BY <1>1, <1>2, Zenon DEF TypeOK
<1>4. cmd[c].pc \in Connected
  BY <1>1, Zenon DEF Locals, LocalsOf
<1>5. InUse' = InUse /\ c \in InUse /\ \A d \in InUse : d \in Commands /\ cmd'[d].conn = cmd[d].conn
  BY <1>1, <1>2 DEF InUse
<1>6. Live' = Live
  BY <1>2 DEF Live
<1>7. s \notin Range(idle) /\ \A u \in Range(idle) : u \in Sockets \ {s}
  BY <1>1, <1>5 DEF Pool, Parked, Apart, Owned, TypeOK, Range
<1>8. Pool'
  BY <1>1, <1>2, <1>5, <1>6, <1>7, SMTT(60) DEF Pool, Parked, Apart, Owned
<1>9. Balanced
  <2>1. Len(idle) \in Nat /\ Len(idle') = Len(idle) /\ turns \in Nat /\ skipped \in BOOLEAN
    BY <1>1, ClientAssumption DEF TypeOK
  <2>2. turns' = turns + Bit(cmd[c].pc \in Holding) - Bit(cmd'[c].pc \in Holding) /\ turns' >= 0
    BY <1>2, <1>4, <2>1 DEF Bit, Holding
  <2>3. skipped' \/ (~skipped /\ Len(idle) <= Len(idle) + Bit(cmd[c].pc \in Claiming)
                                                       - Bit(cmd'[c].pc \in Claiming))
    BY <1>2, <1>4, <2>1 DEF Bit, Claiming
  <2> QED
    BY <1>2, <2>1, <2>2, <2>3, Balance, SMTT(60) DEF OneMoves
<1>10. ASSUME NEW d \in Commands \ {c}
       PROVE  Locals(d)' /\ Exchange(d)' /\ Runs(d)'
  <2>1. cmd[d].conn # None => cmd[d].conn \in Sockets \ {s}
    BY PoolTypes, ConnsApart, Zenon
  <2>2. Outstanding(d)' = Outstanding(d)
    BY <1>2 DEF Outstanding
  <2> QED
    BY <1>2, <2>1, <2>2, KeptOn, Zenon
<1>11. \A u \in Sockets : HalfDuplex(u)'
  BY <1>2 DEF StepInv, HalfDuplex
<1> QED
  BY <1>3, <1>8, <1>9, <1>10, <1>11, Zenon DEF Preserved

(* A command with a socket: what the invariant says of it.                  *)
LEMMA ConnectedFacts ==
  ASSUME StepInv, NEW c \in Commands, cmd[c].pc \in Connected
  PROVE  /\ cmd[c] \in Command /\ cmd[c].conn \in Sockets /\ cmd[c].conn # None
         /\ sock[cmd[c].conn] \in Socket /\ sock = [sock EXCEPT ![cmd[c].conn] = sock[cmd[c].conn]]
         /\ Locals(c) /\ Exchange(c) /\ Runs(c) /\ HalfDuplex(cmd[c].conn)
<1>1. TypeOK /\ Locals(c) /\ Exchange(c) /\ Runs(c) /\ \A s \in Sockets : HalfDuplex(s)
  BY Zenon DEF StepInv
<1>2. cmd[c].conn \in Sockets /\ cmd[c] \in Command /\ cmd[c].conn # None
  BY <1>1, Zenon DEF TypeOK, Command, Locals, LocalsOf
<1> QED
  BY <1>1, <1>2, Zenon DEF TypeOK

LEMMA OutcomeFacts ==
  ASSUME NEW c \in Commands, Runs(c), cmd[c].pc \in {"stopWatch", "release", "free"}
  PROVE  /\ cmd[c].outcome = "ok" => applied[c] >= 1
         /\ cmd[c].outcome \notin {"ok", "stop"} => applied[c] <= restarts /\ Outstanding(c) = {}
  BY Zenon DEF Runs, RunsOf

(* A command whose exchange is over.                                        *)
LEMMA RunsOn ==
  ASSUME NEW c \in Commands, Runs(c), cmd'[c].pc \in {"stopWatch", "release", "free"},
         UNCHANGED <<applied, restarts>>, Outstanding(c)' = Outstanding(c),
         cmd'[c].outcome = "ok" => applied[c] >= 1,
         cmd'[c].outcome \notin {"ok", "stop"} => applied[c] <= restarts /\ Outstanding(c) = {}
  PROVE  Runs(c)'
  BY Zenon DEF Runs, RunsOf

(* The clauses of the invariant for a command on the socket s.              *)
LEMMA ExchangeFacts ==
  ASSUME NEW c \in Commands, NEW s, cmd[c].conn = s, s # None, Exchange(c)
  PROVE  /\ ~sock[s].open \/ s \in closers => ctx[c] = "done"
         /\ cmd[c].pc = "do" \/ cmd[c].reusable => sock[s].request = None
         /\ cmd[c].reusable => sock[s].replies = <<>>
         /\ cmd[c].pc = "read" /\ sock[s].request # None => sock[s].request.by = c
         /\ cmd[c].pc = "read" /\ sock[s].replies # <<>> => Head(sock[s].replies).to = c
  BY Zenon DEF Exchange, ExchangeOf

LEMMA ExchangeHolds ==
  ASSUME NEW c \in Commands, NEW s, cmd'[c].conn = s,
         ~sock'[s].open \/ s \in closers' => ctx'[c] = "done",
         cmd'[c].pc = "do" \/ cmd'[c].reusable => sock'[s].request = None,
         cmd'[c].reusable => sock'[s].replies = <<>>,
         cmd'[c].pc = "read" /\ sock'[s].request # None => sock'[s].request.by = c,
         cmd'[c].pc = "read" /\ sock'[s].replies # <<>> => Head(sock'[s].replies).to = c
  PROVE  Exchange(c)'
  BY Zenon DEF Exchange, ExchangeOf

LEMMA ReadingFacts ==
  ASSUME NEW c \in Commands, NEW s, cmd[c].conn = s, cmd[c].pc = "read", Runs(c)
  PROVE  /\ Outstanding(c) \subseteq {s}
         /\ sock[s].open /\ ~sock[s].alive => applied[c] <= restarts
         /\ sock[s].replies # <<>> => IF Head(sock[s].replies).answer = "ok" THEN applied[c] >= 1
                                      ELSE applied[c] <= restarts
  BY Zenon DEF Runs, RunsOf

LEMMA RunsReading ==
  ASSUME NEW c \in Commands, NEW s, cmd'[c].conn = s, cmd'[c].pc = "read",
         applied'[c] <= 1 + restarts', Outstanding(c)' # {} => applied'[c] <= restarts',
         Outstanding(c)' \subseteq {s}, sock'[s].open /\ ~sock'[s].alive => applied'[c] <= restarts',
         sock'[s].replies # <<>> => IF Head(sock'[s].replies).answer = "ok" THEN applied'[c] >= 1
                                    ELSE applied'[c] <= restarts'
  PROVE  Runs(c)'
<1>1. \A s1, s2 \in Outstanding(c)' : s1 = s2
  BY Zenon
<1> QED
  BY <1>1, Zenon DEF Runs, RunsOf

LEMMA StopWatchStep ==
  ASSUME StepInv, NEW c \in Commands, StopWatch(c)
  PROVE  Preserved
<1> DEFINE s == cmd[c].conn
           r == [cmd[c] EXCEPT !.pc = "release", !.watching = FALSE]
<1>1. /\ cmd[c].pc = "stopWatch" /\ cmd[c].pc \in Connected /\ cmd' = [cmd EXCEPT ![c] = r]
      /\ UNCHANGED <<turns, idle, closed, groupWrite, sock, closers, ctx, loaded, applied, faults,
                     restarts, skipped>>
  BY ZenonT(60) DEF StopWatch, At, Connected, server
<1>2. /\ cmd[c] \in Command /\ s \in Sockets /\ s # None /\ sock[s] \in Socket
      /\ sock' = [sock EXCEPT ![s] = sock[s]]
      /\ Locals(c) /\ Exchange(c) /\ Runs(c) /\ HalfDuplex(s)
  BY <1>1, ConnectedFacts, Zenon
<1>3. r \in Command /\ r.conn = s /\ r.pc \in Connected /\ cmd'[c] = r
  BY <1>1, <1>2, ZenonT(60) DEF Command, Connected, StepInv, TypeOK
<1>4. HalfDuplex(s)'
  BY <1>1, <1>2 DEF HalfDuplex
<1>5. Locals(c)'
  BY <1>1, <1>2, <1>3 DEF Locals, LocalsOf, Connected, Command
<1>6. Exchange(c)'
  <2>1. r.pc = "release" /\ r.reusable = cmd[c].reusable
    BY <1>2, Zenon DEF Command
  <2>2. PICK q : q = cmd'[c] /\ q.conn = s /\ q.pc = "release" /\ q.reusable = cmd[c].reusable
    BY <1>3, <2>1, ZenonT(60)
  <2>3. ExchangeOf(c, q, sock[s], closers, ctx[c])
    BY <1>2, <2>2, ExchangeOver, Zenon DEF Exchange
  <2> QED
    BY <1>1, <2>2, <2>3, ZenonT(60) DEF Exchange
<1>8. cmd'[c].pc = "release" /\ cmd'[c].outcome = cmd[c].outcome /\ Outstanding(c)' = Outstanding(c)
  <2>1. r.pc = "release" /\ r.outcome = cmd[c].outcome
    BY <1>2, Zenon DEF Command
  <2>2. Outstanding(c)' = Outstanding(c)
    BY <1>1, Zenon DEF Outstanding
  <2> QED
    BY <1>3, <2>1, <2>2, ZenonT(60)
<1>9. /\ cmd[c].outcome = "ok" => applied[c] >= 1
      /\ cmd[c].outcome \notin {"ok", "stop"} => applied[c] <= restarts /\ Outstanding(c) = {}
  BY <1>1, <1>2, OutcomeFacts, Zenon
<1>7. Runs(c)'
  BY <1>1, <1>2, <1>8, <1>9, RunsOn, Zenon
<1> HIDE DEF r, s
<1> QED
  BY <1>1, <1>2, <1>3, <1>4, <1>5, <1>6, <1>7, ExchangeStep, ZenonT(60) DEF s

LEMMA ReadFailsStep ==
  ASSUME StepInv, NEW c \in Commands, ReadFails(c)
  PROVE  Preserved
<1> DEFINE s == cmd[c].conn
           r == [cmd[c] EXCEPT !.pc = "stopWatch", !.outcome = IoOrContext(c)]
<1>1. /\ cmd[c].pc = "read" /\ cmd[c].pc \in Connected /\ cmd' = [cmd EXCEPT ![c] = r]
      /\ ctx[c] = "late" \/ ~sock[s].open \/ ~sock[s].alive
      /\ UNCHANGED <<turns, idle, closed, groupWrite, sock, closers, ctx, loaded, applied, faults,
                     restarts, skipped>>
  BY ZenonT(60) DEF ReadFails, At, Connected, server
<1>2. /\ cmd[c] \in Command /\ s \in Sockets /\ s # None /\ sock[s] \in Socket
      /\ sock' = [sock EXCEPT ![s] = sock[s]]
      /\ Locals(c) /\ Exchange(c) /\ Runs(c) /\ HalfDuplex(s)
  BY <1>1, ConnectedFacts, Zenon
<1>3. r \in Command /\ r.conn = s /\ r.pc \in Connected /\ cmd'[c] = r
  BY <1>1, <1>2, ZenonT(60) DEF Command, Connected, StepInv, TypeOK, IoOrContext, Outcomes
<1>4. HalfDuplex(s)'
  BY <1>1, <1>2 DEF HalfDuplex
<1>5. Locals(c)'
  BY <1>1, <1>2, <1>3 DEF Locals, LocalsOf, Connected, Command
<1>6. Exchange(c)'
  <2>1. r.pc = "stopWatch" /\ r.reusable = cmd[c].reusable
    BY <1>2, Zenon DEF Command
  <2>2. PICK q : q = cmd'[c] /\ q.conn = s /\ q.pc = "stopWatch" /\ q.reusable = cmd[c].reusable
    BY <1>3, <2>1, ZenonT(60)
  <2>3. ExchangeOf(c, q, sock[s], closers, ctx[c])
    BY <1>2, <2>2, ExchangeOver, Zenon DEF Exchange
  <2> QED
    BY <1>1, <2>2, <2>3, ZenonT(60) DEF Exchange
<1>7. r.outcome = "stop" \/ (r.outcome = "unreachable" /\ applied[c] <= restarts /\ Outstanding(c) = {})
  <2>1. CASE Stopped(c)
    BY <1>2, <2>1, Zenon DEF IoOrContext, Command
  <2>2. CASE ~Stopped(c)
    <3>1. sock[s].open /\ ~sock[s].alive /\ sock[s].request = None
      BY <1>1, <1>2, <2>2, ExchangeFacts, ZenonT(60) DEF Stopped, HalfDuplex
    <3>2. applied[c] <= restarts /\ Outstanding(c) \subseteq {s}
      BY <1>1, <1>2, <3>1, ReadingFacts, ZenonT(60)
    <3>3. Outstanding(c) = {}
      BY <3>1, <3>2, Zenon DEF Outstanding
    <3> QED
      BY <1>2, <2>2, <3>2, <3>3, Zenon DEF IoOrContext, Command
  <2> QED
    BY <2>1, <2>2, Zenon
<1>9. cmd'[c].pc = "stopWatch" /\ cmd'[c].outcome = r.outcome /\ Outstanding(c)' = Outstanding(c)
  <2>1. r.pc = "stopWatch"
    BY <1>2, Zenon DEF Command
  <2>2. Outstanding(c)' = Outstanding(c)
    BY <1>1, Zenon DEF Outstanding
  <2> QED
    BY <1>3, <2>1, <2>2, ZenonT(60)
<1>8. Runs(c)'
  BY <1>1, <1>2, <1>7, <1>9, RunsOn, Zenon
<1> HIDE DEF r, s
<1> QED
  BY <1>1, <1>2, <1>3, <1>4, <1>5, <1>6, <1>8, ExchangeStep, ZenonT(60) DEF s

LEMMA ReadReply ==
  ASSUME NEW q \in Seq(Reply), q # <<>>
  PROVE  /\ Head(q) \in Reply /\ Tail(q) \in Seq(Reply)
         /\ Len(q) = 1 => Tail(q) = <<>>
<1>1. /\ Head(q) \in Reply /\ Tail(q) \in Seq(Reply) /\ Len(q) \in Nat
      /\ Len(Tail(q)) = Len(q) - 1
  BY SeqFacts
<1>2. Len(q) = 1 => Len(Tail(q)) = 0
  BY <1>1
<1>3. Tail(q) # <<>> => Len(Tail(q)) \in Nat \ {0}
  BY <1>1, EmptyFacts
<1> QED
  BY <1>1, <1>2, <1>3, Zenon

LEMMA ReadStep ==
  ASSUME StepInv, NEW c \in Commands, Read(c)
  PROVE  Preserved
<1>1. cmd[c].pc = "read" /\ cmd[c].pc \in Connected
  BY ZenonT(60) DEF Read, At, Connected
<1>2. PICK s \in Sockets : s = cmd[c].conn /\ s # None
  BY <1>1, ConnectedFacts, Zenon
<1>3. /\ cmd[c] \in Command /\ sock[s] \in Socket /\ Locals(c) /\ Exchange(c) /\ Runs(c) /\ HalfDuplex(s)
      /\ cmd \in [Commands -> Command] /\ sock \in [Sockets -> Socket]
  BY <1>1, <1>2, ConnectedFacts, Zenon DEF StepInv, TypeOK
<1> DEFINE h == Head(sock[s].replies)
           t == [sock[s] EXCEPT !.replies = Tail(sock[s].replies)]
           r == [cmd[c] EXCEPT !.pc = "stopWatch", !.reply = h,
                   !.reusable = Reusable(c), !.outcome = Returned(c, h)]
<1>4. /\ cmd' = [cmd EXCEPT ![c] = r] /\ sock' = [sock EXCEPT ![s] = t]
      /\ sock[s].open /\ sock[s].replies # <<>>
      /\ UNCHANGED <<turns, idle, closed, groupWrite, closers, ctx, loaded, applied, faults,
                     restarts, skipped>>
  BY <1>2, ZenonT(60) DEF Read, server
<1>5. /\ h \in Reply /\ Tail(sock[s].replies) \in Seq(Reply)
      /\ Len(sock[s].replies) = 1 => Tail(sock[s].replies) = <<>>
  BY <1>3, <1>4, ReadReply, Zenon DEF Socket
<1>6. t \in Socket /\ sock'[s] = t
  BY <1>3, <1>4, <1>5, ZenonT(60) DEF Socket
<1>7. Returned(c, h) \in Outcomes /\ Reusable(c) \in BOOLEAN
  BY <1>5, Zenon DEF Returned, Outcomes, Reply, Reusable
<1>8. r \in Command /\ cmd'[c] = r
  BY <1>3, <1>4, <1>5, <1>7, ZenonT(60) DEF Command
<1>9. /\ r.pc = "stopWatch" /\ r.reply = h /\ r.reusable = Reusable(c) /\ r.outcome = Returned(c, h)
      /\ r.watching = cmd[c].watching /\ r.conn = s /\ h.to = c
  <2>1. h.to = c
    BY <1>1, <1>2, <1>3, <1>4, ExchangeFacts, ZenonT(60)
  <2> QED
    BY <1>2, <1>3, <2>1, Zenon DEF Command
<1>10. /\ t.open = sock[s].open /\ t.request = None /\ sock[s].request = None
       /\ t.alive = sock[s].alive /\ t.alive /\ t.replies = Tail(sock[s].replies)
  BY <1>3, <1>4, ZenonT(60) DEF HalfDuplex, Socket
<1>11. Reusable(c) => t.replies = <<>>
  BY <1>2, <1>5, <1>10, Zenon DEF Reusable
<1> HIDE DEF r, t, h
<1>12. HalfDuplex(s)'
  BY <1>6, <1>10, Zenon DEF HalfDuplex
<1>13. Locals(c)'
  BY <1>2, <1>8, <1>9, Zenon DEF Locals, LocalsOf, Connected
<1>14. ~sock[s].open \/ s \in closers => ctx[c] = "done"
  BY <1>2, <1>3, ExchangeFacts, Zenon
<1>15. Exchange(c)'
  <2>1. /\ cmd'[c].conn = s /\ cmd'[c].pc # "read" /\ sock'[s].request = None
        /\ cmd'[c].reusable => sock'[s].replies = <<>>
    BY <1>6, <1>8, <1>9, <1>10, <1>11, Zenon
  <2>2. ~sock'[s].open \/ s \in closers' => ctx'[c] = "done"
    BY <1>4, <1>6, <1>10, <1>14, ZenonT(60)
  <2> QED
    BY <2>1, <2>2, ExchangeHolds, Zenon
<1>16. Outstanding(c) \subseteq {s} /\ (h.answer = "ok" => applied[c] >= 1)
       /\ (h.answer # "ok" => applied[c] <= restarts)
  BY <1>1, <1>2, <1>3, <1>4, ReadingFacts, ZenonT(60) DEF h
<1>17. Outstanding(c)' = Outstanding(c) /\ Outstanding(c) = {}
  BY <1>3, <1>4, <1>10, <1>16, Zenon DEF Outstanding
<1>18. Runs(c)'
  BY <1>3, <1>4, <1>8, <1>9, <1>16, <1>17, RunsOn, ZenonT(60) DEF Returned
<1>19. r.pc \in Connected
  BY <1>9, Zenon DEF Connected
<1> QED
  BY <1>2, <1>4, <1>6, <1>8, <1>9, <1>10, <1>12, <1>13, <1>15, <1>18, <1>19, ExchangeStep, ZenonT(60)

(* Send, when it leaves the socket alone.                                   *)
LEMMA SendStops ==
  ASSUME StepInv, NEW c \in Commands, cmd[c].pc = "do",
         NEW o \in {"stop", "unreachable"}, NEW p \in {"release", "stopWatch"}, NEW w \in BOOLEAN,
         w => p = "stopWatch",
         cmd' = [cmd EXCEPT ![c] = [cmd[c] EXCEPT !.pc = p, !.watching = w, !.outcome = o]],
         UNCHANGED <<turns, idle, closed, groupWrite, sock, closers, ctx, loaded, applied, faults,
                     restarts, skipped>>
  PROVE  Preserved
<1>1. cmd[c].pc \in Connected
  BY Zenon DEF Connected
<1>2. PICK s \in Sockets : s = cmd[c].conn /\ s # None
  BY <1>1, ConnectedFacts, Zenon
<1>3. /\ cmd[c] \in Command /\ sock[s] \in Socket /\ Locals(c) /\ Exchange(c) /\ Runs(c) /\ HalfDuplex(s)
      /\ cmd \in [Commands -> Command] /\ sock \in [Sockets -> Socket]
      /\ sock' = [sock EXCEPT ![s] = sock[s]]
  BY <1>1, <1>2, ConnectedFacts, Zenon DEF StepInv, TypeOK
<1> DEFINE r == [cmd[c] EXCEPT !.pc = p, !.watching = w, !.outcome = o]
<1>4. ~cmd[c].reusable /\ cmd[c].reply = None /\ applied[c] <= restarts /\ Outstanding(c) = {}
  BY <1>3, NothingSent, Zenon DEF Locals, LocalsOf
<1>5. r \in Command /\ cmd'[c] = r
  BY <1>3, ZenonT(60) DEF Command, Outcomes
<1>6. r.pc = p /\ r.watching = w /\ r.outcome = o /\ r.reply = None /\ ~r.reusable /\ r.conn = s
  BY <1>2, <1>3, <1>4, Zenon DEF Command
<1> HIDE DEF r
<1>7. HalfDuplex(s)'
  BY <1>3, Zenon DEF HalfDuplex
<1>8. Locals(c)'
  BY <1>2, <1>5, <1>6, ZenonT(60) DEF Locals, LocalsOf, Connected
<1>9. Exchange(c)'
  <2>1. /\ cmd'[c].conn = s /\ cmd'[c].pc # "read" /\ cmd'[c].pc # "do" /\ ~cmd'[c].reusable
    BY <1>5, <1>6, ZenonT(60)
  <2>2. ~sock'[s].open \/ s \in closers' => ctx'[c] = "done"
    BY <1>2, <1>3, ExchangeFacts, ZenonT(60)
  <2> QED
    BY <2>1, <2>2, ExchangeHolds, Zenon
<1>10. Outstanding(c)' = Outstanding(c)
  BY Zenon DEF Outstanding
<1>11. Runs(c)'
  BY <1>3, <1>4, <1>5, <1>6, <1>10, RunsOn, ZenonT(60)
<1>12. r.pc \in Connected
  BY <1>6, Zenon DEF Connected
<1>13. cmd' = [cmd EXCEPT ![c] = r]
  BY Zenon DEF r
<1> QED
  BY <1>2, <1>3, <1>5, <1>6, <1>7, <1>8, <1>9, <1>11, <1>12, <1>13, ExchangeStep, ZenonT(60)

(* Send, when it writes the request; a dead peer takes nothing.             *)
LEMMA SendWrites ==
  ASSUME StepInv, NEW c \in Commands, cmd[c].pc = "do", NEW s, s = cmd[c].conn, ~Unread(s),
         sock' = IF sock[s].alive
                 THEN [sock EXCEPT ![s].request = [by |-> c, hop |-> cmd[c].hop]]
                 ELSE sock,
         cmd' = [cmd EXCEPT ![c].pc = "read", ![c].watching = TRUE],
         UNCHANGED <<turns, idle, closed, groupWrite, closers, ctx, loaded, applied, faults,
                     restarts, skipped>>
  PROVE  Preserved
<1>1. cmd[c].pc \in Connected
  BY Zenon DEF Connected
<1>2. s \in Sockets /\ s # None
  BY <1>1, ConnectedFacts, Zenon
<1>3. /\ cmd[c] \in Command /\ sock[s] \in Socket /\ Locals(c) /\ Exchange(c) /\ Runs(c) /\ HalfDuplex(s)
      /\ cmd \in [Commands -> Command] /\ sock \in [Sockets -> Socket]
  BY <1>1, <1>2, ConnectedFacts, Zenon DEF StepInv, TypeOK
<1> DEFINE r == [cmd[c] EXCEPT !.pc = "read", !.watching = TRUE]
           q == [by |-> c, hop |-> cmd[c].hop]
           t == IF sock[s].alive THEN [sock[s] EXCEPT !.request = q] ELSE sock[s]
<1>4. ~cmd[c].reusable /\ cmd[c].reply = None /\ applied[c] <= restarts /\ Outstanding(c) = {}
  BY <1>3, NothingSent, Zenon DEF Locals, LocalsOf
<1>5. r \in Command /\ cmd' = [cmd EXCEPT ![c] = r] /\ cmd'[c] = r
  BY <1>3, ZenonT(60) DEF Command
<1>6. r.pc = "read" /\ r.watching /\ r.reply = None /\ ~r.reusable /\ r.conn = s
  BY <1>3, <1>4, Zenon DEF Command
<1>7. sock[s].request = None /\ sock[s].replies = <<>> /\ q.by = c
  BY <1>2, <1>3, ExchangeFacts, Zenon DEF Unread
<1>8. t \in Socket /\ sock' = [sock EXCEPT ![s] = t] /\ sock'[s] = t
  BY <1>2, <1>3, ZenonT(60) DEF Socket, Command
<1>9. /\ t.open = sock[s].open /\ t.replies = <<>> /\ t.alive = sock[s].alive
      /\ t.request # None => t.request = q /\ t.alive
  BY <1>3, <1>7, Zenon DEF Socket
<1> HIDE DEF r, t
<1>10. HalfDuplex(s)'
  BY <1>8, <1>9, ZenonT(60) DEF HalfDuplex
<1>11. Locals(c)'
  BY <1>2, <1>5, <1>6, ZenonT(60) DEF Locals, LocalsOf, Connected
<1>12. Exchange(c)'
  <2>1. /\ cmd'[c].conn = s /\ cmd'[c].pc # "do" /\ ~cmd'[c].reusable /\ sock'[s].replies = <<>>
        /\ sock'[s].request # None => sock'[s].request.by = c
    BY <1>5, <1>6, <1>7, <1>8, <1>9, ZenonT(60)
  <2>2. ~sock'[s].open \/ s \in closers' => ctx'[c] = "done"
    BY <1>2, <1>3, <1>8, <1>9, ExchangeFacts, ZenonT(60)
  <2> QED
    BY <2>1, <2>2, ExchangeHolds, ZenonT(60)
<1>13. Outstanding(c)' \subseteq {s}
  BY <1>3, <1>4, <1>8, Zenon DEF Outstanding
<1>14. Runs(c)'
  <2>1. applied[c] \in Nat /\ restarts \in Nat /\ applied'[c] = applied[c] /\ restarts' = restarts
    BY DEF StepInv, TypeOK
  <2>2. applied'[c] <= restarts' /\ applied'[c] <= 1 + restarts'
    BY <1>4, <2>1
  <2>3. cmd'[c].conn = s /\ cmd'[c].pc = "read" /\ sock'[s].replies = <<>>
    BY <1>5, <1>6, <1>8, <1>9, ZenonT(60)
  <2> QED
    BY <1>13, <2>2, <2>3, RunsReading, ZenonT(60)
<1>15. r.pc \in Connected
  BY <1>6, Zenon DEF Connected
<1>16. \A d \in Commands \ {c} : (t.request # None /\ t.request.by = d) <=>
                                (sock[s].request # None /\ sock[s].request.by = d)
  BY <1>7, <1>9, Zenon
<1>17. cmd[c].conn = s /\ r.conn = s /\ t.open = sock[s].open
  BY <1>6, <1>9, Zenon
<1> QED
  BY <1>2, <1>5, <1>8, <1>10, <1>11, <1>12, <1>14, <1>15, <1>16, <1>17, ExchangeStep, ZenonT(60)

LEMMA SendStep ==
  ASSUME StepInv, NEW c \in Commands, Send(c)
  PROVE  Preserved
<1>1. /\ cmd[c].pc = "do"
      /\ UNCHANGED <<turns, idle, closed, groupWrite, closers, ctx, loaded, applied, faults,
                     restarts, skipped>>
  BY Zenon DEF Send, At, server
<1>2. cmd \in [Commands -> Command] /\ cmd[c] \in Command /\ cmd[c].watching = FALSE
  BY <1>1 DEF StepInv, TypeOK, Locals, LocalsOf, Command
<1>3. CASE /\ cmd' = [cmd EXCEPT ![c].pc = "release", ![c].outcome = "stop"]
           /\ UNCHANGED sock
  <2>1. [cmd[c] EXCEPT !.pc = "release", !.outcome = "stop"]
          = [cmd[c] EXCEPT !.pc = "release", !.watching = FALSE, !.outcome = "stop"]
    BY <1>2, ZenonT(60) DEF Command
  <2>2. cmd' = [cmd EXCEPT ![c] = [cmd[c] EXCEPT !.pc = "release", !.watching = FALSE, !.outcome = "stop"]]
    BY <1>3, <2>1, ZenonT(60)
  <2> QED
    BY <1>1, <1>3, <2>2, SendStops, ZenonT(60)
<1>4. CASE /\ cmd' = [cmd EXCEPT ![c].pc = "stopWatch", ![c].watching = TRUE,
                                 ![c].outcome = "unreachable"]
           /\ UNCHANGED sock
  BY <1>1, <1>4, SendStops, ZenonT(60)
<1>5. CASE /\ ~Unread(cmd[c].conn)
           /\ sock' = IF sock[cmd[c].conn].alive
                      THEN [sock EXCEPT ![cmd[c].conn].request = [by |-> c, hop |-> cmd[c].hop]]
                      ELSE sock
           /\ cmd' = [cmd EXCEPT ![c].pc = "read", ![c].watching = TRUE]
  BY <1>1, <1>5, SendWrites, ZenonT(60)
<1> QED
  BY <1>3, <1>4, <1>5, ZenonT(60) DEF Send

-----------------------------------------------------------------------------
(* Sockets that are taken, parked and closed.                               *)

(* A closed socket keeps its request, as long as its peer lives.            *)
LEMMA ShutFacts ==
  ASSUME StepInv, NEW X
  PROVE  /\ Shut(X) \in [Sockets -> Socket]
         /\ \A s \in Sockets \ X : Shut(X)[s] = sock[s]
         /\ \A s \in Sockets \cap X : ~Shut(X)[s].open /\ Shut(X)[s].replies = <<>>
         /\ \A s \in Sockets : Shut(X)[s].request = sock[s].request
         /\ \A s \in Sockets : /\ Shut(X)[s].request # None => Shut(X)[s].replies = <<>>
                               /\ ~Shut(X)[s].alive => /\ Shut(X)[s].request = None
                                                       /\ Shut(X)[s].replies = <<>>
<1>1. sock \in [Sockets -> Socket] /\ \A s \in Sockets : HalfDuplex(s)
  BY Zenon DEF StepInv, TypeOK
<1>2. ASSUME NEW s \in Sockets \cap X
      PROVE  /\ Shut(X)[s] \in Socket /\ ~Shut(X)[s].open /\ Shut(X)[s].replies = <<>>
             /\ Shut(X)[s].request = sock[s].request
             /\ Shut(X)[s].alive = (sock[s].alive /\ sock[s].request # None)
  <2> DEFINE a == sock[s].alive /\ sock[s].request # None
  <2>1. Shut(X)[s] = [open |-> FALSE, alive |-> a, request |-> sock[s].request, replies |-> <<>>]
    BY ZenonT(60) DEF Shut, NoSocket
  <2>2. a \in BOOLEAN /\ sock[s].request \in {None} \cup [by : Commands, hop : Hops]
    BY <1>1, Zenon DEF Socket
  <2>3. <<>> \in Seq(Reply)
    BY EmptyFacts, Zenon
  <2> HIDE DEF a
  <2>4. Shut(X)[s] \in Socket
    BY <2>1, <2>2, <2>3 DEF Socket
  <2>5. /\ ~Shut(X)[s].open /\ Shut(X)[s].replies = <<>>
        /\ Shut(X)[s].request = sock[s].request /\ Shut(X)[s].alive = a
    BY <2>1, <2>2
  <2> QED
    BY <2>1, <2>4, <2>5, ZenonT(60) DEF a
<1>3. \A s \in Sockets \ X : Shut(X)[s] = sock[s]
  BY Zenon DEF Shut
<1>4. Shut(X) = [s \in Sockets |-> Shut(X)[s]]
  BY Zenon DEF Shut
<1>5. \A s \in Sockets : Shut(X)[s] \in Socket
  BY <1>1, <1>2, <1>3, Zenon
<1> QED
  BY <1>1, <1>2, <1>3, <1>4, <1>5, ZenonT(60) DEF HalfDuplex

LEMMA AppendFacts ==
  ASSUME NEW q \in Seq(Sockets), Distinct(q), NEW s \in Sockets \ Range(q)
  PROVE  /\ Append(q, s) \in Seq(Sockets) /\ Len(Append(q, s)) = Len(q) + 1 /\ Len(q) \in Nat
         /\ Range(Append(q, s)) = Range(q) \cup {s} /\ Distinct(Append(q, s))
<1>1. /\ Append(q, s) \in Seq(Sockets) /\ Len(Append(q, s)) = Len(q) + 1
      /\ \A i \in 1 .. Len(q) : Append(q, s)[i] = q[i]
      /\ Append(q, s)[Len(q) + 1] = s
  BY AppendedFacts
<1>2. Len(q) \in Nat /\ DOMAIN q = 1 .. Len(q) /\ DOMAIN Append(q, s) = 1 .. (Len(q) + 1)
  BY <1>1, SeqFacts, Zenon
<1>3. \A i \in DOMAIN Append(q, s) : i \in DOMAIN q \/ i = Len(q) + 1
  BY <1>2
<1>4. Range(Append(q, s)) = Range(q) \cup {s}
  BY <1>1, <1>2, <1>3 DEF Range
<1>5. \A i \in DOMAIN q : q[i] # s
  BY Zenon DEF Range
<1>6. Distinct(Append(q, s))
  BY <1>1, <1>2, <1>3, <1>5, Zenon DEF Distinct
<1> QED
  BY <1>1, <1>2, <1>4, <1>6, Zenon

LEMMA ReleaseStep ==
  ASSUME StepInv, NEW c \in Commands, Release(c)
  PROVE  Preserved
<1>1. cmd[c].pc = "release" /\ cmd[c].pc \in Connected
  BY Zenon DEF Release, At, Connected
<1>2. PICK s \in Sockets : s = cmd[c].conn /\ s # None
  BY <1>1, ConnectedFacts, Zenon
<1>3. /\ cmd[c] \in Command /\ sock[s] \in Socket /\ Locals(c) /\ Exchange(c) /\ Runs(c) /\ Pool
      /\ cmd \in [Commands -> Command] /\ sock \in [Sockets -> Socket] /\ TypeOK
      /\ idle \in Seq(Sockets)
  BY <1>1, <1>2, ConnectedFacts, Zenon DEF StepInv, TypeOK
<1> DEFINE park == cmd[c].reusable /\ ~EndedDuringDo(c) /\ Parks
           o == IF EndedDuringDo(c) THEN "stop" ELSE cmd[c].outcome
           r == [cmd[c] EXCEPT !.pc = "free", !.conn = None, !.reply = None, !.outcome = o]
<1>4. /\ cmd' = [cmd EXCEPT ![c] = r]
      /\ idle' = IF park THEN Append(idle, s) ELSE idle
      /\ sock' = IF park THEN sock ELSE Shut({s})
      /\ UNCHANGED <<turns, closed, groupWrite, closers, ctx, loaded, applied, faults, restarts, skipped>>
  BY <1>2, ZenonT(60) DEF Release, server
<1>5. r \in Command /\ r.pc = "free" /\ r.conn = None /\ r.reply = None /\ r.outcome = o
      /\ r.watching = cmd[c].watching /\ r.reusable = cmd[c].reusable
  BY <1>3, ZenonT(60) DEF Command, Outcomes
<1> HIDE DEF r
<1>6. /\ cmd' \in [Commands -> Command] /\ cmd'[c] = r /\ \A d \in Commands \ {c} : cmd'[d] = cmd[d]
  BY <1>3, <1>4, <1>5, Zenon
<1>7. c \in InUse /\ s \notin Range(idle) /\ \A d \in Commands \ {c} : cmd[d].conn # s
  BY <1>2, <1>3, Zenon DEF InUse, Pool, Apart
<1>8. InUse' = InUse \ {c} /\ \A d \in InUse' : cmd'[d].conn = cmd[d].conn /\ d \in Commands
  BY <1>5, <1>6, Zenon DEF InUse
<1>9. /\ sock' \in [Sockets -> Socket] /\ \A u \in Sockets \ {s} : sock'[u] = sock[u]
      /\ \A u \in Sockets : sock'[u].request = sock[u].request
      /\ \A u \in Sockets : HalfDuplex(u)'
  <2>1. CASE park
    BY <1>3, <1>4, <2>1, Zenon DEF StepInv, HalfDuplex
  <2>2. CASE ~park
    <3>1. sock' = Shut({s})
      BY <1>4, <2>2, Zenon
    <3> QED
      BY <3>1, ShutFacts, Zenon DEF HalfDuplex
  <2> QED
    BY <2>1, <2>2, Zenon
<1>10. park => /\ sock[s].open /\ sock[s].request = None /\ sock[s].replies = <<>> /\ s \notin closers
               /\ closed = "no" /\ Len(idle) < MaxIdleConns
  BY <1>2, <1>3, ExchangeFacts, Zenon DEF EndedDuringDo, Stopped, Parks
<1>11. Distinct(idle) /\ Len(idle) \in Nat /\ MaxIdleConns \in Nat
  BY PoolTypes, ClientAssumption
<1>12. /\ idle' \in Seq(Sockets) /\ Distinct(idle') /\ Len(idle') <= MaxIdleConns
       /\ Len(idle') \in Nat /\ Len(idle') <= Len(idle) + 1
       /\ Range(idle') = IF park THEN Range(idle) \cup {s} ELSE Range(idle)
  <2>1. CASE park
    BY <1>3, <1>4, <1>7, <1>10, <1>11, <2>1, AppendFacts
  <2>2. CASE ~park
    BY <1>3, <1>4, <1>11, <2>2 DEF Pool
  <2> QED
    BY <2>1, <2>2, Zenon
<1>13. Live' = IF park THEN Live ELSE Live \ {s}
  <2>1. CASE park
    BY <1>4, <2>1, Zenon DEF Live
  <2>2. CASE ~park
    <3>1. ~sock'[s].open
      BY <1>4, <2>2, ShutFacts, Zenon
    <3> QED
      BY <1>9, <2>2, <3>1, Zenon DEF Live
  <2> QED
    BY <2>1, <2>2, Zenon
<1>14. TypeOK'
  BY <1>3, <1>4, <1>6, <1>9, <1>12, ZenonT(60) DEF TypeOK
<1> HIDE DEF park, o
<1>15. Pool'
  <2>1. \A u \in Range(idle') : /\ sock'[u].open /\ sock'[u].request = None /\ sock'[u].replies = <<>>
                                /\ u \notin closers'
    BY <1>3, <1>4, <1>7, <1>9, <1>10, <1>12, SeqFacts, ZenonT(60) DEF Pool, Parked
  <2>2. /\ \A d, e \in InUse' : cmd'[d].conn = cmd'[e].conn => d = e
        /\ \A d \in InUse' : cmd'[d].conn \notin Range(idle')
    BY <1>3, <1>7, <1>8, <1>12 DEF Pool, Apart
  <2>3. \A u \in Live' : u \in Range(idle') \/ \E d \in InUse' : cmd'[d].conn = u
    BY <1>2, <1>3, <1>8, <1>12, <1>13 DEF Pool, Owned
  <2>4. closed' = "drained" => idle' = <<>>
    BY <1>3, <1>4, <1>10, Zenon DEF Pool
  <2> QED
    BY <1>12, <2>1, <2>2, <2>3, <2>4, Zenon DEF Pool, Parked, Apart, Owned, Distinct
<1>16. Balanced
  <2>1. turns \in Nat /\ skipped \in BOOLEAN
    BY <1>3, ClientAssumption DEF TypeOK
  <2>2. turns' = turns + Bit(cmd[c].pc \in Holding) - Bit(cmd'[c].pc \in Holding) /\ turns' >= 0
    BY <1>1, <1>4, <1>5, <1>6, <2>1 DEF Bit, Holding, Connected
  <2>3. PICK n \in Nat : Len(idle') = n
    BY <1>12, Zenon
  <2>5. \A d \in Commands \ {c} : cmd'[d].pc = cmd[d].pc
    BY <1>6, Zenon
  <2>4. skipped' \/ (~skipped /\ n <= Len(idle) + Bit(cmd[c].pc \in Claiming)
                                               - Bit(cmd'[c].pc \in Claiming))
    BY <1>1, <1>4, <1>5, <1>6, <1>11, <1>12, <2>1, <2>3, SMTT(60) DEF Bit, Claiming, Connected
  <2> QED
    BY <2>2, <2>3, <2>4, <2>5, Balance, ZenonT(60) DEF OneMoves
<1>17. ASSUME NEW d \in Commands
       PROVE  Outstanding(d)' = Outstanding(d)
  BY <1>9, Zenon DEF Outstanding
<1>18. ASSUME NEW d \in Commands \ {c}
       PROVE  Locals(d)' /\ Exchange(d)' /\ Runs(d)'
  <2>1. cmd[d].conn # None => cmd[d].conn \in Sockets \ {s}
    BY <1>3, <1>7 DEF Command
  <2> QED
    BY <1>4, <1>6, <1>9, <1>17, <2>1, KeptOn, ZenonT(60)
<1>19. Locals(c)' /\ Exchange(c)'
  <2>1. Locals(c)'
    BY <1>1, <1>3, <1>5, <1>6, Zenon DEF Locals, LocalsOf, Connected
  <2> QED
    BY <1>5, <1>6, <2>1, NoExchange, ZenonT(60)
<1>20. Runs(c)'
  <2>1. /\ cmd[c].outcome = "ok" => applied[c] >= 1
        /\ cmd[c].outcome \notin {"ok", "stop"} => applied[c] <= restarts /\ Outstanding(c) = {}
    BY <1>1, <1>3, OutcomeFacts, Zenon
  <2> QED
    BY <1>3, <1>4, <1>5, <1>6, <1>17, <2>1, RunsOn, ZenonT(60) DEF o
<1> QED
  BY <1>9, <1>14, <1>15, <1>16, <1>18, <1>19, <1>20, ZenonT(60) DEF Preserved

(* A command gets the socket s, open and with nothing on it that it did not *)
(* find there: a new one, or one from the idle list, of which a sweep has   *)
(* closed some more.                                                        *)
LEMMA SocketTaken ==
  ASSUME StepInv, NEW c \in Commands, cmd[c].pc \in {"turn", "dial"}, NEW s \in Sockets,
         NEW b \in BOOLEAN,
         cmd' = [cmd EXCEPT ![c] = [cmd[c] EXCEPT !.pc = "do", !.conn = s, !.fromIdle = b]],
         sock' \in [Sockets -> Socket], sock'[s].open, sock'[s].request = None,
         s \notin closers, \A d \in Commands : cmd[d].conn # s,
         \A u \in Sockets : HalfDuplex(u)' /\ sock'[u].request = sock[u].request,
         idle' \in Seq(Sockets), Distinct(idle'), Range(idle') \subseteq Range(idle) \ {s},
         \A u \in Range(idle') : sock'[u] = sock[u],
         \A d \in Commands : cmd[d].conn # None => sock'[cmd[d].conn] = sock[cmd[d].conn],
         Live' \subseteq Range(idle') \cup {s} \cup {cmd[d].conn : d \in InUse},
         NEW n \in Nat, Len(idle') = n, n <= Len(idle), cmd[c].pc = "turn" => n + 1 <= Len(idle),
         UNCHANGED <<turns, closed, groupWrite, closers, ctx, loaded, applied, restarts, skipped>>,
         faults' \in 0 .. MaxFaults, faults <= faults'
  PROVE  Preserved
<1> DEFINE r == [cmd[c] EXCEPT !.pc = "do", !.conn = s, !.fromIdle = b]
<1>1. /\ cmd[c] \in Command /\ Locals(c) /\ Runs(c) /\ Pool /\ TypeOK
      /\ cmd \in [Commands -> Command] /\ s # None /\ idle \in Seq(Sockets) /\ Len(idle) \in Nat
  BY PoolTypes, Zenon DEF StepInv
<1>2. cmd[c].conn = None /\ ~cmd[c].watching /\ cmd[c].reply = None /\ ~cmd[c].reusable
  BY <1>1, Zenon DEF Locals, LocalsOf, Connected
<1>3. /\ r \in Command /\ r.pc = "do" /\ r.conn = s /\ r.reply = None /\ ~r.watching /\ ~r.reusable
  BY <1>1, <1>2, ZenonT(60) DEF Command
<1> HIDE DEF r
<1>4. cmd' \in [Commands -> Command] /\ cmd'[c] = r /\ \A d \in Commands \ {c} : cmd'[d] = cmd[d]
  BY <1>1, <1>3, Zenon DEF r
<1>5. TypeOK'
  BY <1>1, <1>4 DEF TypeOK
<1>6. /\ InUse' = InUse \cup {c} /\ c \notin InUse /\ InUse \subseteq Commands
      /\ \A d \in InUse : cmd'[d].conn = cmd[d].conn /\ cmd[d].conn # s
  BY <1>1, <1>2, <1>3, <1>4 DEF InUse
<1>7. Pool'
  <2>1. Len(idle') <= MaxIdleConns
    BY <1>1, ClientAssumption DEF Pool
  <2>2. \A u \in Range(idle') : /\ sock'[u].open /\ sock'[u].request = None /\ sock'[u].replies = <<>>
                                /\ u \notin closers'
    BY <1>1 DEF Pool, Parked
  <2>3. \A d, e \in InUse' : cmd'[d].conn = cmd'[e].conn => d = e
    BY <1>1, <1>3, <1>4, <1>6 DEF Pool, Apart
  <2>4. \A d \in InUse' : cmd'[d].conn \notin Range(idle')
    BY <1>1, <1>3, <1>4, <1>6 DEF Pool, Apart
  <2>5. \A u \in Live' : u \in Range(idle') \/ \E d \in InUse' : cmd'[d].conn = u
    BY <1>3, <1>4, <1>6
  <2>6. closed' = "drained" => idle' = <<>>
    <3>1. closed = "drained" => Len(idle') = 0
      BY <1>1 DEF Pool
    <3> QED
      BY <3>1, EmptyFacts
  <2> QED
    BY <2>1, <2>2, <2>3, <2>4, <2>5, <2>6, Zenon DEF Pool, Parked, Apart, Owned, Distinct
<1>8. Balanced
  <2>1. turns \in Nat /\ skipped \in BOOLEAN
    BY <1>1, ClientAssumption DEF TypeOK
  <2>2. turns' = turns + Bit(cmd[c].pc \in Holding) - Bit(cmd'[c].pc \in Holding) /\ turns' >= 0
    BY <1>3, <1>4, <2>1 DEF Bit, Holding, Connected
  <2>3. skipped' \/ (~skipped /\ n <= Len(idle) + Bit(cmd[c].pc \in Claiming)
                                               - Bit(cmd'[c].pc \in Claiming))
    BY <1>1, <1>3, <1>4, <2>1 DEF Bit, Claiming, Connected
  <2>4. \A d \in Commands \ {c} : cmd'[d].pc = cmd[d].pc
    BY <1>4, Zenon
  <2> QED
    BY <2>2, <2>3, <2>4, Balance, ZenonT(60) DEF OneMoves
<1>9. ASSUME NEW d \in Commands
       PROVE  Outstanding(d)' = Outstanding(d)
  BY DEF Outstanding
<1>10. ASSUME NEW d \in Commands \ {c}
       PROVE  Locals(d)' /\ Exchange(d)' /\ Runs(d)'
  BY <1>4, <1>9, KeptOn
<1>11. Locals(c)'
  BY <1>1, <1>3, <1>4, Zenon DEF Locals, LocalsOf, Connected
<1>12. Exchange(c)'
  BY <1>3, <1>4, ExchangeHolds, ZenonT(60)
<1>13. Runs(c)'
  <2>1. applied[c] <= restarts /\ Outstanding(c) = {} /\ applied[c] \in Nat /\ restarts \in Nat
    BY <1>1, NothingSent DEF TypeOK
  <2>2. /\ applied'[c] <= restarts' /\ Outstanding(c)' = {} /\ applied'[c] \in Nat
        /\ restarts' \in Nat /\ cmd'[c].pc = "do"
    BY <1>3, <1>4, <1>9, <2>1, ZenonT(60)
  <2> QED
    BY <2>2, RunsUnsent, ZenonT(60) DEF Runs
<1> QED
  BY <1>5, <1>7, <1>8, <1>10, <1>11, <1>12, <1>13, Zenon DEF Preserved

(* A function on an initial segment is a sequence of that length.           *)
LEMMA FunctionIsSeq ==
  ASSUME NEW n \in Nat, NEW S, NEW f \in [1 .. n -> S]
  PROVE  f \in Seq(S) /\ Len(f) = n
<1>1. f \in Seq(S)
  OBVIOUS
<1>2. Len(f) \in Nat /\ 1 .. Len(f) = 1 .. n
  BY <1>1, SeqFacts, Zenon
<1>3. ~(Len(f) < n)
  <2>1. Len(f) < n => n \in 1 .. n /\ n \notin 1 .. Len(f)
    BY <1>2
  <2> QED
    BY <1>2, <2>1, Zenon
<1>4. ~(n < Len(f))
  <2>1. n < Len(f) => Len(f) \in 1 .. Len(f) /\ Len(f) \notin 1 .. n
    BY <1>2
  <2> QED
    BY <1>2, <2>1, Zenon
<1> QED
  BY <1>1, <1>2, <1>3, <1>4

(* The sweep of takeIdleConn.                                               *)
LEMMA SweepFacts ==
  ASSUME NEW q \in Seq(Sockets), Distinct(q), NEW kept \in SUBSET DOMAIN q,
         NEW young \in Survivors(q, kept)
  PROVE  /\ young \in Seq(Sockets) /\ Len(young) \in Nat /\ Len(q) \in Nat /\ Len(young) <= Len(q)
         /\ Distinct(young) /\ Range(young) = {q[i] : i \in kept}
<1>1. Len(q) \in Nat /\ DOMAIN q = 1 .. Len(q) /\ \A i \in DOMAIN q : q[i] \in Sockets
  BY SeqFacts
<1>9. PICK n \in 0 .. Len(q) : \E p \in Bijection(1 .. n, kept) : young = [i \in 1 .. n |-> q[p[i]]]
  BY DEF Survivors
<1>2. PICK p \in Bijection(1 .. n, kept) : young = [i \in 1 .. n |-> q[p[i]]]
  BY <1>9, Zenon
<1>3. n \in Nat /\ n <= Len(q)
  BY <1>1
<1>4. /\ p \in [1 .. n -> kept] /\ \A i, j \in 1 .. n : p[i] = p[j] => i = j
      /\ \A k \in kept : \E i \in 1 .. n : p[i] = k
  <2>1. p \in [1 .. n -> kept] /\ IsInjective(p) /\ \A k \in kept : \E i \in 1 .. n : p[i] = k
    BY Zenon DEF Bijection, Injection, Surjection
  <2> QED
    BY <2>1, Zenon DEF IsInjective
<1>5. young \in [1 .. n -> Sockets] /\ DOMAIN young = 1 .. n
  BY <1>1, <1>2, <1>4, Zenon
<1>6. young \in Seq(Sockets) /\ Len(young) = n
  BY <1>3, <1>5, FunctionIsSeq, Zenon
<1>7. Distinct(young)
  BY <1>2, <1>4, <1>5 DEF Distinct
<1>8. Range(young) = {q[i] : i \in kept}
  <2>1. \A i \in 1 .. n : young[i] = q[p[i]] /\ p[i] \in kept
    BY <1>2, <1>4, Zenon
  <2>2. Range(young) = {young[i] : i \in 1 .. n}
    BY <1>5, Zenon DEF Range
  <2> QED
    BY <1>4, <2>1, <2>2
<1> QED
  BY <1>1, <1>3, <1>6, <1>7, <1>8, Zenon

(* The newest survivor is taken off the list.                               *)
LEMMA FrontFacts ==
  ASSUME NEW q \in Seq(Sockets), Distinct(q), q # <<>>, NEW f, f = SubSeq(q, 1, Len(q) - 1)
  PROVE  /\ f \in Seq(Sockets) /\ Len(f) = Len(q) - 1 /\ Len(q) - 1 \in Nat
         /\ q[Len(q)] \in Range(q) /\ Distinct(f) /\ Range(f) = Range(q) \ {q[Len(q)]}
<1>1. Len(q) \in Nat \ {0} /\ DOMAIN q = 1 .. Len(q) /\ \A i \in 1 .. Len(q) : q[i] \in Sockets
  BY EmptyFacts, SeqFacts
<1>2. \A i \in 1 .. (Len(q) - 1) : q[i] \in Sockets
  BY <1>1
<1>3. f \in Seq(Sockets) /\ Len(f) = Len(q) - 1 /\ \A i \in 1 .. (Len(q) - 1) : f[i] = q[i]
  <2>1. 1 \in Int /\ Len(q) - 1 \in Int
    BY <1>1
  <2>2. SubSeq(q, 1, Len(q) - 1) \in Seq(Sockets)
    OBVIOUS
  <2>3. /\ Len(SubSeq(q, 1, Len(q) - 1)) = Len(q) - 1
        /\ \A i \in 1 .. (Len(q) - 1) : SubSeq(q, 1, Len(q) - 1)[i] = q[i]
    BY <1>1
  <2> QED
    BY <2>2, <2>3, Zenon
<1>4. DOMAIN f = 1 .. (Len(q) - 1) /\ Len(q) - 1 \in Nat
  BY <1>1, <1>3, SeqFacts
<1>5. q[Len(q)] \in Range(q)
  BY <1>1 DEF Range
<1>6. /\ \A i \in DOMAIN f : i \in DOMAIN q /\ i # Len(q)
      /\ \A i \in DOMAIN q : i # Len(q) => i \in DOMAIN f
      /\ Len(q) \in DOMAIN q /\ \A i \in DOMAIN f : f[i] = q[i]
  BY <1>1, <1>3, <1>4
<1>7. Distinct(f)
  BY <1>6 DEF Distinct
<1>8. Range(f) = Range(q) \ {q[Len(q)]}
  BY <1>6 DEF Range, Distinct
<1> QED
  BY <1>3, <1>4, <1>5, <1>7, <1>8, Zenon

LEMMA DialStep ==
  ASSUME StepInv, NEW c \in Commands, Dial(c)
  PROVE  Preserved
<1>1. PICK s \in Sockets, surplus \in BOOLEAN :
        /\ Fresh(s)
        /\ surplus => faults < MaxFaults
        /\ faults' = IF surplus THEN faults + 1 ELSE faults
        /\ sock' = [sock EXCEPT ![s].open = TRUE, ![s].alive = TRUE,
                                ![s].replies = IF surplus THEN <<Stray>> ELSE <<>>]
        /\ cmd' = [cmd EXCEPT ![c].pc = "do", ![c].conn = s, ![c].fromIdle = FALSE]
  BY ZenonT(60) DEF Dial
<1>2. /\ cmd[c].pc = "dial"
      /\ UNCHANGED <<turns, idle, closed, groupWrite, closers, ctx, loaded, applied, restarts, skipped>>
  BY Zenon DEF Dial, At
<1>3. sock[s] = NoSocket /\ s \notin closers /\ \A d \in Commands : cmd[d].conn # s
  BY <1>1, PoolFacts, Zenon DEF Fresh, InUse
<1>4. ~sock[s].open /\ sock[s].request = None /\ sock[s].replies = <<>> /\ s \notin Range(idle)
  BY <1>3, PoolFacts DEF NoSocket
<1> DEFINE q == IF surplus THEN <<Stray>> ELSE <<>>
           t == [sock[s] EXCEPT !.open = TRUE, !.alive = TRUE, !.replies = q]
<1>5. q \in Seq(Reply)
  <2>1. Stray \in Reply
    BY Zenon DEF Stray, Reply, Answers
  <2> QED
    BY <2>1
<1>6. t \in Socket /\ t.open /\ t.alive /\ t.request = None
  BY <1>3, <1>4, <1>5, PoolFacts, ZenonT(60) DEF Socket, NoSocket
<1> HIDE DEF q
<1>7. sock' = [sock EXCEPT ![s] = t]
  BY <1>1, PoolFacts, ZenonT(60) DEF q
<1> HIDE DEF t
<1>8. /\ sock' \in [Sockets -> Socket] /\ sock'[s] = t /\ \A u \in Sockets \ {s} : sock'[u] = sock[u]
  BY <1>6, <1>7, PoolFacts
<1>9. \A u \in Sockets : HalfDuplex(u)' /\ sock'[u].request = sock[u].request
  BY <1>4, <1>6, <1>8, Zenon DEF StepInv, HalfDuplex
<1>10. \A u \in Range(idle') : sock'[u] = sock[u]
  BY <1>2, <1>4, <1>8, PoolFacts, Zenon
<1>11. \A d \in Commands : cmd[d].conn # None => sock'[cmd[d].conn] = sock[cmd[d].conn]
  BY <1>3, <1>8, PoolFacts
<1>12. Live' \subseteq Range(idle') \cup {s} \cup {cmd[d].conn : d \in InUse}
  BY <1>2, <1>8, PoolFacts, Zenon DEF Live
<1>13. PICK n \in Nat : Len(idle') = n /\ n <= Len(idle)
  BY <1>2, PoolFacts
<1>14. idle' \in Seq(Sockets) /\ Distinct(idle') /\ Range(idle') \subseteq Range(idle) \ {s}
  BY <1>2, <1>4, PoolFacts, Zenon
<1>15. faults' \in 0 .. MaxFaults /\ faults <= faults'
  BY <1>1, TurnTypes
<1>16. cmd' = [cmd EXCEPT ![c] = [cmd[c] EXCEPT !.pc = "do", !.conn = s, !.fromIdle = FALSE]]
  BY <1>1, ZenonT(60)
<1>17. sock'[s].open /\ sock'[s].request = None /\ FALSE \in BOOLEAN
       /\ cmd[c].pc \in {"turn", "dial"} /\ (cmd[c].pc = "turn" => n + 1 <= Len(idle))
  BY <1>2, <1>6, <1>8, Zenon
<1> QED
  BY <1>2, <1>3, <1>8, <1>9, <1>10, <1>11, <1>12, <1>13, <1>14, <1>15, <1>16, <1>17, SocketTaken,
     ZenonT(60)


(* Idle sockets are closed: nobody's exchange sees it.                      *)
LEMMA IdleShut ==
  ASSUME StepInv, NEW X \in SUBSET Range(idle), sock' = Shut(X)
  PROVE  /\ sock' \in [Sockets -> Socket]
         /\ \A u \in Sockets : HalfDuplex(u)' /\ sock'[u].request = sock[u].request
         /\ \A u \in Sockets \ X : sock'[u] = sock[u]
         /\ \A u \in X : ~sock'[u].open
         /\ \A d \in Commands : Outstanding(d)' = Outstanding(d)
         /\ \A d \in Commands : cmd[d].conn # None => sock'[cmd[d].conn] = sock[cmd[d].conn]
         /\ Live' \subseteq (Range(idle) \ X) \cup {cmd[d].conn : d \in InUse}
<1>1. /\ sock' \in [Sockets -> Socket]
      /\ \A u \in Sockets : HalfDuplex(u)' /\ sock'[u].request = sock[u].request
      /\ \A u \in Sockets \ X : sock'[u] = sock[u]
  BY ShutFacts DEF HalfDuplex
<1>2. \A u \in X : ~sock'[u].open
  BY ShutFacts, PoolFacts, Zenon
<1>3. \A d \in Commands : Outstanding(d)' = Outstanding(d)
  BY <1>1, Zenon DEF Outstanding
<1>4. \A d \in Commands : cmd[d].conn # None => sock'[cmd[d].conn] = sock[cmd[d].conn]
  BY <1>1, PoolFacts
<1>5. Live' \subseteq (Range(idle) \ X) \cup {cmd[d].conn : d \in InUse}
  BY <1>1, <1>2, PoolFacts, Zenon DEF Live
<1> QED
  BY <1>1, <1>2, <1>3, <1>4, <1>5, Zenon

(* An empty idle list, the open sockets all in use.                         *)
LEMMA EmptyPool ==
  ASSUME idle' = <<>>, \A u \in Live' : \E d \in InUse' : cmd'[d].conn = u,
         \A d, e \in InUse' : cmd'[d].conn = cmd'[e].conn => d = e
  PROVE  Pool'
<1>1. /\ idle' = <<>> /\ Len(idle') = 0 /\ Range(idle') = {} /\ DOMAIN idle' = {}
      /\ MaxIdleConns \in Nat
  BY EmptyFacts, ClientAssumption
<1> QED
  BY <1>1 DEF Pool, Parked, Apart, Owned

LEMMA TakeYoungStep ==
  ASSUME StepInv, NEW c \in Commands, cmd[c].pc = "turn",
         NEW kept \in SUBSET DOMAIN idle, NEW young \in Survivors(idle, kept), young # <<>>,
         sock' = Shut({idle[i] : i \in DOMAIN idle \ kept}), idle' = SubSeq(young, 1, Len(young) - 1),
         cmd' = [cmd EXCEPT ![c].pc = "do", ![c].conn = young[Len(young)], ![c].fromIdle = TRUE],
         UNCHANGED <<turns, closed, groupWrite, closers, ctx, loaded, applied, faults, restarts, skipped>>
  PROVE  Preserved
<1> DEFINE X == {idle[i] : i \in DOMAIN idle \ kept}
<1>1. /\ young \in Seq(Sockets) /\ Len(young) \in Nat /\ Len(young) <= Len(idle)
      /\ Distinct(young) /\ Range(young) = {idle[i] : i \in kept}
  <2>1. idle \in Seq(Sockets) /\ Distinct(idle)
    BY PoolFacts, Zenon
  <2> QED
    BY <2>1, SweepFacts, Zenon
<1>2. X \in SUBSET Range(idle) /\ Range(idle) \ X = Range(young)
  <2>1. \A i, j \in DOMAIN idle : idle[i] = idle[j] => i = j
    BY PoolFacts, Zenon DEF Distinct
  <2>2. Range(idle) = {idle[i] : i \in DOMAIN idle}
    BY Zenon DEF Range
  <2>3. X \cap Range(young) = {}
    BY <1>1, <2>1
  <2>4. X \cup Range(young) = Range(idle)
    BY <1>1, <2>2, Zenon
  <2> QED
    BY <2>3, <2>4, Zenon
<1>3. PICK s : s = young[Len(young)]
  BY Zenon
<1>4. /\ idle' \in Seq(Sockets) /\ Len(idle') = Len(young) - 1 /\ Len(young) - 1 \in Nat
      /\ s \in Range(young) /\ Distinct(idle') /\ Range(idle') = Range(young) \ {s}
  <2>1. PICK f : f = SubSeq(young, 1, Len(young) - 1)
    BY Zenon
  <2>2. /\ f \in Seq(Sockets) /\ Len(f) = Len(young) - 1 /\ Len(young) - 1 \in Nat
        /\ young[Len(young)] \in Range(young) /\ Distinct(f)
        /\ Range(f) = Range(young) \ {young[Len(young)]}
    BY <1>1, <2>1, FrontFacts, ZenonT(60)
  <2>3. idle' = f
    BY <2>1, Zenon
  <2> QED
    BY <1>3, <2>2, <2>3, ZenonT(60)
<1>5. sock' = Shut(X)
  BY Zenon
<1> HIDE DEF X
<1>6. /\ sock' \in [Sockets -> Socket]
      /\ \A u \in Sockets : HalfDuplex(u)' /\ sock'[u].request = sock[u].request
      /\ \A u \in Sockets \ X : sock'[u] = sock[u]
      /\ \A d \in Commands : cmd[d].conn # None => sock'[cmd[d].conn] = sock[cmd[d].conn]
      /\ Live' \subseteq (Range(idle) \ X) \cup {cmd[d].conn : d \in InUse}
  BY <1>2, <1>5, IdleShut, ZenonT(60)
<1>7. /\ s \in Range(idle) /\ s \in Sockets \ X /\ s \notin closers
      /\ \A d \in Commands : cmd[d].conn # s
  BY <1>2, <1>4, PoolFacts, Zenon
<1>8. sock'[s].open /\ sock'[s].request = None
  BY <1>6, <1>7, PoolFacts, Zenon
<1>9. Range(idle') \subseteq Range(idle) \ {s} /\ \A u \in Range(idle') : sock'[u] = sock[u]
  BY <1>2, <1>4, <1>6, PoolFacts, ZenonT(60)
<1>10. Live' \subseteq Range(idle') \cup {s} \cup {cmd[d].conn : d \in InUse}
  BY <1>2, <1>4, <1>6, Zenon
<1>11. PICK n \in Nat : Len(idle') = n /\ n <= Len(idle) /\ n + 1 <= Len(idle)
  BY <1>1, <1>4, PoolFacts
<1>12. faults' \in 0 .. MaxFaults /\ faults <= faults'
  BY TurnTypes
<1>13. cmd' = [cmd EXCEPT ![c] = [cmd[c] EXCEPT !.pc = "do", !.conn = s, !.fromIdle = TRUE]]
  BY <1>3, ZenonT(60)
<1>14. cmd[c].pc \in {"turn", "dial"} /\ TRUE \in BOOLEAN /\ s \in Sockets
  BY <1>7, Zenon
<1> QED
  BY <1>4, <1>6, <1>7, <1>8, <1>9, <1>10, <1>11, <1>12, <1>13, <1>14, SocketTaken, ZenonT(60)

LEMMA NoneYoungStep ==
  ASSUME StepInv, NEW c \in Commands, cmd[c].pc = "turn", sock' = Shut(Range(idle)), idle' = <<>>,
         Goto(c, "dial"),
         UNCHANGED <<turns, closed, groupWrite, closers, ctx, loaded, applied, faults, restarts, skipped>>
  PROVE  Preserved
<1> DEFINE r == [cmd[c] EXCEPT !.pc = "dial"]
<1>1. /\ cmd' = [cmd EXCEPT ![c] = r] /\ r \in Command /\ r.conn = None /\ r.reply = None
      /\ ~r.watching /\ ~r.reusable /\ r.pc = "dial" /\ cmd[c].conn = None
  <2>1. cmd[c].conn = None
    BY Zenon DEF StepInv, Locals, LocalsOf, Connected
  <2> QED
    BY <2>1, GotoRecord, ZenonT(60) DEF Goto
<1> HIDE DEF r
<1>2. /\ cmd' \in [Commands -> Command] /\ cmd'[c] = r /\ \A d \in Commands \ {c} : cmd'[d] = cmd[d]
  BY <1>1, PoolFacts, Zenon
<1>3. /\ sock' \in [Sockets -> Socket]
      /\ \A u \in Sockets : HalfDuplex(u)'
      /\ \A d \in Commands : Outstanding(d)' = Outstanding(d)
      /\ \A d \in Commands : cmd[d].conn # None => sock'[cmd[d].conn] = sock[cmd[d].conn]
      /\ Live' \subseteq (Range(idle) \ Range(idle)) \cup {cmd[d].conn : d \in InUse}
  BY IdleShut, ZenonT(60)
<1>4. InUse' = InUse /\ \A d \in Commands : cmd'[d].conn = cmd[d].conn
  BY <1>1, <1>2, Zenon DEF InUse
<1>5. idle' \in Seq(Sockets) /\ Len(idle') = 0 /\ Range(idle') = {} /\ DOMAIN idle' = {}
  BY EmptyFacts, Zenon DEF Range
<1>6. TypeOK'
  BY <1>2, <1>3, <1>5, Zenon DEF TypeOK, StepInv
<1>7. Pool'
  <2>1. \A u \in Live' : \E d \in InUse' : cmd'[d].conn = u
    BY <1>3, <1>4 DEF InUse
  <2>2. \A d, e \in InUse' : cmd'[d].conn = cmd'[e].conn => d = e
    BY <1>4 DEF StepInv, Pool, Parked, Apart, Owned, InUse
  <2> QED
    BY <2>1, <2>2, EmptyPool, ZenonT(60)
<1>8. Balanced
  <2>1. turns \in Nat
    BY ClientAssumption DEF StepInv, TypeOK
  <2>2. turns' = turns + Bit(cmd[c].pc \in Holding) - Bit(cmd'[c].pc \in Holding) /\ turns' >= 0
    BY <1>1, <1>2, <2>1 DEF Bit, Holding, Connected
  <2>3. PICK n \in Nat : Len(idle') = n /\ n = 0
    BY <1>5, Zenon
  <2>4. \A d \in Commands \ {c} : cmd'[d].pc = cmd[d].pc
    BY <1>2, Zenon
  <2> QED
    BY <2>2, <2>3, <2>4, Balance, ZenonT(60) DEF OneMoves
<1>9. ASSUME NEW d \in Commands \ {c}
      PROVE  Locals(d)' /\ Exchange(d)' /\ Runs(d)'
  BY <1>2, <1>3, KeptOn, Zenon
<1>10. Locals(c)' /\ Exchange(c)'
  <2>1. Locals(c)'
    BY <1>1, <1>2, Zenon DEF Locals, LocalsOf, Connected
  <2> QED
    BY <1>1, <1>2, <2>1, NoExchange, Zenon
<1>11. Runs(c)'
  <2>1. applied[c] <= restarts /\ Outstanding(c) = {} /\ Outstanding(c)' = {} /\ cmd'[c].pc = "dial"
    BY <1>1, <1>2, <1>3, NothingSent, Zenon
  <2>2. applied[c] \in Nat /\ restarts \in Nat
    BY ClientAssumption DEF StepInv, TypeOK
  <2> QED
    BY <2>1, <2>2, RunsUnsent, Zenon DEF Runs
<1> QED
  BY <1>3, <1>6, <1>7, <1>8, <1>9, <1>10, <1>11, ZenonT(60) DEF Preserved

LEMMA TakeIdleStep ==
  ASSUME StepInv, NEW c \in Commands, TakeIdle(c)
  PROVE  Preserved
<1>1. /\ cmd[c].pc = "turn"
      /\ UNCHANGED <<closed, groupWrite, closers, ctx, loaded, applied, faults, restarts, skipped>>
  BY ZenonT(60) DEF TakeIdle, At, server
<1>2. CASE turns' = Freed /\ End(c) /\ UNCHANGED <<idle, sock>>
  <2>1. /\ groupWrite' \in {"unknown", "native", "lua"} /\ faults' \in 0 .. MaxFaults
        /\ faults <= faults'
    BY <1>1, TurnTypes
  <2> QED
    BY <1>1, <1>2, <2>1, Records, TurnGivenBack, ZenonT(60) DEF End
<1>3. ASSUME UNCHANGED turns, NEW kept \in SUBSET DOMAIN idle, NEW young \in Survivors(idle, kept),
             sock' = Shut({idle[i] : i \in DOMAIN idle \ kept}), Reuses(young), idle' = SubSeq(young, 1, Len(young) - 1),
             cmd' = [cmd EXCEPT ![c].pc = "do", ![c].conn = young[Len(young)], ![c].fromIdle = TRUE]
      PROVE  Preserved
  <2>1. young # <<>>
    BY <1>3, Zenon DEF Reuses
  <2> QED
    BY <1>1, <1>3, <2>1, TakeYoungStep, ZenonT(60)
<1>4. ASSUME UNCHANGED turns, NEW kept \in SUBSET DOMAIN idle, NEW young \in Survivors(idle, kept),
             sock' = Shut({idle[i] : i \in DOMAIN idle \ kept}), ~Reuses(young), idle' = young,
             Goto(c, "dial")
      PROVE  Preserved
  <2>1. young = <<>>
    BY <1>4, Zenon DEF Reuses
  <2>2. {idle[i] : i \in kept} = {}
    <3>1. Range(young) = {}
      BY <2>1 DEF Range
    <3> QED
      <4>1. idle \in Seq(Sockets) /\ Distinct(idle)
        BY PoolFacts, Zenon
      <4> QED
        BY <1>4, <3>1, <4>1, SweepFacts, Zenon
  <2>3. {idle[i] : i \in DOMAIN idle \ kept} = Range(idle)
    BY <1>4, <2>2, Zenon DEF Range
  <2>4. sock' = Shut(Range(idle)) /\ idle' = <<>>
    BY <1>4, <2>1, <2>3, Zenon
  <2> QED
    BY <1>1, <1>4, <2>4, NoneYoungStep, ZenonT(60)
<1>5. CASE UNCHANGED turns /\ \E kept \in SUBSET DOMAIN idle : \E young \in Survivors(idle, kept) :
             /\ sock' = Shut({idle[i] : i \in DOMAIN idle \ kept})
             /\ \/ /\ Reuses(young)
                   /\ idle' = SubSeq(young, 1, Len(young) - 1)
                   /\ cmd' = [cmd EXCEPT ![c].pc = "do", ![c].conn = young[Len(young)],
                                         ![c].fromIdle = TRUE]
                \/ ~Reuses(young) /\ idle' = young /\ Goto(c, "dial")
  BY <1>3, <1>4, <1>5, ZenonT(60)
<1> QED
  BY <1>2, <1>5, ZenonT(60) DEF TakeIdle
=============================================================================
