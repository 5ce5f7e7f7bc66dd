----------------------------- MODULE TokenBucket -----------------------------
(***************************************************************************)
(* One key of the token bucket (tokenbucket): the in-process store, which   *)
(* reads the clock under its mutex, and the Redis store, whose limiters     *)
(* read their own clocks and whose script runs later, in any order, and     *)
(* again when a reply was lost.  The two have formulas of their own.        *)
(*                                                                          *)
(* Times are microseconds.  Tokens are counted in grains: Unit grains are   *)
(* one token and Rate grains flow in per microsecond, so that the floating  *)
(* point of the code is exact here.  Wait and maxDelay are durations, of    *)
(* which Nanos make a microsecond.                                          *)
(***************************************************************************)
EXTENDS Integers

CONSTANTS
  Limiters,          \* callers; limiters of the Redis store share the key
  Unit, Rate, Burst,
  MaxDelay, Nanos,   \* maxDelay in durations, durations per microsecond
  TTL,
  MaxSkew,           \* how far a clock reading is behind
  MaxLag,            \* how long a script is on its way
  MaxResends,        \* how often the client sends a script again
  MaxClock,
  None

(* validateClock.                                                           *)
ValidClock ==
  /\ Unit \in Nat \ {0} /\ Rate \in Nat \ {0} /\ Burst \in Nat \ {0}
  /\ MaxDelay \in Nat /\ Nanos \in Nat \ {0} /\ TTL \in Nat \ {0}

ASSUME BucketAssumption ==
  /\ ValidClock
  /\ MaxSkew \in Nat /\ MaxLag \in Nat /\ MaxResends \in Nat /\ MaxClock \in Nat
  /\ None \notin [tokens : Int, last : Int, expireAt : Int]

VARIABLES
  clock,
  store,     \* which of the two stores holds the key
  bucket,    \* memEntry, or the hash and its expiry; or None
  call,      \* the locals of every limiter
  born,      \* the last of the bucket when it was created
  consumed,  \* Allows since then whose token was kept
  admitted,  \* Allows since then that were told to go on
  first,     \* born of the key's first bucket; a drop at the cap starts over
  total      \* Allows since then whose token was kept

ghosts == <<born, consumed, admitted, first, total>>
vars == <<clock, store, bucket, call, born, consumed, admitted, first, total>>

full == Unit * Burst

(* time.Duration.Microseconds.                                              *)
maxDelayMicro == MaxDelay \div Nanos

Bucket == [tokens : -(Rate * maxDelayMicro) .. full, last : Nat, expireAt : Nat]
Call == [pc : {"idle", "sent"}, t : Nat, sentAt : Nat, resends : 0 .. MaxResends]

(* The debt of a bucket stays within maxDelay and its credit within burst.  *)
TypeOK ==
  /\ clock \in 0 .. MaxClock /\ store \in {"memory", "redis"}
  /\ bucket \in Bucket \cup {None}
  /\ call \in [Limiters -> Call]
  /\ born \in Nat /\ consumed \in Nat /\ admitted \in Nat /\ first \in Nat /\ total \in Nat

NoCall == [pc |-> "idle", t |-> 0, sentAt |-> 0, resends |-> 0]

Init ==
  /\ clock = 0 /\ store \in {"memory", "redis"} /\ bucket = None
  /\ call = [l \in Limiters |-> NoCall]
  /\ born = 0 /\ consumed = 0 /\ admitted = 0 /\ first = 0 /\ total = 0

-----------------------------------------------------------------------------
(* The formulas.                                                            *)

AtMost(a, b) == IF a > b THEN b ELSE a

(* Mutant: a backward clock rewinds last.                                   *)
PersistNow(last, now) == now

(* Persist the later of the previous last and now.                          *)
PersistLast(last, now) == IF last > now THEN last ELSE now

(* Mutant: the refund is missing.                                           *)
NotRefunded(tokens, owed) == tokens

Refunds(owed) == owed > Rate * maxDelayMicro

(* The tokens after a consume that would wait too long.                     *)
Refunded(tokens, owed) == IF Refunds(owed) THEN AtMost(tokens + Unit, full) ELSE tokens

(* consumeOne; owed is waitMicro in grains.                                 *)
ConsumeOne(tokens, last, now) ==
  LET from == IF now < last THEN now ELSE last
      left == AtMost(tokens + Rate * (now - from), full) - Unit
      owed == IF left < 0 THEN -left ELSE 0
  IN [tokens |-> Refunded(left, owed), last |-> PersistLast(last, now), owed |-> owed]

(* Mutant: an empty hash stays at tokens = 0 and last = 0.                  *)
HashSinceEpoch(hash, t) == IF hash = None THEN [tokens |-> 0, last |-> 0] ELSE hash

(* HGETALL, or the fill of an empty hash.                                   *)
Hash(hash, t) == IF hash = None THEN [tokens |-> full, last |-> t] ELSE hash

(* allowScript.                                                             *)
AllowScript(hash, t) ==
  LET b == Hash(hash, t)
      elapsed == IF t < b.last THEN 0 ELSE t - b.last
      tokens == AtMost(b.tokens + Rate * elapsed, full) - Unit
      owed == IF tokens < 0 THEN -tokens ELSE 0
      refunded == IF owed > Rate * maxDelayMicro THEN AtMost(tokens + Unit, full) ELSE tokens
  IN [tokens |-> refunded, last |-> IF t > b.last THEN t ELSE b.last, owed |-> owed]

(* waitDuration, which truncates, and allowedFromWait.                      *)
WaitDuration(owed) == (owed * Nanos) \div Rate

(* Mutant: the script's first field, always "true", is taken as the answer. *)
AllowedByScript(wait) == TRUE

AllowedFromWait(wait) == wait <= MaxDelay

-----------------------------------------------------------------------------

(* Mutant: a bucket is forgotten while it is in use.                        *)
MissingEarly == bucket = None \/ clock + TTL > bucket.expireAt

(* The key has no bucket, or one that was not used for ttl.                 *)
Missing == bucket = None \/ clock >= bucket.expireAt

(* What an Allow leaves behind, and the ghosts of it.                       *)
Store(r, t) ==
  LET kept == IF Refunds(r.owed) THEN 0 ELSE 1
      allowed == IF AllowedFromWait(WaitDuration(r.owed)) THEN 1 ELSE 0
  IN /\ bucket' = [tokens |-> r.tokens, last |-> r.last, expireAt |-> clock + TTL]
     /\ born' = IF Missing THEN t ELSE born
     /\ consumed' = IF Missing THEN kept ELSE consumed + kept
     /\ admitted' = IF Missing THEN allowed ELSE admitted + allowed
     /\ first' = IF bucket = None THEN t ELSE first
     /\ total' = total + kept

(* A clock reading, possibly behind.                                        *)
Readings == {clock - s : s \in 0 .. AtMost(MaxSkew, clock)}

(* Memory.Allow.                                                            *)
MemoryAllow ==
  /\ store = "memory"
  /\ \E t \in Readings :
       LET entry == IF Missing THEN [tokens |-> full, last |-> t] ELSE bucket
       IN Store(ConsumeOne(entry.tokens, entry.last, t), t)
  /\ UNCHANGED <<clock, store, call>>

(* Memory.Allow of another key at the cap drops this one.                   *)
DropOne ==
  /\ store = "memory" /\ bucket # None
  /\ bucket' = None
  /\ born' = 0 /\ consumed' = 0 /\ admitted' = 0 /\ first' = 0 /\ total' = 0
  /\ UNCHANGED <<clock, store, call>>

(* Redis.Allow up to Eval.                                                  *)
SendScript(l) ==
  /\ store = "redis" /\ call[l].pc = "idle"
  /\ \E t \in Readings :
       call' = [call EXCEPT ![l] = [pc |-> "sent", t |-> t, sentAt |-> clock, resends |-> 0]]
  /\ UNCHANGED <<clock, store, bucket, ghosts>>

(* The script runs; its reply may be lost and the client send it again.     *)
ScriptRuns(l) ==
  /\ call[l].pc = "sent"
  /\ LET t == call[l].t
     IN Store(AllowScript(IF Missing THEN None ELSE bucket, t), t)
  /\ \/ call' = [call EXCEPT ![l] = NoCall]
     \/ call[l].resends < MaxResends /\ call' = [call EXCEPT ![l].resends = @ + 1]
  /\ UNCHANGED <<clock, store>>

(* The script never ran and Allow returns the client's error.               *)
ScriptFails(l) ==
  /\ call[l].pc = "sent"
  /\ call' = [call EXCEPT ![l] = NoCall]
  /\ UNCHANGED <<clock, store, bucket, ghosts>>

Tick ==
  /\ clock < MaxClock
  /\ \A l \in Limiters : call[l].pc = "sent" => clock < call[l].sentAt + MaxLag
  /\ clock' = clock + 1
  /\ UNCHANGED <<store, bucket, call, ghosts>>

Next ==
  \/ \E l \in Limiters : SendScript(l) \/ ScriptRuns(l) \/ ScriptFails(l)
  \/ MemoryAllow \/ DropOne \/ Tick

Spec == Init /\ [][Next]_vars

-----------------------------------------------------------------------------
(* Properties.                                                              *)

(* What a bucket hands out is its burst and what flowed in since it was     *)
(* created, plus the debt of maxDelay, whatever the order and the skew of   *)
(* the clock readings: no stretch of time is refilled twice (consumeOne,    *)
(* allowScript).                                                            *)
ConsumptionBound ==
  bucket # None =>
    /\ bucket.last >= born
    /\ Unit * consumed + bucket.tokens <= full + Rate * (bucket.last - born)

(* Forgetting a bucket that was idle for ttl grants nothing, provided ttl   *)
(* is long enough to refill it: over all its lives the key stays within one *)
(* burst, the inflow and the debt (Memory.Allow, EXPIRE).                   *)
LongTTL == Rate * (TTL - MaxLag - MaxSkew - maxDelayMicro) >= full
ForgettingIsFree ==
  LongTTL => Unit * total <= full + Rate * (clock - first + maxDelayMicro)

(* Memory and Redis agree: from every bucket a run reaches, the Go formula  *)
(* and the script give the same tokens, last and wait at every time, before *)
(* and after last.                                                          *)
FormulasAgree ==
  \A t \in 0 .. MaxClock :
    IF bucket = None THEN AllowScript(None, t) = ConsumeOne(full, t, t)
    ELSE AllowScript(bucket, t) = ConsumeOne(bucket.tokens, bucket.last, t)

(* An Allow that is told to go on keeps its token: the refund and the       *)
(* answer are decided apart, in microseconds and in durations (consumeOne,  *)
(* allowedFromWait).                                                        *)
AllowedIsPaid == admitted <= consumed

=============================================================================
