-------------------------- MODULE TokenBucketProofs --------------------------
(***************************************************************************)
(* What a bucket hands out is bounded for every rate, burst, maxDelay, ttl, *)
(* number of limiters, clock skew and order of scripts.                     *)
(***************************************************************************)
EXTENDS TokenBucket, TLAPS

(* The largest debt, in grains.                                             *)
Debt == Rate * maxDelayMicro

(* The constants of the clock as the proofs use them.                       *)
LEMMA ConstantTypes == full \in Nat \ {0} /\ maxDelayMicro \in Nat /\ Debt \in Nat /\ Unit <= full
<1>1. maxDelayMicro \in Nat
  BY BucketAssumption DEF ValidClock, maxDelayMicro
<1>2. full \in Nat \ {0} /\ Unit <= full
  BY BucketAssumption, SMTT(60) DEF ValidClock, full
<1>3. Debt \in Nat
  BY <1>1, BucketAssumption DEF ValidClock, Debt
<1> QED
  BY <1>1, <1>2, <1>3

(* The tokens an Allow takes out of the bucket.                             *)
Kept(owed) == IF Refunds(owed) THEN 0 ELSE 1

(* What one Allow does to a bucket: the debt stays bounded, last never      *)
(* rewinds, and what is left and what was kept come from what was there and *)
(* what flowed in since last.                                               *)
Accounted(r, tokens, last, now) ==
  /\ r.tokens \in -Debt .. full
  /\ r.last \in Nat /\ r.last >= last /\ r.last >= now
  /\ r.owed \in Nat
  /\ Unit * Kept(r.owed) + r.tokens <= tokens + Rate * (r.last - last)

(* The arithmetic of one consume, with the inflow as a number of its own.   *)
LEMMA ConsumeArithmetic ==
  ASSUME NEW tokens \in -Debt .. full, NEW flow \in Nat,
         NEW left, left = AtMost(tokens + flow, full) - Unit,
         NEW owed, owed = IF left < 0 THEN -left ELSE 0,
         NEW after, after = Refunded(left, owed)
  PROVE  /\ after \in -Debt .. full
         /\ owed \in Nat
         /\ Unit * Kept(owed) + after <= tokens + flow
<1>1. Unit \in Nat \ {0} /\ full \in Nat /\ Debt \in Nat /\ Unit <= full
  BY ConstantTypes, BucketAssumption DEF ValidClock
<1>2. left \in Int /\ left <= tokens + flow - Unit /\ left <= full - Unit /\ left + Unit >= -Debt
  BY <1>1 DEF AtMost
<1>3. owed \in Nat
  BY <1>2
<1>4. CASE owed > Debt
  <2>1. Refunds(owed)
    BY <1>4 DEF Refunds, Debt
  <2>2. after = left + Unit /\ Kept(owed) = 0
    BY <2>1, <1>1, <1>2 DEF Refunded, Kept, AtMost
  <2> QED
    BY <2>2, <1>1, <1>2, <1>3
<1>5. CASE ~(owed > Debt)
  <2>1. ~Refunds(owed)
    BY <1>5 DEF Refunds, Debt
  <2>2. after = left /\ Kept(owed) = 1
    BY <2>1 DEF Refunded, Kept
  <2> QED
    BY <2>2, <1>5, <1>1, <1>2, <1>3
<1> QED
  BY <1>4, <1>5

(* The inflow of a reading: none when the clock is behind last.             *)
LEMMA Inflow ==
  ASSUME NEW last \in Nat, NEW now \in Nat
  PROVE  /\ now < last => Rate * (now - now) = 0 /\ Rate * 0 = 0 /\ Rate * (last - last) = 0
         /\ now >= last => Rate * (now - last) \in Nat
<1>1. Rate \in Nat
  BY BucketAssumption DEF ValidClock
<1> QED
  BY <1>1

(* consumeOne.                                                              *)
LEMMA ConsumeOneAccounts ==
  ASSUME NEW tokens \in -Debt .. full, NEW last \in Nat, NEW now \in Nat
  PROVE  Accounted(ConsumeOne(tokens, last, now), tokens, last, now)
<1> DEFINE r == ConsumeOne(tokens, last, now)
           from == IF now < last THEN now ELSE last
           flow == Rate * (now - from)
           left == AtMost(tokens + flow, full) - Unit
           owed == IF left < 0 THEN -left ELSE 0
<1>1. r = [tokens |-> Refunded(left, owed), last |-> PersistLast(last, now), owed |-> owed]
  BY DEF ConsumeOne
<1>2. /\ r.last \in Nat /\ r.last >= last /\ r.last >= now
      /\ flow \in Nat /\ flow = Rate * (r.last - last)
  <2>1. r.last = IF last > now THEN last ELSE now
    BY <1>1 DEF PersistLast
  <2> HIDE DEF r
  <2>2. CASE now < last
    <3>1. from = now /\ r.last = last
      BY <2>1, <2>2
    <3>2. flow = 0 /\ Rate * (r.last - last) = 0
      BY <3>1, <2>2, Inflow
    <3> QED
      BY <3>1, <3>2, <2>2
  <2>3. CASE ~(now < last)
    <3>1. from = last /\ r.last = now
      BY <2>1, <2>3
    <3>2. flow = Rate * (now - last) /\ flow \in Nat
      BY <3>1, <2>3, Inflow
    <3> HIDE DEF flow
    <3> QED
      BY <3>1, <3>2, <2>3
  <2> QED
    BY <2>2, <2>3
<1> HIDE DEF flow
<1>3. /\ Refunded(left, owed) \in -Debt .. full
      /\ owed \in Nat
      /\ Unit * Kept(owed) + Refunded(left, owed) <= tokens + flow
  BY <1>2, ConsumeArithmetic, ZenonT(60)
<1>4. r.tokens = Refunded(left, owed) /\ r.owed = owed
  BY <1>1
<1> HIDE DEF r, left, owed
<1> QED
  BY <1>2, <1>3, <1>4 DEF Accounted, r

(* A key without a bucket is filled, and has nothing flow in.               *)
LEMMA FillAccounts ==
  ASSUME NEW t \in Nat
  PROVE  Accounted(ConsumeOne(full, t, t), full, t, t)
<1>1. full \in -Debt .. full
  BY ConstantTypes
<1> QED
  BY <1>1, ConsumeOneAccounts

(* allowScript, written apart in Lua, computes what consumeOne computes, on *)
(* a hash and on an empty one.                                              *)
LEMMA ScriptIsConsumeOne ==
  ASSUME NEW b, b # None, b.tokens \in Int, b.last \in Nat, NEW t \in Nat
  PROVE  /\ AllowScript(b, t) = ConsumeOne(b.tokens, b.last, t)
         /\ AllowScript(None, t) = ConsumeOne(full, t, t)
<1>1. /\ Rate \in Nat /\ full \in Nat
  BY ConstantTypes, BucketAssumption DEF ValidClock
<1>2. Hash(b, t) = b /\ Hash(None, t) = [tokens |-> full, last |-> t]
  BY DEF Hash
<1>3. ASSUME NEW h, h.tokens \in Int, h.last \in Nat, NEW hash, Hash(hash, t) = h
      PROVE  AllowScript(hash, t) = ConsumeOne(h.tokens, h.last, t)
  <2>1. (IF t < h.last THEN 0 ELSE t - h.last) = t - (IF t < h.last THEN t ELSE h.last)
    BY <1>3
  <2>2. (IF t > h.last THEN t ELSE h.last) = PersistLast(h.last, t)
    BY <1>3 DEF PersistLast
  <2> QED
    BY <1>3, <2>1, <2>2, Zenon DEF AllowScript, ConsumeOne, Refunded, Refunds
<1> QED
  BY <1>1, <1>2, <1>3

-----------------------------------------------------------------------------
(* The inductive invariant.  ConsumptionBound compares a bucket with its    *)
(* birth; over several lives the inflow is needed as well from the first    *)
(* birth on, and that a bucket is used at most its ttl before it expires    *)
(* and by readings that are at most the skew and the lag old.               *)

BucketTypes ==
  /\ clock \in Nat
  /\ bucket \in Bucket \cup {None}
  /\ born \in Nat /\ consumed \in Nat /\ admitted \in Nat /\ first \in Nat /\ total \in Nat

UsedInTime ==
  bucket # None => bucket.last + TTL <= bucket.expireAt /\ bucket.last <= clock

LivesBound ==
  /\ bucket = None => total = 0 /\ first = 0
  /\ bucket # None /\ LongTTL =>
       /\ first <= bucket.last
       /\ Unit * total + bucket.tokens <= full + Rate * (bucket.last - first)

BucketInv == BucketTypes /\ UsedInTime /\ ConsumptionBound /\ LivesBound

Timely(c) ==
  c.pc = "sent" => /\ c.t <= c.sentAt /\ c.sentAt <= c.t + MaxSkew
                   /\ c.sentAt <= clock /\ clock <= c.sentAt + MaxLag

CallInv ==
  /\ clock \in 0 .. MaxClock /\ store \in {"memory", "redis"}
  /\ call \in [Limiters -> Call]
  /\ \A l \in Limiters : Timely(call[l])

IndInv == BucketInv /\ CallInv

(* Two inflows in a row are one.                                            *)
LEMMA InflowAdds ==
  ASSUME NEW a \in Nat, NEW b \in Nat, NEW c \in Nat
  PROVE  /\ Rate * (b - a) + Rate * (c - b) = Rate * (c - a)
         /\ Rate * (b - a) \in Int /\ Rate * (c - b) \in Int
<1>1. Rate \in Int
  BY BucketAssumption DEF ValidClock
<1> QED
  BY <1>1, SMTT(60)

(* A longer stretch of time does not bring less.                            *)
LEMMA InflowGrows ==
  ASSUME NEW a \in Int, NEW b \in Int, a <= b
  PROVE  Rate * a <= Rate * b /\ Rate * a \in Int /\ Rate * b \in Int
<1>1. Rate \in Nat
  BY BucketAssumption DEF ValidClock
<1> QED
  BY <1>1, SMTT(60)

(* One more token kept.                                                     *)
LEMMA KeptAdds ==
  ASSUME NEW n \in Nat, NEW k \in {0, 1}
  PROVE  Unit * (n + k) = Unit * n + Unit * k /\ Unit * n \in Nat /\ Unit * k \in Nat
<1>1. Unit \in Nat
  BY BucketAssumption DEF ValidClock
<1> QED
  BY <1>1, SMTT(60)

(* A bucket that was forgotten after a long enough ttl had refilled.        *)
LEMMA ForgottenWasFull ==
  ASSUME LongTTL, NEW last \in Nat, NEW t \in Nat,
         last + TTL <= t + MaxSkew + MaxLag
  PROVE  last <= t /\ full + Debt <= Rate * (t - last)
<1> DEFINE gap == TTL - MaxLag - MaxSkew
<1>1. /\ gap \in Int /\ maxDelayMicro \in Nat /\ full \in Nat \ {0} /\ Debt \in Nat /\ Rate \in Nat
      /\ t - last \in Int /\ gap <= t - last
  BY ConstantTypes, BucketAssumption DEF ValidClock
<1>2. Rate * (gap - maxDelayMicro) >= full
  BY DEF LongTTL
<1>3. Rate * (gap - maxDelayMicro) = Rate * gap - Debt /\ Rate * gap \in Int
  BY <1>1, SMTT(60) DEF Debt
<1>4. Rate * gap <= Rate * (t - last) /\ Rate * (t - last) \in Int
  BY <1>1, InflowGrows
<1>5. last <= t
  <2>1. SUFFICES ASSUME t < last PROVE FALSE
    OBVIOUS
  <2>2. Rate * (t - last) <= Rate * 0 /\ Rate * 0 = 0
    BY <1>1, <2>1, InflowGrows
  <2> HIDE DEF gap
  <2> QED
    BY <1>1, <1>2, <1>3, <1>4, <2>2
<1> HIDE DEF gap
<1> QED
  BY <1>1, <1>2, <1>3, <1>4, <1>5

-----------------------------------------------------------------------------

(* Store, of the result of either formula, keeps the invariant.             *)
LEMMA StoreKeeps ==
  ASSUME BucketInv, NEW t \in Nat, t <= clock, clock <= t + MaxSkew + MaxLag,
         NEW r, Store(r, t), clock' = clock,
         Missing => r = ConsumeOne(full, t, t),
         ~Missing => r = ConsumeOne(bucket.tokens, bucket.last, t)
  PROVE  BucketInv'
<1> DEFINE k == Kept(r.owed)
<1>1. /\ Unit \in Nat \ {0} /\ full \in Nat \ {0} /\ Debt \in Nat /\ TTL \in Nat
      /\ MaxSkew \in Nat /\ MaxLag \in Nat
  BY ConstantTypes, BucketAssumption DEF ValidClock
<1>2. k \in {0, 1}
  BY DEF Kept
<1>3. /\ bucket' = [tokens |-> r.tokens, last |-> r.last, expireAt |-> clock + TTL]
      /\ born' = IF Missing THEN t ELSE born
      /\ consumed' = IF Missing THEN k ELSE consumed + k
      /\ first' = IF bucket = None THEN t ELSE first
      /\ total' = total + k
      /\ \E a \in {0, 1} : admitted' = IF Missing THEN a ELSE admitted + a
  BY DEF Store, Kept
<1>4. ~Missing => /\ bucket \in Bucket /\ bucket # None
                  /\ bucket.tokens \in -Debt .. full /\ bucket.last \in Nat /\ bucket.last <= clock
  BY DEF Missing, BucketInv, BucketTypes, Bucket, Debt, UsedInTime
<1>5. /\ Missing => Accounted(r, full, t, t)
      /\ ~Missing => Accounted(r, bucket.tokens, bucket.last, t)
  BY <1>4, FillAccounts, ConsumeOneAccounts
<1>6. /\ r.tokens \in -Debt .. full /\ r.last \in Nat /\ r.last >= t
      /\ r.last <= clock
  <2>1. r.tokens \in -Debt .. full /\ r.last \in Nat /\ r.last >= t
    BY <1>5 DEF Accounted
  <2>2. Missing => r.last = t
    BY DEF ConsumeOne, PersistLast
  <2>3. ~Missing => r.last = t \/ r.last = bucket.last
    BY DEF ConsumeOne, PersistLast
  <2> QED
    BY <2>1, <2>2, <2>3, <1>4
<1>7. bucket' \in Bucket /\ bucket' # None
  <2>1. clock \in Nat
    BY DEF BucketInv, BucketTypes
  <2>2. bucket' \in Bucket
    BY <2>1, <1>1, <1>3, <1>6 DEF Bucket, Debt
  <2>3. Debt \in Int /\ full \in Int
    BY <1>1
  <2>4. bucket' \in [tokens : Int, last : Int, expireAt : Int]
    BY <2>1, <1>1, <1>3, <1>6
  <2> QED
    BY <2>2, <2>4, BucketAssumption
<1>8. BucketTypes'
  <2>1. clock \in Nat /\ born \in Nat /\ consumed \in Nat /\ admitted \in Nat /\ first \in Nat /\ total \in Nat
    BY DEF BucketInv, BucketTypes
  <2> HIDE DEF k
  <2> QED
    BY <2>1, <1>2, <1>3, <1>7 DEF BucketTypes
<1>9. UsedInTime'
  BY <1>1, <1>3, <1>6 DEF UsedInTime, BucketInv, BucketTypes
<1>10. ConsumptionBound'
  <2>1. CASE Missing
    BY <2>1, <1>3, <1>5 DEF Accounted, ConsumptionBound
  <2>2. CASE ~Missing
    <3>1. /\ bucket.last >= born
          /\ Unit * consumed + bucket.tokens <= full + Rate * (bucket.last - born)
          /\ born \in Nat /\ consumed \in Nat
      BY <2>2, <1>4 DEF BucketInv, ConsumptionBound, BucketTypes
    <3>2. Unit * k + r.tokens <= bucket.tokens + Rate * (r.last - bucket.last) /\ r.last >= bucket.last
      BY <2>2, <1>5 DEF Accounted
    <3>3. Rate * (bucket.last - born) + Rate * (r.last - bucket.last) = Rate * (r.last - born)
          /\ Rate * (bucket.last - born) \in Int /\ Rate * (r.last - bucket.last) \in Int
      BY <3>1, <1>4, <1>6, <2>2, InflowAdds, ZenonT(60)
    <3>4. Unit * (consumed + k) = Unit * consumed + Unit * k /\ Unit * consumed \in Nat /\ Unit * k \in Nat
      BY <3>1, <1>2, KeptAdds, ZenonT(60)
    <3>5. Unit * (consumed + k) + r.tokens <= full + Rate * (r.last - born)
      BY <3>1, <3>2, <3>3, <3>4, <1>1, <1>4, <1>6, <2>2
    <3>6. bucket'.last = r.last /\ bucket'.tokens = r.tokens /\ born' = born /\ consumed' = consumed + k
      BY <1>3, <2>2
    <3> QED
      BY <3>1, <3>2, <3>5, <3>6, <1>4, <1>6, <2>2 DEF ConsumptionBound
  <2> QED
    BY <2>1, <2>2
<1>11. LivesBound'
  <2> SUFFICES ASSUME LongTTL
               PROVE  /\ first' <= r.last
                      /\ Unit * (total + k) + r.tokens <= full + Rate * (r.last - first')
    BY <1>3, <1>7 DEF LivesBound, LongTTL
  <2>1. CASE bucket = None
    <3>1. Missing /\ first' = t /\ total + k = k
      BY <2>1, <1>2, <1>3 DEF Missing, BucketInv, LivesBound
    <3> QED
      BY <3>1, <1>5, <1>6 DEF Accounted
  <2>2. CASE bucket # None
    <3>1. /\ first' = first /\ first \in Nat /\ total \in Nat /\ first <= bucket.last
          /\ bucket \in Bucket /\ bucket.last \in Nat /\ bucket.tokens \in -Debt .. full
          /\ Unit * total + bucket.tokens <= full + Rate * (bucket.last - first)
      BY <2>2, <1>3 DEF BucketInv, BucketTypes, LivesBound, Bucket, Debt
    <3>2. Unit * (total + k) = Unit * total + Unit * k /\ Unit * total \in Nat /\ Unit * k \in Nat
      BY <3>1, <1>2, KeptAdds, ZenonT(60)
    <3>3. CASE Missing
      <4>1. bucket.last + TTL <= t + MaxSkew + MaxLag
        BY <3>1, <3>3, <2>2, <1>1 DEF Missing, BucketInv, UsedInTime, BucketTypes, Bucket
      <4>2. bucket.last <= t /\ full + Debt <= Rate * (t - bucket.last)
        BY <4>1, <3>1, ForgottenWasFull
      <4>3. Unit * k + r.tokens <= full + Rate * (r.last - t)
        BY <3>3, <1>5 DEF Accounted
      <4>4. /\ Rate * (bucket.last - first) + Rate * (t - bucket.last) = Rate * (t - first)
            /\ Rate * (bucket.last - first) \in Int /\ Rate * (t - bucket.last) \in Int
        BY <3>1, InflowAdds, ZenonT(60)
      <4>5. /\ Rate * (t - first) + Rate * (r.last - t) = Rate * (r.last - first)
            /\ Rate * (t - first) \in Int /\ Rate * (r.last - t) \in Int
        BY <3>1, <1>6, InflowAdds, ZenonT(60)
      <4>6. Unit * total + Unit * k + r.tokens <= full + Rate * (r.last - first)
        BY <4>2, <4>3, <4>4, <4>5, <3>1, <3>2, <1>1, <1>6
      <4> QED
        BY <4>2, <4>6, <3>1, <3>2, <1>6
    <3>4. CASE ~Missing
      <4>1. Unit * k + r.tokens <= bucket.tokens + Rate * (r.last - bucket.last) /\ r.last >= bucket.last
        BY <3>4, <1>5 DEF Accounted
      <4>2. /\ Rate * (bucket.last - first) + Rate * (r.last - bucket.last) = Rate * (r.last - first)
            /\ Rate * (bucket.last - first) \in Int /\ Rate * (r.last - bucket.last) \in Int
        BY <3>1, <1>6, InflowAdds, ZenonT(60)
      <4>3. Unit * total + Unit * k + r.tokens <= full + Rate * (r.last - first)
        BY <4>1, <4>2, <3>1, <3>2, <1>1, <1>6
      <4> QED
        BY <4>1, <4>3, <3>1, <3>2, <1>6
    <3> QED
      BY <3>3, <3>4
  <2> QED
    BY <2>1, <2>2
<1> QED
  BY <1>8, <1>9, <1>10, <1>11 DEF BucketInv

(* A reading of the clock.                                                  *)
LEMMA ReadingTypes ==
  ASSUME clock \in Nat, NEW t \in Readings
  PROVE  t \in Nat /\ t <= clock /\ clock <= t + MaxSkew
BY BucketAssumption DEF Readings, AtMost

(* Memory.Allow keeps the invariant: readings and expiry are its own.       *)
LEMMA MemoryAllowKeeps == IndInv /\ MemoryAllow => IndInv'
<1> SUFFICES ASSUME IndInv, MemoryAllow PROVE IndInv'
  OBVIOUS
<1> DEFINE found(t) == IF Missing THEN [tokens |-> full, last |-> t] ELSE bucket
<1>1. PICK t \in Readings : Store(ConsumeOne(found(t).tokens, found(t).last, t), t)
  BY DEF MemoryAllow
<1>2. t \in Nat /\ t <= clock /\ clock <= t + MaxSkew + MaxLag
  BY ReadingTypes, BucketAssumption DEF IndInv, BucketInv, BucketTypes
<1>3. UNCHANGED <<clock, store, call>>
  BY DEF MemoryAllow
<1>4. BucketInv'
  <2>1. CASE Missing
    BY <2>1, <1>1, <1>2, <1>3, StoreKeeps DEF IndInv
  <2>2. CASE ~Missing
    BY <2>2, <1>1, <1>2, <1>3, StoreKeeps DEF IndInv
  <2> QED
    BY <2>1, <2>2
<1> QED
  BY <1>3, <1>4 DEF IndInv, CallInv, Timely

(* dropOne starts the key over.                                             *)
LEMMA DropOneKeeps == IndInv /\ DropOne => IndInv'
BY DEF IndInv, BucketInv, BucketTypes, UsedInTime, ConsumptionBound, LivesBound, CallInv, Timely, DropOne

(* Redis.Allow up to Eval keeps the invariant; the reading starts to age.   *)
LEMMA SendScriptKeeps ==
  ASSUME IndInv, NEW l \in Limiters, SendScript(l)
  PROVE  IndInv'
<1>1. PICK t \in Readings :
        call' = [call EXCEPT ![l] = [pc |-> "sent", t |-> t, sentAt |-> clock, resends |-> 0]]
  BY ZenonT(60) DEF SendScript
<1>2. UNCHANGED <<clock, store, bucket, ghosts>>
  BY DEF SendScript
<1>3. clock \in Nat /\ t \in Nat /\ t <= clock /\ clock <= t + MaxSkew
  BY ReadingTypes DEF IndInv, BucketInv, BucketTypes
<1>4. BucketInv'
  BY <1>2 DEF ghosts, IndInv, BucketInv, BucketTypes, UsedInTime, ConsumptionBound, LivesBound, LongTTL
<1>5. call' \in [Limiters -> Call]
  BY <1>1, <1>3, BucketAssumption DEF IndInv, CallInv, Call
<1>6. ASSUME NEW m \in Limiters PROVE Timely(call[m])'
  BY <1>1, <1>2, <1>3, BucketAssumption DEF IndInv, CallInv, Timely
<1> QED
  BY <1>2, <1>4, <1>5, <1>6 DEF IndInv, CallInv

(* The script keeps the invariant, also when it is sent again.              *)
LEMMA ScriptRunsKeeps ==
  ASSUME IndInv, NEW l \in Limiters, ScriptRuns(l)
  PROVE  IndInv'
<1> DEFINE t == call[l].t
           r == AllowScript(IF Missing THEN None ELSE bucket, t)
<1>1. Store(r, t) /\ UNCHANGED <<clock, store>>
  BY DEF ScriptRuns
<1>2. t \in Nat /\ t <= clock /\ clock <= t + MaxSkew + MaxLag
  <2>1. /\ call[l] \in Call /\ Timely(call[l]) /\ call[l].pc = "sent" /\ clock \in Nat
    BY DEF IndInv, BucketInv, BucketTypes, CallInv, ScriptRuns
  <2> QED
    BY <2>1, BucketAssumption DEF Call, Timely
<1>3. BucketInv'
  <2>1. CASE Missing
    <3>1. r = ConsumeOne(full, t, t)
      BY <2>1, <1>2 DEF AllowScript, ConsumeOne, Hash, Refunded, Refunds, PersistLast
    <3> QED
      BY <3>1, <2>1, <1>1, <1>2, StoreKeeps DEF IndInv
  <2>2. CASE ~Missing
    <3>1. bucket # None /\ bucket.tokens \in Int /\ bucket.last \in Nat
      BY <2>2, ConstantTypes DEF Missing, IndInv, BucketInv, BucketTypes, Bucket, Debt
    <3>2. r = ConsumeOne(bucket.tokens, bucket.last, t)
      BY <2>2, <3>1, <1>2, ScriptIsConsumeOne
    <3> QED
      BY <3>2, <2>2, <1>1, <1>2, StoreKeeps DEF IndInv
  <2> QED
    BY <2>1, <2>2
<1>4. \A m \in Limiters : call'[m] = call[m] \/ call'[m] = NoCall
                          \/ call'[m] = [call[m] EXCEPT !.resends = @ + 1]
  BY DEF ScriptRuns, IndInv, CallInv
<1>5. call' \in [Limiters -> Call]
  BY BucketAssumption DEF ScriptRuns, IndInv, CallInv, Call, NoCall
<1>6. ASSUME NEW m \in Limiters PROVE Timely(call[m])'
  <2>1. call[m] \in Call /\ Timely(call[m])
    BY DEF IndInv, CallInv
  <2>2. CASE call'[m] = NoCall
    BY <2>2 DEF Timely, NoCall
  <2>3. CASE call'[m] # NoCall
    <3>1. /\ call'[m].pc = call[m].pc /\ call'[m].t = call[m].t
          /\ call'[m].sentAt = call[m].sentAt
      BY <2>1, <2>3, <1>4, ZenonT(60) DEF Call
    <3> QED
      BY <2>1, <3>1, <1>1 DEF Timely
  <2> QED
    BY <2>2, <2>3
<1> QED
  BY <1>1, <1>3, <1>5, <1>6 DEF IndInv, CallInv

(* A failed Eval leaves the bucket alone.                                   *)
LEMMA ScriptFailsKeeps ==
  ASSUME IndInv, NEW l \in Limiters, ScriptFails(l)
  PROVE  IndInv'
<1>1. UNCHANGED <<clock, store, bucket, ghosts>> /\ call' = [call EXCEPT ![l] = NoCall]
  BY DEF ScriptFails
<1>2. BucketInv'
  BY <1>1 DEF ghosts, IndInv, BucketInv, BucketTypes, UsedInTime, ConsumptionBound, LivesBound, LongTTL
<1>3. NoCall \in Call
  BY BucketAssumption DEF NoCall, Call
<1> QED
  BY <1>1, <1>2, <1>3 DEF IndInv, CallInv, Timely, NoCall

(* Time passes while no script is older than the lag.                       *)
LEMMA TickKeeps == IndInv /\ Tick => IndInv'
<1> SUFFICES ASSUME IndInv, Tick PROVE IndInv'
  OBVIOUS
<1>1. clock' = clock + 1 /\ UNCHANGED <<store, bucket, call, ghosts>> /\ clock \in Nat
  BY DEF Tick, IndInv, BucketInv, BucketTypes
<1>2. BucketInv'
  BY <1>1 DEF ghosts, IndInv, BucketInv, BucketTypes, UsedInTime, ConsumptionBound, LivesBound, LongTTL, Bucket
<1>3. ASSUME NEW l \in Limiters PROVE Timely(call[l])'
  BY <1>1, BucketAssumption DEF Tick, IndInv, CallInv, Timely, Call
<1>4. clock' \in 0 .. MaxClock
  BY <1>1, BucketAssumption DEF Tick
<1> QED
  BY <1>1, <1>2, <1>3, <1>4 DEF IndInv, CallInv

(* The first state: no bucket, no call.                                     *)
LEMMA InitHolds == Init => IndInv
BY BucketAssumption DEF Init, IndInv, BucketInv, BucketTypes, UsedInTime, ConsumptionBound, LivesBound,
   CallInv, Timely, NoCall, Call

(* Every step keeps the invariant.                                          *)
LEMMA NextKeeps == IndInv /\ [Next]_vars => IndInv'
<1> SUFFICES ASSUME IndInv, [Next]_vars PROVE IndInv'
  OBVIOUS
<1>1. CASE UNCHANGED vars
  BY <1>1 DEF vars, IndInv, BucketInv, BucketTypes, UsedInTime, ConsumptionBound, LivesBound, LongTTL,
     CallInv, Timely
<1>2. CASE Next
  BY <1>2, MemoryAllowKeeps, DropOneKeeps, SendScriptKeeps, ScriptRunsKeeps, ScriptFailsKeeps, TickKeeps
     DEF Next
<1> QED
  BY <1>1, <1>2

(* The inductive invariant of both stores holds in every reachable state.   *)
THEOREM Invariance == Spec => []IndInv
BY InitHolds, NextKeeps, PTL DEF Spec

-----------------------------------------------------------------------------

(* The debt of a bucket stays within maxDelay and its credit within burst,  *)
(* in Memory.Allow and in the script.                                       *)
THEOREM TypesHold == Spec => []TypeOK
<1>1. IndInv => TypeOK
  BY DEF IndInv, BucketInv, BucketTypes, CallInv, TypeOK
<1> QED
  BY <1>1, Invariance, PTL

(* A bucket hands out its burst, the inflow since its birth and the debt of *)
(* maxDelay, whatever the order and the skew of the readings (consumeOne,   *)
(* allowScript).                                                            *)
THEOREM BucketIsBounded == Spec => []ConsumptionBound
<1>1. IndInv => ConsumptionBound
  BY DEF IndInv, BucketInv
<1> QED
  BY <1>1, Invariance, PTL

(* A ttl that refills the bucket, with the skew and the lag to spare, makes *)
(* forgetting an idle bucket free (Memory.Allow, EXPIRE).                   *)
THEOREM ExpiryIsFree == Spec => []ForgettingIsFree
<1>1. ASSUME IndInv, LongTTL
      PROVE  Unit * total <= full + Rate * (clock - first + maxDelayMicro)
  <2>1. /\ full \in Nat /\ Debt \in Nat /\ maxDelayMicro \in Nat /\ Unit \in Nat /\ Rate \in Nat
    BY ConstantTypes, BucketAssumption DEF ValidClock
  <2>2. clock \in Nat /\ first \in Nat /\ total \in Nat
    BY <1>1 DEF IndInv, BucketInv, BucketTypes
  <2>3. CASE bucket = None
    <3>1. Unit * total = 0 /\ first = 0
      BY <2>1, <2>3, <1>1 DEF IndInv, BucketInv, LivesBound
    <3>2. Rate * 0 <= Rate * (clock - first + maxDelayMicro) /\ Rate * 0 = 0
      BY <3>1, <2>1, <2>2, InflowGrows
    <3> QED
      BY <3>1, <3>2, <2>1, <2>2
  <2>4. CASE bucket # None
    <3>1. /\ bucket.last \in Nat /\ bucket.tokens \in -Debt .. full /\ bucket.last <= clock
          /\ Unit * total + bucket.tokens <= full + Rate * (bucket.last - first)
      BY <2>4, <1>1 DEF IndInv, BucketInv, BucketTypes, Bucket, Debt, UsedInTime, LivesBound
    <3>2. Rate * (bucket.last - first) <= Rate * (clock - first)
          /\ Rate * (bucket.last - first) \in Int /\ Rate * (clock - first) \in Int
      BY <3>1, <2>2, InflowGrows
    <3>3. Rate * (clock - first + maxDelayMicro) = Rate * (clock - first) + Debt
      BY <2>1, <2>2, SMTT(60) DEF Debt
    <3>4. Unit * total \in Nat
      BY <2>1, <2>2
    <3> QED
      BY <3>1, <3>2, <3>3, <3>4, <2>1
  <2> QED
    BY <2>3, <2>4
<1>2. IndInv => ForgettingIsFree
  BY <1>1 DEF ForgettingIsFree
<1> QED
  BY <1>2, Invariance, PTL

(* The Go formula and the script agree from every reachable bucket.         *)
THEOREM StoresAgree == Spec => []FormulasAgree
<1>1. IndInv => FormulasAgree
  <2> SUFFICES ASSUME IndInv, NEW t \in 0 .. MaxClock
               PROVE  IF bucket = None THEN AllowScript(None, t) = ConsumeOne(full, t, t)
                      ELSE AllowScript(bucket, t) = ConsumeOne(bucket.tokens, bucket.last, t)
    BY DEF FormulasAgree
  <2>1. t \in Nat
    BY BucketAssumption
  <2>2. CASE bucket = None
    <3>1. AllowScript(None, t) = ConsumeOne(full, t, t)
      BY <2>1 DEF AllowScript, ConsumeOne, Hash, Refunded, Refunds, PersistLast
    <3> QED
      BY <3>1, <2>2
  <2>3. CASE bucket # None
    <3>1. bucket.tokens \in Int /\ bucket.last \in Nat
      BY <2>3, ConstantTypes DEF IndInv, BucketInv, BucketTypes, Bucket, Debt
    <3> QED
      BY <2>1, <2>3, <3>1, ScriptIsConsumeOne
  <2> QED
    BY <2>2, <2>3
<1> QED
  BY <1>1, Invariance, PTL

(* The delay is a whole number of microseconds, and a grain of debt takes   *)
(* at least one duration to flow in, so that cutting a wait to durations    *)
(* does not reach below the microsecond it exceeds.                         *)
WholeDelay == MaxDelay = maxDelayMicro * Nanos /\ Rate <= Nanos

LEMMA QuotientAbove ==
  ASSUME NEW a \in Nat, NEW b \in Nat, b > 0, NEW c \in Nat, b * c <= a
  PROVE  c <= a \div b
<1> DEFINE q == a \div b
<1>1. q \in Nat /\ b * (q + 1) > a
  BY SMTT(60)
<1> HIDE DEF q
<1>2. SUFFICES ASSUME q + 1 <= c PROVE FALSE
  BY <1>1 DEF q
<1>3. b * (q + 1) <= b * c
  BY <1>1, <1>2, SMTT(60)
<1> QED
  BY <1>1, <1>3

(* What is refunded in microseconds is refused in durations.                *)
LEMMA RefundedIsRefused ==
  ASSUME WholeDelay, NEW owed \in Nat, Refunds(owed)
  PROVE  ~AllowedFromWait(WaitDuration(owed))
<1>1. /\ Rate \in Nat /\ Rate > 0 /\ Nanos \in Nat /\ maxDelayMicro \in Nat /\ MaxDelay \in Nat
  BY BucketAssumption, ConstantTypes DEF ValidClock
<1>2. owed >= Rate * maxDelayMicro + 1
  BY <1>1 DEF Refunds
<1> DEFINE m == maxDelayMicro
<1>3. ASSUME NEW r \in Nat, NEW n \in Nat, NEW d \in Nat, r <= n, owed >= r * d + 1
      PROVE  r * (d * n + 1) <= owed * n
  <2>1. (r * d + 1) * n <= owed * n
    BY <1>3, SMTT(60)
  <2>2. (r * d + 1) * n = r * (d * n) + n
    BY <1>3, SMTT(60)
  <2>3. r * (d * n + 1) = r * (d * n) + r
    BY <1>3, SMTT(60)
  <2>4. r * (d * n) \in Nat /\ owed * n \in Nat
    BY <1>3, SMTT(60)
  <2> QED
    BY <1>3, <2>1, <2>2, <2>3, <2>4
<1>4. Rate * (MaxDelay + 1) <= owed * Nanos
  <2>1. Rate * (maxDelayMicro * Nanos + 1) <= owed * Nanos
    BY <1>1, <1>2, <1>3 DEF WholeDelay
  <2> QED
    BY <2>1, Zenon DEF WholeDelay
<1>5. owed * Nanos \in Nat /\ MaxDelay + 1 \in Nat
  BY <1>1
<1>6. MaxDelay + 1 <= (owed * Nanos) \div Rate
  BY <1>1, <1>4, <1>5, QuotientAbove, Zenon
<1>7. (owed * Nanos) \div Rate \in Int
  BY <1>1, <1>5
<1> DEFINE w == (owed * Nanos) \div Rate
<1> HIDE DEF w
<1>8. ~(w <= MaxDelay)
  BY <1>1, <1>6, <1>7 DEF w
<1> QED
  BY <1>8, Zenon DEF AllowedFromWait, WaitDuration, w

LEMMA StoreIsPaid ==
  ASSUME WholeDelay, AllowedIsPaid, admitted \in Nat, consumed \in Nat,
         NEW t, NEW r, Store(r, t), r.owed \in Nat
  PROVE  AllowedIsPaid'
<1> DEFINE k == IF Refunds(r.owed) THEN 0 ELSE 1
           a == IF AllowedFromWait(WaitDuration(r.owed)) THEN 1 ELSE 0
<1>1. /\ consumed' = IF Missing THEN k ELSE consumed + k
      /\ admitted' = IF Missing THEN a ELSE admitted + a
  BY Zenon DEF Store
<1>2. k \in {0, 1} /\ a \in {0, 1}
  BY Zenon
<1>3. k = 0 => a = 0
  <2>1. Refunds(r.owed) => ~AllowedFromWait(WaitDuration(r.owed))
    BY RefundedIsRefused, Zenon
  <2>2. ~Refunds(r.owed) => k = 1
    BY Zenon
  <2>3. 1 # 0
    OBVIOUS
  <2> QED
    BY <2>1, <2>2, <2>3, Zenon
<1> HIDE DEF k, a
<1> QED
  BY <1>1, <1>2, <1>3 DEF AllowedIsPaid

(* Whoever runs it, an Allow computes a wait that is a number.              *)
LEMMA FoundOwes ==
  ASSUME IndInv, NEW t \in Nat
  PROVE  /\ ConsumeOne(full, t, t).owed \in Nat
         /\ ~Missing => ConsumeOne(bucket.tokens, bucket.last, t).owed \in Nat
<1>1. ConsumeOne(full, t, t).owed \in Nat
  BY FillAccounts DEF Accounted
<1>2. ASSUME ~Missing PROVE ConsumeOne(bucket.tokens, bucket.last, t).owed \in Nat
  <2>1. bucket.tokens \in -Debt .. full /\ bucket.last \in Nat
    BY <1>2 DEF Missing, IndInv, BucketInv, BucketTypes, Bucket, Debt
  <2> QED
    BY <2>1, ConsumeOneAccounts DEF Accounted
<1> QED
  BY <1>1, <1>2

(* When maxDelay is a whole number of microseconds, and none of the grains  *)
(* in which a debt is counted is shorter than a duration, an Allow that is  *)
(* told to go on has kept its token, in both stores and also when a script  *)
(* runs again: what consumeOne refunds, allowedFromWait refuses.            *)
THEOREM AdmittedHavePaid ==
  ASSUME WholeDelay
  PROVE  Spec => []AllowedIsPaid
<1>1. Init => AllowedIsPaid
  BY DEF Init, AllowedIsPaid
<1>2. IndInv /\ AllowedIsPaid /\ [Next]_vars => AllowedIsPaid'
  <2> SUFFICES ASSUME IndInv, AllowedIsPaid, [Next]_vars PROVE AllowedIsPaid'
    OBVIOUS
  <2>1. admitted \in Nat /\ consumed \in Nat
    BY DEF IndInv, BucketInv, BucketTypes
  <2>2. CASE MemoryAllow
    <3> DEFINE found(t) == IF Missing THEN [tokens |-> full, last |-> t] ELSE bucket
    <3>1. PICK t \in Readings : Store(ConsumeOne(found(t).tokens, found(t).last, t), t)
      BY <2>2 DEF MemoryAllow
    <3>2. t \in Nat
      BY ReadingTypes DEF IndInv, BucketInv, BucketTypes
    <3> DEFINE r == ConsumeOne(found(t).tokens, found(t).last, t)
    <3>3. r = IF Missing THEN ConsumeOne(full, t, t) ELSE ConsumeOne(bucket.tokens, bucket.last, t)
      <4>1. CASE Missing
        <5>1. found(t).tokens = full /\ found(t).last = t
          BY <4>1
        <5> QED
          BY <4>1, <5>1
      <4>2. CASE ~Missing
        BY <4>2
      <4> QED
        BY <4>1, <4>2
    <3>4. r.owed \in Nat
      BY <3>2, <3>3, FoundOwes
    <3> HIDE DEF r
    <3> QED
      BY <2>1, <3>1, <3>4, StoreIsPaid, Zenon DEF r
  <2>3. ASSUME NEW l \in Limiters, ScriptRuns(l) PROVE AllowedIsPaid'
    <3> DEFINE t == call[l].t
               r == AllowScript(IF Missing THEN None ELSE bucket, t)
    <3>1. Store(r, t)
      BY <2>3 DEF ScriptRuns
    <3>2. t \in Nat
      BY DEF IndInv, CallInv, Call
    <3>3. r = IF Missing THEN ConsumeOne(full, t, t) ELSE ConsumeOne(bucket.tokens, bucket.last, t)
      <4>1. CASE Missing
        BY <3>2, <4>1 DEF AllowScript, ConsumeOne, Hash, Refunded, Refunds, PersistLast
      <4>2. CASE ~Missing
        <5>1. bucket # None /\ bucket.tokens \in Int /\ bucket.last \in Nat
          BY <4>2, ConstantTypes DEF Missing, IndInv, BucketInv, BucketTypes, Bucket, Debt
        <5> QED
          BY <3>2, <4>2, <5>1, ScriptIsConsumeOne
      <4> QED
        BY <4>1, <4>2
    <3>4. r.owed \in Nat
      BY <3>2, <3>3, FoundOwes
    <3> HIDE DEF r, t
    <3> QED
      BY <2>1, <3>1, <3>4, StoreIsPaid, Zenon
  <2>4. CASE DropOne
    BY <2>4 DEF DropOne, AllowedIsPaid
  <2>5. CASE UNCHANGED <<admitted, consumed>>
    BY <2>5 DEF AllowedIsPaid
  <2>6. ASSUME NEW l \in Limiters, SendScript(l) \/ ScriptFails(l) PROVE AllowedIsPaid'
    BY <2>5, <2>6, Zenon DEF SendScript, ScriptFails, ghosts
  <2>7. CASE Tick \/ UNCHANGED vars
    BY <2>5, <2>7, Zenon DEF Tick, vars, ghosts
  <2> QED
    BY <2>2, <2>3, <2>4, <2>6, <2>7, Zenon DEF Next
<1> QED
  BY <1>1, <1>2, Invariance, PTL DEF Spec

=============================================================================
