------------------------ MODULE BackendBackoffProofs ------------------------
(***************************************************************************)
(* Proofs about BackendBackoff for every number of callers and keys and     *)
(* every valid configuration.  What an Allow or a Report does to one entry  *)
(* is treated by lemmas about a pair of records (the entry and what really  *)
(* happened to its key) and a time; the steps lift them to the map.         *)
(***************************************************************************)
EXTENDS BackendBackoff, TLAPS

(* The credit that x failures cost.                                         *)
Cost(x) == Failure * x

(* A clock reading that is at most MaxLag old.                              *)
Recent(now, t) == now \in Nat /\ now <= t /\ t <= now + MaxLag

(* A CLOSED entry: the credit lies between what the failures of the stretch *)
(* and what those in a row leave, and the stretch began no earlier than     *)
(* closedSince says, less the lag.                                          *)
ClosedOK(e, s) ==
  /\ e.credit > 0
  /\ e.closedSince >= s.since - MaxLag
  /\ s.streak < TripFailures
  /\ e.credit <= budget - Cost(s.streak)
  /\ s.fails < TripFailures => e.credit >= budget - Cost(s.fails)

(* A tripped entry, OPEN or HALF-OPEN: its deadline is near, but not before *)
(* the cooldown or the lease of the probe is over, less the lag.            *)
OpenOK(e, s, t) ==
  /\ e.openUntil <= t + MaxCooldown
  /\ e.openUntil >= s.since + s.wait - MaxLag

HalfOK(e, s, t) ==
  /\ e.outstanding
  /\ e.probeUntil <= t + BaseCooldown
  /\ e.probeUntil >= s.since + BaseCooldown - MaxLag

(* What holds of a stored entry e and of what happened to its key, s.       *)
EntryOK(e, s, t) ==
  /\ e \in Entry /\ s \in Seen
  /\ s.touched <= t
  /\ e.expireAt >= s.touched + TTL - MaxLag
  /\ e.state = "closed" => ClosedOK(e, s)
  /\ e.state # "closed" => e.credit <= 0 /\ s.fails = TripFailures
  /\ e.state = "open" => OpenOK(e, s, t)
  /\ e.state = "half" => HalfOK(e, s, t)

CallerOK(r, t) ==
  /\ r \in Caller
  /\ r.pc # "idle" => r.key \in Keys
  /\ r.pc \in {"allow", "report"} => Recent(r.now, t)

(* The inductive invariant.                                                 *)
IndInv ==
  /\ clock \in 0 .. MaxClock /\ closed \in BOOLEAN
  /\ caller \in [Callers -> Caller]
  /\ entry \in [Keys -> Entry \cup {None}]
  /\ seen \in [Keys -> Seen]
  /\ \A c \in Callers : CallerOK(caller[c], clock)
  /\ \A k \in Stored : EntryOK(entry[k], seen[k], clock)
  /\ IsFiniteSet(Stored) /\ Cardinality(Stored) <= MaxKeys

-----------------------------------------------------------------------------
(* Arithmetic.                                                              *)

LEMMA Config ==
  /\ Success \in Nat /\ Success > 0 /\ Failure \in Nat /\ Failure > 0
  /\ TripFailures \in Nat /\ TripFailures > 0
  /\ BaseCooldown \in Nat /\ BaseCooldown > 0 /\ MaxCooldown \in Nat
  /\ TTL \in Nat /\ TTL > 0 /\ MaxKeys \in Nat /\ MaxKeys > 0
  /\ MaxLag \in Nat /\ MaxClock \in Nat
BY GateAssumption DEF ValidConfig

LEMMA CostTimes ==
  ASSUME NEW f \in Nat, f > 0, NEW x \in Nat, NEW n \in Nat
  PROVE  /\ f * 0 = 0 /\ f * x \in Int /\ f * (x + 1) = f * x + f
         /\ x < n => f * x < n * f
         /\ x >= n => f * x >= n * f
OBVIOUS

(* The budget is the cost of TripFailures failures and of no fewer.         *)
LEMMA Costs ==
  ASSUME NEW x \in Nat
  PROVE  /\ Cost(0) = 0 /\ Cost(x) \in Int /\ Cost(x + 1) = Cost(x) + Failure
         /\ x < TripFailures => Cost(x) < budget
         /\ x >= TripFailures => Cost(x) >= budget
BY Config, CostTimes, Zenon DEF Cost, budget

LEMMA BudgetType == budget \in Int /\ budget > 0 /\ budget >= 1 - Failure
<1>1. 0 < TripFailures /\ 0 \in Nat
  BY Config, Zenon
<1>2. Cost(0) = 0 /\ Cost(0) < budget
  BY <1>1, Costs, Zenon
<1> QED
  BY <1>2, Config DEF budget

LEMMA MinOfTwo ==
  ASSUME NEW a \in Int, NEW b \in Int
  PROVE  Min({a, b}) = IF a <= b THEN a ELSE b
<1>1. CASE a <= b
  <2>1. \A x \in {a, b} : (\A y \in {a, b} : x <= y) => x = a
    BY <1>1
  <2> QED
    BY <1>1, <2>1 DEF Min
<1>2. CASE ~ (a <= b)
  <2>1. \A x \in {a, b} : (\A y \in {a, b} : x <= y) => x = b
    BY <1>2, Zenon
  <2> QED
    BY <1>2, <2>1 DEF Min
<1> QED
  BY <1>1, <1>2, Zenon

LEMMA CooldownsBound ==
  ASSUME NEW n, NEW wait \in Cooldowns(n)
  PROVE  wait \in Int /\ wait <= MaxCooldown
BY Config DEF Cooldowns, Capped

-----------------------------------------------------------------------------
(* One entry.                                                               *)

(* An entry stays good as time passes.                                      *)
LEMMA TimePasses ==
  ASSUME NEW e, NEW s, NEW t \in Nat, EntryOK(e, s, t)
  PROVE  EntryOK(e, s, t + 1)
BY Config DEF EntryOK, OpenOK, HalfOK, Entry, Seen

(* loadEntry creates an entry.                                              *)
LEMMA CreatedOK ==
  ASSUME NEW t \in Nat, NEW now, Recent(now, t), NEW odd \in BOOLEAN
  PROVE  EntryOK([NewEntry(now) EXCEPT !.expireAt = now + TTL],
                 [NewSeen(odd, t) EXCEPT !.touched = t], t)
<1>1. now + TTL \in Int /\ now + TTL >= t + TTL - MaxLag
  BY Config DEF Recent
<1>2. 0 \in 0 .. TripFailures /\ 0 < TripFailures /\ Cost(0) = 0 /\ budget - Cost(0) = budget
  BY Config, Costs, BudgetType
<1>3. budget \in 1 - Failure .. budget
  BY Config, BudgetType
<1> DEFINE e == [NewEntry(now) EXCEPT !.expireAt = now + TTL]
           s == [NewSeen(odd, t) EXCEPT !.touched = t]
<1>4. e \in Entry /\ s \in Seen
  <2>1. now \in Int /\ Never \in Int /\ 0 \in Nat /\ 0 \in Int /\ t \in Int
    BY DEF Recent, Never
  <2>2. NewEntry(now) \in Entry
    BY <1>3, <2>1, Zenon DEF NewEntry, Entry
  <2>3. s = NewSeen(odd, t)
    BY DEF NewSeen
  <2>4. e \in Entry
    BY <1>1, <2>2, Zenon DEF Entry
  <2>5. s \in Seen
    BY <1>2, <2>1, <2>3, Zenon DEF NewSeen, Seen
  <2> QED
    BY <2>4, <2>5, Zenon
<1>5. /\ e.state = "closed" /\ e.credit = budget /\ e.closedSince = now /\ e.expireAt = now + TTL
      /\ s.touched = t /\ s.since = t /\ s.streak = 0 /\ s.fails = 0
  BY Zenon DEF NewEntry, NewSeen
<1> HIDE DEF e, s
<1>6. ClosedOK(e, s)
  BY <1>2, <1>5, Config, BudgetType DEF ClosedOK, Recent
<1>7. EntryOK(e, s, t)
  BY <1>1, <1>4, <1>5, <1>6, Config DEF EntryOK
<1> QED
  BY <1>7, Zenon DEF e, s

(* Every call that finds the entry extends its TTL.                         *)
LEMMA TouchedOK ==
  ASSUME NEW e, NEW s, NEW t \in Nat, NEW now, Recent(now, t), EntryOK(e, s, t)
  PROVE  /\ EntryOK([e EXCEPT !.expireAt = now + TTL], [s EXCEPT !.touched = t], t)
         /\ EntryOK([e EXCEPT !.expireAt = now + TTL], s, t)
<1> DEFINE f == [e EXCEPT !.expireAt = now + TTL]
           r == [s EXCEPT !.touched = t]
<1>1. e \in Entry /\ s \in Seen
  BY Zenon DEF EntryOK
<1>2. now + TTL \in Int /\ now + TTL >= t + TTL - MaxLag
  BY Config DEF Recent
<1>3. f \in Entry /\ r \in Seen
  BY <1>1, <1>2 DEF Entry, Seen
<1>4. /\ f.expireAt = now + TTL /\ f.state = e.state /\ f.credit = e.credit /\ f.closedSince = e.closedSince
      /\ f.openUntil = e.openUntil /\ f.outstanding = e.outstanding /\ f.probeUntil = e.probeUntil
      /\ f.n = e.n
  BY <1>1, Zenon DEF Entry
<1>5. /\ r.touched = t /\ r.since = s.since /\ r.wait = s.wait
      /\ r.streak = s.streak /\ r.fails = s.fails
  BY <1>1, Zenon DEF Seen
<1> HIDE DEF f, r
<1>7. EntryOK(f, r, t)
  BY <1>2, <1>3, <1>4, <1>5 DEF EntryOK, ClosedOK, OpenOK, HalfOK
<1>8. f.expireAt >= s.touched + TTL - MaxLag
  BY <1>1, <1>2, <1>4, Config DEF EntryOK, Seen, Recent
<1>9. EntryOK(f, s, t)
  BY <1>1, <1>3, <1>4, <1>8, Zenon DEF EntryOK, ClosedOK, OpenOK, HalfOK
<1> QED
  BY <1>7, <1>9, Zenon DEF f, r

(* resetNIfClosedLongEnough touches n alone, and only after MaxCooldown.    *)
LEMMA ResetFields ==
  ASSUME NEW e \in Entry, NEW now
  PROVE  LET f == ResetN(e, now) IN
         /\ f \in Entry
         /\ f.n # e.n => e.closedSince # Never /\ now >= e.closedSince + MaxCooldown
         /\ f.expireAt = e.expireAt /\ f.state = e.state /\ f.credit = e.credit
         /\ f.closedSince = e.closedSince /\ f.openUntil = e.openUntil
         /\ f.outstanding = e.outstanding /\ f.probeUntil = e.probeUntil
BY Zenon DEF ResetN, Entry

(* An admitted Allow on a CLOSED key.                                       *)
LEMMA AllowedClosedOK ==
  ASSUME NEW e, NEW s, NEW t \in Nat, NEW now, EntryOK(e, s, t), e.state = "closed"
  PROVE  EntryOK(Allowed(e, now), s, t)
<1> DEFINE f == ResetN(e, now)
<1>1. e \in Entry
  BY Zenon DEF EntryOK
<1>2. /\ f \in Entry /\ f.expireAt = e.expireAt /\ f.state = e.state /\ f.credit = e.credit
      /\ f.closedSince = e.closedSince
  BY <1>1, ResetFields, Zenon
<1>3. Allowed(e, now) = f
  BY Zenon DEF Allowed
<1> HIDE DEF f
<1>4. EntryOK(f, s, t)
  BY <1>2, Zenon DEF EntryOK, ClosedOK
<1> QED
  BY <1>3, <1>4, Zenon

(* An Allow that is the probe of a tripped key.                             *)
LEMMA AllowedProbeOK ==
  ASSUME NEW e, NEW s, NEW t \in Nat, NEW now, Recent(now, t), EntryOK(e, s, t), e.state # "closed"
  PROVE  EntryOK(Allowed(e, now), Probed(s, t), t)
<1> DEFINE f == [e EXCEPT !.state = "half", !.outstanding = TRUE, !.openUntil = Never,
                          !.probeUntil = now + BaseCooldown]
           r == [s EXCEPT !.since = t, !.wait = 0]
<1>1. e \in Entry /\ s \in Seen
  BY Zenon DEF EntryOK
<1>2. /\ Never \in Int /\ t \in Int /\ 0 \in Int /\ now + BaseCooldown \in Int
      /\ now + BaseCooldown <= t + BaseCooldown /\ now + BaseCooldown >= t + BaseCooldown - MaxLag
  BY Config DEF Never, Recent
<1>3. f \in Entry
  BY <1>1, <1>2, Zenon DEF Entry
<1>4. r \in Seen
  BY <1>1, <1>2, Zenon DEF Seen
<1>5. /\ f.state = "half" /\ f.probeUntil = now + BaseCooldown /\ f.outstanding = TRUE
      /\ f.credit = e.credit /\ f.expireAt = e.expireAt
  BY <1>1, Zenon DEF Entry
<1>6. r.since = t /\ r.touched = s.touched /\ r.fails = s.fails
  BY <1>1, Zenon DEF Seen
<1>7. Allowed(e, now) = f /\ Probed(s, t) = r
  BY Zenon DEF Allowed, Probed
<1> HIDE DEF f, r
<1>8. HalfOK(f, r, t)
  BY <1>2, <1>5, <1>6, Zenon DEF HalfOK
<1>9. EntryOK(f, r, t)
  BY <1>3, <1>4, <1>5, <1>6, <1>8, Zenon DEF EntryOK
<1> QED
  BY <1>7, <1>9, Zenon

-----------------------------------------------------------------------------
(* Report on one entry: e is the entry with its TTL extended.               *)

(* A success on a CLOSED key.                                               *)
LEMMA SuccessOK ==
  ASSUME NEW e, NEW s, NEW t \in Nat, EntryOK(e, s, t), e.state = "closed",
         NEW f, f = [e EXCEPT !.credit = Min({@ + Success, budget})],
         NEW r, r = [s EXCEPT !.fails = s.fails, !.streak = 0]
  PROVE  EntryOK(f, r, t)
<1>1. e \in Entry /\ s \in Seen /\ ClosedOK(e, s)
  BY Zenon DEF EntryOK
<1>2. e.credit \in Int /\ e.credit > 0 /\ e.credit <= budget
  BY <1>1, BudgetType, Config DEF Entry, ClosedOK
<1> DEFINE v == Min({e.credit + Success, budget})
<1>3. v \in Int /\ v > 0 /\ v <= budget /\ v >= e.credit
  BY <1>2, BudgetType, Config, MinOfTwo
<1>4. v \in 1 - Failure .. budget
  BY <1>3, BudgetType, Config
<1> HIDE DEF v
<1>5. f = [e EXCEPT !.credit = v]
  BY Zenon DEF v
<1>6. 0 \in 0 .. TripFailures /\ 0 < TripFailures /\ budget - Cost(0) = budget
  BY Config, Costs, BudgetType
<1>7. f \in Entry /\ r \in Seen
  <2>1. f \in Entry
    BY <1>1, <1>4, <1>5, Zenon DEF Entry
  <2>2. r \in Seen
    BY <1>1, <1>6, Zenon DEF Seen
  <2> QED
    BY <2>1, <2>2, Zenon
<1>8. /\ f.credit = v /\ f.state = "closed" /\ f.closedSince = e.closedSince /\ f.expireAt = e.expireAt
      /\ r.touched = s.touched /\ r.since = s.since /\ r.streak = 0 /\ r.fails = s.fails
  BY <1>1, <1>5, Zenon DEF Entry, Seen
<1>9. s.fails \in Nat /\ Cost(s.fails) \in Int
  BY <1>1, Costs, Config DEF Seen
<1>10. ClosedOK(f, r)
  BY <1>1, <1>2, <1>3, <1>6, <1>8, <1>9, BudgetType DEF ClosedOK
<1> QED
  BY <1>7, <1>8, <1>10, Zenon DEF EntryOK

(* What one more failure does to credit, failures and streak.               *)
LEMMA Charged ==
  ASSUME NEW e \in Entry, NEW s \in Seen, ClosedOK(e, s),
         NEW credit, credit = e.credit - Failure,
         NEW fails, fails = Min({s.fails + 1, TripFailures}),
         NEW streak, streak = Min({s.streak + 1, TripFailures})
  PROVE  /\ credit \in 1 - Failure .. budget
         /\ fails \in 0 .. TripFailures /\ streak \in 0 .. TripFailures
         /\ credit <= 0 => fails = TripFailures
         /\ credit > 0 => /\ streak < TripFailures /\ credit <= budget - Cost(streak)
                          /\ fails < TripFailures => credit >= budget - Cost(fails)
<1>1. /\ e.credit \in Int /\ e.credit > 0 /\ e.credit <= budget
      /\ s.fails \in Nat /\ s.fails <= TripFailures /\ s.streak \in Nat /\ s.streak < TripFailures
  BY BudgetType, Config DEF Entry, Seen, ClosedOK
<1>2. /\ Min({s.fails + 1, TripFailures}) = IF s.fails + 1 <= TripFailures THEN s.fails + 1 ELSE TripFailures
      /\ Min({s.streak + 1, TripFailures}) = s.streak + 1
  BY <1>1, Config, MinOfTwo
<1>3. /\ Cost(s.fails) \in Int /\ Cost(s.fails + 1) = Cost(s.fails) + Failure
      /\ s.fails + 1 < TripFailures => Cost(s.fails + 1) < budget
  BY <1>1, Costs
<1>4. /\ Cost(s.streak) \in Int /\ Cost(s.streak + 1) = Cost(s.streak) + Failure
      /\ s.streak + 1 >= TripFailures => Cost(s.streak + 1) >= budget
  BY <1>1, Costs
<1>5. /\ e.credit <= budget - Cost(s.streak)
      /\ s.fails < TripFailures => e.credit >= budget - Cost(s.fails)
  BY Zenon DEF ClosedOK
<1>6. credit \in 1 - Failure .. budget
  BY <1>1, BudgetType, Config
<1>7. credit <= budget - Cost(s.streak + 1)
  BY <1>1, <1>4, <1>5, BudgetType, Config
<1>8. s.fails < TripFailures => credit >= budget - Cost(s.fails + 1)
  BY <1>1, <1>3, <1>5, BudgetType, Config
<1>9. credit > 0 => s.streak + 1 < TripFailures
  BY <1>1, <1>4, <1>7, BudgetType, Config
<1>10. credit <= 0 => s.fails + 1 >= TripFailures
  BY <1>1, <1>3, <1>8, BudgetType, Config
<1> QED
  BY <1>1, <1>2, <1>6, <1>7, <1>8, <1>9, <1>10, Config

(* A failure that leaves the key CLOSED.                                    *)
LEMMA FailureOK ==
  ASSUME NEW e, NEW s, NEW t \in Nat, NEW now, EntryOK(e, s, t), e.state = "closed",
         e.credit - Failure > 0,
         NEW f, f = [ResetN(e, now) EXCEPT !.credit = @ - Failure],
         NEW r, r = [s EXCEPT !.fails = Min({s.fails + 1, TripFailures}),
                              !.streak = Min({s.streak + 1, TripFailures})]
  PROVE  EntryOK(f, r, t)
<1> PICK fails, streak, credit :
         fails = Min({s.fails + 1, TripFailures}) /\ streak = Min({s.streak + 1, TripFailures})
         /\ credit = e.credit - Failure
  BY Zenon
<1> DEFINE d == ResetN(e, now)
<1>1. e \in Entry /\ s \in Seen /\ ClosedOK(e, s)
  BY Zenon DEF EntryOK
<1>2. /\ credit \in 1 - Failure .. budget /\ fails \in 0 .. TripFailures /\ streak \in 0 .. TripFailures
      /\ streak < TripFailures /\ credit <= budget - Cost(streak)
      /\ fails < TripFailures => credit >= budget - Cost(fails)
  BY <1>1, Charged
<1>3. /\ d \in Entry /\ d.state = e.state /\ d.credit = e.credit /\ d.closedSince = e.closedSince
      /\ d.expireAt = e.expireAt
  BY <1>1, ResetFields
<1>4. f = [d EXCEPT !.credit = credit] /\ r = [s EXCEPT !.fails = fails, !.streak = streak]
  BY <1>3, Zenon DEF Entry
<1> HIDE DEF d
<1>5. f \in Entry /\ r \in Seen
  <2>1. f \in Entry
    BY <1>2, <1>3, <1>4, Zenon DEF Entry
  <2>2. r \in Seen
    BY <1>1, <1>2, <1>4, Zenon DEF Seen
  <2> QED
    BY <2>1, <2>2, Zenon
<1>6. /\ f.credit = credit /\ f.state = "closed" /\ f.closedSince = e.closedSince /\ f.expireAt = e.expireAt
      /\ r.touched = s.touched /\ r.since = s.since /\ r.streak = streak /\ r.fails = fails
  BY <1>1, <1>3, <1>4, Zenon DEF Entry, Seen
<1>7. credit > 0
  BY Zenon
<1>8. ClosedOK(f, r)
  BY <1>1, <1>2, <1>6, <1>7, Zenon DEF ClosedOK
<1> QED
  BY <1>5, <1>6, <1>8, Zenon DEF EntryOK

(* The failure that trips the key.                                          *)
LEMMA TripOK ==
  ASSUME NEW e, NEW s, NEW t \in Nat, NEW now, Recent(now, t), EntryOK(e, s, t), e.state = "closed",
         e.credit - Failure <= 0, NEW wait \in Int, wait <= MaxCooldown,
         NEW f,
         f = Opened([[ResetN(e, now) EXCEPT !.credit = @ - Failure] EXCEPT !.closedSince = Never], now, wait),
         NEW r, r = [s EXCEPT !.fails = Min({s.fails + 1, TripFailures}), !.streak = 0,
                              !.since = t, !.wait = wait]
  PROVE  EntryOK(f, r, t)
<1> PICK fails, streak, credit :
         fails = Min({s.fails + 1, TripFailures}) /\ streak = Min({s.streak + 1, TripFailures})
         /\ credit = e.credit - Failure
  BY Zenon
<1> DEFINE d == ResetN(e, now)
<1>1. e \in Entry /\ s \in Seen /\ ClosedOK(e, s)
  BY Zenon DEF EntryOK
<1>2. credit \in 1 - Failure .. budget /\ credit <= 0 /\ fails \in 0 .. TripFailures /\ fails = TripFailures
  BY <1>1, Charged
<1>3. d \in Entry /\ d.credit = e.credit /\ d.expireAt = e.expireAt
  BY <1>1, ResetFields, Zenon
<1>4. /\ f = [d EXCEPT !.credit = credit, !.closedSince = Never, !.state = "open", !.openUntil = now + wait]
      /\ r = [s EXCEPT !.fails = fails, !.streak = 0, !.since = t, !.wait = wait]
  BY <1>3, Zenon DEF Entry, Opened
<1> HIDE DEF d
<1>5. /\ now + wait \in Int /\ Never \in Int /\ t \in Int /\ 0 \in 0 .. TripFailures
      /\ now + wait <= t + MaxCooldown /\ now + wait >= t + wait - MaxLag
  BY Config DEF Recent, Never
<1>6. f \in Entry /\ r \in Seen
  <2>1. f \in Entry
    BY <1>2, <1>3, <1>4, <1>5, ZenonT(30) DEF Entry
  <2>2. r \in Seen
    BY <1>1, <1>2, <1>4, <1>5, ZenonT(30) DEF Seen
  <2> QED
    BY <2>1, <2>2, Zenon
<1>7. /\ f.credit = credit /\ f.state = "open" /\ f.openUntil = now + wait /\ f.expireAt = e.expireAt
      /\ r.touched = s.touched /\ r.since = t /\ r.wait = wait /\ r.fails = fails
  <2>1. /\ f.credit = credit /\ f.state = "open"
        /\ f.openUntil = now + wait /\ f.expireAt = e.expireAt
    BY <1>3, <1>4, Zenon DEF Entry
  <2>2. r.touched = s.touched /\ r.since = t
    BY <1>1, <1>4, Zenon DEF Seen
  <2>3. r.wait = wait /\ r.fails = fails
    BY <1>1, <1>4, Zenon DEF Seen
  <2> QED
    BY <2>1, <2>2, <2>3, Zenon
<1>8. OpenOK(f, r, t)
  BY <1>5, <1>7, Zenon DEF OpenOK
<1> QED
  BY <1>2, <1>6, <1>7, <1>8, Zenon DEF EntryOK

(* The probe succeeded: the key is CLOSED with a full budget.               *)
LEMMA ProbeSuccessOK ==
  ASSUME NEW e, NEW s, NEW t \in Nat, NEW now, Recent(now, t), EntryOK(e, s, t), e.expireAt = now + TTL,
         NEW f, f = [[e EXCEPT !.outstanding = FALSE, !.probeUntil = Never]
                       EXCEPT !.credit = budget, !.state = "closed", !.closedSince = now],
         NEW r, r = NewSeen(s.odd, t)
  PROVE  EntryOK(f, r, t)
<1>1. e \in Entry /\ s \in Seen
  BY Zenon DEF EntryOK
<1>2. f = [e EXCEPT !.outstanding = FALSE, !.probeUntil = Never,
                    !.credit = budget, !.state = "closed", !.closedSince = now]
  BY <1>1, Zenon DEF Entry
<1>3. 0 \in 0 .. TripFailures /\ 0 < TripFailures /\ budget - Cost(0) = budget
  BY Config, Costs, BudgetType
<1>4. budget \in 1 - Failure .. budget /\ budget > 0 /\ now \in Int /\ Never \in Int /\ 0 \in Int /\ t \in Int
  BY Config, BudgetType DEF Recent, Never
<1>5. f \in Entry
  BY <1>1, <1>2, <1>4, ZenonT(30) DEF Entry
<1>6. r \in Seen
  BY <1>1, <1>3, <1>4, Zenon DEF Seen, NewSeen
<1>7. f.credit = budget /\ f.state = "closed" /\ f.closedSince = now /\ f.expireAt = now + TTL
  BY <1>1, <1>2, Zenon DEF Entry
<1>8. r.touched = t /\ r.since = t /\ r.streak = 0 /\ r.fails = 0
  BY Zenon DEF NewSeen
<1>9. now + TTL >= t + TTL - MaxLag /\ now >= t - MaxLag
  BY Config DEF Recent
<1>10. ClosedOK(f, r)
  BY <1>3, <1>4, <1>7, <1>8, <1>9 DEF ClosedOK
<1> QED
  BY <1>5, <1>6, <1>7, <1>8, <1>9, <1>10 DEF EntryOK

(* The probe failed: the key is OPEN again, with the next exponent.         *)
LEMMA ProbeFailureOK ==
  ASSUME NEW e, NEW s, NEW t \in Nat, NEW now, Recent(now, t), EntryOK(e, s, t), e.state = "half",
         NEW wait \in Int, wait <= MaxCooldown,
         NEW f,
         f = Opened([[e EXCEPT !.outstanding = FALSE, !.probeUntil = Never] EXCEPT !.n = @ + 1], now, wait),
         NEW r, r = [s EXCEPT !.fails = s.fails, !.streak = 0, !.since = t, !.wait = wait]
  PROVE  EntryOK(f, r, t)
<1>1. e \in Entry /\ s \in Seen
  BY Zenon DEF EntryOK
<1>2. f = [e EXCEPT !.outstanding = FALSE, !.probeUntil = Never, !.n = e.n + 1,
                    !.state = "open", !.openUntil = now + wait]
  BY <1>1, Zenon DEF Entry, Opened
<1>3. /\ now + wait \in Int /\ Never \in Int /\ t \in Int /\ 0 \in 0 .. TripFailures
      /\ now + wait <= t + MaxCooldown /\ now + wait >= t + wait - MaxLag
  BY Config DEF Recent, Never
<1>4. e.n + 1 \in Nat
  BY <1>1 DEF Entry
<1>5. f \in Entry
  BY <1>1, <1>2, <1>3, <1>4, Zenon DEF Entry
<1>6. r \in Seen
  BY <1>1, <1>3, Zenon DEF Seen
<1>7. f.credit = e.credit /\ f.state = "open" /\ f.openUntil = now + wait /\ f.expireAt = e.expireAt
  BY <1>1, <1>2, ZenonT(30) DEF Entry
<1>8. r.touched = s.touched /\ r.since = t /\ r.wait = wait /\ r.fails = s.fails
  BY <1>1, Zenon DEF Seen
<1>9. OpenOK(f, r, t)
  BY <1>3, <1>7, <1>8, Zenon DEF OpenOK
<1> QED
  BY <1>5, <1>6, <1>7, <1>8, <1>9, Zenon DEF EntryOK

(* The entry after a Report on e, and what is then known of its key.        *)
Ignored(e) == e.state = "open" \/ (e.state = "half" /\ ~e.outstanding)

Reported(e, success, now, wait) ==
  IF Ignored(e) THEN e
  ELSE IF e.state = "half" THEN ReportProbe(e, success, now, wait)
  ELSE ReportClosed(e, success, now, wait)

Noted(s, e, f, success, wait) == IF Ignored(e) THEN s ELSE Observed(s, e, f, success, wait)

(* What a Report at now makes of e and s.                                   *)
LeavesOK(e, s, f, o, now, t) ==
  /\ EntryOK(f, o, t)
  /\ f.expireAt = now + TTL
  /\ o.odd = s.odd
  /\ f.n < e.n => e.state = "closed" /\ f.n = ResetN(e, now).n

LEMMA ReportedOK ==
  ASSUME clock \in Nat, NEW e, NEW s, NEW now, Recent(now, clock), EntryOK(e, s, clock),
         e.expireAt = now + TTL, NEW success \in BOOLEAN, NEW wait \in Int, wait <= MaxCooldown,
         NEW f, f = Reported(e, success, now, wait),
         NEW o, o = Noted(s, e, f, success, wait)
  PROVE  LeavesOK(e, s, f, o, now, clock)
<1>1. e \in Entry /\ s \in Seen
  BY Zenon DEF EntryOK
<1>2. e.n \in Nat /\ e.credit \in Int
  BY <1>1, BudgetType, Config DEF Entry
<1>3. CASE Ignored(e)
  <2>1. f = e /\ o = s
    BY <1>3, Zenon DEF Reported, Noted
  <2> QED
    BY <1>2, <2>1 DEF LeavesOK
<1>4. CASE ~Ignored(e) /\ e.state = "closed" /\ success
  <2>1. f = [e EXCEPT !.credit = Min({@ + Success, budget})]
    BY <1>4, Zenon DEF Reported, ReportClosed
  <2>2. f.state = "closed" /\ f.n = e.n /\ f.expireAt = e.expireAt
    BY <1>1, <1>4, <2>1, Zenon DEF Entry
  <2>3. o = [s EXCEPT !.fails = s.fails, !.streak = 0]
    BY <1>4, <2>2, Zenon DEF Noted, Observed
  <2>4. o.odd = s.odd
    BY <1>1, <2>3, Zenon DEF Seen
  <2>5. EntryOK(f, o, clock)
    BY <1>4, <2>1, <2>3, SuccessOK, Zenon
  <2> QED
    BY <1>2, <2>2, <2>4, <2>5 DEF LeavesOK
<1>5. CASE ~Ignored(e) /\ e.state = "closed" /\ ~success
  <2> DEFINE d == ResetN(e, now)
             g == [d EXCEPT !.credit = @ - Failure]
  <2>1. d \in Entry /\ d.credit = e.credit /\ d.expireAt = e.expireAt /\ d.state = e.state
    BY <1>1, ResetFields, Zenon
  <2>2. /\ g.credit = e.credit - Failure /\ g.state = "closed" /\ g.expireAt = e.expireAt /\ g.n = d.n
    BY <1>5, <2>1, Zenon DEF Entry
  <2>3. f = IF g.credit <= 0 THEN Opened([g EXCEPT !.closedSince = Never], now, wait) ELSE g
    BY <1>5, Zenon DEF Reported, ReportClosed, Trips
  <2>4. CASE g.credit <= 0
    <3>1. f = Opened([g EXCEPT !.closedSince = Never], now, wait)
      BY <2>3, <2>4, Zenon
    <3>2. f.state = "open" /\ f.expireAt = e.expireAt /\ f.n = d.n
      BY <2>1, <2>2, <3>1, Zenon DEF Opened, Entry
    <3>3. o = [s EXCEPT !.fails = Min({s.fails + 1, TripFailures}), !.streak = 0,
                        !.since = clock, !.wait = wait]
      BY <1>5, <3>2, Zenon DEF Noted, Observed
    <3>4. o.odd = s.odd
      BY <1>1, <3>3, Zenon DEF Seen
    <3>5. e.credit - Failure <= 0
      BY <2>2, <2>4, Zenon
    <3>6. EntryOK(f, o, clock)
      <4>1. EntryOK(Opened([g EXCEPT !.closedSince = Never], now, wait),
                    [s EXCEPT !.fails = Min({s.fails + 1, TripFailures}), !.streak = 0,
                              !.since = clock, !.wait = wait], clock)
        BY <1>5, <3>5, TripOK, Zenon
      <4> QED
        BY <3>1, <3>3, <4>1, Zenon
    <3> QED
      BY <1>5, <3>2, <3>4, <3>6, Zenon DEF LeavesOK
  <2>5. CASE ~ (g.credit <= 0)
    <3>1. f = g
      BY <2>3, <2>5, Zenon
    <3>2. f.state = "closed" /\ f.expireAt = e.expireAt /\ f.n = d.n
      BY <2>2, <3>1, Zenon
    <3>3. o = [s EXCEPT !.fails = Min({s.fails + 1, TripFailures}),
                        !.streak = Min({s.streak + 1, TripFailures})]
      BY <1>5, <3>2, Zenon DEF Noted, Observed
    <3>4. o.odd = s.odd
      BY <1>1, <3>3, Zenon DEF Seen
    <3>5. e.credit - Failure > 0
      BY <1>2, <2>2, <2>5, Config
    <3>6. EntryOK(f, o, clock)
      BY <1>5, <3>1, <3>3, <3>5, FailureOK, Zenon
    <3> QED
      BY <1>5, <3>2, <3>4, <3>6, Zenon DEF LeavesOK
  <2> QED
    BY <2>4, <2>5, Zenon
<1>6. CASE ~Ignored(e) /\ e.state = "half" /\ success
  <2>1. f = [[e EXCEPT !.outstanding = FALSE, !.probeUntil = Never]
               EXCEPT !.credit = budget, !.state = "closed", !.closedSince = now]
    BY <1>6, Zenon DEF Reported, ReportProbe
  <2>2. f.state = "closed" /\ f.n = e.n /\ f.expireAt = e.expireAt
    BY <1>1, <2>1, Zenon DEF Entry
  <2>3. o = NewSeen(s.odd, clock)
    BY <1>6, <2>2, Zenon DEF Noted, Observed
  <2>4. o.odd = s.odd
    BY <2>3 DEF NewSeen
  <2>5. EntryOK(f, o, clock)
    BY <2>1, <2>3, ProbeSuccessOK, Zenon
  <2> QED
    BY <1>2, <2>2, <2>4, <2>5 DEF LeavesOK
<1>7. CASE ~Ignored(e) /\ e.state = "half" /\ ~success
  <2>1. f = Opened([[e EXCEPT !.outstanding = FALSE, !.probeUntil = Never] EXCEPT !.n = @ + 1], now, wait)
    BY <1>7, Zenon DEF Reported, ReportProbe
  <2>2. f.state = "open" /\ f.n = e.n + 1 /\ f.expireAt = e.expireAt
    BY <1>1, <2>1, Zenon DEF Entry, Opened
  <2>3. o = [s EXCEPT !.fails = s.fails, !.streak = 0, !.since = clock, !.wait = wait]
    BY <1>7, <2>2, Zenon DEF Noted, Observed
  <2>4. o.odd = s.odd
    BY <1>1, <2>3, Zenon DEF Seen
  <2>5. EntryOK(f, o, clock)
    <3>1. EntryOK(Opened([[e EXCEPT !.outstanding = FALSE, !.probeUntil = Never] EXCEPT !.n = @ + 1], now, wait),
                  [s EXCEPT !.fails = s.fails, !.streak = 0, !.since = clock, !.wait = wait], clock)
      BY <1>7, ProbeFailureOK, Zenon
    <3> QED
      BY <2>1, <2>3, <3>1, Zenon
  <2> QED
    BY <1>2, <2>2, <2>4, <2>5 DEF LeavesOK
<1> QED
  BY <1>1, <1>3, <1>4, <1>5, <1>6, <1>7, Zenon DEF Ignored, Entry

-----------------------------------------------------------------------------
(* The steps.                                                               *)

LEMMA TypesOfInv == IndInv => TypeOK
BY Zenon DEF IndInv, TypeOK

(* A step of one caller.                                                    *)
LEMMA CallerMoves ==
  ASSUME IndInv, NEW c \in Callers, NEW r, CallerOK(r, clock),
         caller' = [caller EXCEPT ![c] = r], clock' = clock
  PROVE  caller' \in [Callers -> Caller] /\ \A b \in Callers : CallerOK(caller'[b], clock')
<1>1. caller \in [Callers -> Caller] /\ \A b \in Callers : CallerOK(caller[b], clock)
  BY Zenon DEF IndInv
<1>2. r \in Caller
  BY Zenon DEF CallerOK
<1>3. caller' \in [Callers -> Caller]
  BY <1>1, <1>2, Zenon
<1>4. ASSUME NEW b \in Callers PROVE CallerOK(caller'[b], clock')
  <2>1. CASE b = c
    BY <1>1, <2>1, Zenon
  <2>2. CASE b # c
    BY <1>1, <2>2, Zenon
  <2> QED
    BY <2>1, <2>2, Zenon
<1> QED
  BY <1>3, <1>4, Zenon

LEMMA Returned ==
  ASSUME NEW t
  PROVE  CallerOK([pc |-> "idle", key |-> None, now |-> 0], t)
BY DEF CallerOK, Caller

(* A caller goes on with its key.                                           *)
LEMMA SameKey ==
  ASSUME NEW r, NEW t, CallerOK(r, t), r.pc # "idle", NEW now \in Int,
         NEW pc \in {"attempt", "report"}, pc = "report" => Recent(now, t)
  PROVE  CallerOK([r EXCEPT !.pc = pc, !.now = now], t)
<1> DEFINE q == [r EXCEPT !.pc = pc, !.now = now]
<1>1. r \in Caller /\ r.key \in Keys
  BY Zenon DEF CallerOK
<1>2. q.pc = pc /\ q.now = now /\ q.key = r.key
  BY <1>1, Zenon DEF Caller
<1>3. q \in Caller
  BY <1>1, Zenon DEF Caller
<1> HIDE DEF q
<1>4. CallerOK(q, t)
  BY <1>1, <1>2, <1>3, Zenon DEF CallerOK
<1> QED
  BY <1>4, Zenon DEF q

(* Nothing but the callers and closed changes.                              *)
LEMMA MapKept ==
  ASSUME IndInv, UNCHANGED <<entry, seen>>, clock' = clock
  PROVE  /\ entry' \in [Keys -> Entry \cup {None}] /\ seen' \in [Keys -> Seen]
         /\ \A k \in Stored' : EntryOK(entry'[k], seen'[k], clock')
         /\ IsFiniteSet(Stored)' /\ (Cardinality(Stored) <= MaxKeys)'
<1>1. Stored' = Stored
  BY Zenon DEF Stored
<1> QED
  BY <1>1, Zenon DEF IndInv

LEMMA ReadClockStep ==
  ASSUME IndInv, NEW c \in Callers, ReadClock(c)
  PROVE  IndInv'
<1>0. clock \in Nat /\ Recent(clock, clock)
  BY Config DEF IndInv, Recent
<1>1. CallerOK(caller[c], clock) /\ caller[c] \in Caller
  BY Zenon DEF IndInv
<1>2. \E r : CallerOK(r, clock) /\ caller' = [caller EXCEPT ![c] = r]
  <2>1. CASE caller[c].pc = "idle"
    <3>1. PICK k \in Keys : caller' = [caller EXCEPT ![c] = [pc |-> "allow", key |-> k, now |-> clock]]
      BY <2>1, Zenon DEF ReadClock
    <3>2. CallerOK([pc |-> "allow", key |-> k, now |-> clock], clock)
      BY <1>0 DEF CallerOK, Caller, Recent
    <3> QED
      BY <3>1, <3>2, Zenon
  <2>2. CASE caller[c].pc = "attempt"
    <3>1. caller' = [caller EXCEPT ![c] = [caller[c] EXCEPT !.pc = "report", !.now = clock]]
      BY <2>2, Zenon DEF ReadClock, IndInv, Caller
    <3>2. CallerOK([caller[c] EXCEPT !.pc = "report", !.now = clock], clock)
      <4>1. clock \in Int /\ caller[c].pc # "idle" /\ "report" \in {"attempt", "report"}
        BY <1>0, <2>2
      <4> QED
        BY <1>0, <1>1, <4>1, SameKey, Zenon
    <3> QED
      BY <3>1, <3>2, Zenon
  <2> QED
    BY <2>1, <2>2, Zenon DEF ReadClock
<1>3. UNCHANGED <<clock, closed, entry, seen>>
  BY Zenon DEF ReadClock
<1>4. caller' \in [Callers -> Caller] /\ \A b \in Callers : CallerOK(caller'[b], clock')
  BY <1>2, <1>3, CallerMoves, Zenon
<1> QED
  BY <1>3, <1>4, MapKept, Zenon DEF IndInv

LEMMA RefusedStep ==
  ASSUME IndInv, NEW c \in Callers, Refused(c)
  PROVE  IndInv'
<1>1. UNCHANGED <<clock, closed, entry, seen>> /\ caller' = Return(c)
  BY Zenon DEF Refused
<1>2. caller' \in [Callers -> Caller] /\ \A b \in Callers : CallerOK(caller'[b], clock')
  BY <1>1, CallerMoves, Returned, Zenon DEF Return
<1> QED
  BY <1>1, <1>2, MapKept, Zenon DEF IndInv

LEMMA TickStep ==
  ASSUME IndInv, Tick
  PROVE  IndInv'
<1>1. clock' = clock + 1 /\ clock' \in 0 .. MaxClock /\ clock \in Nat
  BY Config DEF IndInv, Tick
<1>2. UNCHANGED <<closed, entry, caller, seen>> /\ Stored' = Stored
  BY Zenon DEF Tick, Stored
<1>3. ASSUME NEW b \in Callers PROVE CallerOK(caller'[b], clock')
  <2>1. CallerOK(caller[b], clock) /\ caller'[b] = caller[b]
    BY <1>2, Zenon DEF IndInv
  <2>2. caller[b].pc \in {"allow", "report"} => clock - caller[b].now < MaxLag
    BY Zenon DEF Tick, Waiting
  <2> QED
    BY <1>1, <2>1, <2>2, Config DEF CallerOK, Caller, Recent
<1>4. ASSUME NEW k \in Stored' PROVE EntryOK(entry'[k], seen'[k], clock')
  <2>1. EntryOK(entry[k], seen[k], clock)
    BY <1>2, Zenon DEF IndInv
  <2> QED
    BY <1>1, <1>2, <2>1, TimePasses, Zenon
<1> QED
  BY <1>1, <1>2, <1>3, <1>4, Zenon DEF IndInv

INSTANCE FiniteSetTheorems

LEMMA CloseStep ==
  ASSUME IndInv, Close
  PROVE  IndInv'
<1>1. UNCHANGED <<clock, caller>> /\ closed' = TRUE /\ Stored' = {}
  BY Zenon DEF Close, Stored
<1>2. Unseen \in Seen
  BY Config DEF Unseen, NewSeen, Seen, Never
<1>3. entry' \in [Keys -> Entry \cup {None}] /\ seen' \in [Keys -> Seen]
  BY <1>2, Zenon DEF Close
<1>4. IsFiniteSet({}) /\ Cardinality({}) <= MaxKeys
  BY FS_EmptySet, Config
<1> QED
  BY <1>1, <1>3, <1>4, Zenon DEF IndInv

(* What a Report on a stored key leaves.                                    *)
LEMMA ReportEffect ==
  ASSUME IndInv, NEW c \in Callers, Report(c)
  PROVE  \/ UNCHANGED <<entry, seen>>
         \/ \E k, f, o :
              /\ k \in Keys /\ entry[k] # None /\ EntryOK(f, o, clock) /\ o.odd = seen[k].odd
              /\ entry' = [entry EXCEPT ![k] = f] /\ seen' = [seen EXCEPT ![k] = o]
              /\ f.n < entry[k].n =>
                   entry[k].state = "closed" /\ clock >= seen[k].since + MaxCooldown - MaxLag
<1> DEFINE k == caller[c].key
           now == caller[c].now
           e == [entry[k] EXCEPT !.expireAt = now + TTL]
<1>1. clock \in Nat /\ k \in Keys /\ Recent(now, clock)
  <2>1. CallerOK(caller[c], clock) /\ caller[c].pc = "report"
    BY Zenon DEF IndInv, Report
  <2> QED
    BY <2>1, Config DEF IndInv, CallerOK
<1>2. CASE entry[k] = None
  BY <1>2, Zenon DEF Report
<1>3. CASE entry[k] # None
  <2>1. PICK success \in BOOLEAN, wait \in Cooldowns(Exponent(e, now)) :
          /\ entry' = [entry EXCEPT ![k] = Reported(e, success, now, wait)]
          /\ seen' = [seen EXCEPT ![k] =
               [Noted(seen[k], e, Reported(e, success, now, wait), success, wait) EXCEPT !.touched = clock]]
    BY <1>3, Zenon DEF Report, Reported, Noted, Ignored
  <2>f. PICK f : f = Reported(e, success, now, wait)
    BY Zenon
  <2>o. PICK o : o = Noted(seen[k], e, f, success, wait)
    BY Zenon
  <2> DEFINE r == [o EXCEPT !.touched = clock]
  <2>2. EntryOK(entry[k], seen[k], clock)
    BY <1>1, <1>3, Zenon DEF IndInv, Stored
  <2>3. EntryOK(e, seen[k], clock)
    BY <1>1, <2>2, TouchedOK, Zenon
  <2>4. entry[k] \in Entry /\ seen[k] \in Seen
    BY <2>2, Zenon DEF EntryOK
  <2>5. /\ e \in Entry /\ e.expireAt = now + TTL /\ e.n = entry[k].n /\ e.state = entry[k].state
        /\ e.closedSince = entry[k].closedSince
    BY <2>3, <2>4, Zenon DEF Entry, EntryOK
  <2>6. wait \in Int /\ wait <= MaxCooldown
    BY CooldownsBound, Zenon
  <2> HIDE DEF k, now, e
  <2>7. /\ EntryOK(f, o, clock) /\ f.expireAt = now + TTL /\ o.odd = seen[k].odd
        /\ f.n < e.n => e.state = "closed" /\ f.n = ResetN(e, now).n
    <3>1. LeavesOK(e, seen[k], f, o, now, clock)
      BY <1>1, <2>3, <2>5, <2>6, <2>f, <2>o, ReportedOK, Zenon
    <3> QED
      BY <3>1, Zenon DEF LeavesOK
  <2>8. f \in Entry /\ o \in Seen
    BY <2>7, Zenon DEF EntryOK
  <2>9. [f EXCEPT !.expireAt = now + TTL] = f /\ r.odd = o.odd
    BY <2>7, <2>8 DEF Entry, Seen
  <2>10. EntryOK(f, r, clock)
    <3>1. EntryOK([f EXCEPT !.expireAt = now + TTL], r, clock)
      BY <1>1, <2>7, TouchedOK, Zenon
    <3> QED
      BY <2>9, <3>1, Zenon
  <2>11. f.n < entry[k].n => entry[k].state = "closed" /\ clock >= seen[k].since + MaxCooldown - MaxLag
    <3> SUFFICES ASSUME f.n < e.n
                 PROVE  e.state = "closed" /\ clock >= seen[k].since + MaxCooldown - MaxLag
      BY <2>5, Zenon
    <3>1. e.state = "closed" /\ ResetN(e, now).n # e.n
      BY <2>5, <2>7, <2>8 DEF Entry
    <3>2. now >= e.closedSince + MaxCooldown
      BY <2>5, <3>1, ResetFields, Zenon
    <3>3. e.closedSince >= seen[k].since - MaxLag
      BY <2>3, <3>1, Zenon DEF EntryOK, ClosedOK
    <3>4. e.closedSince \in Int /\ seen[k].since \in Int
      BY <2>4, <2>5, Zenon DEF Entry, Seen
    <3> QED
      BY <1>1, <3>1, <3>2, <3>3, <3>4, Config DEF Recent
  <2>12. entry' = [entry EXCEPT ![k] = f] /\ seen' = [seen EXCEPT ![k] = r]
    BY <2>1, <2>f, <2>o, Zenon
  <2> QED
    BY <1>1, <1>3, <2>7, <2>9, <2>10, <2>11, <2>12, Zenon
<1> QED
  BY <1>2, <1>3, Zenon

LEMMA ReportStep ==
  ASSUME IndInv, NEW c \in Callers, Report(c)
  PROVE  IndInv'
<1>1. clock' = clock /\ closed' = closed /\ caller' = Return(c) /\ caller[c].pc = "report"
  BY Zenon DEF Report
<1>2. caller' \in [Callers -> Caller] /\ \A b \in Callers : CallerOK(caller'[b], clock')
  BY <1>1, CallerMoves, Returned, Zenon DEF Return
<1>3. CASE UNCHANGED <<entry, seen>>
  BY <1>1, <1>2, <1>3, MapKept, Zenon DEF IndInv
<1>4. ASSUME NEW k \in Keys, NEW f, NEW o, EntryOK(f, o, clock), entry[k] # None,
             entry' = [entry EXCEPT ![k] = f], seen' = [seen EXCEPT ![k] = o]
      PROVE  IndInv'
  <2>1. entry \in [Keys -> Entry \cup {None}] /\ seen \in [Keys -> Seen]
    BY Zenon DEF IndInv
  <2>2. f \in Entry /\ o \in Seen
    BY <1>4, Zenon DEF EntryOK
  <2>3. entry' \in [Keys -> Entry \cup {None}] /\ seen' \in [Keys -> Seen]
    BY <1>4, <2>1, <2>2, Zenon
  <2>4. Stored' = Stored
    BY <1>4, <2>1, <2>2, NoneAssumption, Zenon DEF Stored
  <2>5. ASSUME NEW j \in Stored' PROVE EntryOK(entry'[j], seen'[j], clock')
    <3>1. j \in Keys /\ j \in Stored
      BY <2>4, Zenon DEF Stored
    <3>2. CASE j = k
      BY <1>1, <1>4, <2>1, <3>1, <3>2, Zenon
    <3>3. CASE j # k
      <4>1. entry'[j] = entry[j] /\ seen'[j] = seen[j]
        BY <1>4, <2>1, <3>1, <3>3, Zenon
      <4> QED
        BY <1>1, <3>1, <4>1, Zenon DEF IndInv
    <3> QED
      BY <3>2, <3>3, Zenon
  <2> QED
    BY <1>1, <1>2, <2>3, <2>4, <2>5, Zenon DEF IndInv
<1> QED
  BY <1>3, <1>4, ReportEffect, Zenon

(* The map after loadEntry stored k: the keys in gone are dropped.          *)
Loaded(k, gone, f, o) ==
  /\ entry' = [j \in Keys |-> IF j = k THEN f ELSE IF j \in gone THEN None ELSE entry[j]]
  /\ seen' = [j \in Keys |-> IF j = k THEN o ELSE IF j \in gone THEN Unseen ELSE seen[j]]

(* Allow on an entry that is found.                                         *)
FoundOK(k, now, gone, f, o) ==
  /\ k \in Stored /\ gone = {}
  /\ o.odd = seen[k].odd
  /\ f.n < entry[k].n => entry[k].state = "closed" /\ clock >= seen[k].since + MaxCooldown - MaxLag

(* Allow on a key that is not in the map, or is there expired.              *)
StoresOK(k, now, gone, f, o) ==
  /\ k \notin Stored \ Expired(now)
  /\ gone \in Dropped(k, now)
  /\ o.odd = ~seen[k].odd

(* The decision and its effect on the entry, found or created.              *)
LEMMA DecidedOK ==
  ASSUME clock \in Nat, NEW e, NEW s, NEW now, Recent(now, clock), EntryOK(e, s, clock),
         NEW f, f = IF Admits(e, now) THEN Allowed(e, now) ELSE e,
         NEW o, o = IF e.state # "closed" /\ Admits(e, now) THEN Probed(s, clock) ELSE s
  PROVE  /\ EntryOK(f, o, clock) /\ o.odd = s.odd
         /\ f.n < e.n => e.state = "closed" /\ clock >= s.since + MaxCooldown - MaxLag
<1>1. e \in Entry /\ s \in Seen
  BY Zenon DEF EntryOK
<1>2. EntryOK(f, o, clock)
  <2>1. CASE Admits(e, now) /\ e.state = "closed"
    BY <2>1, AllowedClosedOK, Zenon
  <2>2. CASE Admits(e, now) /\ e.state # "closed"
    BY <2>2, AllowedProbeOK, Zenon
  <2>3. CASE ~Admits(e, now)
    BY <2>3, Zenon
  <2> QED
    BY <2>1, <2>2, <2>3, Zenon
<1>3. o.odd = s.odd
  BY <1>1, Zenon DEF Probed, Seen
<1>4. ASSUME f.n < e.n PROVE e.state = "closed" /\ clock >= s.since + MaxCooldown - MaxLag
  <2>1. e.n \in Nat /\ e.closedSince \in Int /\ s.since \in Int
    BY <1>1, Zenon DEF Entry, Seen
  <2>2. Admits(e, now)
    BY <1>4, <2>1
  <2>3. e.state = "closed"
    <3> SUFFICES ASSUME e.state # "closed" PROVE FALSE
      BY Zenon
    <3>1. f.n = e.n
      BY <1>1, <2>2, Zenon DEF Allowed, Entry
    <3> QED
      BY <1>4, <2>1, <3>1
  <2>4. f = ResetN(e, now)
    BY <2>2, <2>3, Zenon DEF Allowed
  <2>5. ResetN(e, now).n # e.n
    BY <1>4, <2>1, <2>4
  <2>6. now >= e.closedSince + MaxCooldown
    BY <1>1, <2>5, ResetFields, Zenon
  <2>7. e.closedSince >= s.since - MaxLag
    BY <2>3, Zenon DEF EntryOK, ClosedOK
  <2> QED
    BY <2>1, <2>3, <2>6, <2>7, Config DEF Recent
<1> QED
  BY <1>2, <1>3, <1>4, Zenon

LEMMA AllowEffect ==
  ASSUME IndInv, NEW c \in Callers, Allow(c)
  PROVE  \E k, now, gone, f, o :
           /\ k \in Keys /\ k = caller[c].key /\ Recent(now, clock)
           /\ EntryOK(f, o, clock) /\ Loaded(k, gone, f, o)
           /\ FoundOK(k, now, gone, f, o) \/ StoresOK(k, now, gone, f, o)
<1> DEFINE k == caller[c].key
           now == caller[c].now
           kept == k \in Stored \ Expired(now)
           e == [IF kept THEN entry[k] ELSE NewEntry(now) EXCEPT !.expireAt = now + TTL]
           s == [IF kept THEN seen[k] ELSE NewSeen(~seen[k].odd, clock) EXCEPT !.touched = clock]
<1>1. clock \in Nat /\ k \in Keys /\ Recent(now, clock)
  <2>1. CallerOK(caller[c], clock) /\ caller[c].pc = "allow"
    BY Zenon DEF IndInv, Allow
  <2> QED
    BY <2>1, Config DEF IndInv, CallerOK
<1>f. PICK f : f = IF Admits(e, now) THEN Allowed(e, now) ELSE e
  BY Zenon
<1>o. PICK o : o = IF e.state # "closed" /\ Admits(e, now) THEN Probed(s, clock) ELSE s
  BY Zenon
<1>2. PICK gone \in IF kept THEN {{}} ELSE Dropped(k, now) : Loaded(k, gone, f, o)
  <2>1. PICK gone \in IF kept THEN {{}} ELSE Dropped(k, now) :
          /\ entry' = [j \in Keys |->
               IF j = k THEN (IF Admits(e, now) THEN Allowed(e, now) ELSE e)
               ELSE IF j \in gone THEN None ELSE entry[j]]
          /\ seen' = [j \in Keys |->
               IF j = k THEN (IF e.state # "closed" /\ Admits(e, now) THEN Probed(s, clock) ELSE s)
               ELSE IF j \in gone THEN Unseen ELSE seen[j]]
    BY Zenon DEF Allow
  <2> HIDE DEF k, now, kept, e, s
  <2>2. Loaded(k, gone, f, o)
    BY <1>f, <1>o, <2>1, Zenon DEF Loaded
  <2> QED
    BY <2>2, Zenon
<1>3. CASE kept
  <2> DEFINE d == [entry[k] EXCEPT !.expireAt = now + TTL]
             r == [seen[k] EXCEPT !.touched = clock]
  <2>1. e = d /\ s = r /\ gone = {}
    BY <1>2, <1>3, Zenon
  <2>2. EntryOK(entry[k], seen[k], clock) /\ k \in Stored
    BY <1>3, Zenon DEF IndInv
  <2>3. EntryOK(d, r, clock)
    BY <1>1, <2>2, TouchedOK, Zenon
  <2>4. entry[k] \in Entry /\ seen[k] \in Seen
    BY <2>2, Zenon DEF EntryOK
  <2>5. /\ d.n = entry[k].n /\ d.state = entry[k].state
        /\ r.odd = seen[k].odd /\ r.since = seen[k].since
    BY <2>4, Zenon DEF Entry, Seen
  <2>6. /\ f = IF Admits(d, now) THEN Allowed(d, now) ELSE d
        /\ o = IF d.state # "closed" /\ Admits(d, now) THEN Probed(r, clock) ELSE r
    BY <1>f, <1>o, <2>1, Zenon
  <2> HIDE DEF d, r, now, kept, e, s
  <2>7. /\ EntryOK(f, o, clock) /\ o.odd = r.odd
        /\ f.n < d.n => d.state = "closed" /\ clock >= r.since + MaxCooldown - MaxLag
    BY <1>1, <2>3, <2>6, DecidedOK
  <2>8. FoundOK(k, now, gone, f, o)
    BY <2>1, <2>2, <2>5, <2>7, Zenon DEF FoundOK
  <2> QED
    BY <1>1, <1>2, <2>7, <2>8, Zenon
<1>4. CASE ~kept
  <2> DEFINE d == [NewEntry(now) EXCEPT !.expireAt = now + TTL]
             r == [NewSeen(~seen[k].odd, clock) EXCEPT !.touched = clock]
  <2>1. e = d /\ s = r /\ gone \in Dropped(k, now)
    BY <1>2, <1>4, Zenon
  <2>2. EntryOK(d, r, clock)
    <3>1. (~seen[k].odd) \in BOOLEAN
      BY Zenon
    <3> QED
      BY <1>1, <3>1, CreatedOK, Zenon
  <2>3. r.odd = ~seen[k].odd
    BY Zenon DEF NewSeen
  <2>4. /\ f = IF Admits(d, now) THEN Allowed(d, now) ELSE d
        /\ o = IF d.state # "closed" /\ Admits(d, now) THEN Probed(r, clock) ELSE r
    BY <1>f, <1>o, <2>1, Zenon
  <2> HIDE DEF d, r
  <2>5. EntryOK(f, o, clock) /\ o.odd = r.odd
    BY <1>1, <2>2, <2>4, DecidedOK
  <2>6. StoresOK(k, now, gone, f, o)
    BY <1>4, <2>1, <2>3, <2>5, Zenon DEF StoresOK
  <2> HIDE DEF now, kept, e, s
  <2> QED
    BY <1>1, <1>2, <2>5, <2>6, Zenon
<1> QED
  BY <1>3, <1>4, Zenon

(* The cap holds: a key is stored in a free place or in that of another.    *)
LEMMA RoomForOne ==
  ASSUME IndInv, NEW k, NEW now, k \notin Stored \ Expired(now), NEW gone \in Dropped(k, now),
         NEW T, T \subseteq (Stored \ gone) \cup {k}
  PROVE  IsFiniteSet(T) /\ Cardinality(T) <= MaxKeys
<1> DEFINE S == Stored
           L == Stored \ Expired(now)
<1>1. IsFiniteSet(S) /\ Cardinality(S) \in Nat /\ Cardinality(S) <= MaxKeys
  BY FS_CardinalityType, Zenon DEF IndInv
<1>2. L \in SUBSET S
  BY Zenon
<1>3. IsFiniteSet(L) /\ Cardinality(L) \in Nat /\ Cardinality(L) <= Cardinality(S)
  BY <1>1, <1>2, FS_Subset, FS_CardinalityType, Zenon
<1> HIDE DEF S
<1>4. CASE Cardinality(L) < MaxKeys
  <2>1. gone = Expired(now)
    BY <1>4, Zenon DEF Dropped
  <2>2. T \in SUBSET (L \cup {k})
    BY <2>1, Zenon
  <2> HIDE DEF L
  <2>3. IsFiniteSet(L \cup {k}) /\ Cardinality(L \cup {k}) <= Cardinality(L) + 1
    <3>1. IsFiniteSet(L \cup {k}) /\ Cardinality(L \cup {k}) = IF k \in L THEN Cardinality(L) ELSE Cardinality(L) + 1
      BY <1>3, FS_AddElement, Zenon
    <3> QED
      BY <1>3, <3>1
  <2>4. IsFiniteSet(T) /\ Cardinality(T) <= Cardinality(L \cup {k})
    BY <2>2, <2>3, FS_Subset, Zenon
  <2>5. Cardinality(T) \in Nat /\ Cardinality(L \cup {k}) \in Nat
    BY <2>3, <2>4, FS_CardinalityType, Zenon
  <2> QED
    BY <1>3, <1>4, <2>3, <2>4, <2>5, Config
<1>5. CASE ~ (Cardinality(L) < MaxKeys)
  <2>1. PICK j \in L : gone = Expired(now) \cup {j}
    BY <1>5, Zenon DEF Dropped
  <2> DEFINE M == L \ {j}
  <2>2. T \in SUBSET (M \cup {k})
    BY <2>1, Zenon
  <2> HIDE DEF L
  <2>3. IsFiniteSet(M) /\ Cardinality(M) = Cardinality(L) - 1
    BY <1>3, FS_RemoveElement, Zenon
  <2> HIDE DEF M
  <2>4. IsFiniteSet(M \cup {k}) /\ Cardinality(M \cup {k}) <= Cardinality(M) + 1
    <3>1. IsFiniteSet(M \cup {k}) /\ Cardinality(M \cup {k}) = IF k \in M THEN Cardinality(M) ELSE Cardinality(M) + 1
      BY <2>3, FS_AddElement, Zenon
    <3> QED
      BY <1>3, <2>3, <3>1
  <2>5. IsFiniteSet(T) /\ Cardinality(T) <= Cardinality(M \cup {k})
    BY <2>2, <2>4, FS_Subset, Zenon
  <2>6. Cardinality(T) \in Nat /\ Cardinality(M \cup {k}) \in Nat
    BY <2>4, <2>5, FS_CardinalityType, Zenon
  <2> QED
    BY <1>1, <1>3, <2>3, <2>4, <2>5, <2>6, Config
<1> QED
  BY <1>4, <1>5, Zenon

LEMMA AllowStep ==
  ASSUME IndInv, NEW c \in Callers, Allow(c)
  PROVE  IndInv'
<1>1. PICK k, now, gone, f, o :
        /\ k \in Keys /\ k = caller[c].key /\ Recent(now, clock)
        /\ EntryOK(f, o, clock) /\ Loaded(k, gone, f, o)
        /\ FoundOK(k, now, gone, f, o) \/ StoresOK(k, now, gone, f, o)
  BY AllowEffect, Zenon
<1>2. /\ clock' = clock /\ closed' = closed /\ caller[c].pc = "allow"
      /\ caller' = Admit(c) \/ caller' = Return(c)
  BY Zenon DEF Allow
<1>3. caller' \in [Callers -> Caller] /\ \A b \in Callers : CallerOK(caller'[b], clock')
  <2>1. CallerOK(caller[c], clock) /\ caller \in [Callers -> Caller]
    BY Zenon DEF IndInv
  <2>2. CallerOK([caller[c] EXCEPT !.pc = "attempt", !.now = 0], clock)
    <3>1. 0 \in Int /\ "attempt" \in {"attempt", "report"} /\ "attempt" # "report" /\ caller[c].pc # "idle"
      BY <1>2
    <3> QED
      BY <2>1, <3>1, SameKey, Zenon
  <2>3. Admit(c) = [caller EXCEPT ![c] = [caller[c] EXCEPT !.pc = "attempt", !.now = 0]]
    BY <2>1, Zenon DEF Admit
  <2> QED
    BY <1>2, <2>2, <2>3, CallerMoves, Returned, Zenon DEF Return
<1>4. f \in Entry /\ o \in Seen /\ Unseen \in Seen
  BY <1>1, Config DEF EntryOK, Unseen, NewSeen, Seen, Never
<1>5. entry' \in [Keys -> Entry \cup {None}] /\ seen' \in [Keys -> Seen]
  <2>1. entry \in [Keys -> Entry \cup {None}] /\ seen \in [Keys -> Seen]
    BY Zenon DEF IndInv
  <2> QED
    BY <1>1, <1>4, <2>1, Zenon DEF Loaded
<1>6. Stored' \subseteq (Stored \ gone) \cup {k}
  BY <1>1, Zenon DEF Stored, Loaded
<1>7. ASSUME NEW j \in Stored' PROVE EntryOK(entry'[j], seen'[j], clock')
  <2>1. CASE j = k
    BY <1>1, <1>2, <2>1, Zenon DEF Loaded
  <2>2. CASE j # k
    <3>1. j \in Stored /\ j \notin gone /\ j \in Keys
      BY <1>6, <2>2, Zenon DEF Stored
    <3>2. entry'[j] = entry[j] /\ seen'[j] = seen[j]
      BY <1>1, <2>2, <3>1, Zenon DEF Loaded
    <3> QED
      BY <1>2, <3>1, <3>2, Zenon DEF IndInv
  <2> QED
    BY <2>1, <2>2, Zenon
<1>8. IsFiniteSet(Stored') /\ Cardinality(Stored') <= MaxKeys
  <2>1. CASE FoundOK(k, now, gone, f, o)
    <3>1. Stored' \in SUBSET Stored
      BY <1>6, <2>1, Zenon DEF FoundOK
    <3>2. /\ IsFiniteSet(Stored) /\ Cardinality(Stored) <= MaxKeys
          /\ IsFiniteSet(Stored') /\ Cardinality(Stored') <= Cardinality(Stored)
      BY <3>1, FS_Subset, Zenon DEF IndInv
    <3>3. Cardinality(Stored) \in Nat /\ Cardinality(Stored') \in Nat
      BY <3>2, FS_CardinalityType, Zenon
    <3> QED
      BY <3>2, <3>3, Config
  <2>2. CASE StoresOK(k, now, gone, f, o)
    BY <1>6, <2>2, RoomForOne, Zenon DEF StoresOK
  <2> QED
    BY <1>1, <2>1, <2>2, Zenon
<1> QED
  BY <1>2, <1>3, <1>5, <1>7, <1>8, Zenon DEF IndInv

-----------------------------------------------------------------------------
(* The invariant, and what follows from it.                                 *)

(* What holds of every stored entry, found, created, tripped or probed.     *)
THEOREM Invariance == Spec => []IndInv
<1>1. Init => IndInv
  <2> SUFFICES ASSUME Init PROVE IndInv
    BY Zenon
  <2>1. clock \in 0 .. MaxClock /\ closed \in BOOLEAN
    <3>1. clock \in 0 .. MaxClock
      BY Config DEF Init
    <3> QED
      BY <3>1, Zenon DEF Init
  <2>2. ASSUME NEW c \in Callers PROVE CallerOK(caller[c], clock)
    BY Returned, Zenon DEF Init
  <2>3. caller \in [Callers -> Caller]
    <3>1. [pc |-> "idle", key |-> None, now |-> 0] \in Caller
      BY Returned, Zenon DEF CallerOK
    <3> QED
      BY <3>1, Zenon DEF Init
  <2>4. Unseen \in Seen
    BY Config DEF Unseen, NewSeen, Seen, Never
  <2>5. entry \in [Keys -> Entry \cup {None}] /\ seen \in [Keys -> Seen] /\ Stored = {}
    BY <2>4, Zenon DEF Init, Stored
  <2>6. IsFiniteSet({}) /\ Cardinality({}) <= MaxKeys
    BY FS_EmptySet, Config
  <2> QED
    BY <2>1, <2>2, <2>3, <2>5, <2>6, Zenon DEF IndInv
<1>2. IndInv /\ [Next]_vars => IndInv'
  <2> SUFFICES ASSUME IndInv, [Next]_vars PROVE IndInv'
    BY Zenon
  <2>1. CASE UNCHANGED vars
    <3>1. UNCHANGED <<clock, closed, entry, caller, seen>>
      BY <2>1, Zenon DEF vars
    <3> QED
      BY <3>1, MapKept, Zenon DEF IndInv
  <2> QED
    BY <2>1, ReadClockStep, AllowStep, ReportStep, RefusedStep, CloseStep, TickStep, Zenon DEF Next
<1> QED
  BY <1>1, <1>2, PTL DEF Spec

(* Every variable keeps its type: credit, deadlines and clock readings stay *)
(* in range through every Allow, Report, eviction and Close.                *)
THEOREM TypeCorrect == Spec => []TypeOK
BY Invariance, TypesOfInv, PTL

(* The map never holds more than its cap, and a key is CLOSED exactly while *)
(* it has credit (loadEntry, Report).                                       *)
THEOREM CreditAndCap == Spec => []CreditMatchesState
<1>1. IndInv => CreditMatchesState
  <2> SUFFICES ASSUME IndInv PROVE CreditMatchesState
    BY Zenon
  <2>1. ASSUME NEW k \in Stored
        PROVE  entry[k].credit <= budget /\ (entry[k].state = "closed" <=> entry[k].credit > 0)
    <3>1. EntryOK(entry[k], seen[k], clock)
      BY Zenon DEF IndInv
    <3>2. entry[k].credit \in Int /\ entry[k].credit <= budget
      BY <3>1, BudgetType, Config DEF EntryOK, Entry
    <3> QED
      BY <3>1, <3>2 DEF EntryOK, ClosedOK
  <2> QED
    BY <2>1, Zenon DEF IndInv, CreditMatchesState
<1> QED
  BY <1>1, Invariance, PTL

(* A key trips on TripFailures failures in a row at the latest and on no    *)
(* fewer failures of one stretch of CLOSED (Report).                        *)
THEOREM KeysTripInTime == Spec => []TripsInTime
<1>1. IndInv => TripsInTime
  BY Config DEF IndInv, TripsInTime, EntryOK, ClosedOK
<1> QED
  BY <1>1, Invariance, PTL

(* The part of DenialsEnd that does not depend on how the cooldown doubles. *)
DenialsAreShort ==
  \A k \in Stored :
    /\ entry[k].state = "open" => entry[k].openUntil <= clock + MaxCooldown
    /\ entry[k].state = "half" /\ entry[k].outstanding => entry[k].probeUntil <= clock + BaseCooldown

(* An OPEN key is deniable for MaxCooldown at most and a HALF-OPEN one for  *)
(* BaseCooldown, however late the call that set the deadline read the clock *)
(* (Allow, Report).                                                         *)
THEOREM DenialsAreBounded == Spec => []DenialsAreShort
<1>1. IndInv => DenialsAreShort
  BY Zenon DEF IndInv, DenialsAreShort, EntryOK, OpenOK, HalfOK
<1> QED
  BY <1>1, Invariance, PTL

LEMMA UnchangedSame ==
  ASSUME NEW k \in Stored, entry'[k] = entry[k], seen'[k] = seen[k]
  PROVE  Same(k)
BY Zenon DEF Same, Stored

(* The steps that leave the map alone.                                      *)
LEMMA MapSteps ==
  ASSUME [Next]_vars
  PROVE  \/ UNCHANGED <<entry, seen>>
         \/ Close
         \/ \E c \in Callers : Allow(c) \/ Report(c)
BY Zenon DEF Next, vars, ReadClock, Refused, Tick

LEMMA ProbesAfterCooldown ==
  ASSUME IndInv, [Next]_vars, NEW k \in Keys, Probes(k)
  PROVE  clock >= seen[k].since - MaxLag
                    + IF entry[k].state = "open" THEN seen[k].wait ELSE BaseCooldown
<1>1. PICK c \in Callers : /\ caller[c].pc = "allow" /\ caller[c].key = k
                           /\ caller'[c].pc = "attempt" /\ entry'[k].state = "half"
  BY Zenon DEF Probes
<1>2. caller \in [Callers -> Caller]
  BY Zenon DEF IndInv
<1>3. Allow(c)
  <2>1. caller'[c] # caller[c]
    BY <1>1, Zenon
  <2>2. ASSUME NEW b \in Callers, b # c,
               ReadClock(b) \/ Allow(b) \/ Report(b) \/ Refused(b)
        PROVE  caller'[c] = caller[c]
    <3>1. \E r : caller' = [caller EXCEPT ![b] = r]
      BY <1>2, <2>2, ZenonT(30) DEF ReadClock, Allow, Report, Refused, Return, Admit
    <3> QED
      BY <1>2, <2>2, <3>1, Zenon
  <2>3. ASSUME ReadClock(c) \/ Report(c) \/ Refused(c)
        PROVE  FALSE
    <3>1. ~ ReadClock(c) /\ ~ Report(c)
      BY <1>1, Zenon DEF ReadClock, Report
    <3>2. caller' = Return(c)
      BY <2>3, <3>1, Zenon DEF Refused
    <3>3. caller'[c].pc = "idle"
      BY <1>2, <3>2, Zenon DEF Return
    <3> QED
      BY <1>1, <3>3, Zenon
  <2>4. ASSUME Close \/ Tick \/ UNCHANGED vars PROVE caller'[c] = caller[c]
    BY <2>4, Zenon DEF Close, Tick, vars
  <2> QED
    BY <2>1, <2>2, <2>3, <2>4, Zenon DEF Next
<1> DEFINE now == caller[c].now
           kept == k \in Stored \ Expired(now)
           e == [IF kept THEN entry[k] ELSE NewEntry(now) EXCEPT !.expireAt = now + TTL]
<1>4. /\ entry'[k] = IF Admits(e, now) THEN Allowed(e, now) ELSE e
      /\ caller' = IF Admits(e, now) THEN Admit(c) ELSE Return(c)
  BY <1>1, <1>3, Zenon DEF Allow
<1>5. clock \in Nat /\ Recent(now, clock)
  <2>1. CallerOK(caller[c], clock)
    BY Zenon DEF IndInv
  <2> QED
    BY <1>1, <2>1, Config DEF IndInv, CallerOK
<1>6. Admits(e, now)
  <2> SUFFICES ASSUME ~Admits(e, now) PROVE FALSE
    BY Zenon
  <2>1. caller'[c].pc = "idle"
    BY <1>2, <1>4, Zenon DEF Return
  <2> QED
    BY <1>1, <2>1, Zenon
<1>7. e.state # "closed"
  <2> SUFFICES ASSUME e.state = "closed" PROVE FALSE
    BY Zenon
  <2>1. e \in Entry
    <3>1. CASE kept
      <4>1. EntryOK(entry[k], seen[k], clock)
        BY <3>1, Zenon DEF IndInv
      <4>2. EntryOK([entry[k] EXCEPT !.expireAt = now + TTL], seen[k], clock)
        BY <1>5, <4>1, TouchedOK, Zenon
      <4>3. e = [entry[k] EXCEPT !.expireAt = now + TTL]
        BY <3>1, Zenon
      <4> QED
        BY <4>2, <4>3, Zenon DEF EntryOK
    <3>2. CASE ~kept
      <4>1. e = [NewEntry(now) EXCEPT !.expireAt = now + TTL] /\ TRUE \in BOOLEAN
        BY <3>2, Zenon
      <4> QED
        BY <1>5, <4>1, CreatedOK, Zenon DEF EntryOK
    <3> QED
      BY <3>1, <3>2, Zenon
  <2> HIDE DEF e, now
  <2>2. Allowed(e, now).state = "closed"
    BY <2>1, ResetFields, Zenon DEF Allowed
  <2> QED
    BY <1>1, <1>4, <1>6, <2>2, Zenon
<1>8. kept
  BY <1>7, Zenon DEF NewEntry
<1>9. EntryOK(entry[k], seen[k], clock)
  BY <1>8, Zenon DEF IndInv
<1>10. entry[k] \in Entry /\ seen[k] \in Seen
  BY <1>9, Zenon DEF EntryOK
<1>11. /\ e.state = entry[k].state /\ e.openUntil = entry[k].openUntil
       /\ e.outstanding = entry[k].outstanding /\ e.probeUntil = entry[k].probeUntil
  BY <1>8, <1>10, Zenon DEF Entry
<1>12. /\ entry[k].openUntil \in Int /\ entry[k].probeUntil \in Int
       /\ seen[k].since \in Int /\ seen[k].wait \in Int
  BY <1>10, Zenon DEF Entry, Seen
<1> HIDE DEF now, e
<1>13. CASE entry[k].state = "open"
  <2>1. now >= entry[k].openUntil /\ entry[k].openUntil >= seen[k].since + seen[k].wait - MaxLag
    BY <1>6, <1>9, <1>11, <1>13, Zenon DEF Admits, EntryOK, OpenOK
  <2> QED
    BY <1>5, <1>12, <1>13, <2>1, Config DEF Recent
<1>14. CASE entry[k].state = "half"
  <2>1. now >= entry[k].probeUntil /\ entry[k].probeUntil >= seen[k].since + BaseCooldown - MaxLag
    BY <1>6, <1>9, <1>11, <1>14, Zenon DEF Admits, EntryOK, HalfOK
  <2> QED
    BY <1>5, <1>12, <1>14, <2>1, Config DEF Recent
<1> QED
  BY <1>7, <1>10, <1>11, <1>13, <1>14, Zenon DEF Entry

(* A tripped key is probed only after its cooldown in true time, and again  *)
(* only after the lease of the probe, less the lag of the clock reading     *)
(* (Allow, Report).                                                         *)
THEOREM ProbesWaitForCooldown == Spec => ProbesAreSpaced
<1>1. IndInv /\ [Next]_vars =>
        \A k \in Keys : Probes(k) =>
          clock >= seen[k].since - MaxLag
                     + IF entry[k].state = "open" THEN seen[k].wait ELSE BaseCooldown
  BY ProbesAfterCooldown, Zenon
<1> QED
  BY <1>1, Invariance, PTL DEF Spec, ProbesAreSpaced

LEMMA ExponentStep ==
  ASSUME IndInv, [Next]_vars, NEW k \in Keys, Same(k), entry'[k].n < entry[k].n
  PROVE  entry[k].state = "closed" /\ clock >= seen[k].since + MaxCooldown - MaxLag
<1>1. k \in Stored /\ entry'[k] # None /\ seen'[k].odd = seen[k].odd
  BY Zenon DEF Same
<1>2. entry \in [Keys -> Entry \cup {None}] /\ seen \in [Keys -> Seen] /\ EntryOK(entry[k], seen[k], clock)
  BY <1>1, Zenon DEF IndInv
<1>3. entry[k] \in Entry /\ seen[k] \in Seen /\ entry[k].n \in Nat /\ clock \in Nat
  BY <1>2, Config DEF EntryOK, Entry, IndInv
<1>4. entry'[k] # entry[k]
  BY <1>3
<1>5. ~ UNCHANGED <<entry, seen>>
  BY <1>4, Zenon
<1>6. ~ Close
  BY <1>1, Zenon DEF Close
<1>7. ASSUME NEW c \in Callers, Report(c)
      PROVE  entry[k].state = "closed" /\ clock >= seen[k].since + MaxCooldown - MaxLag
  <2>1. PICK j, f, o :
          /\ j \in Keys /\ entry' = [entry EXCEPT ![j] = f]
          /\ f.n < entry[j].n => entry[j].state = "closed" /\ clock >= seen[j].since + MaxCooldown - MaxLag
    BY <1>5, <1>7, ReportEffect, Zenon
  <2>2. j = k
    BY <1>2, <1>4, <2>1, Zenon
  <2>3. entry'[k] = f
    BY <1>2, <2>1, <2>2, Zenon
  <2> QED
    BY <2>1, <2>2, <2>3, Zenon
<1>8. ASSUME NEW c \in Callers, Allow(c)
      PROVE  entry[k].state = "closed" /\ clock >= seen[k].since + MaxCooldown - MaxLag
  <2>1. PICK j, now, gone, f, o :
          /\ j \in Keys /\ Recent(now, clock) /\ Loaded(j, gone, f, o)
          /\ FoundOK(j, now, gone, f, o) \/ StoresOK(j, now, gone, f, o)
    BY <1>8, AllowEffect, Zenon
  <2>2. j = k
    BY <1>1, <1>4, <2>1, Zenon DEF Loaded
  <2>3. entry'[k] = f /\ seen'[k] = o
    BY <2>1, <2>2, Zenon DEF Loaded
  <2>4. ~ StoresOK(k, now, gone, f, o)
    BY <1>1, <2>3, Zenon DEF StoresOK
  <2> QED
    BY <2>1, <2>2, <2>3, <2>4, Zenon DEF FoundOK
<1> QED
  BY <1>5, <1>6, <1>7, <1>8, MapSteps, Zenon

(* A key forgets its exponent only after a stretch of CLOSED                *)
(* (resetNIfClosedLongEnough).                                              *)
THEOREM ExponentIsKeptWhileStored == Spec => ExponentIsKept
<1>1. IndInv /\ [Next]_vars =>
        \A k \in Keys : Same(k) /\ entry'[k].n < entry[k].n =>
          entry[k].state = "closed" /\ clock >= seen[k].since + MaxCooldown - MaxLag
  BY ExponentStep, Zenon
<1> QED
  BY <1>1, Invariance, PTL DEF Spec, ExponentIsKept

LEMMA IdleWhenExpired ==
  ASSUME IndInv, NEW k \in Stored, NEW now, Recent(now, clock), now >= entry[k].expireAt
  PROVE  clock >= seen[k].touched + TTL - MaxLag
<1>1. EntryOK(entry[k], seen[k], clock) /\ clock \in Int
  BY Config DEF IndInv
<1>2. entry[k].expireAt >= seen[k].touched + TTL - MaxLag
  BY <1>1, Zenon DEF EntryOK
<1>3. entry[k].expireAt \in Int /\ seen[k].touched \in Int
  BY <1>1, Zenon DEF EntryOK, Entry, Seen
<1> QED
  BY <1>1, <1>2, <1>3, Config DEF Recent

(* The keys that a late call finds alive were alive MaxLag ago.             *)
LEMMA AliveKeys ==
  ASSUME IndInv, NEW now, Recent(now, clock),
         ~ (Cardinality(Stored \ Expired(now)) < MaxKeys)
  PROVE  Cardinality({j \in Stored : clock < entry[j].expireAt + MaxLag}) >= MaxKeys
<1> DEFINE L == Stored \ Expired(now)
           A == {j \in Stored : clock < entry[j].expireAt + MaxLag}
<1>1. clock \in Int /\ now \in Int /\ clock <= now + MaxLag /\ IsFiniteSet(Stored)
  BY Config DEF IndInv, Recent
<1>2. ASSUME NEW j \in L PROVE j \in A
  <2>1. j \in Stored /\ EntryOK(entry[j], seen[j], clock) /\ ~ (now >= entry[j].expireAt)
    BY Zenon DEF IndInv, Expired
  <2>2. entry[j].expireAt \in Int
    BY <2>1, Zenon DEF EntryOK, Entry
  <2>3. clock < entry[j].expireAt + MaxLag
    BY <1>1, <2>1, <2>2, Config
  <2> QED
    BY <2>1, <2>3, Zenon
<1>3. A \in SUBSET Stored /\ L \in SUBSET A
  BY <1>2, Zenon
<1>4. L \in SUBSET Stored
  BY Zenon
<1> HIDE DEF A, L
<1>5. IsFiniteSet(A) /\ IsFiniteSet(L) /\ Cardinality(L) <= Cardinality(A)
  BY <1>1, <1>3, <1>4, FS_Subset, Zenon
<1>6. Cardinality(A) \in Nat /\ Cardinality(L) \in Nat
  BY <1>5, FS_CardinalityType, Zenon
<1>7. Cardinality(A) >= MaxKeys
  BY <1>5, <1>6, Config DEF L
<1> QED
  BY <1>7, Zenon DEF A

LEMMA ForgetsStep ==
  ASSUME IndInv, [Next]_vars, NEW k \in Stored, ~Same(k)
  PROVE  \/ closed'
         \/ clock >= seen[k].touched + TTL - MaxLag
         \/ /\ \E j \in Keys \ Stored : entry'[j] # None
            /\ Cardinality({j \in Stored : clock < entry[j].expireAt + MaxLag}) >= MaxKeys
<1>1. k \in Keys /\ entry[k] # None
  BY Zenon DEF Stored
<1>2. entry \in [Keys -> Entry \cup {None}] /\ seen \in [Keys -> Seen]
  BY Zenon DEF IndInv
<1>3. entry'[k] # entry[k] \/ seen'[k] # seen[k]
  BY UnchangedSame, Zenon
<1>4. ~ UNCHANGED <<entry, seen>>
  BY <1>3, Zenon
<1>5. CASE Close
  BY <1>5, Zenon DEF Close
<1>6. ASSUME NEW c \in Callers, Report(c) PROVE FALSE
  <2>1. PICK j, f, o :
          /\ j \in Keys /\ EntryOK(f, o, clock) /\ o.odd = seen[j].odd
          /\ entry' = [entry EXCEPT ![j] = f] /\ seen' = [seen EXCEPT ![j] = o]
    BY <1>4, <1>6, ReportEffect, Zenon
  <2>2. f # None
    BY <2>1, NoneAssumption, Zenon DEF EntryOK
  <2>3. j = k
    BY <1>1, <1>2, <1>3, <2>1, Zenon
  <2>4. entry'[k] = f /\ seen'[k] = o
    BY <1>1, <1>2, <2>1, <2>3, Zenon
  <2> QED
    BY <2>1, <2>2, <2>3, <2>4, Zenon DEF Same
<1>7. ASSUME NEW c \in Callers, Allow(c)
      PROVE  \/ clock >= seen[k].touched + TTL - MaxLag
             \/ /\ \E j \in Keys \ Stored : entry'[j] # None
                /\ Cardinality({j \in Stored : clock < entry[j].expireAt + MaxLag}) >= MaxKeys
  <2>1. PICK a, now, gone, f, o :
          /\ a \in Keys /\ Recent(now, clock) /\ EntryOK(f, o, clock) /\ Loaded(a, gone, f, o)
          /\ FoundOK(a, now, gone, f, o) \/ StoresOK(a, now, gone, f, o)
    BY <1>7, AllowEffect, Zenon
  <2>2. f # None /\ entry'[a] = f /\ seen'[a] = o
    BY <2>1, NoneAssumption, Zenon DEF EntryOK, Loaded
  <2>3. ASSUME FoundOK(a, now, gone, f, o) PROVE FALSE
    <3>1. CASE k = a
      BY <2>2, <2>3, <3>1, Zenon DEF FoundOK, Same
    <3>2. CASE k # a
      <4>1. entry'[k] = entry[k] /\ seen'[k] = seen[k]
        BY <1>1, <2>1, <2>3, <3>2, Zenon DEF Loaded, FoundOK
      <4> QED
        BY <1>3, <4>1, Zenon
    <3> QED
      BY <3>1, <3>2, Zenon
  <2>4. a \notin Stored \ Expired(now) /\ gone \in Dropped(a, now)
    BY <2>1, <2>3, Zenon DEF StoresOK
  <2>5. CASE k \in Expired(now)
    BY <2>1, <2>5, IdleWhenExpired, Zenon DEF Expired
  <2>6. CASE k \notin Expired(now)
    <3>1. k # a
      BY <2>4, <2>6, Zenon
    <3>2. k \in gone
      BY <1>1, <1>3, <2>1, <3>1, Zenon DEF Loaded
    <3>3. ~ (Cardinality(Stored \ Expired(now)) < MaxKeys)
      BY <2>4, <2>6, <3>2, Zenon DEF Dropped
    <3>4. Cardinality({j \in Stored : clock < entry[j].expireAt + MaxLag}) >= MaxKeys
      BY <2>1, <3>3, AliveKeys, Zenon
    <3>5. a \notin Stored
      <4> SUFFICES ASSUME a \in Stored PROVE FALSE
        BY Zenon
      <4> DEFINE L == Stored \ Expired(now)
      <4>1. L \in SUBSET Stored /\ L # Stored
        BY <2>4, Zenon
      <4>2. IsFiniteSet(Stored) /\ Cardinality(Stored) <= MaxKeys
        BY Zenon DEF IndInv
      <4>3. ~ (Cardinality(L) < MaxKeys)
        BY <3>3, Zenon
      <4> HIDE DEF L
      <4>4. IsFiniteSet(L) /\ Cardinality(L) <= Cardinality(Stored) /\ Cardinality(L) # Cardinality(Stored)
        BY <4>1, <4>2, FS_Subset, Zenon
      <4>5. Cardinality(L) \in Nat /\ Cardinality(Stored) \in Nat
        BY <4>2, <4>4, FS_CardinalityType, Zenon
      <4> QED
        BY <4>2, <4>3, <4>4, <4>5, Config
    <3> QED
      BY <2>1, <2>2, <3>4, <3>5, Zenon
  <2> QED
    BY <2>5, <2>6, Zenon
<1> QED
  BY <1>4, <1>5, <1>6, <1>7, MapSteps, Zenon

(* A key is forgotten only when it was idle for TTL, less the lag, by       *)
(* Close, or for a new key when the map is full of live keys (loadEntry,    *)
(* dropOne).                                                                *)
THEOREM OnlyIdleKeysAreForgotten == Spec => ForgetsIdleOnly
<1>1. IndInv /\ [Next]_vars =>
        \A k \in Stored : ~Same(k) =>
          \/ closed'
          \/ clock >= seen[k].touched + TTL - MaxLag
          \/ /\ \E j \in Keys \ Stored : entry'[j] # None
             /\ Cardinality({j \in Stored : clock < entry[j].expireAt + MaxLag}) >= MaxKeys
  BY ForgetsStep, Zenon
<1> QED
  BY <1>1, Invariance, PTL DEF Spec, ForgetsIdleOnly

=============================================================================
