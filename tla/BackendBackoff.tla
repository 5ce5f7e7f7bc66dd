--------------------------- MODULE BackendBackoff ---------------------------
(***************************************************************************)
(* The in-memory admission gate (backendbackoff): per key a success-credit  *)
(* bucket that trips, an exponential cooldown, and a half-open probe.       *)
(*                                                                          *)
(* A caller asks Allow, makes its attempt when admitted, and Reports.  Both *)
(* calls read the clock before they take g.mu, so a call decides with a     *)
(* time that other calls have already overtaken.  MaxLag bounds how far the *)
(* clock runs while a call waits for the lock; an attempt takes any time.   *)
(* Credit is counted in units of 1/Failure, in which a failure costs        *)
(* Failure and a success earns Success: p/(1-p) = Success/Failure.          *)
(***************************************************************************)
EXTENDS Integers, FiniteSets, FiniteSetsExt

CONSTANTS
  Callers, Keys,
  TripFailures, Success, Failure,   \* B and the credit of the two outcomes
  BaseCooldown, MaxCooldown, TTL,
  Spread, Parts,                    \* Jitter = Spread/Parts
  MaxKeys,                          \* maxMemorySources
  MaxLag, MaxClock,
  None

(* What resolveConfig lets through: 0 < p < 1 and Jitter < 1 in particular. *)
ValidConfig ==
  /\ Success \in Nat \ {0} /\ Failure \in Nat \ {0} /\ TripFailures \in Nat \ {0}
  /\ BaseCooldown \in Nat \ {0} /\ MaxCooldown \in Nat /\ MaxCooldown >= BaseCooldown
  /\ Spread \in Nat /\ Parts \in Nat \ {0} /\ Spread < Parts
  /\ TTL \in Nat \ {0}

ASSUME GateAssumption ==
  /\ ValidConfig
  /\ MaxKeys \in Nat \ {0} /\ MaxLag \in Nat /\ MaxClock \in Nat /\ None \notin Keys

VARIABLES
  clock,
  closed,   \* Close was called
  entry,    \* g.keys: a memEntry or None
  caller,   \* the locals of every caller
  seen      \* what really happened to a key, in true time

vars == <<clock, closed, entry, caller, seen>>

Never == -1
budget == TripFailures * Failure

Entry == [credit : 1 - Failure .. budget, n : Nat, state : {"closed", "open", "half"}, openUntil : Int,
          closedSince : Int, probeUntil : Int, outstanding : BOOLEAN, expireAt : Int]
Caller == [pc : {"idle", "allow", "attempt", "report"}, key : Keys \cup {None}, now : Int]
Seen == [odd : BOOLEAN,           \* flips when the key is stored anew
         touched : Int,           \* the last call for the key
         since : Int, wait : Int, \* when it closed, tripped or was last probed; its cooldown
         fails : 0 .. TripFailures, streak : 0 .. TripFailures]

ASSUME NoneAssumption == None \notin Entry

TypeOK ==
  /\ clock \in 0 .. MaxClock /\ closed \in BOOLEAN
  /\ entry \in [Keys -> Entry \cup {None}]
  /\ caller \in [Callers -> Caller]
  /\ seen \in [Keys -> Seen]

(* A key that is CLOSED since t.                                            *)
NewSeen(odd, t) ==
  [odd |-> odd, touched |-> t, since |-> t, wait |-> 0, fails |-> 0, streak |-> 0]

Unseen == NewSeen(FALSE, Never)

Init ==
  /\ clock = 0 /\ closed = FALSE
  /\ entry = [k \in Keys |-> None]
  /\ caller = [c \in Callers |-> [pc |-> "idle", key |-> None, now |-> 0]]
  /\ seen = [k \in Keys |-> Unseen]

-----------------------------------------------------------------------------
(* Cooldowns and entries.                                                   *)

Capped(d) == IF d > MaxCooldown THEN MaxCooldown ELSE d

(* Mutant: the cooldown grows by one BaseCooldown at a time.                *)
Stepped(w) == Capped(w + BaseCooldown)

(* The doubling loop of cooldownDuration.                                   *)
Doubled(w) == IF w > MaxCooldown \div 2 THEN MaxCooldown ELSE 2 * w

Wait[n \in Nat] == IF n = 0 THEN BaseCooldown ELSE Doubled(Wait[n - 1])

(* cooldownDuration: any sample of the jitter.                              *)
Cooldowns(n) ==
  {Capped(d) : d \in (Wait[n] * (Parts - Spread)) \div Parts .. (Wait[n] * (Parts + Spread)) \div Parts}

NewEntry(now) ==
  [credit |-> budget, n |-> 0, state |-> "closed", openUntil |-> Never, closedSince |-> now,
   probeUntil |-> Never, outstanding |-> FALSE, expireAt |-> now]

Stored == {k \in Keys : entry[k] # None}

(* Mutant: a key expires one tick early.                                    *)
ExpiredEarly(now) == {k \in Stored : now + 1 >= entry[k].expireAt}

(* dropExpired.                                                             *)
Expired(now) == {k \in Stored : now >= entry[k].expireAt}

(* Mutant: n is reset without the stretch of CLOSED.                        *)
ResetAlways(e, now) == [e EXCEPT !.n = 0]

(* resetNIfClosedLongEnough.                                                *)
ResetN(e, now) ==
  IF e.closedSince # Never /\ now >= e.closedSince + MaxCooldown THEN [e EXCEPT !.n = 0] ELSE e

(* Mutant: the map grows past its cap.                                      *)
EvictsNone(k, now) == {Expired(now)}

(* What loadEntry drops before it stores k: the expired keys, and any one   *)
(* of the others when those fill the map.                                   *)
Dropped(k, now) ==
  IF Cardinality(Stored \ Expired(now)) < MaxKeys THEN {Expired(now)}
  ELSE {Expired(now) \cup {j} : j \in Stored \ Expired(now)}

-----------------------------------------------------------------------------
(* Allow.                                                                   *)

ReadClock(c) ==
  /\ \/ caller[c].pc = "idle" /\ \E k \in Keys :
          caller' = [caller EXCEPT ![c] = [pc |-> "allow", key |-> k, now |-> clock]]
     \/ /\ caller[c].pc = "attempt"
        /\ caller' = [caller EXCEPT ![c].pc = "report", ![c].now = clock]
  /\ UNCHANGED <<clock, closed, entry, seen>>

Return(c) == [caller EXCEPT ![c] = [pc |-> "idle", key |-> None, now |-> 0]]
Admit(c) == [caller EXCEPT ![c].pc = "attempt", ![c].now = 0]

(* Mutant: every Allow in HALF-OPEN is a probe.                             *)
AdmitsEveryone(e, now) == e.state = "open" => now >= e.openUntil

(* The decision of Allow on the key's entry.                                *)
Admits(e, now) ==
  CASE e.state = "closed" -> TRUE
    [] e.state = "open" -> now >= e.openUntil
    [] e.state = "half" -> ~e.outstanding \/ now >= e.probeUntil

(* What is noted of a probe.                                                *)
Probed(s, t) == [s EXCEPT !.since = t, !.wait = 0]

(* The entry after an admitted Allow.  A deadline that is not read again is *)
(* cleared here; the code leaves the dead value in the field.               *)
Allowed(e, now) ==
  IF e.state = "closed" THEN ResetN(e, now)
  ELSE [e EXCEPT !.state = "half", !.outstanding = TRUE, !.openUntil = Never,
                 !.probeUntil = now + BaseCooldown]

Allow(c) ==
  LET k == caller[c].key
      now == caller[c].now
      kept == k \in Stored \ Expired(now)
  IN /\ caller[c].pc = "allow" /\ ~closed
     /\ \E gone \in IF kept THEN {{}} ELSE Dropped(k, now) :
          LET e == [IF kept THEN entry[k] ELSE NewEntry(now) EXCEPT !.expireAt = now + TTL]
              s == [IF kept THEN seen[k] ELSE NewSeen(~seen[k].odd, clock) EXCEPT !.touched = clock]
          IN /\ entry' = [j \in Keys |->
                  IF j = k THEN (IF Admits(e, now) THEN Allowed(e, now) ELSE e)
                  ELSE IF j \in gone THEN None ELSE entry[j]]
             /\ seen' = [j \in Keys |->
                  IF j = k THEN (IF e.state # "closed" /\ Admits(e, now) THEN Probed(s, clock) ELSE s)
                  ELSE IF j \in gone THEN Unseen ELSE seen[j]]
             /\ caller' = IF Admits(e, now) THEN Admit(c) ELSE Return(c)
     /\ UNCHANGED <<clock, closed>>

-----------------------------------------------------------------------------
(* Report.                                                                  *)

(* Trip, or re-open after a failed probe.                                   *)
Opened(e, now, wait) == [e EXCEPT !.state = "open", !.openUntil = now + wait]

(* Mutant: the key trips one failure late.                                  *)
TripsBelowZero(credit) == credit < 0

Trips(credit) == credit <= 0

(* Report on a CLOSED key.                                                  *)
ReportClosed(e, success, now, wait) ==
  IF success THEN [e EXCEPT !.credit = Min({@ + Success, budget})]
  ELSE LET f == [ResetN(e, now) EXCEPT !.credit = @ - Failure]
       IN IF Trips(f.credit) THEN Opened([f EXCEPT !.closedSince = Never], now, wait) ELSE f

(* Report on a HALF-OPEN key whose probe is outstanding.                    *)
ReportProbe(e, success, now, wait) ==
  LET f == [e EXCEPT !.outstanding = FALSE, !.probeUntil = Never]
  IN IF success THEN [f EXCEPT !.credit = budget, !.state = "closed", !.closedSince = now]
     ELSE Opened([f EXCEPT !.n = @ + 1], now, wait)

(* The exponent a failure Reported now cools down with.                     *)
Exponent(e, now) == IF e.state = "half" THEN e.n + 1 ELSE ResetN(e, now).n

Observed(s, e, f, success, wait) ==
  LET fails == IF success \/ e.state # "closed" THEN s.fails ELSE Min({s.fails + 1, TripFailures})
      streak == IF success THEN 0 ELSE Min({s.streak + 1, TripFailures})
  IN IF e.state = f.state THEN [s EXCEPT !.fails = fails, !.streak = streak]
     ELSE IF f.state = "open"
     THEN [s EXCEPT !.fails = fails, !.streak = 0, !.since = clock, !.wait = wait]
     ELSE NewSeen(s.odd, clock)

(* An attempt that Allow admitted for another entry of this key, or in      *)
(* another state, Reports like any other.                                   *)
Report(c) ==
  LET k == caller[c].key
      now == caller[c].now
      e == [entry[k] EXCEPT !.expireAt = now + TTL]
      ignored == e.state = "open" \/ (e.state = "half" /\ ~e.outstanding)
  IN /\ caller[c].pc = "report" /\ ~closed
     /\ caller' = Return(c)
     /\ \/ entry[k] = None /\ UNCHANGED <<entry, seen>>
        \/ /\ entry[k] # None
           /\ \E success \in BOOLEAN : \E wait \in Cooldowns(Exponent(e, now)) :
                LET f == IF ignored THEN e
                         ELSE IF e.state = "half" THEN ReportProbe(e, success, now, wait)
                         ELSE ReportClosed(e, success, now, wait)
                IN /\ entry' = [entry EXCEPT ![k] = f]
                   /\ seen' = [seen EXCEPT ![k] =
                        [(IF ignored THEN @ ELSE Observed(@, e, f, success, wait))
                           EXCEPT !.touched = clock]]
     /\ UNCHANGED <<clock, closed>>

-----------------------------------------------------------------------------

(* Allow and Report after Close return errClosed.                           *)
Refused(c) ==
  /\ closed /\ caller[c].pc \in {"allow", "report"}
  /\ caller' = Return(c)
  /\ UNCHANGED <<clock, closed, entry, seen>>

Close ==
  /\ ~closed
  /\ closed' = TRUE
  /\ entry' = [k \in Keys |-> None]
  /\ seen' = [k \in Keys |-> Unseen]
  /\ UNCHANGED <<clock, caller>>

Waiting == {c \in Callers : caller[c].pc \in {"allow", "report"}}

Tick ==
  /\ clock < MaxClock
  /\ \A c \in Waiting : clock - caller[c].now < MaxLag
  /\ clock' = clock + 1
  /\ UNCHANGED <<closed, entry, caller, seen>>

Next ==
  \/ \E c \in Callers : ReadClock(c) \/ Allow(c) \/ Report(c) \/ Refused(c)
  \/ Close \/ Tick

Spec == Init /\ [][Next]_vars

-----------------------------------------------------------------------------
(* Properties.                                                              *)

(* The map never holds more than its cap, and a key is CLOSED exactly while *)
(* it has credit, whatever Reports of earlier entries land on it (loadEntry,*)
(* Report).                                                                 *)
CreditMatchesState ==
  /\ Cardinality(Stored) <= MaxKeys
  /\ \A k \in Stored : /\ entry[k].credit <= budget
                       /\ entry[k].state = "closed" <=> entry[k].credit > 0

(* A key trips on TripFailures failures in a row at the latest, and never   *)
(* with fewer failures in one stretch of CLOSED, however many successes are *)
(* mixed in (Report).                                                       *)
TripsInTime ==
  \A k \in Stored :
    IF entry[k].state = "closed" THEN seen[k].streak < TripFailures
    ELSE seen[k].fails >= TripFailures

(* The cooldown doubles with n up to MaxCooldown and jitter never takes it  *)
(* past that: an OPEN key is deniable for MaxCooldown at most, a probe for  *)
(* BaseCooldown (cooldownDuration, Allow).                                  *)
DenialsEnd ==
  \A k \in Stored :
    LET e == entry[k]
        wait == Min({BaseCooldown * 2 ^ e.n, MaxCooldown})
    IN /\ e.state = "open" => /\ e.openUntil <= clock + MaxCooldown
                              /\ Parts * seen[k].wait <= wait * (Parts + Spread)
                              /\ Parts * (seen[k].wait + 1) > wait * (Parts - Spread)
       /\ e.state = "half" /\ e.outstanding => e.probeUntil <= clock + BaseCooldown

Probes(k) == \E c \in Callers : /\ caller[c].pc = "allow" /\ caller[c].key = k
                                /\ caller'[c].pc = "attempt" /\ entry'[k].state = "half"

(* In true time a tripped key is probed after its cooldown, and once more   *)
(* only after the lease of the last probe, less the lag of the clock        *)
(* reading (Allow, Report).                                                 *)
ProbesAreSpaced ==
  [][\A k \in Keys : Probes(k) =>
       clock >= seen[k].since - MaxLag
                  + IF entry[k].state = "open" THEN seen[k].wait ELSE BaseCooldown]_vars

(* The same entry before and after a step.                                  *)
Same(k) == k \in Stored /\ entry'[k] # None /\ seen'[k].odd = seen[k].odd

(* A key forgets its exponent only after it has been CLOSED for MaxCooldown *)
(* in true time, less the lag (resetNIfClosedLongEnough).                   *)
ExponentIsKept ==
  [][\A k \in Keys : Same(k) /\ entry'[k].n < entry[k].n =>
       entry[k].state = "closed" /\ clock >= seen[k].since + MaxCooldown - MaxLag]_vars

(* A key is forgotten only when nobody called for TTL, less the lag, by     *)
(* Close, or for a new key when the map is full of keys that are not        *)
(* expired: denied calls keep an OPEN key (loadEntry, dropOne).             *)
ForgetsIdleOnly ==
  [][\A k \in Stored : ~Same(k) =>
       \/ closed'
       \/ clock >= seen[k].touched + TTL - MaxLag
       \/ /\ \E j \in Keys \ Stored : entry'[j] # None
          /\ Cardinality({j \in Stored : clock < entry[j].expireAt + MaxLag}) >= MaxKeys]_vars

=============================================================================
