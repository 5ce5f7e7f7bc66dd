# TLA+ models of traefik-middleware-utilities

The repository is a set of Go packages that Traefik plugins share.  The packages
have no main program of their own: a plugin opens its long-lived values through
`reclaim`, and those values use a rate limiter (`windowcounter`, `tokenbucket`),
an admission gate in front of a backend (`backendbackoff`), an address table
(`iplookup`), and, below the limiters, a Redis client (`simpleredis`).  What they
have in common is that they are called by many request goroutines at once, keep
state under a mutex, and do something outside that mutex: a hook, a Redis command,
a timer, a clock reading.  That is what the models are about.

Each section below takes one package: what it does, how the model's state and
actions correspond to the code, what is checked, with which bounds and why they
are enough.  `PROJECT.json` holds the exact source lines of every definition.

| package | modules | runs |
| --- | --- | --- |
| `reclaim` | `ReclaimTable`, `ReclaimAlias`, `MCReclaimTable`; proofs in `ReclaimFrame`, `ReclaimHolderSteps`, `ReclaimTableProofs` | `reclaim_lifecycle`, `reclaim_names`, `reclaim_live`, `reclaim_grace` |
| `windowcounter` | `WindowCounter`, `MCWindowCounter`; proofs in `WindowCounterProofs` | `window_buffered`, `window_lifecycle`, `window_two_stops` |
| `simpleredis` | `RedisClient`, `MCRedisClient`; proofs in `RedisClientSteps`, `RedisClientProofs` | `redis_pool` |
| `backendbackoff` | `BackendBackoff`, `MCBackendBackoff`; proofs in `BackendBackoffProofs` | `backoff` |
| `tokenbucket` | `TokenBucket`, `MCTokenBucket`; proofs in `TokenBucketProofs` | `bucket`, `bucket_refund` |
| `iplookup` | `IPLookup`, `PrefixTable`, `MCIPLookup` | `lookup` |

Run one with `tlc -config ReclaimNames.cfg MCReclaimTable`; check a proof module
with `tlapm TokenBucketProofs.tla`.  Every run ends within four minutes on two
cores.  Runs of the concurrent components say `CHECK_DEADLOCK FALSE`: their
processes make a bounded number of calls and then really stop.  `lookup` never
stops, and checks deadlock.

In every module, a definition whose comment begins with `Mutant:` is a plausible
bug of the definition it stands beside.  It is used by no specification; putting
it in the place of the original must break the property that `PROJECT.json` names
with it, which shows that the property depends on that piece of code.

Every module states the type of its variables as `TypeOK`.  All but that of `IPLookup`
are proved; that one holds on the instance of the run (add `INVARIANT TypeOK` to the
configuration to see it).

## reclaim: a table of leased values

`table.go` keeps one value per key.  `Open` creates it, or binds another context to
the one that is there; when the last context is done the value is slept and kept
for a grace period, in which a later `Open` wakes it, and closed afterwards.
`alias.go` adds public names that follow a value, and subscribers that are told
when a name leads to another value.

A process of `ReclaimTable` is one Open call and then the goroutine that drops its
holder; `pc[o]` is where it stands.  The incarnation that Open `o` creates carries
the name `o`, so `state[o]`, `holders[o]`, `timer[o]`, `enforce[o]` are the fields
of its `slot` and `items` is `t.items`.  `end[i]` is the rest of whichever goroutine
claimed `i` for Close: a drop, an Open whose Wake panicked, a grace timer, or Reset.
`life[i]` is a ghost, the value as its hooks see it.  One action is one critical
section of `t.mu`, or the return of one hook, which runs outside it.  Create may
fail, Wake and Sleep may panic, a context may be done at any time (before Open has
bound it, too), and a context may have a nil `Done` channel, in which case a
watcher polls `Err`.  `ReclaimAlias` holds the names and the `*Locked` helpers,
which the critical sections of the table call as they do in Go.

What is checked:

- `reclaim_lifecycle`: three Opens of one key, failing create, panicking Wake, with
  and without `EnforceCloseBeforeOpen`, and one Reset.  A value somebody holds is awake
  and mapped (`HeldIsAwake`, before any Reset: Reset takes values from their holders);
  `holders` is the number of Opens between bind and release (`HolderCount`); the hooks
  alternate as the lifecycle allows (`HooksAlternate`); a value is claimed for Close once
  (`OneEnding`).  Reset ends what is at rest, leaves what is moving to its one owner
  (`BusyHasOneOwner`) and announces an orphan before it disposes of it
  (`OrphanBeforeDispose`), and no drop or timer that outlives it unmaps a later incarnation
  (`AwakeIsMapped`).  Three Opens are the smallest number with a holder, a waiter and a
  later Open that meets what the two left, before or after the Reset.  Sleep does not
  panic in this run; see "Disagreements" for the case in which it does.
- `reclaim_names`: two publishers, two names, a subscriber, values of two keys that
  sleep, close and are taken by a Reset meanwhile.  The alias entries and the reverse
  links of the slots agree (`LinksMirrorEntries`), the subscriber has been given the
  current value (`WatcherUpToDate`), and a name leads to no closed value (`BoundIsAlive`).
  Subscribers do not see each other; a second one multiplies the run by ten, and the
  theorems below are about any number.
- `reclaim_live`: two Opens, every hook failing, one Reset, a context without a `Done`
  channel.  With enforcement no create runs before the previous Close returned
  (`EnforcedCloseBeforeCreate`, before any Reset, which unmaps regardless); under
  fairness every Open returns (`OpenReturns`), every value whose contexts are done is
  closed (`OrphansAreClosed`), and polling watchers stop (`WatchersExit`).
- `reclaim_grace` finds a violation; see "Disagreements".

Fairness.  `Fairness` is weak fairness of each goroutine's own next step, of timers
and of the hooks' return: the Go scheduler runs a runnable goroutine, and waiting on
`slot.ready` is waiting on a channel that, once closed, stays closed, so no strong
fairness is needed.  Nothing makes a caller open a key, cancel a context or call
Reset.

Reset "must not race an Open on the same key" (table.go:802), so it begins only when
every Open has returned, and none begins before it is done.  A create or a Wake is
therefore never in flight beside it; drops, sleeps, grace timers and closes are.

### What is proved

For every finite set of Opens, every set of keys, names, publishers and
subscribers, any failing hooks and any number of Resets:

- `TypeCorrect`: `Spec => []TypeOK`.
- `HeldValueStaysAwake`, `CloseBeforeCreate`, `MappedSlotsAreLive`,
  `PeekTellsTheTruth`, `HoldersAreCounted`, `HooksRunInOrder`, `EndedOnce`: the
  properties `HeldIsAwake`, `EnforcedCloseBeforeCreate`, `MappedIsLive` (no key leads
  to an ended slot, so the `slotGone` retry of `lookupOpen` is never taken),
  `PeekIsTruthful`, `HolderCount`, `HooksAlternate` and the action property `OneEnding`.
- `BusyIsOwned` and `OrphansAreLogged`: `BusyHasOneOwner` and `OrphanBeforeDispose`.
- `LinksAreExact`, `WatchersAreUpToDate` and `NamesLeadToLiveValues`: the three
  properties of the names, `LinksMirrorEntries`, `WatcherUpToDate` and `BoundIsAlive`.
- `AwakeStaysMapped`: `AwakeIsMapped`, if Sleep is not among the hooks that fail.  The
  hypothesis is needed: a Sleep that panics after a Reset puts a closer over the
  later incarnation of its key (see "Disagreements").

The assumptions are `TableAssumption`, `AliasAssumption` and `EmptiesAssumption` (the
keys of the Opens are keys, the set of Opens is finite, `Nobody` is nobody, and no
value is one of the two empties), nothing else.

None of the properties is inductive.  `IndInv` (at the end of `ReclaimTable`) adds,
for each incarnation: a slot that does not exist yet is untouched and nobody refers
to it (`Fresh`); holders keep a slot awake unless Reset ended it, and the goroutine
that owns a busy slot is alone (`Roles`); how `slot.state`, the stage of the ending
and the hooks that ran agree (`Stages`); a mapped slot is live and under its own key
(`Mapped`); before any Reset a slot in use is mapped, and an enforced one stays
mapped, through its closer if need be, until Close has returned (`Mapping`); and
the holder count (`Count`).  `ResetAlone` says that no Open is in flight beside
Reset, which the model takes from Reset being a function for tests.

An action works on one incarnation.  `ReclaimFrame` therefore proves, after the
types, once that the invariant of every other incarnation survives a step that
touches only `i`; `ReclaimHolderSteps` (an Open and its drop) and the first half of
`ReclaimTableProofs` (expire, endings, Reset) have one lemma per action for `i`
itself, and the second half of `ReclaimTableProofs` puts them together.  The count needs facts about
cardinality, from the library's `FiniteSetTheorems`; it is kept apart from the
rest so that no step has to reason about both.

Three more invariants rest on `IndInv` and are kept apart from it, so that each is
proved from what it needs.  `TransitionInv`: a busy slot has an owner (`IndInv` says
it has at most one), and the orphaning is logged before a slot is asleep.  `AwakeInv`: an awake
slot is mapped or on Reset's list, and a slot being created or woken is mapped.
`NamesInv`: the three properties of the names, a subscriber has an entry, and what
Reset took has no name left; each of the three needs the others, since an unbind
follows the links, and a delivery the entry.  Their lemmas are the last sections of
`ReclaimHolderSteps` (`TransitionStep`), `ReclaimTableProofs` (`HolderRoots`,
`EndingRoots`) and `ReclaimFrame` (`NamesStep`: most steps of the table leave the names
alone, unbind one incarnation or all of them).  The liveness properties are only
model-checked.

## windowcounter: a sliding-window limiter over Redis

With a positive `sync_rate`, `Take` counts a hit in a local buffer per window and a
timer flushes the buffers to Redis, one `EVAL` each; `GET` and `EVAL` run without
`l.mu`.  In `WindowCounter`, `lim[l]` is the `Limiter` struct with its mutex, `reg[p]`
the locals of a call, tick or lifecycle caller, `redis` the shared counters, and one
action is what runs between two points where the mutex or Redis is waited for.
Time is counted in windows: `w` is the Redis key of a window, a Take in `w` reads
`w` and `w - 1`, and `w` expires at `w + 2`.  A failed command may or may not have
run on the server, and an `EVAL` may have run twice (the client resends).

- `window_buffered`: two calls, each a Take or a Peek, and two timers over the
  windows 0 to 3 with one Redis failure.  Every hit is in Redis or in a buffer that
  a flush will find, and exactly once when nothing failed (`HitsConserved`); a
  snapshot is sent by one flusher and stays in the buffer until its reply
  (`OneFlushInFlight`); a call that begins after a failed flush, with none
  succeeding since, returns an error (`FailureIsNotSilent`).  Three windows let a
  buffer expire and be deleted while a call still holds it; two timers let a tick
  overlap the next.
- `window_lifecycle`: a caller of Sleep, Wake and Close (`Stoppers`) that makes two
  calls, and another that calls Wake once, against ticks, a Take and a failure.
  `flushBusy` counts the timers armed or ticking (`TicksAreCounted`), no tick outlives
  Sleep or Close (`StoppedIsQuiet`: while nobody is stopping and there is no timer,
  nothing ticks), both return (`LifecycleReturns`), and a counted hit reaches Redis while
  a timer is armed (`HitsReachRedis`).  The Wake of the second caller may come while the
  first waits for a tick; `stopping` is what refuses it, and without it the wait would
  be for a timer that arms itself again and again.  Two timers let it be armed then.
- `window_two_stops` is the same with two callers of Sleep, Wake and Close and finds a
  violation of `LifecycleReturns`; see "Disagreements".

Fairness.  `FairSpec` is strong fairness of each process's step: the mutex is
enabled again and again rather than continuously for a waiter, and Go's
`sync.Mutex` hands it over in starvation mode to a goroutine that has waited for a
millisecond.  Failures are actions of their own without fairness, and bounded.

### What is proved

For every number of limiters, calls, lifecycle callers, timers, windows and failures
(`CounterAssumption`: the processes are of one kind each and belong to a limiter;
`NilAssumption`: nil is no buffer and no snapshot): `TypeCorrect` (no `localDelta` and no
`flushBusy` falls below zero), `FlushesAreExclusive` (`OneFlushInFlight`),
`OutagesAreReported` (`FailureIsNotSilent`), `BusyCountIsExact` (`TicksAreCounted`) and
`NoTickOutlivesStop` (`StoppedIsQuiet`, with any number of concurrent callers of Sleep, Wake
and Close, where the run has one of each kind).

The inductive invariant `IndInv` is the type and four clauses:

- `FlightsOK`: every snapshot a process holds is one its buffer knows of (`Backed`: the
  window is in the map, `flushDelta` is the amount, `localDelta` still contains it), and
  two processes of a limiter hold no snapshot of one window (`Apart`).  Without it the
  subtraction after a reply could go below zero, and a buffer could be deleted under a flush.
- `CallsOK`: a call that has looked its buffer up finds it in the map when it counts,
  unless a flush took the buffer out.
- `ToldOK`: a call that began after a failed flush still finds the error, up to its
  last look at it.
- `TimersOK`: the armed timer belongs to the limiter, a detached one to the
  caller that stops it; `flushBusy` is the number of timers that are not free.

There is one lemma per action.  An action moves one process, and its lemma says what
becomes of that process and of its limiter; `CalmMove`, `OfCall`, `OfUse` and
`TimersStep` carry the predicates of all other processes over the step.
Counting, from `FiniteSetTheorems`, is confined to `TimersStep` and its lemmas.

## simpleredis: the pooled client

A command is a process of `RedisClient`: it takes one of `PoolSize` in-use turns,
borrows an idle socket or dials, sends one request, reads one reply, and releases or
closes the socket (`pool.go`, `commands_exec.go`, `resp.go`).  It retries after
transport errors and after `LOADING` replies; Eval sends `EVAL` after `NOSCRIPT`, MSetEX
goes from `MSETEX` to `EVALSHA` to `EVAL`.  A context may end at any point, in which
case a watcher closes the socket, possibly late.  `sock` holds both ends of every
socket; the server is external and is modelled by what the client can see: it
answers in order, may restart (losing the script cache and every connection),
refuse, or send a surplus reply, which arrives together with the one it follows.
A restart is the only way a connection is lost in the model, and loses all of them.  A
reply is in the client's reader as soon as it is sent, so the unread-bytes checks see it;
what is still in the kernel, and invisible to `Buffered`, is outside the model.  Sockets
that a sweep or Close takes off the idle list are closed in the same step; the code
closes them after the unlock, when nothing else refers to them.

`redis_pool` runs two commands and one Eval with a context that may end, over two turns and
three sockets, with one retry and one fault.  Turns are conserved over every way out
(`TurnsConserved`); every open socket is idle, in use or about to be closed, also
across Close (`SocketsAccounted`); a command gets the reply to its own request
(`RepliesMatch`); a watcher that fires late never closes a socket in another
command's hands (`LateCloseIsHarmless`); idle and used sockets stay within
`PoolSize` unless a command dialed past a dead idle list (`LiveCap`); a command runs
once on the server unless a lost connection took its reply (`AppliedOnce`).  Three commands
over two turns make one of them wait for a turn; three sockets allow the one extra
dial of a retry; a restart loses the script, so that the Eval goes on to its second hop.
MSetEX differs from Eval in where it starts and in one hop more, which makes the run
five times as long; set `Groups = {c2}` and `NativeGroup = FALSE` to see it.  The
theorems below are about all of them.

The sweep of `takeIdleConn` keeps the sockets younger than the idle timeout in their
order; ages are not modelled, so `Survivors` lets any subset of the idle list
survive, in its order, and the newest survivor is reused.

### What is proved

For every finite set of commands and of sockets, every `PoolSize`, `MaxIdleConns`,
`MaxRetries` and number of faults (`ClientAssumption`): all six properties of the run,
as `TurnsAreConserved`, `SocketsAreAccounted`, `RepliesAreMatched`,
`LateClosesAreHarmless`, `LiveSocketsAreCapped` and `CommandsRunOnce`.  So the bounds of
the run (three commands, one fault, one retry) restrict none of them.

`IndInv` in `RedisClientProofs` is the inductive invariant.  Its clauses, and what
each is needed for:

- `Locals`: a command has a socket exactly between its dial or borrow and its
  release, a watcher only while it reads, and a reply of its own only.
- `Exchange`: the socket a command is about to write to is empty, what it reads from
  is its own, a socket it calls reusable is empty, and a socket closed or about to be
  closed under it means that its context is done.  Without the last clause a late
  close could hit a parked socket.
- `HalfDuplex`: a socket carries a request or replies, and nothing when its peer is gone.
- `Pool`: the idle list has no repetitions, holds open and empty sockets that no
  watcher is after, no two commands share a socket, and every open socket is in
  one of the two places.
- `Runs`: a request is outstanding on one socket at most and only while everything
  the command sent before was lost in a restart; what the outcome says about the
  runs so far.  It is what makes a retry safe.
- `TurnsConserved`, and `Cap`: idle sockets and the commands that have or are about
  to have a socket stay within `PoolSize` until one dials past the idle list.  `LiveCap`
  itself is not inductive, since a command in `dial` adds a socket in its next step.

`RedisClientSteps` proves the steps of a command, `RedisClientProofs` those of
contexts, watchers, Close and the server, one lemma per action.  They do not count:
a step shows `Balanced`, that at most one command moves between the states that hold
a turn or claim a socket and that `turns` and the idle list move with it.
Only then, `CountOne` and `CountNone` turn that into the two counts, with the library's
theorems about cardinality.  `TurnsOut` (a held turn is missing from the channel, so it
can be given back) is the one consequence of the count that steps need.

## backendbackoff: an admission gate

Per key, `Allow` admits until a success-credit bucket trips, then denies for an
exponential, jittered cooldown, and then lets one probe through; `Report` feeds the
outcome back.  Keys live in a map with a cap and a time to live.  In
`BackendBackoff`, `entry` is `g.keys`, a caller asks, attempts and reports; both
calls read the clock before they take the lock, so `now` may be behind by `MaxLag`.
Credit is counted in units that make the ratio `p/(1-p)` whole, and the jitter is
any sample the code can draw.  `seen` is a ghost that records in true time what
happened to a key.

`backoff`: two callers, two keys, one slot, clock up to 10.  Credit and state agree
and the map stays within its cap (`CreditMatchesState`); a key trips no earlier than its failures
warrant and no later (`TripsInTime`); a denial ends, after at most `MaxCooldown` and
at least the jittered wait of its exponent (`DenialsEnd`); probes are at least the
cooldown apart (`ProbesAreSpaced`); the exponent falls back only after the reset
time or a new entry (`ExponentIsKept`); an entry is forgotten only when idle,
or evicted at the cap (`ForgetsIdleOnly`).  With a `BaseCooldown` of 2 and a
`MaxCooldown` of 7 the waits are 2, 4 and 7: a key trips, cools down, is probed, trips
again with the doubled wait and a third time with the capped one within ten ticks, and
a key that stays CLOSED has its exponent reset.  A wait that grew by the base instead
of doubling would be 6 the third time, down to 4 with jitter instead of 5, which
`DenialsEnd` tells from 7.  One slot for two keys makes every new key an eviction.

### What is proved

For every configuration, number of callers and keys, and lag of the clock readings
(`GateAssumption`: what the constructor lets through; `NoneAssumption`: nil is no entry):

- `TypeCorrect`; `CreditAndCap` (`CreditMatchesState`); `KeysTripInTime` (`TripsInTime`);
  `OnlyIdleKeysAreForgotten` (`ForgetsIdleOnly`).
- `ProbesWaitForCooldown` (`ProbesAreSpaced`: a tripped key is probed only after the
  cooldown it was given has passed in true time, a probe is followed by another only
  after its lease, both less the lag) and `ExponentIsKeptWhileStored` (`ExponentIsKept`).
- `DenialsAreBounded`: a denial ends within `MaxCooldown`.  It is the part of `DenialsEnd`
  that does not depend on how the cooldown grows: that it doubles is about powers of
  two, which takes induction, so the property as a whole stays with the run.

`IndInv` describes an entry together with what happened to its key in true time
(`EntryOK`): a CLOSED one has credit between what its failures in a row and its failures
in this stretch leave of the budget; an OPEN or HALF-OPEN one has none, and a deadline
that is near and was not set too early; `expireAt` is no earlier than the last call
plus `TTL`, less the lag.  `CallerOK` bounds the lag of a reading.  Credit is a
product of costs and counts; `CostTimes` and `BudgetType` hold what is needed of it.

## tokenbucket: one bucket, two stores

`TokenBucket` models one key.  `store` says whether it lives in process
(`memory.go`: clock read under the mutex, so Allow is one step) or in Redis
(`redis.go`, `lua.go`: the clock is read, the script sent, and run later, in any
order, twice if a reply was lost).  Limiters of the Redis store read clocks that are up to
`MaxSkew` behind.  The Go formula (`clock.go`) and the Lua script are written down
separately, as in the code.  Tokens are counted in grains, `Unit` to the token and
`Rate` to the microsecond, so that what the code does in floating point is exact;
`maxDelay` is a duration, of which `Nanos` make a microsecond, because the code
truncates it in one place and not in another.

`bucket` checks, with two limiters, skew, lag and one resend: what a bucket hands
out is at most its burst, the inflow since its birth and the debt that `maxDelay`
permits (`ConsumptionBound`); if `ttl` is long enough to fill a bucket, with skew and
lag to spare, forgetting an idle bucket grants nothing over all its lives
(`ForgettingIsFree`); the two formulas agree from every reachable bucket at every
time (`FormulasAgree`); and an Allow that is told to go on has paid
(`AllowedIsPaid`, for a `maxDelay` of whole microseconds).  The rate and the unit are
coprime, so that partial tokens of every size occur; the clock reaches past the
`ttl`, so that a bucket is born, drained, forgotten and born again.  `bucket_refund`
is the same system with a `maxDelay` that has a fraction; see "Disagreements".

### What is proved

For every rate, unit, burst, `maxDelay`, `ttl`, skew, lag, number of limiters,
resends and clock bound (`BucketAssumption`: what `validateClock` lets through):
`TypesHold` (`TypeOK`: the debt stays within `maxDelay` and the credit within burst),
`BucketIsBounded` (`ConsumptionBound`), `ExpiryIsFree` (`ForgettingIsFree`),
`StoresAgree` (`FormulasAgree`) and, under `WholeDelay`, `AdmittedHavePaid` (`AllowedIsPaid`).  The inductive invariant is `BucketInv`, which says
when the bucket was last used and bounds what this bucket and all its lives together
have handed out, and `CallInv`, which says that a script under way carries a reading
no older than skew and lag allow.  It is needed because the bound on all lives holds
at a rebirth only if the forgotten bucket had the time to fill, and that time
is measured from a late reading.  The steps multiply rates by times; the few facts about
products that they use are lemmas (`InflowAdds`, `InflowGrows`, `KeptAdds`), so that
no other leaf contains one.

`WholeDelay` says that `maxDelay` is a whole number of microseconds, and that a grain
takes at least one duration to flow in (`Rate <= Nanos`).  Both are needed.  The refund
compares the exact wait, `allowedFromWait` a wait cut to whole durations: at a faster rate
a wait can exceed `maxDelay` by less than one duration, which is refunded, and is
admitted after the cut (`Rate = 3`, `Nanos = 1`, `MaxDelay = 2` shows it).  Under it
the two comparisons agree, and `StoreIsPaid` carries
`admitted <= consumed` over a step of either store.

## iplookup: two bit trees

`IPLookup` models `helper.go` and `tree.go`: a bit tree per family, under one lock,
so that each operation is one step.  A node is the string of bits that leads to it,
an address a string of `Width4` or `Width4 + PadLen` bits, and the wide ones that
begin with the mapped prefix are IPv4 addresses written wide, as `::ffff:0:0/96` is.
`net.ParseCIDR` and `net.IP.To4` are external.  AddCIDR, AddEntry, RemoveCIDR, Reset,
Contains and Count are actions or operators.

`PrefixTable` says what the package promises: a map from networks to metadata, whose
lookup answers with the longest stored network that holds the address.  `lookup`
checks that `IPLookup` implements it (`ImplementsTable`, with the table read off the
trees by `Stored`), `Count` included, and that pruning leaves no branch without an
endpoint below it (`NoDeadBranches`).  Two
bits and one bit of prefix give every relation two networks can have (equal, nested,
siblings, disjoint, of two families) and both spellings of IPv4; three stored
networks are an endpoint, a branch below it and a sibling.  Metadata is only
compared, so permuting it is a symmetry.

## Disagreements between the code and its documents

Three runs exhibit one each:

- `reclaim_grace` (`GraceIsKept`): `lookupOpen` ignores the result of
  `graceTimer.Stop`.  An expire goroutine that had already fired finds the value
  asleep again after a later drop and closes it before that sleep's grace has
  elapsed.  The lifecycle specification says that Open "SHALL cancel that waiter so
  expire does not dispose it".
- `window_two_stops` (`LifecycleReturns`): Sleep detaches the timer of a running tick and
  waits for it on `flushBusy`.  A second Sleep or Close finds no timer and clears
  `stopping` on its way out (limiter.go:395), and a Wake then starts a timer, which the
  first caller waits for as well; its ticks arm themselves again, so the wait does not
  end.  The sync-flush specification says "While Sleep or Close is waiting for an
  in-flight tick, a concurrent Wake MUST NOT start a new timer, and Sleep MUST return".
- `bucket_refund` (`AllowedIsPaid`): the refund compares the wait with `maxDelay` cut
  to whole microseconds, `allowedFromWait` compares durations.  With a `maxDelay` that
  has a fraction of a microsecond an Allow can be both refunded and admitted.

Others came up while modelling and are built into the models as the code has them,
without a run of their own:

- reclaim: after a panicking Sleep, `installCloser` (table.go:269) puts its closer
  under the key without asking whether a newer incarnation occupies it since a Reset;
  the context-lease specification says a stale drop must not change a later
  incarnation.  `reclaim_lifecycle` therefore leaves panicking Sleeps out, and the theorem assumes
  none.  A comment at
  table.go:611 says that no schedule makes a drop park; two holders that both release
  before either claims the Sleep do, since the two are critical sections apart.
- windowcounter: Sleep flushes, but skips a window whose `EVAL` is in flight
  (limiter.go:428), so a hit counted meanwhile stays behind until Wake, where the
  sync-flush specification says "Sleep SHALL flush pending deltas then stop the flush
  timer".  `HitsReachRedis` excuses a stopped timer for that reason.  A `GET` answered before a flush may be applied after it and set
  `redisKnown` back (limiter.go:302).  With `sync_rate` 0, an `INCR` that is sent again
  finds the key present and sets no expiry.
- simpleredis: a command that gave up on the idle list dials beside it, so idle plus
  used sockets can exceed `PoolSize`, which config.go:37 rules out; `LiveCap` excepts it.
- backendbackoff: a late Report of an attempt that was admitted before the trip is
  taken for the probe's outcome (allow.go:61); a clock reading taken before the lock
  shortens cooldown, reset time and ttl by the time spent waiting.  The properties allow for `MaxLag`.
- tokenbucket: a `ttl` shorter than the refill time makes forgetting a second burst;
  a long enough one is the premise of `ForgettingIsFree`.

## What is only model-checked, and what that leaves open

For the instances above only:

- all liveness (`OpenReturns`, `OrphansAreClosed`, `WatchersExit`, `LifecycleReturns`,
  `HitsReachRedis`): liveness under fairness is outside the proof system;
- `HitsConserved` of `WindowCounter`: it adds up the buffers of all limiters by a fold
  over sets, and what a fold computes takes induction;
- `DenialsEnd` of `BackendBackoff` as far as it says that the cooldown doubles, for the
  same reason;
- `NoDeadBranches` and the refinement of `PrefixTable` by `IPLookup`: both are about strings of
  bits of any length, and would need induction over them.

## Not modelled

- The RESP encoding and parsing (`resp.go`) and the one-line command wrappers
  (`commands.go`): byte formats without state, covered by fuzz tests.  The reading
  and the unread-bytes checks of `do` are modelled.
- Configuration (`simpleredis/config.go`, the parsing parts of the constructors):
  defaults and range checks.  What they let through is the constants' assumptions.
- windowcounter's exact mode (`sync_rate` 0): each call is one `INCR` and one `GET` and
  the limiter keeps no state; the sliding estimate is floating point and changes no
  state in either mode.
- Floating point as such, in `tokenbucket` and `backendbackoff`: the models compute
  with exact fractions, so rounding and Lua's `tostring` precision are outside them.
- `reclaim/opentyped.go`: type assertions around Open and Peek.
- The composition of packages.  `windowcounter` and `tokenbucket` see the client as
  commands that answer, fail, or run twice, which is the behaviour `RedisClient`
  establishes for it; running the modules together would multiply state without an
  interaction that is not already in one of them.
- `traefikemulator` and `e2e`: test harnesses.
