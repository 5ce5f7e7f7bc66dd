---------------------------- MODULE ReclaimTable ----------------------------
(***************************************************************************)
(* The reclaim table (reclaim/table.go): one value per key, created once,   *)
(* slept when its last holder's context is done, woken by an Open inside    *)
(* the grace period and closed after it.                                    *)
(*                                                                          *)
(* A process is one Open call and, after it returned, the goroutine that    *)
(* drops its holder when the context is done; pc[o] is where it stands.     *)
(* The incarnation that Open o creates is named o, so state[o], holders[o]  *)
(* ... are the fields of that slot.  end[i] is the rest of whichever        *)
(* goroutine claimed incarnation i for close (a drop, an Open whose Wake    *)
(* panicked, a grace timer, Reset).  One action is one critical section of  *)
(* t.mu, or the return of one hook, which runs outside it.                  *)
(***************************************************************************)
EXTENDS FiniteSets, ReclaimAlias

CONSTANTS
  Keys,
  KeyOf,       \* the key each Open call passes
  NilDone,     \* Open calls whose context has a nil Done channel
  Failing,     \* which of create, wake and sleep may fail or panic
  Enforces,    \* the EnforceCloseBeforeOpen values create may return
  ZeroGrace    \* Config.Grace is zero

ASSUME TableAssumption ==
  /\ KeyOf \in [Opens -> Keys]
  /\ NilDone \subseteq Opens
  /\ Failing \subseteq {"create", "wake", "sleep"}
  /\ Enforces \subseteq BOOLEAN
  /\ ZeroGrace \in BOOLEAN
  /\ IsFiniteSet(Opens)

VARIABLES
  ctx,         \* the context of each Open call
  pc,          \* where each Open call, then its drop goroutine, stands
  ref,         \* the slot it works on
  returned,    \* Open returned the value, so its drop runs on another goroutine
  items,       \* t.items
  state,       \* slot.state; "none" before the slot exists
  holders,     \* slot.holders
  createErr,   \* slot.createErr # nil
  enforce,     \* slot.hooks.EnforceCloseBeforeOpen
  finished,    \* slot.finished has been closed
  timer,       \* slot.graceTimer is armed
  fired,       \* expire goroutines a grace timer started that hold no claim yet
  end,         \* stage of the goroutine that ends the incarnation
  life,        \* what the hooks have done to the value so far
  orphaned,    \* reclaim_orphan has been logged for the incarnation
  reset        \* Reset: the incarnations left to end, and the one being ended

slotVars == <<items, state, holders, createErr, enforce, finished, timer, fired,
              end, life, orphaned, reset>>
tableVars == <<ctx, pc, ref, returned, slotVars>>
vars == <<tableVars, aliasVars>>

(* What a key can be mapped to: an incarnation, or the closer placeholder   *)
(* that occupies the key while the Close of incarnation o runs.             *)
Inc(o) == <<"incarnation", o>>
Closer(o) == <<"closer", o>>
NoSlot == <<"none">>
Slots == {Inc(o) : o \in Opens} \cup {Closer(o) : o \in Opens}

(* The stages of an ending.  Close is in flight in the Disposing ones.      *)
Disposing == {"closeMapped", "closeBehindCloser", "closeUnmapped", "closeExpired"}
StageAfter ==
  [none |-> "none",
   closeMapped |-> "unmap", unmap |-> "wakeWaiters", wakeWaiters |-> "over",
   wakeOld |-> "closeBehindCloser", closeBehindCloser |-> "unmapCloser",
   unmapCloser |-> "wakeCloser", wakeCloser |-> "over",
   closeUnmapped |-> "over",
   closeExpired |-> "unbind", unbind |-> "over",
   resetSleep |-> "closeUnmapped",
   over |-> "over"]

Pcs == {"idle", "lookup", "parked", "woken", "create", "wake", "bind", "snapshot",
        "held", "polled", "release", "claim", "dropParked", "sleep", "orphan", "park",
        "expire", "ending", "over"}

TypeOK ==
  /\ ctx \in [Opens -> {"live", "done"}]
  /\ pc \in [Opens -> Pcs]
  /\ ref \in [Opens -> Slots \cup {NoSlot}]
  /\ returned \in [Opens -> BOOLEAN]
  /\ items \in [Keys -> Slots \cup {NoSlot}]
  /\ state \in [Opens -> {"none", "busy", "awake", "asleep", "gone"}]
  /\ holders \in [Opens -> Int]
  /\ createErr \in [Opens -> BOOLEAN]
  /\ enforce \in [Opens -> BOOLEAN]
  /\ finished \in [Opens -> BOOLEAN]
  /\ timer \in [Opens -> BOOLEAN]
  /\ fired \in [Opens -> Nat]
  /\ end \in [Opens -> DOMAIN StageAfter]
  /\ life \in [Opens -> {"none", "awake", "asleep", "broken", "closed"}]
  /\ orphaned \in [Opens -> BOOLEAN]
  /\ reset \in [running : BOOLEAN, todo : SUBSET Opens, current : Opens \cup {Nobody}]
  /\ AliasTypeOK

Init ==
  /\ ctx = [o \in Opens |-> "live"]
  /\ pc = [o \in Opens |-> "idle"]
  /\ ref = [o \in Opens |-> NoSlot]
  /\ returned = [o \in Opens |-> FALSE]
  /\ items = [k \in Keys |-> NoSlot]
  /\ state = [o \in Opens |-> "none"]
  /\ holders = [o \in Opens |-> 0]
  /\ createErr = [o \in Opens |-> FALSE]
  /\ enforce = [o \in Opens |-> FALSE]
  /\ finished = [o \in Opens |-> FALSE]
  /\ timer = [o \in Opens |-> FALSE]
  /\ fired = [o \in Opens |-> 0]
  /\ end = [o \in Opens |-> "none"]
  /\ life = [o \in Opens |-> "none"]
  /\ orphaned = [o \in Opens |-> FALSE]
  /\ reset = [running |-> FALSE, todo |-> {}, current |-> Nobody]
  /\ AliasInit

(* close(ready): everyone parked on slot s moves on.  A slot gets a new     *)
(* ready channel only after the old one was closed, so nobody parked on s   *)
(* waits for an older channel.                                              *)
Released(s) ==
  [o \in Opens |->
     IF ref[o] = s /\ pc[o] = "parked" THEN "woken"
     ELSE IF ref[o] = s /\ pc[o] = "dropParked" THEN "claim"
     ELSE pc[o]]

(* Mutant: delete without comparing slots.                                  *)
UnmappedAlways(k, s) == [items EXCEPT ![k] = NoSlot]

(* delete(t.items, key) when the key is still mapped to slot s.             *)
Unmapped(k, s) == IF items[k] = s THEN [items EXCEPT ![k] = NoSlot] ELSE items

-----------------------------------------------------------------------------
(* Open: lookupOpen and its five outcomes.  The slotGone case (openRetry)   *)
(* has no action: MappedIsLive below shows that no mapped slot is gone.     *)

(* The caller's context is cancelled, before, during or after its Open.     *)
Cancel(o) ==
  /\ ctx[o] = "live"
  /\ pc[o] # "over"
  /\ ctx' = [ctx EXCEPT ![o] = "done"]
  /\ UNCHANGED <<pc, ref, returned, slotVars, aliasVars>>

(* Open is called.  Reset "must not race an Open": no Open starts inside it. *)
StartOpen(o) ==
  /\ pc[o] = "idle"
  /\ ~reset.running
  /\ pc' = [pc EXCEPT ![o] = "lookup"]
  /\ UNCHANGED <<ctx, ref, returned, slotVars, aliasVars>>

(* openCreate: the key is absent; register a busy slot before create runs.  *)
OpenCreate(o) ==
  /\ pc[o] = "lookup"
  /\ items[KeyOf[o]] = NoSlot
  /\ items' = [items EXCEPT ![KeyOf[o]] = Inc(o)]
  /\ state' = [state EXCEPT ![o] = "busy"]
  /\ ref' = [ref EXCEPT ![o] = Inc(o)]
  /\ pc' = [pc EXCEPT ![o] = "create"]
  /\ UNCHANGED <<ctx, returned, holders, createErr, enforce, finished, timer,
                 fired, end, life, orphaned, reset, aliasVars>>

(* openBind: the value is awake; count this holder in.                      *)
OpenBind(o, i) ==
  /\ pc[o] = "lookup"
  /\ items[KeyOf[o]] = Inc(i)
  /\ state[i] = "awake"
  /\ holders' = [holders EXCEPT ![i] = @ + 1]
  /\ ref' = [ref EXCEPT ![o] = Inc(i)]
  /\ pc' = [pc EXCEPT ![o] = "bind"]
  /\ UNCHANGED <<ctx, returned, items, state, createErr, enforce, finished,
                 timer, fired, end, life, orphaned, reset, aliasVars>>

(* Mutant: the waker is not counted in.                                     *)
OpenWakeUncounted(o, i) ==
  /\ pc[o] = "lookup"
  /\ items[KeyOf[o]] = Inc(i)
  /\ state[i] = "asleep"
  /\ state' = [state EXCEPT ![i] = "busy"]
  /\ timer' = [timer EXCEPT ![i] = FALSE]
  /\ ref' = [ref EXCEPT ![o] = Inc(i)]
  /\ pc' = [pc EXCEPT ![o] = "wake"]
  /\ UNCHANGED <<ctx, returned, items, holders, createErr, enforce, finished,
                 fired, end, life, orphaned, reset, aliasVars>>

(* openWake: the value is asleep; claim it and stop the grace timer.  Stop  *)
(* does not reach an expire goroutine the timer has already started.        *)
OpenWake(o, i) ==
  /\ pc[o] = "lookup"
  /\ items[KeyOf[o]] = Inc(i)
  /\ state[i] = "asleep"
  /\ state' = [state EXCEPT ![i] = "busy"]
  /\ timer' = [timer EXCEPT ![i] = FALSE]
  /\ holders' = [holders EXCEPT ![i] = @ + 1]
  /\ ref' = [ref EXCEPT ![o] = Inc(i)]
  /\ pc' = [pc EXCEPT ![o] = "wake"]
  /\ UNCHANGED <<ctx, returned, items, createErr, enforce, finished, fired, end,
                 life, orphaned, reset, aliasVars>>

(* openPark: a transition owns the slot, or a closer occupies the key.      *)
OpenPark(o) ==
  /\ pc[o] = "lookup"
  /\ \E i \in Opens : \/ items[KeyOf[o]] = Inc(i) /\ state[i] = "busy"
                      \/ items[KeyOf[o]] = Closer(i)
  /\ ref' = [ref EXCEPT ![o] = items[KeyOf[o]]]
  /\ pc' = [pc EXCEPT ![o] = "parked"]
  /\ UNCHANGED <<ctx, returned, slotVars, aliasVars>>

(* The wait on ready is over: replay the stored failure or look again.  A   *)
(* closer never carries one.                                                *)
Woken(o) ==
  /\ pc[o] = "woken"
  /\ pc' = [pc EXCEPT ![o] =
              IF \E i \in Opens : ref[o] = Inc(i) /\ createErr[i] THEN "over" ELSE "lookup"]
  /\ UNCHANGED <<ctx, ref, returned, slotVars, aliasVars>>

-----------------------------------------------------------------------------
(* put, wakeAndBind and their failures.                                     *)

(* publishPut: store the value and its hooks, bind this Open, free waiters. *)
PublishPut(o) ==
  /\ pc[o] = "create"
  /\ state' = [state EXCEPT ![o] = "awake"]
  /\ holders' = [holders EXCEPT ![o] = @ + 1]
  /\ items' = [items EXCEPT ![KeyOf[o]] = Inc(o)]
  /\ \E e \in Enforces : enforce' = [enforce EXCEPT ![o] = e]
  /\ life' = [life EXCEPT ![o] = "awake"]
  /\ pc' = [Released(Inc(o)) EXCEPT ![o] = "bind"]
  /\ UNCHANGED <<ctx, ref, returned, createErr, finished, timer, fired, end,
                 orphaned, reset, aliasVars>>

(* endBusySlot: the incarnation is gone, unmapped and unbound from its      *)
(* names, and everyone parked on it continues; o is the goroutine doing it. *)
EndBusySlot(o, i, err, next) ==
  /\ createErr' = [createErr EXCEPT ![i] = err]
  /\ state' = [state EXCEPT ![i] = "gone"]
  /\ finished' = [finished EXCEPT ![i] = TRUE]
  /\ items' = Unmapped(KeyOf[i], Inc(i))
  /\ pc' = [Released(Inc(i)) EXCEPT ![o] = next]
  /\ UnbindIncarnation(i)

(* create returned an error or panicked: there is no value to close.        *)
CreateFails(o) ==
  /\ pc[o] = "create"
  /\ "create" \in Failing
  /\ EndBusySlot(o, o, TRUE, "over")
  /\ UNCHANGED <<ctx, ref, returned, holders, enforce, timer, fired, end, life,
                 orphaned, reset>>

(* publishWake.                                                             *)
PublishWake(o, i) ==
  /\ pc[o] = "wake"
  /\ ref[o] = Inc(i)
  /\ state' = [state EXCEPT ![i] = "awake"]
  /\ life' = [life EXCEPT ![i] = "awake"]
  /\ pc' = [Released(Inc(i)) EXCEPT ![o] = "bind"]
  /\ UNCHANGED <<ctx, ref, returned, items, holders, createErr, enforce,
                 finished, timer, fired, end, orphaned, reset, aliasVars>>

(* installCloser: the incarnation is gone at once, and a busy placeholder   *)
(* takes its key until Close has returned.                                  *)
InstallCloser(o, i, err) ==
  /\ createErr' = [createErr EXCEPT ![i] = err]
  /\ state' = [state EXCEPT ![i] = "gone"]
  /\ finished' = [finished EXCEPT ![i] = TRUE]
  /\ items' = [items EXCEPT ![KeyOf[i]] = Closer(i)]
  /\ end' = [end EXCEPT ![i] = "wakeOld"]
  /\ pc' = [pc EXCEPT ![o] = "ending"]
  /\ UnbindIncarnation(i)

(* Mutant: a panic frees the key before Close although it is enforced.      *)
EndBusyAfterPanicUnmaps(o, i, err) ==
  /\ life' = [life EXCEPT ![i] = "broken"]
  /\ end' = [end EXCEPT ![i] = "closeUnmapped"]
  /\ EndBusySlot(o, i, err, "ending")
  /\ UNCHANGED <<ctx, ref, returned, holders, enforce, timer, fired, orphaned,
                 reset>>

(* endBusyAfterPanic up to its first unlock; the end[i] stages are the rest. *)
EndBusyAfterPanic(o, i, err) ==
  /\ life' = [life EXCEPT ![i] = "broken"]
  /\ \/ /\ enforce[i]
        /\ InstallCloser(o, i, err)
     \/ /\ ~enforce[i]
        /\ end' = [end EXCEPT ![i] = "closeUnmapped"]
        /\ EndBusySlot(o, i, err, "ending")
  /\ UNCHANGED <<ctx, ref, returned, holders, enforce, timer, fired, orphaned,
                 reset>>

WakePanics(o, i) ==
  /\ pc[o] = "wake"
  /\ ref[o] = Inc(i)
  /\ "wake" \in Failing
  /\ EndBusyAfterPanic(o, i, TRUE)

(* finishBind: a done context drops the holder on this very call.           *)
FinishBind(o) ==
  /\ pc[o] = "bind"
  /\ pc' = [pc EXCEPT ![o] = IF ctx[o] = "done" THEN "release"
                             ELSE IF o \in NilDone THEN "snapshot" ELSE "held"]
  /\ returned' = [returned EXCEPT ![o] = ctx[o] = "live" /\ o \notin NilDone]
  /\ UNCHANGED <<ctx, ref, slotVars, aliasVars>>

(* finishedAtBind: no watcher is started for an incarnation that ended.     *)
FinishedAtBind(o, i) ==
  /\ pc[o] = "snapshot"
  /\ ref[o] = Inc(i)
  /\ pc' = [pc EXCEPT ![o] = IF finished[i] THEN "over" ELSE "held"]
  /\ returned' = [returned EXCEPT ![o] = TRUE]
  /\ UNCHANGED <<ctx, ref, slotVars, aliasVars>>

-----------------------------------------------------------------------------
(* The holder's goroutine: AfterFunc, or watch polling a nil-Done context.  *)

AfterFunc(o) ==
  /\ pc[o] = "held"
  /\ o \notin NilDone
  /\ ctx[o] = "done"
  /\ pc' = [pc EXCEPT ![o] = "release"]
  /\ UNCHANGED <<ctx, ref, returned, slotVars, aliasVars>>

(* waitCtx, first half of a round: an ended incarnation stops the watcher.  *)
PollFinished(o, i) ==
  /\ pc[o] = "held"
  /\ o \in NilDone
  /\ ref[o] = Inc(i)
  /\ pc' = [pc EXCEPT ![o] = IF finished[i] THEN "over" ELSE "polled"]
  /\ UNCHANGED <<ctx, ref, returned, slotVars, aliasVars>>

(* waitCtx, second half: a done context drops, else the next round.         *)
PollErr(o) ==
  /\ pc[o] = "polled"
  /\ pc' = [pc EXCEPT ![o] = IF ctx[o] = "done" THEN "release" ELSE "held"]
  /\ UNCHANGED <<ctx, ref, returned, slotVars, aliasVars>>

-----------------------------------------------------------------------------
(* drop.                                                                    *)

ReleaseHolder(o, i) ==
  /\ pc[o] = "release"
  /\ ref[o] = Inc(i)
  /\ holders' = [holders EXCEPT ![i] = @ - 1]
  /\ pc' = [pc EXCEPT ![o] = "claim"]
  /\ UNCHANGED <<ctx, ref, returned, items, state, createErr, enforce, finished,
                 timer, fired, end, life, orphaned, reset, aliasVars>>

(* Mutant: any holder that leaves sleeps the value.                         *)
ClaimDropNotLast(o, i) ==
  /\ pc[o] = "claim"
  /\ ref[o] = Inc(i)
  /\ state[i] = "awake"
  /\ state' = [state EXCEPT ![i] = "busy"]
  /\ pc' = [pc EXCEPT ![o] = "sleep"]
  /\ UNCHANGED <<ctx, ref, returned, items, holders, createErr, enforce,
                 finished, timer, fired, end, life, orphaned, reset, aliasVars>>

(* claimDrop: park on a busy slot, sleep the value as its last holder, or   *)
(* stop.                                                                    *)
ClaimDrop(o, i) ==
  /\ pc[o] = "claim"
  /\ ref[o] = Inc(i)
  /\ \/ /\ state[i] = "busy"
        /\ pc' = [pc EXCEPT ![o] = "dropParked"]
        /\ UNCHANGED state
     \/ /\ state[i] = "awake" /\ holders[i] = 0
        /\ state' = [state EXCEPT ![i] = "busy"]
        /\ pc' = [pc EXCEPT ![o] = "sleep"]
     \/ /\ state[i] # "busy" /\ ~(state[i] = "awake" /\ holders[i] = 0)
        /\ pc' = [pc EXCEPT ![o] = "over"]
        /\ UNCHANGED state
  /\ UNCHANGED <<ctx, ref, returned, items, holders, createErr, enforce,
                 finished, timer, fired, end, life, orphaned, reset, aliasVars>>

SleepReturns(o, i) ==
  /\ pc[o] = "sleep"
  /\ ref[o] = Inc(i)
  /\ life' = [life EXCEPT ![i] = "asleep"]
  /\ pc' = [pc EXCEPT ![o] = "orphan"]
  /\ UNCHANGED <<ctx, ref, returned, items, state, holders, createErr, enforce,
                 finished, timer, fired, end, orphaned, reset, aliasVars>>

(* reclaim_orphan is written while the slot is still busy.                  *)
LogOrphan(o, i) ==
  /\ pc[o] = "orphan"
  /\ ref[o] = Inc(i)
  /\ orphaned' = [orphaned EXCEPT ![i] = TRUE]
  /\ pc' = [pc EXCEPT ![o] = "park"]
  /\ UNCHANGED <<ctx, ref, returned, items, state, holders, createErr, enforce,
                 finished, timer, fired, end, life, reset, aliasVars>>

SleepPanics(o, i) ==
  /\ pc[o] = "sleep"
  /\ ref[o] = Inc(i)
  /\ "sleep" \in Failing
  /\ EndBusyAfterPanic(o, i, FALSE)

(* Zero grace with enforced close: Close runs while the slot is still busy. *)
EndMappedClose(o, i) ==
  /\ pc[o] = "park"
  /\ ref[o] = Inc(i)
  /\ enforce[i] /\ ZeroGrace
  /\ end' = [end EXCEPT ![i] = "closeMapped"]
  /\ pc' = [pc EXCEPT ![o] = "ending"]
  /\ UNCHANGED <<ctx, ref, returned, items, state, holders, createErr, enforce,
                 finished, timer, fired, life, orphaned, reset, aliasVars>>

(* Mutant: the grace timer is not armed.                                    *)
ParkAsleepUnarmed(o, i) ==
  LET mapped == items[KeyOf[i]] = Inc(i) /\ ~ZeroGrace IN
  /\ pc[o] = "park"
  /\ ref[o] = Inc(i)
  /\ ~(enforce[i] /\ ZeroGrace)
  /\ state' = [state EXCEPT ![i] = "asleep"]
  /\ items' = IF ZeroGrace THEN Unmapped(KeyOf[i], Inc(i)) ELSE items
  /\ timer' = [timer EXCEPT ![i] = FALSE]
  /\ pc' = [Released(Inc(i)) EXCEPT ![o] = IF mapped THEN "over" ELSE "expire"]
  /\ UNCHANGED <<ctx, ref, returned, holders, createErr, enforce, finished,
                 fired, end, life, orphaned, reset, aliasVars>>

(* parkAsleep: arm the grace timer, or leave the rest to an expire on this  *)
(* goroutine when grace is zero or Reset took the key.                      *)
ParkAsleep(o, i) ==
  LET mapped == items[KeyOf[i]] = Inc(i) /\ ~ZeroGrace IN
  /\ pc[o] = "park"
  /\ ref[o] = Inc(i)
  /\ ~(enforce[i] /\ ZeroGrace)
  /\ state' = [state EXCEPT ![i] = "asleep"]
  /\ items' = IF ZeroGrace THEN Unmapped(KeyOf[i], Inc(i)) ELSE items
  /\ timer' = [timer EXCEPT ![i] = mapped]
  /\ pc' = [Released(Inc(i)) EXCEPT ![o] = IF mapped THEN "over" ELSE "expire"]
  /\ UNCHANGED <<ctx, ref, returned, holders, createErr, enforce, finished,
                 fired, end, life, orphaned, reset, aliasVars>>

-----------------------------------------------------------------------------
(* expire, on a timer goroutine or inline, and the stages of an ending.     *)

(* The grace AfterFunc starts its goroutine.                                *)
GraceElapses(i) ==
  /\ timer[i]
  /\ timer' = [timer EXCEPT ![i] = FALSE]
  /\ fired' = [fired EXCEPT ![i] = @ + 1]
  /\ UNCHANGED <<ctx, pc, ref, returned, items, state, holders, createErr,
                 enforce, finished, end, life, orphaned, reset, aliasVars>>

(* Mutant: a fired timer does not look at slot.state.                       *)
ExpirableInAnyState(i) == holders[i] = 0

Expirable(i) == state[i] = "asleep" /\ holders[i] = 0

(* claimExpire on a sleeping incarnation without holders.                   *)
ClaimExpire(i) ==
  /\ Expirable(i)
  /\ \/ /\ enforce[i]
        /\ state' = [state EXCEPT ![i] = "busy"]
        /\ end' = [end EXCEPT ![i] = "closeMapped"]
        /\ UNCHANGED <<finished, items>>
     \/ /\ ~enforce[i]
        /\ state' = [state EXCEPT ![i] = "gone"]
        /\ finished' = [finished EXCEPT ![i] = TRUE]
        /\ items' = Unmapped(KeyOf[i], Inc(i))
        /\ end' = [end EXCEPT ![i] = "closeExpired"]

ExpireOnTimer(i) ==
  /\ fired[i] > 0
  /\ fired' = [fired EXCEPT ![i] = @ - 1]
  /\ \/ ClaimExpire(i)
     \/ ~Expirable(i) /\ UNCHANGED <<state, end, finished, items>>
  /\ UNCHANGED <<ctx, pc, ref, returned, holders, createErr, enforce, timer,
                 life, orphaned, reset, aliasVars>>

ExpireInline(o, i) ==
  /\ pc[o] = "expire"
  /\ ref[o] = Inc(i)
  /\ \/ ClaimExpire(i) /\ pc' = [pc EXCEPT ![o] = "ending"]
     \/ ~Expirable(i) /\ pc' = [pc EXCEPT ![o] = "over"]
                      /\ UNCHANGED <<state, end, finished, items>>
  /\ UNCHANGED <<ctx, ref, returned, holders, createErr, enforce, timer, fired,
                 life, orphaned, reset, aliasVars>>

Advance(i) == end' = [end EXCEPT ![i] = StageAfter[@]]

(* dispose: the Close hook returned (or its panic was recovered).           *)
CloseReturns(i) ==
  /\ end[i] \in Disposing
  /\ life' = [life EXCEPT ![i] = "closed"]
  /\ Advance(i)
  /\ UNCHANGED <<ctx, pc, ref, returned, items, state, holders, createErr,
                 enforce, finished, timer, fired, orphaned, reset, aliasVars>>

(* Mutant: an enforced Close leaves the public names bound.                 *)
UnmapLockedStaysBound(i) ==
  /\ \/ /\ end[i] = "unmap"
        /\ items' = Unmapped(KeyOf[i], Inc(i))
        /\ state' = [state EXCEPT ![i] = "gone"]
        /\ finished' = [finished EXCEPT ![i] = TRUE]
     \/ /\ end[i] = "unmapCloser"
        /\ items' = Unmapped(KeyOf[i], Closer(i))
        /\ UNCHANGED <<state, finished>>
  /\ Advance(i)
  /\ UNCHANGED <<ctx, pc, ref, returned, holders, createErr, enforce, timer,
                 fired, life, orphaned, reset, aliasVars>>

(* unmapLocked on the incarnation, or on the closer standing in for it.     *)
UnmapLocked(i) ==
  /\ \/ /\ end[i] = "unmap"
        /\ items' = Unmapped(KeyOf[i], Inc(i))
        /\ state' = [state EXCEPT ![i] = "gone"]
        /\ finished' = [finished EXCEPT ![i] = TRUE]
        /\ UnbindIncarnation(i)
     \/ /\ end[i] = "unmapCloser"
        /\ items' = Unmapped(KeyOf[i], Closer(i))
        /\ UNCHANGED <<state, finished, aliasVars>>
  /\ Advance(i)
  /\ UNCHANGED <<ctx, pc, ref, returned, holders, createErr, enforce, timer,
                 fired, life, orphaned, reset>>

(* Mutant: the closer's ready channel is not closed.                        *)
CloseReadyNotCloser(i) ==
  /\ \/ end[i] \in {"wakeOld", "wakeWaiters"} /\ pc' = Released(Inc(i))
     \/ end[i] = "wakeCloser" /\ UNCHANGED pc
  /\ Advance(i)
  /\ UNCHANGED <<ctx, ref, returned, items, state, holders, createErr, enforce,
                 finished, timer, fired, life, orphaned, reset, aliasVars>>

(* close(ready), outside t.mu, of the incarnation or of its closer.         *)
CloseReady(i) ==
  /\ \/ end[i] \in {"wakeOld", "wakeWaiters"} /\ pc' = Released(Inc(i))
     \/ end[i] = "wakeCloser" /\ pc' = Released(Closer(i))
  /\ Advance(i)
  /\ UNCHANGED <<ctx, ref, returned, items, state, holders, createErr, enforce,
                 finished, timer, fired, life, orphaned, reset, aliasVars>>

(* The default expire path unbinds the names only after Close.              *)
UnbindAfterClose(i) ==
  /\ end[i] = "unbind"
  /\ UnbindIncarnation(i)
  /\ Advance(i)
  /\ UNCHANGED <<ctx, pc, ref, returned, items, state, holders, createErr,
                 enforce, finished, timer, fired, life, orphaned, reset>>

(* The drop, or the Open whose Wake panicked, returns after its ending.     *)
EndingReturns(o, i) ==
  /\ pc[o] = "ending"
  /\ ref[o] = Inc(i)
  /\ end[i] = "over"
  /\ pc' = [pc EXCEPT ![o] = "over"]
  /\ UNCHANGED <<ctx, ref, returned, slotVars, aliasVars>>

-----------------------------------------------------------------------------
(* Reset, which tests use.  It runs beside drops and timers, never beside   *)
(* an Open.                                                                 *)

(* takeAll: empty the maps, unbind every name, stop the grace timers.       *)
TakeAll ==
  LET taken == {i \in Opens : items[KeyOf[i]] = Inc(i)} IN
  /\ ~reset.running
  /\ generation < MaxResets
  /\ \A o \in Opens : returned[o] \/ pc[o] \in {"idle", "over"}
  /\ reset' = [running |-> TRUE, todo |-> taken, current |-> Nobody]
  /\ items' = [k \in Keys |-> NoSlot]
  /\ timer' = [i \in Opens |-> timer[i] /\ i \notin taken]
  /\ UnbindIncarnations(taken)
  /\ generation' = generation + 1
  /\ UNCHANGED <<ctx, pc, ref, returned, state, holders, createErr, enforce,
                 finished, fired, end, life, orphaned>>

(* Mutant: Reset also ends an incarnation another goroutine is moving.      *)
EndResetSlotBusy(i) ==
  /\ reset.running /\ reset.current = Nobody
  /\ i \in reset.todo
  /\ reset' = [reset EXCEPT !.todo = @ \ {i}, !.current = i]
  /\ end' = [end EXCEPT ![i] = IF state[i] = "awake" THEN "resetSleep" ELSE "closeUnmapped"]
  /\ state' = [state EXCEPT ![i] = "gone"]
  /\ finished' = [finished EXCEPT ![i] = TRUE]
  /\ UNCHANGED <<ctx, pc, ref, returned, items, holders, createErr, enforce,
                 timer, fired, life, orphaned, aliasVars>>

(* Mutant: Reset does not close slot.finished.                              *)
EndResetSlotUnfinished(i) ==
  /\ reset.running /\ reset.current = Nobody
  /\ i \in reset.todo
  /\ reset' = [reset EXCEPT !.todo = @ \ {i}, !.current = i]
  /\ end' = [end EXCEPT ![i] = IF state[i] = "awake" THEN "resetSleep" ELSE "closeUnmapped"]
  /\ state' = [state EXCEPT ![i] = "gone"]
  /\ state[i] \in {"awake", "asleep"}
  /\ UNCHANGED <<ctx, pc, ref, returned, items, holders, createErr, enforce,
                 finished, timer, fired, life, orphaned, aliasVars>>

(* endResetSlot: an awake or sleeping incarnation is Reset's to end; a busy *)
(* or gone one belongs to the goroutine that owns that transition.          *)
EndResetSlot(i) ==
  /\ reset.running /\ reset.current = Nobody
  /\ i \in reset.todo
  /\ \/ /\ state[i] \in {"awake", "asleep"}
        /\ reset' = [reset EXCEPT !.todo = @ \ {i}, !.current = i]
        /\ end' = [end EXCEPT ![i] = IF state[i] = "awake" THEN "resetSleep" ELSE "closeUnmapped"]
        /\ state' = [state EXCEPT ![i] = "gone"]
        /\ finished' = [finished EXCEPT ![i] = TRUE]
     \/ /\ state[i] \in {"busy", "gone"}
        /\ reset' = [reset EXCEPT !.todo = @ \ {i}]
        /\ UNCHANGED <<state, finished, end>>
  /\ UNCHANGED <<ctx, pc, ref, returned, items, holders, createErr, enforce,
                 timer, fired, life, orphaned, aliasVars>>

(* Reset sleeps an awake value; a panic skips reclaim_orphan.               *)
ResetSleeps(i) ==
  /\ end[i] = "resetSleep"
  /\ \/ life' = [life EXCEPT ![i] = "asleep"] /\ orphaned' = [orphaned EXCEPT ![i] = TRUE]
     \/ /\ "sleep" \in Failing
        /\ life' = [life EXCEPT ![i] = "broken"]
        /\ UNCHANGED orphaned
  /\ Advance(i)
  /\ UNCHANGED <<ctx, pc, ref, returned, items, state, holders, createErr,
                 enforce, finished, timer, fired, reset, aliasVars>>

(* Reset goes on to the next incarnation, or returns.                       *)
ResetContinues ==
  /\ reset.running
  /\ \/ /\ reset.current # Nobody /\ end[reset.current] = "over"
        /\ reset' = [reset EXCEPT !.current = Nobody]
     \/ /\ reset.current = Nobody /\ reset.todo = {}
        /\ reset' = [reset EXCEPT !.running = FALSE]
  /\ UNCHANGED <<ctx, pc, ref, returned, items, state, holders, createErr,
                 enforce, finished, timer, fired, end, life, orphaned,
                 aliasVars>>

-----------------------------------------------------------------------------
(* SetAlias on a key that is mapped awake or asleep; on any other it        *)
(* returns an error and changes nothing.                                    *)
SetAlias(i, a, p, g) ==
  /\ items[KeyOf[i]] = Inc(i)
  /\ state[i] \in {"awake", "asleep"}
  /\ SetAliasLocked(i, a, p, g)
  /\ UNCHANGED tableVars

AliasStep ==
  \/ \E i \in Opens, a \in Aliases, p \in Publishers, g \in Groups : SetAlias(i, a, p, g)
  \/ \E p \in Publishers, g \in Groups : ClearPublisher(p, g) /\ UNCHANGED tableVars
  \/ \E w \in Watches, a \in Aliases, e \in Empties : Watch(w, a, e) /\ UNCHANGED tableVars
  \/ \E w \in Watches : DropWatcher(w) /\ UNCHANGED tableVars

(* The steps of Open call o and of its holder's goroutine.                  *)
HolderStep(o) ==
  \/ OpenCreate(o) \/ OpenPark(o) \/ Woken(o)
  \/ PublishPut(o) \/ CreateFails(o)
  \/ FinishBind(o) \/ AfterFunc(o) \/ PollErr(o)
  \/ \E i \in Opens :
       \/ OpenBind(o, i) \/ OpenWake(o, i)
       \/ PublishWake(o, i) \/ WakePanics(o, i)
       \/ FinishedAtBind(o, i) \/ PollFinished(o, i)
       \/ ReleaseHolder(o, i) \/ ClaimDrop(o, i)
       \/ SleepReturns(o, i) \/ SleepPanics(o, i) \/ LogOrphan(o, i)
       \/ EndMappedClose(o, i) \/ ParkAsleep(o, i) \/ ExpireInline(o, i)
       \/ EndingReturns(o, i)

(* The steps that end incarnation i.                                        *)
EndingStep(i) ==
  \/ GraceElapses(i) \/ ExpireOnTimer(i)
  \/ CloseReturns(i) \/ UnmapLocked(i) \/ CloseReady(i) \/ UnbindAfterClose(i)

ResetStep ==
  \/ TakeAll \/ ResetContinues
  \/ \E i \in Opens : EndResetSlot(i) \/ ResetSleeps(i)

ServeNext ==
  \/ \E o \in Opens : Cancel(o) \/ StartOpen(o) \/ HolderStep(o) \/ EndingStep(o)
  \/ AliasStep

Next == ServeNext \/ ResetStep

(* Every goroutine that can run does, hooks return, timers fire.  Nothing   *)
(* makes a caller open a key or cancel a context.                           *)
Fairness ==
  /\ \A o \in Opens : WF_vars(HolderStep(o)) /\ WF_vars(EndingStep(o))
  /\ WF_vars(ResetContinues)
  /\ \A i \in Opens : WF_vars(EndResetSlot(i)) /\ WF_vars(ResetSleeps(i))

(* The table in production: Reset is for tests.                             *)
ServeSpec == Init /\ [][ServeNext]_vars

(* The table with Reset.                                                    *)
Spec == Init /\ [][Next]_vars
FairSpec == Spec /\ Fairness

-----------------------------------------------------------------------------
(* Properties of the lifecycle.                                             *)

(* o is bound to incarnation i and has not begun to drop it.                *)
Holding(o, i) == ref[o] = Inc(i) /\ pc[o] \in {"snapshot", "held", "polled"}

(* The Open calls that slot.holders of i should be counting.                *)
CountPcs == {"wake", "bind", "snapshot", "held", "polled", "release"}
Counted(i) == {o \in Opens : ref[o] = Inc(i) /\ pc[o] \in CountPcs}

(* The goroutines entitled to move incarnation i out of slotBusy.           *)
Owners(i) ==
  {o \in Opens : ref[o] = Inc(i) /\ pc[o] \in {"create", "wake", "sleep", "orphan", "park"}}
    \cup (IF end[i] \in {"closeMapped", "unmap"} THEN {"ending"} ELSE {})

(* While a holder has not dropped it, its value is awake, its hooks left it *)
(* awake, and the key still leads to it: no drop, timer or panic of another *)
(* goroutine sleeps, closes or unmaps a value in use (Open, drop, expire).  *)
HeldIsAwake ==
  generation = 0 =>
    \A o, i \in Opens : Holding(o, i) =>
      state[i] = "awake" /\ life[i] = "awake" /\ items[KeyOf[i]] = Inc(i)

(* slot.holders of an incarnation that has not ended is the number of Open  *)
(* calls between their bind and their releaseHolder.                        *)
HolderCount ==
  \A i \in Opens : state[i] \in {"busy", "awake", "asleep"} =>
    holders[i] = Cardinality(Counted(i))

(* slotBusy has exactly one owner, so its ready channel is closed exactly   *)
(* once and nobody parked on it is forgotten.                               *)
BusyHasOneOwner ==
  \A i \in Opens : Cardinality(Owners(i)) = IF state[i] = "busy" THEN 1 ELSE 0

(* create -> (sleep -> wake)* -> sleep -> close: no hook runs on a value    *)
(* that the previous hook left in another condition, whoever runs it.       *)
HooksAlternate ==
  /\ \A o, i \in Opens : ref[o] = Inc(i) =>
       /\ pc[o] = "create" => life[i] = "none"
       /\ pc[o] = "sleep" => life[i] = "awake"
       /\ pc[o] = "wake" => life[i] = "asleep"
  /\ \A i \in Opens :
       /\ end[i] = "resetSleep" => life[i] = "awake"
       /\ end[i] \in Disposing => life[i] \in {"asleep", "broken"}

(* An incarnation is claimed for close once: a second drop, timer or Reset  *)
(* never starts another ending of it, so Close runs at most once.           *)
EndsOnce == \A i \in Opens : end[i] # "none" => end'[i] \in {end[i], StageAfter[end[i]]}
OneEnding == [][EndsOnce]_vars

(* EnforceCloseBeforeOpen: no create of a key runs while a value of that    *)
(* key that asked for it still awaits the return of its Close.              *)
EnforcedCloseBeforeCreate ==
  generation = 0 =>
    \A o, i \in Opens :
      pc[o] = "create" /\ KeyOf[i] = KeyOf[o] /\ enforce[i] => life[i] = "closed"

(* reclaim_orphan precedes the Close of a value whose Sleep returned, also  *)
(* when Reset and the dropping goroutine meet on the same incarnation.      *)
OrphanBeforeDispose ==
  \A i \in Opens : end[i] \in Disposing /\ life[i] = "asleep" => orphaned[i]

(* No key leads to an incarnation that has ended, nor to a closer whose     *)
(* Close is over: the slotGone case of lookupOpen is never taken.           *)
MappedIsLive ==
  \A k \in Keys, i \in Opens :
    /\ items[k] = Inc(i) => KeyOf[i] = k /\ state[i] \in {"busy", "awake", "asleep"}
    /\ items[k] = Closer(i) =>
         KeyOf[i] = k /\ end[i] \in {"wakeOld", "closeBehindCloser", "unmapCloser"}

(* Peek of a key: the value and whether it is awake or asleep.              *)
Peek(k) ==
  {<<i, state[i]>> : i \in {j \in Opens : items[k] = Inc(j) /\ state[j] \in {"awake", "asleep"}}}

(* What Peek reports is what the hooks last did to the value: never one     *)
(* being slept, woken or closed.                                            *)
PeekIsTruthful == \A k \in Keys : \A p \in Peek(k) : life[p[1]] = p[2]

-----------------------------------------------------------------------------
(* Properties of the public names.                                          *)

(* The reverse links a Close follows are exactly the names bound to that    *)
(* incarnation: no name is left pointing at a value whose unbind missed it. *)
LinksMirrorEntries ==
  \A i \in Opens : links[i] = {e \in Entries : entry[e].incarnation = i}

(* A subscriber's last delivery is the value its name stands for now, or an *)
(* empty when the name stands for none.                                     *)
WatcherUpToDate ==
  \A w \in Watches : watch[w].state = "on" =>
    LET now == Published(entry[watch[w].entry])
    IN IF now \in Opens THEN watch[w].last = now ELSE watch[w].last \in Empties

(* A name is bound only to an incarnation that has not ended, except for    *)
(* the Close window of a default expire, which unbinds afterwards.          *)
BoundIsAlive ==
  \A e \in Entries, i \in Opens : entry[e].incarnation = i =>
    state[i] \in {"busy", "awake", "asleep"} \/ end[i] \in {"closeExpired", "unbind"}

-----------------------------------------------------------------------------
(* Liveness, under FairSpec.                                                *)

(* Every Open returns, whatever transition it had to wait for.              *)
OpenReturns == \A o \in Opens : pc[o] = "lookup" ~> pc[o] \in {"held", "polled", "over"}

(* Once every context is done, every value that was created gets closed.    *)
OrphansAreClosed ==
  \A i \in Opens :
    (life[i] # "none" /\ \A o \in Opens : ctx[o] = "done") ~> life[i] = "closed"

(* A nil-Done watcher stops polling an incarnation that has ended.          *)
WatchersExit ==
  \A o, i \in Opens : (state[i] = "gone" /\ Holding(o, i) /\ o \in NilDone) ~> pc[o] = "over"

-----------------------------------------------------------------------------
(* Claims of the comments and the specification that the code does not keep. *)

(* "slotAsleep means the value has been slept and is kept until grace       *)
(* ends": an incarnation is not claimed while its grace timer still runs.   *)
GraceIsKept == \A i \in Opens : timer[i] => state[i] = "asleep"

(* "A stale holder drop from a previous incarnation or from Reset MUST NOT  *)
(* change a later incarnation of the same key": an awake incarnation that   *)
(* Reset has not taken stays mapped.                                        *)
AwakeIsMapped ==
  \A i \in Opens : state[i] = "awake" => items[KeyOf[i]] = Inc(i) \/ i \in reset.todo

-----------------------------------------------------------------------------
(* The inductive invariant behind the theorems of ReclaimTableProofs: what  *)
(* holds of every incarnation i, and of Reset.                              *)

NewPcs == {"idle", "lookup", "parked", "woken"}
HoldPcs == {"bind", "snapshot", "held", "polled", "release"}
OwnPcs == {"create", "wake", "sleep", "orphan", "park"}

(* A slot that is not registered yet is untouched, and nobody refers to it. *)
Fresh(i) ==
  /\ pc[i] \in NewPcs => state[i] = "none"
  /\ pc[i] = "create" => ref[i] = Inc(i) /\ life[i] = "none" /\ ~enforce[i]
  /\ state[i] = "none" =>
       /\ end[i] = "none" /\ life[i] = "none" /\ holders[i] = 0 /\ ~enforce[i]
       /\ \A o \in Opens : ref[o] # Inc(i)

(* Holders keep the slot awake unless Reset ended it; an owner is alone.    *)
Roles(i) ==
  \A o \in Opens : ref[o] = Inc(i) =>
    /\ pc[o] \in HoldPcs => state[i] \in {"awake", "gone"}
    /\ pc[o] \in OwnPcs =>
         /\ state[i] = "busy" /\ end[i] = "none"
         /\ \A p \in Opens : ref[p] = Inc(i) /\ pc[p] \in OwnPcs => p = o
    /\ pc[o] = "sleep" => life[i] = "awake"
    /\ pc[o] \in {"wake", "orphan", "park"} => life[i] = "asleep"

(* How slot.state, the stage of the ending and the value's hooks agree.     *)
Stages(i) ==
  /\ state[i] \in {"awake", "asleep"} => end[i] = "none" /\ life[i] = state[i]
  /\ state[i] = "busy" => end[i] \in {"none", "closeMapped", "unmap"}
  /\ state[i] = "gone" => end[i] \notin {"closeMapped", "unmap"}
  /\ finished[i] => state[i] = "gone"
  /\ end[i] \in Disposing => life[i] \in {"asleep", "broken"}
  /\ end[i] = "wakeOld" => life[i] = "broken"
  /\ end[i] = "resetSleep" => life[i] = "awake"
  /\ end[i] \in {"unmap", "unmapCloser"} => life[i] = "closed"

(* A mapped slot is live, under its own key, unless Reset has taken it.     *)
Mapped(i) ==
  \A k \in Keys :
    /\ items[k] = Inc(i) =>
         KeyOf[i] = k /\ state[i] \in {"busy", "awake", "asleep"} /\ i \notin reset.todo
    /\ items[k] = Closer(i) =>
         KeyOf[i] = k /\ end[i] \in {"wakeOld", "closeBehindCloser", "unmapCloser"}

(* Until Reset has run, a slot in use is mapped, an enforced one until its  *)
(* Close has returned, if need be through its closer.                       *)
Mapping(i) ==
  generation = 0 =>
    /\ \A o \in Opens : ref[o] = Inc(i) /\ pc[o] \in HoldPcs => state[i] = "awake"
    /\ state[i] \in {"busy", "awake"} => items[KeyOf[i]] = Inc(i)
    /\ state[i] = "asleep" /\ enforce[i] => items[KeyOf[i]] = Inc(i)
    /\ end[i] \in {"wakeOld", "closeBehindCloser", "unmapCloser"} => items[KeyOf[i]] = Closer(i)
    /\ state[i] = "gone" /\ enforce[i] =>
         life[i] = "closed" \/ end[i] \in {"wakeOld", "closeBehindCloser"}

Count(i) == state[i] \in {"busy", "awake", "asleep"} => holders[i] = Cardinality(Counted(i))

SlotInv(i) == Fresh(i) /\ Roles(i) /\ Stages(i) /\ Mapped(i) /\ Mapping(i)

(* No Open is in flight beside Reset, so what Reset took is not remapped.   *)
ResetAlone ==
  /\ \A o \in Opens : pc[o] \in NewPcs \cup {"create", "wake", "bind", "snapshot"} => ~returned[o]
  /\ reset.running => \A o \in Opens : returned[o] \/ pc[o] \in {"idle", "over"}
  /\ reset.todo # {} => reset.running
  /\ generation = 0 => ~reset.running

IndInv == ResetAlone /\ \A i \in Opens : SlotInv(i) /\ Count(i)

-----------------------------------------------------------------------------
(* What IndInv leaves open: that a busy slot has an owner at all, what has  *)
(* been logged, and the public names.                                       *)

(* A busy slot is some goroutine's to move on.                              *)
Owned(i) ==
  state[i] = "busy" =>
    \/ end[i] \in {"closeMapped", "unmap"}
    \/ \E o \in Opens : ref[o] = Inc(i) /\ pc[o] \in OwnPcs

(* reclaim_orphan is logged before the slot is left asleep, so before       *)
(* anyone can claim it for close.                                           *)
Logged(i) ==
  /\ state[i] = "asleep" => orphaned[i]
  /\ \A o \in Opens : ref[o] = Inc(i) /\ pc[o] = "park" => orphaned[i]
  /\ end[i] \in Disposing /\ life[i] = "asleep" => orphaned[i]

TransitionInv == \A i \in Opens : Owned(i) /\ Logged(i)

(* An awake slot is mapped unless Reset took it, and one that an Open is    *)
(* creating or waking is mapped: Reset waits for that Open.                 *)
Rooted(i) ==
  /\ state[i] = "awake" => items[KeyOf[i]] = Inc(i) \/ i \in reset.todo
  /\ \A o \in Opens : ref[o] = Inc(i) /\ pc[o] \in {"create", "wake"} => items[KeyOf[i]] = Inc(i)

AwakeInv == \A i \in Opens : Rooted(i)

(* A subscriber has an entry, and what Reset took has no name left.         *)
NamesInv ==
  /\ LinksMirrorEntries
  /\ WatcherUpToDate
  /\ BoundIsAlive
  /\ \A w \in Watches : watch[w].state = "on" => watch[w].entry \in Entries
  /\ \A i \in reset.todo : links[i] = {}

=============================================================================
