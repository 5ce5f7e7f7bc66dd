------------------------ MODULE ReclaimTableProofs -------------------------
(***************************************************************************)
(* What the reclaim table promises for every finite set of Open calls, any  *)
(* keys, any grace and any failing hooks, with or without Reset.  SlotInv   *)
(* is inductive, second half (expire, the stages of an ending, Reset), then *)
(* the holder count and what follows.                                       *)
(***************************************************************************)
EXTENDS ReclaimHolderSteps

(* ClaimEnforcedInline keeps the invariants.                                *)
LEMMA ClaimEnforcedInlineKeeps ==
  ASSUME TypeOK, IndInv, IdleIsUnheld, NEW o \in Opens, NEW i \in Opens, ClaimExpire(i), enforce[i], pc' = [pc EXCEPT ![o] = "ending"], ref[o] = Inc(i), pc[o] = "expire",
         UNCHANGED <<ref, holders, life, enforce, reset, generation>>
  PROVE AllSlots
<1>0. Fresh(i) /\ Roles(i) /\ Stages(i) /\ Mapped(i) /\ Mapping(i)
  BY IncarnationInv, Zenon
<1>1. /\ pc'[o] = "ending"
      /\ ref'[o] = Inc(i)
      /\ \A q \in Opens \ {o} : KeepsRole(q)
  BY TypeFacts, Zenon DEF ClaimExpire, Expirable, KeepsRole
<1>2. /\ state'[i] = "busy" /\ end'[i] = "closeMapped" /\ life'[i] = life[i]
      /\ holders'[i] = holders[i] /\ enforce'[i] = enforce[i] /\ finished'[i] = finished[i]
      /\ \A j \in Opens \ {i} : SlotKept(j)
  BY TypeFacts, Zenon DEF ClaimExpire, Expirable, SlotKept
<1>3. /\ items' = items
      /\ reset'.todo = reset.todo /\ generation' = generation
  BY TypeFacts, Zenon DEF ClaimExpire, Expirable, aliasVars
<1>4. /\ state[i] = "asleep" /\ end[i] = "none" /\ life[i] = "asleep" /\ ~finished[i]
      /\ enforce[i] /\ ref[o] = Inc(i) /\ pc[o] = "expire"
      /\ \A q \in Opens : ref[q] = Inc(i) => pc[q] \notin OwnPcs /\ pc[q] \notin HoldPcs
  BY TypeFacts, <1>0, Zenon
    DEF ClaimExpire, Expirable, Fresh, Roles, Stages, Disposing, NewPcs, HoldPcs, OwnPcs, CountPcs,
        IdleIsUnheld
<1>5. \A k \in Keys : items'[k] # items[k] =>
        /\ items'[k] \in {NoSlot, Inc(i), Closer(i)}
        /\ generation = 0 => items[k] \in {NoSlot, Inc(i), Closer(i)}
  BY <1>3, Zenon
<1>6. Touches(i, {o})
  BY <1>1, <1>2, <1>3, <1>4, <1>5, TypeFacts, Zenon DEF Touches, NewPcs
<1>7. Fresh(i)' /\ Stages(i)'
  BY <1>0, <1>1, <1>2, <1>4, SlotNames, Zenon DEF KeepsRole, Fresh, Roles, Stages, Disposing, NewPcs, OwnPcs
<1>8. Roles(i)'
  BY <1>0, <1>1, <1>2, <1>4, SlotNames DEF KeepsRole, Roles, HoldPcs, OwnPcs
<1>9. Mapped(i)'
  BY TypeFacts, <1>0, <1>2, <1>3, <1>4, SlotNames, Zenon DEF Mapped, Stages, Unmapped
<1>10. Mapping(i)'
  BY TypeFacts, <1>0, <1>1, <1>2, <1>3, <1>4, SlotNames, Zenon
    DEF KeepsRole, Mapping, Mapped, Stages, Unmapped, HoldPcs
<1>11. CountEffect(i)
  <2>1. \A q \in Opens : ref'[q] = Inc(i) /\ pc'[q] \in CountPcs <=> ref[q] = Inc(i) /\ pc[q] \in CountPcs
    BY <1>1, <1>4 DEF KeepsRole, CountPcs
  <2>2. Counted(i)' = Counted(i)
    BY <2>1, Zenon DEF Counted, CountPcs
  <2> QED BY <1>2, <1>4, <2>2, TypeFacts, Zenon DEF CountEffect
<1> QED BY OneTouched, <1>6, <1>7, <1>8, <1>9, <1>10, <1>11, Zenon DEF SlotInv

(* ClaimDefaultInline keeps the invariants.                                 *)
LEMMA ClaimDefaultInlineKeeps ==
  ASSUME TypeOK, IndInv, IdleIsUnheld, NEW o \in Opens, NEW i \in Opens, ClaimExpire(i), ~enforce[i], pc' = [pc EXCEPT ![o] = "ending"], ref[o] = Inc(i), pc[o] = "expire",
         UNCHANGED <<ref, holders, life, enforce, reset, generation>>
  PROVE AllSlots
<1>0. Fresh(i) /\ Roles(i) /\ Stages(i) /\ Mapped(i) /\ Mapping(i)
  BY IncarnationInv, Zenon
<1>1. /\ pc'[o] = "ending"
      /\ ref'[o] = Inc(i)
      /\ \A q \in Opens \ {o} : KeepsRole(q)
  BY TypeFacts, Zenon DEF ClaimExpire, Expirable, KeepsRole
<1>2. /\ state'[i] = "gone" /\ end'[i] = "closeExpired" /\ life'[i] = life[i]
      /\ holders'[i] = holders[i] /\ enforce'[i] = enforce[i] /\ finished'[i] = TRUE
      /\ \A j \in Opens \ {i} : SlotKept(j)
  BY TypeFacts, Zenon DEF ClaimExpire, Expirable, SlotKept
<1>3. /\ items' = Unmapped(KeyOf[i], Inc(i))
      /\ reset'.todo = reset.todo /\ generation' = generation
  BY TypeFacts, Zenon DEF ClaimExpire, Expirable, aliasVars
<1>4. /\ state[i] = "asleep" /\ end[i] = "none" /\ life[i] = "asleep" /\ ~finished[i]
      /\ ~enforce[i] /\ ref[o] = Inc(i) /\ pc[o] = "expire"
      /\ \A q \in Opens : ref[q] = Inc(i) => pc[q] \notin OwnPcs /\ pc[q] \notin HoldPcs
  BY TypeFacts, <1>0, Zenon
    DEF ClaimExpire, Expirable, Fresh, Roles, Stages, Disposing, NewPcs, HoldPcs, OwnPcs, CountPcs,
        IdleIsUnheld
<1>5. \A k \in Keys : items'[k] # items[k] =>
        /\ items'[k] \in {NoSlot, Inc(i), Closer(i)}
        /\ generation = 0 => items[k] \in {NoSlot, Inc(i), Closer(i)}
  BY TypeFacts, <1>0, <1>3, <1>4, Zenon DEF Unmapped, Mapping
<1>6. Touches(i, {o})
  BY <1>1, <1>2, <1>3, <1>4, <1>5, TypeFacts, Zenon DEF Touches, NewPcs
<1>7. Fresh(i)' /\ Stages(i)'
  BY <1>0, <1>1, <1>2, <1>4, SlotNames, Zenon DEF KeepsRole, Fresh, Roles, Stages, Disposing, NewPcs, OwnPcs
<1>8. Roles(i)'
  BY <1>0, <1>1, <1>2, <1>4, SlotNames DEF KeepsRole, Roles, HoldPcs, OwnPcs
<1>9. Mapped(i)'
  BY TypeFacts, <1>0, <1>2, <1>3, <1>4, SlotNames, Zenon DEF Mapped, Stages, Unmapped
<1>10. Mapping(i)'
  BY TypeFacts, <1>0, <1>1, <1>2, <1>3, <1>4, SlotNames
    DEF KeepsRole, Mapping, Mapped, Stages, Unmapped, HoldPcs
<1>11. CountEffect(i)
  BY <1>2, Zenon DEF CountEffect
<1> QED BY OneTouched, <1>6, <1>7, <1>8, <1>9, <1>10, <1>11, Zenon DEF SlotInv

(* ClaimEnforcedOnTimer keeps the invariants.                               *)
LEMMA ClaimEnforcedOnTimerKeeps ==
  ASSUME TypeOK, IndInv, IdleIsUnheld, NEW i \in Opens, ClaimExpire(i), enforce[i], UNCHANGED pc,
         UNCHANGED <<ref, holders, life, enforce, reset, generation>>
  PROVE AllSlots
<1>0. Fresh(i) /\ Roles(i) /\ Stages(i) /\ Mapped(i) /\ Mapping(i)
  BY IncarnationInv, Zenon
<1>1. /\ \A q \in Opens : KeepsRole(q)
  BY TypeFacts, Zenon DEF ClaimExpire, Expirable, KeepsRole
<1>2. /\ state'[i] = "busy" /\ end'[i] = "closeMapped" /\ life'[i] = life[i]
      /\ holders'[i] = holders[i] /\ enforce'[i] = enforce[i] /\ finished'[i] = finished[i]
      /\ \A j \in Opens \ {i} : SlotKept(j)
  BY TypeFacts DEF ClaimExpire, Expirable, SlotKept
<1>3. /\ items' = items
      /\ reset'.todo = reset.todo /\ generation' = generation
  BY TypeFacts, Zenon DEF ClaimExpire, Expirable, aliasVars
<1>4. /\ state[i] = "asleep" /\ end[i] = "none" /\ life[i] = "asleep" /\ ~finished[i]
      /\ enforce[i]
      /\ \A q \in Opens : ref[q] = Inc(i) => pc[q] \notin OwnPcs /\ pc[q] \notin HoldPcs
  BY TypeFacts, <1>0, Zenon
    DEF ClaimExpire, Expirable, Fresh, Roles, Stages, Disposing, NewPcs, HoldPcs, OwnPcs, CountPcs,
        IdleIsUnheld
<1>5. \A k \in Keys : items'[k] # items[k] =>
        /\ items'[k] \in {NoSlot, Inc(i), Closer(i)}
        /\ generation = 0 => items[k] \in {NoSlot, Inc(i), Closer(i)}
  BY <1>3, Zenon
<1>6. Touches(i, {})
  BY <1>1, <1>2, <1>3, <1>4, <1>5, TypeFacts, Zenon DEF Touches, NewPcs
<1>7. Fresh(i)' /\ Stages(i)'
  BY <1>0, <1>1, <1>2, <1>4, SlotNames, Zenon DEF KeepsRole, Fresh, Roles, Stages, Disposing, NewPcs, OwnPcs
<1>8. Roles(i)'
  BY <1>0, <1>1, <1>2, <1>4, SlotNames, Zenon DEF KeepsRole, Roles, HoldPcs, OwnPcs
<1>9. Mapped(i)'
  BY TypeFacts, <1>0, <1>2, <1>3, <1>4, SlotNames, Zenon DEF Mapped, Stages, Unmapped
<1>10. Mapping(i)'
  BY TypeFacts, <1>0, <1>1, <1>2, <1>3, <1>4, SlotNames, Zenon
    DEF KeepsRole, Mapping, Mapped, Stages, Unmapped, HoldPcs
<1>11. CountEffect(i)
  <2>1. \A q \in Opens : ref'[q] = Inc(i) /\ pc'[q] \in CountPcs <=> ref[q] = Inc(i) /\ pc[q] \in CountPcs
    BY <1>1, <1>4, Zenon DEF KeepsRole, CountPcs
  <2>2. Counted(i)' = Counted(i)
    BY <2>1, Zenon DEF Counted, CountPcs
  <2> QED BY <1>2, <1>4, <2>2, TypeFacts, Zenon DEF CountEffect
<1> QED BY OneTouched, <1>6, <1>7, <1>8, <1>9, <1>10, <1>11, Zenon DEF SlotInv

(* ClaimDefaultOnTimer keeps the invariants.                                *)
LEMMA ClaimDefaultOnTimerKeeps ==
  ASSUME TypeOK, IndInv, IdleIsUnheld, NEW i \in Opens, ClaimExpire(i), ~enforce[i], UNCHANGED pc,
         UNCHANGED <<ref, holders, life, enforce, reset, generation>>
  PROVE AllSlots
<1>0. Fresh(i) /\ Roles(i) /\ Stages(i) /\ Mapped(i) /\ Mapping(i)
  BY IncarnationInv, Zenon
<1>1. /\ \A q \in Opens : KeepsRole(q)
  BY TypeFacts, Zenon DEF ClaimExpire, Expirable, KeepsRole
<1>2. /\ state'[i] = "gone" /\ end'[i] = "closeExpired" /\ life'[i] = life[i]
      /\ holders'[i] = holders[i] /\ enforce'[i] = enforce[i] /\ finished'[i] = TRUE
      /\ \A j \in Opens \ {i} : SlotKept(j)
  BY TypeFacts, Zenon DEF ClaimExpire, Expirable, SlotKept
<1>3. /\ items' = Unmapped(KeyOf[i], Inc(i))
      /\ reset'.todo = reset.todo /\ generation' = generation
  BY TypeFacts, Zenon DEF ClaimExpire, Expirable, aliasVars
<1>4. /\ state[i] = "asleep" /\ end[i] = "none" /\ life[i] = "asleep" /\ ~finished[i]
      /\ ~enforce[i]
      /\ \A q \in Opens : ref[q] = Inc(i) => pc[q] \notin OwnPcs /\ pc[q] \notin HoldPcs
  BY TypeFacts, <1>0, Zenon
    DEF ClaimExpire, Expirable, Fresh, Roles, Stages, Disposing, NewPcs, HoldPcs, OwnPcs, CountPcs,
        IdleIsUnheld
<1>5. \A k \in Keys : items'[k] # items[k] =>
        /\ items'[k] \in {NoSlot, Inc(i), Closer(i)}
        /\ generation = 0 => items[k] \in {NoSlot, Inc(i), Closer(i)}
  BY TypeFacts, <1>0, <1>3, <1>4, Zenon DEF Unmapped, Mapping
<1>6. Touches(i, {})
  BY <1>1, <1>2, <1>3, <1>4, <1>5, TypeFacts, Zenon DEF Touches, NewPcs
<1>7. Fresh(i)' /\ Stages(i)'
  BY <1>0, <1>1, <1>2, <1>4, SlotNames, Zenon DEF KeepsRole, Fresh, Roles, Stages, Disposing, NewPcs, OwnPcs
<1>8. Roles(i)'
  BY <1>0, <1>1, <1>2, <1>4, SlotNames, Zenon DEF KeepsRole, Roles, HoldPcs, OwnPcs
<1>9. Mapped(i)'
  BY TypeFacts, <1>0, <1>2, <1>3, <1>4, SlotNames, Zenon DEF Mapped, Stages, Unmapped
<1>10. Mapping(i)'
  BY TypeFacts, <1>0, <1>1, <1>2, <1>3, <1>4, SlotNames, Zenon
    DEF KeepsRole, Mapping, Mapped, Stages, Unmapped, HoldPcs
<1>11. CountEffect(i)
  BY <1>2, Zenon DEF CountEffect
<1> QED BY OneTouched, <1>6, <1>7, <1>8, <1>9, <1>10, <1>11, Zenon DEF SlotInv

(* ExpireInline keeps the invariants.                                       *)
LEMMA ExpireInlineKeeps ==
  ASSUME TypeOK, IndInv, IdleIsUnheld, NEW o \in Opens, NEW i \in Opens, ExpireInline(o, i)
  PROVE AllSlots
<1>1. CASE ClaimExpire(i) /\ pc' = [pc EXCEPT ![o] = "ending"]
  BY ClaimEnforcedInlineKeeps, ClaimDefaultInlineKeeps, <1>1, ZenonT(60) DEF ExpireInline, aliasVars
<1>2. CASE /\ pc' = [pc EXCEPT ![o] = "over"] /\ UNCHANGED <<state, end, finished, items>>
  <2>1. /\ pc[o] = "expire" /\ pc' = [pc EXCEPT ![o] = "over"]
        /\ UNCHANGED <<ref, items, state, end, life, holders, enforce, finished, reset, generation>>
    BY <1>2, Zenon DEF ExpireInline, aliasVars
  <2> QED BY AllUntouched, TypeFacts, <2>1, Zenon DEF Untouched, SlotKept, NewPcs, HoldPcs, OwnPcs, CountPcs
<1> QED BY <1>1, <1>2, Zenon DEF ExpireInline

(* ExpireOnTimer keeps the invariants.                                      *)
LEMMA ExpireOnTimerKeeps ==
  ASSUME TypeOK, IndInv, IdleIsUnheld, NEW i \in Opens, ExpireOnTimer(i)
  PROVE AllSlots
<1>1. CASE ClaimExpire(i)
  BY ClaimEnforcedOnTimerKeeps, ClaimDefaultOnTimerKeeps, <1>1, Zenon DEF ExpireOnTimer, aliasVars
<1>2. CASE UNCHANGED <<state, end, finished, items>>
  <2>1. UNCHANGED <<pc, ref, items, state, end, life, holders, enforce, finished, reset, generation>>
    BY <1>2, Zenon DEF ExpireOnTimer, aliasVars
  <2> QED BY AllUntouched, <2>1 DEF Untouched, SlotKept, NewPcs, HoldPcs, OwnPcs, CountPcs
<1> QED BY <1>1, <1>2, Zenon DEF ExpireOnTimer

(* CloseReturns keeps the invariants.                                       *)
LEMMA CloseReturnsKeeps ==
  ASSUME TypeOK, IndInv, IdleIsUnheld, NEW i \in Opens, CloseReturns(i)
  PROVE AllSlots
<1>0. Fresh(i) /\ Roles(i) /\ Stages(i) /\ Mapped(i) /\ Mapping(i)
  BY IncarnationInv, Zenon
<1>1. /\ \A q \in Opens : KeepsRole(q)
  BY TypeFacts, Zenon DEF CloseReturns, Advance, KeepsRole
<1>2. /\ state'[i] = state[i] /\ ((end[i] = "closeMapped" => end'[i] = "unmap") /\ (end[i] = "closeBehindCloser" => end'[i] = "unmapCloser") /\ (end[i] = "closeUnmapped" => end'[i] = "over") /\ (end[i] = "closeExpired" => end'[i] = "unbind")) /\ life'[i] = "closed"
      /\ holders'[i] = holders[i] /\ enforce'[i] = enforce[i] /\ finished'[i] = finished[i]
      /\ \A j \in Opens \ {i} : SlotKept(j)
  BY TypeFacts, StageOrder DEF CloseReturns, Advance, SlotKept
<1>3. /\ items' = items
      /\ reset'.todo = reset.todo /\ generation' = generation
  BY TypeFacts, Zenon DEF CloseReturns, Advance, aliasVars
<1>4. /\ end[i] \in {"closeMapped", "closeBehindCloser", "closeUnmapped", "closeExpired"}
      /\ ~(state[i] \in {"none", "awake", "asleep"})
      /\ \A q \in Opens : ref[q] = Inc(i) => pc[q] \notin OwnPcs
  BY TypeFacts, <1>0, Zenon
    DEF CloseReturns, Advance, Fresh, Roles, Stages, Disposing, NewPcs, HoldPcs, OwnPcs, CountPcs
<1>5. \A k \in Keys : items'[k] # items[k] =>
        /\ items'[k] \in {NoSlot, Inc(i), Closer(i)}
        /\ generation = 0 => items[k] \in {NoSlot, Inc(i), Closer(i)}
  BY <1>3, Zenon
<1>6. Touches(i, {})
  BY <1>1, <1>2, <1>3, <1>4, <1>5, TypeFacts, Zenon DEF Touches, NewPcs
<1>7. Fresh(i)' /\ Stages(i)'
  BY <1>0, <1>1, <1>2, <1>4, SlotNames DEF KeepsRole, Fresh, Roles, Stages, Disposing, NewPcs, OwnPcs
<1>8. Roles(i)'
  BY <1>0, <1>1, <1>2, <1>4, SlotNames DEF KeepsRole, Roles, HoldPcs, OwnPcs
<1>9. Mapped(i)'
  BY TypeFacts, <1>0, <1>2, <1>3, <1>4, SlotNames, Zenon DEF Mapped, Stages, Unmapped
<1>10. Mapping(i)'
  BY TypeFacts, <1>0, <1>1, <1>2, <1>3, <1>4, SlotNames
    DEF KeepsRole, Mapping, Mapped, Stages, Unmapped, HoldPcs
<1>11. CountEffect(i)
  <2>1. \A q \in Opens : ref'[q] = Inc(i) /\ pc'[q] \in CountPcs <=> ref[q] = Inc(i) /\ pc[q] \in CountPcs
    BY <1>1, <1>4, Zenon DEF KeepsRole, CountPcs
  <2>2. Counted(i)' = Counted(i)
    BY <2>1, Zenon DEF Counted, CountPcs
  <2> QED BY <1>2, <1>4, <2>2, TypeFacts, Zenon DEF CountEffect
<1> QED BY OneTouched, <1>6, <1>7, <1>8, <1>9, <1>10, <1>11, Zenon DEF SlotInv

(* UnmapIncarnation keeps the invariants.                                   *)
LEMMA UnmapIncarnationKeeps ==
  ASSUME TypeOK, IndInv, IdleIsUnheld, NEW i \in Opens, UnmapLocked(i), end[i] = "unmap"
  PROVE AllSlots
<1>0. Fresh(i) /\ Roles(i) /\ Stages(i) /\ Mapped(i) /\ Mapping(i)
  BY IncarnationInv, Zenon
<1>1. /\ \A q \in Opens : KeepsRole(q)
  BY TypeFacts, Zenon DEF UnmapLocked, Advance, KeepsRole
<1>2. /\ state'[i] = "gone" /\ end'[i] = "wakeWaiters" /\ life'[i] = life[i]
      /\ holders'[i] = holders[i] /\ enforce'[i] = enforce[i] /\ finished'[i] = TRUE
      /\ \A j \in Opens \ {i} : SlotKept(j)
  BY TypeFacts, StageOrder DEF UnmapLocked, Advance, SlotKept
<1>3. /\ items' = Unmapped(KeyOf[i], Inc(i))
      /\ reset'.todo = reset.todo /\ generation' = generation
  BY TypeFacts, Zenon DEF UnmapLocked, Advance, aliasVars, UnbindIncarnation
<1>4. /\ end[i] = "unmap" /\ state[i] = "busy" /\ life[i] = "closed" /\ ~finished[i]
      /\ \A q \in Opens : ref[q] = Inc(i) => pc[q] \notin OwnPcs /\ pc[q] \notin HoldPcs
  BY TypeFacts, <1>0, Zenon
    DEF UnmapLocked, Advance, Fresh, Roles, Stages, Disposing, NewPcs, HoldPcs, OwnPcs, CountPcs
<1>5. \A k \in Keys : items'[k] # items[k] =>
        /\ items'[k] \in {NoSlot, Inc(i), Closer(i)}
        /\ generation = 0 => items[k] \in {NoSlot, Inc(i), Closer(i)}
  BY TypeFacts, <1>0, <1>3, <1>4, Zenon DEF Unmapped, Mapping
<1>6. Touches(i, {})
  BY <1>1, <1>2, <1>3, <1>4, <1>5, TypeFacts, Zenon DEF Touches, NewPcs
<1>7. Fresh(i)' /\ Stages(i)'
  BY <1>0, <1>1, <1>2, <1>4, SlotNames, Zenon DEF KeepsRole, Fresh, Roles, Stages, Disposing, NewPcs, OwnPcs
<1>8. Roles(i)'
  BY <1>0, <1>1, <1>2, <1>4, SlotNames DEF KeepsRole, Roles, HoldPcs, OwnPcs
<1>9. Mapped(i)'
  BY TypeFacts, <1>0, <1>2, <1>3, <1>4, SlotNames, Zenon DEF Mapped, Stages, Unmapped
<1>10. Mapping(i)'
  <2>1. generation = 0 => \A q \in Opens : ref'[q] = Inc(i) => pc'[q] \notin HoldPcs
    BY <1>0, <1>1, <1>4, Zenon DEF KeepsRole, Mapping, HoldPcs
  <2>2. generation = 0 => items[KeyOf[i]] = Inc(i) /\ KeyOf[i] \in Keys
    BY TypeFacts, <1>0, <1>4, Zenon DEF Mapping
  <2> QED BY TypeFacts, <1>2, <1>3, <1>4, <2>1, <2>2, SlotNames, Zenon DEF Mapping, Unmapped
<1>11. CountEffect(i)
  BY <1>2, Zenon DEF CountEffect
<1> QED BY OneTouched, <1>6, <1>7, <1>8, <1>9, <1>10, <1>11, Zenon DEF SlotInv

(* UnmapCloser keeps the invariants.                                        *)
LEMMA UnmapCloserKeeps ==
  ASSUME TypeOK, IndInv, IdleIsUnheld, NEW i \in Opens, UnmapLocked(i), end[i] = "unmapCloser"
  PROVE AllSlots
<1>0. Fresh(i) /\ Roles(i) /\ Stages(i) /\ Mapped(i) /\ Mapping(i)
  BY IncarnationInv, Zenon
<1>1. /\ \A q \in Opens : KeepsRole(q)
  BY TypeFacts, Zenon DEF UnmapLocked, Advance, KeepsRole
<1>2. /\ state'[i] = state[i] /\ end'[i] = "wakeCloser" /\ life'[i] = life[i]
      /\ holders'[i] = holders[i] /\ enforce'[i] = enforce[i] /\ finished'[i] = finished[i]
      /\ \A j \in Opens \ {i} : SlotKept(j)
  BY TypeFacts, StageOrder DEF UnmapLocked, Advance, SlotKept
<1>3. /\ items' = Unmapped(KeyOf[i], Closer(i))
      /\ reset'.todo = reset.todo /\ generation' = generation
  BY TypeFacts, Zenon DEF UnmapLocked, Advance, aliasVars
<1>4. /\ end[i] = "unmapCloser" /\ state[i] = "gone" /\ life[i] = "closed"
      /\ \A q \in Opens : ref[q] = Inc(i) => pc[q] \notin OwnPcs
  BY TypeFacts, <1>0, Zenon
    DEF UnmapLocked, Advance, Fresh, Roles, Stages, Disposing, NewPcs, HoldPcs, OwnPcs, CountPcs
<1>5. \A k \in Keys : items'[k] # items[k] =>
        /\ items'[k] \in {NoSlot, Inc(i), Closer(i)}
        /\ generation = 0 => items[k] \in {NoSlot, Inc(i), Closer(i)}
  BY TypeFacts, <1>0, <1>3, <1>4, Zenon DEF Unmapped, Mapping
<1>6. Touches(i, {})
  BY <1>1, <1>2, <1>3, <1>4, <1>5, TypeFacts, Zenon DEF Touches, NewPcs
<1>7. Fresh(i)' /\ Stages(i)'
  BY <1>0, <1>1, <1>2, <1>4, SlotNames, Zenon DEF KeepsRole, Fresh, Roles, Stages, Disposing, NewPcs, OwnPcs
<1>8. Roles(i)'
  BY <1>0, <1>1, <1>2, <1>4, SlotNames, Zenon DEF KeepsRole, Roles, HoldPcs, OwnPcs
<1>9. Mapped(i)'
  BY TypeFacts, <1>0, <1>2, <1>3, <1>4, SlotNames DEF Mapped, Stages, Unmapped
<1>10. Mapping(i)'
  BY TypeFacts, <1>0, <1>1, <1>2, <1>3, <1>4, SlotNames
    DEF KeepsRole, Mapping, Mapped, Stages, Unmapped, HoldPcs
<1>11. CountEffect(i)
  BY <1>2, <1>4, Zenon DEF CountEffect
<1> QED BY OneTouched, <1>6, <1>7, <1>8, <1>9, <1>10, <1>11, Zenon DEF SlotInv

(* UnmapLocked keeps the invariants.                                        *)
LEMMA UnmapLockedKeeps ==
  ASSUME TypeOK, IndInv, IdleIsUnheld, NEW i \in Opens, UnmapLocked(i)
  PROVE AllSlots
  BY UnmapIncarnationKeeps, UnmapCloserKeeps, Zenon DEF UnmapLocked

(* CloseReady keeps the invariants.                                         *)
LEMMA CloseReadyKeeps ==
  ASSUME TypeOK, IndInv, IdleIsUnheld, NEW i \in Opens, CloseReady(i)
  PROVE AllSlots
<1>0. Fresh(i) /\ Roles(i) /\ Stages(i) /\ Mapped(i) /\ Mapping(i)
  BY IncarnationInv, Zenon
<1>1. /\ \A q \in Opens : KeepsRole(q)
  BY TypeFacts, ReleasedKeeps DEF CloseReady, Advance, KeepsRole
<1>2. /\ state'[i] = state[i] /\ ((end[i] = "wakeOld" => end'[i] = "closeBehindCloser") /\ (end[i] = "wakeWaiters" => end'[i] = "over") /\ (end[i] = "wakeCloser" => end'[i] = "over")) /\ life'[i] = life[i]
      /\ holders'[i] = holders[i] /\ enforce'[i] = enforce[i] /\ finished'[i] = finished[i]
      /\ \A j \in Opens \ {i} : SlotKept(j)
  BY TypeFacts, StageOrder DEF CloseReady, Advance, SlotKept
<1>3. /\ items' = items
      /\ reset'.todo = reset.todo /\ generation' = generation
  BY TypeFacts, Zenon DEF CloseReady, Advance, aliasVars
<1>4. /\ end[i] \in {"wakeOld", "wakeWaiters", "wakeCloser"} /\ state[i] = "gone"
      /\ \A q \in Opens : ref[q] = Inc(i) => pc[q] \notin OwnPcs
  BY TypeFacts, <1>0, Zenon
    DEF CloseReady, Advance, Fresh, Roles, Stages, Disposing, NewPcs, HoldPcs, OwnPcs, CountPcs
<1>5. \A k \in Keys : items'[k] # items[k] =>
        /\ items'[k] \in {NoSlot, Inc(i), Closer(i)}
        /\ generation = 0 => items[k] \in {NoSlot, Inc(i), Closer(i)}
  BY <1>3, Zenon
<1>6. Touches(i, {})
  BY <1>1, <1>2, <1>3, <1>4, <1>5, TypeFacts, Zenon DEF Touches, NewPcs
<1>7. Fresh(i)' /\ Stages(i)'
  BY <1>0, <1>1, <1>2, <1>4, SlotNames, Zenon DEF KeepsRole, Fresh, Roles, Stages, Disposing, NewPcs, OwnPcs
<1>8. Roles(i)'
  BY <1>0, <1>1, <1>2, <1>4, SlotNames, Zenon DEF KeepsRole, Roles, HoldPcs, OwnPcs
<1>9. Mapped(i)'
  BY TypeFacts, <1>0, <1>2, <1>3, <1>4, SlotNames, Zenon DEF Mapped, Stages, Unmapped
<1>10. Mapping(i)'
  BY TypeFacts, <1>0, <1>1, <1>2, <1>3, <1>4, SlotNames, Zenon
    DEF KeepsRole, Mapping, Mapped, Stages, Unmapped, HoldPcs
<1>11. CountEffect(i)
  BY <1>2, <1>4, Zenon DEF CountEffect
<1> QED BY OneTouched, <1>6, <1>7, <1>8, <1>9, <1>10, <1>11, Zenon DEF SlotInv

(* UnbindAfterClose keeps the invariants.                                   *)
LEMMA UnbindAfterCloseKeeps ==
  ASSUME TypeOK, IndInv, IdleIsUnheld, NEW i \in Opens, UnbindAfterClose(i)
  PROVE AllSlots
<1>0. Fresh(i) /\ Roles(i) /\ Stages(i) /\ Mapped(i) /\ Mapping(i)
  BY IncarnationInv, Zenon
<1>1. /\ \A q \in Opens : KeepsRole(q)
  BY TypeFacts, Zenon DEF UnbindAfterClose, Advance, KeepsRole
<1>2. /\ state'[i] = state[i] /\ end'[i] = "over" /\ life'[i] = life[i]
      /\ holders'[i] = holders[i] /\ enforce'[i] = enforce[i] /\ finished'[i] = finished[i]
      /\ \A j \in Opens \ {i} : SlotKept(j)
  BY TypeFacts, StageOrder DEF UnbindAfterClose, Advance, SlotKept
<1>3. /\ items' = items
      /\ reset'.todo = reset.todo /\ generation' = generation
  BY TypeFacts, Zenon DEF UnbindAfterClose, Advance, aliasVars, UnbindIncarnation
<1>4. /\ end[i] = "unbind" /\ state[i] = "gone"
      /\ \A q \in Opens : ref[q] = Inc(i) => pc[q] \notin OwnPcs
  BY TypeFacts, <1>0, Zenon
    DEF UnbindAfterClose, Advance, Fresh, Roles, Stages, Disposing, NewPcs, HoldPcs, OwnPcs, CountPcs
<1>5. \A k \in Keys : items'[k] # items[k] =>
        /\ items'[k] \in {NoSlot, Inc(i), Closer(i)}
        /\ generation = 0 => items[k] \in {NoSlot, Inc(i), Closer(i)}
  BY <1>3, Zenon
<1>6. Touches(i, {})
  BY <1>1, <1>2, <1>3, <1>4, <1>5, TypeFacts, Zenon DEF Touches, NewPcs
<1>7. Fresh(i)' /\ Stages(i)'
  BY <1>0, <1>1, <1>2, <1>4, SlotNames, Zenon DEF KeepsRole, Fresh, Roles, Stages, Disposing, NewPcs, OwnPcs
<1>8. Roles(i)'
  BY <1>0, <1>1, <1>2, <1>4, SlotNames, Zenon DEF KeepsRole, Roles, HoldPcs, OwnPcs
<1>9. Mapped(i)'
  BY TypeFacts, <1>0, <1>2, <1>3, <1>4, SlotNames, Zenon DEF Mapped, Stages, Unmapped
<1>10. Mapping(i)'
  BY TypeFacts, <1>0, <1>1, <1>2, <1>3, <1>4, SlotNames, Zenon
    DEF KeepsRole, Mapping, Mapped, Stages, Unmapped, HoldPcs
<1>11. CountEffect(i)
  BY <1>2, <1>4, Zenon DEF CountEffect
<1> QED BY OneTouched, <1>6, <1>7, <1>8, <1>9, <1>10, <1>11, Zenon DEF SlotInv

(* ResetEndsAwake keeps the invariants.                                     *)
LEMMA ResetEndsAwakeKeeps ==
  ASSUME TypeOK, IndInv, IdleIsUnheld, NEW i \in Opens, i \in reset.todo, reset.running, state[i] = "awake",
         reset' = [reset EXCEPT !.todo = @ \ {i}, !.current = i], state' = [state EXCEPT ![i] = "gone"],
         finished' = [finished EXCEPT ![i] = TRUE], end' = [end EXCEPT ![i] = "resetSleep"],
         UNCHANGED <<pc, ref, items, holders, enforce, life, generation>>
  PROVE AllSlots
<1>0. Fresh(i) /\ Roles(i) /\ Stages(i) /\ Mapped(i) /\ Mapping(i)
  BY IncarnationInv, Zenon
<1>1. /\ \A q \in Opens : KeepsRole(q)
  BY TypeFacts, Zenon DEF aliasVars, KeepsRole
<1>2. /\ state'[i] = "gone" /\ end'[i] = "resetSleep" /\ life'[i] = life[i]
      /\ holders'[i] = holders[i] /\ enforce'[i] = enforce[i] /\ finished'[i] = TRUE
      /\ \A j \in Opens \ {i} : SlotKept(j)
  BY TypeFacts, Zenon DEF aliasVars, SlotKept
<1>3. /\ items' = items
      /\ reset'.todo = reset.todo \ {i} /\ generation' = generation
  BY TypeFacts, Zenon DEF aliasVars, aliasVars
<1>4. /\ state[i] = "awake" /\ end[i] = "none" /\ life[i] = "awake" /\ ~finished[i]
      /\ i \in reset.todo /\ generation # 0
      /\ \A q \in Opens : ref[q] = Inc(i) => pc[q] \notin OwnPcs
  BY TypeFacts, <1>0, ResetRaisesGeneration, Zenon
    DEF aliasVars, Fresh, Roles, Stages, Disposing, NewPcs, HoldPcs, OwnPcs, CountPcs
<1>5. \A k \in Keys : items'[k] # items[k] =>
        /\ items'[k] \in {NoSlot, Inc(i), Closer(i)}
        /\ generation = 0 => items[k] \in {NoSlot, Inc(i), Closer(i)}
  BY <1>3, Zenon
<1>6. Touches(i, {})
  BY <1>1, <1>2, <1>3, <1>4, <1>5, TypeFacts, Zenon DEF Touches, NewPcs
<1>7. Fresh(i)' /\ Stages(i)'
  BY <1>0, <1>1, <1>2, <1>4, SlotNames, Zenon DEF KeepsRole, Fresh, Roles, Stages, Disposing, NewPcs, OwnPcs
<1>8. Roles(i)'
  BY <1>0, <1>1, <1>2, <1>4, SlotNames, Zenon DEF KeepsRole, Roles, HoldPcs, OwnPcs
<1>9. Mapped(i)'
  BY TypeFacts, <1>0, <1>2, <1>3, <1>4, SlotNames DEF Mapped, Stages, Unmapped
<1>10. Mapping(i)'
  BY TypeFacts, <1>0, <1>1, <1>2, <1>3, <1>4, SlotNames, Zenon
    DEF KeepsRole, Mapping, Mapped, Stages, Unmapped, HoldPcs
<1>11. CountEffect(i)
  BY <1>2, Zenon DEF CountEffect
<1> QED BY OneTouched, <1>6, <1>7, <1>8, <1>9, <1>10, <1>11, Zenon DEF SlotInv

(* ResetEndsAsleep keeps the invariants.                                    *)
LEMMA ResetEndsAsleepKeeps ==
  ASSUME TypeOK, IndInv, IdleIsUnheld, NEW i \in Opens, i \in reset.todo, reset.running, state[i] = "asleep",
         reset' = [reset EXCEPT !.todo = @ \ {i}, !.current = i], state' = [state EXCEPT ![i] = "gone"],
         finished' = [finished EXCEPT ![i] = TRUE], end' = [end EXCEPT ![i] = "closeUnmapped"],
         UNCHANGED <<pc, ref, items, holders, enforce, life, generation>>
  PROVE AllSlots
<1>0. Fresh(i) /\ Roles(i) /\ Stages(i) /\ Mapped(i) /\ Mapping(i)
  BY IncarnationInv, Zenon
<1>1. /\ \A q \in Opens : KeepsRole(q)
  BY TypeFacts, Zenon DEF aliasVars, KeepsRole
<1>2. /\ state'[i] = "gone" /\ end'[i] = "closeUnmapped" /\ life'[i] = life[i]
      /\ holders'[i] = holders[i] /\ enforce'[i] = enforce[i] /\ finished'[i] = TRUE
      /\ \A j \in Opens \ {i} : SlotKept(j)
  BY TypeFacts, Zenon DEF aliasVars, SlotKept
<1>3. /\ items' = items
      /\ reset'.todo = reset.todo \ {i} /\ generation' = generation
  BY TypeFacts, Zenon DEF aliasVars, aliasVars
<1>4. /\ state[i] = "asleep" /\ end[i] = "none" /\ life[i] = "asleep" /\ ~finished[i]
      /\ i \in reset.todo /\ generation # 0
      /\ \A q \in Opens : ref[q] = Inc(i) => pc[q] \notin OwnPcs
  BY TypeFacts, <1>0, ResetRaisesGeneration, Zenon
    DEF aliasVars, Fresh, Roles, Stages, Disposing, NewPcs, HoldPcs, OwnPcs, CountPcs
<1>5. \A k \in Keys : items'[k] # items[k] =>
        /\ items'[k] \in {NoSlot, Inc(i), Closer(i)}
        /\ generation = 0 => items[k] \in {NoSlot, Inc(i), Closer(i)}
  BY <1>3, Zenon
<1>6. Touches(i, {})
  BY <1>1, <1>2, <1>3, <1>4, <1>5, TypeFacts, Zenon DEF Touches, NewPcs
<1>7. Fresh(i)' /\ Stages(i)'
  BY <1>0, <1>1, <1>2, <1>4, SlotNames, Zenon DEF KeepsRole, Fresh, Roles, Stages, Disposing, NewPcs, OwnPcs
<1>8. Roles(i)'
  BY <1>0, <1>1, <1>2, <1>4, SlotNames, Zenon DEF KeepsRole, Roles, HoldPcs, OwnPcs
<1>9. Mapped(i)'
  BY TypeFacts, <1>0, <1>2, <1>3, <1>4, SlotNames, Zenon DEF Mapped, Stages, Unmapped
<1>10. Mapping(i)'
  BY TypeFacts, <1>0, <1>1, <1>2, <1>3, <1>4, SlotNames, Zenon
    DEF KeepsRole, Mapping, Mapped, Stages, Unmapped, HoldPcs
<1>11. CountEffect(i)
  BY <1>2, Zenon DEF CountEffect
<1> QED BY OneTouched, <1>6, <1>7, <1>8, <1>9, <1>10, <1>11, Zenon DEF SlotInv

(* ResetSkips keeps the invariants.                                         *)
LEMMA ResetSkipsKeeps ==
  ASSUME TypeOK, IndInv, IdleIsUnheld, NEW i \in Opens, EndResetSlot(i), state[i] \in {"busy", "gone"}
  PROVE AllSlots
<1>1. /\ UNCHANGED <<pc, ref, items, state, end, life, holders, enforce, finished, generation>>
      /\ reset'.todo = reset.todo \ {i}
  BY TypeFacts, Zenon DEF EndResetSlot, aliasVars
<1> QED BY AllUntouched, <1>1 DEF Untouched, SlotKept, NewPcs, HoldPcs, OwnPcs, CountPcs

(* EndResetSlot keeps the invariants.                                       *)
LEMMA EndResetSlotKeeps ==
  ASSUME TypeOK, IndInv, IdleIsUnheld, NEW i \in Opens, EndResetSlot(i)
  PROVE AllSlots
<1>1. CASE state[i] = "awake"
  BY ResetEndsAwakeKeeps, <1>1, ZenonT(60) DEF EndResetSlot, aliasVars
<1>2. CASE state[i] = "asleep"
  BY ResetEndsAsleepKeeps, <1>2, ZenonT(60) DEF EndResetSlot, aliasVars
<1> QED BY ResetSkipsKeeps, <1>1, <1>2, ZenonT(60) DEF EndResetSlot

(* ResetSleeps keeps the invariants.                                        *)
LEMMA ResetSleepsKeeps ==
  ASSUME TypeOK, IndInv, IdleIsUnheld, NEW i \in Opens, ResetSleeps(i)
  PROVE AllSlots
<1>0. Fresh(i) /\ Roles(i) /\ Stages(i) /\ Mapped(i) /\ Mapping(i)
  BY IncarnationInv, Zenon
<1>1. /\ \A q \in Opens : KeepsRole(q)
  BY TypeFacts, Zenon DEF ResetSleeps, Advance, KeepsRole
<1>2. /\ state'[i] = state[i] /\ end'[i] = "closeUnmapped" /\ life'[i] \in {"asleep", "broken"}
      /\ holders'[i] = holders[i] /\ enforce'[i] = enforce[i] /\ finished'[i] = finished[i]
      /\ \A j \in Opens \ {i} : SlotKept(j)
  BY TypeFacts, StageOrder DEF ResetSleeps, Advance, SlotKept
<1>3. /\ items' = items
      /\ reset'.todo = reset.todo /\ generation' = generation
  BY TypeFacts, Zenon DEF ResetSleeps, Advance, aliasVars
<1>4. /\ end[i] = "resetSleep" /\ state[i] = "gone" /\ life[i] = "awake"
      /\ \A q \in Opens : ref[q] = Inc(i) => pc[q] \notin OwnPcs
  BY TypeFacts, <1>0, Zenon
    DEF ResetSleeps, Advance, Fresh, Roles, Stages, Disposing, NewPcs, HoldPcs, OwnPcs, CountPcs
<1>5. \A k \in Keys : items'[k] # items[k] =>
        /\ items'[k] \in {NoSlot, Inc(i), Closer(i)}
        /\ generation = 0 => items[k] \in {NoSlot, Inc(i), Closer(i)}
  BY <1>3, Zenon
<1>6. Touches(i, {})
  BY <1>1, <1>2, <1>3, <1>4, <1>5, TypeFacts, Zenon DEF Touches, NewPcs
<1>7. Fresh(i)' /\ Stages(i)'
  BY <1>0, <1>1, <1>2, <1>4, SlotNames, Zenon DEF KeepsRole, Fresh, Roles, Stages, Disposing, NewPcs, OwnPcs
<1>8. Roles(i)'
  BY <1>0, <1>1, <1>2, <1>4, SlotNames, Zenon DEF KeepsRole, Roles, HoldPcs, OwnPcs
<1>9. Mapped(i)'
  BY TypeFacts, <1>0, <1>2, <1>3, <1>4, SlotNames, Zenon DEF Mapped, Stages, Unmapped
<1>10. Mapping(i)'
  BY TypeFacts, <1>0, <1>1, <1>2, <1>3, <1>4, SlotNames
    DEF KeepsRole, Mapping, Mapped, Stages, Unmapped, HoldPcs
<1>11. CountEffect(i)
  BY <1>2, <1>4, Zenon DEF CountEffect
<1> QED BY OneTouched, <1>6, <1>7, <1>8, <1>9, <1>10, <1>11, Zenon DEF SlotInv

(* TakeAll keeps the invariants.                                            *)
LEMMA TakeAllKeeps ==
  ASSUME TypeOK, IndInv, IdleIsUnheld,
         TakeAll
  PROVE AllSlots
<1>1. /\ UNCHANGED <<pc, ref, state, end, life, holders, enforce, finished>>
      /\ items' = [k \in Keys |-> NoSlot]
      /\ generation' # 0
  BY DEF TakeAll, TypeOK, AliasTypeOK
<1>2. ASSUME NEW j \in Opens PROVE SlotInv(j)' /\ CountEffect(j)
  <2>1. Fresh(j)' /\ Roles(j)' /\ Stages(j)'
    BY IncarnationInv, <1>1, Zenon DEF Fresh, Roles, Stages
  <2>2. Mapped(j)' /\ Mapping(j)'
    BY <1>1, SlotNames, Zenon DEF Mapped, Mapping
  <2>3. CountEffect(j)
    BY TypeFacts, <1>1, Zenon DEF CountEffect, Counted
  <2> QED BY <2>1, <2>2, <2>3, Zenon DEF SlotInv
<1> QED BY <1>2, Zenon DEF AllSlots

(* The steps of an Open call and of its holder.                             *)
LEMMA HolderStepKeeps ==
  ASSUME TypeOK, IndInv, IdleIsUnheld, NEW o \in Opens, HolderStep(o)
  PROVE AllSlots
  BY OpenCreateKeeps, OpenParkKeeps, WokenKeeps, PublishPutKeeps, CreateFailsKeeps, FinishBindKeeps,
        AfterFuncKeeps, PollErrKeeps, OpenBindKeeps, OpenWakeKeeps, PublishWakeKeeps, WakePanicsKeeps,
        FinishedAtBindKeeps, PollFinishedKeeps, ReleaseHolderKeeps, ClaimDropKeeps, SleepReturnsKeeps,
        SleepPanicsKeeps, LogOrphanKeeps, EndMappedCloseKeeps, ParkAsleepKeeps, ExpireInlineKeeps,
        EndingReturnsKeeps, Zenon
  DEF HolderStep

(* The steps of an ending and of Reset.                                     *)
LEMMA EndingStepsKeeps ==
  ASSUME TypeOK, IndInv, IdleIsUnheld, NEW i \in Opens, EndingStep(i) \/ EndResetSlot(i) \/ ResetSleeps(i)
  PROVE AllSlots
  BY OtherVariablesKeeps, ExpireOnTimerKeeps, CloseReturnsKeeps, UnmapLockedKeeps, CloseReadyKeeps,
        UnbindAfterCloseKeeps, EndResetSlotKeeps, ResetSleepsKeeps, Zenon
  DEF EndingStep

(* Every step keeps the invariant of every incarnation.                     *)
LEMMA SlotInvStep == TypeOK /\ IndInv /\ IdleIsUnheld /\ [Next]_vars => AllSlots
  BY OtherVariablesKeeps, StartOpenKeeps, TakeAllKeeps, HolderStepKeeps, EndingStepsKeeps, Zenon
    DEF Next, ServeNext, ResetStep

-----------------------------------------------------------------------------
(* The holder count.                                                        *)
INSTANCE FiniteSetTheorems

(* Counted sets are finite.                                                 *)
LEMMA CountedFinite ==
  ASSUME NEW i \in Opens
  PROVE IsFiniteSet(Counted(i)) /\ Cardinality(Counted(i)) \in Nat
<1>1. Counted(i) \subseteq Opens
  BY Zenon DEF Counted
<1> QED BY <1>1, TableAssumption, FS_Subset, FS_CardinalityType, Zenon

(* A holder count of zero means nobody is between bind and releaseHolder.   *)
LEMMA CountIsIdle == IndInv => IdleIsUnheld
<1> SUFFICES ASSUME IndInv, NEW i \in Opens, state[i] \in {"busy", "awake", "asleep"}, holders[i] = 0
             PROVE \A o \in Opens : ref[o] = Inc(i) => pc[o] \notin HoldPcs /\ pc[o] # "wake"
  BY Zenon DEF IdleIsUnheld
<1>1. Cardinality(Counted(i)) = 0
  BY Zenon DEF IndInv, Count
<1>2. Counted(i) = {}
  BY <1>1, CountedFinite, FS_EmptySet, Zenon
<1> QED BY <1>2, Zenon DEF Counted, HoldPcs, CountPcs

(* slot.holders and the Opens it should be counting move together.          *)
LEMMA CountMoves ==
  ASSUME TypeOK, NEW i \in Opens, Count(i), CountEffect(i)
  PROVE Count(i)'
<1>1. CASE state'[i] \in {"none", "gone"}
  BY <1>1, Zenon DEF Count
<1>2. CASE holders'[i] = 0 /\ Counted(i)' = {}
  BY <1>2, FS_EmptySet, Zenon DEF Count
<1>3. ASSUME state[i] \in {"busy", "awake", "asleep"}
      PROVE holders[i] = Cardinality(Counted(i)) /\ holders[i] \in Nat
  BY <1>3, CountedFinite, Zenon DEF Count
<1>4. CASE /\ state[i] \in {"busy", "awake", "asleep"}
           /\ holders'[i] = holders[i] /\ Counted(i)' = Counted(i)
  BY <1>3, <1>4, Zenon DEF Count
<1>5. ASSUME NEW o \in Opens, state[i] \in {"busy", "awake", "asleep"}, holders'[i] = holders[i] + 1,
             o \notin Counted(i), Counted(i)' = Counted(i) \cup {o}
      PROVE Count(i)'
  BY <1>3, <1>5, CountedFinite, FS_AddElement, ZenonT(60) DEF Count
<1>6. ASSUME NEW o \in Opens, state[i] \in {"busy", "awake", "asleep"}, holders'[i] = holders[i] - 1,
             o \in Counted(i), Counted(i)' = Counted(i) \ {o}
      PROVE Count(i)'
  BY <1>3, <1>6, CountedFinite, FS_RemoveElement, ZenonT(60) DEF Count
<1> QED BY <1>1, <1>2, <1>4, <1>5, <1>6, Zenon DEF CountEffect

-----------------------------------------------------------------------------
(* The invariant, and what follows from it.                                 *)

(* The strengthening is inductive, with and without Reset.                  *)
THEOREM Invariance == Spec => []IndInv
<1>1. Init => IndInv
  <2> SUFFICES ASSUME Init PROVE IndInv
    BY Zenon
  <2>1. ResetAlone
    BY Zenon DEF Init, AliasInit, ResetAlone
  <2>2. ASSUME NEW i \in Opens PROVE SlotInv(i) /\ Count(i)
    <3>1. Fresh(i) /\ Roles(i) /\ Stages(i)
      BY SlotNames, Zenon DEF Init, Fresh, Roles, Stages, Disposing
    <3>2. Mapped(i) /\ Mapping(i) /\ Count(i)
      BY SlotNames, TableAssumption, Zenon DEF Init, Mapped, Mapping, Count
    <3> QED BY <3>1, <3>2, Zenon DEF SlotInv
  <2> QED BY <2>1, <2>2, Zenon DEF IndInv
<1>2. TypeOK /\ IndInv /\ [Next]_vars => IndInv'
  BY SlotInvStep, ResetAloneStep, CountIsIdle, CountMoves, Zenon DEF IndInv, AllSlots
<1> QED BY <1>1, <1>2, TypeCorrect, PTL DEF Spec

(* A holder that has not dropped its value has it awake and mapped: no      *)
(* drop, grace timer or panic takes it away before Reset is used.           *)
THEOREM HeldValueStaysAwake == Spec => []HeldIsAwake
<1>1. IndInv => HeldIsAwake
  BY DEF IndInv, SlotInv, HeldIsAwake, Holding, Mapping, Stages, HoldPcs
<1> QED BY <1>1, Invariance, PTL

(* EnforceCloseBeforeOpen: create of a key waits for the Close of every     *)
(* value of that key that asked for it.                                     *)
THEOREM CloseBeforeCreate == Spec => []EnforcedCloseBeforeCreate
<1>1. TypeOK /\ IndInv => EnforcedCloseBeforeCreate
  <2> SUFFICES ASSUME TypeOK, IndInv, generation = 0, NEW o \in Opens, NEW i \in Opens,
                      pc[o] = "create", KeyOf[i] = KeyOf[o], enforce[i]
               PROVE life[i] = "closed"
    BY Zenon DEF EnforcedCloseBeforeCreate
  <2>1. ref[o] = Inc(o) /\ ~enforce[o] /\ o # i
    BY Zenon DEF IndInv, SlotInv, Fresh
  <2>2. items[KeyOf[o]] = Inc(o)
    BY <2>1, Zenon DEF IndInv, SlotInv, Roles, OwnPcs, Mapping
  <2>3. state[i] = "gone"
    <3>1. state[i] \in {"none", "busy", "awake", "asleep", "gone"}
      BY Zenon DEF TypeOK
    <3>2. Fresh(i) /\ Mapping(i)
      BY Zenon DEF IndInv, SlotInv
    <3>3. items[KeyOf[i]] # Inc(i)
      BY <2>1, <2>2, SlotNames, Zenon
    <3>4. state[i] \notin {"busy", "awake"} /\ state[i] # "asleep"
      BY <3>2, <3>3, Zenon DEF Mapping
    <3>5. state[i] # "none"
      BY <3>2, Zenon DEF Fresh
    <3> QED BY <3>1, <3>4, <3>5, Zenon
  <2>4. Mapping(i)
    BY Zenon DEF IndInv, SlotInv
  <2>5. items[KeyOf[i]] # Closer(i)
    BY <2>2, SlotNames, Zenon
  <2>6. end[i] \notin {"wakeOld", "closeBehindCloser"}
    BY <2>4, <2>5, Zenon DEF Mapping
  <2> QED BY <2>3, <2>4, <2>6, Zenon DEF Mapping
<1> QED BY <1>1, Invariance, TypeCorrect, PTL

(* No key leads to a slot that has ended: lookupOpen never sees slotGone.   *)
THEOREM MappedSlotsAreLive == Spec => []MappedIsLive
<1>1. IndInv => MappedIsLive
  BY Zenon DEF IndInv, SlotInv, Mapped, MappedIsLive
<1> QED BY <1>1, Invariance, PTL

(* Peek reports as awake or asleep only a value whose hooks left it so.     *)
THEOREM PeekTellsTheTruth == Spec => []PeekIsTruthful
<1>1. IndInv => PeekIsTruthful
  <2> SUFFICES ASSUME IndInv, NEW k \in Keys, NEW j \in Opens, state[j] \in {"awake", "asleep"}
               PROVE life[j] = state[j]
    BY DEF PeekIsTruthful, Peek
  <2> QED BY Zenon DEF IndInv, SlotInv, Stages
<1> QED BY <1>1, Invariance, PTL

(* slot.holders is the number of Open calls that hold the value.            *)
THEOREM HoldersAreCounted == Spec => []HolderCount
<1>1. IndInv => HolderCount
  BY Zenon DEF IndInv, Count, HolderCount
<1> QED BY <1>1, Invariance, PTL

(* Every hook runs on a value in the condition the previous hook left it.   *)
THEOREM HooksRunInOrder == Spec => []HooksAlternate
<1>1. IndInv => HooksAlternate
  <2> SUFFICES ASSUME IndInv PROVE HooksAlternate
    BY Zenon
  <2>1. \A i \in Opens : Fresh(i) /\ Roles(i) /\ Stages(i)
    BY Zenon DEF IndInv, SlotInv
  <2>2. \A o, i \in Opens : ref[o] = Inc(i) /\ pc[o] = "create" => life[i] = "none"
    BY <2>1, SlotNames, Zenon DEF Fresh
  <2>3. \A o, i \in Opens : ref[o] = Inc(i) =>
          (pc[o] = "sleep" => life[i] = "awake") /\ (pc[o] = "wake" => life[i] = "asleep")
    BY <2>1, Zenon DEF Roles
  <2> QED BY <2>1, <2>2, <2>3, Zenon DEF Stages, HooksAlternate
<1> QED BY <1>1, Invariance, PTL

(* An incarnation is ended by one goroutine only, so closed at most once.   *)
THEOREM EndedOnce == Spec => OneEnding
<1>1. TypeOK /\ IndInv /\ [Next]_vars => EndsOnce
  <2> SUFFICES ASSUME TypeOK, IndInv, [Next]_vars PROVE EndsOnce
    BY Zenon
  <2>t. end \in [Opens -> DOMAIN StageAfter]
    BY Zenon DEF TypeOK
  <2>f. \A i \in Opens : Roles(i) /\ Stages(i)
    BY Zenon DEF IndInv, SlotInv
  <2>1. ASSUME NEW i \in Opens, end[i] = "none", NEW s, end' = [end EXCEPT ![i] = s] PROVE EndsOnce
    BY <2>t, <2>1, Zenon DEF EndsOnce
  <2>2. ASSUME NEW i \in Opens, Advance(i) PROVE EndsOnce
    BY <2>t, <2>2, Zenon DEF Advance, EndsOnce
  <2>3. CASE UNCHANGED end
    BY <2>3, Zenon DEF EndsOnce
  <2>4. ASSUME NEW o \in Opens, NEW i \in Opens, WakePanics(o, i) \/ SleepPanics(o, i) PROVE EndsOnce
    BY <2>f, <2>1, <2>4, ZenonT(60) DEF WakePanics, SleepPanics, EndBusyAfterPanic, InstallCloser, Roles, OwnPcs
  <2>5. ASSUME NEW o \in Opens, NEW i \in Opens, EndMappedClose(o, i) PROVE EndsOnce
    BY <2>f, <2>1, <2>5, ZenonT(60) DEF EndMappedClose, Roles, OwnPcs
  <2>6. ASSUME NEW i \in Opens, ClaimExpire(i) PROVE EndsOnce
    BY <2>f, <2>1, <2>6, Zenon DEF ClaimExpire, Expirable, Stages
  <2>7. ASSUME NEW i \in Opens, EndResetSlot(i) PROVE EndsOnce
    BY <2>f, <2>1, <2>3, <2>7 DEF EndResetSlot, Stages
  <2>8. ASSUME NEW o \in Opens, HolderStep(o) PROVE EndsOnce
    <3>1. ASSUME NEW i \in Opens, ExpireInline(o, i) PROVE EndsOnce
      BY <2>3, <2>6, <3>1, Zenon DEF ExpireInline
    <3> QED
      BY <2>3, <2>4, <2>5, <2>8, <3>1, ZenonT(60)
      DEF HolderStep, OpenCreate, OpenPark, Woken, PublishPut, CreateFails, FinishBind, AfterFunc, PollErr,
          OpenBind, OpenWake, PublishWake, FinishedAtBind, PollFinished, ReleaseHolder, ClaimDrop,
          SleepReturns, LogOrphan, ParkAsleep, EndingReturns, slotVars
  <2>9. ASSUME NEW i \in Opens, EndingStep(i) \/ ResetSleeps(i) PROVE EndsOnce
    <3>1. CASE ExpireOnTimer(i)
      BY <2>3, <2>6, <3>1, Zenon DEF ExpireOnTimer
    <3>2. CASE GraceElapses(i)
      BY <2>3, <3>2, Zenon DEF GraceElapses
    <3>3. CASE CloseReturns(i) \/ UnmapLocked(i) \/ CloseReady(i) \/ UnbindAfterClose(i) \/ ResetSleeps(i)
      BY <2>2, <3>3, Zenon DEF CloseReturns, UnmapLocked, CloseReady, UnbindAfterClose, ResetSleeps
    <3> QED BY <2>9, <3>1, <3>2, <3>3, Zenon DEF EndingStep
  <2>10. CASE AliasStep \/ UNCHANGED vars
    BY <2>3, <2>10, Zenon DEF AliasStep, SetAlias, vars, tableVars, slotVars
  <2>11. ASSUME NEW o \in Opens, Cancel(o) \/ StartOpen(o) PROVE EndsOnce
    BY <2>3, <2>11, Zenon DEF Cancel, StartOpen, slotVars
  <2>12. CASE TakeAll \/ ResetContinues
    BY <2>3, <2>12, Zenon DEF TakeAll, ResetContinues
  <2> QED
    BY <2>7, <2>8, <2>9, <2>10, <2>11, <2>12, Zenon DEF Next, ServeNext, ResetStep
<1> QED BY <1>1, Invariance, TypeCorrect, PTL DEF Spec, OneEnding

-----------------------------------------------------------------------------
(* Owners, logs and names.                                                  *)

(* A busy slot has an owner, and what is left asleep has been logged.       *)
THEOREM TransitionInvariance == Spec => []TransitionInv
<1>1. Init => TransitionInv
  BY Zenon DEF Init, TransitionInv, Owned, Logged, Disposing
<1> QED BY <1>1, TransitionStep, Invariance, TypeCorrect, PTL DEF Spec

(* A busy slot has exactly one owner and no other slot has any: a ready     *)
(* channel is closed once, and nobody parked on it is forgotten.            *)
THEOREM BusyIsOwned == Spec => []BusyHasOneOwner
<1>1. TypeOK /\ IndInv /\ TransitionInv => BusyHasOneOwner
  <2> SUFFICES ASSUME TypeOK, IndInv, TransitionInv, NEW i \in Opens
               PROVE Cardinality(Owners(i)) = IF state[i] = "busy" THEN 1 ELSE 0
    BY Zenon DEF BusyHasOneOwner
  <2>0. Fresh(i) /\ Roles(i) /\ Stages(i) /\ Owned(i)
    BY Zenon DEF IndInv, SlotInv, TransitionInv
  <2> DEFINE own == {o \in Opens : ref[o] = Inc(i) /\ pc[o] \in OwnPcs}
             ending == IF end[i] \in {"closeMapped", "unmap"} THEN {"ending"} ELSE {}
  <2>1. Owners(i) = own \cup ending
    BY Zenon DEF Owners, OwnPcs
  <2>2. own # {} => state[i] = "busy" /\ end[i] = "none"
    BY <2>0, Zenon DEF Roles
  <2>3. CASE state[i] # "busy"
    <3>1. own = {}
      BY <2>2, <2>3, Zenon
    <3>2. end[i] \notin {"closeMapped", "unmap"}
      BY <2>0, <2>3, Zenon DEF Fresh, Stages, TypeOK
    <3>3. Owners(i) = {}
      BY <2>1, <3>1, <3>2, Zenon
    <3> QED BY <2>3, <3>3, FS_EmptySet, Zenon
  <2>4. CASE state[i] = "busy" /\ own = {}
    <3>1. end[i] \in {"closeMapped", "unmap"}
      BY <2>0, <2>4, Zenon DEF Owned
    <3>2. Owners(i) = {"ending"}
      BY <2>1, <2>4, <3>1, Zenon
    <3> QED BY <2>4, <3>2, FS_Singleton, Zenon
  <2>5. ASSUME state[i] = "busy", NEW o \in own PROVE Cardinality(Owners(i)) = 1
    <3>1. \A p \in own : p = o
      BY <2>0, <2>5, Zenon DEF Roles
    <3>2. end[i] \notin {"closeMapped", "unmap"}
      BY <2>2, <2>5, Zenon
    <3>3. Owners(i) = {o}
      <4> HIDE DEF own
      <4> QED BY <2>1, <2>5, <3>1, <3>2, Zenon
    <3> QED BY <3>3, FS_Singleton, Zenon
  <2> QED BY <2>3, <2>4, <2>5, Zenon
<1> QED BY <1>1, TransitionInvariance, Invariance, TypeCorrect, PTL

(* reclaim_orphan is logged before the Close of a value whose Sleep         *)
(* returned, whoever closes it: the dropping goroutine, a timer or Reset.   *)
THEOREM OrphansAreLogged == Spec => []OrphanBeforeDispose
<1>1. TransitionInv => OrphanBeforeDispose
  BY Zenon DEF TransitionInv, Logged, OrphanBeforeDispose
<1> QED BY <1>1, TransitionInvariance, PTL

(* The names stay in order, with and without Reset.                         *)
THEOREM NamesInvariance == Spec => []NamesInv
<1>1. Init => NamesInv
  <2> SUFFICES ASSUME Init PROVE NamesInv
    BY Zenon
  <2>1. \A e \in Entries : entry[e].incarnation = Nobody
    BY Zenon DEF Init, AliasInit
  <2>2. Nobody \notin Opens
    BY AliasAssumption, Zenon
  <2>3. LinksMirrorEntries /\ BoundIsAlive
    BY <2>1, <2>2, Zenon DEF Init, AliasInit, LinksMirrorEntries, BoundIsAlive
  <2>4. \A w \in Watches : watch[w].state # "on"
    BY Zenon DEF Init, AliasInit
  <2>5. reset.todo = {}
    BY Zenon DEF Init
  <2> QED BY <2>3, <2>4, <2>5, Zenon DEF NamesInv, WatcherUpToDate
<1>2. TypeOK /\ TypeOK' /\ IndInv /\ NamesInv /\ [Next]_vars => NamesInv'
  BY NamesStep, Zenon
<1> QED BY <1>1, <1>2, Invariance, TypeCorrect, PTL DEF Spec

(* The reverse links of an incarnation are exactly the names bound to it,   *)
(* so that its unbind misses none.                                          *)
THEOREM LinksAreExact == Spec => []LinksMirrorEntries
<1>1. NamesInv => LinksMirrorEntries
  BY Zenon DEF NamesInv
<1> QED BY <1>1, NamesInvariance, PTL

(* Every subscriber was last told what its name stands for now.             *)
THEOREM WatchersAreUpToDate == Spec => []WatcherUpToDate
<1>1. NamesInv => WatcherUpToDate
  BY Zenon DEF NamesInv
<1> QED BY <1>1, NamesInvariance, PTL

(* No name leads to an incarnation that has ended, but for the Close window *)
(* of a default expire.                                                     *)
THEOREM NamesLeadToLiveValues == Spec => []BoundIsAlive
<1>1. NamesInv => BoundIsAlive
  BY Zenon DEF NamesInv
<1> QED BY <1>1, NamesInvariance, PTL

-----------------------------------------------------------------------------
(* Awake incarnations stay mapped.                                          *)

OpeningPcs == {"create", "wake"}

(* q is creating or waking only what it was creating or waking before.      *)
OpensNothing(q) == pc'[q] \in OpeningPcs => pc'[q] = pc[q] /\ ref'[q] = ref[q]

(* A step that maps nothing anew, unmaps at most incarnation i or its       *)
(* closer, and leaves i at rest or gone if it does.                         *)
Unroots(i) ==
  /\ \A q \in Opens : OpensNothing(q)
  /\ \A j \in Opens : state'[j] = "awake" => state[j] = "awake"
  /\ \A k \in Keys : items'[k] # items[k] => items[k] \in {Inc(i), Closer(i)}
  /\ state'[i] # "awake"
  /\ \A q \in Opens : ref'[q] = Inc(i) => pc'[q] \notin OpeningPcs
  /\ reset' = reset

(* Only i can lose its key in such a step.                                  *)
LEMMA UnrootsKeeps ==
  ASSUME AwakeInv, NEW i \in Opens, Unroots(i)
  PROVE AwakeInv'
<1> SUFFICES ASSUME NEW j \in Opens PROVE Rooted(j)'
  BY Zenon DEF AwakeInv
<1>1. Rooted(j) /\ KeyOf[j] \in Keys
  BY TableAssumption, Zenon DEF AwakeInv
<1>2. CASE j = i
  BY <1>2, Zenon DEF Rooted, Unroots, OpeningPcs
<1>3. CASE j # i
  <2>1. Inc(j) # Inc(i) /\ Inc(j) # Closer(i)
    BY <1>3, SlotNames, Zenon
  <2>2. items[KeyOf[j]] = Inc(j) => items'[KeyOf[j]] = Inc(j)
    BY <1>1, <2>1, Zenon DEF Unroots
  <2>3. state'[j] = "awake" => state[j] = "awake" /\ reset' = reset
    BY Zenon DEF Unroots
  <2>4. \A q \in Opens : ref'[q] = Inc(j) /\ pc'[q] \in OpeningPcs => ref[q] = Inc(j) /\ pc[q] \in OpeningPcs
    BY Zenon DEF Unroots, OpensNothing
  <2> QED BY <1>1, <2>2, <2>3, <2>4, Zenon DEF Rooted, OpeningPcs
<1> QED BY <1>2, <1>3, Zenon

(* A step that maps and unmaps nothing, opens nothing and wakes nothing.    *)
LEMMA RootsStay ==
  ASSUME AwakeInv, \A q \in Opens : OpensNothing(q), items' = items, reset'.todo = reset.todo,
         \A j \in Opens : state'[j] = "awake" => state[j] = "awake"
  PROVE AwakeInv'
<1> SUFFICES ASSUME NEW j \in Opens PROVE Rooted(j)'
  BY Zenon DEF AwakeInv
<1>1. Rooted(j)
  BY Zenon DEF AwakeInv
<1>2. \A q \in Opens : ref'[q] = Inc(j) /\ pc'[q] \in OpeningPcs => ref[q] = Inc(j) /\ pc[q] \in OpeningPcs
  BY Zenon DEF OpensNothing
<1> QED BY <1>1, <1>2, Zenon DEF Rooted, OpeningPcs

(* close(ready) starts nobody creating or waking.                           *)
LEMMA ReleasedOpensNothing ==
  ASSUME TypeOK, NEW s, NEW M \in SUBSET Opens, ref' = ref, \A q \in Opens \ M : pc'[q] = Released(s)[q]
  PROVE \A q \in Opens \ M : OpensNothing(q)
<1> TAKE q \in Opens \ M
<1>1. pc'[q] = pc[q] \/ pc'[q] \in {"woken", "claim"}
  BY ReleasedKeeps, Zenon
<1> QED BY <1>1, Zenon DEF OpensNothing, OpeningPcs

(* claimExpire ends an incarnation nobody is creating or waking.            *)
LEMMA ClaimExpireRoots ==
  ASSUME TypeOK, IndInv, AwakeInv, NEW i \in Opens, ClaimExpire(i), reset' = reset,
         \A q \in Opens : OpensNothing(q)
  PROVE AwakeInv'
<1>t. /\ state \in [Opens -> {"none", "busy", "awake", "asleep", "gone"}]
      /\ items \in [Keys -> Slots \cup {NoSlot}]
  BY Zenon DEF TypeOK
<1>1. /\ state[i] = "asleep"
      /\ state' = [state EXCEPT ![i] = "busy"] \/ state' = [state EXCEPT ![i] = "gone"]
      /\ items' = items \/ items' = Unmapped(KeyOf[i], Inc(i))
  BY Zenon DEF ClaimExpire, Expirable
<1>2. state'[i] # "awake" /\ \A j \in Opens : state'[j] = "awake" => state[j] = "awake"
  BY <1>t, <1>1, Zenon
<1>3. \A k \in Keys : items'[k] # items[k] => items[k] = Inc(i)
  BY <1>t, <1>1, Zenon DEF Unmapped
<1>4. \A q \in Opens : ref'[q] = Inc(i) => pc'[q] \notin OpeningPcs
  <2>1. \A q \in Opens : ref[q] = Inc(i) => pc[q] \notin OpeningPcs
    BY <1>1, Zenon DEF IndInv, SlotInv, Roles, OwnPcs, OpeningPcs
  <2> QED BY <2>1, Zenon DEF OpensNothing
<1>5. Unroots(i)
  BY <1>2, <1>3, <1>4, Zenon DEF Unroots
<1> QED BY <1>5, UnrootsKeeps, Zenon

(* The steps of an Open call and of its holder, when Sleep does not panic.  *)
LEMMA HolderRoots ==
  ASSUME TypeOK, IndInv, AwakeInv, "sleep" \notin Failing, NEW o \in Opens, HolderStep(o)
  PROVE AwakeInv'
<1>t. /\ pc \in [Opens -> Pcs] /\ ref \in [Opens -> Slots \cup {NoSlot}]
      /\ state \in [Opens -> {"none", "busy", "awake", "asleep", "gone"}]
      /\ items \in [Keys -> Slots \cup {NoSlot}]
      /\ KeyOf \in [Opens -> Keys]
  BY TableAssumption, Zenon DEF TypeOK
<1>i. \A i \in Opens : Roles(i) /\ Stages(i) /\ Rooted(i)
  BY Zenon DEF IndInv, SlotInv, AwakeInv
<1>p. \A i \in Opens : Released(Inc(i)) \in [Opens -> Pcs]
  BY <1>t, Zenon DEF Released, Pcs
<1>u. \A i \in Opens, k \in Keys : Unmapped(KeyOf[i], Inc(i))[k] # items[k] => items[k] = Inc(i)
  BY <1>t, Zenon DEF Unmapped
(* Once its owner o has left it, nobody is creating or waking i.            *)
<1>l. ASSUME NEW i \in Opens, ref[o] = Inc(i), pc[o] \in OwnPcs, pc'[o] \notin OpeningPcs,
             \A q \in Opens : OpensNothing(q)
      PROVE \A q \in Opens : ref'[q] = Inc(i) => pc'[q] \notin OpeningPcs
  <2> SUFFICES ASSUME NEW q \in Opens, ref'[q] = Inc(i), pc'[q] \in OpeningPcs PROVE FALSE
    BY Zenon
  <2>1. q # o /\ ref[q] = Inc(i) /\ pc[q] \in OwnPcs
    BY <1>l, Zenon DEF OpensNothing, OpeningPcs, OwnPcs
  <2> QED BY <1>i, <1>l, <2>1, Zenon DEF Roles
<1>q. ASSUME NEW x, pc' = [pc EXCEPT ![o] = x], x \notin OpeningPcs,
             \A q \in Opens \ {o} : ref'[q] = ref[q]
      PROVE \A q \in Opens : OpensNothing(q)
  BY <1>q, <1>t, Zenon DEF OpensNothing
<1>1. CASE OpenPark(o) \/ Woken(o) \/ FinishBind(o) \/ AfterFunc(o) \/ PollErr(o)
  <2>1. UNCHANGED <<state, items, reset>>
        /\ \E x \in {"parked", "over", "lookup", "release", "snapshot", "held"} : pc' = [pc EXCEPT ![o] = x]
    BY <1>1, Zenon DEF OpenPark, Woken, FinishBind, AfterFunc, PollErr, slotVars
  <2>2. \A q \in Opens \ {o} : ref'[q] = ref[q]
    BY <1>1, <1>t, Zenon DEF OpenPark, Woken, FinishBind, AfterFunc, PollErr
  <2>3. \A q \in Opens : OpensNothing(q)
    BY <1>q, <2>1, <2>2, Zenon DEF OpeningPcs
  <2> QED BY <2>1, <2>3, RootsStay, Zenon
<1>2. ASSUME NEW i \in Opens,
             \/ OpenBind(o, i) \/ FinishedAtBind(o, i) \/ PollFinished(o, i) \/ ReleaseHolder(o, i)
             \/ SleepReturns(o, i) \/ LogOrphan(o, i) \/ EndMappedClose(o, i) \/ EndingReturns(o, i)
      PROVE AwakeInv'
  <2>1. UNCHANGED <<state, items, reset>>
        /\ \E x \in {"bind", "over", "held", "polled", "claim", "orphan", "park", "ending"} :
             pc' = [pc EXCEPT ![o] = x]
    BY <1>2, Zenon DEF OpenBind, FinishedAtBind, PollFinished, ReleaseHolder, SleepReturns, LogOrphan,
         EndMappedClose, EndingReturns, slotVars
  <2>2. \A q \in Opens \ {o} : ref'[q] = ref[q]
    BY <1>2, <1>t, Zenon DEF OpenBind, FinishedAtBind, PollFinished, ReleaseHolder, SleepReturns, LogOrphan,
         EndMappedClose, EndingReturns
  <2>3. \A q \in Opens : OpensNothing(q)
    BY <1>q, <2>1, <2>2, Zenon DEF OpeningPcs
  <2> QED BY <2>1, <2>3, RootsStay, Zenon
<1>3. ASSUME NEW i \in Opens, ClaimDrop(o, i) PROVE AwakeInv'
  <2>1. UNCHANGED <<ref, items, reset>>
        /\ \E x \in {"dropParked", "sleep", "over"} : pc' = [pc EXCEPT ![o] = x]
        /\ (state' = state \/ state' = [state EXCEPT ![i] = "busy"])
    BY <1>3, Zenon DEF ClaimDrop
  <2>2. \A q \in Opens : OpensNothing(q)
    BY <1>q, <2>1, Zenon DEF OpeningPcs
  <2>3. \A j \in Opens : state'[j] = "awake" => state[j] = "awake"
    BY <1>t, <2>1, Zenon
  <2> QED BY <2>1, <2>2, <2>3, RootsStay, Zenon
<1>4. CASE OpenCreate(o)
  <2>1. /\ items[KeyOf[o]] = NoSlot /\ items' = [items EXCEPT ![KeyOf[o]] = Inc(o)]
        /\ state' = [state EXCEPT ![o] = "busy"] /\ ref' = [ref EXCEPT ![o] = Inc(o)]
        /\ pc' = [pc EXCEPT ![o] = "create"] /\ reset' = reset
    BY <1>4, Zenon DEF OpenCreate
  <2> SUFFICES ASSUME NEW j \in Opens PROVE Rooted(j)'
    BY Zenon DEF AwakeInv
  <2>2. CASE j = o
    <3>1. items'[KeyOf[j]] = Inc(j)
      BY <1>t, <2>1, <2>2, Zenon
    <3> QED BY <3>1, Zenon DEF Rooted
  <2>3. CASE j # o
    <3>1. state'[j] = state[j] /\ Inc(j) # Inc(o) /\ Inc(j) # NoSlot
      BY <1>t, <2>1, <2>3, SlotNames, Zenon
    <3>2. items[KeyOf[j]] = Inc(j) => items'[KeyOf[j]] = Inc(j)
      BY <1>t, <2>1, <3>1, Zenon
    <3>3. \A q \in Opens : ref'[q] = Inc(j) => ref[q] = Inc(j) /\ pc'[q] = pc[q]
      BY <1>t, <2>1, <3>1, Zenon
    <3> QED BY <1>i, <2>1, <3>1, <3>2, <3>3, Zenon DEF Rooted
  <2> QED BY <2>2, <2>3, Zenon
<1>5. ASSUME NEW i \in Opens, OpenWake(o, i) PROVE AwakeInv'
  <2>1. /\ items[KeyOf[i]] = Inc(i) /\ items' = items /\ ref' = [ref EXCEPT ![o] = Inc(i)]
        /\ state' = [state EXCEPT ![i] = "busy"] /\ pc' = [pc EXCEPT ![o] = "wake"] /\ reset' = reset
    <3>1. Mapped(i) /\ KeyOf[o] \in Keys
      BY <1>t, Zenon DEF IndInv, SlotInv
    <3>2. KeyOf[i] = KeyOf[o]
      BY <1>5, <3>1, Zenon DEF OpenWake, Mapped
    <3> QED BY <1>5, <3>2, Zenon DEF OpenWake
  <2> SUFFICES ASSUME NEW j \in Opens PROVE Rooted(j)'
    BY Zenon DEF AwakeInv
  <2>2. CASE j = i
    BY <2>1, <2>2, Zenon DEF Rooted
  <2>3. CASE j # i
    <3>1. state'[j] = state[j] /\ Inc(j) # Inc(i)
      BY <1>t, <2>1, <2>3, SlotNames, Zenon
    <3>2. \A q \in Opens : ref'[q] = Inc(j) => ref[q] = Inc(j) /\ pc'[q] = pc[q]
      BY <1>t, <2>1, <3>1, Zenon
    <3> QED BY <1>i, <2>1, <3>1, <3>2, Zenon DEF Rooted
  <2> QED BY <2>2, <2>3, Zenon
(* An Open that finished creating or waking i finds it mapped.              *)
<1>w. ASSUME NEW i \in Opens, ref[o] = Inc(i), pc[o] \in OpeningPcs, items' = items, reset' = reset,
             ref' = ref, pc' = [Released(Inc(i)) EXCEPT ![o] = "bind"], state' = [state EXCEPT ![i] = "awake"]
      PROVE AwakeInv'
  <2> SUFFICES ASSUME NEW j \in Opens PROVE Rooted(j)'
    BY Zenon DEF AwakeInv
  <2>1. items[KeyOf[i]] = Inc(i)
    BY <1>i, <1>w, Zenon DEF Rooted, OpeningPcs
  <2>2. CASE j = i
    BY <1>w, <2>1, <2>2, Zenon DEF Rooted
  <2>3. CASE j # i
    <3>1. state'[j] = state[j]
      BY <1>t, <1>w, <2>3, Zenon
    <3>2. \A q \in Opens \ {o} : pc'[q] = Released(Inc(i))[q]
      BY <1>p, <1>w, Zenon
    <3>3. \A q \in Opens \ {o} : OpensNothing(q)
      BY <1>w, <3>2, ReleasedOpensNothing, Zenon
    <3>4. pc'[o] \notin {"create", "wake"}
      BY <1>p, <1>w, Zenon
    <3>5. \A q \in Opens : ref'[q] = Inc(j) /\ pc'[q] \in {"create", "wake"} =>
            ref[q] = Inc(j) /\ pc[q] \in {"create", "wake"}
      BY <3>3, <3>4, Zenon DEF OpensNothing, OpeningPcs
    <3> QED BY <1>i, <1>w, <3>1, <3>5, Zenon DEF Rooted
  <2> QED BY <2>2, <2>3, Zenon
<1>6. CASE PublishPut(o)
  <2>1. ref[o] = Inc(o)
    BY <1>6, Zenon DEF PublishPut, IndInv, SlotInv, Fresh
  <2>2. items[KeyOf[o]] = Inc(o)
    BY <1>6, <1>i, <2>1, Zenon DEF PublishPut, Rooted
  <2>3. items' = items
    <3>1. items' = [items EXCEPT ![KeyOf[o]] = Inc(o)]
      BY <1>6, Zenon DEF PublishPut
    <3> QED BY <1>t, <2>2, <3>1, Zenon
  <2> QED BY <1>6, <1>w, <2>1, <2>3, Zenon DEF PublishPut, OpeningPcs
<1>7. ASSUME NEW i \in Opens, PublishWake(o, i) PROVE AwakeInv'
  BY <1>7, <1>w, Zenon DEF PublishWake, OpeningPcs
(* The owner o of i leaves it, asleep or gone.                              *)
<1>v. ASSUME NEW i \in Opens, ref[o] = Inc(i), pc[o] \in OwnPcs, ref' = ref, reset' = reset, NEW x, x \notin OpeningPcs,
             pc' = [pc EXCEPT ![o] = x] \/ pc' = [Released(Inc(i)) EXCEPT ![o] = x],
             NEW s \in {"asleep", "gone"}, state' = [state EXCEPT ![i] = s],
             \A k \in Keys : items'[k] # items[k] => items[k] = Inc(i)
      PROVE AwakeInv'
  <2>1. pc'[o] = x
    BY <1>p, <1>t, <1>v, Zenon
  <2>2. \A q \in Opens : OpensNothing(q)
    <3>1. CASE pc' = [pc EXCEPT ![o] = x]
      BY <1>q, <1>v, <3>1, Zenon
    <3>2. CASE pc' = [Released(Inc(i)) EXCEPT ![o] = x]
      <4>1. \A q \in Opens \ {o} : pc'[q] = Released(Inc(i))[q]
        BY <1>p, <3>2, Zenon
      <4>2. \A q \in Opens \ {o} : OpensNothing(q)
        BY <1>v, <4>1, ReleasedOpensNothing, ZenonT(60)
      <4> QED BY <1>v, <2>1, <4>2, Zenon DEF OpensNothing
    <3> QED BY <1>v, <3>1, <3>2, Zenon
  <2>3. \A q \in Opens : ref'[q] = Inc(i) => pc'[q] \notin OpeningPcs
    BY <1>l, <1>v, <2>1, <2>2, Zenon
  <2>4. state'[i] # "awake" /\ \A j \in Opens : state'[j] = "awake" => state[j] = "awake"
    BY <1>t, <1>v, Zenon
  <2>5. Unroots(i)
    BY <1>v, <2>2, <2>3, <2>4, Zenon DEF Unroots
  <2> QED BY <2>5, UnrootsKeeps, Zenon
<1>8. CASE CreateFails(o)
  <2>1. ref[o] = Inc(o)
    BY <1>8, Zenon DEF CreateFails, IndInv, SlotInv, Fresh
  <2>2. /\ pc[o] = "create" /\ ref' = ref /\ reset' = reset /\ state' = [state EXCEPT ![o] = "gone"]
        /\ pc' = [Released(Inc(o)) EXCEPT ![o] = "over"] /\ items' = Unmapped(KeyOf[o], Inc(o))
    BY <1>8, Zenon DEF CreateFails, EndBusySlot
  <2>3. \A k \in Keys : items'[k] # items[k] => items[k] = Inc(o)
    BY <1>u, <2>2, Zenon
  <2>4. pc[o] \in OwnPcs /\ "over" \notin OpeningPcs
    BY <2>2, Zenon DEF OwnPcs, OpeningPcs
  <2> QED BY <1>v, <2>1, <2>2, <2>3, <2>4, Zenon
<1>9. ASSUME NEW i \in Opens, WakePanics(o, i) PROVE AwakeInv'
  <2>1. /\ pc[o] = "wake" /\ ref[o] = Inc(i) /\ ref' = ref /\ reset' = reset
        /\ state' = [state EXCEPT ![i] = "gone"]
        /\ pc' = [pc EXCEPT ![o] = "ending"] \/ pc' = [Released(Inc(i)) EXCEPT ![o] = "ending"]
        /\ items' = Unmapped(KeyOf[i], Inc(i)) \/ items' = [items EXCEPT ![KeyOf[i]] = Closer(i)]
    BY <1>9, Zenon DEF WakePanics, EndBusyAfterPanic, InstallCloser, EndBusySlot
  <2>2. items[KeyOf[i]] = Inc(i)
    BY <1>i, <2>1, Zenon DEF Rooted
  <2>3. \A k \in Keys : items'[k] # items[k] => items[k] = Inc(i)
    BY <1>t, <1>u, <2>1, <2>2, Zenon
  <2>4. pc[o] \in OwnPcs /\ "ending" \notin OpeningPcs
    BY <2>1, Zenon DEF OwnPcs, OpeningPcs
  <2> QED BY <1>v, <2>1, <2>3, <2>4, Zenon
<1>10. ASSUME NEW i \in Opens, ParkAsleep(o, i) PROVE AwakeInv'
  <2>1. /\ pc[o] = "park" /\ ref[o] = Inc(i) /\ ref' = ref /\ reset' = reset
        /\ state' = [state EXCEPT ![i] = "asleep"]
        /\ \E x \in {"over", "expire"} : pc' = [Released(Inc(i)) EXCEPT ![o] = x]
        /\ items' = Unmapped(KeyOf[i], Inc(i)) \/ items' = items
    BY <1>10, Zenon DEF ParkAsleep
  <2>2. \A k \in Keys : items'[k] # items[k] => items[k] = Inc(i)
    BY <1>u, <2>1, Zenon
  <2>3. pc[o] \in OwnPcs /\ "over" \notin OpeningPcs /\ "expire" \notin OpeningPcs
    BY <2>1, Zenon DEF OwnPcs, OpeningPcs
  <2> QED BY <1>v, <2>1, <2>2, <2>3, Zenon
<1>11. ASSUME NEW i \in Opens, ExpireInline(o, i) PROVE AwakeInv'
  <2>1. ref' = ref /\ reset' = reset /\ \E x \in {"ending", "over"} : pc' = [pc EXCEPT ![o] = x]
    BY <1>11, Zenon DEF ExpireInline
  <2>2. \A q \in Opens : OpensNothing(q)
    BY <1>q, <2>1, Zenon DEF OpeningPcs
  <2>3. CASE ClaimExpire(i)
    BY <2>1, <2>2, <2>3, ClaimExpireRoots, Zenon
  <2>4. CASE UNCHANGED <<state, items>>
    BY <2>1, <2>2, <2>4, RootsStay, Zenon
  <2> QED BY <1>11, <2>3, <2>4, Zenon DEF ExpireInline
<1>12. ASSUME NEW i \in Opens, SleepPanics(o, i) PROVE AwakeInv'
  BY <1>12, Zenon DEF SleepPanics
<1> QED BY <1>1, <1>2, <1>3, <1>4, <1>5, <1>6, <1>7, <1>8, <1>9, <1>10, <1>11, <1>12, Zenon DEF HolderStep

(* The steps of an ending and of Reset.                                     *)
LEMMA EndingRoots ==
  ASSUME TypeOK, IndInv, AwakeInv, NEW i \in Opens, EndingStep(i) \/ EndResetSlot(i) \/ ResetSleeps(i)
  PROVE AwakeInv'
<1>t. /\ state \in [Opens -> {"none", "busy", "awake", "asleep", "gone"}]
      /\ items \in [Keys -> Slots \cup {NoSlot}]
      /\ reset \in [running : BOOLEAN, todo : SUBSET Opens, current : Opens \cup {Nobody}]
  BY Zenon DEF TypeOK
<1>q. ASSUME pc' = pc, ref' = ref PROVE \A q \in Opens : OpensNothing(q)
  BY <1>q, Zenon DEF OpensNothing
<1>1. CASE GraceElapses(i) \/ CloseReturns(i) \/ UnbindAfterClose(i) \/ ResetSleeps(i)
  <2>1. pc' = pc /\ ref' = ref /\ items' = items /\ reset' = reset /\ state' = state
    BY <1>1, Zenon DEF GraceElapses, CloseReturns, UnbindAfterClose, ResetSleeps
  <2> QED BY <1>q, <2>1, RootsStay, Zenon
<1>2. CASE ExpireOnTimer(i)
  <2>1. pc' = pc /\ ref' = ref /\ reset' = reset /\ (ClaimExpire(i) \/ UNCHANGED <<state, items>>)
    BY <1>2, Zenon DEF ExpireOnTimer
  <2>2. \A q \in Opens : OpensNothing(q)
    BY <1>q, <2>1, Zenon
  <2>3. CASE ClaimExpire(i)
    BY <2>1, <2>2, <2>3, ClaimExpireRoots, Zenon
  <2>4. CASE UNCHANGED <<state, items>>
    BY <2>1, <2>2, <2>4, RootsStay, Zenon
  <2> QED BY <2>1, <2>3, <2>4, Zenon
<1>3. CASE CloseReady(i)
  <2>1. ref' = ref /\ items' = items /\ reset' = reset /\ state' = state /\ \E s : pc' = Released(s)
    BY <1>3, Zenon DEF CloseReady
  <2>2. ASSUME NEW s, pc' = Released(s) PROVE \A q \in Opens \ {} : OpensNothing(q)
    BY <2>1, <2>2, ReleasedOpensNothing, Zenon
  <2>3. \A q \in Opens : OpensNothing(q)
    BY <2>1, <2>2, Zenon
  <2> QED BY <2>1, <2>3, RootsStay, Zenon
<1>4. CASE UnmapLocked(i)
  <2>1. pc' = pc /\ ref' = ref /\ reset' = reset /\ end[i] \in {"unmap", "unmapCloser"}
        /\ (state' = [state EXCEPT ![i] = "gone"] \/ (state' = state /\ end[i] = "unmapCloser"))
        /\ (items' = Unmapped(KeyOf[i], Inc(i)) \/ items' = Unmapped(KeyOf[i], Closer(i)))
    BY <1>4, Zenon DEF UnmapLocked
  <2>2. Roles(i) /\ Stages(i)
    BY Zenon DEF IndInv, SlotInv
  <2>3. \A q \in Opens : OpensNothing(q)
    BY <1>q, <2>1, Zenon
  <2>4. state'[i] # "awake" /\ \A j \in Opens : state'[j] = "awake" => state[j] = "awake"
    BY <1>t, <2>1, <2>2, Zenon DEF Stages
  <2>5. \A k \in Keys : items'[k] # items[k] => items[k] \in {Inc(i), Closer(i)}
    BY <1>t, <2>1, Zenon DEF Unmapped
  <2>6. \A q \in Opens : ref'[q] = Inc(i) => pc'[q] \notin OpeningPcs
    BY <2>1, <2>2, Zenon DEF Roles, OwnPcs, OpeningPcs
  <2>7. Unroots(i)
    BY <2>1, <2>3, <2>4, <2>5, <2>6, Zenon DEF Unroots
  <2> QED BY <2>7, UnrootsKeeps, Zenon
<1>5. CASE EndResetSlot(i)
  <2>1. pc' = pc /\ ref' = ref /\ items' = items
    BY <1>5, Zenon DEF EndResetSlot
  <2>2. reset'.todo = reset.todo \ {i}
    <3>1. \/ reset' = [reset EXCEPT !.todo = @ \ {i}, !.current = i]
          \/ reset' = [reset EXCEPT !.todo = @ \ {i}]
      BY <1>5, Zenon DEF EndResetSlot
    <3> QED BY <1>t, <3>1, Zenon
  <2>3. state'[i] # "awake" /\ \A j \in Opens : state'[j] = "awake" => state[j] = "awake"
    <3>1. state' = [state EXCEPT ![i] = "gone"] \/ (state' = state /\ state[i] \in {"busy", "gone"})
      BY <1>5, Zenon DEF EndResetSlot
    <3> QED BY <1>t, <3>1, Zenon
  <2> SUFFICES ASSUME NEW j \in Opens PROVE Rooted(j)'
    BY Zenon DEF AwakeInv
  <2>4. Rooted(j)
    BY Zenon DEF AwakeInv
  <2>5. j \in reset.todo /\ state'[j] = "awake" => j \in reset'.todo
    BY <2>2, <2>3, Zenon
  <2> QED BY <2>1, <2>3, <2>4, <2>5, Zenon DEF Rooted
<1> QED BY <1>1, <1>2, <1>3, <1>4, <1>5, Zenon DEF EndingStep

(* takeAll: what it unmaps awake is what Reset has to end; nobody is        *)
(* creating or waking then.                                                 *)
LEMMA TakeAllRoots ==
  ASSUME IndInv, AwakeInv, TakeAll
  PROVE AwakeInv'
<1>1. /\ pc' = pc /\ ref' = ref /\ state' = state
      /\ reset' = [running |-> TRUE, todo |-> {i \in Opens : items[KeyOf[i]] = Inc(i)}, current |-> Nobody]
      /\ \A o \in Opens : returned[o] \/ pc[o] \in {"idle", "over"}
      /\ ~reset.running
  BY Zenon DEF TakeAll
<1>2. reset'.todo = {i \in Opens : items[KeyOf[i]] = Inc(i)} /\ reset.todo = {}
  <2>1. reset.todo = {}
    BY <1>1, Zenon DEF IndInv, ResetAlone
  <2> QED BY <1>1, <2>1, Zenon
<1>3. \A o \in Opens : pc'[o] \notin {"create", "wake"}
  BY <1>1, Zenon DEF IndInv, ResetAlone
<1> SUFFICES ASSUME NEW j \in Opens PROVE Rooted(j)'
  BY Zenon DEF AwakeInv
<1>4. Rooted(j)
  BY Zenon DEF AwakeInv
<1> QED BY <1>1, <1>2, <1>3, <1>4, Zenon DEF Rooted

(* Unless a Sleep panics, an awake incarnation that Reset has not taken     *)
(* stays mapped: no stale drop or timer of an earlier incarnation unmaps it. *)
THEOREM AwakeStaysMapped ==
  ASSUME "sleep" \notin Failing
  PROVE Spec => []AwakeIsMapped
<1>1. Init => AwakeInv
  BY Zenon DEF Init, AwakeInv, Rooted
<1>2. TypeOK /\ IndInv /\ AwakeInv /\ [Next]_vars => AwakeInv'
  <2> SUFFICES ASSUME TypeOK, IndInv, AwakeInv, [Next]_vars PROVE AwakeInv'
    BY Zenon
  <2>1. ASSUME NEW o \in Opens, StartOpen(o) PROVE AwakeInv'
    <3>1. ref' = ref /\ state' = state /\ items' = items /\ reset' = reset /\ pc' = [pc EXCEPT ![o] = "lookup"]
      BY <2>1, Zenon DEF StartOpen, slotVars
    <3>2. \A q \in Opens : OpensNothing(q)
      BY <3>1, Zenon DEF OpensNothing, OpeningPcs, TypeOK
    <3> QED BY <3>1, <3>2, RootsStay, Zenon
  <2>2. ASSUME UNCHANGED <<pc, ref, state, items>>, reset'.todo = reset.todo PROVE AwakeInv'
    BY <2>2, RootsStay, Zenon DEF OpensNothing
  <2>3. CASE UNCHANGED vars \/ AliasStep \/ \E o \in Opens : Cancel(o)
    BY <2>2, <2>3, Zenon DEF vars, tableVars, slotVars, AliasStep, SetAlias, Cancel
  <2>4. CASE ResetContinues
    <3>1. reset'.todo = reset.todo
      BY <2>4 DEF ResetContinues, TypeOK
    <3> QED BY <2>2, <2>4, <3>1, Zenon DEF ResetContinues
  <2> QED BY <2>1, <2>3, <2>4, HolderRoots, EndingRoots, TakeAllRoots, Zenon DEF Next, ServeNext, ResetStep
<1>3. AwakeInv => AwakeIsMapped
  BY Zenon DEF AwakeInv, Rooted, AwakeIsMapped
<1> QED BY <1>1, <1>2, <1>3, Invariance, TypeCorrect, PTL DEF Spec

=============================================================================
