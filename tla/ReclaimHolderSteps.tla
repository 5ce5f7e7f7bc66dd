------------------------ MODULE ReclaimHolderSteps -------------------------
(***************************************************************************)
(* SlotInv is inductive, first half: the steps of an Open call and of the   *)
(* drop of its holder, with one lemma per action or outcome of an action.   *)
(* Then the steps that keep a busy slot owned and its orphan logged.        *)
(***************************************************************************)
EXTENDS ReclaimFrame

(* What TypeOK says of the variables SlotInv is about.                      *)
LEMMA TypeFacts ==
  ASSUME TypeOK
  PROVE /\ pc \in [Opens -> Pcs] /\ ref \in [Opens -> Slots \cup {NoSlot}]
        /\ items \in [Keys -> Slots \cup {NoSlot}] /\ KeyOf \in [Opens -> Keys]
        /\ state \in [Opens -> {"none", "busy", "awake", "asleep", "gone"}]
        /\ end \in [Opens -> DOMAIN StageAfter] /\ enforce \in [Opens -> BOOLEAN]
        /\ life \in [Opens -> {"none", "awake", "asleep", "broken", "closed"}]
        /\ holders \in [Opens -> Int] /\ finished \in [Opens -> BOOLEAN]
        /\ reset \in [running : BOOLEAN, todo : SUBSET Opens, current : Opens \cup {Nobody}]
  BY TableAssumption, Zenon DEF TypeOK

(* The parts of the invariant of one incarnation.                           *)
LEMMA IncarnationInv ==
  ASSUME IndInv, NEW j \in Opens
  PROVE SlotInv(j) /\ Fresh(j) /\ Roles(j) /\ Stages(j) /\ Mapped(j) /\ Mapping(j)
  BY Zenon DEF IndInv, SlotInv

(* While an Open is in flight, Reset has nothing left to end.               *)
LEMMA NoOpenBesideReset ==
  ASSUME TypeOK, IndInv, NEW o \in Opens, pc[o] \in {"lookup", "create", "wake"}
  PROVE reset.todo = {}
  BY TypeFacts, Zenon DEF IndInv, ResetAlone, NewPcs

(* A running Reset has replaced the alias map.                              *)
LEMMA ResetRaisesGeneration ==
  ASSUME IndInv
  PROVE reset.running => generation # 0
  BY Zenon DEF IndInv, ResetAlone

(* A step that touches nothing keeps every invariant.                       *)
LEMMA AllUntouched ==
  ASSUME TypeOK, IndInv, \A j \in Opens : Untouched(j)
  PROVE AllSlots
  BY IncarnationInv, UntouchedKeeps, Zenon DEF AllSlots

(* A step that touches incarnation i has to keep that one's invariant only. *)
LEMMA OneTouched ==
  ASSUME TypeOK, IndInv, NEW i \in Opens, NEW M \in SUBSET Opens, Touches(i, M), SlotInv(i)', CountEffect(i)
  PROVE AllSlots
<1>1. ASSUME NEW j \in Opens, j # i PROVE SlotInv(j)' /\ CountEffect(j)
  BY IncarnationInv, <1>1, OthersUntouched, UntouchedKeeps, Zenon
<1> QED BY <1>1, Zenon DEF AllSlots

-----------------------------------------------------------------------------
(* One lemma per action, or per outcome of an action.                       *)

(* These steps change nothing SlotInv depends on.                           *)
LEMMA OtherVariablesKeeps ==
  ASSUME TypeOK, IndInv, IdleIsUnheld,
         \/ ResetContinues \/ AliasStep \/ UNCHANGED vars
         \/ \E o \in Opens : Cancel(o) \/ GraceElapses(o)
  PROVE AllSlots
<1>1. /\ UNCHANGED <<pc, ref, items, state, end, life, holders, enforce, finished>>
      /\ reset'.todo = reset.todo
  BY TypeFacts, Zenon DEF ResetContinues, AliasStep, SetAlias, Cancel, GraceElapses, vars, tableVars, slotVars
<1>2. generation' = generation
  BY AliasKeepsGeneration, Zenon DEF ResetContinues, Cancel, GraceElapses, vars, aliasVars
<1> QED BY AllUntouched, <1>1, <1>2 DEF Untouched, SlotKept

(* StartOpen keeps the invariants.                                          *)
LEMMA StartOpenKeeps ==
  ASSUME TypeOK, IndInv, IdleIsUnheld, NEW o \in Opens, StartOpen(o)
  PROVE AllSlots
  BY AllUntouched, TypeFacts, SlotNames
    DEF StartOpen, slotVars, aliasVars, Untouched, SlotKept, NewPcs, HoldPcs, OwnPcs, CountPcs

(* OpenPark keeps the invariants.                                           *)
LEMMA OpenParkKeeps ==
  ASSUME TypeOK, IndInv, IdleIsUnheld, NEW o \in Opens, OpenPark(o)
  PROVE AllSlots
<1>1. \A j \in Opens : items[KeyOf[o]] = Inc(j) => state[j] # "none"
  BY TypeFacts, IncarnationInv DEF Mapped
<1> QED BY AllUntouched, TypeFacts, <1>1, SlotNames
  DEF OpenPark, slotVars, aliasVars, Untouched, SlotKept, NewPcs, HoldPcs, OwnPcs, CountPcs

(* Woken keeps the invariants.                                              *)
LEMMA WokenKeeps ==
  ASSUME TypeOK, IndInv, IdleIsUnheld, NEW o \in Opens, Woken(o)
  PROVE AllSlots
  BY AllUntouched, TypeFacts, SlotNames
    DEF Woken, slotVars, aliasVars, Untouched, SlotKept, NewPcs, HoldPcs, OwnPcs, CountPcs

(* FinishBind keeps the invariants.                                         *)
LEMMA FinishBindKeeps ==
  ASSUME TypeOK, IndInv, IdleIsUnheld, NEW o \in Opens, FinishBind(o)
  PROVE AllSlots
  BY AllUntouched, TypeFacts, SlotNames
    DEF FinishBind, slotVars, aliasVars, Untouched, SlotKept, NewPcs, HoldPcs, OwnPcs, CountPcs

(* AfterFunc keeps the invariants.                                          *)
LEMMA AfterFuncKeeps ==
  ASSUME TypeOK, IndInv, IdleIsUnheld, NEW o \in Opens, AfterFunc(o)
  PROVE AllSlots
  BY AllUntouched, TypeFacts, SlotNames
    DEF AfterFunc, slotVars, aliasVars, Untouched, SlotKept, NewPcs, HoldPcs, OwnPcs, CountPcs

(* PollErr keeps the invariants.                                            *)
LEMMA PollErrKeeps ==
  ASSUME TypeOK, IndInv, IdleIsUnheld, NEW o \in Opens, PollErr(o)
  PROVE AllSlots
  BY AllUntouched, TypeFacts, SlotNames
    DEF PollErr, slotVars, aliasVars, Untouched, SlotKept, NewPcs, HoldPcs, OwnPcs, CountPcs

(* FinishedAtBind keeps the invariants.                                     *)
LEMMA FinishedAtBindKeeps ==
  ASSUME TypeOK, IndInv, IdleIsUnheld, NEW o \in Opens, NEW i \in Opens, FinishedAtBind(o, i)
  PROVE AllSlots
<1>1. finished[i] => state[i] = "gone"
  BY TypeFacts, IncarnationInv, Zenon DEF Stages
<1> QED BY AllUntouched, TypeFacts, <1>1, SlotNames
  DEF FinishedAtBind, slotVars, aliasVars, Untouched, SlotKept, NewPcs, HoldPcs, OwnPcs, CountPcs

(* PollFinished keeps the invariants.                                       *)
LEMMA PollFinishedKeeps ==
  ASSUME TypeOK, IndInv, IdleIsUnheld, NEW o \in Opens, NEW i \in Opens, PollFinished(o, i)
  PROVE AllSlots
<1>1. finished[i] => state[i] = "gone"
  BY TypeFacts, IncarnationInv, Zenon DEF Stages
<1> QED BY AllUntouched, TypeFacts, <1>1, SlotNames
  DEF PollFinished, slotVars, aliasVars, Untouched, SlotKept, NewPcs, HoldPcs, OwnPcs, CountPcs

(* EndingReturns keeps the invariants.                                      *)
LEMMA EndingReturnsKeeps ==
  ASSUME TypeOK, IndInv, IdleIsUnheld, NEW o \in Opens, NEW i \in Opens, EndingReturns(o, i)
  PROVE AllSlots
  BY AllUntouched, TypeFacts, SlotNames
    DEF EndingReturns, slotVars, aliasVars, Untouched, SlotKept, NewPcs, HoldPcs, OwnPcs, CountPcs

(* OpenCreate keeps the invariants.                                         *)
LEMMA OpenCreateKeeps ==
  ASSUME TypeOK, IndInv, IdleIsUnheld, NEW o \in Opens, OpenCreate(o)
  PROVE AllSlots
<1>0. Fresh(o) /\ Roles(o) /\ Stages(o) /\ Mapped(o) /\ Mapping(o)
  BY IncarnationInv, Zenon
<1>1. /\ pc'[o] = "create"
      /\ ref'[o] = Inc(o)
      /\ \A q \in Opens \ {o} : KeepsRole(q)
  BY TypeFacts, Zenon DEF OpenCreate, KeepsRole
<1>2. /\ state'[o] = "busy" /\ end'[o] = end[o] /\ life'[o] = life[o]
      /\ holders'[o] = holders[o] /\ enforce'[o] = enforce[o] /\ finished'[o] = finished[o]
      /\ \A j \in Opens \ {o} : SlotKept(j)
  BY TypeFacts, Zenon DEF OpenCreate, SlotKept
<1>3. /\ items' = [items EXCEPT ![KeyOf[o]] = Inc(o)]
      /\ reset'.todo = reset.todo /\ generation' = generation
  BY TypeFacts, Zenon DEF OpenCreate, aliasVars
<1>4. /\ state[o] = "none" /\ end[o] = "none" /\ life[o] = "none" /\ holders[o] = 0 /\ ~enforce[o]
      /\ ~finished[o] /\ pc[o] \in NewPcs /\ o \notin reset.todo /\ items[KeyOf[o]] = NoSlot
      /\ \A q \in Opens : ref[q] # Inc(o)
  BY TypeFacts, <1>0, NoOpenBesideReset, Zenon
    DEF OpenCreate, Fresh, Roles, Stages, Disposing, NewPcs, HoldPcs, OwnPcs, CountPcs
<1>5. \A k \in Keys : items'[k] # items[k] =>
        /\ items'[k] \in {NoSlot, Inc(o), Closer(o)}
        /\ generation = 0 => items[k] \in {NoSlot, Inc(o), Closer(o)}
  BY TypeFacts, <1>0, <1>3, <1>4, Zenon DEF Unmapped, Mapping
<1>6. Touches(o, {o})
  BY <1>1, <1>2, <1>3, <1>4, <1>5, TypeFacts, Zenon DEF Touches, NewPcs
<1>7. Fresh(o)' /\ Stages(o)'
  BY <1>0, <1>1, <1>2, <1>4, SlotNames, Zenon DEF KeepsRole, Fresh, Roles, Stages, Disposing, NewPcs, OwnPcs
<1>8. Roles(o)'
  BY <1>0, <1>1, <1>2, <1>4, SlotNames DEF KeepsRole, Roles, HoldPcs, OwnPcs
<1>9. Mapped(o)'
  BY TypeFacts, <1>0, <1>2, <1>3, <1>4, SlotNames, Zenon DEF Mapped, Stages, Unmapped
<1>10. Mapping(o)'
  BY TypeFacts, <1>0, <1>1, <1>2, <1>3, <1>4, SlotNames
    DEF KeepsRole, Mapping, Mapped, Stages, Unmapped, HoldPcs
<1>11. CountEffect(o)
  <2>1. Counted(o)' = {}
    BY <1>1, <1>4, SlotNames DEF KeepsRole, Counted, CountPcs
  <2> QED BY <1>2, <1>4, <2>1, Zenon DEF CountEffect
<1> QED BY OneTouched, <1>6, <1>7, <1>8, <1>9, <1>10, <1>11, Zenon DEF SlotInv

(* OpenBind keeps the invariants.                                           *)
LEMMA OpenBindKeeps ==
  ASSUME TypeOK, IndInv, IdleIsUnheld, NEW o \in Opens, NEW i \in Opens, OpenBind(o, i)
  PROVE AllSlots
<1>0. Fresh(i) /\ Roles(i) /\ Stages(i) /\ Mapped(i) /\ Mapping(i)
  BY IncarnationInv, Zenon
<1>1. /\ pc'[o] = "bind"
      /\ ref'[o] = Inc(i)
      /\ \A q \in Opens \ {o} : KeepsRole(q)
  BY TypeFacts, Zenon DEF OpenBind, KeepsRole
<1>2. /\ state'[i] = state[i] /\ end'[i] = end[i] /\ life'[i] = life[i]
      /\ holders'[i] = holders[i] + 1 /\ enforce'[i] = enforce[i] /\ finished'[i] = finished[i]
      /\ \A j \in Opens \ {i} : SlotKept(j)
  BY TypeFacts, Zenon DEF OpenBind, SlotKept
<1>3. /\ items' = items
      /\ reset'.todo = reset.todo /\ generation' = generation
  BY TypeFacts, Zenon DEF OpenBind, aliasVars
<1>4. /\ state[i] = "awake" /\ pc[o] \in NewPcs /\ pc[o] \notin CountPcs
  BY TypeFacts, <1>0, Zenon DEF OpenBind, Fresh, Roles, Stages, Disposing, NewPcs, HoldPcs, OwnPcs, CountPcs
<1>5. \A k \in Keys : items'[k] # items[k] =>
        /\ items'[k] \in {NoSlot, Inc(i), Closer(i)}
        /\ generation = 0 => items[k] \in {NoSlot, Inc(i), Closer(i)}
  BY <1>3, Zenon
<1>6. Touches(i, {o})
  BY <1>1, <1>2, <1>3, <1>4, <1>5, TypeFacts, Zenon DEF Touches, NewPcs
<1>7. Fresh(i)' /\ Stages(i)'
  BY <1>0, <1>1, <1>2, <1>4, SlotNames DEF KeepsRole, Fresh, Roles, Stages, Disposing, NewPcs, OwnPcs
<1>8. Roles(i)'
  BY <1>0, <1>1, <1>2, <1>4, SlotNames DEF KeepsRole, Roles, HoldPcs, OwnPcs
<1>9. Mapped(i)'
  BY TypeFacts, <1>0, <1>2, <1>3, <1>4, SlotNames, Zenon DEF Mapped, Stages, Unmapped
<1>10. Mapping(i)'
  BY TypeFacts, <1>0, <1>1, <1>2, <1>3, <1>4, SlotNames, Zenon
    DEF KeepsRole, Mapping, Mapped, Stages, Unmapped, HoldPcs
<1>11. CountEffect(i)
  <2>1. o \notin Counted(i) /\ Counted(i)' = Counted(i) \cup {o}
    BY <1>1, <1>4, Zenon DEF KeepsRole, Counted, CountPcs
  <2> QED BY <1>2, <1>4, <2>1, Zenon DEF CountEffect
<1> QED BY OneTouched, <1>6, <1>7, <1>8, <1>9, <1>10, <1>11, Zenon DEF SlotInv

(* OpenWake keeps the invariants.                                           *)
LEMMA OpenWakeKeeps ==
  ASSUME TypeOK, IndInv, IdleIsUnheld, NEW o \in Opens, NEW i \in Opens, OpenWake(o, i)
  PROVE AllSlots
<1>0. Fresh(i) /\ Roles(i) /\ Stages(i) /\ Mapped(i) /\ Mapping(i)
  BY IncarnationInv, Zenon
<1>1. /\ pc'[o] = "wake"
      /\ ref'[o] = Inc(i)
      /\ \A q \in Opens \ {o} : KeepsRole(q)
  BY TypeFacts, Zenon DEF OpenWake, KeepsRole
<1>2. /\ state'[i] = "busy" /\ end'[i] = end[i] /\ life'[i] = life[i]
      /\ holders'[i] = holders[i] + 1 /\ enforce'[i] = enforce[i] /\ finished'[i] = finished[i]
      /\ \A j \in Opens \ {i} : SlotKept(j)
  BY TypeFacts, Zenon DEF OpenWake, SlotKept
<1>3. /\ items' = items
      /\ reset'.todo = reset.todo /\ generation' = generation
  BY TypeFacts, Zenon DEF OpenWake, aliasVars
<1>4. /\ state[i] = "asleep" /\ pc[o] \in NewPcs /\ pc[o] \notin CountPcs
      /\ items[KeyOf[i]] = Inc(i) /\ end[i] = "none" /\ life[i] = "asleep" /\ ~finished[i]
  BY TypeFacts, <1>0
    DEF OpenWake, Fresh, Roles, Stages, Disposing, NewPcs, HoldPcs, OwnPcs, CountPcs, Mapped
<1>5. \A k \in Keys : items'[k] # items[k] =>
        /\ items'[k] \in {NoSlot, Inc(i), Closer(i)}
        /\ generation = 0 => items[k] \in {NoSlot, Inc(i), Closer(i)}
  BY <1>3, Zenon
<1>6. Touches(i, {o})
  BY <1>1, <1>2, <1>3, <1>4, <1>5, TypeFacts, Zenon DEF Touches, NewPcs
<1>7. Fresh(i)' /\ Stages(i)'
  BY <1>0, <1>1, <1>2, <1>4, SlotNames, Zenon DEF KeepsRole, Fresh, Roles, Stages, Disposing, NewPcs, OwnPcs
<1>8. Roles(i)'
  BY <1>0, <1>1, <1>2, <1>4, SlotNames DEF KeepsRole, Roles, HoldPcs, OwnPcs
<1>9. Mapped(i)'
  BY TypeFacts, <1>0, <1>2, <1>3, <1>4, SlotNames, Zenon DEF Mapped, Stages, Unmapped
<1>10. Mapping(i)'
  BY TypeFacts, <1>0, <1>1, <1>2, <1>3, <1>4, SlotNames
    DEF KeepsRole, Mapping, Mapped, Stages, Unmapped, HoldPcs
<1>11. CountEffect(i)
  <2>1. o \notin Counted(i) /\ Counted(i)' = Counted(i) \cup {o}
    BY <1>1, <1>4, Zenon DEF KeepsRole, Counted, CountPcs
  <2> QED BY <1>2, <1>4, <2>1, Zenon DEF CountEffect
<1> QED BY OneTouched, <1>6, <1>7, <1>8, <1>9, <1>10, <1>11, Zenon DEF SlotInv

(* PublishPut keeps the invariants.                                         *)
LEMMA PublishPutKeeps ==
  ASSUME TypeOK, IndInv, IdleIsUnheld, NEW o \in Opens, PublishPut(o)
  PROVE AllSlots
<1>0. Fresh(o) /\ Roles(o) /\ Stages(o) /\ Mapped(o) /\ Mapping(o)
  BY IncarnationInv, Zenon
<1>1. /\ pc'[o] = "bind"
      /\ ref'[o] = Inc(o)
      /\ \A q \in Opens \ {o} : KeepsRole(q)
  <2>1. ref' = ref /\ pc' = [Released(Inc(o)) EXCEPT ![o] = "bind"]
    BY Zenon DEF PublishPut
  <2>2. ref[o] = Inc(o)
    BY <1>0, Zenon DEF PublishPut, Fresh
  <2> QED BY TypeFacts, <2>1, <2>2, Zenon DEF Released, KeepsRole
<1>2. /\ state'[o] = "awake" /\ end'[o] = end[o] /\ life'[o] = "awake"
      /\ holders'[o] = holders[o] + 1 /\ finished'[o] = finished[o] /\ enforce'[o] \in BOOLEAN
      /\ \A j \in Opens \ {o} : SlotKept(j)
  BY TypeFacts, TableAssumption DEF PublishPut, SlotKept
<1>3. /\ items' = [items EXCEPT ![KeyOf[o]] = Inc(o)]
      /\ reset'.todo = reset.todo /\ generation' = generation
  BY TypeFacts, Zenon DEF PublishPut, aliasVars
<1>4. /\ state[o] = "busy" /\ end[o] = "none" /\ ~finished[o] /\ ref[o] = Inc(o)
      /\ \A q \in Opens : ref[q] = Inc(o) /\ q # o => pc[q] \notin OwnPcs
      /\ o \notin reset.todo /\ pc[o] \notin CountPcs
  BY TypeFacts, <1>0, NoOpenBesideReset, Zenon
    DEF PublishPut, Fresh, Roles, Stages, Disposing, NewPcs, HoldPcs, OwnPcs, CountPcs
<1>5. \A k \in Keys : items'[k] # items[k] =>
        /\ items'[k] \in {NoSlot, Inc(o), Closer(o)}
        /\ generation = 0 => items[k] \in {NoSlot, Inc(o), Closer(o)}
  BY TypeFacts, <1>0, <1>3, <1>4, Zenon DEF Unmapped, Mapping
<1>6. Touches(o, {o})
  BY <1>1, <1>2, <1>3, <1>4, <1>5, TypeFacts, Zenon DEF Touches, NewPcs
<1>7. Fresh(o)' /\ Stages(o)'
  BY <1>0, <1>1, <1>2, <1>4, SlotNames, Zenon DEF KeepsRole, Fresh, Roles, Stages, Disposing, NewPcs, OwnPcs
<1>8. Roles(o)'
  <2>1. ASSUME NEW q \in Opens, q # o, ref'[q] = Inc(o)
        PROVE ref[q] = Inc(o) /\ pc'[q] \notin OwnPcs /\ (pc'[q] \in HoldPcs => pc[q] \in HoldPcs)
    BY <1>1, <1>4, <2>1, Zenon DEF KeepsRole, OwnPcs, HoldPcs
  <2> QED BY <1>0, <1>1, <1>2, <1>4, <2>1, Zenon DEF Roles, HoldPcs, OwnPcs
<1>9. Mapped(o)'
  BY TypeFacts, <1>0, <1>2, <1>3, <1>4, SlotNames DEF Mapped, Stages, Unmapped
<1>10. Mapping(o)'
  BY TypeFacts, <1>0, <1>1, <1>2, <1>3, <1>4, SlotNames, Zenon
    DEF KeepsRole, Mapping, Mapped, Stages, Unmapped, HoldPcs
<1>11. CountEffect(o)
  <2>1. o \notin Counted(o) /\ Counted(o)' = Counted(o) \cup {o}
    BY <1>1, <1>4, Zenon DEF KeepsRole, Counted, CountPcs
  <2> QED BY <1>2, <1>4, <2>1, Zenon DEF CountEffect
<1> QED BY OneTouched, <1>6, <1>7, <1>8, <1>9, <1>10, <1>11, Zenon DEF SlotInv

(* CreateFails keeps the invariants.                                        *)
LEMMA CreateFailsKeeps ==
  ASSUME TypeOK, IndInv, IdleIsUnheld, NEW o \in Opens, CreateFails(o)
  PROVE AllSlots
<1>0. Fresh(o) /\ Roles(o) /\ Stages(o) /\ Mapped(o) /\ Mapping(o)
  BY IncarnationInv, Zenon
<1>1. /\ pc'[o] = "over"
      /\ ref'[o] = Inc(o)
      /\ \A q \in Opens \ {o} : KeepsRole(q)
  <2>1. ref' = ref /\ pc' = [Released(Inc(o)) EXCEPT ![o] = "over"]
    BY Zenon DEF CreateFails, EndBusySlot
  <2>2. ref[o] = Inc(o)
    BY <1>0, Zenon DEF CreateFails, EndBusySlot, Fresh
  <2> QED BY TypeFacts, <2>1, <2>2, Zenon DEF Released, KeepsRole
<1>2. /\ state'[o] = "gone" /\ end'[o] = end[o] /\ life'[o] = life[o]
      /\ holders'[o] = holders[o] /\ enforce'[o] = enforce[o] /\ finished'[o] = TRUE
      /\ \A j \in Opens \ {o} : SlotKept(j)
  BY TypeFacts DEF CreateFails, EndBusySlot, SlotKept
<1>3. /\ items' = Unmapped(KeyOf[o], Inc(o))
      /\ reset'.todo = reset.todo /\ generation' = generation
  BY TypeFacts, Zenon DEF CreateFails, EndBusySlot, aliasVars, UnbindIncarnation
<1>4. /\ state[o] = "busy" /\ end[o] = "none" /\ ~finished[o] /\ ref[o] = Inc(o)
      /\ \A q \in Opens : ref[q] = Inc(o) /\ q # o => pc[q] \notin OwnPcs
      /\ ~enforce[o] /\ life[o] = "none"
  BY TypeFacts, <1>0
    DEF CreateFails, EndBusySlot, Fresh, Roles, Stages, Disposing, NewPcs, HoldPcs, OwnPcs, CountPcs
<1>5. \A k \in Keys : items'[k] # items[k] =>
        /\ items'[k] \in {NoSlot, Inc(o), Closer(o)}
        /\ generation = 0 => items[k] \in {NoSlot, Inc(o), Closer(o)}
  BY TypeFacts, <1>0, <1>3, <1>4, Zenon DEF Unmapped, Mapping
<1>6. Touches(o, {o})
  BY <1>1, <1>2, <1>3, <1>4, <1>5, TypeFacts, Zenon DEF Touches, NewPcs
<1>7. Fresh(o)' /\ Stages(o)'
  BY <1>0, <1>1, <1>2, <1>4, SlotNames, Zenon DEF KeepsRole, Fresh, Roles, Stages, Disposing, NewPcs, OwnPcs
<1>8. Roles(o)'
  <2>1. ASSUME NEW q \in Opens, q # o, ref'[q] = Inc(o)
        PROVE ref[q] = Inc(o) /\ pc'[q] \notin OwnPcs /\ (pc'[q] \in HoldPcs => pc[q] \in HoldPcs)
    BY <1>1, <1>4, <2>1, Zenon DEF KeepsRole, OwnPcs, HoldPcs
  <2> QED BY <1>0, <1>1, <1>2, <1>4, <2>1, Zenon DEF Roles, HoldPcs, OwnPcs
<1>9. Mapped(o)'
  BY TypeFacts, <1>0, <1>2, <1>3, <1>4, SlotNames DEF Mapped, Stages, Unmapped
<1>10. Mapping(o)'
  <2>1. generation = 0 => \A q \in Opens : ref'[q] = Inc(o) => pc'[q] \notin HoldPcs
    BY <1>0, <1>1, <1>4, Zenon DEF KeepsRole, Mapping, HoldPcs
  <2>2. generation = 0 => items[KeyOf[o]] = Inc(o) /\ KeyOf[o] \in Keys
    BY TypeFacts, <1>0, <1>4, Zenon DEF Mapping
  <2> QED BY TypeFacts, <1>2, <1>3, <1>4, <2>1, <2>2, SlotNames, Zenon DEF Mapping, Unmapped
<1>11. CountEffect(o)
  BY <1>2, Zenon DEF CountEffect
<1> QED BY OneTouched, <1>6, <1>7, <1>8, <1>9, <1>10, <1>11, Zenon DEF SlotInv

(* PublishWake keeps the invariants.                                        *)
LEMMA PublishWakeKeeps ==
  ASSUME TypeOK, IndInv, IdleIsUnheld, NEW o \in Opens, NEW i \in Opens, PublishWake(o, i)
  PROVE AllSlots
<1>0. Fresh(i) /\ Roles(i) /\ Stages(i) /\ Mapped(i) /\ Mapping(i)
  BY IncarnationInv, Zenon
<1>1. /\ pc'[o] = "bind"
      /\ ref'[o] = Inc(i)
      /\ \A q \in Opens \ {o} : KeepsRole(q)
  <2>1. ref' = ref /\ pc' = [Released(Inc(i)) EXCEPT ![o] = "bind"]
    BY Zenon DEF PublishWake
  <2>2. ref[o] = Inc(i)
    BY <1>0, Zenon DEF PublishWake, Fresh
  <2> QED BY TypeFacts, <2>1, <2>2, Zenon DEF Released, KeepsRole
<1>2. /\ state'[i] = "awake" /\ end'[i] = end[i] /\ life'[i] = "awake"
      /\ holders'[i] = holders[i] /\ enforce'[i] = enforce[i] /\ finished'[i] = finished[i]
      /\ \A j \in Opens \ {i} : SlotKept(j)
  BY TypeFacts, Zenon DEF PublishWake, SlotKept
<1>3. /\ items' = items
      /\ reset'.todo = reset.todo /\ generation' = generation
  BY TypeFacts, Zenon DEF PublishWake, aliasVars
<1>4. /\ state[i] = "busy" /\ end[i] = "none" /\ ~finished[i] /\ ref[o] = Inc(i)
      /\ \A q \in Opens : ref[q] = Inc(i) /\ q # o => pc[q] \notin OwnPcs
      /\ pc[o] = "wake"
  BY TypeFacts, <1>0 DEF PublishWake, Fresh, Roles, Stages, Disposing, NewPcs, HoldPcs, OwnPcs, CountPcs
<1>5. \A k \in Keys : items'[k] # items[k] =>
        /\ items'[k] \in {NoSlot, Inc(i), Closer(i)}
        /\ generation = 0 => items[k] \in {NoSlot, Inc(i), Closer(i)}
  BY <1>3, Zenon
<1>6. Touches(i, {o})
  BY <1>1, <1>2, <1>3, <1>4, <1>5, TypeFacts, Zenon DEF Touches, NewPcs
<1>7. Fresh(i)' /\ Stages(i)'
  BY <1>0, <1>1, <1>2, <1>4, SlotNames, Zenon DEF KeepsRole, Fresh, Roles, Stages, Disposing, NewPcs, OwnPcs
<1>8. Roles(i)'
  <2>1. ASSUME NEW q \in Opens, q # o, ref'[q] = Inc(i)
        PROVE ref[q] = Inc(i) /\ pc'[q] \notin OwnPcs /\ (pc'[q] \in HoldPcs => pc[q] \in HoldPcs)
    BY <1>1, <1>4, <2>1, Zenon DEF KeepsRole, OwnPcs, HoldPcs
  <2> QED BY <1>0, <1>1, <1>2, <1>4, <2>1, Zenon DEF Roles, HoldPcs, OwnPcs
<1>9. Mapped(i)'
  BY TypeFacts, <1>0, <1>2, <1>3, <1>4, SlotNames, Zenon DEF Mapped, Stages, Unmapped
<1>10. Mapping(i)'
  BY TypeFacts, <1>0, <1>1, <1>2, <1>3, <1>4, SlotNames, Zenon
    DEF KeepsRole, Mapping, Mapped, Stages, Unmapped, HoldPcs
<1>11. CountEffect(i)
  <2>1. \A q \in Opens : ref'[q] = Inc(i) /\ pc'[q] \in CountPcs <=> ref[q] = Inc(i) /\ pc[q] \in CountPcs
    BY <1>1, <1>4, Zenon DEF KeepsRole, CountPcs
  <2>2. Counted(i)' = Counted(i)
    BY <2>1, Zenon DEF Counted, CountPcs
  <2> QED BY <1>2, <1>4, <2>2, TypeFacts, Zenon DEF CountEffect
<1> QED BY OneTouched, <1>6, <1>7, <1>8, <1>9, <1>10, <1>11, Zenon DEF SlotInv

(* PanicEnforced keeps the invariants.                                      *)
LEMMA PanicEnforcedKeeps ==
  ASSUME TypeOK, IndInv, IdleIsUnheld, NEW o \in Opens, NEW i \in Opens, NEW err, enforce[i], EndBusyAfterPanic(o, i, err), pc[o] \in {"wake", "sleep"}, ref[o] = Inc(i)
  PROVE AllSlots
<1>0. Fresh(i) /\ Roles(i) /\ Stages(i) /\ Mapped(i) /\ Mapping(i)
  BY IncarnationInv, Zenon
<1>1. /\ pc'[o] = "ending"
      /\ ref'[o] = Inc(i)
      /\ \A q \in Opens \ {o} : KeepsRole(q)
  BY TypeFacts, Zenon DEF EndBusyAfterPanic, InstallCloser, KeepsRole
<1>2. /\ state'[i] = "gone" /\ end'[i] = "wakeOld" /\ life'[i] = "broken"
      /\ holders'[i] = holders[i] /\ enforce'[i] = enforce[i] /\ finished'[i] = TRUE
      /\ \A j \in Opens \ {i} : SlotKept(j)
  BY TypeFacts DEF EndBusyAfterPanic, InstallCloser, SlotKept
<1>3. /\ items' = [items EXCEPT ![KeyOf[i]] = Closer(i)]
      /\ reset'.todo = reset.todo /\ generation' = generation
  BY TypeFacts, Zenon DEF EndBusyAfterPanic, InstallCloser, aliasVars, UnbindIncarnation
<1>4. /\ state[i] = "busy" /\ end[i] = "none" /\ ~finished[i] /\ ref[o] = Inc(i)
      /\ \A q \in Opens : ref[q] = Inc(i) /\ q # o => pc[q] \notin OwnPcs
      /\ enforce[i]
  BY TypeFacts, <1>0, Zenon
    DEF EndBusyAfterPanic, InstallCloser, Fresh, Roles, Stages, Disposing, NewPcs, HoldPcs, OwnPcs, CountPcs
<1>5. \A k \in Keys : items'[k] # items[k] =>
        /\ items'[k] \in {NoSlot, Inc(i), Closer(i)}
        /\ generation = 0 => items[k] \in {NoSlot, Inc(i), Closer(i)}
  BY TypeFacts, <1>0, <1>3, <1>4 DEF Unmapped, Mapping
<1>6. Touches(i, {o})
  BY <1>1, <1>2, <1>3, <1>4, <1>5, TypeFacts DEF Touches, NewPcs
<1>7. Fresh(i)' /\ Stages(i)'
  BY <1>0, <1>1, <1>2, <1>4, SlotNames DEF KeepsRole, Fresh, Roles, Stages, Disposing, NewPcs, OwnPcs
<1>8. Roles(i)'
  <2>1. ASSUME NEW q \in Opens, q # o, ref'[q] = Inc(i)
        PROVE ref[q] = Inc(i) /\ pc'[q] \notin OwnPcs /\ (pc'[q] \in HoldPcs => pc[q] \in HoldPcs)
    BY <1>1, <1>4, <2>1, Zenon DEF KeepsRole, OwnPcs, HoldPcs
  <2> QED BY <1>0, <1>1, <1>2, <1>4, <2>1 DEF Roles, HoldPcs, OwnPcs
<1>9. Mapped(i)'
  BY TypeFacts, <1>0, <1>2, <1>3, <1>4, SlotNames, Zenon DEF Mapped, Stages, Unmapped
<1>10. Mapping(i)'
  <2>1. generation = 0 => \A q \in Opens : ref'[q] = Inc(i) => pc'[q] \notin HoldPcs
    BY <1>0, <1>1, <1>4, Zenon DEF KeepsRole, Mapping, HoldPcs
  <2>2. generation = 0 => items[KeyOf[i]] = Inc(i) /\ KeyOf[i] \in Keys
    BY TypeFacts, <1>0, <1>4, Zenon DEF Mapping
  <2> QED BY TypeFacts, <1>2, <1>3, <1>4, <2>1, <2>2, SlotNames, Zenon DEF Mapping, Unmapped
<1>11. CountEffect(i)
  BY <1>2, Zenon DEF CountEffect
<1> QED BY OneTouched, <1>6, <1>7, <1>8, <1>9, <1>10, <1>11, Zenon DEF SlotInv

(* PanicDefault keeps the invariants.                                       *)
LEMMA PanicDefaultKeeps ==
  ASSUME TypeOK, IndInv, IdleIsUnheld, NEW o \in Opens, NEW i \in Opens, NEW err, ~enforce[i], EndBusyAfterPanic(o, i, err), pc[o] \in {"wake", "sleep"}, ref[o] = Inc(i)
  PROVE AllSlots
<1>0. Fresh(i) /\ Roles(i) /\ Stages(i) /\ Mapped(i) /\ Mapping(i)
  BY IncarnationInv, Zenon
<1>1. /\ pc'[o] = "ending"
      /\ ref'[o] = Inc(i)
      /\ \A q \in Opens \ {o} : KeepsRole(q)
  <2>1. ref' = ref /\ pc' = [Released(Inc(i)) EXCEPT ![o] = "ending"]
    BY Zenon DEF EndBusyAfterPanic, EndBusySlot
  <2>2. ref[o] = Inc(i)
    BY <1>0, Zenon DEF EndBusyAfterPanic, EndBusySlot, Fresh
  <2> QED BY TypeFacts, <2>1, <2>2, Zenon DEF Released, KeepsRole
<1>2. /\ state'[i] = "gone" /\ end'[i] = "closeUnmapped" /\ life'[i] = "broken"
      /\ holders'[i] = holders[i] /\ enforce'[i] = enforce[i] /\ finished'[i] = TRUE
      /\ \A j \in Opens \ {i} : SlotKept(j)
  BY TypeFacts DEF EndBusyAfterPanic, EndBusySlot, SlotKept
<1>3. /\ items' = Unmapped(KeyOf[i], Inc(i))
      /\ reset'.todo = reset.todo /\ generation' = generation
  BY TypeFacts, Zenon DEF EndBusyAfterPanic, EndBusySlot, aliasVars, UnbindIncarnation
<1>4. /\ state[i] = "busy" /\ end[i] = "none" /\ ~finished[i] /\ ref[o] = Inc(i)
      /\ \A q \in Opens : ref[q] = Inc(i) /\ q # o => pc[q] \notin OwnPcs
      /\ ~enforce[i]
  BY TypeFacts, <1>0, Zenon
    DEF EndBusyAfterPanic, EndBusySlot, Fresh, Roles, Stages, Disposing, NewPcs, HoldPcs, OwnPcs, CountPcs
<1>5. \A k \in Keys : items'[k] # items[k] =>
        /\ items'[k] \in {NoSlot, Inc(i), Closer(i)}
        /\ generation = 0 => items[k] \in {NoSlot, Inc(i), Closer(i)}
  BY TypeFacts, <1>0, <1>3, <1>4, Zenon DEF Unmapped, Mapping
<1>6. Touches(i, {o})
  BY <1>1, <1>2, <1>3, <1>4, <1>5, TypeFacts, Zenon DEF Touches, NewPcs
<1>7. Fresh(i)' /\ Stages(i)'
  BY <1>0, <1>1, <1>2, <1>4, SlotNames, Zenon DEF KeepsRole, Fresh, Roles, Stages, Disposing, NewPcs, OwnPcs
<1>8. Roles(i)'
  <2>1. ASSUME NEW q \in Opens, q # o, ref'[q] = Inc(i)
        PROVE ref[q] = Inc(i) /\ pc'[q] \notin OwnPcs /\ (pc'[q] \in HoldPcs => pc[q] \in HoldPcs)
    BY <1>1, <1>4, <2>1, Zenon DEF KeepsRole, OwnPcs, HoldPcs
  <2> QED BY <1>0, <1>1, <1>2, <1>4, <2>1, ZenonT(30) DEF Roles, HoldPcs, OwnPcs
<1>9. Mapped(i)'
  BY TypeFacts, <1>0, <1>2, <1>3, <1>4, SlotNames, Zenon DEF Mapped, Stages, Unmapped
<1>10. Mapping(i)'
  <2>1. generation = 0 => \A q \in Opens : ref'[q] = Inc(i) => pc'[q] \notin HoldPcs
    BY <1>0, <1>1, <1>4, Zenon DEF KeepsRole, Mapping, HoldPcs
  <2>2. generation = 0 => items[KeyOf[i]] = Inc(i) /\ KeyOf[i] \in Keys
    BY TypeFacts, <1>0, <1>4, Zenon DEF Mapping
  <2> QED BY TypeFacts, <1>2, <1>3, <1>4, <2>1, <2>2, SlotNames, Zenon DEF Mapping, Unmapped
<1>11. CountEffect(i)
  BY <1>2, Zenon DEF CountEffect
<1> QED BY OneTouched, <1>6, <1>7, <1>8, <1>9, <1>10, <1>11, Zenon DEF SlotInv

(* WakePanics keeps the invariants.                                         *)
LEMMA WakePanicsKeeps ==
  ASSUME TypeOK, IndInv, IdleIsUnheld, NEW o \in Opens, NEW i \in Opens, WakePanics(o, i)
  PROVE AllSlots
  BY PanicEnforcedKeeps, PanicDefaultKeeps, ZenonT(60) DEF WakePanics

(* SleepPanics keeps the invariants.                                        *)
LEMMA SleepPanicsKeeps ==
  ASSUME TypeOK, IndInv, IdleIsUnheld, NEW o \in Opens, NEW i \in Opens, SleepPanics(o, i)
  PROVE AllSlots
  BY PanicEnforcedKeeps, PanicDefaultKeeps, ZenonT(60) DEF SleepPanics

(* ReleaseHolder keeps the invariants.                                      *)
LEMMA ReleaseHolderKeeps ==
  ASSUME TypeOK, IndInv, IdleIsUnheld, NEW o \in Opens, NEW i \in Opens, ReleaseHolder(o, i)
  PROVE AllSlots
<1>0. Fresh(i) /\ Roles(i) /\ Stages(i) /\ Mapped(i) /\ Mapping(i)
  BY IncarnationInv, Zenon
<1>1. /\ pc'[o] = "claim"
      /\ ref'[o] = Inc(i)
      /\ \A q \in Opens \ {o} : KeepsRole(q)
  BY TypeFacts, Zenon DEF ReleaseHolder, KeepsRole
<1>2. /\ state'[i] = state[i] /\ end'[i] = end[i] /\ life'[i] = life[i]
      /\ holders'[i] = holders[i] - 1 /\ enforce'[i] = enforce[i] /\ finished'[i] = finished[i]
      /\ \A j \in Opens \ {i} : SlotKept(j)
  BY TypeFacts, Zenon DEF ReleaseHolder, SlotKept
<1>3. /\ items' = items
      /\ reset'.todo = reset.todo /\ generation' = generation
  BY TypeFacts, Zenon DEF ReleaseHolder, aliasVars
<1>4. /\ ref[o] = Inc(i) /\ pc[o] = "release" /\ state[i] \in {"awake", "gone"}
  BY TypeFacts, <1>0, Zenon DEF ReleaseHolder, Fresh, Roles, Stages, Disposing, NewPcs, HoldPcs, OwnPcs, CountPcs
<1>5. \A k \in Keys : items'[k] # items[k] =>
        /\ items'[k] \in {NoSlot, Inc(i), Closer(i)}
        /\ generation = 0 => items[k] \in {NoSlot, Inc(i), Closer(i)}
  BY <1>3, Zenon
<1>6. Touches(i, {o})
  BY <1>1, <1>2, <1>3, <1>4, <1>5, TypeFacts, Zenon DEF Touches, NewPcs
<1>7. Fresh(i)' /\ Stages(i)'
  BY <1>0, <1>1, <1>2, <1>4, SlotNames, Zenon DEF KeepsRole, Fresh, Roles, Stages, Disposing, NewPcs, OwnPcs
<1>8. Roles(i)'
  BY <1>0, <1>1, <1>2, <1>4, SlotNames, Zenon DEF KeepsRole, Roles, HoldPcs, OwnPcs
<1>9. Mapped(i)'
  BY TypeFacts, <1>0, <1>2, <1>3, <1>4, SlotNames, Zenon DEF Mapped, Stages, Unmapped
<1>10. Mapping(i)'
  BY TypeFacts, <1>0, <1>1, <1>2, <1>3, <1>4, SlotNames, Zenon
    DEF KeepsRole, Mapping, Mapped, Stages, Unmapped, HoldPcs
<1>11. CountEffect(i)
  <2>1. o \in Counted(i) /\ Counted(i)' = Counted(i) \ {o}
    BY <1>1, <1>4 DEF KeepsRole, Counted, CountPcs
  <2> QED BY <1>2, <1>4, <2>1, Zenon DEF CountEffect
<1> QED BY OneTouched, <1>6, <1>7, <1>8, <1>9, <1>10, <1>11, Zenon DEF SlotInv

(* SleepReturns keeps the invariants.                                       *)
LEMMA SleepReturnsKeeps ==
  ASSUME TypeOK, IndInv, IdleIsUnheld, NEW o \in Opens, NEW i \in Opens, SleepReturns(o, i)
  PROVE AllSlots
<1>0. Fresh(i) /\ Roles(i) /\ Stages(i) /\ Mapped(i) /\ Mapping(i)
  BY IncarnationInv, Zenon
<1>1. /\ pc'[o] = "orphan"
      /\ ref'[o] = Inc(i)
      /\ \A q \in Opens \ {o} : KeepsRole(q)
  BY TypeFacts, Zenon DEF SleepReturns, KeepsRole
<1>2. /\ state'[i] = state[i] /\ end'[i] = end[i] /\ life'[i] = "asleep"
      /\ holders'[i] = holders[i] /\ enforce'[i] = enforce[i] /\ finished'[i] = finished[i]
      /\ \A j \in Opens \ {i} : SlotKept(j)
  BY TypeFacts, Zenon DEF SleepReturns, SlotKept
<1>3. /\ items' = items
      /\ reset'.todo = reset.todo /\ generation' = generation
  BY TypeFacts, Zenon DEF SleepReturns, aliasVars
<1>4. /\ state[i] = "busy" /\ end[i] = "none" /\ ~finished[i] /\ ref[o] = Inc(i)
      /\ \A q \in Opens : ref[q] = Inc(i) /\ q # o => pc[q] \notin OwnPcs
      /\ pc[o] = "sleep"
  BY TypeFacts, <1>0, Zenon DEF SleepReturns, Fresh, Roles, Stages, Disposing, NewPcs, HoldPcs, OwnPcs, CountPcs
<1>5. \A k \in Keys : items'[k] # items[k] =>
        /\ items'[k] \in {NoSlot, Inc(i), Closer(i)}
        /\ generation = 0 => items[k] \in {NoSlot, Inc(i), Closer(i)}
  BY <1>3, Zenon
<1>6. Touches(i, {o})
  BY <1>1, <1>2, <1>3, <1>4, <1>5, TypeFacts, Zenon DEF Touches, NewPcs
<1>7. Fresh(i)' /\ Stages(i)'
  BY <1>0, <1>1, <1>2, <1>4, SlotNames, Zenon DEF KeepsRole, Fresh, Roles, Stages, Disposing, NewPcs, OwnPcs
<1>8. Roles(i)'
  <2>1. ASSUME NEW q \in Opens, q # o, ref'[q] = Inc(i)
        PROVE ref[q] = Inc(i) /\ pc'[q] \notin OwnPcs /\ (pc'[q] \in HoldPcs => pc[q] \in HoldPcs)
    BY <1>1, <1>4, <2>1, Zenon DEF KeepsRole, OwnPcs, HoldPcs
  <2> QED BY <1>0, <1>1, <1>2, <1>4, <2>1 DEF Roles, HoldPcs, OwnPcs
<1>9. Mapped(i)'
  BY TypeFacts, <1>0, <1>2, <1>3, <1>4, SlotNames, Zenon DEF Mapped, Stages, Unmapped
<1>10. Mapping(i)'
  BY TypeFacts, <1>0, <1>1, <1>2, <1>3, <1>4, SlotNames, ZenonT(60)
    DEF KeepsRole, Mapping, Mapped, Stages, Unmapped, HoldPcs
<1>11. CountEffect(i)
  <2>1. \A q \in Opens : ref'[q] = Inc(i) /\ pc'[q] \in CountPcs <=> ref[q] = Inc(i) /\ pc[q] \in CountPcs
    BY <1>1, <1>4 DEF KeepsRole, CountPcs
  <2>2. Counted(i)' = Counted(i)
    BY <2>1, Zenon DEF Counted, CountPcs
  <2> QED BY <1>2, <1>4, <2>2, TypeFacts, Zenon DEF CountEffect
<1> QED BY OneTouched, <1>6, <1>7, <1>8, <1>9, <1>10, <1>11, Zenon DEF SlotInv

(* LogOrphan keeps the invariants.                                          *)
LEMMA LogOrphanKeeps ==
  ASSUME TypeOK, IndInv, IdleIsUnheld, NEW o \in Opens, NEW i \in Opens, LogOrphan(o, i)
  PROVE AllSlots
<1>0. Fresh(i) /\ Roles(i) /\ Stages(i) /\ Mapped(i) /\ Mapping(i)
  BY IncarnationInv, Zenon
<1>1. /\ pc'[o] = "park"
      /\ ref'[o] = Inc(i)
      /\ \A q \in Opens \ {o} : KeepsRole(q)
  BY TypeFacts, Zenon DEF LogOrphan, KeepsRole
<1>2. /\ state'[i] = state[i] /\ end'[i] = end[i] /\ life'[i] = life[i]
      /\ holders'[i] = holders[i] /\ enforce'[i] = enforce[i] /\ finished'[i] = finished[i]
      /\ \A j \in Opens \ {i} : SlotKept(j)
  BY TypeFacts, Zenon DEF LogOrphan, SlotKept
<1>3. /\ items' = items
      /\ reset'.todo = reset.todo /\ generation' = generation
  BY TypeFacts, Zenon DEF LogOrphan, aliasVars
<1>4. /\ state[i] = "busy" /\ end[i] = "none" /\ ~finished[i] /\ ref[o] = Inc(i)
      /\ \A q \in Opens : ref[q] = Inc(i) /\ q # o => pc[q] \notin OwnPcs
      /\ pc[o] = "orphan" /\ life[i] = "asleep"
  BY TypeFacts, <1>0, Zenon DEF LogOrphan, Fresh, Roles, Stages, Disposing, NewPcs, HoldPcs, OwnPcs, CountPcs
<1>5. \A k \in Keys : items'[k] # items[k] =>
        /\ items'[k] \in {NoSlot, Inc(i), Closer(i)}
        /\ generation = 0 => items[k] \in {NoSlot, Inc(i), Closer(i)}
  BY <1>3, Zenon
<1>6. Touches(i, {o})
  BY <1>1, <1>2, <1>3, <1>4, <1>5, TypeFacts, Zenon DEF Touches, NewPcs
<1>7. Fresh(i)' /\ Stages(i)'
  BY <1>0, <1>1, <1>2, <1>4, SlotNames, Zenon DEF KeepsRole, Fresh, Roles, Stages, Disposing, NewPcs, OwnPcs
<1>8. Roles(i)'
  <2>1. ASSUME NEW q \in Opens, q # o, ref'[q] = Inc(i)
        PROVE ref[q] = Inc(i) /\ pc'[q] \notin OwnPcs /\ (pc'[q] \in HoldPcs => pc[q] \in HoldPcs)
    BY <1>1, <1>4, <2>1, Zenon DEF KeepsRole, OwnPcs, HoldPcs
  <2> QED BY <1>0, <1>1, <1>2, <1>4, <2>1 DEF Roles, HoldPcs, OwnPcs
<1>9. Mapped(i)'
  BY TypeFacts, <1>0, <1>2, <1>3, <1>4, SlotNames, Zenon DEF Mapped, Stages, Unmapped
<1>10. Mapping(i)'
  BY TypeFacts, <1>0, <1>1, <1>2, <1>3, <1>4, SlotNames
    DEF KeepsRole, Mapping, Mapped, Stages, Unmapped, HoldPcs
<1>11. CountEffect(i)
  <2>1. \A q \in Opens : ref'[q] = Inc(i) /\ pc'[q] \in CountPcs <=> ref[q] = Inc(i) /\ pc[q] \in CountPcs
    BY <1>1, <1>4 DEF KeepsRole, CountPcs
  <2>2. Counted(i)' = Counted(i)
    BY <2>1, Zenon DEF Counted, CountPcs
  <2> QED BY <1>2, <1>4, <2>2, TypeFacts, Zenon DEF CountEffect
<1> QED BY OneTouched, <1>6, <1>7, <1>8, <1>9, <1>10, <1>11, Zenon DEF SlotInv

(* EndMappedClose keeps the invariants.                                     *)
LEMMA EndMappedCloseKeeps ==
  ASSUME TypeOK, IndInv, IdleIsUnheld, NEW o \in Opens, NEW i \in Opens, EndMappedClose(o, i)
  PROVE AllSlots
<1>0. Fresh(i) /\ Roles(i) /\ Stages(i) /\ Mapped(i) /\ Mapping(i)
  BY IncarnationInv, Zenon
<1>1. /\ pc'[o] = "ending"
      /\ ref'[o] = Inc(i)
      /\ \A q \in Opens \ {o} : KeepsRole(q)
  BY TypeFacts, Zenon DEF EndMappedClose, KeepsRole
<1>2. /\ state'[i] = state[i] /\ end'[i] = "closeMapped" /\ life'[i] = life[i]
      /\ holders'[i] = holders[i] /\ enforce'[i] = enforce[i] /\ finished'[i] = finished[i]
      /\ \A j \in Opens \ {i} : SlotKept(j)
  BY TypeFacts, Zenon DEF EndMappedClose, SlotKept
<1>3. /\ items' = items
      /\ reset'.todo = reset.todo /\ generation' = generation
  BY TypeFacts, Zenon DEF EndMappedClose, aliasVars
<1>4. /\ state[i] = "busy" /\ end[i] = "none" /\ ~finished[i] /\ ref[o] = Inc(i)
      /\ \A q \in Opens : ref[q] = Inc(i) /\ q # o => pc[q] \notin OwnPcs
      /\ pc[o] = "park" /\ life[i] = "asleep"
  BY TypeFacts, <1>0 DEF EndMappedClose, Fresh, Roles, Stages, Disposing, NewPcs, HoldPcs, OwnPcs, CountPcs
<1>5. \A k \in Keys : items'[k] # items[k] =>
        /\ items'[k] \in {NoSlot, Inc(i), Closer(i)}
        /\ generation = 0 => items[k] \in {NoSlot, Inc(i), Closer(i)}
  BY <1>3, Zenon
<1>6. Touches(i, {o})
  BY <1>1, <1>2, <1>3, <1>4, <1>5, TypeFacts, Zenon DEF Touches, NewPcs
<1>7. Fresh(i)' /\ Stages(i)'
  BY <1>0, <1>1, <1>2, <1>4, SlotNames DEF KeepsRole, Fresh, Roles, Stages, Disposing, NewPcs, OwnPcs
<1>8. Roles(i)'
  <2>1. ASSUME NEW q \in Opens, q # o, ref'[q] = Inc(i)
        PROVE ref[q] = Inc(i) /\ pc'[q] \notin OwnPcs /\ (pc'[q] \in HoldPcs => pc[q] \in HoldPcs)
    BY <1>1, <1>4, <2>1, Zenon DEF KeepsRole, OwnPcs, HoldPcs
  <2> QED BY <1>0, <1>1, <1>2, <1>4, <2>1, Zenon DEF Roles, HoldPcs, OwnPcs
<1>9. Mapped(i)'
  BY TypeFacts, <1>0, <1>2, <1>3, <1>4, SlotNames, Zenon DEF Mapped, Stages, Unmapped
<1>10. Mapping(i)'
  <2>1. state'[i] = "busy" /\ end'[i] = "closeMapped"
    BY <1>2, <1>4, Zenon
  <2>2. ASSUME NEW q \in Opens, ref'[q] = Inc(i), pc'[q] \in HoldPcs PROVE FALSE
    <3>1. q # o
      BY <1>1, <2>2, Zenon DEF HoldPcs
    <3>2. ref[q] = Inc(i) /\ pc[q] \in HoldPcs
      BY <1>1, <2>2, <3>1, Zenon DEF KeepsRole, OwnPcs, HoldPcs
    <3> QED BY <1>0, <1>4, <3>2, Zenon DEF Roles
  <2>3. generation' = 0 => items'[KeyOf[i]] = Inc(i)
    BY <1>0, <1>3, <1>4, Zenon DEF Mapping
  <2> QED BY <2>1, <2>2, <2>3, Zenon DEF Mapping
<1>11. CountEffect(i)
  <2>1. \A q \in Opens : ref'[q] = Inc(i) /\ pc'[q] \in CountPcs <=> ref[q] = Inc(i) /\ pc[q] \in CountPcs
    BY <1>1, <1>4 DEF KeepsRole, CountPcs
  <2>2. Counted(i)' = Counted(i)
    BY <2>1, Zenon DEF Counted, CountPcs
  <2> QED BY <1>2, <1>4, <2>2, TypeFacts, Zenon DEF CountEffect
<1> QED BY OneTouched, <1>6, <1>7, <1>8, <1>9, <1>10, <1>11, Zenon DEF SlotInv

(* ClaimDropSleeps keeps the invariants.                                    *)
LEMMA ClaimDropSleepsKeeps ==
  ASSUME TypeOK, IndInv, IdleIsUnheld, NEW o \in Opens, NEW i \in Opens, ClaimDrop(o, i), state[i] = "awake", holders[i] = 0
  PROVE AllSlots
<1>0. Fresh(i) /\ Roles(i) /\ Stages(i) /\ Mapped(i) /\ Mapping(i)
  BY IncarnationInv, Zenon
<1>1. /\ pc'[o] = "sleep"
      /\ ref'[o] = Inc(i)
      /\ \A q \in Opens \ {o} : KeepsRole(q)
  BY TypeFacts, Zenon DEF ClaimDrop, KeepsRole
<1>2. /\ state'[i] = "busy" /\ end'[i] = end[i] /\ life'[i] = life[i]
      /\ holders'[i] = holders[i] /\ enforce'[i] = enforce[i] /\ finished'[i] = finished[i]
      /\ \A j \in Opens \ {i} : SlotKept(j)
  BY TypeFacts, Zenon DEF ClaimDrop, SlotKept
<1>3. /\ items' = items
      /\ reset'.todo = reset.todo /\ generation' = generation
  BY TypeFacts, Zenon DEF ClaimDrop, aliasVars
<1>4. /\ state[i] = "awake" /\ end[i] = "none" /\ life[i] = "awake" /\ ~finished[i]
      /\ ref[o] = Inc(i) /\ pc[o] = "claim"
      /\ \A q \in Opens : ref[q] = Inc(i) => pc[q] \notin OwnPcs /\ pc[q] \notin HoldPcs
  BY TypeFacts, <1>0, Zenon
    DEF ClaimDrop, Fresh, Roles, Stages, Disposing, NewPcs, HoldPcs, OwnPcs, CountPcs, IdleIsUnheld
<1>5. \A k \in Keys : items'[k] # items[k] =>
        /\ items'[k] \in {NoSlot, Inc(i), Closer(i)}
        /\ generation = 0 => items[k] \in {NoSlot, Inc(i), Closer(i)}
  BY <1>3, Zenon
<1>6. Touches(i, {o})
  BY <1>1, <1>2, <1>3, <1>4, <1>5, TypeFacts, Zenon DEF Touches, NewPcs
<1>7. Fresh(i)' /\ Stages(i)'
  BY <1>0, <1>1, <1>2, <1>4, SlotNames, Zenon DEF KeepsRole, Fresh, Roles, Stages, Disposing, NewPcs, OwnPcs
<1>8. Roles(i)'
  <2>1. ASSUME NEW q \in Opens, q # o, ref'[q] = Inc(i)
        PROVE ref[q] = Inc(i) /\ pc'[q] \notin OwnPcs /\ (pc'[q] \in HoldPcs => pc[q] \in HoldPcs)
    BY <1>1, <1>4, <2>1, Zenon DEF KeepsRole, OwnPcs, HoldPcs
  <2> QED BY <1>0, <1>1, <1>2, <1>4, <2>1, Zenon DEF Roles, HoldPcs, OwnPcs
<1>9. Mapped(i)'
  BY TypeFacts, <1>0, <1>2, <1>3, <1>4, SlotNames, Zenon DEF Mapped, Stages, Unmapped
<1>10. Mapping(i)'
  BY TypeFacts, <1>0, <1>1, <1>2, <1>3, <1>4, SlotNames, ZenonT(60)
    DEF KeepsRole, Mapping, Mapped, Stages, Unmapped, HoldPcs
<1>11. CountEffect(i)
  <2>1. \A q \in Opens : ref'[q] = Inc(i) /\ pc'[q] \in CountPcs <=> ref[q] = Inc(i) /\ pc[q] \in CountPcs
    BY <1>1, <1>4, Zenon DEF KeepsRole, CountPcs
  <2>2. Counted(i)' = Counted(i)
    BY <2>1, Zenon DEF Counted, CountPcs
  <2> QED BY <1>2, <1>4, <2>2, TypeFacts, Zenon DEF CountEffect
<1> QED BY OneTouched, <1>6, <1>7, <1>8, <1>9, <1>10, <1>11, Zenon DEF SlotInv

(* ClaimDropStops keeps the invariants.                                     *)
LEMMA ClaimDropStopsKeeps ==
  ASSUME TypeOK, IndInv, IdleIsUnheld, NEW o \in Opens, NEW i \in Opens, ClaimDrop(o, i), ~(state[i] = "awake" /\ holders[i] = 0)
  PROVE AllSlots
<1>1. /\ pc[o] = "claim" /\ \E x \in {"dropParked", "over"} : pc' = [pc EXCEPT ![o] = x]
      /\ UNCHANGED <<ref, items, state, end, life, holders, enforce, finished, reset, generation>>
  BY Zenon DEF ClaimDrop, aliasVars
<1> QED BY AllUntouched, TypeFacts, <1>1, SMTT(60) DEF Untouched, SlotKept, NewPcs, HoldPcs, OwnPcs, CountPcs

(* ClaimDrop keeps the invariants.                                          *)
LEMMA ClaimDropKeeps ==
  ASSUME TypeOK, IndInv, IdleIsUnheld, NEW o \in Opens, NEW i \in Opens, ClaimDrop(o, i)
  PROVE AllSlots
  BY ClaimDropSleepsKeeps, ClaimDropStopsKeeps, Zenon

(* ParkAsleep keeps the invariants.                                         *)
LEMMA ParkAsleepKeeps ==
  ASSUME TypeOK, IndInv, IdleIsUnheld, NEW o \in Opens, NEW i \in Opens, ParkAsleep(o, i)
  PROVE AllSlots
<1>0. Fresh(i) /\ Roles(i) /\ Stages(i) /\ Mapped(i) /\ Mapping(i)
  BY IncarnationInv, Zenon
<1>1. /\ pc'[o] \in {"over", "expire"}
      /\ ref'[o] = Inc(i)
      /\ \A q \in Opens \ {o} : KeepsRole(q)
  <2>1. ref' = ref /\ \E x \in {"over", "expire"} : pc' = [Released(Inc(i)) EXCEPT ![o] = x]
    BY ZenonT(60) DEF ParkAsleep
  <2>2. ref[o] = Inc(i)
    BY <1>0, Zenon DEF ParkAsleep, Fresh
  <2> QED BY TypeFacts, <2>1, <2>2, Zenon DEF Released, KeepsRole
<1>2. /\ state'[i] = "asleep" /\ end'[i] = end[i] /\ life'[i] = life[i]
      /\ holders'[i] = holders[i] /\ enforce'[i] = enforce[i] /\ finished'[i] = finished[i]
      /\ \A j \in Opens \ {i} : SlotKept(j)
  BY TypeFacts, Zenon DEF ParkAsleep, SlotKept
<1>3. /\ items' = items \/ (~enforce[i] /\ items' = Unmapped(KeyOf[i], Inc(i)))
      /\ reset'.todo = reset.todo /\ generation' = generation
  <2>1. (ZeroGrace /\ items' = Unmapped(KeyOf[i], Inc(i))) \/ items' = items
    BY Zenon DEF ParkAsleep
  <2>2. ~(enforce[i] /\ ZeroGrace) /\ reset' = reset /\ generation' = generation
    BY Zenon DEF ParkAsleep, aliasVars
  <2> QED BY <2>1, <2>2, Zenon
<1>4. /\ state[i] = "busy" /\ end[i] = "none" /\ ~finished[i] /\ ref[o] = Inc(i)
      /\ \A q \in Opens : ref[q] = Inc(i) /\ q # o => pc[q] \notin OwnPcs
      /\ pc[o] = "park" /\ life[i] = "asleep"
  BY TypeFacts, <1>0, Zenon DEF ParkAsleep, Fresh, Roles, Stages, Disposing, NewPcs, HoldPcs, OwnPcs, CountPcs
<1>5. \A k \in Keys : items'[k] # items[k] =>
        /\ items'[k] \in {NoSlot, Inc(i), Closer(i)}
        /\ generation = 0 => items[k] \in {NoSlot, Inc(i), Closer(i)}
  BY TypeFacts, <1>0, <1>3, <1>4, Zenon DEF Unmapped, Mapping
<1>6. Touches(i, {o})
  BY <1>1, <1>2, <1>3, <1>4, <1>5, TypeFacts, Zenon DEF Touches, NewPcs
<1>7. Fresh(i)' /\ Stages(i)'
  BY <1>0, <1>1, <1>2, <1>4, SlotNames, ZenonT(30) DEF KeepsRole, Fresh, Roles, Stages, Disposing, NewPcs, OwnPcs
<1>8. Roles(i)'
  <2>1. ASSUME NEW q \in Opens, q # o, ref'[q] = Inc(i)
        PROVE ref[q] = Inc(i) /\ pc'[q] \notin OwnPcs /\ (pc'[q] \in HoldPcs => pc[q] \in HoldPcs)
    BY <1>1, <1>4, <2>1, Zenon DEF KeepsRole, OwnPcs, HoldPcs
  <2> QED BY <1>0, <1>1, <1>2, <1>4, <2>1 DEF Roles, HoldPcs, OwnPcs
<1>9. Mapped(i)'
  BY TypeFacts, <1>0, <1>2, <1>3, <1>4, SlotNames DEF Mapped, Stages, Unmapped
<1>10. Mapping(i)'
  BY TypeFacts, <1>0, <1>1, <1>2, <1>3, <1>4, SlotNames, ZenonT(60)
    DEF KeepsRole, Mapping, Mapped, Stages, Unmapped, HoldPcs
<1>11. CountEffect(i)
  <2>1. \A q \in Opens : ref'[q] = Inc(i) /\ pc'[q] \in CountPcs <=> ref[q] = Inc(i) /\ pc[q] \in CountPcs
    BY <1>1, <1>4, Zenon DEF KeepsRole, CountPcs
  <2>2. Counted(i)' = Counted(i)
    BY <2>1, Zenon DEF Counted, CountPcs
  <2> QED BY <1>2, <1>4, <2>2, TypeFacts, Zenon DEF CountEffect
<1> QED BY OneTouched, <1>6, <1>7, <1>8, <1>9, <1>10, <1>11, Zenon DEF SlotInv

-----------------------------------------------------------------------------
(* Who owns a busy slot, and what has been logged, step by step.            *)

(* q stays where it is, or owns no transition before and after the step.    *)
KeptOwner(q) ==
  \/ ref'[q] = ref[q] /\ pc'[q] = pc[q]
  \/ pc[q] \notin OwnPcs /\ pc'[q] \notin OwnPcs

KeptTransition(j) ==
  /\ state'[j] = state[j] /\ end'[j] = end[j] /\ life'[j] = life[j]
  /\ orphaned[j] => orphaned'[j]

(* The step moves incarnation i, by the goroutines M, which own no other.   *)
Moves(i, M) ==
  /\ \A q \in Opens \ M : KeptOwner(q)
  /\ \A q \in M : (pc[q] \in OwnPcs => ref[q] = Inc(i)) /\ (pc'[q] \in OwnPcs => ref'[q] = Inc(i))
  /\ \A j \in Opens \ {i} : KeptTransition(j)

(* Only the incarnation that a step moves has to be looked at.              *)
LEMMA OneMoves ==
  ASSUME TransitionInv, NEW i \in Opens, NEW M \in SUBSET Opens, Moves(i, M), Owned(i)', Logged(i)'
  PROVE TransitionInv'
<1> SUFFICES ASSUME NEW j \in Opens, j # i PROVE Owned(j)' /\ Logged(j)'
  BY Zenon DEF TransitionInv
<1>1. Owned(j) /\ Logged(j) /\ KeptTransition(j) /\ Inc(j) # Inc(i)
  BY SlotNames, Zenon DEF TransitionInv, Moves
<1>2. ASSUME NEW q \in Opens
      PROVE /\ ref[q] = Inc(j) /\ pc[q] \in OwnPcs => ref'[q] = Inc(j) /\ pc'[q] \in OwnPcs
            /\ ref'[q] = Inc(j) /\ pc'[q] = "park" => ref[q] = Inc(j) /\ pc[q] = "park"
  <2>1. "park" \in OwnPcs
    BY Zenon DEF OwnPcs
  <2>2. CASE q \in M
    <3>1. (pc[q] \in OwnPcs => ref[q] = Inc(i)) /\ (pc'[q] \in OwnPcs => ref'[q] = Inc(i))
      BY <2>2, Zenon DEF Moves
    <3> QED BY <1>1, <2>1, <3>1
  <2>3. CASE q \notin M
    <3>1. KeptOwner(q)
      BY <2>3, Zenon DEF Moves
    <3> QED BY <2>1, <3>1, Zenon DEF KeptOwner
  <2> QED BY <2>2, <2>3, Zenon
<1>3. Owned(j)'
  <2>1. CASE end[j] \in {"closeMapped", "unmap"}
    BY <1>1, <2>1, Zenon DEF Owned, KeptTransition
  <2>2. ASSUME NEW q \in Opens, ref[q] = Inc(j), pc[q] \in OwnPcs PROVE Owned(j)'
    BY <1>2, <2>2, Zenon DEF Owned
  <2>3. CASE state'[j] # "busy"
    BY <2>3, Zenon DEF Owned
  <2> QED BY <1>1, <2>1, <2>2, <2>3, Zenon DEF Owned, KeptTransition
<1>4. Logged(j)'
  BY <1>1, <1>2, Zenon DEF Logged, KeptTransition
<1> QED BY <1>3, <1>4, Zenon

(* A step that moves no incarnation.                                        *)
LEMMA NoneMoves ==
  ASSUME TransitionInv, \A q \in Opens : KeptOwner(q), \A j \in Opens : KeptTransition(j)
  PROVE TransitionInv'
<1> SUFFICES ASSUME NEW i \in Opens PROVE Owned(i)' /\ Logged(i)'
  BY Zenon DEF TransitionInv
<1>1. Owned(i) /\ Logged(i) /\ KeptTransition(i)
  BY Zenon DEF TransitionInv
<1>2. \A q \in Opens : /\ ref[q] = Inc(i) /\ pc[q] \in OwnPcs => ref'[q] = Inc(i) /\ pc'[q] \in OwnPcs
                       /\ ref'[q] = Inc(i) /\ pc'[q] = "park" => ref[q] = Inc(i) /\ pc[q] = "park"
  BY Zenon DEF KeptOwner, OwnPcs
<1>3. Owned(i)'
  BY <1>1, <1>2, Zenon DEF Owned, KeptTransition
<1>4. Logged(i)'
  BY <1>1, <1>2, Zenon DEF Logged, KeptTransition
<1> QED BY <1>3, <1>4, Zenon

(* close(ready) moves nobody who owns a transition.                         *)
LEMMA ReleasedOwner ==
  ASSUME TypeOK, NEW s, NEW M \in SUBSET Opens, ref' = ref, \A q \in Opens \ M : pc'[q] = Released(s)[q]
  PROVE \A q \in Opens \ M : KeptOwner(q)
<1> TAKE q \in Opens \ M
<1>1. \/ pc'[q] = pc[q]
      \/ pc[q] = "parked" /\ pc'[q] = "woken"
      \/ pc[q] = "dropParked" /\ pc'[q] = "claim"
  BY ReleasedKeeps, Zenon
<1> QED BY <1>1, Zenon DEF KeptOwner, OwnPcs

(* What the goroutine o that owns incarnation i, or takes it over, leaves.  *)
LEMMA OwnerMoves ==
  ASSUME TypeOK, TransitionInv, NEW i \in Opens, NEW o \in Opens,
         \A q \in Opens \ {o} : KeptOwner(q), \A j \in Opens \ {i} : KeptTransition(j),
         pc[o] \in OwnPcs => ref[o] = Inc(i), ref'[o] = Inc(i),
         state'[i] = "busy" => pc'[o] \in OwnPcs \/ end'[i] \in {"closeMapped", "unmap"},
         state'[i] = "asleep" \/ pc'[o] = "park" => orphaned'[i],
         end'[i] \in Disposing /\ life'[i] = "asleep" => orphaned'[i],
         orphaned[i] => orphaned'[i]
  PROVE TransitionInv'
<1>1. Moves(i, {o})
  BY Zenon DEF Moves
<1>2. Owned(i)'
  BY Zenon DEF Owned
<1>3. Logged(i)'
  <2>1. ASSUME NEW q \in Opens, ref'[q] = Inc(i), pc'[q] = "park" PROVE orphaned'[i]
    <3>1. CASE q = o
      BY <2>1, <3>1, Zenon
    <3>2. CASE q # o
      <4>1. ref[q] = Inc(i) /\ pc[q] = "park"
        BY <2>1, <3>2, Zenon DEF KeptOwner, OwnPcs
      <4> QED BY <4>1, Zenon DEF TransitionInv, Logged
    <3> QED BY <3>1, <3>2, Zenon
  <2> QED BY <2>1, Zenon DEF Logged
<1> QED BY <1>1, <1>2, <1>3, OneMoves, Zenon

(* What a step of the ending of i, or Reset, leaves.                        *)
LEMMA EndingMoves ==
  ASSUME TypeOK, TransitionInv, NEW i \in Opens,
         \A q \in Opens : KeptOwner(q), \A j \in Opens \ {i} : KeptTransition(j),
         state'[i] = "busy" => end'[i] \in {"closeMapped", "unmap"},
         state'[i] = "asleep" => orphaned'[i],
         end'[i] \in Disposing /\ life'[i] = "asleep" => orphaned'[i],
         orphaned[i] => orphaned'[i]
  PROVE TransitionInv'
<1>1. Moves(i, {})
  BY Zenon DEF Moves
<1>2. Owned(i)'
  BY Zenon DEF Owned
<1>3. Logged(i)'
  <2>1. ASSUME NEW q \in Opens, ref'[q] = Inc(i), pc'[q] = "park" PROVE orphaned'[i]
    <3>1. ref[q] = Inc(i) /\ pc[q] = "park"
      BY <2>1, Zenon DEF KeptOwner, OwnPcs
    <3> QED BY <3>1, Zenon DEF TransitionInv, Logged
  <2> QED BY <2>1, Zenon DEF Logged
<1> QED BY <1>1, <1>2, <1>3, OneMoves, Zenon

(* claimExpire closes an incarnation that was left asleep, so logged.       *)
LEMMA ClaimExpireMoves ==
  ASSUME TypeOK, TransitionInv, NEW i \in Opens, ClaimExpire(i), orphaned[i],
         \A q \in Opens : KeptOwner(q), life' = life, orphaned' = orphaned
  PROVE TransitionInv'
<1>t. /\ state \in [Opens -> {"none", "busy", "awake", "asleep", "gone"}]
      /\ end \in [Opens -> DOMAIN StageAfter]
  BY Zenon DEF TypeOK
<1>1. \/ state' = [state EXCEPT ![i] = "busy"] /\ end' = [end EXCEPT ![i] = "closeMapped"]
      \/ state' = [state EXCEPT ![i] = "gone"] /\ end' = [end EXCEPT ![i] = "closeExpired"]
  BY Zenon DEF ClaimExpire
<1>2. \A j \in Opens \ {i} : KeptTransition(j)
  BY <1>1, <1>t, Zenon DEF KeptTransition
<1>3. state'[i] = "busy" => end'[i] \in {"closeMapped", "unmap"}
  BY <1>1, <1>t, Zenon
<1>4. orphaned'[i]
  BY Zenon
<1> QED BY <1>2, <1>3, <1>4, EndingMoves, Zenon

(* The steps of an Open call and of its holder.                             *)
LEMMA HolderTransition ==
  ASSUME TypeOK, IndInv, TransitionInv, NEW o \in Opens, HolderStep(o)
  PROVE TransitionInv'
<1>t. /\ pc \in [Opens -> Pcs] /\ ref \in [Opens -> Slots \cup {NoSlot}]
      /\ state \in [Opens -> {"none", "busy", "awake", "asleep", "gone"}]
      /\ end \in [Opens -> DOMAIN StageAfter]
      /\ life \in [Opens -> {"none", "awake", "asleep", "broken", "closed"}]
      /\ orphaned \in [Opens -> BOOLEAN]
  BY Zenon DEF TypeOK
<1>i. \A i \in Opens : Roles(i) /\ Stages(i) /\ Logged(i)
  BY Zenon DEF IndInv, SlotInv, TransitionInv
<1>p. Released(Inc(o)) \in [Opens -> Pcs] /\ \A i \in Opens : Released(Inc(i)) \in [Opens -> Pcs]
  BY <1>t, Zenon DEF Released, Pcs
(* A step of o alone that neither takes over nor gives up an incarnation.   *)
<1>q. ASSUME NEW x, pc' = [pc EXCEPT ![o] = x], pc[o] \notin OwnPcs, x \notin OwnPcs,
             \A q \in Opens \ {o} : ref'[q] = ref[q], UNCHANGED <<state, end, life, orphaned>>
      PROVE TransitionInv'
  <2>1. \A q \in Opens : KeptOwner(q)
    BY <1>q, <1>t, Zenon DEF KeptOwner
  <2>2. \A j \in Opens : KeptTransition(j)
    BY <1>q, Zenon DEF KeptTransition
  <2> QED BY <2>1, <2>2, NoneMoves, Zenon
<1>1. CASE OpenPark(o) \/ Woken(o) \/ FinishBind(o) \/ AfterFunc(o) \/ PollErr(o)
  <2>1. pc[o] \in {"lookup", "woken", "bind", "held", "polled"} /\ UNCHANGED <<state, end, life, orphaned>>
        /\ \E x \in {"parked", "over", "lookup", "release", "snapshot", "held"} : pc' = [pc EXCEPT ![o] = x]
    BY <1>1, Zenon DEF OpenPark, Woken, FinishBind, AfterFunc, PollErr, slotVars
  <2>2. \A q \in Opens \ {o} : ref'[q] = ref[q]
    BY <1>1, <1>t, Zenon DEF OpenPark, Woken, FinishBind, AfterFunc, PollErr
  <2> QED BY <1>q, <2>1, <2>2, Zenon DEF OwnPcs
<1>2. ASSUME NEW i \in Opens,
             \/ OpenBind(o, i) \/ FinishedAtBind(o, i) \/ PollFinished(o, i) \/ ReleaseHolder(o, i)
             \/ EndingReturns(o, i)
      PROVE TransitionInv'
  <2>1. pc[o] \in {"lookup", "snapshot", "held", "release", "ending"} /\ UNCHANGED <<state, end, life, orphaned>>
        /\ \E x \in {"bind", "over", "held", "polled", "claim"} : pc' = [pc EXCEPT ![o] = x]
    BY <1>2, Zenon DEF OpenBind, FinishedAtBind, PollFinished, ReleaseHolder, EndingReturns, slotVars
  <2>2. \A q \in Opens \ {o} : ref'[q] = ref[q]
    BY <1>2, <1>t, Zenon DEF OpenBind, FinishedAtBind, PollFinished, ReleaseHolder, EndingReturns
  <2> QED BY <1>q, <2>1, <2>2, Zenon DEF OwnPcs
<1>3. CASE OpenCreate(o)
  <2>1. /\ pc'[o] = "create" /\ pc[o] = "lookup" /\ ref'[o] = Inc(o) /\ state'[o] = "busy"
        /\ end'[o] = end[o] /\ life'[o] = life[o] /\ orphaned'[o] = orphaned[o]
        /\ \A q \in Opens \ {o} : KeptOwner(q) /\ KeptTransition(q)
    BY <1>3, <1>t, Zenon DEF OpenCreate, KeptOwner, KeptTransition
  <2> QED BY <1>i, <2>1, OwnerMoves, Zenon DEF Logged, OwnPcs
<1>4. ASSUME NEW i \in Opens, OpenWake(o, i) PROVE TransitionInv'
  <2>1. /\ pc'[o] = "wake" /\ pc[o] = "lookup" /\ ref'[o] = Inc(i) /\ state'[i] = "busy"
        /\ end'[i] = end[i] /\ life'[i] = life[i] /\ orphaned'[i] = orphaned[i]
    BY <1>4, <1>t, Zenon DEF OpenWake
  <2>2. (\A q \in Opens \ {o} : KeptOwner(q)) /\ (\A j \in Opens \ {i} : KeptTransition(j))
    BY <1>4, <1>t, Zenon DEF OpenWake, KeptOwner, KeptTransition
  <2> QED BY <1>i, <2>1, <2>2, OwnerMoves, Zenon DEF Logged, OwnPcs
<1>5. CASE PublishPut(o)
  <2>1. ref[o] = Inc(o)
    BY <1>5, Zenon DEF PublishPut, IndInv, SlotInv, Fresh
  <2>2. /\ pc'[o] = "bind" /\ ref' = ref /\ state'[o] = "awake" /\ life'[o] = "awake" /\ orphaned'[o] = orphaned[o]
        /\ \A q \in Opens \ {o} : pc'[q] = Released(Inc(o))[q] /\ KeptTransition(q)
    BY <1>5, <1>t, <1>p, Zenon DEF PublishPut, KeptTransition
  <2>3. \A q \in Opens \ {o} : KeptOwner(q)
    BY <2>2, ReleasedOwner, Zenon
  <2> QED BY <2>1, <2>2, <2>3, OwnerMoves, Zenon DEF OwnPcs
<1>6. CASE CreateFails(o)
  <2>1. ref[o] = Inc(o)
    BY <1>6, Zenon DEF CreateFails, IndInv, SlotInv, Fresh
  <2>2. /\ pc'[o] = "over" /\ ref' = ref /\ state'[o] = "gone" /\ end'[o] = end[o] /\ life'[o] = life[o]
        /\ orphaned'[o] = orphaned[o]
        /\ \A q \in Opens \ {o} : pc'[q] = Released(Inc(o))[q] /\ KeptTransition(q)
    BY <1>6, <1>t, <1>p, Zenon DEF CreateFails, EndBusySlot, KeptTransition
  <2>3. \A q \in Opens \ {o} : KeptOwner(q)
    BY <2>2, ReleasedOwner, Zenon
  <2> QED BY <1>i, <2>1, <2>2, <2>3, OwnerMoves, Zenon DEF Logged, OwnPcs
<1>7. ASSUME NEW i \in Opens, PublishWake(o, i) PROVE TransitionInv'
  <2>2. /\ pc'[o] = "bind" /\ ref' = ref /\ ref[o] = Inc(i)
        /\ state'[i] = "awake" /\ life'[i] = "awake" /\ orphaned'[i] = orphaned[i]
    BY <1>7, <1>t, <1>p, Zenon DEF PublishWake
  <2>3. (\A q \in Opens \ {o} : pc'[q] = Released(Inc(i))[q]) /\ (\A j \in Opens \ {i} : KeptTransition(j))
    BY <1>7, <1>t, <1>p, Zenon DEF PublishWake, KeptTransition
  <2>4. \A q \in Opens \ {o} : KeptOwner(q)
    BY <2>2, <2>3, ReleasedOwner, Zenon
  <2> QED BY <2>2, <2>3, <2>4, OwnerMoves, Zenon DEF OwnPcs
<1>8. ASSUME NEW i \in Opens, WakePanics(o, i) \/ SleepPanics(o, i) PROVE TransitionInv'
  <2>1. PICK err : EndBusyAfterPanic(o, i, err)
    BY <1>8, Zenon DEF WakePanics, SleepPanics
  <2>2. /\ pc'[o] = "ending" /\ ref' = ref /\ ref[o] = Inc(i)
        /\ state'[i] = "gone" /\ life'[i] = "broken" /\ orphaned'[i] = orphaned[i]
        /\ \A j \in Opens \ {i} : KeptTransition(j)
    BY <1>8, <2>1, <1>t, <1>p, Zenon DEF WakePanics, SleepPanics, EndBusyAfterPanic, InstallCloser, EndBusySlot,
         KeptTransition
  <2>3. \A q \in Opens \ {o} : KeptOwner(q)
    <3>1. CASE pc' = [pc EXCEPT ![o] = "ending"]
      BY <1>t, <2>2, <3>1, Zenon DEF KeptOwner
    <3>2. CASE pc' = [Released(Inc(i)) EXCEPT ![o] = "ending"]
      <4>1. \A q \in Opens \ {o} : pc'[q] = Released(Inc(i))[q]
        BY <1>p, <3>2, Zenon
      <4> QED BY <2>2, <4>1, ReleasedOwner, Zenon
    <3> QED BY <2>1, <3>1, <3>2, Zenon DEF EndBusyAfterPanic, InstallCloser, EndBusySlot
  <2> QED BY <2>2, <2>3, OwnerMoves, Zenon DEF OwnPcs
<1>9. ASSUME NEW i \in Opens, ClaimDrop(o, i) PROVE TransitionInv'
  <2>1. CASE state' = state
    <3>1. pc[o] = "claim" /\ ref' = ref /\ UNCHANGED <<state, end, life, orphaned>>
          /\ \E x \in {"dropParked", "over"} : pc' = [pc EXCEPT ![o] = x]
      BY <1>9, <1>t, <2>1 DEF ClaimDrop
    <3> QED BY <1>q, <3>1, Zenon DEF OwnPcs
  <2>2. CASE state' # state
    <3>1. /\ pc[o] = "claim" /\ ref[o] = Inc(i) /\ ref' = ref /\ pc' = [pc EXCEPT ![o] = "sleep"]
          /\ state' = [state EXCEPT ![i] = "busy"] /\ UNCHANGED <<end, life, orphaned>>
      BY <1>9, <2>2, Zenon DEF ClaimDrop
    <3>2. /\ pc'[o] = "sleep" /\ state'[i] = "busy"
          /\ end'[i] = end[i] /\ life'[i] = life[i] /\ orphaned'[i] = orphaned[i] /\ ref'[o] = Inc(i)
      BY <1>t, <3>1, Zenon
    <3>3. (\A q \in Opens \ {o} : KeptOwner(q)) /\ (\A j \in Opens \ {i} : KeptTransition(j))
      BY <1>t, <3>1, Zenon DEF KeptOwner, KeptTransition
    <3>4. pc[o] = "claim"
      BY <3>1, Zenon
    <3> QED BY <1>i, <3>2, <3>3, <3>4, OwnerMoves, Zenon DEF Logged, OwnPcs
  <2> QED BY <2>1, <2>2, Zenon
<1>10. ASSUME NEW i \in Opens, SleepReturns(o, i) PROVE TransitionInv'
  <2>1. /\ pc'[o] = "orphan" /\ ref'[o] = Inc(i) /\ ref[o] = Inc(i) /\ state'[i] = state[i]
        /\ end'[i] = end[i] /\ orphaned'[i] = orphaned[i]
    BY <1>10, <1>t, Zenon DEF SleepReturns
  <2>2. (\A q \in Opens \ {o} : KeptOwner(q)) /\ (\A j \in Opens \ {i} : KeptTransition(j))
    BY <1>10, <1>t, Zenon DEF SleepReturns, KeptOwner, KeptTransition
  <2>3. state[i] = "busy" /\ end[i] = "none"
    BY <1>10, <1>i, Zenon DEF SleepReturns, Roles, OwnPcs
  <2> QED BY <2>1, <2>2, <2>3, OwnerMoves, Zenon DEF OwnPcs, Disposing
<1>11. ASSUME NEW i \in Opens, LogOrphan(o, i) PROVE TransitionInv'
  <2>1. pc'[o] = "park" /\ ref'[o] = Inc(i) /\ ref[o] = Inc(i) /\ orphaned'[i]
    BY <1>11, <1>t, Zenon DEF LogOrphan
  <2>2. (\A q \in Opens \ {o} : KeptOwner(q)) /\ (\A j \in Opens \ {i} : KeptTransition(j))
    BY <1>11, <1>t, Zenon DEF LogOrphan, KeptOwner, KeptTransition
  <2> QED BY <2>1, <2>2, OwnerMoves, Zenon DEF OwnPcs
<1>12. ASSUME NEW i \in Opens, EndMappedClose(o, i) PROVE TransitionInv'
  <2>1. pc'[o] = "ending" /\ ref'[o] = Inc(i) /\ ref[o] = Inc(i) /\ end'[i] = "closeMapped"
        /\ orphaned'[i] = orphaned[i]
    BY <1>12, <1>t, Zenon DEF EndMappedClose
  <2>2. (\A q \in Opens \ {o} : KeptOwner(q)) /\ (\A j \in Opens \ {i} : KeptTransition(j))
    BY <1>12, <1>t, Zenon DEF EndMappedClose, KeptOwner, KeptTransition
  <2>3. orphaned[i]
    BY <1>12, <1>i, Zenon DEF EndMappedClose, Logged
  <2> QED BY <2>1, <2>2, <2>3, OwnerMoves, Zenon
<1>13. ASSUME NEW i \in Opens, ParkAsleep(o, i) PROVE TransitionInv'
  <2>1. /\ pc'[o] \in {"over", "expire"} /\ ref' = ref /\ ref[o] = Inc(i) /\ state'[i] = "asleep"
        /\ orphaned'[i] = orphaned[i]
    BY <1>13, <1>t, <1>p, Zenon DEF ParkAsleep
  <2>2. (\A q \in Opens \ {o} : pc'[q] = Released(Inc(i))[q]) /\ (\A j \in Opens \ {i} : KeptTransition(j))
    BY <1>13, <1>t, <1>p, Zenon DEF ParkAsleep, KeptTransition
  <2>3. \A q \in Opens \ {o} : KeptOwner(q)
    BY <2>1, <2>2, ReleasedOwner, Zenon
  <2>4. orphaned[i]
    BY <1>13, <1>i, Zenon DEF ParkAsleep, Logged
  <2> QED BY <2>1, <2>2, <2>3, <2>4, OwnerMoves, Zenon
<1>14. ASSUME NEW i \in Opens, ExpireInline(o, i) PROVE TransitionInv'
  <2>0. pc[o] = "expire" /\ ref[o] = Inc(i) /\ ref' = ref /\ life' = life /\ orphaned' = orphaned
    BY <1>14, Zenon DEF ExpireInline
  <2>1. CASE ~Expirable(i)
    <3>1. UNCHANGED <<state, end, life, orphaned>> /\ pc' = [pc EXCEPT ![o] = "over"]
      BY <1>14, <2>1, Zenon DEF ExpireInline, ClaimExpire
    <3> QED BY <1>q, <2>0, <3>1, Zenon DEF OwnPcs
  <2>2. CASE Expirable(i)
    <3>1. ClaimExpire(i) /\ pc' = [pc EXCEPT ![o] = "ending"]
      BY <1>14, <2>2, Zenon DEF ExpireInline
    <3>2. orphaned[i]
      BY <1>i, <2>2, Zenon DEF Expirable, Logged
    <3>3. \A q \in Opens : KeptOwner(q)
      BY <1>t, <2>0, <3>1, Zenon DEF KeptOwner, OwnPcs
    <3> QED BY <2>0, <3>1, <3>2, <3>3, ClaimExpireMoves, Zenon
  <2> QED BY <2>1, <2>2, Zenon
<1> QED BY <1>1, <1>2, <1>3, <1>4, <1>5, <1>6, <1>7, <1>8, <1>9, <1>10, <1>11, <1>12, <1>13, <1>14, Zenon
  DEF HolderStep

(* The steps of an ending and of Reset.                                     *)
LEMMA EndingTransition ==
  ASSUME TypeOK, IndInv, TransitionInv, NEW i \in Opens, EndingStep(i) \/ EndResetSlot(i) \/ ResetSleeps(i)
  PROVE TransitionInv'
<1>t. /\ pc \in [Opens -> Pcs] /\ ref \in [Opens -> Slots \cup {NoSlot}]
      /\ state \in [Opens -> {"none", "busy", "awake", "asleep", "gone"}]
      /\ end \in [Opens -> DOMAIN StageAfter]
      /\ life \in [Opens -> {"none", "awake", "asleep", "broken", "closed"}]
      /\ orphaned \in [Opens -> BOOLEAN]
  BY Zenon DEF TypeOK
<1>i. Stages(i) /\ Logged(i)
  BY Zenon DEF IndInv, SlotInv, TransitionInv
<1>q. ASSUME pc' = pc, ref' = ref PROVE \A q \in Opens : KeptOwner(q)
  BY <1>q, Zenon DEF KeptOwner
<1>a. ASSUME Advance(i) PROVE end'[i] = StageAfter[end[i]] /\ \A j \in Opens \ {i} : end'[j] = end[j]
  BY <1>a, <1>t, Zenon DEF Advance
<1>1. CASE GraceElapses(i)
  <2>1. \A j \in Opens : KeptTransition(j)
    BY <1>1, Zenon DEF GraceElapses, KeptTransition
  <2> QED BY <1>q, <1>1, <2>1, NoneMoves, Zenon DEF GraceElapses
<1>2. CASE ExpireOnTimer(i)
  <2>0. pc' = pc /\ ref' = ref /\ life' = life /\ orphaned' = orphaned
    BY <1>2, Zenon DEF ExpireOnTimer
  <2>1. CASE UNCHANGED <<state, end>>
    <3>1. \A j \in Opens : KeptTransition(j)
      BY <2>0, <2>1, Zenon DEF KeptTransition
    <3> QED BY <1>q, <2>0, <3>1, NoneMoves, Zenon
  <2>2. CASE ClaimExpire(i)
    <3>1. orphaned[i]
      BY <1>i, <2>2, Zenon DEF ClaimExpire, Expirable, Logged
    <3> QED BY <1>q, <2>0, <2>2, <3>1, ClaimExpireMoves, Zenon
  <2> QED BY <1>2, <2>1, <2>2, Zenon DEF ExpireOnTimer
<1>3. CASE CloseReturns(i)
  <2>1. /\ pc' = pc /\ ref' = ref /\ state'[i] = state[i] /\ life'[i] = "closed" /\ orphaned'[i] = orphaned[i]
        /\ end'[i] = StageAfter[end[i]] /\ end[i] \in Disposing
    BY <1>3, <1>a, <1>t, Zenon DEF CloseReturns
  <2>2. \A j \in Opens \ {i} : KeptTransition(j)
    BY <1>3, <1>a, <1>t, Zenon DEF CloseReturns, KeptTransition
  <2>3. (state[i] = "busy" => end'[i] = "unmap") /\ state[i] # "asleep"
    BY <1>i, <2>1, StageOrder, ZenonT(60) DEF Stages, Disposing
  <2> QED BY <1>q, <2>1, <2>2, <2>3, EndingMoves, Zenon
<1>4. CASE UnmapLocked(i)
  <2>1. /\ pc' = pc /\ ref' = ref /\ life'[i] = life[i] /\ orphaned'[i] = orphaned[i]
        /\ end'[i] = StageAfter[end[i]] /\ end[i] \in {"unmap", "unmapCloser"}
    BY <1>4, <1>a, Zenon DEF UnmapLocked
  <2>2. \A j \in Opens \ {i} : KeptTransition(j)
    BY <1>4, <1>a, <1>t, Zenon DEF UnmapLocked, KeptTransition
  <2>3. state'[i] \notin {"busy", "asleep"}
    <3>1. CASE end[i] = "unmap"
      BY <1>4, <1>t, <3>1, Zenon DEF UnmapLocked
    <3>2. CASE end[i] = "unmapCloser"
      BY <1>4, <1>i, <3>2, Zenon DEF UnmapLocked, Stages
    <3> QED BY <2>1, <3>1, <3>2, Zenon
  <2>4. end'[i] \notin Disposing
    BY <2>1, StageOrder, Zenon DEF Disposing
  <2> QED BY <1>q, <2>1, <2>2, <2>3, <2>4, EndingMoves, Zenon
<1>5. CASE CloseReady(i)
  <2>1. /\ ref' = ref /\ state'[i] = state[i] /\ life'[i] = life[i] /\ orphaned'[i] = orphaned[i]
        /\ end'[i] = StageAfter[end[i]] /\ end[i] \in {"wakeOld", "wakeWaiters", "wakeCloser"}
        /\ (pc' = Released(Inc(i)) \/ pc' = Released(Closer(i)))
    BY <1>5, <1>a, Zenon DEF CloseReady
  <2>2. \A j \in Opens \ {i} : KeptTransition(j)
    BY <1>5, <1>a, Zenon DEF CloseReady, KeptTransition
  <2>3. \A q \in Opens : KeptOwner(q)
    <3>1. ASSUME NEW s, pc' = Released(s) PROVE \A q \in Opens \ {} : KeptOwner(q)
      BY <2>1, <3>1, ReleasedOwner, Zenon
    <3> QED BY <2>1, <3>1, Zenon
  <2>4. state[i] \notin {"busy", "asleep"}
    BY <1>i, <2>1, Zenon DEF Stages
  <2>5. end'[i] \in Disposing => life[i] = "broken"
    BY <1>i, <2>1, StageOrder, Zenon DEF Stages, Disposing
  <2> QED BY <2>1, <2>2, <2>3, <2>4, <2>5, EndingMoves, Zenon
<1>6. CASE UnbindAfterClose(i)
  <2>1. /\ pc' = pc /\ ref' = ref /\ state'[i] = state[i] /\ life'[i] = life[i] /\ orphaned'[i] = orphaned[i]
        /\ end'[i] = "over" /\ end[i] = "unbind"
    BY <1>6, <1>a, StageOrder, Zenon DEF UnbindAfterClose
  <2>2. \A j \in Opens \ {i} : KeptTransition(j)
    BY <1>6, <1>a, Zenon DEF UnbindAfterClose, KeptTransition
  <2>3. state[i] \notin {"busy", "asleep"}
    BY <1>i, <2>1, Zenon DEF Stages
  <2> QED BY <1>q, <2>1, <2>2, <2>3, EndingMoves, Zenon DEF Disposing
<1>7. CASE EndResetSlot(i)
  <2>0. pc' = pc /\ ref' = ref /\ life' = life /\ orphaned' = orphaned
    BY <1>7, Zenon DEF EndResetSlot
  <2>1. CASE UNCHANGED <<state, end>>
    <3>1. \A j \in Opens : KeptTransition(j)
      BY <2>0, <2>1, Zenon DEF KeptTransition
    <3> QED BY <1>q, <2>0, <3>1, NoneMoves, Zenon
  <2>2. CASE state[i] \in {"awake", "asleep"} /\ state' = [state EXCEPT ![i] = "gone"]
             /\ end' = [end EXCEPT ![i] = IF state[i] = "awake" THEN "resetSleep" ELSE "closeUnmapped"]
    <3>1. state'[i] = "gone" /\ (end'[i] = "resetSleep" \/ state[i] = "asleep")
      BY <1>t, <2>2, Zenon
    <3>2. \A j \in Opens \ {i} : KeptTransition(j)
      BY <1>t, <2>0, <2>2, Zenon DEF KeptTransition
    <3>3. end'[i] \in Disposing => orphaned'[i]
      BY <1>i, <2>0, <3>1, Zenon DEF Logged, Disposing
    <3>4. orphaned[i] => orphaned'[i]
      BY <2>0, Zenon
    <3>5. \A q \in Opens : KeptOwner(q)
      BY <1>q, <2>0, Zenon
    <3>6. state'[i] = "gone"
      BY <3>1, Zenon
    <3> QED BY <3>2, <3>3, <3>4, <3>5, <3>6, EndingMoves, Zenon
  <2> QED BY <1>7, <2>1, <2>2, Zenon DEF EndResetSlot
<1>8. CASE ResetSleeps(i)
  <2>0. /\ pc' = pc /\ ref' = ref /\ state'[i] = state[i] /\ end[i] = "resetSleep" /\ end'[i] = "closeUnmapped"
    <3>1. pc' = pc /\ ref' = ref /\ state' = state /\ end[i] = "resetSleep" /\ Advance(i)
      BY <1>8, Zenon DEF ResetSleeps
    <3> QED BY <1>a, <3>1, StageOrder, Zenon
  <2>1. /\ pc' = pc /\ ref' = ref /\ state'[i] = state[i] /\ end[i] = "resetSleep" /\ end'[i] = "closeUnmapped"
        /\ (orphaned'[i] \/ (life'[i] = "broken" /\ orphaned' = orphaned))
    <3>1. \/ orphaned' = [orphaned EXCEPT ![i] = TRUE]
          \/ life' = [life EXCEPT ![i] = "broken"] /\ orphaned' = orphaned
      BY <1>8, Zenon DEF ResetSleeps
    <3> QED BY <1>t, <2>0, <3>1
  <2>2. \A j \in Opens \ {i} : KeptTransition(j)
    BY <1>8, <1>a, <1>t, Zenon DEF ResetSleeps, KeptTransition
  <2>3. state[i] \notin {"busy", "asleep"}
    BY <1>i, <2>1, Zenon DEF Stages
  <2>4. (orphaned[i] => orphaned'[i]) /\ (life'[i] = "asleep" => orphaned'[i])
    BY <2>1, Zenon
  <2> QED BY <1>q, <2>1, <2>2, <2>3, <2>4, EndingMoves, Zenon
<1> QED BY <1>1, <1>2, <1>3, <1>4, <1>5, <1>6, <1>7, <1>8, Zenon DEF EndingStep

(* Every step keeps owners and logs in order.                               *)
LEMMA TransitionStep == TypeOK /\ IndInv /\ TransitionInv /\ [Next]_vars => TransitionInv'
<1> SUFFICES ASSUME TypeOK, IndInv, TransitionInv, [Next]_vars PROVE TransitionInv'
  BY Zenon
<1>1. ASSUME UNCHANGED <<pc, ref, state, end, life, orphaned>> PROVE TransitionInv'
  BY <1>1, NoneMoves, Zenon DEF KeptOwner, KeptTransition
<1>2. ASSUME NEW o \in Opens, StartOpen(o) PROVE TransitionInv'
  <2>1. \A q \in Opens : KeptOwner(q)
    BY <1>2, Zenon DEF StartOpen, KeptOwner, OwnPcs, TypeOK
  <2>2. \A j \in Opens : KeptTransition(j)
    BY <1>2, Zenon DEF StartOpen, KeptTransition, slotVars
  <2> QED BY <2>1, <2>2, NoneMoves, Zenon
<1>3. CASE UNCHANGED vars \/ AliasStep \/ TakeAll \/ ResetContinues \/ \E o \in Opens : Cancel(o)
  BY <1>1, <1>3, Zenon DEF vars, tableVars, slotVars, AliasStep, SetAlias, TakeAll, ResetContinues, Cancel
<1> QED BY <1>2, <1>3, HolderTransition, EndingTransition, Zenon DEF Next, ServeNext, ResetStep

=============================================================================
