--------------------------- MODULE ReclaimFrame ----------------------------
(***************************************************************************)
(* The types of the reclaim table, and which incarnations a step of it      *)
(* touches.  Almost every step concerns one incarnation: an untouched one   *)
(* keeps its SlotInv.  Then what each step does to the public names.        *)
(***************************************************************************)
EXTENDS ReclaimTable, TLAPS

(* The names of slots are distinct: what lets t.items[key] == incarnation   *)
(* tell an incarnation from another one and from its closer.                *)
LEMMA SlotNames ==
  /\ \A o, p \in Opens : Inc(o) = Inc(p) => o = p
  /\ \A o, p \in Opens : Closer(o) = Closer(p) => o = p
  /\ \A o, p \in Opens : Inc(o) # Closer(p)
  /\ \A o \in Opens : Inc(o) # NoSlot /\ Closer(o) # NoSlot
  BY Zenon DEF Inc, Closer, NoSlot

(* Slot names belong to Slots.                                              *)
LEMMA SlotTypes ==
  ASSUME NEW o \in Opens
  PROVE Inc(o) \in Slots /\ Closer(o) \in Slots
  BY Zenon DEF Slots

(* The order of the stages of an ending.                                    *)
LEMMA StageOrder ==
  /\ StageAfter["none"] = "none"
  /\ StageAfter["closeMapped"] = "unmap"
  /\ StageAfter["unmap"] = "wakeWaiters"
  /\ StageAfter["wakeWaiters"] = "over"
  /\ StageAfter["wakeOld"] = "closeBehindCloser"
  /\ StageAfter["closeBehindCloser"] = "unmapCloser"
  /\ StageAfter["unmapCloser"] = "wakeCloser"
  /\ StageAfter["wakeCloser"] = "over"
  /\ StageAfter["closeUnmapped"] = "over"
  /\ StageAfter["closeExpired"] = "unbind"
  /\ StageAfter["unbind"] = "over"
  /\ StageAfter["resetSleep"] = "closeUnmapped"
  /\ StageAfter["over"] = "over"
  /\ DOMAIN StageAfter =
       {"none", "closeMapped", "unmap", "wakeWaiters", "wakeOld", "closeBehindCloser",
        "unmapCloser", "wakeCloser", "closeUnmapped", "closeExpired", "unbind",
        "resetSleep", "over"}
  BY Zenon DEF StageAfter

-----------------------------------------------------------------------------
(* Type correctness.                                                        *)

(* unbindIncarnationLocked keeps the alias state well typed.                *)
LEMMA UnbindTypes ==
  ASSUME AliasTypeOK, NEW S \in SUBSET Opens, UnbindIncarnations(S),
         generation' \in 0 .. MaxResets
  PROVE AliasTypeOK'
<1> DEFINE bound == UNION {links[i] : i \in S}
           newEntry == [e \in Entries |-> IF e \in bound THEN Cleared(entry[e]) ELSE entry[e]]
           Rec == [incarnation : Opens \cup {Nobody}, publisher : Publishers \cup {Nobody},
                   group : Groups \cup {Nobody}, empty : Empties]
<1>1. newEntry \in [Entries -> Rec]
  BY ZenonT(60) DEF AliasTypeOK, Cleared
<1>2. entry' = newEntry /\ watch' = StoreWatchers(bound, newEntry)
      /\ links' = [i \in Opens |-> IF i \in S THEN {} ELSE links[i]]
  BY Zenon DEF UnbindIncarnations
<1>3. links' \in [Opens -> SUBSET Entries]
  BY <1>2, Zenon DEF AliasTypeOK
<1>4. \A r \in Rec : Published(r) \in Opens \cup Empties
  BY Zenon DEF Published
<1> HIDE DEF newEntry
<1>5. watch' \in [Watches -> [state : {"new", "on", "dropped"}, entry : Entries \cup {Nobody},
                              last : Opens \cup Empties]]
  <2> SUFFICES ASSUME NEW w \in Watches
               PROVE (IF watch[w].state = "on" /\ watch[w].entry \in bound
                        THEN [watch[w] EXCEPT !.last = Published(newEntry[watch[w].entry])]
                        ELSE watch[w]) \in [state : {"new", "on", "dropped"},
                                            entry : Entries \cup {Nobody}, last : Opens \cup Empties]
    BY <1>2, Zenon DEF StoreWatchers
  <2>1. bound \subseteq Entries
    BY DEF AliasTypeOK
  <2>2. watch[w].entry \in bound => Published(newEntry[watch[w].entry]) \in Opens \cup Empties
    BY <1>1, <1>4, <2>1, Zenon
  <2> QED BY <2>2 DEF AliasTypeOK
<1> QED BY <1>1, <1>2, <1>3, <1>5, Zenon DEF AliasTypeOK

(* So do SetAlias, ClearPublisher, Watch and dropWatcher.                   *)
LEMMA AliasStepTypes ==
  ASSUME AliasTypeOK,
         \/ \E i \in Opens, a \in Aliases, p \in Publishers, g \in Groups : SetAliasLocked(i, a, p, g)
         \/ \E p \in Publishers, g \in Groups : ClearPublisher(p, g)
         \/ \E w \in Watches, a \in Aliases, e \in Empties : Watch(w, a, e)
         \/ \E w \in Watches : DropWatcher(w)
  PROVE AliasTypeOK'
<1> DEFINE Rec == [incarnation : Opens \cup {Nobody}, publisher : Publishers \cup {Nobody},
                   group : Groups \cup {Nobody}, empty : Empties]
           Sub == [state : {"new", "on", "dropped"}, entry : Entries \cup {Nobody},
                   last : Opens \cup Empties]
<1>1. \A r \in Rec : Published(r) \in Opens \cup Empties /\ Cleared(r) \in Rec
  BY ZenonT(60) DEF Published, Cleared
<1>2. \A T \in SUBSET Entries, f \in [Entries -> Rec] : StoreWatchers(T, f) \in [Watches -> Sub]
  <2> SUFFICES ASSUME NEW T \in SUBSET Entries, NEW f \in [Entries -> Rec], NEW w \in Watches
               PROVE (IF watch[w].state = "on" /\ watch[w].entry \in T
                        THEN [watch[w] EXCEPT !.last = Published(f[watch[w].entry])]
                        ELSE watch[w]) \in Sub
    BY ZenonT(60) DEF StoreWatchers
  <2>1. watch[w].entry \in T => Published(f[watch[w].entry]) \in Opens \cup Empties
    BY <1>1, Zenon
  <2> QED BY <2>1 DEF AliasTypeOK
<1>3. \A a \in Aliases : Current(a) \in Entries
  BY Zenon DEF Current, Entries, AliasTypeOK
<1>4. ASSUME NEW i \in Opens, NEW a \in Aliases, NEW p \in Publishers, NEW g \in Groups,
             SetAliasLocked(i, a, p, g)
      PROVE AliasTypeOK'
  <2> DEFINE e == Current(a)
             renamed == {f \in Entries : /\ f # e
                                         /\ f[2] = generation
                                         /\ entry[f].publisher = p
                                         /\ entry[f].group = g}
             newEntry == [f \in Entries |->
                            IF f = e THEN [entry[e] EXCEPT !.incarnation = i, !.publisher = p, !.group = g]
                            ELSE IF f \in renamed THEN Cleared(entry[f]) ELSE entry[f]]
  <2>1. /\ entry' = newEntry
        /\ links' = [j \in Opens |->
                       (links[j] \ {f \in renamed \cup {e} : entry[f].incarnation = j})
                         \cup (IF j = i THEN {e} ELSE {})]
        /\ watch' = StoreWatchers(renamed \cup {e}, newEntry)
        /\ generation' = generation
    BY <1>4, ZenonT(60) DEF SetAliasLocked
  <2>2. [entry[e] EXCEPT !.incarnation = i, !.publisher = p, !.group = g] \in Rec
    BY <1>3, ZenonT(60) DEF AliasTypeOK
  <2>3. newEntry \in [Entries -> Rec]
    BY <2>2, <1>1, Zenon DEF AliasTypeOK
  <2>4. renamed \cup {e} \in SUBSET Entries
    BY <1>3, Zenon
  <2> HIDE DEF newEntry, renamed, e
  <2>5. links' \in [Opens -> SUBSET Entries]
    BY <2>1, <2>4, Zenon DEF AliasTypeOK
  <2> QED BY <2>1, <2>3, <2>4, <2>5, <1>2, ZenonT(60) DEF AliasTypeOK
<1>5. ASSUME NEW p \in Publishers, NEW g \in Groups, ClearPublisher(p, g)
      PROVE AliasTypeOK'
  <2> DEFINE held == {f \in Entries : /\ f[2] = generation
                                      /\ entry[f].publisher = p
                                      /\ entry[f].group = g}
             newEntry == [f \in Entries |-> IF f \in held THEN Cleared(entry[f]) ELSE entry[f]]
  <2>1. /\ entry' = newEntry
        /\ links' = [j \in Opens |-> links[j] \ {f \in held : entry[f].incarnation = j}]
        /\ watch' = StoreWatchers(held, newEntry)
        /\ generation' = generation
    BY <1>5, Zenon DEF ClearPublisher
  <2>2. newEntry \in [Entries -> Rec] /\ held \in SUBSET Entries
    BY <1>1, Zenon DEF AliasTypeOK
  <2> HIDE DEF newEntry, held
  <2>3. links' \in [Opens -> SUBSET Entries]
    BY <2>1, <2>2, Zenon DEF AliasTypeOK
  <2> QED BY <2>1, <2>2, <2>3, <1>2, ZenonT(60) DEF AliasTypeOK
<1>6. ASSUME NEW w \in Watches, NEW a \in Aliases, NEW m \in Empties, Watch(w, a, m)
      PROVE AliasTypeOK'
  <2> DEFINE e == Current(a)
             r == [entry[e] EXCEPT !.empty = IF @ = "nil" THEN m ELSE @]
  <2>1. /\ entry' = [entry EXCEPT ![e] = r]
        /\ watch' = [watch EXCEPT ![w] = [state |-> "on", entry |-> e, last |-> Published(r)]]
        /\ generation' = generation /\ links' = links
    BY <1>6, Zenon DEF Watch
  <2>2. r \in Rec /\ e \in Entries
    BY <1>3, Zenon DEF AliasTypeOK
  <2> HIDE DEF r, e
  <2>3. [state |-> "on", entry |-> e, last |-> Published(r)] \in Sub
    BY <2>2, <1>1, Zenon
  <2> QED BY <2>1, <2>2, <2>3, Zenon DEF AliasTypeOK
<1>7. ASSUME NEW w \in Watches, DropWatcher(w)
      PROVE AliasTypeOK'
  <2>1. [watch[w] EXCEPT !.state = "dropped"] \in Sub
    BY Zenon DEF AliasTypeOK
  <2>2. watch' = [watch EXCEPT ![w] = [watch[w] EXCEPT !.state = "dropped"]]
    BY <1>7, Zenon DEF DropWatcher
  <2> QED BY <1>7, <2>1, <2>2 DEF DropWatcher, AliasTypeOK
<1> QED BY <1>4, <1>5, <1>6, <1>7, Zenon

(* Every step keeps the types.                                              *)
LEMMA TypeStep == TypeOK /\ [Next]_vars => TypeOK'
<1> SUFFICES ASSUME TypeOK, [Next]_vars PROVE TypeOK'
  BY Zenon
<1> USE SlotTypes
<1> DEFINE Kept == UNCHANGED aliasVars
<1>a. Kept => AliasTypeOK'
  BY DEF TypeOK, AliasTypeOK, aliasVars
<1>b. ASSUME NEW i \in Opens, UnbindIncarnation(i) PROVE AliasTypeOK'
  BY <1>b, UnbindTypes DEF UnbindIncarnation, TypeOK, AliasTypeOK
<1>c. ASSUME NEW i \in Opens PROVE Released(Inc(i)) \in [Opens -> Pcs] /\ Released(Closer(i)) \in [Opens -> Pcs]
  BY Zenon DEF Released, Pcs, TypeOK
<1>d. ASSUME NEW k \in Keys, NEW s PROVE Unmapped(k, s) \in [Keys -> Slots \cup {NoSlot}]
  BY Zenon DEF Unmapped, TypeOK
<1>e. KeyOf \in [Opens -> Keys] /\ Enforces \subseteq BOOLEAN
  BY TableAssumption, Zenon
<1>f. \A x \in DOMAIN StageAfter : StageAfter[x] \in DOMAIN StageAfter
  BY StageOrder, Zenon
<1>g. ASSUME NEW i \in Opens, Advance(i) PROVE end' \in [Opens -> DOMAIN StageAfter]
  BY <1>f, <1>g, Zenon DEF Advance, TypeOK
<1>h. ASSUME NEW o \in Opens, NEW i \in Opens, NEW err \in BOOLEAN, NEW next \in Pcs,
             EndBusySlot(o, i, err, next)
      PROVE /\ createErr' \in [Opens -> BOOLEAN]
            /\ state' \in [Opens -> {"none", "busy", "awake", "asleep", "gone"}]
            /\ finished' \in [Opens -> BOOLEAN]
            /\ items' \in [Keys -> Slots \cup {NoSlot}]
            /\ pc' \in [Opens -> Pcs]
            /\ AliasTypeOK'
  BY <1>b, <1>c, <1>d, <1>e, <1>h, Zenon DEF EndBusySlot, TypeOK
<1>i. ASSUME NEW o \in Opens, NEW i \in Opens, NEW err \in BOOLEAN, EndBusyAfterPanic(o, i, err)
      PROVE TypeOK'
  <2>1. CASE enforce[i] /\ InstallCloser(o, i, err)
    BY <1>i, <1>b, <1>e, <2>1, StageOrder, Zenon DEF EndBusyAfterPanic, InstallCloser, TypeOK, Pcs
  <2>2. CASE ~enforce[i] /\ EndBusySlot(o, i, err, "ending") /\ end' = [end EXCEPT ![i] = "closeUnmapped"]
    BY <1>i, <1>h, <2>2, StageOrder, SMTT(60) DEF EndBusyAfterPanic, TypeOK, Pcs
  <2> QED BY <1>i, <2>1, <2>2, Zenon DEF EndBusyAfterPanic
<1>j. ASSUME NEW i \in Opens, ClaimExpire(i)
      PROVE /\ state' \in [Opens -> {"none", "busy", "awake", "asleep", "gone"}]
            /\ end' \in [Opens -> DOMAIN StageAfter]
            /\ finished' \in [Opens -> BOOLEAN]
            /\ items' \in [Keys -> Slots \cup {NoSlot}]
  <2>1. KeyOf[i] \in Keys /\ "closeMapped" \in DOMAIN StageAfter /\ "closeExpired" \in DOMAIN StageAfter
    BY <1>e, StageOrder, Zenon
  <2>2. CASE enforce[i]
    BY <1>j, <2>1, <2>2 DEF ClaimExpire, TypeOK
  <2>3. CASE ~enforce[i]
    <3>1. /\ items' = Unmapped(KeyOf[i], Inc(i))
          /\ state' = [state EXCEPT ![i] = "gone"]
          /\ finished' = [finished EXCEPT ![i] = TRUE]
          /\ end' = [end EXCEPT ![i] = "closeExpired"]
      BY <1>j, <2>3, Zenon DEF ClaimExpire
    <3>2. items' \in [Keys -> Slots \cup {NoSlot}]
      BY <1>d, <2>1, <3>1, Zenon
    <3> QED BY <2>1, <3>1, <3>2, Zenon DEF TypeOK
  <2> QED BY <2>2, <2>3, Zenon
<1>1. ASSUME NEW o \in Opens, Cancel(o) PROVE TypeOK'
  BY <1>1, <1>a, Zenon DEF Cancel, TypeOK, slotVars
<1>2. ASSUME NEW o \in Opens, StartOpen(o) PROVE TypeOK'
  BY <1>2, <1>a, Zenon DEF StartOpen, TypeOK, Pcs, slotVars
<1>3. ASSUME NEW o \in Opens, OpenCreate(o) PROVE TypeOK'
  BY <1>3, <1>a, <1>e, ZenonT(60) DEF OpenCreate, TypeOK, Pcs
<1>4. ASSUME NEW o \in Opens, OpenPark(o) PROVE TypeOK'
  BY <1>4, <1>a, SMTT(60) DEF OpenPark, TypeOK, Pcs, slotVars
<1>5. ASSUME NEW o \in Opens, Woken(o) PROVE TypeOK'
  BY <1>5, <1>a, Zenon DEF Woken, TypeOK, Pcs, slotVars
<1>6. ASSUME NEW o \in Opens, PublishPut(o) PROVE TypeOK'
  <2>1. PICK e \in Enforces : enforce' = [enforce EXCEPT ![o] = e]
    BY <1>6, ZenonT(60) DEF PublishPut
  <2>2. pc' \in [Opens -> Pcs]
    BY <1>6, <1>c, Zenon DEF PublishPut, Pcs
  <2>3. items' \in [Keys -> Slots \cup {NoSlot}] /\ enforce' \in [Opens -> BOOLEAN]
    BY <1>6, <1>e, <2>1, ZenonT(60) DEF PublishPut, TypeOK
  <2> QED BY <1>6, <1>a, <2>2, <2>3, SMTT(60) DEF PublishPut, TypeOK
<1>7. ASSUME NEW o \in Opens, FinishBind(o) PROVE TypeOK'
  BY <1>7, <1>a, Zenon DEF FinishBind, TypeOK, Pcs, slotVars
<1>8. ASSUME NEW o \in Opens, AfterFunc(o) PROVE TypeOK'
  BY <1>8, <1>a, Zenon DEF AfterFunc, TypeOK, Pcs, slotVars
<1>9. ASSUME NEW o \in Opens, PollErr(o) PROVE TypeOK'
  BY <1>9, <1>a, Zenon DEF PollErr, TypeOK, Pcs, slotVars
<1>10. ASSUME NEW o \in Opens, CreateFails(o) PROVE TypeOK'
  BY <1>10, <1>h, ZenonT(60) DEF CreateFails, TypeOK, Pcs
<1>11. ASSUME NEW o \in Opens, NEW i \in Opens, OpenBind(o, i) PROVE TypeOK'
  BY <1>11, <1>a, <1>e, SMTT(60) DEF OpenBind, TypeOK, Pcs
<1>12. ASSUME NEW o \in Opens, NEW i \in Opens, OpenWake(o, i) PROVE TypeOK'
  BY <1>12, <1>a, <1>e, SMTT(60) DEF OpenWake, TypeOK, Pcs
<1>13. ASSUME NEW o \in Opens, NEW i \in Opens, PublishWake(o, i) PROVE TypeOK'
  BY <1>13, <1>a, <1>c, Zenon DEF PublishWake, TypeOK, Pcs
<1>14. ASSUME NEW o \in Opens, NEW i \in Opens, FinishedAtBind(o, i) PROVE TypeOK'
  BY <1>14, <1>a, Zenon DEF FinishedAtBind, TypeOK, Pcs, slotVars
<1>15. ASSUME NEW o \in Opens, NEW i \in Opens, PollFinished(o, i) PROVE TypeOK'
  BY <1>15, <1>a, Zenon DEF PollFinished, TypeOK, Pcs, slotVars
<1>16. ASSUME NEW o \in Opens, NEW i \in Opens, ReleaseHolder(o, i) PROVE TypeOK'
  BY <1>16, <1>a, SMTT(60) DEF ReleaseHolder, TypeOK, Pcs
<1>17. ASSUME NEW o \in Opens, NEW i \in Opens, ClaimDrop(o, i) PROVE TypeOK'
  <2>1. pc' \in [Opens -> Pcs] /\ state' \in [Opens -> {"none", "busy", "awake", "asleep", "gone"}]
    BY <1>17, SMTT(60) DEF ClaimDrop, TypeOK, Pcs
  <2> QED BY <1>17, <1>a, <2>1, Zenon DEF ClaimDrop, TypeOK
<1>18. ASSUME NEW o \in Opens, NEW i \in Opens, SleepReturns(o, i) PROVE TypeOK'
  BY <1>18, <1>a, Zenon DEF SleepReturns, TypeOK, Pcs
<1>19. ASSUME NEW o \in Opens, NEW i \in Opens, LogOrphan(o, i) PROVE TypeOK'
  BY <1>19, <1>a, Zenon DEF LogOrphan, TypeOK, Pcs
<1>20. ASSUME NEW o \in Opens, NEW i \in Opens, EndMappedClose(o, i) PROVE TypeOK'
  BY <1>20, <1>a, StageOrder, Zenon DEF EndMappedClose, TypeOK, Pcs
<1>21. ASSUME NEW o \in Opens, NEW i \in Opens, ParkAsleep(o, i) PROVE TypeOK'
  <2>1. pc' \in [Opens -> Pcs]
    BY <1>21, <1>c, Zenon DEF ParkAsleep, Pcs
  <2>2. items' \in [Keys -> Slots \cup {NoSlot}]
    <3>1. items' = Unmapped(KeyOf[i], Inc(i)) \/ items' = items
      BY <1>21, Zenon DEF ParkAsleep
    <3> QED BY <1>d, <1>e, <3>1, SMTT(60) DEF TypeOK
  <2>3. state' \in [Opens -> {"none", "busy", "awake", "asleep", "gone"}] /\ timer' \in [Opens -> BOOLEAN]
    BY <1>21, Zenon DEF ParkAsleep, TypeOK
  <2> QED BY <1>21, <1>a, <2>1, <2>2, <2>3, Zenon DEF ParkAsleep, TypeOK
<1>22. ASSUME NEW o \in Opens, NEW i \in Opens, EndingReturns(o, i) PROVE TypeOK'
  BY <1>22, <1>a, Zenon DEF EndingReturns, TypeOK, Pcs, slotVars
<1>23. ASSUME NEW o \in Opens, NEW i \in Opens, WakePanics(o, i) PROVE TypeOK'
  BY <1>23, <1>i, ZenonT(60) DEF WakePanics
<1>24. ASSUME NEW o \in Opens, NEW i \in Opens, SleepPanics(o, i) PROVE TypeOK'
  BY <1>24, <1>i, ZenonT(60) DEF SleepPanics
<1>25. ASSUME NEW o \in Opens, NEW i \in Opens, ExpireInline(o, i) PROVE TypeOK'
  BY <1>25, <1>a, <1>j, SMTT(60) DEF ExpireInline, TypeOK, Pcs
<1>26. ASSUME NEW i \in Opens, GraceElapses(i) PROVE TypeOK'
  BY <1>26, <1>a, SMTT(60) DEF GraceElapses, TypeOK
<1>27. ASSUME NEW i \in Opens, ExpireOnTimer(i) PROVE TypeOK'
  BY <1>27, <1>a, <1>j, SMTT(60) DEF ExpireOnTimer, TypeOK
<1>28. ASSUME NEW i \in Opens, CloseReturns(i) PROVE TypeOK'
  BY <1>28, <1>a, <1>g, Zenon DEF CloseReturns, TypeOK
<1>29. ASSUME NEW i \in Opens, UnmapLocked(i) PROVE TypeOK'
  <2>1. /\ AliasTypeOK' /\ items' \in [Keys -> Slots \cup {NoSlot}]
        /\ state' \in [Opens -> {"none", "busy", "awake", "asleep", "gone"}]
        /\ finished' \in [Opens -> BOOLEAN]
    <3>1. CASE end[i] = "unmap"
      <4>1. /\ items' = Unmapped(KeyOf[i], Inc(i)) /\ UnbindIncarnation(i)
            /\ state' = [state EXCEPT ![i] = "gone"] /\ finished' = [finished EXCEPT ![i] = TRUE]
        BY <1>29, <3>1, Zenon DEF UnmapLocked
      <4>2. items' \in [Keys -> Slots \cup {NoSlot}]
        BY <1>d, <1>e, <4>1, Zenon
      <4> QED BY <1>b, <4>1, <4>2, Zenon DEF TypeOK
    <3>2. CASE end[i] = "unmapCloser"
      BY <1>29, <1>a, <1>d, <1>e, <3>2, SMTT(60) DEF UnmapLocked, TypeOK
    <3> QED BY <1>29, <3>1, <3>2, Zenon DEF UnmapLocked
  <2> QED BY <1>29, <1>g, <2>1, Zenon DEF UnmapLocked, TypeOK
<1>30. ASSUME NEW i \in Opens, CloseReady(i) PROVE TypeOK'
  BY <1>30, <1>a, <1>c, <1>g, SMTT(60) DEF CloseReady, TypeOK
<1>31. ASSUME NEW i \in Opens, UnbindAfterClose(i) PROVE TypeOK'
  BY <1>31, <1>a, <1>b, <1>g, Zenon DEF UnbindAfterClose, TypeOK
<1>32. ASSUME NEW i \in Opens, ResetSleeps(i) PROVE TypeOK'
  BY <1>32, <1>a, <1>g, ZenonT(60) DEF ResetSleeps, TypeOK
<1>33. ASSUME NEW i \in Opens, EndResetSlot(i) PROVE TypeOK'
  <2>1. CASE state[i] \in {"awake", "asleep"}
    <3>1. end' \in [Opens -> DOMAIN StageAfter]
      BY <1>33, <2>1, StageOrder DEF EndResetSlot, TypeOK
    <3>2. reset' \in [running : BOOLEAN, todo : SUBSET Opens, current : Opens \cup {Nobody}]
      <4>1. reset' = [reset EXCEPT !.todo = @ \ {i}, !.current = i]
        BY <1>33, <2>1, Zenon DEF EndResetSlot
      <4> QED BY <4>1, ZenonT(60) DEF TypeOK
    <3> QED BY <1>33, <1>a, <2>1, <3>1, <3>2, ZenonT(60) DEF EndResetSlot, TypeOK
  <2>2. CASE state[i] \in {"busy", "gone"}
    BY <1>33, <1>a, <2>2 DEF EndResetSlot, TypeOK
  <2> QED BY <1>33, <2>1, <2>2, Zenon DEF EndResetSlot
<1>34. ASSUME ResetContinues PROVE TypeOK'
  BY <1>34, <1>a, ZenonT(60) DEF ResetContinues, TypeOK
<1>35. ASSUME TakeAll PROVE TypeOK'
  <2> DEFINE taken == {i \in Opens : items[KeyOf[i]] = Inc(i)}
  <2>1. AliasTypeOK'
    <3>1. UnbindIncarnations(taken) /\ taken \in SUBSET Opens
      BY <1>35, Zenon DEF TakeAll
    <3>2. generation' \in 0 .. MaxResets
      BY <1>35, AliasAssumption, SMTT(60) DEF TakeAll, TypeOK, AliasTypeOK
    <3> QED BY <3>1, <3>2, UnbindTypes, SMTT(60) DEF TypeOK
  <2> QED BY <1>35, <2>1, SMTT(60) DEF TakeAll, TypeOK
<1>36. ASSUME AliasStep PROVE TypeOK'
  BY <1>36, AliasStepTypes, SMTT(60) DEF AliasStep, SetAlias, TypeOK, tableVars, slotVars
<1>37. CASE UNCHANGED vars
  BY <1>37, <1>a, Zenon DEF vars, tableVars, slotVars, TypeOK
<1> QED
  BY <1>1, <1>2, <1>3, <1>4, <1>5, <1>6, <1>7, <1>8, <1>9, <1>10, <1>11, <1>12, <1>13, <1>14, <1>15, <1>16, <1>17, <1>18, <1>19, <1>20, <1>21, <1>22, <1>23, <1>24, <1>25, <1>26, <1>27, <1>28, <1>29, <1>30, <1>31, <1>32, <1>33, <1>34, <1>35, <1>36, <1>37, SMTT(60)
  DEF Next, ServeNext, ResetStep, HolderStep, EndingStep

(* The table's state always has its declared type.                          *)
THEOREM TypeCorrect == Spec => []TypeOK
<1>1. Init => TypeOK
  BY AliasAssumption, StageOrder, SMTT(60) DEF Init, TypeOK, AliasInit, AliasTypeOK, Pcs, Empties
<1> QED BY <1>1, TypeStep, PTL DEF Spec

-----------------------------------------------------------------------------
(* Which incarnations a step touches.                                       *)

(* Goroutine q keeps its slot and its role; close(ready) may have let it on. *)
KeepsRole(q) ==
  /\ ref'[q] = ref[q]
  /\ \/ pc'[q] = pc[q]
     \/ pc[q] = "parked" /\ pc'[q] = "woken"
     \/ pc[q] = "dropParked" /\ pc'[q] = "claim"

(* The fields of slot j stay as they are.                                   *)
SlotKept(j) ==
  /\ state'[j] = state[j] /\ end'[j] = end[j] /\ life'[j] = life[j]
  /\ holders'[j] = holders[j] /\ enforce'[j] = enforce[j] /\ finished'[j] = finished[j]

(* A step of the goroutines M that concerns incarnation i and no other.     *)
Touches(i, M) ==
  /\ \A q \in Opens \ M : KeepsRole(q)
  /\ \A q \in M : /\ ref'[q] = Inc(i) /\ pc'[q] \notin NewPcs
                  /\ pc'[q] = "create" => q = i
                  /\ ref[q] = Inc(i) \/ pc[q] \in NewPcs
  /\ \A j \in Opens \ {i} : SlotKept(j)
  /\ \A k \in Keys : items'[k] # items[k] =>
       /\ items'[k] \in {NoSlot, Inc(i), Closer(i)}
       /\ generation = 0 => items[k] \in {NoSlot, Inc(i), Closer(i)}
  /\ reset'.todo \subseteq reset.todo
  /\ generation' = generation

(* The step leaves slot j, its place in t.items and the roles that          *)
(* goroutines play towards it as they are; it may move a goroutine along    *)
(* within its role, or away from j once j is gone.                          *)
Untouched(j) ==
  /\ SlotKept(j)
  /\ pc'[j] \in NewPcs => pc[j] \in NewPcs
  /\ pc'[j] = "create" => pc[j] = "create" /\ ref'[j] = ref[j]
  /\ \A q \in Opens :
       /\ ref'[q] = Inc(j) => ref[q] = Inc(j) \/ state[j] # "none"
       /\ ref'[q] = Inc(j) /\ pc'[q] \in HoldPcs => ref[q] = Inc(j) /\ pc[q] \in HoldPcs
       /\ ref'[q] = Inc(j) /\ pc'[q] \in OwnPcs => ref[q] = Inc(j) /\ pc'[q] = pc[q]
       /\ state[j] # "gone" =>
            (ref'[q] = Inc(j) /\ pc'[q] \in CountPcs <=> ref[q] = Inc(j) /\ pc[q] \in CountPcs)
  /\ \A k \in Keys : /\ items'[k] = Inc(j) => items[k] = Inc(j)
                     /\ items'[k] = Closer(j) => items[k] = Closer(j)
  /\ j \in reset'.todo => j \in reset.todo
  /\ generation' = 0 =>
       /\ generation = 0
       /\ items[KeyOf[j]] \in {Inc(j), Closer(j)} => items'[KeyOf[j]] = items[KeyOf[j]]

(* How a step may change slot.holders and the Opens it should be counting:  *)
(* not at all, one more, one less, or without consequence.                  *)
CountEffect(j) ==
  \/ state'[j] \in {"none", "gone"}
  \/ holders'[j] = 0 /\ Counted(j)' = {}
  \/ /\ state[j] \in {"busy", "awake", "asleep"}
     /\ \/ holders'[j] = holders[j] /\ Counted(j)' = Counted(j)
        \/ \E o \in Opens : /\ holders'[j] = holders[j] + 1
                            /\ o \notin Counted(j) /\ Counted(j)' = Counted(j) \cup {o}
        \/ \E o \in Opens : /\ holders'[j] = holders[j] - 1
                            /\ o \in Counted(j) /\ Counted(j)' = Counted(j) \ {o}

(* An incarnation without counted holders has no Open between bind and      *)
(* releaseHolder: what claimDrop and claimExpire rely on.                   *)
IdleIsUnheld ==
  \A i \in Opens : state[i] \in {"busy", "awake", "asleep"} /\ holders[i] = 0 =>
    \A o \in Opens : ref[o] = Inc(i) => pc[o] \notin HoldPcs /\ pc[o] # "wake"

(* What every step does for every incarnation.                              *)
AllSlots == \A j \in Opens : SlotInv(j)' /\ CountEffect(j)

(* An untouched incarnation keeps its invariant.                            *)
LEMMA UntouchedKeeps ==
  ASSUME TypeOK, NEW j \in Opens, SlotInv(j), Untouched(j)
  PROVE SlotInv(j)' /\ CountEffect(j)
<1>1. Fresh(j)'
  BY Zenon DEF SlotInv, Fresh, Untouched, SlotKept
<1>2. Roles(j)'
  BY ZenonT(30) DEF SlotInv, Roles, Untouched, SlotKept, HoldPcs, OwnPcs
<1>3. Stages(j)'
  BY DEF SlotInv, Stages, Untouched, SlotKept, Disposing
<1>4. Mapped(j)' /\ Mapping(j)'
  BY Zenon DEF SlotInv, Mapped, Mapping, Untouched, SlotKept
<1>5. CountEffect(j)
  <2>1. state[j] # "gone" => Counted(j)' = Counted(j)
    BY Zenon DEF Counted, Untouched, CountPcs
  <2>2. state[j] \in {"none", "busy", "awake", "asleep", "gone"}
    BY Zenon DEF TypeOK
  <2> QED BY <2>1, <2>2, Zenon DEF CountEffect, Untouched, SlotKept
<1> QED BY <1>1, <1>2, <1>3, <1>4, <1>5, Zenon DEF SlotInv

(* A step that touches i alone leaves every other incarnation untouched.    *)
LEMMA OthersUntouched ==
  ASSUME TypeOK, NEW i \in Opens, NEW M \in SUBSET Opens, Touches(i, M), NEW j \in Opens, j # i
  PROVE Untouched(j)
<1>1. Inc(j) # Inc(i) /\ Closer(j) # Closer(i) /\ Inc(j) # Closer(i) /\ Closer(j) # Inc(i)
      /\ Inc(j) # NoSlot /\ Closer(j) # NoSlot
  BY SlotNames, Zenon
<1>2. ASSUME NEW q \in Opens
      PROVE /\ ref'[q] = Inc(j) => ref[q] = Inc(j)
            /\ ref'[q] = Inc(j) /\ pc'[q] \in HoldPcs => pc[q] \in HoldPcs
            /\ ref'[q] = Inc(j) /\ pc'[q] \in OwnPcs => pc'[q] = pc[q]
            /\ ref'[q] = Inc(j) /\ pc'[q] \in CountPcs <=> ref[q] = Inc(j) /\ pc[q] \in CountPcs
  <2>1. CASE q \in M
    BY <1>1, <2>1, Zenon DEF Touches, NewPcs, CountPcs
  <2>2. CASE q \notin M
    BY <2>2, Zenon DEF Touches, KeepsRole, HoldPcs, OwnPcs, CountPcs
  <2> QED BY <2>1, <2>2, Zenon
<1>3. /\ pc'[j] \in NewPcs => pc[j] \in NewPcs
      /\ pc'[j] = "create" => pc[j] = "create" /\ ref'[j] = ref[j]
  BY Zenon DEF Touches, KeepsRole, NewPcs
<1>4. KeyOf[j] \in Keys
  BY TableAssumption, Zenon
<1>5. \A k \in Keys : /\ items'[k] = Inc(j) => items[k] = Inc(j)
                      /\ items'[k] = Closer(j) => items[k] = Closer(j)
                      /\ generation = 0 /\ items[k] \in {Inc(j), Closer(j)} => items'[k] = items[k]
  BY <1>1, Zenon DEF Touches
<1>6. SlotKept(j) /\ (j \in reset'.todo => j \in reset.todo) /\ generation' = generation
  BY Zenon DEF Touches
<1> QED BY <1>2, <1>3, <1>4, <1>5, <1>6, Zenon DEF Untouched

(* close(ready) keeps every goroutine in its role.                          *)
LEMMA ReleasedKeeps ==
  ASSUME TypeOK, NEW s, NEW q \in Opens
  PROVE \/ Released(s)[q] = pc[q]
        \/ pc[q] = "parked" /\ Released(s)[q] = "woken"
        \/ pc[q] = "dropParked" /\ Released(s)[q] = "claim"
  BY Zenon DEF Released

(* The names' operations never replace the alias map.                       *)
LEMMA AliasKeepsGeneration == AliasStep => UNCHANGED generation
<1>1. ASSUME NEW i, NEW a, NEW p, NEW g, SetAliasLocked(i, a, p, g) PROVE UNCHANGED generation
  BY <1>1, Zenon DEF SetAliasLocked
<1>2. ASSUME NEW p, NEW g, ClearPublisher(p, g) PROVE UNCHANGED generation
  BY <1>2, Zenon DEF ClearPublisher
<1>3. ASSUME NEW w, NEW a, NEW m, Watch(w, a, m) PROVE UNCHANGED generation
  BY <1>3, Zenon DEF Watch
<1>4. ASSUME NEW w, DropWatcher(w) PROVE UNCHANGED generation
  BY <1>4, Zenon DEF DropWatcher
<1> QED BY <1>1, <1>2, <1>3, <1>4, Zenon DEF AliasStep, SetAlias


-----------------------------------------------------------------------------
(* Reset and the Opens in flight.                                           *)

(* The Opens that have not returned a value yet.                            *)
OpenPcs == NewPcs \cup {"create", "wake", "bind", "snapshot"}

(* Reset waits for the Opens in flight and keeps new ones out.              *)
LEMMA ResetAloneStep == TypeOK /\ IndInv /\ [Next]_vars => ResetAlone'
<1> SUFFICES ASSUME TypeOK, IndInv, [Next]_vars PROVE ResetAlone'
  OBVIOUS
<1>t. /\ pc \in [Opens -> Pcs] /\ returned \in [Opens -> BOOLEAN]
      /\ reset \in [running : BOOLEAN, todo : SUBSET Opens, current : Opens \cup {Nobody}]
      /\ generation \in Nat
  BY DEF TypeOK, AliasTypeOK
<1>f. ResetAlone
  BY DEF IndInv
(* No goroutine starts an Open or leaves idle or over, Reset does not start. *)
<1>q. ASSUME \A q \in Opens : /\ pc'[q] \in OpenPcs => pc[q] \in OpenPcs /\ returned'[q] = returned[q]
                              /\ returned[q] => returned'[q]
                              /\ pc[q] \in {"idle", "over"} => pc'[q] \in {"idle", "over"},
             reset'.running => reset.running, reset'.todo # {} => reset'.running, generation' = generation
      PROVE ResetAlone'
  BY <1>f, <1>q DEF ResetAlone, OpenPcs
<1>s. reset.todo # {} => reset.running
  BY <1>f DEF ResetAlone
<1>1. CASE \/ AliasStep \/ UNCHANGED vars
           \/ \E i \in Opens : \/ Cancel(i) \/ GraceElapses(i) \/ ExpireOnTimer(i) \/ CloseReturns(i)
                               \/ UnmapLocked(i) \/ UnbindAfterClose(i) \/ ResetSleeps(i)
  <2>1. UNCHANGED <<pc, returned, reset>>
    BY <1>1
      DEF Cancel, GraceElapses, ExpireOnTimer, CloseReturns, UnmapLocked, UnbindAfterClose, ResetSleeps,
         AliasStep, SetAlias, tableVars, slotVars, vars
  <2>2. generation' = generation
    BY <1>1, AliasKeepsGeneration, ZenonT(60) DEF Cancel, GraceElapses, ExpireOnTimer, CloseReturns, UnmapLocked,
         UnbindAfterClose, ResetSleeps, UnbindIncarnation, vars, aliasVars
  <2>3. pc' = pc /\ returned' = returned /\ reset' = reset
    BY <2>1, Zenon
  <2>4. \A q \in Opens : /\ pc'[q] \in OpenPcs => pc[q] \in OpenPcs /\ returned'[q] = returned[q]
                         /\ returned[q] => returned'[q]
                         /\ pc[q] \in {"idle", "over"} => pc'[q] \in {"idle", "over"}
    BY <2>3, Zenon
  <2>5. (reset'.running => reset.running) /\ (reset'.todo # {} => reset'.running)
    BY <1>s, <2>3, Zenon
  <2> QED BY <1>q, <2>2, <2>4, <2>5, Zenon
<1>2. ASSUME NEW o \in Opens, OpenCreate(o) PROVE ResetAlone'
  BY <1>2, <1>q, <1>s, <1>t DEF OpenCreate, slotVars, aliasVars, OpenPcs, NewPcs
<1>3. ASSUME NEW o \in Opens, OpenPark(o) PROVE ResetAlone'
  BY <1>3, <1>q, <1>s, <1>t DEF OpenPark, slotVars, aliasVars, OpenPcs, NewPcs
<1>4. ASSUME NEW o \in Opens, Woken(o) PROVE ResetAlone'
  BY <1>4, <1>q, <1>s, <1>t DEF Woken, slotVars, aliasVars, OpenPcs, NewPcs
<1>5. ASSUME NEW o \in Opens, AfterFunc(o) PROVE ResetAlone'
  BY <1>5, <1>q, <1>s, <1>t DEF AfterFunc, slotVars, aliasVars, OpenPcs, NewPcs
<1>6. ASSUME NEW o \in Opens, PollErr(o) PROVE ResetAlone'
  BY <1>6, <1>q, <1>s, <1>t DEF PollErr, slotVars, aliasVars, OpenPcs, NewPcs
<1>7. ASSUME NEW o \in Opens, NEW i \in Opens, OpenBind(o, i) PROVE ResetAlone'
  BY <1>7, <1>q, <1>s, <1>t DEF OpenBind, slotVars, aliasVars, OpenPcs, NewPcs
<1>8. ASSUME NEW o \in Opens, NEW i \in Opens, OpenWake(o, i) PROVE ResetAlone'
  BY <1>8, <1>q, <1>s, <1>t DEF OpenWake, slotVars, aliasVars, OpenPcs, NewPcs
<1>9. ASSUME NEW o \in Opens, NEW i \in Opens, PollFinished(o, i) PROVE ResetAlone'
  BY <1>9, <1>q, <1>s, <1>t DEF PollFinished, slotVars, aliasVars, OpenPcs, NewPcs
<1>10. ASSUME NEW o \in Opens, NEW i \in Opens, ReleaseHolder(o, i) PROVE ResetAlone'
  BY <1>10, <1>q, <1>s, <1>t DEF ReleaseHolder, slotVars, aliasVars, OpenPcs, NewPcs
<1>11. ASSUME NEW o \in Opens, NEW i \in Opens, ClaimDrop(o, i) PROVE ResetAlone'
  BY <1>11, <1>q, <1>s, <1>t DEF ClaimDrop, slotVars, aliasVars, OpenPcs, NewPcs
<1>12. ASSUME NEW o \in Opens, NEW i \in Opens, SleepReturns(o, i) PROVE ResetAlone'
  BY <1>12, <1>q, <1>s, <1>t DEF SleepReturns, slotVars, aliasVars, OpenPcs, NewPcs
<1>13. ASSUME NEW o \in Opens, NEW i \in Opens, LogOrphan(o, i) PROVE ResetAlone'
  BY <1>13, <1>q, <1>s, <1>t DEF LogOrphan, slotVars, aliasVars, OpenPcs, NewPcs
<1>14. ASSUME NEW o \in Opens, NEW i \in Opens, EndMappedClose(o, i) PROVE ResetAlone'
  BY <1>14, <1>q, <1>s, <1>t DEF EndMappedClose, slotVars, aliasVars, OpenPcs, NewPcs
<1>15. ASSUME NEW o \in Opens, NEW i \in Opens, ExpireInline(o, i) PROVE ResetAlone'
  BY <1>15, <1>q, <1>s, <1>t DEF ExpireInline, slotVars, aliasVars, OpenPcs, NewPcs
<1>16. ASSUME NEW o \in Opens, NEW i \in Opens, EndingReturns(o, i) PROVE ResetAlone'
  BY <1>16, <1>q, <1>s, <1>t DEF EndingReturns, slotVars, aliasVars, OpenPcs, NewPcs
<1>17. ASSUME NEW o \in Opens, PublishPut(o) PROVE ResetAlone'
  <2>1. /\ pc[o] = "create" /\ UNCHANGED <<returned, reset, generation>>
        /\ pc' = [Released(Inc(o)) EXCEPT ![o] = "bind"]
    BY <1>17 DEF PublishPut, aliasVars
  <2>2. \A q \in Opens : /\ pc'[q] \in OpenPcs => pc[q] \in OpenPcs
                         /\ pc[q] \in {"idle", "over"} => pc'[q] \in {"idle", "over"}
    BY <1>t, <2>1 DEF Released, OpenPcs, NewPcs
  <2> QED BY <1>q, <1>s, <2>1, <2>2
<1>18. ASSUME NEW o \in Opens, CreateFails(o) PROVE ResetAlone'
  <2>1. /\ pc[o] = "create" /\ UNCHANGED <<returned, reset, generation>>
        /\ pc' = [Released(Inc(o)) EXCEPT ![o] = "over"]
    BY <1>18 DEF CreateFails, EndBusySlot, UnbindIncarnation, aliasVars
  <2>2. \A q \in Opens : /\ pc'[q] \in OpenPcs => pc[q] \in OpenPcs
                         /\ pc[q] \in {"idle", "over"} => pc'[q] \in {"idle", "over"}
    BY <1>t, <2>1 DEF Released, OpenPcs, NewPcs
  <2> QED BY <1>q, <1>s, <2>1, <2>2
<1>19. ASSUME NEW o \in Opens, NEW i \in Opens, PublishWake(o, i) PROVE ResetAlone'
  <2>1. /\ pc[o] = "wake" /\ UNCHANGED <<returned, reset, generation>>
        /\ pc' = [Released(Inc(i)) EXCEPT ![o] = "bind"]
    BY <1>19 DEF PublishWake, aliasVars
  <2>2. \A q \in Opens : /\ pc'[q] \in OpenPcs => pc[q] \in OpenPcs
                         /\ pc[q] \in {"idle", "over"} => pc'[q] \in {"idle", "over"}
    BY <1>t, <2>1 DEF Released, OpenPcs, NewPcs
  <2> QED BY <1>q, <1>s, <2>1, <2>2
<1>20. ASSUME NEW o \in Opens, NEW i \in Opens, ParkAsleep(o, i) PROVE ResetAlone'
  <2>1. /\ pc[o] = "park" /\ UNCHANGED <<returned, reset, generation>>
        /\ \E x \in {"over", "expire"} : pc' = [Released(Inc(i)) EXCEPT ![o] = x]
    BY <1>20, ZenonT(60) DEF ParkAsleep, aliasVars
  <2>2. \A q \in Opens : /\ pc'[q] \in OpenPcs => pc[q] \in OpenPcs
                         /\ pc[q] \in {"idle", "over"} => pc'[q] \in {"idle", "over"}
    BY <1>t, <2>1 DEF Released, OpenPcs, NewPcs
  <2> QED BY <1>q, <1>s, <2>1, <2>2
<1>21. ASSUME NEW o \in Opens, NEW i \in Opens, WakePanics(o, i) PROVE ResetAlone'
  <2>1. /\ pc[o] \in {"wake", "sleep"} /\ UNCHANGED <<returned, reset, generation>>
        /\ pc' = [pc EXCEPT ![o] = "ending"] \/ pc' = [Released(Inc(i)) EXCEPT ![o] = "ending"]
    BY <1>21 DEF WakePanics, EndBusyAfterPanic, InstallCloser, EndBusySlot, UnbindIncarnation
  <2>2. \A q \in Opens : /\ pc'[q] \in OpenPcs => pc[q] \in OpenPcs
                         /\ pc[q] \in {"idle", "over"} => pc'[q] \in {"idle", "over"}
    BY <1>t, <2>1, ZenonT(60) DEF Released, OpenPcs, NewPcs
  <2> QED BY <1>q, <1>s, <2>1, <2>2
<1>22. ASSUME NEW o \in Opens, NEW i \in Opens, SleepPanics(o, i) PROVE ResetAlone'
  <2>1. /\ pc[o] \in {"wake", "sleep"} /\ UNCHANGED <<returned, reset, generation>>
        /\ pc' = [pc EXCEPT ![o] = "ending"] \/ pc' = [Released(Inc(i)) EXCEPT ![o] = "ending"]
    BY <1>22 DEF SleepPanics, EndBusyAfterPanic, InstallCloser, EndBusySlot, UnbindIncarnation
  <2>2. \A q \in Opens : /\ pc'[q] \in OpenPcs => pc[q] \in OpenPcs
                         /\ pc[q] \in {"idle", "over"} => pc'[q] \in {"idle", "over"}
    BY <1>t, <2>1, ZenonT(60) DEF Released, OpenPcs, NewPcs
  <2> QED BY <1>q, <1>s, <2>1, <2>2
<1>23. ASSUME NEW i \in Opens, CloseReady(i) PROVE ResetAlone'
  <2>1. /\ UNCHANGED <<returned, reset, generation>>
        /\ pc' = Released(Inc(i)) \/ pc' = Released(Closer(i))
    BY <1>23 DEF CloseReady, aliasVars
  <2>2. \A q \in Opens : /\ pc'[q] \in OpenPcs => pc[q] \in OpenPcs
                         /\ pc[q] \in {"idle", "over"} => pc'[q] \in {"idle", "over"}
    BY <1>t, <2>1 DEF Released, OpenPcs, NewPcs
  <2> QED BY <1>q, <1>s, <2>1, <2>2
<1>24. ASSUME NEW o \in Opens, StartOpen(o) PROVE ResetAlone'
  BY <1>24, <1>f, <1>t DEF StartOpen, slotVars, aliasVars, ResetAlone, NewPcs
<1>25. ASSUME NEW o \in Opens, FinishBind(o) PROVE ResetAlone'
  BY <1>25, <1>f, <1>t DEF FinishBind, slotVars, aliasVars, ResetAlone, NewPcs
<1>26. ASSUME NEW o \in Opens, NEW i \in Opens, FinishedAtBind(o, i) PROVE ResetAlone'
  BY <1>26, <1>q, <1>s, <1>t DEF FinishedAtBind, slotVars, aliasVars, OpenPcs, NewPcs
<1>27. ASSUME NEW i \in Opens, EndResetSlot(i) PROVE ResetAlone'
  <2>1. UNCHANGED <<pc, returned, generation>> /\ reset.running /\ reset'.running
    BY <1>27, <1>t, ZenonT(60) DEF EndResetSlot, aliasVars
  <2> QED BY <1>q, <2>1
<1>28. CASE ResetContinues
  <2>1. /\ UNCHANGED <<pc, returned, generation>> /\ reset.running
        /\ reset'.todo # {} => reset'.running
    BY <1>28, <1>t DEF ResetContinues, aliasVars
  <2> QED BY <1>q, <2>1
<1>29. CASE TakeAll
  <2>1. /\ UNCHANGED <<pc, returned>> /\ reset'.running /\ generation' # 0
        /\ \A o \in Opens : returned[o] \/ pc[o] \in {"idle", "over"}
    BY <1>29, <1>t DEF TakeAll
  <2> QED BY <1>f, <2>1 DEF ResetAlone
<1>30. ASSUME NEW o \in Opens, HolderStep(o) PROVE ResetAlone'
  BY <1>30, <1>2, <1>3, <1>4, <1>17, <1>18, <1>25, <1>5, <1>6, <1>7, <1>8, <1>19, <1>21, <1>26, <1>9,
        <1>10, <1>11, <1>12, <1>22, <1>13, <1>14, <1>20, <1>15, <1>16
  DEF HolderStep
<1> QED BY <1>1, <1>24, <1>30, <1>23, <1>27, <1>28, <1>29
  DEF Next, ServeNext, ResetStep, EndingStep

-----------------------------------------------------------------------------
(* The public names.                                                        *)

(* A name may still be bound to i: it has not ended, or its default expire  *)
(* has not unbound it yet.                                                  *)
Alive(i) == state[i] \in {"busy", "awake", "asleep"} \/ end[i] \in {"closeExpired", "unbind"}

(* Subscribed watchers sit on an entry of the alias map.                    *)
Subscribed == \A w \in Watches : watch[w].state = "on" => watch[w].entry \in Entries

(* What a subscriber should be seeing is a value or an empty.               *)
LEMMA PublishedTypes ==
  ASSUME NEW r, r.incarnation \in Opens \cup {Nobody}, r.empty \in Empties
  PROVE Published(r) \in Opens \cup Empties
  BY Zenon DEF Published

(* storeWatchersLocked: told of every entry that changed, the subscribers   *)
(* are up to date again.                                                    *)
LEMMA WatchersFollow ==
  ASSUME AliasTypeOK, AliasTypeOK', WatcherUpToDate, Subscribed, NEW T \in SUBSET Entries,
         watch' = StoreWatchers(T, entry'), \A e \in Entries \ T : entry'[e] = entry[e]
  PROVE WatcherUpToDate' /\ Subscribed'
<1> SUFFICES ASSUME NEW w \in Watches, watch'[w].state = "on"
             PROVE /\ watch'[w].entry \in Entries
                   /\ LET now == Published(entry'[watch'[w].entry])
                      IN IF now \in Opens THEN watch'[w].last = now ELSE watch'[w].last \in Empties
  BY Zenon DEF WatcherUpToDate, Subscribed, Published
<1>1. watch'[w] = IF watch[w].state = "on" /\ watch[w].entry \in T
                    THEN [watch[w] EXCEPT !.last = Published(entry'[watch[w].entry])]
                    ELSE watch[w]
  BY Zenon DEF StoreWatchers
<1>t. watch[w] \in [state : {"new", "on", "dropped"}, entry : Entries \cup {Nobody}, last : Opens \cup Empties]
  BY Zenon DEF AliasTypeOK
<1>2. CASE watch[w].state = "on" /\ watch[w].entry \in T
  <2>1. watch'[w].entry = watch[w].entry /\ watch'[w].last = Published(entry'[watch[w].entry])
    BY <1>1, <1>2, <1>t
  <2>2. watch[w].entry \in Entries
    BY <1>2, Zenon
  <2>3. Published(entry'[watch[w].entry]) \in Opens \cup Empties
    <3>1. /\ entry'[watch[w].entry].incarnation \in Opens \cup {Nobody}
          /\ entry'[watch[w].entry].empty \in Empties
      BY <2>2, Zenon DEF AliasTypeOK
    <3> QED BY <3>1, PublishedTypes, Zenon
  <2> QED BY <2>1, <2>2, <2>3, Zenon
<1>3. CASE ~(watch[w].state = "on" /\ watch[w].entry \in T)
  <2>1. watch'[w] = watch[w]
    BY <1>1, <1>3, Zenon
  <2>2. watch[w].entry \in Entries \ T
    BY <1>3, <2>1, Zenon DEF Subscribed
  <2> QED BY <2>1, <2>2, Zenon DEF WatcherUpToDate
<1> QED BY <1>2, <1>3, Zenon

(* unbindIncarnationLocked walks the reverse links: every name of the       *)
(* incarnations is cleared, no other one, and the links still mirror them.  *)
LEMMA UnbindClears ==
  ASSUME AliasTypeOK, LinksMirrorEntries, NEW S \in SUBSET Opens, UnbindIncarnations(S)
  PROVE /\ LinksMirrorEntries'
        /\ \A e \in Entries : entry'[e].incarnation \in {entry[e].incarnation, Nobody} \ S
        /\ \A i \in Opens : links'[i] = IF i \in S THEN {} ELSE links[i]
        /\ \E T \in SUBSET Entries : /\ watch' = StoreWatchers(T, entry')
                                     /\ \A e \in Entries \ T : entry'[e] = entry[e]
<1> DEFINE bound == UNION {links[i] : i \in S}
<1>1. /\ entry' = [e \in Entries |-> IF e \in bound THEN Cleared(entry[e]) ELSE entry[e]]
      /\ links' = [i \in Opens |-> IF i \in S THEN {} ELSE links[i]]
      /\ watch' = StoreWatchers(bound, entry')
  BY Zenon DEF UnbindIncarnations
<1>2. \A e \in Entries : e \in bound <=> entry[e].incarnation \in S
  <2>1. \A e \in Entries, i \in S : e \in links[i] <=> entry[e].incarnation = i
    BY DEF LinksMirrorEntries
  <2>2. \A e \in Entries : e \in bound <=> \E i \in S : e \in links[i]
    BY Zenon
  <2> HIDE DEF bound
  <2> TAKE e \in Entries
  <2>3. \A i \in S : e \in links[i] <=> i = entry[e].incarnation
    BY <2>1, Zenon
  <2> QED BY <2>2, <2>3, Zenon
<1>3. \A e \in Entries : Cleared(entry[e]).incarnation = Nobody
  BY DEF AliasTypeOK, Cleared
<1> HIDE DEF bound
<1>4. \A e \in Entries : entry'[e].incarnation = IF entry[e].incarnation \in S THEN Nobody ELSE entry[e].incarnation
  BY <1>1, <1>2, <1>3, Zenon
<1>5. Nobody \notin Opens
  BY AliasAssumption, Zenon
<1>6. ASSUME NEW i \in Opens
      PROVE links'[i] = {e \in Entries : entry'[e].incarnation = i}
  <2>1. CASE i \in S
    <3>1. \A e \in Entries : entry'[e].incarnation # i
      BY <1>4, <1>5, <2>1, Zenon
    <3> QED BY <1>1, <2>1, <3>1, Zenon
  <2>2. CASE i \notin S
    <3>1. \A e \in Entries : entry'[e].incarnation = i <=> entry[e].incarnation = i
      BY <1>4, <1>5, <2>2, Zenon
    <3>2. links'[i] = links[i]
      BY <1>1, <2>2, Zenon
    <3> QED BY <3>1, <3>2, Zenon DEF LinksMirrorEntries
  <2> QED BY <2>1, <2>2, Zenon
<1>7. LinksMirrorEntries'
  BY <1>6, Zenon DEF LinksMirrorEntries
<1>8. \A e \in Entries : entry'[e].incarnation \in {entry[e].incarnation, Nobody} \ S
  BY <1>4, <1>5, Zenon
<1>9. \E T \in SUBSET Entries : /\ watch' = StoreWatchers(T, entry')
                                /\ \A e \in Entries \ T : entry'[e] = entry[e]
  <2>1. \A e \in Entries \ (bound \cap Entries) : entry'[e] = entry[e]
    BY <1>1, Zenon
  <2>2. bound \in SUBSET Entries
    BY DEF bound, AliasTypeOK
  <2>3. \A e \in Entries \ bound : entry'[e] = entry[e]
    BY <2>1, Zenon
  <2>4. watch' = StoreWatchers(bound, entry')
    BY <1>1, Zenon
  <2> QED BY <2>2, <2>3, <2>4, Zenon
<1> QED BY <1>1, <1>7, <1>8, <1>9, Zenon

(* SetAlias: the name moves to i, the publisher's other names of the group  *)
(* are cleared, and the links still mirror the names.                       *)
LEMMA SetAliasBinds ==
  ASSUME AliasTypeOK, LinksMirrorEntries, NEW i \in Opens, NEW a \in Aliases, NEW p \in Publishers,
         NEW g \in Groups, SetAliasLocked(i, a, p, g)
  PROVE /\ LinksMirrorEntries'
        /\ \A e \in Entries : entry'[e].incarnation \in {entry[e].incarnation, Nobody, i}
        /\ \A j \in Opens \ {i} : links'[j] \subseteq links[j]
        /\ generation' = generation
        /\ \E T \in SUBSET Entries : /\ watch' = StoreWatchers(T, entry')
                                     /\ \A e \in Entries \ T : entry'[e] = entry[e]
<1> DEFINE c == Current(a)
           renamed == {f \in Entries : /\ f # c
                                       /\ f[2] = generation
                                       /\ entry[f].publisher = p
                                       /\ entry[f].group = g}
           newEntry == [f \in Entries |->
                          IF f = c THEN [entry[c] EXCEPT !.incarnation = i, !.publisher = p, !.group = g]
                          ELSE IF f \in renamed THEN Cleared(entry[f]) ELSE entry[f]]
<1>1. /\ entry' = newEntry
      /\ links' = [j \in Opens |->
                     (links[j] \ {f \in renamed \cup {c} : entry[f].incarnation = j})
                       \cup (IF j = i THEN {c} ELSE {})]
      /\ watch' = StoreWatchers(renamed \cup {c}, newEntry)
      /\ generation' = generation
  BY ZenonT(60) DEF SetAliasLocked
<1>2. c \in Entries /\ renamed \subseteq Entries /\ c \notin renamed
  BY Zenon DEF Current, Entries, AliasTypeOK
<1>3. \A e \in Entries : /\ Cleared(entry[e]).incarnation = Nobody
                         /\ [entry[c] EXCEPT !.incarnation = i, !.publisher = p, !.group = g].incarnation = i
  BY <1>2 DEF AliasTypeOK, Cleared
<1> HIDE DEF renamed, c
<1>4. \A e \in Entries : /\ e = c => entry'[e].incarnation = i
                         /\ e \in renamed => entry'[e].incarnation = Nobody
                         /\ e # c /\ e \notin renamed => entry'[e] = entry[e]
  BY <1>1, <1>2, <1>3, Zenon
<1>5. Nobody \notin Opens
  BY AliasAssumption, Zenon
<1>6. ASSUME NEW j \in Opens
      PROVE links'[j] = {e \in Entries : entry'[e].incarnation = j}
  <2>1. links'[j] = (links[j] \ {f \in renamed \cup {c} : entry[f].incarnation = j})
                       \cup (IF j = i THEN {c} ELSE {})
    BY <1>1, Zenon
  <2>2. links[j] = {e \in Entries : entry[e].incarnation = j}
    BY Zenon DEF LinksMirrorEntries
  <2>3. \A e \in Entries : e \in links'[j] <=> entry'[e].incarnation = j
    <3> TAKE e \in Entries
    <3>1. e \in links[j] <=> entry[e].incarnation = j
      BY <2>2, Zenon
    <3>2. CASE e = c
      <4>1. e \in links'[j] <=> j = i
        BY <2>1, <3>1, <3>2, Zenon
      <4> QED BY <1>4, <3>2, <4>1, Zenon
    <3>3. CASE e \in renamed
      <4>1. e \notin links'[j]
        BY <1>2, <2>1, <3>1, <3>3, Zenon
      <4> QED BY <1>4, <1>5, <3>3, <4>1, Zenon
    <3>4. CASE e # c /\ e \notin renamed
      <4>1. e \in links'[j] <=> e \in links[j]
        BY <2>1, <3>4, Zenon
      <4> QED BY <1>4, <3>1, <3>4, <4>1, Zenon
    <3> QED BY <3>2, <3>3, <3>4, Zenon
  <2>4. links'[j] \subseteq Entries
    BY <1>2, <2>1, <2>2, Zenon
  <2> HIDE DEF newEntry
  <2> QED BY <2>3, <2>4, Zenon
<1>7. \A j \in Opens \ {i} : links'[j] \subseteq links[j]
  BY <1>1, Zenon
<1>8. \E T \in SUBSET Entries : /\ watch' = StoreWatchers(T, entry')
                                /\ \A e \in Entries \ T : entry'[e] = entry[e]
  <2>1. renamed \cup {c} \in SUBSET Entries
    BY <1>2, Zenon
  <2>2. watch' = StoreWatchers(renamed \cup {c}, entry')
    BY <1>1, Zenon
  <2>3. \A e \in Entries \ (renamed \cup {c}) : entry'[e] = entry[e]
    BY <1>4, Zenon
  <2> HIDE DEF newEntry
  <2> QED BY <2>1, <2>2, <2>3, Zenon
<1>9. \A e \in Entries : entry'[e].incarnation \in {entry[e].incarnation, Nobody, i}
  BY <1>4, Zenon
<1>10. LinksMirrorEntries'
  BY <1>6, Zenon DEF LinksMirrorEntries
<1> QED BY <1>1, <1>7, <1>8, <1>9, <1>10, Zenon

(* ClearPublisher: the publisher's names of the group, and no others.       *)
LEMMA ClearPublisherClears ==
  ASSUME AliasTypeOK, LinksMirrorEntries, NEW p \in Publishers, NEW g \in Groups, ClearPublisher(p, g)
  PROVE /\ LinksMirrorEntries'
        /\ \A e \in Entries : entry'[e].incarnation \in {entry[e].incarnation, Nobody}
        /\ \A j \in Opens : links'[j] \subseteq links[j]
        /\ generation' = generation
        /\ \E T \in SUBSET Entries : /\ watch' = StoreWatchers(T, entry')
                                     /\ \A e \in Entries \ T : entry'[e] = entry[e]
<1> DEFINE held == {f \in Entries : /\ f[2] = generation
                                    /\ entry[f].publisher = p
                                    /\ entry[f].group = g}
<1>1. /\ entry' = [f \in Entries |-> IF f \in held THEN Cleared(entry[f]) ELSE entry[f]]
      /\ links' = [j \in Opens |-> links[j] \ {f \in held : entry[f].incarnation = j}]
      /\ watch' = StoreWatchers(held, entry')
      /\ generation' = generation
  BY ZenonT(60) DEF ClearPublisher
<1>2. held \in SUBSET Entries
  BY Zenon
<1>3. \A e \in Entries : Cleared(entry[e]).incarnation = Nobody
  BY DEF AliasTypeOK, Cleared
<1> HIDE DEF held
<1>4. \A e \in Entries : /\ e \in held => entry'[e].incarnation = Nobody
                         /\ e \notin held => entry'[e] = entry[e]
  BY <1>1, <1>3, Zenon
<1>5. Nobody \notin Opens
  BY AliasAssumption, Zenon
<1>6. ASSUME NEW j \in Opens
      PROVE links'[j] = {e \in Entries : entry'[e].incarnation = j}
  <2>1. links'[j] = links[j] \ {f \in held : entry[f].incarnation = j}
    BY <1>1, Zenon
  <2>2. links[j] = {e \in Entries : entry[e].incarnation = j}
    BY Zenon DEF LinksMirrorEntries
  <2>3. \A e \in Entries : e \in links'[j] <=> entry'[e].incarnation = j
    BY <1>4, <1>5, <2>1, <2>2, Zenon
  <2>4. links'[j] \subseteq Entries
    BY <2>1, <2>2, Zenon
  <2> QED BY <2>3, <2>4, Zenon
<1>7. \A j \in Opens : links'[j] \subseteq links[j]
  BY <1>1, Zenon
<1>8. \E T \in SUBSET Entries : /\ watch' = StoreWatchers(T, entry')
                                /\ \A e \in Entries \ T : entry'[e] = entry[e]
  <2>1. \A e \in Entries \ held : entry'[e] = entry[e]
    BY <1>4, Zenon
  <2>2. watch' = StoreWatchers(held, entry')
    BY <1>1, Zenon
  <2> QED BY <1>2, <2>1, <2>2, Zenon
<1>9. \A e \in Entries : entry'[e].incarnation \in {entry[e].incarnation, Nobody}
  BY <1>4, Zenon
<1>10. LinksMirrorEntries'
  BY <1>6, Zenon DEF LinksMirrorEntries
<1> QED BY <1>1, <1>7, <1>8, <1>9, <1>10, Zenon

(* A step that changes no name, and no incarnation that has one, for the    *)
(* worse.                                                                   *)
LEMMA NamesStay ==
  ASSUME NamesInv, UNCHANGED aliasVars, reset'.todo \subseteq reset.todo,
         \A i \in Opens : Alive(i) => Alive(i)' \/ i \in reset.todo
  PROVE NamesInv'
<1>1. entry' = entry /\ links' = links /\ watch' = watch
  BY Zenon DEF aliasVars
<1>2. LinksMirrorEntries' /\ WatcherUpToDate' /\ Subscribed'
  BY <1>1, Zenon DEF NamesInv, LinksMirrorEntries, WatcherUpToDate, Subscribed
<1>3. ASSUME NEW e \in Entries, NEW i \in Opens, entry'[e].incarnation = i PROVE Alive(i)'
  <2>1. entry[e].incarnation = i
    BY <1>1, <1>3, Zenon
  <2>2. e \in links[i]
    BY <2>1, Zenon DEF NamesInv, LinksMirrorEntries
  <2>3. i \notin reset.todo
    BY <2>2, Zenon DEF NamesInv
  <2>4. Alive(i)
    BY <2>1, Zenon DEF NamesInv, BoundIsAlive, Alive
  <2> QED BY <2>3, <2>4, Zenon
<1>4. BoundIsAlive'
  BY <1>3, Zenon DEF BoundIsAlive, Alive
<1>5. \A i \in reset'.todo : links'[i] = {}
  BY <1>1, Zenon DEF NamesInv
<1> QED BY <1>2, <1>4, <1>5, Zenon DEF NamesInv, Subscribed

(* A step that unbinds the names of incarnation i and changes no other.     *)
LEMMA NamesUnbound ==
  ASSUME TypeOK, TypeOK', NamesInv, NEW i \in Opens, UnbindIncarnation(i), reset' = reset,
         \A j \in Opens \ {i} : Alive(j) => Alive(j)'
  PROVE NamesInv'
<1>1. AliasTypeOK /\ AliasTypeOK' /\ LinksMirrorEntries /\ WatcherUpToDate /\ Subscribed
  BY Zenon DEF TypeOK, NamesInv, Subscribed
<1>2. /\ LinksMirrorEntries'
      /\ \A e \in Entries : entry'[e].incarnation \in {entry[e].incarnation, Nobody} \ {i}
      /\ \A j \in Opens : links'[j] = IF j \in {i} THEN {} ELSE links[j]
      /\ \E T \in SUBSET Entries : /\ watch' = StoreWatchers(T, entry')
                                   /\ \A e \in Entries \ T : entry'[e] = entry[e]
  BY <1>1, UnbindClears, Zenon DEF UnbindIncarnation
<1>3. WatcherUpToDate' /\ Subscribed'
  BY <1>1, <1>2, WatchersFollow, Zenon
<1>4. ASSUME NEW e \in Entries, NEW j \in Opens, entry'[e].incarnation = j PROVE Alive(j)'
  <2>1. j # i /\ entry[e].incarnation = j
    BY <1>2, <1>4, AliasAssumption, Zenon
  <2>2. Alive(j)
    BY <2>1, Zenon DEF NamesInv, BoundIsAlive, Alive
  <2> QED BY <2>1, <2>2, Zenon
<1>5. BoundIsAlive'
  BY <1>4, Zenon DEF BoundIsAlive, Alive
<1>6. \A j \in reset'.todo : links'[j] = {}
  <2>1. reset.todo \subseteq Opens
    BY Zenon DEF TypeOK
  <2> QED BY <1>2, <2>1, Zenon DEF NamesInv
<1> QED BY <1>2, <1>3, <1>5, <1>6, Zenon DEF NamesInv, Subscribed

(* takeAll unbinds every incarnation it takes.                              *)
LEMMA NamesTaken ==
  ASSUME TypeOK, TypeOK', NamesInv, TakeAll
  PROVE NamesInv'
<1> DEFINE taken == {i \in Opens : items[KeyOf[i]] = Inc(i)}
<1>0. AliasTypeOK /\ AliasTypeOK' /\ LinksMirrorEntries /\ WatcherUpToDate /\ Subscribed
  BY Zenon DEF TypeOK, NamesInv, Subscribed
<1>1. /\ UnbindIncarnations(taken) /\ taken \in SUBSET Opens
      /\ reset' = [running |-> TRUE, todo |-> taken, current |-> Nobody]
      /\ state' = state /\ end' = end
  BY Zenon DEF TakeAll
<1> HIDE DEF taken
<1>2. /\ LinksMirrorEntries'
      /\ \A e \in Entries : entry'[e].incarnation \in {entry[e].incarnation, Nobody} \ taken
      /\ \A j \in Opens : links'[j] = IF j \in taken THEN {} ELSE links[j]
      /\ \E T \in SUBSET Entries : /\ watch' = StoreWatchers(T, entry')
                                   /\ \A e \in Entries \ T : entry'[e] = entry[e]
  BY <1>0, <1>1, UnbindClears, Zenon
<1>3. WatcherUpToDate' /\ Subscribed'
  BY <1>0, <1>2, WatchersFollow, Zenon
<1>4. ASSUME NEW e \in Entries, NEW j \in Opens, entry'[e].incarnation = j PROVE Alive(j)'
  <2>1. entry[e].incarnation = j
    BY <1>2, <1>4, AliasAssumption, Zenon
  <2>2. Alive(j)
    BY <2>1, Zenon DEF NamesInv, BoundIsAlive, Alive
  <2> QED BY <1>1, <2>2, Zenon DEF Alive
<1>5. BoundIsAlive'
  BY <1>4, Zenon DEF BoundIsAlive, Alive
<1>6. \A j \in reset'.todo : links'[j] = {}
  <2>1. reset'.todo = taken
    BY <1>1, Zenon
  <2> QED BY <1>1, <1>2, <2>1, Zenon
<1> QED BY <1>2, <1>3, <1>5, <1>6, Zenon DEF NamesInv, Subscribed

(* SetAlias, ClearPublisher, Watch and dropWatcher.                         *)
LEMMA NamesOperations ==
  ASSUME TypeOK, TypeOK', IndInv, NamesInv, AliasStep
  PROVE NamesInv'
<1>0. AliasTypeOK /\ AliasTypeOK' /\ LinksMirrorEntries /\ WatcherUpToDate /\ Subscribed
      /\ reset.todo \subseteq Opens
  BY Zenon DEF TypeOK, NamesInv, Subscribed
<1>1. reset' = reset /\ state' = state /\ end' = end
  BY Zenon DEF AliasStep, SetAlias, tableVars, slotVars
<1>a. ASSUME NEW j \in Opens, Alive(j) PROVE Alive(j)'
  BY <1>1, <1>a, Zenon DEF Alive
<1>b. \A e \in Entries, j \in Opens : entry[e].incarnation = j => Alive(j)
  BY Zenon DEF NamesInv, BoundIsAlive, Alive
<1>n. Nobody \notin Opens
  BY AliasAssumption, Zenon
<1>2. ASSUME NEW i \in Opens, NEW a \in Aliases, NEW p \in Publishers, NEW g \in Groups, SetAlias(i, a, p, g)
      PROVE NamesInv'
  <2>1. SetAliasLocked(i, a, p, g) /\ items[KeyOf[i]] = Inc(i) /\ state[i] \in {"awake", "asleep"}
    BY <1>2, Zenon DEF SetAlias
  <2>2. /\ LinksMirrorEntries'
        /\ \A e \in Entries : entry'[e].incarnation \in {entry[e].incarnation, Nobody, i}
        /\ \A j \in Opens \ {i} : links'[j] \subseteq links[j]
        /\ \E T \in SUBSET Entries : /\ watch' = StoreWatchers(T, entry')
                                     /\ \A e \in Entries \ T : entry'[e] = entry[e]
    BY <1>0, <2>1, SetAliasBinds, Zenon
  <2>3. WatcherUpToDate' /\ Subscribed'
    BY <1>0, <2>2, WatchersFollow, Zenon
  <2>4. Alive(i)
    BY <2>1, Zenon DEF Alive
  <2>5. BoundIsAlive'
    <3>1. ASSUME NEW e \in Entries, NEW j \in Opens, entry'[e].incarnation = j PROVE Alive(j)'
      BY <1>a, <1>b, <1>n, <2>2, <2>4, <3>1, Zenon
    <3> QED BY <3>1, Zenon DEF BoundIsAlive, Alive
  <2>6. i \notin reset.todo
    <3>1. Mapped(i) /\ KeyOf[i] \in Keys
      BY TableAssumption, Zenon DEF IndInv, SlotInv
    <3> QED BY <2>1, <3>1, Zenon DEF Mapped
  <2>7. \A j \in reset'.todo : links'[j] = {}
    <3> SUFFICES ASSUME NEW j \in reset.todo PROVE links'[j] = {}
      BY <1>1, Zenon
    <3>1. j \in Opens \ {i} /\ links[j] = {}
      BY <1>0, <2>6, Zenon DEF NamesInv
    <3> QED BY <2>2, <3>1
  <2> QED BY <2>2, <2>3, <2>5, <2>7, Zenon DEF NamesInv, Subscribed
<1>3. ASSUME NEW p \in Publishers, NEW g \in Groups, ClearPublisher(p, g) PROVE NamesInv'
  <2>2. /\ LinksMirrorEntries'
        /\ \A e \in Entries : entry'[e].incarnation \in {entry[e].incarnation, Nobody}
        /\ \A j \in Opens : links'[j] \subseteq links[j]
        /\ \E T \in SUBSET Entries : /\ watch' = StoreWatchers(T, entry')
                                     /\ \A e \in Entries \ T : entry'[e] = entry[e]
    BY <1>0, <1>3, ClearPublisherClears, Zenon
  <2>3. WatcherUpToDate' /\ Subscribed'
    BY <1>0, <2>2, WatchersFollow, Zenon
  <2>5. BoundIsAlive'
    <3>1. ASSUME NEW e \in Entries, NEW j \in Opens, entry'[e].incarnation = j PROVE Alive(j)'
      BY <1>a, <1>b, <1>n, <2>2, <3>1, Zenon
    <3> QED BY <3>1, Zenon DEF BoundIsAlive, Alive
  <2>7. \A j \in reset'.todo : links'[j] = {}
    <3> SUFFICES ASSUME NEW j \in reset.todo PROVE links'[j] = {}
      BY <1>1, Zenon
    <3>1. j \in Opens /\ links[j] = {}
      BY <1>0, Zenon DEF NamesInv
    <3> QED BY <2>2, <3>1
  <2> QED BY <2>2, <2>3, <2>5, <2>7, Zenon DEF NamesInv, Subscribed
<1>4. ASSUME NEW v \in Watches, NEW a \in Aliases, NEW m \in Empties, Watch(v, a, m) PROVE NamesInv'
  <2> DEFINE c == Current(a)
             r == [entry[c] EXCEPT !.empty = IF @ = "nil" THEN m ELSE @]
             s == [state |-> "on", entry |-> c, last |-> Published(r)]
  <2>1. entry' = [entry EXCEPT ![c] = r] /\ watch' = [watch EXCEPT ![v] = s] /\ links' = links
    BY <1>4, Zenon DEF Watch
  <2>2. c \in Entries
    BY <1>0, Zenon DEF Current, Entries, AliasTypeOK
  <2>3. r.incarnation = entry[c].incarnation /\ r.empty \in Empties /\ r.incarnation \in Opens \cup {Nobody}
    BY <1>0, <2>2 DEF AliasTypeOK
  <2>4. s.entry = c /\ s.last = Published(r)
    BY Zenon
  <2> HIDE DEF c, r, s
  <2>5. \A e \in Entries : entry'[e].incarnation = entry[e].incarnation
    BY <1>0, <2>1, <2>2, <2>3, Zenon DEF AliasTypeOK
  <2>6. LinksMirrorEntries'
    BY <1>0, <2>1, <2>5, Zenon DEF LinksMirrorEntries
  <2>7. BoundIsAlive'
    <3>1. ASSUME NEW e \in Entries, NEW j \in Opens, entry'[e].incarnation = j PROVE Alive(j)'
      BY <1>a, <1>b, <2>5, <3>1, Zenon
    <3> QED BY <3>1, Zenon DEF BoundIsAlive, Alive
  <2>8. ASSUME NEW w \in Watches, watch'[w].state = "on"
        PROVE /\ watch'[w].entry \in Entries
              /\ LET now == Published(entry'[watch'[w].entry])
                 IN IF now \in Opens THEN watch'[w].last = now ELSE watch'[w].last \in Empties
    <3>1. CASE w = v
      <4>1. watch'[w] = s /\ entry'[c] = r
        BY <1>0, <2>1, <2>2, <3>1, Zenon DEF AliasTypeOK
      <4>2. Published(r) \in Opens \cup Empties
        BY <2>3, PublishedTypes, Zenon
      <4> QED BY <2>2, <2>4, <4>1, <4>2, Zenon
    <3>2. CASE w # v
      <4>1. watch'[w] = watch[w]
        BY <1>0, <2>1, <3>2, Zenon DEF AliasTypeOK
      <4>2. watch[w].state = "on" /\ watch[w].entry \in Entries
        BY <1>0, <2>8, <4>1, Zenon DEF Subscribed
      <4>3. LET now == Published(entry[watch[w].entry])
            IN IF now \in Opens THEN watch[w].last = now ELSE watch[w].last \in Empties
        BY <1>0, <4>2, Zenon DEF WatcherUpToDate
      <4>4. CASE watch[w].entry # c
        <5>1. entry'[watch[w].entry] = entry[watch[w].entry]
          BY <1>0, <2>1, <4>2, <4>4, Zenon DEF AliasTypeOK
        <5> QED BY <4>1, <4>2, <4>3, <5>1, Zenon
      <4>5. CASE watch[w].entry = c
        <5>1. entry'[c] = r
          BY <1>0, <2>1, <2>2, Zenon DEF AliasTypeOK
        <5>2. entry[c].empty \notin Opens /\ r.empty \notin Opens
          BY <1>0, <2>2, <2>3, EmptiesAssumption DEF AliasTypeOK
        <5>3. Published(entry[c]) \in Opens \/ Published(r) \in Opens => Published(r) = Published(entry[c])
          BY <2>3, <5>2, Zenon DEF Published
        <5> QED BY <4>1, <4>2, <4>3, <4>5, <5>1, <5>3, Zenon
      <4> QED BY <4>4, <4>5, Zenon
    <3> QED BY <3>1, <3>2, Zenon
  <2>9. WatcherUpToDate' /\ Subscribed'
    BY <2>8, Zenon DEF WatcherUpToDate, Subscribed
  <2>10. \A j \in reset'.todo : links'[j] = {}
    BY <1>1, <2>1, Zenon DEF NamesInv
  <2> QED BY <2>6, <2>7, <2>9, <2>10, Zenon DEF NamesInv, Subscribed
<1>5. ASSUME NEW v \in Watches, DropWatcher(v) PROVE NamesInv'
  <2>1. entry' = entry /\ links' = links /\ watch' = [watch EXCEPT ![v] = [watch[v] EXCEPT !.state = "dropped"]]
    BY <1>5, Zenon DEF DropWatcher
  <2>2. \A w \in Watches : watch'[w].state = "on" => watch'[w] = watch[w]
    BY <1>0, <2>1 DEF AliasTypeOK
  <2>3. WatcherUpToDate' /\ Subscribed'
    BY <1>0, <2>1, <2>2, Zenon DEF WatcherUpToDate, Subscribed
  <2>4. LinksMirrorEntries' /\ BoundIsAlive'
    BY <1>1, <2>1, Zenon DEF NamesInv, LinksMirrorEntries, BoundIsAlive
  <2>5. \A j \in reset'.todo : links'[j] = {}
    BY <1>1, <2>1, Zenon DEF NamesInv
  <2> QED BY <2>3, <2>4, <2>5, Zenon DEF NamesInv, Subscribed
<1> QED BY <1>2, <1>3, <1>4, <1>5, Zenon DEF AliasStep

(* Every step keeps the names in order.                                     *)
LEMMA NamesStep ==
  ASSUME TypeOK, TypeOK', IndInv, NamesInv, [Next]_vars
  PROVE NamesInv'
<1>t. state \in [Opens -> {"none", "busy", "awake", "asleep", "gone"}] /\ end \in [Opens -> DOMAIN StageAfter]
  BY Zenon DEF TypeOK
<1>0. ASSUME state' = state, end' = end, UNCHANGED aliasVars, reset'.todo \subseteq reset.todo PROVE NamesInv'
  <2>1. \A i \in Opens : Alive(i) => Alive(i)'
    BY <1>0, Zenon DEF Alive
  <2> QED BY <1>0, <2>1, NamesStay, Zenon
<1>s. ASSUME NEW i \in Opens, NEW s \in {"busy", "awake", "asleep"}, state' = [state EXCEPT ![i] = s],
             end' = end, UNCHANGED aliasVars, reset' = reset
      PROVE NamesInv'
  <2>1. \A j \in Opens : Alive(j) => Alive(j)'
    BY <1>s, <1>t, Zenon DEF Alive
  <2> QED BY <1>s, <2>1, NamesStay, Zenon
<1>e. ASSUME NEW i \in Opens, NEW x, state' = state, end' = [end EXCEPT ![i] = x],
             end[i] \notin {"closeExpired", "unbind"} \/ x = "unbind", UNCHANGED aliasVars, reset' = reset
      PROVE NamesInv'
  <2>1. \A j \in Opens : Alive(j) => Alive(j)'
    BY <1>e, <1>t, Zenon DEF Alive
  <2> QED BY <1>e, <2>1, NamesStay, Zenon
<1>u. ASSUME NEW i \in Opens, UnbindIncarnation(i), reset' = reset,
             \A j \in Opens \ {i} : state'[j] = state[j] /\ end'[j] = end[j]
      PROVE NamesInv'
  <2>1. \A j \in Opens \ {i} : Alive(j) => Alive(j)'
    BY <1>u, Zenon DEF Alive
  <2> QED BY <1>u, <2>1, NamesUnbound, Zenon
<1>c. ASSUME NEW i \in Opens, ClaimExpire(i), UNCHANGED aliasVars, reset' = reset PROVE NamesInv'
  <2>1. CASE enforce[i]
    <3>1. state' = [state EXCEPT ![i] = "busy"] /\ end' = [end EXCEPT ![i] = "closeMapped"]
      BY <1>c, <2>1, Zenon DEF ClaimExpire
    <3>2. \A j \in Opens : Alive(j) => Alive(j)'
      BY <1>t, <3>1, Zenon DEF Alive
    <3> QED BY <1>c, <3>2, NamesStay, Zenon
  <2>2. CASE ~enforce[i]
    <3>1. state' = [state EXCEPT ![i] = "gone"] /\ end' = [end EXCEPT ![i] = "closeExpired"]
      BY <1>c, <2>2, Zenon DEF ClaimExpire
    <3>2. \A j \in Opens : Alive(j) => Alive(j)'
      BY <1>t, <3>1, Zenon DEF Alive
    <3> QED BY <1>c, <3>2, NamesStay, Zenon
  <2> QED BY <2>1, <2>2, Zenon
<1>p. ASSUME NEW o \in Opens, NEW i \in Opens, NEW err, EndBusyAfterPanic(o, i, err) PROVE NamesInv'
  <2>1. UnbindIncarnation(i) /\ reset' = reset /\ state' = [state EXCEPT ![i] = "gone"]
        /\ \E x : end' = [end EXCEPT ![i] = x]
    BY <1>p, Zenon DEF EndBusyAfterPanic, InstallCloser, EndBusySlot
  <2>2. \A j \in Opens \ {i} : state'[j] = state[j] /\ end'[j] = end[j]
    BY <1>t, <2>1, Zenon
  <2> QED BY <1>u, <2>1, <2>2, Zenon
<1>1. ASSUME NEW o \in Opens, HolderStep(o) PROVE NamesInv'
  <2>1. CASE OpenPark(o) \/ Woken(o) \/ FinishBind(o) \/ AfterFunc(o) \/ PollErr(o)
    BY <1>0, <2>1, Zenon DEF OpenPark, Woken, FinishBind, AfterFunc, PollErr, slotVars
  <2>2. CASE OpenCreate(o) \/ PublishPut(o)
    BY <1>s, <2>2, Zenon DEF OpenCreate, PublishPut
  <2>3. CASE CreateFails(o)
    <3>1. UnbindIncarnation(o) /\ reset' = reset /\ state' = [state EXCEPT ![o] = "gone"] /\ end' = end
      BY <2>3, Zenon DEF CreateFails, EndBusySlot
    <3> QED BY <1>t, <1>u, <3>1, Zenon
  <2>4. ASSUME NEW i \in Opens,
               \/ OpenBind(o, i) \/ FinishedAtBind(o, i) \/ PollFinished(o, i) \/ ReleaseHolder(o, i)
               \/ SleepReturns(o, i) \/ LogOrphan(o, i) \/ EndingReturns(o, i)
        PROVE NamesInv'
    BY <1>0, <2>4, Zenon DEF OpenBind, FinishedAtBind, PollFinished, ReleaseHolder, SleepReturns, LogOrphan,
         EndingReturns, slotVars
  <2>5. ASSUME NEW i \in Opens, OpenWake(o, i) \/ PublishWake(o, i) \/ ParkAsleep(o, i) PROVE NamesInv'
    BY <1>s, <2>5, Zenon DEF OpenWake, PublishWake, ParkAsleep
  <2>6. ASSUME NEW i \in Opens, WakePanics(o, i) \/ SleepPanics(o, i) PROVE NamesInv'
    BY <1>p, <2>6, Zenon DEF WakePanics, SleepPanics
  <2>7. ASSUME NEW i \in Opens, ClaimDrop(o, i) PROVE NamesInv'
    <3>1. UNCHANGED aliasVars /\ reset' = reset /\ end' = end
          /\ (state' = state \/ state' = [state EXCEPT ![i] = "busy"])
      BY <2>7, Zenon DEF ClaimDrop
    <3> QED BY <1>0, <1>s, <3>1, Zenon
  <2>8. ASSUME NEW i \in Opens, EndMappedClose(o, i) PROVE NamesInv'
    <3>1. end[i] = "none"
      BY <2>8, Zenon DEF IndInv, SlotInv, Roles, OwnPcs, EndMappedClose
    <3> QED BY <1>e, <2>8, <3>1, Zenon DEF EndMappedClose
  <2>9. ASSUME NEW i \in Opens, ExpireInline(o, i) PROVE NamesInv'
    BY <1>0, <1>c, <2>9, Zenon DEF ExpireInline
  <2> QED BY <1>1, <2>1, <2>2, <2>3, <2>4, <2>5, <2>6, <2>7, <2>8, <2>9, Zenon DEF HolderStep
<1>2. ASSUME NEW i \in Opens, EndingStep(i) PROVE NamesInv'
  <2>1. CASE GraceElapses(i)
    BY <1>0, <2>1, Zenon DEF GraceElapses
  <2>2. CASE ExpireOnTimer(i)
    BY <1>0, <1>c, <2>2, Zenon DEF ExpireOnTimer
  <2>3. CASE CloseReturns(i)
    <3>1. end[i] \notin {"closeExpired", "unbind"} \/ StageAfter[end[i]] = "unbind"
      BY <2>3, StageOrder, Zenon DEF CloseReturns, Disposing
    <3> QED BY <1>e, <2>3, <3>1, Zenon DEF CloseReturns, Advance
  <2>4. CASE UnmapLocked(i)
    <3>1. CASE end[i] = "unmap"
      <4>1. UnbindIncarnation(i) /\ reset' = reset /\ state' = [state EXCEPT ![i] = "gone"]
            /\ \E x : end' = [end EXCEPT ![i] = x]
        BY <2>4, <3>1, Zenon DEF UnmapLocked, Advance
      <4> QED BY <1>t, <1>u, <4>1, Zenon
    <3>2. CASE end[i] = "unmapCloser"
      BY <1>e, <2>4, <3>2, Zenon DEF UnmapLocked, Advance
    <3> QED BY <2>4, <3>1, <3>2, Zenon DEF UnmapLocked
  <2>5. CASE CloseReady(i)
    BY <1>e, <2>5, Zenon DEF CloseReady, Advance
  <2>6. CASE UnbindAfterClose(i)
    <3>1. UnbindIncarnation(i) /\ reset' = reset /\ state' = state /\ \E x : end' = [end EXCEPT ![i] = x]
      BY <2>6, Zenon DEF UnbindAfterClose, Advance
    <3> QED BY <1>t, <1>u, <3>1, Zenon
  <2> QED BY <1>2, <2>1, <2>2, <2>3, <2>4, <2>5, <2>6, Zenon DEF EndingStep
<1>3. ASSUME NEW i \in Opens, EndResetSlot(i) PROVE NamesInv'
  <2>1. reset'.todo \subseteq reset.todo
    <3>1. \/ reset' = [reset EXCEPT !.todo = @ \ {i}, !.current = i]
          \/ reset' = [reset EXCEPT !.todo = @ \ {i}]
      BY <1>3, Zenon DEF EndResetSlot
    <3>2. reset \in [running : BOOLEAN, todo : SUBSET Opens, current : Opens \cup {Nobody}]
      BY Zenon DEF TypeOK
    <3>3. reset'.todo = reset.todo \ {i}
      BY <3>1, <3>2, Zenon
    <3> QED BY <3>3, Zenon
  <2>2. UNCHANGED aliasVars /\ i \in reset.todo
    BY <1>3, Zenon DEF EndResetSlot
  <2>3. CASE state' = state /\ end' = end
    BY <1>0, <2>1, <2>2, <2>3, Zenon
  <2>4. CASE ~(state' = state /\ end' = end)
    <3>1. \E x : state' = [state EXCEPT ![i] = "gone"] /\ end' = [end EXCEPT ![i] = x]
      BY <1>3, <2>4, Zenon DEF EndResetSlot
    <3>2. \A j \in Opens : Alive(j) => Alive(j)' \/ j \in reset.todo
      BY <1>t, <2>2, <3>1, Zenon DEF Alive
    <3> QED BY <2>1, <2>2, <3>2, NamesStay, Zenon
  <2> QED BY <2>3, <2>4, Zenon
<1>4. ASSUME NEW i \in Opens, ResetSleeps(i) PROVE NamesInv'
  BY <1>e, <1>4, Zenon DEF ResetSleeps, Advance
<1>5. CASE ResetContinues
  <2>1. reset'.todo = reset.todo
    BY <1>5 DEF ResetContinues, TypeOK
  <2> QED BY <1>0, <1>5, <2>1, Zenon DEF ResetContinues
<1>6. CASE UNCHANGED vars \/ \E o \in Opens : Cancel(o) \/ StartOpen(o)
  BY <1>0, <1>6, Zenon DEF vars, tableVars, slotVars, Cancel, StartOpen
<1> QED BY <1>1, <1>2, <1>3, <1>4, <1>5, <1>6, NamesTaken, NamesOperations, Zenon DEF Next, ServeNext, ResetStep

=============================================================================
