---------------------------- MODULE ReclaimAlias ----------------------------
(***************************************************************************)
(* The public names of a reclaim table (reclaim/alias.go): which name is    *)
(* bound to which incarnation, by whom, and what each Watch subscriber was  *)
(* last told.  The module holds the state and the *Locked helpers;          *)
(* ReclaimTable calls them from the critical sections that call them in Go. *)
(*                                                                          *)
(* Reset replaces the whole alias map, so an entry is a name and the        *)
(* generation of the map it lives in.  An entry nobody published has no     *)
(* incarnation, publisher or group, which is also what a missing map key    *)
(* means to every function of alias.go.                                     *)
(***************************************************************************)
EXTENDS Integers

CONSTANTS
  Opens,       \* Open calls; the incarnation an Open creates carries its name
  Aliases,     \* public names
  Publishers,  \* who publishes them
  Groups,      \* publisher groups
  Watches,     \* Watch calls
  NilValued,   \* incarnations whose create returns a nil value
  MaxResets,   \* bound on the number of Reset calls
  Nobody       \* "no incarnation", "no publisher", "no group"

ASSUME AliasAssumption ==
  /\ NilValued \subseteq Opens
  /\ MaxResets \in Nat
  /\ Nobody \notin Opens \cup Publishers \cup Groups

VARIABLES
  generation,  \* how many times Reset replaced t.aliases
  entry,       \* aliasEntry: incarnation, publisher, group, empty
  links,       \* slot.aliases, the reverse link of entry.incarnation
  watch        \* aliasWatcher: its entry and the last value it was given

aliasVars == <<generation, entry, links, watch>>

Entries == Aliases \X (0 .. MaxResets)

Current(a) == <<a, generation>>

(* A value is an incarnation's own, or one of the two empties a Watch may   *)
(* pass: nil (a typed nil counts as nil, see sameValue) or a real one.      *)
Empties == {"nil", "empty"}

ASSUME EmptiesAssumption == Opens \cap Empties = {}

AliasTypeOK ==
  /\ generation \in 0 .. MaxResets
  /\ entry \in [Entries -> [incarnation : Opens \cup {Nobody},
                            publisher : Publishers \cup {Nobody},
                            group : Groups \cup {Nobody},
                            empty : Empties]]
  /\ links \in [Opens -> SUBSET Entries]
  /\ watch \in [Watches -> [state : {"new", "on", "dropped"},
                            entry : Entries \cup {Nobody},
                            last : Opens \cup Empties]]

AliasInit ==
  /\ generation = 0
  /\ entry = [e \in Entries |-> [incarnation |-> Nobody, publisher |-> Nobody,
                                 group |-> Nobody, empty |-> "nil"]]
  /\ links = [i \in Opens |-> {}]
  /\ watch = [w \in Watches |-> [state |-> "new", entry |-> Nobody, last |-> "nil"]]

-----------------------------------------------------------------------------

(* What a watcher of an entry should be seeing (isNilValue included).       *)
Published(r) ==
  IF r.incarnation # Nobody /\ r.incarnation \notin NilValued
    THEN r.incarnation ELSE r.empty

(* storeWatchersLocked and deliverLocked for every watcher of the touched   *)
(* entries: sameValue makes a repeated delivery a no-op.                    *)
StoreWatchers(touched, newEntry) ==
  [w \in Watches |->
     IF watch[w].state = "on" /\ watch[w].entry \in touched
       THEN [watch[w] EXCEPT !.last = Published(newEntry[watch[w].entry])]
       ELSE watch[w]]

(* An entry whose incarnation, publisher and group are taken away.          *)
Cleared(r) ==
  [r EXCEPT !.incarnation = Nobody, !.publisher = Nobody, !.group = Nobody]

(* Mutant: the subscribers of an unbound name are not told.                 *)
UnbindSilently(S) ==
  LET bound == UNION {links[i] : i \in S}
  IN /\ entry' = [e \in Entries |-> IF e \in bound THEN Cleared(entry[e]) ELSE entry[e]]
     /\ links' = [i \in Opens |-> IF i \in S THEN {} ELSE links[i]]
     /\ UNCHANGED watch

(* unbindIncarnationLocked for each incarnation in S: it walks the reverse  *)
(* link, not the alias map.                                                 *)
UnbindIncarnations(S) ==
  LET bound == UNION {links[i] : i \in S}
      newEntry == [e \in Entries |-> IF e \in bound THEN Cleared(entry[e]) ELSE entry[e]]
  IN /\ entry' = newEntry
     /\ links' = [i \in Opens |-> IF i \in S THEN {} ELSE links[i]]
     /\ watch' = StoreWatchers(bound, newEntry)

UnbindIncarnation(i) == UnbindIncarnations({i}) /\ UNCHANGED generation

(* Mutant: the name is not detached from the incarnation it pointed at.     *)
SetAliasAttached(i, a, p, g) ==
  LET e == Current(a)
      renamed == {f \in Entries : /\ f # e
                                  /\ f[2] = generation
                                  /\ entry[f].publisher = p
                                  /\ entry[f].group = g}
      newEntry == [f \in Entries |->
                     IF f = e THEN [entry[e] EXCEPT !.incarnation = i, !.publisher = p, !.group = g]
                     ELSE IF f \in renamed THEN Cleared(entry[f]) ELSE entry[f]]
  IN /\ entry[e].publisher \in {Nobody, p}
     /\ entry' = newEntry
     /\ links' = [j \in Opens |->
                    (links[j] \ renamed)
                      \cup (IF j = i THEN {e} ELSE {})]
     /\ watch' = StoreWatchers(renamed \cup {e}, newEntry)
     /\ UNCHANGED generation

(* SetAlias once the key is known to be mapped awake or asleep to i: the    *)
(* publisher's other names of that group are cleared (rename), the name is  *)
(* detached from the incarnation it pointed at and attached to i.           *)
SetAliasLocked(i, a, p, g) ==
  LET e == Current(a)
      renamed == {f \in Entries : /\ f # e
                                  /\ f[2] = generation
                                  /\ entry[f].publisher = p
                                  /\ entry[f].group = g}
      newEntry == [f \in Entries |->
                     IF f = e THEN [entry[e] EXCEPT !.incarnation = i, !.publisher = p, !.group = g]
                     ELSE IF f \in renamed THEN Cleared(entry[f]) ELSE entry[f]]
  IN /\ entry[e].publisher \in {Nobody, p}
     /\ entry' = newEntry
     /\ links' = [j \in Opens |->
                    (links[j] \ {f \in renamed \cup {e} : entry[f].incarnation = j})
                      \cup (IF j = i THEN {e} ELSE {})]
     /\ watch' = StoreWatchers(renamed \cup {e}, newEntry)
     /\ UNCHANGED generation

(* ClearPublisher: every name this publisher holds in the group.            *)
ClearPublisher(p, g) ==
  LET held == {f \in Entries : /\ f[2] = generation
                               /\ entry[f].publisher = p
                               /\ entry[f].group = g}
      newEntry == [f \in Entries |-> IF f \in held THEN Cleared(entry[f]) ELSE entry[f]]
  IN /\ held # {}
     /\ entry' = newEntry
     /\ links' = [j \in Opens |-> links[j] \ {f \in held : entry[f].incarnation = j}]
     /\ watch' = StoreWatchers(held, newEntry)
     /\ UNCHANGED generation

(* Watch: the first non-nil empty sticks; the new subscriber, and nobody    *)
(* else, is told the current value.                                         *)
Watch(w, a, empty) ==
  LET e == Current(a)
      r == [entry[e] EXCEPT !.empty = IF @ = "nil" THEN empty ELSE @]
  IN /\ watch[w].state = "new"
     /\ entry' = [entry EXCEPT ![e] = r]
     /\ watch' = [watch EXCEPT ![w] = [state |-> "on", entry |-> e, last |-> Published(r)]]
     /\ UNCHANGED <<generation, links>>

(* dropWatcher looks the name up again: after a Reset it finds a new entry, *)
(* or none, and removes nothing.                                            *)
DropWatcher(w) ==
  /\ watch[w].state = "on"
  /\ watch[w].entry[2] = generation
  /\ watch' = [watch EXCEPT ![w].state = "dropped"]
  /\ UNCHANGED <<generation, entry, links>>

=============================================================================
