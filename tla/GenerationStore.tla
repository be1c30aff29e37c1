---------------------------- MODULE GenerationStore ----------------------------
(***************************************************************************)
(* What a directory of immutable generations and its pointer promise, with *)
(* no lock, no processes and no validation: a generation is stored whole,  *)
(* the pointer changes in one step, it only ever names stored generations, *)
(* and a generation is collected only while the pointer does not name it.  *)
(* IndexLifecycle implements this, and so does SkillLifecycle.             *)
(***************************************************************************)
EXTENDS PointerFile

CONSTANTS Generation,  \* the names a generation can have
          Retain       \* how many outgoing generations a promotion keeps

VARIABLES pointer,     \* the pointer file
          stored       \* the generations whose file is in the directory

vars == <<pointer, stored>>

Init ==
    /\ pointer = NoPointer
    /\ stored = {}

\* A finished generation appears under a name that nothing mentions.
Store(g) ==
    /\ g \notin stored
    /\ g \notin Entries(pointer)
    /\ stored' = stored \union {g}
    /\ UNCHANGED pointer

\* A stored generation becomes active.  What was active is retained, unless
\* the whole history is given up.
Publish(g) ==
    /\ g \in stored
    /\ \E kept \in {pointer, NoPointer} : pointer' = Promoted(kept, g, Retain)
    /\ UNCHANGED stored

\* The newest retained generation and the active one change places.
Restore ==
    /\ Len(pointer) >= 2
    /\ pointer' = RolledBack(pointer)
    /\ UNCHANGED stored

\* x is ahead of (more recent than) y in a pointer.
Ahead(ptr, x, y) ==
    \E i, j \in DOMAIN ptr : i < j /\ ptr[i] = x /\ ptr[j] = y

\* Entries that no longer serve are dropped, and the others keep their order.
Salvage ==
    /\ pointer' # NoPointer
    /\ Distinct(pointer')
    /\ Entries(pointer') \subseteq Entries(pointer)
    /\ \A x, y \in Entries(pointer') :
           Ahead(pointer', x, y) => Ahead(pointer, x, y)
    /\ UNCHANGED stored

\* The file of a generation the pointer does not name is removed.
Collect(g) ==
    /\ g \in stored
    /\ g \notin Entries(pointer)
    /\ stored' = stored \ {g}
    /\ UNCHANGED pointer

Next ==
    \/ \E g \in Generation : Store(g) \/ Publish(g) \/ Collect(g)
    \/ Restore
    \/ Salvage

Spec == Init /\ [][Next]_vars
================================================================================
