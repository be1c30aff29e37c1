------------------------------ MODULE PointerFile ------------------------------
(***************************************************************************)
(* The value of a pointer file: {"version": 1, "active": entry,            *)
(* "retained": [entry, ...]} (pointer.py).  It is modelled as the sequence *)
(* <<active>> \o retained, and a pointer file that does not exist as the   *)
(* empty sequence.  An entry is the name of the generation it points at;   *)
(* the build id beside the name is derived from the file itself, whose     *)
(* bytes never change once it has its name, so the name stands for both.   *)
(*                                                                         *)
(* Both lifecycles (corpus index and skill set) keep a pointer of this     *)
(* shape and update it in the three ways defined here.                     *)
(***************************************************************************)
EXTENDS Naturals, Sequences

NoPointer == << >>

Active(ptr) == ptr[1]

Retained(ptr) == SubSeq(ptr, 2, Len(ptr))

Entries(ptr) == {ptr[i] : i \in DOMAIN ptr}

Distinct(ptr) == \A i, j \in DOMAIN ptr : ptr[i] = ptr[j] => i = j

\* s[:n]
FirstOf(s, n) == SubSeq(s, 1, IF n < Len(s) THEN n ELSE Len(s))

\* [item for item in s if item != e].  Entries are distinct (an invariant of
\* both lifecycles), so the comprehension drops at most one of them.
WithoutEntry(s, e) ==
    IF e \in Entries(s)
    THEN LET k == CHOOSE k \in DOMAIN s : s[k] = e
         IN  SubSeq(s, 1, k - 1) \o SubSeq(s, k + 1, Len(s))
    ELSE s

\* Fault: the retained entries are never cut.
PromotedUncut(kept, e, retain) == <<e>> \o WithoutEntry(kept, e)

\* The pointer a promotion writes: the candidate, then what was read before
\* it (nothing, when the outgoing generation is discarded), cut to `retain`.
Promoted(kept, e, retain) == <<e>> \o FirstOf(WithoutEntry(kept, e), retain)

\* The pointer a rollback writes: the newest retained entry and the active
\* one change places.
RolledBack(ptr) == <<ptr[2], ptr[1]>> \o SubSeq(ptr, 3, Len(ptr))

\* The pointer a recovery writes: valid[0] and valid[1:3].
Recovered(valid) == FirstOf(valid, 3)
================================================================================
