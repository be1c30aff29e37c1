--------------------------------- MODULE Lists ---------------------------------
(***************************************************************************)
(* What the answers of Bruriah are put together with: comprehensions that  *)
(* keep the order of a list, and Python's stable sort.                     *)
(***************************************************************************)
EXTENDS Integers, Sequences, FiniteSets

\* [x for x in s if x in some]
Among(s, some) ==
    LET kept[n \in 0..Len(s)] ==
            IF n = 0 THEN <<>>
            ELSE IF s[n] \in some THEN Append(kept[n - 1], s[n]) ELSE kept[n - 1]
    IN  kept[Len(s)]

\* Each element once, where it comes first: a list filled under `if x not in seen`.
Once(s) ==
    LET first == Among([i \in 1..Len(s) |-> i],
                       {i \in 1..Len(s) : \A j \in 1..(i - 1) : s[j] # s[i]})
    IN  [k \in 1..Len(first) |-> s[first[k]]]

\* The lists of a list, one behind the other.
Joined(lists) ==
    LET upTo[n \in 0..Len(lists)] == IF n = 0 THEN <<>> ELSE upTo[n - 1] \o lists[n]
    IN  upTo[Len(lists)]

\* sorted(s, key=...), where key[i] is the key of s[i]: equals stay in their order.
Place(key, i) ==
    1 + Cardinality({j \in DOMAIN key : key[j] < key[i] \/ (key[j] = key[i] /\ j < i)})
SortedBy(s, key) ==
    LET place == [i \in 1..Len(s) |-> Place(key, i)]
    IN  [k \in 1..Len(s) |-> s[CHOOSE i \in 1..Len(s) : place[i] = k]]
================================================================================
