-------------------------- MODULE IndexedStorage --------------------------
(***************************************************************************)
(* util/IndexedStorage.h: slots found by index, and a stack of the indices *)
(* that are free again.  The first slot is 1 here and 0 in the code.       *)
(***************************************************************************)
EXTENDS Naturals, Sequences

CONSTANT Null    \* an empty slot: a unique_ptr that holds nothing

EmptyStorage == [slots |-> <<>>, holes |-> <<>>]

\* The index add is about to return.
NextIndex(s) == IF s.holes = <<>> THEN Len(s.slots) + 1 ELSE s.holes[Len(s.holes)]

Add(s, x) ==
    IF s.holes = <<>>
      THEN [s EXCEPT !.slots = Append(@, x)]
      ELSE [slots |-> [s.slots EXCEPT ![NextIndex(s)] = x],
            holes |-> SubSeq(s.holes, 1, Len(s.holes) - 1)]

Remove(s, i) == [slots |-> [s.slots EXCEPT ![i] = Null],
                 holes |-> Append(s.holes, i)]

Has(s, i) == i \in 1..Len(s.slots) /\ s.slots[i] # Null

\* The free slots are the ones the stack of holes lists, once each, so that
\* no two values are ever given the same slot.
HolesMatch(s) ==
    /\ \A i \in 1..Len(s.slots) : s.slots[i] = Null <=> \E j \in 1..Len(s.holes) : s.holes[j] = i
    /\ \A j, k \in 1..Len(s.holes) : s.holes[j] = s.holes[k] => j = k
============================================================================
