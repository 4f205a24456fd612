--------------------------- MODULE AccountSlots ---------------------------
(***************************************************************************)
(* What the storage of a MangoAccount promises: it is five lists of slots, *)
(* which instructions fill and empty, and which change length without      *)
(* anything being lost.  A slot is a tuple of fields, the first of which   *)
(* names what the slot is for; an empty slot is the empty tuple.           *)
(***************************************************************************)
EXTENDS Naturals, Sequences, SequencesExt

VARIABLE slots  \* from kinds to sequences of slots

SlotKinds == {"token", "serum3", "perp", "perp_oo", "tcs"}

IsActive(slot) == slot # <<>>
Empty(n) == [i \in 1 .. n |-> <<>>]
Actives(list) == SelectSeq(list, IsActive)

\* No two slots of a list are for the same thing.
Unambiguous(list) ==
    \A i, j \in DOMAIN list : IsActive(list[i]) /\ IsActive(list[j]) /\ list[i][1] = list[j][1] => i = j

\* Slots are filled, changed and emptied in place.
Use(before, after) ==
    \A k \in SlotKinds :
      /\ Len(after[k]) = Len(before[k])
      /\ Unambiguous(after[k])
      /\ \A i \in DOMAIN before[k] :
           IsActive(before[k][i]) /\ IsActive(after[k][i]) => after[k][i][1] = before[k][i][1]

\* Positions are moved to the front; orders keep their slot, since the book
\* refers to it.
Resize(before, after) ==
    /\ \A k \in SlotKinds \ {"perp_oo"} :
         LET kept == Actives(before[k]) IN
         /\ Len(after[k]) >= Len(kept)
         /\ after[k] = kept \o Empty(Len(after[k]) - Len(kept))
    /\ LET old == before["perp_oo"] new == after["perp_oo"] IN
       \A i \in DOMAIN old \cup DOMAIN new :
         IF i \in DOMAIN old \cap DOMAIN new THEN new[i] = old[i]
         ELSE ~IsActive(IF i \in DOMAIN old THEN old[i] ELSE new[i])

SlotsInit == \A k \in SlotKinds : Unambiguous(slots[k])

SlotsNext == \E before \in {slots}, after \in {slots'} : Use(before, after) \/ Resize(before, after)

SlotsSpec == SlotsInit /\ [][SlotsNext]_slots
=============================================================================
