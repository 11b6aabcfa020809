---------------------------------- MODULE Pins ---------------------------------
(***************************************************************************)
(* Pinned applications, the pure half: what is read back from local        *)
(* storage, what a toggle does, and where the pinned rows go.              *)
(***************************************************************************)
EXTENDS Arrange, Sequences

CONSTANT MAX_PINS   \* 3

ASSUME PinsAssumption == MAX_PINS \in Nat

Pinned(pins) == { pins[k] : k \in DOMAIN pins }

\* The stored list keeps its positive integers, the first of each, and no more than the
\* cap.  0 stands for everything that is not one.
parsePins(raw) ==
  LET firsts == { k \in DOMAIN raw : raw[k] > 0 /\ \A j \in 1..(k - 1) : raw[j] # raw[k] }
      count  == Cardinality(firsts)
      ids    == Kept(raw, firsts)
  IN  [n \in 1..(IF count > MAX_PINS THEN MAX_PINS ELSE count) |-> ids[n]]

\* A toggle unpins, is refused at the cap, or pins at the end.
Full(pins, id) == id \notin Pinned(pins) /\ Len(pins) >= MAX_PINS

togglePin(pins, id) ==
  IF id \in Pinned(pins) THEN Kept(pins, { k \in DOMAIN pins : pins[k] # id }) ELSE Append(pins, id)

\* The shown rows of the pins in pin order, then the others in theirs.
sortPinnedFirst(items, pins) ==
  LET hoisted == { k \in DOMAIN items : items[k].id \in Pinned(pins) }
      top     == Kept(items, hoisted)
      rank    == [k \in DOMAIN top |-> CHOOSE n \in DOMAIN pins : pins[n] = top[k].id]
  IN  Sorted(top, rank) \o Kept(items, DOMAIN items \ hoisted)

hiddenPins(items, pins) == Pinned(pins) \ { items[k].id : k \in DOMAIN items }
================================================================================
