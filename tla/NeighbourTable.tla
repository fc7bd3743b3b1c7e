---------------------------- MODULE NeighbourTable -----------------------------
(***************************************************************************)
(* The neighbour table of neighbours.rs, and the pages it is reported in.  *)
(* Counts of packets and the RSSI, which only the console shows, are left  *)
(* out.                                                                    *)
(***************************************************************************)
EXTENDS Integers, Sequences, SequencesExt

CONSTANTS
  Own,             \* this node's key
  max_neighbours,  \* the capacity
  MaxResults       \* MAX_NEIGHBOUR_RESULTS_BYTES

Neighbour(key, snr, at) == [key |-> key, seen |-> at, snr |-> snr]

\* Its place, or 0.
FindIndex(entries, key) == SelectInSeq(entries, LAMBDA entry : entry.key = key)

\* Of those seen as long ago, the first.
OldestIndex(entries) ==
  CHOOSE i \in DOMAIN entries :
    \A j \in DOMAIN entries :
      \/ entries[i].seen < entries[j].seen
      \/ entries[i].seen = entries[j].seen /\ i <= j

\* observe_public_key
Observe(entries, key, snr, at) ==
  LET index == FindIndex(entries, key)
  IN IF key = Own \/ (index = 0 /\ max_neighbours = 0) THEN entries
     ELSE IF index # 0 THEN [entries EXCEPT ![index] = Neighbour(key, snr, at)]
     ELSE IF Len(entries) < max_neighbours THEN Append(entries, Neighbour(key, snr, at))
     ELSE [entries EXCEPT ![OldestIndex(entries)] = Neighbour(key, snr, at)]

\* order_by of a request: any but these is `newest`.
Orders == {"newest", "oldest", "strongest", "weakest"}

\* neighbour_precedes
Precedes(left, right, order) ==
  CASE order = "newest" -> left.seen > right.seen
    [] order = "oldest" -> left.seen < right.seen
    [] order = "strongest" -> left.snr > right.snr
    [] order = "weakest" -> left.snr < right.snr

\* sort_neighbours: what is selected once entry j has been looked at, and once all
\* behind entry i have; a pass swaps it to place i.
Better(entries, j, selected, order) ==
  IF Precedes(entries[j], entries[selected], order) THEN j ELSE selected

Selected(entries, i, order) ==
  LET after[k \in 0 .. Len(entries) - i] ==
        IF k = 0 THEN i ELSE Better(entries, i + k, after[k - 1], order)
  IN after[Len(entries) - i]

Swapped(entries, i, j) == [entries EXCEPT ![i] = entries[j], ![j] = entries[i]]

Pass(entries, i, order) == Swapped(entries, i, Selected(entries, i, order))

Sorted(entries, order) ==
  LET after[i \in 0 .. Len(entries)] ==
        IF i = 0 THEN entries ELSE Pass(after[i - 1], i, order)
  IN after[Len(entries)]

\* The results are cut and then sorted.
PageSorted(entries, order, offset, count, prefix) ==
  LET fitting == MaxResults \div (prefix + 5)
      last == offset + (IF count < fitting THEN count ELSE fitting)
  IN Sorted(SubSeq(entries, offset + 1, IF last < Len(entries) THEN last ELSE Len(entries)),
            order)

\* encode_binary_response: what a request of `count` from `offset` on, with so
\* many bytes of each key, is answered.
Page(entries, order, offset, count, prefix) ==
  LET fitting == MaxResults \div (prefix + 5)
      last == offset + (IF count < fitting THEN count ELSE fitting)
  IN SubSeq(Sorted(entries, order), offset + 1,
            IF last < Len(entries) THEN last ELSE Len(entries))
==============================================================================
