---------------------------- MODULE RecencyOrder ----------------------------
(***************************************************************************)
(* The insertion-ordered dictionaries (collections.OrderedDict) that the   *)
(* expert caches use as LRU queues: the keys in order, oldest first.  The  *)
(* values (GPU tensors) are carried by the key.                            *)
(***************************************************************************)
EXTENDS Naturals, Sequences, SequencesExt

\* An order holds each key at most once, as a dictionary does.
Distinct(od) == \A i, j \in DOMAIN od : od[i] = od[j] => i = j

\* The position of key k in od.
Position(od, k) == CHOOSE i \in DOMAIN od : od[i] = k

\* od.pop(k)
Pop(od, k) == RemoveAt(od, Position(od, k))

\* od.move_to_end(k)
MoveToEnd(od, k) == Append(Pop(od, k), k)
=============================================================================
