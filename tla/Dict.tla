--------------------------------- MODULE Dict ---------------------------------
(* The chained hash table of dict.c, as operators on a table: a sequence of   *)
(* chains of entries.  Keys compare by content and own their copy; the value  *)
(* is copied in and freed with its entry.  A chain is the set of its entries: *)
(* their order decides only the order of dictNext, which is any order here.   *)
EXTENDS Integers, Sequences, FiniteSets

CONSTANTS Hash,         \* the hash of every key
          InitialSize   \* DICT_HT_INITIAL_SIZE

ASSUME DictAssumption == InitialSize \in Nat \ {0}

dictCreate == [table |-> <<>>, used |-> 0]
Slot(table, key) == (Hash[key] % Len(table)) + 1
dictFind(d, key) ==
  IF d.table = <<>> THEN {} ELSE {e \in d.table[Slot(d.table, key)] : e.key = key}
(* What dictNext goes through. *)
Entries(d) == UNION {d.table[i] : i \in DOMAIN d.table}

(* A bug: the entries keep their old slots. *)
ExpandInPlace(d, size) == [d EXCEPT !.table = @ \o [i \in 1 .. size - Len(@) |-> {}]]
(* dictExpand: every entry is linked into a table of the new size. *)
dictExpand(d, size) ==
  [d EXCEPT !.table = [i \in 1 .. size |-> {e \in Entries(d) : (Hash[e.key] % size) + 1 = i}]]
dictExpandIfNeeded(d) ==
  IF d.table = <<>> THEN dictExpand(d, InitialSize)
  ELSE IF d.used = Len(d.table) THEN dictExpand(d, 2 * Len(d.table)) ELSE d

(* dictAdd expands before it looks for the key. *)
dictAdd(d, key, val) ==
  LET n == dictExpandIfNeeded(d) IN
  IF dictFind(n, key) # {} THEN n
  ELSE [n EXCEPT !.table[Slot(n.table, key)] = @ \cup {[key |-> key, val |-> val]}, !.used = @ + 1]
dictReplace(d, key, val) ==
  LET n == dictAdd(d, key, val) IN
  [n EXCEPT !.table[Slot(n.table, key)] = {IF e.key = key THEN [e EXCEPT !.val = val] ELSE e : e \in @}]
(* Every entry is freed, then the table. *)
dictRelease(d) == [table |-> <<>>, used |-> d.used - Cardinality(Entries(d))]
dictDelete(d, key) ==
  IF dictFind(d, key) = {} THEN d
  ELSE [d EXCEPT !.table[Slot(d.table, key)] = @ \ dictFind(d, key), !.used = @ - 1]
===============================================================================
