----------------------------- MODULE SigarCache -----------------------------
(***************************************************************************)
(* The hash table of libsigar (sigar_cache.c), as operators on a record.   *)
(* A chain is the set of its entries: their order makes no difference to   *)
(* the walk along a chain while no key has two entries (ValidTable, which  *)
(* every operator keeps).  NULL is the value of an entry that has just     *)
(* been created, and what the search for a key without an entry returns.   *)
(***************************************************************************)
EXTENDS Naturals

NULL == "NULL"

sigar_cache_new(size) ==
  [count |-> 0, size |-> size, entries |-> [h \in 0..size-1 |-> {}]]

SIGAR_CACHE_IX(table, key) == key % table.size
Hits(table, key) == {e \in table.entries[SIGAR_CACHE_IX(table, key)] : e.id = key}

(* Every entry moves to its chain in a table of more than twice the size.  *)
sigar_cache_rehash(table) ==
  LET size == 2 * table.size + 1
      all == UNION {table.entries[h] : h \in 0..table.size-1}
  IN  [table EXCEPT !.size = size,
                    !.entries = [h \in 0..size-1 |-> {e \in all : e.id % size = h}]]

(* The value of the entry with that key; NULL if there is none. *)
sigar_cache_find(table, key) ==
  IF Hits(table, key) = {} THEN NULL ELSE (CHOOSE e \in Hits(table, key) : TRUE).value

(* A new entry, in the chain of index h. *)
Insert(table, h, key) ==
  [table EXCEPT !.count = @ + 1, !.entries[h] = @ \cup {[id |-> key, value |-> NULL]}]

Grown(table) == IF table.count > table.size THEN sigar_cache_rehash(table) ELSE table

(* The table in which the key has an entry; that of a new one is looked up *)
(* again when the table has grown. *)
sigar_cache_get_OldChain(table, key) ==
  IF Hits(table, key) # {} THEN table
  ELSE Insert(Grown(table), SIGAR_CACHE_IX(table, key), key)
sigar_cache_get(table, key) ==
  IF Hits(table, key) # {} THEN table
  ELSE Insert(Grown(table), SIGAR_CACHE_IX(Grown(table), key), key)

(* memcpy to the value of the entry sigar_cache_get has returned. *)
SetValue(table, key, value) ==
  [table EXCEPT !.entries[SIGAR_CACHE_IX(table, key)] =
     {IF e.id = key THEN [e EXCEPT !.value = value] ELSE e : e \in @}]

(* What a table is: every entry is in the chain of its key, and no key has *)
(* two.  The values are addresses, of which the family is kept. *)
Values == {NULL, "inet", "inet6"}
Entries == [id : Nat, value : Values]
ValidTable(table) ==
  /\ DOMAIN table = {"count", "size", "entries"}
  /\ table.count \in Nat /\ table.size \in Nat \ {0}
  /\ table.entries \in [0..table.size-1 -> SUBSET Entries]
  /\ \A h \in 0..table.size-1 : \A e \in table.entries[h] :
       /\ e.id % table.size = h
       /\ \A f \in table.entries[h] : f.id = e.id => f = e
=============================================================================
