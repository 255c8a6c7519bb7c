---------------------------- MODULE ProbesProofs ----------------------------
(***************************************************************************)
(* Proofs about Probes, for words and counters of any width, any memory    *)
(* and any interfaces.  IInv is inductive: the counter of the sampled      *)
(* interface is the first sample plus what came in since, unless it has    *)
(* wrapped or was made again; a processor time is the first sample plus    *)
(* the ticks since; a name that does not answer has gone, was an alias, or     *)
(* was taken after a call had failed.                                      *)
(***************************************************************************)
EXTENDS Probes, TLAPS

USE PortAssumption, WidthAssumption, MemAssumption, BoundAssumption, NameAssumption

(* Subtraction modulo the width is exact if the true difference fits. *)
LEMMA MinusExact ==
  ASSUME NEW a \in Words, NEW b \in Words
  PROVE  /\ Minus(a, b) \in Words
         /\ \A d \in Words : a = b + d \/ a = b + d - Width => Minus(a, b) = d
BY DEF Minus, Words

(* The size sigar_mem_get reports, for every size and sum of registers. *)
LEMMA RamBounds ==
  ASSUME NEW sys \in Totals, NEW mtrr \in Registers
  PROVE  /\ get_ram(sys, mtrr) \in Nat
         /\ get_ram(sys, mtrr) >= sys
         /\ get_ram(sys, mtrr) <= sys + Slack \/ get_ram(sys, mtrr) < sys + 8
<1>1. sys \in Nat /\ mtrr \in Nat /\ sys + Slack < Width
  OBVIOUS
<1>2. sys % 8 \in 0..7
  BY <1>1
<1>3. /\ sigar_mem_calc_ram(sys) \in Nat
      /\ sigar_mem_calc_ram(sys) >= sys /\ sigar_mem_calc_ram(sys) < sys + 8
  BY <1>1, <1>2 DEF sigar_mem_calc_ram
<1>4. ~(Minus(mtrr, sys) > Slack) => mtrr >= sys /\ mtrr <= sys + Slack
  BY <1>1 DEF Minus
<1>. QED
  BY <1>1, <1>3, <1>4 DEF get_ram

(* What can be reset to 0. *)
LEMMA Zeros ==
  ASSUME modulus \in {Narrow, Width}
  PROVE  /\ modulus \in Nat /\ 0 \in 0..modulus-1 /\ 0 \in Words
         /\ 0 \in 0..MaxRows /\ 0 \in 0..MaxTraffic
         /\ NoTimes \in [Kinds -> Words] /\ NoTimes \in [Kinds -> 0..MaxWork]
         /\ NoPerc \in [Kinds -> Words \X (0..3 * Width)]
         /\ NoRam \in [sys : Nat, ram : Nat]
<1>1. modulus \in Nat /\ 0 \in 0..modulus-1 /\ 0 \in Words /\ 0 \in 0..3*Width
  BY DEF Words
<1>. QED
  BY <1>1 DEF NoTimes, NoPerc, NoRam

-----------------------------------------------------------------------------
(* The hash table of listening ports. *)

(* A key has a chain. *)
LEMMA ChainOfKey ==
  ASSUME NEW key \in Nat, NEW size \in Nat \ {0}
  PROVE  key % size \in 0..size-1
OBVIOUS

(* A new table is one, and finds nothing. *)
LEMMA NewTable ==
  ASSUME NEW size \in Nat \ {0}
  PROVE  /\ ValidTable(sigar_cache_new(size))
         /\ \A key \in Nat : sigar_cache_find(sigar_cache_new(size), key) = NULL
<1>1. ValidTable(sigar_cache_new(size))
  BY DEF ValidTable, sigar_cache_new
<1>2. ASSUME NEW key \in Nat PROVE Hits(sigar_cache_new(size), key) = {}
  BY ChainOfKey DEF Hits, SIGAR_CACHE_IX, sigar_cache_new
<1>. QED
  BY <1>1, <1>2 DEF sigar_cache_find

(* A table that grows stays one, and finds the same entry for every key.   *)
LEMMA RehashFinds ==
  ASSUME NEW table, ValidTable(table)
  PROVE  /\ ValidTable(sigar_cache_rehash(table))
         /\ \A key \in Nat : Hits(sigar_cache_rehash(table), key) = Hits(table, key)
<1>. DEFINE size == 2 * table.size + 1
            new == sigar_cache_rehash(table)
            all == UNION {table.entries[h] : h \in 0..table.size-1}
<1>1. /\ DOMAIN new = {"count", "size", "entries"} /\ new.count = table.count
      /\ new.size = size /\ size \in Nat \ {0}
      /\ new.entries = [h \in 0..size-1 |-> {e \in all : e.id % size = h}]
  BY DEF ValidTable, sigar_cache_rehash
<1>2. ASSUME NEW e \in all
      PROVE  /\ e \in Entries /\ e.id \in Nat
             /\ e \in table.entries[e.id % table.size]
  <2>1. PICK h \in 0..table.size-1 : e \in table.entries[h]
    OBVIOUS
  <2>. QED
    BY <2>1 DEF ValidTable, Entries
<1>3. ASSUME NEW e \in all, NEW f \in all, f.id = e.id PROVE f = e
  <2>1. e.id % table.size \in 0..table.size-1
    BY <1>2, ChainOfKey DEF ValidTable
  <2>. QED
    BY <1>2, <1>3, <2>1 DEF ValidTable
<1>4. new.entries \in [0..size-1 -> SUBSET Entries]
  BY <1>1, <1>2
<1>5. ValidTable(new)
  <2>. HIDE DEF new, size, all
  <2>. QED
    BY <1>1, <1>3, <1>4 DEF ValidTable
<1>6. ASSUME NEW key \in Nat PROVE Hits(new, key) = Hits(table, key)
  <2>1. key % size \in 0..size-1 /\ key % table.size \in 0..table.size-1
    BY <1>1, ChainOfKey DEF ValidTable
  <2>2. Hits(new, key) = {e \in all : e.id = key}
    BY <1>1, <2>1 DEF Hits, SIGAR_CACHE_IX
  <2>3. Hits(table, key) = {e \in all : e.id = key}
    BY <1>2, <2>1 DEF Hits, SIGAR_CACHE_IX
  <2>. QED
    BY <2>2, <2>3
<1>. QED
  BY <1>5, <1>6

(* Getting an entry, new or not, leaves what is found as it was.           *)
LEMMA GetFinds ==
  ASSUME NEW table, ValidTable(table), NEW key \in Nat
  PROVE  /\ ValidTable(sigar_cache_get(table, key))
         /\ Hits(sigar_cache_get(table, key), key) # {}
         /\ \A k \in Nat : sigar_cache_find(sigar_cache_get(table, key), k)
                            = sigar_cache_find(table, k)
<1>1. CASE Hits(table, key) # {}
  BY <1>1 DEF sigar_cache_get
<1>2. CASE Hits(table, key) = {}
  <2>. DEFINE grown == Grown(table)
              h == SIGAR_CACHE_IX(grown, key)
              new == Insert(grown, h, key)
              entry == [id |-> key, value |-> NULL]
  <2>1. ValidTable(grown) /\ \A k \in Nat : Hits(grown, k) = Hits(table, k)
    BY RehashFinds DEF Grown
  <2>. HIDE DEF grown
  <2>a. /\ DOMAIN grown = {"count", "size", "entries"}
        /\ grown.count \in Nat /\ grown.size \in Nat \ {0}
        /\ grown.entries \in [0..grown.size-1 -> SUBSET Entries]
    BY <2>1 DEF ValidTable
  <2>2. h \in 0..grown.size-1 /\ h = key % grown.size
    BY <2>a, ChainOfKey DEF SIGAR_CACHE_IX
  <2>3. \A e \in grown.entries[h] : e.id # key
    BY <1>2, <2>1 DEF Hits
  <2>5. entry.id = key /\ entry.value = NULL /\ entry \in Entries
    BY DEF Entries, Values
  <2>. HIDE DEF entry, h
  <2>b. new = [grown EXCEPT !.count = @ + 1, !.entries[h] = @ \cup {entry}]
    BY DEF Insert, entry
  <2>. HIDE DEF new
  <2>4. /\ DOMAIN new = {"count", "size", "entries"} /\ new.count = grown.count + 1
        /\ new.size = grown.size
        /\ new.entries = [grown.entries EXCEPT ![h] = @ \cup {entry}]
    BY <2>a, <2>b
  <2>c. \A i \in 0..grown.size-1 :
           new.entries[i] = IF i = h THEN grown.entries[i] \cup {entry}
                            ELSE grown.entries[i]
    BY <2>a, <2>2, <2>4
  <2>d. new.entries \in [0..grown.size-1 -> SUBSET Entries]
    BY <2>a, <2>2, <2>4, <2>5
  <2>6. ValidTable(new)
    <3>1. ASSUME NEW i \in 0..grown.size-1, NEW e \in new.entries[i]
          PROVE  /\ e.id % grown.size = i
                 /\ \A f \in new.entries[i] : f.id = e.id => f = e
      <4>1. /\ \A f \in grown.entries[i] : f.id % grown.size = i
            /\ \A f, g \in grown.entries[i] : f.id = g.id => f = g
        BY <2>1 DEF ValidTable
      <4>2. CASE i # h
        BY <2>c, <4>1, <4>2
      <4>3. CASE i = h
        <5>1. /\ entry.id % grown.size = h
              /\ new.entries[h] = grown.entries[h] \cup {entry}
          BY <2>2, <2>5, <2>c
        <5>. QED
          BY <2>3, <2>5, <4>1, <4>3, <5>1
      <4>. QED
        BY <4>2, <4>3
    <3>2. new.count \in Nat /\ new.size \in Nat \ {0}
      BY <2>a, <2>4
    <3>. QED
      BY <2>4, <2>d, <3>1, <3>2 DEF ValidTable
  <2>7. Hits(new, key) = {entry}
    BY <2>2, <2>3, <2>4, <2>5, <2>c DEF Hits, SIGAR_CACHE_IX
  <2>8. ASSUME NEW k \in Nat, k # key PROVE Hits(new, k) = Hits(table, k)
    <3>1. k % grown.size \in 0..grown.size-1
      BY <2>1, ChainOfKey DEF ValidTable
    <3>2. Hits(new, k) = Hits(grown, k)
      BY <2>4, <2>5, <2>8, <2>c, <3>1 DEF Hits, SIGAR_CACHE_IX
    <3>. QED
      BY <2>1, <3>2
  <2>9. sigar_cache_get(table, key) = new
    BY <1>2 DEF sigar_cache_get, new, h, grown
  <2>10. sigar_cache_find(new, key) = NULL
    BY <2>5, <2>7 DEF sigar_cache_find
  <2>11. sigar_cache_find(table, key) = NULL
    BY <1>2 DEF sigar_cache_find
  <2>12. ASSUME NEW k \in Nat PROVE sigar_cache_find(new, k) = sigar_cache_find(table, k)
    <3>1. CASE k = key
      BY <2>10, <2>11, <3>1
    <3>2. CASE k # key
      <4>1. Hits(new, k) = Hits(table, k)
        BY <2>8, <3>2
      <4>. QED
        BY <4>1 DEF sigar_cache_find
    <3>. QED
      BY <3>1, <3>2
  <2>. QED
    BY <2>6, <2>7, <2>9, <2>12
<1>. QED
  BY <1>1, <1>2

(* Setting the value of an entry changes what is found for its key alone.  *)
LEMMA SetFinds ==
  ASSUME NEW table, ValidTable(table), NEW key \in Nat, Hits(table, key) # {},
         NEW value \in Values
  PROVE  /\ ValidTable(SetValue(table, key, value))
         /\ \A k \in Nat : sigar_cache_find(SetValue(table, key, value), k) =
                            IF k = key THEN value ELSE sigar_cache_find(table, k)
<1>. DEFINE new == SetValue(table, key, value)
            h == key % table.size
            Set(e) == IF e.id = key THEN [e EXCEPT !.value = value] ELSE e
            chain == table.entries[h]
<1>1. /\ h \in 0..table.size-1 /\ chain \subseteq Entries
      /\ \A e, f \in chain : f.id = e.id => f = e
  <2>1. table.size \in Nat \ {0}
    BY DEF ValidTable
  <2>2. h \in 0..table.size-1
    BY <2>1, ChainOfKey
  <2>. QED
    BY <2>2 DEF ValidTable
<1>2. /\ DOMAIN new = {"count", "size", "entries"} /\ new.count = table.count
      /\ new.size = table.size
      /\ new.entries = [table.entries EXCEPT ![h] = {Set(e) : e \in @}]
  BY DEF SetValue, SIGAR_CACHE_IX, ValidTable
<1>3. ASSUME NEW e \in Entries
      PROVE  /\ Set(e) \in Entries /\ Set(e).id = e.id
             /\ e.id = key => Set(e).value = value
             /\ e.id # key => Set(e) = e
  BY DEF Entries
<1>. HIDE DEF new, Set, h, chain
<1>4. /\ DOMAIN new.entries = 0..table.size-1
      /\ new.entries[h] = {Set(e) : e \in chain}
      /\ \A i \in (0..table.size-1) \ {h} : new.entries[i] = table.entries[i]
  BY <1>1, <1>2 DEF ValidTable, chain
<1>5. ValidTable(new)
  <2>1. new.entries \in [0..table.size-1 -> SUBSET Entries]
    <3>1. new.entries[h] \subseteq Entries
      BY <1>1, <1>3, <1>4
    <3>2. \A i \in 0..table.size-1 : new.entries[i] \subseteq Entries
      BY <1>4, <3>1 DEF ValidTable
    <3>3. new.entries = [i \in 0..table.size-1 |-> new.entries[i]]
      BY <1>2 DEF ValidTable
    <3>. QED
      BY <3>2, <3>3
  <2>2. ASSUME NEW i \in 0..table.size-1, NEW e \in new.entries[i]
        PROVE  /\ e.id % table.size = i
               /\ \A f \in new.entries[i] : f.id = e.id => f = e
    <3>1. CASE i # h
      BY <1>4, <2>2, <3>1 DEF ValidTable
    <3>2. CASE i = h
      <4>1. PICK d \in chain : e = Set(d)
        BY <1>4, <2>2, <3>2
      <4>2. e.id = d.id /\ d.id % table.size = h
        BY <1>1, <1>3, <4>1 DEF ValidTable, chain
      <4>3. ASSUME NEW f \in new.entries[i], f.id = e.id PROVE f = e
        <5>1. PICK g \in chain : f = Set(g)
          BY <1>4, <3>2
        <5>2. g.id = d.id
          BY <1>1, <1>3, <4>2, <4>3, <5>1
        <5>. QED
          BY <1>1, <4>1, <5>1, <5>2
      <4>. QED
        BY <3>2, <4>2, <4>3
    <3>. QED
      BY <3>1, <3>2
  <2>. QED
    BY <1>2, <2>1, <2>2 DEF ValidTable
<1>6. PICK hit \in chain : hit.id = key
  BY DEF Hits, SIGAR_CACHE_IX, chain, h
<1>7. Hits(new, key) = {Set(hit)}
  <2>1. Hits(new, key) = {e \in new.entries[h] : e.id = key}
    BY <1>2 DEF Hits, SIGAR_CACHE_IX, h
  <2>2. \A e \in chain : Set(e).id = e.id /\ (e.id = key <=> e = hit)
    BY <1>1, <1>3, <1>6
  <2>. QED
    BY <1>4, <1>6, <2>1, <2>2
<1>8. ASSUME NEW k \in Nat, k # key PROVE Hits(new, k) = Hits(table, k)
  <2>1. k % table.size \in 0..table.size-1
    BY ChainOfKey DEF ValidTable
  <2>2. CASE k % table.size # h
    BY <1>2, <1>4, <2>1, <2>2 DEF Hits, SIGAR_CACHE_IX
  <2>3. CASE k % table.size = h
    <3>1. /\ Hits(new, k) = {e \in new.entries[h] : e.id = k}
          /\ Hits(table, k) = {e \in chain : e.id = k}
      BY <1>2, <2>3 DEF Hits, SIGAR_CACHE_IX, chain
    <3>2. \A e \in chain : Set(e).id = e.id /\ (e.id = k => Set(e) = e)
      BY <1>1, <1>3, <1>8
    <3>. QED
      BY <1>4, <3>1, <3>2
  <2>. QED
    BY <2>2, <2>3
<1>9. Set(hit).value = value
  BY <1>1, <1>3, <1>6
<1>10. sigar_cache_find(new, key) = value
  BY <1>7, <1>9 DEF sigar_cache_find
<1>11. \A k \in Nat : k # key => sigar_cache_find(new, k) = sigar_cache_find(table, k)
  <2>. SUFFICES ASSUME NEW k \in Nat, k # key
                PROVE  sigar_cache_find(new, k) = sigar_cache_find(table, k)
    OBVIOUS
  <2>1. Hits(new, k) = Hits(table, k)
    BY <1>8
  <2>. QED
    BY <2>1 DEF sigar_cache_find
<1>. QED
  BY <1>5, <1>10, <1>11 DEF new

(* sigar_net_listen_address_add: an IPv4 address is taken, an IPv6 one if  *)
(* there is none, and no other port loses its own. *)
LEMMA AddFinds ==
  ASSUME NEW table, ValidTable(table), NEW port \in Nat, NEW fam \in {"inet", "inet6"}
  PROVE  /\ ValidTable(sigar_net_listen_address_add(table, port, fam))
         /\ \A k \in Nat :
              sigar_cache_find(sigar_net_listen_address_add(table, port, fam), k) =
                IF k = port /\ (fam = "inet" \/ sigar_cache_find(table, port) = NULL)
                THEN fam ELSE sigar_cache_find(table, k)
<1>. DEFINE got == sigar_cache_get(table, port)
<1>1. /\ ValidTable(got) /\ Hits(got, port) # {}
      /\ \A k \in Nat : sigar_cache_find(got, k) = sigar_cache_find(table, k)
  BY GetFinds
<1>. HIDE DEF got
<1>a. fam \in Values
  BY DEF Values
<1>2. /\ ValidTable(SetValue(got, port, fam))
      /\ \A k \in Nat : sigar_cache_find(SetValue(got, port, fam), k) =
                         IF k = port THEN fam ELSE sigar_cache_find(got, k)
  <2>. SUFFICES ASSUME NEW tbl, ValidTable(tbl), Hits(tbl, port) # {}
                PROVE  /\ ValidTable(SetValue(tbl, port, fam))
                       /\ \A k \in Nat :
                            sigar_cache_find(SetValue(tbl, port, fam), k) =
                              IF k = port THEN fam ELSE sigar_cache_find(tbl, k)
    BY <1>1
  <2>. QED
    BY <1>a, SetFinds
<1>3. sigar_net_listen_address_add(table, port, fam) =
        IF sigar_cache_find(got, port) # NULL /\ fam = "inet6" THEN got
        ELSE SetValue(got, port, fam)
  BY DEF sigar_net_listen_address_add, got
<1>. QED
  BY <1>1, <1>2, <1>3
-----------------------------------------------------------------------------
LEMMA InitIInv == Init => IInv
<1>. SUFFICES ASSUME Init PROVE IInv
  OBVIOUS
<1>1. modulus \in {Narrow, Width}
  BY DEF Init
<1>2. /\ present \subseteq Ifaces /\ addressed \subseteq Names
      /\ \A name \in addressed : Device(name) \in present
      /\ received \in 0..modulus-1 /\ times \in [Kinds -> Words]
      /\ pc \in Steps /\ primary \in Names \cup {None}
      /\ curr \in 0..modulus-1 /\ rate \in Words
  BY <1>1, Zeros DEF Init, Steps
<1>3. /\ rows \in 0..MaxRows /\ heard \subseteq Ports \X {"inet", "inet6"}
      /\ family \in {"inet", "inet6"} /\ ram \in [sys : Nat, ram : Nat]
      /\ prev \in [Kinds -> Words] /\ perc \in [Kinds -> Words \X (0..3 * Width)]
      /\ moved \in 0..MaxTraffic /\ worked \in [Kinds -> 0..MaxWork]
      /\ wrapped \in BOOLEAN /\ remade \in BOOLEAN /\ wentBack \in BOOLEAN
      /\ lost \in BOOLEAN /\ failed \in BOOLEAN /\ bare \in BOOLEAN
  BY <1>1, Zeros, Zenon DEF Init
<1>4. TypeOK
  BY <1>1, <1>2, <1>3, Zenon DEF TypeOK
<1>. QED
  BY <1>4 DEF Init, IInv, RxInv, TimesInv, NameInv, RateIsTraffic, RamCoversTotal,
     CpuShares, ExitHasCause

LEMMA MachineIInv == IInv /\ Machine => IInv'
<1>. SUFFICES ASSUME IInv, Machine PROVE IInv'
  OBVIOUS
<1>1. ASSUME NEW i \in Ifaces, Unplug(i) PROVE IInv'
  BY <1>1 DEF Unplug, net, listen, samples, IInv, TypeOK, RxInv, TimesInv, NameInv, RateIsTraffic,
     RamCoversTotal, CpuShares, ExitHasCause
<1>2. ASSUME NEW i \in Ifaces, Plug(i) PROVE IInv'
  <2>1. 0 \in 0..modulus-1
    BY Zeros DEF IInv, TypeOK
  <2>2. TypeOK'
    BY <1>2, <2>1 DEF Plug, net, listen, IInv, TypeOK
  <2>. QED
    BY <1>2, <2>2 DEF Plug, net, listen, IInv, RxInv, TimesInv, NameInv, RateIsTraffic,
       RamCoversTotal, CpuShares, ExitHasCause
<1>3. ASSUME NEW name \in Names, Readdress(name) PROVE IInv'
  BY <1>3 DEF Readdress, net, listen, samples, history, IInv, TypeOK, RxInv, TimesInv, NameInv,
     RateIsTraffic, RamCoversTotal, CpuShares, ExitHasCause
<1>4. ASSUME NEW bytes \in 1..MaxTraffic, Receive(bytes) PROVE IInv'
  <2>1. /\ modulus \in Nat /\ bytes \in Nat /\ bytes < modulus /\ moved \in Nat
        /\ received \in 0..modulus-1 /\ curr \in 0..modulus-1
    BY <1>4, Zeros DEF Receive, IInv, TypeOK
  <2>2. received' \in 0..modulus-1 /\ moved' \in 0..MaxTraffic
    BY <1>4, <2>1 DEF Receive
  <2>3. wrapped' \in BOOLEAN
    BY <1>4 DEF Receive
  <2>4. TypeOK'
    BY <1>4, <2>2, <2>3 DEF Receive, net, listen, IInv, TypeOK
  <2>5. RxInv'
    <3>1. ~remade /\ ~wrapped' => received' = curr + moved'
      <4>. SUFFICES ASSUME ~remade, ~wrapped' PROVE received' = curr + moved'
        OBVIOUS
      <4>1. ~wrapped /\ ~(received + bytes >= modulus)
        BY <1>4, Zenon DEF Receive
      <4>2. received = curr + moved
        BY <1>4, <4>1 DEF Receive, IInv, RxInv
      <4>. QED
        BY <1>4, <2>1, <4>1, <4>2 DEF Receive
    <3>2. ~remade /\ moved' < modulus =>
            received' = IF wrapped' THEN curr + moved' - modulus ELSE curr + moved'
      <4>. SUFFICES ASSUME ~remade, moved' < modulus
                    PROVE  received' = IF wrapped' THEN curr + moved' - modulus
                                       ELSE curr + moved'
        OBVIOUS
      <4>1. moved < modulus /\ moved' = moved + bytes
        BY <1>4, <2>1 DEF Receive
      <4>2. CASE wrapped
        <5>1. received = curr + moved - modulus /\ wrapped'
          BY <1>4, <4>1, <4>2 DEF Receive, IInv, RxInv
        <5>2. received' = received + bytes
          BY <1>4, <2>1, <4>1, <5>1 DEF Receive
        <5>. QED
          BY <2>1, <4>1, <5>1, <5>2
      <4>3. CASE ~wrapped
        <5>1. received = curr + moved
          BY <1>4, <4>1, <4>3 DEF Receive, IInv, RxInv
        <5>2. wrapped' <=> received + bytes >= modulus
          BY <1>4, <4>3 DEF Receive
        <5>. QED
          BY <1>4, <2>1, <4>1, <5>1, <5>2 DEF Receive
      <4>. QED
        BY <4>2, <4>3
    <3>. QED
      BY <1>4, <3>1, <3>2 DEF Receive, net, RxInv
  <2>. QED
    BY <1>4, <2>4, <2>5 DEF Receive, net, listen, IInv, TimesInv, NameInv, RateIsTraffic,
       RamCoversTotal, CpuShares, ExitHasCause
<1>5. ASSUME NEW k \in Kinds, Work(k) PROVE IInv'
  BY <1>5 DEF Work, net, listen, IInv, TypeOK, RxInv, TimesInv, NameInv, RateIsTraffic,
     RamCoversTotal, CpuShares, ExitHasCause, Words
<1>6. ASSUME NEW k \in Kinds, SetBack(k) PROVE IInv'
  BY <1>6 DEF SetBack, net, listen, IInv, TypeOK, RxInv, TimesInv, NameInv, RateIsTraffic,
     RamCoversTotal, CpuShares, ExitHasCause, Words
<1>. QED
  BY <1>1, <1>2, <1>3, <1>4, <1>5, <1>6 DEF Machine

(* After a failed call nothing is claimed but types. *)
LEMMA FailedIInv == TypeOK' /\ Failed => IInv'
BY DEF Failed, Exit1, IInv, RxInv, TimesInv, NameInv, RateIsTraffic, RamCoversTotal,
   CpuShares, ExitHasCause

LEMMA ProbeIInv == IInv /\ (Probe \/ Begin) => IInv'
<1>. SUFFICES ASSUME IInv, Probe \/ Begin PROVE IInv'
  OBVIOUS
<1>1. CASE CheckPrimary
  <2>1. PICK name \in Names \cup {None}, readable \in SUBSET Listed :
          /\ primary_get(name, readable)
          /\ IF name = None THEN Exit1 ELSE pc' = "name"
          /\ failed' = (readable # Listed)
    BY <1>1 DEF CheckPrimary
  <2>2. pc' = "exited" \/ pc' = "name"
    BY <2>1 DEF Exit1
  <2>3. failed' \in BOOLEAN /\ lost' \in BOOLEAN
    BY <1>1, <2>1 DEF CheckPrimary
  <2>4. TypeOK'
    BY <1>1, <2>2, <2>3 DEF CheckPrimary, machine, net, listen, samples, IInv, TypeOK, Steps
  <2>5. pc' = "exited" /\ ~failed' => lost'
    <3>. SUFFICES ASSUME pc' = "exited", ~failed' PROVE present = {}
      BY <1>1, Zenon DEF CheckPrimary
    <3>1. name = None /\ readable = Listed
      BY <2>1, <2>3
    <3>2. name \notin Names
      BY <3>1
    <3>. QED
      BY <3>1, <3>2, <2>1 DEF primary_get, Listed, Names, IInv, TypeOK
  <2>6. present' = {} => lost'
    BY <1>1, Zenon DEF CheckPrimary, machine
  <2>. QED
    BY <1>1, <2>2, <2>4, <2>5, <2>6 DEF CheckPrimary, machine, net, listen, samples, IInv,
       RxInv, TimesInv, NameInv, RateIsTraffic, RamCoversTotal, CpuShares, ExitHasCause
<1>2. CASE TakePrimary
  <2>1. PICK name \in Names \cup {None}, readable \in SUBSET Listed :
          /\ primary_get(name, readable) /\ primary' = name
          /\ failed' = (failed \/ readable # Listed)
          /\ pc' = "walk" \/ (readable = {} /\ readable # Listed /\ Exit1)
    BY <1>2 DEF TakePrimary
  <2>2. pc' \in {"walk", "exited"} /\ (pc' = "exited" => failed')
    BY <2>1 DEF Exit1
  <2>3. failed' \in BOOLEAN /\ bare' \in BOOLEAN
    BY <1>2, <2>1 DEF TakePrimary
  <2>4. TypeOK'
    BY <1>2, <2>1, <2>2, <2>3 DEF TakePrimary, machine, listen, samples, IInv, TypeOK, Steps
  <2>5. primary' \notin present => failed' \/ lost \/ (primary' \in Aliases /\ bare')
    <3>. SUFFICES ASSUME name \notin present, ~failed', ~lost
                  PROVE  name \in Aliases /\ addressed \cap Ifaces = {}
      BY <1>2, <2>1 DEF TakePrimary
    <3>1. readable = Listed /\ present # {}
      BY <1>2, <2>1 DEF TakePrimary, IInv, NameInv
    <3>2. \A i \in addressed \cap Ifaces : i \in present
      BY DEF IInv, TypeOK, Device, Names
    <3>3. name \in addressed /\ addressed \cap Ifaces = {}
      BY <2>1, <3>1, <3>2 DEF primary_get, Listed
    <3>. QED
      BY <3>3 DEF IInv, TypeOK, Names
  <2>6. lost' = lost /\ present' = present /\ lost \in BOOLEAN
    BY <1>2 DEF TakePrimary, machine, IInv, TypeOK
  <2>. QED
    BY <1>2, <2>2, <2>4, <2>5, <2>6 DEF TakePrimary, machine, listen, samples, IInv,
       RxInv, TimesInv, NameInv, RateIsTraffic, RamCoversTotal, CpuShares, ExitHasCause
<1>3. CASE WalkListening
  BY <1>3 DEF WalkListening, machine, samples, history, IInv, TypeOK, RxInv, TimesInv, NameInv,
     RateIsTraffic, RamCoversTotal, CpuShares, ExitHasCause
<1>4. CASE WalkNextFile
  <2>1. TypeOK'
    BY <1>4 DEF WalkNextFile, machine, samples, history, IInv, TypeOK, Steps
  <2>2. pc' \in {"walk", "first"}
    BY <1>4 DEF WalkNextFile
  <2>. QED
    BY <1>4, <2>1, <2>2 DEF WalkNextFile, machine, samples, history, IInv, RxInv, TimesInv,
       NameInv, RateIsTraffic, RamCoversTotal, CpuShares, ExitHasCause
<1>5. CASE WalkFails
  <2>1. TypeOK'
    BY <1>5 DEF WalkFails, Failed, Exit1, machine, net, listen, samples, IInv, TypeOK, Steps
  <2>. QED
    BY <1>5, <2>1, FailedIInv DEF WalkFails
<1>6. CASE FirstSample
  <2>1. TypeOK'
    BY <1>6 DEF FirstSample, Failed, Exit1, listen, samples, IInv, TypeOK, Steps
  <2>2. CASE Failed
    BY <2>1, <2>2, FailedIInv
  <2>3. CASE /\ primary \in present /\ pc' = "second"
             /\ received' \in 0..modulus-1 /\ curr' = received' /\ UNCHANGED failed
    <3>1. RxInv'
      <4>1. moved' = 0 /\ ~wrapped' /\ ~remade'
        BY <1>6 DEF FirstSample, samples, IInv, RxInv
      <4>2. curr' \in Int /\ received' = curr'
        BY <2>3
      <4>. QED
        BY <2>3, <4>1, <4>2 DEF RxInv
    <3>2. NameInv' /\ TimesInv'
      BY <1>6, <2>3 DEF FirstSample, samples, IInv, NameInv, TimesInv
    <3>. QED
      BY <2>1, <2>3, <3>1, <3>2 DEF IInv, RateIsTraffic, RamCoversTotal, CpuShares,
         ExitHasCause
  <2>4. CASE primary \notin present /\ Exit1 /\ UNCHANGED <<received, curr, failed>>
    <3>1. ExitHasCause'
      BY <1>6, <2>4 DEF FirstSample, IInv, NameInv, ExitHasCause
    <3>. QED
      BY <2>1, <2>4, <3>1 DEF Exit1, IInv, RxInv, TimesInv, NameInv, RateIsTraffic,
         RamCoversTotal, CpuShares
  <2>. QED
    BY <1>6, <2>2, <2>3, <2>4 DEF FirstSample
<1>7. CASE SecondSample
  <2>1. /\ received \in Words /\ curr \in Words
        /\ modulus = Width \/ modulus <= Width
    BY DEF IInv, TypeOK, Words
  <2>2. Minus(received, curr) \in Words
    BY <2>1, MinusExact
  <2>3. TypeOK'
    <3>1. 0 \in 0..modulus-1
      BY Zeros DEF IInv, TypeOK
    <3>2. rate' \in Words /\ pc' \in Steps /\ failed' \in BOOLEAN
      BY <1>7, <2>2 DEF SecondSample, Failed, Exit1, IInv, TypeOK, Steps
    <3>. QED
      BY <1>7, <3>1, <3>2, Zenon DEF SecondSample, listen, samples, IInv, TypeOK
  <2>4. CASE Failed
    BY <2>3, <2>4, FailedIInv
  <2>5. CASE ~Failed
    <3>1. RateIsTraffic'
      <4>. SUFFICES ASSUME pc' = "mem", ~remade, modulus = Width \/ ~wrapped,
                           moved < Width
                    PROVE  rate' = moved
        BY <1>7 DEF SecondSample, machine, samples, RateIsTraffic
      <4>1. moved \in Words
        BY DEF IInv, TypeOK, Words
      <4>2. received = curr + moved \/ received = curr + moved - Width
        BY <1>7 DEF SecondSample, IInv, RxInv
      <4>3. rate' = Minus(received, curr)
        BY <1>7, <2>5 DEF SecondSample, Exit1
      <4>. QED
        BY <2>1, <4>1, <4>2, <4>3, MinusExact
    <3>. QED
      BY <1>7, <2>3, <2>5, <3>1 DEF SecondSample, Exit1, machine, listen, samples, IInv,
         RxInv, TimesInv, NameInv, RamCoversTotal, CpuShares, ExitHasCause
  <2>. QED
    BY <2>4, <2>5
<1>8. CASE MemGet
  <2>1. \/ pc' = "cpu1" /\ failed' = failed /\ ram' \in [sys : Nat, ram : Nat] /\ RamCoversTotal'
        \/ Failed /\ ram' = ram
    <3>1. CASE Failed /\ UNCHANGED ram
      BY <3>1
    <3>2. CASE \E sys \in Totals, mtrr \in Registers :
                 ram' = [sys |-> sys, ram |-> get_ram(sys, mtrr)]
      <4>1. ram' \in [sys : Nat, ram : Nat] /\ RamCoversTotal'
        BY <3>2, RamBounds DEF RamCoversTotal
      <4>. QED
        BY <1>8, <4>1 DEF MemGet
    <3>. QED
      BY <1>8, <3>1, <3>2 DEF MemGet
  <2>2. 0 \in 0..modulus-1 /\ 0 \in Words /\ 0 \in 0..MaxTraffic
    BY Zeros DEF IInv, TypeOK
  <2>3. /\ pc' \in Steps /\ pc' \in {"cpu1", "exited"} /\ failed' \in BOOLEAN
        /\ ram' \in [sys : Nat, ram : Nat]
    BY <2>1 DEF Failed, Exit1, Steps, IInv, TypeOK
  <2>4. TypeOK'
    BY <1>8, <2>2, <2>3, Zenon DEF MemGet, machine, listen, IInv, TypeOK
  <2>5. CASE Failed
    BY <2>4, <2>5, FailedIInv
  <2>6. CASE ~Failed
    <3>1. pc = "mem" /\ pc' = "cpu1" /\ RamCoversTotal'
      BY <1>8, <2>1, <2>6 DEF MemGet
    <3>2. worked' = NoTimes /\ ~wentBack'
      BY <1>8, <3>1 DEF MemGet, IInv, TimesInv
    <3>. QED
      BY <2>4, <3>1, <3>2 DEF IInv, RxInv, TimesInv, NameInv, RateIsTraffic, CpuShares,
         ExitHasCause
  <2>. QED
    BY <2>5, <2>6
<1>9. CASE FirstTimes
  <2>1. /\ pc' \in Steps /\ failed' \in BOOLEAN
        /\ times' \in [Kinds -> Words] /\ prev' \in [Kinds -> Words]
    <3>1. CASE Failed /\ UNCHANGED <<times, prev>>
      BY <3>1 DEF Failed, Exit1, Steps, IInv, TypeOK
    <3>2. CASE /\ pc' = "cpu2" /\ UNCHANGED failed
               /\ times' \in [Kinds -> 0..MaxTicks] /\ prev' = times'
      BY <3>2 DEF Steps, IInv, TypeOK, Words
    <3>. QED
      BY <1>9, <3>1, <3>2 DEF FirstTimes
  <2>2. NoRam \in [sys : Nat, ram : Nat]
    BY Zeros DEF IInv, TypeOK
  <2>3. TypeOK'
    BY <1>9, <2>1, <2>2, Zenon DEF FirstTimes, net, listen, samples, IInv, TypeOK
  <2>4. CASE Failed
    BY <2>3, <2>4, FailedIInv
  <2>5. CASE ~Failed
    <3>1. pc = "cpu1" /\ pc' = "cpu2" /\ times' = prev' /\ worked' = worked
      BY <1>9, <2>5 DEF FirstTimes, samples
    <3>2. worked = NoTimes
      BY <3>1 DEF IInv, TimesInv
    <3>3. \A k \in Kinds : times'[k] \in Int /\ worked'[k] = 0
      BY <2>1, <3>1, <3>2 DEF NoTimes, Words
    <3>4. TimesInv'
      BY <3>1, <3>3 DEF TimesInv
    <3>. QED
      BY <2>3, <3>1, <3>4 DEF IInv, RxInv, NameInv, RateIsTraffic, RamCoversTotal,
         CpuShares, ExitHasCause
  <2>. QED
    BY <2>4, <2>5
<1>10. CASE SecondTimes
  <2>1. \A k \in Kinds : /\ times[k] \in Words /\ prev[k] \in Words /\ worked[k] \in Nat
                         /\ ~wentBack => times[k] = prev[k] + worked[k]
    BY <1>10 DEF SecondTimes, IInv, TypeOK, TimesInv
  <2>2. \A k \in Kinds : Diff(k) \in Words /\ (~wentBack => Diff(k) = worked[k])
    BY <2>1 DEF Diff, Minus, Words
  <2>. DEFINE total == Diff("user") + Diff("idle") + Diff("irq")
              shares == [k \in Kinds |-> <<Diff(k), total>>]
  <2>3. shares \in [Kinds -> Words \X (0..3 * Width)]
    BY <2>2 DEF Kinds, Words
  <2>4. \/ pc' = "done" /\ failed' = failed /\ perc' = shares
        \/ Failed /\ perc' = perc
    BY <1>10 DEF SecondTimes
  <2>5. /\ pc' \in Steps /\ failed' \in BOOLEAN
        /\ perc' \in [Kinds -> Words \X (0..3 * Width)]
    BY <2>3, <2>4 DEF Failed, Exit1, Steps, IInv, TypeOK
  <2>6. TypeOK'
    BY <1>10, <2>5, Zenon DEF SecondTimes, machine, net, listen, samples, IInv, TypeOK
  <2>7. CASE Failed
    BY <2>6, <2>7, FailedIInv
  <2>8. CASE ~Failed
    <3>1. pc' = "done" /\ perc' = shares
      BY <2>4, <2>8
    <3>2. CpuShares'
      BY <1>10, <2>2, <3>1 DEF SecondTimes, CpuShares, samples, Kinds
    <3>. QED
      BY <1>10, <2>6, <3>1, <3>2 DEF SecondTimes, machine, net, listen, samples, IInv, RxInv,
         TimesInv, NameInv, RateIsTraffic, RamCoversTotal, ExitHasCause
  <2>. QED
    BY <2>7, <2>8
<1>11. CASE Begin
  <2>1. /\ 0 \in 0..modulus-1 /\ 0 \in 0..MaxTraffic /\ 0 \in 0..MaxRows /\ pc' \in Steps
        /\ NoTimes \in [Kinds -> Words] /\ NoTimes \in [Kinds -> 0..MaxWork]
        /\ NoPerc \in [Kinds -> Words \X (0..3 * Width)]
    BY <1>11, Zeros DEF Begin, IInv, TypeOK, Steps
  <2>2. TypeOK'
    BY <1>11, <2>1, Zenon DEF Begin, IInv, TypeOK
  <2>. QED
    BY <1>11, <2>2 DEF Begin, IInv, RxInv, TimesInv, NameInv, RateIsTraffic,
       RamCoversTotal, CpuShares, ExitHasCause
<1>. QED
  BY <1>1, <1>2, <1>3, <1>4, <1>5, <1>6, <1>7, <1>8, <1>9, <1>10, <1>11 DEF Probe

(* The inductive invariant holds in every reachable state. *)
THEOREM Invariance == Spec => []IInv
<1>1. IInv /\ UNCHANGED vars => IInv'
  BY DEF vars, machine, net, listen, samples, history, IInv, TypeOK, RxInv, TimesInv, NameInv,
     RateIsTraffic, RamCoversTotal, CpuShares, ExitHasCause
<1>2. IInv /\ [Next]_vars => IInv'
  BY <1>1, MachineIInv, ProbeIInv DEF Next
<1>. QED
  BY InitIInv, <1>2, PTL DEF Spec

(* Every variable the probes compute with keeps its type and its width. *)
THEOREM TypeCorrect == Spec => []TypeOK
BY Invariance, PTL DEF IInv

(* For every width: the rate is the traffic between the samples, unless    *)
(* the kernel's narrower counter wrapped or the interface was made again.  *)
THEOREM RateIsExact == Spec => []RateIsTraffic
BY Invariance, PTL DEF IInv

(* For every memory: the reported size covers it. *)
THEOREM RamIsCovered == Spec => []RamCoversTotal
BY Invariance, PTL DEF IInv

(* For every width: the shares are those of the ticks between the samples. *)
THEOREM SharesAreExact == Spec => []CpuShares
BY Invariance, PTL DEF IInv

(* For every set of interfaces and aliases: while no call fails, only a    *)
(* machine that lacks or loses an interface, or has none with an address   *)
(* but by an alias, ends the program.                                      *)
THEOREM ExitsHaveCauses == Spec => []ExitHasCause
BY Invariance, PTL DEF IInv
-----------------------------------------------------------------------------
(* The table of listening ports is one in every reachable state, and each *)
(* step is one of the map from ports to addresses or none. *)
LEMMA InitTable == Init => ValidTable(net_listen) /\ P!Init
<1>1. Ports \subseteq Nat /\ TableSize \in Nat \ {0}
  OBVIOUS
<1>2. /\ ValidTable(NoTable)
      /\ \A port \in Ports : sigar_cache_find(NoTable, port) = NULL
  BY <1>1, NewTable DEF NoTable
<1>. QED
  BY <1>2 DEF Init, P!Init

LEMMA TableStep ==
  TypeOK /\ ValidTable(net_listen) /\ [Next]_vars =>
    ValidTable(net_listen)' /\ [P!Next]_(P!vars)
<1>. SUFFICES ASSUME TypeOK, ValidTable(net_listen), [Next]_vars
              PROVE  ValidTable(net_listen)' /\ [P!Next]_(P!vars)
  OBVIOUS
<1>1. CASE WalkListening
  <2>1. PICK port \in Ports :
          /\ net_listen' = sigar_net_listen_address_add(net_listen, port, family)
          /\ heard' = heard \cup {<<port, family>>}
    BY <1>1 DEF WalkListening
  <2>2. port \in Nat /\ family \in {"inet", "inet6"}
    BY DEF TypeOK
  <2>3. /\ ValidTable(net_listen')
        /\ \A k \in Nat :
             sigar_cache_find(net_listen', k) =
               IF k = port /\ (family = "inet" \/ sigar_cache_find(net_listen, port) = NULL)
               THEN family ELSE sigar_cache_find(net_listen, k)
    BY <2>1, <2>2, AddFinds
  <2>4. P!Listen(port, family)
    <3>. DEFINE address == [k \in Ports |-> sigar_cache_find(net_listen, k)]
    <3>1. \A k \in Ports :
            sigar_cache_find(net_listen', k) =
              IF k = port /\ (family = "inet" \/ sigar_cache_find(net_listen, port) = NULL)
              THEN family ELSE sigar_cache_find(net_listen, k)
      BY <2>3
    <3>2. [k \in Ports |-> sigar_cache_find(net_listen', k)] =
            IF family = "inet" \/ address[port] = NULL
            THEN [address EXCEPT ![port] = family] ELSE address
      BY <3>1
    <3>. QED
      BY <2>1, <3>2 DEF P!Listen
  <2>. QED
    BY <2>2, <2>3, <2>4 DEF P!Next
<1>2. CASE WalkNextFile
  <2>1. CASE family = "inet"
    BY <1>2, <2>1 DEF WalkNextFile, P!vars
  <2>2. CASE family # "inet"
    <3>1. /\ ValidTable(NoTable)
          /\ \A port \in Ports : sigar_cache_find(NoTable, port) = NULL
      BY NewTable DEF NoTable
    <3>2. net_listen' = NoTable /\ heard' = {}
      BY <1>2, <2>2 DEF WalkNextFile
    <3>3. P!Close
      BY <3>1, <3>2 DEF P!Close
    <3>. QED
      BY <3>1, <3>2, <3>3 DEF P!Next
  <2>. QED
    BY <2>1, <2>2
<1>3. CASE Begin
  <2>1. /\ ValidTable(NoTable)
        /\ \A port \in Ports : sigar_cache_find(NoTable, port) = NULL
    BY NewTable DEF NoTable
  <2>2. net_listen' = NoTable /\ heard' = {}
    BY <1>3 DEF Begin
  <2>3. P!Close
    BY <2>1, <2>2 DEF P!Close
  <2>. QED
    BY <2>1, <2>2, <2>3 DEF P!Next
<1>4. CASE ~WalkListening /\ ~WalkNextFile /\ ~Begin
  <2>1. UNCHANGED <<net_listen, heard>>
    BY <1>4 DEF Next, Machine, Probe, WalkFails, Failed, Unplug, Plug, Readdress, Receive, Work, SetBack,
       CheckPrimary, TakePrimary, FirstSample, SecondSample, MemGet, FirstTimes,
       SecondTimes, Exit1, machine, net, listen, vars
  <2>. QED
    BY <2>1 DEF P!vars
<1>. QED
  BY <1>1, <1>2, <1>3, <1>4

(* For every set of ports and every size of a table, whatever collides and *)
(* however often it grows: the hash table is the map. *)
THEOREM ListensAsMap == Spec => ListenSpec
<1>1. TypeOK /\ ValidTable(net_listen) /\ [Next]_vars => ValidTable(net_listen)'
  BY TableStep
<1>2. Spec => []ValidTable(net_listen)
  BY InitTable, TypeCorrect, <1>1, PTL DEF Spec
<1>. QED
  BY InitTable, TypeCorrect, TableStep, <1>2, PTL DEF Spec, ListenSpec, P!Spec
=============================================================================
