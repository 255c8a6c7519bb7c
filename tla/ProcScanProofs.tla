--------------------------- MODULE ProcScanProofs ---------------------------
(***************************************************************************)
(* The inductive invariant of ProcScan, for every number of pids, life of  *)
(* the cache entry and bound, and the properties that follow from it.      *)
(***************************************************************************)
EXTENDS ProcScan, TLAPS

(* The process that has a pid is a source of data, and owns what is read.  *)
LEMMA ProcessSource ==
  ASSUME TypeOK, NEW p \in alive
  PROVE  Process(p) \in Sources /\ Own(Process(p), p)
<1>1. p \in Pids /\ births[p] \in 1..MaxBirths
  BY DEF TypeOK
<1>2. Process(p) \in Pids \X (1..MaxBirths)
  BY <1>1 DEF Process
<1>3. Process(p)[1] = p /\ Process(p)[2] \in 1..births[p]
  BY <1>1, BoundAssumption DEF Process
<1> QED BY <1>2, <1>3 DEF Sources, Own

LEMMA RecordTyped ==
  ASSUME TypeOK, NEW i \in 1..Len(records)
  PROVE  /\ records[i].pid \in Pids /\ records[i].age \in Ages
         /\ records[i].data \in Procs
<1> DEFINE R == [pid : Pids, age : Ages, data : Procs]
<1>1. records \in Seq(R)
  BY DEF TypeOK
<1>2. records[i] \in R
  <2> HIDE DEF R
  <2> QED BY <1>1
<1> QED BY <1>2

LEMMA GarbageSource == Garbage \in Sources
BY DEF Sources

(* What proc_stat_read does to the cache, found or read. *)
LEMMA StatRead ==
  ASSUME TypeOK, CacheInv, NotStale, NEW ok \in BOOLEAN, proc_stat_read(ok),
         pc \notin {"idle", "list"}, proclist # <<>>, UNCHANGED <<births, now, setBack>>
  PROVE  /\ pid \in Pids
         /\ cache' \in [pid : Pids \cup {-1}, mtime : -1..MaxTime, source : Sources,
                        readAt : 0..MaxTime]
         /\ cache'.pid = pid /\ cache'.readAt <= now
         /\ failed \subseteq failed' /\ failed' \subseteq failed \cup {pid}
         /\ faults' \in 0..MaxFaults
         /\ pid \notin failed' => Own(cache'.source, pid)
         /\ setBack = 0 /\ pid \notin failed' =>
              cache'.mtime = cache'.readAt /\ now - cache'.readAt < Expire
<1> DEFINE p == pid
<1>1. p \in Pids
  BY DEF TypeOK, pid
<1>2. now \in 0..MaxTime /\ setBack \in {0, 1} /\ clock \in -1..MaxTime
  BY TimeAssumption DEF TypeOK, clock
<1>3. cache.source \in Sources /\ cache.readAt \in 0..MaxTime /\ cache.mtime \in -1..MaxTime
      /\ cache.pid \in Pids \cup {-1}
  BY DEF TypeOK
<1>4. faults \in 0..MaxFaults
  BY DEF TypeOK
<1>5. CASE cache.pid = p /\ Fresh
  <2>1. UNCHANGED <<cache, failed, faults>>
    BY <1>5 DEF proc_stat_read
  <2>2. p \notin failed => Own(cache.source, p) /\ (setBack = 0 => cache.mtime = cache.readAt)
    BY <1>1, <1>5 DEF CacheInv
  <2>3. setBack = 0 /\ p \notin failed => now - cache.readAt < Expire
    BY <2>2, <1>5, <1>2, <1>3 DEF Fresh, clock
  <2> QED BY <2>1, <2>2, <2>3, <1>1, <1>4, <1>5 DEF TypeOK, CacheInv
<1>6. CASE ~(cache.pid = p /\ Fresh)
  <2>1. ReadFile(p, ok)
        /\ cache' = [pid |-> p, mtime |-> clock,
                     source |-> IF ok THEN Process(p) ELSE cache.source,
                     readAt |-> IF ok THEN now ELSE cache.readAt]
    BY <1>6 DEF proc_stat_read
  <2>2. /\ failed \subseteq failed' /\ failed' \subseteq failed \cup {p}
        /\ faults' \in 0..MaxFaults
        /\ ~ok => p \in failed'
        /\ ok => p \in alive
    BY <2>1, <1>4, BoundAssumption DEF ReadFile
  <2>3. ok => Process(p) \in Sources /\ Own(Process(p), p)
    BY <2>2, ProcessSource
  <2>4. cache.readAt <= now
    BY DEF CacheInv
  <2>5. cache'.pid = p /\ cache'.mtime = clock
        /\ cache'.source \in Sources /\ (ok => cache'.source = Process(p))
        /\ cache'.readAt \in 0..MaxTime /\ cache'.readAt <= now /\ (ok => cache'.readAt = now)
    BY <2>1, <2>3, <2>4, <1>2, <1>3
  <2>6. cache' \in [pid : Pids \cup {-1}, mtime : -1..MaxTime, source : Sources,
                        readAt : 0..MaxTime]
    BY <2>1, <2>3, <1>1, <1>2, <1>3
  <2>7. ok /\ setBack = 0 => cache'.mtime = cache'.readAt /\ now - cache'.readAt < Expire
    BY <2>5, <1>2, TimeAssumption DEF clock
  <2> QED BY <1>1, <2>2, <2>3, <2>5, <2>6, <2>7
<1> QED BY <1>5, <1>6

(* The age of what is copied is noted, those of the other data are kept.   *)
LEMMA AgeNoted ==
  ASSUME TypeOK, NEW datum \in Cached, Copy(datum),
         cache'.readAt \in 0..MaxTime, cache'.readAt <= now
  PROVE  /\ ages' \in Ages
         /\ ages'[datum] = now - cache'.readAt
         /\ \A d \in Cached : d # datum => ages'[d] = ages[d]
<1>1. now \in 0..MaxTime /\ ages \in Ages
  BY DEF TypeOK
<1>2. now - cache'.readAt \in 0..MaxTime
  BY <1>1, TimeAssumption
<1>3. ages' = [ages EXCEPT ![datum] = now - cache'.readAt]
  BY DEF Copy
<1> QED BY <1>1, <1>2, <1>3 DEF Ages

LEMMA FileRead ==
  ASSUME TypeOK, NEW p \in Pids, NEW ok \in BOOLEAN, ReadFile(p, ok)
  PROVE  /\ failed \subseteq failed' /\ failed' \subseteq failed \cup {p}
         /\ failed' \subseteq Pids
         /\ faults' \in 0..MaxFaults
         /\ ok => p \in alive
         /\ ~ok => p \in failed'
BY BoundAssumption DEF ReadFile, TypeOK

LEMMA Initial == Init => IInv
<1> SUFFICES ASSUME Init PROVE IInv
  OBVIOUS
<1> USE PidAssumption, TimeAssumption, BoundAssumption
<1>1. Garbage \in Sources
  BY GarbageSource
<1>2. NoProc \in Procs /\ NoAges \in Ages
  BY <1>1 DEF NoProc, Procs, NoAges, Ages
<1>3. NoCache \in [pid : Pids \cup {-1}, mtime : -1..MaxTime, source : Sources,
                   readAt : 0..MaxTime]
  BY <1>1 DEF NoCache
<1>4. births \in [Pids -> 0..MaxBirths] /\ \A p \in alive : births[p] > 0
  BY DEF Init
<1>5. cursor \in 1..MaxPid+1
  BY DEF Init
<1>6. TypeOK
  BY <1>2, <1>3, <1>4, <1>5 DEF Init, TypeOK
<1>7. CacheInv
  BY DEF Init, CacheInv, NoCache, Pids
<1>8. ProcInv /\ AgesInv /\ RecordsInv /\ NotStale /\ Ascending
  BY DEF Init, ProcInv, AgesInv, RecordsInv, NotStale, Ascending
<1>9. Complete
  BY DEF Init, Complete, Pids
<1> QED BY <1>6, <1>7, <1>8, <1>9 DEF IInv

(* The machine: a process that ends takes nothing with it that was read,   *)
(* one that starts is not a survivor.                                      *)
LEMMA MachineStep == IInv /\ Machine => IInv'
<1> SUFFICES ASSUME IInv, Machine PROVE IInv'
  OBVIOUS
<1> USE PidAssumption, TimeAssumption, BoundAssumption
<1>0. UNCHANGED <<hack, pc, cursor, proclist, cache, proc, ages, records, failed, faults>>
  BY DEF Machine, Exit, Fork, Tick, ClockSetBack
<1>1. /\ alive' \subseteq Pids /\ survivors' \subseteq alive' /\ survivors' \subseteq survivors
      /\ births' \in [Pids -> 0..MaxBirths] /\ \A p \in alive' : births'[p] > 0
      /\ \A p \in Pids : births[p] <= births'[p]
      /\ now' \in 0..MaxTime /\ now <= now' /\ setBack' \in {0, 1}
      /\ setBack' = 0 => setBack = 0
  <2>1. CASE \E p \in Pids : Exit(p)
    BY <2>1 DEF Exit, IInv, TypeOK
  <2>2. CASE \E p \in Pids : Fork(p)
    <3> PICK p \in Pids : Fork(p)
      BY <2>2
    <3>1. births[p] \in 0..MaxBirths /\ births[p] < MaxBirths
      BY DEF Fork, IInv, TypeOK
    <3> QED BY <3>1 DEF Fork, IInv, TypeOK
  <2>3. CASE Tick
    BY <2>3 DEF Tick, IInv, TypeOK
  <2>4. CASE ClockSetBack
    BY <2>4 DEF ClockSetBack, IInv, TypeOK
  <2> QED BY <2>1, <2>2, <2>3, <2>4 DEF Machine
<1>2. TypeOK'
  BY <1>0, <1>1 DEF IInv, TypeOK
<1>3. ASSUME NEW source \in Sources, NEW p \in Pids, Own(source, p)
      PROVE  Own(source, p)'
  BY <1>1, <1>3 DEF Own, IInv, TypeOK
<1>4. cache.source \in Sources /\ proc \in Procs /\ (pc \notin {"idle", "list", "mem"} => pid \in Pids)
  BY DEF IInv, TypeOK, pid
<1>5. cache.readAt <= now'
  <2>1. cache.readAt \in 0..MaxTime /\ now \in 0..MaxTime /\ cache.readAt <= now
    BY DEF IInv, TypeOK, CacheInv
  <2> QED BY <2>1, <1>1
<1>6. CacheInv'
  BY <1>0, <1>1, <1>3, <1>4, <1>5 DEF IInv, CacheInv, pid
<1>7. ProcInv' /\ AgesInv'
  <2>1. ProcInv'
    BY <1>0, <1>3, <1>4 DEF IInv, ProcInv, Procs, pid
  <2>2. AgesInv'
    BY <1>0, <1>1 DEF IInv, AgesInv, pid
  <2> QED BY <2>1, <2>2
<1>8. RecordsInv'
  <2> SUFFICES ASSUME NEW i \in 1..Len(records), records[i].pid \notin failed,
                      NEW f \in DOMAIN NoProc
               PROVE  Own(records[i].data[f], records[i].pid)'
    BY <1>0 DEF RecordsInv
  <2>1. Own(records[i].data[f], records[i].pid)
    BY DEF IInv, RecordsInv
  <2>2. records[i].pid \in Pids /\ records[i].data \in Procs
    BY RecordTyped DEF IInv
  <2>3. records[i].data[f] \in Sources
    BY <2>2 DEF Procs, NoProc
  <2> DEFINE s == records[i].data[f]
             p == records[i].pid
  <2>4. s[1] = p /\ s[2] \in 1..births[p]
    BY <2>1 DEF Own
  <2>5. births[p] <= births'[p] /\ births[p] \in 0..MaxBirths /\ births'[p] \in 0..MaxBirths
    <3>1. births \in [Pids -> 0..MaxBirths]
      BY DEF IInv, TypeOK
    <3> QED BY <2>2, <3>1, <1>1
  <2>6. s[2] \in 1..births'[p]
    BY <2>4, <2>5
  <2> QED BY <2>4, <2>6, <1>0 DEF Own
<1>9. NotStale' /\ Ascending'
  BY <1>0, <1>1 DEF IInv, NotStale, Ascending
<1>10. Complete'
  BY <1>0, <1>1 DEF IInv, Complete
<1> QED BY <1>2, <1>6, <1>7, <1>8, <1>9, <1>10 DEF IInv

(* The two sequence operations of the scan. *)
LEMMA AppendFacts ==
  ASSUME NEW S, NEW s \in Seq(S), NEW e \in S
  PROVE  /\ Append(s, e) \in Seq(S) /\ Len(Append(s, e)) = Len(s) + 1
         /\ Append(s, e)[Len(s) + 1] = e
         /\ \A i \in 1..Len(s) : Append(s, e)[i] = s[i]
OBVIOUS

LEMMA TailFacts ==
  ASSUME NEW S, NEW s \in Seq(S), s # <<>>
  PROVE  /\ Tail(s) \in Seq(S) /\ Len(Tail(s)) = Len(s) - 1 /\ Len(s) \in Nat \ {0}
         /\ Head(s) = s[1] /\ s[1] \in S
         /\ \A i \in 1..Len(Tail(s)) : Tail(s)[i] = s[i + 1]
OBVIOUS

(* Opening libsigar and listing /proc. *)
LEMMA ListStep ==
  ASSUME IInv, StartScan \/ ListFails \/ sigar_os_proc_list_get \/ ListEnds
  PROVE  IInv'
<1> USE PidAssumption, TimeAssumption, BoundAssumption
<1>1. CASE StartScan
  <2> USE <1>1 DEF StartScan
  <2>1. NoProc \in Procs /\ NoAges \in Ages
    BY GarbageSource, TimeAssumption DEF NoProc, Procs, NoAges, Ages
  <2>2. NoCache \in [pid : Pids \cup {-1}, mtime : -1..MaxTime, source : Sources,
                     readAt : 0..MaxTime]
    BY GarbageSource DEF NoCache
  <2>3. births' \in [Pids -> 0..MaxBirths] /\ \A p \in alive' : births'[p] > 0
    BY DEF IInv, TypeOK
  <2>4. TypeOK'
    BY <2>1, <2>2, <2>3 DEF IInv, TypeOK
  <2>5. CacheInv'
    BY DEF CacheInv, NoCache, Pids
  <2>6. ProcInv' /\ AgesInv' /\ RecordsInv' /\ NotStale' /\ Ascending'
    BY DEF ProcInv, AgesInv, RecordsInv, NotStale, Ascending
  <2>7. Complete'
    BY DEF Complete, IInv, TypeOK, Pids
  <2> QED BY <2>4, <2>5, <2>6, <2>7 DEF IInv
<1>2. CASE ListFails
  <2> USE <1>2 DEF ListFails, kernel
  <2>1. TypeOK' /\ CacheInv' /\ ProcInv' /\ AgesInv' /\ RecordsInv' /\ NotStale' /\ Ascending'
    BY DEF IInv, TypeOK, CacheInv, ProcInv, AgesInv, RecordsInv, NotStale, Ascending, Own
  <2>2. Complete'
    <3>1. CASE MaxPid = 0
      <4>1. proclist \in Seq(Pids) /\ Pids = {}
        BY <3>1 DEF IInv, TypeOK, Pids
      <4>2. proclist = <<>>
        BY <4>1
      <4> QED BY <4>1, <4>2 DEF Complete, IInv, TypeOK
    <3>2. CASE MaxPid # 0
      BY <3>2 DEF Complete
    <3> QED BY <3>1, <3>2
  <2> QED BY <2>1, <2>2 DEF IInv
<1>3. CASE sigar_os_proc_list_get
  <2>0. /\ pc = "list" /\ cursor \in Pids /\ cursor' = cursor + 1 /\ cursor' \in 1..MaxPid+1
        /\ UNCHANGED <<kernel, pc, cache, proc, ages, records>>
    BY <1>3 DEF sigar_os_proc_list_get, IInv, TypeOK, Pids
  <2>1. /\ failed \subseteq failed' /\ failed' \subseteq Pids /\ faults' \in 0..MaxFaults
        /\ proclist' \in {proclist, Append(proclist, cursor)}
        /\ cursor \in alive \ failed' /\ ~(hack /\ cursor \in Clones)
             => proclist' = Append(proclist, cursor)
    <3>1. CASE cursor \notin alive
      BY <1>3, <3>1 DEF sigar_os_proc_list_get, IInv, TypeOK
    <3>2. CASE cursor \in alive
      <4> PICK ok \in BOOLEAN :
            /\ IF hack THEN ReadFile(cursor, ok) ELSE ok /\ UNCHANGED <<failed, faults>>
            /\ proclist' = IF proc_isthread(cursor, ok) THEN proclist
                           ELSE Append(proclist, cursor)
        BY <1>3, <3>2 DEF sigar_os_proc_list_get
      <4>1. CASE hack
        BY <4>1, <2>0, FileRead DEF proc_isthread, IInv
      <4>2. CASE ~hack
        BY <4>2 DEF proc_isthread, IInv, TypeOK
      <4> QED BY <4>1, <4>2 DEF IInv, TypeOK
    <3> QED BY <3>1, <3>2
  <2>2. /\ proclist \in Seq(Pids) /\ proclist' \in Seq(Pids)
        /\ \A i \in 1..Len(proclist) : i \in 1..Len(proclist') /\ proclist'[i] = proclist[i]
        /\ \A i \in 1..Len(proclist') : i \in 1..Len(proclist) \/ (proclist'[i] = cursor /\ i = Len(proclist) + 1)
        /\ proclist' = Append(proclist, cursor) =>
             Len(proclist) + 1 \in 1..Len(proclist') /\ proclist'[Len(proclist) + 1] = cursor
    <3>1. proclist \in Seq(Pids) /\ Len(proclist) \in Nat
      BY DEF IInv, TypeOK
    <3>2. CASE proclist' = proclist /\ proclist # Append(proclist, cursor)
      BY <3>1, <3>2
    <3>3. CASE proclist' = Append(proclist, cursor)
      <4>1. /\ proclist' \in Seq(Pids) /\ Len(proclist') = Len(proclist) + 1
            /\ proclist'[Len(proclist) + 1] = cursor
            /\ \A i \in 1..Len(proclist) : proclist'[i] = proclist[i]
        BY <3>1, <3>3, <2>0, AppendFacts
      <4> QED BY <4>1, <3>1
    <3> QED BY <2>1, <3>2, <3>3
  <2>3. TypeOK'
    BY <2>0, <2>1, <2>2 DEF kernel, IInv, TypeOK
  <2>4. CacheInv'
    BY <2>0, <2>1 DEF kernel, IInv, CacheInv, Own
  <2>5. ProcInv' /\ AgesInv' /\ RecordsInv' /\ NotStale'
    BY <2>0, <2>1 DEF kernel, IInv, ProcInv, AgesInv, RecordsInv, NotStale, Ascending
  <2>6. Ascending'
    <3>1. records' = <<>>
      BY <2>0 DEF IInv, Ascending
    <3>2. /\ \A i \in 1..Len(proclist) : proclist[i] \in Int /\ proclist[i] < cursor
          /\ \A i, j \in 1..Len(proclist) : i < j => proclist[i] < proclist[j]
          /\ cursor \in Int /\ cursor' = cursor + 1 /\ Len(proclist) \in Nat /\ Len(proclist') \in Nat
      BY <2>0, <2>2 DEF Pids, IInv, Ascending
    <3>3. \A i \in 1..Len(proclist') : proclist'[i] < cursor'
      BY <2>2, <3>2
    <3>4. \A i, j \in 1..Len(proclist') : i < j => proclist'[i] < proclist'[j]
      <4> TAKE i, j \in 1..Len(proclist')
      <4> HAVE i < j
      <4>1. CASE j \in 1..Len(proclist)
        <5>1. i \in 1..Len(proclist)
          BY <4>1, <3>2
        <5> QED BY <4>1, <5>1, <2>2, <3>2
      <4>2. CASE proclist'[j] = cursor /\ j = Len(proclist) + 1
        <5>1. i \in 1..Len(proclist)
          BY <4>2, <3>2
        <5> QED BY <4>2, <5>1, <2>2, <3>2
      <4> QED BY <4>1, <4>2, <2>2
    <3> QED BY <3>1, <3>3, <3>4 DEF Ascending
  <2>7. Complete'
    <3> SUFFICES ASSUME NEW p \in survivors \ failed', ~(hack /\ p \in Clones)
                 PROVE  p >= cursor' \/ \E i \in 1..Len(proclist') : proclist'[i] = p
      BY <2>0 DEF Complete, kernel
    <3>1. p \in alive /\ p \in Pids /\ p \notin failed
      BY <2>1 DEF IInv, TypeOK
    <3>2. CASE p = cursor
      BY <3>1, <3>2, <2>1, <2>2
    <3>3. CASE p # cursor
      <4>1. p >= cursor \/ \E i \in 1..Len(proclist) : proclist[i] = p
        <5>1. p \in survivors \ failed /\ pc = "list" /\ records = <<>>
          BY <3>1, <2>0 DEF IInv, Ascending
        <5> QED BY <5>1 DEF IInv, Complete
      <4>2. CASE p >= cursor
        BY <4>2, <3>1, <3>3, <2>0 DEF Pids
      <4>3. CASE \E i \in 1..Len(proclist) : proclist[i] = p
        BY <4>3, <2>2
      <4> QED BY <4>1, <4>2, <4>3
    <3> QED BY <3>2, <3>3
  <2> QED BY <2>3, <2>4, <2>5, <2>6, <2>7 DEF IInv
<1>4. CASE ListEnds
  BY <1>4 DEF ListEnds, kernel, IInv, TypeOK, CacheInv, ProcInv, AgesInv, RecordsInv, NotStale,
              Ascending, Complete, Own, Pids
<1> QED BY <1>1, <1>2, <1>3, <1>4

(* A process is done with: it is recorded, or one of its files could not   *)
(* be read.                                                                *)
LEMMA DoneWith ==
  ASSUME IInv, pc \notin {"idle", "list"}, pc' = "mem", proclist # <<>>,
         proclist' = Tail(proclist), failed \subseteq failed',
         UNCHANGED <<hack, survivors, cursor>>,
         NEW r \in [pid : Pids, age : Ages, data : Procs], r.pid = pid,
         \/ records' = records /\ pid \in failed'
         \/ records' = Append(records, r)
  PROVE  Ascending' /\ Complete'
<1>1. /\ proclist' \in Seq(Pids) /\ Len(proclist') = Len(proclist) - 1 /\ Len(proclist) \in Nat \ {0}
      /\ pid = proclist[1] /\ pid \in Pids
      /\ \A i \in 1..Len(proclist') : proclist'[i] = proclist[i + 1] /\ i + 1 \in 1..Len(proclist)
  <2>1. proclist \in Seq(Pids)
    BY DEF IInv, TypeOK
  <2> QED BY <2>1, TailFacts DEF pid
<1>2. /\ \A i \in 1..Len(proclist) : proclist[i] \in Int /\ proclist[i] < cursor
      /\ \A i, j \in 1..Len(proclist) : i < j => proclist[i] < proclist[j]
      /\ \A i, j \in 1..Len(records) : i < j => records[i].pid < records[j].pid
      /\ \A i \in 1..Len(records), j \in 1..Len(proclist) : records[i].pid < proclist[j]
      /\ \A i \in 1..Len(records) : records[i].pid \in Int
      /\ Len(records) \in Nat
  <2>1. \A i \in 1..Len(records) : records[i].pid \in Int
    BY RecordTyped DEF IInv, Pids
  <2>2. \A i \in 1..Len(proclist) : proclist[i] \in Int
    <3>1. proclist \in Seq(Pids)
      BY DEF IInv, TypeOK
    <3>2. \A i \in 1..Len(proclist) : proclist[i] \in Pids
      BY <3>1
    <3> QED BY <3>2, PidAssumption DEF Pids
  <2>3. Len(records) \in Nat
    BY DEF IInv, TypeOK
  <2> QED BY <2>1, <2>2, <2>3 DEF IInv, Ascending
<1>3. /\ Len(records') \in Nat
      /\ \A i \in 1..Len(records) : i \in 1..Len(records') /\ records'[i] = records[i]
      /\ \A i \in 1..Len(records') : i \in 1..Len(records)
                                    \/ (records'[i].pid = pid /\ i = Len(records) + 1)
      /\ pid \in failed' \/ \E i \in 1..Len(records') : records'[i].pid = pid
  <2>1. records \in Seq([pid : Pids, age : Ages, data : Procs])
    BY DEF IInv, TypeOK
  <2>2. CASE records' = records /\ pid \in failed'
    BY <2>2, <1>2
  <2>3. CASE records' = Append(records, r)
    <3>1. /\ Len(records') = Len(records) + 1 /\ records'[Len(records) + 1] = r
          /\ \A i \in 1..Len(records) : records'[i] = records[i]
      BY <2>1, <2>3, AppendFacts
    <3>2. Len(records) \in Nat /\ Len(records) + 1 \in 1..Len(records')
      BY <3>1, <1>2
    <3>3. records'[Len(records) + 1].pid = pid
      BY <3>1
    <3> QED BY <3>1, <3>2, <3>3
  <2> QED BY <2>2, <2>3
<1>4. Ascending'
  <2>1. \A i, j \in 1..Len(proclist') : i < j => proclist'[i] < proclist'[j]
    BY <1>1, <1>2
  <2>2. \A i \in 1..Len(proclist') : proclist'[i] < cursor'
    BY <1>1, <1>2
  <2>3. \A i \in 1..Len(records'), j \in 1..Len(proclist') : records'[i].pid < proclist'[j]
    <3> TAKE i \in 1..Len(records'), j \in 1..Len(proclist')
    <3>1. CASE i \in 1..Len(records)
      BY <3>1, <1>1, <1>2, <1>3
    <3>2. CASE records'[i].pid = pid
      <4>1. 1 \in 1..Len(proclist) /\ j + 1 \in 1..Len(proclist) /\ 1 < j + 1
        BY <1>1
      <4> QED BY <3>2, <4>1, <1>1, <1>2
    <3> QED BY <3>1, <3>2, <1>3
  <2>4. \A i, j \in 1..Len(records') : i < j => records'[i].pid < records'[j].pid
    <3> TAKE i, j \in 1..Len(records')
    <3> HAVE i < j
    <3>1. i \in 1..Len(records)
      BY <1>2, <1>3
    <3>2. CASE j \in 1..Len(records)
      BY <3>1, <3>2, <1>2, <1>3
    <3>3. CASE records'[j].pid = pid
      <4>1. 1 \in 1..Len(proclist)
        BY <1>1
      <4> QED BY <3>1, <3>3, <4>1, <1>1, <1>2, <1>3
    <3> QED BY <3>2, <3>3, <1>3
  <2> QED BY <2>1, <2>2, <2>3, <2>4 DEF Ascending
<1>5. Complete'
  <2> SUFFICES ASSUME NEW p \in survivors \ failed', ~(hack /\ p \in Clones)
               PROVE  \/ p >= cursor'
                      \/ \E i \in 1..Len(proclist') : proclist'[i] = p
                      \/ \E i \in 1..Len(records') : records'[i].pid = p
    BY DEF Complete, IInv
  <2>1. \/ p >= cursor
        \/ \E i \in 1..Len(proclist) : proclist[i] = p
        \/ \E i \in 1..Len(records) : records[i].pid = p
    BY DEF IInv, Complete
  <2>2. CASE p >= cursor
    BY <2>2
  <2>3. CASE \E i \in 1..Len(proclist) : proclist[i] = p
    <3> PICK i \in 1..Len(proclist) : proclist[i] = p
      BY <2>3
    <3>1. CASE i = 1
      BY <3>1, <1>1, <1>3
    <3>2. CASE i # 1
      <4>1. i - 1 \in 1..Len(proclist') /\ proclist'[i - 1] = p
        BY <3>2, <1>1
      <4> QED BY <4>1
    <3> QED BY <3>1, <3>2
  <2>4. CASE \E i \in 1..Len(records) : records[i].pid = p
    BY <2>4, <1>3
  <2> QED BY <2>1, <2>2, <2>3, <2>4
<1> QED BY <1>4, <1>5

(* What is known before and after a step that reads a file. *)
LEMMA OwnKept ==
  ASSUME UNCHANGED births, NEW source, NEW p, Own(source, p)
  PROVE  Own(source, p)'
BY DEF Own

LEMMA RecordsKept ==
  ASSUME IInv, UNCHANGED <<births, setBack, records>>, failed \subseteq failed'
  PROVE  RecordsInv' /\ NotStale'
BY DEF IInv, RecordsInv, NotStale, Own

LEMMA OrderKept ==
  ASSUME IInv, UNCHANGED <<hack, survivors, cursor, proclist, records>>,
         failed \subseteq failed', pc \notin {"idle", "list"}, pc' \notin {"idle", "list"}
  PROVE  Ascending' /\ Complete'
BY DEF IInv, Ascending, Complete

LEMMA MemFaultsStep == ASSUME IInv, MemFaults PROVE IInv'
<1>1. PICK ok \in BOOLEAN : proc_stat_read(ok)
  BY DEF MemFaults
<1>2. /\ pc = "mem" /\ proclist # <<>> /\ pc' = "statm" /\ UNCHANGED <<kernel, cursor, proclist, records>>
      /\ proc' = [proc EXCEPT !.faults = cache'.source] /\ Copy("faults")
  BY DEF MemFaults, Copy
<1>3. /\ pid \in Pids
      /\ cache' \in [pid : Pids \cup {-1}, mtime : -1..MaxTime, source : Sources,
                     readAt : 0..MaxTime]
      /\ cache'.pid = pid /\ cache'.readAt <= now
      /\ failed \subseteq failed' /\ failed' \subseteq failed \cup {pid}
      /\ faults' \in 0..MaxFaults
      /\ pid \notin failed' => Own(cache'.source, pid)
      /\ setBack = 0 /\ pid \notin failed' =>
           cache'.mtime = cache'.readAt /\ now - cache'.readAt < Expire
  BY <1>1, <1>2, StatRead DEF IInv, kernel
<1>4. proc' \in Procs /\ proc'.faults = cache'.source
  <2>1. proc \in Procs /\ cache'.source \in Sources
    BY <1>3 DEF IInv, TypeOK
  <2> QED BY <2>1, <1>2 DEF Procs
<1>a. ages' \in Ages /\ ages'["faults"] = now - cache'.readAt
  BY <1>2, <1>3, AgeNoted DEF IInv, Cached
<1>5. TypeOK'
  BY <1>2, <1>3, <1>4, <1>a DEF IInv, TypeOK, kernel
<1>6. CacheInv'
  BY <1>2, <1>3, OwnKept DEF CacheInv, kernel, pid
<1>7. ProcInv' /\ AgesInv'
  BY <1>2, <1>3, <1>4, <1>a, OwnKept DEF ProcInv, AgesInv, kernel, pid
<1>8. RecordsInv' /\ NotStale' /\ Ascending' /\ Complete'
  BY <1>2, <1>3, RecordsKept, OrderKept DEF kernel
<1> QED BY <1>5, <1>6, <1>7, <1>8 DEF IInv

(* continue: the process is dropped. *)
LEMMA DropStep ==
  ASSUME IInv, pc \notin {"idle", "list"}, proclist # <<>>, pid \in Pids, pid \in failed',
         Continue, UNCHANGED <<kernel, cursor, proc, ages>>,
         failed \subseteq failed', failed' \subseteq failed \cup {pid}, faults' \in 0..MaxFaults,
         cache' \in [pid : Pids \cup {-1}, mtime : -1..MaxTime, source : Sources,
                     readAt : 0..MaxTime],
         cache'.pid = pid, cache'.readAt <= now
  PROVE  IInv'
<1>1. proclist' \in Seq(Pids) /\ pc' = "mem" /\ records' = records
  <2>1. proclist \in Seq(Pids)
    BY DEF IInv, TypeOK
  <2> QED BY <2>1, TailFacts DEF Continue
<1>2. failed' \subseteq Pids
  BY DEF IInv, TypeOK
<1>3. TypeOK'
  BY <1>1, <1>2 DEF IInv, TypeOK, kernel
<1>4. CacheInv' /\ ProcInv' /\ AgesInv'
  BY <1>1 DEF CacheInv, ProcInv, AgesInv, kernel
<1>5. RecordsInv' /\ NotStale'
  BY <1>1, RecordsKept DEF kernel
<1>6. Ascending' /\ Complete'
  <2> DEFINE r == [pid |-> pid, age |-> ages, data |-> proc]
  <2>1. r \in [pid : Pids, age : Ages, data : Procs] /\ r.pid = pid
    BY DEF IInv, TypeOK
  <2> HIDE DEF r
  <2> QED BY <1>1, <2>1, DoneWith DEF kernel, Continue
<1> QED BY <1>3, <1>4, <1>5, <1>6 DEF IInv

(* The current pid. *)
LEMMA Current ==
  ASSUME IInv, pc \notin {"idle", "list", "mem"}
  PROVE  proclist # <<>> /\ pid \in Pids /\ cache.pid = pid
<1>1. proclist # <<>> /\ proclist \in Seq(Pids)
  BY DEF IInv, TypeOK
<1> QED BY <1>1, TailFacts DEF pid, IInv, CacheInv

LEMMA MemSizeStep == ASSUME IInv, MemSize PROVE IInv'
<1>1. pc = "statm" /\ UNCHANGED <<kernel, cursor, cache, ages>>
  BY DEF MemSize
<1>2. PICK ok \in BOOLEAN :
        /\ ReadFile(pid, ok)
        /\ IF ok
           THEN /\ pc' = "state" /\ proc' = [proc EXCEPT !.mem = Process(pid)]
                /\ UNCHANGED <<proclist, records>>
           ELSE Continue /\ UNCHANGED proc
  BY DEF MemSize
<1>3. proclist # <<>> /\ pid \in Pids /\ cache.pid = pid
  BY <1>1, Current
<1>4. /\ failed \subseteq failed' /\ failed' \subseteq failed \cup {pid} /\ failed' \subseteq Pids
      /\ faults' \in 0..MaxFaults
      /\ ok => Process(pid) \in Sources /\ Own(Process(pid), pid)
      /\ ~ok => pid \in failed'
  BY <1>2, <1>3, FileRead, ProcessSource DEF IInv
<1>5. CASE ok
  <2>1. /\ proc' \in Procs /\ proc'.mem = Process(pid) /\ proc'.faults = proc.faults
    BY <1>2, <1>4, <1>5 DEF IInv, TypeOK, Procs
  <2>2. TypeOK'
    BY <1>1, <1>2, <1>4, <1>5, <2>1 DEF IInv, TypeOK, kernel
  <2>3. CacheInv'
    BY <1>1, <1>2, <1>4, <1>5, OwnKept DEF IInv, CacheInv, kernel, pid
  <2>4. ProcInv' /\ AgesInv'
    BY <1>1, <1>2, <1>4, <1>5, <2>1, OwnKept DEF IInv, ProcInv, AgesInv, kernel, pid
  <2>5. RecordsInv' /\ NotStale' /\ Ascending' /\ Complete'
    BY <1>1, <1>2, <1>4, <1>5, RecordsKept, OrderKept DEF kernel
  <2> QED BY <2>2, <2>3, <2>4, <2>5 DEF IInv
<1>6. CASE ~ok
  <2>1. /\ cache' \in [pid : Pids \cup {-1}, mtime : -1..MaxTime, source : Sources,
                       readAt : 0..MaxTime]
        /\ cache'.pid = pid /\ cache'.readAt <= now
    BY <1>1, <1>3 DEF IInv, TypeOK, CacheInv
  <2> QED BY <1>1, <1>2, <1>3, <1>4, <1>6, <2>1, DropStep
<1> QED BY <1>5, <1>6

LEMMA StateStep == ASSUME IInv, sigar_proc_state_get PROVE IInv'
<1>1. pc = "state" /\ UNCHANGED <<kernel, cursor>>
  BY DEF sigar_proc_state_get
<1>2. PICK ok \in BOOLEAN :
        /\ proc_stat_read(ok)
        /\ IF ok
           THEN /\ pc' = "status" /\ proc' = [proc EXCEPT !.stat = cache'.source]
                /\ Copy("stat") /\ UNCHANGED <<proclist, records>>
           ELSE Continue /\ UNCHANGED <<proc, ages>>
  BY DEF sigar_proc_state_get, Copy
<1>3. proclist # <<>> /\ pid \in Pids
  BY <1>1, Current
<1>4. /\ cache' \in [pid : Pids \cup {-1}, mtime : -1..MaxTime, source : Sources,
                     readAt : 0..MaxTime]
      /\ cache'.pid = pid /\ cache'.readAt <= now
      /\ failed \subseteq failed' /\ failed' \subseteq failed \cup {pid}
      /\ faults' \in 0..MaxFaults
      /\ pid \notin failed' => Own(cache'.source, pid)
      /\ setBack = 0 /\ pid \notin failed' =>
           cache'.mtime = cache'.readAt /\ now - cache'.readAt < Expire
  BY <1>1, <1>2, <1>3, StatRead DEF IInv, kernel
<1>5. CASE ok
  <2>1. /\ proc' \in Procs /\ proc'.stat = cache'.source
        /\ proc'.mem = proc.mem /\ proc'.faults = proc.faults
    <3>1. proc \in Procs /\ cache'.source \in Sources
      BY <1>4 DEF IInv, TypeOK
    <3> QED BY <3>1, <1>2, <1>5 DEF Procs
  <2>a. /\ ages' \in Ages /\ ages'["stat"] = now - cache'.readAt
        /\ ages'["faults"] = ages["faults"]
    BY <1>2, <1>4, <1>5, AgeNoted DEF IInv, Cached
  <2>2. TypeOK'
    BY <1>1, <1>2, <1>3, <1>4, <1>5, <2>1, <2>a DEF IInv, TypeOK, kernel
  <2>3. CacheInv'
    BY <1>1, <1>2, <1>4, <1>5, OwnKept DEF CacheInv, kernel, pid
  <2>4. ProcInv' /\ AgesInv'
    <3>1. ProcInv'
      BY <1>1, <1>2, <1>4, <1>5, <2>1, OwnKept DEF IInv, ProcInv, kernel, pid
    <3>2. AgesInv'
      BY <1>1, <1>2, <1>4, <1>5, <2>a DEF IInv, AgesInv, kernel, pid
    <3> QED BY <3>1, <3>2
  <2>5. RecordsInv' /\ NotStale' /\ Ascending' /\ Complete'
    BY <1>1, <1>2, <1>4, <1>5, RecordsKept, OrderKept DEF kernel
  <2> QED BY <2>2, <2>3, <2>4, <2>5 DEF IInv
<1>6. CASE ~ok
  <2>1. pid \in failed'
    BY <1>2, <1>3, <1>6, FileRead DEF proc_stat_read, IInv
  <2> QED BY <1>1, <1>2, <1>3, <1>4, <1>6, <2>1, DropStep
<1> QED BY <1>5, <1>6

LEMMA StatusStep == ASSUME IInv, proc_status_get PROVE IInv'
<1>1. /\ pc = "status" /\ pc' = "time"
      /\ UNCHANGED <<kernel, cursor, proclist, cache, ages, records>>
  BY DEF proc_status_get
<1>2. PICK ok \in BOOLEAN :
        /\ ReadFile(pid, ok)
        /\ IF ok THEN proc' = [proc EXCEPT !.threads = Process(pid)]
           ELSE \E junk \in {Garbage, proc.threads} :
                  proc' = [proc EXCEPT !.threads = junk]
  BY DEF proc_status_get
<1>3. proclist # <<>> /\ pid \in Pids
  BY <1>1, Current
<1>4. /\ failed \subseteq failed' /\ failed' \subseteq failed \cup {pid} /\ failed' \subseteq Pids
      /\ faults' \in 0..MaxFaults
      /\ ok => Process(pid) \in Sources /\ Own(Process(pid), pid)
      /\ ~ok => pid \in failed'
  BY <1>2, <1>3, FileRead, ProcessSource DEF IInv
<1>5. /\ proc' \in Procs /\ proc'.stat = proc.stat
      /\ proc'.mem = proc.mem /\ proc'.faults = proc.faults
      /\ ok => proc'.threads = Process(pid)
  <2>1. proc \in Procs /\ proc.threads \in Sources
    BY DEF IInv, TypeOK, Procs
  <2>2. PICK t \in Sources : proc' = [proc EXCEPT !.threads = t] /\ (ok => t = Process(pid))
    BY <1>2, <1>4, <2>1, GarbageSource
  <2> QED BY <2>1, <2>2 DEF Procs
<1>6. TypeOK'
  BY <1>1, <1>3, <1>4, <1>5 DEF IInv, TypeOK, kernel
<1>7. CacheInv'
  BY <1>1, <1>4, OwnKept DEF IInv, CacheInv, kernel, pid
<1>8. ProcInv' /\ AgesInv'
  BY <1>1, <1>4, <1>5, OwnKept DEF IInv, ProcInv, AgesInv, kernel, pid
<1>9. RecordsInv' /\ NotStale' /\ Ascending' /\ Complete'
  BY <1>1, <1>4, RecordsKept, OrderKept DEF kernel
<1> QED BY <1>6, <1>7, <1>8, <1>9 DEF IInv

(* The record is complete: what the steps before found is what is pushed.  *)
LEMMA TimeStep == ASSUME IInv, sigar_proc_time_get PROVE IInv'
<1>1. pc = "time" /\ pc' = "mem" /\ proclist' = Tail(proclist) /\ UNCHANGED <<kernel, cursor>>
  BY DEF sigar_proc_time_get, Continue
<1> DEFINE r == [pid |-> pid, data |-> proc', age |-> ages']
<1>2. PICK ok \in BOOLEAN :
        /\ proc_stat_read(ok)
        /\ IF ok
           THEN /\ proc' = [proc EXCEPT !.times = cache'.source]
                /\ Copy("times") /\ records' = Append(records, r)
           ELSE Continue /\ UNCHANGED <<proc, ages>>
  BY DEF sigar_proc_time_get, Copy
<1>3. proclist # <<>> /\ pid \in Pids
  BY <1>1, Current
<1>4. /\ cache' \in [pid : Pids \cup {-1}, mtime : -1..MaxTime, source : Sources,
                     readAt : 0..MaxTime]
      /\ cache'.pid = pid /\ cache'.readAt <= now
      /\ failed \subseteq failed' /\ failed' \subseteq failed \cup {pid}
      /\ faults' \in 0..MaxFaults
      /\ pid \notin failed' => Own(cache'.source, pid)
      /\ setBack = 0 /\ pid \notin failed' =>
           cache'.mtime = cache'.readAt /\ now - cache'.readAt < Expire
  BY <1>1, <1>2, <1>3, StatRead DEF IInv, kernel
<1>5. CASE ok
  <2>1. /\ proc' \in Procs /\ proc'.times = cache'.source /\ proc'.threads = proc.threads
        /\ proc'.mem = proc.mem /\ proc'.faults = proc.faults /\ proc'.stat = proc.stat
    <3>1. proc \in Procs /\ cache'.source \in Sources
      BY <1>4 DEF IInv, TypeOK
    <3> QED BY <3>1, <1>2, <1>5 DEF Procs
  <2>a. /\ ages' \in Ages /\ ages'["times"] = now - cache'.readAt
        /\ ages'["faults"] = ages["faults"] /\ ages'["stat"] = ages["stat"]
    BY <1>2, <1>4, <1>5, AgeNoted DEF IInv, Cached
  <2>2. r \in [pid : Pids, age : Ages, data : Procs]
    BY <2>1, <2>a, <1>3
  <2>3. /\ r.pid = pid /\ r.age = ages' /\ r.data = proc'
        /\ records' = Append(records, r)
    BY <1>2, <1>5
  <2> HIDE DEF r
  <2>4. /\ records' \in Seq([pid : Pids, age : Ages, data : Procs])
        /\ Len(records') = Len(records) + 1 /\ records'[Len(records) + 1] = r /\ Len(records) \in Nat
        /\ \A i \in 1..Len(records) : records'[i] = records[i]
    <3> DEFINE R == [pid : Pids, age : Ages, data : Procs]
    <3>1. records \in Seq(R) /\ r \in R
      BY <2>2 DEF IInv, TypeOK
    <3> HIDE DEF R
    <3>2. records' \in Seq(R)
          /\ Len(records') = Len(records) + 1 /\ records'[Len(records) + 1] = r /\ Len(records) \in Nat
          /\ \A i \in 1..Len(records) : records'[i] = records[i]
      BY <3>1, <2>3, AppendFacts
    <3> QED BY <3>2 DEF R
  <2>5. proclist' \in Seq(Pids)
    <3>1. proclist \in Seq(Pids)
      BY DEF IInv, TypeOK
    <3> QED BY <3>1, <1>1, <1>3, TailFacts
  <2>6. TypeOK'
    BY <1>1, <1>3, <1>4, <2>1, <2>4, <2>5, <2>a DEF IInv, TypeOK, kernel
  <2>7. CacheInv'
    BY <1>1, <1>4, OwnKept DEF CacheInv, kernel, pid
  <2>8. ProcInv' /\ AgesInv'
    BY <1>1 DEF ProcInv, AgesInv
  <2>9. pid \notin failed' => \A f \in DOMAIN NoProc : Own(r.data[f], r.pid)
    <3>1. pid \notin failed' => /\ Own(proc'.faults, pid) /\ Own(proc'.mem, pid) /\ Own(proc'.stat, pid)
                                /\ Own(proc'.threads, pid) /\ Own(proc'.times, pid)
      BY <1>1, <1>4, <2>1 DEF IInv, ProcInv
    <3> QED BY <3>1, <2>3 DEF NoProc
  <2>10. \A i \in 1..Len(records') : \/ i \in 1..Len(records) /\ records'[i] = records[i]
                                     \/ records'[i] = r
    BY <2>4
  <2>11. RecordsInv'
    <3> SUFFICES ASSUME NEW i \in 1..Len(records'), records'[i].pid \notin failed',
                        NEW f \in DOMAIN NoProc
                 PROVE  Own(records[i].data[f], records[i].pid)'
      BY DEF RecordsInv
    <3>1. CASE i \in 1..Len(records) /\ records'[i] = records[i]
      BY <3>1, <1>1, <1>4 DEF IInv, RecordsInv, kernel, Own
    <3>2. CASE records'[i] = r
      BY <3>2, <2>3, <2>9, <1>1 DEF kernel, Own
    <3> QED BY <3>1, <3>2, <2>10
  <2>12. NotStale'
    <3> SUFFICES ASSUME setBack' = 0, NEW i \in 1..Len(records'), NEW datum \in Cached,
                        records'[i].pid \notin failed'
                 PROVE  records'[i].age[datum] < Expire
      BY DEF NotStale
    <3>1. CASE i \in 1..Len(records) /\ records'[i] = records[i]
      BY <3>1, <1>1, <1>4 DEF IInv, NotStale, kernel
    <3>2. CASE records'[i] = r
      <4>1. setBack = 0 /\ pid \notin failed' /\ pid \notin failed
        BY <3>2, <2>3, <1>1, <1>4 DEF kernel
      <4>2. ages'["faults"] < Expire /\ ages'["stat"] < Expire /\ ages'["times"] < Expire
        BY <4>1, <1>1, <1>4, <2>a DEF IInv, AgesInv
      <4> QED BY <3>2, <4>2, <2>3 DEF Cached
    <3> QED BY <3>1, <3>2, <2>10
  <2>13. Ascending' /\ Complete'
    BY <1>1, <1>2, <1>3, <1>4, <1>5, <2>2, <2>3, DoneWith DEF kernel
  <2> QED BY <2>6, <2>7, <2>8, <2>11, <2>12, <2>13 DEF IInv
<1>6. CASE ~ok
  <2>1. pid \in failed'
    BY <1>2, <1>3, <1>6, FileRead DEF proc_stat_read, IInv
  <2> QED BY <1>1, <1>2, <1>3, <1>4, <1>6, <2>1, DropStep
<1> QED BY <1>5, <1>6

LEMMA EndStep == ASSUME IInv, ScanEnds PROVE IInv'
<1>1. /\ pc = "mem" /\ proclist = <<>> /\ pc' = "idle"
      /\ UNCHANGED <<kernel, cursor, proclist, cache, proc, ages, records, failed, faults>>
  BY DEF ScanEnds
<1>2. TypeOK' /\ CacheInv' /\ ProcInv' /\ AgesInv'
  BY <1>1 DEF kernel, IInv, TypeOK, CacheInv, ProcInv, AgesInv, Own
<1>3. RecordsInv' /\ NotStale'
  BY <1>1, RecordsKept DEF kernel
<1>4. Ascending' /\ Complete'
  BY <1>1 DEF kernel, IInv, Ascending, Complete
<1> QED BY <1>2, <1>3, <1>4 DEF IInv

LEMMA Stuttering == IInv /\ UNCHANGED vars => IInv'
BY DEF IInv, vars, kernel, TypeOK, CacheInv, ProcInv, AgesInv, RecordsInv, NotStale, Ascending,
       Complete, Own, pid

(* The inductive invariant: where every datum came from, what the cache is *)
(* good for, and which processes are still to be read, at every step of    *)
(* ProcList and libsigar, whatever the machine does meanwhile.             *)
THEOREM Invariance == Spec => []IInv
<1>1. Init => IInv
  BY Initial
<1>2. IInv /\ [Next]_vars => IInv'
  BY MachineStep, ListStep, MemFaultsStep, MemSizeStep, StateStep, StatusStep, TimeStep, EndStep,
     Stuttering DEF Next, Scan
<1> QED BY <1>1, <1>2, PTL DEF Spec

(* Every variable of the scan keeps its type. *)
THEOREM TypeCorrect == Spec => []TypeOK
<1>1. IInv => TypeOK
  BY DEF IInv
<1> QED BY <1>1, Invariance, PTL

(* A record of a process whose files could be read holds only its own      *)
(* data: the cache of proc_stat_read never answers for another process.    *)
THEOREM RecordsOwnTheirData == Spec => []OwnData
<1>1. IInv => OwnData
  <2> SUFFICES ASSUME IInv, NEW i \in 1..Len(records), records[i].pid \notin failed,
                      NEW f \in DOMAIN records[i].data
               PROVE  /\ records[i].data[f][1] = records[i].pid
                      /\ births[records[i].pid] = 1 => records[i].data[f] = <<records[i].pid, 1>>
    BY DEF OwnData
  <2>1. records[i].pid \in Pids /\ records[i].data \in Procs
    BY RecordTyped DEF IInv
  <2>2. f \in DOMAIN NoProc /\ records[i].data[f] \in Sources
    BY <2>1 DEF Procs, NoProc
  <2> DEFINE s == records[i].data[f]
  <2>3. s[1] = records[i].pid /\ s[2] \in 1..births[records[i].pid]
    BY <2>2 DEF IInv, RecordsInv, Own
  <2>4. s = <<s[1], s[2]>>
    BY <2>2 DEF Sources, Garbage
  <2> QED BY <2>3, <2>4
<1> QED BY <1>1, Invariance, PTL

(* A finished scan has exactly one record of every process that was there  *)
(* all the time and could be read.                                         *)
THEOREM ScanIsACensus == Spec => []Census
<1>1. IInv => Census
  <2> SUFFICES ASSUME IInv, pc = "idle"
               PROVE  /\ \A i, j \in 1..Len(records) : records[i].pid = records[j].pid => i = j
                      /\ cursor > MaxPid =>
                           \A p \in survivors \ failed :
                             ~(hack /\ p \in Clones) => \E i \in 1..Len(records) : records[i].pid = p
    BY DEF Census
  <2>1. \A i, j \in 1..Len(records) : records[i].pid = records[j].pid => i = j
    <3> TAKE i, j \in 1..Len(records)
    <3>1. records[i].pid \in Int /\ records[j].pid \in Int
      BY RecordTyped DEF IInv, Pids
    <3>2. i \in Nat /\ j \in Nat
      OBVIOUS
    <3>3. /\ i < j => records[i].pid < records[j].pid
          /\ j < i => records[j].pid < records[i].pid
      BY DEF IInv, Ascending
    <3> QED BY <3>1, <3>2, <3>3
  <2>2. ASSUME cursor > MaxPid, NEW p \in survivors \ failed, ~(hack /\ p \in Clones)
        PROVE  \E i \in 1..Len(records) : records[i].pid = p
    <3>1. p \in 1..MaxPid /\ cursor \in 1..MaxPid+1 /\ proclist = <<>>
      BY <2>2 DEF IInv, TypeOK, Complete, Pids
    <3>2. ~(p >= cursor) /\ Len(proclist) = 0
      BY <3>1, <2>2, PidAssumption
    <3> QED BY <2>2, <3>2 DEF IInv, Complete
  <2> QED BY <2>1, <2>2
<1> QED BY <1>1, Invariance, PTL

(* The faults, the state and the times of a record were, each when it was  *)
(* copied, younger than the life of the cache entry, unless a read of the  *)
(* process failed or the clock was set back.                               *)
THEOREM RecordsAreFresh == Spec => []NotStale
<1>1. IInv => NotStale
  BY DEF IInv
<1> QED BY <1>1, Invariance, PTL
-----------------------------------------------------------------------------
(* The steps a scan has to go. *)

LEMMA ToGoNat == TypeOK => StepsToGo \in Nat
<1> SUFFICES ASSUME TypeOK PROVE StepsToGo \in Nat
  OBVIOUS
<1>1. Len(proclist) \in Nat /\ MaxPid + 1 - cursor \in Nat
  BY PidAssumption DEF TypeOK
<1>2. ASSUME pc \notin {"idle", "list"} PROVE StepsDone[pc] \in 0..4
  BY <1>2 DEF TypeOK, StepsDone
<1>3. ASSUME pc \notin {"idle", "list", "mem"} PROVE Len(proclist) >= 1
  BY <1>3 DEF TypeOK
<1>4. StepsDone["mem"] = 0
  BY DEF StepsDone
<1> HIDE DEF StepsDone
<1> QED BY <1>1, <1>2, <1>3, <1>4 DEF StepsToGo

LEMMA ScanCounts ==
  ASSUME TypeOK, Scan \/ ListFails
  PROVE  StepsToGo' < StepsToGo
<1>1. /\ Len(proclist) \in Nat /\ proclist \in Seq(Pids) /\ cursor \in 1..MaxPid+1
      /\ MaxPid \in Nat
  BY PidAssumption DEF TypeOK
<1>2. /\ StepsDone["mem"] = 0 /\ StepsDone["statm"] = 1 /\ StepsDone["state"] = 2
      /\ StepsDone["status"] = 3 /\ StepsDone["time"] = 4
  BY DEF StepsDone
<1>3. CASE sigar_os_proc_list_get
  <2>1. /\ pc = "list" /\ pc' = "list" /\ cursor' = cursor + 1
        /\ Len(proclist') = Len(proclist) \/ Len(proclist') = Len(proclist) + 1
    BY <1>1, <1>3 DEF sigar_os_proc_list_get
  <2>2. /\ StepsToGo = 6 * (MaxPid + 1 - cursor) + 5 * Len(proclist) + 2
        /\ StepsToGo' = 6 * (MaxPid + 1 - (cursor + 1)) + 5 * Len(proclist') + 2
    BY <2>1 DEF StepsToGo
  <2> QED BY <1>1, <2>1, <2>2
<1>4. CASE ListEnds \/ ListFails
  <2>1. /\ pc = "list" /\ (pc' = "mem" \/ pc' = "idle") /\ UNCHANGED proclist
        /\ MaxPid + 1 - cursor \in Nat
    BY <1>1, <1>4 DEF ListEnds, ListFails
  <2>2. StepsToGo = 6 * (MaxPid + 1 - cursor) + 5 * Len(proclist) + 2
    BY <2>1 DEF StepsToGo
  <2>3. StepsToGo' = 0 \/ StepsToGo' = 5 * Len(proclist) + 1 - 0
    BY <1>2, <2>1 DEF StepsToGo, StepsDone
  <2> QED BY <1>1, <2>1, <2>2, <2>3
<1>5. ASSUME pc \notin {"idle", "list"}, pc' \notin {"idle", "list"},
             UNCHANGED proclist, StepsDone[pc'] = StepsDone[pc] + 1,
             StepsDone[pc] \in Nat
      PROVE  StepsToGo' < StepsToGo
  <2>1. /\ StepsToGo = 5 * Len(proclist) + 1 - StepsDone[pc]
        /\ StepsToGo' = 5 * Len(proclist) + 1 - (StepsDone[pc] + 1)
    BY <1>5 DEF StepsToGo, StepsDone
  <2> QED BY <1>1, <1>5, <2>1
<1>6. ASSUME pc \in {"statm", "state", "time"}, pc' = "mem", proclist' = Tail(proclist)
      PROVE  StepsToGo' < StepsToGo
  <2>1. proclist # <<>> /\ Len(proclist') = Len(proclist) - 1
    BY <1>1, <1>6, TailFacts DEF TypeOK
  <2>2. StepsDone[pc] \in 0..4
    BY <1>2, <1>6
  <2>3. /\ StepsToGo = 5 * Len(proclist) + 1 - StepsDone[pc]
        /\ StepsToGo' = 5 * (Len(proclist) - 1) + 1 - 0
    BY <1>2, <1>6, <2>1 DEF StepsToGo, StepsDone
  <2> QED BY <1>1, <2>2, <2>3
<1>7. CASE MemFaults
  <2>1. pc = "mem" /\ pc' = "statm" /\ UNCHANGED proclist
    BY <1>7 DEF MemFaults
  <2> QED BY <1>2, <1>5, <1>7, <2>1
<1>8. CASE MemSize
  <2>1. pc = "statm" /\ \/ pc' = "state" /\ UNCHANGED proclist
                        \/ pc' = "mem" /\ proclist' = Tail(proclist)
    BY <1>8 DEF MemSize, Continue
  <2> QED BY <1>2, <1>5, <1>6, <1>8, <2>1
<1>9. CASE sigar_proc_state_get
  <2>1. pc = "state" /\ \/ pc' = "status" /\ UNCHANGED proclist
                        \/ pc' = "mem" /\ proclist' = Tail(proclist)
    BY <1>9 DEF sigar_proc_state_get, Continue
  <2> QED BY <1>2, <1>5, <1>6, <1>9, <2>1
<1>10. CASE proc_status_get
  <2>1. pc = "status" /\ pc' = "time" /\ UNCHANGED proclist
    BY <1>10 DEF proc_status_get
  <2> QED BY <1>2, <1>5, <1>10, <2>1
<1>11. CASE sigar_proc_time_get
  <2>1. pc = "time" /\ pc' = "mem" /\ proclist' = Tail(proclist)
    BY <1>11 DEF sigar_proc_time_get, Continue
  <2> QED BY <1>6, <2>1
<1>12. CASE ScanEnds
  <2>1. pc = "mem" /\ pc' = "idle" /\ Len(proclist) = 0
    BY <1>12 DEF ScanEnds
  <2>2. StepsToGo = 5 * 0 + 1 - 0 /\ StepsToGo' = 0
    BY <1>2, <2>1 DEF StepsToGo
  <2> QED BY <2>2
<1> QED BY <1>3, <1>4, <1>7, <1>8, <1>9, <1>10, <1>11, <1>12 DEF Scan

(* A scan ends after six steps for each pid and two more, however many     *)
(* processes end and start, also under the pids it has still to read.      *)
THEOREM ScansAdvance == Spec => [](StepsToGo \in 0..6 * MaxPid + 2) /\ ScanAdvances
<1>1. TypeOK /\ [Next]_vars =>
        [pc # "idle" => (Machine /\ UNCHANGED StepsToGo) \/ StepsToGo' < StepsToGo]_vars
  <2> SUFFICES ASSUME TypeOK, Next, pc # "idle"
               PROVE  (Machine /\ UNCHANGED StepsToGo) \/ StepsToGo' < StepsToGo
    OBVIOUS
  <2>1. CASE Machine
    <3>1. UNCHANGED <<pc, cursor, proclist>>
      BY <2>1 DEF Machine, Exit, Fork, Tick, ClockSetBack
    <3> QED BY <2>1, <3>1 DEF StepsToGo, StepsDone
  <2>2. CASE StartScan
    BY <2>2 DEF StartScan
  <2> QED BY <2>1, <2>2, ScanCounts DEF Next
<1> DEFINE Natural == StepsToGo \in Nat
           Bounded == StepsToGo \in 0..6 * MaxPid + 2
<1>2. TypeOK => Natural
  BY ToGoNat
<1>3. TypeOK' => Natural'
  <2> HIDE DEF Natural
  <2> QED BY <1>2, PTL
<1>4. TypeOK /\ TypeOK' /\ [Next]_vars /\ Bounded => Bounded'
  <2> SUFFICES ASSUME TypeOK, TypeOK', [Next]_vars, StepsToGo \in 0..6 * MaxPid + 2
               PROVE  StepsToGo' \in 0..6 * MaxPid + 2
    OBVIOUS
  <2>1. /\ StepsToGo \in Nat /\ StepsToGo' \in Nat /\ 6 * MaxPid + 2 \in Nat
    BY <1>3, PidAssumption
  <2>2. CASE StartScan
    <3>1. pc' = "list" /\ cursor' = 1 /\ Len(proclist') = 0
      BY <2>2 DEF StartScan
    <3>2. StepsToGo' = 6 * (MaxPid + 1 - 1) + 5 * 0 + 2
      BY <3>1 DEF StepsToGo
    <3> QED BY <3>2, PidAssumption
  <2>3. CASE Machine \/ UNCHANGED vars
    <3>1. UNCHANGED <<pc, cursor, proclist>>
      BY <2>3 DEF Machine, Exit, Fork, Tick, ClockSetBack, vars
    <3>2. UNCHANGED StepsToGo
      BY <3>1 DEF StepsToGo, StepsDone
    <3> QED BY <3>2
  <2>4. CASE Scan \/ ListFails
    BY <2>1, <2>4, ScanCounts
  <2> QED BY <2>2, <2>3, <2>4 DEF Next
<1>5. Init => Bounded
  BY PidAssumption DEF Init, StepsToGo
<1>6. Spec => []Bounded
  <2> HIDE DEF Bounded
  <2> QED BY <1>4, <1>5, TypeCorrect, PTL DEF Spec
<1>7. Spec => ScanAdvances
  BY <1>1, TypeCorrect, PTL DEF Spec, ScanAdvances
<1> QED BY <1>6, <1>7, PTL
=============================================================================
