------------------------------ MODULE ProcScan ------------------------------
(***************************************************************************)
(* ProcList::ProcList over libsigar on Linux: the pids of /proc are listed *)
(* first, then every listed process is read in five steps, statm, status   *)
(* and stat among them, while processes go on to end and to start, also    *)
(* under a pid that was in use before.                                     *)
(*                                                                         *)
(* What a process is called, its state, times and faults all come from     *)
(* /proc/<pid>/stat, read through a cache of one entry (last_proc_stat)    *)
(* that is good for Expire seconds.  The cache notes the pid before it     *)
(* reads: after a read that failed it holds another process's data under   *)
(* that pid, and sigar_proc_mem_get does not look at the status.           *)
(*                                                                         *)
(* The data themselves are left out: a datum is the process it was read    *)
(* from, <<pid, n>> for the n-th process that had the pid since the scan   *)
(* began.  /proc and the clocks are the kernel's: it lists ascending pids. *)
(***************************************************************************)
EXTENDS Integers, Sequences

CONSTANTS MaxPid,      \* pids are 1..MaxPid
          Clones,      \* pids of processes whose exit signal is not SIGCHLD
          Expire,      \* SIGAR_LAST_PROC_EXPIRE
          MaxBirths,   \* bound: processes one pid has during a scan
          MaxFaults,   \* bound: reads of a living process that fail, per scan
          MaxTime      \* bound: seconds one scan takes

ASSUME PidAssumption == MaxPid \in Nat /\ Clones \subseteq 1..MaxPid
ASSUME TimeAssumption == Expire \in Nat \ {0} /\ MaxTime \in Nat
ASSUME BoundAssumption == MaxBirths \in Nat \ {0} /\ MaxFaults \in Nat

Pids == 1..MaxPid
Garbage == <<0, 0>>      \* memory nobody has written
Sources == {Garbage} \cup (Pids \X (1..MaxBirths))

VARIABLES
  alive,      \* pids in use
  births,     \* how many processes a pid has had since the scan began
  now,        \* seconds since the scan began
  setBack,    \* by how much time() has been set back since then
  hack,       \* threadbadhack: the kernel's release reads as one before 2.6
  pc,         \* the next step of the scan
  cursor,     \* the next pid readdir_r will come to
  proclist,   \* the pids listed and not yet done with, the current one first
  cache,      \* sigar->last_proc_stat
  proc,       \* proc_mem, proc_state and proc_time of the current pid
  ages,       \* history: how old each cached datum of proc was when copied
  records,    \* ProcList::stack
  survivors,  \* history: pids whose process has been alive since the start
  failed,     \* history: pids of which a file could not be read
  faults      \* counts the reads of living processes that failed

kernel == <<alive, births, now, setBack, hack, survivors>>
vars == <<kernel, pc, cursor, proclist, cache, proc, ages, records, failed, faults>>

Procs == [faults : Sources, mem : Sources, stat : Sources,
          threads : Sources, times : Sources]
Cached == {"faults", "stat", "times"}      \* what comes through the cache
Ages == [Cached -> 0..MaxTime]

TypeOK ==
  /\ alive \subseteq Pids /\ survivors \subseteq alive /\ failed \subseteq Pids
  /\ births \in [Pids -> 0..MaxBirths] /\ \A p \in alive : births[p] > 0
  /\ now \in 0..MaxTime /\ setBack \in {0, 1} /\ hack \in BOOLEAN
  /\ pc \in {"idle", "list", "mem", "statm", "state", "status", "time"}
  /\ cursor \in 1..MaxPid+1
  /\ proclist \in Seq(Pids)
  /\ pc \notin {"idle", "list", "mem"} => proclist # <<>>
  /\ cache \in [pid : Pids \cup {-1}, mtime : -1..MaxTime, source : Sources,
                readAt : 0..MaxTime]
  /\ proc \in Procs /\ ages \in Ages
  /\ records \in Seq([pid : Pids, age : Ages, data : Procs])
  /\ faults \in 0..MaxFaults

Process(p) == <<p, births[p]>>
clock == now - setBack
pid == Head(proclist)

NoProc == [faults |-> Garbage, mem |-> Garbage, stat |-> Garbage,
           threads |-> Garbage, times |-> Garbage]
NoAges == [datum \in Cached |-> 0]
NoCache == [pid |-> -1, mtime |-> 0, source |-> Garbage, readAt |-> 0]

Init == /\ alive \in SUBSET Pids
        /\ births = [p \in Pids |-> IF p \in alive THEN 1 ELSE 0]
        /\ now = 0 /\ setBack = 0 /\ hack \in BOOLEAN
        /\ pc = "idle" /\ cursor = 1 /\ proclist = <<>>
        /\ cache = NoCache /\ proc = NoProc /\ ages = NoAges
        /\ records = <<>>
        /\ survivors = alive /\ failed = {} /\ faults = 0
-----------------------------------------------------------------------------
(* The machine. *)

Exit(p) ==
  /\ p \in alive
  /\ alive' = alive \ {p} /\ survivors' = survivors \ {p}
  /\ UNCHANGED <<births, now, setBack, hack, pc, cursor, proclist, cache, proc,
                 ages, records, failed, faults>>

Fork(p) ==
  /\ p \notin alive /\ births[p] < MaxBirths
  /\ alive' = alive \cup {p}
  /\ births' = [births EXCEPT ![p] = @ + 1]
  /\ UNCHANGED <<now, setBack, hack, survivors, pc, cursor, proclist, cache,
                 proc, ages, records, failed, faults>>

Tick ==
  /\ now < MaxTime
  /\ now' = now + 1
  /\ UNCHANGED <<alive, births, setBack, hack, survivors, pc, cursor, proclist,
                 cache, proc, ages, records, failed, faults>>

ClockSetBack ==
  /\ setBack = 0 /\ setBack' = 1
  /\ UNCHANGED <<alive, births, now, hack, survivors, pc, cursor, proclist,
                 cache, proc, ages, records, failed, faults>>

(* open() and read() of a file of /proc/<p>; ok: SIGAR_OK. *)
ReadFile(p, ok) ==
  \/ ok /\ p \in alive /\ UNCHANGED <<faults, failed>>
  \/ /\ ~ok /\ p \notin alive
     /\ failed' = failed \cup {p} /\ UNCHANGED faults
  \/ /\ ~ok /\ p \in alive /\ faults < MaxFaults
     /\ failed' = failed \cup {p} /\ faults' = faults + 1
-----------------------------------------------------------------------------
(* sigar_open and sigar_proc_list_get; the memory of both is not cleared.  *)
StartScan ==
  /\ pc = "idle" /\ pc' = "list"
  /\ births' = [p \in Pids |-> IF p \in alive THEN 1 ELSE 0]
  /\ now' = 0 /\ setBack' = 0 /\ survivors' = alive
  /\ cursor' = 1 /\ proclist' = <<>> /\ cache' = NoCache /\ proc' = NoProc
  /\ ages' = NoAges /\ records' = <<>> /\ failed' = {} /\ faults' = 0
  /\ UNCHANGED <<alive, hack>>

(* opendir fails: the program prints it and ends, and is launched again. *)
ListFails ==
  /\ pc = "list" /\ cursor = 1 /\ pc' = "idle"
  /\ UNCHANGED <<kernel, cursor, proclist, cache, proc, ages, records, failed, faults>>

(* Without NPTL a process whose exit signal is not SIGCHLD is a thread, if *)
(* its stat can be read.                                                   *)
proc_isthread_Always(p, readable) == readable /\ p \in Clones
proc_isthread(p, readable) == hack /\ readable /\ p \in Clones

sigar_os_proc_list_get ==
  /\ pc = "list" /\ cursor <= MaxPid
  /\ cursor' = cursor + 1
  /\ \/ /\ cursor \notin alive
        /\ UNCHANGED <<proclist, failed, faults>>
     \/ /\ cursor \in alive
        /\ \E ok \in BOOLEAN :
             /\ IF hack THEN ReadFile(cursor, ok) ELSE ok /\ UNCHANGED <<failed, faults>>
             /\ proclist' = IF proc_isthread(cursor, ok) THEN proclist
                            ELSE Append(proclist, cursor)
  /\ UNCHANGED <<kernel, pc, cache, proc, ages, records>>

ListEnds ==
  /\ pc = "list" /\ cursor > MaxPid /\ pc' = "mem"
  /\ UNCHANGED <<kernel, cursor, proclist, cache, proc, ages, records, failed, faults>>
-----------------------------------------------------------------------------
(* The loop of ProcList::ProcList. *)

Fresh_Late == clock - cache.mtime <= Expire
Fresh == clock - cache.mtime < Expire

proc_stat_read_AnyPid(ok) ==
  IF cache.pid # -1 /\ Fresh
  THEN ok /\ UNCHANGED <<cache, failed, faults>>
  ELSE /\ ReadFile(pid, ok)
       /\ cache' = [pid |-> pid, mtime |-> clock,
                    source |-> IF ok THEN Process(pid) ELSE cache.source,
                    readAt |-> IF ok THEN now ELSE cache.readAt]
proc_stat_read(ok) ==
  IF cache.pid = pid /\ Fresh
  THEN ok /\ UNCHANGED <<cache, failed, faults>>
  ELSE /\ ReadFile(pid, ok)
       /\ cache' = [pid |-> pid, mtime |-> clock,
                    source |-> IF ok THEN Process(pid) ELSE cache.source,
                    readAt |-> IF ok THEN now ELSE cache.readAt]

(* continue: the record is dropped. *)
Continue_SamePid == pc' = "mem" /\ UNCHANGED <<proclist, records>>
Continue == pc' = "mem" /\ proclist' = Tail(proclist) /\ UNCHANGED records

(* What is copied from the cache, and how long ago it was read. *)
Copy(datum) ==
  /\ proc' = [proc EXCEPT ![datum] = cache'.source]
  /\ ages' = [ages EXCEPT ![datum] = now - cache'.readAt]

(* sigar_proc_mem_get: the faults are the cache's, whatever the status. *)
MemFaults ==
  /\ pc = "mem" /\ proclist # <<>> /\ pc' = "statm"
  /\ \E ok \in BOOLEAN : proc_stat_read(ok)
  /\ Copy("faults")
  /\ UNCHANGED <<kernel, cursor, proclist, records>>

MemSize ==
  /\ pc = "statm"
  /\ \E ok \in BOOLEAN :
       /\ ReadFile(pid, ok)
       /\ IF ok
          THEN /\ pc' = "state" /\ proc' = [proc EXCEPT !.mem = Process(pid)]
               /\ UNCHANGED <<proclist, records>>
          ELSE Continue /\ UNCHANGED proc
  /\ UNCHANGED <<kernel, cursor, cache, ages>>

sigar_proc_state_get ==
  /\ pc = "state"
  /\ \E ok \in BOOLEAN :
       /\ proc_stat_read(ok)
       /\ IF ok
          THEN pc' = "status" /\ Copy("stat") /\ UNCHANGED <<proclist, records>>
          ELSE Continue /\ UNCHANGED <<proc, ages>>
  /\ UNCHANGED <<kernel, cursor>>

(* A status that cannot be read is not reported: threads stays what is in  *)
(* the memory of proc_state, of the process before this one.               *)
proc_status_get ==
  /\ pc = "status" /\ pc' = "time"
  /\ \E ok \in BOOLEAN :
       /\ ReadFile(pid, ok)
       /\ IF ok THEN proc' = [proc EXCEPT !.threads = Process(pid)]
          ELSE \E junk \in {Garbage, proc.threads} :
                 proc' = [proc EXCEPT !.threads = junk]
  /\ UNCHANGED <<kernel, cursor, proclist, cache, ages, records>>

(* sigar_proc_time_get and stack.push(proc). *)
sigar_proc_time_get ==
  /\ pc = "time"
  /\ \E ok \in BOOLEAN :
       /\ proc_stat_read(ok)
       /\ IF ok
          THEN /\ pc' = "mem" /\ proclist' = Tail(proclist)
               /\ Copy("times")
               /\ records' = Append(records, [pid |-> pid, data |-> proc', age |-> ages'])
          ELSE Continue /\ UNCHANGED <<proc, ages>>
  /\ UNCHANGED <<kernel, cursor>>

ScanEnds ==
  /\ pc = "mem" /\ proclist = <<>> /\ pc' = "idle"
  /\ UNCHANGED <<kernel, cursor, proclist, cache, proc, ages, records, failed, faults>>
-----------------------------------------------------------------------------
Machine == \/ \E p \in Pids : Exit(p) \/ Fork(p)
           \/ Tick
           \/ ClockSetBack

Scan == \/ sigar_os_proc_list_get \/ ListEnds
        \/ MemFaults \/ MemSize \/ sigar_proc_state_get
        \/ proc_status_get \/ sigar_proc_time_get \/ ScanEnds

Next == Machine \/ StartScan \/ ListFails \/ Scan

(* The worker thread is scheduled. *)
Spec == Init /\ [][Next]_vars /\ WF_vars(Scan)
-----------------------------------------------------------------------------
(* Properties. *)

(* Of a process whose files could be read, every field of its record was   *)
(* read from that pid; and from one process, unless the pid was used twice.*)
(* The name and times of another process are sent only after a failed read.*)
OwnData ==
  \A i \in 1..Len(records) :
    LET r == records[i] IN
    r.pid \notin failed =>
      \A f \in DOMAIN r.data : /\ r.data[f][1] = r.pid
                               /\ births[r.pid] = 1 => r.data[f] = <<r.pid, 1>>

(* When a scan has ended, a process that was alive all the time, could be  *)
(* read and is not taken for a thread has exactly one record, and no pid   *)
(* has two, however the others came and went.                              *)
Census ==
  pc = "idle" =>
    /\ \A i, j \in 1..Len(records) : records[i].pid = records[j].pid => i = j
    /\ cursor > MaxPid =>
         \A p \in survivors \ failed :
           ~(hack /\ p \in Clones) => \E i \in 1..Len(records) : records[i].pid = p

(* Faults, state and times are copied from the cache by three calls, and   *)
(* another read may come between two of them.  Each is younger than the    *)
(* life of the entry when it is copied, unless a read of the process       *)
(* failed or the clock was set back.  By the time the record is complete   *)
(* the state may be older, by what the calls after it have taken.          *)
NotStale ==
  setBack = 0 =>
    \A i \in 1..Len(records), datum \in Cached :
      records[i].pid \notin failed => records[i].age[datum] < Expire

(* The parts of the inductive invariant: where a datum comes from, what    *)
(* the cache and the unfinished record hold, and how far the census is.    *)
Own(source, p) == source[1] = p /\ source[2] \in 1..births[p]

CacheInv ==
  /\ pc \notin {"idle", "list", "mem"} => cache.pid = pid
  /\ cache.readAt <= now
  /\ cache.pid \in Pids \ failed => /\ Own(cache.source, cache.pid)
                                    /\ setBack = 0 => cache.mtime = cache.readAt

ProcInv ==
  pc \notin {"idle", "list", "mem"} /\ pid \notin failed =>
    /\ Own(proc.faults, pid)
    /\ pc # "statm" => Own(proc.mem, pid)
    /\ pc \in {"status", "time"} => Own(proc.stat, pid)
    /\ pc = "time" => Own(proc.threads, pid)

AgesInv ==
  pc \notin {"idle", "list", "mem"} /\ pid \notin failed /\ setBack = 0 =>
    /\ ages["faults"] < Expire
    /\ pc \in {"status", "time"} => ages["stat"] < Expire

RecordsInv ==
  \A i \in 1..Len(records) : records[i].pid \notin failed =>
    \A f \in DOMAIN NoProc : Own(records[i].data[f], records[i].pid)

Ascending ==
  /\ \A i, j \in 1..Len(proclist) : i < j => proclist[i] < proclist[j]
  /\ \A i, j \in 1..Len(records) : i < j => records[i].pid < records[j].pid
  /\ \A i \in 1..Len(records), j \in 1..Len(proclist) : records[i].pid < proclist[j]
  /\ \A i \in 1..Len(proclist) : proclist[i] < cursor
  /\ pc = "list" => records = <<>>

Complete ==
  /\ pc \notin {"idle", "list"} => cursor > MaxPid
  /\ pc = "idle" /\ cursor > MaxPid => proclist = <<>>
  /\ pc = "list" \/ cursor > MaxPid =>
       \A p \in survivors \ failed : ~(hack /\ p \in Clones) =>
         \/ p >= cursor
         \/ \E i \in 1..Len(proclist) : proclist[i] = p
         \/ \E i \in 1..Len(records) : records[i].pid = p

IInv == /\ TypeOK /\ CacheInv /\ ProcInv /\ AgesInv /\ RecordsInv /\ NotStale
        /\ Ascending /\ Complete

(* How many steps a scan may still take: six for each pid that is not yet  *)
(* listed, five for each listed process that is not yet done with, one for *)
(* the end of either.  Processes that start meanwhile add none.            *)
StepsDone == [mem |-> 0, statm |-> 1, state |-> 2, status |-> 3, time |-> 4]
StepsToGo ==
  IF pc = "idle" THEN 0
  ELSE IF pc = "list" THEN 6 * (MaxPid + 1 - cursor) + 5 * Len(proclist) + 2
  ELSE 5 * Len(proclist) + 1 - StepsDone[pc]
ScanAdvances ==
  [][pc # "idle" => \/ Machine /\ UNCHANGED StepsToGo
                    \/ StepsToGo' < StepsToGo]_vars

(* Every scan ends, whatever processes are started meanwhile. *)
EveryScanEnds == pc # "idle" ~> pc = "idle"
=============================================================================
