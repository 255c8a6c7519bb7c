------------------------------- MODULE Probes -------------------------------
(***************************************************************************)
(* The probes of the gathering thread that take time or keep state, in the *)
(* order of Datas::Populate: NetInfo (which interface is the primary one), *)
(* NetStat (a walk over the connections, then two samples of the           *)
(* interface's byte counters a second apart), Mem, and CpuStat (two        *)
(* samples of the processor times), while interfaces come and go, packets  *)
(* flow and processes run.                                                 *)
(*                                                                         *)
(* Any call may fail: a socket, an ioctl, the opening of a file.  A probe   *)
(* that fails ends the program (exit(1)), which is launched again.         *)
(* rx_bytes and tx_bytes are treated alike: one counter stands for both.   *)
(* Of the eight processor times three are kept, "user", "idle" and "irq":  *)
(* one that is part of the combined share and two that are not.  What is   *)
(* printed is left out; a share is the pair of the two terms of the        *)
(* division, with a second term of 0 where the quotient is not a number.   *)
(* Times are in ticks: SIGAR_TICK2MSEC multiplies all of them by the same  *)
(* factor, which a share does not show.                                    *)
(***************************************************************************)
EXTENDS Integers, SigarCache

CONSTANTS Ifaces,     \* the interfaces that have a MAC address, not loopback
          Aliases,    \* labels with a ':' of further addresses (eth0:1)
          AliasOf,    \* the interface an alias is one of
          Ports,      \* TCP ports
          TableSize,  \* the size of a new table of listening ports (32)
          Width,      \* sigar_uint64_t holds 0..Width-1 (2^64)
          Narrow,     \* a kernel with 32-bit counters wraps them here (2^32)
          Slack,      \* MBs a total of the MTRRs may exceed MemTotal by (256)
          Totals,     \* bound: MemTotal, in MBs
          Registers,  \* bound: the sum of the write-back MTRRs, in MBs
          MaxRows,    \* bound: listening sockets in /proc/net/tcp and tcp6
          MaxTicks,   \* bound: ticks of one kind at the first sample
          MaxTraffic, \* bound: bytes an interface receives between the samples
          MaxWork     \* bound: ticks of one kind between the two samples

ASSUME PortAssumption == Ports \subseteq Nat /\ TableSize \in Nat \ {0}
ASSUME WidthAssumption == Width \in Nat /\ Narrow \in Nat \ {0} /\ Narrow <= Width
ASSUME MemAssumption == /\ Slack \in Nat \ {0} /\ Registers \subseteq Nat
                        /\ Totals \subseteq Nat /\ \A mb \in Totals : mb + Slack < Width
ASSUME BoundAssumption == /\ MaxRows \in Nat /\ MaxTraffic \in Nat
                          /\ MaxWork \in Nat /\ MaxTicks \in 0..Width-1

Kinds == {"user", "idle", "irq"}
None == "none"        \* the empty string, no interface
Names == Ifaces \cup Aliases
Device(name) == IF name \in Aliases THEN AliasOf[name] ELSE name
ASSUME NameAssumption == /\ None \notin Names /\ Ifaces \cap Aliases = {}
                         /\ AliasOf \in [Aliases -> Ifaces]

VARIABLES
  present,    \* interfaces of the machine
  addressed,  \* interfaces and aliases that have an IP address
  modulus,    \* at which the kernel's byte counters wrap
  received,   \* the byte counter of the interface that is sampled
  times,      \* the kernel's processor times
  pc,         \* the next step of Populate
  primary,    \* NetInfo::primary_interface
  net_listen, \* the table of listening ports
  rows,       \* counts the listening sockets the walk has met
  heard,      \* history: the ports and families of those sockets
  family,     \* of the file the walk reads
  curr,       \* the first sample of the byte counter
  rate,       \* NetStat::rx_rate
  ram,        \* Mem::ram, with the memory it was computed from
  prev,       \* the first sample of the processor times
  perc,       \* CpuStat: the share of each time
  moved,      \* history: bytes received since the first sample
  wrapped,    \* history: the counter has wrapped since then
  remade,     \* history: the interface was removed and made again since then
  worked,     \* history: ticks of each kind since the first sample
  wentBack,   \* history: a processor time has been set back since then
  lost,       \* history: an interface went, or none was there, in this run
  failed,     \* history: a call failed in this run
  bare        \* history: only aliases had addresses when the name was taken

machine == <<present, addressed, modulus, received, times>>
listen == <<net_listen, rows, heard, family>>
net == <<primary, listen, curr, rate>>
samples == <<moved, wrapped, remade, worked, wentBack>>
history == <<samples, lost, failed, bare>>
vars == <<machine, pc, net, ram, prev, perc, history>>

Steps == {"primary", "name", "walk", "first", "second", "mem", "cpu1", "cpu2",
          "done", "exited"}
Words == 0..Width-1

TypeOK ==
  /\ present \subseteq Ifaces
  /\ addressed \subseteq Names /\ \A name \in addressed : Device(name) \in present
  /\ modulus \in {Narrow, Width}
  /\ received \in 0..modulus-1 /\ times \in [Kinds -> Words]
  /\ pc \in Steps /\ primary \in Names \cup {None}
  /\ rows \in 0..MaxRows /\ family \in {"inet", "inet6"}
  /\ heard \subseteq Ports \X {"inet", "inet6"}
  /\ curr \in 0..modulus-1 /\ rate \in Words
  /\ ram \in [sys : Nat, ram : Nat]
  /\ prev \in [Kinds -> Words]
  /\ perc \in [Kinds -> Words \X (0..3 * Width)]
  /\ moved \in 0..MaxTraffic /\ worked \in [Kinds -> 0..MaxWork]
  /\ wrapped \in BOOLEAN /\ remade \in BOOLEAN /\ wentBack \in BOOLEAN
  /\ lost \in BOOLEAN /\ failed \in BOOLEAN /\ bare \in BOOLEAN

(* Subtraction of two sigar_uint64_t. *)
Minus_Int(a, b) == (a - b) % Narrow
Minus(a, b) == IF a >= b THEN a - b ELSE a - b + Width

NoTimes == [k \in Kinds |-> 0]
NoPerc == [k \in Kinds |-> <<0, 0>>]
NoRam == [sys |-> 0, ram |-> 0]
NoTable == sigar_cache_new(TableSize)

Init ==
  /\ present \in SUBSET Ifaces
  /\ addressed \in SUBSET {name \in Names : Device(name) \in present}
  /\ modulus \in {Narrow, Width} /\ received = 0 /\ times = NoTimes
  /\ pc = "primary" /\ primary = None
  /\ net_listen = NoTable /\ rows = 0 /\ heard = {} /\ family = "inet"
  /\ curr = 0 /\ rate = 0 /\ ram = NoRam /\ prev = NoTimes /\ perc = NoPerc
  /\ moved = 0 /\ wrapped = FALSE /\ remade = FALSE
  /\ worked = NoTimes /\ wentBack = FALSE
  /\ lost = FALSE /\ failed = FALSE /\ bare = FALSE
-----------------------------------------------------------------------------
(* The machine. *)

Unplug(i) ==
  /\ i \in present
  /\ present' = present \ {i}
  /\ addressed' = {name \in addressed : Device(name) # i}
  /\ lost' = TRUE
  /\ UNCHANGED <<modulus, received, times, pc, net, ram, prev, perc, samples,
                 failed, bare>>

(* The counters of an interface start from 0. *)
Plug(i) ==
  /\ i \notin present /\ present' = present \cup {i}
  /\ IF pc = "second" /\ i = primary
     THEN received' = 0 /\ remade' = TRUE
     ELSE UNCHANGED <<received, remade>>
  /\ UNCHANGED <<addressed, modulus, times, pc, net, ram, prev, perc,
                 moved, wrapped, worked, wentBack, lost, failed, bare>>

Readdress(name) ==
  /\ Device(name) \in present
  /\ addressed' = IF name \in addressed THEN addressed \ {name}
                  ELSE addressed \cup {name}
  /\ UNCHANGED <<present, modulus, received, times, pc, net, ram, prev, perc, history>>

(* A packet, shorter than any counter's range. *)
Receive(bytes) ==
  /\ pc = "second" /\ primary \in present /\ bytes < modulus /\ moved + bytes <= MaxTraffic
  /\ moved' = moved + bytes
  /\ received' = IF received + bytes < modulus THEN received + bytes
                 ELSE received + bytes - modulus
  /\ wrapped' = (wrapped \/ received + bytes >= modulus)
  /\ UNCHANGED <<present, addressed, modulus, times, pc, net, ram, prev, perc,
                 remade, worked, wentBack, lost, failed, bare>>

Work(k) ==
  /\ pc = "cpu2" /\ worked[k] < MaxWork /\ times[k] < Width - 1
  /\ times' = [times EXCEPT ![k] = @ + 1]
  /\ worked' = [worked EXCEPT ![k] = @ + 1]
  /\ UNCHANGED <<present, addressed, modulus, received, pc, net, ram, prev, perc,
                 moved, wrapped, remade, wentBack, lost, failed, bare>>

(* The kernel's idle time is an estimate and may be corrected downwards. *)
SetBack(k) ==
  /\ pc = "cpu2" /\ times[k] > 0
  /\ times' = [times EXCEPT ![k] = @ - 1] /\ wentBack' = TRUE
  /\ UNCHANGED <<present, addressed, modulus, received, pc, net, ram, prev, perc,
                 moved, wrapped, remade, worked, lost, failed, bare>>
-----------------------------------------------------------------------------
(* sigar_net_interface_config_primary_get: an interface with an address of *)
(* its own if there is one.  If not, what the list has first: aliases,     *)
(* which SIOCGIFCONF lists, come before the interfaces without an address, *)
(* which are added from /proc/net/dev.  ENXIO, here None, if there is none.*)
(* An interface whose configuration cannot be read is passed over; a list  *)
(* that cannot be got is one of which nothing is readable.                 *)
Listed == present \cup addressed
primary_get_NoAliasCheck(name, readable) ==
  LET answering == addressed \cap readable IN
  \/ name \in answering
  \/ answering = {} /\ name \in present \cap readable
  \/ readable = {} /\ name = None
primary_get(name, readable) ==
  LET answering == addressed \cap readable IN
  \/ name \in answering \cap Ifaces
  \/ answering \cap Ifaces = {} /\ name \in answering
  \/ answering = {} /\ name \in present \cap readable
  \/ readable = {} /\ name = None

Exit1 == pc' = "exited"
Failed == Exit1 /\ failed' = TRUE

(* NetInfo asks twice: the first answer is only checked, the second is     *)
(* taken, and when that fails the name stays empty.  sigar_net_info_get,   *)
(* before, always succeeds here.                                           *)
CheckPrimary ==
  /\ pc = "primary"
  /\ \E name \in Names \cup {None}, readable \in SUBSET Listed :
       /\ primary_get(name, readable)
       /\ IF name = None THEN Exit1 ELSE pc' = "name"
       /\ failed' = (readable # Listed)
  /\ lost' = (lost \/ present = {})
  /\ UNCHANGED <<machine, net, ram, prev, perc, samples, bare>>

(* When SIOCGIFCONF fails the buffer is freed, and sigar_close frees it    *)
(* once more: the program may end there. *)
TakePrimary ==
  /\ pc = "name"
  /\ \E name \in Names \cup {None}, readable \in SUBSET Listed :
       /\ primary_get(name, readable) /\ primary' = name
       /\ failed' = (failed \/ readable # Listed)
       /\ pc' = "walk" \/ (readable = {} /\ readable # Listed /\ Exit1)
  /\ bare' = (addressed \cap Ifaces = {})
  /\ UNCHANGED <<machine, listen, curr, rate, ram, prev, perc, samples, lost>>

(* An IPv4 address replaces what the port has, an IPv6 one does not. *)
sigar_net_listen_address_add(table, port, fam) ==
  LET got == sigar_cache_get(table, port) IN
  IF sigar_cache_find(got, port) # NULL /\ fam = "inet6" THEN got
  ELSE SetValue(got, port, fam)

(* net_stat_walker for a socket in state LISTEN; the others leave the      *)
(* table as it is, and what is counted of them is not sent.                *)
WalkListening ==
  /\ pc = "walk" /\ rows < MaxRows /\ rows' = rows + 1
  /\ \E port \in Ports :
       /\ net_listen' = sigar_net_listen_address_add(net_listen, port, family)
       /\ heard' = heard \cup {<<port, family>>}
  /\ UNCHANGED <<machine, pc, primary, family, curr, rate, ram, prev, perc, history>>

(* The end of /proc/net/tcp, and of /proc/net/tcp6, which need not exist.  *)
(* Nothing looks at the table any more; sigar_close, after the samples,    *)
(* frees it. *)
WalkNextFile ==
  /\ pc = "walk"
  /\ IF family = "inet"
     THEN family' = "inet6" /\ UNCHANGED <<pc, net_listen, rows, heard>>
     ELSE family' = "inet" /\ pc' = "first" /\ net_listen' = NoTable /\ rows' = 0
          /\ heard' = {}
  /\ UNCHANGED <<machine, primary, curr, rate, ram, prev, perc, history>>

(* The first of the files cannot be opened, or the second for another      *)
(* reason than that it does not exist.                                     *)
WalkFails ==
  /\ pc = "walk" /\ family = "inet" /\ Failed
  /\ UNCHANGED <<machine, net, ram, prev, perc, samples, lost, bare>>

(* The first sample, from /proc/net/dev, which does not list aliases.      *)
(* Only from here on the counter matters: it may have any value. *)
FirstSample ==
  /\ pc = "first"
  /\ \/ /\ primary \in present /\ pc' = "second"
        /\ received' \in 0..modulus-1 /\ curr' = received' /\ UNCHANGED failed
     \/ /\ primary \notin present /\ Exit1 /\ UNCHANGED <<received, curr, failed>>
     \/ Failed /\ UNCHANGED <<received, curr>>
  /\ UNCHANGED <<present, addressed, modulus, times, primary, listen, rate, ram,
                 prev, perc, samples, lost, bare>>

(* The second one, a second later.  m_time.elapsed() is read here as well, *)
(* and not used.  The model keeps neither sample any longer.               *)
SecondSample_Retry ==
  /\ pc = "second"
  /\ \/ /\ primary \in present /\ pc' = "mem"
        /\ rate' = Minus(received, curr) /\ UNCHANGED failed
     \/ UNCHANGED <<pc, rate, failed>>
  /\ IF pc' = "second" THEN UNCHANGED <<received, curr>> ELSE curr' = 0 /\ received' = 0
  /\ UNCHANGED <<present, addressed, modulus, times, primary, listen, ram,
                 prev, perc, samples, lost, bare>>
SecondSample ==
  /\ pc = "second"
  /\ \/ /\ primary \in present /\ pc' = "mem"
        /\ rate' = Minus(received, curr) /\ UNCHANGED failed
     \/ primary \notin present /\ Exit1 /\ UNCHANGED <<rate, failed>>
     \/ Failed /\ UNCHANGED rate
  /\ curr' = 0 /\ received' = 0
  /\ UNCHANGED <<present, addressed, modulus, times, primary, listen, ram,
                 prev, perc, samples, lost, bare>>
-----------------------------------------------------------------------------
(* Mem: MemTotal in MBs, rounded up to a multiple of 8. *)
sigar_mem_calc_ram(sys) == IF (sys % 8) > 0 THEN sys + (8 - (sys % 8)) ELSE sys

(* The sum of the write-back MTRRs replaces it, unless there is none or it *)
(* exceeds MemTotal by more than Slack, as unsigned numbers.               *)
get_ram_Signed(sys, mtrr) ==
  IF mtrr - sys > Slack \/ mtrr = 0 THEN sigar_mem_calc_ram(sys) ELSE mtrr
get_ram(sys, mtrr) ==
  IF Minus(mtrr, sys) > Slack \/ mtrr = 0 THEN sigar_mem_calc_ram(sys) ELSE mtrr

(* What Populate has put in the map is not kept in the model any longer. *)
MemGet ==
  /\ pc = "mem"
  /\ \/ /\ pc' = "cpu1" /\ UNCHANGED failed
        /\ \E sys \in Totals, mtrr \in Registers :
             ram' = [sys |-> sys, ram |-> get_ram(sys, mtrr)]
     \/ Failed /\ UNCHANGED ram
  /\ primary' = None /\ rate' = 0
  /\ moved' = 0 /\ wrapped' = FALSE /\ remade' = FALSE /\ bare' = FALSE
  /\ UNCHANGED <<machine, listen, curr, prev, perc, worked, wentBack, lost>>

(* CpuStat. *)
FirstTimes ==
  /\ pc = "cpu1"
  /\ \/ /\ pc' = "cpu2" /\ UNCHANGED failed
        /\ times' \in [Kinds -> 0..MaxTicks] /\ prev' = times'
     \/ Failed /\ UNCHANGED <<times, prev>>
  /\ ram' = NoRam
  /\ UNCHANGED <<present, addressed, modulus, received, net, perc, samples, lost, bare>>

(* sigar_cpu_perc_calculate: the differences are unsigned before they are  *)
(* compared with 0, so that none is ever replaced.                         *)
Diff_SinceBoot(k) == times[k]
Diff(k) == LET diff == Minus(times[k], prev[k]) IN IF diff < 0 THEN 0 ELSE diff

SecondTimes ==
  /\ pc = "cpu2"
  /\ \/ /\ pc' = "done" /\ UNCHANGED failed
        /\ LET total == Diff("user") + Diff("idle") + Diff("irq") IN
           perc' = [k \in Kinds |-> <<Diff(k), total>>]
     \/ Failed /\ UNCHANGED perc
  /\ UNCHANGED <<machine, net, ram, prev, samples, lost, bare>>

(* The next gathering, or the next launch: a probe opens libsigar anew. *)
Begin ==
  /\ pc \in {"done", "exited"} /\ pc' = "primary"
  /\ primary' = None
  /\ net_listen' = NoTable /\ rows' = 0 /\ heard' = {} /\ family' = "inet"
  /\ times' = NoTimes /\ prev' = NoTimes /\ perc' = NoPerc
  /\ moved' = 0 /\ wrapped' = FALSE /\ remade' = FALSE
  /\ worked' = NoTimes /\ wentBack' = FALSE
  /\ lost' = FALSE /\ failed' = FALSE /\ bare' = FALSE
  /\ UNCHANGED <<present, addressed, modulus, received, curr, rate, ram>>
-----------------------------------------------------------------------------
Machine == \/ \E i \in Ifaces : Unplug(i) \/ Plug(i)
           \/ \E name \in Names : Readdress(name)
           \/ \E bytes \in 1..MaxTraffic : Receive(bytes)
           \/ \E k \in Kinds : Work(k) \/ SetBack(k)

Probe == \/ CheckPrimary \/ TakePrimary
         \/ WalkListening \/ WalkNextFile \/ WalkFails
         \/ FirstSample \/ SecondSample \/ MemGet \/ FirstTimes \/ SecondTimes

Next == Machine \/ Probe \/ Begin

(* The worker thread is scheduled, and a file of /proc has an end. *)
Spec == Init /\ [][Next]_vars /\ WF_vars(Probe)
-----------------------------------------------------------------------------
(* Properties. *)

(* The rate is the number of bytes that came in between the two samples,   *)
(* if that fits and the kernel's counter is as wide as sigar's or has not  *)
(* wrapped, and the interface is the one the first sample was taken from.  *)
RateIsTraffic ==
  pc = "mem" /\ ~remade /\ (modulus = Width \/ ~wrapped) /\ moved < Width =>
    rate = moved

(* The reported size of the memory covers what the kernel has, and exceeds *)
(* it by no more than the slack or the rounding.                           *)
RamCoversTotal ==
  pc = "cpu1" => /\ ram.ram >= ram.sys
                 /\ ram.ram <= ram.sys + Slack \/ ram.ram < ram.sys + 8

(* While no time was set back the share of each is its part of the ticks   *)
(* between the samples. *)
CpuShares ==
  pc = "done" /\ ~wentBack =>
    \A k \in Kinds :
      perc[k] = <<worked[k], worked["user"] + worked["idle"] + worked["irq"]>>

(* While no call fails, a probe ends the program only when the machine had *)
(* no interface or has lost one since the probes began, or when the name   *)
(* taken is an alias, which it is only if no interface had an address of   *)
(* its own.  Any other coming and going of interfaces and addresses,       *)
(* between the two questions and the two samples, never does it.           *)
ExitHasCause ==
  pc = "exited" /\ ~failed => lost \/ (primary \in Aliases /\ bare)

(* The hash table of the listening ports, through collisions and growing,  *)
(* is the map from ports to addresses, IPv4 preferred.                     *)
P == INSTANCE PortMap
       WITH address <- [port \in Ports |-> sigar_cache_find(net_listen, port)]
ListenSpec == P!Spec

(* The probes come to an end, also when an interface never comes back, or  *)
(* a call fails.                                                           *)
ProbesEnd == []<>(pc \in {"done", "exited"})

(* The parts of the inductive invariant: what the counter and the times    *)
(* have done since the first sample, and why a name may be missing.        *)
RxInv ==
  /\ pc = "second" /\ ~remade /\ ~wrapped => received = curr + moved
  /\ pc = "second" /\ ~remade /\ moved < modulus =>
       received = (IF wrapped THEN curr + moved - modulus ELSE curr + moved)
  /\ pc \in {"primary", "name", "walk", "first"} =>
       moved = 0 /\ ~wrapped /\ ~remade

TimesInv ==
  /\ pc = "cpu2" /\ ~wentBack => \A k \in Kinds : times[k] = prev[k] + worked[k]
  /\ pc \notin {"cpu2", "done", "exited"} => worked = NoTimes /\ ~wentBack

NameInv ==
  /\ pc = "name" /\ present = {} => lost
  /\ pc \in {"walk", "first", "second"} /\ primary \notin present =>
       failed \/ lost \/ (primary \in Aliases /\ bare)

IInv == /\ TypeOK /\ RxInv /\ TimesInv /\ NameInv
        /\ RateIsTraffic /\ RamCoversTotal /\ CpuShares /\ ExitHasCause
=============================================================================
