# geekast: a verification development

geekast is a Qt desktop client that collects statistics about its machine
(through libsigar) and pushes them to a nodecast server, by HTTP or by XMPP, on
a click or on a timer.  This directory models the parts of it whose correctness
depends on the order of events: two threads, two mutexes used as signals, event
loops nested in handlers, requests whose replies come late, keys that are
copied to four places, a handshake over a connection that breaks anywhere,
samples of a machine that goes on changing, and restarts.

## 1. Inventory

Paths are relative to the repository's `src/`.

| component | state | operations | interaction |
|---|---|---|---|
| **Push handlers** `mainwindow.cpp:213-254, 319-335, 403-485` | the handlers that have not returned, `m_timer`, `m_push_method`, `pushButton_xmpp`, the two mutexes | `on_pushButton_push_clicked`, `on_pushButton_xmpp_clicked`, `push_data`, `on_pushButton_send_clicked`, `on_xmpp_connected`, `refreshStats`, the option boxes, Quit | starts the worker thread, waits for its unlock in a `tryLock`/`processEvents(ExcludeUserInputEvents)` loop, calls `Push` |
| **Gathering thread** `core.cpp:709-739, 781-1056` | `m_root`, `*m_datas` (`p_datas` of the window), `activated_*`, `public_host` | `Populate`, started by `QThread::started`, ended by `quit()` | reads the flags the GUI thread writes, writes the map the GUI thread reads, unlocks the mutex the GUI thread locked |
| **HTTP push and identity** `push.cpp:51-94, 152-222`, `mainwindow.cpp:244-267, 313-317` | `m_uuid`, `m_pub_uuid`, `m_reply`, the requests in flight, `QSettings`, the uuid field | `Payload_http`, `slotRequestFinished`, `replyError`, `on_push_uuidChanged`, `on_push_pub_uuidChanged`, `on_lineEdit_uuid_editingFinished` | requests and late replies; a new identity replaces the XMPP client |
| **XMPP client** `xmpp_client.cpp` | `_singleton`, `m_connected`, `m_jid`, `m_password`, `m_xmpp_port` | `connection`, `kill`, `connectedToServer`, `connectedError`, `messageReceived`, `presenceReceived` | signals to the window its constructor connected; QXmpp reconnects on its own timer |
| **Settings and start-up** `mainwindow.cpp:29-112, 293-311, 376-380, 488-498` | server, credentials, ports, refresh rate in four places | the constructor, one handler per field | feeds `Push` and the XMPP client |
| **System probes** `core.cpp:55-693` | the list of processes, the name of the primary interface, two samples of counters and times | one constructor per probe | called by `Populate` in the worker thread; a failing sigar call ends the process |
| **libsigar on Linux** `linux_sigar.c`, `sigar.c`, `sigar_cache.c`, `sigar_format.c` | `last_proc_stat`, the table of listening ports | the calls the probes make | reads `/proc`, which changes meanwhile |
| **Tray and window** `mainwindow.cpp:148-210` | visibility | show, hide, Quit | Quit ends the process |
| **main** `main.cpp` | none | creates the window, enters the event loop | |
| **qxmpp 0.3.0** `QXmppOutgoingClient.cpp`, `QXmppStream.cpp`, `QXmppReconnectionManager.cpp` | the stream, `saslStep`, `streamId`, `streamVersion`, `sessionAvailable`, the reconnection timer | `handleStream`, `handleStanza`, the socket's slots, `error` | calls the XMPP client's slots; its other managers are idle here |
| **rest of qxmpp and hyperic-sigar** `externals/` | | | other operating systems, bindings, protocols geekast does not use |

What is hard here:

* A push handler does not return while it waits.  It serves timers and sockets
  itself, so the auto-push timer starts a *second* handler on top of the first,
  an HTTP reply replaces the XMPP client in the middle of a push, and a
  connection is lost between the choice of the method and its use.
* One `unlock()` at the end of `Populate` is what a handler waits for; two
  handlers may wait for the same one, and `start()` on a running thread makes
  none.
* `*p_datas` and the option flags are shared between the threads without a lock;
  only the hand-shake protects them.
* Requests are not waited for, and every reply is handled as if it were the last
  request's.
* The process may end at any moment: a failing sigar call (`exit(1)` in the
  worker thread), a click on Quit.
* The XMPP stream keeps members from one stream to the next and resets few of
  them; a connection may break between any two messages, and the next one may
  lead to a server of another kind.
* A probe lists first and reads afterwards, or samples twice: processes end and
  pids are used again, interfaces go and come back, counters wrap, the clock is set
  back, and a read that fails leaves a cache with the wrong data.

What makes each component correct: the threads never touch shared data together
and the mutexes always come back to where they started (push handlers, gathering
thread); what is sent is what was ticked (both); a started push ends (both); the
copies of a key agree, a machine is one host, freed memory is not read
(identity); the method follows the link (XMPP client); the client says only what
it is asked, and is online only when let in (handshake); a process's record holds
its own data, and a rate or a share is what happened between the samples (probes).
The hazards, each with its line and the properties that cover it, are in
`PROJECT.json`.

## 2. Modules

### PushCycle: what a push promises

The abstract specification: the ticked options, the phase of the current push
(`idle`, `gathering`, `gathered`), the options of the last payload.  The user
ticks a box only between pushes, a gathering completes, the complete data are
handed over (`HandOver`: exactly `ticked ∩ Collected`) or dropped before the next
gathering begins, and the program may end while it gathers.  The link comes and goes
by itself (`LinkChanges`); `Drop` is allowed while it is down and at no other time.

### PushLoop: the two threads

| TLA+ | code |
|---|---|
| `settings`, `flags` | the saved boxes; `m_datas->activated_*`, `public_host` |
| `root`, `datas`, `sent` | the options `*m_root`, `*p_datas` and the last payload hold data of |
| `stack` | the handlers that have not returned, the running one last: who started it, which handler it is, where it is |
| `worker`, `pos`, `quitting` | `m_thread_getdatas`: not running, in `Populate` (at step `pos`), in `exec()`; `quit()` called |
| `getdatasLocked`, `pushLocked` | the two `QMutex`es |
| `timerActive`, `method`, `xmppEnabled`, `link`, `wired` | `m_timer`, `m_push_method`, `pushButton_xmpp`, `m_connected`, "the client is the one the constructor connected" |

A handler at `pump` is in the one `processEvents` of the XMPP handler, at `wait`
in the first `tryLock` loop, at `payload` past it, at `repush` in the second.
`InEventLoop` says when timers and sockets are served, `UserInput` when the user
is: every `processEvents` of the program excludes user input, so only when no
handler is on the stack.  `Populate` is a header step (`public_host`), one step
per guarded section, the copy to `*m_datas` and the unlock.  `*m_root` is never
cleared and a section overwrites its own entry only, as in the code.  A sigar
failure ends the process and the next launch starts over with the saved settings.

External, from how the code uses them: `start()` does nothing while the thread
runs; `quit()` takes effect when the thread is in `exec()`; a timer is not
delivered again before its slot has returned; a mutex may be unlocked by another
thread than the one that locked it.

### HostIdentity: the keys

| TLA+ | code |
|---|---|
| `uuid`, `field`, `settings`, `client` | `m_push->m_uuid`, `lineEdit_uuid`, "uuid" and "pub_uuid" in `QSettings`, the XMPP client's `m_jid` and `m_password` |
| `reqs` | the `QNetworkReply`s of this process, the last one being `m_reply`: target, unread body, phase, and whether it was given to `deleteLater()` or deleted |
| `hosts` | how many hosts the server made for this machine |
| `origin`, `history`, `misread` | history variables: who set the identity last; overlap, loss, edit; a deleted reply was read |

A key is the number of the host it belongs to, so "the two keys of one reply" is
one number in two places.  `PushHttp` is the part of the push handler from
`Payload_http` to its end: `m_pushdatas_mutex` is free when `Payload_http`
returns, so no event comes in between.  `Finished` and `Fail` run
`slotRequestFinished` to its end: it reads the *last* reply, takes what has
arrived of its body, and adopts its keys if the body was whole.  The server and
the network (`Serve`, `Arrive`) are external.

### Geekast: the window

Geekast extends PushLoop and instantiates HostIdentity (`H`).  The parts meet
where the code does:

* The hand-over posts the request (`HandOverHttp`, `HandOverXmpp`) and the end of
  the handler brings the uuid field up to date (`EndPush`): two steps with the
  second `tryLock` loop between them, one step in HostIdentity.
* A reply is read where the event loop runs (`Served`), so also inside a handler
  that waits; a reply with new keys (`Adopts`) replaces the client in PushLoop.
* The server lets in who logs in with the two keys of one host.
* Quit and a failing probe end both halves at once.

`KeySpec` says that this implements HostIdentity, with the field of a handler in
`repush` read as the key it is about to be given: nothing that happens in between
makes the two steps differ from the one.

### Link and XmppLink: the XMPP client

`Link` is the abstract link between the client and the window: a client reports
and the window it is connected to follows in the same step (`Report`), another
client takes its place (`Replace`), the program is started again (`Relaunch`).
PushLoop implements it as the user of the link, XmppLink as its provider
(`LinkSpec` in both), so what PushLoop takes for granted of the client is what
XmppLink shows the client to do.

| TLA+ (XmppLink) | code |
|---|---|
| `socket` | the stream of the current client: `off`, `lookup` (the SRV look-up that every `connectToServer` starts with), `connecting`, `handshake`, `online`, `ended` (a stream error; the server will close), `closing` (the client closes) |
| `m_connected` | the client's member, which a new client does not initialise |
| `retry`, `m_receivedConflict` | the timer and the member of QXmpp's reconnection manager |
| `wired`, `method`, `xmppEnabled` | as in PushLoop |
| `net` | whether the server can be reached (external) |
| `reported`, `refused` | history: this client has set `m_connected`; the server refused the attempt |

One action per event of the stream, each with every slot that hears of it:
`SocketError` is `connectedError`, `on_xmpp_connected` and the reconnection
manager's `error`.  Nobody sets `keepAliveTimeout`, whose default is 0, so there
is no ping timeout.  A failed authentication closes the stream with an error
signal, other handshakes that cannot go on close it with none.  Messages and
presence are left out: their handlers change none of this state.

### Handshake: what client and server say to each other

Handshake extends XmppLink: its `handshake` phase becomes a conversation over two
ordered channels, and every step of it is a step of XmppLink or a stutter.

| TLA+ | code |
|---|---|
| `server`, `phase` | the server of this connection, one of `Servers`, and how far it is (external) |
| `tls` | the socket: plain, `startClientEncryption()` called, encrypted |
| `toServer`, `toClient` | what was written and not yet read |
| `saslStep`, `streamId`, `streamVersion`, `sessionAvailable` | the members of `QXmppOutgoingClientPrivate`; only the first is reset by `handleStart` |

There is one operator per branch of `handleStream` and `handleStanza`, and
`ClientHandles` takes the next message and gives it to the one that handles it; a
message no branch knows is ignored.  A server is described by four facts: whether
its streams have a version, whether it offers TLS, how one logs in, and what it
makes of a login.  It follows the protocol (`Expected` lists what it waits for),
may turn down whatever it is asked, may be a forgery that does not know the
password, and may end the stream at any time.  The configuration is the one geekast
leaves untouched: TLS if offered, SASL before XEP-0078, digests before passwords.
Ids of requests are left out.

### Session: the settings

| TLA+ | code |
|---|---|
| `running` | the process is up |
| `saved` | `QSettings`: what the next launch reads |
| `shown` | the line edits and spin boxes |
| `used` | `m_server`, `m_http_port` and the two parts of `m_credentials` of `Push` |
| `interval` | `m_timer->interval()` |
| `dirty` | the line edit with text that is not committed, or none |
| `wild` | history: a constructor wrote through `m_timer` before it made it |

A line edit is committed when it loses the focus or on Enter, a spin box on every
change.  `Launch` is the constructor from its first line to its last: what it
reads, what `setValue` and `setText` trigger on the way, and what it hands to
`Push`.  The process may end at any moment (`Exit`), also with text that is not
committed.

### ProcScan: the list of processes

| TLA+ | code |
|---|---|
| `alive`, `births`, `now`, `setBack` | the kernel: pids in use, how often each was used since the scan began, the clocks |
| `hack` | `threadbadhack`: the release reads as one before 2.6 |
| `pc`, `cursor`, `proclist` | where `ProcList::ProcList` and `sigar_os_proc_list_get` are, the next entry of `/proc`, the pids still to do |
| `cache` | `sigar->last_proc_stat` |
| `proc`, `records` | the structures the loop fills for one pid, and `ProcList::stack` |
| `ages` | history: how old each datum of `proc` that comes from the cache was when it was copied |
| `survivors`, `failed` | history: who lived all the time; of whom a file could not be read |

The listing is one step per entry and the loop one step per file, with the machine
acting between any two.  A datum is the process it was read from.  Every read may
fail; memory that nobody wrote is `Garbage`.  Faults, state and times are copied from
the cache at three different moments, perhaps from three reads, so each has an age of
its own: `NotStale` bounds each at the moment it was copied, and says nothing of how
old it has become when the record is complete.

### Probes, SigarCache and PortMap: the other probes

`SigarCache` has the hash table of `sigar_cache.c` as operators on a record: buckets,
chains, growth.  A chain is the set of its entries.  Rehashing reverses the order of a
chain, but the walk along it looks for one key, and `ValidTable` (an entry is in the
chain of its key, no key has two) says that it meets that key once wherever it is.
`PortMap` says what the table's one user promises: a map from ports to address
families, IPv4 preferred.

| TLA+ (Probes) | code |
|---|---|
| `present`, `addressed`, `modulus`, `received`, `times` | the machine: interfaces, the width and value of the byte counter, processor times |
| `primary`, `net_listen`, `curr`, `rate`, `ram`, `prev`, `perc` | what NetInfo, NetStat, Mem and CpuStat keep and report |
| `pc` | the next library call, in the order of `Populate` |
| `moved`, `wrapped`, `remade`, `worked`, `wentBack` | history: what happened since the first sample |
| `lost`, `failed`, `bare` | history: an interface went or none was there; a call failed; no interface had an address of its own when the name was taken |

Every call may fail, and then the program ends (`Failed`): the list of interfaces, the
files of `/proc/net`, the memory, the processor times.  The configuration of an
interface that cannot be read is passed over.  `primary_get` follows the walk over the
list, aliases included: one with an address is kept "for later", is what is returned
when no interface has an address of its own, and is then not found in `/proc/net/dev`.

`sigar_uint64_t` is `0..Width-1` and its subtraction wraps (`Minus`).  `Mem` compares
an unsigned difference, `CpuStat` compares one with 0; both are taken as written.  Times
are in ticks; the factor that makes them milliseconds does not change a share.

## 3. Runs

| run | module, cfg | shows |
|---|---|---|
| `push_loop` | `MCPushLoop.cfg`: three boxes, two sections | no data race, mutexes used as signals, method follows link, stable flags, a handler is left behind in two ways only, and then for good; PushLoop implements PushCycle and the user's side of Link; nothing is dropped while the link is up; gathered data are handed over or dropped, and an automatic push whose gathering was started returns |
| `push_loop_lost_start` | `MCPushLoopLost.cfg`: violated | an automatic push may wait for ever |
| `identity` | `MCHostIdentity.cfg`: three requests, two hosts, the user may type a foreign key | the copies of the keys agree; no use after free without an overlap; a machine that loses, overlaps and edits nothing is one host and keeps its key |
| `identity_readme` | `MCHostIdentityReadme.cfg`: violated | two pushes before the first reply make two hosts |
| `geekast` | `MCGeekast.cfg`: two requests, one host | a hand-over is exclusive, the first push of a machine goes over HTTP, the window implements HostIdentity |
| `xmpp_link` | `MCXmppLink.cfg`: with fairness | `m_connected` is true, a lost link is retried, a retry meets no live connection, XmppLink implements Link; the link recovers |
| `xmpp_link_shown` | `MCXmppLinkShown.cfg`: violated | the method shown is that of a client that was replaced |
| `handshake` | `MCHandshake.cfg`: nine servers | the client says only what is expected, gives up only for a reason of this stream, waits for ever in four cases only, is online only when let in; a server that serves is reached |
| `session` | `MCSession.cfg`: three texts, two ports, two rates | what is shown, saved and used agrees; a launch goes on with what was used |
| `session_refresh` | `MCSessionTimer.cfg`: violated | a launch that restores a changed rate writes through an unset `m_timer` |
| `procscan` | `MCProcScan.cfg`: two pids, each used twice | records hold their own process's data, each fresh when it was copied, the list is a census, a scan ends |
| `probes` | `MCProbes.cfg`: two interfaces and an alias, a table of one bucket, words of 12 | a rate is the traffic, a size covers the memory, shares add up, what ends the program is a failed call, a lost interface or a machine whose only address is an alias's, the table is a map; the probes end |

The type invariants, the inductive invariants and the measures (`PushesAdvance`,
`HandlersMove`, `EveryMessageCounts`, `ScanAdvances`) are proved (section 5) and not
listed in the runs; each was model-checked on the instances above before it was proved.

Bounds.

* PushLoop: the stack needs no bound.  It never exceeds two (`TypeOK`, proved), since
  the timer is not delivered inside its own slot.  Two sections are enough for a
  flag to change between two sections and for a section to keep an entry of the
  previous run.
* HostIdentity: two requests for each order of two overlapping replies, three for an
  overlap after an adopted key; two hosts for a machine that is registered twice.
  `MaxRequests` counts the requests of one process; a restart starts again, so
  lifetimes are not bounded.
* Geekast: two requests overlap while a handler waits.  Its `VIEW` leaves out the
  history variables and the data of the options, which no guard reads.
* XmppLink and, for given `Servers`, Handshake are finite as they stand.  The nine
  servers take every value of every field and reach each of the four ways to stall.
* Session's handlers compare texts and numbers with nothing but the first values of
  the fields, so one value beside each reaches every case.
* ProcScan: two pids for a cache that holds the neighbour's data, two births for a pid
  that is used again, one failed read, and a scan of two seconds, which is how long
  the cache is good.
* Probes: counters wrap at 3 or at the word's 12, packets sum up to 13, so each wraps
  during a sample and the narrow one several times; one alias beside the interface it
  is one of and another interface gives every order of addresses; three ports met by a table of one
  bucket share a chain, and make it grow; the memory sizes lie on both sides of the
  comparison with the slack and of the multiples of 8.

The proofs of section 5 have no bounds.

Deadlock is checked in every run: the user can always act when no handler is on the
stack, and the network or the machine always can.  The waiting for ever of
`push_loop_lost_start` and of the stalled handshakes is therefore not a deadlock of
the model: the one is a liveness failure, the others are named by `StallsOnlyWhen`.

## 4. Fairness and findings

Fairness, module by module:

* PushLoop: weak fairness of the GUI thread's running handler and of the worker
  thread.  The operating system schedules both, and each waits only in a loop or in
  `exec()`.  Nothing obliges the user, the timer or the network to act.
* XmppLink: weak fairness of the look-up, of the socket's calls and errors, of closing
  and of the reconnection timer, which the event loop serves.  Strong fairness of
  `Answer` says of the server that, tried again and again, it does not end every
  handshake with a stream error.  `LinkRecovers` has a premise besides: from some time
  on the server can be reached and no reply replaces the client.
* Handshake replaces that strong fairness by weak fairness of the client's handlers
  and of the server's answers.  `ServedLinkRecovers` has the premises of
  `LinkRecovers`, a server with a login the client knows and with sessions, and that
  from some time on the server ends no stream.
* ProcScan and Probes: weak fairness of the worker thread's next call.  Nothing obliges
  the machine to stop changing.

Liveness that holds under it: `GatheredIsHandedOver` and `StartedAutoPushReturns` (once
`Populate` has begun, the push it was started for ends, whichever handler takes the
data); `LinkRecovers` (no way to lose the link leaves the client without a retry,
unless the server refused it: then it stays down, as `StaysDownOnlyWhenRefused` says);
`ServedLinkRecovers`; `EveryScanEnds`; `ProbesEnd`.

Refuted, each by a run:

* `AutoPushReturns`.  `start()` may find the thread of the previous push still running,
  since its `quit()` is not waited for; then no `Populate` runs, nobody unlocks
  `m_getdatas_mutex`, the handler spins, user input stays excluded and the timer is not
  delivered again, while the button says "Auto push is ON".

`LeftBehindForGood` says exactly when a handler is never served.  Besides that lost
`start()` there is one other way: the timer fires while a handler waits.  The nested
handler takes the one unlock both wait for, and so does every later one; the handler
below waits for ever and the user is shut out, though automatic pushes go on.  The only
way out is a probe that ends the program.

Also refuted:

* `OneKeyPerMachine`.  README says the key is generated on the first push; a second
  push before the first reply generates another.
* `ShownMethodIsReal`.  Nothing connects the window to the client that replaces the
  first, so "push method", the button and `m_push_method` stay as the first client
  left them.
* `NoWildTimer`.  The constructor restores the refresh rate, whose handler sets
  `m_timer`'s interval, before it makes `m_timer`.

What the modelling showed besides, without a run of its own because a property states
it exactly or because it is one statement:

* Handshake: a server that offers no session, or refuses to bind the resource or a
  login by query, is waited for without end (`QXmppOutgoingClient.cpp:455`,
  `StallsOnlyWhen`).  A login by query uses the id of the first stream ever opened,
  also on a later connection, so its digest is refused there.  `streamVersion` is kept,
  so an older server met after a newer one is waited for, too.  An answer that refuses
  the session counts as the session (`QXmppOutgoingClient.cpp:424-432`,
  `OnlineMeansLoggedIn`).
* ProcScan: after a failed read the cache holds another process's data under this
  pid (`linux_sigar.c:664`); `threads` is sent uninitialised when `status` cannot be
  read (`linux_sigar.c:871`); release 3.0 counts as older than 2.6
  (`linux_sigar.c:203`).  `OwnData` and `Census` say how far the damage goes.
* Probes: on a machine whose only addressed label is an alias every launch ends at the
  first sample, though nothing was lost (`sigar.c:1840`, `core.cpp:285-289`);
  `ExitHasCause` names the case.  A `SIOCGIFCONF` that fails frees `ifconf_buf`, keeps
  the pointer, and `sigar_close` frees it again (`sigar.c:1745`, `sigar.c:69`).
  `sigar_net_info_get` returns `SIGAR_OK` whatever happens (`sigar.c:1260-1317`), so the
  exit at `core.cpp:204-208` is never taken.  A counter that is narrower than sigar's,
  an interface that is made again and a time that is set back give huge numbers:
  `RateIsTraffic` and `CpuShares` leave these cases out and claim nothing of them.
  The clamps in `sigar_cpu_perc_calculate` never act, since the differences are
  unsigned (`sigar_format.c:613-629`); the time measured between the samples is not used
  (`core.cpp:303`), so the rate is per sample.
* PushLoop: the "file system" box (`mainwindow.ui:161`) has no section in `Populate`.
* Session: on the first launch the fields show a server and a port that the settings
  do not have (`mainwindow.ui:39`, `mainwindow.cpp:55-56`), so a push has none until
  they are edited; `ScreenShowsSaved` makes the exception.

## 5. Proofs

The eight `...Proofs` modules are checked by TLAPS for every value of the constants,
under the modules' assumptions: the sections are options and so is `Public`
(`SectionsAssumption`, `PublicAssumption`); the bounds are numbers and typed keys are
keys (`BoundAssumption`, `TypedAssumption`, `KeyAssumption`); the first values of the
fields are texts, ports and rates (`TextAssumption`, `NumberAssumption`); the servers
are of `ServerKinds` and an older one offers queries alone (`ServersAssumption`); pids
and the cache's life are numbers (`PidAssumption`, `TimeAssumption`); a counter fits a
word, and memory sizes and the slack, added, do (`WidthAssumption`, `MemAssumption`).
For every module a theorem `TypeCorrect` (or the invariance theorem) gives the types.

**PushLoop.**  `IInv` is `TypeOK` with four parts.  `StackInv`: only the lowest
handler is the user's, only the uppermost the timer's, and all but the uppermost
pump or wait.  `TokenInv`: one gathering is one token, which `Populate` makes, the
unlocked `m_getdatas_mutex` carries, one handler takes and `quit()` destroys.  A
race is excluded only because the token is unique: `NoDataRace` is not inductive
by itself, since it says nothing of who may unlock.  `DataInv`: what `root` and
`datas` hold agrees with the ticked options as far as `Populate` has come.
`MethodMatchesLink` is inductive.  From `Invariance` follow `TypeCorrect`,
`NoRace`, `MutexDiscipline`, `MethodFollowsLink`, `StableFlags` and,
with one step per action, `Refinement` (`Spec => Cycle!Spec`) and `LinkRefinement`
(`Spec => XLink!Spec`).  `PushesCount` and `WhoIsLeftBehind` say how pushes end.
`StepsToReturn` adds what every handler on the stack and the worker have left to do; it
is a natural number, each step of either thread lowers it, an event served inside a
handler leaves it, and only a new push raises it.  A handler that has not returned can go
on or is `Stranded`; it is `LeftBehind` when it is stranded or waits under another, it
falls behind only when an automatic push overtakes it or when it starts while the
thread of the last push still has to quit, and it stays behind.  `BottomStep` carries
this: what a step may do to the handler at the bottom of the stack.
That needs one fact beside `IInv`, `TokenUsed`: a worker that idles was told to quit,
or its data are waiting or in use.

**HostIdentity.**  `IInv` is `TypeOK`, `IdentityPersisted`, `ServerKeysAgree` and
three parts.  `OneOpen`: without an overlap only the last reply is open and an
open reply is not given up.  `KeyKnown`: without any loss, the process knows its
host's key or has it in the one open answer.  `PasswordKnown`: the client logs in
with Push's key unless the user changed it, which is why the create that
`Payload_xmpp` sends without a key reaches the server only after an edit.  The
lemmas `SlotFacts` and `EndIInv` carry the argument: whichever request ends, what
is read is the last one, and without an overlap they are the same.  From
`Invariance` follow `Persistence`, `Agreement`, `MemorySafety`, `OneHost` and the
action property `Sticking`.

**XmppLink.**  `LinkTrue`, `StaysDownOnlyWhenRefused` and `RetryOnlyWhenDown` need
each other and four facts more: a client that is online or was told of a stream
error has reported; one that closes was refused; after a conflict the attempt
counts as refused and the stream is ended or off.  The last is what keeps
`SocketError` from starting the timer of a client that gave up.  From
`Invariance` follow `Truth`, `TriesAgain`, `NoCrossing` and `LinkRefinement`.

**Handshake.**  `HandshakeIInv` is XmppLink's invariant and the script of the
conversation.  `Opening`, `Authenticating` and `LoggingIn` list, phase by phase, what is
on its way in both directions and what the members hold; `Script` says that one of them
describes every handshake the server has not ended, `Between` that nothing is left
when there is no connection, and `Ending` what an ended stream may still hold: at most
the answer that lets the client in, then the error.  One lemma per action shows that
it leads from one line of the script to another; `Heard` and `HeardAsk` say in
which lines a message of the server or of the client is the next to be read.  From `HandshakeInvariance` follow `Unsurprised`,
`Reasons`, `Stalls`, `LetIn` and `HandshakeImplementsLink`, that every step is one of
XmppLink's, so that `HandshakeTruth`, `HandshakeTriesAgain` and `HandshakeGivesLink`
are its theorems.  `EveryStepCounts` bounds the conversation: within a connection every
message written or read lowers `StepsLeft`, which weighs the phase of the server, what
is on its way and a change to TLS.  The script is needed for it: without it a client
could answer one message with two.

**Geekast.**  `GeekastIInv` is the invariant of both halves, `HandedOverOnce`,
`FirstPushIsHttp`, that no key is on its way before there is a host, and that each
handler on the stack has room for its request.  HostIdentity's step lemmas are used
with the field as `KeySpec` reads it; what is new is `HandingFacts`: while a push is
handed over neither the event loop nor the user is served, because PushLoop's
`TokenInv` has `m_pushdatas_mutex` free then.  From
`GeekastInvariance` follow `GeekastTypeCorrect`, `HandOverIsExclusive`,
`HttpComesFirst`, `KeyRefinement`, and that what was proved of the two halves alone
holds of the window: `PartsKeepTheirWord` for the invariants, `WindowFlags`,
`WindowLeavesBehind` and `WindowIdentity` for what a step may do, `WindowPushes` and
`WindowLink` for the abstract specifications `PushCycle` and `Link`.

**Session.**  `IInv` is `TypeOK`, `PushUsesSaved`, `ScreenShowsSaved`, that the
shown login and password are those used while nobody edits them, and that the
timer's interval is the restored rate: the login's handler takes the *password
field*, so what is saved is right only because the other field is not being edited.
From `Invariance` follow `PushUsesSettings`, `ScreenAgrees` and the action
property `SettingsRestored`.

**ProcScan.**  `CacheInv` (an entry under a pid that could be read is that pid's, and as
old as it says), `ProcInv` (of the unfinished record, the fields read so far),
`RecordsInv` and `NotStale` together carry `OwnData`; `AgesInv` (each datum of the
unfinished record was younger than the cache's life when it was copied) carries
`NotStale`; `Ascending` (pids are listed and
recorded in order) and `Complete` (a survivor is still to be listed, listed or
recorded) carry `Census`.  From `Invariance` follow `RecordsOwnTheirData`,
`ScanIsACensus` and `RecordsAreFresh`.  `ScansAdvance` bounds a scan by
`6 * MaxPid + 2` steps: each lowers `StepsToGo`, and no process that comes, goes or
takes over a pid raises it.

**Probes.**  `RxInv` and `TimesInv` say what counters and times have done since the
first sample, `NameInv` why a name may be missing: a call failed, an interface was lost,
or the name is an alias's and no interface had an address; the rest is modular
arithmetic.  `FailedIInv` has the failing calls in one lemma.
From `Invariance` follow `RateIsExact`, `RamIsCovered`, `SharesAreExact` and
`ExitsHaveCauses`.  `ListensAsMap` is the refinement `Spec => ListenSpec`: the lemmas
`RehashFinds`, `GetFinds`, `SetFinds` and `AddFinds` say what a search finds after each
operation of the table, for every key and size, and `TableStep` that each walk keeps
`ValidTable`; growth loses no entry since an entry's chain depends on its key alone.

Only model-checked: the liveness properties `GatheredIsHandedOver`,
`StartedAutoPushReturns`, `LinkRecovers`, `ServedLinkRecovers`, `EveryScanEnds` and
`ProbesEnd`, and the four refuted properties.  That something does happen needs
fairness and `ENABLED`, which are out of the prover's reach.  The measures `StepsToReturn`,
`StepsLeft` and `StepsToGo` prove the other half for every value of the constants: what
happens cannot go on without end.

## 6. Not modelled

* Most of `externals/`.  Nearly all lines of this repository are vendored: libsigar for
  six operating systems with its query language, shell and bindings, and qxmpp with
  managers for archives, calls, rosters, transfers and rooms.  The Linux build of
  geekast does not compile the one and never starts the other.  What geekast does call
  is modelled where it keeps state, takes time or computes (ProcScan, SigarCache,
  Probes, XmppLink, Handshake); the share of all lines stays small for that reason.
* Probes of one call: Swap, SysInfo, LoadAvg, Uptime, Cpu and System copy a library
  call's numbers into strings.  FileSystem is never made.
* `messageReceived` and `presenceReceived`: the one shows a status, the other answers
  a subscription request; they change no state of the client.
* The port of the XMPP client: the "XMPP port" field reaches no running client (it is
  saved for the next launch), and a client that replaces the first one is given none,
  so it connects with an uninitialised `m_xmpp_port`.  README's
  "server : http://api.nodecast.net" does not work either: `Payload_http` adds a
  scheme of its own.  Both are single statements, visible without a model.
* The bytes of the XMPP stream, digests and certificates: a message is its kind, a
  proof is right or wrong.
* Leaks: a reply that succeeds is never deleted, the probes of a section are replaced
  without being deleted.  Nothing depends on them.
* Progress bar, status bar, tray, logging.

## 7. What is left

1. Ids of requests in Handshake: an answer with another id is ignored by some branches
   and taken by others.
2. Geekast with Handshake in the place of PushLoop's `link`.  Both sides are shown to
   implement `Link`, so the composition would confirm what that bridge already says.
3. `Presence`: subscription requests and answers between two clients, and the
   messages of `messageReceived`.
