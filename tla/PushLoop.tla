------------------------------ MODULE PushLoop ------------------------------
(***************************************************************************)
(* One push, from the click or the timer to the hand-over: the GUI thread  *)
(* (MainWindow's push handlers), the worker thread (Datas::Populate on     *)
(* m_thread_getdatas) and the two QMutexes they signal each other with.    *)
(*                                                                         *)
(* A push handler does not return while it waits: it spins on              *)
(* QApplication::processEvents(ExcludeUserInputEvents), so the auto-push   *)
(* timer and the XMPP and HTTP sockets still deliver events, and a timer   *)
(* event starts a second handler on top of the first.  "stack" is that     *)
(* stack of unfinished handlers, its last element the one that runs.       *)
(* A handler that pumps or waits is in the event loop at every moment; the *)
(* iterations of its loop are not told apart.                              *)
(*                                                                         *)
(* QThread, QMutex, QTimer and QSettings are Qt's; their contracts are     *)
(* modelled from their use here: start() does nothing while the thread     *)
(* runs, quit() before exec() is remembered, the timer is not delivered    *)
(* again while its own slot has not returned, a QMutex locked by one       *)
(* thread may be unlocked by the other, and a setting is on disk as soon   *)
(* as the handler that set it is back in the event loop.                   *)
(***************************************************************************)
EXTENDS Integers, Sequences

CONSTANTS Options,    \* the check boxes of the main window
          Sections,   \* the guarded sections of Populate, in their order
          Public      \* the option Populate copies into the header

ASSUME SectionsAssumption == Sections \in Seq(Options)
ASSUME PublicAssumption == Public \in Options

N == Len(Sections)

(* The options Populate reads: the header's and one per section. *)
Collected == {Public} \cup {Sections[i] : i \in 1..N}

VARIABLES
  settings,        \* options saved as true in QSettings, as the boxes show them
  flags,           \* m_datas->activated_* and public_host that are true
  root,            \* options *m_root holds the data of
  datas,           \* options *p_datas holds the data of
  sent,            \* options of the last payload given to the transport
  stack,           \* the push handlers that have not returned
  worker,          \* m_thread_getdatas: stopped, in Populate, or in exec()
  pos,             \* the next step of Populate
  quitting,        \* quit() was called and the thread has not finished
  getdatasLocked,  \* m_getdatas_mutex
  pushLocked,      \* m_pushdatas_mutex
  timerActive,     \* m_timer, the "Auto push" button
  method,          \* m_push->m_push_method
  xmppEnabled,     \* pushButton_xmpp is enabled
  link,            \* m_push->m_xmpp_client->m_connected
  wired            \* that client is the one the constructor connected

guiVars == <<timerActive, method, xmppEnabled, link, wired>>
workerVars == <<worker, pos, root, datas>>
vars == <<settings, flags, sent, stack, quitting, getdatasLocked, pushLocked,
          guiVars, workerVars>>

Frames == [src : {"user", "timer"}, kind : {"http", "xmpp"},
           pc : {"pump", "wait", "payload", "repush"}]

TypeOK == /\ settings \subseteq Options
          /\ flags \subseteq Options
          /\ root \subseteq Collected
          /\ datas \subseteq Collected
          /\ sent \subseteq Collected
          /\ stack \in Seq(Frames) /\ Len(stack) <= 2
          /\ worker \in {"stopped", "populating", "running"}
          /\ pos \in 0..N+2
          /\ quitting \in BOOLEAN
          /\ getdatasLocked \in BOOLEAN /\ pushLocked \in BOOLEAN
          /\ timerActive \in BOOLEAN /\ xmppEnabled \in BOOLEAN
          /\ link \in BOOLEAN /\ wired \in BOOLEAN
          /\ method \in {"http", "xmpp"}

-----------------------------------------------------------------------------
(* The stack of handlers. *)

Top == stack[Len(stack)]

At(pc) == stack # <<>> /\ Top.pc = pc

Goto(pc) == [stack EXCEPT ![Len(stack)] = [@ EXCEPT !.pc = pc]]

Pop == SubSeq(stack, 1, Len(stack) - 1)

Frame(src, kind, pc) == [src |-> src, kind |-> kind, pc |-> pc]

TimerOnStack == \E i \in 1..Len(stack) : stack[i].src = "timer"

(* Timers and sockets are served: exec(), or a processEvents of a handler. *)
InEventLoop == \/ stack = <<>>
               \/ At("pump")
               \/ At("wait")
               \/ At("repush") /\ pushLocked

(* User input is served: exec() only, every processEvents excludes it. *)
UserInput_Bug == InEventLoop
UserInput == stack = <<>>
-----------------------------------------------------------------------------
(* What the constructor leaves: everything but the settings, and what the  *)
(* server has received, starts afresh.  m_connected is not initialised.    *)

Init == /\ settings \in SUBSET Options
        /\ flags = settings
        /\ root = {} /\ datas = {} /\ sent = {}
        /\ stack = <<>>
        /\ worker = "stopped" /\ pos = 0 /\ quitting = FALSE
        /\ getdatasLocked = TRUE /\ pushLocked = TRUE
        /\ timerActive = FALSE
        /\ method = "http" /\ xmppEnabled = TRUE
        /\ link \in BOOLEAN /\ wired = TRUE

Relaunch == /\ flags' = settings
            /\ root' = {} /\ datas' = {}
            /\ stack' = <<>>
            /\ worker' = "stopped" /\ pos' = 0 /\ quitting' = FALSE
            /\ getdatasLocked' = TRUE /\ pushLocked' = TRUE
            /\ timerActive' = FALSE
            /\ method' = "http" /\ xmppEnabled' = TRUE
            /\ link' \in BOOLEAN /\ wired' = TRUE
            /\ UNCHANGED <<settings, sent>>
-----------------------------------------------------------------------------
(* GUI thread: user input. *)

on_checkBox_clicked(o) ==
  /\ UserInput
  /\ settings' = (settings \ {o}) \cup ({o} \ settings)
  /\ UNCHANGED <<flags, sent, stack, quitting, getdatasLocked, pushLocked,
                 guiVars, workerVars>>

on_pushButton_send_clicked ==
  /\ UserInput
  /\ timerActive' = ~timerActive
  /\ UNCHANGED <<settings, flags, sent, stack, quitting, getdatasLocked,
                 pushLocked, method, xmppEnabled, link, wired, workerVars>>

(* refreshStats() and m_thread_getdatas->start(): the thread emits started *)
(* in itself, so Populate is its first work; a thread that still runs is   *)
(* not started again.                                                      *)
StartGathering_StaleFlags ==
  /\ worker' = IF worker = "stopped" THEN "populating" ELSE worker
  /\ UNCHANGED <<flags, pos, root, datas>>
StartGathering ==
  /\ flags' = settings
  /\ worker' = IF worker = "stopped" THEN "populating" ELSE worker
  /\ UNCHANGED <<pos, root, datas>>

on_pushButton_push_clicked(src) ==
  /\ stack' = Append(stack, Frame(src, "http", "wait"))
  /\ StartGathering
  /\ UNCHANGED <<settings, sent, quitting, getdatasLocked, pushLocked, guiVars>>

(* The XMPP handler pumps events once before it reads the settings. *)
on_pushButton_xmpp_clicked(src) ==
  /\ stack' = Append(stack, Frame(src, "xmpp", "pump"))
  /\ UNCHANGED <<settings, flags, sent, quitting, getdatasLocked, pushLocked,
                 guiVars, workerVars>>

ClickPush == UserInput /\ on_pushButton_push_clicked("user")

ClickXmpp == UserInput /\ xmppEnabled /\ on_pushButton_xmpp_clicked("user")

(* The tray menu's Quit, and the next launch of the program. *)
Quit == UserInput /\ Relaunch
-----------------------------------------------------------------------------
(* GUI thread: events served in the main loop and inside a handler. *)

(* m_timer's timeout. *)
push_data ==
  /\ timerActive
  /\ InEventLoop
  /\ ~TimerOnStack
  /\ \/ method = "http" /\ on_pushButton_push_clicked("timer")
     \/ method = "xmpp" /\ on_pushButton_xmpp_clicked("timer")

(* Xmpp_client::connectedToServer and connectedError; the window hears of  *)
(* it only from the client its constructor connected.                      *)
on_xmpp_connected_NoFallback(connected) ==
  /\ InEventLoop
  /\ link' = connected
  /\ IF wired /\ connected
     THEN method' = "xmpp" /\ xmppEnabled' = TRUE
     ELSE UNCHANGED <<method, xmppEnabled>>
  /\ UNCHANGED <<settings, flags, sent, stack, quitting, getdatasLocked,
                 pushLocked, timerActive, wired, workerVars>>
on_xmpp_connected(connected) ==
  /\ InEventLoop
  /\ link' = connected
  /\ IF wired
     THEN /\ method' = IF connected THEN "xmpp" ELSE "http"
          /\ xmppEnabled' = connected
     ELSE UNCHANGED <<method, xmppEnabled>>
  /\ UNCHANGED <<settings, flags, sent, stack, quitting, getdatasLocked,
                 pushLocked, timerActive, wired, workerVars>>

(* An HTTP reply with a new identity: the client is killed and a new one,  *)
(* whose m_connected is not initialised, takes its place.                  *)
ReplaceClient ==
  /\ InEventLoop
  /\ link' \in BOOLEAN
  /\ wired' = FALSE
  /\ UNCHANGED <<settings, flags, sent, stack, quitting, getdatasLocked,
                 pushLocked, timerActive, method, xmppEnabled, workerVars>>
-----------------------------------------------------------------------------
(* GUI thread: the running handler. *)

EndPump_Exec ==
  /\ At("pump") /\ link
  /\ stack' = Goto("wait")
  /\ StartGathering
  /\ UNCHANGED <<settings, sent, quitting, getdatasLocked, pushLocked, guiVars>>
EndPump ==
  /\ At("pump")
  /\ stack' = Goto("wait")
  /\ StartGathering
  /\ UNCHANGED <<settings, sent, quitting, getdatasLocked, pushLocked, guiVars>>

(* while(!m_getdatas_mutex->tryLock()) ends: the mutex is held again. *)
TakeData_NoRelock ==
  /\ At("wait")
  /\ ~getdatasLocked
  /\ stack' = Goto("payload")
  /\ UNCHANGED <<settings, flags, sent, quitting, getdatasLocked, pushLocked,
                 guiVars, workerVars>>
TakeData ==
  /\ At("wait")
  /\ ~getdatasLocked
  /\ getdatasLocked' = TRUE
  /\ stack' = Goto("payload")
  /\ UNCHANGED <<settings, flags, sent, quitting, pushLocked, guiVars,
                 workerVars>>

(* Both hand-overs read *p_datas and unlock m_pushdatas_mutex. *)
Payload_http ==
  /\ At("payload") /\ Top.kind = "http"
  /\ sent' = datas
  /\ pushLocked' = FALSE
  /\ stack' = Goto("repush")
  /\ UNCHANGED <<settings, flags, quitting, getdatasLocked, guiVars, workerVars>>

(* Nothing is sent, and nobody told, if the client is not connected. *)
Payload_xmpp ==
  /\ At("payload") /\ Top.kind = "xmpp"
  /\ sent' = IF link THEN datas ELSE sent
  /\ pushLocked' = FALSE
  /\ stack' = Goto("repush")
  /\ UNCHANGED <<settings, flags, quitting, getdatasLocked, guiVars, workerVars>>

(* The second tryLock loop, quit() and the handler's return. *)
FinishPush ==
  /\ At("repush")
  /\ ~pushLocked
  /\ pushLocked' = TRUE
  /\ quitting' = (worker # "stopped")
  /\ stack' = Pop
  /\ UNCHANGED <<settings, flags, sent, getdatasLocked, guiVars, workerVars>>
-----------------------------------------------------------------------------
(* Worker thread: Datas::Populate, then exec() until quit(). *)

(* *m_root keeps its entries from one run to the next; a step overwrites   *)
(* the entry of its own option, ticked or not.                             *)
Record(o) ==
  /\ root' = IF o \in flags THEN root \cup {o} ELSE root \ {o}
  /\ pos' = pos + 1
  /\ UNCHANGED <<settings, flags, sent, stack, quitting, getdatasLocked,
                 pushLocked, guiVars, worker, datas>>

Header == worker = "populating" /\ pos = 0 /\ Record(Public)

Section == worker = "populating" /\ pos \in 1..N /\ Record(Sections[pos])

(* *m_datas = *m_root *)
CopyOut_UnlockFirst ==
  /\ worker = "populating" /\ pos = N + 1
  /\ getdatasLocked' = FALSE
  /\ pos' = pos + 1
  /\ UNCHANGED <<settings, flags, sent, stack, quitting, datas, pushLocked,
                 guiVars, worker, root>>
CopyOut ==
  /\ worker = "populating" /\ pos = N + 1
  /\ datas' = root
  /\ pos' = pos + 1
  /\ UNCHANGED <<settings, flags, sent, stack, quitting, getdatasLocked,
                 pushLocked, guiVars, worker, root>>

(* m_mutex->unlock(), the end of Populate. *)
Unlock_Forgotten ==
  /\ worker = "populating" /\ pos = N + 2
  /\ worker' = "running"
  /\ pos' = 0
  /\ UNCHANGED <<settings, flags, sent, stack, quitting, getdatasLocked,
                 pushLocked, guiVars, root, datas>>
Unlock ==
  /\ worker = "populating" /\ pos = N + 2
  /\ getdatasLocked' = FALSE
  /\ worker' = "running"
  /\ pos' = 0
  /\ UNCHANGED <<settings, flags, sent, stack, quitting, pushLocked, guiVars,
                 root, datas>>

(* exec() returns and the thread ends. *)
Finish ==
  /\ worker = "running" /\ quitting
  /\ worker' = "stopped"
  /\ quitting' = FALSE
  /\ UNCHANGED <<settings, flags, sent, stack, getdatasLocked, pushLocked,
                 guiVars, pos, root, datas>>

(* A sigar call of a ticked section fails, or an interface it needs is     *)
(* gone: exit(1), then the next launch.  Probes says when that may happen. *)
SigarExit ==
  /\ worker = "populating" /\ pos \in 1..N /\ Sections[pos] \in flags
  /\ Relaunch
-----------------------------------------------------------------------------
GuiStep == EndPump \/ TakeData \/ Payload_http \/ Payload_xmpp \/ FinishPush

WorkerStep == Header \/ Section \/ CopyOut \/ Unlock \/ Finish

Event == \/ \E o \in Options : on_checkBox_clicked(o)
         \/ on_pushButton_send_clicked
         \/ ClickPush
         \/ ClickXmpp
         \/ Quit
         \/ push_data
         \/ \E connected \in BOOLEAN : on_xmpp_connected(connected)
         \/ ReplaceClient

Next == Event \/ GuiStep \/ WorkerStep \/ SigarExit

(* Both threads are scheduled; nothing obliges the user, the timer, the    *)
(* network or a failure to act.                                            *)
Fairness == WF_vars(GuiStep) /\ WF_vars(WorkerStep)

Spec == Init /\ [][Next]_vars /\ Fairness
-----------------------------------------------------------------------------
(* Properties. *)

(* While a payload is built from *p_datas (Payload_http, Payload_xmpp read *)
(* it without a lock) the worker is not inside Populate, which writes it.  *)
NoDataRace == At("payload") => worker # "populating"

(* The mutexes are signals, one unlock for one tryLock: neither is unlocked*)
(* while it is free, which QMutex leaves undefined, and when every handler *)
(* has returned both are held and no gathering is under way, so that the   *)
(* next push starts from where the first one did.                          *)
MutexesSignal ==
  /\ worker = "populating" => getdatasLocked
  /\ At("payload") => pushLocked
  /\ stack = <<>> => getdatasLocked /\ pushLocked /\ worker # "populating"

(* The method an automatic push will use is "xmpp" only while the client   *)
(* is connected, as long as it is the client the window listens to.        *)
MethodMatchesLink == wired /\ method = "xmpp" => link

(* The options do not change under Populate's feet: refreshStats of a      *)
(* second handler, and the user, leave them alone while it runs.           *)
FlagsStable == [][worker = "populating" /\ worker' = "populating"
                    => flags' = flags]_vars

(* The parts of the inductive invariant the proofs of PushLoopProofs use.  *)
(* Only the lowest handler is the user's, only the uppermost the timer's,  *)
(* and every handler but the uppermost waits or pumps.                     *)
StackInv == \A i \in 1..Len(stack) :
              /\ i < Len(stack) => /\ stack[i].src = "user"
                                   /\ stack[i].pc \in {"pump", "wait"}
              /\ i > 1 => stack[i].src = "timer"

(* One gathering is one token, which Populate makes, m_getdatas_mutex      *)
(* carries while it is unlocked, one handler takes and quit() destroys.    *)
TokenInv ==
  /\ worker = "populating" => /\ getdatasLocked /\ ~quitting
                              /\ At("pump") \/ At("wait")
  /\ ~getdatasLocked => /\ worker = "running" /\ ~quitting
                        /\ At("pump") \/ At("wait")
  /\ At("payload") \/ At("repush")
       => worker = "running" /\ ~quitting /\ getdatasLocked
  /\ pushLocked <=> ~At("repush")
  /\ quitting => worker = "running"

(* The data of a gathering agree with the ticked options as far as         *)
(* Populate has come, and to the end once they are copied out.             *)
DataInv ==
  /\ worker # "populating" => pos = 0
  /\ worker = "populating" =>
       /\ flags = settings
       /\ pos >= 1 => (Public \in root <=> Public \in settings)
       /\ \A i \in 1..N : i < pos => (Sections[i] \in root <=> Sections[i] \in settings)
       /\ pos = N + 2 => datas = settings \cap Collected
  /\ ~getdatasLocked \/ At("payload") => datas = settings \cap Collected

IInv == TypeOK /\ StackInv /\ TokenInv /\ DataInv /\ MethodMatchesLink

(* How far the current push has come, for the abstract specification.      *)
Phase ==
  IF worker = "populating" /\ pos <= N + 1 THEN "gathering"
  ELSE IF worker = "populating" \/ ~getdatasLocked \/ At("payload")
  THEN "gathered" ELSE "idle"

(* The program implements PushCycle: what is handed over is what is ticked *)
(* and collectable, no gathering starts before the last was handed on, and *)
(* nothing is dropped that is not for want of a link at its hand-over.     *)
Cycle == INSTANCE PushCycle WITH ticked <- settings, phase <- Phase
CycleSpec == Cycle!Spec

(* All the program relies on of the XMPP client is a link whose reports    *)
(* the window sees; XmppLink shows that the client is one.                 *)
XLink == INSTANCE Link
LinkSpec == XLink!Spec

(* The steps the two threads have left before all handlers have returned   *)
(* and the worker has stopped, if nobody starts another push.              *)
FrameSteps == [pump |-> N + 8, wait |-> 4, payload |-> 3, repush |-> 2]
HandlerSteps == (IF Len(stack) >= 1 THEN FrameSteps[stack[1].pc] ELSE 0)
                  + (IF Len(stack) = 2 THEN FrameSteps[stack[2].pc] ELSE 0)
WorkerSteps == IF worker = "populating" THEN N + 3 - pos
               ELSE IF quitting THEN 1 ELSE 0
StepsToReturn == HandlerSteps + WorkerSteps

(* Neither thread moves without coming closer to the end of the pushes     *)
(* under way; reports and replies served inside a handler cost it nothing, *)
(* and only a new push adds steps.                                         *)
PushesAdvance ==
  [][\/ ClickPush \/ ClickXmpp \/ push_data
     \/ Quit /\ StepsToReturn' = 0
     \/ StepsToReturn' < StepsToReturn
     \/ UNCHANGED <<stack, worker, pos, quitting>>]_vars

(* The running handler waits for data nobody is gathering.                 *)
Stranded == At("wait") /\ getdatasLocked /\ worker # "populating"

(* A handler that is stranded, or that waits under another, is never       *)
(* served: whoever gathers next takes the data before it is reached.  User *)
(* input is excluded meanwhile, so that only a failing probe ends it.  It  *)
(* comes about in two ways: an automatic push overtakes one that waits, or *)
(* start() did nothing as the thread of the last push had still to quit.   *)
LeftBehind == Stranded \/ (Len(stack) = 2 /\ stack[1].pc = "wait")
LeftBehindForGood ==
  [][/\ LeftBehind => LeftBehind' \/ SigarExit
     /\ ~LeftBehind /\ LeftBehind'
          => \/ push_data /\ At("wait")
             \/ quitting /\ (ClickPush \/ EndPump \/ push_data)]_vars

(* Whoever has not returned can go on or is stranded: no handler hangs in  *)
(* its second loop, and the two mutexes keep nobody from the other.        *)
HandlersMove ==
  stack # <<>> => \/ Stranded
                  \/ worker = "populating" \/ At("pump") \/ At("payload")
                  \/ At("wait") /\ ~getdatasLocked
                  \/ At("repush") /\ ~pushLocked

(* Data that were gathered are handed over (or dropped for want of a link),*)
(* however many handlers are on the stack.                                 *)
GatheredIsHandedOver == Phase = "gathered" ~> Phase # "gathered"

(* An automatic push whose gathering was started does return, also when it *)
(* runs inside a handler that waits for the same mutex.                    *)
StartedAutoPushReturns ==
  TimerOnStack /\ worker = "populating" ~> ~TimerOnStack

(* The button says "Auto push is ON" (mainwindow.cpp:332): every automatic *)
(* push returns, so that the next one can be delivered.                    *)
AutoPushReturns == TimerOnStack ~> ~TimerOnStack
=============================================================================
