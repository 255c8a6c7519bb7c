----------------------------- MODULE PushCycle -----------------------------
(***************************************************************************)
(* What one push of geekast promises its user, whatever threads, mutexes   *)
(* and timers the program uses for it: the options ticked when a push      *)
(* gathers its data are exactly the options whose data are handed to the   *)
(* transport, the ticked options do not change from the start of the       *)
(* gathering to the hand-over, and every gathering is handed over or, but  *)
(* only while the XMPP link is down, dropped, before the next one starts.  *)
(***************************************************************************)

CONSTANTS Options,    \* the check boxes of the main window
          Collected   \* the options Datas::Populate knows how to collect

VARIABLES ticked,   \* the options the user has ticked, saved in QSettings
          phase,    \* how far the current push has come
          sent,     \* the options in the last payload given to the transport
          link      \* the XMPP client is connected

vars == <<ticked, phase, sent, link>>

Phases == {"idle", "gathering", "gathered"}

Init == /\ ticked \in SUBSET Options
        /\ phase = "idle"
        /\ sent = {}
        /\ link \in BOOLEAN

(* The user ticks or unticks an option: only between two pushes. *)
Toggle(o) == /\ phase = "idle"
             /\ ticked' = (ticked \ {o}) \cup ({o} \ ticked)
             /\ UNCHANGED <<phase, sent, link>>

(* The worker thread starts to collect. *)
Begin == /\ phase = "idle"
         /\ phase' = "gathering"
         /\ UNCHANGED <<ticked, sent, link>>

(* The collected data are complete. *)
Complete == /\ phase = "gathering"
            /\ phase' = "gathered"
            /\ UNCHANGED <<ticked, sent, link>>

(* The payload holds what is ticked and can be collected, nothing else. *)
HandOver == /\ phase = "gathered"
            /\ phase' = "idle"
            /\ sent' = ticked \cap Collected
            /\ UNCHANGED <<ticked, link>>

(* The payload is dropped, while the XMPP link is down and only then. *)
Drop == /\ phase = "gathered" /\ ~link
        /\ phase' = "idle"
        /\ UNCHANGED <<ticked, sent, link>>

(* The program exits while it collects, and is launched anew. *)
Abort == /\ phase = "gathering"
         /\ phase' = "idle"
         /\ link' \in BOOLEAN
         /\ UNCHANGED <<ticked, sent>>

(* The link comes and goes at any time, also with the next launch. *)
LinkChanges == link' \in BOOLEAN /\ UNCHANGED <<ticked, phase, sent>>

Next == \/ \E o \in Options : Toggle(o)
        \/ Begin
        \/ Complete
        \/ HandOver
        \/ Drop
        \/ Abort
        \/ LinkChanges

Spec == Init /\ [][Next]_vars
=============================================================================
