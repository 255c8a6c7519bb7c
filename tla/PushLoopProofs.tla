--------------------------- MODULE PushLoopProofs ---------------------------
(***************************************************************************)
(* Proofs about PushLoop for every set of options and every list of        *)
(* sections: type correctness, the mutual exclusion of the two threads on  *)
(* the gathered data, the discipline of the two mutexes, and that PushLoop *)
(* implements PushCycle.  All rest on the inductive invariant IInv.        *)
(***************************************************************************)
EXTENDS PushLoop, SequenceTheorems, TLAPS

(* What starting a handler does to the stack. *)
LEMMA PushFrame ==
  ASSUME NEW s \in Seq(Frames), NEW f \in Frames
  PROVE  /\ Append(s, f) \in Seq(Frames)
         /\ Append(s, f) # <<>>
         /\ Len(Append(s, f)) = Len(s) + 1
         /\ Append(s, f)[Len(s) + 1] = f
         /\ \A i \in 1..Len(s) : Append(s, f)[i] = s[i]
  OBVIOUS

(* What the return of the running handler does to the stack. *)
LEMMA PopFrame ==
  ASSUME NEW s \in Seq(Frames), s # <<>>,
         NEW n \in Nat, n = Len(s),
         NEW t, t = SubSeq(s, 1, n - 1)
  PROVE  /\ t \in Seq(Frames)
         /\ Len(t) = n - 1
         /\ \A i \in 1..(n - 1) : t[i] = s[i]
  OBVIOUS

(* What a step of the running handler does to the stack. *)
LEMMA MoveFrame ==
  ASSUME NEW s \in Seq(Frames), s # <<>>, NEW f \in Frames,
         NEW n \in Nat, n = Len(s),
         NEW t, t = [s EXCEPT ![n] = f]
  PROVE  /\ t \in Seq(Frames)
         /\ t # <<>>
         /\ Len(t) = n
         /\ t[n] = f
         /\ \A i \in 1..(n - 1) : t[i] = s[i]
  OBVIOUS

-----------------------------------------------------------------------------
Places == {"pump", "wait", "payload", "repush"}

(* The same three facts as steps of the system: the handlers stay in order *)
(* and "At" tells where the running one is.                                *)
LEMMA Push ==
  ASSUME TypeOK, StackInv, NEW f \in Frames, stack' = Append(stack, f),
         stack # <<>> => /\ Top.src = "user" /\ Top.pc \in {"pump", "wait"}
                         /\ f.src = "timer"
  PROVE  /\ stack' \in Seq(Frames) /\ Len(stack') <= 2
         /\ StackInv'
         /\ \A pc \in Places : At(pc)' <=> f.pc = pc
<1> DEFINE n == Len(stack)
<1>1. stack \in Seq(Frames) /\ n \in Nat /\ n <= 2
  BY DEF TypeOK
<1>2. /\ stack' \in Seq(Frames) /\ stack' # <<>>
      /\ Len(stack') = n + 1
      /\ stack'[n + 1] = f
      /\ \A i \in 1..n : stack'[i] = stack[i]
  BY <1>1, PushFrame
<1>3. \A pc \in Places : At(pc)' <=> f.pc = pc
  BY <1>1, <1>2 DEF At, Top
<1>4. CASE stack = <<>>
  BY <1>1, <1>2, <1>3, <1>4 DEF StackInv
<1>5. CASE stack # <<>>
  <2>1. n >= 1 /\ n <= 1
    BY <1>1, <1>5 DEF StackInv, Top
  <2>2. stack[1].src = "user" /\ stack[1].pc \in {"pump", "wait"}
    BY <1>5, <2>1 DEF Top
  <2>3. Len(stack') = 2 /\ stack'[2] = f /\ stack'[1] = stack[1]
    BY <1>2, <2>1
  <2> QED
    BY <1>2, <1>3, <1>5, <2>2, <2>3 DEF StackInv
<1> QED
  BY <1>4, <1>5

LEMMA Move ==
  ASSUME TypeOK, StackInv, stack # <<>>, NEW pc \in Places, stack' = Goto(pc)
  PROVE  /\ stack' \in Seq(Frames) /\ Len(stack') <= 2
         /\ StackInv'
         /\ \A q \in Places : At(q)' <=> q = pc
<1> DEFINE n == Len(stack)
<1>1. stack \in Seq(Frames) /\ n \in Nat /\ n <= 2
  BY DEF TypeOK
<1>2. stack[n] \in Frames
  BY <1>1
<1> DEFINE f == [stack[n] EXCEPT !.pc = pc]
<1>3. f \in Frames /\ f.src = stack[n].src /\ f.pc = pc
  BY <1>2 DEF Frames, Places
<1>4. stack' = [stack EXCEPT ![n] = f]
  BY DEF Goto
<1>5. /\ stack' \in Seq(Frames) /\ stack' # <<>>
      /\ Len(stack') = n
      /\ stack'[n] = f
      /\ \A i \in 1..(n - 1) : stack'[i] = stack[i]
  <2> HIDE DEF f
  <2> QED
    BY <1>1, <1>3, <1>4, MoveFrame
<1> HIDE DEF f
<1>6. StackInv'
  <2>1. \A i \in 1..n : stack'[i].src = stack[i].src
    BY <1>1, <1>3, <1>5
  <2>2. \A i \in 1..n : i < n => stack'[i].pc = stack[i].pc
    BY <1>1, <1>5
  <2> QED
    BY <1>1, <1>5, <2>1, <2>2 DEF StackInv
<1>7. \A q \in Places : At(q)' <=> q = pc
  BY <1>1, <1>3, <1>5 DEF At, Top
<1> QED
  BY <1>1, <1>5, <1>6, <1>7

LEMMA Return ==
  ASSUME TypeOK, StackInv, stack # <<>>, stack' = Pop
  PROVE  /\ stack' \in Seq(Frames) /\ Len(stack') <= 2
         /\ StackInv'
         /\ ~At("payload")' /\ ~At("repush")'
<1> DEFINE n == Len(stack)
<1>1. stack \in Seq(Frames) /\ n \in Nat /\ n <= 2
  BY DEF TypeOK
<1>2. /\ stack' \in Seq(Frames)
      /\ Len(stack') = n - 1
      /\ \A i \in 1..(n - 1) : stack'[i] = stack[i]
  BY <1>1, PopFrame DEF Pop
<1> QED
  BY <1>1, <1>2 DEF StackInv, At, Top
(* The collectable options are options of the window. *)
LEMMA CollectedOptions == /\ N \in Nat
                          /\ 0 \in 0..N+2
                          /\ Public \in Collected
                          /\ \A i \in 1..N : Sections[i] \in Collected
                          /\ Collected \subseteq Options
  BY SectionsAssumption, PublicAssumption DEF N, Collected

(* The constructor establishes the inductive invariant.                    *)
THEOREM InitIInv == Init => IInv
<1> SUFFICES ASSUME Init PROVE IInv
  OBVIOUS
<1> USE CollectedOptions DEF Init
<1>1. TypeOK
  <2>1. <<>> \in Seq(Frames) /\ Len(<<>>) <= 2
    OBVIOUS
  <2> QED
    BY <2>1 DEF TypeOK
<1>2. StackInv
  BY DEF StackInv
<1>3. TokenInv
  BY DEF TokenInv, At
<1>4. DataInv
  BY DEF DataInv, At
<1>5. MethodMatchesLink
  BY DEF MethodMatchesLink
<1> QED
  BY <1>1, <1>2, <1>3, <1>4, <1>5 DEF IInv

(* A launch of the program leaves the invariant true, whatever ran before. *)
LEMMA RelaunchIInv == IInv /\ Relaunch => IInv'
<1> SUFFICES ASSUME IInv, Relaunch PROVE IInv'
  OBVIOUS
<1> USE CollectedOptions DEF Relaunch
<1>1. TypeOK'
  <2>1. <<>> \in Seq(Frames) /\ Len(<<>>) <= 2
    OBVIOUS
  <2> QED
    BY <2>1 DEF IInv, TypeOK
<1>2. StackInv'
  BY DEF StackInv
<1>3. TokenInv'
  BY DEF TokenInv, At
<1>4. DataInv'
  BY DEF DataInv, At
<1>5. MethodMatchesLink'
  BY DEF MethodMatchesLink
<1> QED
  BY <1>1, <1>2, <1>3, <1>4, <1>5 DEF IInv

(* The two ways a handler starts keep the invariant, from either source.   *)
LEMMA StartHttpIInv ==
  ASSUME IInv, NEW src \in {"user", "timer"}, on_pushButton_push_clicked(src),
         stack # <<>> => /\ Top.src = "user" /\ Top.pc \in {"pump", "wait"}
                         /\ src = "timer"
  PROVE  IInv'
<1> DEFINE f == Frame(src, "http", "wait")
<1>1. f \in Frames /\ f.src = src /\ f.pc = "wait"
  BY DEF Frame, Frames
<1>2. stack' = Append(stack, f)
  BY DEF on_pushButton_push_clicked
<1> HIDE DEF f
<1>3. /\ stack' \in Seq(Frames) /\ Len(stack') <= 2
      /\ StackInv'
      /\ \A pc \in Places : At(pc)' <=> f.pc = pc
  BY <1>1, <1>2, Push DEF IInv
<1>4. ~At("payload") /\ ~At("repush")
  BY DEF At
<1>5. At("wait")' /\ ~At("payload")' /\ ~At("repush")'
  BY <1>1, <1>3 DEF Places
<1> USE DEF IInv, on_pushButton_push_clicked, StartGathering, guiVars
<1>6. TypeOK'
  BY <1>3 DEF TypeOK
<1>7. TokenInv'
  BY <1>4, <1>5 DEF TypeOK, TokenInv
<1>8. DataInv'
  BY <1>4, <1>5, CollectedOptions DEF TypeOK, DataInv, TokenInv
<1>9. MethodMatchesLink'
  BY DEF MethodMatchesLink
<1> QED
  BY <1>3, <1>6, <1>7, <1>8, <1>9

LEMMA StartXmppIInv ==
  ASSUME IInv, NEW src \in {"user", "timer"}, on_pushButton_xmpp_clicked(src),
         stack # <<>> => /\ Top.src = "user" /\ Top.pc \in {"pump", "wait"}
                         /\ src = "timer"
  PROVE  IInv'
<1> DEFINE f == Frame(src, "xmpp", "pump")
<1>1. f \in Frames /\ f.src = src /\ f.pc = "pump"
  BY DEF Frame, Frames
<1>2. stack' = Append(stack, f)
  BY DEF on_pushButton_xmpp_clicked
<1> HIDE DEF f
<1>3. /\ stack' \in Seq(Frames) /\ Len(stack') <= 2
      /\ StackInv'
      /\ \A pc \in Places : At(pc)' <=> f.pc = pc
  BY <1>1, <1>2, Push DEF IInv
<1>4. ~At("payload") /\ ~At("repush")
  BY DEF At
<1>5. At("pump")' /\ ~At("payload")' /\ ~At("repush")'
  BY <1>1, <1>3 DEF Places
<1> USE DEF IInv, on_pushButton_xmpp_clicked, guiVars, workerVars
<1>6. TypeOK'
  BY <1>3 DEF TypeOK
<1>7. TokenInv'
  BY <1>4, <1>5 DEF TypeOK, TokenInv
<1>8. DataInv'
  BY <1>4, <1>5 DEF DataInv
<1>9. MethodMatchesLink'
  BY DEF MethodMatchesLink
<1> QED
  BY <1>3, <1>6, <1>7, <1>8, <1>9

(* Every step keeps the invariant. *)
THEOREM NextIInv == IInv /\ [Next]_vars => IInv'
<1> SUFFICES ASSUME IInv, [Next]_vars PROVE IInv'
  OBVIOUS
<1> USE DEF IInv
<1>1. CASE \E o \in Options : on_checkBox_clicked(o)
  <2>1. PICK o \in Options : on_checkBox_clicked(o)
    BY <1>1
  <2> USE <2>1 DEF on_checkBox_clicked, UserInput, guiVars, workerVars
  <2>2. stack = <<>> /\ stack' = <<>> /\ settings' \subseteq Options
    BY DEF TypeOK
  <2>3. TypeOK'
    BY <2>2 DEF TypeOK
  <2>4. StackInv' /\ TokenInv'
    BY DEF StackInv, TokenInv, At, Top
  <2>5. DataInv'
    BY <2>2 DEF DataInv, TokenInv, TypeOK, At
  <2>6. MethodMatchesLink'
    BY DEF MethodMatchesLink
  <2> QED
    BY <2>3, <2>4, <2>5, <2>6
<1>2. CASE on_pushButton_send_clicked
  <2> USE <1>2 DEF on_pushButton_send_clicked, guiVars, workerVars
  <2>2. TypeOK'
    BY DEF TypeOK
  <2>3. StackInv' /\ TokenInv' /\ DataInv'
    BY DEF StackInv, TokenInv, DataInv, At, Top
  <2>4. MethodMatchesLink'
    BY DEF MethodMatchesLink, TypeOK
  <2> QED
    BY <2>2, <2>3, <2>4
<1>3. CASE \E connected \in BOOLEAN : on_xmpp_connected(connected)
  <2>1. PICK connected \in BOOLEAN : on_xmpp_connected(connected)
    BY <1>3
  <2> USE <2>1 DEF on_xmpp_connected, guiVars, workerVars
  <2>2. TypeOK'
    BY DEF TypeOK
  <2>3. StackInv' /\ TokenInv' /\ DataInv'
    BY DEF StackInv, TokenInv, DataInv, At, Top
  <2>4. MethodMatchesLink'
    BY DEF MethodMatchesLink, TypeOK
  <2> QED
    BY <2>2, <2>3, <2>4
<1>4. CASE ReplaceClient
  <2> USE <1>4 DEF ReplaceClient, guiVars, workerVars
  <2>2. TypeOK'
    BY DEF TypeOK
  <2>3. StackInv' /\ TokenInv' /\ DataInv'
    BY DEF StackInv, TokenInv, DataInv, At, Top
  <2>4. MethodMatchesLink'
    BY DEF MethodMatchesLink, TypeOK
  <2> QED
    BY <2>2, <2>3, <2>4
<1>5. CASE ClickPush
  BY <1>5, StartHttpIInv DEF ClickPush, UserInput
<1>6. CASE ClickXmpp
  BY <1>6, StartXmppIInv DEF ClickXmpp, UserInput
<1>7. CASE Quit
  BY <1>7, RelaunchIInv DEF Quit
<1>8. CASE SigarExit
  BY <1>8, RelaunchIInv DEF SigarExit
<1>9. CASE push_data
  <2>1. stack # <<>> => Top.src = "user" /\ Top.pc \in {"pump", "wait"}
    <3>1. SUFFICES ASSUME stack # <<>>
                   PROVE  Top.src = "user" /\ Top.pc \in {"pump", "wait"}
      OBVIOUS
    <3>2. Top.pc \in {"pump", "wait"}
      BY <1>9, <3>1 DEF push_data, InEventLoop, TokenInv, At
    <3>3. Len(stack) \in 1..Len(stack) /\ Top \in Frames
      BY <3>1 DEF TypeOK, Top
    <3> QED
      BY <1>9, <3>2, <3>3 DEF push_data, TimerOnStack, Top, Frames
  <2> QED
    BY <1>9, <2>1, StartHttpIInv, StartXmppIInv DEF push_data
<1>10. CASE EndPump
  <2> USE DEF EndPump, guiVars, workerVars, StartGathering
  <2>1. /\ stack' \in Seq(Frames) /\ Len(stack') <= 2
        /\ StackInv'
        /\ \A q \in Places : At(q)' <=> q = "wait"
    BY <1>10, Move DEF At, Places
  <2>2. At("wait")' /\ ~At("pump")' /\ ~At("payload")' /\ ~At("repush")'
    BY <2>1 DEF Places
  <2>3. At("pump") /\ ~At("wait") /\ ~At("payload") /\ ~At("repush")
    BY <1>10 DEF At
  <2>4. TypeOK'
    BY <1>10, <2>1 DEF TypeOK
  <2>5. TokenInv'
    BY <1>10, <2>2, <2>3 DEF TokenInv, TypeOK
  <2>6. DataInv'
    BY <1>10, <2>2, <2>3, CollectedOptions DEF DataInv, TokenInv, TypeOK
  <2>7. MethodMatchesLink'
    BY <1>10 DEF MethodMatchesLink
  <2> QED
    BY <2>1, <2>4, <2>5, <2>6, <2>7
<1>11. CASE TakeData
  <2> USE DEF TakeData, guiVars, workerVars
  <2>1. /\ stack' \in Seq(Frames) /\ Len(stack') <= 2
        /\ StackInv'
        /\ \A q \in Places : At(q)' <=> q = "payload"
    BY <1>11, Move DEF At, Places
  <2>2. At("payload")' /\ ~At("pump")' /\ ~At("wait")' /\ ~At("repush")'
    BY <2>1 DEF Places
  <2>3. At("wait") /\ ~At("pump") /\ ~At("payload") /\ ~At("repush")
    BY <1>11 DEF At
  <2>4. TypeOK'
    BY <1>11, <2>1 DEF TypeOK
  <2>5. TokenInv'
    BY <1>11, <2>2, <2>3 DEF TokenInv, TypeOK
  <2>6. DataInv'
    BY <1>11, <2>2, <2>3, CollectedOptions DEF DataInv, TokenInv, TypeOK
  <2>7. MethodMatchesLink'
    BY <1>11 DEF MethodMatchesLink
  <2> QED
    BY <2>1, <2>4, <2>5, <2>6, <2>7
<1>12. CASE Payload_http
  <2> USE DEF Payload_http, guiVars, workerVars
  <2>1. /\ stack' \in Seq(Frames) /\ Len(stack') <= 2
        /\ StackInv'
        /\ \A q \in Places : At(q)' <=> q = "repush"
    BY <1>12, Move DEF At, Places
  <2>2. At("repush")' /\ ~At("pump")' /\ ~At("wait")' /\ ~At("payload")'
    BY <2>1 DEF Places
  <2>3. At("payload") /\ ~At("pump") /\ ~At("wait") /\ ~At("repush")
    BY <1>12 DEF At
  <2>4. TypeOK'
    BY <1>12, <2>1 DEF TypeOK
  <2>5. TokenInv'
    BY <1>12, <2>2, <2>3 DEF TokenInv, TypeOK
  <2>6. DataInv'
    BY <1>12, <2>2, <2>3, CollectedOptions DEF DataInv, TokenInv, TypeOK
  <2>7. MethodMatchesLink'
    BY <1>12 DEF MethodMatchesLink
  <2> QED
    BY <2>1, <2>4, <2>5, <2>6, <2>7
<1>13. CASE Payload_xmpp
  <2> USE DEF Payload_xmpp, guiVars, workerVars
  <2>1. /\ stack' \in Seq(Frames) /\ Len(stack') <= 2
        /\ StackInv'
        /\ \A q \in Places : At(q)' <=> q = "repush"
    BY <1>13, Move DEF At, Places
  <2>2. At("repush")' /\ ~At("pump")' /\ ~At("wait")' /\ ~At("payload")'
    BY <2>1 DEF Places
  <2>3. At("payload") /\ ~At("pump") /\ ~At("wait") /\ ~At("repush")
    BY <1>13 DEF At
  <2>4. TypeOK'
    BY <1>13, <2>1 DEF TypeOK
  <2>5. TokenInv'
    BY <1>13, <2>2, <2>3 DEF TokenInv, TypeOK
  <2>6. DataInv'
    BY <1>13, <2>2, <2>3, CollectedOptions DEF DataInv, TokenInv, TypeOK
  <2>7. MethodMatchesLink'
    BY <1>13 DEF MethodMatchesLink
  <2> QED
    BY <2>1, <2>4, <2>5, <2>6, <2>7
<1>14. CASE FinishPush
  <2> USE <1>14 DEF FinishPush, guiVars, workerVars
  <2>1. /\ stack' \in Seq(Frames) /\ Len(stack') <= 2
        /\ StackInv'
        /\ ~At("payload")' /\ ~At("repush")'
    BY Return DEF At
  <2>2. worker = "running" /\ getdatasLocked
    BY DEF TokenInv
  <2>3. TypeOK'
    BY <2>1, <2>2 DEF TypeOK
  <2>4. TokenInv'
    BY <2>1, <2>2 DEF TokenInv, TypeOK
  <2>5. DataInv'
    BY <2>1, <2>2 DEF DataInv
  <2>6. MethodMatchesLink'
    BY DEF MethodMatchesLink
  <2> QED
    BY <2>1, <2>3, <2>4, <2>5, <2>6
<1>15. CASE Header
  <2> USE <1>15 DEF Header, Record, guiVars
  <2>1. \A q \in Places : At(q)' <=> At(q)
    BY DEF At, Top
  <2>2. TypeOK'
    BY CollectedOptions DEF TypeOK
  <2>3. StackInv'
    BY DEF StackInv
  <2>4. TokenInv'
    BY <2>1 DEF TokenInv, TypeOK, Places
  <2>5. DataInv'
    BY <2>1, CollectedOptions DEF DataInv, TokenInv, TypeOK, Places
  <2>6. MethodMatchesLink'
    BY DEF MethodMatchesLink
  <2> QED
    BY <2>2, <2>3, <2>4, <2>5, <2>6
<1>16. CASE Section
  <2> USE <1>16 DEF Section, Record, guiVars
  <2>1. \A q \in Places : At(q)' <=> At(q)
    BY DEF At, Top
  <2>2. TypeOK'
    BY CollectedOptions DEF TypeOK
  <2>3. StackInv'
    BY DEF StackInv
  <2>4. TokenInv'
    BY <2>1 DEF TokenInv, TypeOK, Places
  <2>5. DataInv'
    BY <2>1, CollectedOptions DEF DataInv, TokenInv, TypeOK, Places
  <2>6. MethodMatchesLink'
    BY DEF MethodMatchesLink
  <2> QED
    BY <2>2, <2>3, <2>4, <2>5, <2>6
<1>17. CASE CopyOut
  <2> USE <1>17 DEF CopyOut, guiVars
  <2>1. \A q \in Places : At(q)' <=> At(q)
    BY DEF At, Top
  <2>2. TypeOK'
    BY CollectedOptions DEF TypeOK
  <2>3. StackInv'
    BY DEF StackInv
  <2>4. TokenInv'
    BY <2>1 DEF TokenInv, TypeOK, Places
  <2>5. datas' = settings \cap Collected
    <3>1. /\ Public \in root <=> Public \in settings
          /\ \A i \in 1..N : Sections[i] \in root <=> Sections[i] \in settings
      BY CollectedOptions DEF DataInv
    <3>2. root \subseteq Collected
      BY DEF TypeOK
    <3> QED
      BY <3>1, <3>2 DEF Collected
  <2>6. getdatasLocked' /\ ~At("payload")'
    BY <2>1 DEF TokenInv, At, Places
  <2>7. DataInv'
    BY <2>5, <2>6, CollectedOptions DEF DataInv
  <2>8. MethodMatchesLink'
    BY DEF MethodMatchesLink
  <2> QED
    BY <2>2, <2>3, <2>4, <2>7, <2>8
<1>18. CASE Unlock
  <2> USE <1>18 DEF Unlock, guiVars
  <2>1. \A q \in Places : At(q)' <=> At(q)
    BY DEF At, Top
  <2>2. TypeOK'
    BY CollectedOptions DEF TypeOK
  <2>3. StackInv'
    BY DEF StackInv
  <2>4. TokenInv'
    BY <2>1 DEF TokenInv, TypeOK, Places
  <2>5. DataInv'
    BY <2>1, CollectedOptions DEF DataInv, TokenInv, TypeOK, Places
  <2>6. MethodMatchesLink'
    BY DEF MethodMatchesLink
  <2> QED
    BY <2>2, <2>3, <2>4, <2>5, <2>6
<1>19. CASE Finish
  <2> USE <1>19 DEF Finish, guiVars
  <2>1. \A q \in Places : At(q)' <=> At(q)
    BY DEF At, Top
  <2>2. TypeOK'
    BY CollectedOptions DEF TypeOK
  <2>3. StackInv'
    BY DEF StackInv
  <2>4. TokenInv'
    BY <2>1 DEF TokenInv, TypeOK, Places
  <2>5. DataInv'
    BY <2>1, CollectedOptions DEF DataInv, TokenInv, TypeOK, Places
  <2>6. MethodMatchesLink'
    BY DEF MethodMatchesLink
  <2> QED
    BY <2>2, <2>3, <2>4, <2>5, <2>6
<1>20. CASE UNCHANGED vars
  <2> USE <1>20 DEF vars, guiVars, workerVars
  <2>1. TypeOK'
    BY DEF TypeOK
  <2>2. StackInv' /\ TokenInv' /\ DataInv' /\ MethodMatchesLink'
    BY DEF StackInv, TokenInv, DataInv, MethodMatchesLink, At, Top
  <2> QED
    BY <2>1, <2>2
<1> QED
  BY <1>1, <1>2, <1>3, <1>4, <1>5, <1>6, <1>7, <1>8, <1>9, <1>10, <1>11, <1>12, <1>13, <1>14, <1>15, <1>16, <1>17, <1>18, <1>19, <1>20
  DEF Next, Event, GuiStep, WorkerStep
-----------------------------------------------------------------------------
(* PushLoop is type correct and its invariant holds in every behaviour.    *)
THEOREM Invariance == Spec => []IInv
<1>1. Init => IInv
  BY InitIInv
<1>2. IInv /\ [Next]_vars => IInv'
  BY NextIInv
<1> QED
  BY <1>1, <1>2, PTL DEF Spec

(* Every variable keeps its type; the stack is never deeper than two.      *)
THEOREM TypeCorrect == Spec => []TypeOK
<1>1. IInv => TypeOK
  BY DEF IInv
<1> QED
  BY <1>1, Invariance, PTL

(* The push method is "xmpp" only while the client the window listens to   *)
(* is connected, whatever errors and replacements happen inside a push.    *)
THEOREM MethodFollowsLink == Spec => []MethodMatchesLink
<1>1. IInv => MethodMatchesLink
  BY DEF IInv
<1> QED
  BY <1>1, Invariance, PTL

(* No payload is built from the gathered data while Populate may write     *)
(* them (Payload_http and Payload_xmpp against Datas::Populate).           *)
THEOREM NoRace == Spec => []NoDataRace
<1>1. IInv => NoDataRace
  BY DEF IInv, TokenInv, NoDataRace
<1> QED
  BY <1>1, Invariance, PTL

(* An invariant state has the two mutexes used as signals.                 *)
LEMMA SignalFacts == ASSUME IInv PROVE MutexesSignal
<1>1. At("payload") => ~At("repush")
  BY DEF At
<1>2. stack = <<>> => ~At("pump") /\ ~At("wait") /\ ~At("repush")
  BY DEF At
<1> QED
  BY <1>1, <1>2 DEF IInv, TokenInv, TypeOK, MutexesSignal

(* Neither QMutex is ever unlocked while it is free, by Populate or by the *)
(* payload functions of Push, and when the last handler of MainWindow has  *)
(* returned both are held again and nothing is being gathered.             *)
THEOREM MutexDiscipline == Spec => []MutexesSignal
<1>1. IInv => MutexesSignal
  BY SignalFacts
<1> QED
  BY <1>1, Invariance, PTL

(* refreshStats of a nested handler never changes the options Populate is  *)
(* reading.                                                                *)
LEMMA FlagsStep ==
  IInv /\ [Next]_vars
    => [worker = "populating" /\ worker' = "populating" => flags' = flags]_vars
<1> SUFFICES ASSUME IInv, [Next]_vars,
                    worker = "populating", worker' = "populating"
             PROVE  flags' = flags
  OBVIOUS
<1>1. flags = settings /\ stack # <<>>
  BY DEF IInv, DataInv, TokenInv, At
<1>2. IInv' /\ flags' = settings'
  BY NextIInv DEF IInv, DataInv
<1>3. settings' = settings
  BY <1>1 DEF Next, Event, GuiStep, WorkerStep, vars, guiVars, workerVars,
    on_checkBox_clicked, UserInput, on_pushButton_send_clicked, ClickPush,
    ClickXmpp, Quit, push_data, on_pushButton_push_clicked,
    on_pushButton_xmpp_clicked, on_xmpp_connected, ReplaceClient, EndPump,
    TakeData, Payload_http, Payload_xmpp, FinishPush, Header, Section, Record,
    CopyOut, Unlock, Finish, SigarExit, Relaunch
<1> QED
  BY <1>1, <1>2, <1>3

(* In every behaviour the options Populate reads stay what they were when  *)
(* it began. *)
THEOREM StableFlags == Spec => FlagsStable
  BY FlagsStep, Invariance, PTL DEF Spec, FlagsStable
-----------------------------------------------------------------------------
(* What the two threads have left to do. *)

LEMMA FrameStepsFacts ==
  /\ N \in Nat
  /\ FrameSteps.pump = N + 8 /\ FrameSteps.wait = 4
  /\ FrameSteps.payload = 3 /\ FrameSteps.repush = 2
  /\ \A pc \in Places : FrameSteps[pc] \in Nat
  BY CollectedOptions DEF FrameSteps, Places

LEMMA StackShape ==
  ASSUME TypeOK
  PROVE  /\ stack \in Seq(Frames) /\ Len(stack) \in 0..2
         /\ stack # <<>> => Len(stack) \in 1..2
         /\ \A i \in 1..Len(stack) : stack[i].pc \in Places
<1>1. stack \in Seq(Frames) /\ Len(stack) \in Nat /\ Len(stack) <= 2
  BY DEF TypeOK
<1>2. stack # <<>> => Len(stack) # 0
  BY <1>1
<1>3. ASSUME NEW i \in 1..Len(stack) PROVE stack[i].pc \in Places
  <2>1. stack[i] \in Frames
    BY <1>1
  <2> QED
    BY <2>1 DEF Frames, Places
<1> DEFINE n == Len(stack)
<1>4. n \in 0..2 /\ (stack # <<>> => n \in 1..2)
  <2>1. n \in Nat /\ n <= 2 /\ (stack # <<>> => n # 0)
    BY <1>1, <1>2
  <2> HIDE DEF n
  <2> QED
    BY <2>1
<1> QED
  BY <1>1, <1>3, <1>4

(* A step of the running handler changes its own part of the sum only.     *)
LEMMA MoveSteps ==
  ASSUME TypeOK, stack # <<>>, NEW pc \in Places, stack' = Goto(pc)
  PROVE  HandlerSteps' = HandlerSteps - FrameSteps[Top.pc] + FrameSteps[pc]
<1> DEFINE n == Len(stack)
<1>1. stack \in Seq(Frames) /\ n \in 1..2
  BY StackShape
<1>2. \A i \in 1..n : stack[i].pc \in Places
  BY StackShape
<1>3. /\ Len(stack') = n /\ stack'[n].pc = pc
      /\ \A i \in 1..(n - 1) : stack'[i] = stack[i]
  BY <1>1 DEF Goto, Frames
<1>4. \A q \in Places : FrameSteps[q] \in Nat
  BY FrameStepsFacts
<1>5. CASE n = 1
  <2>1. Top.pc = stack[1].pc /\ stack'[1].pc = pc
    BY <1>3, <1>5 DEF Top
  <2>2. HandlerSteps = FrameSteps[stack[1].pc] + 0 /\ HandlerSteps' = FrameSteps[pc] + 0
    BY <1>3, <1>5, <2>1 DEF HandlerSteps
  <2>3. FrameSteps[pc] \in Nat /\ FrameSteps[stack[1].pc] \in Nat
    BY <1>2, <1>4, <1>5
  <2> QED
    BY <2>1, <2>2, <2>3
<1>6. CASE n = 2
  <2>1. Top.pc = stack[2].pc /\ stack'[2].pc = pc /\ stack'[1] = stack[1]
    BY <1>3, <1>6 DEF Top
  <2>2. /\ HandlerSteps = FrameSteps[stack[1].pc] + FrameSteps[stack[2].pc]
        /\ HandlerSteps' = FrameSteps[stack[1].pc] + FrameSteps[pc]
    BY <1>3, <1>6, <2>1 DEF HandlerSteps
  <2>3. /\ FrameSteps[pc] \in Nat /\ FrameSteps[stack[1].pc] \in Nat
        /\ FrameSteps[stack[2].pc] \in Nat
    BY <1>2, <1>4, <1>6
  <2> QED
    BY <2>1, <2>2, <2>3
<1> QED
  BY <1>1, <1>5, <1>6

(* A handler that returns leaves the steps of the one below it.            *)
LEMMA ReturnSteps ==
  ASSUME TypeOK, stack # <<>>, stack' = Pop
  PROVE  HandlerSteps' = HandlerSteps - FrameSteps[Top.pc]
<1> DEFINE n == Len(stack)
<1>1. stack \in Seq(Frames) /\ n \in 1..2
  BY StackShape
<1>2. /\ Len(stack') = n - 1
      /\ \A i \in 1..(n - 1) : stack'[i] = stack[i]
  <2>1. n \in Nat /\ stack' = SubSeq(stack, 1, n - 1)
    BY <1>1 DEF Pop
  <2> HIDE DEF n
  <2> QED
    BY <1>1, <2>1, PopFrame DEF n
<1>3. \A i \in 1..n : FrameSteps[stack[i].pc] \in Nat
  BY StackShape, FrameStepsFacts
<1>4. CASE n = 1
  <2>1. HandlerSteps = FrameSteps[stack[1].pc] + 0 /\ HandlerSteps' = 0
    BY <1>2, <1>4 DEF HandlerSteps
  <2> QED
    BY <1>3, <1>4, <2>1 DEF Top
<1>5. CASE n = 2
  <2>1. /\ HandlerSteps = FrameSteps[stack[1].pc] + FrameSteps[stack[2].pc]
        /\ HandlerSteps' = FrameSteps[stack[1].pc] + 0
    BY <1>2, <1>5 DEF HandlerSteps
  <2> QED
    BY <1>3, <1>5, <2>1 DEF Top
<1> QED
  BY <1>1, <1>4, <1>5

LEMMA StepsNat ==
  ASSUME TypeOK
  PROVE  HandlerSteps \in Nat /\ WorkerSteps \in Nat
<1>1. stack \in Seq(Frames) /\ Len(stack) \in 0..2 /\ pos \in 0..N+2
  BY StackShape DEF TypeOK
<1>2. \A i \in 1..Len(stack) : FrameSteps[stack[i].pc] \in Nat
  BY StackShape, FrameStepsFacts
<1>3. Len(stack) >= 1 => FrameSteps[stack[1].pc] \in Nat
  BY <1>1, <1>2
<1>4. Len(stack) = 2 => FrameSteps[stack[2].pc] \in Nat
  BY <1>1, <1>2
<1>5. HandlerSteps \in Nat
  BY <1>3, <1>4 DEF HandlerSteps
<1>6. WorkerSteps \in Nat
  BY <1>1, FrameStepsFacts DEF WorkerSteps
<1> QED
  BY <1>5, <1>6

(* Starting the worker costs no more than what a pumping handler still had *)
(* reserved for it.                                                        *)
LEMMA StartSteps ==
  ASSUME TypeOK, DataInv, StartGathering, UNCHANGED quitting
  PROVE  \E d \in 0..N+3 : WorkerSteps' = WorkerSteps + d
<1>1. N \in Nat /\ WorkerSteps \in Nat
  BY FrameStepsFacts, StepsNat
<1>2. CASE worker = "stopped"
  <2>1. worker' = "populating" /\ pos' = 0
    BY <1>2 DEF StartGathering, DataInv
  <2>2. WorkerSteps' = N + 3
    BY <1>1, <2>1 DEF WorkerSteps
  <2>3. WorkerSteps \in 0..1
    BY <1>2 DEF WorkerSteps
  <2>4. N + 3 - WorkerSteps \in 0..N+3 /\ N + 3 = WorkerSteps + (N + 3 - WorkerSteps)
    BY <1>1, <2>3
  <2> QED
    BY <2>2, <2>4
<1>3. CASE worker # "stopped"
  <2>1. WorkerSteps' = WorkerSteps
    BY <1>3 DEF StartGathering, WorkerSteps
  <2> QED
    BY <1>1, <2>1
<1> QED
  BY <1>2, <1>3

LEMMA GuiSteps ==
  ASSUME IInv, GuiStep
  PROVE  StepsToReturn' < StepsToReturn
<1>1. /\ TypeOK /\ TokenInv /\ DataInv /\ stack # <<>>
      /\ HandlerSteps \in Nat /\ WorkerSteps \in Nat
  BY StepsNat DEF IInv, GuiStep, EndPump, TakeData, Payload_http, Payload_xmpp, FinishPush, At
<1>2. /\ N \in Nat
      /\ FrameSteps["pump"] = N + 8 /\ FrameSteps["wait"] = 4
      /\ FrameSteps["payload"] = 3 /\ FrameSteps["repush"] = 2
  BY FrameStepsFacts
<1>3. CASE EndPump
  <2>1. Top.pc = "pump" /\ stack' = Goto("wait") /\ StartGathering /\ UNCHANGED quitting
    BY <1>3 DEF EndPump, At
  <2>2. HandlerSteps' = HandlerSteps - FrameSteps["pump"] + FrameSteps["wait"]
    BY <1>1, <2>1, MoveSteps DEF Places
  <2>3. PICK d \in 0..N+3 : WorkerSteps' = WorkerSteps + d
    BY <1>1, <2>1, StartSteps
  <2> QED
    BY <1>1, <1>2, <2>2, <2>3 DEF StepsToReturn
<1>4. CASE TakeData
  <2>1. Top.pc = "wait" /\ stack' = Goto("payload") /\ UNCHANGED <<worker, pos, quitting>>
    BY <1>4 DEF TakeData, At, workerVars
  <2>2. HandlerSteps' = HandlerSteps - FrameSteps["wait"] + FrameSteps["payload"]
    BY <1>1, <2>1, MoveSteps DEF Places
  <2>3. WorkerSteps' = WorkerSteps
    BY <2>1 DEF WorkerSteps
  <2> QED
    BY <1>1, <1>2, <2>2, <2>3 DEF StepsToReturn
<1>5. CASE Payload_http \/ Payload_xmpp
  <2>1. Top.pc = "payload" /\ stack' = Goto("repush") /\ UNCHANGED <<worker, pos, quitting>>
    BY <1>5 DEF Payload_http, Payload_xmpp, At, workerVars
  <2>2. HandlerSteps' = HandlerSteps - FrameSteps["payload"] + FrameSteps["repush"]
    BY <1>1, <2>1, MoveSteps DEF Places
  <2>3. WorkerSteps' = WorkerSteps
    BY <2>1 DEF WorkerSteps
  <2> QED
    BY <1>1, <1>2, <2>2, <2>3 DEF StepsToReturn
<1>6. CASE FinishPush
  <2>1. /\ Top.pc = "repush" /\ stack' = Pop
        /\ worker = "running" /\ worker' = "running" /\ ~quitting
    BY <1>1, <1>6 DEF FinishPush, At, workerVars, TokenInv
  <2>2. HandlerSteps' = HandlerSteps - FrameSteps["repush"]
    BY <1>1, <2>1, ReturnSteps
  <2>3. PICK d \in 0..1 : WorkerSteps' = WorkerSteps + d
    BY <2>1 DEF WorkerSteps
  <2> QED
    BY <1>1, <1>2, <2>2, <2>3 DEF StepsToReturn
<1> QED
  BY <1>3, <1>4, <1>5, <1>6 DEF GuiStep

LEMMA WorkSteps ==
  ASSUME IInv, WorkerStep
  PROVE  StepsToReturn' < StepsToReturn
<1>1. N \in Nat /\ HandlerSteps \in Nat /\ pos \in 0..N+2
  BY FrameStepsFacts, StepsNat DEF IInv, TypeOK
<1>2. stack' = stack /\ HandlerSteps' = HandlerSteps
  BY DEF WorkerStep, Header, Section, Record, CopyOut, Unlock, Finish, HandlerSteps
<1>3. CASE Header \/ Section \/ CopyOut
  <2>1. worker = "populating" /\ worker' = "populating" /\ pos' = pos + 1
    BY <1>3 DEF Header, Section, Record, CopyOut
  <2> QED
    BY <1>1, <1>2, <2>1 DEF StepsToReturn, WorkerSteps
<1>4. CASE Unlock
  <2>1. worker = "populating" /\ pos = N + 2 /\ worker' = "running" /\ ~quitting'
    BY <1>4 DEF Unlock, IInv, TokenInv
  <2>2. WorkerSteps = 1 /\ WorkerSteps' = 0
    BY <1>1, <2>1 DEF WorkerSteps
  <2> QED
    BY <1>1, <1>2, <2>2 DEF StepsToReturn
<1>5. CASE Finish
  <2>1. WorkerSteps = 1 /\ WorkerSteps' = 0
    BY <1>5 DEF Finish, WorkerSteps
  <2> QED
    BY <1>1, <1>2, <2>1 DEF StepsToReturn
<1> QED
  BY <1>3, <1>4, <1>5 DEF WorkerStep

LEMMA RelaunchSteps ==
  ASSUME Relaunch
  PROVE  StepsToReturn' = 0
<1>1. Len(stack') = 0 /\ worker' = "stopped" /\ quitting' = FALSE
  BY DEF Relaunch
<1> QED
  BY <1>1 DEF StepsToReturn, HandlerSteps, WorkerSteps

LEMMA AdvanceStep ==
  IInv /\ [Next]_vars =>
    [\/ ClickPush \/ ClickXmpp \/ push_data
     \/ Quit /\ StepsToReturn' = 0
     \/ StepsToReturn' < StepsToReturn
     \/ UNCHANGED <<stack, worker, pos, quitting>>]_vars
<1> SUFFICES ASSUME IInv, Next
             PROVE  \/ ClickPush \/ ClickXmpp \/ push_data
                    \/ Quit /\ StepsToReturn' = 0
                    \/ StepsToReturn' < StepsToReturn
                    \/ UNCHANGED <<stack, worker, pos, quitting>>
  OBVIOUS
<1>1. CASE Quit
  BY <1>1, RelaunchSteps DEF Quit
<1>2. CASE SigarExit
  <2>1. worker = "populating" /\ pos \in 0..N /\ N \in Nat /\ HandlerSteps \in Nat
    BY <1>2, FrameStepsFacts, StepsNat DEF SigarExit, IInv
  <2>2. StepsToReturn \in Nat /\ StepsToReturn > 0
    BY <2>1 DEF StepsToReturn, WorkerSteps
  <2> QED
    BY <1>2, <2>2, RelaunchSteps DEF SigarExit
<1>3. CASE \/ \E o \in Options : on_checkBox_clicked(o)
           \/ on_pushButton_send_clicked
           \/ \E connected \in BOOLEAN : on_xmpp_connected(connected)
           \/ ReplaceClient
  BY <1>3 DEF on_checkBox_clicked, on_pushButton_send_clicked, on_xmpp_connected,
     ReplaceClient, workerVars
<1> QED
  BY <1>1, <1>2, <1>3, GuiSteps, WorkSteps DEF Next, Event

(* A push has boundedly many steps in both threads, for every list of      *)
(* sections: nothing but a new push keeps the handlers and Populate busy.  *)
THEOREM PushesCount == Spec => [](StepsToReturn \in Nat) /\ PushesAdvance
<1>1. IInv => StepsToReturn \in Nat
  BY StepsNat DEF IInv, StepsToReturn
<1> QED
  BY <1>1, AdvanceStep, Invariance, PTL DEF Spec, PushesAdvance

-----------------------------------------------------------------------------
(* Who may wait for ever. *)

(* A thread that idles in exec() was told to quit, or its data are waiting *)
(* or in use.                                                              *)
TokenUsed == worker = "running"
               => quitting \/ ~getdatasLocked \/ At("payload") \/ At("repush")

LEMMA TopPushed ==
  ASSUME TypeOK, NEW f \in Frames, stack' = Append(stack, f)
  PROVE  \A pc \in Places : At(pc)' <=> f.pc = pc
<1>1. stack \in Seq(Frames) /\ Len(stack) \in Nat
  BY DEF TypeOK
<1>2. /\ stack' # <<>> /\ Len(stack') = Len(stack) + 1
      /\ stack'[Len(stack) + 1] = f
  BY <1>1, PushFrame
<1> QED
  BY <1>2 DEF At, Top

(* In the event loop no payload is under way.                              *)
LEMMA LoopFacts ==
  ASSUME TokenInv, InEventLoop
  PROVE  ~At("payload") /\ ~At("repush")
  BY DEF TokenInv, InEventLoop, At

LEMMA TokenUsedStep == IInv /\ TokenUsed /\ [Next]_vars => TokenUsed'
<1> SUFFICES ASSUME IInv, TokenUsed, [Next]_vars, worker' = "running"
             PROVE  quitting' \/ ~getdatasLocked' \/ At("payload")' \/ At("repush")'
  BY DEF TokenUsed
<1>1. TypeOK /\ StackInv /\ TokenInv
  BY DEF IInv
<1>2. CASE TakeData
  <2>1. stack # <<>> /\ stack' = Goto("payload")
    BY <1>2 DEF TakeData, At
  <2> QED
    BY <1>1, <2>1, Move DEF Places
<1>3. CASE Payload_http \/ Payload_xmpp
  <2>1. stack # <<>> /\ stack' = Goto("repush")
    BY <1>3 DEF Payload_http, Payload_xmpp, At
  <2> QED
    BY <1>1, <2>1, Move DEF Places
<1>4. CASE FinishPush
  BY <1>4 DEF FinishPush, workerVars
<1>5. CASE EndPump \/ ClickPush \/ ClickXmpp \/ push_data
  <2>1. ~At("payload") /\ ~At("repush")
    BY <1>1, <1>5, LoopFacts DEF EndPump, ClickPush, ClickXmpp, UserInput, push_data, At
  <2>2. worker = "running" /\ UNCHANGED <<quitting, getdatasLocked>>
    BY <1>5 DEF EndPump, ClickPush, ClickXmpp, push_data, on_pushButton_push_clicked,
       on_pushButton_xmpp_clicked, StartGathering, workerVars
  <2> QED
    BY <2>1, <2>2 DEF TokenUsed
<1>6. CASE \/ \E o \in Options : on_checkBox_clicked(o)
           \/ on_pushButton_send_clicked
           \/ \E connected \in BOOLEAN : on_xmpp_connected(connected)
           \/ ReplaceClient
           \/ UNCHANGED vars
  <2>1. UNCHANGED <<stack, worker, quitting, getdatasLocked>>
    BY <1>6 DEF on_checkBox_clicked, on_pushButton_send_clicked, on_xmpp_connected,
       ReplaceClient, workerVars, vars
  <2> QED
    BY <2>1 DEF TokenUsed, At, Top
<1>7. CASE WorkerStep
  BY <1>7 DEF WorkerStep, Header, Section, Record, CopyOut, Unlock, Finish
<1>8. CASE Quit \/ SigarExit
  BY <1>8 DEF Quit, SigarExit, Relaunch
<1> QED
  BY <1>2, <1>3, <1>4, <1>5, <1>6, <1>7, <1>8 DEF Next, Event, GuiStep

(* Who starts a gathering and finds nobody gathering met a thread that has *)
(* not finished yet.                                                       *)
LEMMA StrandedStart ==
  ASSUME TypeOK, TokenUsed, StartGathering, UNCHANGED <<quitting, getdatasLocked>>,
         ~At("payload"), ~At("repush"), Stranded'
  PROVE  quitting
<1>1. worker' # "populating" /\ getdatasLocked'
  BY DEF Stranded
<1>2. worker = "running" /\ getdatasLocked
  BY <1>1 DEF StartGathering, TypeOK
<1> QED
  BY <1>2 DEF TokenUsed

LEMMA StrandedStep ==
  IInv /\ TokenUsed /\ [Next]_vars =>
    [~Stranded /\ Stranded'
       => \/ FinishPush /\ Len(stack) = 2
          \/ quitting /\ (ClickPush \/ EndPump \/ push_data)]_vars
<1> SUFFICES ASSUME IInv, TokenUsed, Next, ~Stranded, Stranded'
             PROVE  \/ FinishPush /\ Len(stack) = 2
                    \/ quitting /\ (ClickPush \/ EndPump \/ push_data)
  OBVIOUS
<1>1. TypeOK /\ StackInv /\ TokenInv
  BY DEF IInv
<1>2. At("wait")' /\ getdatasLocked' /\ worker' # "populating" /\ stack' # <<>>
  BY DEF Stranded, At
<1>3. CASE TakeData \/ Payload_http \/ Payload_xmpp
  <2>1. PICK pc \in {"payload", "repush"} : stack # <<>> /\ stack' = Goto(pc)
    BY <1>3 DEF TakeData, Payload_http, Payload_xmpp, At
  <2> QED
    BY <1>1, <1>2, <2>1, Move DEF Places
<1>4. CASE FinishPush
  <2>1. stack # <<>> /\ stack' = Pop
    BY <1>4 DEF FinishPush, At
  <2>2. Len(stack) \in 1..2 /\ stack \in Seq(Frames)
    BY <1>1, <2>1, StackShape
  <2>3. Len(stack) # 1
    BY <1>2, <2>1, <2>2 DEF Pop
  <2> QED
    BY <1>4, <2>2, <2>3
<1>5. ASSUME on_pushButton_xmpp_clicked("user") \/ on_pushButton_xmpp_clicked("timer")
      PROVE  FALSE
  <2>1. PICK src \in {"user", "timer"} : stack' = Append(stack, Frame(src, "xmpp", "pump"))
    BY <1>5 DEF on_pushButton_xmpp_clicked
  <2>2. Frame(src, "xmpp", "pump") \in Frames /\ Frame(src, "xmpp", "pump").pc = "pump"
    BY DEF Frame, Frames
  <2> HIDE DEF Frame
  <2> QED
    BY <1>1, <1>2, <2>1, <2>2, TopPushed DEF Places
<1>6. CASE ClickXmpp
  BY <1>5, <1>6 DEF ClickXmpp
<1>7. CASE EndPump \/ ClickPush \/ push_data
  <2>1. ~At("payload") /\ ~At("repush")
    BY <1>1, <1>7, LoopFacts DEF EndPump, ClickPush, UserInput, push_data, At
  <2>2. StartGathering /\ UNCHANGED <<quitting, getdatasLocked>>
    BY <1>5, <1>7 DEF EndPump, ClickPush, push_data, on_pushButton_push_clicked
  <2> QED
    BY <1>1, <1>7, <2>1, <2>2, StrandedStart
<1>8. CASE \/ \E o \in Options : on_checkBox_clicked(o)
           \/ on_pushButton_send_clicked
           \/ \E connected \in BOOLEAN : on_xmpp_connected(connected)
           \/ ReplaceClient
  <2>1. UNCHANGED <<stack, worker, getdatasLocked>>
    BY <1>8 DEF on_checkBox_clicked, on_pushButton_send_clicked, on_xmpp_connected,
       ReplaceClient, workerVars
  <2> QED
    BY <2>1 DEF Stranded, At, Top
<1>9. CASE WorkerStep
  <2>1. Finish
    BY <1>2, <1>9 DEF WorkerStep, Header, Section, Record, CopyOut, Unlock
  <2>2. worker = "running" /\ UNCHANGED <<stack, getdatasLocked>>
    BY <2>1 DEF Finish
  <2> QED
    BY <2>2 DEF Stranded, At, Top
<1>10. CASE Quit \/ SigarExit
  BY <1>2, <1>10 DEF Quit, SigarExit, Relaunch
<1> QED
  BY <1>3, <1>4, <1>6, <1>7, <1>8, <1>9, <1>10 DEF Next, Event, GuiStep

LEMMA MoveFacts == ASSUME IInv PROVE HandlersMove
<1> SUFFICES ASSUME stack # <<>>
             PROVE  \/ Stranded
                    \/ worker = "populating" \/ At("pump") \/ At("payload")
                    \/ At("wait") /\ ~getdatasLocked
                    \/ At("repush") /\ ~pushLocked
  BY DEF HandlersMove
<1>1. Len(stack) \in 1..2 /\ \A i \in 1..Len(stack) : stack[i].pc \in Places
  BY StackShape DEF IInv
<1>2. Top.pc \in Places
  <2>1. Len(stack) \in 1..Len(stack)
    BY <1>1
  <2> QED
    BY <1>1, <2>1 DEF Top
<1> QED
  BY <1>2 DEF IInv, TokenInv, Stranded, At, Places

(* What the steps of Next do to the handler at the bottom of the stack.    *)
LEMMA BottomStep ==
  ASSUME IInv, Next, stack # <<>>
  PROVE  \/ SigarExit
         \/ stack' = stack
         \/ /\ push_data /\ Len(stack) = 1 /\ Len(stack') = 2
            /\ stack'[1] = stack[1]
         \/ /\ FinishPush /\ Len(stack') = Len(stack) - 1
            /\ Len(stack) = 2 => Len(stack') = 1 /\ stack'[1] = stack[1]
         \/ /\ EndPump \/ TakeData \/ Payload_http \/ Payload_xmpp
            /\ Len(stack') = Len(stack)
            /\ Len(stack) = 2 => stack'[1] = stack[1]
<1>1. /\ TypeOK /\ StackInv /\ TokenInv
      /\ stack \in Seq(Frames) /\ Len(stack) \in 1..2
  BY StackShape DEF IInv
<1>2. CASE EndPump \/ TakeData \/ Payload_http \/ Payload_xmpp
  <2>1. PICK pc \in Places : stack' = Goto(pc)
    BY <1>2 DEF EndPump, TakeData, Payload_http, Payload_xmpp, Places
  <2>2. Len(stack') = Len(stack) /\ (Len(stack) = 2 => stack'[1] = stack[1])
    BY <1>1, <2>1 DEF Goto
  <2> QED
    BY <1>2, <2>2
<1>3. CASE FinishPush
  <2>1. stack' = SubSeq(stack, 1, Len(stack) - 1)
    BY <1>3 DEF FinishPush, Pop
  <2>2. Len(stack') = Len(stack) - 1 /\ (Len(stack) = 2 => stack'[1] = stack[1])
    <3> DEFINE n == Len(stack)
    <3>1. n \in Nat /\ n \in 1..2 /\ stack' = SubSeq(stack, 1, n - 1)
      BY <1>1, <2>1
    <3> HIDE DEF n
    <3>2. Len(stack') = n - 1 /\ \A i \in 1..(n - 1) : stack'[i] = stack[i]
      BY <1>1, <3>1, PopFrame DEF n
    <3>3. n = 2 => stack'[1] = stack[1]
      BY <3>2
    <3> QED
      BY <3>2, <3>3 DEF n
  <2>3. Len(stack) = 2 => Len(stack') = 1
    BY <2>2
  <2> QED
    BY <1>3, <2>2, <2>3
<1>4. CASE push_data
  <2>1. PICK f \in Frames : stack' = Append(stack, f)
    BY <1>4 DEF push_data, on_pushButton_push_clicked, on_pushButton_xmpp_clicked, Frame, Frames
  <2>2. Len(stack) = 1
    <3>1. Len(stack) = 2 => stack[2].src = "timer" /\ 2 \in 1..Len(stack)
      BY <1>1 DEF StackInv
    <3>2. Len(stack) # 2
      BY <1>4, <3>1 DEF push_data, TimerOnStack
    <3> QED
      BY <1>1, <3>2
  <2>3. Len(stack') = 2 /\ stack'[1] = stack[1]
    <3>1. /\ Len(stack') = Len(stack) + 1
          /\ \A i \in 1..Len(stack) : stack'[i] = stack[i]
      BY <1>1, <2>1, PushFrame
    <3> QED
      BY <2>2, <3>1
  <2> QED
    BY <1>4, <2>2, <2>3
<1>5. CASE \/ \E o \in Options : on_checkBox_clicked(o)
           \/ on_pushButton_send_clicked \/ ClickPush \/ ClickXmpp \/ Quit
  BY <1>5 DEF on_checkBox_clicked, on_pushButton_send_clicked, ClickPush, ClickXmpp, Quit,
     UserInput
<1>6. CASE (\E connected \in BOOLEAN : on_xmpp_connected(connected)) \/ ReplaceClient
  BY <1>6 DEF on_xmpp_connected, ReplaceClient
<1>7. CASE WorkerStep
  BY <1>7 DEF WorkerStep, Header, Section, Record, CopyOut, Unlock, Finish
<1> QED
  BY <1>2, <1>3, <1>4, <1>5, <1>6, <1>7 DEF Next, Event, GuiStep

(* Once left behind, left behind for good.                                 *)
LEMMA StaysBehind ==
  ASSUME IInv, Next, LeftBehind
  PROVE  LeftBehind' \/ SigarExit
<1>1. /\ TypeOK /\ TokenInv /\ stack # <<>>
      /\ stack \in Seq(Frames) /\ Len(stack) \in 1..2
  <2>1. stack # <<>>
    BY DEF LeftBehind, Stranded, At
  <2> QED
    BY <2>1, StackShape DEF IInv
<1>2. CASE /\ push_data /\ Len(stack) = 1 /\ Len(stack') = 2
           /\ stack'[1] = stack[1]
  <2>1. stack[1].pc = "wait"
    BY <1>2 DEF LeftBehind, Stranded, At, Top
  <2> QED
    BY <1>2, <2>1 DEF LeftBehind
<1>3. CASE /\ FinishPush /\ Len(stack') = Len(stack) - 1
           /\ Len(stack) = 2 => Len(stack') = 1 /\ stack'[1] = stack[1]
  <2>1. At("repush") /\ ~At("wait")
    BY <1>3 DEF FinishPush, At
  <2>2. Len(stack) = 2 /\ stack[1].pc = "wait"
    BY <2>1 DEF LeftBehind, Stranded
  <2>3. worker' = "running" /\ getdatasLocked'
    BY <1>1, <1>3, <2>1 DEF FinishPush, TokenInv, workerVars
  <2>4. Len(stack') = 1 /\ stack'[1].pc = "wait" /\ stack' # <<>>
    BY <1>3, <2>2
  <2> QED
    BY <2>3, <2>4 DEF LeftBehind, Stranded, At, Top
<1>4. CASE /\ EndPump \/ TakeData \/ Payload_http \/ Payload_xmpp
           /\ Len(stack') = Len(stack)
           /\ Len(stack) = 2 => stack'[1] = stack[1]
  <2>1. ~Stranded
    BY <1>4 DEF Stranded, At, EndPump, TakeData, Payload_http, Payload_xmpp
  <2> QED
    BY <1>4, <2>1 DEF LeftBehind
<1>5. CASE stack' = stack
  <2>1. CASE Stranded
    <3>1. worker' # "populating" /\ getdatasLocked'
      <4>1. ~EndPump /\ ~push_data /\ ~ClickPush /\ ~ClickXmpp /\ ~Quit
        <5>1. ~EndPump
          BY <2>1 DEF Stranded, At, EndPump
        <5>2. ~ClickPush /\ ~ClickXmpp /\ ~Quit
          BY <1>1 DEF ClickPush, ClickXmpp, Quit, UserInput
        <5>3. ~push_data
          <6> SUFFICES ASSUME push_data PROVE FALSE
            OBVIOUS
          <6>1. PICK f \in Frames : stack' = Append(stack, f)
            BY DEF push_data, on_pushButton_push_clicked, on_pushButton_xmpp_clicked,
               Frame, Frames
          <6> QED
            BY <1>1, <1>5, <6>1
        <5> QED
          BY <5>1, <5>2, <5>3
      <4>2. worker # "populating" /\ getdatasLocked /\ At("wait")
        BY <2>1 DEF Stranded
      <4>3. CASE GuiStep
        BY <4>1, <4>2, <4>3 DEF GuiStep, TakeData, Payload_http, Payload_xmpp, FinishPush, At
      <4>4. CASE WorkerStep \/ SigarExit
        BY <4>2, <4>4 DEF WorkerStep, Header, Section, CopyOut, Unlock, Finish, SigarExit
      <4>5. CASE \/ \E o \in Options : on_checkBox_clicked(o)
                 \/ on_pushButton_send_clicked
                 \/ \E connected \in BOOLEAN : on_xmpp_connected(connected)
                 \/ ReplaceClient
        BY <4>2, <4>5 DEF on_checkBox_clicked, on_pushButton_send_clicked,
           on_xmpp_connected, ReplaceClient, workerVars
      <4> QED
        BY <4>1, <4>3, <4>4, <4>5 DEF Next, Event
    <3>2. At("wait")'
      BY <1>5, <2>1 DEF Stranded, At, Top
    <3> QED
      BY <3>1, <3>2 DEF LeftBehind, Stranded
  <2>2. CASE Len(stack) = 2 /\ stack[1].pc = "wait"
    BY <1>5, <2>2 DEF LeftBehind
  <2> QED
    BY <2>1, <2>2 DEF LeftBehind
<1> QED
  BY <1>1, <1>2, <1>3, <1>4, <1>5, BottomStep

(* Who is left behind was overtaken or met a thread about to quit.         *)
LEMMA FallsBehind ==
  ASSUME IInv, TokenUsed, Next, ~LeftBehind, LeftBehind'
  PROVE  \/ push_data /\ At("wait")
         \/ quitting /\ (ClickPush \/ EndPump \/ push_data)
<1>1. CASE Stranded'
  <2>1. \/ FinishPush /\ Len(stack) = 2
        \/ quitting /\ (ClickPush \/ EndPump \/ push_data)
    <3>1. ~Stranded
      BY DEF LeftBehind
    <3>2. ~UNCHANGED vars
      BY <1>1, <3>1 DEF Stranded, At, Top, vars, workerVars
    <3> QED
      BY <1>1, <3>1, <3>2, StrandedStep
  <2>2. ASSUME FinishPush, Len(stack) = 2 PROVE FALSE
    <3>1. stack # <<>>
      BY <2>2 DEF FinishPush, At
    <3>2. stack \in Seq(Frames)
      BY StackShape DEF IInv
    <3>3. stack' = SubSeq(stack, 1, 1)
      BY <2>2 DEF FinishPush, Pop
    <3>4. Len(stack') = 1 /\ stack'[1] = stack[1]
      BY <2>2, <3>2, <3>3
    <3>5. stack'[1].pc = "wait"
      BY <1>1, <3>4 DEF Stranded, At, Top
    <3> QED
      BY <2>2, <3>4, <3>5 DEF LeftBehind
  <2> QED
    BY <2>1, <2>2
<1>2. CASE Len(stack') = 2 /\ stack'[1].pc = "wait"
  <2>1. CASE stack = <<>>
    <3>1. Len(stack') = 0 \/ \E f \in Frames : stack' = Append(<<>>, f)
      BY <2>1 DEF Next, Event, GuiStep, WorkerStep, on_checkBox_clicked,
         on_pushButton_send_clicked, ClickPush, ClickXmpp, Quit, Relaunch, push_data,
         on_pushButton_push_clicked, on_pushButton_xmpp_clicked, on_xmpp_connected,
         ReplaceClient, EndPump, TakeData, Payload_http, Payload_xmpp, FinishPush, At,
         Header, Section, Record, CopyOut, Unlock, Finish, SigarExit, Frame, Frames
    <3> QED
      BY <1>2, <3>1
  <2>2. CASE stack # <<>>
    <3>1. Len(stack) \in 1..2
      BY <2>2, StackShape DEF IInv
    <3>2. ~(Len(stack) = 2 /\ stack'[1] = stack[1]) /\ stack' # stack
      BY <1>2 DEF LeftBehind
    <3>3. ~SigarExit
      BY <1>2 DEF SigarExit, Relaunch
    <3>4. push_data /\ Len(stack) = 1 /\ stack'[1] = stack[1]
      BY <1>2, <2>2, <3>1, <3>2, <3>3, BottomStep
    <3> QED
      BY <1>2, <2>2, <3>4 DEF At, Top
  <2> QED
    BY <2>1, <2>2
<1> QED
  BY <1>1, <1>2 DEF LeftBehind

LEMMA BehindStep ==
  IInv /\ TokenUsed /\ [Next]_vars =>
    [/\ LeftBehind => LeftBehind' \/ SigarExit
     /\ ~LeftBehind /\ LeftBehind'
          => \/ push_data /\ At("wait")
             \/ quitting /\ (ClickPush \/ EndPump \/ push_data)]_vars
  BY StaysBehind, FallsBehind

(* A push that waits in vain was overtaken by an automatic one or started  *)
(* while the thread of the last one had not finished, and it waits for     *)
(* ever; nothing else keeps a handler from returning.                      *)
THEOREM WhoIsLeftBehind == Spec => []HandlersMove /\ LeftBehindForGood
<1>1. Init => TokenUsed
  BY DEF Init, TokenUsed
<1>2. IInv => HandlersMove
  BY MoveFacts
<1>3. Spec => []TokenUsed
  BY <1>1, TokenUsedStep, Invariance, PTL DEF Spec
<1> QED
  BY <1>2, <1>3, BehindStep, Invariance, PTL DEF Spec, LeftBehindForGood

-----------------------------------------------------------------------------
(* PushLoop implements PushCycle. *)

(* A step that starts a gathering, or finds the thread still running.      *)
LEMMA StartPhase ==
  ASSUME IInv, StartGathering, UNCHANGED <<settings, sent, getdatasLocked, link>>,
         ~At("payload"), ~At("payload")'
  PROVE  Cycle!Begin \/ UNCHANGED Cycle!vars
<1> USE DEF IInv, StartGathering
<1>1. CASE worker = "stopped"
  <2>1. Phase = "idle"
    BY <1>1 DEF Phase, TokenInv
  <2>2. Phase' = "gathering"
    <3>1. worker' = "populating" /\ pos' = 0
      BY <1>1 DEF DataInv
    <3>2. 0 <= N + 1
      BY CollectedOptions
    <3> QED
      BY <3>1, <3>2 DEF Phase
  <2> QED
    BY <2>1, <2>2 DEF Cycle!Begin
<1>2. CASE worker # "stopped"
  BY <1>2 DEF Phase, Cycle!vars
<1> QED
  BY <1>1, <1>2

(* A step that leaves alone everything Phase is made of is a stutter.      *)
LEMMA SamePhase ==
  ASSUME UNCHANGED <<settings, sent, worker, pos, getdatasLocked, link>>,
         At("payload")' <=> At("payload")
  PROVE  UNCHANGED Cycle!vars
  BY DEF Phase, Cycle!vars

(* The initial states of the program are initial states of PushCycle.      *)
THEOREM InitCycle == Init => Cycle!Init
<1> SUFFICES ASSUME Init PROVE Cycle!Init
  OBVIOUS
<1>1. Phase = "idle"
  BY DEF Init, Phase, At
<1> QED
  BY <1>1 DEF Init, Cycle!Init

(* Every step of the program is a step of PushCycle or leaves it alone.    *)
THEOREM NextCycle == IInv /\ [Next]_vars => [Cycle!Next]_(Cycle!vars)
<1> SUFFICES ASSUME IInv, [Next]_vars
             PROVE  Cycle!Next \/ UNCHANGED Cycle!vars
  OBVIOUS
<1> USE CollectedOptions DEF IInv
<1>0. stack = <<>> => Phase = "idle"
  BY DEF Phase, TokenInv, At
<1>1. CASE \E o \in Options : on_checkBox_clicked(o)
  <2>1. PICK o \in Options : on_checkBox_clicked(o)
    BY <1>1
  <2>2. Phase = "idle" /\ Phase' = "idle"
    BY <1>0, <2>1 DEF on_checkBox_clicked, UserInput, workerVars, Phase, TokenInv, At
  <2>3. Cycle!Toggle(o)
    BY <2>1, <2>2 DEF on_checkBox_clicked, guiVars, Cycle!Toggle
  <2> QED
    BY <2>3 DEF Cycle!Next
<1>2. CASE \/ on_pushButton_send_clicked
           \/ \E connected \in BOOLEAN : on_xmpp_connected(connected)
           \/ ReplaceClient
           \/ UNCHANGED vars
  <2>1. CASE on_pushButton_send_clicked \/ UNCHANGED vars
    BY <2>1, SamePhase DEF on_pushButton_send_clicked, vars, guiVars, workerVars, At, Top
  <2>2. CASE (\E connected \in BOOLEAN : on_xmpp_connected(connected)) \/ ReplaceClient
    <3>1. /\ UNCHANGED <<settings, sent, worker, pos, getdatasLocked, stack>>
          /\ link' \in BOOLEAN
      BY <2>2 DEF on_xmpp_connected, ReplaceClient, workerVars
    <3>2. Cycle!LinkChanges
      BY <3>1 DEF Cycle!LinkChanges, Phase, At, Top
    <3>. QED
      BY <3>2 DEF Cycle!Next
  <2>. QED
    BY <1>2, <2>1, <2>2
<1>3. ASSUME NEW src \in {"user", "timer"}, on_pushButton_push_clicked(src),
             ~At("payload")
      PROVE  Cycle!Next \/ UNCHANGED Cycle!vars
  <2>1. ~At("payload")'
    <3>1. stack' = Append(stack, Frame(src, "http", "wait"))
      BY <1>3 DEF on_pushButton_push_clicked
    <3>2. Frame(src, "http", "wait") \in Frames
      BY DEF Frame, Frames
    <3>3. Top' = Frame(src, "http", "wait")
      BY <3>1, <3>2, PushFrame DEF TypeOK, Top
    <3> QED
      BY <3>3 DEF At, Frame
  <2> QED
    BY <1>3, <2>1, StartPhase DEF on_pushButton_push_clicked, guiVars, Cycle!Next
<1>4. ASSUME NEW src \in {"user", "timer"}, on_pushButton_xmpp_clicked(src),
             ~At("payload")
      PROVE  UNCHANGED Cycle!vars
  <2>1. ~At("payload")'
    <3>1. stack' = Append(stack, Frame(src, "xmpp", "pump"))
      BY <1>4 DEF on_pushButton_xmpp_clicked
    <3>2. Frame(src, "xmpp", "pump") \in Frames
      BY DEF Frame, Frames
    <3>3. Top' = Frame(src, "xmpp", "pump")
      BY <3>1, <3>2, PushFrame DEF TypeOK, Top
    <3> QED
      BY <3>3 DEF At, Frame
  <2> QED
    BY <1>4, <2>1, SamePhase DEF on_pushButton_xmpp_clicked, guiVars, workerVars
<1>5. CASE ClickPush \/ ClickXmpp
  BY <1>3, <1>4, <1>5 DEF ClickPush, ClickXmpp, UserInput, At
<1>6. CASE push_data
  <2>1. ~At("payload")
    BY <1>6 DEF push_data, InEventLoop, At
  <2> QED
    BY <1>3, <1>4, <1>6, <2>1 DEF push_data
<1>7. CASE Quit
  <2>1. Phase = "idle" /\ Phase' = "idle"
    BY <1>0, <1>7 DEF Quit, UserInput, Relaunch, Phase, At
  <2> QED
    BY <1>7, <2>1 DEF Quit, Relaunch, Cycle!LinkChanges, Cycle!Next
<1>8. CASE SigarExit
  <2>1. Phase = "gathering" /\ Phase' = "idle"
    BY <1>8 DEF SigarExit, Relaunch, Phase, At
  <2> QED
    BY <1>8, <2>1 DEF SigarExit, Relaunch, Cycle!Abort, Cycle!Next
<1>9. CASE EndPump
  <2>1. ~At("payload") /\ stack # <<>> /\ stack' = Goto("wait")
    BY <1>9 DEF EndPump, At
  <2>2. ~At("payload")'
    BY <2>1, Move DEF Places
  <2> QED
    BY <1>9, <2>1, <2>2, StartPhase DEF EndPump, guiVars, Cycle!Next
<1>10. CASE TakeData
  <2>1. stack # <<>> /\ stack' = Goto("payload")
    BY <1>10 DEF TakeData, At
  <2>2. At("payload")'
    BY <2>1, Move DEF Places
  <2>3. Phase = "gathered" /\ Phase' = "gathered"
    BY <1>10, <2>2 DEF TakeData, Phase, TokenInv, workerVars
  <2> QED
    BY <1>10, <2>3 DEF TakeData, guiVars, Cycle!vars
<1>11. CASE Payload_http \/ Payload_xmpp
  <2> USE <1>11 DEF Payload_http, Payload_xmpp, guiVars, workerVars
  <2>1. At("payload") /\ stack # <<>> /\ stack' = Goto("repush")
    BY DEF At
  <2>2. ~At("payload")'
    BY <2>1, Move DEF Places
  <2>3. Phase = "gathered" /\ Phase' = "idle"
    BY <2>1, <2>2 DEF Phase, TokenInv
  <2>4. datas = settings \cap Collected
    BY <2>1 DEF DataInv
  <2>5. CASE sent' = datas
    BY <2>3, <2>4, <2>5 DEF Cycle!HandOver, Cycle!Next
  <2>6. CASE sent' = sent /\ ~link
    BY <2>3, <2>6 DEF Cycle!Drop, Cycle!Next
  <2> QED
    BY <2>5, <2>6
<1>12. CASE FinishPush
  <2> USE <1>12 DEF FinishPush, guiVars, workerVars
  <2>1. stack # <<>> /\ stack' = Pop /\ ~At("payload")
    BY DEF At
  <2>2. ~At("payload")'
    BY <2>1, Return
  <2> QED
    BY <2>1, <2>2, SamePhase
<1>13. CASE Header \/ Section
  <2> USE <1>13 DEF Header, Section, Record, guiVars
  <2>1. Phase = "gathering" /\ Phase' = "gathering"
    BY DEF Phase
  <2> QED
    BY <2>1 DEF Cycle!vars
<1>14. CASE CopyOut
  <2> USE <1>14 DEF CopyOut, guiVars
  <2>1. Phase = "gathering" /\ Phase' = "gathered"
    BY DEF Phase
  <2> QED
    BY <2>1 DEF Cycle!Complete, Cycle!Next
<1>15. CASE Unlock
  <2> USE <1>15 DEF Unlock, guiVars
  <2>1. Phase = "gathered" /\ Phase' = "gathered"
    BY DEF Phase
  <2> QED
    BY <2>1 DEF Cycle!vars
<1>16. CASE Finish
  <2> USE <1>16 DEF Finish, guiVars
  <2>1. Phase = "idle" /\ Phase' = "idle"
    BY DEF Phase, TokenInv, At, Top
  <2> QED
    BY <2>1 DEF Cycle!vars
<1> QED
  BY <1>1, <1>2, <1>5, <1>6, <1>7, <1>8, <1>9, <1>10, <1>11, <1>12, <1>13,
     <1>14, <1>15, <1>16
  DEF Next, Event, GuiStep, WorkerStep

(* Every behaviour of the two threads is a behaviour of the promise: what  *)
(* MainWindow hands to the transport is what was ticked and collectable    *)
(* when the gathering began and still is, and gatherings never overlap.    *)
THEOREM Refinement == Spec => CycleSpec
<1>1. Init => Cycle!Init
  BY InitCycle
<1>2. IInv /\ [Next]_vars => [Cycle!Next]_(Cycle!vars)
  BY NextCycle
<1> QED
  BY <1>1, <1>2, Invariance, PTL DEF Spec, CycleSpec, Cycle!Spec
(* Every step of the program is a step of the link or leaves it alone. *)
LEMMA NextLink == [Next]_vars => [XLink!Next]_(XLink!vars)
<1> SUFFICES ASSUME [Next]_vars PROVE [XLink!Next]_(XLink!vars)
  OBVIOUS
<1> USE DEF XLink!Next, XLink!vars
<1>1. CASE Event
  <2>1. ASSUME NEW o \in Options, on_checkBox_clicked(o) PROVE UNCHANGED XLink!vars
    BY <2>1 DEF on_checkBox_clicked, guiVars
  <2>2. CASE on_pushButton_send_clicked
    BY <2>2 DEF on_pushButton_send_clicked
  <2>3. CASE ClickPush
    BY <2>3 DEF ClickPush, on_pushButton_push_clicked, guiVars
  <2>4. CASE ClickXmpp
    BY <2>4 DEF ClickXmpp, on_pushButton_xmpp_clicked, guiVars
  <2>5. CASE Quit
    BY <2>5 DEF Quit, Relaunch, XLink!Relaunch
  <2>6. CASE push_data
    BY <2>6 DEF push_data, on_pushButton_push_clicked, on_pushButton_xmpp_clicked,
                guiVars
  <2>7. ASSUME NEW connected \in BOOLEAN, on_xmpp_connected(connected)
        PROVE XLink!Report(connected)
    BY <2>7 DEF on_xmpp_connected, XLink!Report
  <2>8. CASE ReplaceClient
    BY <2>8 DEF ReplaceClient, XLink!Replace
  <2> QED BY <1>1, <2>1, <2>2, <2>3, <2>4, <2>5, <2>6, <2>7, <2>8 DEF Event
<1>2. CASE GuiStep
  BY <1>2 DEF GuiStep, EndPump, TakeData, Payload_http, Payload_xmpp, FinishPush,
              guiVars
<1>3. CASE WorkerStep
  BY <1>3 DEF WorkerStep, Header, Section, Record, CopyOut, Unlock, Finish, guiVars
<1>4. CASE SigarExit
  BY <1>4 DEF SigarExit, Relaunch, XLink!Relaunch
<1>5. CASE UNCHANGED vars
  BY <1>5 DEF vars, guiVars
<1> QED BY <1>1, <1>2, <1>3, <1>4, <1>5 DEF Next

(* PushLoop uses the XMPP client as the abstract link allows. *)
THEOREM LinkRefinement == Spec => LinkSpec
<1>1. Init => XLink!Init
  BY DEF Init, XLink!Init
<1> QED
  BY <1>1, NextLink, PTL DEF Spec, LinkSpec, XLink!Spec
=============================================================================
