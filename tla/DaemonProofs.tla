---------------------------- MODULE DaemonProofs ----------------------------
(***************************************************************************)
(* Proofs about Daemon, for any number of messages, any error threshold    *)
(* and any set of failing calls.                                           *)
(***************************************************************************)
EXTENDS Daemon, TLAPS

Opening == {"limits", "pidfile", "armTerm", "armInt", "lock", "open"}
BeforeLoop == Opening \cup {"helo", "listen", "register"}
Serving == {"parse", "prompt", "send"}
Position == BeforeLoop \cup LoopPos \cup ExitPos \cup {"relock", "unlisten", "hlock"}

\* Where the frame is that moves.
Here == stack[Len(stack)]

StackType == stack \in Seq(Position) /\ Len(stack) > 0

\* The move of the top frame changes nothing but its position.
LEMMA GotoHere ==
    ASSUME StackType, NEW l \in Position, Goto(l) PROVE StackType' /\ Here' = l
BY DEF StackType, Here, Goto, Top

\* A handler comes on top.
LEMMA PushHere ==
    ASSUME StackType, stack' = Append(stack, "hlock") PROVE StackType' /\ Here' = "hlock"
BY DEF StackType, Here, Position

\* What At says of the top frame.
LEMMA AtHere == ASSUME NEW l, At(l) PROVE Here = l /\ outcome = "running"
BY DEF At, Here, Top

\* The frames below the top never move again, so whatever the top frame has
\* done stays done.  On its way through ecryptfsd_exit() it has removed the pid
\* file by the time it has freed the name, and told the kernel by the time it
\* closes the device.
ExitInv ==
    /\ pidExists => pidName = "set"
    /\ kernel = "HELO" => device = "open" /\ Here \notin Opening
    /\ Here \in {"clearName", "quit", "close", "exit"} => pidName # "set"
    /\ Here = "close" => kernel # "HELO"
    /\ Here = "exit" => device # "open"
    /\ outcome = "exited" => Here = "exit"

\* A message is live while it is served, and freed twice only after an error.
FreeInv ==
    /\ Here \in Serving => emsg = "live"
    /\ Here = "free" /\ emsg = "freed" => blame
    /\ outcome = "aborted" => blame

Settled(i) == replied[i] = 1 \/ i \in dropped

\* The message being served is the last one and has no reply yet; every earlier
\* request is settled, and the last one too when the next message is read.
ReplyInv ==
    /\ seq \in Nat /\ seq <= MaxMsgs /\ asked \subseteq 1 .. seq
    /\ replied \in [1 .. MaxMsgs -> Nat]
    /\ \A i \in 1 .. MaxMsgs : replied[i] <= IF i \in asked THEN 1 ELSE 0
    /\ \A i \in asked : i < seq => Settled(i)
    /\ Here \in Serving => seq \in asked /\ replied[seq] = 0
    /\ Here \in BeforeLoop \cup {"recv", "free"} => \A i \in asked : Settled(i)

IInv == StackType /\ ExitInv /\ FreeInv /\ ReplyInv

\* The initial states satisfy the invariant.
LEMMA InitIInv == Init => IInv
<1> SUFFICES ASSUME Init PROVE IInv
  OBVIOUS
<1>1. StackType /\ Here = "limits"
  BY DEF Init, StackType, Here, Position, BeforeLoop, Opening
<1>2. ExitInv /\ FreeInv
  BY <1>1 DEF Init, ExitInv, FreeInv, Serving
<1>3. ReplyInv
  BY <1>1, DaemonAssumption DEF Init, ReplyInv, Serving, Settled
<1> QED
  BY <1>1, <1>2, <1>3 DEF IInv

\* The invariant implies the three properties.
LEMMA IInvImplies == IInv => OneReply /\ AbortBlamed /\ CleanExit
  BY DEF IInv, ExitInv, FreeInv, ReplyInv, Settled, OneReply, AbortBlamed, CleanExit

\* Every step keeps the invariant: one case per action, first where the top frame
\* goes, then what the action does to the variables.
LEMMA IInvStep == ASSUME IInv, [Next]_vars PROVE IInv'
<1> USE DaemonAssumption DEF start, channel, loop, history
<1>0. StackType /\ ExitInv /\ FreeInv /\ ReplyInv
  BY DEF IInv
<1>1. CASE Limits
  <2>1. StackType' /\ outcome = "running" /\ Here = "limits" /\ Here' \in {"pidfile", "unlink"}
    BY <1>0, <1>1, AtHere, GotoHere DEF Limits, Position, BeforeLoop, Opening, LoopPos, ExitPos
  <2>2. ExitInv'
    BY <1>0, <1>1, <2>1 DEF Limits, ExitInv, Opening
  <2>3. FreeInv'
    BY <1>0, <1>1, <2>1 DEF Limits, FreeInv, Serving
  <2>4. ReplyInv'
    BY <1>0, <1>1, <2>1 DEF Limits, ReplyInv, Settled, Serving, BeforeLoop, Opening
  <2> QED
    BY <2>1, <2>2, <2>3, <2>4 DEF IInv
<1>2. CASE Pidfile
  <2>1. StackType' /\ outcome = "running" /\ Here = "pidfile" /\ Here' \in {"armTerm", "unlink"}
    BY <1>0, <1>2, AtHere, GotoHere DEF Pidfile, Position, BeforeLoop, Opening, LoopPos, ExitPos
  <2>2. ExitInv'
    BY <1>0, <1>2, <2>1 DEF Pidfile, ExitInv, Opening
  <2>3. FreeInv'
    BY <1>0, <1>2, <2>1 DEF Pidfile, FreeInv, Serving
  <2>4. ReplyInv'
    BY <1>0, <1>2, <2>1 DEF Pidfile, ReplyInv, Settled, Serving, BeforeLoop, Opening
  <2> QED
    BY <2>1, <2>2, <2>3, <2>4 DEF IInv
<1>3. CASE ArmTerm
  <2>1. StackType' /\ outcome = "running" /\ Here = "armTerm" /\ Here' = "armInt"
    BY <1>0, <1>3, AtHere, GotoHere DEF ArmTerm, Position, BeforeLoop, Opening, LoopPos, ExitPos
  <2>2. ExitInv'
    BY <1>0, <1>3, <2>1 DEF ArmTerm, ExitInv, Opening
  <2>3. FreeInv'
    BY <1>0, <1>3, <2>1 DEF ArmTerm, FreeInv, Serving
  <2>4. ReplyInv'
    BY <1>0, <1>3, <2>1 DEF ArmTerm, ReplyInv, Settled, Serving, BeforeLoop, Opening
  <2> QED
    BY <2>1, <2>2, <2>3, <2>4 DEF IInv
<1>4. CASE ArmInt
  <2>1. StackType' /\ outcome = "running" /\ Here = "armInt" /\ Here' = "lock"
    BY <1>0, <1>4, AtHere, GotoHere DEF ArmInt, Position, BeforeLoop, Opening, LoopPos, ExitPos
  <2>2. ExitInv'
    BY <1>0, <1>4, <2>1 DEF ArmInt, ExitInv, Opening
  <2>3. FreeInv'
    BY <1>0, <1>4, <2>1 DEF ArmInt, FreeInv, Serving
  <2>4. ReplyInv'
    BY <1>0, <1>4, <2>1 DEF ArmInt, ReplyInv, Settled, Serving, BeforeLoop, Opening
  <2> QED
    BY <2>1, <2>2, <2>3, <2>4 DEF IInv
<1>5. CASE LockMux
  <2>1. StackType' /\ outcome = "running" /\ ((Here = "lock" /\ Here' = "open") \/ (Here = "relock" /\ Here' = "unlisten"))
    BY <1>0, <1>5, AtHere, GotoHere DEF LockMux, Position, BeforeLoop, Opening, LoopPos, ExitPos
  <2>2. ExitInv'
    BY <1>0, <1>5, <2>1 DEF LockMux, ExitInv, Opening
  <2>3. FreeInv'
    BY <1>0, <1>5, <2>1 DEF LockMux, FreeInv, Serving
  <2>4. ReplyInv'
    BY <1>0, <1>5, <2>1 DEF LockMux, ReplyInv, Settled, Serving, BeforeLoop, Opening
  <2> QED
    BY <2>1, <2>2, <2>3, <2>4 DEF IInv
<1>6. CASE OpenDevice
  <2>1. StackType' /\ outcome = "running" /\ Here = "open" /\ Here' \in {"helo", "unlink"}
    BY <1>0, <1>6, AtHere, GotoHere DEF OpenDevice, Position, BeforeLoop, Opening, LoopPos, ExitPos
  <2>2. ExitInv'
    BY <1>0, <1>6, <2>1 DEF OpenDevice, ExitInv, Opening
  <2>3. FreeInv'
    BY <1>0, <1>6, <2>1 DEF OpenDevice, FreeInv, Serving
  <2>4. ReplyInv'
    BY <1>0, <1>6, <2>1 DEF OpenDevice, ReplyInv, Settled, Serving, BeforeLoop, Opening
  <2> QED
    BY <2>1, <2>2, <2>3, <2>4 DEF IInv
<1>7. CASE Helo
  <2>1. StackType' /\ outcome = "running" /\ Here = "helo" /\ Here' \in {"listen", "unlink"}
    BY <1>0, <1>7, AtHere, GotoHere DEF Helo, Position, BeforeLoop, Opening, LoopPos, ExitPos
  <2>2. ExitInv'
    BY <1>0, <1>7, <2>1 DEF Helo, Told, ExitInv, Opening
  <2>3. FreeInv'
    BY <1>0, <1>7, <2>1 DEF Helo, Told, FreeInv, Serving
  <2>4. ReplyInv'
    BY <1>0, <1>7, <2>1 DEF Helo, Told, ReplyInv, Settled, Serving, BeforeLoop, Opening
  <2> QED
    BY <2>1, <2>2, <2>3, <2>4 DEF IInv
<1>8. CASE Listen
  <2>1. StackType' /\ outcome = "running" /\ Here = "listen" /\ Here' = "register"
    BY <1>0, <1>8, AtHere, GotoHere DEF Listen, Position, BeforeLoop, Opening, LoopPos, ExitPos
  <2>2. ExitInv'
    BY <1>0, <1>8, <2>1 DEF Listen, ExitInv, Opening
  <2>3. FreeInv'
    BY <1>0, <1>8, <2>1 DEF Listen, FreeInv, Serving
  <2>4. ReplyInv'
    BY <1>0, <1>8, <2>1 DEF Listen, ReplyInv, Settled, Serving, BeforeLoop, Opening
  <2> QED
    BY <2>1, <2>2, <2>3, <2>4 DEF IInv
<1>9. CASE Register
  <2>1. StackType' /\ outcome = "running" /\ Here = "register" /\ Here' \in {"recv", "relock"}
    BY <1>0, <1>9, AtHere, GotoHere DEF Register, Position, BeforeLoop, Opening, LoopPos, ExitPos
  <2>2. ExitInv'
    BY <1>0, <1>9, <2>1 DEF Register, ExitInv, Opening
  <2>3. FreeInv'
    BY <1>0, <1>9, <2>1 DEF Register, FreeInv, Serving
  <2>4. ReplyInv'
    BY <1>0, <1>9, <2>1 DEF Register, ReplyInv, Settled, Serving, BeforeLoop, Opening
  <2> QED
    BY <2>1, <2>2, <2>3, <2>4 DEF IInv
<1>10. CASE Parse
  <2>1. StackType' /\ outcome = "running" /\ Here = "parse" /\ Here' \in {"send", "prompt", "free"}
        /\ dropped' = IF Here' = "free" THEN dropped \cup {seq} ELSE dropped
    BY <1>0, <1>10, AtHere, GotoHere DEF Parse, Answer, Position, BeforeLoop, Opening, LoopPos, ExitPos
  <2>2. ExitInv'
    BY <1>0, <1>10, <2>1 DEF Parse, Answer, ExitInv, Opening
  <2>3. FreeInv'
    BY <1>0, <1>10, <2>1 DEF Parse, Answer, FreeInv, Serving
  <2>4. ReplyInv'
    BY <1>0, <1>10, <2>1 DEF Parse, Answer, ReplyInv, Settled, Serving, BeforeLoop, Opening
  <2> QED
    BY <2>1, <2>2, <2>3, <2>4 DEF IInv
<1>11. CASE ParseUnknown
  <2>1. StackType' /\ outcome = "running" /\ Here = "parse" /\ Here' = "free"
    BY <1>0, <1>11, AtHere, GotoHere DEF ParseUnknown, Position, BeforeLoop, Opening, LoopPos, ExitPos
  <2>2. ExitInv'
    BY <1>0, <1>11, <2>1 DEF ParseUnknown, ExitInv, Opening
  <2>3. FreeInv'
    BY <1>0, <1>11, <2>1 DEF ParseUnknown, FreeInv, Serving
  <2>4. ReplyInv'
    BY <1>0, <1>11, <2>1 DEF ParseUnknown, ReplyInv, Settled, Serving, BeforeLoop, Opening
  <2> QED
    BY <2>1, <2>2, <2>3, <2>4 DEF IInv
<1>12. CASE Prompted
  <2>1. StackType' /\ outcome = "running" /\ Here = "prompt" /\ Here' \in {"send", "free"}
        /\ dropped' = IF Here' = "free" THEN dropped \cup {seq} ELSE dropped
    BY <1>0, <1>12, AtHere, GotoHere DEF Prompted, Answer, Position, BeforeLoop, Opening, LoopPos, ExitPos
  <2>2. ExitInv'
    BY <1>0, <1>12, <2>1 DEF Prompted, Answer, ExitInv, Opening
  <2>3. FreeInv'
    BY <1>0, <1>12, <2>1 DEF Prompted, Answer, FreeInv, Serving
  <2>4. ReplyInv'
    BY <1>0, <1>12, <2>1 DEF Prompted, Answer, ReplyInv, Settled, Serving, BeforeLoop, Opening
  <2> QED
    BY <2>1, <2>2, <2>3, <2>4 DEF IInv
<1>13. CASE SendReply
  <2>1. StackType' /\ outcome = "running" /\ Here = "send" /\ Here' = "free"
    BY <1>0, <1>13, AtHere, GotoHere DEF SendReply, Position, BeforeLoop, Opening, LoopPos, ExitPos
  <2>2. ExitInv'
    BY <1>0, <1>13, <2>1 DEF SendReply, ExitInv, Opening
  <2>3. FreeInv'
    BY <1>0, <1>13, <2>1 DEF SendReply, FreeInv, Serving
  <2>4. ReplyInv'
    BY <1>0, <1>13, <2>1 DEF SendReply, ReplyInv, Settled, Serving, BeforeLoop, Opening
  <2> QED
    BY <2>1, <2>2, <2>3, <2>4 DEF IInv
<1>14. CASE FreeMessage
  <2>1. StackType' /\ outcome = "running" /\ Here = "free" /\ Here' = "recv"
    BY <1>0, <1>14, AtHere, GotoHere DEF FreeMessage, Position, BeforeLoop, Opening, LoopPos, ExitPos
  <2>2. ExitInv'
    BY <1>0, <1>14, <2>1 DEF FreeMessage, ExitInv, Opening
  <2>3. FreeInv'
    BY <1>0, <1>14, <2>1 DEF FreeMessage, FreeInv, Serving
  <2>4. ReplyInv'
    BY <1>0, <1>14, <2>1 DEF FreeMessage, ReplyInv, Settled, Serving, BeforeLoop, Opening
  <2> QED
    BY <2>1, <2>2, <2>3, <2>4 DEF IInv
<1>15. CASE Unlisten
  <2>1. StackType' /\ outcome = "running" /\ Here = "unlisten" /\ Here' = "unlink"
    BY <1>0, <1>15, AtHere, GotoHere DEF Unlisten, Position, BeforeLoop, Opening, LoopPos, ExitPos
  <2>2. ExitInv'
    BY <1>0, <1>15, <2>1 DEF Unlisten, ExitInv, Opening
  <2>3. FreeInv'
    BY <1>0, <1>15, <2>1 DEF Unlisten, FreeInv, Serving
  <2>4. ReplyInv'
    BY <1>0, <1>15, <2>1 DEF Unlisten, ReplyInv, Settled, Serving, BeforeLoop, Opening
  <2> QED
    BY <2>1, <2>2, <2>3, <2>4 DEF IInv
<1>16. CASE UnlinkPidfile
  <2>1. StackType' /\ outcome = "running" /\ Here = "unlink" /\ Here' = IF pidName = "null" THEN "quit" ELSE "clearName"
    BY <1>0, <1>16, AtHere, GotoHere DEF UnlinkPidfile, Position, BeforeLoop, Opening, LoopPos, ExitPos
  <2>2. ExitInv'
    BY <1>0, <1>16, <2>1 DEF UnlinkPidfile, ExitInv, Opening
  <2>3. FreeInv'
    BY <1>0, <1>16, <2>1 DEF UnlinkPidfile, FreeInv, Serving
  <2>4. ReplyInv'
    BY <1>0, <1>16, <2>1 DEF UnlinkPidfile, ReplyInv, Settled, Serving, BeforeLoop, Opening
  <2> QED
    BY <2>1, <2>2, <2>3, <2>4 DEF IInv
<1>17. CASE ClearName
  <2>1. StackType' /\ outcome = "running" /\ Here = "clearName" /\ Here' = "quit"
    BY <1>0, <1>17, AtHere, GotoHere DEF ClearName, Position, BeforeLoop, Opening, LoopPos, ExitPos
  <2>2. ExitInv'
    BY <1>0, <1>17, <2>1 DEF ClearName, ExitInv, Opening
  <2>3. FreeInv'
    BY <1>0, <1>17, <2>1 DEF ClearName, FreeInv, Serving
  <2>4. ReplyInv'
    BY <1>0, <1>17, <2>1 DEF ClearName, ReplyInv, Settled, Serving, BeforeLoop, Opening
  <2> QED
    BY <2>1, <2>2, <2>3, <2>4 DEF IInv
<1>18. CASE Quit
  <2>1. StackType' /\ outcome = "running" /\ Here = "quit" /\ Here' = "close"
    BY <1>0, <1>18, AtHere, GotoHere DEF Quit, Position, BeforeLoop, Opening, LoopPos, ExitPos
  <2>2. ExitInv'
    BY <1>0, <1>18, <2>1 DEF Quit, Told, ExitInv, Opening
  <2>3. FreeInv'
    BY <1>0, <1>18, <2>1 DEF Quit, Told, FreeInv, Serving
  <2>4. ReplyInv'
    BY <1>0, <1>18, <2>1 DEF Quit, Told, ReplyInv, Settled, Serving, BeforeLoop, Opening
  <2> QED
    BY <2>1, <2>2, <2>3, <2>4 DEF IInv
<1>19. CASE Close
  <2>1. StackType' /\ outcome = "running" /\ Here = "close" /\ Here' = "exit"
    BY <1>0, <1>19, AtHere, GotoHere DEF Close, Position, BeforeLoop, Opening, LoopPos, ExitPos
  <2>2. ExitInv'
    BY <1>0, <1>19, <2>1 DEF Close, ExitInv, Opening
  <2>3. FreeInv'
    BY <1>0, <1>19, <2>1 DEF Close, FreeInv, Serving
  <2>4. ReplyInv'
    BY <1>0, <1>19, <2>1 DEF Close, ReplyInv, Settled, Serving, BeforeLoop, Opening
  <2> QED
    BY <2>1, <2>2, <2>3, <2>4 DEF IInv
<1>20. CASE HandlerLock
  <2>1. StackType' /\ outcome = "running" /\ Here = "hlock" /\ Here' = "unlink"
    BY <1>0, <1>20, AtHere, GotoHere DEF HandlerLock, Position, BeforeLoop, Opening, LoopPos, ExitPos
  <2>2. ExitInv'
    BY <1>0, <1>20, <2>1 DEF HandlerLock, ExitInv, Opening
  <2>3. FreeInv'
    BY <1>0, <1>20, <2>1 DEF HandlerLock, FreeInv, Serving
  <2>4. ReplyInv'
    BY <1>0, <1>20, <2>1 DEF HandlerLock, ReplyInv, Settled, Serving, BeforeLoop, Opening
  <2> QED
    BY <2>1, <2>2, <2>3, <2>4 DEF IInv
<1>21. CASE Receive
  <2>1. StackType' /\ outcome = "running" /\ Here = "recv" /\ ((Here' = "free" /\ emsg' = "live") \/ Here' = "relock")
    BY <1>0, <1>21, AtHere, GotoHere DEF Receive, Position, BeforeLoop, Opening, LoopPos, ExitPos
  <2>2. ExitInv'
    BY <1>0, <1>21, <2>1 DEF Receive, ExitInv, Opening
  <2>3. FreeInv'
    BY <1>0, <1>21, <2>1 DEF Receive, FreeInv, Serving
  <2>4. ReplyInv'
    BY <1>0, <1>21, <2>1 DEF Receive, ReplyInv, Settled, Serving, BeforeLoop, Opening
  <2> QED
    BY <2>1, <2>2, <2>3, <2>4 DEF IInv
<1>22. CASE ReceiveRequest
  <2>1. StackType' /\ outcome = "running" /\ Here = "recv" /\ Here' = "parse"
    BY <1>0, <1>22, AtHere, GotoHere DEF ReceiveRequest, Position, BeforeLoop, Opening, LoopPos, ExitPos
  <2>2. ExitInv'
    BY <1>0, <1>22, <2>1 DEF ReceiveRequest, ExitInv, Opening
  <2>3. FreeInv'
    BY <1>0, <1>22, <2>1 DEF ReceiveRequest, FreeInv, Serving
  <2>4. ReplyInv'
    BY <1>0, <1>22, <2>1 DEF ReceiveRequest, ReplyInv, Settled, Serving, BeforeLoop, Opening
  <2> QED
    BY <2>1, <2>2, <2>3, <2>4 DEF IInv
<1>23. CASE ReceiveFails
  <2>1. StackType' /\ outcome = "running" /\ Here = "recv" /\ Here' \in {"free", "relock"}
    BY <1>0, <1>23, AtHere, GotoHere DEF ReceiveFails, Position, BeforeLoop, Opening, LoopPos, ExitPos
  <2>2. ExitInv'
    BY <1>0, <1>23, <2>1 DEF ReceiveFails, ExitInv, Opening
  <2>3. FreeInv'
    BY <1>0, <1>23, <2>1 DEF ReceiveFails, FreeInv, Serving
  <2>4. ReplyInv'
    BY <1>0, <1>23, <2>1 DEF ReceiveFails, ReplyInv, Settled, Serving, BeforeLoop, Opening
  <2> QED
    BY <2>1, <2>2, <2>3, <2>4 DEF IInv
<1>24. CASE ParseCrashes
  BY <1>0, <1>24, AtHere DEF ParseCrashes, IInv, StackType, Here, ExitInv, FreeInv, ReplyInv, Settled
<1>25. CASE PromptEnds
  BY <1>0, <1>25, AtHere DEF PromptEnds, IInv, StackType, Here, ExitInv, FreeInv, ReplyInv, Settled
<1>26. CASE FreeAborts
  BY <1>0, <1>26, AtHere DEF FreeAborts, IInv, StackType, Here, ExitInv, FreeInv, ReplyInv, Settled
<1>27. CASE UnlinkAborts
  BY <1>0, <1>27, AtHere DEF UnlinkAborts, IInv, StackType, Here, ExitInv, FreeInv, ReplyInv, Settled
<1>28. CASE Exit
  BY <1>0, <1>28, AtHere DEF Exit, IInv, StackType, Here, ExitInv, FreeInv, ReplyInv, Settled
<1>29. CASE Unload
  BY <1>0, <1>29, AtHere DEF Unload, IInv, StackType, Here, ExitInv, FreeInv, ReplyInv, Settled
<1>30. ASSUME NEW s \in Signals, Signal(s) PROVE IInv'
  <2>1. StackType' /\ Here' = "hlock"
    BY <1>0, <1>30, PushHere DEF Signal
  <2> QED
    BY <1>0, <1>30, <2>1 DEF Signal, IInv, ExitInv, FreeInv, ReplyInv, Settled, Serving, BeforeLoop, Opening
<1>31. CASE UNCHANGED vars
  BY <1>0, <1>31 DEF vars, IInv, StackType, Here, ExitInv, FreeInv, ReplyInv, Settled
<1> QED
  BY <1>1, <1>2, <1>3, <1>4, <1>5, <1>6, <1>7, <1>8, <1>9, <1>10, <1>11, <1>12, <1>13,
     <1>14, <1>15, <1>16, <1>17, <1>18, <1>19, <1>20, <1>21, <1>22, <1>23, <1>24,
     <1>25, <1>26, <1>27, <1>28, <1>29, <1>30, <1>31 DEF Next, Run

\* However many messages arrive, whichever calls fail and whenever signals come,
\* the invariant holds.
LEMMA IInvHolds == Spec => []IInv
  BY InitIInv, IInvStep, PTL DEF Spec

\* ecryptfsd answers a request at most once, never what was not asked, and reads
\* no message before the request before it is settled.
THEOREM OneReplyHolds == Spec => []OneReply
  BY IInvHolds, IInvImplies, PTL

\* ecryptfsd frees memory twice only after one of the errors named in blame.
THEOREM AbortBlamedHolds == Spec => []AbortBlamed
  BY IInvHolds, IInvImplies, PTL

\* However ecryptfsd exits, in main() or in a handler that interrupted it anywhere,
\* the pid file is gone, the device closed and the kernel told.
THEOREM CleanExitHolds == Spec => []CleanExit
  BY IInvHolds, IInvImplies, PTL
=============================================================================
