------------------------------- MODULE Daemon -------------------------------
(***************************************************************************)
(* ecryptfsd: start-up, signal handlers and exit (src/daemon/main.c), the  *)
(* receive loop over /dev/ecryptfs (src/libecryptfs/miscdev.c,             *)
(* messaging.c) and the answer to a key request (packets.c).               *)
(*                                                                         *)
(* The daemon has one thread.  Its control is a stack of frames: main() at *)
(* the bottom, and above it the signal handlers that interrupted it, which *)
(* run ecryptfsd_exit() themselves.  Only the top frame moves.  The kernel *)
(* is the environment: it sends messages or, once the module is unloaded,  *)
(* fails every read().                                                     *)
(***************************************************************************)
EXTENDS Naturals, Sequences

CONSTANTS
    MaxMsgs,        \* bound on the messages received
    Threshold,      \* ECRYPTFS_MSG_ERROR_COUNT_THRESHOLD
    Faults          \* subset of FaultNames

FaultNames == {"startup", "open", "register", "send", "recv", "oom", "keyread", "oversize"}

ASSUME DaemonAssumption ==
    /\ MaxMsgs \in Nat \ {0} /\ Threshold \in Nat
    /\ Faults \subseteq FaultNames

\* A request as parse_packet() tells requests apart: the packet type and the
\* first thing that stands in the way of an answer.
Tag == {64, 66, 0}
Obstacle == {"none", "format", "nokey", "unreadable", "module", "prompt", "oversize"}
Request == [tag : Tag, obstacle : Obstacle]
NoReply == [tag |-> 0, good |-> FALSE]
Signals == {"TERM", "INT"}

VARIABLES
    stack,          \* frames, main() first
    owner,          \* the frame that holds mctx_mux, 0 for none
    armed,          \* signals with sigterm_handler installed
    pidName,        \* pidfile: "null", "set", "freed"
    pidExists,      \* the pid file exists
    device,         \* mctx: "unset", "unopened", "open", "closed"
    kernel,         \* what the kernel last heard: "none", "HELO", "QUIT", "lost"
    gone,           \* the kernel module has been unloaded
    seq,            \* msg_seq: number of the message last received
    emsg,           \* "null", "live", "freed"
    msg, reply,     \* the request, the reply
    child,          \* the prompt program: "none", "runs", "ok", "failed"
    errors,         \* error_count
    outcome,        \* "running", "exited", "aborted"
    asked, replied, \* history: requests received, replies per message
    dropped,        \* history: requests that could not be answered
    blame           \* history: errors that make undefined behaviour possible

start == <<armed, pidName, pidExists>>
channel == <<device, kernel>>
loop == <<seq, emsg, msg, reply, errors>>
history == <<asked, replied, dropped, blame>>
vars == <<stack, owner, start, channel, gone, loop, child, outcome, history>>

ExitPos == {"unlink", "clearName", "quit", "close", "exit"}
LoopPos == {"recv", "parse", "prompt", "send", "free"}

Init ==
    /\ stack = <<"limits">> /\ owner = 0 /\ armed = {}
    /\ pidName \in {"null", "set"} /\ pidExists = FALSE
    /\ device = "unset" /\ kernel = "none" /\ gone = FALSE
    /\ seq = 0 /\ emsg = "null" /\ msg = [tag |-> 0, obstacle |-> "none"]
    /\ reply = NoReply /\ child = "none" /\ errors = 0 /\ outcome = "running"
    /\ asked = {} /\ replied = [i \in 1..MaxMsgs |-> 0] /\ dropped = {} /\ blame = FALSE
-----------------------------------------------------------------------------

Top == Len(stack)
At(l) == outcome = "running" /\ stack[Top] = l
Goto(l) == stack' = [stack EXCEPT ![Top] = l]

\* main() as far as the pid file: setrlimit(), chroot(); daemon_out on failure.
Limits ==
    /\ At("limits")
    /\ \E l \in {"pidfile"} \cup IF "startup" \in Faults THEN {"unlink"} ELSE {} : Goto(l)
    /\ UNCHANGED <<owner, start, channel, gone, loop, child, outcome, history>>

Pidfile ==
    /\ At("pidfile")
    /\ \/ Goto("armTerm") /\ pidExists' = (pidExists \/ pidName = "set")
       \/ "startup" \in Faults /\ pidName = "set" /\ Goto("unlink") /\ UNCHANGED pidExists
    /\ UNCHANGED <<owner, armed, pidName, channel, gone, loop, child, outcome, history>>

\* signal(); until here the two signals are ignored, as daemonize() left them.
\* (It cannot fail for these two signals.)
ArmTerm ==
    /\ At("armTerm")
    /\ armed' = armed \cup {"TERM"} /\ Goto("armInt")
    /\ UNCHANGED <<owner, pidName, pidExists, channel, gone, loop, child, outcome, history>>

ArmInt ==
    /\ At("armInt")
    /\ armed' = armed \cup {"INT"} /\ Goto("lock")
    /\ UNCHANGED <<owner, pidName, pidExists, channel, gone, loop, child, outcome, history>>

\* pthread_mutex_lock() in main(): at start-up and after the loop.
LockMux ==
    /\ At("lock") \/ At("relock")
    /\ owner = 0
    /\ owner' = Top
    /\ Goto(IF At("lock") THEN "open" ELSE "unlisten")
    /\ UNCHANGED <<start, channel, gone, loop, child, outcome, history>>

\* Mutant of OpenDevice: a failure exits at once.
OpenDeviceExits ==
    /\ At("open")
    /\ \/ device' = "open" /\ Goto("helo") /\ UNCHANGED owner
       \/ "open" \in Faults /\ device' = "unopened" /\ owner' = 0 /\ Goto("exit")
    /\ UNCHANGED <<start, kernel, gone, loop, child, outcome, history>>

\* ecryptfs_init_messaging(): the type is set before the device is opened.
OpenDevice ==
    /\ At("open")
    /\ \/ device' = "open" /\ Goto("helo") /\ UNCHANGED owner
       \/ "open" \in Faults /\ device' = "unopened" /\ owner' = 0 /\ Goto("unlink")
    /\ UNCHANGED <<start, kernel, gone, loop, child, outcome, history>>

\* What the kernel knows after an attempt to send m.
Told(m) == IF device # "open" THEN {kernel}
           ELSE IF gone THEN {"lost"}
           ELSE {m} \cup IF "send" \in Faults THEN {"lost"} ELSE {}

\* Mutant of Helo: the mutex is not released on the failure path.
HeloKeepsLock ==
    /\ At("helo")
    /\ kernel' \in Told("HELO")
    /\ Goto(IF kernel' = "HELO" THEN "listen" ELSE "unlink")
    /\ UNCHANGED <<owner, start, device, gone, loop, child, outcome, history>>

\* HELO; without it the daemon gives up.
Helo ==
    /\ At("helo")
    /\ kernel' \in Told("HELO")
    /\ IF kernel' = "HELO" THEN Goto("listen") /\ UNCHANGED owner
                           ELSE Goto("unlink") /\ owner' = 0
    /\ UNCHANGED <<start, device, gone, loop, child, outcome, history>>

Listen ==
    /\ At("listen")
    /\ owner' = 0 /\ Goto("register")
    /\ UNCHANGED <<start, channel, gone, loop, child, outcome, history>>

\* ecryptfs_run_miscdev_daemon(): the key modules, or the end of the loop.
Register ==
    /\ At("register")
    /\ \E l \in {"recv"} \cup IF "register" \in Faults THEN {"relock"} ELSE {} : Goto(l)
    /\ UNCHANGED <<owner, start, channel, gone, loop, child, outcome, history>>

\* Mutant of Receive: every branch frees the message, as QUIT does.
ReceiveFrees ==
    /\ At("recv") /\ ~gone /\ seq < MaxMsgs
    /\ seq' = seq + 1 /\ emsg' = "freed"
    /\ \/ Goto("free") /\ errors' \in {0, errors}
       \/ Goto("relock") /\ UNCHANGED errors
    /\ UNCHANGED <<owner, start, channel, gone, msg, reply, child, outcome, history>>

\* ecryptfs_recv_miscdev() succeeds: HELO, QUIT or a type the loop ignores.
\* (QUIT frees the message before it leaves the loop.)
Receive ==
    /\ At("recv") /\ ~gone /\ seq < MaxMsgs
    /\ seq' = seq + 1
    /\ \/ emsg' = "live" /\ Goto("free") /\ errors' \in {0, errors}
       \/ emsg' = "freed" /\ Goto("relock") /\ UNCHANGED errors
    /\ UNCHANGED <<owner, start, channel, gone, msg, reply, child, outcome, history>>

ReceiveRequest ==
    /\ At("recv") /\ ~gone /\ seq < MaxMsgs
    /\ seq' = seq + 1 /\ emsg' = "live" /\ asked' = asked \cup {seq + 1}
    /\ msg' \in {r \in Request : /\ r.obstacle = "unreadable" => "keyread" \in Faults
                                /\ r.obstacle = "oversize" => "oversize" \in Faults}
    /\ Goto("parse")
    /\ UNCHANGED <<owner, start, channel, gone, reply, errors, child, outcome, replied,
                   dropped, blame>>

\* Mutant of ReceiveFails: the errors are not counted.
ReceiveFailsUncounted ==
    /\ At("recv")
    /\ gone \/ ("recv" \in Faults /\ seq < MaxMsgs)
    /\ Goto("free") /\ blame' = TRUE
    /\ seq' = IF gone THEN seq ELSE seq + 1
    /\ UNCHANGED <<owner, start, channel, gone, emsg, msg, reply, errors, child, outcome,
                   asked, replied, dropped>>

\* A failed read(), a packet that is too short or of the wrong length, no
\* memory: emsg keeps its value, and is freed (again) unless the loop ends.
ReceiveFails ==
    /\ At("recv")
    /\ gone \/ ("recv" \in Faults /\ seq < MaxMsgs)
    /\ errors' = errors + 1
    /\ Goto(IF errors' > Threshold THEN "relock" ELSE "free")
    /\ seq' = IF gone THEN seq ELSE seq + 1
    /\ blame' = TRUE
    /\ UNCHANGED <<owner, start, channel, gone, emsg, msg, reply, child, outcome, asked,
                   replied, dropped>>

\* write_failure_packet(): the tag follows the packet type.
FailureReply == [tag |-> IF msg.tag = 66 THEN 67 ELSE 65, good |-> FALSE]
GoodReply == [tag |-> IF msg.tag = 66 THEN 67 ELSE 65, good |-> TRUE]

\* The reply goes out next, or, without memory for it, not at all.
Answer(r) ==
    \/ reply' = r /\ Goto("send") /\ UNCHANGED dropped
    \/ "oom" \in Faults /\ Goto("free") /\ dropped' = dropped \cup {seq} /\ UNCHANGED reply

\* parse_packet() up to the first obstacle.  Unknown packet types are looked at
\* last and get no reply.
Parse ==
    /\ At("parse") /\ msg.obstacle # "unreadable"
    /\ msg.tag # 0 \/ msg.obstacle \in {"format", "nokey"}
    /\ CASE msg.obstacle = "none" -> Answer(GoodReply) /\ UNCHANGED <<child, blame>>
         [] msg.obstacle = "prompt" ->
              child' = "runs" /\ Goto("prompt") /\ UNCHANGED <<reply, dropped, blame>>
         [] OTHER -> Answer(FailureReply) /\ blame' = (blame \/ msg.obstacle = "oversize")
                     /\ UNCHANGED child
    /\ UNCHANGED <<owner, start, channel, gone, seq, emsg, msg, errors, outcome, asked,
                   replied>>

ParseUnknown ==
    /\ At("parse") /\ msg.tag = 0
    /\ msg.obstacle \notin {"format", "nokey", "unreadable"}
    /\ Goto("free") /\ dropped' = dropped \cup {seq}
    /\ UNCHANGED <<owner, start, channel, gone, loop, child, outcome, asked, replied, blame>>

\* The key found cannot be read: a null pointer is used.  A key from the module
\* that is too large is freed twice: that may go unnoticed (Parse) or not.
ParseCrashes ==
    /\ At("parse")
    /\ msg.obstacle = "unreadable" \/ (msg.obstacle = "oversize" /\ msg.tag # 0)
    /\ outcome' = "aborted" /\ blame' = TRUE
    /\ UNCHANGED <<stack, owner, start, channel, gone, loop, child, asked, replied, dropped>>

\* prompt_callback(): the program the daemon waits for ends, and its output is
\* taken, or the callback fails and with it the request.
PromptEnds ==
    /\ child = "runs" /\ outcome = "running"
    /\ child' \in {"ok", "failed"}
    /\ UNCHANGED <<stack, owner, start, channel, gone, loop, outcome, history>>

\* Mutant of Prompted: the wait ends only with a program that succeeded.
PromptedSuccess ==
    /\ At("prompt") /\ child = "ok"
    /\ child' = "none" /\ Answer(GoodReply)
    /\ UNCHANGED <<owner, start, channel, gone, seq, emsg, msg, errors, outcome, asked,
                   replied, blame>>

Prompted ==
    /\ At("prompt") /\ child \in {"ok", "failed"}
    /\ child' = "none"
    /\ Answer(IF child = "ok" THEN GoodReply ELSE FailureReply)
    /\ UNCHANGED <<owner, start, channel, gone, seq, emsg, msg, errors, outcome, asked,
                   replied, blame>>

\* Mutant of SendReply: the sequence number is the next message's.
SendReplyNext ==
    /\ At("send")
    /\ replied' = [replied EXCEPT ![IF seq < MaxMsgs THEN seq + 1 ELSE seq] = @ + 1]
    /\ Goto("free") /\ reply' = NoReply /\ errors' = 0
    /\ UNCHANGED <<owner, start, channel, gone, seq, emsg, msg, child, outcome, asked,
                   dropped, blame>>

\* ecryptfs_send_miscdev(); a failure is logged.
SendReply ==
    /\ At("send")
    /\ \/ ~gone /\ replied' = [replied EXCEPT ![seq] = @ + 1] /\ UNCHANGED dropped
       \/ /\ gone \/ "send" \in Faults
          /\ dropped' = dropped \cup {seq} /\ UNCHANGED replied
    /\ Goto("free") /\ reply' = NoReply /\ errors' = 0
    /\ UNCHANGED <<owner, start, channel, gone, seq, emsg, msg, child, outcome, asked, blame>>

\* free_emsg: free() of a pointer that was freed before may abort.
FreeMessage ==
    /\ At("free")
    /\ Goto("recv") /\ emsg' = IF emsg = "live" THEN "freed" ELSE emsg
    /\ UNCHANGED <<owner, start, channel, gone, seq, msg, reply, errors, child, outcome,
                   history>>

FreeAborts ==
    /\ At("free") /\ emsg = "freed"
    /\ outcome' = "aborted"
    /\ UNCHANGED <<stack, owner, start, channel, gone, loop, child, history>>

\* After the loop.
Unlisten ==
    /\ At("unlisten")
    /\ owner' = 0 /\ Goto("unlink")
    /\ UNCHANGED <<start, channel, gone, loop, child, outcome, history>>

\* ecryptfsd_exit(), in main() or in a handler.  A handler may interrupt the one
\* in main() between free() and the assignment of NULL.
UnlinkPidfile ==
    /\ At("unlink")
    /\ Goto(IF pidName = "null" THEN "quit" ELSE "clearName")
    /\ pidExists' = (pidExists /\ pidName # "set")
    /\ pidName' = IF pidName = "set" THEN "freed" ELSE pidName
    /\ blame' = (blame \/ pidName = "freed")
    /\ UNCHANGED <<owner, armed, channel, gone, loop, child, outcome, asked, replied, dropped>>

UnlinkAborts ==
    /\ At("unlink") /\ pidName = "freed"
    /\ outcome' = "aborted" /\ blame' = TRUE
    /\ UNCHANGED <<stack, owner, start, channel, gone, loop, child, asked, replied, dropped>>

ClearName ==
    /\ At("clearName")
    /\ pidName' = "null" /\ Goto("quit")
    /\ UNCHANGED <<owner, armed, pidExists, channel, gone, loop, child, outcome, history>>

Quit ==
    /\ At("quit")
    /\ kernel' \in Told("QUIT") /\ Goto("close")
    /\ UNCHANGED <<owner, start, device, gone, loop, child, outcome, history>>

Close ==
    /\ At("close")
    /\ device' = IF device = "open" THEN "closed" ELSE device
    /\ Goto("exit")
    /\ UNCHANGED <<owner, start, kernel, gone, loop, child, outcome, history>>

Exit ==
    /\ At("exit")
    /\ outcome' = "exited"
    /\ UNCHANGED <<stack, owner, start, channel, gone, loop, child, history>>

\* sigterm_handler() is entered; a signal is blocked while its handler runs, and
\* no handler returns.
Signal(s) ==
    /\ outcome = "running" /\ s \in armed
    /\ armed' = armed \ {s} /\ stack' = Append(stack, "hlock")
    /\ UNCHANGED <<owner, pidName, pidExists, channel, gone, loop, child, outcome, history>>

\* The handler takes the mutex.  If a frame below holds it, that never happens.
HandlerLock ==
    /\ At("hlock") /\ owner = 0
    /\ owner' = Top /\ Goto("unlink")
    /\ UNCHANGED <<start, channel, gone, loop, child, outcome, history>>

Hung == outcome = "running" /\ stack[Top] = "hlock" /\ owner # 0

\* The kernel module is unloaded: every read() fails from now on.
Unload ==
    /\ ~gone /\ outcome = "running"
    /\ gone' = TRUE
    /\ UNCHANGED <<stack, owner, start, channel, loop, child, outcome, history>>

\* The daemon's own steps.
Run ==
    \/ Limits \/ Pidfile \/ ArmTerm \/ ArmInt \/ LockMux \/ OpenDevice \/ Helo
    \/ Listen \/ Register \/ Parse \/ ParseUnknown \/ ParseCrashes
    \/ Prompted \/ SendReply \/ FreeMessage \/ FreeAborts \/ Unlisten \/ UnlinkPidfile
    \/ UnlinkAborts \/ ClearName \/ Quit \/ Close \/ Exit \/ HandlerLock

Next ==
    \/ Run \/ PromptEnds \/ Receive \/ ReceiveRequest \/ ReceiveFails
    \/ (\E s \in Signals : Signal(s)) \/ Unload

\* The daemon keeps running, and a read() that must fail returns.  Nothing makes the
\* prompt program end: waitpid() has no timeout.
Spec == Init /\ [][Next]_vars /\ WF_vars(Run) /\ WF_vars(gone /\ ReceiveFails)
-----------------------------------------------------------------------------

\* Replies match requests: none is sent twice or without a request, and no
\* message is received before the request before it is answered or known to
\* be unanswerable.
OneReply ==
    /\ \A i \in 1..MaxMsgs : replied[i] <= IF i \in asked THEN 1 ELSE 0
    /\ \A i \in asked : i < seq => replied[i] = 1 \/ i \in dropped

\* Without a receive error, an unreadable key, an oversized key or a signal in
\* the middle of ecryptfsd_exit() the daemon never frees memory twice.
AbortBlamed == outcome = "aborted" => blame

\* However the daemon exits, start-up failures and signals included, its pid
\* file is gone, the device is closed, and a kernel that heard HELO has been
\* sent QUIT.
CleanExit == outcome = "exited" => /\ ~pidExists /\ device # "open"
                                   /\ kernel # "HELO"

\* Where main() does not hold the mutex, once it has released it for the loop.
Unlocked == LoopPos \cup ExitPos \cup {"register", "relock"}

\* A signal that finds the mutex free ends the daemon, unless a second signal
\* interrupts its handler.  main() holds the mutex only during start-up and in
\* the two lines after the loop: while it waits for the kernel, serves a request
\* or is in ecryptfsd_exit() on any path, the handler gets it.
SignalEnds == (Len(stack) = 2 /\ At("hlock") /\ (owner = 0 \/ stack[1] \in Unlocked))
              ~> (outcome # "running" \/ Len(stack) = 3)

\* The daemon waits for good for the program it has started to ask the user.
Asking == [](child = "runs")

\* Every request that is read is answered or found to be unanswerable, unless
\* the daemon ends or the program that asks the user never does.
RequestAnswered == \A i \in 1..MaxMsgs : i \in asked
    ~> (replied[i] = 1 \/ i \in dropped \/ outcome # "running" \/ Hung \/ Asking)

\* A daemon whose device fails for good gives up instead of spinning: what the
\* error threshold is for.  Only a program that never ends keeps it from that.
HangupEnds == gone ~> (outcome # "running" \/ Hung \/ Asking)
=============================================================================
