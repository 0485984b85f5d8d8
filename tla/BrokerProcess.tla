---------------------------- MODULE BrokerProcess ---------------------------
(***************************************************************************)
(* The threads of the broker process and what they block on: mutex_, the   *)
(* lock of the log, the socket buffers into which Session::send writes a   *)
(* frame piece by piece, the storage, and the signal handler that shuts    *)
(* the process down (src/src/broker.cpp, src/src/session.cpp,              *)
(* src/src/main.cpp).                                                      *)
(*                                                                         *)
(* What the operations do to the broker's data is the subject of module    *)
(* Broker; here there is one topic, and every frame has PARTS parts.       *)
(***************************************************************************)
EXTENDS Integers, Sequences, FiniteSets

CONSTANTS
  Sessions,
  Requests,        \* the requests of each client: "subscribe" or "publish"
  Leavers,         \* the clients that may go away
  PARTS,           \* pieces of a frame
  SOCK_BUF,        \* pieces that a socket buffer holds
  MaxRows,         \* bound: rows that one replay sends
  None

VARIABLES
  mutex,           \* the thread that holds mutex_, or None
  tpc, current, targets, target, part,    \* session threads: place, message and send loop
  rows,            \* what is left of a replay
  requests,        \* requests not yet received
  subscribers, sequence,
  persistence,     \* "open", "destroying" or "null"
  sock,            \* unread pieces in the socket buffers towards the clients
  peer,            \* "up" or "gone"
  main_pc, accepted,
  g_broker,        \* main() has stored the broker where the handler finds it
  g_shutdown_requested, shutdown_requested,
  handler,         \* the signal handler, which runs on the main thread
  process,         \* "running", "exited" or "killed"
  \* history: messages saved, saves reported as failed, the last number when
  \* the storage was destroyed, messages that some client can know of, the
  \* last piece of each kind written to a client
  saved, failed, destroyed_at, seen, written

threadVars  == <<mutex, tpc, current, targets, target, part, rows, requests, subscribers, sequence>>
signalVars  == <<g_broker, g_shutdown_requested, shutdown_requested, handler>>
mainVars    == <<main_pc, accepted, signalVars>>
saveVars    == <<saved, failed, destroyed_at>>
streamVars  == <<sock, peer, seen, written>>
vars == <<threadVars, persistence, mainVars, process, saveVars, streamVars>>

Kinds == {"publish", "own"}

(* main() has installed the handlers and is about to construct the metrics *)
(* server and the broker.                                                  *)
Init ==
  /\ mutex = None
  /\ tpc = [s \in Sessions |-> "none"]
  /\ current = [s \in Sessions |-> 0]
  /\ targets = [s \in Sessions |-> {}] /\ target = [s \in Sessions |-> None]
  /\ part = [s \in Sessions |-> 1] /\ rows = [s \in Sessions |-> 0]
  /\ requests = Requests /\ subscribers = {} /\ sequence = 0
  /\ persistence = "open"
  /\ sock = [s \in Sessions |-> 0] /\ peer = [s \in Sessions |-> "up"]
  /\ main_pc = "starting" /\ accepted = None
  /\ g_broker = FALSE /\ g_shutdown_requested = FALSE /\ shutdown_requested = FALSE
  /\ handler = "none" /\ process = "running"
  /\ saved = {} /\ failed = {} /\ destroyed_at = None /\ seen = {}
  /\ written = [s \in Sessions |-> [kind \in Kinds |-> [id |-> 0, part |-> PARTS]]]

Running == process = "running"

Goto(s, place) == tpc' = [tpc EXCEPT ![s] = place]

(* The main thread is inside spdlog, with the lock of the log, and may be  *)
(* interrupted there.  The session threads take and release that lock      *)
(* within one step, for which it must be free.                             *)
MainHoldsLog == main_pc \in {"entering", "logging", "leaving"}

LogFree == ~MainHoldsLog

----------------------------------------------------------------------------
(* Session::send, piece by piece.  It blocks while the socket buffer is    *)
(* full.  If the client is gone it fails, which is logged and ends the     *)
(* loop, or raises SIGPIPE, which nobody handles and which ends the        *)
(* process.  The loop is over when part is 1 again.                        *)
SendPiece(s, r, kind) ==
  /\ sock[r] < SOCK_BUF
  /\ sock' = [sock EXCEPT ![r] = @ + 1]
  /\ written' = [written EXCEPT ![r][kind] = [id |-> current[s], part |-> part[s]]]
  /\ seen' = seen \cup {current[s]}
  /\ part' = [part EXCEPT ![s] = IF @ = PARTS THEN 1 ELSE @ + 1]
  /\ UNCHANGED process

SendFails_retries(s, r) ==
  /\ peer[r] = "gone" /\ LogFree
  /\ part' = [part EXCEPT ![s] = PARTS]
  /\ UNCHANGED <<process, sock, seen, written>>

SendFails_overruns(s, r) ==
  /\ peer[r] = "gone" /\ LogFree
  /\ part' = [part EXCEPT ![s] = PARTS + 1]
  /\ UNCHANGED <<process, sock, seen, written>>

SendFails(s, r) ==
  /\ peer[r] = "gone"
  /\ part' = [part EXCEPT ![s] = 1]
  /\ (LogFree /\ UNCHANGED process) \/ process' = "killed"
  /\ UNCHANGED <<sock, seen, written>>

Send(s, r, kind) ==
  /\ SendPiece(s, r, kind) \/ SendFails(s, r)
  /\ UNCHANGED peer

----------------------------------------------------------------------------
(* The session threads. *)
TakeRequest(s) ==
  /\ Running /\ tpc[s] = "recv" /\ requests[s] # <<>>
  /\ requests' = [requests EXCEPT ![s] = Tail(@)]
  /\ Goto(s, IF Head(requests[s]) = "publish" THEN "locking" ELSE "subscribing")
  /\ UNCHANGED <<mutex, current, targets, target, part, rows, subscribers, sequence, persistence,
                 mainVars, process, saveVars, streamVars>>

(* Broker::subscribe: the insertion under mutex_, which is held while the  *)
(* subscription is logged; the replay without it.                          *)
Subscribe(s) ==
  /\ Running /\ tpc[s] = "subscribing" /\ mutex = None
  /\ mutex' = s /\ Goto(s, "subscribed")
  /\ subscribers' = subscribers \cup {s}
  /\ current' = [current EXCEPT ![s] = 0]
  /\ UNCHANGED <<targets, target, part, rows, requests, sequence, persistence, mainVars,
                 process, saveVars, streamVars>>

LogSubscription(s) ==
  /\ Running /\ tpc[s] = "subscribed" /\ LogFree
  /\ mutex' = None /\ Goto(s, "replay")
  /\ UNCHANGED <<current, targets, target, part, rows, requests, subscribers, sequence,
                 persistence, mainVars, process, saveVars, streamVars>>

TestStorageForReplay(s) ==
  /\ Running /\ tpc[s] = "replay"
  /\ Goto(s, IF persistence = "null" THEN "replying" ELSE "loading")
  /\ UNCHANGED <<mutex, current, targets, target, part, rows, requests, subscribers, sequence,
                 persistence, mainVars, process, saveVars, streamVars>>

(* A storage operation that is under way when the storage is destroyed may *)
(* do anything: succeed, fail, or end the process.                         *)
StorageOutcome == process' \in IF persistence = "open" THEN {"running"} ELSE {"running", "killed"}

LoadRange(s) ==
  /\ Running /\ tpc[s] = "loading" /\ Goto(s, "replaying")
  /\ StorageOutcome
  /\ \E n \in 0 .. MaxRows : rows' = [rows EXCEPT ![s] = n]
  /\ UNCHANGED <<mutex, current, targets, target, part, requests, subscribers, sequence,
                 persistence, mainVars, saveVars, streamVars>>

ReplayRow(s) ==
  /\ Running /\ tpc[s] = "replaying" /\ rows[s] > 0
  /\ Send(s, s, "own")
  /\ rows' = [rows EXCEPT ![s] = IF part'[s] = 1 THEN @ - 1 ELSE @]
  /\ UNCHANGED <<mutex, tpc, current, targets, target, requests, subscribers, sequence,
                 persistence, mainVars, saveVars>>

ReplayDone(s) ==
  /\ Running /\ tpc[s] = "replaying" /\ rows[s] = 0 /\ Goto(s, "replying")
  /\ UNCHANGED <<mutex, current, targets, target, part, rows, requests, subscribers, sequence,
                 persistence, mainVars, process, saveVars, streamVars>>

(* Broker::publish. *)
Lock(s) ==
  /\ Running /\ tpc[s] = "locking" /\ mutex = None
  /\ mutex' = s
  /\ sequence' = sequence + 1
  /\ current' = [current EXCEPT ![s] = sequence + 1]
  /\ Goto(s, "publishing")
  /\ UNCHANGED <<targets, target, part, rows, requests, subscribers, persistence, mainVars,
                 process, saveVars, streamVars>>

(* What has become of mutex_ when the sends begin. *)
MutexInFanOut_released == None

MutexInFanOut == mutex

FanOut(s) ==
  /\ Goto(s, "sending")
  /\ targets' = [targets EXCEPT ![s] = subscribers]
  /\ mutex' = MutexInFanOut

StorageTested(s, present) ==
  /\ Running /\ tpc[s] = "publishing"
  /\ IF present THEN Goto(s, "saving") /\ UNCHANGED <<targets, mutex>> ELSE FanOut(s)
  /\ UNCHANGED <<current, target, part, rows, requests, subscribers, sequence, persistence,
                 mainVars, process, saveVars, streamVars>>

TestStorage_shutdown(s) == StorageTested(s, persistence # "null" /\ ~shutdown_requested)

TestStorage(s) == StorageTested(s, persistence # "null")

(* The save commits, or fails, which goes to stderr and is not noticed. *)
Save(s) ==
  /\ Running /\ tpc[s] = "saving" /\ FanOut(s)
  /\ StorageOutcome
  /\ \/ saved' = saved \cup {current[s]} /\ UNCHANGED failed
     \/ failed' = failed \cup {current[s]} /\ UNCHANGED saved
  /\ UNCHANGED <<current, target, part, rows, requests, subscribers, sequence, persistence,
                 mainVars, destroyed_at, streamVars>>

NextTarget(s) ==
  /\ Running /\ tpc[s] = "sending" /\ target[s] = None
  /\ \E r \in targets[s] :
       /\ target' = [target EXCEPT ![s] = r]
       /\ targets' = [targets EXCEPT ![s] = @ \ {r}]
  /\ UNCHANGED <<mutex, tpc, current, part, rows, requests, subscribers, sequence, persistence,
                 mainVars, process, saveVars, streamVars>>

SendMessage(s) ==
  /\ Running /\ tpc[s] = "sending" /\ target[s] # None
  /\ Send(s, target[s], "publish")
  /\ target' = [target EXCEPT ![s] = IF part'[s] = 1 THEN None ELSE @]
  /\ UNCHANGED <<mutex, tpc, current, targets, rows, requests, subscribers, sequence, persistence,
                 mainVars, saveVars>>

(* The publish is logged, still with mutex_. *)
Unlock(s) ==
  /\ Running /\ tpc[s] = "sending" /\ target[s] = None /\ targets[s] = {} /\ LogFree
  /\ mutex' = None /\ Goto(s, "replying")
  /\ UNCHANGED <<current, targets, target, part, rows, requests, subscribers, sequence,
                 persistence, mainVars, process, saveVars, streamVars>>

(* The reply is sent without mutex_. *)
SendReply(s) ==
  /\ Running /\ tpc[s] = "replying"
  /\ Send(s, s, "own")
  /\ IF part'[s] = 1 THEN Goto(s, "recv") ELSE UNCHANGED tpc
  /\ UNCHANGED <<mutex, current, targets, target, rows, requests, subscribers, sequence,
                 persistence, mainVars, saveVars>>

(* The end of Session::run, which is logged, and Broker::removeSession. *)
RemoveSession(s) ==
  /\ Running /\ tpc[s] = "recv" /\ requests[s] = <<>> /\ peer[s] = "gone"
  /\ LogFree /\ mutex = None
  /\ subscribers' = subscribers \ {s}
  /\ Goto(s, "ended")
  /\ UNCHANGED <<mutex, current, targets, target, part, rows, requests, sequence, persistence,
                 mainVars, process, saveVars, streamVars>>

ThreadStep(s) ==
  \/ Subscribe(s) \/ LogSubscription(s) \/ TestStorageForReplay(s) \/ LoadRange(s)
  \/ ReplayRow(s) \/ ReplayDone(s)
  \/ Lock(s) \/ TestStorage(s) \/ Save(s) \/ NextTarget(s) \/ SendMessage(s) \/ Unlock(s)
  \/ SendReply(s) \/ RemoveSession(s)

----------------------------------------------------------------------------
(* The clients. *)
PeerReads(r) ==
  /\ Running /\ peer[r] = "up" /\ sock[r] > 0
  /\ sock' = [sock EXCEPT ![r] = 0]
  /\ UNCHANGED <<threadVars, persistence, mainVars, process, saveVars, peer, seen, written>>

PeerLeaves(r) ==
  /\ Running /\ r \in Leavers /\ peer[r] = "up" /\ tpc[r] # "none"
  /\ peer' = [peer EXCEPT ![r] = "gone"]
  /\ requests' = [requests EXCEPT ![r] = <<>>]
  /\ UNCHANGED <<mutex, tpc, current, targets, target, part, rows, subscribers, sequence,
                 persistence, mainVars, process, saveVars, sock, seen, written>>

----------------------------------------------------------------------------
(* The main thread: main() from the installation of the handlers on, and   *)
(* Broker::run.  It stands still while it runs the signal handler.         *)
MainRuns == Running /\ handler \in {"none", "done"}

MainGoto(place) ==
  /\ main_pc' = place
  /\ UNCHANGED <<persistence, g_shutdown_requested, shutdown_requested, handler, saveVars,
                 streamVars>>

(* The metrics server and the broker are constructed, which throws if the  *)
(* database cannot be opened, and the handler is told of the broker.       *)
StoreBroker ==
  /\ MainRuns /\ main_pc = "starting" /\ MainGoto("stored")
  /\ process' \in {"running", "killed"}
  /\ g_broker' = TRUE
  /\ UNCHANGED <<accepted, threadVars>>

EnterRun ==
  /\ MainRuns /\ main_pc = "stored" /\ MainGoto("entering")
  /\ UNCHANGED <<accepted, g_broker, threadVars, process>>

(* socket(), bind() or listen() may fail; run() logs that and returns. *)
Listen ==
  /\ MainRuns /\ main_pc = "entering"
  /\ MainGoto("select") \/ MainGoto("leaving")
  /\ UNCHANGED <<accepted, g_broker, threadVars, process>>

Accept(s) ==
  /\ MainRuns /\ main_pc = "select" /\ ~shutdown_requested
  /\ tpc[s] = "none" /\ accepted' = s
  /\ MainGoto("logging")
  /\ UNCHANGED <<g_broker, threadVars, process>>

AcceptLogged ==
  /\ MainRuns /\ main_pc = "logging" /\ MainGoto("pushing")
  /\ UNCHANGED <<accepted, g_broker, threadVars, process>>

PushSession ==
  /\ MainRuns /\ main_pc = "pushing" /\ mutex = None /\ MainGoto("counting")
  /\ Goto(accepted, "recv") /\ accepted' = None
  /\ UNCHANGED <<mutex, current, targets, target, part, rows, requests, subscribers, sequence,
                 g_broker, process>>

(* setActiveConnections, with mutex_ once more. *)
CountSessions ==
  /\ MainRuns /\ main_pc = "counting" /\ mutex = None /\ MainGoto("select")
  /\ UNCHANGED <<accepted, g_broker, threadVars, process>>

LeaveRun ==
  /\ MainRuns /\ main_pc = "select" /\ shutdown_requested /\ MainGoto("leaving")
  /\ UNCHANGED <<accepted, g_broker, threadVars, process>>

(* metrics_server.stop(), which logs too. *)
StopMetricsServer ==
  /\ MainRuns /\ main_pc = "leaving" /\ MainGoto("returned")
  /\ UNCHANGED <<accepted, g_broker, threadVars, process>>

MainReturns ==
  /\ MainRuns /\ main_pc = "returned" /\ MainGoto("ended") /\ process' = "exited"
  /\ UNCHANGED <<accepted, g_broker, threadVars>>

MainStep ==
  \/ StoreBroker \/ EnterRun \/ Listen
  \/ AcceptLogged \/ PushSession \/ CountSessions \/ LeaveRun
  \/ StopMetricsServer \/ MainReturns

----------------------------------------------------------------------------
(* signal_handler and Broker::stop, on the main thread, to which Linux     *)
(* delivers the signals of the process.  While the broker is not stored    *)
(* the handler only sets its flag, and the broker starts all the same.     *)
HandlerGoto(place) ==
  /\ handler' = place
  /\ UNCHANGED <<threadVars, main_pc, accepted, g_broker, process, saved, failed, streamVars>>

Signal ==
  /\ Running /\ ~g_shutdown_requested /\ g_shutdown_requested' = TRUE
  /\ HandlerGoto(IF g_broker THEN "logging" ELSE "done")
  /\ UNCHANGED <<persistence, shutdown_requested, destroyed_at>>

(* The handler needs the lock of the log, which the main thread may hold. *)
Stopping(flag) ==
  /\ Running /\ handler = "logging" /\ LogFree /\ HandlerGoto("sleeping")
  /\ shutdown_requested' = flag
  /\ UNCHANGED <<persistence, g_shutdown_requested, destroyed_at>>

StopAccepting_forgets == Stopping(FALSE)

StopAccepting == Stopping(TRUE)

(* After 500 ms, persistence_.reset(), without mutex_. *)
DestroyStorage ==
  /\ Running /\ handler = "sleeping" /\ HandlerGoto("flushing")
  /\ persistence' = "destroying" /\ destroyed_at' = sequence
  /\ UNCHANGED <<g_shutdown_requested, shutdown_requested>>

StorageDestroyed ==
  /\ Running /\ handler = "flushing" /\ HandlerGoto("done")
  /\ persistence' = "null"
  /\ UNCHANGED <<g_shutdown_requested, shutdown_requested, destroyed_at>>

(* A second signal: another one interrupts the handler, the same one waits *)
(* until it has returned.  The process exits.                              *)
ForceQuit ==
  /\ Running /\ g_shutdown_requested /\ process' = "exited"
  /\ UNCHANGED <<threadVars, persistence, mainVars, saveVars, streamVars>>

HandlerStep == StopAccepting \/ DestroyStorage \/ StorageDestroyed

----------------------------------------------------------------------------
Next ==
  \/ \E s \in Sessions : \/ TakeRequest(s) \/ ThreadStep(s)
                         \/ PeerReads(s) \/ PeerLeaves(s) \/ Accept(s)
  \/ MainStep \/ Signal \/ HandlerStep \/ ForceQuit

(* Threads that can go on do, and sleep ends.  Nothing is assumed of the   *)
(* clients: they need not send, read or leave.                             *)
Fairness ==
  /\ \A s \in Sessions : WF_vars(ThreadStep(s))
  /\ WF_vars(MainStep) /\ WF_vars(HandlerStep)

Spec == Init /\ [][Next]_vars /\ Fairness

----------------------------------------------------------------------------
(* Every variable has its type: in particular no socket buffer overflows,  *)
(* and no send loop runs past its frame.                                   *)
TypeOK ==
  /\ mutex \in Sessions \cup {None}
  /\ tpc \in [Sessions -> {"none", "recv", "subscribing", "subscribed", "replay", "loading",
                           "replaying", "locking", "publishing", "saving", "sending",
                           "replying", "ended"}]
  /\ current \in [Sessions -> 0 .. sequence]
  /\ targets \in [Sessions -> SUBSET Sessions] /\ target \in [Sessions -> Sessions \cup {None}]
  /\ part \in [Sessions -> 1 .. PARTS] /\ rows \in [Sessions -> 0 .. MaxRows]
  /\ subscribers \subseteq Sessions /\ saved \cup failed \subseteq 1 .. sequence
  /\ persistence \in {"open", "destroying", "null"} /\ peer \in [Sessions -> {"up", "gone"}]
  /\ sock \in [Sessions -> 0 .. SOCK_BUF]
  /\ main_pc \in {"starting", "stored", "entering", "select", "logging", "pushing", "counting",
                  "leaving", "returned", "ended"}
  /\ g_broker \in BOOLEAN /\ g_shutdown_requested \in BOOLEAN /\ shutdown_requested \in BOOLEAN
  /\ handler \in {"none", "logging", "sleeping", "flushing", "done"}
  /\ process \in {"running", "exited", "killed"}

(* Piece q may follow piece p of the same kind on one connection: it goes  *)
(* on with the frame of p, or p was the end of a frame and q begins one,   *)
(* which as a publish has a greater number.                                *)
Follows(kind, p, q) ==
  IF p.part < PARTS THEN q = [p EXCEPT !.part = @ + 1]
  ELSE q.part = 1 /\ (kind = "publish" => q.id > p.id)

(* What one kind of sender writes to a client is a sequence of whole       *)
(* frames, and each message that publish() sends comes once and in order.  *)
(* Two publishes never mix on a socket, since mutex_ is held across the    *)
(* whole send; a reply or a replayed message, which a thread sends to its  *)
(* own client without mutex_, may come between two pieces of a publish,    *)
(* and the other way round.                                                *)
FramesWhole ==
  [][\A r \in Sessions, kind \in Kinds :
       (peer[r] = "up" /\ written'[r][kind] # written[r][kind])
         => Follows(kind, written[r][kind], written'[r][kind])]_vars

(* No client is sent a message, or the answer to its publish, before the   *)
(* save of the message has returned: it is stored, or its failure has been *)
(* reported.  Only a message that was being published when a shutdown      *)
(* destroyed the storage, or later, may be seen without a save.            *)
SaveBeforeSeen ==
  \A id \in seen \ {0} : id \in saved \cup failed \/ (destroyed_at # None /\ id >= destroyed_at)

Busy(s) == tpc[s] \notin {"none", "recv", "ended"}

(* The handler waits for the lock of the log, which the thread it runs on  *)
(* holds.                                                                  *)
LogStuck == Running /\ handler = "logging" /\ MainHoldsLog

(* A thread writes to client r, which is up and does not read. *)
Stalled(r) ==
  /\ Running /\ peer[r] = "up" /\ sock[r] = SOCK_BUF
  /\ \E s \in Sessions : \/ tpc[s] = "sending" /\ target[s] = r
                         \/ s = r /\ tpc[s] \in {"replaying", "replying"}

(* The two ways in which the process can hang for ever. *)
Hangs == <>[]LogStuck \/ \E r \in Sessions : <>[]Stalled(r)

(* Every request is answered, unless the process ends or hangs in one of   *)
(* two ways: a signal came while the main thread was inside the log, or a  *)
(* client that stays connected stops reading what it is sent.  No other    *)
(* wait, for mutex_, the log or a buffer, lasts for ever.                  *)
RequestsComplete == (\A s \in Sessions : []<>(~Busy(s) \/ ~Running)) \/ Hangs

(* The handler has called stop(). *)
Stopped == handler \in {"logging", "sleeping", "flushing"} \/ persistence = "null"

(* A signal that finds the broker ends the process, unless the process     *)
(* hangs in one of these two ways.  Nothing is said of a signal that comes *)
(* before main() has stored the broker: the handler then does not stop it. *)
ShutdownCompletes == []<>(~Stopped \/ ~Running) \/ Hangs

(* broker.cpp: the sessions have had time to finish current operations     *)
(* when the storage is destroyed.                                          *)
FinishedBeforeFlush ==
  handler = "flushing" => \A s \in Sessions : tpc[s] \notin {"saving", "loading"}
============================================================================
