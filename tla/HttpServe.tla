----------------------------- MODULE HttpServe -----------------------------
(***************************************************************************)
(* A request of the application server (appsrv.go defaultHandle) between   *)
(* two goroutines.  The one of net/http hands the handler to the worker    *)
(* manager and waits: for the worker that took it, for what the handler    *)
(* writes, for the end of the response or for the deadline.  The worker    *)
(* runs the handler, whose writes go through the channels of               *)
(* responseWriterChannel (response.go).  Either side may close the         *)
(* channels; isClosed, which is to make that happen once, has no lock.     *)
(*                                                                         *)
(* A task of WorkerMan is the callback of one request, and all of them     *)
(* pass a channel.  bodyChan and statusChan are used in the same way and   *)
(* are one channel here.                                                   *)
(***************************************************************************)
EXTENDS WorkerMan

VARIABLES
  hpc,        \* where the goroutine of each request is
  expired,    \* ctx is done
  isClosed,   \* responseWriterChannel.isClosed
  closed,     \* the channels are closed
  wstep,      \* where each worker is in the callback it runs
  panicked,   \* history: some handler panicked by itself
  crashed     \* a panic nobody recovers ended the process

httpVars == <<hpc, expired, isClosed, closed, wstep, panicked, crashed>>
hvars == <<vars, httpVars>>

HTypeOK ==
  /\ TypeOK
  /\ hpc \in [Task -> {"wait", "reply", "close", "mark", "shut", "done", "died"}]
  /\ expired \in [Task -> BOOLEAN]
  /\ isClosed \in [Task -> BOOLEAN]
  /\ closed \in [Task -> BOOLEAN]
  /\ wstep \in [Worker -> {"begin", "handler", "send", "close", "mark", "shut",
                           "errHead", "errHeadSend", "errBody", "errBodySend",
                           "errClose", "errMark", "errShut"}]
  /\ panicked \in BOOLEAN
  /\ crashed \in BOOLEAN

HInit ==
  /\ Init
  /\ hpc = [t \in Task |-> "wait"]
  /\ expired = [t \in Task |-> FALSE]
  /\ isClosed = [t \in Task |-> FALSE]
  /\ closed = [t \in Task |-> FALSE]
  /\ wstep = [w \in Worker |-> "begin"]
  /\ panicked = FALSE
  /\ crashed = FALSE

-----------------------------------------------------------------------------
(***************************************************************************)
(* The goroutine of the request.                                           *)
(***************************************************************************)

\* The result of session.Run is not looked at: a dropped request waits too.
Waiting(t) == rpc[t] \in {"accepted", "dropped"} /\ hpc[t] = "wait"

Submit(t) == (RunPush(t) \/ RunSchedule(t)) /\ UNCHANGED httpVars

Deadline(t) ==
  /\ ~expired[t]
  /\ expired' = [expired EXCEPT ![t] = TRUE]
  /\ UNCHANGED <<vars, hpc, isClosed, closed, wstep, panicked, crashed>>

ReceiveWorker(w) ==
  /\ Waiting(wtask[w])
  /\ Handover(w)
  /\ wstep' = [wstep EXCEPT ![w] = "begin"]
  /\ UNCHANGED <<hpc, expired, isClosed, closed, panicked, crashed>>

\* Mistake: the deadline counts only once a worker has the request.
TimeoutNever(t) ==
  /\ FALSE
  /\ UNCHANGED hvars

\* The deadline without a worker: the request is still queued, or was dropped.
TimeoutQueued(t) ==
  /\ Waiting(t) /\ expired[t] /\ known[t] = 0
  /\ hpc' = [hpc EXCEPT ![t] = "reply"]
  /\ UNCHANGED <<vars, expired, isClosed, closed, wstep, panicked, crashed>>

\* The deadline with a worker, which is detached.  Detach panics when the
\* worker is gone; net/http recovers, and nobody closes the channels.
TimeoutRunning(t) ==
  /\ Waiting(t) /\ expired[t]
  /\ Detach(t)
  /\ hpc' = [hpc EXCEPT ![t] = IF container[known[t]] = "none" THEN "died" ELSE "reply"]
  /\ UNCHANGED <<expired, isClosed, closed, wstep, panicked, crashed>>

\* The channels are closed: the handler has returned.
ResponseEnded(t) ==
  /\ Waiting(t) /\ closed[t]
  /\ hpc' = [hpc EXCEPT ![t] = "close"]
  /\ UNCHANGED <<vars, expired, isClosed, closed, wstep, panicked, crashed>>

\* Mistake: a request that is not answered in time ends without closing.
ReplyNoClose(t) ==
  /\ hpc[t] = "reply"
  /\ hpc' = [hpc EXCEPT ![t] = "done"]
  /\ UNCHANGED <<vars, expired, isClosed, closed, wstep, panicked, crashed>>

\* GeneralServerError writes the timeout to the client.
ReplyTimeout(t) ==
  /\ hpc[t] = "reply"
  /\ hpc' = [hpc EXCEPT ![t] = "close"]
  /\ UNCHANGED <<vars, expired, isClosed, closed, wstep, panicked, crashed>>

\* closeChannels: test, set, close.  Closing a closed channel panics.  The
\* deferred cancel ends ctx in any case.
CloseTest(t) ==
  /\ hpc[t] = "close"
  /\ hpc' = [hpc EXCEPT ![t] = IF isClosed[t] THEN "done" ELSE "mark"]
  /\ expired' = [expired EXCEPT ![t] = @ \/ isClosed[t]]
  /\ UNCHANGED <<vars, isClosed, closed, wstep, panicked, crashed>>

\* Mistake: isClosed is set after the channels are closed.
CloseMarkLate(t) ==
  /\ hpc[t] = "mark"
  /\ hpc' = [hpc EXCEPT ![t] = "shut"]
  /\ UNCHANGED <<vars, expired, isClosed, closed, wstep, panicked, crashed>>

CloseMark(t) ==
  /\ hpc[t] = "mark"
  /\ isClosed' = [isClosed EXCEPT ![t] = TRUE]
  /\ hpc' = [hpc EXCEPT ![t] = "shut"]
  /\ UNCHANGED <<vars, expired, closed, wstep, panicked, crashed>>

CloseShut(t) ==
  /\ hpc[t] = "shut"
  /\ closed' = [closed EXCEPT ![t] = TRUE]
  /\ hpc' = [hpc EXCEPT ![t] = IF closed[t] THEN "died" ELSE "done"]
  /\ expired' = [expired EXCEPT ![t] = TRUE]
  /\ UNCHANGED <<vars, isClosed, wstep, panicked, crashed>>

RequestStep(t) ==
  \/ Submit(t) \/ TimeoutQueued(t) \/ TimeoutRunning(t) \/ ResponseEnded(t)
  \/ ReplyTimeout(t) \/ CloseTest(t) \/ CloseMark(t) \/ CloseShut(t)

-----------------------------------------------------------------------------
(***************************************************************************)
(* The callback on the worker, inside execCallback.                        *)
(***************************************************************************)

\* The worker goes from one place of the callback to another.
Goes(w, from, to) ==
  /\ wpc[w] = "exec" /\ wstep[w] = from
  /\ wstep' = [wstep EXCEPT ![w] = to]
  /\ UNCHANGED vars

Begin(w) ==
  /\ Goes(w, "begin", IF expired[wtask[w]] THEN "close" ELSE "handler")
  /\ UNCHANGED <<hpc, expired, isClosed, closed, panicked, crashed>>

\* The handler writes, returns or panics.
HandlerWrite(w) ==
  /\ Goes(w, "handler", IF isClosed[wtask[w]] THEN "handler" ELSE "send")
  /\ UNCHANGED <<hpc, expired, isClosed, closed, panicked, crashed>>

HandlerReturn(w) ==
  /\ Goes(w, "handler", "close")
  /\ UNCHANGED <<hpc, expired, isClosed, closed, panicked, crashed>>

HandlerPanic(w) ==
  /\ Goes(w, "handler", "errHead")
  /\ panicked' = TRUE
  /\ UNCHANGED <<hpc, expired, isClosed, closed, crashed>>

\* The goroutine of the request receives, writes to the client and answers.
Send(w) ==
  /\ Waiting(wtask[w])
  /\ \/ Goes(w, "send", "handler")
     \/ Goes(w, "errHeadSend", "errBody")
     \/ Goes(w, "errBodySend", "errClose")
  /\ UNCHANGED <<hpc, expired, isClosed, closed, panicked, crashed>>

\* A send on a closed channel panics; execCallback recovers what the task
\* does, but not what onError does.
SendPanic(w) ==
  /\ closed[wtask[w]]
  /\ \/ Goes(w, "send", "errHead") /\ UNCHANGED crashed
     \/ /\ \E s \in {"errHeadSend", "errBodySend"} : Goes(w, s, s)
        /\ crashed' = TRUE
  /\ UNCHANGED <<hpc, expired, isClosed, closed, panicked>>

\* onError: a status and a body.
ErrorWrite(w) ==
  /\ \/ Goes(w, "errHead", IF isClosed[wtask[w]] THEN "errBody" ELSE "errHeadSend")
     \/ Goes(w, "errBody", IF isClosed[wtask[w]] THEN "errClose" ELSE "errBodySend")
  /\ UNCHANGED <<hpc, expired, isClosed, closed, panicked, crashed>>

\* closeChannels on the worker, at the end of the task and of onError.
TaskOver(w) ==
  /\ ExecDone(w)
  /\ wstep' = [wstep EXCEPT ![w] = "begin"]

\* Mistake: onError does not close the channels.
WorkerCloseSkip(w) ==
  /\ \/ /\ wstep[w] = "errClose" \/ (wstep[w] = "close" /\ isClosed[wtask[w]])
        /\ TaskOver(w)
     \/ /\ ~isClosed[wtask[w]]
        /\ Goes(w, "close", "mark")
  /\ UNCHANGED <<hpc, expired, isClosed, closed, panicked, crashed>>

WorkerCloseTest(w) ==
  /\ \/ /\ wstep[w] \in {"close", "errClose"} /\ isClosed[wtask[w]]
        /\ TaskOver(w)
     \/ /\ ~isClosed[wtask[w]]
        /\ Goes(w, "close", "mark") \/ Goes(w, "errClose", "errMark")
  /\ UNCHANGED <<hpc, expired, isClosed, closed, panicked, crashed>>

WorkerCloseMark(w) ==
  /\ Goes(w, "mark", "shut") \/ Goes(w, "errMark", "errShut")
  /\ isClosed' = [isClosed EXCEPT ![wtask[w]] = TRUE]
  /\ UNCHANGED <<hpc, expired, closed, panicked, crashed>>

WorkerCloseShut(w) ==
  /\ \/ /\ wstep[w] \in {"shut", "errShut"} /\ ~closed[wtask[w]]
        /\ TaskOver(w)
        /\ UNCHANGED crashed
     \/ /\ closed[wtask[w]]
        /\ Goes(w, "shut", "errHead")
        /\ UNCHANGED crashed
     \/ /\ closed[wtask[w]]
        /\ Goes(w, "errShut", "errShut")
        /\ crashed' = TRUE
  /\ closed' = [closed EXCEPT ![wtask[w]] = TRUE]
  /\ UNCHANGED <<hpc, expired, isClosed, panicked>>

CallbackStep(w) ==
  /\ wtask[w] # NoTask
  /\ \/ ReceiveWorker(w) \/ Begin(w)
     \/ HandlerWrite(w) \/ HandlerReturn(w) \/ HandlerPanic(w)
     \/ Send(w) \/ SendPanic(w) \/ ErrorWrite(w)
     \/ WorkerCloseTest(w) \/ WorkerCloseMark(w) \/ WorkerCloseShut(w)

LoopStep(w) ==
  (CheckDetached(w) \/ PopTask(w) \/ RemoveWorker(w)) /\ UNCHANGED httpVars

-----------------------------------------------------------------------------
HNext ==
  /\ ~crashed
  /\ \/ \E t \in Task : RequestStep(t) \/ Deadline(t)
     \/ \E w \in Worker : CallbackStep(w) \/ LoopStep(w)

HSpec == HInit /\ [][HNext]_hvars

-----------------------------------------------------------------------------
(***************************************************************************)
(* Properties.                                                             *)
(***************************************************************************)

\* While a request waits, the worker it was told of runs its callback, or the
\* response is complete: a deadline detaches the worker of another request
\* only when it races with the end of the own response.
KnownWorkerIsOwn ==
  \A t \in Task :
    Waiting(t) /\ known[t] # 0 => wtask[known[t]] = t \/ closed[t]

\* Deadlines alone never end the process: whatever the two goroutines do to
\* the channels, it takes a handler that panics by itself.
CrashNeedsHandlerPanic == crashed => panicked

-----------------------------------------------------------------------------
(***************************************************************************)
(* Liveness: goroutines are scheduled and deadlines pass.                  *)
(***************************************************************************)
HFairness ==
  /\ \A t \in Task : WF_hvars(~crashed /\ RequestStep(t)) /\ WF_hvars(~crashed /\ Deadline(t))
  /\ \A w \in Worker : WF_hvars(~crashed /\ (CallbackStep(w) \/ LoopStep(w)))

HFairSpec == HSpec /\ HFairness

Sending(w) == wpc[w] = "exec" /\ wstep[w] \in {"send", "errHeadSend", "errBodySend"}

\* A handler that writes is not left blocked on the channel of a request that
\* has stopped waiting.
WriteReturns == \A w \in Worker : Sending(w) ~> ~Sending(w) \/ crashed

\* Every request is answered, also when the queue dropped its task or left it
\* without a worker.
RequestEnds ==
  \A t \in Task : rpc[t] # "new" ~> hpc[t] \in {"done", "died"} \/ crashed

\* What the comment on the test of ctx.Err() says of a request that timed out
\* in the queue: a worker takes it and gets past it.
WorkerGetsPastTimedOut ==
  \A w \in Worker : wpc[w] = "hand" ~> wpc[w] # "hand" \/ crashed
=============================================================================
