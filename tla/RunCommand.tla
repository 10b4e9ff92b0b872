----------------------------- MODULE RunCommand -----------------------------
(***************************************************************************)
(* The Run Command core of the agent (src/main.cpp): the MDS poll thread,  *)
(* the bounded duplicate filter SeenCommands, the InFlight table, one      *)
(* detached worker thread per command, and the shutdown path of main().    *)
(*                                                                         *)
(* The message service (MDS) is external: a message it hands out is hidden *)
(* for a visibility timeout and handed out again unless it was             *)
(* acknowledged or failed.  Every call the agent makes to it may be lost,  *)
(* as LossyCalls allows.                                                   *)
(***************************************************************************)
EXTENDS Naturals, Sequences, FiniteSets

CONSTANTS
    Commands,       \* command ids
    Workers,        \* thread slots for workers (bounds the threads alive)
    Messages,       \* the messages the service will ever issue
    Malformed,      \* the messages whose payload the agent cannot use
    None,           \* "no message", "no command", "no worker"
    DedupHistory,   \* kDedupHistory, the capacity of SeenCommands
    LossyCalls,     \* the calls that may fail: "poll", "reply", "ack"
    DrainExpires,   \* may the 15 s drain window expire?
    MaxExits,       \* bound on orderly shutdowns
    MaxCrashes      \* bound on crashes

Kinds == {"send", "cancel", "stray", "blank"}
Send(c) == [kind |-> "send", cmd |-> c]

ASSUME MessagesAssumption ==
    /\ Messages \subseteq [kind : Kinds, cmd : Commands]
    /\ Malformed \subseteq Messages
    /\ None \notin Messages /\ None \notin Commands /\ None \notin Workers
ASSUME BoundsAssumption ==
    /\ DedupHistory \in Nat \ {0}
    /\ LossyCalls \subseteq {"poll", "reply", "ack"}
    /\ DrainExpires \in BOOLEAN
    /\ MaxExits \in Nat /\ MaxCrashes \in Nat
ASSUME FinitenessAssumption == IsFiniteSet(Workers) /\ IsFiniteSet(Commands)

Terminal == {"Success", "Failed", "Cancelled"}
Statuses == {"none", "InProgress"} \cup Terminal

VARIABLES
    queue,      \* MDS: where each message is
    console,    \* MDS: the last document status the agent reported
    pc,         \* main thread: the call it is about to make
    cur,        \* main thread: the message being handled
    batch,      \* main thread: messages of this poll not yet handled
    stop,       \* g_stop
    seen,       \* SeenCommands::set_
    order,      \* SeenCommands::order_
    inflight,   \* InFlight::map_, the worker whose token is registered
    count,      \* InFlight::count_
    phase,      \* worker threads: "idle", "run", "reply" or "done"
    task,       \* the command a worker executes
    token,      \* its exec::Cancel flag
    outcome,    \* its DocumentOutcome::status
    forgotten,  \* history: commands evicted from SeenCommands in this life
    runs,       \* history: executions of a command: 0, 1 or 2 (more than one)
    exits,      \* bound: orderly shutdowns so far
    crashes     \* bound: crashes so far

mdsVars    == <<queue, console>>
mainVars   == <<pc, cur, batch, stop>>
seenVars   == <<seen, order, forgotten>>
workerVars == <<inflight, count, phase, task, token, outcome, runs>>
lifeVars   == <<exits, crashes>>
vars == <<mdsVars, mainVars, seenVars, workerVars, lifeVars>>

Live(w) == phase[w] # "idle"

Init ==
    /\ queue = [m \in Messages |-> "unsent"]
    /\ console = [c \in Commands |-> "none"]
    /\ pc = "poll" /\ cur = None /\ batch = {} /\ stop = FALSE
    /\ seen = {} /\ order = <<>> /\ forgotten = {}
    /\ inflight = [c \in Commands |-> None] /\ count = 0
    /\ phase = [w \in Workers |-> "idle"]
    /\ task = [w \in Workers |-> None]
    /\ token = [w \in Workers |-> FALSE]
    /\ outcome = [w \in Workers |-> "none"]
    /\ runs = [c \in Commands |-> 0]
    /\ exits = 0 /\ crashes = 0

-----------------------------------------------------------------------------
(* The message service.                                                    *)

\* An operator sends a command, or cancels one sent before.
Issue(m) ==
    /\ queue[m] = "unsent"
    /\ m.kind = "cancel" /\ Send(m.cmd) \in Messages => queue[Send(m.cmd)] # "unsent"
    /\ queue' = [queue EXCEPT ![m] = "ready"]
    /\ UNCHANGED <<console, mainVars, seenVars, workerVars, lifeVars>>

\* The visibility timeout (10 s) of a message handed out runs out.
VisibilityTimeout(m) ==
    /\ queue[m] = "hidden"
    /\ queue' = [queue EXCEPT ![m] = "ready"]
    /\ UNCHANGED <<console, mainVars, seenVars, workerVars, lifeVars>>

\* AcknowledgeMessage or FailMessage: the service forgets the message, or the call is lost.
Settle(m) ==
    \/ queue' = [queue EXCEPT ![m] = "gone"]
    \/ "ack" \in LossyCalls /\ UNCHANGED queue

\* SendReply: the service records the status, or the call is lost.
SendReply(c, status) ==
    \/ console' = [console EXCEPT ![c] = status]
    \/ "reply" \in LossyCalls /\ UNCHANGED console

-----------------------------------------------------------------------------
(* The poll thread: Agent::poll_once and the handlers it calls.            *)

\* GetMessages hands out some of the visible messages.
PollMessages ==
    /\ pc = "poll" /\ ~stop
    /\ \E S \in SUBSET {m \in Messages : queue[m] = "ready"} \ {{}} :
        /\ queue' = [m \in Messages |-> IF m \in S THEN "hidden" ELSE queue[m]]
        /\ \/ batch' = S /\ pc' = "batch"
           \/ "poll" \in LossyCalls /\ UNCHANGED <<batch, pc>>
    /\ UNCHANGED <<console, cur, stop, seenVars, workerVars, lifeVars>>

\* A poll that succeeds and brings m.
Deliver(m) == PollMessages /\ m \in batch'

\* No message, no credentials, or a failed call: the loop goes round.
PollNothing == pc = "poll" /\ ~stop /\ UNCHANGED vars

\* The batch is finished, or g_stop cuts it short.
EndBatch ==
    /\ pc = "batch"
    /\ stop \/ batch = {}
    /\ pc' = "poll" /\ batch' = {}
    /\ UNCHANGED <<cur, stop, mdsVars, seenVars, workerVars, lifeVars>>

\* The loop takes the next message and goes on at `next`.
Take(m, next) ==
    /\ pc = "batch" /\ ~stop
    /\ m \in batch
    /\ batch' = batch \ {m} /\ cur' = m /\ pc' = next
    /\ UNCHANGED <<stop, mdsVars, lifeVars>>

\* The thread leaves the handler for the head of the batch loop.
Handled == pc' = "batch" /\ cur' = None /\ UNCHANGED <<batch, stop>>

\* Mutant: the id is not remembered before the command runs.
SeenAddNothing(c) == UNCHANGED <<seen, order, forgotten>>

\* SeenCommands::add: remember c, and forget the oldest id beyond the capacity.
SeenAdd(c) ==
    LET longer == Append(order, c)
    IN  IF Len(longer) > DedupHistory
        THEN /\ seen' = (seen \cup {c}) \ {Head(longer)}
             /\ order' = Tail(longer)
             /\ forgotten' = forgotten \cup {Head(longer)}
        ELSE /\ seen' = seen \cup {c}
             /\ order' = longer
             /\ UNCHANGED forgotten

\* handle_send_command for an id in the filter: acknowledge again, nothing else.
DuplicateSend(m) ==
    /\ m.kind = "send" /\ m.cmd \in seen
    /\ Take(m, "settle")
    /\ UNCHANGED <<seenVars, workerVars>>

\* handle_send_command for a new id; an unusable payload is remembered too.
AcceptSend(m) ==
    /\ m.kind = "send" /\ m.cmd \notin seen
    /\ Take(m, IF m \in Malformed THEN "failreply" ELSE "inprogress")
    /\ SeenAdd(m.cmd)
    /\ UNCHANGED workerVars

\* SendReply(Failed) for an unusable payload; FailMessage follows.
ReplyFailed ==
    /\ pc = "failreply"
    /\ SendReply(cur.cmd, "Failed")
    /\ pc' = "settle"
    /\ UNCHANGED <<queue, cur, batch, stop, seenVars, workerVars, lifeVars>>

\* SendReply(InProgress), whose result is ignored.
ReplyInProgress ==
    /\ pc = "inprogress"
    /\ SendReply(cur.cmd, "InProgress")
    /\ pc' = "ack"
    /\ UNCHANGED <<queue, cur, batch, stop, seenVars, workerVars, lifeVars>>

\* Mutant: a stop between the acknowledgement and the start of the worker is obeyed.
AcknowledgeUnlessStopped ==
    /\ pc = "ack"
    /\ Settle(cur)
    /\ IF stop THEN Handled
               ELSE pc' = "spawn" /\ UNCHANGED <<cur, batch, stop>>
    /\ UNCHANGED <<console, seenVars, workerVars, lifeVars>>

\* AcknowledgeMessage, whose result is ignored.
Acknowledge ==
    /\ pc = "ack"
    /\ Settle(cur)
    /\ pc' = "spawn"
    /\ UNCHANGED <<console, cur, batch, stop, seenVars, workerVars, lifeVars>>

\* Mutant: the thread starts without an entry in the table.
InFlightAddNothing(c, w) ==
    /\ token' = [token EXCEPT ![w] = FALSE]
    /\ UNCHANGED <<inflight, count>>

\* InFlight::add: map_[c] = a fresh token, count_++.
InFlightAdd(c, w) ==
    /\ inflight' = [inflight EXCEPT ![c] = w]
    /\ count' = count + 1
    /\ token' = [token EXCEPT ![w] = FALSE]

\* The command is registered and its worker thread started and detached.
SpawnWorker(w) ==
    /\ pc = "spawn"
    /\ phase[w] = "idle"
    /\ InFlightAdd(cur.cmd, w)
    /\ phase' = [phase EXCEPT ![w] = "run"]
    /\ task' = [task EXCEPT ![w] = cur.cmd]
    /\ runs' = [runs EXCEPT ![cur.cmd] = IF @ = 0 THEN 1 ELSE 2]
    /\ Handled
    /\ UNCHANGED <<outcome, mdsVars, seenVars, lifeVars>>

\* The handlers that end by acknowledging or failing the message.
SettleMessage ==
    /\ pc = "settle"
    /\ Settle(cur)
    /\ Handled
    /\ UNCHANGED <<console, seenVars, workerVars, lifeVars>>

\* Mutant: cancel sets every token, as cancel_all does.
CancelEverything(m) ==
    /\ m.kind = "cancel"
    /\ Take(m, "settle")
    /\ token' = [w \in Workers |-> Live(w)]
    /\ UNCHANGED <<inflight, count, phase, task, outcome, runs, seenVars>>

\* handle_cancel_command: InFlight::cancel on the target.  A payload that cannot
\* be parsed names the cancel message's own id, which is never in flight.
CancelCommand(m) ==
    /\ m.kind = "cancel"
    /\ Take(m, "settle")
    /\ token' = [w \in Workers |-> \/ token[w]
                                   \/ m \notin Malformed /\ inflight[m.cmd] = w]
    /\ UNCHANGED <<inflight, count, phase, task, outcome, runs, seenVars>>

\* handle_message for any other topic: FailMessage.
UnexpectedTopic(m) ==
    /\ m.kind = "stray"
    /\ Take(m, "settle")
    /\ UNCHANGED <<seenVars, workerVars>>

\* handle_message without a MessageId or a Topic: ignored.
IgnoreBlank(m) ==
    /\ m.kind = "blank"
    /\ pc = "batch" /\ ~stop /\ m \in batch
    /\ batch' = batch \ {m}
    /\ UNCHANGED <<pc, cur, stop, mdsVars, seenVars, workerVars, lifeVars>>

-----------------------------------------------------------------------------
(* A worker thread: execute, upload the outputs, reply once, leave.        *)

\* Mutant: the worker leaves the table with a message still owed.
FinishSilently(w) ==
    /\ phase[w] = "run"
    /\ outcome' = [outcome EXCEPT ![w] = "Failed"]
    /\ phase' = [phase EXCEPT ![w] = "done"]
    /\ UNCHANGED <<inflight, count, task, token, runs, mdsVars, mainVars, seenVars, lifeVars>>

\* runner::run_document or patch::run_baseline returns, and upload_outputs.
\* A document is Cancelled only if its token was set; one whose token was set
\* may also have ended by itself.
FinishRun(w) ==
    /\ phase[w] = "run"
    /\ \E status \in Terminal :
        /\ status = "Cancelled" => token[w]
        /\ outcome' = [outcome EXCEPT ![w] = status]
    /\ phase' = [phase EXCEPT ![w] = "reply"]
    /\ UNCHANGED <<inflight, count, task, token, runs, mdsVars, mainVars, seenVars, lifeVars>>

\* SendReply(final): one attempt, whose result is ignored.
ReplyFinal(w) ==
    /\ phase[w] = "reply"
    /\ SendReply(task[w], outcome[w])
    /\ phase' = [phase EXCEPT ![w] = "done"]
    /\ UNCHANGED <<queue, inflight, count, task, token, outcome, runs, mainVars, seenVars,
                   lifeVars>>

\* InFlight::done: map_.erase(c), count_--, wake the drain; the thread ends.
WorkerDone(w) ==
    /\ phase[w] = "done"
    /\ inflight' = [inflight EXCEPT ![task[w]] = None]
    /\ count' = count - 1
    /\ phase' = [phase EXCEPT ![w] = "idle"]
    /\ task' = [task EXCEPT ![w] = None]
    /\ token' = [token EXCEPT ![w] = FALSE]
    /\ outcome' = [outcome EXCEPT ![w] = "none"]
    /\ UNCHANGED <<runs, mdsVars, mainVars, seenVars, lifeVars>>

-----------------------------------------------------------------------------
(* Shutdown, crash and restart.                                            *)

\* SIGTERM or SIGINT.
Stop ==
    /\ pc # "exited" /\ ~stop /\ exits < MaxExits
    /\ stop' = TRUE
    /\ UNCHANGED <<pc, cur, batch, mdsVars, seenVars, workerVars, lifeVars>>

\* main leaves the poll loop: InFlight::cancel_all.
CancelAll ==
    /\ pc = "poll" /\ stop
    /\ token' = [w \in Workers |-> token[w] \/ \E c \in Commands : inflight[c] = w]
    /\ pc' = "drain"
    /\ UNCHANGED <<cur, batch, stop, inflight, count, phase, task, outcome, runs,
                   mdsVars, seenVars, lifeVars>>

\* Mutant: the drain looks at the map instead of the count.
DrainByMap ==
    /\ pc = "drain"
    /\ \/ (\A c \in Commands : inflight[c] = None) /\ pc' = "join"
       \/ DrainExpires /\ pc' = "abandon"
    /\ UNCHANGED <<cur, batch, stop, mdsVars, seenVars, workerVars, lifeVars>>

\* InFlight::drain returns: the count is zero, or the window ran out and main goes
\* on with workers still alive.
Drain ==
    /\ pc = "drain"
    /\ \/ count = 0 /\ pc' = "join"
       \/ count # 0 /\ DrainExpires /\ pc' = "abandon"
    /\ UNCHANGED <<cur, batch, stop, mdsVars, seenVars, workerVars, lifeVars>>

\* The process is gone, and its memory with it.
LoseMemory ==
    /\ pc' = "exited" /\ cur' = None /\ batch' = {} /\ stop' = FALSE
    /\ seen' = {} /\ order' = <<>> /\ forgotten' = {}
    /\ inflight' = [c \in Commands |-> None] /\ count' = 0
    /\ phase' = [w \in Workers |-> "idle"]
    /\ task' = [w \in Workers |-> None]
    /\ token' = [w \in Workers |-> FALSE]
    /\ outcome' = [w \in Workers |-> "none"]
    /\ UNCHANGED <<runs, mdsVars>>

\* The other threads are joined and main returns.
Return ==
    /\ pc \in {"join", "abandon"}
    /\ LoseMemory
    /\ exits' = exits + 1
    /\ UNCHANGED crashes

\* The process dies at any point.
Crash ==
    /\ pc # "exited" /\ crashes < MaxCrashes
    /\ LoseMemory
    /\ crashes' = crashes + 1
    /\ UNCHANGED exits

\* launch_daemon starts the service again.
Restart ==
    /\ pc = "exited"
    /\ pc' = "poll"
    /\ UNCHANGED <<cur, batch, stop, mdsVars, seenVars, workerVars, lifeVars>>

-----------------------------------------------------------------------------
Handle(m) ==
    \/ DuplicateSend(m)
    \/ AcceptSend(m)
    \/ CancelCommand(m)
    \/ UnexpectedTopic(m)
    \/ IgnoreBlank(m)

MainStep ==
    \/ PollMessages
    \/ EndBatch
    \/ \E m \in Messages : Handle(m)
    \/ ReplyFailed
    \/ ReplyInProgress
    \/ Acknowledge
    \/ \E w \in Workers : SpawnWorker(w)
    \/ SettleMessage
    \/ CancelAll
    \/ Drain
    \/ Return

WorkerStep(w) == FinishRun(w) \/ ReplyFinal(w) \/ WorkerDone(w)

Next ==
    \/ MainStep
    \/ PollNothing
    \/ \E w \in Workers : WorkerStep(w)
    \/ \E m \in Messages : Issue(m) \/ VisibilityTimeout(m)
    \/ Stop
    \/ Crash
    \/ Restart

Spec == Init /\ [][Next]_vars

\* The main thread is scheduled, every script ends (run_shell bounds it), hidden
\* messages become visible again, every message is in one poll that succeeds (the service
\* hands out what is visible, and no outage lasts for ever), and launch_daemon restarts the service.
FairSpec ==
    /\ Spec
    /\ WF_vars(MainStep)
    /\ \A w \in Workers : WF_vars(WorkerStep(w))
    /\ \A m \in Messages : WF_vars(VisibilityTimeout(m)) /\ SF_vars(Deliver(m))
    /\ WF_vars(Restart)

-----------------------------------------------------------------------------
(* Properties.                                                             *)

FlagsOK == stop \in BOOLEAN
TablesOK ==
    /\ queue \in [Messages -> {"unsent", "ready", "hidden", "gone"}]
    /\ console \in [Commands -> Statuses]
    /\ pc \in {"poll", "batch", "inprogress", "ack", "spawn", "failreply", "settle",
               "drain", "join", "abandon", "exited"}
    /\ cur \in Messages \cup {None}
    /\ batch \in SUBSET Messages
    /\ seen \in SUBSET Commands /\ order \in Seq(Commands) /\ forgotten \in SUBSET Commands
    /\ inflight \in [Commands -> Workers \cup {None}]
    /\ count \in Nat
    /\ phase \in [Workers -> {"idle", "run", "reply", "done"}]
    /\ task \in [Workers -> Commands \cup {None}]
    /\ token \in [Workers -> BOOLEAN]
    /\ outcome \in [Workers -> Terminal \cup {"none"}]
    /\ runs \in [Commands -> 0..2]
    /\ exits \in Nat /\ crashes \in Nat

\* The state is well formed; in particular InFlight::count_ never goes negative.
TypeOK == FlagsOK /\ TablesOK

\* A command is executed more than once only if SeenCommands evicted its id or the
\* process was replaced: redelivery alone never does it.
AtMostOnce ==
    \A c \in Commands : runs[c] = 2 => c \in forgotten \/ exits + crashes > 0

\* No two workers of one process execute the same command, whatever is lost or
\* redelivered, as long as its id was not evicted.
OneCopy ==
    \A v, w \in Workers :
        Live(v) /\ Live(w) /\ task[v] = task[w] => v = w \/ task[v] \in forgotten

\* A command whose message is gone from the queue has been started, or is being
\* started: over any number of orderly restarts no acknowledged command is dropped.
AckedIsStarted ==
    \A m \in Messages \ Malformed :
        m.kind = "send" /\ queue[m] = "gone" /\ crashes = 0 =>
            runs[m.cmd] > 0 \/ (pc = "spawn" /\ cur = m)

\* When drain reported an empty table no worker is left to use what main tears down.
DrainedMeansIdle == pc = "join" => \A w \in Workers : ~Live(w)

\* handle_cancel_command reaches every worker that executes the target.
CancelReaches ==
    [][\A m \in Messages \ Malformed :
        m.kind = "cancel" /\ cur # m /\ cur' = m =>
            \A w \in Workers :
                Live(w) /\ task[w] = m.cmd /\ m.cmd \notin forgotten => token'[w]]_vars

\* A terminal status is never replaced, by InProgress or by another one, within the
\* life of the process and of the id in SeenCommands.
TerminalSticks ==
    [][\A c \in Commands :
        console[c] \in Terminal /\ c \notin forgotten /\ exits + crashes = 0
            => console'[c] = console[c]]_vars

\* TESTING.md 7, "Replies are retried in memory only": while the process lives, an
\* executed command has its final status or a thread that still owes it.
FinalReplyOwed ==
    \A c \in Commands :
        runs[c] > 0 /\ exits + crashes = 0 =>
            console[c] \in Terminal \/ \E w \in Workers : Live(w) /\ task[w] = c

\* With no reply lost and no crash, every command sent is answered, through lost polls and
\* acknowledgements, redelivery, cancels and an orderly restart at any point.
EveryCommandAnswered ==
    \A m \in Messages : m.kind = "send" =>
        (queue[m] # "unsent" ~> console[m.cmd] \in Terminal)

CancelIssued(c) == \E m \in Messages : m.kind = "cancel" /\ m.cmd = c /\ queue[m] # "unsent"

\* The life of the first process, as long as SeenCommands forgets nothing.
FirstLife == exits + crashes = 0 /\ forgotten = {}

Lifecycle == INSTANCE CommandLifecycle WITH
    execution <- [c \in Commands |->
                    IF \E w \in Workers : phase[w] = "run" /\ task[w] = c THEN "running"
                    ELSE IF runs[c] > 0 THEN "finished" ELSE "waiting"],
    status    <- console,
    revoked   <- IF stop THEN Commands ELSE {c \in Commands : CancelIssued(c)}

\* The agent implements the abstract lifecycle of CommandLifecycle as long as the process
\* lives and SeenCommands forgets nothing.
ImplementsLifecycle == Lifecycle!Init /\ [][FirstLife' => Lifecycle!Next]_(Lifecycle!vars)
=============================================================================
