# The Haiku management agent in TLA+

The agent (`src/`) registers a Haiku machine with AWS Systems Manager and serves
three things: Run Command documents fetched from the message delivery service
(MDS), interactive shells over Session Manager (the message gateway, MGS), and
updates of itself. This directory holds TLA+ models of the parts that keep state,
the TLC configurations that check them and the TLAPS proofs about them.

Paths in this file are relative to the repository; `main.cpp` and its like are in
`src/`.

    tlc -workers 2 -config RunCommandServes.cfg MCRunCommand
    tlapm RunCommandProofs.tla

## 1. The system

### Parts, their state, and what makes them correct

| Part | Source | State it keeps | Operations | Correct when |
| --- | --- | --- | --- | --- |
| Run Command core | `main.cpp` 139-460, 664-825 | the duplicate filter `SeenCommands`, the table `InFlight` (map of cancel flags and a count), a detached worker per command, the stop flag | poll, accept, refuse, acknowledge, cancel, execute, reply, drain, restart | a command runs once, is answered, can be cancelled, is not dropped once acknowledged; shutdown does not pull the ground from under a worker |
| Shell execution | `exec.cpp` | one child with its process group, two pipes, a deadline, the flags of SIGTERM and SIGKILL | start, poll, terminate, kill, reap | it returns whatever the script does; a kill reaches the whole group; the result tells what happened |
| Document runner | `runner.cpp` | the results of the steps so far, the status of the document | skip, refuse or run a step; truncate the output | the status follows from the steps |
| Patch baseline | `patch.cpp` | the lists of available, missing and installed packages, two flags | refresh, scan, install, re-scan, count, put the inventory | the record and the status agree with the system |
| Control channel | `session.cpp` 580-706, `main.cpp` 774-825 | one WebSocket, `seen_sessions`, `g_active_sessions` | connect, receive, start a session, drain, reconnect | one shell per request, reachable again after every loss, shutdown ends |
| Data channel | `session.cpp` 49-493 | `out_seq`, the retransmission buffer `Outbox`, `next_expected`, a pty with its shell | handshake, resend, acknowledge, apply input, send output, tear down | input once and in order, no output lost, no shell left behind |
| Self-update | `selfupdate.cpp`, `main.cpp` 740-770 | the files `binary_path`, `.new`, `.old` and the download; a scheduled restart | check, download, verify, install or swap, restart | there is always something to start, and it is whole and not older |
| AWS calls and clock | `aws.cpp`, `timesync.cpp`, `s3.cpp`, the health thread in `main.cpp` 728-740 | the IMDS token with its end, the cached role credentials, the system clock, the time of the next health ping | set the clock, renew the token, fetch, serve or refuse credentials, call, drop the cache on a rejection, repeat a transfer | no call is made with credentials that are over while the network and the clock are good; after any outage polls succeed again |
| HTTP client | `http.cpp` | the connection and what was read of a response | read headers, read a body by its framing, make a Response | a part of a body is never taken for all of it |
| WebSocket, MGS framing, JSON, utilities, log | `websocket.cpp`, `mgs.cpp`, `json.cpp`, `util.cpp`, `log.cpp` | connection buffers | conversions and I/O | not modelled, section 7 |
| Options, one-shot modes | `main.cpp` | none that outlives a call | | not modelled, section 7 |

### How they interact

The daemon has a main thread (the MDS poll loop), a thread each for health pings,
updates and sessions, a detached thread for each running command and one for each
open session. What they share is small, and each piece is a place where order
matters:

- the stop flag `g_stop`, set by a signal handler and read at the head of every loop;
- `InFlight`: written by the poll thread (add, cancel, cancel_all) and by the
  workers (done), waited for at shutdown;
- the cancel flag of a command: set by the poll thread, read by `run_shell` alone;
- `g_active_sessions`: counted up by the control channel, down by each session;
- the credential provider on the stack of `main`, used by every detached thread,
  which is why shutdown has to wait for them. Its cache, and the token behind it,
  are filled by whoever comes first and emptied by whoever is rejected;
- the system clock, which every thread reads and the health and session threads set.

MDS hands out a message, hides it for ten seconds and hands it out again unless it
was acknowledged. The agent acknowledges a command before it executes it, and
remembers the last 512 ids in memory. MGS drops stream data it gets before it has
bridged the client, and repeats a StartSession that is not acknowledged.
`launch_daemon` starts the service again when it ends. `pkgman` is called by way of
`run_shell`.

### What is hard

Redelivery while the command runs, after it ended, or after its id was evicted; a
cancel before or after the worker exists; a stop or crash between any two steps;
a shell that ignores SIGTERM, closes its pipes or starts descendants; a cancel that
races a timeout; a client that comes late, repeats itself or vanishes; a channel
lost in silence; an update that breaks off between two renames; a clock that is
decades off at boot and set while others measure time on it; credentials that end
between the look at them and the call. `PROJECT.json`
lists each of these hazards at its line, with the properties that would catch it.

## 2. The modules

| Module | Models | Used by |
| --- | --- | --- |
| `CommandLifecycle` | what Run Command promises for each command: announced, started, finished, reported, in that order and once; no queue, threads or losses | `RunCommand` (refinement) |
| `RunCommand` | the poll thread, `SeenCommands`, `InFlight`, the workers, shutdown, crash and restart, against a lossy MDS | `MCRunCommand`, `RunCommandProofs` |
| `ShellResult` | the results `run_shell` may return | `Exec`, `CancelToken` |
| `Exec` | one call of `run_shell` and an arbitrary script | `MCExec` |
| `CancelToken` | the cancel flag as a worker sees it | `DocRunner`, `PatchBaseline` |
| `DocRunner` | `run_document` | `Worker` |
| `PatchBaseline` | `run_baseline` | `Worker` |
| `Worker` | the body of a worker thread: one of the two | `MCWorker` |
| `TruncateOutput` | the arithmetic of `truncate_output` | `MCWorker`, `TruncateProofs` |
| `SessionControl` | `session::run`, the session thread, the end of `main` | `MCSessionControl` |
| `ShellSession` | what a session promises to its two ends: a stream of frames and a stream of input, each in order and once, around one shell; no gateway, buffer, repetition or deadline | `DataChannel` (refinement) |
| `DataChannel` | `run_session` and `Outbox`, with shell, gateway and client | `MCDataChannel`, `DataChannelProofs` |
| `AtomicUpdate` | what an update promises: one version to run, replaced in one step and by a newer one; no download, file or crash | `SelfUpdate` (refinement) |
| `SelfUpdate` | the updater thread and `check_and_apply`, the files, crashes | `MCSelfUpdate`, `SelfUpdateProofs` |
| `HttpResponse` | `perform` and the loops of `read_body` on what arrives: three framings, any split into chunks and reads, an end at any point, a sink that fails | `AwsCalls` |
| `AwsCalls` | `ensure_clock`, the IMDS token, the credential cache, and the poll, health and transfer threads that use them | `MCAwsCalls`, `AwsProofs` |

The modules `MC...` hold the instances for TLC; the proofs about a module are in
`RunCommandProofs`, `ExecProofs`, `WorkerProofs` (with `DocRunner` and
`PatchBaseline`), `TruncateProofs`, `SessionProofs`, `DataChannelProofs`,
`SelfUpdateProofs` and `AwsProofs`.

The modules meet at stated interfaces, so that each stays small:

- `RunCommand` takes from a worker that it ends with a terminal status, Cancelled
  only if its flag was set (`FinishRun`). `Worker` shows just that
  (`CancelledOnlyOnRequest`).
- `Worker` takes from `run_shell` that it returns a member of `ShellResults`, and
  cancelled only when the flag is set. `Exec` shows the first (`TypeOK`: a
  cancel and a timeout exclude each other, and there is an exit code or an error)
  and that it returns at all (`Returns`), which is the fairness of `RunCommand`'s
  workers.
- `SessionControl` takes from a session that it starts, stops using the credential
  provider once its channel is open, and may end at any moment or never.
  `DataChannel` is the inside of it.
- `AwsCalls` judges a poll as a whole: it succeeds or not. That a single call of
  `RunCommand` may be lost, at any time, is what is left of it there.

### Correspondence

`PROJECT.json` maps every definition to its lines. Names are those of the source
where TLA+ allows it. What needs a word:

**RunCommand.** `pc` is the next external call of the poll thread, since anything
may happen between two of them: another thread's step, a signal, the death of the
process. So `handle_send_command` is the chain AcceptSend (the filter is updated),
ReplyInProgress, Acknowledge, SpawnWorker; the branch for an unusable payload is
AcceptSend, ReplyFailed, SettleMessage. `cancel_all` and `drain` are two steps, as
they take the mutex twice. `inflight[c]` is the worker whose flag `map_` holds: a
second copy of a command overwrites it, and `done` of the first erases it, as in
the code; `count` is separate, as `count_` is. A call to MDS that is lost changes
nothing there, and the agent goes on all the same, because it ignores the result.
That the batch is a set reflects that MDS promises no order. `runs`,
`forgotten`, `exits` and `crashes` are not in the code: they record history for
properties. A malformed send message stands for a payload that cannot be parsed, a
malformed cancel for one whose target cannot be found (the code then falls back to
the id of the cancel message, which is never in the table).

**Exec.** A process is described by the pipes it holds open, whether it ignores
SIGTERM, and whether it is in the group. Output is counted: `written` by the script,
`taken` by `read`, `captured` up to `max_capture_bytes` (`Capacity`), and `clipped` is
the truncation mark. A read takes all of what there is, part of it, or nothing when it
is interrupted. A pipe reads as closed when nobody holds it and the agent has drained
it; one whose `read` fails is closed the same way and nothing is told
(`exec.cpp` 125), which the history variable `unread` records. One boolean, `due`, says
that the deadline of the current phase has passed. `killed_term` and `killed_kill` are
`term` and `kill`.

**DocRunner, PatchBaseline.** A step is its kind and a shell result its flags. In
`Listing`, a `pkgman` that did not end well, or whose text is longer than the 24000 bytes
that are kept (`LongScans`), may have shown any part of the transaction, and the line at
the cut may give a name that is none of it (`cut`). `pkgman update -y` works out its own
transaction: in `Install` it applies all that is pending or nothing, whatever the scan
listed, while the report repeats the list of the scan (`available`). What is pending
changes during a run only by that.

**SessionControl, DataChannel.** A message is known by its kind and its sequence
number. The deadline of the handshake and the idle deadline are one flag
(`late`), reset where the code takes a new time stamp. What the client sends is a set
(`up`): it arrives in any order, any number of times, or never. Input is acknowledged
whatever comes of it (`Settle`): in the handshake, anything but the response is dropped
(`AwaitOther`), and in the bridge what is not due (`ReceiveInput`). A keystroke that is
due is written in a step of its own (`InputTaken`), since the loop of `write` tries again
as long as the pty is full. The drain of the output ends only when the pty is empty
(`OutputDrained`, `ShellEnds`), also after a failed send. A SIGKILL that comes before
the child's `setsid` reaches nobody (`KillMisses`), and `waitpid` then waits for a
living shell. `inOrder`, `acked`, `applied`, `evicted` and `how` are history. `Wire`
loses what is sent over a broken channel or before the client is bridged, while a frame
stays in the Outbox.

**SelfUpdate.** A file is the version it was built from and whether it is whole. A
manifest names a version and has the checksum of a build, which nobody compares with
each other: `ChecksumMatches` looks at the build, `Newer` at the version. Each of the
three renames may fail (`SaveFails`, `SwapFails`, `RestoreFails`); as the code ignores
the result of the first and the third, a failed first rename leaves the binary in place
and a `.old` of an earlier update beside it, which the third then puts over the binary
(`Restore`). `mishaps` is history: it names the cases that a property has to except, and
each is set only by the step in which the code lets it happen. `Step` and `KeepRest` say
where `check_and_apply` is and what a step of it leaves alone.

**HttpResponse.** A message is a sequence of tokens: pieces of data and, in a chunked
body, sizes and ends of lines. `PossibleArrivals` has every way in which it may come:
the framing, the size of the chunks, how much comes with the headers and how much at a
time, and where and how the connection ends. A state of the loops is what is pending in
the buffer, what is on the wire, and what remains of the chunk or the length; `Iterate`
is one round of `read_body`, `Store` and `Finish` are those of `BodySink`. Nothing in it
says what a good response is: that is `Genuine`, which compares the result with the
message the peer had to send.

**AwsCalls.** Time is counted in units; `Tick` lets the services' clock advance by one
and the agent's by none, one or two, and `skew` is the difference. Any time the
agent compares with its own clock is kept as the time left by theirs, and corrected
by `skew` where the code reads `now`. So `Stale` and `TokenFresh` are the code's
comparisons, and what the services think is the plain number. IMDS may leave out when its
credentials end (`dated`): they are then never stale for the agent. A call has two steps:
`Call` (`CredentialProvider::get` under its mutex, and the signature) and `Return`
(the answer, and `check_auth_failure`); everything else may happen in between. The
mutex of the provider makes the fetch one step; that of `Imds` is not held during
its request, but no property tells two renewals of a token apart. `trouble`
and `intact` are history: the network failed, the clock was off by the tolerated
drift while the agent ran, or an end was left out; every response was `Genuine`.

Definitions whose comment starts with "Mutant:" are faulty variants of the one that
follows them. They are not part of any specification: each shows that a property
would notice that fault.

## 3. The runs

| Run | Bounds | Checks | Shows |
| --- | --- | --- | --- |
| `RunCommandServes` | two commands, a cancel of one, one worker slot; lost polls and acknowledgements; one shutdown | `AtMostOnce`, `CancelReaches`, `TerminalSticks`, `ImplementsLifecycle`, `EveryCommandAnswered` | redelivery alone never runs a command twice; a cancel reaches the worker; nothing follows a terminal status; the core implements `CommandLifecycle`; every command sent is answered in the end |
| `RunCommandRestart` | a history of one id for two commands, one of them malformed; a message without topic and one of an unknown topic; two workers; lost acknowledgements; one shutdown, with a drain that may expire, and one crash | `TypeOK`, `OneCopy`, `AckedIsStarted`, `DrainedMeansIdle` | with evictions, double executions and restarts the tables stay consistent; without a crash no acknowledged command is dropped; a drain that succeeds leaves no worker |
| `RunCommandLostReply` | as the first, with two workers and lost replies only | `FinalReplyOwed` is **violated** | see findings |
| `ExecReturns` | the shell and one descendant; two units of output for a buffer of one; fork, poll, read and waitpid may fail | `TypeOK`, `KilledTreeIsGone`, `ReturnedMeansReaped`, `OutputComplete`, `Returns` | `run_shell` returns whatever the script does, and what it returns is true |
| `ExecTree` | the same without failing calls | `TimeoutKillsTree` is **violated** | see findings |
| `WorkerRuns` | documents of up to three steps of four kinds; two packages; scans that may be cut | `SuccessIsEarned`, `FailureIsShown`, `SuccessIsRecorded`, `NothingInstalledIsMissing`, `CancelledOnlyOnRequest`; `TruncationIsRight` as an assumption over all lengths up to 25 and capacities from 16 to 40 | the status and the compliance record tell what happened |
| `PatchScan` | one package; scans that are not cut | `PendingIsMissing` is **violated** | see findings |
| `SessionRuns` | a session, a refused one, three threads; three failures of the channel, two repeated requests | `TypeOK`, `OneShellPerChannel`, `DrainedMeansQuiet`, `ShutdownCompletes`, `SessionServed` | one shell per request and channel; every request is served and every shutdown ends, whatever the channel and the shells do |
| `SessionTeardown` | the same, one failure | `ProviderOutlivesSessions` is **violated** | see findings |
| `ChannelRuns` | an Outbox of two frames, one resend, one chunk of output, two keystrokes, one repeated message | `TypeOK`, `KeysOnce`, `AckedInputIsApplied`, `NothingForgotten`, `ImplementsSession`, `Reaped` | input once and in order, in whatever order it arrives; what is acknowledged is written as long as none overtook another; no frame lost but for the capacity; the session implements `ShellSession`, so output comes before the exit and nothing after the end; no shell left behind by a thread the shell lets go |
| `UpdateRuns` | three versions, manifests with any build, failing renames, two crashes | `TypeOK`, `InstalledIsWhole`, `ServiceCanRestart`, `RunsForward`, `ImplementsUpdate` | only whole files are installed; one is always left, and replaced in one step (`AtomicUpdate`); the service can be started, and versions never go back, with the exceptions the properties state |
| `CallRuns` | a clock 3 units behind or 2 ahead at boot; credentials that last 4 units, or whose end is not known, and a token that lasts 3; a health ping every other unit; bodies of two pieces and reads of up to three tokens; calls of up to one unit | `NeverExpired`, `RetryIsFresh`, `OkIsWhole`, `Recovers`, `ClockIsKept` | without trouble no call is signed with credentials that are over; a repeated transfer never is; a part of a delimited body is never taken for it, and a whole one is not refused; after any trouble the clock is brought back and polls succeed |

### Why the bounds are enough

- *Two commands* let a worker race the poll thread over another command and over
  its own (a redelivered id). One worker slot makes the poll thread of
  `RunCommandServes` wait for it, which the code never does; the runs with two
  slots, and the proofs, do without. In `RunCommandRestart` the history
  holds one id for two commands, so that an eviction happens while the evicted
  command is running; the code's 512 differs only in how long that takes. One
  shutdown and one crash give three lives of the process in either order. The
  proofs of section 5 remove these bounds.
- *One descendant* is enough for a survivor beside the shell: the properties speak
  of one process at a time, and a descendant of a descendant inherits what the
  shell would give it. *Two units of output* for a buffer of one are output that fits,
  output that is clipped in one read or in the second, and a read after the clip.
- *Three steps* put a step before and after the one that fails, which is what the
  accumulated status depends on, for every pair of kinds and of shell results.
- *Three failures* of the control channel allow a failed connect, a channel closed
  and one lost in silence in one behaviour.
- *An Outbox of two frames* overflows during the session (handshake request, end of
  the handshake, output and exit code are four frames). *One resend* makes the
  ceiling reachable: the first retry and the end of the retries. Two keystrokes and
  the handshake response give the shared sequence space three members, so that one may
  overtake another in the handshake and in the bridge.
- *Three versions* allow a manifest to go forward twice and back once, and a `.old` to
  be two updates old; *two crashes*, one during the update and one during the recovery
  from it.

- *`CallRuns`* keeps the order of the code's times rather than their ratios. The
  margin of the credentials (300 s in the code) exceeds what the tolerated drift
  (60 s) and a call take from it; that of the token (60 s) is at most the drift, so a
  token may be over before the agent thinks so, and the run has that case; new
  credentials are on offer well before the margin begins; a clock that is behind at boot
  is further off than a signature bears, so that no poll succeeds before it is set. Two
  units between health pings let the cache depend on the poll loop
  alone; with one, the health thread would ask in every unit and hide what a token
  that is over can do. The numbers are tight, they meet the last two lines of
  `MarginsAssumption` (section 5) with nothing to spare: with a margin of the credentials
  or a lead of the rotation one unit less `NeverExpired` fails. A body of two pieces comes
  in one chunk or in two, is cut between any two tokens, and reads of up to three tokens
  end within a chunk, at its end or beyond it.

`CHECK_DEADLOCK FALSE` appears where the modelled thing ends: a call of
`run_shell`, a document, a session, a daemon that has returned. `RunCommand`, `AwsCalls` and
`SelfUpdate` are checked for deadlock. That the latter never stops rests on the
publisher, who may always publish: what a daemon without a binary could do next is
asked by `ServiceCanRestart` instead.

### Fairness

- `RunCommand`: the poll thread and each worker are scheduled (weak fairness of
  their steps, idle polls apart); a worker's script ends because `run_shell` bounds
  it; hidden messages become visible again; `launch_daemon` restarts the service.
  Strong fairness of `Deliver`: a message that is visible again and again is in a
  poll that succeeds, since the service hands out what is visible and an outage
  ends.
  That an operator sends or cancels anything is not assumed, nor is it assumed that
  a signal comes.
- `Exec`: `run_shell` and its child up to setsid are scheduled and time passes. The
  script owes nothing.
- `SessionControl`: the session thread and `main` are scheduled. Two actions have
  strong fairness, because the thread goes round the receive loop in between: a
  StartSession waits in the socket until it is read, and the ping every 45 s finds
  out that the peer is gone. Failures are bounded, so a channel stays up in the
  end. Of the sessions nothing is assumed, a shell may stay open for ever.
- `DataChannel`: the thread of the session is scheduled and time passes. Client,
  gateway and shell owe nothing, not even that the shell pauses in its output or reads
  its input: the steps that wait for it (`Held`, and the end of a shell that missed its
  SIGKILL) have no fairness. `Reaped` therefore has a premise: the thread is not left for
  ever in one of the three places where only the shell lets it go (`AtShellsMercy`).
  Without the premise TLC refutes it, and that is what the code does.
- `AwsCalls`: time passes, on both clocks (strong fairness: the steps of the
  threads come in between), the poll and health threads are scheduled, and a
  transfer that has begun goes on. A transfer need not begin, the session thread
  need not connect, the network need not come back; the two liveness properties are
  about behaviours in which it does.
- `Worker` and `SelfUpdate` have no liveness property: the former ends by
  construction, the latter is retried by a timer.

## 4. Findings

Each is a run that TLC ends with a counterexample.

1. **A lost final reply is never sent again** (`RunCommandLostReply`). The worker
   sends the final reply once and ignores the result (`main.cpp` 371). TESTING.md,
   section 7, says "Replies are retried in memory only". The console shows
   InProgress until the command times out there.
2. **A timeout does not always kill the whole tree** (`ExecTree`). The poll loop
   ends when both pipes close. A descendant that ignores SIGTERM and has redirected
   its output survives: the pipes close within the grace period, the shell is
   reaped, SIGKILL is never sent. `exec.h` 3 promises the opposite.
3. **A scan that failed reads as "nothing missing"** (`PatchScan`). Only
   `run_shell`'s own error fails a scan (`patch.cpp` 252), and the result of the
   re-scan is not looked at (276). The run is a Success, and its record lists fewer
   missing updates than are pending. The design note says "what is still pending is
   Missing".
4. **A session may outlive the credential provider** (`SessionTeardown`). The drain
   of `g_active_sessions` is reached only when the loop itself sees the stop flag. If
   the channel is closed, lost or does not open as the stop arrives, `run`
   returns without it, and `main` destroys the provider a starting session still
   uses. `session.cpp` 42 says that shutdown waits for just this.

Statements in the repository that the code has outgrown, found while reading:

- TESTING.md, "Concurrent commands. Not applicable", "`cancelCommand` is
  acknowledged but not actioned" and "A long command blocks polling": commands run
  in threads of their own, and a cancel reaches them (`CancelReaches`).
- `mgs.h` 59 says that `deserialize` verifies the digest of the payload; it does not.
- `http.h` 39 says that with an error the status is 0. A body that breaks off leaves
  the status of its headers and an error; `ok()` looks at both (`OkIsWhole`).
- `session.cpp` 422 says "ack always, apply only when in-order (a resend of an
  already-applied sequence would double-type otherwise)". That is what the code does, and
  `KeysOnce` holds for it in any order of arrival. But input that overtakes another is
  acknowledged and dropped as well, and so is everything after it, since the one it
  overtook is the only one that is due and the client need not send the others again:
  `AckedInputIsApplied` holds only as long as none overtakes (`inOrder`).
- An IMDS token that IMDS refuses stays cached until the agent's clock says that it
  is over. After the clock was set back, every fetch of credentials fails until the
  clock has caught up: `Recovers` holds because that is as long as the clock was off,
  which at boot is before the token exists.
- `aws.cpp` 300 says that a control channel is never opened; `session.cpp` opens one.
- `selfupdate.h` 14 speaks of an atomic swap; `selfupdate.cpp` 179-180 are two
  renames, and a crash between them leaves nothing at `binary_path`. The result of the
  rename that puts the old binary back (183) is not looked at: when it fails, as the one
  before it did, there is nothing at `binary_path` either, and the daemon runs on until
  its next restart. `ServiceCanRestart` excepts just these two. With the `.old` counted
  in there is always one complete version, replaced in one step (`ImplementsUpdate`).
- The result of the first rename (179) is not looked at either. If it and the second
  fail, the third puts the `.old` of an earlier update over the current binary. And the
  version of a manifest is not compared with that of its artifact. After either, an older
  daemon may run, which `selfupdate.cpp` 124 means to exclude: `RunsForward` excepts
  both, and nothing else.

## 5. Proofs

All theorems are for every value of the constants. They assume the named
assumptions of the modules and nothing else: for `RunCommand` that messages are
records of a kind and a command, that the history holds at least one id, and that
there are finitely many workers and commands (of any number); for `Exec` that the
shell is none of its descendants; for `SessionControl` that there are finitely many
threads and that refused sessions are sessions; for `PatchBaseline` that no record is
"no record"; for `DataChannel`, `Exec` and `SelfUpdate` that the bounds are numbers, and that no
file is called "no file"; for `AwsCalls` that times are numbers, that credentials
last when they are handed out, that the error of the clock at boot is no smaller
than what a certificate bears, and that the margins are large enough
(`MarginsAssumption`, below); for `TruncateOutput` that the title is not empty and
that the title and four marks are below the range of `size_t`.

Each proof has the same plan. A property is seldom inductive, so an invariant says
what the code relies on in addition; the lemmas show that the initial states satisfy
it and that every action keeps it; the theorems follow by temporal logic.

**`RunCommandProofs`.**

| Theorem | States |
| --- | --- |
| `TypeCorrect` | `[]TypeOK`: in particular `count_` never goes negative |
| `DrainSafe` | `[]DrainedMeansIdle` |
| `ExecutedAtMostOnce` | `[]AtMostOnce` |
| `NoSecondWorker` | `[]OneCopy` |
| `NothingAcknowledgedIsDropped` | `[]AckedIsStarted` |
| `CancelAlwaysReaches` | `CancelReaches`, an action property |
| `TerminalIsLast` | `TerminalSticks`, an action property |
| `AgentImplementsLifecycle` | `ImplementsLifecycle`, the refinement |

`TypeOK` is not inductive: `done` takes one from the count, which stays a natural
number only because the count is the number of live workers. So `TypeInv` adds
`CountInv` (that fact), `TaskInv` (a worker has a command exactly while it is alive)
and `CurInv` (the poll thread has a message exactly where the code has one).
`CountInv` alone gives `DrainSafe`, and it holds even where the map and the
count disagree, after an eviction. On top of `TypeInv` there is one strengthening
for each theorem:

- `OnceInv`: an id that was not evicted is in the filter from its acceptance on,
  and between acceptance and start it has not run. Hence one execution.
- `CopyInv`: the table holds the flag of every live worker whose id was not evicted.
  Hence one copy, and a cancel that reaches it: the flag it sets is the one the
  worker has.
- `AckInv`: a message is settled only after its command was started, or in the step
  before; what is in the filter has been started or is being started. Hence nothing
  is dropped, over any number of shutdowns.
- `StatusInv`: an id that is not in the filter has no status, and once a terminal
  status was recorded nobody is left who would send another.

The refinement needs one more, `LifeInv`, about the first life of the process while
nothing is evicted: the table names live workers only, each under its command
(`MapInv`); a flag is set, and a run ends Cancelled, only where the operator or a
shutdown asked for it (`CancelInv`, which needs that what is handed out has been
sent, `BatchInv`); a command is announced before its only start (`StartInv`).
`ExecutionStep` then shows for each step that the mapped execution and status of one
command change as the abstract lifecycle allows, or not at all, and `LifecycleNext`
that they never change together with what was asked for.

**`ExecProofs`.** `TypeCorrect`, `KilledStaysGone`, `Reaped` and `WholeOutput`, for a
script of any number of processes. The invariant says what a script cannot undo:
nobody joins the group from outside it (`GroupInv`), nobody regains a pipe that has
no writer left, and the buffer holds what was read up to its capacity, with the mark if
there was more (`PipeInv`), a shell that is over has an exit code (`ShellInv`), and
what the result already says is so (`ResultInv`).

**`WorkerProofs`.** `DocumentSuccess`, `DocumentFailure`, `PatchSuccess`,
`MissingIsPending` and `CancelledIsRequested`, for documents of any length and any
set of packages. `StepInv` ties the result of each step to what `run_shell` returned
for it, `StatusInv` the status of the document to all results so far. `StageInv` says
what a stage of the patch run has not done yet, and that a run that has neither
failed nor been cancelled has done everything before: an installation that succeeded has
left nothing pending, whatever the scan had listed. That the record names what was
installed (`PatchSuccess`) follows only if the scan listed just that, and
`MissingIsPending` has the names of cut lines as its exception.

**`SessionProofs`.** `TypeCorrect` (the counter is the number of threads alive),
`NoSecondShell` and `DrainIsFinal`. `SeenInv` compares the set `seen_sessions` with
the shells started: a session the channel has not seen is one shell behind the number
of channels. `EndingInv` says that the loop is over once a drain was.

**`DataChannelProofs`.** `TypedOnce`, `AckedIsTyped`, `Remembered`, `HeardOut`,
`TypeCorrect` and the refinement `SessionIsTwoStreams`, for a session of any length, any
capacity of the Outbox and any ceiling of resends, with input that is reordered, repeated
and lost. The invariant has a part for each direction and each end: the Outbox is
sorted and together with what was evicted and received it is everything sent
(`BoxInv`); the client's side has no gap that is not under way (`DownInv`), so that an
acknowledgement only ever names what the client has; what comes from the client was sent
by it (`UpInv`), which is all that can be said of it; what was applied is the input from
the first one up to the one that is due, but for the one being written, and, as long as
none overtook another, everything acknowledged is below the one that is due (`KeysInv`);
and each stage of the session has its facts (`StageInv`).

The refinement maps the frames sent to `out_seq`, the frames seen to what the client
has received, and the outcome to `pc` and `how`; buffer, network and deadlines have no
counterpart. It needs the same invariant and when there is a shell (`PtyInv`). Most
kinds of step are invisible (`HiddenStep`). Those that are seen are where the code has
to be right: what the client receives is the next frame or one it has, since `DownInv`
leaves no gap (`ClientSees`); a keystroke that is written is the next one, and was typed,
since it was due when it was taken (`InputIsSeen`); a session ends as
"exit" only with everything read (`ShellIsSeen`).

**`AwsProofs`.** `RetryUsesOthers`, for any lifetimes, margins and errors of the clock.
A rejection empties the cache for every
clock there can be, and between it and the repetition no time passes and nobody puts
anything in the cache but what IMDS offers (`RetryInv`). That needs only that the
clock is never further behind than at boot, so that an empty cache looks stale
(`TimesInv`, `PastIsStale`).

`MarginsSuffice`: `[]NeverExpired`. This does depend on the constants. With
`MaxSkew`, the most the clock may be off without being set (59 s), the assumption is

    CredMargin >= MaxSkew
    CredMargin + TokenMargin >= MaxCall + 3 * MaxSkew
    RotateLead + TokenMargin >  MaxCall + 2 * MaxSkew

The first line is for a clock that is behind. The others are for an IMDS token that is
over while the agent's clock, ahead when the token was cached and back since, calls it
fresh. IMDS then refuses the fetch, and `CredentialProvider::get` goes on with what is
cached until the token is renewed. In the code, 300 + 60 covers calls of up to 183 s,
and the long poll takes 20 s.

The invariant follows the cache through that. While the token is good, the poll loop
asks for credentials every `MaxCall` + 1 units and leaves the cache `Good`: not stale
for the agent's clock, or filled with what IMDS offers (`CacheInv`, with `SincePoll` for
the units since). Once it is over, the cache is as it was when that happened, and the
age of the token says how long ago that is. `QuietInv` says what holds as long as there
was no `trouble`: the network is up, the end of the credentials is known, and the clock is off by no more than `MaxSkew`, now
and when the token was cached. A call is then signed with a cache that was just found
not stale, or just filled, or refused with the token over for less than `2 * MaxSkew` -
`TokenMargin` units (`ServedIsGood`, `SignNeverExpired`).

**`SelfUpdateProofs`.** `TypeCorrect`, `OnlyWholeFiles`, `BinaryIsKept`,
`RollbackIsKept`, `NeverBackwards` and the refinement `UpdateIsAtomic`, from one
inductive invariant `Inv`: beside the properties themselves it says what is known of the
download and of `.new` at each stage (`StageInv`: after the checksum, the download is
the build of the manifest, whole), that a copy is left in its place or beside it
(`CopyToFallBackOn`), and that the version that is kept is not below the running one
(`VersionInv`), unless a stale `.old` or a mislabelled manifest was met. The last is
what makes `RunsForward` inductive: a daemon that could not be restarted, or restarts
late, may install again, but only by a manifest newer than itself.

`UpdateIsAtomic` maps the installed version of `AtomicUpdate` to the file in place or,
where there is none, to `.old`. A rename away makes the installed version the one kept
for a rollback (`Keep`), a second rename or the work of `pkgman` replaces it
(`Replace`), a third puts back what was kept, which is the installed version itself or
the one of an earlier update (`PutBack`), and renames that fail and a crash between any
two steps change nothing or are only a stop.

**`TruncateProofs`.** `ReplyFits` and `ShortOutputSurvives`: for outputs of any
length, the text shown stays within the capacity and the shorter output is kept
whole, provided the capacity has room for the title and four marks (`Roomy`); with
the 2500 bytes of the code and its marks of 23 and 24 bytes that holds with room to
spare. `NoWrap` shows that none of the unsigned subtractions can then wrap around.

## 6. What is only model-checked

- Liveness: `EveryCommandAnswered`, `Returns`, `ShutdownCompletes`, `SessionServed`,
  `Reaped`, `Recovers`, `ClockIsKept`. The prover has no means for fairness.

- `OkIsWhole`. What the loops of `read_body` do with a message of any length is an
  induction over its tokens, which is beyond the prover; TLC evaluates them for all
  arrivals of the messages within the bounds.

Every other safety invariant, action property and refinement that a passing run checks
is also proved.

## 7. What is not modelled, and why

- **Signatures and requests.** The canonical request of SigV4, the JSON of the SSM and
  MDS calls, `parse_uri`: text that follows from its inputs. A signature is judged by
  the clock and the credentials it was made with. `RunCommand` takes a call to land or
  to be lost; that a call is lost for its credentials, and that this ends, is
  `AwsCalls`.
- **The bytes of HTTP, and TLS.** Header lines, the digits of a chunk size (one that is
  no number is a size of zero), a cut within a token, `Stream` and mbedTLS.
- **WebSocket and MGS framing.** A binary layout, masking and fragments. `DataChannel`
  and `SessionControl` model what `send` and `recv` return.
- **What is uploaded to S3.** Best effort; the result changes only a link in the reply.
  The retry of a transfer is in `AwsCalls`.
- **`--no-time-sync`, and a process that may not set the clock.** The operator then
  answers for the clock. Deadlines elsewhere pass at any moment in the models, which
  covers a wall clock that is set forward while they run. One that is set back, and
  lengthens a deadline of `run_shell` or of a session, is not covered.
- **`resolve()`, `parse_pkgman_transaction`, the JSON of replies.** Text processing
  with no state. Their results are members of small sets.
- **The cap of 1000 rows on the inventory record** and the version strings of packages.
  Nor do the repositories change during a patch run.
- **Options, `--poll-once` and the other one-shot modes.** They run one operation and
  end.
- **Steady output through a full Outbox.** The output of a run is bounded, so that no
  behaviour evicts frames for ever. That such a session has only its idle deadline left
  (`session.cpp` 473) is not shown by a property of its own.
- **A cancel that comes too early or between two steps.** Both are in the models as the
  code has them: a cancel that arrives before the worker is registered is acknowledged and
  lost, and one between two steps of a document starts the next script first. Nothing in
  the repository forbids either, and no property does.
- **A second updater.** The `self-update` command and the updater thread of the
  daemon share the download, `.new` and `.old` without a lock.
- **Packaging, tools, tests.** Scripts. The tests were read for what they promise.

## 8. Plan

Done, in the order of importance: the Run Command core, its abstract specification
and the proof that it implements it; `run_shell`; the worker; the control channel;
the data channel; self-update; the calls to AWS with clock, credentials and
responses; proofs of all their safety properties; and abstract specifications of a
session and of an update, with the proofs that the code implements them.

What would come next:

1. a second updater in `SelfUpdate`;
2. `DataChannel` with output for ever (a flag instead of a count), for the ceiling of
   resends under a full Outbox;
3. `resolve()` and the parser of `pkgman`'s transaction as operators, against
   reference definitions;
4. an abstract specification of a document's status that `Worker` implements, and one
   of the control channel.
