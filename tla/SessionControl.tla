--------------------------- MODULE SessionControl ---------------------------
(***************************************************************************)
(* The control channel of Session Manager: session::run and the counter    *)
(* g_active_sessions (src/session.cpp), the session thread that calls run  *)
(* again and again, and the end of main() that waits for it                *)
(* (src/main.cpp).  A session is one detached thread in run_session, whose *)
(* inside is module DataChannel; here it starts and ends.                  *)
(*                                                                         *)
(* The message gateway (MGS) is external: it offers a StartSession as long *)
(* as the session has not started, and may offer it again afterwards.      *)
(***************************************************************************)
EXTENDS Naturals, FiniteSets

CONSTANTS
    Sessions,       \* session ids
    Refused,        \* sessions whose request run() cannot or will not serve
    Threads,        \* thread slots (bounds the sessions alive)
    None,           \* "no session"
    MaxFailures,    \* bound on failed connects and lost or closed channels
    MaxRepeats      \* bound on StartSession messages for a session that has started

ASSUME SessionsAssumption == Refused \subseteq Sessions /\ None \notin Sessions
ASSUME BoundsAssumption == MaxFailures \in Nat /\ MaxRepeats \in Nat
ASSUME FinitenessAssumption == IsFiniteSet(Threads)

VARIABLES
    asked,      \* MGS: the sessions a client has asked for
    repeats,    \* MGS: repeated StartSession messages so far
    channel,    \* control channel: "down", "up" or "dead" (half open)
    pc,         \* session thread: "again" (between two runs), "connect", "loop", "recv",
                \* "drain" or "ended"
    seen,       \* run: seen_sessions
    active,     \* g_active_sessions
    phase,      \* session threads: "idle", "starting" (uses the provider) or "shell"
    task,       \* the session of each thread
    stop,       \* g_stop
    main,       \* main thread: "poll", "drain", "join" or "returned"
    shells,     \* history: threads started for each session
    opened,     \* history: control channels opened
    ending,     \* history: how the session thread ended: "none", "drained", "expired"
                \* or "left" (without a drain)
    failures    \* bound: failures of the control channel so far

mgsVars    == <<asked, repeats>>
threadVars == <<active, phase, task>>
mainVars   == <<stop, main>>
historyVars == <<shells, opened, ending>>
vars == <<mgsVars, channel, pc, seen, threadVars, mainVars, historyVars, failures>>

Live(t) == phase[t] # "idle"

Init ==
    /\ asked = {} /\ repeats = 0
    /\ channel = "down" /\ pc = "again" /\ seen = {}
    /\ active = 0
    /\ phase = [t \in Threads |-> "idle"] /\ task = [t \in Threads |-> None]
    /\ stop = FALSE /\ main = "poll"
    /\ shells = [s \in Sessions |-> 0] /\ opened = 0 /\ ending = "none"
    /\ failures = 0

-----------------------------------------------------------------------------
(* Clients, the gateway and the network.                                   *)

\* A client asks for a session.
Ask(s) ==
    /\ s \notin asked
    /\ asked' = asked \cup {s}
    /\ UNCHANGED <<repeats, channel, pc, seen, threadVars, mainVars, historyVars, failures>>

\* The connection is lost without a word to either side.
HalfOpen ==
    /\ channel = "up" /\ failures < MaxFailures
    /\ channel' = "dead" /\ failures' = failures + 1
    /\ UNCHANGED <<mgsVars, pc, seen, threadVars, mainVars, historyVars>>

-----------------------------------------------------------------------------
(* session::run on the session thread.                                     *)

\* The session thread goes on to another run, unless g_stop is set.
Again ==
    /\ pc = "again"
    /\ IF stop THEN pc' = "ended" /\ ending' = "left" ELSE pc' = "connect" /\ UNCHANGED ending
    /\ UNCHANGED <<mgsVars, channel, seen, threadVars, mainVars, shells, opened, failures>>

\* CreateControlChannel, credentials, upgrade and OpenControlChannel succeed.
Connect ==
    /\ pc = "connect"
    /\ channel' = "up" /\ pc' = "loop" /\ seen' = {}
    /\ opened' = opened + 1
    /\ UNCHANGED <<mgsVars, threadVars, mainVars, shells, ending, failures>>

\* Control leaves run without a drain; the pause before the next run is left out.
Leave == channel' = "down" /\ pc' = "again"

\* One of them fails: run returns false.
ConnectFails ==
    /\ pc = "connect" /\ failures < MaxFailures
    /\ Leave
    /\ failures' = failures + 1
    /\ UNCHANGED <<mgsVars, seen, threadVars, mainVars, historyVars>>

\* The head of the loop: g_stop is not set, and the thread waits for a frame.
Loop ==
    /\ pc = "loop" /\ ~stop
    /\ pc' = "recv"
    /\ UNCHANGED <<mgsVars, channel, seen, threadVars, mainVars, historyVars, failures>>

\* No frame within a second, or one that changes nothing.
ReceiveNothing ==
    /\ pc = "recv"
    /\ pc' = "loop"
    /\ UNCHANGED <<mgsVars, channel, seen, threadVars, mainVars, historyVars, failures>>

\* A StartSession arrives: the gateway offers a session that has not started, or
\* repeats one that has.
ReceiveStart(s) ==
    /\ pc = "recv" /\ channel = "up" /\ s \in asked
    /\ IF shells[s] = 0 THEN UNCHANGED repeats
                       ELSE repeats < MaxRepeats /\ repeats' = repeats + 1
    /\ pc' = "loop"
    /\ UNCHANGED <<asked, channel, mainVars, opened, ending, failures>>

\* Mutant: the session id is not remembered.
RememberNothing(s) == UNCHANGED seen

\* seen_sessions.insert
Remember(s) == seen' = seen \cup {s}

\* Mutant: the thread is started and the session never counted.
SpawnUncounted(t, s) ==
    /\ phase[t] = "idle"
    /\ phase' = [phase EXCEPT ![t] = "starting"]
    /\ task' = [task EXCEPT ![t] = s]
    /\ UNCHANGED active

\* fetch_add on g_active_sessions, then the detached thread.
Spawn(t, s) ==
    /\ phase[t] = "idle"
    /\ phase' = [phase EXCEPT ![t] = "starting"]
    /\ task' = [task EXCEPT ![t] = s]
    /\ active' = active + 1

\* A session that is new on this channel.
StartSession(s) ==
    /\ ReceiveStart(s)
    /\ s \notin Refused /\ s \notin seen
    /\ Remember(s)
    /\ \E t \in Threads : Spawn(t, s)
    /\ shells' = [shells EXCEPT ![s] = @ + 1]

\* A repeated one, or one that is not supported; nothing is sent back.
IgnoreStart(s) ==
    /\ ReceiveStart(s)
    /\ s \in Refused \cup seen
    /\ UNCHANGED <<seen, threadVars, shells>>

\* channel_closed: run returns true.
ServerCloses ==
    /\ pc = "recv" /\ channel = "up" /\ failures < MaxFailures
    /\ Leave
    /\ failures' = failures + 1
    /\ UNCHANGED <<mgsVars, seen, threadVars, mainVars, historyVars>>

\* Mutant: a failed receive is taken for a timeout.
ReceiveAgain ==
    /\ pc = "recv" /\ channel = "dead"
    /\ pc' = "loop"
    /\ UNCHANGED <<mgsVars, channel, seen, threadVars, mainVars, historyVars, failures>>

\* recv fails, at the latest when a ping has found no peer: run returns false.
ReceiveFails ==
    /\ pc = "recv" /\ channel = "dead"
    /\ Leave
    /\ UNCHANGED <<mgsVars, seen, threadVars, mainVars, historyVars, failures>>

\* The loop sees g_stop: close, and wait for the sessions.
StopServing ==
    /\ pc = "loop" /\ stop
    /\ channel' = "down" /\ pc' = "drain"
    /\ UNCHANGED <<mgsVars, seen, threadVars, mainVars, historyVars, failures>>

\* Every session is over: run returns true, and the thread ends.
Drained ==
    /\ pc = "drain" /\ active = 0
    /\ pc' = "ended" /\ ending' = "drained"
    /\ UNCHANGED <<mgsVars, channel, seen, threadVars, mainVars, shells, opened, failures>>

\* Mutant: the wait has no end.
DrainForEver == FALSE /\ UNCHANGED vars

\* The wait of 15 s is over, with sessions still alive.
DrainExpires ==
    /\ pc = "drain" /\ active # 0
    /\ pc' = "ended" /\ ending' = "expired"
    /\ UNCHANGED <<mgsVars, channel, seen, threadVars, mainVars, shells, opened, failures>>

-----------------------------------------------------------------------------
(* Session threads, and main.                                              *)

\* The data channel is open and the shell runs: the provider is not needed any more.
SessionOpens(t) ==
    /\ phase[t] = "starting"
    /\ phase' = [phase EXCEPT ![t] = "shell"]
    /\ UNCHANGED <<mgsVars, channel, pc, seen, active, task, mainVars, historyVars, failures>>

\* run_session returns, on any path: SessionGuard counts it out.
SessionEnds(t) ==
    /\ Live(t)
    /\ phase' = [phase EXCEPT ![t] = "idle"]
    /\ task' = [task EXCEPT ![t] = None]
    /\ active' = active - 1
    /\ UNCHANGED <<mgsVars, channel, pc, seen, mainVars, historyVars, failures>>

\* SIGTERM.
Stop ==
    /\ ~stop
    /\ stop' = TRUE
    /\ UNCHANGED <<mgsVars, channel, pc, seen, threadVars, main, historyVars, failures>>

\* main leaves the poll loop, drains the commands, and joins the other threads; its
\* last act is to return, which destroys the credential provider.
MainStep ==
    /\ stop
    /\ \/ main = "poll" /\ main' = "drain"
       \/ main = "drain" /\ main' = "join"
       \/ main = "join" /\ pc = "ended" /\ main' = "returned"
    /\ UNCHANGED <<mgsVars, channel, pc, seen, threadVars, stop, historyVars, failures>>

-----------------------------------------------------------------------------
SessionThread ==
    \/ Again
    \/ Connect \/ ConnectFails
    \/ Loop \/ ReceiveNothing \/ ServerCloses \/ ReceiveFails
    \/ StopServing \/ Drained \/ DrainExpires

Next ==
    \/ SessionThread
    \/ \E s \in Sessions : Ask(s) \/ StartSession(s) \/ IgnoreStart(s)
    \/ HalfOpen
    \/ \E t \in Threads : SessionOpens(t) \/ SessionEnds(t)
    \/ Stop
    \/ MainStep

Spec == Init /\ [][Next]_vars

\* The session thread and main are scheduled.  A StartSession waits in the socket until
\* recv reads it, and a ping every 45 s finds out that the peer is gone.  Nothing is
\* assumed of the sessions: a shell may stay for ever.
FairSpec ==
    /\ Spec
    /\ WF_vars(SessionThread) /\ SF_vars(ReceiveFails)
    /\ \A s \in Sessions : SF_vars(StartSession(s))
    /\ WF_vars(MainStep)

-----------------------------------------------------------------------------
(* Properties.                                                             *)

\* The state is well formed, and g_active_sessions counts the threads alive.
TypeOK ==
    /\ asked \subseteq Sessions /\ repeats \in Nat
    /\ channel \in {"down", "up", "dead"}
    /\ pc \in {"again", "connect", "loop", "recv", "drain", "ended"}
    /\ seen \subseteq Sessions
    /\ phase \in [Threads -> {"idle", "starting", "shell"}]
    /\ task \in [Threads -> Sessions \cup {None}]
    /\ active = Cardinality({t \in Threads : Live(t)})
    /\ stop \in BOOLEAN
    /\ main \in {"poll", "drain", "join", "returned"}
    /\ shells \in [Sessions -> Nat] /\ opened \in Nat
    /\ ending \in {"none", "drained", "expired", "left"}
    /\ failures \in Nat

\* session.cpp, "a redelivery storm cannot spawn a second pty/shell for the same
\* session": a session gets at most one shell for each control channel opened.
OneShellPerChannel == \A s \in Sessions : shells[s] <= opened

\* When the drain of run reports that no session is left, none is, and none will be:
\* main may destroy what they share.
DrainedMeansQuiet == ending = "drained" => \A t \in Threads : ~Live(t)

\* Whatever the sessions and the channel do, SIGTERM brings main to its end.
ShutdownCompletes == stop ~> main = "returned"

\* A session somebody asks for gets its shell, through failed connects, channels closed
\* by the service and connections lost in silence, unless the agent is stopped.
SessionServed ==
    \A s \in Sessions \ Refused : s \in asked ~> shells[s] > 0 \/ stop

\* session.cpp, "so shutdown can wait for their detached worker threads to finish before
\* main() tears down the shared credential provider": when main has returned, no session
\* uses the provider, unless the bounded wait for it ran out.
ProviderOutlivesSessions ==
    main = "returned" /\ ending # "expired" => \A t \in Threads : phase[t] # "starting"
=============================================================================
