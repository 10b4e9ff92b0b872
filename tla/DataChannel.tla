----------------------------- MODULE DataChannel ----------------------------
(***************************************************************************)
(* One interactive session: run_session and the retransmission buffer      *)
(* Outbox (src/session.cpp), between a shell on a pty and a client behind  *)
(* the message gateway (MGS).                                              *)
(*                                                                         *)
(* Shell, client and gateway are external.  Towards the client the gateway *)
(* drops what it gets before the client is bridged, and delivers in order  *)
(* what it gets afterwards; messages to the agent come in any order, or    *)
(* never.  The client may repeat what it has sent, close, or vanish.       *)
(* Stream data is known by its sequence number: 0 is the handshake         *)
(* request, 1 the end of the handshake, then the output of the shell;      *)
(* on the way in, 0 is the handshake response and the rest are keystrokes. *)
(* The shell stands for everything that has its pty open.  It need not     *)
(* take its input, nor ever pause in its output.                           *)
(***************************************************************************)
EXTENDS Naturals, Sequences

CONSTANTS
    MaxResends,     \* kMaxResends
    MaxBuffered,    \* kMaxBuffered, the capacity of the Outbox
    MaxOutput,      \* bound on the chunks the shell writes
    MaxKeys,        \* bound on the keystrokes of the client
    MaxRepeats      \* bound on the messages the client repeats

ASSUME LimitsAssumption == MaxResends \in Nat /\ MaxBuffered \in Nat \ {0}
ASSUME BoundsAssumption == MaxOutput \in Nat /\ MaxKeys \in Nat /\ MaxRepeats \in Nat

VARIABLES
    client,     \* client: "absent" (not bridged yet), "present" or "gone"
    got,        \* client: the stream data it has received
    typed,      \* client: the input messages it has sent
    repeats,    \* client: repeated messages so far
    down,       \* gateway: stream data on the way to the client
    up,         \* gateway: messages on the way to the agent, in no order
    socket,     \* the data channel of the agent is "closed", "open" or "broken"
    pc,         \* agent: the next thing run_session does, or "ended"
    outSeq,     \* agent: out_seq
    outbox,     \* agent: Outbox::buf_
    expected,   \* agent: next_expected
    late,       \* the handshake deadline, later the idle timeout, has passed
    stop,       \* g_stop
    shell,      \* "none", "forked" (no setsid yet), "alive", "exited" or "reaped"
    written,    \* chunks the shell has written to the pty
    read,       \* chunks the agent has read from it
    applied,    \* history: input the pty has taken, by sequence number
    acked,      \* history: input the agent has acknowledged
    inOrder,    \* history: no input came before one that was sent earlier
    evicted,    \* history: stream data dropped by a full Outbox
    how         \* history: "running", or why not: "exit", "unsent" output, "unwritten" input, "cut"

clientVars == <<client, got, typed, repeats>>
netVars    == <<down, up, socket>>
outVars    == <<outSeq, outbox, evicted>>
inVars     == <<expected, applied, acked, inOrder>>
ptyVars    == <<shell, written, read>>
vars == <<clientVars, netVars, pc, outVars, inVars, ptyVars, late, stop, how>>

Ack(q)   == [kind |-> "ack", seq |-> q]
Input(q) == [kind |-> "input", seq |-> q]
Closed   == [kind |-> "closed", seq |-> 0]

Init ==
    /\ client = "absent" /\ got = {} /\ typed = 0 /\ repeats = 0
    /\ down = <<>> /\ up = {} /\ socket = "closed"
    /\ pc = "open" /\ outSeq = 0 /\ outbox = <<>> /\ evicted = {}
    /\ expected = 0 /\ applied = <<>> /\ acked = {} /\ inOrder = TRUE
    /\ shell = "none" /\ written = 0 /\ read = 0
    /\ late = FALSE /\ stop = FALSE /\ how = "running"

-----------------------------------------------------------------------------
(* Client, gateway and shell.  What they do after the end of the session   *)
(* is left out.                                                            *)

Underway == pc # "ended"

\* What the client sends may reach the agent only over a sound channel.
Deliver(messages) == up' = IF socket = "open" THEN up \cup messages ELSE up

Bridge ==
    /\ client = "absent" /\ Underway
    /\ client' = "present"
    /\ UNCHANGED <<got, typed, repeats, netVars, pc, outVars, inVars, ptyVars, late, stop, how>>

\* The client acknowledges each message on its own, and answers the handshake request.
ClientReceives ==
    /\ client = "present" /\ Underway /\ down # <<>>
    /\ LET q == Head(down)
           answers == q = 0 /\ q \notin got
       IN  /\ got' = got \cup {q}
           /\ Deliver(IF answers THEN {Ack(q), Input(0)} ELSE {Ack(q)})
           /\ typed' = IF answers THEN 1 ELSE typed
    /\ down' = Tail(down)
    /\ UNCHANGED <<client, repeats, socket, pc, outVars, inVars, ptyVars, late, stop, how>>

ClientTypes ==
    /\ client = "present" /\ Underway /\ typed \in 1..MaxKeys
    /\ Deliver({Input(typed)}) /\ typed' = typed + 1
    /\ UNCHANGED <<client, got, repeats, down, socket, pc, outVars, inVars, ptyVars, late, stop, how>>

\* A repetition of what is still on the way makes no difference, nor does one on a dead channel.
ClientRepeats ==
    /\ client = "present" /\ socket = "open" /\ repeats < MaxRepeats
    /\ \E q \in 0..typed - 1 : Input(q) \notin up /\ Deliver({Input(q)})
    /\ repeats' = repeats + 1
    /\ UNCHANGED <<client, got, typed, down, socket, pc, outVars, inVars, ptyVars, late, stop, how>>

\* The client leaves; the gateway may tell the agent, or not.
ClientLeaves ==
    /\ client = "present" /\ Underway
    /\ client' = "gone" /\ down' = <<>>
    /\ UNCHANGED up \/ Deliver({Closed})
    /\ UNCHANGED <<got, typed, repeats, socket, pc, outVars, inVars, ptyVars, late, stop, how>>

\* The connection of the agent breaks: nothing comes through it any more, nor an answer
\* to what is still on its way to the client.
Break ==
    /\ socket = "open"
    /\ socket' = "broken" /\ up' = {} /\ down' = <<>>
    /\ UNCHANGED <<clientVars, pc, outVars, inVars, ptyVars, late, stop, how>>

\* setsid, in the child.
ShellLeads ==
    /\ shell = "forked"
    /\ shell' = "alive"
    /\ UNCHANGED <<clientVars, netVars, pc, outVars, inVars, written, read, late, stop, how>>

ShellWrites ==
    /\ shell = "alive" /\ written < MaxOutput
    /\ written' = written + 1
    /\ UNCHANGED <<clientVars, netVars, pc, outVars, inVars, shell, read, late, stop, how>>

ShellExits ==
    /\ shell \in {"forked", "alive"}
    /\ shell' = "exited"
    /\ UNCHANGED <<clientVars, netVars, pc, outVars, inVars, written, read, late, stop, how>>

Stop ==
    /\ ~stop /\ Underway
    /\ stop' = TRUE
    /\ UNCHANGED <<clientVars, netVars, pc, outVars, inVars, ptyVars, late, how>>

\* The handshake deadline of 20 s, or 20 minutes without a message.
TimePasses ==
    /\ pc \in {"greet", "await", "pump", "drain", "recv", "write"} /\ ~late
    /\ late' = TRUE
    /\ UNCHANGED <<clientVars, netVars, pc, outVars, inVars, ptyVars, stop, how>>

-----------------------------------------------------------------------------
(* Sending.                                                                *)

\* What the agent sends reaches the client only over a sound channel and once the
\* gateway has bridged it.
Wire(data) == down' = IF socket = "open" /\ client = "present" THEN down \o data ELSE down

\* Mutant: the buffer grows without a bound.
BufferEverything(entries) == outbox' = outbox \o entries /\ UNCHANGED evicted

\* Outbox::add: a full buffer drops its oldest entry.
Buffer(entries) ==
    LET all  == outbox \o entries
        over == IF Len(all) > MaxBuffered THEN Len(all) - MaxBuffered ELSE 0
    IN  /\ outbox' = SubSeq(all, over + 1, Len(all))
        /\ evicted' = evicted \cup {all[i].seq : i \in 1..over}

\* send_stream, n times.
SendStream(n) ==
    /\ outSeq' = outSeq + n
    /\ Buffer([i \in 1..n |-> [seq |-> outSeq + i - 1, resends |-> 0]])
    /\ Wire([i \in 1..n |-> outSeq + i - 1])

\* Mutant: an acknowledgement clears one entry too many.
AcknowledgeOneMore(q) ==
    \E n \in 0..Len(outbox) :
        /\ \A i \in 1..n : outbox[i].seq <= q + 1
        /\ n < Len(outbox) => outbox[n + 1].seq > q + 1
        /\ outbox' = SubSeq(outbox, n + 1, Len(outbox))

\* Outbox::ack: the front is popped as long as it is not newer than what is acknowledged.
Acknowledge(q) ==
    \E n \in 0..Len(outbox) :
        /\ \A i \in 1..n : outbox[i].seq <= q
        /\ n < Len(outbox) => outbox[n + 1].seq > q
        /\ outbox' = SubSeq(outbox, n + 1, Len(outbox))

\* due_resend: the oldest entry is not due, is sent again, or has no tries left.
NothingDue == UNCHANGED <<outbox, down>>
Resend ==
    /\ outbox # <<>> /\ Head(outbox).resends < MaxResends
    /\ outbox' = [outbox EXCEPT ![1].resends = @ + 1]
    /\ Wire(<<Head(outbox).seq>>)
PeerIsDead == outbox # <<>> /\ Head(outbox).resends >= MaxResends

\* The session ends: before the shell by a return, afterwards by way of the teardown.
End == pc' = "ended" /\ how' = "cut"
Finish(why) == pc' = "teardown" /\ how' = why

-----------------------------------------------------------------------------
(* The handshake.                                                          *)

\* CreateDataChannel, the upgrade and OpenDataChannel, then the handshake request.
Open ==
    /\ pc = "open"
    /\ socket' = "open" /\ pc' = "greet"
    /\ outSeq' = 1 /\ outbox' = <<[seq |-> 0, resends |-> 0]>>
    /\ down' = IF client = "present" THEN <<0>> ELSE <<>>
    /\ UNCHANGED <<clientVars, up, evicted, inVars, ptyVars, late, stop, how>>

OpenFails ==
    /\ pc = "open"
    /\ End
    /\ UNCHANGED <<clientVars, netVars, outVars, inVars, ptyVars, late, stop>>

\* The head of the handshake loop: stop, deadline, resend.
Greet ==
    /\ pc = "greet" /\ ~stop /\ ~late
    /\ NothingDue \/ Resend
    /\ pc' = "await"
    /\ UNCHANGED <<clientVars, up, socket, outSeq, evicted, inVars, ptyVars, late, stop, how>>

GiveUpHandshake ==
    /\ pc = "greet"
    /\ stop \/ late \/ PeerIsDead
    /\ End
    /\ UNCHANGED <<clientVars, netVars, outVars, inVars, ptyVars, late, stop>>

\* recv within the handshake or the session returns one of the messages.
Receive(message) == message \in up /\ up' = up \ {message}
Inputs == {m.seq : m \in {n \in up : n.kind = "input"}}
Acks   == {m.seq : m \in {n \in up : n.kind = "ack"}}

\* recv times out, with nothing on the way or with what is on the way late or lost.
ReceiveNothing ==
    /\ pc \in {"await", "recv"} /\ socket = "open"
    /\ pc' = IF pc = "await" THEN "greet" ELSE "pump"
    /\ UNCHANGED <<clientVars, netVars, outVars, inVars, ptyVars, late, stop, how>>

AwaitAck ==
    /\ pc = "await"
    /\ \E q \in Acks : Receive(Ack(q)) /\ Acknowledge(q)
    /\ pc' = "greet"
    /\ UNCHANGED <<clientVars, down, socket, outSeq, evicted, inVars, ptyVars, late, stop, how>>

\* The channel is closed or broken.
AwaitFails ==
    /\ pc = "await"
    /\ \/ Receive(Closed) /\ End
       \/ socket = "broken" /\ End /\ UNCHANGED up
    /\ UNCHANGED <<clientVars, down, socket, outVars, inVars, ptyVars, late, stop>>

\* send_ack, whatever comes of the input.
Settle(q) ==
    /\ acked' = acked \cup {q}
    /\ inOrder' = (inOrder /\ 0..q - 1 \subseteq acked)

\* Anything else is acknowledged too, and dropped: "so MGS stops resending".
AwaitOther ==
    /\ pc = "await"
    /\ \E q \in Inputs \ {0} : Receive(Input(q)) /\ Settle(q)
    /\ pc' = "greet"
    /\ UNCHANGED <<clientVars, down, socket, outVars, expected, applied, ptyVars, late, stop, how>>

Response == pc = "await" /\ Receive(Input(0)) /\ Settle(0)

\* The client has not done what it was asked for.
Refuse ==
    /\ Response
    /\ End
    /\ UNCHANGED <<clientVars, down, socket, outVars, expected, applied, ptyVars, late, stop>>

\* Mutant: the sequence number of the handshake response is not carried over.
ExpectFrom(q) == 0

\* next_expected after a handshake response with sequence number q.
ExpectAfter(q) == q + 1

\* HandshakeComplete is sent and the shell spawned.
StartShell ==
    /\ Response
    /\ expected' = ExpectAfter(0)
    /\ SendStream(1)
    /\ shell' = "forked" /\ pc' = "pump" /\ late' = FALSE
    /\ UNCHANGED <<clientVars, socket, applied, written, read, stop, how>>

\* The pty or the fork fails: one more message, and the session is over.
ShellFails ==
    /\ Response
    /\ SendStream(2)
    /\ End
    /\ UNCHANGED <<clientVars, socket, expected, applied, ptyVars, late, stop>>

-----------------------------------------------------------------------------
(* The bridge.                                                             *)

\* Mutant: an idle session is left alone.
NeverIdle == FALSE

\* No message for kIdleTimeoutSeconds.
Idle == late

Pump ==
    /\ pc = "pump" /\ ~stop /\ ~Idle
    /\ NothingDue \/ Resend
    /\ pc' = "drain"
    /\ UNCHANGED <<clientVars, up, socket, outSeq, evicted, inVars, ptyVars, late, stop, how>>

\* The loop ends at its head.
LeaveLoop ==
    /\ pc = "pump"
    /\ stop \/ PeerIsDead \/ Idle
    /\ Finish("cut")
    /\ UNCHANGED <<clientVars, netVars, outVars, inVars, ptyVars, late, stop>>

\* One chunk of the output is sent; if that is seen to fail, the loop ends once the pty is
\* empty.
ReadOutput ==
    /\ pc = "drain" /\ read < written
    /\ read' = read + 1
    /\ SendStream(1)
    /\ how' \in {how} \cup IF socket = "open" THEN {} ELSE {"unsent"}
    /\ UNCHANGED <<clientVars, up, socket, pc, inVars, shell, written, late, stop>>

\* The pty is empty, and its shell there.  A shell that goes on writing keeps the loop going.
OutputDrained ==
    /\ pc = "drain" /\ read = written
    /\ shell \in {"forked", "alive"}
    /\ pc' = IF how = "running" THEN "recv" ELSE "teardown"
    /\ UNCHANGED <<clientVars, netVars, outVars, inVars, ptyVars, late, stop, how>>

\* Mutant: the exit of the shell is noticed before its output.
ShellEndsAtOnce ==
    /\ pc = "drain" /\ shell = "exited"
    /\ Finish("exit")
    /\ UNCHANGED <<clientVars, netVars, outVars, inVars, ptyVars, late, stop>>

\* The pty is empty, and closed by its shell.
ShellEnds ==
    /\ pc = "drain" /\ read = written
    /\ shell = "exited"
    /\ Finish(IF how = "running" THEN "exit" ELSE how)
    /\ UNCHANGED <<clientVars, netVars, outVars, inVars, ptyVars, late, stop>>

ReceiveAck ==
    /\ pc = "recv"
    /\ \E q \in Acks : Receive(Ack(q)) /\ Acknowledge(q)
    /\ pc' = "pump" /\ late' = FALSE
    /\ UNCHANGED <<clientVars, down, socket, outSeq, evicted, inVars, ptyVars, stop, how>>

\* Mutant: a keystroke is applied whenever it comes.
AnyInput(q) == q > 0

\* Input is applied only in order.
Due(q) == q = expected

\* Keystrokes are always acknowledged; those that are due go to the pty, the others nowhere.
ReceiveInput ==
    /\ pc = "recv"
    /\ \E q \in Inputs :
        /\ Receive(Input(q)) /\ Settle(q)
        /\ IF Due(q) THEN expected' = q + 1 /\ pc' = "write"
                     ELSE UNCHANGED expected /\ pc' = "pump"
    /\ late' = FALSE
    /\ UNCHANGED <<clientVars, down, socket, outVars, applied, ptyVars, stop, how>>

\* The pty takes the keystrokes.  One that is full does not, and the loop that tries again
\* looks at nothing else: not at the stop flag, the deadlines, nor what arrives.
InputTaken ==
    /\ pc = "write"
    /\ applied' = Append(applied, expected - 1)
    /\ pc' = "pump"
    /\ UNCHANGED <<clientVars, netVars, outVars, expected, acked, inOrder, ptyVars, late, stop, how>>

\* The pty of a shell that has exited refuses them.
WriteFails ==
    /\ pc = "write" /\ shell = "exited"
    /\ Finish("unwritten")
    /\ UNCHANGED <<clientVars, netVars, outVars, inVars, ptyVars, late, stop>>

\* channel_closed, or recv fails.
ReceiveEnd ==
    /\ pc = "recv"
    /\ \/ Receive(Closed) /\ Finish("cut")
       \/ socket = "broken" /\ Finish("cut") /\ UNCHANGED up
    /\ UNCHANGED <<clientVars, down, socket, outVars, inVars, ptyVars, late, stop>>

\* SIGKILL goes to a group the child has not founded yet: waitpid waits for a living shell.
KillMisses ==
    /\ pc = "teardown" /\ shell = "forked"
    /\ pc' = "wait"
    /\ UNCHANGED <<clientVars, netVars, outVars, inVars, ptyVars, late, stop, how>>

\* SIGKILL to the shell, waitpid, the exit code, close.
Teardown ==
    /\ \/ pc = "teardown" /\ shell # "forked"
       \/ pc = "wait" /\ shell = "exited"
    /\ shell' = "reaped"
    /\ SendStream(1)
    /\ socket' = "closed" /\ pc' = "ended" /\ up' = {}
    /\ UNCHANGED <<clientVars, inVars, written, read, late, stop, how>>

-----------------------------------------------------------------------------
Agent ==
    \/ Open \/ OpenFails
    \/ Greet \/ GiveUpHandshake
    \/ AwaitAck \/ AwaitOther \/ AwaitFails \/ Refuse \/ StartShell \/ ShellFails
    \/ Pump \/ LeaveLoop
    \/ ReadOutput \/ ShellEnds
    \/ ReceiveNothing \/ ReceiveAck \/ ReceiveInput \/ ReceiveEnd
    \/ WriteFails
    \/ KillMisses \/ Teardown

\* The two loops that go on until the shell pauses in its output, or takes its input.
Held == OutputDrained \/ InputTaken

Client == Bridge \/ ClientReceives \/ ClientTypes \/ ClientRepeats \/ ClientLeaves

Next ==
    \/ Agent \/ Held
    \/ Client
    \/ Break
    \/ ShellLeads \/ ShellWrites \/ ShellExits
    \/ Stop
    \/ TimePasses

Spec == Init /\ [][Next]_vars

\* The thread of the session is scheduled and time passes; client, gateway and shell owe
\* nothing, not even a pause in the output or the reading of the input.
FairSpec == Spec /\ WF_vars(Agent) /\ WF_vars(TimePasses)

-----------------------------------------------------------------------------
(* Properties.                                                             *)

Buffered == {outbox[i].seq : i \in DOMAIN outbox}

\* The state is well formed: the Outbox is sorted, within its bound, and holds only what
\* has been sent; no more output is read than was written.
TypeOK ==
    /\ client \in {"absent", "present", "gone"}
    /\ socket \in {"closed", "open", "broken"}
    /\ pc \in {"open", "greet", "await", "pump", "drain", "recv", "write", "teardown", "wait",
               "ended"}
    /\ shell \in {"none", "forked", "alive", "exited", "reaped"}
    /\ got \subseteq 0..outSeq - 1 /\ Buffered \subseteq 0..outSeq - 1
    /\ Len(outbox) <= MaxBuffered
    /\ \A i, j \in DOMAIN outbox : i < j => outbox[i].seq < outbox[j].seq
    /\ \A i \in DOMAIN outbox : outbox[i].resends \in 0..MaxResends
    /\ read \in 0..written
    /\ late \in BOOLEAN /\ stop \in BOOLEAN

\* session.cpp, "ack always, apply only when in-order (a resend of an already-applied
\* sequence would double-type otherwise)": each keystroke reaches the shell once, in the
\* order in which it was typed, in whatever order and how often it arrives.
KeysOnce == \A i \in DOMAIN applied : applied[i] = i

\* Input that is acknowledged, and so never sent again, has reached the shell, but for the
\* one being written: what the client sends right after its handshake response must not fall
\* between the two loops.  The exception is input that overtakes another: it is acknowledged
\* and dropped, and so is everything after it.
AckedInputIsApplied ==
    inOrder =>
        acked \ {0} \subseteq
            1..Len(applied) + (IF pc = "write" \/ how = "unwritten" THEN 1 ELSE 0)

\* Stream data leaves the Outbox only when the client has it or the buffer is full: a
\* frame the gateway dropped before it bridged the client can still be sent again.
NothingForgotten == 0..outSeq - 1 \subseteq got \cup Buffered \cup evicted

\* A shell that exits by itself ends the session only after all of its output was sent.
OutputBeforeExit == how = "exit" => read = written

Session == INSTANCE ShellSession WITH
    sent    <- outSeq,
    seen    <- got,
    shell   <- IF shell = "forked" THEN "alive" ELSE shell,
    outcome <- IF pc # "ended" THEN "none" ELSE IF how = "exit" THEN "exit" ELSE "cut"

\* session.h, what a session is to its two ends: whatever is lost, repeated, evicted or cut
\* off, client and shell see the two ordered streams of ShellSession around one shell, nothing
\* happens after the end, and a shell that exits by itself is heard out first.
ImplementsSession == Session!Spec

\* The places where only the shell can let the thread go: the drain of an output without a
\* pause, a write that the pty does not take, and waitpid when the SIGKILL came too early.
AtShellsMercy == pc \in {"drain", "write", "wait"}

\* session.h, "so the session can be reaped instead of leaking a shell": when the client
\* leaves, told or not, when the channel breaks or the agent stops, the session ends and
\* its shell is reaped, unless the shell itself holds the thread for ever.
Reaped ==
    []<>~AtShellsMercy =>
        (client = "gone" \/ socket = "broken" \/ stop ~>
            pc = "ended" /\ shell \in {"none", "reaped"})
=============================================================================
