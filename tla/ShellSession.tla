---------------------------- MODULE ShellSession ----------------------------
(***************************************************************************)
(* What an interactive session promises its client and its shell, with no  *)
(* gateway, buffer, retransmission or deadline in sight: two streams, each *)
(* in order, without a gap and without a repetition, around one shell.     *)
(*                                                                         *)
(* Frames to the client are numbered from 0: the handshake request, the    *)
(* end of the handshake, the output of the shell, its exit code.  So is    *)
(* the input: the handshake response, then the keystrokes.                 *)
(***************************************************************************)
EXTENDS Naturals, Sequences

VARIABLES
    sent,       \* the number of frames sent to the client
    seen,       \* the frames the client has
    typed,      \* the number of messages the client has sent
    applied,    \* the input the shell has
    shell,      \* "none", "alive", "exited" or "reaped"
    written,    \* the chunks of output of the shell
    read,       \* those that were sent
    outcome     \* "none" as long as the session lasts, "exit" or "cut"

vars == <<sent, seen, typed, applied, shell, written, read, outcome>>

Init ==
    /\ sent = 0 /\ seen = {} /\ typed = 0 /\ applied = <<>>
    /\ shell = "none" /\ written = 0 /\ read = 0 /\ outcome = "none"

Lasts  == outcome = "none"
Bridged == shell \in {"alive", "exited"} /\ Lasts

\* The client gets the next frame, and answers the first.
See ==
    /\ Lasts
    /\ \E q \in 0..sent - 1 :
        /\ q \notin seen /\ 0..q - 1 \subseteq seen
        /\ seen' = seen \cup {q}
        /\ typed' = IF q = 0 THEN 1 ELSE typed
    /\ UNCHANGED <<sent, applied, shell, written, read, outcome>>

Type ==
    /\ Lasts /\ typed > 0
    /\ typed' = typed + 1
    /\ UNCHANGED <<sent, seen, applied, shell, written, read, outcome>>

Greet ==
    /\ Lasts /\ sent = 0
    /\ sent' = 1
    /\ UNCHANGED <<seen, typed, applied, shell, written, read, outcome>>

\* A client that has answered gets a shell, once.
Start ==
    /\ Lasts /\ shell = "none" /\ sent = 1 /\ typed > 0
    /\ shell' = "alive" /\ sent' = 2
    /\ UNCHANGED <<seen, typed, applied, written, read, outcome>>

\* Or it does not: with or without an answer, and perhaps an apology.
Abandon ==
    /\ Lasts /\ shell = "none"
    /\ outcome' = "cut"
    /\ sent' \in {sent} \cup IF typed > 0 THEN {sent + 2} ELSE {}
    /\ UNCHANGED <<seen, typed, applied, shell, written, read>>

\* The next of the input reaches the shell.
Apply ==
    LET next == Len(applied) + 1
    IN  /\ Bridged /\ next < typed
        /\ applied' = Append(applied, next)
        /\ UNCHANGED <<sent, seen, typed, shell, written, read, outcome>>

Write ==
    /\ shell = "alive"
    /\ written' = written + 1
    /\ UNCHANGED <<sent, seen, typed, applied, shell, read, outcome>>

Exit ==
    /\ shell = "alive"
    /\ shell' = "exited"
    /\ UNCHANGED <<sent, seen, typed, applied, written, read, outcome>>

Show ==
    /\ Bridged /\ read < written
    /\ read' = read + 1 /\ sent' = sent + 1
    /\ UNCHANGED <<seen, typed, applied, shell, written, outcome>>

\* The shell is reaped and its exit code sent.  Unless the session was cut, that is the end of
\* a shell that has exited and whose output was all sent.
Close ==
    /\ Bridged
    /\ shell' = "reaped" /\ sent' = sent + 1
    /\ \/ outcome' = "exit" /\ shell = "exited" /\ read = written
       \/ outcome' = "cut"
    /\ UNCHANGED <<seen, typed, applied, written, read>>

Next ==
    \/ See \/ Type
    \/ Greet \/ Start \/ Abandon
    \/ Apply
    \/ Write \/ Exit \/ Show
    \/ Close

Spec == Init /\ [][Next]_vars
=============================================================================
