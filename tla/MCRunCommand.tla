---------------------------- MODULE MCRunCommand ----------------------------
(***************************************************************************)
(* Instances of RunCommand for TLC.                                        *)
(***************************************************************************)
EXTENDS RunCommand, TLC

CONSTANTS c1, c2, w1, w2

Cancel(c) == [kind |-> "cancel", cmd |-> c]

MCCommands == {c1, c2}
\* Two commands, one of which is cancelled.
MCMessages == {Send(c1), Send(c2), Cancel(c1)}
\* One good and one malformed command, a message without a topic and one of an unknown topic.
MCOddMessages == {Send(c1), Send(c2), [kind |-> "blank", cmd |-> c2], [kind |-> "stray", cmd |-> c1]}
MCMalformed == {Send(c2)}
MCNoMalformed == {}
WorkerSymmetry == Permutations(Workers)
=============================================================================
