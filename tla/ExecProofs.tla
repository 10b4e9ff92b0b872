----------------------------- MODULE ExecProofs -----------------------------
(***************************************************************************)
(* Machine-checked proofs about Exec, for a script of any number of        *)
(* processes and any of the faults.                                        *)
(*                                                                         *)
(* The steps of run_shell are interleaved with those of a script that does *)
(* as it likes, so the invariant says what a script cannot undo: nobody    *)
(* joins a group from outside (GroupInv), nobody gets back a pipe that has *)
(* no writer, so what was written when it is closed is all there will be   *)
(* (PipeInv), and a shell that is over has a code (ShellInv).              *)
(***************************************************************************)
EXTENDS Exec, TLAPS

\* Before run_shell has forked nothing lives, and before the child runs it is alone.
ShellInv ==
    /\ pc = "start" => life[Shell] = "none" /\ ~term /\ ~kill /\ open = {}
    /\ life[Shell] \in {"none", "new"} => \A p \in Descendants : life[p] = "none"
    /\ life[Shell] \in {"zombie", "gone"} => code # "unset"
    /\ life[Shell] = "none" => pc \in {"start", "done"}

\* A process has to have been started to be in the group, and SIGKILL left none of them.
GroupInv ==
    /\ \A p \in group : life[p] # "none"
    /\ term /\ due => life[Shell] # "new"
    /\ kill => term /\ life[Shell] # "new" /\ \A p \in Procs : ~InGroup(p)

\* The buffer holds what fits of what was read, the mark tells whether something did not, and
\* a pipe that ended was read whole and has no writers.
PipeInv ==
    /\ taken \in [Pipes -> Nat] /\ captured \in [Pipes -> Nat]
    /\ clipped \subseteq Pipes /\ unread \subseteq Pipes
    /\ \A f \in Pipes :
        /\ taken[f] <= written[f]
        /\ captured[f] = IF taken[f] > Capacity THEN Capacity ELSE taken[f]
        /\ f \in clipped <=> taken[f] > Capacity
        /\ f \notin open \cup unread => Writers(f) = {} /\ taken[f] = written[f]

\* What the result says so far.
ResultInv ==
    /\ result \in [exit : Exits, timed_out : BOOLEAN, cancelled : BOOLEAN, error : BOOLEAN]
    /\ ~(result.timed_out /\ result.cancelled)
    /\ term => result.timed_out \/ result.cancelled
    /\ pc # "done" => result.exit = "unset"
    /\ pc \notin {"reap", "done"} => ~result.error
    /\ pc = "start" => ~result.timed_out /\ ~result.cancelled
    /\ pc = "done" /\ ~result.error => life[Shell] = "gone" /\ result.exit = code
    /\ pc \in {"reap", "done"} /\ ~result.error /\ ~result.cancelled /\ ~result.timed_out =>
        open = {}

StateOK ==
    /\ life \in [Procs -> {"none", "new", "alive", "zombie", "gone"}]
    /\ holds \in [Procs -> SUBSET Pipes]
    /\ deaf \subseteq Procs /\ group \subseteq Procs
    /\ code \in Exits
    /\ written \in [Pipes -> 0..MaxOutput]
    /\ pc \in {"start", "poll", "check", "reap", "done"}
    /\ open \subseteq Pipes
    /\ cancel \in BOOLEAN /\ due \in BOOLEAN /\ term \in BOOLEAN /\ kill \in BOOLEAN

Inv == StateOK /\ ShellInv /\ GroupInv /\ PipeInv /\ ResultInv

-----------------------------------------------------------------------------
(* The invariant is inductive.                                             *)

\* The initial states satisfy the invariant.
LEMMA Starts == Init => Inv
  <1> SUFFICES ASSUME Init
               PROVE  Inv
    OBVIOUS
  <1>1. StateOK
    <2>1. written \in [Pipes -> 0..MaxOutput]
      BY ExecAssumption DEF Init
    <2>2. QED
      BY <2>1 DEF Init, StateOK, Exits
  <1>2. ShellInv
    BY ExecAssumption DEF Init, ShellInv, Procs
  <1>3. GroupInv
    BY DEF Init, GroupInv
  <1>4. PipeInv
    BY ExecAssumption DEF Init, PipeInv, Writers
  <1>5. ResultInv
    BY DEF Init, ResultInv, Exits
  <1>6. QED
    BY <1>1, <1>2, <1>3, <1>4, <1>5 DEF Inv

\* A step of the script may take processes and pipes away, or start a process beside one that
\* runs; the code of the shell comes when it ends.
LEMMA ScriptKeeps == Inv /\ Script => Inv'
  <1> SUFFICES ASSUME Inv, NEW p \in Procs,
                      \/ \E q \in Descendants : Fork(p, q)
                      \/ \E f \in Pipes : Write(p, f) \/ Redirect(p, f)
                      \/ IgnoreTerm(p)
                      \/ LeaveGroup(p)
                      \/ Exit(p)
               PROVE  Inv'
    BY DEF Script
  <1> USE DEF Inv
  <1>1. Shell \in Procs /\ Shell \notin Descendants /\ Descendants \subseteq Procs
    BY ExecAssumption DEF Procs
  <1>2. Running(p) /\ life[p] = "alive" /\ UNCHANGED <<agentVars, cancel, due>>
    BY DEF Fork, Write, Redirect, IgnoreTerm, LeaveGroup, Exit, Running
  <1>3. UNCHANGED <<pc, open, taken, captured, clipped, unread, term, kill, result>>
    BY <1>2 DEF agentVars, outputVars
  <1>4. CASE \E q \in Descendants : Fork(p, q)
    <2>1. PICK q \in Descendants : Fork(p, q)
      BY <1>4
    <2>2. /\ life[q] = "none" /\ q # p /\ q # Shell /\ q \in Procs
          /\ life' = [life EXCEPT ![q] = "alive"] /\ holds' = [holds EXCEPT ![q] = holds[p]]
          /\ group' = (IF p \in group THEN group \cup {q} ELSE group)
          /\ UNCHANGED <<code, written>>
      BY <1>1, <1>2, <2>1 DEF Fork
    <2>3. StateOK'
      BY <1>2, <1>3, <2>1, <2>2 DEF StateOK, Fork
    <2>4. ShellInv'
      BY <1>1, <1>2, <1>3, <2>2 DEF StateOK, ShellInv, Procs
    <2>5. GroupInv'
      BY <1>1, <1>2, <1>3, <2>2 DEF StateOK, GroupInv, InGroup, Running
    <2>6. PipeInv'
      BY <1>2, <1>3, <2>2 DEF StateOK, PipeInv, Writers
    <2>7. ResultInv'
      BY <1>1, <1>3, <2>2 DEF StateOK, ResultInv
    <2>8. QED
      BY <2>3, <2>4, <2>5, <2>6, <2>7
  <1>5. CASE \E f \in Pipes : Redirect(p, f)
    <2>1. PICK f \in Pipes : Redirect(p, f)
      BY <1>5
    <2>2. StateOK'
      BY <1>2, <1>3, <2>1 DEF StateOK, Redirect
    <2>3. PipeInv'
      BY <1>3, <2>1 DEF StateOK, PipeInv, Writers, Redirect
    <2>4. ShellInv' /\ GroupInv' /\ ResultInv'
      BY <1>2, <1>3, <2>1 DEF ShellInv, GroupInv, ResultInv, InGroup, Running, Redirect
    <2>5. QED
      BY <2>2, <2>3, <2>4
  <1>6. CASE IgnoreTerm(p)
    <2>1. StateOK'
      BY <1>2, <1>3, <1>6 DEF StateOK, IgnoreTerm
    <2>2. ShellInv' /\ GroupInv' /\ PipeInv' /\ ResultInv'
      BY <1>2, <1>3, <1>6
      DEF ShellInv, GroupInv, PipeInv, ResultInv, InGroup, Running, Writers, IgnoreTerm
    <2>3. QED
      BY <2>1, <2>2
  <1>7. CASE LeaveGroup(p)
    <2>1. StateOK'
      BY <1>2, <1>3, <1>7 DEF StateOK, LeaveGroup
    <2>2. ShellInv' /\ GroupInv' /\ PipeInv' /\ ResultInv'
      BY <1>2, <1>3, <1>7
      DEF ShellInv, GroupInv, PipeInv, ResultInv, InGroup, Running, Writers, LeaveGroup
    <2>3. QED
      BY <2>1, <2>2
  <1>8. CASE Exit(p)
    <2>1. /\ life' = [q \in Procs |-> IF q \in {p} THEN Dead(q) ELSE life[q]]
          /\ holds' = [q \in Procs |-> IF q \in {p} THEN {} ELSE holds[q]]
          /\ deaf' = deaf \ {p} /\ group' = group \ {p} /\ UNCHANGED written
          /\ Dead(p) \in {"zombie", "gone"}
          /\ code' \in Exits /\ (p = Shell => code' # "unset") /\ (p # Shell => code' = code)
      BY <1>8 DEF Exit, Die, Dead, Inv, StateOK, Exits
    <2>2. StateOK'
      BY <1>2, <1>3, <2>1 DEF StateOK
    <2>3. ShellInv'
      BY <1>1, <1>2, <1>3, <2>1 DEF StateOK, ShellInv
    <2>4. GroupInv'
      BY <1>1, <1>2, <1>3, <2>1 DEF StateOK, GroupInv, InGroup, Running
    <2>5. PipeInv'
      BY <1>3, <2>1 DEF StateOK, PipeInv, Writers
    <2>6. ResultInv'
      BY <1>1, <1>2, <1>3, <2>1 DEF StateOK, ResultInv
    <2>7. QED
      BY <2>2, <2>3, <2>4, <2>5, <2>6
  <1>9. CASE \E f \in Pipes : Write(p, f)
    <2>1. PICK f \in Pipes : Write(p, f)
      BY <1>9
    <2>2. /\ f \in open /\ written["out"] + written["err"] < MaxOutput
          /\ written' = [written EXCEPT ![f] = @ + 1]
          /\ UNCHANGED <<life, holds, deaf, group, code>>
      BY <2>1 DEF Write
    <2>3. written \in [Pipes -> 0..MaxOutput]
      BY DEF StateOK
    <2>4. "out" \in Pipes /\ "err" \in Pipes /\ (f = "out" \/ f = "err")
      BY DEF Pipes
    <2>5. written[f] < MaxOutput
      BY <2>2, <2>3, <2>4, ExecAssumption
    <2>6. written' \in [Pipes -> 0..MaxOutput]
      BY <2>2, <2>3, <2>5, ExecAssumption
    <2>7. StateOK'
      BY <1>2, <1>3, <2>2, <2>6 DEF StateOK
    <2>8. PipeInv'
      BY <1>3, <2>2, <2>3, ExecAssumption DEF PipeInv, Writers
    <2>9. ShellInv' /\ GroupInv' /\ ResultInv'
      BY <1>2, <1>3, <2>2 DEF ShellInv, GroupInv, ResultInv, InGroup, Running
    <2>10. QED
      BY <2>7, <2>8, <2>9
  <1>10. QED
    BY <1>4, <1>5, <1>6, <1>7, <1>8, <1>9

\* A signal takes processes away, and gives the shell a code.
LEMMA SlayKeeps ==
    ASSUME StateOK, ShellInv, GroupInv, PipeInv, NEW S, S \subseteq {p \in Procs : InGroup(p)},
           Slay(S)
    PROVE  /\ life' \in [Procs -> {"none", "new", "alive", "zombie", "gone"}]
           /\ holds' \in [Procs -> SUBSET Pipes] /\ deaf' \subseteq Procs
           /\ group' \subseteq group /\ code' \in Exits /\ UNCHANGED written
           /\ \A p \in Procs : life'[p] = IF p \in S THEN Dead(p) ELSE life[p]
           /\ \A p \in Procs : life'[p] = life[p] \/ life[p] = "alive"
           /\ \A p \in Procs : life'[p] \in {"none", "new", "alive"} => life'[p] = life[p]
           /\ life'[Shell] \in {"zombie", "gone"} => code' # "unset"
           /\ \A f \in Pipes : Writers(f)' \subseteq Writers(f)
           /\ \A p \in Procs : InGroup(p)' => InGroup(p) /\ p \notin S
  <1>1. /\ life' = [p \in Procs |-> IF p \in S THEN Dead(p) ELSE life[p]]
        /\ code' = (IF Shell \in S THEN "signal" ELSE code)
        /\ holds' = [p \in Procs |-> IF p \in S THEN {} ELSE holds[p]]
        /\ deaf' = deaf \ S /\ group' = group \ S /\ UNCHANGED written
    BY DEF Slay, Die
  <1>2. \A p \in Procs : Dead(p) \in {"zombie", "gone"}
    BY DEF Dead
  <1>3. \A p \in S : p \in Procs /\ life[p] = "alive"
    BY DEF InGroup, Running
  <1>4. \A p \in Procs : life'[p] = IF p \in S THEN Dead(p) ELSE life[p]
    BY <1>1
  <1>5. /\ life' \in [Procs -> {"none", "new", "alive", "zombie", "gone"}] /\ code' \in Exits
        /\ holds' \in [Procs -> SUBSET Pipes] /\ deaf' \subseteq Procs /\ group' \subseteq group
    BY <1>1, <1>2 DEF StateOK, Exits
  <1>6. Shell \in Procs
    BY DEF Procs
  <1>7. life'[Shell] \in {"zombie", "gone"} => code' # "unset"
    BY <1>1, <1>4, <1>6 DEF ShellInv
  <1>8. \A f \in Pipes : Writers(f)' \subseteq Writers(f)
    BY <1>1, <1>2, <1>4 DEF Writers, StateOK
  <1>9. \A p \in Procs : InGroup(p)' => InGroup(p) /\ p \notin S
    BY <1>1, <1>2, <1>4 DEF InGroup, Running
  <1>10. /\ \A p \in Procs : life'[p] = life[p] \/ life[p] = "alive"
         /\ \A p \in Procs : life'[p] \in {"none", "new", "alive"} => life'[p] = life[p]
    BY <1>2, <1>3, <1>4
  <1>11. QED
    BY <1>1, <1>4, <1>5, <1>7, <1>8, <1>9, <1>10

\* What a signal leaves of the invariant, whatever run_shell does with it.
LEMMA SignalKeeps ==
    ASSUME StateOK, ShellInv, GroupInv, PipeInv, NEW S, S \subseteq {p \in Procs : InGroup(p)},
           Slay(S), pc \in {"check", "reap"}, pc' \in {"poll", "reap", "done"},
           UNCHANGED <<open, outputVars, cancel>>, due' \in BOOLEAN, term' \in BOOLEAN, kill' \in BOOLEAN,
           due' /\ term' => due /\ term,
           kill' => \/ kill
                    \/ term' /\ life[Shell] # "new" /\ S = {p \in Procs : InGroup(p)},
           kill => kill' /\ term'
    PROVE  StateOK' /\ ShellInv' /\ GroupInv' /\ PipeInv'
  <1>1. Shell \in Procs /\ Descendants \subseteq Procs /\ group \subseteq Procs
    BY DEF Procs, StateOK
  <1>2. StateOK'
    BY SlayKeeps DEF StateOK
  <1>3. ShellInv'
    <2>1. life'[Shell] \in {"none", "new"} =>
            life[Shell] \in {"none", "new"} /\ \A p \in Descendants : life'[p] = "none"
      BY <1>1, SlayKeeps DEF ShellInv
    <2>2. life'[Shell] \in {"zombie", "gone"} => code' # "unset"
      BY SlayKeeps
    <2>3. life[Shell] # "none"
      BY DEF ShellInv
    <2>4. pc' # "start" /\ life'[Shell] # "none"
      BY <1>1, <2>3, SlayKeeps
    <2>5. QED
      BY <2>1, <2>2, <2>4 DEF ShellInv
  <1>4. GroupInv'
    <2>1. \A p \in group' : life'[p] # "none"
      BY <1>1, SlayKeeps DEF GroupInv
    <2>2. term' /\ due' => life'[Shell] # "new"
      BY <1>1, SlayKeeps DEF GroupInv
    <2>3. kill' => term' /\ life'[Shell] # "new" /\ \A p \in Procs : ~InGroup(p)'
      BY <1>1, SlayKeeps DEF GroupInv
    <2>4. QED
      BY <2>1, <2>2, <2>3 DEF GroupInv
  <1>5. PipeInv'
    BY SlayKeeps DEF PipeInv, outputVars
  <1>6. QED
    BY <1>2, <1>3, <1>4, <1>5

\* What the steps of run_shell that send no signal and reap nobody leave of it.
LEMMA QuietKeeps ==
    ASSUME StateOK, ShellInv, GroupInv, PipeInv,
           UNCHANGED <<life, holds, deaf, group, code, written, term, kill>>, cancel' \in BOOLEAN,
           pc' \in {"poll", "check", "reap", "done"}, pc = "start" => pc' = "done",
           pc = "done" => pc' = "done", due' \in BOOLEAN, due' => due \/ ~term \/ life[Shell] # "new",
           open' \subseteq open, (open' = open /\ UNCHANGED outputVars) \/ PipeInv'
    PROVE  StateOK' /\ ShellInv' /\ GroupInv' /\ PipeInv'
  <1>1. StateOK'
    BY DEF StateOK
  <1>2. ShellInv'
    BY DEF ShellInv
  <1>3. GroupInv'
    BY DEF GroupInv, InGroup, Running
  <1>4. PipeInv'
    BY DEF PipeInv, Writers, outputVars
  <1>5. QED
    BY <1>1, <1>2, <1>3, <1>4

\* What run_shell does keeps the invariant.
LEMMA RunShellKeeps == Inv /\ RunShell => Inv'
  <1> SUFFICES ASSUME Inv, RunShell
               PROVE  Inv'
    OBVIOUS
  <1> USE DEF Inv
  <1>1. Shell \in Procs /\ Shell \notin Descendants /\ Descendants \subseteq Procs
    BY ExecAssumption DEF Procs
  <1>2. CASE Start
    <2>1. /\ pc = "start" /\ life' = [life EXCEPT ![Shell] = "new"]
          /\ holds' = [holds EXCEPT ![Shell] = Pipes] /\ pc' = "poll" /\ open' = Pipes
          /\ UNCHANGED <<deaf, group, code, written, term, kill, result, cancel, due>>
          /\ UNCHANGED <<taken, captured, clipped, unread>>
      BY <1>2 DEF Start, outputVars
    <2>2. StateOK'
      BY <2>1 DEF StateOK
    <2>3. ShellInv'
      BY <1>1, <2>1 DEF StateOK, ShellInv
    <2>4. GroupInv'
      BY <1>1, <2>1 DEF StateOK, ShellInv, GroupInv, InGroup, Running
    <2>5. PipeInv'
      BY <2>1 DEF PipeInv
    <2>6. ResultInv'
      BY <2>1 DEF ShellInv, ResultInv
    <2>7. QED
      BY <2>2, <2>3, <2>4, <2>5, <2>6
  <1>3. CASE StartFails
    <2>1. StateOK' /\ ShellInv' /\ GroupInv' /\ PipeInv'
      BY <1>3, QuietKeeps DEF StartFails, scriptVars, StateOK, ShellInv
    <2>2. ResultInv'
      BY <1>3 DEF StartFails, Failed, scriptVars, ShellInv, ResultInv
    <2>3. QED
      BY <2>1, <2>2
  <1>4. CASE Poll
    <2>1. /\ pc = "poll" /\ pc' = "check"
          /\ UNCHANGED <<life, holds, deaf, group, code, written, term, kill, result, cancel, due>>
      BY <1>4 DEF Poll, scriptVars
    <2>2. PICK ended \in SUBSET {f \in open : Writers(f) = {} /\ taken[f] = written[f]},
               failed \in SUBSET open, got \in [Pipes -> 0..MaxOutput] :
               /\ \A f \in Pipes : got[f] <= written[f] - taken[f]
               /\ \A f \in Pipes : got[f] # 0 => f \in open \ (ended \cup failed)
               /\ taken' = [f \in Pipes |-> taken[f] + got[f]]
               /\ captured' = [f \in Pipes |->
                       IF captured[f] + got[f] > Capacity THEN Capacity ELSE captured[f] + got[f]]
               /\ clipped' = clipped \cup
                       {f \in Pipes : got[f] # 0 /\ captured[f] + got[f] > Capacity}
               /\ open' = open \ (ended \cup failed) /\ unread' = unread \cup failed
      BY <1>4 DEF Poll, Clips
    <2>3. ASSUME NEW f \in Pipes
          PROVE  /\ taken'[f] <= written'[f]
                 /\ captured'[f] = IF taken'[f] > Capacity THEN Capacity ELSE taken'[f]
                 /\ f \in clipped' <=> taken'[f] > Capacity
                 /\ f \notin open' \cup unread' => Writers(f)' = {} /\ taken'[f] = written'[f]
      <3>1. /\ got[f] \in Nat /\ taken[f] \in Nat /\ captured[f] \in Nat /\ written[f] \in Nat
            /\ taken'[f] = taken[f] + got[f] /\ written'[f] = written[f]
            /\ captured'[f] = IF captured[f] + got[f] > Capacity THEN Capacity
                              ELSE captured[f] + got[f]
            /\ f \in clipped' <=> f \in clipped \/ (got[f] # 0 /\ captured[f] + got[f] > Capacity)
            /\ Writers(f)' = Writers(f)
        BY <2>1, <2>2, ExecAssumption DEF StateOK, PipeInv, Writers
      <3>2. /\ captured[f] = IF taken[f] > Capacity THEN Capacity ELSE taken[f]
            /\ f \in clipped <=> taken[f] > Capacity
            /\ got[f] <= written[f] - taken[f]
        BY <2>2 DEF PipeInv
      <3>3. /\ taken'[f] <= written'[f]
            /\ captured'[f] = IF taken'[f] > Capacity THEN Capacity ELSE taken'[f]
            /\ f \in clipped' <=> taken'[f] > Capacity
        BY <3>1, <3>2, ExecAssumption
      <3>4. f \notin open' \cup unread' => Writers(f)' = {} /\ taken'[f] = written'[f]
        BY <2>2, <3>1 DEF PipeInv
      <3>5. QED
        BY <3>3, <3>4
    <2>4. PipeInv'
      <3>1. /\ taken' \in [Pipes -> Nat] /\ captured' \in [Pipes -> Nat]
            /\ clipped' \subseteq Pipes /\ unread' \subseteq Pipes
        BY <2>2, ExecAssumption DEF StateOK, PipeInv
      <3>2. QED
        BY <2>3, <3>1 DEF PipeInv
    <2>5. open' \subseteq open
      BY <2>2
    <2>6. StateOK' /\ ShellInv' /\ GroupInv'
      BY <2>1, <2>4, <2>5, QuietKeeps DEF StateOK
    <2>7. ResultInv'
      BY <2>1, <2>5 DEF ResultInv
    <2>8. QED
      BY <2>4, <2>6, <2>7
  <1>5. CASE PollFails
    <2>1. StateOK' /\ ShellInv' /\ GroupInv' /\ PipeInv'
      BY <1>5, QuietKeeps DEF PollFails, EnterReap, scriptVars, StateOK
    <2>2. ResultInv'
      BY <1>5 DEF PollFails, Failed, EnterReap, scriptVars, ResultInv
    <2>3. QED
      BY <2>1, <2>2
  <1>6. CASE Terminate
    <2>1. /\ pc = "check" /\ pc' \in {"poll", "reap"} /\ ~term /\ term' = TRUE /\ due' = FALSE
          /\ pc' = "reap" => open = {}
          /\ result' = [result EXCEPT !.cancelled = cancel, !.timed_out = ~cancel]
          /\ UNCHANGED <<open, outputVars, kill, cancel>>
          /\ Slay({p \in Procs : InGroup(p) /\ p \notin deaf})
      BY <1>6 DEF Terminate, SignalTerm
    <2>2. ~kill
      BY <2>1 DEF GroupInv
    <2>3. {p \in Procs : InGroup(p) /\ p \notin deaf} \subseteq {p \in Procs : InGroup(p)}
      OBVIOUS
    <2>4. StateOK' /\ ShellInv' /\ GroupInv' /\ PipeInv'
      BY <2>1, <2>2, <2>3, SignalKeeps DEF StateOK
    <2>5. ResultInv'
      BY <2>1 DEF StateOK, ResultInv
    <2>6. QED
      BY <2>4, <2>5
  <1>7. CASE Kill
    <2>1. /\ pc = "check" /\ pc' = "reap" /\ term /\ due /\ kill' = TRUE /\ due' = FALSE
          /\ UNCHANGED <<open, outputVars, term, result, cancel>>
          /\ Slay({p \in Procs : InGroup(p)})
      BY <1>7 DEF Kill, EnterReap, SignalKill
    <2>2. life[Shell] # "new"
      BY <2>1 DEF GroupInv
    <2>3. StateOK' /\ ShellInv' /\ GroupInv' /\ PipeInv'
      BY <2>1, <2>2, SignalKeeps DEF StateOK
    <2>4. ResultInv'
      BY <2>1 DEF ResultInv
    <2>5. QED
      BY <2>3, <2>4
  <1>8. CASE Continue
    <2>1. /\ pc = "check" /\ pc' \in {"poll", "reap"} /\ (pc' = "reap" => open = {})
          /\ due' \in BOOLEAN /\ (due' => due)
          /\ UNCHANGED <<life, holds, deaf, group, code, written, term, kill, result, cancel>>
          /\ UNCHANGED <<open, outputVars>>
      BY <1>8 DEF Continue, NextRound, EnterReap, scriptVars, StateOK
    <2>2. StateOK' /\ ShellInv' /\ GroupInv' /\ PipeInv'
      BY <2>1, QuietKeeps DEF StateOK
    <2>3. ResultInv'
      BY <2>1 DEF ResultInv
    <2>4. QED
      BY <2>2, <2>3
  <1>9. CASE Reap
    <2>1. /\ pc = "reap" /\ pc' = "done" /\ life[Shell] = "zombie"
          /\ life' = [life EXCEPT ![Shell] = "gone"] /\ result' = [result EXCEPT !.exit = code]
          /\ UNCHANGED <<holds, deaf, group, code, written, open, term, kill, cancel, due>>
          /\ UNCHANGED <<taken, captured, clipped, unread>>
      BY <1>9 DEF Reap, outputVars
    <2>2. life'[Shell] = "gone" /\ \A p \in Descendants : life'[p] = life[p]
      BY <1>1, <2>1 DEF StateOK
    <2>3. StateOK'
      BY <2>1 DEF StateOK
    <2>4. ShellInv'
      BY <1>1, <2>1, <2>2 DEF ShellInv
    <2>5. GroupInv'
      BY <1>1, <2>1 DEF StateOK, GroupInv, InGroup, Running
    <2>6. PipeInv'
      BY <1>1, <2>1 DEF StateOK, PipeInv, Writers
    <2>7. ResultInv'
      BY <2>1, <2>2 DEF StateOK, ResultInv
    <2>8. QED
      BY <2>3, <2>4, <2>5, <2>6, <2>7
  <1>10. CASE GiveUp
    <2>1. /\ pc = "reap" /\ pc' = "done" /\ result' = [result EXCEPT !.error = TRUE]
          /\ UNCHANGED <<open, outputVars, term, kill, cancel, due>>
          /\ Slay({p \in Procs : InGroup(p)})
      BY <1>10 DEF GiveUp, Failed, SignalKill
    <2>2. /\ due' \in BOOLEAN /\ term' \in BOOLEAN /\ kill' \in BOOLEAN
          /\ (kill' => kill) /\ (kill => kill' /\ term') /\ (due' /\ term' => due /\ term)
      BY <2>1 DEF StateOK, GroupInv
    <2>3. pc' \in {"poll", "reap", "done"} /\ pc \in {"check", "reap"}
          /\ UNCHANGED <<open, outputVars, cancel>>
      BY <2>1
    <2>4. StateOK' /\ ShellInv' /\ GroupInv' /\ PipeInv'
      BY <2>1, <2>2, <2>3, SignalKeeps
    <2>5. ResultInv'
      BY <2>1 DEF ResultInv
    <2>6. QED
      BY <2>4, <2>5
  <1>11. CASE WaitFails
    <2>1. StateOK' /\ ShellInv' /\ GroupInv' /\ PipeInv'
      BY <1>11, QuietKeeps DEF WaitFails, scriptVars, StateOK
    <2>2. ResultInv'
      BY <1>11 DEF WaitFails, Failed, scriptVars, ResultInv
    <2>3. QED
      BY <2>1, <2>2
  <1>12. QED
    BY <1>2, <1>3, <1>4, <1>5, <1>6, <1>7, <1>8, <1>9, <1>10, <1>11 DEF RunShell

\* Every step, of run_shell or of the script, keeps the invariant.
LEMMA Keeps == Inv /\ [Next]_vars => Inv'
  <1> SUFFICES ASSUME Inv, [Next]_vars
               PROVE  Inv'
    OBVIOUS
  <1>1. Shell \in Procs /\ Shell \notin Descendants /\ Descendants \subseteq Procs
    BY ExecAssumption DEF Procs
  <1>2. CASE Setsid
    <2>1. /\ life[Shell] = "new" /\ life' = [life EXCEPT ![Shell] = "alive"]
          /\ group' = {Shell}
          /\ UNCHANGED <<holds, deaf, code, written, pc, open, term, kill, result, cancel, due>>
          /\ UNCHANGED <<taken, captured, clipped, unread>>
      BY <1>2 DEF Setsid, agentVars, outputVars
    <2>2. ~kill /\ (term => ~due) /\ pc # "start" /\ life'[Shell] = "alive"
      BY <1>1, <2>1 DEF Inv, StateOK, GroupInv, ShellInv
    <2>3. StateOK'
      BY <1>1, <2>1 DEF Inv, StateOK
    <2>4. ShellInv'
      BY <2>1, <2>2 DEF Inv, ShellInv
    <2>5. GroupInv'
      BY <2>1, <2>2 DEF GroupInv
    <2>6. PipeInv'
      BY <1>1, <2>1 DEF Inv, StateOK, PipeInv, Writers
    <2>7. ResultInv'
      BY <2>1 DEF Inv, ResultInv
    <2>8. QED
      BY <2>3, <2>4, <2>5, <2>6, <2>7 DEF Inv
  <1>3. ASSUME UNCHANGED <<scriptVars, agentVars>>, cancel' \in BOOLEAN, due' \in BOOLEAN,
               due' => due \/ ~term \/ life[Shell] # "new"
        PROVE  Inv'
    BY <1>3 DEF Inv, StateOK, ShellInv, GroupInv, PipeInv, ResultInv, InGroup, Running, Writers,
                scriptVars, agentVars, outputVars
  <1>4. cancel \in BOOLEAN /\ due \in BOOLEAN
    BY DEF Inv, StateOK
  <1>5. CASE RequestCancel
    BY <1>3, <1>4, <1>5 DEF RequestCancel
  <1>6. CASE TimePasses
    BY <1>3, <1>4, <1>6 DEF TimePasses
  <1>7. CASE UNCHANGED vars
    BY <1>3, <1>4, <1>7 DEF vars
  <1>8. QED
    BY <1>2, <1>5, <1>6, <1>7, ScriptKeeps, RunShellKeeps DEF Next

\* The invariant holds throughout.
LEMMA Invariance == Spec => []Inv
  BY Starts, Keeps, PTL DEF Spec

\* The state of a call is well formed, and what it returns is a result the runner knows: no
\* cancel beside a timeout, and an exit code or an error.
THEOREM TypeCorrect == Spec => []TypeOK
  <1>1. Inv => TypeOK
    <2> SUFFICES ASSUME Inv
                 PROVE  TypeOK
      OBVIOUS
    <2>1. pc = "done" => (result.exit = "unset" => result.error)
      BY DEF Inv, ShellInv, ResultInv
    <2>2. pc = "done" => result \in ShellResults
      BY <2>1 DEF Inv, ResultInv, ShellResults
    <2>3. /\ clipped \subseteq Pipes /\ unread \subseteq Pipes
          /\ \A f \in Pipes : taken[f] \in 0..written[f] /\ captured[f] \in 0..Capacity
      BY ExecAssumption DEF Inv, StateOK, PipeInv
    <2>4. QED
      BY <2>2, <2>3 DEF Inv, StateOK, ResultInv, TypeOK
  <1>2. QED
    BY <1>1, Invariance, PTL

\* After SIGKILL no process of the group runs, nor ever will, whatever the script does.
THEOREM KilledStaysGone == Spec => []KilledTreeIsGone
  <1>1. Inv => KilledTreeIsGone
    BY DEF Inv, GroupInv, KilledTreeIsGone
  <1>2. QED
    BY <1>1, Invariance, PTL

\* A result without an error is that of a shell that was reaped.
THEOREM Reaped == Spec => []ReturnedMeansReaped
  <1>1. Inv => ReturnedMeansReaped
    BY DEF Inv, ResultInv, ReturnedMeansReaped
  <1>2. QED
    BY <1>1, Invariance, PTL

\* A result that is neither an error nor a kill holds what both pipes carried, up to the
\* capacity, and tells whether there was more; a pipe that could not be read is the exception.
THEOREM WholeOutput == Spec => []OutputComplete
  <1>1. Inv => OutputComplete
    BY DEF Inv, ResultInv, PipeInv, OutputComplete
  <1>2. QED
    BY <1>1, Invariance, PTL
=============================================================================
