-------------------------- MODULE RunCommandProofs --------------------------
(***************************************************************************)
(* Machine-checked proofs about RunCommand, for any set of commands,       *)
(* messages and workers, any capacity of SeenCommands, any lost calls and  *)
(* any number of shutdowns and crashes.                                    *)
(*                                                                         *)
(* The invariants of RunCommand are not inductive by themselves: what a    *)
(* step preserves depends on where the main thread is and on how the       *)
(* tables of the code mirror its threads.  Each strengthening below says   *)
(* one such thing.                                                         *)
(***************************************************************************)
EXTENDS RunCommand, FiniteSetTheorems, TLAPS

LiveWorkers == {w \in Workers : Live(w)}

Handling == {"inprogress", "ack", "spawn", "failreply", "settle"}

\* The main thread handles a message exactly where the code has one in hand, and on
\* the way to starting a worker it is a usable SendCommand.
CurInv ==
    /\ pc \in Handling <=> cur \in Messages
    /\ pc \in {"inprogress", "ack", "spawn"} => cur.kind = "send" /\ cur \notin Malformed
    /\ pc = "failreply" => cur \in Malformed

\* A worker has a command exactly while it is alive, and a status once it has finished.
TaskInv ==
    \A w \in Workers :
        /\ Live(w) <=> task[w] \in Commands
        /\ phase[w] \in {"reply", "done"} => outcome[w] \in Terminal

\* InFlight::count_ counts the live threads, double executions included.
CountInv == count = Cardinality(LiveWorkers)

TypeInv == TypeOK /\ CurInv /\ TaskInv /\ CountInv

-----------------------------------------------------------------------------
(* Counting: one worker more, one worker less.                             *)

\* A message has a command id and a kind.
LEMMA MessageFields ==
    ASSUME NEW m \in Messages
    PROVE  m.cmd \in Commands /\ m.kind \in Kinds
  BY MessagesAssumption

\* A kind and a command id identify a message.
LEMMA MessageUnique ==
    ASSUME NEW m \in Messages, NEW n \in Messages, m.kind = n.kind, m.cmd = n.cmd
    PROVE  m = n
  BY MessagesAssumption

\* Starting an idle worker adds one to the number of live workers.
LEMMA CountStart ==
    ASSUME NEW w \in Workers, phase[w] = "idle", phase \in [Workers -> {"idle", "run", "reply", "done"}],
           phase' = [phase EXCEPT ![w] = "run"]
    PROVE  Cardinality(LiveWorkers') = Cardinality(LiveWorkers) + 1
  <1>1. LiveWorkers' = LiveWorkers \cup {w}
    BY DEF LiveWorkers, Live
  <1>2. w \notin LiveWorkers
    BY DEF LiveWorkers, Live
  <1>3. IsFiniteSet(LiveWorkers)
    BY FinitenessAssumption, FS_Subset DEF LiveWorkers
  <1>4. QED
    BY <1>1, <1>2, <1>3, FS_AddElement

\* Ending a live worker takes one away, and there was one to take.
LEMMA CountEnd ==
    ASSUME NEW w \in Workers, Live(w), phase \in [Workers -> {"idle", "run", "reply", "done"}],
           phase' = [phase EXCEPT ![w] = "idle"]
    PROVE  /\ Cardinality(LiveWorkers') = Cardinality(LiveWorkers) - 1
           /\ Cardinality(LiveWorkers') \in Nat
  <1>1. LiveWorkers' = LiveWorkers \ {w}
    BY DEF LiveWorkers, Live
  <1>2. w \in LiveWorkers
    BY DEF LiveWorkers
  <1>3. IsFiniteSet(LiveWorkers)
    BY FinitenessAssumption, FS_Subset DEF LiveWorkers
  <1>4. QED
    BY <1>1, <1>2, <1>3, FS_RemoveElement, FS_CardinalityType

-----------------------------------------------------------------------------
(* The type invariant.                                                     *)

\* The initial states satisfy the inductive invariant.
LEMMA TypeInit == Init => TypeInv
  <1> SUFFICES ASSUME Init PROVE TypeInv
    OBVIOUS
  <1>1. LiveWorkers = {}
    BY DEF Init, LiveWorkers, Live
  <1>2. TypeOK
    <2>1. TablesOK
      BY DEF Init, TablesOK, Statuses, Terminal
    <2>2. QED
      BY <2>1 DEF Init, TypeOK, FlagsOK
  <1>3. CountInv
    BY <1>1, FS_EmptySet DEF Init, CountInv
  <1>4. CurInv /\ TaskInv
    BY MessagesAssumption DEF Init, CurInv, TaskInv, Handling, Live
  <1>5. QED
    BY <1>2, <1>3, <1>4 DEF TypeInv

\* What SeenCommands::add leaves: ids remembered, the list of ids, ids evicted.
LEMMA SeenAddOK ==
    ASSUME NEW c \in Commands, SeenAdd(c),
           seen \in SUBSET Commands, order \in Seq(Commands), forgotten \in SUBSET Commands
    PROVE  /\ seen' \in SUBSET Commands
           /\ order' \in Seq(Commands)
           /\ forgotten' \in SUBSET Commands
           /\ forgotten \subseteq forgotten'
           /\ c \in seen' \cup forgotten'
           /\ seen \subseteq seen' \cup forgotten'
           /\ seen' \subseteq seen \cup {c}
  <1> DEFINE longer == Append(order, c)
  <1>1. longer \in Seq(Commands) /\ Len(longer) = Len(order) + 1
    OBVIOUS
  <1>2. longer # <<>>
    BY <1>1
  <1>3. Head(longer) \in Commands /\ Tail(longer) \in Seq(Commands)
    BY <1>1, <1>2
  <1>4. CASE Len(longer) > DedupHistory
    BY <1>3, <1>4 DEF SeenAdd
  <1>5. CASE ~(Len(longer) > DedupHistory)
    BY <1>1, <1>5 DEF SeenAdd
  <1>6. QED
    BY <1>4, <1>5

\* Every step keeps the tables well formed.
LEMMA TablesNext == TypeInv /\ [Next]_vars => TablesOK'
  <1> SUFFICES ASSUME TypeInv, [Next]_vars PROVE TablesOK'
    OBVIOUS
  <1> USE DEF TypeInv, TypeOK, mdsVars, mainVars, seenVars, workerVars, lifeVars
  <1>1. CASE PollMessages
    BY <1>1 DEF PollMessages, TablesOK
  <1>2. CASE EndBatch
    BY <1>2 DEF EndBatch, TablesOK
  <1>3. ASSUME NEW m \in Messages, DuplicateSend(m) PROVE TablesOK'
    BY <1>3 DEF DuplicateSend, Take, TablesOK
  <1>4. ASSUME NEW m \in Messages, AcceptSend(m) PROVE TablesOK'
    <2>1. m.cmd \in Commands
      BY MessageFields
    <2>2. /\ seen' \in SUBSET Commands
          /\ order' \in Seq(Commands)
          /\ forgotten' \in SUBSET Commands
      BY <1>4, <2>1, SeenAddOK DEF AcceptSend, TablesOK
    <2>3. QED
      BY <1>4, <2>2 DEF AcceptSend, Take, TablesOK
  <1>5. ASSUME NEW m \in Messages, CancelCommand(m) PROVE TablesOK'
    BY <1>5 DEF CancelCommand, Take, TablesOK
  <1>6. ASSUME NEW m \in Messages, UnexpectedTopic(m) PROVE TablesOK'
    BY <1>6 DEF UnexpectedTopic, Take, TablesOK
  <1>7. ASSUME NEW m \in Messages, IgnoreBlank(m) PROVE TablesOK'
    BY <1>7 DEF IgnoreBlank, TablesOK
  <1>8. CASE ReplyFailed
    BY <1>8, MessageFields DEF ReplyFailed, SendReply, TablesOK, Statuses, Terminal, Live
  <1>9. CASE ReplyInProgress
    BY <1>9, MessageFields DEF ReplyInProgress, SendReply, TablesOK, Statuses, Live
  <1>10. CASE Acknowledge
    BY <1>10 DEF Acknowledge, Settle, TablesOK
  <1>11. ASSUME NEW w \in Workers, SpawnWorker(w) PROVE TablesOK'
    BY <1>11, MessageFields DEF SpawnWorker, InFlightAdd, Handled, TablesOK, CurInv, Handling, Live
  <1>12. CASE SettleMessage
    BY <1>12 DEF SettleMessage, Settle, Handled, TablesOK
  <1>13. CASE CancelAll
    BY <1>13 DEF CancelAll, TablesOK
  <1>14. CASE Drain
    BY <1>14 DEF Drain, TablesOK
  <1>15. CASE Return
    BY <1>15 DEF Return, LoseMemory, TablesOK, CurInv, TaskInv, Handling, Live
  <1>16. CASE PollNothing
    BY <1>16 DEF PollNothing, vars, TablesOK
  <1>17. ASSUME NEW w \in Workers, FinishRun(w) PROVE TablesOK'
    BY <1>17 DEF FinishRun, TablesOK
  <1>18. ASSUME NEW w \in Workers, ReplyFinal(w) PROVE TablesOK'
    BY <1>18, MessageFields DEF ReplyFinal, SendReply, TablesOK, Statuses, Live
  <1>19. ASSUME NEW w \in Workers, WorkerDone(w) PROVE TablesOK'
    <2>1. count' \in Nat
      <3>1. Live(w) /\ count' = count - 1 /\ phase' = [phase EXCEPT ![w] = "idle"]
        BY <1>19 DEF WorkerDone, Live
      <3>2. QED
        BY <3>1, CountEnd DEF TablesOK, CountInv
    <2>2. task[w] \in Commands
      BY <1>19 DEF WorkerDone, TaskInv, Live
    <2>3. QED
      BY <1>19, <2>1, <2>2 DEF WorkerDone, TablesOK
  <1>20. ASSUME NEW m \in Messages, Issue(m) PROVE TablesOK'
    BY <1>20 DEF Issue, TablesOK
  <1>21. ASSUME NEW m \in Messages, VisibilityTimeout(m) PROVE TablesOK'
    BY <1>21 DEF VisibilityTimeout, TablesOK
  <1>22. CASE Stop
    BY <1>22 DEF Stop, TablesOK
  <1>23. CASE Crash
    BY <1>23 DEF Crash, LoseMemory, TablesOK, CurInv, TaskInv, Handling, Live
  <1>24. CASE Restart
    BY <1>24 DEF Restart, TablesOK
  <1>25. CASE UNCHANGED vars
    BY <1>25 DEF vars, TablesOK
  <1>26. QED
    BY <1>1, <1>2, <1>3, <1>4, <1>5, <1>6, <1>7, <1>8, <1>9, <1>10, <1>11, <1>12, <1>13, <1>14,
       <1>15, <1>16, <1>17, <1>18, <1>19, <1>20, <1>21, <1>22, <1>23, <1>24, <1>25
       DEF Next, MainStep, Handle, WorkerStep

\* Every step keeps g_stop a flag.
LEMMA FlagsNext == TypeInv /\ [Next]_vars => FlagsOK'
  <1> SUFFICES ASSUME TypeInv, [Next]_vars PROVE FlagsOK'
    OBVIOUS
  <1> USE DEF TypeInv, TypeOK, mdsVars, mainVars, seenVars, workerVars, lifeVars
  <1>1. CASE PollMessages
    BY <1>1 DEF PollMessages, FlagsOK
  <1>2. CASE EndBatch
    BY <1>2 DEF EndBatch, FlagsOK
  <1>3. ASSUME NEW m \in Messages, DuplicateSend(m) PROVE FlagsOK'
    BY <1>3 DEF DuplicateSend, Take, FlagsOK
  <1>4. ASSUME NEW m \in Messages, AcceptSend(m) PROVE FlagsOK'
    BY <1>4 DEF AcceptSend, Take, SeenAdd, FlagsOK
  <1>5. ASSUME NEW m \in Messages, CancelCommand(m) PROVE FlagsOK'
    BY <1>5 DEF CancelCommand, Take, FlagsOK
  <1>6. ASSUME NEW m \in Messages, UnexpectedTopic(m) PROVE FlagsOK'
    BY <1>6 DEF UnexpectedTopic, Take, FlagsOK
  <1>7. ASSUME NEW m \in Messages, IgnoreBlank(m) PROVE FlagsOK'
    BY <1>7 DEF IgnoreBlank, FlagsOK
  <1>8. CASE ReplyFailed
    BY <1>8 DEF ReplyFailed, FlagsOK
  <1>9. CASE ReplyInProgress
    BY <1>9 DEF ReplyInProgress, FlagsOK
  <1>10. CASE Acknowledge
    BY <1>10 DEF Acknowledge, FlagsOK
  <1>11. ASSUME NEW w \in Workers, SpawnWorker(w) PROVE FlagsOK'
    BY <1>11 DEF SpawnWorker, InFlightAdd, Handled, FlagsOK
  <1>12. CASE SettleMessage
    BY <1>12 DEF SettleMessage, Settle, Handled, FlagsOK
  <1>13. CASE CancelAll
    BY <1>13 DEF CancelAll, FlagsOK
  <1>14. CASE Drain
    BY <1>14 DEF Drain, FlagsOK
  <1>15. CASE Return
    BY <1>15 DEF Return, LoseMemory, FlagsOK
  <1>16. CASE PollNothing
    BY <1>16 DEF PollNothing, vars, FlagsOK
  <1>17. ASSUME NEW w \in Workers, FinishRun(w) PROVE FlagsOK'
    BY <1>17 DEF FinishRun, FlagsOK
  <1>18. ASSUME NEW w \in Workers, ReplyFinal(w) PROVE FlagsOK'
    BY <1>18 DEF ReplyFinal, FlagsOK
  <1>19. ASSUME NEW w \in Workers, WorkerDone(w) PROVE FlagsOK'
    BY <1>19 DEF WorkerDone, FlagsOK
  <1>20. ASSUME NEW m \in Messages, Issue(m) PROVE FlagsOK'
    BY <1>20 DEF Issue, FlagsOK
  <1>21. ASSUME NEW m \in Messages, VisibilityTimeout(m) PROVE FlagsOK'
    BY <1>21 DEF VisibilityTimeout, FlagsOK
  <1>22. CASE Stop
    BY <1>22 DEF Stop, FlagsOK
  <1>23. CASE Crash
    BY <1>23 DEF Crash, LoseMemory, FlagsOK
  <1>24. CASE Restart
    BY <1>24 DEF Restart, FlagsOK
  <1>25. CASE UNCHANGED vars
    BY <1>25 DEF vars, FlagsOK
  <1>26. QED
    BY <1>1, <1>2, <1>3, <1>4, <1>5, <1>6, <1>7, <1>8, <1>9, <1>10, <1>11, <1>12, <1>13, <1>14,
       <1>15, <1>16, <1>17, <1>18, <1>19, <1>20, <1>21, <1>22, <1>23, <1>24, <1>25
       DEF Next, MainStep, Handle, WorkerStep

\* Every step keeps the main thread and the message in its hand in agreement.
LEMMA CurNext == TypeInv /\ [Next]_vars => CurInv'
  <1> SUFFICES ASSUME TypeInv, [Next]_vars PROVE CurInv'
    OBVIOUS
  <1> USE DEF TypeInv, TypeOK, mdsVars, mainVars, seenVars, workerVars, lifeVars
  <1>1. CASE PollMessages
    BY <1>1 DEF PollMessages, CurInv, Handling
  <1>2. CASE EndBatch
    BY <1>2 DEF EndBatch, CurInv, Handling
  <1>3. ASSUME NEW m \in Messages, DuplicateSend(m) PROVE CurInv'
    BY <1>3 DEF DuplicateSend, Take, CurInv, Handling
  <1>4. ASSUME NEW m \in Messages, AcceptSend(m) PROVE CurInv'
    BY <1>4 DEF AcceptSend, Take, SeenAdd, CurInv, Handling
  <1>5. ASSUME NEW m \in Messages, CancelCommand(m) PROVE CurInv'
    BY <1>5 DEF CancelCommand, Take, CurInv, Handling
  <1>6. ASSUME NEW m \in Messages, UnexpectedTopic(m) PROVE CurInv'
    BY <1>6 DEF UnexpectedTopic, Take, CurInv, Handling
  <1>7. ASSUME NEW m \in Messages, IgnoreBlank(m) PROVE CurInv'
    BY <1>7 DEF IgnoreBlank, CurInv
  <1>8. CASE ReplyFailed
    BY <1>8 DEF ReplyFailed, SendReply, CurInv, Handling
  <1>9. CASE ReplyInProgress
    BY <1>9 DEF ReplyInProgress, SendReply, CurInv, Handling
  <1>10. CASE Acknowledge
    BY <1>10 DEF Acknowledge, Settle, CurInv, Handling
  <1>11. ASSUME NEW w \in Workers, SpawnWorker(w) PROVE CurInv'
    BY <1>11, MessagesAssumption DEF SpawnWorker, InFlightAdd, Handled, TablesOK, CurInv, Handling
  <1>12. CASE SettleMessage
    BY <1>12, MessagesAssumption DEF SettleMessage, Settle, Handled, TablesOK, CurInv, Handling
  <1>13. CASE CancelAll
    BY <1>13 DEF CancelAll, CurInv, Handling
  <1>14. CASE Drain
    BY <1>14 DEF Drain, CurInv, Handling
  <1>15. CASE Return
    BY <1>15, MessagesAssumption DEF Return, LoseMemory, TablesOK, CurInv, Handling
  <1>16. CASE PollNothing
    BY <1>16 DEF PollNothing, vars, CurInv
  <1>17. ASSUME NEW w \in Workers, FinishRun(w) PROVE CurInv'
    BY <1>17 DEF FinishRun, CurInv
  <1>18. ASSUME NEW w \in Workers, ReplyFinal(w) PROVE CurInv'
    BY <1>18 DEF ReplyFinal, CurInv
  <1>19. ASSUME NEW w \in Workers, WorkerDone(w) PROVE CurInv'
    BY <1>19 DEF WorkerDone, CurInv
  <1>20. ASSUME NEW m \in Messages, Issue(m) PROVE CurInv'
    BY <1>20 DEF Issue, CurInv
  <1>21. ASSUME NEW m \in Messages, VisibilityTimeout(m) PROVE CurInv'
    BY <1>21 DEF VisibilityTimeout, CurInv
  <1>22. CASE Stop
    BY <1>22 DEF Stop, CurInv
  <1>23. CASE Crash
    BY <1>23, MessagesAssumption DEF Crash, LoseMemory, TablesOK, CurInv, Handling
  <1>24. CASE Restart
    BY <1>24 DEF Restart, CurInv, Handling
  <1>25. CASE UNCHANGED vars
    BY <1>25 DEF vars, CurInv
  <1>26. QED
    BY <1>1, <1>2, <1>3, <1>4, <1>5, <1>6, <1>7, <1>8, <1>9, <1>10, <1>11, <1>12, <1>13, <1>14,
       <1>15, <1>16, <1>17, <1>18, <1>19, <1>20, <1>21, <1>22, <1>23, <1>24, <1>25
       DEF Next, MainStep, Handle, WorkerStep

\* Every step keeps a live worker and its command together.
LEMMA TaskNext == TypeInv /\ [Next]_vars => TaskInv'
  <1> SUFFICES ASSUME TypeInv, [Next]_vars PROVE TaskInv'
    OBVIOUS
  <1> USE DEF TypeInv, TypeOK, mdsVars, mainVars, seenVars, workerVars, lifeVars
  <1>1. CASE PollMessages
    BY <1>1 DEF PollMessages, TaskInv, Live, Handling
  <1>2. CASE EndBatch
    BY <1>2 DEF EndBatch, TaskInv, Live, Handling
  <1>3. ASSUME NEW m \in Messages, DuplicateSend(m) PROVE TaskInv'
    BY <1>3 DEF DuplicateSend, Take, TaskInv, Live, Handling
  <1>4. ASSUME NEW m \in Messages, AcceptSend(m) PROVE TaskInv'
    BY <1>4 DEF AcceptSend, Take, SeenAdd, TaskInv, Live, Handling
  <1>5. ASSUME NEW m \in Messages, CancelCommand(m) PROVE TaskInv'
    BY <1>5 DEF CancelCommand, Take, TaskInv, Live, Handling
  <1>6. ASSUME NEW m \in Messages, UnexpectedTopic(m) PROVE TaskInv'
    BY <1>6 DEF UnexpectedTopic, Take, TaskInv, Live, Handling
  <1>7. ASSUME NEW m \in Messages, IgnoreBlank(m) PROVE TaskInv'
    BY <1>7 DEF IgnoreBlank, TaskInv, Live, Handling
  <1>8. CASE ReplyFailed
    BY <1>8 DEF ReplyFailed, SendReply, TaskInv, Live, Handling
  <1>9. CASE ReplyInProgress
    BY <1>9 DEF ReplyInProgress, SendReply, TaskInv, Live, Handling
  <1>10. CASE Acknowledge
    BY <1>10 DEF Acknowledge, Settle, TaskInv, Live, Handling
  <1>11. ASSUME NEW w \in Workers, SpawnWorker(w) PROVE TaskInv'
    BY <1>11, MessagesAssumption DEF SpawnWorker, InFlightAdd, Handled, TablesOK, CurInv, TaskInv, Live, Handling
  <1>12. CASE SettleMessage
    BY <1>12 DEF SettleMessage, Settle, Handled, TaskInv, Live, Handling
  <1>13. CASE CancelAll
    BY <1>13 DEF CancelAll, TaskInv, Live, Handling
  <1>14. CASE Drain
    BY <1>14 DEF Drain, TaskInv, Live, Handling
  <1>15. CASE Return
    BY <1>15, MessagesAssumption DEF Return, LoseMemory, TaskInv, TablesOK, Live
  <1>16. CASE PollNothing
    BY <1>16 DEF PollNothing, vars, TaskInv, Live, Handling
  <1>17. ASSUME NEW w \in Workers, FinishRun(w) PROVE TaskInv'
    BY <1>17, MessagesAssumption DEF FinishRun, TaskInv, TablesOK, Live
  <1>18. ASSUME NEW w \in Workers, ReplyFinal(w) PROVE TaskInv'
    BY <1>18 DEF ReplyFinal, SendReply, TaskInv, Live, Handling
  <1>19. ASSUME NEW w \in Workers, WorkerDone(w) PROVE TaskInv'
    BY <1>19, MessagesAssumption DEF WorkerDone, TaskInv, TablesOK, Live
  <1>20. ASSUME NEW m \in Messages, Issue(m) PROVE TaskInv'
    BY <1>20 DEF Issue, TaskInv, Live, Handling
  <1>21. ASSUME NEW m \in Messages, VisibilityTimeout(m) PROVE TaskInv'
    BY <1>21 DEF VisibilityTimeout, TaskInv, Live, Handling
  <1>22. CASE Stop
    BY <1>22 DEF Stop, TaskInv, Live, Handling
  <1>23. CASE Crash
    BY <1>23, MessagesAssumption DEF Crash, LoseMemory, TaskInv, TablesOK, Live
  <1>24. CASE Restart
    BY <1>24 DEF Restart, TaskInv, Live, Handling
  <1>25. CASE UNCHANGED vars
    BY <1>25 DEF vars, TaskInv, Live, Handling
  <1>26. QED
    BY <1>1, <1>2, <1>3, <1>4, <1>5, <1>6, <1>7, <1>8, <1>9, <1>10, <1>11, <1>12, <1>13, <1>14,
       <1>15, <1>16, <1>17, <1>18, <1>19, <1>20, <1>21, <1>22, <1>23, <1>24, <1>25
       DEF Next, MainStep, Handle, WorkerStep

\* Every step keeps InFlight::count_ equal to the number of live workers.
LEMMA CountNext == TypeInv /\ [Next]_vars => CountInv'
  <1> SUFFICES ASSUME TypeInv, [Next]_vars PROVE CountInv'
    OBVIOUS
  <1> USE DEF TypeInv, TypeOK, mdsVars, mainVars, seenVars, workerVars, lifeVars
  <1>1. CASE PollMessages
    BY <1>1 DEF PollMessages, CountInv, LiveWorkers, Live
  <1>2. CASE EndBatch
    BY <1>2 DEF EndBatch, CountInv, LiveWorkers, Live
  <1>3. ASSUME NEW m \in Messages, DuplicateSend(m) PROVE CountInv'
    BY <1>3 DEF DuplicateSend, Take, CountInv, LiveWorkers, Live
  <1>4. ASSUME NEW m \in Messages, AcceptSend(m) PROVE CountInv'
    BY <1>4 DEF AcceptSend, Take, SeenAdd, CountInv, LiveWorkers, Live
  <1>5. ASSUME NEW m \in Messages, CancelCommand(m) PROVE CountInv'
    BY <1>5 DEF CancelCommand, Take, CountInv, LiveWorkers, Live
  <1>6. ASSUME NEW m \in Messages, UnexpectedTopic(m) PROVE CountInv'
    BY <1>6 DEF UnexpectedTopic, Take, CountInv, LiveWorkers, Live
  <1>7. ASSUME NEW m \in Messages, IgnoreBlank(m) PROVE CountInv'
    BY <1>7 DEF IgnoreBlank, CountInv, LiveWorkers, Live
  <1>8. CASE ReplyFailed
    BY <1>8 DEF ReplyFailed, SendReply, CountInv, LiveWorkers, Live
  <1>9. CASE ReplyInProgress
    BY <1>9 DEF ReplyInProgress, SendReply, CountInv, LiveWorkers, Live
  <1>10. CASE Acknowledge
    BY <1>10 DEF Acknowledge, Settle, CountInv, LiveWorkers, Live
  <1>11. ASSUME NEW w \in Workers, SpawnWorker(w) PROVE CountInv'
    BY <1>11, CountStart DEF SpawnWorker, InFlightAdd, CountInv, TablesOK
  <1>12. CASE SettleMessage
    BY <1>12 DEF SettleMessage, Settle, Handled, CountInv, LiveWorkers, Live
  <1>13. CASE CancelAll
    BY <1>13 DEF CancelAll, CountInv, LiveWorkers, Live
  <1>14. CASE Drain
    BY <1>14 DEF Drain, CountInv, LiveWorkers, Live
  <1>15. CASE Return
    <2>1. LiveWorkers' = {} /\ count' = 0
      BY <1>15 DEF Return, LoseMemory, LiveWorkers, Live
    <2>2. QED
      BY <2>1, FS_EmptySet DEF CountInv
  <1>16. CASE PollNothing
    BY <1>16 DEF PollNothing, vars, CountInv, LiveWorkers, Live
  <1>17. ASSUME NEW w \in Workers, FinishRun(w) PROVE CountInv'
    BY <1>17 DEF FinishRun, CountInv, LiveWorkers, Live
  <1>18. ASSUME NEW w \in Workers, ReplyFinal(w) PROVE CountInv'
    BY <1>18 DEF ReplyFinal, SendReply, CountInv, LiveWorkers, Live
  <1>19. ASSUME NEW w \in Workers, WorkerDone(w) PROVE CountInv'
    <2>1. Live(w) /\ count' = count - 1 /\ phase' = [phase EXCEPT ![w] = "idle"]
      BY <1>19 DEF WorkerDone, Live
    <2>2. QED
      BY <2>1, CountEnd DEF TablesOK, CountInv
  <1>20. ASSUME NEW m \in Messages, Issue(m) PROVE CountInv'
    BY <1>20 DEF Issue, CountInv, LiveWorkers, Live
  <1>21. ASSUME NEW m \in Messages, VisibilityTimeout(m) PROVE CountInv'
    BY <1>21 DEF VisibilityTimeout, CountInv, LiveWorkers, Live
  <1>22. CASE Stop
    BY <1>22 DEF Stop, CountInv, LiveWorkers, Live
  <1>23. CASE Crash
    <2>1. LiveWorkers' = {} /\ count' = 0
      BY <1>23 DEF Crash, LoseMemory, LiveWorkers, Live
    <2>2. QED
      BY <2>1, FS_EmptySet DEF CountInv
  <1>24. CASE Restart
    BY <1>24 DEF Restart, CountInv, LiveWorkers, Live
  <1>25. CASE UNCHANGED vars
    BY <1>25 DEF vars, CountInv, LiveWorkers, Live
  <1>26. QED
    BY <1>1, <1>2, <1>3, <1>4, <1>5, <1>6, <1>7, <1>8, <1>9, <1>10, <1>11, <1>12, <1>13, <1>14,
       <1>15, <1>16, <1>17, <1>18, <1>19, <1>20, <1>21, <1>22, <1>23, <1>24, <1>25
       DEF Next, MainStep, Handle, WorkerStep

-----------------------------------------------------------------------------
(* Strengthenings of the safety properties.                                *)

\* The main thread is on its way from SeenCommands::add to the start of a worker for c.
Starting(c) == pc \in {"inprogress", "ack", "spawn"} /\ cur.cmd = c

\* A command whose id was never evicted is in the filter from its acceptance on, which
\* precedes its only start.
OnceInv ==
    \A c \in Commands : exits + crashes = 0 /\ c \notin forgotten =>
        /\ runs[c] # 2
        /\ runs[c] > 0 => c \in seen
        /\ Starting(c) => c \in seen /\ runs[c] = 0

\* InFlight::map_ holds the token of every live worker whose id was not evicted: that is
\* why there is at most one, and why a cancel reaches it.
CopyInv ==
    \A c \in Commands : c \notin forgotten =>
        /\ \A w \in Workers : Live(w) /\ task[w] = c => c \in seen /\ inflight[c] = w
        /\ Starting(c) => c \in seen /\ \A w \in Workers : Live(w) => task[w] # c

\* A send message is acknowledged only after its command was started, or just before.
AckInv ==
    \A m \in Messages \ Malformed : m.kind = "send" /\ crashes = 0 =>
        /\ queue[m] = "gone" => runs[m.cmd] > 0 \/ (pc = "spawn" /\ cur = m)
        /\ pc = "settle" /\ cur = m => runs[m.cmd] > 0
        /\ m.cmd \in seen => runs[m.cmd] > 0 \/ (pc \in {"inprogress", "ack", "spawn"} /\ cur = m)

\* A terminal status leaves nobody who would still report something else.
StatusInv ==
    \A c \in Commands : exits + crashes = 0 /\ c \notin forgotten =>
        /\ c \notin seen => console[c] = "none"
        /\ console[c] \in Terminal =>
            /\ ~(pc \in {"inprogress", "failreply"} /\ cur.cmd = c)
            /\ ~Starting(c)
            /\ \A w \in Workers : Live(w) /\ task[w] = c => phase[w] = "done"
        /\ pc = "failreply" /\ cur.cmd = c => c \in seen /\ \A w \in Workers : Live(w) => task[w] # c

\* A worker is never started once drain() has found the count at zero.
LEMMA DrainNext == TypeInv /\ DrainedMeansIdle /\ [Next]_vars => DrainedMeansIdle'
  <1> SUFFICES ASSUME TypeInv /\ DrainedMeansIdle, [Next]_vars PROVE DrainedMeansIdle'
    OBVIOUS
  <1> USE DEF TypeInv, TypeOK, mdsVars, mainVars, seenVars, workerVars, lifeVars
  <1>1. CASE PollMessages
    BY <1>1 DEF PollMessages, DrainedMeansIdle
  <1>2. CASE EndBatch
    BY <1>2 DEF EndBatch, DrainedMeansIdle
  <1>3. ASSUME NEW m \in Messages, DuplicateSend(m) PROVE DrainedMeansIdle'
    BY <1>3 DEF DuplicateSend, Take, DrainedMeansIdle
  <1>4. ASSUME NEW m \in Messages, AcceptSend(m) PROVE DrainedMeansIdle'
    BY <1>4 DEF AcceptSend, Take, SeenAdd, DrainedMeansIdle
  <1>5. ASSUME NEW m \in Messages, CancelCommand(m) PROVE DrainedMeansIdle'
    BY <1>5 DEF CancelCommand, Take, DrainedMeansIdle
  <1>6. ASSUME NEW m \in Messages, UnexpectedTopic(m) PROVE DrainedMeansIdle'
    BY <1>6 DEF UnexpectedTopic, Take, DrainedMeansIdle
  <1>7. ASSUME NEW m \in Messages, IgnoreBlank(m) PROVE DrainedMeansIdle'
    BY <1>7 DEF IgnoreBlank, DrainedMeansIdle
  <1>8. CASE ReplyFailed
    BY <1>8 DEF ReplyFailed, DrainedMeansIdle
  <1>9. CASE ReplyInProgress
    BY <1>9 DEF ReplyInProgress, DrainedMeansIdle
  <1>10. CASE Acknowledge
    BY <1>10 DEF Acknowledge, DrainedMeansIdle
  <1>11. ASSUME NEW w \in Workers, SpawnWorker(w) PROVE DrainedMeansIdle'
    BY <1>11 DEF SpawnWorker, InFlightAdd, Handled, DrainedMeansIdle
  <1>12. CASE SettleMessage
    BY <1>12 DEF SettleMessage, Settle, Handled, DrainedMeansIdle
  <1>13. CASE CancelAll
    BY <1>13 DEF CancelAll, DrainedMeansIdle
  <1>14. CASE Drain
    <2>1. IsFiniteSet(LiveWorkers)
      BY FinitenessAssumption, FS_Subset DEF LiveWorkers
    <2>2. count = 0 => LiveWorkers = {}
      BY <2>1, FS_EmptySet DEF CountInv
    <2>3. \A w \in Workers : Live(w)' = Live(w)
      BY <1>14 DEF Drain, Live
    <2>4. QED
      BY <1>14, <2>2, <2>3 DEF Drain, DrainedMeansIdle, LiveWorkers
  <1>15. CASE Return
    BY <1>15 DEF Return, LoseMemory, DrainedMeansIdle
  <1>16. CASE PollNothing
    BY <1>16 DEF PollNothing, vars, DrainedMeansIdle
  <1>17. ASSUME NEW w \in Workers, FinishRun(w) PROVE DrainedMeansIdle'
    BY <1>17 DEF FinishRun, DrainedMeansIdle, Live
  <1>18. ASSUME NEW w \in Workers, ReplyFinal(w) PROVE DrainedMeansIdle'
    BY <1>18 DEF ReplyFinal, SendReply, DrainedMeansIdle, Live
  <1>19. ASSUME NEW w \in Workers, WorkerDone(w) PROVE DrainedMeansIdle'
    BY <1>19 DEF WorkerDone, DrainedMeansIdle, Live
  <1>20. ASSUME NEW m \in Messages, Issue(m) PROVE DrainedMeansIdle'
    BY <1>20 DEF Issue, DrainedMeansIdle, Live
  <1>21. ASSUME NEW m \in Messages, VisibilityTimeout(m) PROVE DrainedMeansIdle'
    BY <1>21 DEF VisibilityTimeout, DrainedMeansIdle, Live
  <1>22. CASE Stop
    BY <1>22 DEF Stop, DrainedMeansIdle, Live
  <1>23. CASE Crash
    BY <1>23 DEF Crash, LoseMemory, DrainedMeansIdle
  <1>24. CASE Restart
    BY <1>24 DEF Restart, DrainedMeansIdle
  <1>25. CASE UNCHANGED vars
    BY <1>25 DEF vars, DrainedMeansIdle, Live
  <1>26. QED
    BY <1>1, <1>2, <1>3, <1>4, <1>5, <1>6, <1>7, <1>8, <1>9, <1>10, <1>11, <1>12, <1>13, <1>14,
       <1>15, <1>16, <1>17, <1>18, <1>19, <1>20, <1>21, <1>22, <1>23, <1>24, <1>25
       DEF Next, MainStep, Handle, WorkerStep

\* Every step keeps a remembered command in the filter, and started at most once.
LEMMA OnceNext == TypeInv /\ OnceInv /\ [Next]_vars => OnceInv'
  <1> SUFFICES ASSUME TypeInv /\ OnceInv, [Next]_vars PROVE OnceInv'
    OBVIOUS
  <1> USE DEF TypeInv, TypeOK, mdsVars, mainVars, seenVars, workerVars, lifeVars
  <1>1. CASE PollMessages
    BY <1>1 DEF PollMessages, OnceInv, TablesOK, Starting
  <1>2. CASE EndBatch
    BY <1>2 DEF EndBatch, OnceInv, TablesOK, Starting
  <1>3. ASSUME NEW m \in Messages, DuplicateSend(m) PROVE OnceInv'
    BY <1>3 DEF DuplicateSend, Take, OnceInv, TablesOK, Starting
  <1>4. ASSUME NEW m \in Messages, AcceptSend(m) PROVE OnceInv'
    BY <1>4, SeenAddOK, MessageFields DEF AcceptSend, Take, SeenAdd, OnceInv, TablesOK, Starting
  <1>5. ASSUME NEW m \in Messages, CancelCommand(m) PROVE OnceInv'
    BY <1>5 DEF CancelCommand, Take, OnceInv, TablesOK, Starting
  <1>6. ASSUME NEW m \in Messages, UnexpectedTopic(m) PROVE OnceInv'
    BY <1>6 DEF UnexpectedTopic, Take, OnceInv, TablesOK, Starting
  <1>7. ASSUME NEW m \in Messages, IgnoreBlank(m) PROVE OnceInv'
    BY <1>7 DEF IgnoreBlank, OnceInv, TablesOK, Starting
  <1>8. CASE ReplyFailed
    BY <1>8 DEF ReplyFailed, SendReply, OnceInv, Statuses, Terminal, TablesOK, Starting
  <1>9. CASE ReplyInProgress
    BY <1>9 DEF ReplyInProgress, SendReply, OnceInv, Statuses, TablesOK, Starting
  <1>10. CASE Acknowledge
    BY <1>10 DEF Acknowledge, Settle, OnceInv, TablesOK, Starting
  <1>11. ASSUME NEW w \in Workers, SpawnWorker(w) PROVE OnceInv'
    BY <1>11, MessageFields DEF SpawnWorker, InFlightAdd, Handled, OnceInv, TablesOK, Starting
  <1>12. CASE SettleMessage
    BY <1>12 DEF SettleMessage, Settle, Handled, OnceInv, TablesOK, Starting
  <1>13. CASE CancelAll
    BY <1>13 DEF CancelAll, OnceInv, TablesOK, Starting
  <1>14. CASE Drain
    BY <1>14 DEF Drain, OnceInv, TablesOK, Starting
  <1>15. CASE Return
    BY <1>15 DEF Return, LoseMemory, OnceInv, TablesOK, Starting
  <1>16. CASE PollNothing
    BY <1>16 DEF PollNothing, vars, OnceInv, TablesOK, Starting
  <1>17. ASSUME NEW w \in Workers, FinishRun(w) PROVE OnceInv'
    BY <1>17 DEF FinishRun, OnceInv, TablesOK, Starting
  <1>18. ASSUME NEW w \in Workers, ReplyFinal(w) PROVE OnceInv'
    BY <1>18 DEF ReplyFinal, SendReply, OnceInv, Statuses, TablesOK, Starting
  <1>19. ASSUME NEW w \in Workers, WorkerDone(w) PROVE OnceInv'
    BY <1>19 DEF WorkerDone, OnceInv, TablesOK, Starting
  <1>20. ASSUME NEW m \in Messages, Issue(m) PROVE OnceInv'
    BY <1>20 DEF Issue, OnceInv, TablesOK, Starting
  <1>21. ASSUME NEW m \in Messages, VisibilityTimeout(m) PROVE OnceInv'
    BY <1>21 DEF VisibilityTimeout, OnceInv, TablesOK, Starting
  <1>22. CASE Stop
    BY <1>22 DEF Stop, OnceInv, TablesOK, Starting
  <1>23. CASE Crash
    BY <1>23 DEF Crash, LoseMemory, OnceInv, TablesOK, Starting
  <1>24. CASE Restart
    BY <1>24 DEF Restart, OnceInv, TablesOK, Starting
  <1>25. CASE UNCHANGED vars
    BY <1>25 DEF vars, OnceInv, TablesOK, Starting
  <1>26. QED
    BY <1>1, <1>2, <1>3, <1>4, <1>5, <1>6, <1>7, <1>8, <1>9, <1>10, <1>11, <1>12, <1>13, <1>14,
       <1>15, <1>16, <1>17, <1>18, <1>19, <1>20, <1>21, <1>22, <1>23, <1>24, <1>25
       DEF Next, MainStep, Handle, WorkerStep

\* Every step keeps the token of a live worker in InFlight::map_.
LEMMA CopyNext == TypeInv /\ CopyInv /\ [Next]_vars => CopyInv'
  <1> SUFFICES ASSUME TypeInv /\ CopyInv, [Next]_vars PROVE CopyInv'
    OBVIOUS
  <1> USE DEF TypeInv, TypeOK, mdsVars, mainVars, seenVars, workerVars, lifeVars
  <1>1. CASE PollMessages
    BY <1>1 DEF PollMessages, CopyInv, TablesOK, Starting, Live
  <1>2. CASE EndBatch
    BY <1>2 DEF EndBatch, CopyInv, TablesOK, Starting, Live
  <1>3. ASSUME NEW m \in Messages, DuplicateSend(m) PROVE CopyInv'
    BY <1>3 DEF DuplicateSend, Take, CopyInv, TablesOK, Starting, Live
  <1>4. ASSUME NEW m \in Messages, AcceptSend(m) PROVE CopyInv'
    BY <1>4, SeenAddOK, MessageFields DEF AcceptSend, Take, SeenAdd, CopyInv, TablesOK, Starting, Live
  <1>5. ASSUME NEW m \in Messages, CancelCommand(m) PROVE CopyInv'
    BY <1>5 DEF CancelCommand, Take, CopyInv, TablesOK, Starting, Live
  <1>6. ASSUME NEW m \in Messages, UnexpectedTopic(m) PROVE CopyInv'
    BY <1>6 DEF UnexpectedTopic, Take, CopyInv, TablesOK, Starting, Live
  <1>7. ASSUME NEW m \in Messages, IgnoreBlank(m) PROVE CopyInv'
    BY <1>7 DEF IgnoreBlank, CopyInv, TablesOK, Starting, Live
  <1>8. CASE ReplyFailed
    BY <1>8 DEF ReplyFailed, SendReply, CopyInv, Statuses, Terminal, TablesOK, Starting, Live
  <1>9. CASE ReplyInProgress
    BY <1>9 DEF ReplyInProgress, SendReply, CopyInv, Statuses, TablesOK, Starting, Live
  <1>10. CASE Acknowledge
    BY <1>10 DEF Acknowledge, Settle, CopyInv, TablesOK, Starting, Live
  <1>11. ASSUME NEW w \in Workers, SpawnWorker(w) PROVE CopyInv'
    BY <1>11, MessageFields DEF SpawnWorker, InFlightAdd, Handled, CopyInv, TablesOK, Starting, Live
  <1>12. CASE SettleMessage
    BY <1>12 DEF SettleMessage, Settle, Handled, CopyInv, TablesOK, Starting, Live
  <1>13. CASE CancelAll
    BY <1>13 DEF CancelAll, CopyInv, TablesOK, Starting, Live
  <1>14. CASE Drain
    BY <1>14 DEF Drain, CopyInv, TablesOK, Starting, Live
  <1>15. CASE Return
    BY <1>15 DEF Return, LoseMemory, CopyInv, TablesOK, Starting, Live
  <1>16. CASE PollNothing
    BY <1>16 DEF PollNothing, vars, CopyInv, TablesOK, Starting, Live
  <1>17. ASSUME NEW w \in Workers, FinishRun(w) PROVE CopyInv'
    BY <1>17 DEF FinishRun, CopyInv, TablesOK, Starting, Live
  <1>18. ASSUME NEW w \in Workers, ReplyFinal(w) PROVE CopyInv'
    BY <1>18 DEF ReplyFinal, SendReply, CopyInv, Statuses, TablesOK, Starting, Live
  <1>19. ASSUME NEW w \in Workers, WorkerDone(w) PROVE CopyInv'
    BY <1>19 DEF WorkerDone, CopyInv, TablesOK, Starting, Live
  <1>20. ASSUME NEW m \in Messages, Issue(m) PROVE CopyInv'
    BY <1>20 DEF Issue, CopyInv, TablesOK, Starting, Live
  <1>21. ASSUME NEW m \in Messages, VisibilityTimeout(m) PROVE CopyInv'
    BY <1>21 DEF VisibilityTimeout, CopyInv, TablesOK, Starting, Live
  <1>22. CASE Stop
    BY <1>22 DEF Stop, CopyInv, TablesOK, Starting, Live
  <1>23. CASE Crash
    BY <1>23 DEF Crash, LoseMemory, CopyInv, TablesOK, Starting, Live
  <1>24. CASE Restart
    BY <1>24 DEF Restart, CopyInv, TablesOK, Starting, Live
  <1>25. CASE UNCHANGED vars
    BY <1>25 DEF vars, CopyInv, TablesOK, Starting, Live
  <1>26. QED
    BY <1>1, <1>2, <1>3, <1>4, <1>5, <1>6, <1>7, <1>8, <1>9, <1>10, <1>11, <1>12, <1>13, <1>14,
       <1>15, <1>16, <1>17, <1>18, <1>19, <1>20, <1>21, <1>22, <1>23, <1>24, <1>25
       DEF Next, MainStep, Handle, WorkerStep

\* Every step keeps the acknowledgement behind the decision to start.
LEMMA AckNext == TypeInv /\ AckInv /\ [Next]_vars => AckInv'
  <1> SUFFICES ASSUME TypeInv /\ AckInv, [Next]_vars PROVE AckInv'
    OBVIOUS
  <1> USE DEF TypeInv, TypeOK, mdsVars, mainVars, seenVars, workerVars, lifeVars
  <1>1. CASE PollMessages
    BY <1>1 DEF PollMessages, AckInv
  <1>2. CASE EndBatch
    BY <1>2 DEF EndBatch, AckInv
  <1>3. ASSUME NEW m \in Messages, DuplicateSend(m) PROVE AckInv'
    BY <1>3 DEF DuplicateSend, Take, AckInv
  <1>4. ASSUME NEW m \in Messages, AcceptSend(m) PROVE AckInv'
    <2>1. m.cmd \in Commands /\ m.kind = "send" /\ pc = "batch" /\ cur' = m
      BY <1>4, MessageFields DEF AcceptSend, Take
    <2>2. seen' \subseteq seen \cup {m.cmd}
      BY <1>4, <2>1, SeenAddOK DEF AcceptSend, TablesOK
    <2>3. UNCHANGED <<queue, runs, crashes>> /\ pc' \in {"failreply", "inprogress"}
      BY <1>4 DEF AcceptSend, Take
    <2>4. m \notin Malformed => pc' = "inprogress"
      BY <1>4 DEF AcceptSend, Take
    <2>5. ASSUME NEW n \in Messages \ Malformed, n.kind = "send", crashes = 0, n.cmd \in seen'
          PROVE  runs[n.cmd] > 0 \/ (pc' = "inprogress" /\ cur' = n)
      <3>1. CASE n.cmd = m.cmd
        BY <3>1, <2>1, <2>4, <2>5, MessageUnique
      <3>2. CASE n.cmd # m.cmd
        BY <3>2, <2>1, <2>2, <2>5 DEF AckInv
      <3>3. QED
        BY <3>1, <3>2
    <2>6. QED
      BY <2>1, <2>3, <2>5 DEF AckInv
  <1>5. ASSUME NEW m \in Messages, CancelCommand(m) PROVE AckInv'
    BY <1>5 DEF CancelCommand, Take, AckInv
  <1>6. ASSUME NEW m \in Messages, UnexpectedTopic(m) PROVE AckInv'
    BY <1>6 DEF UnexpectedTopic, Take, AckInv
  <1>7. ASSUME NEW m \in Messages, IgnoreBlank(m) PROVE AckInv'
    BY <1>7 DEF IgnoreBlank, AckInv
  <1>8. CASE ReplyFailed
    BY <1>8, MessagesAssumption DEF ReplyFailed, AckInv, TablesOK, CurInv, Handling
  <1>9. CASE ReplyInProgress
    BY <1>9 DEF ReplyInProgress, AckInv
  <1>10. CASE Acknowledge
    BY <1>10, MessagesAssumption DEF Acknowledge, Settle, AckInv, TablesOK
  <1>11. ASSUME NEW w \in Workers, SpawnWorker(w) PROVE AckInv'
    BY <1>11, MessageFields, MessagesAssumption DEF SpawnWorker, InFlightAdd, Handled, AckInv, TablesOK
  <1>12. CASE SettleMessage
    BY <1>12, MessagesAssumption DEF SettleMessage, Settle, Handled, AckInv, TablesOK
  <1>13. CASE CancelAll
    BY <1>13 DEF CancelAll, AckInv
  <1>14. CASE Drain
    BY <1>14 DEF Drain, AckInv
  <1>15. CASE Return
    BY <1>15 DEF Return, LoseMemory, AckInv
  <1>16. CASE PollNothing
    BY <1>16 DEF PollNothing, vars, AckInv
  <1>17. ASSUME NEW w \in Workers, FinishRun(w) PROVE AckInv'
    BY <1>17 DEF FinishRun, AckInv
  <1>18. ASSUME NEW w \in Workers, ReplyFinal(w) PROVE AckInv'
    BY <1>18 DEF ReplyFinal, AckInv
  <1>19. ASSUME NEW w \in Workers, WorkerDone(w) PROVE AckInv'
    BY <1>19 DEF WorkerDone, AckInv
  <1>20. ASSUME NEW m \in Messages, Issue(m) PROVE AckInv'
    BY <1>20 DEF Issue, AckInv
  <1>21. ASSUME NEW m \in Messages, VisibilityTimeout(m) PROVE AckInv'
    BY <1>21 DEF VisibilityTimeout, AckInv
  <1>22. CASE Stop
    BY <1>22 DEF Stop, AckInv
  <1>23. CASE Crash
    BY <1>23, MessagesAssumption DEF Crash, LoseMemory, AckInv, TablesOK
  <1>24. CASE Restart
    BY <1>24 DEF Restart, AckInv
  <1>25. CASE UNCHANGED vars
    BY <1>25 DEF vars, AckInv
  <1>26. QED
    BY <1>1, <1>2, <1>3, <1>4, <1>5, <1>6, <1>7, <1>8, <1>9, <1>10, <1>11, <1>12, <1>13, <1>14,
       <1>15, <1>16, <1>17, <1>18, <1>19, <1>20, <1>21, <1>22, <1>23, <1>24, <1>25
       DEF Next, MainStep, Handle, WorkerStep

\* Every step keeps a terminal status the last word of its command.
LEMMA StatusNext == TypeInv /\ CopyInv /\ StatusInv /\ [Next]_vars => StatusInv'
  <1> SUFFICES ASSUME TypeInv /\ CopyInv /\ StatusInv, [Next]_vars PROVE StatusInv'
    OBVIOUS
  <1> USE DEF TypeInv, TypeOK, mdsVars, mainVars, seenVars, workerVars, lifeVars
  <1>1. CASE PollMessages
    BY <1>1 DEF PollMessages, StatusInv, CopyInv, TablesOK, Starting, Live
  <1>2. CASE EndBatch
    BY <1>2 DEF EndBatch, StatusInv, CopyInv, TablesOK, Starting, Live
  <1>3. ASSUME NEW m \in Messages, DuplicateSend(m) PROVE StatusInv'
    BY <1>3 DEF DuplicateSend, Take, StatusInv, CopyInv, TablesOK, Starting, Live
  <1>4. ASSUME NEW m \in Messages, AcceptSend(m) PROVE StatusInv'
    <2>1. m.cmd \in Commands /\ m.cmd \notin seen /\ cur' = m
      BY <1>4, MessageFields DEF AcceptSend, Take
    <2>2. /\ forgotten \subseteq forgotten'
          /\ m.cmd \in seen' \cup forgotten'
          /\ seen \subseteq seen' \cup forgotten'
          /\ seen' \subseteq seen \cup {m.cmd}
      BY <1>4, <2>1, SeenAddOK DEF AcceptSend, TablesOK
    <2>3. pc' \in {"failreply", "inprogress"} /\ pc = "batch"
      BY <1>4 DEF AcceptSend, Take
    <2>4. UNCHANGED <<console, phase, task, exits, crashes>>
      BY <1>4 DEF AcceptSend, Take
    <2>5. QED
      BY <2>1, <2>2, <2>3, <2>4 DEF StatusInv, CopyInv, Starting, Live, Terminal
  <1>5. ASSUME NEW m \in Messages, CancelCommand(m) PROVE StatusInv'
    BY <1>5 DEF CancelCommand, Take, StatusInv, CopyInv, TablesOK, Starting, Live
  <1>6. ASSUME NEW m \in Messages, UnexpectedTopic(m) PROVE StatusInv'
    BY <1>6 DEF UnexpectedTopic, Take, StatusInv, CopyInv, TablesOK, Starting, Live
  <1>7. ASSUME NEW m \in Messages, IgnoreBlank(m) PROVE StatusInv'
    BY <1>7 DEF IgnoreBlank, StatusInv, CopyInv, TablesOK, Starting, Live
  <1>8. CASE ReplyFailed
    BY <1>8 DEF ReplyFailed, SendReply, StatusInv, Statuses, Terminal, CopyInv, TablesOK, Starting, Live
  <1>9. CASE ReplyInProgress
    <2>1. cur.cmd \in Commands
      BY <1>9, MessageFields DEF ReplyInProgress, CurInv, Handling
    <2>2. QED
      BY <1>9, <2>1 DEF ReplyInProgress, SendReply, StatusInv, CopyInv, TablesOK, Starting,
                       Live, Terminal
  <1>10. CASE Acknowledge
    BY <1>10 DEF Acknowledge, Settle, StatusInv, CopyInv, TablesOK, Starting, Live
  <1>11. ASSUME NEW w \in Workers, SpawnWorker(w) PROVE StatusInv'
    BY <1>11, MessageFields DEF SpawnWorker, InFlightAdd, Handled, StatusInv, CopyInv, TablesOK, Starting, Live
  <1>12. CASE SettleMessage
    BY <1>12 DEF SettleMessage, Settle, Handled, StatusInv, CopyInv, TablesOK, Starting, Live
  <1>13. CASE CancelAll
    BY <1>13 DEF CancelAll, StatusInv, CopyInv, TablesOK, Starting, Live
  <1>14. CASE Drain
    BY <1>14 DEF Drain, StatusInv, CopyInv, TablesOK, Starting, Live
  <1>15. CASE Return
    BY <1>15 DEF Return, LoseMemory, StatusInv, CopyInv, TablesOK, Starting, Live
  <1>16. CASE PollNothing
    BY <1>16 DEF PollNothing, vars, StatusInv, CopyInv, TablesOK, Starting, Live
  <1>17. ASSUME NEW w \in Workers, FinishRun(w) PROVE StatusInv'
    BY <1>17 DEF FinishRun, StatusInv, CopyInv, TablesOK, Starting, Live
  <1>18. ASSUME NEW w \in Workers, ReplyFinal(w) PROVE StatusInv'
    BY <1>18 DEF ReplyFinal, SendReply, StatusInv, Statuses, CopyInv, TablesOK, Starting, Live
  <1>19. ASSUME NEW w \in Workers, WorkerDone(w) PROVE StatusInv'
    BY <1>19 DEF WorkerDone, StatusInv, CopyInv, TablesOK, Starting, Live
  <1>20. ASSUME NEW m \in Messages, Issue(m) PROVE StatusInv'
    BY <1>20 DEF Issue, StatusInv, CopyInv, TablesOK, Starting, Live
  <1>21. ASSUME NEW m \in Messages, VisibilityTimeout(m) PROVE StatusInv'
    BY <1>21 DEF VisibilityTimeout, StatusInv, CopyInv, TablesOK, Starting, Live
  <1>22. CASE Stop
    BY <1>22 DEF Stop, StatusInv, CopyInv, TablesOK, Starting, Live
  <1>23. CASE Crash
    BY <1>23 DEF Crash, LoseMemory, StatusInv, CopyInv, TablesOK, Starting, Live
  <1>24. CASE Restart
    BY <1>24 DEF Restart, StatusInv, CopyInv, TablesOK, Starting, Live
  <1>25. CASE UNCHANGED vars
    BY <1>25 DEF vars, StatusInv, CopyInv, TablesOK, Starting, Live
  <1>26. QED
    BY <1>1, <1>2, <1>3, <1>4, <1>5, <1>6, <1>7, <1>8, <1>9, <1>10, <1>11, <1>12, <1>13, <1>14,
       <1>15, <1>16, <1>17, <1>18, <1>19, <1>20, <1>21, <1>22, <1>23, <1>24, <1>25
       DEF Next, MainStep, Handle, WorkerStep

-----------------------------------------------------------------------------
(* The theorems.                                                           *)

\* The strengthenings hold initially.
LEMMA StrengtheningsInit ==
    Init => DrainedMeansIdle /\ OnceInv /\ CopyInv /\ AckInv /\ StatusInv
  BY DEF Init, DrainedMeansIdle, OnceInv, CopyInv, AckInv, StatusInv, Starting, Live, Terminal

\* The inductive type invariant holds throughout.
LEMMA TypeInvariant == Spec => []TypeInv
  <1>1. TypeInv /\ [Next]_vars => TypeInv'
    BY TablesNext, FlagsNext, CurNext, TaskNext, CountNext DEF TypeInv, TypeOK
  <1>2. QED
    BY TypeInit, <1>1, PTL DEF Spec

\* The state stays well formed; in particular InFlight::count_, which done() decrements
\* for every execution and add() increments, never goes negative.
THEOREM TypeCorrect == Spec => []TypeOK
  <1>1. TypeInv => TypeOK
    BY DEF TypeInv
  <1>2. QED
    BY TypeInvariant, <1>1, PTL

\* When InFlight::drain returns true, no worker is alive and none will be: main can
\* destroy the Agent its workers use.
THEOREM DrainSafe == Spec => []DrainedMeansIdle
  <1>1. QED
    BY TypeInvariant, StrengtheningsInit, DrainNext, PTL DEF Spec

\* Redelivery alone never executes a command twice (SeenCommands, main.cpp).
THEOREM ExecutedAtMostOnce == Spec => []AtMostOnce
  <1>1. TypeInv /\ OnceInv => AtMostOnce
    BY DEF TypeInv, TypeOK, TablesOK, OnceInv, AtMostOnce
  <1>2. QED
    BY TypeInvariant, StrengtheningsInit, OnceNext, <1>1, PTL DEF Spec

\* InFlight::map_ mirrors the live workers throughout.
LEMMA CopyInvariant == Spec => []CopyInv
  BY TypeInvariant, StrengtheningsInit, CopyNext, PTL DEF Spec

\* No two workers execute a command SeenCommands still remembers.
THEOREM NoSecondWorker == Spec => []OneCopy
  <1>1. TypeInv /\ CopyInv => OneCopy
    BY DEF TypeInv, TaskInv, CopyInv, OneCopy
  <1>2. QED
    BY TypeInvariant, CopyInvariant, <1>1, PTL

\* A send message leaves the queue only with its command started or about to be:
\* orderly restarts drop no acknowledged command.
THEOREM NothingAcknowledgedIsDropped == Spec => []AckedIsStarted
  <1>1. AckInv => AckedIsStarted
    BY DEF AckInv, AckedIsStarted
  <1>2. QED
    BY TypeInvariant, StrengtheningsInit, AckNext, <1>1, PTL DEF Spec

-----------------------------------------------------------------------------
(* Action properties.                                                      *)

\* The only step that takes a cancel message in hand is the cancel handler.
LEMMA TakesCancel ==
    ASSUME TypeInv, [Next]_vars, NEW m \in Messages, m.kind = "cancel", cur # m, cur' = m
    PROVE  CancelCommand(m)
  <1>1. CASE PollMessages
    BY <1>1 DEF PollMessages
  <1>2. CASE EndBatch
    BY <1>2 DEF EndBatch
  <1>3. ASSUME NEW n \in Messages, DuplicateSend(n) PROVE CancelCommand(m)
    BY <1>3 DEF DuplicateSend, Take
  <1>4. ASSUME NEW n \in Messages, AcceptSend(n) PROVE CancelCommand(m)
    BY <1>4 DEF AcceptSend, Take, SeenAdd
  <1>5. ASSUME NEW n \in Messages, CancelCommand(n) PROVE CancelCommand(m)
    BY <1>5 DEF CancelCommand, Take
  <1>6. ASSUME NEW n \in Messages, UnexpectedTopic(n) PROVE CancelCommand(m)
    BY <1>6 DEF UnexpectedTopic, Take
  <1>7. ASSUME NEW n \in Messages, IgnoreBlank(n) PROVE CancelCommand(m)
    BY <1>7 DEF IgnoreBlank
  <1>8. CASE ReplyFailed
    BY <1>8 DEF ReplyFailed
  <1>9. CASE ReplyInProgress
    BY <1>9 DEF ReplyInProgress
  <1>10. CASE Acknowledge
    BY <1>10 DEF Acknowledge
  <1>11. ASSUME NEW w \in Workers, SpawnWorker(w) PROVE CancelCommand(m)
    BY <1>11, MessagesAssumption DEF SpawnWorker, InFlightAdd, Handled
  <1>12. CASE SettleMessage
    BY <1>12, MessagesAssumption DEF SettleMessage, Settle, Handled
  <1>13. CASE CancelAll
    BY <1>13 DEF CancelAll
  <1>14. CASE Drain
    BY <1>14 DEF Drain
  <1>15. CASE Return
    BY <1>15, MessagesAssumption DEF Return, LoseMemory
  <1>16. CASE PollNothing
    BY <1>16, MessagesAssumption DEF PollNothing, mdsVars, mainVars, seenVars, workerVars, lifeVars, vars
  <1>17. ASSUME NEW w \in Workers, FinishRun(w) PROVE CancelCommand(m)
    BY <1>17, MessagesAssumption DEF FinishRun, mdsVars, mainVars, seenVars, workerVars, lifeVars
  <1>18. ASSUME NEW w \in Workers, ReplyFinal(w) PROVE CancelCommand(m)
    BY <1>18, MessagesAssumption DEF ReplyFinal, SendReply, Statuses, mdsVars, mainVars, seenVars, workerVars, lifeVars
  <1>19. ASSUME NEW w \in Workers, WorkerDone(w) PROVE CancelCommand(m)
    BY <1>19, MessagesAssumption DEF WorkerDone, mdsVars, mainVars, seenVars, workerVars, lifeVars
  <1>20. ASSUME NEW n \in Messages, Issue(n) PROVE CancelCommand(m)
    BY <1>20, MessagesAssumption DEF Issue, mdsVars, mainVars, seenVars, workerVars, lifeVars
  <1>21. ASSUME NEW n \in Messages, VisibilityTimeout(n) PROVE CancelCommand(m)
    BY <1>21, MessagesAssumption DEF VisibilityTimeout, mdsVars, mainVars, seenVars, workerVars, lifeVars
  <1>22. CASE Stop
    BY <1>22 DEF Stop
  <1>23. CASE Crash
    BY <1>23, MessagesAssumption DEF Crash, LoseMemory
  <1>24. CASE Restart
    BY <1>24 DEF Restart
  <1>25. CASE UNCHANGED vars
    BY <1>25 DEF vars, mdsVars, mainVars, seenVars, workerVars, lifeVars
  <1>26. QED
    BY <1>1, <1>2, <1>3, <1>4, <1>5, <1>6, <1>7, <1>8, <1>9, <1>10, <1>11, <1>12, <1>13, <1>14,
       <1>15, <1>16, <1>17, <1>18, <1>19, <1>20, <1>21, <1>22, <1>23, <1>24, <1>25
       DEF Next, MainStep, Handle, WorkerStep

\* The step formula of CancelReaches.
CancelStep ==
    \A m \in Messages \ Malformed :
        m.kind = "cancel" /\ cur # m /\ cur' = m =>
            \A w \in Workers :
                Live(w) /\ task[w] = m.cmd /\ m.cmd \notin forgotten => token'[w]

\* A step that takes a cancel message sets the token of every worker on its target.
LEMMA CancelStepHolds == TypeInv /\ CopyInv /\ [Next]_vars => CancelStep
  <1> SUFFICES ASSUME TypeInv, CopyInv, [Next]_vars,
                      NEW m \in Messages \ Malformed,
                      m.kind = "cancel", cur # m, cur' = m,
                      NEW w \in Workers, Live(w), task[w] = m.cmd, m.cmd \notin forgotten
               PROVE  token'[w]
    BY DEF CancelStep
  <1>1. CancelCommand(m)
    BY TakesCancel
  <1>2. inflight[m.cmd] = w
    BY MessageFields DEF CopyInv
  <1>3. QED
    BY <1>1, <1>2 DEF CancelCommand

\* handle_cancel_command sets the token of every worker that executes its target.
THEOREM CancelAlwaysReaches == Spec => CancelReaches
  <1>1. CancelStep => [\A m \in Messages \ Malformed :
            m.kind = "cancel" /\ cur # m /\ cur' = m =>
                \A w \in Workers :
                    Live(w) /\ task[w] = m.cmd /\ m.cmd \notin forgotten => token'[w]]_vars
    BY DEF CancelStep
  <1>2. QED
    BY TypeInvariant, CopyInvariant, CancelStepHolds, <1>1, PTL DEF CancelReaches, Spec

\* The step formula of TerminalSticks.
TerminalStep ==
    \A c \in Commands :
        console[c] \in Terminal /\ c \notin forgotten /\ exits + crashes = 0
            => console'[c] = console[c]

\* Only the three replies touch the console, and none of them touches a terminal status.
LEMMA TerminalStepHolds == TypeInv /\ StatusInv /\ [Next]_vars => TerminalStep
  <1> SUFFICES ASSUME TypeInv, StatusInv, [Next]_vars PROVE TerminalStep
    OBVIOUS
  <1> USE DEF TypeInv, TypeOK, mdsVars, mainVars, seenVars, workerVars, lifeVars
  <1>1. CASE PollMessages
    BY <1>1 DEF PollMessages, TerminalStep
  <1>2. CASE EndBatch
    BY <1>2 DEF EndBatch, TerminalStep
  <1>3. ASSUME NEW m \in Messages, DuplicateSend(m) PROVE TerminalStep
    BY <1>3 DEF DuplicateSend, Take, TerminalStep
  <1>4. ASSUME NEW m \in Messages, AcceptSend(m) PROVE TerminalStep
    BY <1>4 DEF AcceptSend, Take, SeenAdd, TerminalStep
  <1>5. ASSUME NEW m \in Messages, CancelCommand(m) PROVE TerminalStep
    BY <1>5 DEF CancelCommand, Take, TerminalStep
  <1>6. ASSUME NEW m \in Messages, UnexpectedTopic(m) PROVE TerminalStep
    BY <1>6 DEF UnexpectedTopic, Take, TerminalStep
  <1>7. ASSUME NEW m \in Messages, IgnoreBlank(m) PROVE TerminalStep
    BY <1>7 DEF IgnoreBlank, TerminalStep
  <1>8. CASE ReplyFailed
    BY <1>8, MessageFields DEF ReplyFailed, SendReply, TerminalStep, Statuses, Terminal, StatusInv, TablesOK, Starting, Live
  <1>9. CASE ReplyInProgress
    BY <1>9, MessageFields DEF ReplyInProgress, SendReply, TerminalStep, Statuses, StatusInv, TablesOK, Starting, Live
  <1>10. CASE Acknowledge
    BY <1>10 DEF Acknowledge, TerminalStep
  <1>11. ASSUME NEW w \in Workers, SpawnWorker(w) PROVE TerminalStep
    BY <1>11 DEF SpawnWorker, TerminalStep
  <1>12. CASE SettleMessage
    BY <1>12 DEF SettleMessage, TerminalStep
  <1>13. CASE CancelAll
    BY <1>13 DEF CancelAll, TerminalStep
  <1>14. CASE Drain
    BY <1>14 DEF Drain, TerminalStep
  <1>15. CASE Return
    BY <1>15 DEF Return, LoseMemory, TerminalStep
  <1>16. CASE PollNothing
    BY <1>16 DEF PollNothing, vars, TerminalStep
  <1>17. ASSUME NEW w \in Workers, FinishRun(w) PROVE TerminalStep
    BY <1>17 DEF FinishRun, TerminalStep
  <1>18. ASSUME NEW w \in Workers, ReplyFinal(w) PROVE TerminalStep
    BY <1>18 DEF ReplyFinal, SendReply, TerminalStep, Statuses, StatusInv, TablesOK, Starting, Live
  <1>19. ASSUME NEW w \in Workers, WorkerDone(w) PROVE TerminalStep
    BY <1>19 DEF WorkerDone, TerminalStep
  <1>20. ASSUME NEW m \in Messages, Issue(m) PROVE TerminalStep
    BY <1>20 DEF Issue, TerminalStep
  <1>21. ASSUME NEW m \in Messages, VisibilityTimeout(m) PROVE TerminalStep
    BY <1>21 DEF VisibilityTimeout, TerminalStep
  <1>22. CASE Stop
    BY <1>22 DEF Stop, TerminalStep
  <1>23. CASE Crash
    BY <1>23 DEF Crash, LoseMemory, TerminalStep
  <1>24. CASE Restart
    BY <1>24 DEF Restart, TerminalStep
  <1>25. CASE UNCHANGED vars
    BY <1>25 DEF vars, TerminalStep
  <1>26. QED
    BY <1>1, <1>2, <1>3, <1>4, <1>5, <1>6, <1>7, <1>8, <1>9, <1>10, <1>11, <1>12, <1>13, <1>14,
       <1>15, <1>16, <1>17, <1>18, <1>19, <1>20, <1>21, <1>22, <1>23, <1>24, <1>25
       DEF Next, MainStep, Handle, WorkerStep

\* A terminal status is never overwritten while the process and the id's memory live.
THEOREM TerminalIsLast == Spec => TerminalSticks
  <1>1. TerminalStep => [\A c \in Commands :
            console[c] \in Terminal /\ c \notin forgotten /\ exits + crashes = 0
                => console'[c] = console[c]]_vars
    BY DEF TerminalStep
  <1>2. QED
    BY TypeInvariant, CopyInvariant, StrengtheningsInit, StatusNext, TerminalStepHolds, <1>1, PTL
       DEF TerminalSticks, Spec

-----------------------------------------------------------------------------
(* The agent implements the abstract lifecycle.                            *)

\* Somebody asked for c to be cancelled: `revoked` of the abstract lifecycle.
Asked(c) == stop \/ CancelIssued(c)

\* What is handed out has been sent.
BatchInv == \A m \in batch : queue[m] # "unsent"

\* InFlight::map_ names live workers only, each under its command.
MapInv == \A c \in Commands : \A w \in Workers : inflight[c] = w => Live(w) /\ task[w] = c

\* A token is set, and a status Cancelled, only where somebody asked for it.
CancelInv ==
    \A w \in Workers :
        /\ Live(w) /\ token[w] => Asked(task[w])
        /\ phase[w] \in {"reply", "done"} /\ outcome[w] = "Cancelled" => Asked(task[w])

\* A live worker's command was started; a command still to be announced was not.
StartInv ==
    /\ \A w \in Workers : Live(w) => runs[task[w]] > 0
    /\ pc \in {"inprogress", "failreply"} => console[cur.cmd] = "none" /\ runs[cur.cmd] = 0

LifeInv == FirstLife => BatchInv /\ MapInv /\ CancelInv /\ StartInv

MemoryInv == TypeInv /\ OnceInv /\ CopyInv /\ StatusInv

\* The first life is over for good, and its steps keep the memory of the process.
LEMMA FirstLifeBack ==
    ASSUME TypeInv, [Next]_vars, FirstLife'
    PROVE  FirstLife /\ ~Return /\ ~Crash /\ (stop => stop')
  <1> USE DEF TypeInv, TypeOK, TablesOK, FirstLife, mdsVars, mainVars, seenVars, workerVars, lifeVars
  <1>1. CASE Return
    BY <1>1 DEF Return
  <1>2. CASE Crash
    BY <1>2 DEF Crash
  <1>3. CASE ~Return /\ ~Crash
    <2>1. ASSUME NEW m \in Messages, AcceptSend(m) PROVE FirstLife /\ (stop => stop')
      <3>1. forgotten \subseteq forgotten'
        BY <2>1, MessageFields, SeenAddOK DEF AcceptSend
      <3>2. QED
        BY <2>1, <3>1 DEF AcceptSend, Take
    <2>2. (\E m \in Messages : AcceptSend(m)) \/ (UNCHANGED <<exits, crashes, forgotten>> /\ (stop => stop'))
      BY <1>3 DEF Next, MainStep, Handle, WorkerStep, PollMessages, EndBatch, DuplicateSend, Take,
         CancelCommand, UnexpectedTopic, IgnoreBlank, ReplyFailed, ReplyInProgress, Acknowledge,
         SpawnWorker, Handled, SettleMessage, CancelAll, Drain, PollNothing, FinishRun, ReplyFinal,
         WorkerDone, Issue, VisibilityTimeout, Stop, Restart, vars
    <2>3. QED
      BY <1>3, <2>1, <2>2
  <1>4. QED
    BY <1>1, <1>2, <1>3

\* What is handed out stays sent.
LEMMA BatchNext ==
    ASSUME MemoryInv, BatchInv, MapInv, CancelInv, StartInv, [Next]_vars, FirstLife, FirstLife'
    PROVE  BatchInv'
  <1> USE DEF MemoryInv, TypeInv, TypeOK, mdsVars, mainVars, seenVars, workerVars, lifeVars
  <1>1. CASE PollMessages
    BY <1>1, MessageFields DEF PollMessages, BatchInv, TablesOK
  <1>2. CASE EndBatch
    BY <1>2, MessageFields DEF EndBatch, BatchInv, TablesOK
  <1>3. ASSUME NEW m \in Messages, DuplicateSend(m) PROVE BatchInv'
    BY <1>3, MessageFields DEF DuplicateSend, Take, BatchInv, TablesOK
  <1>4. ASSUME NEW m \in Messages, AcceptSend(m) PROVE BatchInv'
    BY <1>4, MessageFields DEF AcceptSend, Take, BatchInv, TablesOK
  <1>5. ASSUME NEW m \in Messages, CancelCommand(m) PROVE BatchInv'
    BY <1>5, MessageFields DEF CancelCommand, Take, BatchInv, TablesOK
  <1>6. ASSUME NEW m \in Messages, UnexpectedTopic(m) PROVE BatchInv'
    BY <1>6, MessageFields DEF UnexpectedTopic, Take, BatchInv, TablesOK
  <1>7. ASSUME NEW m \in Messages, IgnoreBlank(m) PROVE BatchInv'
    BY <1>7, MessageFields DEF IgnoreBlank, BatchInv, TablesOK
  <1>8. CASE ReplyFailed
    BY <1>8, MessageFields DEF ReplyFailed, SendReply, BatchInv, TablesOK
  <1>9. CASE ReplyInProgress
    BY <1>9, MessageFields DEF ReplyInProgress, SendReply, BatchInv, TablesOK
  <1>10. CASE Acknowledge
    BY <1>10, MessageFields DEF Acknowledge, Settle, BatchInv, TablesOK
  <1>11. ASSUME NEW w \in Workers, SpawnWorker(w) PROVE BatchInv'
    BY <1>11, MessageFields DEF SpawnWorker, InFlightAdd, Handled, BatchInv, TablesOK
  <1>12. CASE SettleMessage
    BY <1>12, MessageFields DEF SettleMessage, Settle, Handled, BatchInv, TablesOK
  <1>13. CASE CancelAll
    BY <1>13, MessageFields DEF CancelAll, BatchInv, TablesOK
  <1>14. CASE Drain
    BY <1>14, MessageFields DEF Drain, BatchInv, TablesOK
  <1>15. CASE Return
    BY <1>15, FirstLifeBack
  <1>16. CASE PollNothing
    BY <1>16, MessageFields DEF PollNothing, vars, BatchInv, TablesOK
  <1>17. ASSUME NEW w \in Workers, FinishRun(w) PROVE BatchInv'
    BY <1>17, MessageFields DEF FinishRun, BatchInv, TablesOK
  <1>18. ASSUME NEW w \in Workers, ReplyFinal(w) PROVE BatchInv'
    BY <1>18, MessageFields DEF ReplyFinal, SendReply, BatchInv, TablesOK
  <1>19. ASSUME NEW w \in Workers, WorkerDone(w) PROVE BatchInv'
    BY <1>19, MessageFields DEF WorkerDone, BatchInv, TablesOK
  <1>20. ASSUME NEW m \in Messages, Issue(m) PROVE BatchInv'
    BY <1>20, MessageFields DEF Issue, BatchInv, TablesOK
  <1>21. ASSUME NEW m \in Messages, VisibilityTimeout(m) PROVE BatchInv'
    BY <1>21, MessageFields DEF VisibilityTimeout, BatchInv, TablesOK
  <1>22. CASE Stop
    BY <1>22, MessageFields DEF Stop, BatchInv, TablesOK
  <1>23. CASE Crash
    BY <1>23, FirstLifeBack
  <1>24. CASE Restart
    BY <1>24, MessageFields DEF Restart, BatchInv, TablesOK
  <1>25. CASE UNCHANGED vars
    BY <1>25, MessageFields DEF vars, BatchInv, TablesOK
  <1>26. QED
    BY <1>1, <1>2, <1>3, <1>4, <1>5, <1>6, <1>7, <1>8, <1>9, <1>10, <1>11, <1>12, <1>13, <1>14,
       <1>15, <1>16, <1>17, <1>18, <1>19, <1>20, <1>21, <1>22, <1>23, <1>24, <1>25
       DEF Next, MainStep, Handle, WorkerStep

\* A worker leaves the table when it ends.
LEMMA MapNext ==
    ASSUME MemoryInv, BatchInv, MapInv, CancelInv, StartInv, [Next]_vars, FirstLife, FirstLife'
    PROVE  MapInv'
  <1> USE DEF MemoryInv, TypeInv, TypeOK, mdsVars, mainVars, seenVars, workerVars, lifeVars
  <1>1. CASE PollMessages
    BY <1>1, MessageFields DEF PollMessages, MapInv, TablesOK, TaskInv, CurInv, Handling, Live
  <1>2. CASE EndBatch
    BY <1>2, MessageFields DEF EndBatch, MapInv, TablesOK, TaskInv, CurInv, Handling, Live
  <1>3. ASSUME NEW m \in Messages, DuplicateSend(m) PROVE MapInv'
    BY <1>3, MessageFields DEF DuplicateSend, Take, MapInv, TablesOK, TaskInv, CurInv, Handling, Live
  <1>4. ASSUME NEW m \in Messages, AcceptSend(m) PROVE MapInv'
    BY <1>4, MessageFields DEF AcceptSend, Take, MapInv, TablesOK, TaskInv, CurInv, Handling, Live
  <1>5. ASSUME NEW m \in Messages, CancelCommand(m) PROVE MapInv'
    BY <1>5, MessageFields DEF CancelCommand, Take, MapInv, TablesOK, TaskInv, CurInv, Handling, Live
  <1>6. ASSUME NEW m \in Messages, UnexpectedTopic(m) PROVE MapInv'
    BY <1>6, MessageFields DEF UnexpectedTopic, Take, MapInv, TablesOK, TaskInv, CurInv, Handling, Live
  <1>7. ASSUME NEW m \in Messages, IgnoreBlank(m) PROVE MapInv'
    BY <1>7, MessageFields DEF IgnoreBlank, MapInv, TablesOK, TaskInv, CurInv, Handling, Live
  <1>8. CASE ReplyFailed
    BY <1>8, MessageFields DEF ReplyFailed, SendReply, MapInv, TablesOK, TaskInv, CurInv, Handling, Live
  <1>9. CASE ReplyInProgress
    BY <1>9, MessageFields DEF ReplyInProgress, SendReply, MapInv, TablesOK, TaskInv, CurInv, Handling, Live
  <1>10. CASE Acknowledge
    BY <1>10, MessageFields DEF Acknowledge, Settle, MapInv, TablesOK, TaskInv, CurInv, Handling, Live
  <1>11. ASSUME NEW w \in Workers, SpawnWorker(w) PROVE MapInv'
    BY <1>11, MessageFields DEF SpawnWorker, InFlightAdd, Handled, MapInv, TablesOK, TaskInv, CurInv, Handling, Live
  <1>12. CASE SettleMessage
    BY <1>12, MessageFields DEF SettleMessage, Settle, Handled, MapInv, TablesOK, TaskInv, CurInv, Handling, Live
  <1>13. CASE CancelAll
    BY <1>13, MessageFields DEF CancelAll, MapInv, TablesOK, TaskInv, CurInv, Handling, Live
  <1>14. CASE Drain
    BY <1>14, MessageFields DEF Drain, MapInv, TablesOK, TaskInv, CurInv, Handling, Live
  <1>15. CASE Return
    BY <1>15, FirstLifeBack
  <1>16. CASE PollNothing
    BY <1>16, MessageFields DEF PollNothing, vars, MapInv, TablesOK, TaskInv, CurInv, Handling, Live
  <1>17. ASSUME NEW w \in Workers, FinishRun(w) PROVE MapInv'
    BY <1>17, MessageFields DEF FinishRun, MapInv, TablesOK, TaskInv, CurInv, Handling, Live
  <1>18. ASSUME NEW w \in Workers, ReplyFinal(w) PROVE MapInv'
    BY <1>18, MessageFields DEF ReplyFinal, SendReply, MapInv, TablesOK, TaskInv, CurInv, Handling, Live
  <1>19. ASSUME NEW w \in Workers, WorkerDone(w) PROVE MapInv'
    BY <1>19, MessagesAssumption DEF WorkerDone, MapInv, TablesOK, TaskInv, Live
  <1>20. ASSUME NEW m \in Messages, Issue(m) PROVE MapInv'
    BY <1>20, MessageFields DEF Issue, MapInv, TablesOK, TaskInv, CurInv, Handling, Live
  <1>21. ASSUME NEW m \in Messages, VisibilityTimeout(m) PROVE MapInv'
    BY <1>21, MessageFields DEF VisibilityTimeout, MapInv, TablesOK, TaskInv, CurInv, Handling, Live
  <1>22. CASE Stop
    BY <1>22, MessageFields DEF Stop, MapInv, TablesOK, TaskInv, CurInv, Handling, Live
  <1>23. CASE Crash
    BY <1>23, FirstLifeBack
  <1>24. CASE Restart
    BY <1>24, MessageFields DEF Restart, MapInv, TablesOK, TaskInv, CurInv, Handling, Live
  <1>25. CASE UNCHANGED vars
    BY <1>25, MessageFields DEF vars, MapInv, TablesOK, TaskInv, CurInv, Handling, Live
  <1>26. QED
    BY <1>1, <1>2, <1>3, <1>4, <1>5, <1>6, <1>7, <1>8, <1>9, <1>10, <1>11, <1>12, <1>13, <1>14,
       <1>15, <1>16, <1>17, <1>18, <1>19, <1>20, <1>21, <1>22, <1>23, <1>24, <1>25
       DEF Next, MainStep, Handle, WorkerStep

\* A message that was sent stays sent.
LEMMA SentStays ==
    ASSUME MemoryInv, BatchInv, MapInv, CancelInv, StartInv, [Next]_vars, FirstLife, FirstLife'
    PROVE  \A n \in Messages : queue[n] # "unsent" => queue'[n] # "unsent"
  <1> USE DEF MemoryInv, TypeInv, TypeOK, mdsVars, mainVars, seenVars, workerVars, lifeVars
  <1>1. CASE PollMessages
    BY <1>1 DEF PollMessages, TablesOK
  <1>2. CASE EndBatch
    BY <1>2 DEF EndBatch, TablesOK
  <1>3. ASSUME NEW m \in Messages, DuplicateSend(m) PROVE \A n \in Messages : queue[n] # "unsent" => queue'[n] # "unsent"
    BY <1>3 DEF DuplicateSend, Take, TablesOK
  <1>4. ASSUME NEW m \in Messages, AcceptSend(m) PROVE \A n \in Messages : queue[n] # "unsent" => queue'[n] # "unsent"
    BY <1>4 DEF AcceptSend, Take, TablesOK
  <1>5. ASSUME NEW m \in Messages, CancelCommand(m) PROVE \A n \in Messages : queue[n] # "unsent" => queue'[n] # "unsent"
    BY <1>5 DEF CancelCommand, Take, TablesOK
  <1>6. ASSUME NEW m \in Messages, UnexpectedTopic(m) PROVE \A n \in Messages : queue[n] # "unsent" => queue'[n] # "unsent"
    BY <1>6 DEF UnexpectedTopic, Take, TablesOK
  <1>7. ASSUME NEW m \in Messages, IgnoreBlank(m) PROVE \A n \in Messages : queue[n] # "unsent" => queue'[n] # "unsent"
    BY <1>7 DEF IgnoreBlank, TablesOK
  <1>8. CASE ReplyFailed
    BY <1>8 DEF ReplyFailed, SendReply, TablesOK
  <1>9. CASE ReplyInProgress
    BY <1>9 DEF ReplyInProgress, SendReply, TablesOK
  <1>10. CASE Acknowledge
    BY <1>10 DEF Acknowledge, Settle, TablesOK
  <1>11. ASSUME NEW w \in Workers, SpawnWorker(w) PROVE \A n \in Messages : queue[n] # "unsent" => queue'[n] # "unsent"
    BY <1>11 DEF SpawnWorker, InFlightAdd, Handled, TablesOK
  <1>12. CASE SettleMessage
    BY <1>12 DEF SettleMessage, Settle, Handled, TablesOK
  <1>13. CASE CancelAll
    BY <1>13 DEF CancelAll, TablesOK
  <1>14. CASE Drain
    BY <1>14 DEF Drain, TablesOK
  <1>15. CASE Return
    BY <1>15, FirstLifeBack
  <1>16. CASE PollNothing
    BY <1>16 DEF PollNothing, vars, TablesOK
  <1>17. ASSUME NEW w \in Workers, FinishRun(w) PROVE \A n \in Messages : queue[n] # "unsent" => queue'[n] # "unsent"
    BY <1>17 DEF FinishRun, TablesOK
  <1>18. ASSUME NEW w \in Workers, ReplyFinal(w) PROVE \A n \in Messages : queue[n] # "unsent" => queue'[n] # "unsent"
    BY <1>18 DEF ReplyFinal, SendReply, TablesOK
  <1>19. ASSUME NEW w \in Workers, WorkerDone(w) PROVE \A n \in Messages : queue[n] # "unsent" => queue'[n] # "unsent"
    BY <1>19 DEF WorkerDone, TablesOK
  <1>20. ASSUME NEW m \in Messages, Issue(m) PROVE \A n \in Messages : queue[n] # "unsent" => queue'[n] # "unsent"
    BY <1>20 DEF Issue, TablesOK
  <1>21. ASSUME NEW m \in Messages, VisibilityTimeout(m) PROVE \A n \in Messages : queue[n] # "unsent" => queue'[n] # "unsent"
    BY <1>21 DEF VisibilityTimeout, TablesOK
  <1>22. CASE Stop
    BY <1>22 DEF Stop, TablesOK
  <1>23. CASE Crash
    BY <1>23, FirstLifeBack
  <1>24. CASE Restart
    BY <1>24 DEF Restart, TablesOK
  <1>25. CASE UNCHANGED vars
    BY <1>25 DEF vars, TablesOK
  <1>26. QED
    BY <1>1, <1>2, <1>3, <1>4, <1>5, <1>6, <1>7, <1>8, <1>9, <1>10, <1>11, <1>12, <1>13, <1>14,
       <1>15, <1>16, <1>17, <1>18, <1>19, <1>20, <1>21, <1>22, <1>23, <1>24, <1>25
       DEF Next, MainStep, Handle, WorkerStep

\* A cancel that was asked for stays asked for.
LEMMA AskedStays ==
    ASSUME MemoryInv, BatchInv, MapInv, CancelInv, StartInv, [Next]_vars, FirstLife, FirstLife',
           NEW c \in Commands, Asked(c)
    PROVE  Asked(c)'
  <1>1. stop => stop'
    BY FirstLifeBack DEF MemoryInv
  <1>2. CancelIssued(c) => CancelIssued(c)'
    BY SentStays DEF CancelIssued
  <1>3. QED
    BY <1>1, <1>2 DEF Asked

\* Only a cancel in hand, or cancel_all, sets a token; only a set token ends in Cancelled.
LEMMA CancelNext ==
    ASSUME MemoryInv, BatchInv, MapInv, CancelInv, StartInv, [Next]_vars, FirstLife, FirstLife'
    PROVE  CancelInv'
  <1> USE DEF MemoryInv, TypeInv, TypeOK, mdsVars, mainVars, seenVars, workerVars, lifeVars
  <1>0. \A c \in Commands : Asked(c) => Asked(c)'
    BY AskedStays
  <1>1. CASE PollMessages
    BY <1>1, <1>0 DEF PollMessages, CancelInv, TablesOK, TaskInv, Live
  <1>2. CASE EndBatch
    BY <1>2, <1>0 DEF EndBatch, CancelInv, TablesOK, TaskInv, Live
  <1>3. ASSUME NEW m \in Messages, DuplicateSend(m) PROVE CancelInv'
    BY <1>3, <1>0 DEF DuplicateSend, Take, CancelInv, TablesOK, TaskInv, Live
  <1>4. ASSUME NEW m \in Messages, AcceptSend(m) PROVE CancelInv'
    BY <1>4, <1>0 DEF AcceptSend, Take, CancelInv, TablesOK, TaskInv, Live
  <1>5. ASSUME NEW m \in Messages, CancelCommand(m) PROVE CancelInv'
    <2>1. ASSUME NEW w \in Workers, NEW c \in Commands, task[w] = c, Live(w), token'[w]
          PROVE  Asked(c)'
      <3>1. CASE token[w]
        BY <1>0, <2>1, <3>1 DEF CancelInv
      <3>2. CASE inflight[m.cmd] = w
        <4>1. c = m.cmd
          BY <2>1, <3>2, MessageFields DEF MapInv
        <4>2. m.kind = "cancel" /\ queue[m] # "unsent" /\ UNCHANGED queue
          BY <1>5 DEF CancelCommand, Take, BatchInv
        <4>3. CancelIssued(m.cmd)'
          BY <4>2 DEF CancelIssued
        <4>4. Asked(m.cmd)'
          BY <4>3 DEF Asked
        <4>5. QED
          BY <4>1, <4>4
      <3>3. QED
        BY <1>5, <2>1, <3>1, <3>2 DEF CancelCommand
    <2>2. UNCHANGED <<phase, task, outcome>>
      BY <1>5 DEF CancelCommand, Take
    <2>3. QED
      BY <1>0, <2>1, <2>2 DEF CancelInv, TaskInv, Live
  <1>6. ASSUME NEW m \in Messages, UnexpectedTopic(m) PROVE CancelInv'
    BY <1>6, <1>0 DEF UnexpectedTopic, Take, CancelInv, TablesOK, TaskInv, Live
  <1>7. ASSUME NEW m \in Messages, IgnoreBlank(m) PROVE CancelInv'
    BY <1>7, <1>0 DEF IgnoreBlank, CancelInv, TablesOK, TaskInv, Live
  <1>8. CASE ReplyFailed
    BY <1>8, <1>0 DEF ReplyFailed, SendReply, CancelInv, TablesOK, TaskInv, Live
  <1>9. CASE ReplyInProgress
    BY <1>9, <1>0 DEF ReplyInProgress, SendReply, CancelInv, TablesOK, TaskInv, Live
  <1>10. CASE Acknowledge
    BY <1>10, <1>0 DEF Acknowledge, Settle, CancelInv, TablesOK, TaskInv, Live
  <1>11. ASSUME NEW w \in Workers, SpawnWorker(w) PROVE CancelInv'
    BY <1>11, <1>0 DEF SpawnWorker, InFlightAdd, Handled, CancelInv, TablesOK, TaskInv, Live
  <1>12. CASE SettleMessage
    BY <1>12, <1>0 DEF SettleMessage, Settle, Handled, CancelInv, TablesOK, TaskInv, Live
  <1>13. CASE CancelAll
    <2>1. \A c \in Commands : Asked(c)'
      BY <1>13 DEF CancelAll, Asked
    <2>2. UNCHANGED <<phase, task, outcome>>
      BY <1>13 DEF CancelAll
    <2>3. QED
      BY <2>1, <2>2 DEF CancelInv, TaskInv, Live
  <1>14. CASE Drain
    BY <1>14, <1>0 DEF Drain, CancelInv, TablesOK, TaskInv, Live
  <1>15. CASE Return
    BY <1>15, FirstLifeBack
  <1>16. CASE PollNothing
    BY <1>16, <1>0 DEF PollNothing, vars, CancelInv, TablesOK, TaskInv, Live
  <1>17. ASSUME NEW w \in Workers, FinishRun(w) PROVE CancelInv'
    BY <1>17, <1>0 DEF FinishRun, CancelInv, TablesOK, TaskInv, Live
  <1>18. ASSUME NEW w \in Workers, ReplyFinal(w) PROVE CancelInv'
    BY <1>18, <1>0 DEF ReplyFinal, SendReply, CancelInv, TablesOK, TaskInv, Live
  <1>19. ASSUME NEW w \in Workers, WorkerDone(w) PROVE CancelInv'
    BY <1>19, <1>0 DEF WorkerDone, CancelInv, TablesOK, TaskInv, Live
  <1>20. ASSUME NEW m \in Messages, Issue(m) PROVE CancelInv'
    BY <1>20, <1>0 DEF Issue, CancelInv, TablesOK, TaskInv, Live
  <1>21. ASSUME NEW m \in Messages, VisibilityTimeout(m) PROVE CancelInv'
    BY <1>21, <1>0 DEF VisibilityTimeout, CancelInv, TablesOK, TaskInv, Live
  <1>22. CASE Stop
    BY <1>22, <1>0 DEF Stop, CancelInv, TablesOK, TaskInv, Live
  <1>23. CASE Crash
    BY <1>23, FirstLifeBack
  <1>24. CASE Restart
    BY <1>24, <1>0 DEF Restart, CancelInv, TablesOK, TaskInv, Live
  <1>25. CASE UNCHANGED vars
    BY <1>25, <1>0 DEF vars, CancelInv, TablesOK, TaskInv, Live
  <1>26. QED
    BY <1>1, <1>2, <1>3, <1>4, <1>5, <1>6, <1>7, <1>8, <1>9, <1>10, <1>11, <1>12, <1>13, <1>14,
       <1>15, <1>16, <1>17, <1>18, <1>19, <1>20, <1>21, <1>22, <1>23, <1>24, <1>25
       DEF Next, MainStep, Handle, WorkerStep

\* A command is announced before its only start.
LEMMA StartNext ==
    ASSUME MemoryInv, BatchInv, MapInv, CancelInv, StartInv, [Next]_vars, FirstLife, FirstLife'
    PROVE  StartInv'
  <1> USE DEF MemoryInv, TypeInv, TypeOK, mdsVars, mainVars, seenVars, workerVars, lifeVars
  <1>1. CASE PollMessages
    BY <1>1, MessageFields DEF PollMessages, StartInv, TablesOK, TaskInv, CurInv, CopyInv, OnceInv, Starting, Handling, Live, FirstLife
  <1>2. CASE EndBatch
    BY <1>2, MessageFields DEF EndBatch, StartInv, TablesOK, TaskInv, CurInv, CopyInv, OnceInv, Starting, Handling, Live, FirstLife
  <1>3. ASSUME NEW m \in Messages, DuplicateSend(m) PROVE StartInv'
    BY <1>3, MessageFields DEF DuplicateSend, Take, StartInv, TablesOK, TaskInv, CurInv, CopyInv, OnceInv, Starting, Handling, Live, FirstLife
  <1>4. ASSUME NEW m \in Messages, AcceptSend(m) PROVE StartInv'
    <2>1. m.cmd \in Commands /\ m.cmd \notin seen
      BY <1>4, MessageFields DEF AcceptSend
    <2>2. console[m.cmd] = "none"
      BY <2>1 DEF StatusInv, FirstLife
    <2>3. runs[m.cmd] = 0
      BY <2>1 DEF OnceInv, TablesOK, FirstLife
    <2>4. cur' = m /\ UNCHANGED <<console, runs, phase, task>>
      BY <1>4 DEF AcceptSend, Take
    <2>5. QED
      BY <2>2, <2>3, <2>4 DEF StartInv, Live
  <1>5. ASSUME NEW m \in Messages, CancelCommand(m) PROVE StartInv'
    BY <1>5, MessageFields DEF CancelCommand, Take, StartInv, TablesOK, TaskInv, CurInv, CopyInv, OnceInv, Starting, Handling, Live, FirstLife
  <1>6. ASSUME NEW m \in Messages, UnexpectedTopic(m) PROVE StartInv'
    BY <1>6, MessageFields DEF UnexpectedTopic, Take, StartInv, TablesOK, TaskInv, CurInv, CopyInv, OnceInv, Starting, Handling, Live, FirstLife
  <1>7. ASSUME NEW m \in Messages, IgnoreBlank(m) PROVE StartInv'
    BY <1>7, MessageFields DEF IgnoreBlank, StartInv, TablesOK, TaskInv, CurInv, CopyInv, OnceInv, Starting, Handling, Live, FirstLife
  <1>8. CASE ReplyFailed
    BY <1>8, MessageFields DEF ReplyFailed, SendReply, StartInv, TablesOK, TaskInv, CurInv, CopyInv, OnceInv, Starting, Handling, Live, FirstLife
  <1>9. CASE ReplyInProgress
    BY <1>9, MessageFields DEF ReplyInProgress, SendReply, StartInv, TablesOK, TaskInv, CurInv, CopyInv, OnceInv, Starting, Handling, Live, FirstLife
  <1>10. CASE Acknowledge
    BY <1>10, MessageFields DEF Acknowledge, Settle, StartInv, TablesOK, TaskInv, CurInv, CopyInv, OnceInv, Starting, Handling, Live, FirstLife
  <1>11. ASSUME NEW w \in Workers, SpawnWorker(w) PROVE StartInv'
    BY <1>11, MessageFields DEF SpawnWorker, InFlightAdd, Handled, StartInv, TablesOK, TaskInv, CurInv, CopyInv, OnceInv, Starting, Handling, Live, FirstLife
  <1>12. CASE SettleMessage
    BY <1>12, MessageFields DEF SettleMessage, Settle, Handled, StartInv, TablesOK, TaskInv, CurInv, CopyInv, OnceInv, Starting, Handling, Live, FirstLife
  <1>13. CASE CancelAll
    BY <1>13, MessageFields DEF CancelAll, StartInv, TablesOK, TaskInv, CurInv, CopyInv, OnceInv, Starting, Handling, Live, FirstLife
  <1>14. CASE Drain
    BY <1>14, MessageFields DEF Drain, StartInv, TablesOK, TaskInv, CurInv, CopyInv, OnceInv, Starting, Handling, Live, FirstLife
  <1>15. CASE Return
    BY <1>15, FirstLifeBack
  <1>16. CASE PollNothing
    BY <1>16, MessageFields DEF PollNothing, vars, StartInv, TablesOK, TaskInv, CurInv, CopyInv, OnceInv, Starting, Handling, Live, FirstLife
  <1>17. ASSUME NEW w \in Workers, FinishRun(w) PROVE StartInv'
    BY <1>17, MessageFields DEF FinishRun, StartInv, TablesOK, TaskInv, CurInv, CopyInv, OnceInv, Starting, Handling, Live, FirstLife
  <1>18. ASSUME NEW w \in Workers, ReplyFinal(w) PROVE StartInv'
    BY <1>18, MessageFields DEF ReplyFinal, SendReply, StartInv, TablesOK, TaskInv, CurInv, CopyInv, OnceInv, Starting, Handling, Live, FirstLife
  <1>19. ASSUME NEW w \in Workers, WorkerDone(w) PROVE StartInv'
    BY <1>19, MessageFields DEF WorkerDone, StartInv, TablesOK, TaskInv, CurInv, CopyInv, OnceInv, Starting, Handling, Live, FirstLife
  <1>20. ASSUME NEW m \in Messages, Issue(m) PROVE StartInv'
    BY <1>20, MessageFields DEF Issue, StartInv, TablesOK, TaskInv, CurInv, CopyInv, OnceInv, Starting, Handling, Live, FirstLife
  <1>21. ASSUME NEW m \in Messages, VisibilityTimeout(m) PROVE StartInv'
    BY <1>21, MessageFields DEF VisibilityTimeout, StartInv, TablesOK, TaskInv, CurInv, CopyInv, OnceInv, Starting, Handling, Live, FirstLife
  <1>22. CASE Stop
    BY <1>22, MessageFields DEF Stop, StartInv, TablesOK, TaskInv, CurInv, CopyInv, OnceInv, Starting, Handling, Live, FirstLife
  <1>23. CASE Crash
    BY <1>23, FirstLifeBack
  <1>24. CASE Restart
    BY <1>24, MessageFields DEF Restart, StartInv, TablesOK, TaskInv, CurInv, CopyInv, OnceInv, Starting, Handling, Live, FirstLife
  <1>25. CASE UNCHANGED vars
    BY <1>25, MessageFields DEF vars, StartInv, TablesOK, TaskInv, CurInv, CopyInv, OnceInv, Starting, Handling, Live, FirstLife
  <1>26. QED
    BY <1>1, <1>2, <1>3, <1>4, <1>5, <1>6, <1>7, <1>8, <1>9, <1>10, <1>11, <1>12, <1>13, <1>14,
       <1>15, <1>16, <1>17, <1>18, <1>19, <1>20, <1>21, <1>22, <1>23, <1>24, <1>25
       DEF Next, MainStep, Handle, WorkerStep

\* The strengthening is inductive, within the first life.
LEMMA LifeNext == MemoryInv /\ LifeInv /\ [Next]_vars => LifeInv'
  <1> SUFFICES ASSUME MemoryInv, LifeInv, [Next]_vars, FirstLife'
               PROVE  BatchInv' /\ MapInv' /\ CancelInv' /\ StartInv'
    BY DEF LifeInv
  <1>1. FirstLife
    BY FirstLifeBack DEF MemoryInv
  <1>2. BatchInv /\ MapInv /\ CancelInv /\ StartInv
    BY <1>1 DEF LifeInv
  <1>3. QED
    BY <1>1, <1>2, BatchNext, MapNext, CancelNext, StartNext

\* The refinement mapping: the first part of a command's execution, and what was asked for.
Running(c) == \E w \in Workers : phase[w] = "run" /\ task[w] = c
Execution ==
    [c \in Commands |->
        IF \E w \in Workers : phase[w] = "run" /\ task[w] = c THEN "running"
        ELSE IF runs[c] > 0 THEN "finished" ELSE "waiting"]
Revoked == IF stop THEN Commands ELSE {c \in Commands : CancelIssued(c)}

\* A command is in `revoked` exactly when somebody asked for it.
LEMMA RevokedIsAsked == Revoked = {c \in Commands : Asked(c)}
  BY DEF Revoked, Asked

\* The mapping starts in the initial states of the abstract lifecycle.
LEMMA LifecycleInit == Init => Lifecycle!Init
  <1> SUFFICES ASSUME Init PROVE Lifecycle!Init
    OBVIOUS
  <1>1. Execution = [c \in Commands |-> "waiting"]
    BY DEF Init, Execution
  <1>2. Revoked = {}
    BY DEF Init, Revoked, CancelIssued
  <1>3. console = [c \in Commands |-> "none"]
    BY DEF Init
  <1>4. QED
    BY <1>1, <1>2, <1>3 DEF Lifecycle!Init, Execution, Revoked

\* What one abstract step does to c.
CommandStep(c) ==
    \/ /\ Execution[c] = "waiting" /\ console[c] = "none"
       /\ \E s \in {"InProgress", "Failed"} : console' = [console EXCEPT ![c] = s]
       /\ UNCHANGED Execution
    \/ /\ Execution[c] = "waiting" /\ console[c] \notin Terminal
       /\ Execution' = [Execution EXCEPT ![c] = "running"]
       /\ UNCHANGED console
    \/ /\ Execution[c] = "running"
       /\ Execution' = [Execution EXCEPT ![c] = "finished"]
       /\ UNCHANGED console
    \/ /\ Execution[c] = "finished" /\ console[c] \notin Terminal
       /\ \E s \in Terminal :
            /\ s = "Cancelled" => c \in Revoked
            /\ console' = [console EXCEPT ![c] = s]
       /\ UNCHANGED Execution

LifecycleStep == UNCHANGED <<Execution, console>> \/ \E c \in Commands : CommandStep(c)

\* What the workers and the replies do to a command, seen through the mapping.
LEMMA ExecutionStep ==
    ASSUME MemoryInv, BatchInv, MapInv, CancelInv, StartInv, [Next]_vars, FirstLife, FirstLife'
    PROVE  LifecycleStep /\ (UNCHANGED Revoked \/ UNCHANGED <<Execution, console>>)
  <1> USE DEF MemoryInv, TypeInv, TypeOK, mdsVars, mainVars, seenVars, workerVars, lifeVars
  <1>0. UNCHANGED <<stop, queue>> => UNCHANGED Revoked
    BY DEF Revoked, CancelIssued
  <1>x. UNCHANGED <<phase, task, runs>> => UNCHANGED Execution
    BY DEF Execution
  <1>1. CASE ReplyFailed
    <2> DEFINE c == cur.cmd
    <2>1. c \in Commands /\ console[c] = "none" /\ runs[c] = 0
      BY <1>1, MessageFields DEF ReplyFailed, CurInv, Handling, StartInv
    <2>2. Execution[c] = "waiting"
      <3>1. ~Running(c)
        BY <1>1, <2>1 DEF ReplyFailed, StatusInv, FirstLife, Live, Running
      <3>2. QED
        BY <2>1, <3>1 DEF Execution, Running
    <2>3. UNCHANGED <<Execution, Revoked>>
      BY <1>0, <1>x, <1>1 DEF ReplyFailed
    <2>4. console' = [console EXCEPT ![c] = "Failed"] \/ UNCHANGED console
      BY <1>1 DEF ReplyFailed, SendReply
    <2> HIDE DEF c
    <2>5. QED
      BY <2>1, <2>2, <2>3, <2>4 DEF LifecycleStep, CommandStep
  <1>2. CASE ReplyInProgress
    <2> DEFINE c == cur.cmd
    <2>1. c \in Commands /\ console[c] = "none" /\ runs[c] = 0
      BY <1>2, MessageFields DEF ReplyInProgress, CurInv, Handling, StartInv
    <2>2. Execution[c] = "waiting"
      <3>1. ~Running(c)
        BY <1>2, <2>1 DEF ReplyInProgress, CopyInv, Starting, FirstLife, Live, Running
      <3>2. QED
        BY <2>1, <3>1 DEF Execution, Running
    <2>3. UNCHANGED <<Execution, Revoked>>
      BY <1>0, <1>x, <1>2 DEF ReplyInProgress
    <2>4. console' = [console EXCEPT ![c] = "InProgress"] \/ UNCHANGED console
      BY <1>2 DEF ReplyInProgress, SendReply
    <2> HIDE DEF c
    <2>5. QED
      BY <2>1, <2>2, <2>3, <2>4 DEF LifecycleStep, CommandStep
  <1>3. ASSUME NEW w \in Workers, SpawnWorker(w)
        PROVE  LifecycleStep /\ (UNCHANGED Revoked \/ UNCHANGED <<Execution, console>>)
    <2> DEFINE c == cur.cmd
    <2>1. c \in Commands /\ Starting(c)
      BY <1>3, MessageFields DEF SpawnWorker, CurInv, Handling, Starting
    <2>2. runs[c] = 0 /\ console[c] \notin Terminal
      BY <2>1 DEF OnceInv, StatusInv, FirstLife
    <2>3. ~Running(c)
      BY <2>1 DEF CopyInv, FirstLife, Live, Running
    <2>4. /\ phase[w] = "idle" /\ phase' = [phase EXCEPT ![w] = "run"]
          /\ task' = [task EXCEPT ![w] = c]
          /\ runs' = [runs EXCEPT ![c] = IF @ = 0 THEN 1 ELSE 2]
          /\ UNCHANGED <<console, stop, queue>>
      BY <1>3 DEF SpawnWorker, Handled
    <2> HIDE DEF c
    <2>5. Execution' = [Execution EXCEPT ![c] = "running"]
      BY <2>1, <2>4 DEF Execution, TablesOK
    <2>6. Execution[c] = "waiting"
      BY <2>1, <2>2, <2>3 DEF Execution, Running
    <2>7. QED
      BY <1>0, <2>1, <2>2, <2>4, <2>5, <2>6 DEF LifecycleStep, CommandStep
  <1>4. ASSUME NEW w \in Workers, FinishRun(w)
        PROVE  LifecycleStep /\ (UNCHANGED Revoked \/ UNCHANGED <<Execution, console>>)
    <2> DEFINE c == task[w]
    <2>1. c \in Commands /\ runs[c] > 0 /\ phase[w] = "run"
      BY <1>4 DEF FinishRun, TaskInv, StartInv, Live
    <2>2. \A v \in Workers : Live(v) /\ task[v] = c => v = w
      BY <2>1 DEF CopyInv, FirstLife, Live
    <2>3. /\ phase' = [phase EXCEPT ![w] = "reply"]
          /\ UNCHANGED <<task, runs, console, stop, queue>>
      BY <1>4 DEF FinishRun
    <2>4. c = task[w]
      OBVIOUS
    <2> HIDE DEF c
    <2>5. Execution' = [Execution EXCEPT ![c] = "finished"]
      BY <2>1, <2>2, <2>3, <2>4 DEF Execution, TablesOK, Live
    <2>6. Execution[c] = "running"
      BY <2>1, <2>4 DEF Execution
    <2>7. QED
      BY <1>0, <2>1, <2>3, <2>5, <2>6 DEF LifecycleStep, CommandStep
  <1>5. ASSUME NEW w \in Workers, ReplyFinal(w)
        PROVE  LifecycleStep /\ (UNCHANGED Revoked \/ UNCHANGED <<Execution, console>>)
    <2> DEFINE c == task[w]
    <2>1. c \in Commands /\ runs[c] > 0 /\ phase[w] = "reply"
      BY <1>5 DEF ReplyFinal, TaskInv, StartInv, Live
    <2>2. \A v \in Workers : Live(v) /\ task[v] = c => v = w
      BY <2>1 DEF CopyInv, FirstLife, Live
    <2>3. console[c] \notin Terminal
      BY <2>1 DEF StatusInv, FirstLife, Live
    <2>4. outcome[w] \in Terminal /\ (outcome[w] = "Cancelled" => Asked(c))
      BY <2>1 DEF TaskInv, CancelInv
    <2>5. UNCHANGED <<Execution, Revoked>>
      <3>1. phase' = [phase EXCEPT ![w] = "done"] /\ UNCHANGED <<task, runs, stop, queue>>
        BY <1>5 DEF ReplyFinal
      <3>2. QED
        BY <1>0, <2>1, <3>1 DEF Execution, TablesOK
    <2>6. console' = [console EXCEPT ![c] = outcome[w]] \/ UNCHANGED console
      BY <1>5 DEF ReplyFinal, SendReply
    <2>7. ~Running(c)
      BY <2>1, <2>2 DEF Running, Live
    <2> HIDE DEF c
    <2>8. Execution[c] = "finished"
      BY <2>1, <2>7 DEF Execution, Running
    <2>9. outcome[w] = "Cancelled" => c \in Revoked
      BY <2>1, <2>4, RevokedIsAsked
    <2>10. QED
      BY <2>1, <2>3, <2>4, <2>5, <2>6, <2>8, <2>9 DEF LifecycleStep, CommandStep
  <1>6. ASSUME NEW w \in Workers, WorkerDone(w) PROVE UNCHANGED <<Execution, console>>
    <2>1. phase[w] = "done" /\ task[w] \in Commands /\ UNCHANGED <<console, runs>>
      BY <1>6 DEF WorkerDone, TaskInv, Live
    <2>2. phase' = [phase EXCEPT ![w] = "idle"] /\ task' = [task EXCEPT ![w] = None]
      BY <1>6 DEF WorkerDone
    <2>3. QED
      BY <2>1, <2>2, MessagesAssumption DEF Execution, TablesOK
  <1>7. CASE Return \/ Crash
    BY <1>7, FirstLifeBack
  <1>8. CASE UNCHANGED <<phase, task, runs, console>>
    BY <1>x, <1>8 DEF LifecycleStep, CommandStep
  <1>9. \/ ReplyFailed \/ ReplyInProgress \/ Return \/ Crash
        \/ \E w \in Workers : SpawnWorker(w) \/ FinishRun(w) \/ ReplyFinal(w) \/ WorkerDone(w)
        \/ UNCHANGED <<phase, task, runs, console>>
    BY DEF Next, MainStep, Handle, WorkerStep, PollMessages, EndBatch, DuplicateSend, AcceptSend,
       Take, CancelCommand, UnexpectedTopic, IgnoreBlank, Acknowledge, SettleMessage, CancelAll,
       Drain, PollNothing, Issue, VisibilityTimeout, Stop, Restart, vars
  <1>10. QED
    BY <1>1, <1>2, <1>3, <1>4, <1>5, <1>6, <1>7, <1>8, <1>9 DEF LifecycleStep, CommandStep

\* Every step of the first life is a step of the abstract lifecycle, or stutters.
LEMMA LifecycleNext ==
    ASSUME MemoryInv, LifeInv, [Next]_vars, FirstLife'
    PROVE  Lifecycle!Next
  <1>1. FirstLife
    BY FirstLifeBack DEF MemoryInv
  <1>2. BatchInv /\ MapInv /\ CancelInv /\ StartInv
    BY <1>1 DEF LifeInv
  <1>3. LifecycleStep /\ (UNCHANGED Revoked \/ UNCHANGED <<Execution, console>>)
    BY <1>1, <1>2, ExecutionStep
  <1>4. Revoked \subseteq Revoked'
    <2>1. \A c \in Commands : Asked(c) => Asked(c)'
      BY <1>1, <1>2, AskedStays
    <2>2. Revoked' = {c \in Commands : Asked(c)'}
      BY DEF Revoked, Asked
    <2>3. QED
      BY <2>1, <2>2, RevokedIsAsked
  <1>5. CASE UNCHANGED <<Execution, console>>
    <2>1. Revoked' \in SUBSET Commands /\ Revoked' = Revoked \cup Revoked'
      BY <1>4 DEF Revoked
    <2>2. Lifecycle!Revoke(Revoked')
      BY <1>5, <2>1 DEF Lifecycle!Revoke, Execution, Revoked
    <2>3. QED
      BY <2>1, <2>2 DEF Lifecycle!Next
  <1>6. CASE UNCHANGED Revoked
    <2>1. CASE ~UNCHANGED <<Execution, console>>
      <3>1. PICK c \in Commands : CommandStep(c)
        BY <1>3, <2>1 DEF LifecycleStep
      <3>2. \/ Lifecycle!Announce(c) \/ Lifecycle!Reject(c) \/ Lifecycle!Start(c)
            \/ Lifecycle!Finish(c) \/ Lifecycle!Report(c)
        BY <1>6, <3>1
           DEF CommandStep, Lifecycle!Announce, Lifecycle!Reject, Lifecycle!Start, Lifecycle!Finish,
               Lifecycle!Report, Lifecycle!Terminal, Terminal, Execution, Revoked
      <3>3. QED
        BY <3>2 DEF Lifecycle!Next
    <2>2. QED
      BY <1>5, <2>1
  <1>7. QED
    BY <1>3, <1>5, <1>6

\* Whatever is lost, redelivered, cancelled or stopped, the agent does to each command what the
\* abstract lifecycle allows, until the process ends or SeenCommands forgets an id.
THEOREM AgentImplementsLifecycle == Spec => ImplementsLifecycle
  <1>1. Init => LifeInv
    BY MessagesAssumption DEF Init, LifeInv, BatchInv, MapInv, CancelInv, StartInv, Live
  <1>2. Spec => []MemoryInv
    BY TypeInvariant, CopyInvariant, StrengtheningsInit, OnceNext, StatusNext, PTL DEF Spec, MemoryInv
  <1>3. MemoryInv /\ LifeInv /\ [Next]_vars => [FirstLife' => Lifecycle!Next]_(Lifecycle!vars)
    BY LifecycleNext
  <1>4. QED
    BY <1>1, <1>2, <1>3, LifecycleInit, LifeNext, PTL DEF Spec, ImplementsLifecycle
====
