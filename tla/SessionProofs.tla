---------------------------- MODULE SessionProofs ---------------------------
(***************************************************************************)
(* Machine-checked proofs about SessionControl, for any number of          *)
(* sessions, threads and failures.                                         *)
(*                                                                         *)
(* The counter is right only as long as every thread is counted before it  *)
(* starts and once when it ends (TypeOK).  That a channel starts a session *)
(* once needs the set run keeps of them compared with the shells started   *)
(* (SeenInv), and that a drain is final that nobody starts a thread later  *)
(* (EndingInv).                                                            *)
(***************************************************************************)
EXTENDS SessionControl, FiniteSetTheorems, TLAPS

LiveThreads == {t \in Threads : Live(t)}

\* A session that this channel has not seen has had at most one shell for each earlier one.
SeenInv ==
    /\ \A s \in Sessions : shells[s] <= opened
    /\ pc \in {"loop", "recv"} => \A s \in Sessions \ seen : shells[s] < opened

\* The end of run, and what a drain has found.
EndingInv ==
    /\ pc = "ended" <=> ending # "none"
    /\ ending = "drained" => active = 0

Inv == TypeOK /\ SeenInv /\ EndingInv

-----------------------------------------------------------------------------
(* The invariant is inductive.                                             *)

\* The threads alive can be counted.
LEMMA LiveFinite == IsFiniteSet(LiveThreads)
  BY FinitenessAssumption, FS_Subset DEF LiveThreads

\* The initial states satisfy the invariant.
LEMMA Starts == Init => Inv
  <1> SUFFICES ASSUME Init
               PROVE  Inv
    OBVIOUS
  <1>1. {t \in Threads : Live(t)} = {}
    BY DEF Init, Live
  <1>2. active = Cardinality({t \in Threads : Live(t)})
    BY <1>1, FS_EmptySet DEF Init
  <1>3. TypeOK
    BY <1>2 DEF Init, TypeOK
  <1>4. SeenInv /\ EndingInv
    BY DEF Init, SeenInv, EndingInv
  <1>5. QED
    BY <1>3, <1>4 DEF Inv

\* A thread that is started is counted.
LEMMA SpawnCounts ==
    ASSUME TypeOK, NEW t \in Threads, NEW s \in Sessions, Spawn(t, s)
    PROVE  /\ phase' \in [Threads -> {"idle", "starting", "shell"}]
           /\ task' \in [Threads -> Sessions \cup {None}]
           /\ active' = Cardinality({u \in Threads : Live(u)'})
  <1>1. {u \in Threads : Live(u)'} = LiveThreads \cup {t} /\ t \notin LiveThreads
    BY DEF Spawn, Live, LiveThreads, TypeOK
  <1>2. active' = Cardinality(LiveThreads) + 1
    BY DEF Spawn, TypeOK, LiveThreads
  <1>3. Cardinality(LiveThreads \cup {t}) = Cardinality(LiveThreads) + 1
    BY <1>1, LiveFinite, FS_AddElement
  <1>4. QED
    BY <1>1, <1>2, <1>3 DEF Spawn, TypeOK

\* A thread that ends is counted out, whatever its path.
LEMMA EndCounts ==
    ASSUME TypeOK, NEW t \in Threads, SessionEnds(t)
    PROVE  /\ phase' \in [Threads -> {"idle", "starting", "shell"}]
           /\ task' \in [Threads -> Sessions \cup {None}]
           /\ active' = Cardinality({u \in Threads : Live(u)'})
           /\ active # 0
  <1>1. {u \in Threads : Live(u)'} = LiveThreads \ {t} /\ t \in LiveThreads
    BY DEF SessionEnds, Live, LiveThreads, TypeOK
  <1>2. active' = Cardinality(LiveThreads) - 1 /\ active = Cardinality(LiveThreads)
    BY DEF SessionEnds, TypeOK, LiveThreads
  <1>3. Cardinality(LiveThreads \ {t}) = Cardinality(LiveThreads) - 1
    BY <1>1, LiveFinite, FS_RemoveElement
  <1>4. Cardinality(LiveThreads) # 0
    BY <1>1, LiveFinite, FS_EmptySet
  <1>5. QED
    BY <1>1, <1>2, <1>3, <1>4 DEF SessionEnds, TypeOK

\* As long as no thread starts, ends or moves, the count stays right.
LEMMA CountStays ==
    ASSUME TypeOK, UNCHANGED threadVars
    PROVE  /\ phase' \in [Threads -> {"idle", "starting", "shell"}]
           /\ task' \in [Threads -> Sessions \cup {None}]
           /\ active' = Cardinality({t \in Threads : Live(t)'})
  BY DEF TypeOK, threadVars, Live

\* Every step keeps the invariant.
LEMMA Keeps == Inv /\ [Next]_vars => Inv'
  <1> SUFFICES ASSUME Inv, [Next]_vars
               PROVE  Inv'
    OBVIOUS
  <1> USE DEF Inv, mgsVars, mainVars, historyVars
  <1>1. CASE SessionThread /\ UNCHANGED threadVars
    <2>1. TypeOK'
      <3>1. /\ phase' \in [Threads -> {"idle", "starting", "shell"}]
            /\ task' \in [Threads -> Sessions \cup {None}]
            /\ active' = Cardinality({t \in Threads : Live(t)'})
        BY <1>1, CountStays
      <3>2. /\ pc' \in {"again", "connect", "loop", "recv", "drain", "ended"}
            /\ channel' \in {channel, "up", "down"} /\ seen' \in {seen, {}}
            /\ opened' \in {opened, opened + 1} /\ failures' \in {failures, failures + 1}
            /\ ending' \in {ending, "left", "drained", "expired"}
            /\ UNCHANGED <<asked, repeats, stop, main, shells>>
        BY <1>1
        DEF TypeOK, SessionThread, Again, Connect, ConnectFails, Leave, Loop, ReceiveNothing,
            ServerCloses, ReceiveFails, StopServing, Drained, DrainExpires
      <3>3. QED
        BY <3>1, <3>2 DEF TypeOK
    <2>2. SeenInv'
      BY <1>1
      DEF TypeOK, SeenInv, SessionThread, Again, Connect, ConnectFails, Leave, Loop,
          ReceiveNothing, ServerCloses, ReceiveFails, StopServing, Drained, DrainExpires
    <2>3. EndingInv'
      BY <1>1
      DEF EndingInv, SessionThread, Again, Connect, ConnectFails, Leave, Loop, threadVars,
          ReceiveNothing, ServerCloses, ReceiveFails, StopServing, Drained, DrainExpires
    <2>4. QED
      BY <2>1, <2>2, <2>3
  <1>2. ASSUME NEW s \in Sessions, Ask(s)
        PROVE  Inv'
    <2>1. TypeOK'
      BY <1>2, CountStays DEF TypeOK, Ask
    <2>2. SeenInv' /\ EndingInv'
      BY <1>2 DEF SeenInv, EndingInv, Ask, threadVars
    <2>3. QED
      BY <2>1, <2>2
  <1>3. ASSUME NEW s \in Sessions, StartSession(s)
        PROVE  Inv'
    <2>1. PICK t \in Threads : Spawn(t, s)
      BY <1>3 DEF StartSession
    <2>2. /\ pc = "recv" /\ pc' = "loop" /\ s \notin seen /\ seen' = seen \cup {s}
          /\ shells' = [shells EXCEPT ![s] = @ + 1] /\ repeats' \in {repeats, repeats + 1}
          /\ UNCHANGED <<asked, channel, stop, main, opened, ending, failures>>
      BY <1>3 DEF StartSession, ReceiveStart, Remember
    <2>3. TypeOK'
      <3>1. /\ phase' \in [Threads -> {"idle", "starting", "shell"}]
            /\ task' \in [Threads -> Sessions \cup {None}]
            /\ active' = Cardinality({u \in Threads : Live(u)'})
        BY <2>1, SpawnCounts
      <3>2. seen' \subseteq Sessions /\ shells' \in [Sessions -> Nat] /\ repeats' \in Nat
        BY <2>2 DEF TypeOK
      <3>3. QED
        BY <2>2, <3>1, <3>2 DEF TypeOK
    <2>4. SeenInv'
      <3>1. \A u \in Sessions : shells'[u] = IF u = s THEN shells[s] + 1 ELSE shells[u]
        BY <2>2 DEF TypeOK
      <3>2. opened \in Nat /\ \A u \in Sessions : shells[u] \in Nat
        BY DEF TypeOK
      <3>3. shells[s] < opened
        BY <2>2 DEF SeenInv
      <3>4. QED
        BY <2>2, <3>1, <3>2, <3>3 DEF SeenInv
    <2>5. EndingInv'
      BY <2>2 DEF EndingInv
    <2>6. QED
      BY <2>3, <2>4, <2>5
  <1>4. ASSUME NEW s \in Sessions, IgnoreStart(s)
        PROVE  Inv'
    <2>1. TypeOK'
      BY <1>4, CountStays DEF TypeOK, IgnoreStart, ReceiveStart
    <2>2. SeenInv' /\ EndingInv'
      BY <1>4 DEF SeenInv, EndingInv, IgnoreStart, ReceiveStart, threadVars
    <2>3. QED
      BY <2>1, <2>2
  <1>5. CASE HalfOpen \/ Stop \/ MainStep
    <2>1. TypeOK'
      <3>1. /\ phase' \in [Threads -> {"idle", "starting", "shell"}]
            /\ task' \in [Threads -> Sessions \cup {None}]
            /\ active' = Cardinality({t \in Threads : Live(t)'})
        BY <1>5, CountStays DEF HalfOpen, Stop, MainStep
      <3>2. /\ channel' \in {"down", "up", "dead"} /\ failures' \in Nat /\ stop' \in BOOLEAN
            /\ main' \in {main, "drain", "join", "returned"}
            /\ UNCHANGED <<asked, repeats, pc, seen, shells, opened, ending>>
        <4>1. CASE HalfOpen
          BY <4>1 DEF TypeOK, HalfOpen, mgsVars, mainVars, historyVars
        <4>2. CASE Stop
          BY <4>2 DEF TypeOK, Stop, mgsVars, historyVars
        <4>3. CASE MainStep
          BY <4>3 DEF TypeOK, MainStep, mgsVars, historyVars
        <4>4. QED
          BY <1>5, <4>1, <4>2, <4>3
      <3>3. QED
        BY <3>1, <3>2 DEF TypeOK
    <2>2. SeenInv' /\ EndingInv'
      BY <1>5 DEF SeenInv, EndingInv, HalfOpen, Stop, MainStep, threadVars
    <2>3. QED
      BY <2>1, <2>2
  <1>6. ASSUME NEW t \in Threads, SessionOpens(t)
        PROVE  Inv'
    <2>1. \A u \in Threads : Live(u)' <=> Live(u)
      BY <1>6 DEF SessionOpens, Live, TypeOK
    <2>2. {u \in Threads : Live(u)'} = {u \in Threads : Live(u)}
      BY <2>1
    <2>3. active' = Cardinality({u \in Threads : Live(u)'})
      BY <1>6, <2>2 DEF SessionOpens, TypeOK
    <2>4. TypeOK'
      BY <1>6, <2>3 DEF SessionOpens, TypeOK
    <2>5. SeenInv' /\ EndingInv'
      BY <1>6 DEF SeenInv, EndingInv, SessionOpens
    <2>6. QED
      BY <2>4, <2>5
  <1>7. ASSUME NEW t \in Threads, SessionEnds(t)
        PROVE  Inv'
    <2>1. TypeOK'
      BY <1>7, EndCounts DEF TypeOK, SessionEnds
    <2>2. SeenInv' /\ EndingInv'
      BY <1>7, EndCounts DEF SeenInv, EndingInv, SessionEnds
    <2>3. QED
      BY <2>1, <2>2
  <1>8. CASE UNCHANGED vars
    <2>1. TypeOK'
      BY <1>8, CountStays DEF TypeOK, vars
    <2>2. SeenInv' /\ EndingInv'
      BY <1>8 DEF SeenInv, EndingInv, vars, threadVars
    <2>3. QED
      BY <2>1, <2>2
  <1>9. SessionThread => UNCHANGED threadVars
    BY DEF SessionThread, Again, Connect, ConnectFails, Loop, ReceiveNothing, ServerCloses,
           ReceiveFails, StopServing, Drained, DrainExpires
  <1>10. QED
    BY <1>1, <1>2, <1>3, <1>4, <1>5, <1>6, <1>7, <1>8, <1>9 DEF Next

\* The invariant holds throughout.
LEMMA Invariance == Spec => []Inv
  BY Starts, Keeps, PTL DEF Spec

\* The state is well formed, and g_active_sessions is the number of threads alive.
THEOREM TypeCorrect == Spec => []TypeOK
  BY Invariance, PTL DEF Inv

\* A repeated StartSession starts no second shell on a control channel.
THEOREM NoSecondShell == Spec => []OneShellPerChannel
  <1>1. Inv => OneShellPerChannel
    BY DEF Inv, SeenInv, OneShellPerChannel
  <1>2. QED
    BY <1>1, Invariance, PTL

\* A drain that succeeds has left no session, and none starts afterwards.
THEOREM DrainIsFinal == Spec => []DrainedMeansQuiet
  <1>1. Inv => DrainedMeansQuiet
    <2> SUFFICES ASSUME Inv, ending = "drained"
                 PROVE  \A t \in Threads : ~Live(t)
      BY DEF DrainedMeansQuiet
    <2>1. Cardinality(LiveThreads) = 0
      BY DEF Inv, EndingInv, TypeOK, LiveThreads
    <2>2. LiveThreads = {}
      BY <2>1, LiveFinite, FS_EmptySet
    <2>3. QED
      BY <2>2 DEF LiveThreads
  <1>2. QED
    BY <1>1, Invariance, PTL
=============================================================================
