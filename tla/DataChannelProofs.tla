-------------------------- MODULE DataChannelProofs --------------------------
(***************************************************************************)
(* Proofs about DataChannel: the Outbox forgets nothing, keystrokes are    *)
(* applied once and in order, in whatever order they arrive, and a shell   *)
(* that exits is heard out.  They hold for every capacity of the Outbox,   *)
(* every ceiling of resends and any number of messages.                    *)
(*                                                                         *)
(* The invariant has a part for each direction: what the agent has sent    *)
(* (BoxInv, DownInv), and what the client has (UpInv, KeysInv).  It also   *)
(* shows that a session implements the two streams of ShellSession.        *)
(***************************************************************************)
EXTENDS DataChannel, SequenceTheorems, TLAPS

Entries  == [seq : Nat, resends : 0..MaxResends]

\* What the client, or the gateway in its place, can have sent.
Sent == {Ack(q) : q \in got} \cup {Input(q) : q \in 0..typed - 1} \cup {Closed}

Handshake == {"open", "greet", "await"}
Bridging  == {"pump", "drain", "recv", "write"}

\* The Outbox is sorted and bounded, and with what it has evicted and what the client
\* has, it holds everything that was sent.
BoxInv ==
    /\ outSeq \in Nat /\ outbox \in Seq(Entries)
    /\ Len(outbox) <= MaxBuffered
    /\ \A i, j \in 1..Len(outbox) : i < j => outbox[i].seq < outbox[j].seq
    /\ \A i \in 1..Len(outbox) : outbox[i].seq < outSeq
    /\ \A q \in 0..outSeq - 1 :
         q \in got \cup evicted \/ \E i \in 1..Len(outbox) : outbox[i].seq = q

\* The client gets stream data in order and without a gap: from the handshake request on,
\* all of it is with the client or on its way.
DownInv ==
    /\ got \subseteq 0..outSeq - 1 /\ down \in Seq(Nat)
    /\ client \in {"absent", "present", "gone"} /\ socket \in {"closed", "open", "broken"}
    /\ client = "absent" => got = {} /\ down = <<>>
    /\ \A q \in got : 0..q - 1 \subseteq got
    /\ \A i \in 1..Len(down) :
         /\ down[i] < outSeq
         /\ \A q \in 0..down[i] - 1 : q \in got \/ \E j \in 1..i - 1 : down[j] = q
    /\ outSeq > 1 => 0 \in got
    /\ client = "present" /\ socket = "open" /\ 0 \in got =>
         \A q \in 0..outSeq - 1 : q \in got \/ \E j \in 1..Len(down) : down[j] = q

\* An acknowledgement is of something the client has, and input was sent, in any order.
UpInv ==
    /\ typed \in Nat
    /\ typed > 0 => 0 \in got
    /\ up \subseteq Sent

\* A keystroke was due and has not reached the shell.
Writing == pc = "write" \/ how = "unwritten"

\* What was applied is the input from 1 on, up to the one that is due but for the one being
\* written.  As long as none has overtaken another, all that was acknowledged is among it.
KeysInv ==
    /\ expected \in Nat /\ applied \in Seq(Nat) /\ acked \subseteq Nat
    /\ \A i \in 1..Len(applied) : applied[i] = i
    /\ expected = 0 => applied = <<>>
    /\ expected > 0 /\ Writing => expected = Len(applied) + 2
    /\ expected > 0 /\ ~Writing => expected = Len(applied) + 1
    /\ inOrder => acked \ {0} \subseteq 1..expected - 1
    /\ pc \in Handshake => expected = 0 /\ 0 \notin acked
    /\ pc \in Bridging => expected > 0 /\ (inOrder => acked = 0..expected - 1)
    /\ pc = "write" => expected <= typed
    /\ how = "unwritten" => pc \notin Handshake \cup Bridging

\* The stages of the session.
StageInv ==
    /\ pc \in Handshake \cup Bridging \cup {"teardown", "wait", "ended"}
    /\ shell \in {"none", "forked", "alive", "exited", "reaped"}
    /\ written \in Nat /\ read \in 0..written
    /\ pc = "open" =>
         /\ outSeq = 0 /\ outbox = <<>> /\ evicted = {}
         /\ got = {} /\ down = <<>> /\ up = {} /\ typed = 0 /\ socket = "closed"
    /\ pc \in {"greet", "await"} => outSeq = 1
    /\ pc \in Bridging \cup {"teardown", "wait"} => 0 \in got
    /\ how = "exit" =>
         read = written /\ shell \in {"exited", "reaped"} /\ pc \in {"teardown", "ended"}

Inv == BoxInv /\ DownInv /\ UpInv /\ KeysInv /\ StageInv

FlagInv == late \in BOOLEAN /\ stop \in BOOLEAN

-----------------------------------------------------------------------------
(* The Outbox.                                                             *)

\* Outbox::add drops the oldest frame or none, and forgets nothing else.
LEMMA SendKeepsBox ==
    ASSUME BoxInv, NEW n \in 1..2, SendStream(n), got' = got
    PROVE  BoxInv' /\ outSeq' = outSeq + n
  <1> DEFINE new  == [i \in 1..n |-> [seq |-> outSeq + i - 1, resends |-> 0]]
             all  == outbox \o new
             over == IF Len(all) > MaxBuffered THEN Len(all) - MaxBuffered ELSE 0
  <1>1. /\ new \in Seq(Entries) /\ Len(new) = n
        /\ \A i \in 1..n : new[i].seq = outSeq + i - 1
    BY LimitsAssumption DEF BoxInv, Entries
  <1> HIDE DEF new
  <1>2. /\ all \in Seq(Entries) /\ Len(all) = Len(outbox) + n
        /\ \A i \in 1..Len(outbox) : all[i] = outbox[i]
        /\ \A i \in Len(outbox) + 1..Len(all) : all[i] = new[i - Len(outbox)]
    BY <1>1, ConcatProperties, LenProperties DEF BoxInv
  <1>3. /\ \A i \in 1..Len(all) : all[i] \in Entries
        /\ \A i \in Len(outbox) + 1..Len(all) : all[i].seq = outSeq + i - Len(outbox) - 1
    <2>1. Len(outbox) \in Nat
      BY LenProperties DEF BoxInv
    <2>2. QED
      BY <1>1, <1>2, <2>1, ElementOfSeq
  <1> HIDE DEF all
  <1>4. /\ outSeq' = outSeq + n
        /\ outbox' = SubSeq(all, over + 1, Len(all))
        /\ evicted' = evicted \cup {all[i].seq : i \in 1..over}
    BY DEF SendStream, Buffer, all, new
  <1>5. over \in 0..Len(all) /\ Len(all) - over <= MaxBuffered /\ Len(all) \in Nat
    BY <1>2, LimitsAssumption, LenProperties
  <1> HIDE DEF over
  <1>6. /\ outbox' \in Seq(Entries) /\ Len(outbox') = Len(all) - over
        /\ \A i \in 1..Len(outbox') : outbox'[i] = all[i + over]
    <2>1. \A i \in over + 1..Len(all) : all[i] \in Entries
      BY <1>3, <1>5
    <2>2. over + 1 \in Int /\ Len(all) \in Int
      BY <1>5
    <2>3. /\ SubSeq(all, over + 1, Len(all)) \in Seq(Entries)
          /\ Len(SubSeq(all, over + 1, Len(all))) =
               IF over + 1 <= Len(all) THEN Len(all) - (over + 1) + 1 ELSE 0
          /\ \A i \in 1..Len(all) - (over + 1) + 1 :
               SubSeq(all, over + 1, Len(all))[i] = all[over + 1 + i - 1]
      BY <2>1, <2>2, SubSeqProperties
    <2>4. QED
      BY <1>4, <1>5, <2>3
  <1>7. Len(outbox) \in Nat /\ outSeq \in Nat /\ \A i \in 1..Len(all) : all[i].seq \in Nat
    BY <1>3, LenProperties DEF BoxInv, Entries
  <1>8. /\ \A i, j \in 1..Len(all) : i < j => all[i].seq < all[j].seq
        /\ \A i \in 1..Len(all) : all[i].seq < outSeq'
    <2>1. \A i \in 1..Len(outbox) : all[i].seq < outSeq
      BY <1>2 DEF BoxInv
    <2>2. ASSUME NEW i \in 1..Len(all), NEW j \in 1..Len(all), i < j
          PROVE  all[i].seq < all[j].seq
      <3>1. CASE j <= Len(outbox)
        <4>1. i \in 1..Len(outbox) /\ j \in 1..Len(outbox)
          BY <2>2, <3>1, <1>2, <1>7
        <4>2. outbox[i].seq < outbox[j].seq
          BY <2>2, <4>1 DEF BoxInv
        <4>3. QED
          BY <4>1, <4>2, <1>2
      <3>2. CASE i <= Len(outbox) /\ j > Len(outbox)
        <4>1. all[i].seq < outSeq /\ all[j].seq = outSeq + j - Len(outbox) - 1
          BY <2>1, <3>2, <1>2, <1>3, <1>7
        <4>2. QED
          BY <3>2, <4>1, <1>7
      <3>3. CASE i > Len(outbox)
        <4>1. /\ all[i].seq = outSeq + i - Len(outbox) - 1
              /\ all[j].seq = outSeq + j - Len(outbox) - 1
          BY <2>2, <3>3, <1>2, <1>3, <1>7
        <4>2. QED
          BY <2>2, <4>1, <1>7
      <3>4. QED
        BY <3>1, <3>2, <3>3, <1>7
    <2>3. \A i \in 1..Len(all) : all[i].seq < outSeq'
      BY <2>1, <1>2, <1>3, <1>4, <1>7
    <2>4. QED
      BY <2>2, <2>3
  <1>9. ASSUME NEW q \in 0..outSeq' - 1
        PROVE  q \in got' \cup evicted' \/ \E i \in 1..Len(outbox') : outbox'[i].seq = q
    <2>1. q \in got \cup evicted \/ \E k \in 1..Len(all) : all[k].seq = q
      <3>1. CASE q < outSeq
        BY <3>1, <1>2, <1>7 DEF BoxInv
      <3>2. CASE q >= outSeq
        <4>1. /\ q - outSeq + Len(outbox) + 1 \in Len(outbox) + 1..Len(all)
              /\ q - outSeq + Len(outbox) + 1 \in 1..Len(all)
          BY <3>2, <1>2, <1>4, <1>7
        <4>2. all[q - outSeq + Len(outbox) + 1].seq = q
          BY <3>2, <4>1, <1>3, <1>7
        <4>3. QED
          BY <4>1, <4>2
      <3>3. QED
        BY <1>4, <1>7, <3>1, <3>2
    <2>2. CASE q \in got \cup evicted
      BY <2>2, <1>4
    <2>3. ASSUME NEW k \in 1..Len(all), all[k].seq = q
          PROVE  q \in evicted' \/ \E i \in 1..Len(outbox') : outbox'[i].seq = q
      <3>1. CASE k <= over
        BY <2>3, <3>1, <1>4, <1>5
      <3>2. CASE k > over
        <4>1. k - over \in 1..Len(outbox') /\ k - over + over = k
          BY <3>2, <1>5, <1>6
        <4>2. outbox'[k - over].seq = q
          BY <2>3, <4>1, <1>6
        <4>3. QED
          BY <4>1, <4>2
      <3>3. QED
        BY <3>1, <3>2, <1>5
    <2>4. QED
      BY <2>1, <2>2, <2>3
  <1>10. /\ \A i \in 1..Len(outbox') : i + over \in 1..Len(all)
         /\ Len(outbox') <= MaxBuffered /\ outSeq' \in Nat
    BY <1>4, <1>5, <1>6, <1>7
  <1>11. \A i, j \in 1..Len(outbox') : i < j => outbox'[i].seq < outbox'[j].seq
    <2> SUFFICES ASSUME NEW i \in 1..Len(outbox'), NEW j \in 1..Len(outbox'), i < j
                 PROVE  outbox'[i].seq < outbox'[j].seq
      OBVIOUS
    <2>1. i + over < j + over
      BY <1>5, <1>6
    <2>2. QED
      BY <1>6, <1>8, <1>10, <2>1
  <1>12. \A i \in 1..Len(outbox') : outbox'[i].seq < outSeq'
    BY <1>6, <1>8, <1>10
  <1>13. QED
    BY <1>4, <1>6, <1>9, <1>10, <1>11, <1>12 DEF BoxInv

\* A resend changes a count only.
LEMMA ResendKeepsBox ==
    ASSUME BoxInv, Resend, UNCHANGED <<got, outSeq, evicted>>
    PROVE  BoxInv'
  <1>1. Len(outbox) \in Nat /\ Len(outbox) > 0 /\ Head(outbox) = outbox[1]
    BY EmptySeq DEF Resend, BoxInv
  <1>2. \A i \in 1..Len(outbox) : outbox[i] \in Entries
    BY <1>1, ElementOfSeq DEF BoxInv
  <1>3. outbox[1] \in Entries /\ outbox[1].resends < MaxResends
    BY <1>1, <1>2 DEF Resend
  <1> DEFINE once == [outbox[1] EXCEPT !.resends = @ + 1]
  <1>4. once \in Entries /\ once.seq = outbox[1].seq
    BY <1>3, LimitsAssumption DEF Entries
  <1>5. outbox' = [outbox EXCEPT ![1] = once]
    BY DEF Resend
  <1> HIDE DEF once
  <1>6. /\ outbox' \in Seq(Entries) /\ Len(outbox') = Len(outbox)
        /\ \A i \in 1..Len(outbox) : outbox'[i].seq = outbox[i].seq
    <2>1. 1 \in 1..Len(outbox)
      BY <1>1
    <2>2. /\ outbox' \in Seq(Entries) /\ Len(outbox') = Len(outbox)
          /\ \A i \in 1..Len(outbox) : outbox'[i] = IF i = 1 THEN once ELSE outbox[i]
      BY <1>4, <1>5, <2>1, ExceptSeq DEF BoxInv
    <2>3. QED
      BY <1>4, <2>2
  <1>7. QED
    BY <1>6 DEF BoxInv

\* Outbox::ack pops only what the client has.
LEMMA AckKeepsBox ==
    ASSUME BoxInv, DownInv, NEW q \in got, Acknowledge(q), UNCHANGED <<got, outSeq, evicted>>
    PROVE  BoxInv'
  <1>1. PICK n \in 0..Len(outbox) :
          /\ \A i \in 1..n : outbox[i].seq <= q
          /\ outbox' = SubSeq(outbox, n + 1, Len(outbox))
    BY DEF Acknowledge
  <1>2. Len(outbox) \in Nat /\ \A i \in 1..Len(outbox) : outbox[i] \in Entries
    BY LenProperties, ElementOfSeq DEF BoxInv
  <1>3. /\ outbox' \in Seq(Entries) /\ Len(outbox') = Len(outbox) - n
        /\ \A i \in 1..Len(outbox') : outbox'[i] = outbox[i + n]
    <2>1. \A i \in n + 1..Len(outbox) : outbox[i] \in Entries
      BY <1>2
    <2>2. n + 1 \in Int /\ Len(outbox) \in Int
      BY <1>2
    <2>3. /\ SubSeq(outbox, n + 1, Len(outbox)) \in Seq(Entries)
          /\ Len(SubSeq(outbox, n + 1, Len(outbox))) =
               IF n + 1 <= Len(outbox) THEN Len(outbox) - (n + 1) + 1 ELSE 0
          /\ \A i \in 1..Len(outbox) - (n + 1) + 1 :
               SubSeq(outbox, n + 1, Len(outbox))[i] = outbox[n + 1 + i - 1]
      BY <2>1, <2>2, SubSeqProperties
    <2>4. QED
      BY <1>1, <1>2, <2>3
  <1>4. \A i \in 1..Len(outbox') : i + n \in 1..Len(outbox)
    BY <1>2, <1>3
  <1>5. \A i, j \in 1..Len(outbox') : i < j => outbox'[i].seq < outbox'[j].seq
    <2> SUFFICES ASSUME NEW i \in 1..Len(outbox'), NEW j \in 1..Len(outbox'), i < j
                 PROVE  outbox'[i].seq < outbox'[j].seq
      OBVIOUS
    <2>1. i + n < j + n
      BY <1>2, <1>3
    <2>2. QED
      BY <1>3, <1>4, <2>1 DEF BoxInv
  <1>6. ASSUME NEW p \in 0..outSeq - 1
        PROVE  p \in got \cup evicted \/ \E i \in 1..Len(outbox') : outbox'[i].seq = p
    <2>1. CASE p \in got \cup evicted
      BY <2>1
    <2>2. ASSUME NEW k \in 1..Len(outbox), outbox[k].seq = p
          PROVE  p \in got \/ \E i \in 1..Len(outbox') : outbox'[i].seq = p
      <3>1. CASE k <= n
        <4>1. p <= q /\ q \in Nat
          BY <1>1, <2>2, <3>1 DEF DownInv, BoxInv
        <4>2. QED
          BY <4>1 DEF DownInv
      <3>2. CASE k > n
        <4>1. k - n \in 1..Len(outbox') /\ k - n + n = k
          BY <3>2, <1>2, <1>3
        <4>2. outbox'[k - n].seq = p
          BY <2>2, <4>1, <1>3
        <4>3. QED
          BY <4>1, <4>2
      <3>3. QED
        BY <3>1, <3>2, <1>2
    <2>3. QED
      BY <2>1, <2>2 DEF BoxInv
  <1>7. Len(outbox') <= MaxBuffered /\ \A i \in 1..Len(outbox') : outbox'[i].seq < outSeq
    BY <1>2, <1>3, <1>4, LimitsAssumption DEF BoxInv
  <1>8. QED
    BY <1>3, <1>5, <1>6, <1>7 DEF BoxInv

-----------------------------------------------------------------------------
(* The way to the client.                                                  *)

\* What goes out anew follows everything sent before it.
LEMMA SendKeepsDown ==
    ASSUME BoxInv, DownInv, 0 \in got, NEW n \in 1..2, SendStream(n),
           UNCHANGED <<got, client>>, socket' = socket \/ socket' = "closed"
    PROVE  DownInv'
  <1> DEFINE new == [i \in 1..n |-> outSeq + i - 1]
  <1>1. /\ new \in Seq(Nat) /\ Len(new) = n
        /\ \A i \in 1..n : new[i] = outSeq + i - 1
    BY DEF BoxInv
  <1> HIDE DEF new
  <1>2. /\ outSeq' = outSeq + n /\ outSeq \in Nat
        /\ down' = IF socket = "open" /\ client = "present" THEN down \o new ELSE down
    BY DEF SendStream, Wire, BoxInv, new
  <1>3. Len(down) \in Nat /\ \A i \in 1..Len(down) : down[i] \in Nat
    BY LenProperties, ElementOfSeq DEF DownInv
  <1>4. CASE socket = "open" /\ client = "present"
    <2>1. /\ down' \in Seq(Nat) /\ Len(down') = Len(down) + n
          /\ \A i \in 1..Len(down) : down'[i] = down[i]
          /\ \A i \in Len(down) + 1..Len(down') : down'[i] = outSeq + i - Len(down) - 1
      <3>1. /\ down \o new \in Seq(Nat) /\ Len(down \o new) = Len(down) + n
            /\ \A i \in 1..Len(down) + n :
                 (down \o new)[i] = IF i <= Len(down) THEN down[i] ELSE new[i - Len(down)]
        BY <1>1, ConcatProperties DEF DownInv
      <3>2. QED
        BY <1>1, <1>2, <1>3, <1>4, <3>1
    <2>2. \A q \in 0..outSeq - 1 : q \in got \/ \E j \in 1..Len(down) : down'[j] = q
      BY <2>1, <1>4 DEF DownInv
    <2>3. ASSUME NEW i \in 1..Len(down')
          PROVE  /\ down'[i] < outSeq'
                 /\ \A q \in 0..down'[i] - 1 : q \in got \/ \E j \in 1..i - 1 : down'[j] = q
      <3>1. CASE i <= Len(down)
        <4>1. down'[i] = down[i] /\ i \in 1..Len(down)
          BY <3>1, <1>3, <2>1
        <4>2. down[i] < outSeq'
          BY <4>1, <1>2, <1>3 DEF DownInv
        <4>3. \A q \in 0..down[i] - 1 : q \in got \/ \E j \in 1..i - 1 : down[j] = q
          BY <4>1 DEF DownInv
        <4>4. \A j \in 1..i - 1 : down'[j] = down[j]
          BY <4>1, <1>3, <2>1
        <4>5. QED
          BY <4>1, <4>2, <4>3, <4>4
      <3>2. CASE i > Len(down)
        <4>1. down'[i] = outSeq + i - Len(down) - 1 /\ i <= Len(down) + n
          BY <3>2, <1>3, <2>1
        <4>2. ASSUME NEW q \in 0..down'[i] - 1, q \notin got
              PROVE  \E j \in 1..i - 1 : down'[j] = q
          <5>1. CASE q < outSeq
            <6>1. PICK j \in 1..Len(down) : down'[j] = q
              BY <2>2, <4>2, <5>1, <1>2
            <6>2. j \in 1..i - 1
              BY <3>2, <1>3
            <6>3. QED
              BY <6>1, <6>2
          <5>2. CASE q >= outSeq
            <6>1. q - outSeq + Len(down) + 1 \in Len(down) + 1..i - 1
              BY <4>1, <5>2, <1>2, <1>3
            <6>2. /\ q - outSeq + Len(down) + 1 \in Len(down) + 1..Len(down')
                  /\ outSeq + (q - outSeq + Len(down) + 1) - Len(down) - 1 = q
              BY <6>1, <4>1, <2>1, <1>2, <1>3
            <6>3. down'[q - outSeq + Len(down) + 1] = q
              BY <6>2, <2>1
            <6>4. QED
              BY <6>1, <6>3, <1>3
          <5>3. QED
            BY <5>1, <5>2, <1>2
        <4>3. down'[i] < outSeq'
          BY <4>1, <1>2, <1>3
        <4>4. QED
          BY <4>2, <4>3
      <3>3. QED
        BY <3>1, <3>2, <1>3
    <2>4. \A q \in 0..outSeq' - 1 : q \in got \/ \E j \in 1..Len(down') : down'[j] = q
      <3> SUFFICES ASSUME NEW q \in 0..outSeq' - 1, q \notin got
                   PROVE  \E j \in 1..Len(down') : down'[j] = q
        OBVIOUS
      <3>1. CASE q < outSeq
        <4>1. PICK j \in 1..Len(down) : down'[j] = q
          BY <2>2, <3>1, <1>2
        <4>2. j \in 1..Len(down')
          BY <2>1, <1>3
        <4>3. QED
          BY <4>1, <4>2
      <3>2. CASE q >= outSeq
        <4>1. q - outSeq + Len(down) + 1 \in Len(down) + 1..Len(down')
          BY <3>2, <2>1, <1>2, <1>3
        <4>2. outSeq + (q - outSeq + Len(down) + 1) - Len(down) - 1 = q
          BY <1>2, <1>3
        <4>3. down'[q - outSeq + Len(down) + 1] = q
          BY <4>1, <4>2, <2>1
        <4>4. QED
          BY <4>1, <4>3, <1>3
      <3>3. QED
        BY <3>1, <3>2, <1>2
    <2>5. got' \subseteq 0..outSeq' - 1
      BY <1>2 DEF DownInv
    <2>6. QED
      BY <1>4, <2>1, <2>3, <2>4, <2>5 DEF DownInv
  <1>5. CASE ~(socket = "open" /\ client = "present")
    BY <1>2, <1>3, <1>5 DEF DownInv
  <1>6. QED
    BY <1>4, <1>5

\* What is sent again has been sent: the client has everything before it, or will.
LEMMA ResendKeepsDown ==
    ASSUME BoxInv, DownInv, Resend, UNCHANGED <<got, outSeq, client, socket>>
    PROVE  DownInv'
  <1> DEFINE first == Head(outbox).seq
  <1>1. Len(outbox) \in Nat /\ Len(outbox) > 0 /\ Head(outbox) = outbox[1]
    BY EmptySeq DEF Resend, BoxInv
  <1>2. first \in Nat /\ first < outSeq /\ outSeq \in Nat
    <2>1. outbox[1] \in Entries
      BY <1>1, ElementOfSeq DEF BoxInv
    <2>2. outbox[1].seq < outSeq
      BY <1>1 DEF BoxInv
    <2>3. QED
      BY <1>1, <2>1, <2>2 DEF BoxInv, Entries
  <1>3. down' = IF socket = "open" /\ client = "present" THEN down \o <<first>> ELSE down
    BY DEF Resend, Wire
  <1> HIDE DEF first
  <1>4. Len(down) \in Nat
    BY LenProperties DEF DownInv
  <1>5. CASE socket = "open" /\ client = "present"
    <2>1. /\ down' \in Seq(Nat) /\ Len(down') = Len(down) + 1
          /\ \A i \in 1..Len(down) : down'[i] = down[i]
          /\ down'[Len(down) + 1] = first
      <3>1. <<first>> \in Seq(Nat) /\ Len(<<first>>) = 1 /\ <<first>>[1] = first
        BY <1>2
      <3>2. /\ down \o <<first>> \in Seq(Nat) /\ Len(down \o <<first>>) = Len(down) + 1
            /\ \A i \in 1..Len(down) + 1 :
                 (down \o <<first>>)[i] = IF i <= Len(down) THEN down[i]
                                                            ELSE <<first>>[i - Len(down)]
        BY <3>1, ConcatProperties DEF DownInv
      <3>3. QED
        BY <1>3, <1>4, <1>5, <3>1, <3>2
    <2>2. \A q \in 0..first - 1 : q \in got \/ \E j \in 1..Len(down) : down[j] = q
      <3>1. CASE 0 \in got
        BY <3>1, <1>2, <1>5 DEF DownInv
      <3>2. CASE 0 \notin got
        BY <3>2, <1>2 DEF DownInv
      <3>3. QED
        BY <3>1, <3>2
    <2>3. \A i \in 1..Len(down') :
            /\ down'[i] < outSeq
            /\ \A q \in 0..down'[i] - 1 : q \in got \/ \E j \in 1..i - 1 : down'[j] = q
      <3> SUFFICES ASSUME NEW i \in 1..Len(down')
                   PROVE  /\ down'[i] < outSeq
                          /\ \A q \in 0..down'[i] - 1 :
                               q \in got \/ \E j \in 1..i - 1 : down'[j] = q
        OBVIOUS
      <3>1. CASE i <= Len(down)
        <4>1. i \in 1..Len(down) /\ down'[i] = down[i]
          BY <3>1, <1>4, <2>1
        <4>2. \A j \in 1..i - 1 : down'[j] = down[j]
          BY <4>1, <1>4, <2>1
        <4>3. down[i] < outSeq
          BY <4>1 DEF DownInv
        <4>4. \A q \in 0..down[i] - 1 : q \in got \/ \E j \in 1..i - 1 : down[j] = q
          BY <4>1 DEF DownInv
        <4>5. QED
          BY <4>1, <4>2, <4>3, <4>4
      <3>2. CASE i = Len(down) + 1
        BY <3>2, <1>2, <1>4, <2>1, <2>2
      <3>3. QED
        BY <3>1, <3>2, <1>4, <2>1
    <2>4. 0 \in got =>
            \A q \in 0..outSeq - 1 : q \in got \/ \E j \in 1..Len(down') : down'[j] = q
      <3>1. 0 \in got =>
              \A q \in 0..outSeq - 1 : q \in got \/ \E j \in 1..Len(down) : down[j] = q
        BY <1>5 DEF DownInv
      <3>2. \A j \in 1..Len(down) : j \in 1..Len(down') /\ down'[j] = down[j]
        BY <1>4, <2>1
      <3>3. QED
        BY <3>1, <3>2
    <2>5. QED
      BY <1>5, <2>1, <2>3, <2>4 DEF DownInv
  <1>6. CASE ~(socket = "open" /\ client = "present")
    BY <1>3, <1>6 DEF DownInv
  <1>7. QED
    BY <1>5, <1>6

\* The client takes the next frame on its way, and has no gap before it.
LEMMA ReceiptKeepsDown ==
    ASSUME BoxInv, DownInv, ClientReceives
    PROVE  DownInv' /\ Head(down) \in Nat /\ got' = got \cup {Head(down)}
  <1>1. /\ client = "present" /\ down # <<>> /\ down' = Tail(down)
        /\ got' = got \cup {Head(down)} /\ UNCHANGED <<client, socket, outSeq>>
    BY DEF ClientReceives, outVars
  <1>2. /\ Len(down) \in Nat /\ Len(down) > 0 /\ Head(down) = down[1] /\ down[1] \in Nat
        /\ down' \in Seq(Nat) /\ Len(down') = Len(down) - 1
        /\ \A i \in 1..Len(down') : down'[i] = down[i + 1]
    BY <1>1, HeadTailProperties, EmptySeq DEF DownInv
  <1>3. outSeq \in Nat
    BY DEF BoxInv
  <1>4. down[1] < outSeq /\ \A q \in 0..down[1] - 1 : q \in got
    <2>1. 1 \in 1..Len(down) /\ 1..1 - 1 = {}
      BY <1>2
    <2>2. QED
      BY <2>1 DEF DownInv
  <1>5. got' \subseteq 0..outSeq' - 1 /\ \A q \in got' : 0..q - 1 \subseteq got'
    <2>1. got' \subseteq 0..outSeq' - 1
      <3>1. down[1] \in 0..outSeq - 1 /\ got \subseteq 0..outSeq - 1
        BY <1>2, <1>3, <1>4 DEF DownInv
      <3>2. QED
        BY <3>1, <1>1, <1>2
    <2>2. ASSUME NEW q \in got', NEW p \in 0..q - 1
          PROVE  p \in got'
      <3>1. CASE q \in got
        BY <3>1, <1>1 DEF DownInv
      <3>2. CASE q = down[1]
        BY <3>2, <1>1, <1>4
      <3>3. QED
        BY <1>1, <1>2, <3>1, <3>2
    <2>3. QED
      BY <2>1, <2>2
  <1>6. ASSUME NEW i \in 1..Len(down')
        PROVE  /\ down'[i] < outSeq
               /\ \A q \in 0..down'[i] - 1 : q \in got' \/ \E j \in 1..i - 1 : down'[j] = q
    <2>1. i + 1 \in 1..Len(down) /\ down'[i] = down[i + 1]
      BY <1>2
    <2>2. down'[i] < outSeq
      BY <2>1 DEF DownInv
    <2>3. ASSUME NEW q \in 0..down'[i] - 1, q \notin got'
          PROVE  \E j \in 1..i - 1 : down'[j] = q
      <3>1. PICK j \in 1..i + 1 - 1 : down[j] = q
        BY <2>1, <2>3, <1>1 DEF DownInv
      <3>2. j # 1
        BY <3>1, <2>3, <1>1, <1>2
      <3>3. j - 1 \in 1..i - 1 /\ j - 1 \in 1..Len(down') /\ j - 1 + 1 = j
        BY <3>2, <1>2, <2>1
      <3>4. QED
        BY <3>1, <3>3, <1>2
    <2>4. QED
      BY <2>2, <2>3
  <1>7. ASSUME socket = "open", NEW q \in 0..outSeq - 1, q \notin got'
        PROVE  \E j \in 1..Len(down') : down'[j] = q
    <2>1. CASE 0 \in got
      <3>1. PICK j \in 1..Len(down) : down[j] = q
        BY <2>1, <1>1, <1>7 DEF DownInv
      <3>2. j # 1
        BY <3>1, <1>7, <1>1, <1>2
      <3>3. j - 1 \in 1..Len(down') /\ j - 1 + 1 = j
        BY <3>2, <1>2
      <3>4. QED
        BY <3>1, <3>3, <1>2
    <2>2. CASE 0 \notin got
      <3>1. outSeq <= 1 /\ q = 0
        BY <2>2, <1>3 DEF DownInv
      <3>2. down[1] = 0
        BY <1>2, <1>4, <3>1, <1>3
      <3>3. QED
        BY <1>1, <1>2, <1>7, <3>1, <3>2
    <2>3. QED
      BY <2>1, <2>2
  <1>8. QED
    BY <1>1, <1>2, <1>5, <1>6, <1>7 DEF DownInv

-----------------------------------------------------------------------------
(* The way to the agent.                                                   *)

\* A longer prefix of the numbers contains a shorter one.
LEMMA Prefixes ==
    ASSUME NEW m \in Nat, NEW n \in Nat, m <= n
    PROVE  0..m - 1 \subseteq 0..n - 1
  OBVIOUS

\* What the client has sent stays sent.
LEMMA SentGrows ==
    ASSUME UpInv, got \subseteq got', typed' \in Nat, typed <= typed'
    PROVE  Sent \subseteq Sent'
  <1>1. typed \in Nat
    BY DEF UpInv
  <1>2. 0..typed - 1 \subseteq 0..typed' - 1
    BY <1>1, Prefixes
  <1>3. QED
    BY <1>2 DEF Sent, Ack, Input, Closed

\* The client or the gateway sends messages.
LEMMA DeliveryKeepsUp ==
    ASSUME UpInv, got \subseteq got', typed' \in Nat, typed <= typed', typed' > 0 => 0 \in got',
           NEW new, new \subseteq Sent', Deliver(new) \/ UNCHANGED up
    PROVE  UpInv'
  <1>1. Sent \subseteq Sent'
    BY SentGrows
  <1>2. up' \subseteq up \cup new
    BY DEF Deliver
  <1>3. QED
    BY <1>1, <1>2 DEF UpInv

\* The agent takes messages, or the channel loses them.
LEMMA LossKeepsUp ==
    ASSUME UpInv, up' \subseteq up, UNCHANGED <<got, typed>>
    PROVE  UpInv'
  BY DEF UpInv, Sent, Ack, Input, Closed

\* What the messages say.
LEMMA Received ==
    ASSUME UpInv
    PROVE  /\ Acks \subseteq got
           /\ \A q \in Inputs : q \in Nat /\ q < typed /\ 0 \in got
           /\ Input(0) \in up => 0 \in Inputs
  <1>1. \A m \in up : m \in Sent
    BY DEF UpInv
  <1>2. ASSUME NEW m \in up, m.kind = "ack" PROVE m.seq \in got
    BY <1>1, <1>2 DEF Sent, Ack, Input, Closed
  <1>3. ASSUME NEW m \in up, m.kind = "input" PROVE m.seq \in 0..typed - 1
    BY <1>1, <1>3 DEF Sent, Ack, Input, Closed
  <1>4. typed \in Nat /\ (typed > 0 => 0 \in got)
    BY DEF UpInv
  <1>5. Acks \subseteq got
    BY <1>2 DEF Acks
  <1>6. \A q \in Inputs : q \in 0..typed - 1
    BY <1>3 DEF Inputs
  <1>7. Input(0) \in up => 0 \in Inputs
    BY DEF Inputs, Input
  <1>8. QED
    BY <1>4, <1>5, <1>6, <1>7

-----------------------------------------------------------------------------
(* The steps.                                                              *)

\* The initial states satisfy the invariant.
LEMMA Starts == Init => Inv
  <1> SUFFICES ASSUME Init
               PROVE  Inv
    OBVIOUS
  <1>1. <<>> \in Seq(Entries) /\ <<>> \in Seq(Nat) /\ Len(<<>>) = 0
    BY EmptySeq
  <1>2. BoxInv
    BY <1>1, LimitsAssumption DEF Init, BoxInv
  <1>3. DownInv /\ UpInv
    BY <1>1 DEF Init, DownInv, UpInv
  <1>4. KeysInv /\ StageInv
    <2>1. KeysInv
      BY <1>1 DEF Init, KeysInv, Handshake, Bridging
    <2>2. StageInv
      BY DEF Init, StageInv, Handshake, Bridging
    <2>3. QED
      BY <2>1, <2>2
  <1>5. QED
    BY <1>2, <1>3, <1>4 DEF Inv

\* A step that takes no input, and stays in the handshake or out of it.
LEMMA KeysStay ==
    ASSUME KeysInv, UNCHANGED inVars, typed' \in Nat, typed \in Nat, typed <= typed',
           pc' \in Handshake => pc \in Handshake,
           pc' \in Bridging => pc \in Bridging,
           pc = "write" \/ pc' = "write" => pc' = pc,
           how' = how \/ (pc \in Handshake \cup Bridging /\ how' # "unwritten")
    PROVE  KeysInv'
  <1>1. Writing' <=> Writing
    BY DEF Writing, KeysInv
  <1>2. UNCHANGED <<expected, applied, acked, inOrder>>
    BY DEF inVars
  <1>3. /\ pc' \in Handshake => expected' = 0 /\ 0 \notin acked'
        /\ pc' \in Bridging => expected' > 0 /\ (inOrder' => acked' = 0..expected' - 1)
        /\ how' = "unwritten" => pc' \notin Handshake \cup Bridging
    BY <1>2 DEF KeysInv
  <1>4. pc' = "write" => expected' <= typed'
    <2> SUFFICES ASSUME pc' = "write" PROVE expected <= typed'
      BY <1>2
    <2>1. expected \in Nat /\ expected <= typed
      BY DEF KeysInv
    <2>2. QED
      BY <2>1
  <1>5. QED
    BY <1>1, <1>2, <1>3, <1>4 DEF KeysInv

\* A step that leaves client, messages and input alone.
LEMMA QuietKeeps ==
    ASSUME Inv, UNCHANGED <<clientVars, netVars, outVars>>
    PROVE  BoxInv' /\ DownInv' /\ UpInv'
  <1>1. BoxInv'
    BY DEF Inv, BoxInv, clientVars, outVars
  <1>2. DownInv'
    BY DEF Inv, DownInv, clientVars, netVars, outVars
  <1>3. UpInv'
    BY LossKeepsUp DEF Inv, clientVars, netVars
  <1>4. QED
    BY <1>1, <1>2, <1>3

\* The steps that leave the messages, the Outbox and the input alone.
LEMMA QuietStep ==
    ASSUME Inv,
           \/ ShellLeads \/ ShellWrites \/ ShellExits \/ Stop \/ TimePasses
           \/ OpenFails \/ GiveUpHandshake \/ LeaveLoop
           \/ OutputDrained \/ ShellEnds \/ ReceiveNothing \/ KillMisses
    PROVE  Inv'
  <1> USE DEF Handshake, Bridging
  <1>1. KeysInv /\ StageInv /\ typed \in Nat
    BY DEF Inv, UpInv
  <1>2. CASE ShellLeads \/ ShellWrites \/ ShellExits \/ Stop \/ TimePasses
    <2>1. UNCHANGED <<clientVars, netVars, outVars, inVars, pc, how>>
      BY <1>2 DEF ShellLeads, ShellWrites, ShellExits, Stop, TimePasses
    <2>2. typed' = typed
      BY <2>1 DEF clientVars
    <2>3. KeysInv'
      BY <1>1, <2>1, <2>2, KeysStay
    <2>4. StageInv'
      BY <1>1, <1>2 DEF ShellLeads, ShellWrites, ShellExits, Stop, TimePasses, StageInv,
                        clientVars, netVars, outVars, ptyVars
    <2>5. QED
      BY <2>1, <2>3, <2>4, QuietKeeps DEF Inv
  <1>3. CASE OpenFails \/ GiveUpHandshake \/ LeaveLoop \/ OutputDrained \/ ShellEnds
               \/ ReceiveNothing \/ KillMisses
    <2>1. /\ UNCHANGED <<clientVars, netVars, outVars, inVars, ptyVars, late, stop>>
          /\ \/ pc \in Handshake /\ pc' \in {"greet", "ended"}
             \/ pc \in {"pump", "drain", "recv"} /\ pc' \in {"pump", "recv", "teardown"}
             \/ pc = "teardown" /\ pc' = "wait"
          /\ how' = how \/ (pc \in Handshake \cup Bridging /\ how' # "unwritten")
      BY <1>3 DEF OpenFails, GiveUpHandshake, LeaveLoop, OutputDrained, ShellEnds, ReceiveNothing,
                  KillMisses, End, Finish
    <2>2. typed' = typed
      BY <2>1 DEF clientVars
    <2>3. KeysInv'
      <3>1. /\ pc' \in Handshake => pc \in Handshake
            /\ pc' \in Bridging => pc \in Bridging
            /\ pc # "write" /\ pc' # "write"
        BY <2>1
      <3> HIDE DEF Handshake, Bridging
      <3>2. QED
        BY <1>1, <2>1, <2>2, <3>1, KeysStay
    <2>4. StageInv'
      <3>1. CASE OpenFails \/ GiveUpHandshake \/ ReceiveNothing
        BY <1>1, <3>1 DEF OpenFails, GiveUpHandshake, ReceiveNothing, End, StageInv,
                          clientVars, netVars, outVars, ptyVars
      <3>2. CASE LeaveLoop \/ OutputDrained \/ ShellEnds \/ KillMisses
        BY <1>1, <3>2 DEF LeaveLoop, OutputDrained, ShellEnds, KillMisses, Finish, StageInv,
                          clientVars, netVars, outVars, ptyVars
      <3>3. QED
        BY <1>3, <3>1, <3>2
    <2>5. QED
      BY <2>1, <2>3, <2>4, QuietKeeps DEF Inv
  <1>4. QED
    BY <1>2, <1>3

\* The client is bridged, receives, types, repeats itself or leaves.
LEMMA ClientStep ==
    ASSUME Inv, Client
    PROVE  Inv'
  <1> USE DEF Inv
  <1>1. /\ UNCHANGED <<inVars, outVars, ptyVars, socket, pc, late, stop, how>>
        /\ got \subseteq got' /\ typed' \in Nat /\ typed <= typed' /\ typed \in Nat
    <2>1. typed \in Nat
      BY DEF UpInv
    <2>2. CASE Bridge \/ ClientRepeats \/ ClientLeaves
      BY <2>1, <2>2 DEF Bridge, ClientRepeats, ClientLeaves, netVars
    <2>3. CASE ClientTypes
      BY <2>1, <2>3 DEF ClientTypes
    <2>4. CASE ClientReceives
      <3>1. typed' \in {1, typed} /\ (typed' = 1 => typed = 0 \/ typed = typed')
        BY <2>4 DEF ClientReceives, UpInv
      <3>2. typed > 0 => 0 \in got
        BY DEF UpInv
      <3>3. typed' \in Nat /\ typed <= typed'
        BY <2>1, <2>4, <3>1, <3>2 DEF ClientReceives
      <3>4. QED
        BY <2>1, <2>4, <3>3 DEF ClientReceives
    <2>5. QED
      BY <2>2, <2>3, <2>4 DEF Client
  <1>2. KeysInv'
    BY <1>1, KeysStay
  <1>3. StageInv'
    <2>1. pc = "open" => UNCHANGED <<got, down, up, typed>>
      <3>1. CASE Bridge
        BY <3>1 DEF Bridge, netVars
      <3>2. CASE ClientReceives
        BY <3>2 DEF ClientReceives, StageInv
      <3>3. CASE ClientTypes
        BY <3>3, BoundsAssumption DEF ClientTypes, StageInv
      <3>4. CASE ClientRepeats
        BY <3>4 DEF ClientRepeats, StageInv
      <3>5. CASE ClientLeaves
        BY <3>5 DEF ClientLeaves, Deliver, StageInv
      <3>6. QED
        BY <3>1, <3>2, <3>3, <3>4, <3>5 DEF Client
    <2>2. QED
      BY <1>1, <2>1 DEF StageInv, outVars, ptyVars
  <1>4. CASE Bridge
    <2>1. BoxInv' /\ UpInv'
      BY <1>4, LossKeepsUp DEF Bridge, BoxInv, outVars, netVars
    <2>2. DownInv'
      BY <1>4 DEF Bridge, DownInv, outVars, netVars
    <2>3. QED
      BY <1>2, <1>3, <2>1, <2>2
  <1>5. CASE ClientReceives
    <2> DEFINE q == Head(down)
               answers == q = 0 /\ q \notin got
               new == IF answers THEN {Ack(q), Input(0)} ELSE {Ack(q)}
    <2>1. DownInv' /\ q \in Nat /\ got' = got \cup {q}
      BY <1>5, ReceiptKeepsDown
    <2>2. BoxInv'
      BY <1>5, <2>1 DEF ClientReceives, BoxInv, outVars
    <2>3. Deliver(new) /\ typed' = IF answers THEN 1 ELSE typed
      BY <1>5 DEF ClientReceives
    <2>4. typed' > 0 => 0 \in got'
      BY <2>1, <2>3 DEF UpInv
    <2>5. new \subseteq Sent'
      <3>1. Ack(q) \in Sent'
        BY <2>1 DEF Sent, Ack
      <3>2. answers => 0 \in 0..typed' - 1
        BY <2>3
      <3>3. answers => Input(0) \in Sent'
        BY <3>2 DEF Sent, Input
      <3>4. QED
        BY <3>1, <3>3
    <2> HIDE DEF new, answers, q
    <2>6. UpInv'
      BY <1>1, <2>3, <2>4, <2>5, DeliveryKeepsUp
    <2>7. QED
      BY <1>2, <1>3, <2>1, <2>2, <2>6
  <1>6. CASE ClientTypes \/ ClientRepeats
    <2>1. BoxInv' /\ DownInv'
      <3>1. UNCHANGED <<client, got, down, socket, outSeq, outbox, evicted>>
        BY <1>6 DEF ClientTypes, ClientRepeats, outVars
      <3>2. QED
        BY <3>1 DEF BoxInv, DownInv
    <2>2. PICK q \in 0..typed' - 1 : Deliver({Input(q)})
      <3>1. CASE ClientTypes
        <4>1. typed \in 0..typed' - 1
          BY <1>1, <3>1 DEF ClientTypes
        <4>2. QED
          BY <3>1, <4>1 DEF ClientTypes
      <3>2. CASE ClientRepeats
        BY <3>2 DEF ClientRepeats
      <3>3. QED
        BY <1>6, <3>1, <3>2
    <2>3. typed > 0 /\ got' = got
      <3>1. CASE ClientTypes
        BY <1>1, <3>1, BoundsAssumption DEF ClientTypes
      <3>2. CASE ClientRepeats
        BY <1>1, <3>2 DEF ClientRepeats
      <3>3. QED
        BY <1>6, <3>1, <3>2
    <2>4. {Input(q)} \subseteq Sent'
      BY DEF Sent, Input
    <2>5. UpInv'
      BY <1>1, <2>2, <2>3, <2>4, DeliveryKeepsUp DEF UpInv
    <2>6. QED
      BY <1>2, <1>3, <2>1, <2>5
  <1>7. CASE ClientLeaves
    <2>1. BoxInv'
      BY <1>7 DEF ClientLeaves, BoxInv, outVars
    <2>2. DownInv'
      BY <1>7, EmptySeq DEF ClientLeaves, DownInv, outVars
    <2>3. UNCHANGED <<got, typed>> /\ (UNCHANGED up \/ Deliver({Closed}))
      BY <1>7 DEF ClientLeaves
    <2>4. {Closed} \subseteq Sent'
      BY DEF Sent
    <2>5. UpInv'
      BY <1>1, <2>3, <2>4, DeliveryKeepsUp DEF UpInv
    <2>6. QED
      BY <1>2, <1>3, <2>1, <2>2, <2>5
  <1>8. QED
    BY <1>4, <1>5, <1>6, <1>7 DEF Client

\* A broken connection takes with it what was under way.
LEMMA BreakStep ==
    ASSUME Inv, Break
    PROVE  Inv'
  <1> USE DEF Inv
  <1>1. /\ UNCHANGED <<clientVars, outVars, inVars, ptyVars, pc, how>>
        /\ socket = "open" /\ socket' = "broken" /\ up' = {} /\ down' = <<>>
    BY DEF Break
  <1>2. <<>> \in Seq(Nat) /\ 1..Len(<<>>) = {}
    BY EmptySeq
  <1>3. BoxInv'
    BY <1>1 DEF BoxInv, clientVars, outVars
  <1>4. DownInv'
    BY <1>1, <1>2 DEF DownInv, clientVars, outVars
  <1>5. UpInv'
    BY <1>1, LossKeepsUp DEF clientVars
  <1>6. KeysInv'
    BY <1>1, KeysStay DEF UpInv, clientVars
  <1>7. StageInv'
    BY <1>1 DEF StageInv, clientVars, outVars, ptyVars
  <1>8. QED
    BY <1>3, <1>4, <1>5, <1>6, <1>7

\* The handshake request is frame 0, and the gateway drops it if no client is there.
LEMMA OpenStep ==
    ASSUME Inv, Open
    PROVE  Inv'
  <1> USE DEF Inv
  <1>1. /\ UNCHANGED <<clientVars, up, evicted, inVars, ptyVars, how>>
        /\ pc = "open" /\ pc' = "greet" /\ socket' = "open"
        /\ outSeq' = 1 /\ outbox' = <<[seq |-> 0, resends |-> 0]>>
        /\ down' = IF client = "present" THEN <<0>> ELSE <<>>
    BY DEF Open
  <1>2. got = {} /\ down = <<>> /\ up = {} /\ typed = 0
    BY <1>1 DEF StageInv
  <1>3. BoxInv'
    <2> DEFINE first == [seq |-> 0, resends |-> 0]
    <2>1. first \in Entries /\ first.seq = 0
      BY LimitsAssumption DEF Entries
    <2> HIDE DEF first
    <2>2. outbox' \in Seq(Entries) /\ Len(outbox') = 1 /\ outbox'[1] = first
      <3>1. outbox' = <<first>>
        BY <1>1 DEF first
      <3>2. QED
        BY <2>1, <3>1
    <2>3. QED
      BY <1>1, <2>1, <2>2, LimitsAssumption DEF BoxInv
  <1>4. DownInv'
    <2>1. /\ <<0>> \in Seq(Nat) /\ Len(<<0>>) = 1 /\ <<0>>[1] = 0
          /\ <<>> \in Seq(Nat) /\ 1..Len(<<>>) = {}
      BY EmptySeq
    <2>2. UNCHANGED <<client, got>>
      BY <1>1 DEF clientVars
    <2>3. CASE client = "present"
      BY <1>1, <1>2, <2>1, <2>2, <2>3 DEF DownInv
    <2>4. CASE client # "present"
      BY <1>1, <1>2, <2>1, <2>2, <2>4 DEF DownInv
    <2>5. QED
      BY <2>3, <2>4
  <1>5. UpInv'
    BY <1>1, LossKeepsUp DEF clientVars
  <1>6. KeysInv'
    BY <1>1, KeysStay DEF UpInv, clientVars, Handshake, Bridging
  <1>7. StageInv'
    BY <1>1 DEF StageInv, ptyVars, Handshake, Bridging
  <1>8. QED
    BY <1>3, <1>4, <1>5, <1>6, <1>7

\* A resend puts a frame of the Outbox on the wire once more.
LEMMA ResendStep ==
    ASSUME Inv, Greet \/ Pump
    PROVE  Inv'
  <1> USE DEF Inv
  <1>1. /\ UNCHANGED <<clientVars, up, socket, outSeq, evicted, inVars, ptyVars, how>>
        /\ NothingDue \/ Resend
        /\ \/ pc = "greet" /\ pc' = "await"
           \/ pc = "pump" /\ pc' = "drain"
    BY DEF Greet, Pump
  <1>2. UNCHANGED <<client, got, typed, up, expected>>
    BY <1>1 DEF clientVars, inVars
  <1>3. BoxInv' /\ DownInv'
    <2>1. CASE NothingDue
      BY <1>1, <1>2, <2>1 DEF NothingDue, BoxInv, DownInv
    <2>2. CASE Resend
      BY <1>1, <1>2, <2>2, ResendKeepsBox, ResendKeepsDown
    <2>3. QED
      BY <1>1, <2>1, <2>2
  <1>4. UpInv'
    BY <1>1, <1>2, LossKeepsUp
  <1>5. KeysInv'
    BY <1>1, <1>2, KeysStay DEF UpInv, Handshake, Bridging
  <1>6. StageInv'
    BY <1>1, <1>2 DEF StageInv, ptyVars, Handshake, Bridging
  <1>7. QED
    BY <1>3, <1>4, <1>5, <1>6

\* An acknowledgement takes its frame, which the client has, from the Outbox.
LEMMA AckStep ==
    ASSUME Inv, AwaitAck \/ ReceiveAck
    PROVE  Inv'
  <1> USE DEF Inv
  <1>1. PICK q \in Acks :
          /\ UNCHANGED <<clientVars, down, socket, outSeq, evicted, inVars, ptyVars, how>>
          /\ up' \subseteq up /\ Acknowledge(q)
          /\ \/ pc = "await" /\ pc' = "greet"
             \/ pc = "recv" /\ pc' = "pump"
    BY DEF AwaitAck, ReceiveAck, Receive
  <1>2. UNCHANGED <<client, got, typed>>
    BY <1>1 DEF clientVars
  <1>3. q \in got
    BY Received
  <1>4. UpInv'
    BY <1>1, <1>2, LossKeepsUp
  <1>5. BoxInv'
    BY <1>1, <1>2, <1>3, AckKeepsBox
  <1>6. DownInv'
    BY <1>1, <1>2 DEF DownInv
  <1>7. KeysInv'
    BY <1>1, <1>2, KeysStay DEF UpInv, Handshake, Bridging
  <1>8. StageInv'
    BY <1>1, <1>2 DEF StageInv, ptyVars, Handshake, Bridging
  <1>9. QED
    BY <1>4, <1>5, <1>6, <1>7, <1>8

\* The channel is closed, by the client or by its loss.
LEMMA EndStep ==
    ASSUME Inv, AwaitFails \/ ReceiveEnd
    PROVE  Inv'
  <1> USE DEF Inv
  <1>1. /\ UNCHANGED <<clientVars, down, socket, outVars, inVars, ptyVars>>
        /\ how' = "cut" /\ up' \subseteq up
        /\ \/ pc = "await" /\ pc' = "ended"
           \/ pc = "recv" /\ pc' = "teardown"
    BY DEF AwaitFails, ReceiveEnd, Receive, End, Finish
  <1>2. UNCHANGED <<client, got, typed, outSeq, outbox, evicted>>
    BY <1>1 DEF clientVars, outVars
  <1>3. BoxInv' /\ DownInv'
    BY <1>1, <1>2 DEF BoxInv, DownInv
  <1>4. UpInv'
    BY <1>1, <1>2, LossKeepsUp
  <1>5. KeysInv'
    BY <1>1, <1>2, KeysStay DEF UpInv, Handshake, Bridging
  <1>6. StageInv'
    BY <1>1, <1>2 DEF StageInv, ptyVars, Handshake, Bridging
  <1>7. QED
    BY <1>3, <1>4, <1>5, <1>6

\* Input before the handshake response has overtaken it.
LEMMA OtherStep ==
    ASSUME Inv, AwaitOther
    PROVE  Inv'
  <1> USE DEF Inv
  <1>1. PICK q \in Inputs \ {0} :
          /\ UNCHANGED <<clientVars, down, socket, outVars, expected, applied, ptyVars, how>>
          /\ up' \subseteq up /\ acked' = acked \cup {q}
          /\ inOrder' = (inOrder /\ 0..q - 1 \subseteq acked)
          /\ pc = "await" /\ pc' = "greet"
    BY DEF AwaitOther, Receive, Settle
  <1>2. UNCHANGED <<client, got, typed, outSeq, outbox, evicted>>
    BY <1>1 DEF clientVars, outVars
  <1>3. q \in Nat /\ q > 0
    BY <1>1, Received
  <1>4. BoxInv' /\ DownInv'
    BY <1>1, <1>2 DEF BoxInv, DownInv
  <1>5. UpInv'
    BY <1>1, <1>2, LossKeepsUp
  <1>6. KeysInv'
    <2>1. 0 \notin acked /\ expected = 0 /\ acked \subseteq Nat
      BY <1>1 DEF KeysInv, Handshake
    <2>2. 0 \in 0..q - 1
      BY <1>3
    <2>3. ~inOrder'
      BY <1>1, <2>1, <2>2
    <2>4. acked' \subseteq Nat /\ 0 \notin acked'
      BY <1>1, <1>3, <2>1
    <2>5. Writing' = Writing
      BY <1>1 DEF Writing
    <2>6. QED
      BY <1>1, <2>1, <2>3, <2>4, <2>5 DEF KeysInv, Handshake, Bridging
  <1>7. StageInv'
    BY <1>1, <1>2 DEF StageInv, ptyVars, Handshake, Bridging
  <1>8. QED
    BY <1>4, <1>5, <1>6, <1>7

\* The handshake response is the first input, and only a client that got the request
\* sends it.
LEMMA ResponseStep ==
    ASSUME Inv, Refuse \/ StartShell \/ ShellFails
    PROVE  Inv'
  <1> USE DEF Inv
  <1>1. /\ UNCHANGED <<clientVars, applied, written, read, socket>>
        /\ pc = "await" /\ acked' = acked \cup {0}
        /\ inOrder' = (inOrder /\ 0..0 - 1 \subseteq acked)
        /\ Input(0) \in up /\ up' \subseteq up
    BY DEF Refuse, StartShell, ShellFails, Response, Settle, Receive, outVars, ptyVars
  <1>2. UNCHANGED <<client, got, typed>> /\ 0 \in got /\ UpInv'
    BY <1>1, Received, LossKeepsUp DEF clientVars
  <1>3. /\ expected = 0 /\ applied = <<>> /\ acked \subseteq Nat /\ Len(<<>>) = 0
        /\ inOrder => acked = {}
    <2>1. expected = 0 /\ applied = <<>> /\ acked \subseteq Nat /\ Len(<<>>) = 0
      BY <1>1, LenProperties, EmptySeq DEF KeysInv, Handshake
    <2>2. 0 \notin acked /\ (inOrder => acked \ {0} \subseteq 1..0 - 1)
      BY <1>1, <2>1 DEF KeysInv, Handshake
    <2>3. 1..0 - 1 = {}
      OBVIOUS
    <2>4. QED
      BY <2>1, <2>2, <2>3
  <1>4. acked' \subseteq Nat /\ (inOrder' => acked' = {0}) /\ how # "unwritten"
    BY <1>1, <1>3 DEF KeysInv, Handshake
  <1>5. CASE Refuse
    <2>1. /\ UNCHANGED <<down, expected, outSeq, outbox, evicted, shell>>
          /\ pc' = "ended" /\ how' = "cut"
      BY <1>5 DEF Refuse, End, outVars, ptyVars
    <2>2. BoxInv' /\ DownInv'
      BY <1>1, <1>2, <2>1 DEF BoxInv, DownInv
    <2>3. KeysInv'
      BY <1>1, <1>3, <1>4, <2>1 DEF KeysInv, Handshake, Bridging
    <2>4. StageInv'
      BY <1>1, <2>1 DEF StageInv, Handshake, Bridging
    <2>5. QED
      BY <1>2, <2>2, <2>3, <2>4
  <1>6. CASE StartShell
    <2>1. SendStream(1) /\ expected' = 1 /\ pc' = "pump" /\ shell' = "forked" /\ how' = how
      BY <1>6 DEF StartShell, ExpectAfter
    <2>2. BoxInv' /\ DownInv'
      <3>1. 1 \in 1..2
        OBVIOUS
      <3>2. QED
        BY <1>1, <1>2, <2>1, <3>1, SendKeepsBox, SendKeepsDown
    <2>3. KeysInv'
      <3>1. ~Writing' /\ 0..1 - 1 = {0} /\ 1..1 - 1 = {}
        BY <1>4, <2>1 DEF Writing
      <3>2. QED
        BY <1>1, <1>3, <1>4, <2>1, <3>1 DEF KeysInv, Handshake, Bridging
    <2>4. StageInv'
      BY <1>1, <1>2, <2>1 DEF StageInv, Handshake, Bridging
    <2>5. QED
      BY <1>2, <2>2, <2>3, <2>4
  <1>7. CASE ShellFails
    <2>1. SendStream(2) /\ UNCHANGED <<expected, shell>> /\ pc' = "ended" /\ how' = "cut"
      BY <1>7 DEF ShellFails, End, ptyVars
    <2>2. BoxInv' /\ DownInv'
      <3>1. 2 \in 1..2
        OBVIOUS
      <3>2. QED
        BY <1>1, <1>2, <2>1, <3>1, SendKeepsBox, SendKeepsDown
    <2>3. KeysInv'
      BY <1>1, <1>3, <1>4, <2>1 DEF KeysInv, Handshake, Bridging
    <2>4. StageInv'
      BY <1>1, <2>1 DEF StageInv, Handshake, Bridging
    <2>5. QED
      BY <1>2, <2>2, <2>3, <2>4
  <1>8. QED
    BY <1>5, <1>6, <1>7

\* Output read from the pty goes to the Outbox and to the wire.
LEMMA OutputStep ==
    ASSUME Inv, ReadOutput
    PROVE  Inv'
  <1> USE DEF Inv
  <1>1. /\ UNCHANGED <<clientVars, up, socket, pc, inVars, shell, written>>
        /\ pc = "drain" /\ read < written /\ read' = read + 1
        /\ SendStream(1) /\ how' \in {how, "unsent"}
    BY DEF ReadOutput
  <1>2. UNCHANGED <<client, got, typed, expected>> /\ 0 \in got
    BY <1>1 DEF clientVars, inVars, StageInv, Bridging
  <1>3. BoxInv' /\ DownInv'
    BY <1>1, <1>2, SendKeepsBox, SendKeepsDown
  <1>4. UpInv'
    BY <1>1, <1>2, LossKeepsUp
  <1>5. KeysInv'
    BY <1>1, <1>2, KeysStay DEF UpInv, Handshake, Bridging
  <1>6. StageInv'
    <2>1. /\ pc = "drain" /\ UNCHANGED <<pc, shell, written, got>>
          /\ how' \in {how, "unsent"} /\ read' = read + 1 /\ read < written
      BY <1>1, <1>2
    <2>2. read' \in 0..written' /\ written' \in Nat
      <3>1. written \in Nat /\ read \in 0..written
        BY DEF StageInv
      <3>2. read < written /\ read' = read + 1 /\ written' = written
        BY <2>1
      <3>3. read + 1 \in 0..written
        BY <3>1, <3>2
      <3>4. QED
        BY <3>1, <3>2, <3>3
    <2>3. how' # "exit"
      BY <2>1 DEF StageInv
    <2>4. QED
      BY <1>2, <2>1, <2>2, <2>3 DEF StageInv, Handshake, Bridging
  <1>7. QED
    BY <1>3, <1>4, <1>5, <1>6

\* An input that follows those before it, or is one of them.
LEMMA NextInput ==
    ASSUME NEW e \in Nat \ {0}, NEW q \in Nat, 0..q - 1 \subseteq 0..e - 1
    PROVE  (0..e - 1) \cup {q} = 0..(IF q = e THEN q ELSE e - 1)
  <1>1. q <= e
    <2> SUFFICES ASSUME q > e PROVE FALSE
      OBVIOUS
    <2>1. e \in 0..q - 1 /\ e \notin 0..e - 1
      OBVIOUS
    <2>2. QED
      BY <2>1
  <1>2. QED
    BY <1>1

\* Input is acknowledged, and goes on to the pty if it is the next in order.
LEMMA InputStep ==
    ASSUME Inv, ReceiveInput
    PROVE  Inv'
  <1> USE DEF Inv
  <1>1. PICK q \in Inputs :
          /\ UNCHANGED <<clientVars, down, socket, outVars, applied, ptyVars, how>>
          /\ up' \subseteq up /\ acked' = acked \cup {q}
          /\ inOrder' = (inOrder /\ 0..q - 1 \subseteq acked)
          /\ pc = "recv"
          /\ IF q = expected THEN expected' = q + 1 /\ pc' = "write"
                             ELSE expected' = expected /\ pc' = "pump"
    BY DEF ReceiveInput, Receive, Settle, Due
  <1>2. UNCHANGED <<client, got, typed, outSeq, outbox, evicted>>
    BY <1>1 DEF clientVars, outVars
  <1>3. q \in Nat /\ q < typed /\ typed \in Nat
    BY Received DEF UpInv
  <1>4. BoxInv' /\ DownInv'
    BY <1>1, <1>2 DEF BoxInv, DownInv
  <1>5. UpInv'
    BY <1>1, <1>2, LossKeepsUp
  <1>6. KeysInv'
    <2>1. /\ expected \in Nat /\ expected > 0 /\ acked \subseteq Nat /\ applied \in Seq(Nat)
          /\ inOrder => acked = 0..expected - 1
          /\ how # "unwritten" /\ expected = Len(applied) + 1 /\ Len(applied) \in Nat
      BY <1>1, LenProperties DEF KeysInv, Bridging, Writing
    <2>2. expected \in Nat \ {0} /\ q \in Nat
      BY <1>3, <2>1
    <2>3. inOrder' => acked' = 0..expected' - 1
      <3> SUFFICES ASSUME inOrder' PROVE acked' = 0..expected' - 1
        OBVIOUS
      <3>1. acked = 0..expected - 1 /\ 0..q - 1 \subseteq acked
        BY <1>1, <2>1
      <3>2. acked' = 0..(IF q = expected THEN q ELSE expected - 1)
        BY <1>1, <2>2, <3>1, NextInput
      <3>3. (IF q = expected THEN q ELSE expected - 1) = expected' - 1
        BY <1>1, <2>2
      <3>4. QED
        BY <3>2, <3>3
    <2>4. acked' \subseteq Nat /\ expected' \in Nat /\ expected' > 0
      BY <1>1, <2>1, <2>2
    <2>5. inOrder' => acked' \ {0} \subseteq 1..expected' - 1
      <3>1. \A n \in Nat : (0..n - 1) \ {0} \subseteq 1..n - 1
        OBVIOUS
      <3>2. QED
        BY <2>3, <2>4, <3>1
    <2>6. CASE q = expected
      <3>1. Writing' /\ expected' = Len(applied') + 2 /\ expected' <= typed'
        BY <1>1, <1>2, <1>3, <2>1, <2>6 DEF Writing
      <3>2. QED
        BY <1>1, <2>1, <2>3, <2>4, <2>5, <2>6, <3>1 DEF KeysInv, Handshake, Bridging
    <2>7. CASE q # expected
      <3>1. ~Writing' /\ expected' = Len(applied') + 1 /\ pc' = "pump" /\ how' = how
        BY <1>1, <2>1, <2>7 DEF Writing
      <3>2. QED
        BY <1>1, <2>1, <2>3, <2>4, <2>5, <3>1 DEF KeysInv, Handshake, Bridging
    <2>8. QED
      BY <2>6, <2>7
  <1>7. StageInv'
    <2>1. pc' \in {"write", "pump"}
      BY <1>1
    <2>2. QED
      BY <1>1, <1>2, <2>1 DEF StageInv, ptyVars, Handshake, Bridging
  <1>8. QED
    BY <1>4, <1>5, <1>6, <1>7

\* The pty takes the input, or refuses it.
LEMMA WriteStep ==
    ASSUME Inv, InputTaken \/ WriteFails
    PROVE  Inv'
  <1> USE DEF Inv
  <1>1. /\ UNCHANGED <<clientVars, netVars, outVars, expected, acked, inOrder, ptyVars>>
        /\ pc = "write"
        /\ \/ pc' = "pump" /\ how' = how /\ applied' = Append(applied, expected - 1)
           \/ pc' = "teardown" /\ how' = "unwritten" /\ applied' = applied
    BY DEF InputTaken, WriteFails, Finish, inVars
  <1>2. UNCHANGED <<got, typed>>
    BY <1>1 DEF clientVars
  <1>3. BoxInv' /\ DownInv' /\ UpInv'
    BY <1>1, QuietKeeps
  <1>4. KeysInv'
    <2>1. /\ expected \in Nat /\ expected = Len(applied) + 2 /\ Len(applied) \in Nat
          /\ applied \in Seq(Nat) /\ how # "unwritten"
      BY <1>1, LenProperties DEF KeysInv, Bridging, Writing
    <2>2. CASE pc' = "pump" /\ how' = how /\ applied' = Append(applied, expected - 1)
      <3>1. /\ applied' \in Seq(Nat) /\ Len(applied') = Len(applied) + 1
            /\ \A i \in 1..Len(applied) : applied'[i] = applied[i]
            /\ applied'[Len(applied) + 1] = Len(applied) + 1
        BY <2>1, <2>2, AppendProperties
      <3>2. \A i \in 1..Len(applied') : applied'[i] = i
        BY <2>1, <3>1 DEF KeysInv
      <3>3. ~Writing' /\ expected' = Len(applied') + 1
        BY <1>1, <2>1, <2>2, <3>1 DEF Writing
      <3>4. QED
        BY <1>1, <2>1, <2>2, <3>1, <3>2, <3>3 DEF KeysInv, Handshake, Bridging
    <2>3. CASE pc' = "teardown" /\ how' = "unwritten" /\ applied' = applied
      <3>1. Writing'
        BY <2>3 DEF Writing
      <3>2. QED
        BY <1>1, <2>1, <2>3, <3>1 DEF KeysInv, Handshake, Bridging
    <2>4. QED
      BY <1>1, <2>2, <2>3
  <1>5. StageInv'
    BY <1>1, <1>2 DEF StageInv, netVars, outVars, ptyVars, Handshake, Bridging
  <1>6. QED
    BY <1>3, <1>4, <1>5

\* The shell is reaped and its exit reported in a last frame.
LEMMA TeardownStep ==
    ASSUME Inv, Teardown
    PROVE  Inv'
  <1> USE DEF Inv
  <1>1. /\ UNCHANGED <<clientVars, inVars, written, read, how>>
        /\ pc \in {"teardown", "wait"} /\ pc' = "ended" /\ shell' = "reaped"
        /\ SendStream(1) /\ socket' = "closed" /\ up' = {}
    BY DEF Teardown
  <1>2. UNCHANGED <<client, got, typed>> /\ 0 \in got
    BY <1>1 DEF clientVars, StageInv
  <1>3. BoxInv' /\ DownInv'
    BY <1>1, <1>2, SendKeepsBox, SendKeepsDown
  <1>4. UpInv'
    BY <1>1, <1>2, LossKeepsUp
  <1>5. KeysInv'
    BY <1>1, <1>2, KeysStay DEF UpInv, Handshake, Bridging
  <1>6. StageInv'
    BY <1>1, <1>2 DEF StageInv, Handshake, Bridging
  <1>7. QED
    BY <1>3, <1>4, <1>5, <1>6

\* Every step keeps the invariant.
LEMMA Steps == Inv /\ [Next]_vars => Inv'
  <1> SUFFICES ASSUME Inv, [Next]_vars
               PROVE  Inv'
    OBVIOUS
  <1>1. CASE Agent
    BY <1>1, QuietStep, OpenStep, ResendStep, AckStep, EndStep, OtherStep, ResponseStep,
       OutputStep, InputStep, WriteStep, TeardownStep DEF Agent
  <1>2. CASE Client \/ Break
    BY <1>2, ClientStep, BreakStep
  <1>3. CASE ShellLeads \/ ShellWrites \/ ShellExits \/ Stop \/ TimePasses \/ Held
    BY <1>3, QuietStep, WriteStep DEF Held
  <1>4. CASE UNCHANGED vars
    <2>1. UNCHANGED <<clientVars, netVars, outVars, inVars, ptyVars, pc, how>>
      BY <1>4 DEF vars
    <2>2. KeysInv'
      BY <2>1, KeysStay DEF Inv, UpInv, clientVars
    <2>3. StageInv'
      BY <2>1 DEF Inv, StageInv, clientVars, netVars, outVars, ptyVars
    <2>4. QED
      BY <2>1, <2>2, <2>3, QuietKeeps DEF Inv
  <1>5. QED
    BY <1>1, <1>2, <1>3, <1>4 DEF Next

\* The invariant holds throughout.
LEMMA Invariant == Spec => []Inv
  BY Starts, Steps, PTL DEF Spec

\* The deadline and the stop are flags.
LEMMA Flags == Spec => []FlagInv
  <1>1. Init => FlagInv
    BY Zenon DEF Init, FlagInv
  <1>2. FlagInv /\ [Next]_vars => FlagInv'
    <2> SUFFICES ASSUME FlagInv, [Next]_vars
                 PROVE  FlagInv'
      OBVIOUS
    <2>1. CASE UNCHANGED vars
      BY <2>1, Zenon DEF vars, FlagInv
    <2>2. CASE Client \/ Break \/ ShellLeads \/ ShellWrites \/ ShellExits \/ Held
      BY <2>2, Zenon DEF Client, Bridge, ClientReceives, ClientTypes, ClientRepeats, ClientLeaves,
                         Break, ShellLeads, ShellWrites, ShellExits, Held, OutputDrained,
                         InputTaken, FlagInv
    <2>3. CASE Stop \/ TimePasses
      BY <2>3, Zenon DEF Stop, TimePasses, FlagInv
    <2>4. CASE StartShell \/ ReceiveAck \/ ReceiveInput
      BY <2>4, Zenon DEF StartShell, ReceiveAck, ReceiveInput, FlagInv
    <2>5. CASE Open \/ OpenFails \/ Greet \/ GiveUpHandshake \/ AwaitAck \/ AwaitOther
                 \/ AwaitFails \/ Refuse \/ ShellFails
      BY <2>5, Zenon DEF Open, OpenFails, Greet, GiveUpHandshake, AwaitAck, AwaitOther, AwaitFails,
                         Refuse, ShellFails, FlagInv
    <2>6. CASE Pump \/ LeaveLoop \/ ReadOutput \/ ShellEnds \/ ReceiveNothing \/ ReceiveEnd
                 \/ WriteFails \/ KillMisses \/ Teardown
      BY <2>6, Zenon DEF Pump, LeaveLoop, ReadOutput, ShellEnds, ReceiveNothing, ReceiveEnd,
                         WriteFails, KillMisses, Teardown, FlagInv
    <2>7. QED
      BY <2>1, <2>2, <2>3, <2>4, <2>5, <2>6 DEF Next, Agent
  <1>3. QED
    BY <1>1, <1>2, PTL DEF Spec

-----------------------------------------------------------------------------
(* The theorems.                                                           *)

\* The Outbox of session.cpp stays sorted and within kMaxBuffered, counts no frame past
\* kMaxResends, and holds nothing that was not sent, however the client acknowledges.
THEOREM TypeCorrect == Spec => []TypeOK
  <1>1. Inv /\ FlagInv => TypeOK
    <2> SUFFICES ASSUME Inv, FlagInv
                 PROVE  TypeOK
      OBVIOUS
    <2>1. DOMAIN outbox = 1..Len(outbox) /\ \A i \in 1..Len(outbox) : outbox[i] \in Entries
      BY LenProperties, ElementOfSeq DEF Inv, BoxInv
    <2>2. Buffered \subseteq 0..outSeq - 1
      BY <2>1 DEF Inv, BoxInv, Buffered, Entries
    <2>3. /\ Len(outbox) <= MaxBuffered
          /\ \A i, j \in DOMAIN outbox : i < j => outbox[i].seq < outbox[j].seq
      BY <2>1 DEF Inv, BoxInv
    <2>4. \A i \in DOMAIN outbox : outbox[i].resends \in 0..MaxResends
      BY <2>1 DEF Entries
    <2>5. got \subseteq 0..outSeq - 1 /\ client \in {"absent", "present", "gone"}
          /\ socket \in {"closed", "open", "broken"}
      BY DEF Inv, DownInv
    <2>6. /\ pc \in {"open", "greet", "await", "pump", "drain", "recv", "write", "teardown",
                     "wait", "ended"}
          /\ shell \in {"none", "forked", "alive", "exited", "reaped"}
          /\ read \in 0..written
      BY DEF Inv, StageInv, Handshake, Bridging
    <2>7. late \in BOOLEAN /\ stop \in BOOLEAN
      BY Zenon DEF FlagInv
    <2>8. QED
      BY <2>2, <2>3, <2>4, <2>5, <2>6, <2>7, Zenon DEF TypeOK
  <1>2. QED
    BY <1>1, Invariant, Flags, PTL

\* Whatever the client repeats and the gateway reorders or loses, run_session types each
\* keystroke once and in order.
THEOREM TypedOnce == Spec => []KeysOnce
  <1>1. Inv => KeysOnce
    BY LenProperties DEF Inv, KeysInv, KeysOnce
  <1>2. QED
    BY <1>1, Invariant, PTL

\* As long as no input has overtaken another, what run_session acknowledges has been written to
\* the pty, or is being written: the two loops of the session share one sequence.
THEOREM AckedIsTyped == Spec => []AckedInputIsApplied
  <1>1. Inv => AckedInputIsApplied
    <2> SUFFICES ASSUME Inv, inOrder
                 PROVE  acked \ {0} \subseteq 1..Len(applied) + (IF Writing THEN 1 ELSE 0)
      BY DEF AckedInputIsApplied, Writing
    <2>1. /\ acked \ {0} \subseteq 1..expected - 1 /\ expected \in Nat /\ Len(applied) \in Nat
          /\ expected > 0 /\ Writing => expected = Len(applied) + 2
          /\ expected > 0 /\ ~Writing => expected = Len(applied) + 1
      BY LenProperties DEF Inv, KeysInv
    <2>2. 1..expected - 1 \subseteq 1..Len(applied) + (IF Writing THEN 1 ELSE 0)
      BY <2>1
    <2>3. QED
      BY <2>1, <2>2
  <1>2. QED
    BY <1>1, Invariant, PTL

\* The Outbox keeps every frame until the client has it, or its capacity is used up: an
\* acknowledgement of a later frame can only come from a client that has the earlier ones.
THEOREM Remembered == Spec => []NothingForgotten
  <1>1. Inv => NothingForgotten
    BY LenProperties DEF Inv, BoxInv, NothingForgotten, Buffered
  <1>2. QED
    BY <1>1, Invariant, PTL

\* run_session notices the exit of the shell only after it has read all of its output.
THEOREM HeardOut == Spec => []OutputBeforeExit
  <1>1. Inv => OutputBeforeExit
    BY DEF Inv, StageInv, OutputBeforeExit
  <1>2. QED
    BY <1>1, Invariant, PTL

-----------------------------------------------------------------------------
(* A session is a ShellSession.  Most steps change nothing that client or  *)
(* shell can see, or only end the session; each of the others is one step  *)
(* of ShellSession.                                                        *)

\* When there is a shell, and what the reason for the end says of it.
PtyInv ==
    /\ pc \in Handshake => shell = "none"
    /\ pc \in Bridging \cup {"teardown", "wait"} => shell \in {"forked", "alive", "exited"}
    /\ pc = "ended" => shell \in {"none", "reaped"}
    /\ how = "exit" => shell # "none"

\* What client and shell can see.
ShellSeen == IF shell = "forked" THEN "alive" ELSE shell
Seen == <<outSeq, got, typed, applied, ShellSeen, written, read>>
Outcome == IF pc # "ended" THEN "none" ELSE IF how = "exit" THEN "exit" ELSE "cut"

\* The steps client and shell do not see.
Hidden ==
    \/ Bridge \/ ClientRepeats \/ ClientLeaves \/ Break \/ Stop \/ TimePasses
    \/ ShellLeads
    \/ Greet \/ Pump \/ AwaitAck \/ AwaitOther \/ ReceiveNothing \/ ReceiveAck \/ ReceiveInput
    \/ LeaveLoop \/ OutputDrained \/ ShellEnds \/ ReceiveEnd \/ WriteFails \/ KillMisses

\* Before the first step there is no shell.
LEMMA PtyStarts == Init => PtyInv
  BY DEF Init, PtyInv, Handshake, Bridging

\* A hidden step leaves the session where it is: before a shell, with one, or ended.
LEMMA HiddenStep ==
    ASSUME Inv, Hidden
    PROVE  /\ UNCHANGED Seen /\ UNCHANGED Outcome
           /\ PtyInv => PtyInv'
  <1> USE DEF Inv, StageInv, PtyInv, Handshake, Bridging
  <1>1. CASE Bridge \/ ClientRepeats \/ ClientLeaves \/ Break \/ Stop \/ TimePasses
    <2>1. UNCHANGED <<Seen, pc, how, shell>>
      BY <1>1 DEF Bridge, ClientRepeats, ClientLeaves, Break, Stop, TimePasses, Seen, ShellSeen,
                  netVars, clientVars, outVars, inVars, ptyVars
    <2>2. QED
      BY <2>1 DEF Seen, Outcome
  <1>2. CASE ShellLeads
    <2>1. UNCHANGED <<Seen, pc, how>> /\ shell = "forked" /\ shell' = "alive"
      BY <1>2 DEF ShellLeads, Seen, ShellSeen, clientVars, outVars, inVars
    <2>2. QED
      BY <2>1 DEF Seen, Outcome
  <1>3. CASE Greet \/ Pump \/ AwaitAck \/ AwaitOther \/ ReceiveNothing \/ ReceiveAck \/ ReceiveInput
    <2>1. /\ UNCHANGED <<Seen, how, shell>>
          /\ \/ pc \in {"greet", "await"} /\ pc' \in {"greet", "await"}
             \/ pc \in {"pump", "recv"} /\ pc' \in {"drain", "pump", "write"}
      BY <1>3 DEF Greet, Pump, AwaitAck, AwaitOther, ReceiveNothing, ReceiveAck, ReceiveInput,
                  Seen, ShellSeen, clientVars, outVars, inVars, ptyVars
    <2>2. QED
      BY <2>1 DEF Seen, Outcome
  <1>4. CASE LeaveLoop \/ OutputDrained \/ ShellEnds \/ ReceiveEnd \/ WriteFails \/ KillMisses
    <2>1. /\ UNCHANGED <<Seen, shell>>
          /\ \/ pc \in Bridging /\ pc' \in {"recv", "teardown"}
             \/ pc = "teardown" /\ pc' = "wait"
      BY <1>4 DEF LeaveLoop, OutputDrained, ShellEnds, ReceiveEnd, WriteFails, KillMisses, Finish,
                  Seen, ShellSeen, clientVars, outVars, inVars, ptyVars
    <2>2. QED
      BY <2>1 DEF Seen, Outcome
  <1>5. QED
    BY <1>1, <1>2, <1>3, <1>4 DEF Hidden

\* The client receives or types.
LEMMA ClientSees ==
    ASSUME Inv, PtyInv, ClientReceives \/ ClientTypes
    PROVE  PtyInv' /\ (Session!See \/ Session!Type \/ (UNCHANGED Seen /\ UNCHANGED Outcome))
  <1> USE DEF Inv
  <1>1. UNCHANGED <<outSeq, applied, shell, written, read, pc, how>> /\ pc # "ended"
    BY DEF ClientReceives, ClientTypes, Underway, outVars, inVars, ptyVars
  <1>2. PtyInv'
    BY <1>1 DEF PtyInv
  <1>3. CASE ClientReceives
    <2> DEFINE q == Head(down)
    <2>1. down # <<>> /\ got' = got \cup {q} /\ typed' = IF q = 0 /\ q \notin got THEN 1 ELSE typed
      BY <1>3 DEF ClientReceives
    <2>2. Len(down) \in Nat /\ Len(down) > 0 /\ q = down[1] /\ down[1] \in Nat
      BY <2>1, EmptySeq, LenProperties, ElementOfSeq DEF DownInv
    <2>3. q \in 0..outSeq - 1 /\ 0..q - 1 \subseteq got
      <3>1. down[1] < outSeq /\ \A p \in 0..down[1] - 1 : p \in got \/ \E j \in 1..1 - 1 : down[j] = p
        BY <2>2 DEF DownInv
      <3>2. QED
        BY <2>2, <3>1 DEF BoxInv
    <2> HIDE DEF q
    <2>4. CASE q \in got
      BY <1>1, <1>2, <2>1, <2>4 DEF Seen, ShellSeen, Outcome
    <2>5. CASE q \notin got
      <3>1. got' = got \cup {q} /\ typed' = IF q = 0 THEN 1 ELSE typed
        BY <2>1, <2>5
      <3>2. Session!See
        BY <1>1, <2>3, <2>5, <3>1 DEF Session!See, Session!Lasts
      <3>3. QED
        BY <1>2, <3>2
    <2>6. QED
      BY <2>4, <2>5
  <1>4. CASE ClientTypes
    <2>1. typed \in 1..MaxKeys /\ typed' = typed + 1 /\ UNCHANGED got
      BY <1>4 DEF ClientTypes
    <2>2. Session!Type
      BY <1>1, <2>1, BoundsAssumption DEF Session!Type, Session!Lasts
    <2>3. QED
      BY <1>2, <2>2
  <1>5. QED
    BY <1>3, <1>4

\* The handshake ends, with a shell or without.
LEMMA HandshakeIsSeen ==
    ASSUME Inv, PtyInv,
           Open \/ OpenFails \/ GiveUpHandshake \/ AwaitFails \/ Refuse \/ StartShell \/ ShellFails
    PROVE  PtyInv' /\ (Session!Greet \/ Session!Start \/ Session!Abandon)
  <1> USE DEF Inv
  <1> USE DEF Handshake, Bridging
  <1>1. UNCHANGED <<got, typed, applied, written, read>> /\ pc \in Handshake
    BY DEF Open, OpenFails, GiveUpHandshake, AwaitFails, Refuse, StartShell, ShellFails, Response,
           clientVars, inVars, ptyVars
  <1>2. shell = "none" /\ how # "exit"
    BY <1>1 DEF PtyInv
  <1>3. CASE Open
    <2>1. outSeq = 0 /\ outSeq' = 1 /\ UNCHANGED <<shell, how>> /\ pc' = "greet"
      BY <1>3 DEF Open, StageInv, inVars, ptyVars
    <2>2. Session!Greet
      BY <1>1, <2>1 DEF Session!Greet, Session!Lasts
    <2>3. QED
      BY <1>2, <2>1, <2>2 DEF PtyInv
  <1>4. CASE OpenFails \/ GiveUpHandshake \/ AwaitFails
    <2>1. UNCHANGED <<outSeq, shell>> /\ pc' = "ended" /\ how' # "exit"
      BY <1>4 DEF OpenFails, GiveUpHandshake, AwaitFails, End, outVars, inVars, ptyVars
    <2>2. Session!Abandon
      BY <1>1, <1>2, <2>1 DEF Session!Abandon, Session!Lasts
    <2>3. QED
      BY <1>2, <2>1, <2>2 DEF PtyInv
  <1>5. CASE Refuse \/ StartShell \/ ShellFails
    <2>1. pc = "await" /\ Input(0) \in up
      BY <1>5 DEF Refuse, StartShell, ShellFails, Response, Receive
    <2>2. typed > 0 /\ outSeq = 1
      BY <2>1, Received DEF StageInv, UpInv
    <2>3. CASE Refuse \/ ShellFails
      <3>1. pc' = "ended" /\ how' # "exit" /\ UNCHANGED shell /\ outSeq' \in {outSeq, outSeq + 2}
        BY <2>3 DEF Refuse, ShellFails, End, SendStream, outVars, ptyVars
      <3>2. Session!Abandon
        BY <1>1, <1>2, <2>1, <2>2, <3>1 DEF Session!Abandon, Session!Lasts
      <3>3. QED
        BY <1>2, <3>1, <3>2 DEF PtyInv
    <2>4. CASE StartShell
      <3>1. pc' = "pump" /\ shell' = "forked" /\ UNCHANGED how /\ outSeq' = 2
        BY <2>2, <2>4 DEF StartShell, SendStream
      <3>2. Session!Start
        BY <1>1, <1>2, <2>1, <2>2, <3>1 DEF Session!Start, Session!Lasts
      <3>3. QED
        BY <1>2, <3>1, <3>2 DEF PtyInv
    <2>5. QED
      BY <1>5, <2>3, <2>4
  <1>6. QED
    BY <1>3, <1>4, <1>5

\* The input that the pty takes is the next, and was sent.
LEMMA InputIsSeen ==
    ASSUME Inv, PtyInv, InputTaken
    PROVE  PtyInv' /\ Session!Apply
  <1> USE DEF Inv, Handshake, Bridging
  <1>1. /\ UNCHANGED <<got, typed, outSeq, shell, written, read, how>>
        /\ pc = "write" /\ pc' = "pump" /\ applied' = Append(applied, expected - 1)
    BY DEF InputTaken, clientVars, outVars, ptyVars
  <1>2. /\ expected = Len(applied) + 2 /\ Len(applied) \in Nat
        /\ expected <= typed /\ typed \in Nat
    BY <1>1, LenProperties DEF KeysInv, UpInv, Writing
  <1>3. PtyInv' /\ shell \in {"forked", "alive", "exited"}
    BY <1>1 DEF PtyInv
  <1>4. Len(applied) + 1 < typed /\ expected - 1 = Len(applied) + 1
    BY <1>2
  <1>5. Session!Apply
    BY <1>1, <1>3, <1>4 DEF Session!Apply, Session!Bridged, Session!Lasts
  <1>6. QED
    BY <1>3, <1>5

\* The shell writes, is read, exits and is reaped.
LEMMA ShellIsSeen ==
    ASSUME Inv, PtyInv, ShellWrites \/ ShellExits \/ ReadOutput \/ Teardown
    PROVE  PtyInv' /\ (Session!Write \/ Session!Exit \/ Session!Show \/ Session!Close)
  <1> USE DEF Inv, Handshake, Bridging
  <1>1. UNCHANGED <<got, typed, applied>>
    BY DEF ShellWrites, ShellExits, ReadOutput, Teardown, clientVars, inVars
  <1>2. CASE ShellWrites
    <2>1. shell = "alive" /\ written' = written + 1 /\ UNCHANGED <<outSeq, shell, read, pc, how>>
      BY <1>2 DEF ShellWrites, outVars
    <2>2. Session!Write
      BY <1>1, <2>1 DEF Session!Write
    <2>3. QED
      BY <2>1, <2>2 DEF PtyInv
  <1>3. CASE ShellExits
    <2>1. /\ shell \in {"forked", "alive"} /\ shell' = "exited"
          /\ UNCHANGED <<outSeq, written, read, pc, how>>
      BY <1>3 DEF ShellExits, outVars
    <2>2. Session!Exit
      BY <1>1, <2>1 DEF Session!Exit
    <2>3. QED
      BY <2>1, <2>2 DEF PtyInv
  <1>4. CASE ReadOutput
    <2>1. /\ pc = "drain" /\ read < written /\ read' = read + 1 /\ outSeq' = outSeq + 1
          /\ UNCHANGED <<shell, written, pc>> /\ how' \in {how, "unsent"}
      BY <1>4 DEF ReadOutput, SendStream
    <2>2. shell \in {"forked", "alive", "exited"}
      BY <2>1 DEF PtyInv
    <2>3. Session!Show
      BY <1>1, <2>1, <2>2 DEF Session!Show, Session!Bridged, Session!Lasts
    <2>4. QED
      BY <2>1, <2>2, <2>3 DEF PtyInv
  <1>5. CASE Teardown
    <2>1. /\ pc \in {"teardown", "wait"} /\ pc' = "ended" /\ shell' = "reaped"
          /\ outSeq' = outSeq + 1 /\ UNCHANGED <<written, read, how>>
      BY <1>5 DEF Teardown, SendStream
    <2>2. /\ shell \in {"forked", "alive", "exited"}
          /\ how = "exit" => shell = "exited" /\ read = written
      BY <2>1 DEF PtyInv, StageInv
    <2>3. Session!Close
      BY <1>1, <2>1, <2>2 DEF Session!Close, Session!Bridged, Session!Lasts
    <2>4. QED
      BY <2>1, <2>3 DEF PtyInv
  <1>6. QED
    BY <1>2, <1>3, <1>4, <1>5

\* Every step is a step of ShellSession, or hidden.
LEMMA SessionSteps ==
    Inv /\ PtyInv /\ [Next]_vars => PtyInv' /\ [Session!Next]_(Session!vars)
  <1> SUFFICES ASSUME Inv, PtyInv, [Next]_vars
               PROVE  PtyInv' /\ [Session!Next]_(Session!vars)
    OBVIOUS
  <1>1. UNCHANGED Seen /\ UNCHANGED Outcome => UNCHANGED Session!vars
    BY DEF Seen, ShellSeen, Outcome, Session!vars
  <1>2. CASE Hidden
    BY <1>1, <1>2, HiddenStep
  <1>3. CASE ClientReceives \/ ClientTypes
    BY <1>1, <1>3, ClientSees DEF Session!Next
  <1>4. CASE Open \/ OpenFails \/ GiveUpHandshake \/ AwaitFails \/ Refuse \/ StartShell
               \/ ShellFails
    BY <1>4, HandshakeIsSeen DEF Session!Next
  <1>5. CASE InputTaken
    BY <1>5, InputIsSeen DEF Session!Next
  <1>6. CASE ShellWrites \/ ShellExits \/ ReadOutput \/ Teardown
    BY <1>6, ShellIsSeen DEF Session!Next
  <1>7. CASE UNCHANGED vars
    <2>1. UNCHANGED <<Seen, pc, how, shell>>
      BY <1>7 DEF vars, Seen, ShellSeen, clientVars, outVars, inVars, ptyVars
    <2>2. PtyInv' /\ UNCHANGED Outcome
      BY <2>1 DEF PtyInv, Outcome, Seen
    <2>3. QED
      BY <1>1, <2>1, <2>2
  <1>8. QED
    BY <1>2, <1>3, <1>4, <1>5, <1>6, <1>7 DEF Next, Agent, Held, Client, Hidden

\* run_session and its Outbox give client and shell the two streams of ShellSession: every frame
\* once and in order, every keystroke once and in order, whatever the network drops or repeats.
THEOREM SessionIsTwoStreams == Spec => ImplementsSession
  <1>1. Init => Session!Init
    BY DEF Init, Session!Init
  <1>2. QED
    BY <1>1, Starts, Steps, PtyStarts, SessionSteps, PTL DEF Spec, ImplementsSession, Session!Spec
=============================================================================
