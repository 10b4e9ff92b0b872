------------------------------ MODULE AwsCalls ------------------------------
(***************************************************************************)
(* The calls of the agent to AWS and what they rest on: the system clock   *)
(* kept by ensure_clock (src/timesync.cpp), the IMDSv2 token and the role  *)
(* credentials cached by Imds and CredentialProvider (src/aws.cpp), and    *)
(* the threads that share them: the poll loop, the health thread (both in  *)
(* src/main.cpp) and a transfer (src/s3.cpp) of a worker or the updater.   *)
(*                                                                         *)
(* IMDS, the services and the passage of time are external.  Times are in  *)
(* units.  The clock of the agent runs `skew` units ahead of theirs, may   *)
(* be slow or fast by a unit at every tick, and is far off at boot.  A     *)
(* time of their clock is kept as the time left until then.                *)
(*                                                                         *)
(* Left out: --no-time-sync, and a process that may not set the clock.     *)
(***************************************************************************)
EXTENDS Integers, HttpResponse

CONSTANTS
    MaxDrift,       \* kMaxClockDriftSeconds
    TokenLife,      \* the lifetime asked for an IMDS token
    TokenMargin,    \* a token is renewed that much before its end
    CredMargin,     \* the margin of Credentials::stale
    CredLife,       \* the lifetime of new credentials
    RotateLead,     \* IMDS has new credentials that much before the end of the old
    Interval,       \* kHealthIntervalSeconds
    MaxCall,        \* bound on the ticks during a call
    Behind,         \* a clock at boot is that much behind
    Ahead,          \* or ahead
    Tolerance       \* the skew a signature and a certificate bear

ASSUME TimesAssumption ==
    /\ {MaxDrift, TokenLife, TokenMargin, CredMargin, RotateLead, Interval} \subseteq Nat \ {0}
    /\ {MaxCall, Behind, Ahead, Tolerance} \subseteq Nat
    /\ CredLife \in Nat /\ CredLife >= RotateLead

\* The clock at boot is as far off as it gets.
ASSUME BootAssumption == Tolerance <= Behind /\ Tolerance <= Ahead

\* How far the clock may be off while ensure_clock leaves it alone.
MaxSkew == MaxDrift - 1

\* The margin of the credentials covers a clock that is behind.  Should an IMDS token be over
\* and look fresh, since the clock was ahead when it was cached, then the margin, or what is
\* left to new credentials, covers the time until the agent renews it as well.
ASSUME MarginsAssumption ==
    /\ CredMargin >= MaxSkew
    /\ CredMargin + TokenMargin >= MaxCall + 3 * MaxSkew
    /\ RotateLead + TokenMargin > MaxCall + 2 * MaxSkew

Callers == {"poll", "health", "transfer"}

VARIABLES
    net,        \* every request is answered, and in full
    skew,       \* the clock of the agent minus that of IMDS and the services
    offer,      \* the time left to the credentials IMDS hands out
    token,      \* Imds::token_: its age, and the skew when it was cached
    cached,     \* CredentialProvider::cached_: the time left to it
    dated,      \* and whether its end is known: IMDS may leave it out
    pc,         \* the threads
    verdict,    \* what the service makes of the signature of the call that is under way
    lasts,      \* the ticks since it was sent
    pause,      \* the poll loop sleeps before the next round
    wait,       \* the health thread: `next`, from now on its clock
    intact,     \* history: every response was what was sent
    trouble     \* history: a request may have failed, the clock was off by MaxDrift, or an end left out

clockVars == <<net, skew, trouble>>
credVars  == <<offer, token, cached, dated>>
callVars  == <<pc, verdict, lasts>>
vars == <<clockVars, credVars, callVars, pause, wait, intact>>

Greater(a, b) == IF a > b THEN a ELSE b
Smaller(a, b) == IF a < b THEN a ELSE b

\* Long past on any clock: what a cache without credentials amounts to.
Past == -Behind
\* So old that it is renewed on any clock.
OldToken == [age |-> TokenLife + Ahead + Behind, at |-> 0]

Init ==
    /\ net \in BOOLEAN /\ skew \in {-Behind, Ahead} /\ trouble = ~net
    /\ offer = CredLife /\ token = OldToken /\ cached = Past /\ dated = TRUE
    /\ pc = [t \in Callers |-> IF t = "poll" THEN "boot" ELSE "off"]
    /\ verdict = [t \in Callers |-> "none"] /\ lasts = [t \in Callers |-> 0]
    /\ pause = FALSE /\ wait = 0 /\ intact = TRUE

InBand == -MaxDrift < skew /\ skew < MaxDrift
Running == pc["poll"] \notin {"boot", "identify"}
Calling == {t \in Callers : pc[t] \in {"call", "recall"}}

-----------------------------------------------------------------------------
(* Time and the network.                                                   *)

\* A unit of time, during which the clock of the agent advances by `d`: a drift too small to
\* take it, between two looks at it, out of what the services bear.  No call lasts longer
\* than MaxCall, and the threads that need not wait have gone on: the poll loop goes round, the
\* health thread is not due, and no transfer is about to repeat its request.
Tick(d) ==
    /\ \A t \in Calling : lasts[t] < MaxCall
    /\ Running => "poll" \in Calling \/ pause
    /\ pc["health"] = "off" \/ (pc["health"] = "wait" /\ wait > 0)
    /\ pc["transfer"] # "retry"
    /\ skew' = skew + d - 1 /\ (d # 1 => skew' \in -Tolerance..Tolerance)
    /\ offer' \in {CredLife} \cup {n \in {offer - 1} : n >= RotateLead}
    /\ token' = [token EXCEPT !.age = Smaller(@ + 1, OldToken.age)]
    /\ cached' = Greater(cached - 1, Past)
    /\ lasts' = [t \in Callers |-> IF t \in Calling THEN lasts[t] + 1 ELSE 0]
    /\ wait' = Greater(wait - d, 0)
    /\ pause' = FALSE
    /\ trouble' = (trouble \/ (Running /\ ~InBand'))
    /\ UNCHANGED <<net, dated, pc, verdict, intact>>

\* An outage begins or ends; during one any request may fail or break off.
NetChanges ==
    /\ net' = ~net /\ trouble' = TRUE
    /\ UNCHANGED <<skew, credVars, callVars, pause, wait, intact>>

Answered == IF net THEN {TRUE} ELSE BOOLEAN

-----------------------------------------------------------------------------
(* timesync::ensure_clock.                                                 *)

\* Mutant: only a clock that is ahead is set.
SetBack == IF skew >= MaxDrift THEN skew' = 0 ELSE UNCHANGED skew

\* The clock is set if IMDS answers and it is off by MaxDrift or more.
SetClock == IF InBand THEN UNCHANGED skew ELSE skew' = 0

\* The times kept on the clock of the agent come nearer as it is set forward.
EnsureClock ==
    /\ \E heard \in Answered : IF heard THEN SetClock ELSE UNCHANGED skew
    /\ wait' = Greater(wait - (skew' - skew), 0)

-----------------------------------------------------------------------------
(* Imds and CredentialProvider.                                            *)

\* Imds::token: the cached token has more than the margin left on the clock of the agent.
TokenFresh == token.age + skew - token.at + TokenMargin < TokenLife

\* Imds::get with a cached or a new token.  IMDS refuses a token that is over, and a token that
\* was refused stays cached.
Query(succeeds) ==
    \E issued, heard \in Answered :
        /\ token' = IF ~TokenFresh /\ issued THEN [age |-> 0, at |-> skew] ELSE token
        /\ succeeds = ((TokenFresh \/ issued) /\ heard /\ token'.age < TokenLife)

\* Mutant: credentials are used until the clock of the agent says they are over.
StaleAtEnd(margin) == dated /\ cached - skew <= 0

\* Credentials::stale, on the clock of the agent.  Those without an end never are; an empty
\* cache is one whose end is long past.
Stale(margin) == dated /\ cached - skew <= margin

\* The service takes a signature that is in time and made with credentials that are not over.
InTime == -Tolerance <= skew /\ skew <= Tolerance
Verdicts(left) ==
    IF InTime /\ left > 0 THEN {"good"}
    ELSE {v \in {"over", "off"} : (v = "over" => left <= 0) /\ (v = "off" => ~InTime)}
Sign(t, left) == \E v \in Verdicts(left) : verdict' = [verdict EXCEPT ![t] = v]

Fetch(t) ==
    /\ Stale(CredMargin) /\ Query(TRUE)
    /\ cached' = offer /\ Sign(t, offer)
    /\ dated' \in BOOLEAN /\ trouble' = (trouble \/ ~dated')

\* A cache that is good, or one near its end when the fetch fails.
ServeCached(t) ==
    /\ \/ ~Stale(CredMargin) /\ UNCHANGED token
       \/ Stale(CredMargin) /\ Query(FALSE) /\ ~Stale(0)
    /\ UNCHANGED <<cached, dated, trouble>> /\ Sign(t, cached)

Refuse(t) ==
    /\ Stale(0) /\ Stale(CredMargin) /\ Query(FALSE)
    /\ UNCHANGED <<cached, dated, verdict>>

-----------------------------------------------------------------------------
(* The threads.                                                            *)

\* The place where a thread asks for credentials, and where it goes when it is done.
Asks(t) ==
    CASE t = "poll"     -> pc[t] = "wait" /\ ~pause
      [] t = "health"   -> pc[t] = "ping"
      [] t = "transfer" -> pc[t] \in {"wait", "retry"}

Done(t) ==
    /\ pc' = [pc EXCEPT ![t] = "wait"]
    /\ wait' = IF t = "health" THEN Interval ELSE wait

\* CredentialProvider::get, under its mutex, and the signed request.
Call(t) ==
    /\ Running /\ Asks(t)
    /\ Fetch(t) \/ ServeCached(t)
    /\ pc' = [pc EXCEPT ![t] = IF @ = "retry" THEN "recall" ELSE "call"]
    /\ lasts' = [lasts EXCEPT ![t] = 0]
    /\ UNCHANGED <<net, skew, offer, pause, wait, intact>>

\* "no credentials": the call is not made.
NoCall(t) ==
    /\ Running /\ Asks(t)
    /\ Refuse(t) /\ Done(t)
    /\ pause' = (pause \/ t = "poll")
    /\ UNCHANGED <<clockVars, offer, lasts, intact>>

\* What a caller can tell of the response perform makes of what arrives, and whether it is what
\* was sent.
Outcome(status, a, sink) ==
    LET r == Perform(status, a, sink)
    IN  [status |-> r.status, full |-> r.body = Whole, genuine |-> Genuine(status, a, sink)]

\* The outcomes for what may arrive, or does without an outage; the sink is that of a download.
Outcomes ==
    [status \in {200, 403} |-> [whole \in BOOLEAN |-> [stored \in BOOLEAN |->
        {Outcome(status, a, sink) : a \in IF whole THEN WholeArrivals ELSE PossibleArrivals,
                                    sink \in IF stored THEN Sinks ELSE {"sound"}}]]]

\* A certificate that is not valid yet or any more stops the handshake.
Responses(t) ==
    Outcomes[IF verdict[t] = "good" THEN 200 ELSE 403][net /\ verdict[t] # "off"][t = "transfer"]

\* check_auth_failure and expired_token: the status and the code in the body, of which S3 sends
\* none they look for when the clock is off.
NamesCode(t, r) ==
    /\ r.status = 403 /\ r.full
    /\ t = "transfer" => verdict[t] = "over"

\* Mutant: the rejection is only logged.
InvalidateNothing(t, r) == UNCHANGED <<cached, dated>>

Invalidate(t, r) ==
    IF NamesCode(t, r) THEN cached' = Past /\ dated' = TRUE ELSE UNCHANGED <<cached, dated>>

\* A transfer repeats, once, a request that was rejected for its credentials.  The poll loop
\* sleeps when the call was short on its clock, which may have been set meanwhile.
Return(t) ==
    /\ t \in Calling
    /\ \E r \in Responses(t) :
        /\ intact' = (intact /\ r.genuine)
        /\ IF t = "transfer" /\ NamesCode(t, r) /\ pc[t] = "call"
           THEN pc' = [pc EXCEPT ![t] = "retry"] /\ UNCHANGED wait
           ELSE Done(t)
        /\ IF pc[t] = "recall" THEN UNCHANGED <<cached, dated>> ELSE Invalidate(t, r)
    /\ verdict' = [verdict EXCEPT ![t] = "none"] /\ lasts' = [lasts EXCEPT ![t] = 0]
    /\ pause' \in IF t = "poll" THEN BOOLEAN ELSE {pause}
    /\ UNCHANGED <<clockVars, offer, token>>

\* main, before the threads start: the clock, then the identity, again and again.
BootClock ==
    /\ pc["poll"] = "boot"
    /\ EnsureClock
    /\ pc' = [pc EXCEPT !["poll"] = "identify"]
    /\ UNCHANGED <<net, trouble, credVars, verdict, lasts, pause, intact>>

Identify ==
    /\ pc["poll"] = "identify"
    /\ \/ /\ Query(TRUE)
          /\ pc' = [t \in Callers |-> "wait"] /\ wait' = Interval
          /\ trouble' = (trouble \/ ~InBand)
       \/ /\ Query(FALSE)
          /\ pc' = [pc EXCEPT !["poll"] = "boot"] /\ UNCHANGED <<wait, trouble>>
    /\ UNCHANGED <<net, skew, offer, cached, dated, verdict, lasts, pause, intact>>

\* Mutant: the clock is looked at when the agent starts, and never again.
HealthSkips ==
    /\ pc["health"] = "wait" /\ wait = 0
    /\ pc' = [pc EXCEPT !["health"] = "ping"]
    /\ UNCHANGED <<clockVars, wait, credVars, verdict, lasts, pause, intact>>

\* The health thread finds that `next` has come.
HealthClock ==
    /\ pc["health"] = "wait" /\ wait = 0
    /\ EnsureClock
    /\ pc' = [pc EXCEPT !["health"] = "ping"]
    /\ UNCHANGED <<net, trouble, credVars, verdict, lasts, pause, intact>>

\* The session thread, before it opens a control channel.
SessionClock ==
    /\ Running
    /\ EnsureClock
    /\ UNCHANGED <<net, trouble, credVars, callVars, pause, intact>>

-----------------------------------------------------------------------------
Thread(t) == Call(t) \/ NoCall(t) \/ Return(t)
Boot == BootClock \/ Identify

Next ==
    \/ \E d \in 0..2 : Tick(d)
    \/ NetChanges
    \/ Boot
    \/ HealthClock \/ SessionClock
    \/ \E t \in Callers : Thread(t)

Spec == Init /\ [][Next]_vars

\* Time passes, also on the clock of the agent, and the threads are scheduled.  A transfer
\* need not begin, the session thread need not connect.
FairSpec ==
    /\ Spec
    /\ SF_vars(\E d \in 1..2 : Tick(d)) /\ WF_vars(Boot) /\ WF_vars(HealthClock)
    /\ WF_vars(Thread("poll")) /\ WF_vars(Thread("health"))
    /\ WF_vars(pc["transfer"] # "wait" /\ Thread("transfer"))

-----------------------------------------------------------------------------
(* Properties.                                                             *)

\* aws.h, "Refresh early: a signature rejected mid-poll costs a whole cycle": as long as every
\* request is answered, the clock stays within the drift ensure_clock tolerates, and IMDS says
\* when its credentials end, no call is ever made with credentials that are over, not even with
\* an IMDS token that is.
NeverExpired == \A t \in Callers : ~trouble => verdict[t] # "over"

\* s3.cpp, "refreshing and retrying": whatever the other threads put in the cache and whatever
\* the clock says, a repeated transfer is not signed with credentials that are over.
RetryIsFresh == pc["transfer"] = "recall" => verdict["transfer"] # "over"

\* http.h, ok(): wherever the message is cut and however it falls into reads, the loops of
\* read_body take a delimited body for the response only when all of it is there, and each
\* piece once; one that arrived whole is not refused.
OkIsWhole == intact

\* main.cpp, "re-fetches from IMDS instead of failing identically forever": when the network
\* is back for good, whatever clock, token and credentials the outage has left, polls succeed.
Recovers == <>[]net => []<>(verdict["poll"] = "good")

\* main.cpp, "Re-check the clock every cycle": when the network is back for good, the clock is
\* brought back every time it drifts off, though the thread that does it waits on that clock.
ClockIsKept == <>[]net => []<>InBand
=============================================================================
