------------------------------ MODULE AwsProofs ------------------------------
(***************************************************************************)
(* Proofs about AwsCalls, for all lifetimes, margins and intervals.        *)
(*                                                                         *)
(* A transfer that repeats its request signs with what is in the cache,    *)
(* which other threads may have filled or emptied since it was rejected.   *)
(* What makes the repeat safe is that a rejection empties the cache for    *)
(* every clock, and that no time passes before the repeat (RetryInv).      *)
(*                                                                         *)
(* That no call at all is signed with credentials that are over needs the  *)
(* margins to be large enough (MarginsAssumption), and an account of how   *)
(* long the cache may go without being looked at (CacheInv).               *)
(***************************************************************************)
EXTENDS AwsCalls, TLAPS

Stages == {"boot", "identify", "off", "wait", "ping", "call", "retry", "recall"}

\* IMDS always offers credentials that last, and no clock is further behind than at boot.
TimesInv ==
    /\ skew \in Int /\ -Behind <= skew
    /\ offer \in Nat /\ offer >= RotateLead
    /\ cached \in Int /\ dated \in BOOLEAN
    /\ pc \in [Callers -> Stages]
    /\ verdict \in [Callers -> {"none", "good", "over", "off"}]

\* Before it repeats its request a transfer finds an empty cache or new credentials.
RetryInv ==
    /\ pc["transfer"] = "retry" => (cached = Past /\ dated) \/ cached = offer
    /\ pc["transfer"] = "recall" => verdict["transfer"] # "over"

Inv == TimesInv /\ RetryInv

-----------------------------------------------------------------------------
(* The initial states and the shared steps.                                *)

\* At boot the cache is empty, and no transfer is under way.
LEMMA InitInv == Init => Inv
  <1> SUFFICES ASSUME Init PROVE Inv
    OBVIOUS
  <1> USE TimesAssumption, BootAssumption
  <1>1. TimesInv
    BY DEF Init, TimesInv, Past, Callers, Stages
  <1>2. RetryInv
    BY DEF Init, RetryInv, Callers
  <1>3. QED
    BY <1>1, <1>2 DEF Inv

\* ensure_clock never leaves the clock further behind than it was at boot.
LEMMA EnsureClockBounds ==
    ASSUME TimesInv, EnsureClock
    PROVE  skew' \in Int /\ -Behind <= skew'
  BY TimesAssumption DEF TimesInv, EnsureClock, SetClock

\* A signature made with credentials that are not over is not rejected for them.
LEMMA SignInTime ==
    ASSUME NEW t \in Callers, NEW left \in Int, left > 0, Sign(t, left),
           verdict \in [Callers -> {"none", "good", "over", "off"}]
    PROVE  verdict'[t] # "over"
  <1>1. PICK v \in Verdicts(left) : verdict' = [verdict EXCEPT ![t] = v]
    BY DEF Sign
  <1>2. v # "over"
    BY DEF Verdicts
  <1>3. QED
    BY <1>1, <1>2

\* A signature changes the verdict of its thread alone.
LEMMA SignTypes ==
    ASSUME NEW t \in Callers, NEW left \in Int, Sign(t, left),
           verdict \in [Callers -> {"none", "good", "over", "off"}]
    PROVE  /\ verdict' \in [Callers -> {"none", "good", "over", "off"}]
           /\ \A u \in Callers : u # t => verdict'[u] = verdict[u]
  <1>1. PICK v \in Verdicts(left) : verdict' = [verdict EXCEPT ![t] = v]
    BY DEF Sign
  <1>2. v \in {"good", "over", "off"}
    BY DEF Verdicts
  <1>3. QED
    BY <1>1, <1>2

\* An emptied cache is not served, whatever the clock says.
LEMMA PastIsStale ==
    ASSUME TimesInv, cached = Past, dated
    PROVE  Stale(0) /\ Stale(CredMargin)
  BY TimesAssumption DEF TimesInv, Past, Stale

-----------------------------------------------------------------------------
(* One lemma for each kind of step.                                        *)

\* As time passes the offer of IMDS stays good, and no transfer is about to repeat.
LEMMA TickInv == ASSUME Inv, NEW d \in 0..2, Tick(d) PROVE Inv'
  <1> USE TimesAssumption, BootAssumption
  <1>1. skew' \in Int /\ -Behind <= skew'
    BY DEF Inv, TimesInv, Tick
  <1>2. offer' \in Nat /\ offer' > 0
    BY DEF Inv, TimesInv, Tick
  <1>3. cached' \in Int /\ dated' = dated
    BY DEF Inv, TimesInv, Tick, Greater, Past
  <1>4. TimesInv'
    BY <1>1, <1>2, <1>3 DEF Inv, TimesInv, Tick
  <1>5. RetryInv'
    BY DEF Inv, RetryInv, Tick
  <1>6. QED
    BY <1>4, <1>5 DEF Inv

\* A call signs, and may fill the cache with what IMDS offers.
LEMMA CallInv == ASSUME Inv, NEW t \in Callers, Call(t) PROVE Inv'
  <1> USE TimesAssumption
  <1>0. TimesInv /\ RetryInv
    BY DEF Inv
  <1>1. PICK left \in {offer, cached} :
          /\ Sign(t, left)
          /\ (cached' = offer /\ dated' \in BOOLEAN) \/ UNCHANGED <<cached, dated>>
          /\ left = offer \/ ~Stale(CredMargin) \/ ~Stale(0)
    BY DEF Call, Fetch, ServeCached
  <1>2. left \in Int /\ cached' \in Int /\ dated' \in BOOLEAN
    BY <1>0, <1>1 DEF TimesInv
  <1>3. /\ verdict' \in [Callers -> {"none", "good", "over", "off"}]
        /\ \A u \in Callers : u # t => verdict'[u] = verdict[u]
    BY <1>0, <1>1, <1>2, SignTypes DEF TimesInv
  <1>4. /\ pc' = [pc EXCEPT ![t] = IF @ = "retry" THEN "recall" ELSE "call"]
        /\ skew' = skew /\ offer' = offer
    BY DEF Call, clockVars
  <1>5. TimesInv'
    BY <1>0, <1>2, <1>3, <1>4 DEF TimesInv, Stages
  <1>6. pc'["transfer"] = "retry" => (cached' = Past /\ dated') \/ cached' = offer'
    BY <1>0, <1>1, <1>4 DEF RetryInv, TimesInv, Callers
  <1>7. ASSUME pc'["transfer"] = "recall" PROVE verdict'["transfer"] # "over"
    <2>1. CASE t # "transfer"
      BY <1>0, <1>3, <1>4, <1>7, <2>1 DEF RetryInv, TimesInv, Callers
    <2>2. CASE t = "transfer"
      <3>1. pc["transfer"] = "retry"
        BY <1>0, <1>4, <1>7, <2>2 DEF TimesInv, Callers
      <3>2. (cached = Past /\ dated) \/ cached = offer
        BY <1>0, <3>1 DEF RetryInv
      <3>3. left = offer
        BY <1>0, <1>1, <3>2, PastIsStale
      <3>4. QED
        BY <1>0, <1>1, <1>2, <2>2, <3>3, SignInTime DEF TimesInv
    <2>3. QED
      BY <2>1, <2>2
  <1>8. QED
    BY <1>5, <1>6, <1>7 DEF Inv, RetryInv

\* A thread without credentials goes on.
LEMMA NoCallInv == ASSUME Inv, NEW t \in Callers, NoCall(t) PROVE Inv'
  <1>1. /\ pc' = [pc EXCEPT ![t] = "wait"]
        /\ UNCHANGED <<skew, offer, cached, dated, verdict>>
    BY DEF NoCall, Refuse, Done, clockVars
  <1>2. TimesInv'
    BY <1>1 DEF Inv, TimesInv, Stages
  <1>3. RetryInv'
    BY <1>1 DEF Inv, TimesInv, RetryInv, Callers, Past
  <1>4. QED
    BY <1>2, <1>3 DEF Inv

\* A transfer that is going to repeat its request has emptied the cache.
LEMMA ReturnInv == ASSUME Inv, NEW t \in Callers, Return(t) PROVE Inv'
  <1> USE TimesAssumption
  <1>0. TimesInv /\ RetryInv
    BY DEF Inv
  <1>1. /\ (cached' = Past /\ dated') \/ UNCHANGED <<cached, dated>>
        /\ dated' \in BOOLEAN
        /\ \/ pc' = [pc EXCEPT ![t] = "wait"]
           \/ t = "transfer" /\ pc' = [pc EXCEPT ![t] = "retry"] /\ cached' = Past /\ dated'
        /\ verdict' = [verdict EXCEPT ![t] = "none"]
        /\ UNCHANGED <<skew, offer>>
    BY <1>0 DEF Return, Done, Invalidate, clockVars, TimesInv
  <1>2. cached' \in Int
    BY <1>0, <1>1 DEF TimesInv, Past
  <1>3. TimesInv'
    BY <1>0, <1>1, <1>2 DEF TimesInv, Stages
  <1>4. RetryInv'
    BY <1>0, <1>1 DEF TimesInv, RetryInv, Callers, Past
  <1>5. QED
    BY <1>3, <1>4 DEF Inv

\* The clock is looked at, or the agent asks who it is: no call is made.
LEMMA OtherInv ==
    ASSUME Inv, NetChanges \/ Boot \/ HealthClock \/ SessionClock \/ UNCHANGED vars
    PROVE  Inv'
  <1>0. TimesInv /\ RetryInv
    BY DEF Inv
  <1>1. /\ UNCHANGED <<offer, cached, dated, verdict>>
        /\ \/ UNCHANGED pc
           \/ pc' = [pc EXCEPT !["poll"] = "identify"]
           \/ pc' = [pc EXCEPT !["poll"] = "boot"]
           \/ pc' = [pc EXCEPT !["health"] = "ping"]
           \/ pc' = [u \in Callers |-> "wait"]
    BY DEF NetChanges, Boot, BootClock, Identify, HealthClock, SessionClock, vars,
           clockVars, credVars, callVars
  <1>2. skew' \in Int /\ -Behind <= skew'
    <2>1. EnsureClock \/ UNCHANGED skew
      BY DEF NetChanges, Boot, BootClock, Identify, HealthClock, SessionClock, vars, clockVars
    <2>2. QED
      BY <1>0, <2>1, EnsureClockBounds DEF TimesInv
  <1>3. TimesInv'
    BY <1>0, <1>1, <1>2 DEF TimesInv, Stages, Callers
  <1>4. RetryInv'
    BY <1>0, <1>1 DEF TimesInv, RetryInv, Callers, Past
  <1>5. QED
    BY <1>3, <1>4 DEF Inv

\* Every step keeps the invariant.
LEMMA NextInv == Inv /\ [Next]_vars => Inv'
  BY TickInv, CallInv, NoCallInv, ReturnInv, OtherInv DEF Next, Thread

-----------------------------------------------------------------------------
(* The margin of the credentials.  The poll loop asks at least once in     *)
(* MaxCall + 1 units, and leaves the cache good for the margin.  Only when *)
(* a token that is over looks fresh does it go on with what it has; the    *)
(* age of the token then bounds how long that was.                         *)

\* The ranges of the clock, the token and the calls.
RangeInv ==
    /\ skew \in -Behind..Ahead
    /\ token \in [age : 0..OldToken.age, at : -Behind..Ahead]
    /\ lasts \in [Callers -> 0..MaxCall]

\* The units since the poll loop last asked for credentials are at most so many.
SincePoll ==
    IF "poll" \in Calling THEN lasts["poll"] ELSE IF pause THEN MaxCall ELSE MaxCall + 1

\* A cache with so much time left is empty, or was filled or not stale n units ago.
Good(left, n) == left = Past \/ left + n >= RotateLead \/ left + n > CredMargin - MaxSkew

\* Before trouble, the clock is only off by what is tolerated, and was when the token was cached.
QuietInv ==
    ~trouble =>
        /\ net /\ dated
        /\ Running => InBand /\ token.at \in -MaxSkew..MaxSkew
        /\ ~Running => token = OldToken /\ cached = Past

\* The cache while the token is good, and while it is over.
CacheInv ==
    ~trouble =>
        /\ token.age < TokenLife => Good(cached, SincePoll)
        /\ token.age \in TokenLife..OldToken.age - 1 => Good(cached, MaxCall + 1 + token.age - TokenLife)

MarginInv == Inv /\ RangeInv /\ QuietInv /\ CacheInv /\ NeverExpired

\* At boot nothing is cached, and the token is as old as can be.
LEMMA InitMargin == Init => MarginInv
  <1> SUFFICES ASSUME Init PROVE MarginInv
    OBVIOUS
  <1> USE TimesAssumption, BootAssumption
  <1>1. Inv
    BY InitInv
  <1>2. RangeInv
    BY DEF Init, RangeInv, OldToken, Callers
  <1>3. ~Running /\ cached = Past /\ dated /\ token = OldToken /\ (~trouble => net)
    BY DEF Init, Running, Callers
  <1>4. QuietInv /\ CacheInv
    BY <1>3 DEF QuietInv, CacheInv, Good
  <1>5. NeverExpired
    BY DEF Init, NeverExpired
  <1>6. QED
    BY <1>1, <1>2, <1>4, <1>5 DEF MarginInv

\* What was good stays good as the time since the last poll is estimated higher.
LEMMA GoodLonger ==
    ASSUME NEW left \in Int, NEW n \in Nat, NEW m \in Nat, n <= m, Good(left, n)
    PROVE  Good(left, m)
  BY TimesAssumption DEF Good, MaxSkew

\* The time since the last poll has a bound.
LEMMA SincePollType ==
    ASSUME RangeInv
    PROVE  SincePoll \in 0..MaxCall + 1
  BY TimesAssumption DEF RangeInv, SincePoll, Callers, Calling

\* With every request answered, Query renews a token that does not look fresh, and fails only
\* with a token that looks fresh and is over.
LEMMA QuietQuery ==
    ASSUME net, NEW succeeds \in BOOLEAN, Query(succeeds)
    PROVE  /\ token' = IF TokenFresh THEN token ELSE [age |-> 0, at |-> skew]
           /\ succeeds = (token'.age < TokenLife)
  BY DEF Query, Answered

\* So a failure shows that the token is over, while the clock is behind what it was when the
\* token was cached.
LEMMA QuietFailure ==
    ASSUME TimesInv, RangeInv, net, Query(FALSE)
    PROVE  /\ token' = token
           /\ token.age \in TokenLife..OldToken.age - 1
           /\ token.age - TokenLife < token.at - skew - TokenMargin
  <1> USE TimesAssumption, BootAssumption
  <1>1. /\ token' = IF TokenFresh THEN token ELSE [age |-> 0, at |-> skew]
        /\ ~(token'.age < TokenLife)
    BY QuietQuery
  <1>2. TokenFresh /\ token' = token
    BY <1>1
  <1>3. token.age \in 0..OldToken.age /\ token.at \in -Behind..Ahead /\ skew \in -Behind..Ahead
    BY DEF RangeInv
  <1>4. token.age + skew - token.at + TokenMargin < TokenLife /\ token.age >= TokenLife
    BY <1>1, <1>2, <1>3 DEF TokenFresh
  <1>5. QED
    BY <1>2, <1>3, <1>4 DEF OldToken

\* The ranges are kept by every step.
LEMMA RangeStep == ASSUME MarginInv, [Next]_vars PROVE RangeInv'
  <1> USE TimesAssumption, BootAssumption
  <1>0. TimesInv /\ RangeInv
    BY DEF MarginInv, Inv
  <1>1. ASSUME NEW d \in 0..2, Tick(d) PROVE RangeInv'
    <2>1. skew' \in -Behind..Ahead
      BY <1>0, <1>1 DEF RangeInv, Tick
    <2>2. token' \in [age : 0..OldToken.age, at : -Behind..Ahead]
      <3>1. token' = [token EXCEPT !.age = Smaller(@ + 1, OldToken.age)]
        BY <1>1 DEF Tick
      <3>2. Smaller(token.age + 1, OldToken.age) \in 0..OldToken.age
        BY <1>0 DEF RangeInv, Smaller, OldToken
      <3>3. QED
        BY <1>0, <3>1, <3>2 DEF RangeInv
    <2>3. lasts' \in [Callers -> 0..MaxCall]
      BY <1>0, <1>1 DEF RangeInv, Tick, Calling, Callers
    <2>4. QED
      BY <2>1, <2>2, <2>3 DEF RangeInv
  <1>2. ASSUME EnsureClock PROVE skew' \in -Behind..Ahead
    BY <1>0, <1>2 DEF RangeInv, EnsureClock, SetClock
  <1>3. ASSUME NEW succeeds \in BOOLEAN, Query(succeeds)
        PROVE  token' \in [age : 0..OldToken.age, at : -Behind..Ahead]
    BY <1>0, <1>3 DEF RangeInv, Query, OldToken
  <1>4. CASE NetChanges \/ UNCHANGED vars
    BY <1>0, <1>4 DEF RangeInv, NetChanges, credVars, callVars, vars, clockVars
  <1>5. CASE BootClock \/ HealthClock \/ SessionClock
    BY <1>0, <1>2, <1>5 DEF RangeInv, BootClock, HealthClock, SessionClock, credVars, callVars
  <1>6. CASE Identify
    BY <1>0, <1>3, <1>6 DEF RangeInv, Identify
  <1>7. ASSUME NEW t \in Callers, Call(t) PROVE RangeInv'
    <2>1. UNCHANGED skew /\ lasts' = [lasts EXCEPT ![t] = 0]
      BY <1>7 DEF Call, clockVars
    <2>2. UNCHANGED token \/ \E succeeds \in BOOLEAN : Query(succeeds)
      BY <1>7 DEF Call, Fetch, ServeCached
    <2>3. QED
      BY <1>0, <1>3, <2>1, <2>2 DEF RangeInv
  <1>8. ASSUME NEW t \in Callers, NoCall(t) PROVE RangeInv'
    BY <1>0, <1>3, <1>8 DEF RangeInv, NoCall, Refuse, clockVars
  <1>9. ASSUME NEW t \in Callers, Return(t) PROVE RangeInv'
    BY <1>0, <1>9 DEF RangeInv, Return, clockVars
  <1>10. QED
    BY <1>1, <1>4, <1>5, <1>6, <1>7, <1>8, <1>9 DEF Next, Boot, Thread

\* A unit of time later the cache is worth one less.
LEMMA GoodTick ==
    ASSUME MarginInv, NEW d \in 0..2, Tick(d), NEW n \in Nat, Good(cached, n)
    PROVE  Good(cached', n + 1)
  BY TimesAssumption DEF MarginInv, Inv, TimesInv, Good, Tick, Greater, MaxSkew, Past

\* While the agent runs, a unit passes during a call of the poll loop or while it sleeps.
LEMMA SincePollTick ==
    ASSUME MarginInv, Running, NEW d \in 0..2, Tick(d)
    PROVE  SincePoll \in 0..MaxCall /\ SincePoll' = SincePoll + 1
  <1> USE TimesAssumption
  <1>0. lasts \in [Callers -> 0..MaxCall]
    BY DEF MarginInv, Inv, RangeInv
  <1>1. "poll" \in Calling <=> ("poll" \in Calling)'
    BY DEF Tick, Calling
  <1>2. CASE "poll" \in Calling
    <2>1. lasts["poll"] < MaxCall /\ lasts'["poll"] = lasts["poll"] + 1
      BY <1>2 DEF Tick, Callers
    <2>2. QED
      BY <1>0, <1>1, <1>2, <2>1 DEF SincePoll, Callers
  <1>3. CASE "poll" \notin Calling
    BY <1>1, <1>3 DEF Tick, SincePoll
  <1>4. QED
    BY <1>2, <1>3

\* Time passes: the margin has room for it.
LEMMA TickMargin == ASSUME MarginInv, NEW d \in 0..2, Tick(d) PROVE QuietInv' /\ CacheInv' /\ NeverExpired'
  <1> USE TimesAssumption, BootAssumption
  <1>0. TimesInv /\ RangeInv /\ QuietInv /\ CacheInv /\ NeverExpired
    BY DEF MarginInv, Inv
  <1>1. SUFFICES ASSUME ~trouble' PROVE QuietInv' /\ CacheInv' /\ NeverExpired'
    BY DEF QuietInv, CacheInv, NeverExpired
  <1>2. ~trouble /\ (Running => InBand') /\ (Running' <=> Running) /\ UNCHANGED <<net, dated, verdict>>
    BY <1>1 DEF Tick, Running
  <1>3. token' = [token EXCEPT !.age = Smaller(@ + 1, OldToken.age)]
    BY DEF Tick
  <1>4. /\ token.age \in 0..OldToken.age /\ token'.at = token.at
        /\ token'.age = IF token.age = OldToken.age THEN token.age ELSE token.age + 1
    BY <1>0, <1>3 DEF RangeInv, Smaller, OldToken
  <1>5. NeverExpired'
    BY <1>0, <1>2 DEF NeverExpired
  <1>6. CASE ~Running
    <2>1. token = OldToken /\ cached = Past
      BY <1>0, <1>2, <1>6 DEF QuietInv
    <2>2. token' = OldToken
      BY <1>3, <2>1 DEF Smaller, OldToken
    <2>3. cached' = Past
      BY <2>1 DEF Tick, Greater, Past
    <2>4. QED
      BY <1>0, <1>2, <1>5, <1>6, <2>2, <2>3 DEF QuietInv, CacheInv, Good, Past, OldToken
  <1>7. CASE Running
    <2>1. QuietInv'
      BY <1>0, <1>2, <1>4, <1>7 DEF QuietInv, MaxSkew
    <2>2. SincePoll \in 0..MaxCall /\ SincePoll' = SincePoll + 1
      BY <1>7, SincePollTick
    <2>3. CacheInv'
      <3>1. CASE token'.age < TokenLife
        <4>1. Good(cached, SincePoll)
          BY <1>0, <1>2, <1>4, <3>1 DEF CacheInv
        <4>2. Good(cached', SincePoll + 1)
          BY <2>2, <4>1, GoodTick
        <4>3. QED
          BY <2>2, <3>1, <4>2 DEF CacheInv, Good
      <3>2. CASE token'.age \in TokenLife..OldToken.age - 1 /\ token.age < TokenLife
        <4>1. Good(cached, SincePoll)
          BY <1>0, <1>2, <3>2 DEF CacheInv
        <4>2. Good(cached, MaxCall)
          BY <1>0, <2>2, <4>1, GoodLonger DEF TimesInv
        <4>3. Good(cached', MaxCall + 1)
          BY <4>2, GoodTick
        <4>4. token'.age = TokenLife
          BY <1>4, <3>2 DEF OldToken
        <4>5. QED
          BY <4>3, <4>4 DEF CacheInv, Good
      <3>3. CASE token'.age \in TokenLife..OldToken.age - 1 /\ token.age >= TokenLife
        <4> DEFINE n == MaxCall + 1 + token.age - TokenLife
        <4>1. token.age \in TokenLife..OldToken.age - 1 /\ token'.age = token.age + 1
          BY <1>4, <3>3 DEF OldToken
        <4>2. Good(cached, n) /\ n \in Nat
          BY <1>0, <1>2, <4>1 DEF CacheInv, OldToken
        <4>3. Good(cached', n + 1)
          <5> HIDE DEF n
          <5> QED BY <4>2, GoodTick
        <4>4. n + 1 = MaxCall + 1 + token'.age - TokenLife
          BY <4>1 DEF OldToken
        <4>5. QED
          BY <4>1, <4>3, <4>4 DEF CacheInv, Good
      <3>4. QED
        BY <1>4, <3>1, <3>2, <3>3 DEF CacheInv, OldToken
    <2>4. QED
      BY <1>5, <2>1, <2>3
  <1>8. QED
    BY <1>6, <1>7

\* A cache that is not stale has the whole margin left but for what the clock is off.
LEMMA NotStaleIsGood ==
    ASSUME TimesInv, dated, InBand, ~Stale(CredMargin), NEW n \in Nat
    PROVE  cached > 0 /\ Good(cached, n)
  BY TimesAssumption, MarginsAssumption DEF TimesInv, InBand, Stale, Good, MaxSkew

\* A cache that is stale and cannot be filled for the token is over, but is served for a while:
\* it is not over yet.
LEMMA ServedIsGood ==
    ASSUME MarginInv, ~trouble, Running, Query(FALSE), ~Stale(0)
    PROVE  cached > 0
  <1> USE TimesAssumption, BootAssumption
  <1> DEFINE n == MaxCall + 1 + token.age - TokenLife
  <1>0. TimesInv /\ RangeInv /\ QuietInv /\ CacheInv
    BY DEF MarginInv, Inv
  <1>1. net /\ dated /\ InBand /\ token.at \in -MaxSkew..MaxSkew
    BY <1>0 DEF QuietInv
  <1>2. /\ token.age \in TokenLife..OldToken.age - 1
        /\ token.age - TokenLife < token.at - skew - TokenMargin
    BY <1>0, <1>1, QuietFailure
  <1>3. Good(cached, n)
    BY <1>0, <1>2 DEF CacheInv
  <1>4. n \in Int /\ n <= MaxCall + 2 * MaxSkew - TokenMargin
    BY <1>0, <1>1, <1>2 DEF InBand, MaxSkew, TimesInv, OldToken
  <1>5. cached # Past
    BY <1>0, <1>1, PastIsStale
  <1>6. cached \in Int /\ MaxSkew \in Int
    BY <1>0 DEF TimesInv, MaxSkew
  <1> HIDE DEF n
  <1>7. QED
    BY <1>3, <1>4, <1>5, <1>6, MarginsAssumption DEF Good

\* A signature made with credentials that are not over breaks nothing.
LEMMA SignNeverExpired ==
    ASSUME MarginInv, NEW t \in Callers, NEW left \in Int, left > 0, Sign(t, left), ~trouble
    PROVE  NeverExpired'
  <1>1. verdict \in [Callers -> {"none", "good", "over", "off"}]
    BY DEF MarginInv, Inv, TimesInv
  <1>2. verdict'[t] # "over" /\ \A u \in Callers : u # t => verdict'[u] = verdict[u]
    BY <1>1, SignInTime, SignTypes
  <1>3. QED
    BY <1>2 DEF MarginInv, NeverExpired

\* A call leaves a good cache, or the one it found with a token that is over.
LEMMA CallMargin == ASSUME MarginInv, NEW t \in Callers, Call(t) PROVE QuietInv' /\ CacheInv' /\ NeverExpired'
  <1> USE TimesAssumption, BootAssumption
  <1>0. TimesInv /\ RangeInv /\ QuietInv /\ CacheInv /\ NeverExpired
    BY DEF MarginInv, Inv
  <1>1. /\ Running /\ UNCHANGED <<net, skew, offer, pause>>
        /\ pc' = [pc EXCEPT ![t] = IF @ = "retry" THEN "recall" ELSE "call"]
        /\ lasts' = [lasts EXCEPT ![t] = 0]
        /\ Fetch(t) \/ ServeCached(t)
    BY DEF Call, clockVars
  <1>2. SUFFICES ASSUME ~trouble' PROVE QuietInv' /\ CacheInv' /\ NeverExpired'
    BY DEF QuietInv, CacheInv, NeverExpired
  <1>3. ~trouble
    BY <1>1, <1>2, Zenon DEF Fetch, ServeCached
  <1>4. (Fetch(t) => dated') /\ (ServeCached(t) => UNCHANGED dated)
    BY <1>2, Zenon DEF Fetch, ServeCached
  <1>5. net /\ dated /\ InBand /\ token.at \in -MaxSkew..MaxSkew
    BY <1>0, <1>1, <1>3 DEF QuietInv
  <1>6. Running'
    BY <1>0, <1>1 DEF Running, TimesInv, Callers
  <1>7. QuietInv' <=> token'.at \in -MaxSkew..MaxSkew
    BY <1>1, <1>2, <1>5, <1>6, <1>4 DEF QuietInv, InBand
  <1>8. SincePoll' \in Nat
    BY <1>0, RangeStep DEF RangeInv, SincePoll, Callers, Calling, Next, Thread
  <1>9. ASSUME \A n \in Nat : Good(cached', n) PROVE CacheInv'
    BY <1>8, <1>9 DEF CacheInv, OldToken
  <1>10. CASE Fetch(t)
    <2>1. cached' = offer /\ Sign(t, offer) /\ Query(TRUE)
      BY <1>10 DEF Fetch
    <2>2. offer \in Int /\ offer > 0 /\ offer >= RotateLead
      BY <1>0 DEF TimesInv
    <2>3. token' = token \/ token' = [age |-> 0, at |-> skew]
      BY <1>5, <2>1, QuietQuery
    <2>4. QuietInv'
      BY <1>0, <1>5, <1>7, <2>3 DEF InBand, MaxSkew, TimesInv
    <2>5. CacheInv'
      BY <1>9, <2>1, <2>2 DEF Good
    <2>6. NeverExpired'
      BY <1>3, <2>1, <2>2, SignNeverExpired
    <2>7. QED
      BY <2>4, <2>5, <2>6
  <1>11. CASE ServeCached(t) /\ ~Stale(CredMargin)
    <2>1. cached' = cached /\ token' = token /\ Sign(t, cached)
      BY <1>11 DEF ServeCached
    <2>2. cached \in Int /\ cached > 0 /\ \A n \in Nat : Good(cached, n)
      BY <1>0, <1>5, <1>11, NotStaleIsGood DEF TimesInv
    <2>3. QuietInv'
      BY <1>5, <1>7, <2>1
    <2>4. CacheInv'
      BY <1>9, <2>1, <2>2
    <2>5. NeverExpired'
      BY <1>3, <2>1, <2>2, SignNeverExpired
    <2>6. QED
      BY <2>3, <2>4, <2>5
  <1>12. CASE ServeCached(t) /\ Stale(CredMargin)
    <2>1. cached' = cached /\ Sign(t, cached) /\ Query(FALSE) /\ ~Stale(0)
      BY <1>12 DEF ServeCached
    <2>2. token' = token /\ token.age \in TokenLife..OldToken.age - 1
      BY <1>0, <1>5, <2>1, QuietFailure
    <2>3. cached \in Int /\ cached > 0
      BY <1>0, <1>1, <1>3, <2>1, ServedIsGood DEF TimesInv
    <2>4. QuietInv'
      BY <1>5, <1>7, <2>2
    <2>5. CacheInv'
      BY <1>0, <1>1, <1>3, <2>1, <2>2 DEF CacheInv, OldToken
    <2>6. NeverExpired'
      BY <1>3, <2>1, <2>3, SignNeverExpired
    <2>7. QED
      BY <2>4, <2>5, <2>6
  <1>13. QED
    BY <1>1, <1>10, <1>11, <1>12

\* A thread is left without credentials only by a token that is over.
LEMMA NoCallMargin == ASSUME MarginInv, NEW t \in Callers, NoCall(t) PROVE QuietInv' /\ CacheInv' /\ NeverExpired'
  <1>0. TimesInv /\ RangeInv /\ QuietInv /\ CacheInv /\ NeverExpired
    BY DEF MarginInv, Inv
  <1>1. /\ Running /\ UNCHANGED <<net, skew, trouble, cached, dated, verdict>>
        /\ pc' = [pc EXCEPT ![t] = "wait"]
        /\ Query(FALSE)
    BY DEF NoCall, Refuse, Done, clockVars
  <1>2. SUFFICES ASSUME ~trouble PROVE QuietInv' /\ CacheInv' /\ NeverExpired'
    BY <1>1 DEF QuietInv, CacheInv, NeverExpired
  <1>3. net /\ token' = token /\ token.age \in TokenLife..OldToken.age - 1
    BY <1>0, <1>1, <1>2, QuietFailure DEF QuietInv
  <1>4. Running'
    BY <1>0, <1>1 DEF Running, TimesInv, Callers
  <1>5. QuietInv' /\ NeverExpired'
    BY <1>0, <1>1, <1>2, <1>3, <1>4 DEF QuietInv, NeverExpired, InBand
  <1>6. CacheInv'
    BY <1>0, <1>1, <1>2, <1>3, TimesAssumption, BootAssumption DEF CacheInv, OldToken
  <1>7. QED
    BY <1>5, <1>6

\* As a call of the poll loop returns, the time since it began is forgotten, but not its bound.
LEMMA ReturnMargin == ASSUME MarginInv, NEW t \in Callers, Return(t) PROVE QuietInv' /\ CacheInv' /\ NeverExpired'
  <1> USE TimesAssumption, BootAssumption
  <1>0. TimesInv /\ RangeInv /\ QuietInv /\ CacheInv /\ NeverExpired
    BY DEF MarginInv, Inv
  <1>1. /\ t \in Calling /\ cached' \in {cached, Past} /\ (dated => dated')
        /\ \/ pc' = [pc EXCEPT ![t] = "wait"]
           \/ t = "transfer" /\ pc' = [pc EXCEPT ![t] = "retry"]
        /\ verdict' = [verdict EXCEPT ![t] = "none"] /\ lasts' = [lasts EXCEPT ![t] = 0]
        /\ UNCHANGED <<net, skew, trouble, token>> /\ (t # "poll" => pause' = pause)
    BY DEF Return, Done, Invalidate, clockVars
  <1>2. Running' <=> Running
    BY <1>0, <1>1 DEF Running, TimesInv, Callers, Calling
  <1>3. SincePoll \in Nat /\ SincePoll' \in Nat /\ SincePoll <= SincePoll'
    <2>1. CASE t = "poll"
      BY <1>0, <1>1, <2>1 DEF SincePoll, RangeInv, TimesInv, Callers, Calling
    <2>2. CASE t # "poll"
      BY <1>0, <1>1, <2>2 DEF SincePoll, RangeInv, TimesInv, Callers, Calling
    <2>3. QED
      BY <2>1, <2>2
  <1>4. ASSUME NEW n \in Nat, NEW m \in Nat, n <= m, Good(cached, n) PROVE Good(cached', m)
    BY <1>0, <1>1, <1>4, GoodLonger DEF Good, TimesInv
  <1>5. CacheInv'
    <2>1. ASSUME ~trouble, token.age < TokenLife PROVE Good(cached', SincePoll')
      BY <1>0, <1>3, <1>4, <2>1 DEF CacheInv
    <2>2. ASSUME ~trouble, token.age \in TokenLife..OldToken.age - 1
          PROVE  Good(cached', MaxCall + 1 + token.age - TokenLife)
      BY <1>0, <1>1, <2>2 DEF CacheInv, Good
    <2>3. QED
      BY <1>1, <2>1, <2>2 DEF CacheInv
  <1>6. QuietInv'
    BY <1>0, <1>1, <1>2 DEF QuietInv, InBand
  <1>7. NeverExpired'
    BY <1>0, <1>1 DEF NeverExpired, TimesInv
  <1>8. QED
    BY <1>5, <1>6, <1>7

\* While there is no trouble ensure_clock leaves the clock of a running agent alone.
LEMMA ClockMargin ==
    ASSUME MarginInv, BootClock \/ HealthClock \/ SessionClock
    PROVE  QuietInv' /\ CacheInv' /\ NeverExpired'
  <1>0. TimesInv /\ QuietInv /\ CacheInv /\ NeverExpired
    BY DEF MarginInv, Inv
  <1>1. /\ EnsureClock /\ UNCHANGED <<net, trouble, token, cached, dated, verdict, lasts, pause>>
        /\ \/ ~Running /\ pc' = [pc EXCEPT !["poll"] = "identify"]
           \/ UNCHANGED pc
           \/ pc' = [pc EXCEPT !["health"] = "ping"]
    BY DEF BootClock, HealthClock, SessionClock, credVars, callVars, Running
  <1>2. (Running' <=> Running) /\ (Running => SincePoll' = SincePoll)
    BY <1>0, <1>1 DEF Running, TimesInv, SincePoll, Calling, Callers
  <1>3. ~trouble /\ Running => UNCHANGED skew
    BY <1>0, <1>1 DEF QuietInv, EnsureClock, SetClock, Answered
  <1>4. QuietInv'
    BY <1>0, <1>1, <1>2, <1>3 DEF QuietInv, InBand
  <1>5. CacheInv'
    BY <1>0, <1>1, <1>2 DEF QuietInv, CacheInv, Good
  <1>6. QED
    BY <1>0, <1>1, <1>4, <1>5 DEF NeverExpired

\* The agent starts with a token cached on a clock that was just looked at.
LEMMA IdentifyMargin == ASSUME MarginInv, Identify PROVE QuietInv' /\ CacheInv' /\ NeverExpired'
  <1> USE TimesAssumption, BootAssumption
  <1>0. TimesInv /\ RangeInv /\ QuietInv /\ CacheInv /\ NeverExpired
    BY DEF MarginInv, Inv
  <1>1. SUFFICES ASSUME ~trouble' PROVE QuietInv' /\ CacheInv' /\ NeverExpired'
    BY DEF QuietInv, CacheInv, NeverExpired
  <1>2. ~Running /\ UNCHANGED <<net, skew, cached, dated, verdict>>
    BY DEF Identify, Running
  <1>3. ~trouble
    BY <1>1, Zenon DEF Identify
  <1>4. net /\ dated /\ token = OldToken /\ cached = Past
    BY <1>0, <1>2, <1>3 DEF QuietInv
  <1>5. ~Query(FALSE)
    <2>1. SUFFICES ASSUME Query(FALSE) PROVE FALSE
      OBVIOUS
    <2>2. token.age \in TokenLife..OldToken.age - 1
      BY <1>0, <1>4, <2>1, QuietFailure
    <2>3. token.age = OldToken.age /\ OldToken.age \in Int
      BY <1>4 DEF OldToken
    <2>4. QED
      BY <2>2, <2>3
  <1>6. Query(TRUE) /\ InBand
    BY <1>1, <1>5 DEF Identify
  <1>7. token' = token \/ token' = [age |-> 0, at |-> skew]
    BY <1>4, <1>6, QuietQuery
  <1>8. token'.at \in -MaxSkew..MaxSkew
    BY <1>0, <1>4, <1>6, <1>7 DEF OldToken, InBand, MaxSkew, TimesInv
  <1>9. Running'
    BY <1>5 DEF Identify, Running, Callers
  <1>10. QED
    BY <1>0, <1>2, <1>3, <1>4, <1>6, <1>8, <1>9 DEF QuietInv, CacheInv, NeverExpired, Good, InBand

\* Every step keeps the invariant.
LEMMA NextMargin == MarginInv /\ [Next]_vars => MarginInv'
  <1> SUFFICES ASSUME MarginInv, [Next]_vars PROVE MarginInv'
    OBVIOUS
  <1>1. RangeInv'
    BY RangeStep
  <1>2. Inv'
    BY NextInv DEF MarginInv
  <1>3. NetChanges => QuietInv' /\ CacheInv' /\ NeverExpired'
    BY DEF NetChanges, QuietInv, CacheInv, NeverExpired
  <1>4. UNCHANGED vars => QuietInv' /\ CacheInv' /\ NeverExpired'
    BY DEF MarginInv, vars, clockVars, credVars, callVars, QuietInv, CacheInv, NeverExpired,
           Running, InBand, SincePoll, Calling
  <1>5. QuietInv' /\ CacheInv' /\ NeverExpired'
    BY <1>3, <1>4, TickMargin, CallMargin, NoCallMargin, ReturnMargin, ClockMargin,
       IdentifyMargin DEF Next, Boot, Thread
  <1>6. QED
    BY <1>1, <1>2, <1>5 DEF MarginInv

-----------------------------------------------------------------------------
(* The theorems.                                                           *)

\* A transfer rejected for its credentials drops them and is repeated with others: whatever the
\* poll loop and the health thread do to the cache in between, and however far off the clock is,
\* what it signs with the second time is not over.
THEOREM RetryUsesOthers == Spec => []RetryIsFresh
  <1>1. Inv => RetryIsFresh
    BY DEF Inv, RetryInv, RetryIsFresh
  <1>2. QED
    BY <1>1, InitInv, NextInv, PTL DEF Spec

\* CredentialProvider refreshes early enough: with margins that cover what the clock may be off,
\* and a call, a signature is never made with credentials that are over, even while an IMDS token
\* that looks fresh keeps the agent from new ones.
THEOREM MarginsSuffice == Spec => []NeverExpired
  <1>1. MarginInv => NeverExpired
    BY DEF MarginInv
  <1>2. QED
    BY <1>1, InitMargin, NextMargin, PTL DEF Spec
=============================================================================
