----------------------------- MODULE UnitCache -----------------------------
(***************************************************************************)
(* The 100 ms read cache of the ENV and Joystick units (units.py).  Every  *)
(* getter (ENV.pressure/temperature/humidity, Joystick.X/Y/Press) is the   *)
(* same code: if ticks_ms() - self.time > 100, stamp self.time and read    *)
(* the bus into self.data / self.value; then index the cached tuple.  The  *)
(* two differ on a failed bus read: ENV lets the OSError propagate after   *)
(* the stamp, Joystick swallows it (bare except) and indexes the old value.*)
(* ticks_ms() wraps at TicksPeriod and the difference is plain            *)
(* subtraction.  Ghosts: readAge is the real time since the last bus read *)
(* attempt, dataAge the real time since the cached value was read.         *)
(***************************************************************************)
EXTENDS Integers

CONSTANTS
    CacheMs,      \* the 100 of "ticks_ms() - self.time > 100"
    TicksPeriod,  \* the wrap period of ticks_ms()
    BusCanFail    \* whether an I2C read may raise OSError

ASSUME CacheMsAssumption == CacheMs \in Nat
ASSUME TicksPeriodAssumption == TicksPeriod \in Nat /\ TicksPeriod > CacheMs + 1
ASSUME BusCanFailAssumption == BusCanFail \in BOOLEAN

\* The two unit objects whose getters go through the cache.
Readers == {"env", "joy"}

\* A cached tuple: None until the first successful bus read.
None == "None"
Sample == "sample"

\* The outcome of the last getter call: nothing yet, OSError raised, or
\* the tuple it indexed (val) and the real age of that tuple (age).
NoCall == [kind |-> "noCall"]
Raised == [kind |-> "raised"]

\* Ghost ages saturate: one more than the window is all a property tells apart.
AgeCap == CacheMs + 1

VARIABLES
    now,      \* what ticks_ms() returns
    stamp,    \* stamp[r]: self.time
    data,     \* data[r]: self.data (ENV) or self.value (Joystick)
    readAge,  \* ghost: real ms since r's last bus read attempt
    dataAge,  \* ghost: real ms since r's cached tuple was read
    got       \* the outcome of the last getter call

vars == <<now, stamp, data, readAge, dataAge, got>>

\* The getter indexes the tuple it holds after the refresh step.
Indexed(r) == got' = [kind |-> "value", r |-> r, val |-> data'[r],
                      age |-> dataAge'[r]]

\* ENV.__init__ / Joystick.__init__: self.time = 0, the value is None; the
\* object may be built at any tick.  No bus read has happened yet.
Init ==
    /\ now \in 0..TicksPeriod-1
    /\ stamp = [r \in Readers |-> 0]
    /\ data = [r \in Readers |-> None]
    /\ readAge = [r \in Readers |-> AgeCap]
    /\ dataAge = [r \in Readers |-> AgeCap]
    /\ got = NoCall

\* One millisecond of utime.ticks_ms().
Tick ==
    /\ now' = (now + 1) % TicksPeriod
    /\ readAge' = [r \in Readers |->
                     IF readAge[r] < AgeCap THEN readAge[r] + 1 ELSE AgeCap]
    /\ dataAge' = [r \in Readers |->
                     IF dataAge[r] < AgeCap THEN dataAge[r] + 1 ELSE AgeCap]
    /\ UNCHANGED <<stamp, data, got>>

\* Mutant: the window test with >= instead of >.
ExpiredEarly(r) == now - stamp[r] >= CacheMs

\* The test "time.ticks_ms() - self.time > 100".
Expired(r) == now - stamp[r] > CacheMs

\* The refresh branch: self.time = ticks_ms(), then the bus read succeeds.
RefreshOk(r) ==
    /\ Expired(r)
    /\ stamp' = [stamp EXCEPT ![r] = now]
    /\ data' = [data EXCEPT ![r] = Sample]
    /\ readAge' = [readAge EXCEPT ![r] = 0]
    /\ dataAge' = [dataAge EXCEPT ![r] = 0]
    /\ UNCHANGED now
    /\ Indexed(r)

\* The refresh branch with a failing bus read: the stamp is already taken,
\* the cached tuple stays as it was.  ENV raises; Joystick's bare except
\* passes and the old value is indexed.
RefreshFail(r) ==
    /\ BusCanFail
    /\ Expired(r)
    /\ stamp' = [stamp EXCEPT ![r] = now]
    /\ readAge' = [readAge EXCEPT ![r] = 0]
    /\ UNCHANGED <<now, data, dataAge>>
    /\ IF r = "env" THEN got' = Raised ELSE Indexed(r)

\* Inside the window: the cached tuple is indexed as it is.
Cached(r) ==
    /\ ~Expired(r)
    /\ UNCHANGED <<now, stamp, data, readAge, dataAge>>
    /\ Indexed(r)

\* A getter call of reader r: one of its three outcomes.
Get(r) == RefreshOk(r) \/ RefreshFail(r) \/ Cached(r)

Next == Tick \/ \E r \in Readers : Get(r)

Spec == Init /\ [][Next]_vars

-----------------------------------------------------------------------------
(* The cache rate-limits the bus: two bus reads of one unit are more than *)
(* CacheMs real milliseconds apart, also across a wrap of ticks_ms(),     *)
(* because a positive tick difference never exceeds the real time.        *)
RateLimited ==
    [][\A r \in Readers :
         (RefreshOk(r) \/ RefreshFail(r)) => readAge[r] > CacheMs]_vars

(* The promise of the 100 ms cache: a getter that returns gives an       *)
(* element of a real reading (never None[i], a TypeError), taken at most  *)
(* CacheMs real milliseconds ago.                                         *)
CachedReadingValid ==
    got.kind = "value" => got.val # None /\ got.age <= CacheMs

=============================================================================
