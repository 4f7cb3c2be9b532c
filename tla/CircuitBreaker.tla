--------------------------- MODULE CircuitBreaker ---------------------------
(***************************************************************************)
(* BlobStoreCircuitBreaker of src/common/storage_resilience.cpp, and the   *)
(* part handler of src/src_cgi/storage_gateway.cpp as far as it calls it.  *)
(*                                                                         *)
(* Every gateway worker is a process that serves one request at a time     *)
(* (docker/fastcgi_app/start.sh) and has a breaker of its own: a window of *)
(* the last puts, open for a time, then half-open for two probes.  Workers *)
(* meet at three Redis keys with a time to live: "open" stops everybody,   *)
(* "degraded" makes everybody probe, "probe" names the one who may.  One   *)
(* worker runs one request at a time, so the probe_generation it passes to *)
(* Record is always the current one.                                       *)
(*                                                                         *)
(* Durations are left out: an interval or a key may end at any time.  The  *)
(* smoothed round-trip time is kept as whether it is over its limit; its   *)
(* floor is the 2 s from which a put counts as timed out, so only a slow   *)
(* success can raise it.                                                   *)
(***************************************************************************)
EXTENDS Naturals, Sequences, FiniteSets

CONSTANTS Workers,
          Absent,       \* a key that is not there
          Other,        \* a value that is no worker's current probe_token
          Window,       \* samples kept (16)
          MinSamples,   \* HYDRA_BREAKER_MIN_SAMPLES (12)
          FailureRate,  \* HYDRA_BREAKER_FAILURE_RATE in thousandths (250)
          TimeoutRate,  \* HYDRA_BREAKER_TIMEOUT_RATE in thousandths (125)
          Outcomes,     \* what a put may come to, see below
          RedisFails,   \* whether Redis may be unreachable
          EndsEarly     \* the puts that may end without Record, see Kind

ASSUME BreakerAssumption ==
    /\ Absent \notin Workers /\ Other \notin Workers \cup {Absent}
    /\ Window \in Nat \ {0, 1} /\ MinSamples \in 1..Window
    /\ FailureRate \in 0..1000 /\ TimeoutRate \in 0..1000
    /\ Outcomes \subseteq {"ok", "slow", "failed", "late"} /\ "ok" \in Outcomes
    /\ RedisFails \in BOOLEAN /\ EndsEarly \subseteq {"ordinary", "probe"}

\* "failed" and "late" puts failed; "slow" and "late" ones took
\* HYDRA_BREAKER_TIMEOUT_MS or longer.
Succeeded(o) == o \in {"ok", "slow"}

VARIABLES pc,       \* where each worker's request is
          breaker,  \* BlobStoreCircuitBreaker::Impl of each worker
          redis,    \* the three keys
          redisUp, healthy

vars == <<pc, breaker, redis, redisUp, healthy>>

Keys == {"open", "degraded", "probe"}

\* local_open_until is zero ("never"), in the future ("open") or past ("over").
Closed == [until |-> "never", halfOpen |-> FALSE, probing |-> FALSE,
           wins |-> 0, samples |-> <<>>, rttBad |-> FALSE]

Breaker == [until : {"never", "open", "over"}, halfOpen : BOOLEAN,
            probing : BOOLEAN, wins : 0..1, samples : Seq(Outcomes),
            rttBad : BOOLEAN]

Init ==
    /\ pc = [w \in Workers |-> "idle"]
    /\ breaker = [w \in Workers |-> Closed]
    /\ redis = [k \in Keys |-> Absent]
    /\ redisUp = TRUE /\ healthy \in BOOLEAN

(***************************************************************************)
(* The Redis scripts.  A failed call leaves the keys alone.                *)
(***************************************************************************)
SharedOpen == redisUp /\ redis["open"] # Absent
SharedMarker == redisUp /\ redis["degraded"] # Absent

\* The script of PublishOpen begins with `if ttl<ARGV[1]': a number that
\* redis.call returned and an argument, which is a string.  Lua 5.1 raises an
\* error for operands of different types and the script ends there.
LuaType(operand) == IF operand = "ARGV[1]" THEN "string" ELSE "number"
LuaCompares(x, y) == LuaType(x) = LuaType(y)

PublishOpen(keys) ==
    IF redisUp /\ LuaCompares("ttl", "ARGV[1]")
    THEN [keys EXCEPT !["open"] = Other, !["degraded"] = Other]
    ELSE keys

\* A worker that draws a new probe_token no longer knows the old one.
Forgotten(w) == [redis EXCEPT !["probe"] = IF @ = w THEN Other ELSE @]

Acquires == redis["open"] = Absent /\ redis["probe"] = Absent

\* Mutant of CompleteProbeRecovery: the key is deleted whoever holds it.
CompleteAnyRecovery(w) ==
    redis' = [redis EXCEPT !["probe"] = Absent, !["degraded"] = Absent]

\* It does not connect again when the connection was lost before: the key
\* stays, and the token may be cleared or kept.
CompleteProbeRecovery(w) ==
    \/ /\ redisUp
       /\ redis' = IF redis["probe"] = w
                   THEN [redis EXCEPT !["probe"] = Absent, !["degraded"] = Absent]
                   ELSE redis
    \/ RedisFails /\ redis' \in {redis, Forgotten(w)}

(***************************************************************************)
(* Allow, one action per Redis command, and one for the half-open branch.  *)
(* A refusal ends the request.                                             *)
(***************************************************************************)
Goto(w, place) == pc' = [pc EXCEPT ![w] = place]

ProbeAgain(w) ==
    /\ pc[w] = "idle" /\ breaker[w].until # "open"
    /\ breaker[w].halfOpen /\ ~breaker[w].probing
    /\ breaker' = [breaker EXCEPT ![w].probing = TRUE]
    /\ Goto(w, "put")
    /\ UNCHANGED <<redis, redisUp, healthy>>

AskOpen(w) ==
    /\ pc[w] = "idle" /\ breaker[w].until # "open" /\ ~breaker[w].halfOpen
    /\ ~SharedOpen
    /\ Goto(w, IF breaker[w].until = "over" THEN "probe" ELSE "marker")
    /\ UNCHANGED <<breaker, redis, redisUp, healthy>>

AskMarker(w) ==
    /\ pc[w] = "marker"
    /\ Goto(w, IF SharedMarker THEN "probe" ELSE "put")
    /\ UNCHANGED <<breaker, redis, redisUp, healthy>>

Admit(w) ==
    /\ breaker' = [breaker EXCEPT ![w].halfOpen = TRUE, ![w].probing = TRUE]
    /\ Goto(w, "put")

TryProbe(w) ==
    /\ pc[w] = "probe"
    /\ UNCHANGED <<redisUp, healthy>>
    /\ \/ /\ ~redisUp
          /\ Admit(w)
          /\ redis' \in {redis, Forgotten(w)}
       \/ /\ redisUp /\ Acquires
          /\ Admit(w)
          /\ redis' = [redis EXCEPT !["probe"] = w]
       \/ /\ redisUp /\ ~Acquires
          /\ Goto(w, "idle")
          /\ redis' = Forgotten(w)
          /\ UNCHANGED breaker

(***************************************************************************)
(* Record.                                                                 *)
(***************************************************************************)
Many(s, rate, bad) ==
    1000 * Cardinality({i \in DOMAIN s : s[i] \in bad}) >= rate * Len(s)

OverLimit(b) ==
    /\ Len(b.samples) >= MinSamples
    /\ \/ Many(b.samples, FailureRate, {"failed", "late"})
       \/ Many(b.samples, TimeoutRate, {"slow", "late"})
       \/ b.rttBad

\* Mutant of Push: the window is never trimmed.
PushForever(samples, o) == Append(samples, o)

Push(samples, o) ==
    LET s == Append(samples, o)
    IN  IF Len(s) > Window THEN Tail(s) ELSE s

\* The smoothed time rises over its limit with slow successes only, and falls
\* below it with quick ones only.
Rtt(b, o) == IF o = "slow" THEN {b.rttBad, TRUE}
             ELSE IF o = "ok" THEN {b.rttBad, FALSE} ELSE {b.rttBad}

\* Mutant of OpenLocked: half_open_successes is not reset.
OpenLockedKeepingWins(b) ==
    IF b.until = "open" THEN b
    ELSE [b EXCEPT !.until = "open", !.halfOpen = FALSE, !.probing = FALSE]

OpenLocked(b) ==
    IF b.until = "open" THEN b
    ELSE [b EXCEPT !.until = "open", !.halfOpen = FALSE, !.probing = FALSE, !.wins = 0]

\* Mutant of ProbeReported: probe_in_flight stays set.
ProbeForgotten(b) == b

\* A first successful probe leaves the breaker half-open, for another.
ProbeReported(b) == [b EXCEPT !.probing = FALSE]
Recovered(b) == [b EXCEPT !.until = "never", !.halfOpen = FALSE, !.wins = 0]

Sampled(b, o, bad) == [b EXCEPT !.samples = Push(b.samples, o), !.rttBad = bad]

Record(w, o) ==
    /\ pc[w] = "put"
    /\ Goto(w, "idle")
    /\ UNCHANGED <<redisUp, healthy>>
    /\ \E bad \in Rtt(breaker[w], o) :
        LET b == Sampled(breaker[w], o, bad)
            probed == ProbeReported(b)
            Becomes(x) == breaker' = [breaker EXCEPT ![w] = x]
        IN  \/ /\ b.halfOpen /\ ~Succeeded(o)
               /\ Becomes(OpenLocked(probed)) /\ redis' = PublishOpen(redis)
            \/ /\ b.halfOpen /\ Succeeded(o) /\ b.wins = 0
               /\ Becomes([probed EXCEPT !.wins = 1]) /\ UNCHANGED redis
            \/ /\ b.halfOpen /\ Succeeded(o) /\ b.wins = 1
               /\ Becomes(Recovered(probed)) /\ CompleteProbeRecovery(w)
            \/ /\ ~b.halfOpen /\ ~OverLimit(b)
               /\ Becomes(b) /\ UNCHANGED redis
            \/ /\ ~b.halfOpen /\ OverLimit(b)
               /\ Becomes(OpenLocked(b)) /\ redis' = PublishOpen(redis)

\* While the blob store is well, puts succeed in time.
PutEnds(w) == \E o \in (IF healthy THEN {"ok"} ELSE Outcomes) : Record(w, o)

Kind(b) == IF b.halfOpen THEN "probe" ELSE "ordinary"

\* The handler allows a put and then ends without Record: its claim is denied
\* three times, or the chunk has a recorded blob that is finalized instead.
EndEarly(w) ==
    /\ pc[w] = "put" /\ Kind(breaker[w]) \in EndsEarly
    /\ Goto(w, "idle")
    /\ UNCHANGED <<breaker, redis, redisUp, healthy>>

(***************************************************************************)
(* Time and the environment.                                               *)
(***************************************************************************)
OpenEnds(w) ==
    /\ breaker[w].until = "open"
    /\ breaker' = [breaker EXCEPT ![w].until = "over"]
    /\ UNCHANGED <<pc, redis, redisUp, healthy>>

KeyExpires(k) ==
    /\ redis[k] # Absent
    /\ redis' = [redis EXCEPT ![k] = Absent]
    /\ UNCHANGED <<pc, breaker, redisUp, healthy>>

\* start.sh restarts the whole pool when a worker is gone.
RestartPool ==
    /\ pc' = [w \in Workers |-> "idle"]
    /\ breaker' = [w \in Workers |-> Closed]
    /\ redis' = [redis EXCEPT !["probe"] = IF @ \in Workers THEN Other ELSE @]
    /\ UNCHANGED <<redisUp, healthy>>

RedisChanges ==
    /\ RedisFails
    /\ redisUp' = ~redisUp
    /\ UNCHANGED <<pc, breaker, redis, healthy>>

HealthChanges ==
    /\ healthy' = ~healthy
    /\ UNCHANGED <<pc, breaker, redis, redisUp>>

Request(w) == ProbeAgain(w) \/ AskOpen(w)
Advance(w) == AskMarker(w) \/ TryProbe(w) \/ PutEnds(w)

Next ==
    \/ \E w \in Workers : Request(w) \/ Advance(w) \/ EndEarly(w) \/ OpenEnds(w)
    \/ \E k \in Keys : KeyExpires(k)
    \/ RestartPool \/ RedisChanges \/ HealthChanges

Spec == Init /\ [][Next]_vars

\* Parts keep coming, a request that was begun ends, and time passes.
FairSpec ==
    /\ Spec
    /\ \A w \in Workers : WF_vars(Request(w)) /\ WF_vars(Advance(w)) /\ WF_vars(OpenEnds(w))
    /\ \A k \in Keys : WF_vars(KeyExpires(k))

-----------------------------------------------------------------------------
\* Type invariant.  Only a half-open breaker has a probe out, or won one, and
\* the window never outgrows its size.
BreakerTypeOK ==
    /\ pc \in [Workers -> {"idle", "marker", "probe", "put"}]
    /\ breaker \in [Workers -> Breaker]
    /\ redis \in [Keys -> Workers \cup {Absent, Other}]
    /\ redisUp \in BOOLEAN /\ healthy \in BOOLEAN
    /\ \A w \in Workers :
        /\ Len(breaker[w].samples) <= Window
        /\ breaker[w].probing \/ breaker[w].wins > 0 => breaker[w].halfOpen
        /\ breaker[w].halfOpen => breaker[w].until # "open"

\* A breaker leaves its half-open state for the closed one only after two
\* successful puts in a row (Record 252-266), whatever was won before the
\* last failure.
Closes(old, new) ==
    old.halfOpen /\ ~new.halfOpen /\ new.until = "never" /\ new # Closed
TwoWins(s) == Len(s) >= 2 /\ Succeeded(s[Len(s)]) /\ Succeeded(s[Len(s) - 1])
TwoWinsClose ==
    [][\A w \in Workers :
        Closes(breaker[w], breaker'[w]) => TwoWins(breaker'[w].samples)]_vars

\* A worker's probe is taken from it by time alone: another worker's recovery
\* or probe never deletes or replaces a key that is not its own, even when
\* that worker held the key before (TryProbe 144-161, CompleteProbeRecovery
\* 163-175).
ProbeTakenByTimeOnly ==
    [][\A w, x \in Workers :
        w # x /\ redis["probe"] = w /\ pc'[x] # pc[x] => redis'["probe"] \in {w, Other}]_vars

\* Once the blob store is well and stays well, every worker ends up closed and
\* stays so, although failures from before the recovery remain in its window
\* and may open it again (Record 249-250, 269-284).
AllClosed == \A w \in Workers : breaker[w].until = "never" /\ ~breaker[w].halfOpen
Settles == <>[]healthy => <>[]AllClosed

\* "The local breaker must remain usable when Redis coordination is
\* unavailable" (test/storage_resilience_test.cpp:14): with a blob store that
\* is well and no Redis, no breaker refuses for ever.
Refuses(w) == breaker[w].until = "open" \/ (breaker[w].probing /\ pc[w] = "idle")
UsableWithoutRedis ==
    <>[](healthy /\ ~redisUp) => \A w \in Workers : []<>~Refuses(w)
=============================================================================
