----------------------- MODULE CircuitBreaker_proofs -----------------------
(***************************************************************************)
(* Proofs about CircuitBreaker, for any number of workers, any window and  *)
(* rates, and whatever Redis, the blob store and the pool do.              *)
(***************************************************************************)
EXTENDS CircuitBreaker, TLAPS

Last(s) == s[Len(s)]

\* What holds of every worker's breaker.  A win is remembered only while the
\* put that earned it is the last one of the window.
RowOK(b) ==
    /\ b \in Breaker
    /\ Len(b.samples) <= Window
    /\ b.probing \/ b.wins > 0 => b.halfOpen
    /\ b.halfOpen => b.until # "open"
    /\ b.wins = 1 => b.samples # <<>> /\ Succeeded(Last(b.samples))

\* A request that has passed the first guard of Allow meets no open breaker.
IInv ==
    /\ pc \in [Workers -> {"idle", "marker", "probe", "put"}]
    /\ redis \in [Keys -> Workers \cup {Absent, Other}]
    /\ redisUp \in BOOLEAN /\ healthy \in BOOLEAN
    /\ breaker \in [Workers -> Breaker]
    /\ \A w \in Workers : RowOK(breaker[w])
    /\ \A w \in Workers : pc[w] # "idle" => breaker[w].until # "open"

LEMMA WindowType == Window \in Nat /\ Window >= 2
BY BreakerAssumption DEF BreakerAssumption

\* The window takes a sample at its end and forgets at most its first one.
LEMMA PushWindow ==
    ASSUME NEW s \in Seq(Outcomes), Len(s) <= Window, NEW o \in Outcomes
    PROVE  /\ Push(s, o) \in Seq(Outcomes)
           /\ Len(Push(s, o)) \in 1..Window
           /\ Last(Push(s, o)) = o
           /\ s # <<>> => /\ Len(Push(s, o)) >= 2
                          /\ Push(s, o)[Len(Push(s, o)) - 1] = Last(s)
<1> DEFINE t == Append(s, o)
<1>1. /\ t \in Seq(Outcomes) /\ Len(t) = Len(s) + 1 /\ Len(s) \in Nat
      /\ t[Len(t)] = o /\ \A i \in 1..Len(s) : t[i] = s[i]
  OBVIOUS
<1>2. s # <<>> => Len(s) >= 1
  OBVIOUS
<1>3. CASE Len(t) <= Window
  <2>1. Push(s, o) = t
    BY <1>1, <1>3, WindowType DEF Push
  <2> QED
    BY <1>1, <1>2, <1>3, <2>1, WindowType DEF Last
<1>4. CASE Len(t) > Window
  <2>1. Push(s, o) = Tail(t)
    BY <1>4 DEF Push
  <2> HIDE DEF t
  <2>2. /\ Tail(t) \in Seq(Outcomes) /\ Len(Tail(t)) = Len(t) - 1
        /\ \A i \in 1..(Len(t) - 1) : Tail(t)[i] = t[i + 1]
    BY <1>1, <1>4, WindowType
  <2>3. Len(s) = Window /\ Len(t) >= 3
    BY <1>1, <1>4, WindowType
  <2>4. Tail(t)[Len(t) - 1] = t[Len(t)] /\ Tail(t)[Len(t) - 2] = t[Len(t) - 1]
    BY <1>1, <2>2, <2>3
  <2> QED
    BY <1>1, <2>1, <2>2, <2>3, <2>4, WindowType DEF Last
<1> QED
  BY <1>1, <1>3, <1>4, WindowType

-----------------------------------------------------------------------------
\* What Record makes of a breaker that is not open.
LEMMA SampledRow ==
    ASSUME NEW b, RowOK(b), NEW o \in Outcomes, NEW bad \in BOOLEAN
    PROVE  LET c == Sampled(b, o, bad)
           IN  /\ c \in Breaker /\ Len(c.samples) <= Window /\ c.samples # <<>>
               /\ Last(c.samples) = o
               /\ c.until = b.until /\ c.halfOpen = b.halfOpen
               /\ c.probing = b.probing /\ c.wins = b.wins
               /\ b.wins = 1 /\ Succeeded(o) => TwoWins(c.samples)
<1> DEFINE s == Push(b.samples, o)
<1>1. b \in Breaker /\ b.samples \in Seq(Outcomes) /\ Len(b.samples) <= Window
  BY DEF RowOK, Breaker
<1>2. /\ s \in Seq(Outcomes) /\ Len(s) \in 1..Window /\ Last(s) = o
      /\ b.samples # <<>> => Len(s) >= 2 /\ s[Len(s) - 1] = Last(b.samples)
  BY <1>1, PushWindow
<1>3. b.wins = 1 => b.samples # <<>> /\ Succeeded(Last(b.samples))
  BY DEF RowOK
<1> HIDE DEF s
<1>4. Sampled(b, o, bad) = [b EXCEPT !.samples = s, !.rttBad = bad]
  BY DEF Sampled, s
<1>5. s # <<>> /\ Len(s) <= Window
  BY <1>2, WindowType
<1>6. b.wins = 1 /\ Succeeded(o) => TwoWins(s)
  BY <1>2, <1>3 DEF TwoWins, Last
<1>7. [b EXCEPT !.samples = s, !.rttBad = bad] \in Breaker
  BY <1>1, <1>2 DEF Breaker
<1> QED
  BY <1>1, <1>2, <1>4, <1>5, <1>6, <1>7 DEF Breaker

LEMMA OpenedRow ==
    ASSUME NEW c \in Breaker, Len(c.samples) <= Window, c.until # "open"
    PROVE  RowOK(OpenLocked(c)) /\ OpenLocked(c).until = "open"
<1>1. OpenLocked(c) =
        [until |-> "open", halfOpen |-> FALSE, probing |-> FALSE, wins |-> 0,
         samples |-> c.samples, rttBad |-> c.rttBad]
  BY DEF OpenLocked, Breaker
<1>2. c.samples \in Seq(Outcomes) /\ c.rttBad \in BOOLEAN
  BY DEF Breaker
<1> QED
  BY <1>1, <1>2 DEF RowOK, Breaker

LEMMA ReportedRow ==
    ASSUME NEW c \in Breaker
    PROVE  /\ ProbeReported(c) \in Breaker
           /\ ProbeReported(c).samples = c.samples
           /\ ProbeReported(c).until = c.until
           /\ ProbeReported(c).halfOpen = c.halfOpen
           /\ ProbeReported(c).probing = FALSE
BY DEF ProbeReported, Breaker

LEMMA FirstWinRow ==
    ASSUME NEW p \in Breaker, Len(p.samples) <= Window, p.until # "open",
           p.halfOpen = TRUE, p.samples # <<>>, Succeeded(Last(p.samples))
    PROVE  LET q == [p EXCEPT !.wins = 1]
           IN  RowOK(q) /\ q.halfOpen = p.halfOpen /\ q.until = p.until
<1> DEFINE q == [p EXCEPT !.wins = 1]
<1>1. /\ q \in Breaker /\ q.wins = 1 /\ q.samples = p.samples
      /\ q.until = p.until /\ q.halfOpen = p.halfOpen
  BY DEF Breaker
<1> HIDE DEF q
<1>2. RowOK(q)
  BY <1>1 DEF RowOK
<1> QED
  BY <1>1, <1>2 DEF q

LEMMA RecoveredRow ==
    ASSUME NEW p \in Breaker, Len(p.samples) <= Window, p.probing = FALSE
    PROVE  /\ RowOK(Recovered(p)) /\ Recovered(p).samples = p.samples
           /\ Recovered(p).until = "never"
<1>1. /\ Recovered(p).samples = p.samples /\ Recovered(p).until = "never"
      /\ Recovered(p).halfOpen = FALSE /\ Recovered(p).probing = FALSE
      /\ Recovered(p).wins = 0
  BY DEF Recovered, Breaker
<1>2. Recovered(p) \in Breaker
  <2> DEFINE q == [p EXCEPT !.until = "never"]
             r == [q EXCEPT !.halfOpen = FALSE]
  <2>1. q \in Breaker
    BY DEF Breaker
  <2>2. Recovered(p) = [r EXCEPT !.wins = 0]
    BY DEF Recovered
  <2> HIDE DEF q
  <2>3. r \in Breaker
    BY <2>1 DEF Breaker
  <2> HIDE DEF r
  <2> QED
    BY <2>2, <2>3 DEF Breaker
<1> QED
  BY <1>1, <1>2 DEF RowOK

LEMMA KeysKept ==
    ASSUME redis \in [Keys -> Workers \cup {Absent, Other}], NEW w \in Workers
    PROVE  /\ PublishOpen(redis) \in [Keys -> Workers \cup {Absent, Other}]
           /\ Forgotten(w) \in [Keys -> Workers \cup {Absent, Other}]
           /\ CompleteProbeRecovery(w) => redis' \in [Keys -> Workers \cup {Absent, Other}]
<1>1. Forgotten(w) \in [Keys -> Workers \cup {Absent, Other}]
  BY DEF Forgotten, Keys
<1>2. PublishOpen(redis) \in [Keys -> Workers \cup {Absent, Other}]
  BY DEF PublishOpen, Keys
<1>3. [redis EXCEPT !["probe"] = Absent, !["degraded"] = Absent]
        \in [Keys -> Workers \cup {Absent, Other}]
  BY DEF Keys
<1> QED
  BY <1>1, <1>2, <1>3 DEF CompleteProbeRecovery
-----------------------------------------------------------------------------
\* A step that gives one worker a sound row and a place that fits it.
LEMMA RowStep ==
    ASSUME IInv, NEW w \in Workers, NEW row, RowOK(row),
           NEW place \in {"idle", "marker", "probe", "put"},
           place = "idle" \/ row.until # "open",
           breaker' = [breaker EXCEPT ![w] = row], Goto(w, place),
           redis' \in [Keys -> Workers \cup {Absent, Other}],
           redisUp' \in BOOLEAN, healthy' \in BOOLEAN,
           Closes(breaker[w], row) => TwoWins(row.samples)
    PROVE  /\ IInv'
           /\ \A x \in Workers : Closes(breaker[x], breaker'[x]) => TwoWins(breaker'[x].samples)
<1>1. row \in Breaker /\ breaker \in [Workers -> Breaker]
  BY DEF RowOK, IInv
<1>2. /\ breaker' \in [Workers -> Breaker] /\ breaker'[w] = row
      /\ \A x \in Workers \ {w} : breaker'[x] = breaker[x]
  BY <1>1
<1>3. /\ pc' \in [Workers -> {"idle", "marker", "probe", "put"}] /\ pc'[w] = place
      /\ \A x \in Workers \ {w} : pc'[x] = pc[x]
  BY DEF Goto, IInv
<1>4. \A x \in Workers : RowOK(breaker'[x])
  BY <1>2 DEF IInv
<1>5. \A x \in Workers : pc'[x] # "idle" => breaker'[x].until # "open"
  BY <1>2, <1>3 DEF IInv
<1>6. \A x \in Workers \ {w} : ~Closes(breaker[x], breaker'[x])
  BY <1>2 DEF Closes
<1> QED
  BY <1>2, <1>3, <1>4, <1>5, <1>6 DEF IInv

LEMMA RecordStep ==
    ASSUME IInv, NEW w \in Workers, NEW o \in Outcomes, Record(w, o)
    PROVE  /\ IInv'
           /\ \A x \in Workers : Closes(breaker[x], breaker'[x]) => TwoWins(breaker'[x].samples)
<1>1. /\ pc[w] = "put" /\ Goto(w, "idle") /\ UNCHANGED <<redisUp, healthy>>
      /\ RowOK(breaker[w]) /\ breaker[w].until # "open" /\ breaker[w] \in Breaker
      /\ redis \in [Keys -> Workers \cup {Absent, Other}]
      /\ redisUp' \in BOOLEAN /\ healthy' \in BOOLEAN
  BY DEF Record, IInv
<1>2. Rtt(breaker[w], o) \subseteq BOOLEAN
  BY <1>1 DEF Rtt, Breaker
<1> DEFINE Become(x, keys) == breaker' = [breaker EXCEPT ![w] = x] /\ redis' = keys
<1>3. PICK bad \in BOOLEAN :
        LET b == Sampled(breaker[w], o, bad)
        IN  \/ b.halfOpen /\ Become(OpenLocked(ProbeReported(b)), PublishOpen(redis))
            \/ /\ b.halfOpen /\ Succeeded(o)
               /\ Become([ProbeReported(b) EXCEPT !.wins = 1], redis)
            \/ /\ b.halfOpen /\ Succeeded(o) /\ b.wins = 1
               /\ breaker' = [breaker EXCEPT ![w] = Recovered(ProbeReported(b))]
               /\ CompleteProbeRecovery(w)
            \/ ~b.halfOpen /\ Become(b, redis)
            \/ ~b.halfOpen /\ Become(OpenLocked(b), PublishOpen(redis))
  BY <1>2 DEF Record
<1> DEFINE b == Sampled(breaker[w], o, bad)
           p == ProbeReported(b)
<1>4. /\ b \in Breaker /\ Len(b.samples) <= Window /\ b.samples # <<>>
      /\ Last(b.samples) = o /\ b.until # "open"
      /\ b.halfOpen = breaker[w].halfOpen
      /\ b.probing = breaker[w].probing /\ b.wins = breaker[w].wins
      /\ breaker[w].wins = 1 /\ Succeeded(o) => TwoWins(b.samples)
  BY <1>1, SampledRow
<1> HIDE DEF b
<1>5. /\ p \in Breaker /\ p.samples = b.samples /\ p.until = b.until
      /\ p.halfOpen = b.halfOpen /\ p.probing = FALSE
  BY <1>4, ReportedRow
<1> HIDE DEF p
<1>6. CASE b.halfOpen /\ Become(OpenLocked(p), PublishOpen(redis))
  <2>1. RowOK(OpenLocked(p)) /\ OpenLocked(p).until = "open"
    BY <1>4, <1>5, OpenedRow
  <2>2. ~Closes(breaker[w], OpenLocked(p))
    BY <2>1 DEF Closes
  <2> QED
    BY <1>1, <1>6, <2>1, <2>2, KeysKept, RowStep
<1>7. CASE b.halfOpen /\ Succeeded(o) /\ Become([p EXCEPT !.wins = 1], redis)
  <2>1. b.halfOpen = TRUE
    BY <1>4, <1>7 DEF Breaker
  <2>2. /\ RowOK([p EXCEPT !.wins = 1])
        /\ [p EXCEPT !.wins = 1].halfOpen = p.halfOpen
        /\ [p EXCEPT !.wins = 1].until = p.until
    BY <1>4, <1>5, <1>7, <2>1, FirstWinRow
  <2>3. ~Closes(breaker[w], [p EXCEPT !.wins = 1])
    BY <1>5, <2>1, <2>2 DEF Closes
  <2> QED
    BY <1>1, <1>7, <2>2, <2>3, RowStep
<1>8. CASE /\ b.halfOpen /\ Succeeded(o) /\ b.wins = 1
           /\ breaker' = [breaker EXCEPT ![w] = Recovered(p)]
           /\ CompleteProbeRecovery(w)
  <2>1. RowOK(Recovered(p)) /\ Recovered(p).samples = b.samples
    BY <1>4, <1>5, RecoveredRow
  <2>2. TwoWins(Recovered(p).samples)
    BY <1>4, <1>8, <2>1
  <2> QED
    BY <1>1, <1>8, <2>1, <2>2, KeysKept, RowStep
<1>9. CASE ~b.halfOpen /\ Become(b, redis)
  <2>1. RowOK(b)
    BY <1>1, <1>4, <1>9 DEF RowOK
  <2>2. ~Closes(breaker[w], b)
    BY <1>4, <1>9 DEF Closes
  <2> QED
    BY <1>1, <1>9, <2>1, <2>2, RowStep
<1>10. CASE ~b.halfOpen /\ Become(OpenLocked(b), PublishOpen(redis))
  <2>1. RowOK(OpenLocked(b)) /\ OpenLocked(b).until = "open"
    BY <1>4, OpenedRow
  <2>2. ~Closes(breaker[w], OpenLocked(b))
    BY <2>1 DEF Closes
  <2> QED
    BY <1>1, <1>10, <2>1, <2>2, KeysKept, RowStep
<1> QED
  BY <1>3, <1>6, <1>7, <1>8, <1>9, <1>10 DEF b, p
-----------------------------------------------------------------------------
LEMMA ClosedRow == RowOK(Closed) /\ Closed \in Breaker
BY WindowType DEF RowOK, Closed, Breaker

LEMMA InitInv == Init => IInv
BY ClosedRow DEF Init, IInv, Closed

\* A breaker that changes only whether its interval is over, or whether a
\* probe is out, stays sound.
LEMMA OverRow ==
    ASSUME NEW b, RowOK(b), b.until = "open"
    PROVE  LET over == [b EXCEPT !.until = "over"]
           IN  RowOK(over) /\ over.until = "over" /\ ~Closes(b, over)
<1> DEFINE over == [b EXCEPT !.until = "over"]
<1>1. b \in Breaker
  BY DEF RowOK
<1>2. /\ over \in Breaker /\ over.until = "over" /\ over.halfOpen = b.halfOpen
      /\ over.samples = b.samples /\ over.probing = b.probing /\ over.wins = b.wins
  BY <1>1 DEF Breaker
<1> HIDE DEF over
<1>3. RowOK(over) /\ ~Closes(b, over)
  BY <1>2 DEF RowOK, Closes
<1> QED
  BY <1>2, <1>3 DEF over

LEMMA ProbingRow ==
    ASSUME NEW b, RowOK(b), b.until # "open"
    PROVE  LET a == [b EXCEPT !.halfOpen = TRUE, !.probing = TRUE]
               again == [b EXCEPT !.probing = TRUE]
           IN  /\ RowOK(a) /\ a.until # "open" /\ ~Closes(b, a)
               /\ b.halfOpen => RowOK(again) /\ again.until # "open" /\ ~Closes(b, again)
<1> DEFINE h == [b EXCEPT !.halfOpen = TRUE]
           a == [h EXCEPT !.probing = TRUE]
           again == [b EXCEPT !.probing = TRUE]
<1>1. b \in Breaker
  BY DEF RowOK
<1>2. /\ h \in Breaker /\ h.until = b.until /\ h.halfOpen = TRUE
      /\ h.samples = b.samples /\ h.wins = b.wins
  BY <1>1 DEF Breaker
<1>3. /\ again \in Breaker /\ again.until = b.until /\ again.halfOpen = b.halfOpen
      /\ again.samples = b.samples /\ again.wins = b.wins
  BY <1>1 DEF Breaker
<1> HIDE DEF h
<1>4. /\ a \in Breaker /\ a.until = b.until /\ a.halfOpen = TRUE
      /\ a.samples = b.samples /\ a.wins = b.wins
  BY <1>2 DEF Breaker
<1> HIDE DEF a, again
<1>5. RowOK(a) /\ a.until # "open" /\ ~Closes(b, a)
  BY <1>4 DEF RowOK, Closes
<1>6. b.halfOpen => RowOK(again) /\ again.until # "open" /\ ~Closes(b, again)
  BY <1>3 DEF RowOK, Closes
<1>7. a = [b EXCEPT !.halfOpen = TRUE, !.probing = TRUE]
  BY DEF a, h
<1> QED
  BY <1>5, <1>6, <1>7 DEF again

\* Steps that leave every breaker alone and do not let a request past an open one.
LEMMA QuietStep ==
    ASSUME IInv, UNCHANGED breaker,
           pc' \in [Workers -> {"idle", "marker", "probe", "put"}],
           \A w \in Workers : pc'[w] = "idle" \/ breaker[w].until # "open",
           redis' \in [Keys -> Workers \cup {Absent, Other}],
           redisUp' \in BOOLEAN, healthy' \in BOOLEAN
    PROVE  /\ IInv'
           /\ \A x \in Workers : Closes(breaker[x], breaker'[x]) => TwoWins(breaker'[x].samples)
<1>1. \A x \in Workers : ~Closes(breaker[x], breaker[x])
  BY DEF Closes
<1>2. IInv'
  BY DEF IInv
<1> QED
  BY <1>1, <1>2

LEMMA RequestStep ==
    ASSUME IInv, NEW w \in Workers, Request(w) \/ AskMarker(w) \/ TryProbe(w)
    PROVE  /\ IInv'
           /\ \A x \in Workers : Closes(breaker[x], breaker'[x]) => TwoWins(breaker'[x].samples)
<1>1. /\ pc \in [Workers -> {"idle", "marker", "probe", "put"}]
      /\ redis \in [Keys -> Workers \cup {Absent, Other}]
      /\ redisUp \in BOOLEAN /\ healthy \in BOOLEAN /\ RowOK(breaker[w])
      /\ \A x \in Workers : pc[x] = "idle" \/ breaker[x].until # "open"
  BY DEF IInv
<1>2. CASE ProbeAgain(w)
  BY <1>1, <1>2, ProbingRow, RowStep DEF ProbeAgain
<1>3. CASE AskOpen(w)
  <2>1. pc' \in [Workers -> {"idle", "marker", "probe", "put"}]
    BY <1>1, <1>3 DEF AskOpen, Goto
  <2>2. \A x \in Workers : pc'[x] = "idle" \/ breaker[x].until # "open"
    BY <1>1, <1>3 DEF AskOpen, Goto
  <2> QED
    BY <1>1, <1>3, <2>1, <2>2, QuietStep DEF AskOpen
<1>4. CASE AskMarker(w)
  <2>1. pc' \in [Workers -> {"idle", "marker", "probe", "put"}]
    BY <1>1, <1>4 DEF AskMarker, Goto
  <2>2. \A x \in Workers : pc'[x] = "idle" \/ breaker[x].until # "open"
    BY <1>1, <1>4 DEF AskMarker, Goto
  <2> QED
    BY <1>1, <1>4, <2>1, <2>2, QuietStep DEF AskMarker
<1>5. CASE TryProbe(w)
  <2>1. /\ redis' \in [Keys -> Workers \cup {Absent, Other}]
        /\ UNCHANGED <<redisUp, healthy>> /\ pc[w] = "probe"
    <3>1. [redis EXCEPT !["probe"] = w] \in [Keys -> Workers \cup {Absent, Other}]
      BY <1>1 DEF Keys
    <3> QED
      BY <1>1, <1>5, <3>1, KeysKept DEF TryProbe
  <2>2. CASE Admit(w)
    <3> DEFINE a == [breaker[w] EXCEPT !.halfOpen = TRUE, !.probing = TRUE]
    <3>1. breaker' = [breaker EXCEPT ![w] = a] /\ Goto(w, "put")
      BY <2>2 DEF Admit
    <3>2. RowOK(a) /\ a.until # "open" /\ ~Closes(breaker[w], a)
      BY <1>1, <2>1, ProbingRow
    <3> HIDE DEF a
    <3> QED
      BY <1>1, <2>1, <3>1, <3>2, RowStep
  <2>3. CASE Goto(w, "idle") /\ UNCHANGED breaker
    <3>1. pc' \in [Workers -> {"idle", "marker", "probe", "put"}]
      BY <1>1, <2>3 DEF Goto
    <3>2. \A x \in Workers : pc'[x] = "idle" \/ breaker[x].until # "open"
      BY <1>1, <2>3 DEF Goto
    <3> QED
      BY <1>1, <2>1, <2>3, <3>1, <3>2, QuietStep
  <2> QED
    BY <1>5, <2>2, <2>3 DEF TryProbe
<1> QED
  BY <1>2, <1>3, <1>4, <1>5 DEF Request

LEMMA EnvironmentStep ==
    ASSUME IInv,
           \/ \E w \in Workers : EndEarly(w) \/ OpenEnds(w)
           \/ \E k \in Keys : KeyExpires(k)
           \/ RestartPool \/ RedisChanges \/ HealthChanges
    PROVE  /\ IInv'
           /\ \A x \in Workers : Closes(breaker[x], breaker'[x]) => TwoWins(breaker'[x].samples)
<1>1. /\ pc \in [Workers -> {"idle", "marker", "probe", "put"}]
      /\ redis \in [Keys -> Workers \cup {Absent, Other}]
      /\ redisUp \in BOOLEAN /\ healthy \in BOOLEAN
      /\ \A x \in Workers : pc[x] = "idle" \/ breaker[x].until # "open"
  BY DEF IInv
<1>2. ASSUME NEW w \in Workers, EndEarly(w)
      PROVE  /\ IInv'
             /\ \A x \in Workers : Closes(breaker[x], breaker'[x]) => TwoWins(breaker'[x].samples)
  <2>1. pc' \in [Workers -> {"idle", "marker", "probe", "put"}]
    BY <1>1, <1>2 DEF EndEarly, Goto
  <2>2. \A x \in Workers : pc'[x] = "idle" \/ breaker[x].until # "open"
    BY <1>1, <1>2 DEF EndEarly, Goto
  <2> QED
    BY <1>1, <1>2, <2>1, <2>2, QuietStep DEF EndEarly
<1>3. ASSUME NEW w \in Workers, OpenEnds(w)
      PROVE  /\ IInv'
             /\ \A x \in Workers : Closes(breaker[x], breaker'[x]) => TwoWins(breaker'[x].samples)
  <2> DEFINE over == [breaker[w] EXCEPT !.until = "over"]
  <2>1. /\ breaker' = [breaker EXCEPT ![w] = over] /\ pc' = pc
        /\ UNCHANGED <<redis, redisUp, healthy>> /\ breaker[w].until = "open"
    BY <1>3 DEF OpenEnds
  <2>2. RowOK(over) /\ over.until = "over" /\ ~Closes(breaker[w], over)
    BY <2>1, OverRow DEF IInv
  <2> HIDE DEF over
  <2>3. Goto(w, pc[w]) /\ pc[w] \in {"idle", "marker", "probe", "put"}
    BY <1>1, <2>1 DEF Goto
  <2> QED
    BY <1>1, <2>1, <2>2, <2>3, RowStep
<1>4. ASSUME NEW k \in Keys, KeyExpires(k)
      PROVE  /\ IInv'
             /\ \A x \in Workers : Closes(breaker[x], breaker'[x]) => TwoWins(breaker'[x].samples)
  BY <1>1, <1>4, QuietStep DEF KeyExpires
<1>5. CASE RestartPool
  <2>1. /\ pc' \in [Workers -> {"idle", "marker", "probe", "put"}]
        /\ \A x \in Workers : pc'[x] = "idle"
        /\ breaker' \in [Workers -> Breaker] /\ \A x \in Workers : breaker'[x] = Closed
    BY <1>5, ClosedRow DEF RestartPool
  <2>2. redis' \in [Keys -> Workers \cup {Absent, Other}]
    BY <1>1, <1>5 DEF RestartPool, Keys
  <2>3. UNCHANGED <<redisUp, healthy>>
    BY <1>5 DEF RestartPool
  <2> QED
    BY <1>1, <2>1, <2>2, <2>3, ClosedRow DEF IInv, Closes
<1>6. CASE RedisChanges \/ HealthChanges
  BY <1>1, <1>6, QuietStep DEF RedisChanges, HealthChanges
<1> QED
  BY <1>2, <1>3, <1>4, <1>5, <1>6

LEMMA NextStep ==
    ASSUME IInv, [Next]_vars
    PROVE  /\ IInv'
           /\ \A x \in Workers : Closes(breaker[x], breaker'[x]) => TwoWins(breaker'[x].samples)
<1>1. ASSUME NEW w \in Workers, PutEnds(w)
      PROVE  /\ IInv'
             /\ \A x \in Workers : Closes(breaker[x], breaker'[x]) => TwoWins(breaker'[x].samples)
  <2>1. PICK o \in Outcomes : Record(w, o)
    BY <1>1, BreakerAssumption DEF PutEnds, BreakerAssumption
  <2> QED
    BY <2>1, RecordStep
<1>2. CASE UNCHANGED vars
  BY <1>2, QuietStep DEF vars, IInv
<1> QED
  BY <1>1, <1>2, RequestStep, EnvironmentStep DEF Next, Advance

\* Every reachable state has the types of the code's members, only a half-open
\* breaker has a probe out or a win to remember, and the window keeps its size.
THEOREM BreakerTypeCorrect == Spec => []BreakerTypeOK
<1>1. IInv /\ [Next]_vars => IInv'
  BY NextStep
<1>2. IInv => BreakerTypeOK
  BY DEF IInv, BreakerTypeOK, RowOK
<1> QED
  BY InitInv, <1>1, <1>2, PTL DEF Spec

\* No breaker closes on the strength of a win that a failure has cancelled, for
\* any window of at least two samples: the last two puts succeeded.
THEOREM ClosesAfterTwoWins == Spec => TwoWinsClose
<1>1. IInv /\ [Next]_vars => IInv'
  BY NextStep
<1>2. IInv /\ [Next]_vars
        => [\A w \in Workers :
              Closes(breaker[w], breaker'[w]) => TwoWins(breaker'[w].samples)]_vars
  BY NextStep
<1> QED
  BY InitInv, <1>1, <1>2, PTL DEF Spec, TwoWinsClose
-----------------------------------------------------------------------------
\* What one worker's command does to a probe key that another worker holds.
LEMMA OthersProbe ==
    ASSUME redis \in [Keys -> Workers \cup {Absent, Other}],
           NEW w \in Workers, NEW y \in Workers, w # y, redis["probe"] = w,
           \/ redis' = redis
           \/ redis' = PublishOpen(redis)
           \/ redis' = Forgotten(y)
           \/ CompleteProbeRecovery(y)
    PROVE  redis'["probe"] = w
<1>1. PublishOpen(redis)["probe"] = w
  BY DEF PublishOpen, Keys
<1>2. Forgotten(y)["probe"] = w
  BY DEF Forgotten, Keys
<1> QED
  BY <1>1, <1>2 DEF CompleteProbeRecovery

LEMMA ProbeStep ==
    ASSUME IInv, Next, NEW w \in Workers, NEW x \in Workers, w # x,
           redis["probe"] = w, pc'[x] # pc[x]
    PROVE  redis'["probe"] \in {w, Other}
<1>1. /\ redis \in [Keys -> Workers \cup {Absent, Other}]
      /\ pc \in [Workers -> {"idle", "marker", "probe", "put"}]
      /\ Absent \notin Workers
  BY BreakerAssumption DEF IInv, BreakerAssumption
\* Only its own steps move a request, and a restart that of every worker.
<1>2. ASSUME NEW y \in Workers, NEW place, Goto(y, place) PROVE y = x
  BY <1>1, <1>2 DEF Goto
<1>3. ASSUME NEW y \in Workers,
             Request(y) \/ AskMarker(y) \/ EndEarly(y) \/ OpenEnds(y)
      PROVE  redis'["probe"] = w
  BY <1>3 DEF Request, ProbeAgain, AskOpen, AskMarker, EndEarly, OpenEnds
<1>4. ASSUME NEW y \in Workers, TryProbe(y) PROVE redis'["probe"] = w
  <2>1. y = x
    BY <1>2, <1>4 DEF TryProbe, Admit
  <2>2. ~Acquires
    BY <1>1 DEF Acquires
  <2> QED
    BY <1>1, <1>4, <2>1, <2>2, OthersProbe DEF TryProbe
<1>5. ASSUME NEW y \in Workers, PutEnds(y) PROVE redis'["probe"] = w
  <2>1. PICK o \in Outcomes : Record(y, o)
    BY <1>5, BreakerAssumption DEF PutEnds, BreakerAssumption
  <2>2. y = x
    BY <1>2, <2>1 DEF Record
  <2>3. \/ redis' = redis
        \/ redis' = PublishOpen(redis)
        \/ CompleteProbeRecovery(y)
    BY <2>1 DEF Record
  <2> QED
    BY <1>1, <2>2, <2>3, OthersProbe
<1>6. CASE RestartPool
  BY <1>1, <1>6 DEF RestartPool, Keys
<1>7. CASE (\E k \in Keys : KeyExpires(k)) \/ RedisChanges \/ HealthChanges
  BY <1>7 DEF KeyExpires, RedisChanges, HealthChanges
<1> QED
  BY <1>3, <1>4, <1>5, <1>6, <1>7 DEF Next, Advance

\* No other worker deletes or replaces the key of a probe that is out, however
\* the two are interleaved and whether or not Redis answers: it ends by its
\* time to live, by its holder, or with the whole pool.
THEOREM ProbesKept == Spec => ProbeTakenByTimeOnly
<1>1. IInv /\ [Next]_vars => IInv'
  BY NextStep
<1>2. IInv /\ [Next]_vars
        => [\A w, x \in Workers :
              w # x /\ redis["probe"] = w /\ pc'[x] # pc[x]
                => redis'["probe"] \in {w, Other}]_vars
  BY ProbeStep
<1> QED
  BY InitInv, <1>1, <1>2, PTL DEF Spec, ProbeTakenByTimeOnly
=============================================================================
