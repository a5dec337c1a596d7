----------------------------- MODULE ProcessProofs -----------------------------
(***************************************************************************)
(* Theorems about Process, for any number of requests and connections and  *)
(* any deadlines in the order TimeoutsAssumption states.                   *)
(***************************************************************************)
EXTENDS Process, TLAPS

LEMMA Timeouts ==
  /\ HandlerTimeout \in Nat /\ HandlerTimeout > 0
  /\ ReadyTimeout \in Nat /\ ReadyTimeout > 0
  /\ FetchTimeout \in Nat /\ FetchTimeout > 0
  /\ RefreshTimeout \in Nat /\ RefreshTimeout > 0
  /\ WriteTimeout \in Nat /\ WriteTimeout > 0
  /\ DrainTimeout \in Nat /\ DrainTimeout > 0
  /\ Interval \in Nat /\ Interval > 0
  /\ Retention \in Nat /\ Retention > 0
  /\ ReadyTimeout <= HandlerTimeout
  /\ HandlerTimeout < WriteTimeout
  /\ FetchTimeout <= RefreshTimeout
  <1>1. \A n \in Nat \ {0} : n \in Nat /\ n > 0
    OBVIOUS
  <1> QED
    BY <1>1, TimeoutsAssumption

USE NoneAssumption, Timeouts DEF Kind, Stage, Phase

LEMMA TypeInit == Init => TypeOK
  <1> SUFFICES ASSUME Init PROVE TypeOK
    OBVIOUS
  <1>1. tick \in 1..Interval /\ drain \in 0..DrainTimeout
    BY DEF Init
  <1>2. req \in [Request -> Job \cup {None}]
    BY DEF Init
  <1> QED
    BY <1>1, <1>2 DEF Init, TypeOK

\* The step of a handler is a step in its own slot of req: it leaves it, or goes
\* on from its lookup to a fetch, or from there to the write.
LEMMA HandlerStep ==
  ASSUME TypeOK, NEW r \in Request, Step(r)
  PROVE  /\ req'[r] \in Job \cup {None}
         /\ req' = [req EXCEPT ![r] = req'[r]]
         /\ req'[r] # None =>
              /\ req[r] # None /\ req'[r].age = req[r].age
              /\ \/ /\ req[r].stage = "lookup" /\ req'[r].stage = "fetch"
                    /\ req'[r].left = FetchTimeout
                 \/ /\ req[r].stage = "fetch" /\ req'[r].stage = "store"
                    /\ req'[r].left = req[r].left + RefreshTimeout - FetchTimeout
         /\ row' \in {row, 0}
  <1> USE DEF TypeOK
  <1>1. CASE LookupAnswer(r) \/ FetchFail(r)
    BY <1>1 DEF LookupAnswer, FetchFail, Answer
  <1>2. CASE Store(r)
    <2>1. req' = [req EXCEPT ![r] = None] /\ row' \in {row, 0}
      BY <1>2 DEF Store, Answer
    <2> QED
      BY <2>1
  <1>3. CASE Refresh(r)
    <2> DEFINE j == [req[r] EXCEPT !.stage = "fetch", !.left = FetchTimeout, !.conn = FALSE]
    <2>1. req[r] \in Job /\ req[r] # None /\ req[r].stage = "lookup"
      BY <1>3 DEF Refresh
    <2>2. j \in Job /\ j.stage = "fetch" /\ j.age = req[r].age /\ j.left = FetchTimeout
      BY <2>1 DEF Job
    <2>3. req' = [req EXCEPT ![r] = j] /\ row' = row
      BY <1>3 DEF Refresh
    <2> HIDE DEF j
    <2> QED
      BY <2>1, <2>2, <2>3
  <1>4. CASE Fetched(r)
    <2> DEFINE j == [req[r] EXCEPT !.stage = "store",
                                   !.left = req[r].left + RefreshTimeout - FetchTimeout]
    <2>1. /\ req[r] \in Job /\ req[r] # None /\ req[r].stage = "fetch"
          /\ req[r].left + RefreshTimeout - FetchTimeout \in Nat
      BY <1>4 DEF Fetched, Job
    <2>2. /\ j \in Job /\ j.stage = "store" /\ j.age = req[r].age
          /\ j.left = req[r].left + RefreshTimeout - FetchTimeout
      BY <2>1 DEF Job
    <2>3. req' = [req EXCEPT ![r] = j] /\ row' = row
      BY <1>4 DEF Fetched
    <2> HIDE DEF j
    <2> QED
      BY <2>1, <2>2, <2>3
  <1> QED
    BY <1>1, <1>2, <1>3, <1>4 DEF Step

\* What the clock does to a handler.
Aged(j) == [j EXCEPT !.age = Older(@, MaxWait), !.left = @ - 1]

LEMMA AgedTyped ==
  ASSUME NEW j \in Job, j.left > 0
  PROVE  /\ Aged(j) \in Job /\ Aged(j) # None
         /\ Aged(j).stage = j.stage /\ Aged(j).left = j.left - 1
         /\ Aged(j).age \in Nat /\ Aged(j).age <= j.age + 1
  <1>1. j.age \in Nat /\ j.left \in Nat /\ j.left - 1 \in Nat
    BY DEF Job
  <1>2. Older(j.age, MaxWait) \in Nat /\ Older(j.age, MaxWait) <= j.age + 1
    BY <1>1 DEF Older, MaxWait
  <1>3. Aged(j) \in Job
    BY <1>1, <1>2 DEF Aged, Job
  <1> QED
    BY <1>1, <1>2, <1>3 DEF Aged, Job

LEMMA TypeStep == TypeOK /\ [Next]_vars => TypeOK'
  <1> SUFFICES ASSUME TypeOK, [Next]_vars PROVE TypeOK'
    OBVIOUS
  <1> USE DEF TypeOK, sweeper
  <1>1. CASE Start
    <2>1. PICK file \in File, env \in Env :
            IF Load(file, env) = Invalid
            THEN phase' = "stopped" /\ code' = 1 /\ UNCHANGED boot
            ELSE phase' = "connect" /\ code' = None
                 /\ boot' = Booted(Load(file, env), file, env)
      BY <1>1 DEF Start
    <2>2. (boot' # None) <=> (phase' \in {"connect", "listen"})
      BY <1>1, <2>1 DEF Start
    <2>3. phase' \in {"stopped", "connect"} /\ code' \in {1, None}
      BY <2>1
    <2>4. phase = "stopped" /\ cut' = FALSE
          /\ UNCHANGED <<open, req, pool, cleanup, sweep, pending, doomed, swept, tick, row,
                         drain>>
      BY <1>1 DEF Start
    <2> QED
      BY <2>2, <2>3, <2>4
  <1>2. CASE Connect
    <2>1. tick' \in 1..Interval
      BY <1>2 DEF Connect
    <2> QED
      BY <1>2, <2>1 DEF Connect
  <1>3. CASE ConnectFail \/ Listen \/ ServeFail
    <2>1. CASE ConnectFail
      BY <2>1 DEF ConnectFail
    <2>2. CASE Listen
      BY <2>2 DEF Listen
    <2>3. CASE ServeFail
      BY <2>3 DEF ServeFail
    <2> QED
      BY <1>3, <2>1, <2>2, <2>3
  <1>4. ASSUME NEW r \in Request, Arrive(r) PROVE TypeOK'
    <2>1. PICK kind \in Kind :
            req' = [req EXCEPT ![r] =
                     [kind |-> kind, stage |-> "lookup", age |-> 0, conn |-> FALSE,
                      left |-> IF kind = "ready" THEN ReadyTimeout ELSE HandlerTimeout]]
      BY <1>4 DEF Arrive
    <2> DEFINE j == [kind |-> kind, stage |-> "lookup", age |-> 0, conn |-> FALSE,
                     left |-> IF kind = "ready" THEN ReadyTimeout ELSE HandlerTimeout]
    <2>2. j \in Job
      BY DEF Job
    <2>3. req' = [req EXCEPT ![r] = j]
      BY <2>1
    <2> HIDE DEF j
    <2>4. req' \in [Request -> Job \cup {None}]
      BY <2>2, <2>3
    <2> QED
      BY <1>4, <2>4 DEF Arrive
  <1>5. ASSUME NEW r \in Request, Acquire(r) PROVE TypeOK'
    <2> DEFINE j == [req[r] EXCEPT !.conn = TRUE]
    <2>1. req[r] \in Job
      BY <1>5 DEF Acquire
    <2>2. j \in Job
      BY <2>1 DEF Job
    <2>3. req' = [req EXCEPT ![r] = j]
      BY <1>5 DEF Acquire
    <2> HIDE DEF j
    <2>4. req' \in [Request -> Job \cup {None}]
      BY <2>2, <2>3
    <2> QED
      BY <1>5, <2>4 DEF Acquire
  <1>6. ASSUME NEW r \in Request, Step(r) PROVE TypeOK'
    <2>1. req' \in [Request -> Job \cup {None}] /\ row' \in (0..MaxAge) \cup {None}
      BY <1>6, HandlerStep DEF MaxAge
    <2>2. doomed' \in BOOLEAN
      BY <1>6 DEF Step
    <2> QED
      BY <1>6, <2>1, <2>2 DEF Step
  <1>7. CASE Sweep
    <2>1. CASE SweepStart
      BY <2>1 DEF SweepStart
    <2>2. CASE SweepAcquire
      BY <2>2 DEF SweepAcquire
    <2>3. CASE SweepEnd
      BY <2>3 DEF SweepEnd, Deleted, DeleteFailed
    <2>4. CASE SweepCancelled
      BY <2>4 DEF SweepCancelled
    <2> QED
      BY <1>7, <2>1, <2>2, <2>3, <2>4 DEF Sweep
  <1>8. CASE Signal \/ Drained \/ DrainTimedOut \/ Unwind
    <2>1. CASE Signal
      BY <2>1 DEF Signal
    <2>2. CASE Drained
      BY <2>2 DEF Drained
    <2>3. CASE DrainTimedOut
      BY <2>3 DEF DrainTimedOut
    <2>4. CASE Unwind
      BY <2>4 DEF Unwind
    <2> QED
      BY <1>8, <2>1, <2>2, <2>3, <2>4
  <1>9. CASE Exit \/ Kill
    <2>1. Gone /\ code' \in {code, None}
      BY <1>9 DEF Exit, Kill
    <2>2. req' \in [Request -> Job \cup {None}]
      BY <2>1 DEF Gone
    <2>3. tick' \in 1..Interval /\ drain' \in 0..DrainTimeout
      BY <2>1 DEF Gone
    <2>4. cut' \in BOOLEAN
      BY <2>1 DEF Gone
    <2>5. phase' = "stopped" /\ boot' = None /\ pool' = "none" /\ cleanup' = "none"
          /\ open' = FALSE
          /\ sweep' = "gone" /\ row' = row
          /\ pending' = FALSE /\ doomed' = FALSE /\ swept' = FALSE
      BY <2>1 DEF Gone
    <2>6. code' \in {0, 1, None}
      BY <2>1
    <2> QED
      BY <2>2, <2>3, <2>4, <2>5, <2>6
  <1>10. CASE Tick
    <2>a. /\ \A r \in Request : req[r] # None => req[r] \in Job /\ req[r].left > 0
          /\ req' = [r \in Request |-> IF req[r] = None THEN None ELSE Aged(req[r])]
      BY <1>10 DEF Tick, Aged
    <2>b. /\ row \in (0..MaxAge) \cup {None}
          /\ row' = IF row = None THEN None ELSE IF row < MaxAge THEN row + 1 ELSE MaxAge
      BY <1>10 DEF Tick, Older
    <2>c. /\ drain \in 0..DrainTimeout /\ tick \in 1..Interval
          /\ drain' = drain \/ (drain > 0 /\ drain' = drain - 1)
          /\ tick' = tick \/ tick' = IF tick = 1 THEN Interval ELSE tick - 1
      BY <1>10 DEF Tick
    <2>1. req' \in [Request -> Job \cup {None}]
      <3> HIDE DEF TypeOK
      <3>1. \A r \in Request : req[r] # None => Aged(req[r]) \in Job
        BY <2>a, AgedTyped
      <3> QED
        BY <2>a, <3>1
    <2>2. row' \in (0..MaxAge) \cup {None}
      <3> HIDE DEF TypeOK
      <3>1. MaxAge \in Nat
        BY DEF MaxAge
      <3>2. CASE row = None
        BY <2>b, <3>2
      <3>3. CASE row # None
        BY <2>b, <3>1, <3>3
      <3> QED
        BY <3>2, <3>3
    <2>3. drain' \in 0..DrainTimeout /\ tick' \in 1..Interval
      <3> HIDE DEF TypeOK
      <3> QED
        BY <2>c
    <2>4. pending' \in BOOLEAN
      BY <1>10 DEF Tick
    <2> QED
      BY <1>10, <2>1, <2>2, <2>3, <2>4 DEF Tick
  <1>11. CASE UNCHANGED vars
    BY <1>11 DEF vars
  <1> QED
    BY <1>1, <1>2, <1>3, <1>4, <1>5, <1>6, <1>7, <1>8, <1>9, <1>10, <1>11
    DEF Next, Boot, Closing

\* Type correctness: the pool and the sweep's context live exactly from NewPool
\* to the end of run(), on every path through it.
THEOREM TypeCorrect == Spec => []TypeOK
  BY TypeInit, TypeStep, PTL DEF Spec

-----------------------------------------------------------------------------
(* Only a handler that is looking something up is bounded by the request's   *)
(* own deadline; each stage after it has a deadline of its own.  What a      *)
(* handler has used and what it has left are within those it has met.        *)

Budget(stage) ==
  CASE stage = "lookup" -> HandlerTimeout
    [] stage = "fetch" -> HandlerTimeout + FetchTimeout
    [] stage = "store" -> HandlerTimeout + RefreshTimeout

Bounded(j) == j # None => j.age + j.left <= Budget(j.stage)

WorkBounded == \A r \in Request : Bounded(req[r])

LEMMA WorkStep == TypeOK /\ WorkBounded /\ [Next]_vars => WorkBounded'
  <1> SUFFICES ASSUME TypeOK, WorkBounded, [Next]_vars PROVE WorkBounded'
    OBVIOUS
  <1> USE DEF WorkBounded
  <1>a. req \in [Request -> Job \cup {None}]
    BY DEF TypeOK
  \* A step in the slot of one handler.
  <1>b. ASSUME NEW r \in Request, NEW j, req' = [req EXCEPT ![r] = j],
               Bounded(j)
        PROVE  WorkBounded'
    BY <1>a, <1>b
  <1>1. ASSUME NEW r \in Request, Arrive(r) PROVE WorkBounded'
    <2>1. PICK kind \in Kind :
            req' = [req EXCEPT ![r] =
                     [kind |-> kind, stage |-> "lookup", age |-> 0, conn |-> FALSE,
                      left |-> IF kind = "ready" THEN ReadyTimeout ELSE HandlerTimeout]]
      BY <1>1 DEF Arrive
    <2> DEFINE j == [kind |-> kind, stage |-> "lookup", age |-> 0, conn |-> FALSE,
                     left |-> IF kind = "ready" THEN ReadyTimeout ELSE HandlerTimeout]
    <2>2. /\ j.age = 0 /\ j.left \in Nat /\ j.left <= HandlerTimeout
          /\ j.stage = "lookup"
      OBVIOUS
    <2>3. req' = [req EXCEPT ![r] = j]
      BY <2>1
    <2> HIDE DEF j
    <2>4. Bounded(j)
      BY <2>2 DEF Bounded, Budget
    <2> QED
      BY <1>b, <2>3, <2>4
  <1>2. ASSUME NEW r \in Request, Acquire(r) PROVE WorkBounded'
    <2> DEFINE j == [req[r] EXCEPT !.conn = TRUE]
    <2>1. req[r] # None /\ req[r] \in Job /\ req' = [req EXCEPT ![r] = j]
      BY <1>2, <1>a DEF Acquire
    <2>2. j.stage = req[r].stage /\ j.age = req[r].age /\ j.left = req[r].left
      BY <2>1 DEF Job
    <2> HIDE DEF j
    <2>3. Bounded(j)
      BY <2>1, <2>2 DEF Bounded
    <2> QED
      BY <1>b, <2>1, <2>3
  <1>3. ASSUME NEW r \in Request, Step(r) PROVE WorkBounded'
    <2> DEFINE j == req'[r]
    <2>1. req' = [req EXCEPT ![r] = j] /\ j \in Job \cup {None}
      BY <1>3, HandlerStep
    <2>2. ASSUME j # None PROVE j.age + j.left <= Budget(j.stage)
      <3>1. /\ req[r].age + req[r].left <= Budget(req[r].stage) /\ j.age = req[r].age
            /\ req[r].age \in Nat /\ req[r].left \in Nat
        BY <1>3, <1>a, <2>2, HandlerStep DEF Bounded, Job
      <3>2. CASE req[r].stage = "lookup" /\ j.stage = "fetch" /\ j.left = FetchTimeout
        BY <3>1, <3>2 DEF Budget
      <3>3. CASE /\ req[r].stage = "fetch" /\ j.stage = "store"
                 /\ j.left = req[r].left + RefreshTimeout - FetchTimeout
        BY <3>1, <3>3 DEF Budget
      <3> QED
        BY <1>3, <2>2, <3>2, <3>3, HandlerStep
    <2> HIDE DEF j
    <2> QED
      BY <1>b, <2>1, <2>2 DEF Bounded
  <1>4. CASE Exit \/ Kill
    <2>1. req' = [r \in Request |-> None]
      BY <1>4 DEF Exit, Kill, Gone
    <2> QED
      BY <2>1 DEF Bounded
  <1>5. CASE Tick
    <2>1. ASSUME NEW r \in Request, req'[r] # None
          PROVE  req'[r].age + req'[r].left <= Budget(req'[r].stage)
      <3>1. req[r] # None /\ req[r] \in Job /\ req[r].left > 0 /\ req'[r] = Aged(req[r])
        BY <1>5, <1>a, <2>1 DEF Tick, Aged
      <3>2. req[r].age \in Nat /\ req[r].left \in Nat
        BY <3>1 DEF Job
      <3>3. /\ req'[r].stage = req[r].stage /\ req'[r].left = req[r].left - 1
            /\ req'[r].age \in Nat /\ req'[r].age <= req[r].age + 1
        BY <3>1, AgedTyped
      <3>4. req[r].age + req[r].left <= Budget(req[r].stage) /\ Budget(req[r].stage) \in Nat
        BY <3>1 DEF Bounded, Budget, Job
      <3> QED
        BY <3>1, <3>2, <3>3, <3>4
    <2> QED
      BY <2>1 DEF Bounded
  <1>6. CASE UNCHANGED req
    BY <1>6
  <1>7. CASE Boot \/ Sweep \/ Signal \/ Drained \/ DrainTimedOut \/ Unwind \/ UNCHANGED vars
    <2>1. UNCHANGED req
      BY <1>7 DEF Boot, Start, Connect, ConnectFail, Listen, ServeFail, Sweep, SweepStart,
         SweepAcquire, SweepEnd, SweepCancelled, Signal, Drained, DrainTimedOut, Unwind, vars
    <2> QED
      BY <1>6, <2>1
  <1> QED
    BY <1>1, <1>2, <1>3, <1>4, <1>5, <1>7 DEF Next, Closing

LEMMA WorkInvariant == Spec => []WorkBounded
  <1>1. Init => WorkBounded
    BY DEF Init, WorkBounded, Bounded
  <1> QED
    BY <1>1, WorkStep, TypeCorrect, PTL DEF Spec

\* Whatever the pool and the database do, a handler that needs no refresh still
\* has time to write its answer.
THEOREM AnswersInTime == Spec => []AnsweredInTime
  <1>1. TypeOK /\ WorkBounded => AnsweredInTime
    <2> SUFFICES ASSUME TypeOK, WorkBounded, NEW r \in Request,
                        req[r] # None, req[r].stage = "lookup"
                 PROVE  req[r].age < WriteTimeout
      BY DEF AnsweredInTime, Audible
    <2>1. req[r].age \in Nat /\ req[r].left \in Nat
      BY DEF TypeOK, Job
    <2>2. req[r].age + req[r].left <= HandlerTimeout
      BY DEF WorkBounded, Bounded, Budget
    <2> QED
      BY <2>1, <2>2
  <1> QED
    BY <1>1, WorkInvariant, TypeCorrect, PTL

\* Whatever hangs, every handler is done when the deadlines of a lookup and of a
\* refresh have run out.
THEOREM WorkIsBounded == Spec => []WorkEnds
  <1>1. TypeOK /\ WorkBounded => WorkEnds
    <2> SUFFICES ASSUME TypeOK, WorkBounded, NEW r \in Request, req[r] # None
                 PROVE  req[r].age <= HandlerTimeout + RefreshTimeout
      BY DEF WorkEnds
    <2>1. req[r].age \in Nat /\ req[r].left \in Nat /\ req[r].stage \in Stage
      BY DEF TypeOK, Job
    <2>2. req[r].age + req[r].left <= Budget(req[r].stage)
      BY DEF WorkBounded, Bounded
    <2>3. Budget(req[r].stage) \in Nat /\ Budget(req[r].stage) <= HandlerTimeout + RefreshTimeout
      BY <2>1 DEF Budget
    <2> QED
      BY <2>1, <2>2, <2>3
  <1> QED
    BY <1>1, WorkInvariant, TypeCorrect, PTL

-----------------------------------------------------------------------------
(* Exit code 0 is decided with no handler at work and no connection left, on  *)
(* which one could begin after.                                              *)

ZeroInv ==
  /\ code = 0 =>
       /\ phase \in {"unwinding", "closing", "stopped"}
       /\ \A r \in Request : req[r] = None
       /\ ~open /\ ~cut
  /\ cut => phase = "stopped"

LEMMA ZeroStep == TypeOK /\ ZeroInv /\ [Next]_vars => ZeroInv'
  <1> SUFFICES ASSUME TypeOK, ZeroInv, [Next]_vars PROVE ZeroInv'
    OBVIOUS
  <1> USE DEF ZeroInv
  <1>1. CASE Start \/ Connect \/ ConnectFail \/ Listen \/ ServeFail
    <2>1. code' # 0 \/ (code' = code /\ phase \in {"connect", "listen"})
      BY <1>1 DEF Start, Connect, ConnectFail, Listen, ServeFail
    <2>2. cut' = FALSE \/ (cut' = cut /\ phase # "stopped")
      BY <1>1 DEF Start, Connect, ConnectFail, Listen, ServeFail
    <2> QED
      BY <2>1, <2>2
  <1>2. ASSUME NEW r \in Request, Arrive(r) \/ Acquire(r) \/ Step(r) PROVE ZeroInv'
    <2>1. UNCHANGED <<code, phase, open, cut>> /\ (open \/ req[r] # None)
      BY <1>2 DEF Arrive, Acquire, Step, LookupAnswer, Refresh, FetchFail, Fetched, Store
    <2> QED
      BY <2>1
  <1>3. CASE Sweep \/ UNCHANGED vars
    <2>1. UNCHANGED <<code, phase, open, req, cut>>
      BY <1>3 DEF Sweep, SweepStart, SweepAcquire, SweepEnd, SweepCancelled, vars
    <2> QED
      BY <2>1
  <1>4. CASE Signal \/ DrainTimedOut
    BY <1>4 DEF Signal, DrainTimedOut
  <1>5. CASE Unwind
    BY <1>5 DEF Unwind
  <1>6. CASE Drained
    BY <1>6 DEF Drained
  <1>7. CASE Exit \/ Kill
    <2>1. Gone /\ code' \in {code, None}
      BY <1>7 DEF Exit, Kill
    <2>2. ASSUME code' = 0 PROVE code = 0
      BY <2>1, <2>2
    <2>3. /\ phase' = "stopped" /\ open' = FALSE /\ req' = [r \in Request |-> None]
          /\ cut' = \E r \in Request : req[r] # None
      BY <2>1 DEF Gone
    <2> QED
      BY <2>2, <2>3
  <1>8. CASE Tick
    <2>1. /\ UNCHANGED <<code, phase, open, cut>>
          /\ \A r \in Request : req[r] = None => req'[r] = None
      BY <1>8 DEF Tick
    <2> QED
      BY <2>1
  <1> QED
    BY <1>1, <1>2, <1>3, <1>4, <1>5, <1>6, <1>7, <1>8 DEF Next, Boot, Closing

\* Exit code 0 says that no handler was at work when the process ended, on every
\* path to it.
THEOREM ZeroIsDrained == Spec => []ZeroMeansDrained
  <1>1. Init => ZeroInv
    BY DEF Init, ZeroInv
  <1>2. ZeroInv => ZeroMeansDrained
    BY DEF ZeroInv, ZeroMeansDrained
  <1> QED
    BY <1>1, <1>2, ZeroStep, TypeCorrect, PTL DEF Spec

-----------------------------------------------------------------------------
(* The age of a row.  After a sweep that succeeded, and already during it if  *)
(* the row is too young for it, the row cannot be older than the retention    *)
(* and what has passed of the interval.                                       *)

Young(age) == age <= Retention + Interval - tick
Covered ==
  \/ sweep = "waiting" /\ swept
  \/ sweep \in {"queued", "running"} /\ ~doomed

RowsYoung == cleanup = "on" /\ row # None /\ ~pending /\ Covered => Young(row)

LEMMA RowsStep == TypeOK /\ RowsYoung /\ [Next]_vars => RowsYoung'
  <1> SUFFICES ASSUME TypeOK, RowsYoung, [Next]_vars PROVE RowsYoung'
    OBVIOUS
  <1> USE DEF sweeper
  <1>a. /\ tick \in 1..Interval /\ row \in (0..MaxAge) \cup {None}
        /\ {pending, doomed, swept} \subseteq BOOLEAN
    BY DEF TypeOK
  <1>1. CASE Connect
    BY <1>1 DEF Connect, RowsYoung, Covered
  <1>2. CASE SweepStart
    <2>1. doomed' = (row # None /\ row > Retention) /\ UNCHANGED <<row, tick>>
          /\ sweep' = "queued"
      BY <1>2 DEF SweepStart
    <2>2. ASSUME row # None, ~doomed' PROVE row <= Retention + Interval - tick
      <3>1. ~(row > Retention)
        BY <2>1, <2>2, Zenon
      <3>2. MaxAge \in Nat /\ row \in 0..MaxAge
        BY <1>a, <2>2 DEF MaxAge
      <3> QED
        BY <1>a, <3>1, <3>2
    <2> QED
      BY <2>1, <2>2 DEF RowsYoung, Covered, Young
  <1>3. CASE SweepAcquire
    BY <1>3 DEF SweepAcquire, RowsYoung, Covered, Young
  <1>4. CASE SweepEnd
    <2>1. CASE Deleted
      BY <1>4, <2>1 DEF SweepEnd, Deleted, RowsYoung, Covered, Young
    <2>2. CASE DeleteFailed
      BY <1>4, <2>2 DEF SweepEnd, DeleteFailed, RowsYoung, Covered
    <2> QED
      BY <1>4, <2>1, <2>2 DEF SweepEnd
  <1>5. CASE Unwind \/ SweepCancelled \/ Exit \/ Kill
    BY <1>5 DEF Unwind, SweepCancelled, Exit, Kill, Gone, RowsYoung, Covered
  <1>6. ASSUME NEW r \in Request, Step(r) PROVE RowsYoung'
    <2>1. row' \in {row, 0} /\ doomed' = (doomed /\ row' = row)
          /\ UNCHANGED <<cleanup, sweep, pending, swept, tick>>
      BY <1>6, HandlerStep DEF Step
    <2>2. CASE row' = row
      BY <2>1, <2>2 DEF RowsYoung, Covered, Young
    <2>3. CASE row' = 0
      <3>1. 0 <= Retention + Interval - tick
        BY <1>a
      <3> QED
        BY <2>1, <2>3, <3>1 DEF RowsYoung, Young
    <2> QED
      BY <2>1, <2>2, <2>3
  <1>7. CASE Tick
    <2>1. /\ row' = IF row = None THEN None ELSE IF row < MaxAge THEN row + 1 ELSE MaxAge
          /\ UNCHANGED <<cleanup, sweep, doomed, swept>>
          /\ cleanup = "on" => /\ tick' = IF tick = 1 THEN Interval ELSE tick - 1
                               /\ pending' = (pending \/ tick = 1)
      BY <1>7 DEF Tick, Older
    <2>2. SUFFICES ASSUME cleanup = "on", row' # None, ~pending', Covered
                   PROVE  Young(row)'
      BY <2>1 DEF RowsYoung, Covered
    <2>3. ~pending /\ tick # 1 /\ tick' = tick - 1 /\ row # None
      BY <2>1, <2>2
    <2>4. row <= Retention + Interval - tick /\ row \in 0..MaxAge
      BY <1>a, <2>2, <2>3 DEF RowsYoung, Young
    <2>5. row' = row + 1
      BY <1>a, <2>1, <2>3, <2>4 DEF MaxAge
    <2>6. row + 1 <= Retention + Interval - (tick - 1)
      BY <1>a, <2>4
    <2> QED
      BY <2>3, <2>5, <2>6 DEF Young
  <1>8. CASE UNCHANGED <<cleanup, row, sweep, pending, doomed, swept, tick>>
    BY <1>8 DEF RowsYoung, Covered, Young
  <1>9. ASSUME NEW r \in Request, Arrive(r) \/ Acquire(r) PROVE RowsYoung'
    BY <1>8, <1>9 DEF Arrive, Acquire
  <1>10. CASE Start \/ ConnectFail \/ Listen \/ ServeFail \/ Signal \/ Drained \/ DrainTimedOut
              \/ UNCHANGED vars
    BY <1>8, <1>10 DEF Start, ConnectFail, Listen, ServeFail, Signal, Drained,
       DrainTimedOut, vars
  <1> QED
    BY <1>1, <1>2, <1>3, <1>4, <1>5, <1>6, <1>7, <1>9, <1>10 DEF Next, Boot, Closing, Sweep

\* While sweeps succeed, no row outlives the retention and one interval.
THEOREM RowsAreSwept == Spec => []StaleRowsSwept
  <1>1. Init => RowsYoung
    BY DEF Init, RowsYoung
  <1>2. TypeOK /\ RowsYoung => StaleRowsSwept
    <2> SUFFICES ASSUME TypeOK, RowsYoung,
                        cleanup = "on", swept, sweep = "waiting", ~pending, row # None
                 PROVE  row < Retention + Interval
      BY DEF StaleRowsSwept
    <2>1. row <= Retention + Interval - tick
      BY DEF RowsYoung, Covered, Young
    <2>2. tick \in 1..Interval /\ row \in (0..MaxAge) \cup {None}
      BY DEF TypeOK
    <2>3. row \in 0..MaxAge
      BY <2>2
    <2> QED
      BY <2>1, <2>2, <2>3 DEF MaxAge
  <1> QED
    BY <1>1, <1>2, RowsStep, TypeCorrect, PTL DEF Spec

-----------------------------------------------------------------------------
(* The configuration: what Load computes layer by layer is what an operator    *)
(* finds by looking for the first layer that gives a setting.                  *)

\* What the environment makes of a setting.
Override(env, s) ==
  CASE s = "origins" /\ env[s] # Unset -> Pieces(env[s])
    [] s = "level" /\ env[s] # Unset -> Plain[env[s]]
    [] OTHER -> env[s]

LEMMA ApplyEnvIs ==
  ASSUME NEW cfg, DOMAIN cfg = DOMAIN Defaults, cfg = [s \in DOMAIN Defaults |-> cfg[s]],
         NEW env \in Env, ApplyEnv(cfg, env) # Invalid
  PROVE  /\ env["port"] # Malformed
         /\ \A s \in DOMAIN Defaults :
              ApplyEnv(cfg, env)[s] = IF env[s] # Unset THEN Override(env, s) ELSE cfg[s]
  <1> USE SettingsAssumption
  <1>1. env["port"] # Malformed
    BY DEF ApplyEnv, EnvInt
  <1> DEFINE one == EnvString(cfg, env, "port")
             two == EnvList(one, env, "origins")
             three == EnvString(two, env, "url")
  <1>2. ApplyEnv(cfg, env) = EnvLevel(three, env, "level")
    BY <1>1 DEF ApplyEnv, EnvInt
  <1>3. /\ DOMAIN one = DOMAIN Defaults
        /\ one = [s \in DOMAIN Defaults |-> one[s]]
        /\ \A s \in DOMAIN Defaults :
             one[s] = IF s = "port" /\ env[s] # Unset THEN env[s] ELSE cfg[s]
    BY DEF EnvString
  <1> HIDE DEF one
  <1>4. /\ DOMAIN two = DOMAIN Defaults
        /\ two = [s \in DOMAIN Defaults |-> two[s]]
        /\ \A s \in DOMAIN Defaults :
             two[s] = IF s = "origins" /\ env[s] # Unset THEN Pieces(env[s]) ELSE one[s]
    BY <1>3 DEF EnvList
  <1> HIDE DEF two
  <1>5. /\ DOMAIN three = DOMAIN Defaults
        /\ \A s \in DOMAIN Defaults :
             three[s] = IF s = "url" /\ env[s] # Unset THEN env[s] ELSE two[s]
    BY <1>4 DEF EnvString
  <1> HIDE DEF three
  <1>6. \A s \in DOMAIN Defaults :
          EnvLevel(three, env, "level")[s] =
            IF s = "level" /\ env[s] # Unset THEN Plain[env[s]] ELSE three[s]
    BY <1>5 DEF EnvLevel
  <1>7. ASSUME NEW s \in DOMAIN Defaults
        PROVE  ApplyEnv(cfg, env)[s] = IF env[s] # Unset THEN Override(env, s) ELSE cfg[s]
    <2>1. CASE s = "port"
      BY <1>2, <1>3, <1>4, <1>5, <1>6, <2>1 DEF Override
    <2>2. CASE s = "origins"
      BY <1>2, <1>3, <1>4, <1>5, <1>6, <2>2 DEF Override
    <2>3. CASE s = "url"
      BY <1>2, <1>3, <1>4, <1>5, <1>6, <2>3 DEF Override
    <2>4. CASE s = "level"
      BY <1>2, <1>3, <1>4, <1>5, <1>6, <2>4 DEF Override
    <2> QED
      BY <2>1, <2>2, <2>3, <2>4
  <1> QED
    BY <1>1, <1>7

LEMMA LoadIsWanted ==
  ASSUME NEW file \in File, NEW env \in Env, Load(file, env) # Invalid
  PROVE  /\ env.port # Malformed
         /\ \A s \in DOMAIN Defaults : Load(file, env)[s] = Wanted(file, env, s)
  <1> USE SettingsAssumption
  <1> DEFINE base == IF file = Missing THEN Defaults ELSE Unmarshal(file)
  <1>1. Load(file, env) = ApplyEnv(base, env) /\ file # Broken
    BY DEF Load
  <1>2. /\ DOMAIN base = DOMAIN Defaults
        /\ base = [s \in DOMAIN Defaults |-> base[s]]
        /\ \A s \in DOMAIN Defaults :
             base[s] = IF file # Missing /\ file[s] # Unset THEN file[s] ELSE Defaults[s]
    BY DEF Unmarshal
  <1> HIDE DEF base
  <1>3. /\ env["port"] # Malformed
        /\ \A s \in DOMAIN Defaults :
             Load(file, env)[s] = IF env[s] # Unset THEN Override(env, s) ELSE base[s]
    BY <1>1, <1>2, ApplyEnvIs
  <1>4. ASSUME NEW s \in DOMAIN Defaults
        PROVE  Load(file, env)[s] = Wanted(file, env, s)
    <2> DEFINE given == [env EXCEPT !.origins = IF @ = Unset THEN Unset ELSE Pieces(@),
                                   !.level = IF @ = Unset THEN Unset ELSE Plain[@]]
               layers == IF file = Missing THEN <<given, Defaults>> ELSE <<given, file, Defaults>>
               First(i) == layers[i][s] # Unset /\ \A j \in 1..(i - 1) : layers[j][s] = Unset
               first == CHOOSE i \in DOMAIN layers : First(i)
    <2>1. Wanted(file, env, s) = layers[first][s]
      BY DEF Wanted
    <2>2. given[s] = Override(env, s) /\ (given[s] = Unset <=> env[s] = Unset)
      BY EnvAssumption DEF Override
    <2> HIDE DEF given
    <2>3. /\ DOMAIN layers = IF file = Missing THEN 1..2 ELSE 1..3
          /\ layers[1] = given
          /\ file = Missing => layers[2] = Defaults
          /\ file # Missing => layers[2] = file /\ layers[3] = Defaults
      OBVIOUS
    <2> HIDE DEF layers
    <2>4. \A i, k \in DOMAIN layers : First(i) /\ First(k) => i = k
      <3> SUFFICES ASSUME NEW i \in DOMAIN layers, NEW k \in DOMAIN layers,
                          First(i), First(k), i < k
                   PROVE  FALSE
        BY <2>3
      <3> QED
        BY <2>3
    <2>5. ASSUME NEW i \in DOMAIN layers, First(i) PROVE Wanted(file, env, s) = layers[i][s]
      <3>1. first = i
        BY <2>4, <2>5
      <3> QED
        BY <2>1, <3>1
    <2> HIDE DEF first
    <2>6. CASE env[s] # Unset
      BY <1>3, <2>2, <2>3, <2>5, <2>6
    <2>7. CASE env[s] = Unset /\ file # Missing /\ file[s] # Unset
      <3>1. First(2) /\ 2 \in DOMAIN layers
        BY <2>2, <2>3, <2>7
      <3> QED
        BY <1>2, <1>3, <2>3, <2>5, <2>7, <3>1
    <2>8. CASE env[s] = Unset /\ file # Missing /\ file[s] = Unset
      <3>1. First(3) /\ 3 \in DOMAIN layers
        BY <2>2, <2>3, <2>8
      <3>2. Wanted(file, env, s) = layers[3][s]
        BY <2>5, <3>1
      <3>3. Wanted(file, env, s) = Defaults[s]
        BY <2>3, <2>8, <3>2
      <3>4. Load(file, env)[s] = base[s] /\ base[s] = Defaults[s]
        BY <1>2, <1>3, <2>8
      <3> QED
        BY <3>3, <3>4
    <2>9. CASE env[s] = Unset /\ file = Missing
      <3>1. First(2) /\ 2 \in DOMAIN layers
        BY <2>2, <2>3, <2>9
      <3> QED
        BY <1>2, <1>3, <2>3, <2>5, <2>9, <3>1
    <2> QED
      BY <2>6, <2>7, <2>8, <2>9
  <1> QED
    BY <1>3, <1>4

\* What is being booted was loaded from a file and an environment.
Booting ==
  boot # None =>
    \E file \in File, env \in Env :
      /\ Load(file, env) # Invalid
      /\ boot = Booted(Load(file, env), file, env)

LEMMA BootingStep == Booting /\ [Next]_vars => Booting'
  <1> SUFFICES ASSUME Booting, [Next]_vars PROVE Booting'
    OBVIOUS
  <1>1. CASE boot' \in {boot, None}
    BY <1>1 DEF Booting
  <1>2. CASE Start
    BY <1>2 DEF Start, Booting
  <1>3. CASE ConnectFail \/ Listen \/ ServeFail \/ Signal \/ Kill \/ Exit
    BY <1>1, <1>3 DEF ConnectFail, Listen, ServeFail, Signal, Kill, Exit, Gone
  <1>4. CASE Connect \/ Drained \/ DrainTimedOut \/ Unwind \/ Tick \/ UNCHANGED vars
    BY <1>1, <1>4 DEF Connect, Drained, DrainTimedOut, Unwind, Tick, vars
  <1>5. CASE Sweep
    BY <1>1, <1>5 DEF Sweep, SweepStart, SweepAcquire, SweepEnd, SweepCancelled
  <1>6. ASSUME NEW r \in Request, Arrive(r) \/ Acquire(r) \/ Step(r) PROVE Booting'
    BY <1>1, <1>6 DEF Arrive, Acquire, Step
  <1> QED
    BY <1>2, <1>3, <1>4, <1>5, <1>6 DEF Next, Boot, Closing

\* Whatever the file and the environment say, nothing comes up with a setting
\* other than the first layer that has one gives, or with a malformed number.
THEOREM BootsAsAsked == Spec => []BootsAsWanted
  <1>1. Init => Booting
    BY DEF Init, Booting
  <1>2. Booting => BootsAsWanted
    <2> SUFFICES ASSUME Booting, boot # None
                 PROVE  /\ boot.env.port # Malformed
                        /\ \A s \in DOMAIN Defaults : boot.cfg[s] = Wanted(boot.file, boot.env, s)
                        /\ boot.log = LogLevel(Wanted(boot.file, boot.env, "level"))
      BY DEF BootsAsWanted
    <2>1. PICK file \in File, env \in Env :
            /\ Load(file, env) # Invalid
            /\ boot = Booted(Load(file, env), file, env)
      BY DEF Booting
    <2>2. /\ boot.cfg = Load(file, env) /\ boot.file = file /\ boot.env = env
          /\ boot.log = LogLevel(boot.cfg.level)
      BY <2>1 DEF Booted
    <2>3. /\ boot.env.port # Malformed
          /\ \A s \in DOMAIN Defaults : boot.cfg[s] = Wanted(boot.file, boot.env, s)
      BY <2>1, <2>2, LoadIsWanted
    <2>4. boot.cfg.level = Wanted(boot.file, boot.env, "level")
      BY <2>3, SettingsAssumption
    <2> QED
      BY <2>2, <2>3, <2>4
  <1> QED
    BY <1>1, <1>2, BootingStep, PTL DEF Spec

=============================================================================
