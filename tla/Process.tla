------------------------------- MODULE Process -------------------------------
(***************************************************************************)
(* The life of one skynapi container: boot (config.Load, NewPool, listen), *)
(* requests under their deadlines, the sweep of stale rows on its ticker,  *)
(* shutdown on a signal, exit, and the next start.  Postgres and the       *)
(* upstreams may answer, fail, or not answer at all.                       *)
(*                                                                         *)
(* Time is counted in units by timers that run down: the clock may not     *)
(* tick past a deadline, so what a deadline ends is ended at it.           *)
(***************************************************************************)
EXTENDS Config, FiniteSets

CONSTANTS
  Request, None,
  File, Env,         \* what config.yaml and the environment may say
  Reachable,         \* URLs at which there is a database
  FreePort,          \* ports nobody else listens on
  MaxConns,          \* size of the connection pool
  HandlerTimeout, ReadyTimeout, FetchTimeout, RefreshTimeout,
  WriteTimeout, DrainTimeout,
  Interval, Retention

ASSUME TimeoutsAssumption ==
  /\ {HandlerTimeout, ReadyTimeout, FetchTimeout, RefreshTimeout, WriteTimeout,
      DrainTimeout, Interval, Retention, MaxConns} \subseteq Nat \ {0}
  /\ ReadyTimeout <= HandlerTimeout
  /\ HandlerTimeout < WriteTimeout
  /\ FetchTimeout <= RefreshTimeout

Kind == {"cities", "ready", "weather"}
Stage == {"lookup", "fetch", "store"}
Job == [kind : Kind, stage : Stage, age : Nat, left : Nat, conn : BOOLEAN]

ASSUME EnvAssumption ==
  \A env \in Env :
    /\ env = [s \in DOMAIN Defaults |-> env[s]]
    /\ env.origins # Unset => Pieces(env.origins) # Unset
    /\ env.level # Unset => env.level \in DOMAIN Plain

\* What is known of a boot: the settings, where they are from, and the logger's
\* level.
Booted(cfg, file, env) ==
  [cfg |-> cfg, file |-> file, env |-> env, log |-> LogLevel(cfg.level)]

ASSUME NoneAssumption ==
  /\ None \notin Nat /\ None \notin Job
  /\ \A file \in File, env \in Env :
       Load(file, env) # Invalid => None # Booted(Load(file, env), file, env)

VARIABLES
  phase,    \* how far run() has come
  code,     \* the exit code it will end or has ended with, or None
  boot,     \* the settings loaded, with the file and environment they are from
  req,      \* each handler at work: [kind, stage, age, left, conn], or None
  pool,     \* "none", "open" or "closed"
  cleanup,  \* the context of the sweep: "none", "on" or "cancelled"
  sweep,    \* where runCacheCleanup stands: "gone", "waiting", "queued", "running"
  tick,     \* time to the ticker's next tick
  pending,  \* a tick is in the ticker's channel
  row,      \* age of a row of a cache table, or None
  doomed,   \* the row is older than the cutoff of the sweep under way
  open,     \* there may be connections that the server accepted
  drain,    \* what is left of shutCtx
  swept,    \* the last sweep of this process succeeded
  cut       \* a request was cut off by the exit

sweeper == <<sweep, pending, doomed, swept>>
vars == <<phase, code, boot, req, pool, cleanup, sweep, tick, pending, row,
          doomed, open, drain, swept, cut>>

Phase == {"connect", "listen", "serving", "draining", "unwinding", "closing", "stopped"}
\* Ages, of rows and of requests, are counted as far as anything depends on them.
MaxAge == Retention + Interval + 1
MaxWait == WriteTimeout + RefreshTimeout

Init ==
  /\ phase = "stopped" /\ code = None /\ boot = None
  /\ req = [r \in Request |-> None]
  /\ pool = "none" /\ cleanup = "none"
  /\ sweep = "gone" /\ tick = Interval /\ pending = FALSE
  /\ row = None /\ doomed = FALSE
  /\ open = FALSE /\ drain = 0
  /\ swept = FALSE /\ cut = FALSE

-----------------------------------------------------------------------------
(* Boot *)

\* The container starts: a configuration that cannot be loaded ends it.
Start ==
  /\ phase = "stopped"
  /\ \E file \in File, env \in Env :
       LET cfg == Load(file, env) IN
       IF cfg = Invalid
       THEN phase' = "stopped" /\ code' = 1 /\ UNCHANGED boot
       ELSE phase' = "connect" /\ code' = None
            /\ boot' = Booted(cfg, file, env)
  /\ cut' = FALSE
  /\ UNCHANGED <<open, req, pool, cleanup, sweeper, tick, row, drain>>

\* NewPool pings within its 5 s; then the sweep and its ticker are started.
Connect ==
  /\ phase = "connect"
  /\ boot.cfg.url \in Reachable
  /\ phase' = "listen"
  /\ pool' = "open" /\ cleanup' = "on"
  /\ sweep' = "waiting" /\ tick' = Interval /\ pending' = FALSE
  /\ doomed' = FALSE /\ swept' = FALSE
  /\ UNCHANGED <<open, code, boot, req, row, drain, cut>>

\* The ping fails; the pool is closed again.
ConnectFail ==
  /\ phase = "connect"
  /\ phase' = "stopped" /\ code' = 1 /\ boot' = None
  /\ UNCHANGED <<open, req, pool, cleanup, sweeper, tick, row, drain, cut>>

Listen ==
  /\ phase = "listen"
  /\ boot.cfg.port \in FreePort
  /\ phase' = "serving" /\ boot' = None /\ open' = TRUE
  /\ UNCHANGED <<code, req, pool, cleanup, sweeper, tick, row, drain, cut>>

\* Mutant: the error exits on the spot, without the deferred calls.
ServeFailMutant ==
  /\ phase = "serving"
  /\ phase' = "stopped" /\ code' = 1 /\ boot' = None
  /\ UNCHANGED <<open, req, pool, cleanup, sweeper, tick, row, drain, cut>>
\* ListenAndServe returns an error: at once, or when accepting fails.
ServeFail ==
  /\ \/ phase = "listen" /\ boot.cfg.port \notin FreePort
     \/ phase = "serving"
  /\ phase' = "unwinding" /\ code' = 1 /\ boot' = None
  /\ UNCHANGED <<open, req, pool, cleanup, sweeper, tick, row, drain, cut>>

-----------------------------------------------------------------------------
(* Requests *)

InUse ==
  Cardinality({r \in Request : req[r] # None /\ req[r].conn})
    + (IF sweep = "running" THEN 1 ELSE 0)
Free == pool = "open" /\ InUse < MaxConns

\* Mutant: the handler is given the server's write timeout.
ArriveMutant(r) ==
  /\ open
  /\ req[r] = None
  /\ \E kind \in Kind :
       req' = [req EXCEPT ![r] = [kind |-> kind, stage |-> "lookup", age |-> 0,
                                  conn |-> FALSE, left |-> WriteTimeout]]
  /\ UNCHANGED <<phase, open, code, boot, pool, cleanup, sweeper, tick, row, drain, cut>>
\* A request is read from a connection that was accepted: also while Shutdown
\* waits, if the connection was new, and after an error until the process ends.
\* It has middleware.Timeout, or the shorter one of the readiness probe.
Arrive(r) ==
  /\ open
  /\ req[r] = None
  /\ \E kind \in Kind :
       req' = [req EXCEPT ![r] =
                 [kind |-> kind, stage |-> "lookup", age |-> 0, conn |-> FALSE,
                  left |-> IF kind = "ready" THEN ReadyTimeout ELSE HandlerTimeout]]
  /\ UNCHANGED <<phase, open, code, boot, pool, cleanup, sweeper, tick, row, drain, cut>>

\* pgxpool lends a connection when it has one.
Acquire(r) ==
  /\ req[r] # None
  /\ req[r].stage \in {"lookup", "store"} /\ ~req[r].conn
  /\ Free
  /\ req' = [req EXCEPT ![r].conn = TRUE]
  /\ UNCHANGED <<phase, open, code, boot, pool, cleanup, sweeper, tick, row, drain, cut>>

\* The response is written and the handler returns.
Answer(r) == req' = [req EXCEPT ![r] = None]

\* The query returns rows, no row or an error, and the handler is done: always
\* for a search or a probe, for a forecast when the row is there and fresh.
LookupAnswer(r) ==
  /\ req[r] # None /\ req[r].stage = "lookup"
  /\ req[r].kind = "weather" => req[r].conn /\ row # None
  /\ Answer(r)
  /\ UNCHANGED row

\* No fresh row, whatever the reason: the refresh has a deadline of its own,
\* detached from the request's, and the upstream call a shorter one within it.
Refresh(r) ==
  /\ req[r] # None /\ req[r].stage = "lookup" /\ req[r].kind = "weather"
  /\ req' = [req EXCEPT ![r].stage = "fetch", ![r].left = FetchTimeout, ![r].conn = FALSE]
  /\ UNCHANGED <<row>>

FetchFail(r) ==
  /\ req[r] # None /\ req[r].stage = "fetch"
  /\ Answer(r)
  /\ UNCHANGED row

\* Mutant: the write is given the time of a whole refresh.
FetchedMutant(r) ==
  /\ req[r] # None /\ req[r].stage = "fetch"
  /\ req' = [req EXCEPT ![r].stage = "store", ![r].left = req[r].left + RefreshTimeout]
  /\ UNCHANGED <<row>>
\* A forecast: what is left of the refresh is for the write.
Fetched(r) ==
  /\ req[r] # None /\ req[r].stage = "fetch"
  /\ req' = [req EXCEPT ![r].stage = "store",
                        ![r].left = req[r].left + RefreshTimeout - FetchTimeout]
  /\ UNCHANGED <<row>>

\* The upsert, which stamps the row, or its failure, which is only logged.
Store(r) ==
  /\ req[r] # None /\ req[r].stage = "store"
  /\ Answer(r)
  /\ \/ req[r].conn /\ row' = 0
     \/ UNCHANGED row

\* A handler's next step, taken at its deadline at the latest.
Step(r) ==
  /\ LookupAnswer(r) \/ Refresh(r) \/ FetchFail(r) \/ Fetched(r) \/ Store(r)
  /\ doomed' = (doomed /\ row' = row)
  /\ UNCHANGED <<phase, open, code, boot, pool, cleanup, sweep, pending, swept, tick, drain, cut>>

Expire(r) == req[r] # None /\ req[r].left = 0 /\ Step(r)

-----------------------------------------------------------------------------
(* runCacheCleanup *)

\* Mutant: the sweep is given the retention of the other table.
SweepStartMutant ==
  /\ sweep = "waiting" /\ pending /\ cleanup = "on"
  /\ sweep' = "queued" /\ pending' = FALSE
  /\ doomed' = (row # None /\ row > 2 * Retention)
  /\ UNCHANGED <<phase, open, code, boot, req, pool, cleanup, tick, row, drain, swept, cut>>
\* A tick is received; the cutoff is reckoned before the query is sent.
SweepStart ==
  /\ sweep = "waiting" /\ pending /\ cleanup = "on"
  /\ sweep' = "queued" /\ pending' = FALSE
  /\ doomed' = (row # None /\ row > Retention)
  /\ UNCHANGED <<phase, open, code, boot, req, pool, cleanup, tick, row, drain, swept, cut>>

SweepAcquire ==
  /\ sweep = "queued" /\ Free
  /\ sweep' = "running"
  /\ UNCHANGED <<phase, open, code, boot, req, pool, cleanup, tick, row, drain, pending,
                 doomed, swept, cut>>

Deleted ==
  /\ sweep = "running"
  /\ row' = IF doomed THEN None ELSE row
  /\ swept' = TRUE

\* Logged, and the loop goes on.
DeleteFailed ==
  /\ sweep \in {"queued", "running"}
  /\ UNCHANGED row
  /\ swept' = FALSE

SweepEnd ==
  /\ Deleted \/ DeleteFailed
  /\ sweep' = "waiting" /\ doomed' = FALSE
  /\ UNCHANGED <<phase, open, code, boot, req, pool, cleanup, tick, drain, pending, cut>>

\* The context is done: the query fails, the connection goes back, and the loop
\* sees it at the next select.
SweepCancelled ==
  /\ cleanup = "cancelled" /\ sweep # "gone"
  /\ sweep' = "gone" /\ doomed' = FALSE
  /\ UNCHANGED <<phase, open, code, boot, req, pool, cleanup, tick, row, drain, pending,
                 swept, cut>>

-----------------------------------------------------------------------------
(* Shutdown *)

\* SIGTERM once it is asked for.  The listener is closed, if there is one by then;
\* connections stay.
Signal ==
  /\ phase \in {"listen", "serving"}
  /\ phase' = "draining" /\ drain' = DrainTimeout /\ boot' = None
  /\ UNCHANGED <<open, code, req, pool, cleanup, sweeper, tick, row, cut>>

\* Shutdown returns nil: no handler is at work and it has closed every connection.
Drained ==
  /\ phase = "draining"
  /\ \A r \in Request : req[r] = None
  /\ phase' = "unwinding" /\ code' = 0 /\ open' = FALSE
  /\ UNCHANGED <<boot, req, pool, cleanup, sweeper, tick, row, drain, cut>>

\* Mutant: the error of Shutdown is not returned.
DrainTimedOutMutant ==
  /\ phase = "draining" /\ drain = 0 /\ open
  /\ phase' = "unwinding" /\ code' = 0
  /\ UNCHANGED <<open, boot, req, pool, cleanup, sweeper, tick, row, drain, cut>>
\* Shutdown returns the error of shutCtx; the connections stay open.
DrainTimedOut ==
  /\ phase = "draining" /\ drain = 0 /\ open
  /\ phase' = "unwinding" /\ code' = 1
  /\ UNCHANGED <<open, boot, req, pool, cleanup, sweeper, tick, row, drain, cut>>

\* Mutant: the pool is closed before the sweep is cancelled.
UnwindMutant ==
  /\ phase = "unwinding"
  /\ phase' = "closing" /\ pool' = "closed"
  /\ UNCHANGED <<open, code, boot, req, cleanup, sweeper, tick, row, drain, cut>>
\* The deferred calls, last first: stopCleanup, then pool.Close.
Unwind ==
  /\ phase = "unwinding"
  /\ cleanup' = "cancelled"
  /\ phase' = "closing" /\ pool' = "closed"
  /\ UNCHANGED <<open, code, boot, req, sweeper, tick, row, drain, cut>>

\* Everything in memory is gone, and every connection.
Gone ==
  /\ phase' = "stopped" /\ boot' = None /\ open' = FALSE
  /\ cut' = (\E r \in Request : req[r] # None)
  /\ req' = [r \in Request |-> None]
  /\ pool' = "none" /\ cleanup' = "none"
  /\ sweep' = "gone" /\ tick' = Interval /\ pending' = FALSE
  /\ doomed' = FALSE /\ swept' = FALSE /\ drain' = 0
  /\ UNCHANGED <<row>>

\* Close returns when every connection is back, and main with the code.
Exit == phase = "closing" /\ InUse = 0 /\ Gone /\ UNCHANGED code

\* SIGKILL, or a signal before signal.Notify.
Kill == phase # "stopped" /\ Gone /\ code' = None

-----------------------------------------------------------------------------

Older(age, bound) == IF age < bound THEN age + 1 ELSE bound

\* Time passes, but past no deadline: a handler's, or Shutdown's.
Tick ==
  /\ \A r \in Request : req[r] # None => req[r].left > 0
  /\ phase = "draining" => drain > 0
  /\ req' = [r \in Request |->
               IF req[r] = None THEN None
               ELSE [req[r] EXCEPT !.age = Older(@, MaxWait), !.left = @ - 1]]
  /\ row' = IF row = None THEN None ELSE Older(row, MaxAge)
  /\ drain' = IF phase = "draining" THEN drain - 1 ELSE drain
  /\ IF cleanup = "on"
     THEN /\ tick' = IF tick = 1 THEN Interval ELSE tick - 1
          /\ pending' = (pending \/ tick = 1)
     ELSE UNCHANGED <<tick, pending>>
  /\ UNCHANGED <<phase, open, code, boot, pool, cleanup, sweep, doomed, swept, cut>>

Closing == Drained \/ DrainTimedOut \/ Unwind \/ Exit
Boot == Start \/ Connect \/ ConnectFail \/ Listen \/ ServeFail
Sweep == SweepStart \/ SweepAcquire \/ SweepEnd \/ SweepCancelled

Next ==
  \/ Boot \/ Sweep \/ Signal \/ Closing \/ Kill \/ Tick
  \/ \E r \in Request : Arrive(r) \/ Acquire(r) \/ Step(r)

Spec == Init /\ [][Next]_vars

\* Time passes, deadlines end what they bound, a cancelled sweep ends, and main
\* goes on.  Nothing else need ever happen: neither Postgres nor an upstream
\* need answer.
FairSpec ==
  /\ Spec
  /\ WF_vars(Tick) /\ WF_vars(SweepCancelled) /\ WF_vars(Closing)
  /\ \A r \in Request : WF_vars(Expire(r))

-----------------------------------------------------------------------------
(* Properties *)

\* Every variable has its type, and there is a pool and a sweep exactly while
\* run() has passed NewPool and not ended.
TypeOK ==
  /\ phase \in Phase /\ code \in {0, 1, None}
  /\ (boot # None) <=> (phase \in {"connect", "listen"})
  /\ req \in [Request -> Job \cup {None}]
  /\ pool \in {"none", "open", "closed"} /\ cleanup \in {"none", "on", "cancelled"}
  /\ (pool = "none") <=> (phase \in {"connect", "stopped"})
  /\ (cleanup = "none") <=> (pool = "none")
  /\ open => pool # "none"
  /\ sweep \in {"gone", "waiting", "queued", "running"}
  /\ tick \in 1..Interval /\ drain \in 0..DrainTimeout
  /\ row \in (0..MaxAge) \cup {None}
  /\ {pending, doomed, open, swept, cut} \subseteq BOOLEAN

\* "A typo in a deployment variable should fail the boot, not quietly serve with
\* different settings than the operator asked for" (config.go:71-72): whatever
\* comes up has the environment's value where there is one, else the file's.  That
\* a text must have its form is said of numbers only: one that names no level of
\* the log comes up as well, and logs at "info".
BootsAsWanted ==
  boot # None =>
    /\ boot.env.port # Malformed
    /\ \A s \in DOMAIN Defaults : boot.cfg[s] = Wanted(boot.file, boot.env, s)
    /\ boot.log = LogLevel(Wanted(boot.file, boot.env, "level"))

\* The handler has until the write deadline to be heard: net/http sets it when it
\* has read the request, and what is written after it is lost.
Audible(r) == req[r].age < WriteTimeout

\* The limit of 20 s on a handler keeps every answer that needs no refresh within
\* the 30 s for writing it, however long the pool and the database take.
AnsweredInTime ==
  \A r \in Request : req[r] # None /\ req[r].stage = "lookup" => Audible(r)

\* server.go:17-19: the handler's limit "sits below the server's WriteTimeout so a
\* slow dependency surfaces as a 503 rather than a dropped connection".  A
\* refresh has 15 s more, counted from the end of the lookup.
SlowDependencyAnswered == \A r \in Request : req[r] # None => Audible(r)

\* Whatever hangs, a handler is done when the limit on its lookup and the one on a
\* refresh have both run out (server.go:20, service.go:25): 35 s, which is what the
\* 10 s of Shutdown and a restart have to reckon with.
WorkEnds ==
  \A r \in Request : req[r] # None => req[r].age <= HandlerTimeout + RefreshTimeout

\* An orchestrator may believe the exit code: 0 says that no handler was at work
\* when the process ended, though requests may begin until the last one is done.
\* It does not say that each was heard: see SlowDependencyAnswered.
ZeroMeansDrained == code = 0 => ~cut

\* main.go:83-84, "to bound table growth": as long as sweeps succeed no row is
\* older than the retention and one interval.  Nothing is said of a process that
\* lives less than an interval, nor of one whose sweep hangs.
StaleRowsSwept ==
  cleanup = "on" /\ swept /\ sweep = "waiting" /\ ~pending /\ row # None
    => row < Retention + Interval

\* A process told to stop, or unable to serve, stops by itself, though Postgres
\* and the upstreams never answer again: pool.Close waits for the connection the
\* sweep holds, which has no deadline and comes back only because the sweep's
\* context is cancelled first.
StopsWhateverHangs == phase \in {"draining", "unwinding"} ~> phase = "stopped"

=============================================================================
