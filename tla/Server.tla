------------------------------- MODULE Server -------------------------------
(***************************************************************************)
(* The life of recon serve (runServe in cmd/recon/main.go): the jobs of    *)
(* the scheduler (internal/scheduler/scheduler.go), the requests of the    *)
(* HTTP server behind the rate limiter of their route                      *)
(* (internal/api/router.go), and the shutdown that stops first the one and *)
(* then the other.                                                         *)
(*                                                                         *)
(* A request is named by its address and its number among that address's.  *)
(* What jobs and requests do to the stores is left to the other modules.   *)
(***************************************************************************)
EXTENDS RateLimiter, FiniteSets

CONSTANTS
    Jobs,
    MaxRequests    \* bound on the requests of an address

ASSUME ServerAssumption == MaxRequests \in Nat

VARIABLES
    ctxDone,       \* shutdownCtx has ended: a signal came
    job,           \* [Jobs -> "waits", "runs" or "stopped"]
    ticked,        \* the jobs whose ticker holds a tick
    main,          \* where runServe stands
    handled,       \* the requests in a handler: <<address, number>>
    answered,      \* the requests answered by their handlers
    refused        \* the number of requests refused for each address

limiter == <<now, tokens, lastReset, admitted, promised>>
scheduler == <<job, ticked>>
server == <<handled, answered, refused>>
allVars == <<limiter, ctxDone, scheduler, main, server>>

-----------------------------------------------------------------------------
Up == main \notin {"exited", "fatal"}
Listening == main \in {"serves", "stops"}

(* The scheduler: Scheduler.run of each job. *)

\* A ticker holds one tick and drops those that come while it does.
TickerFires(j) ==
    /\ Up /\ job[j] # "stopped" /\ j \notin ticked
    /\ ticked' = ticked \cup {j}
    /\ UNCHANGED <<limiter, ctxDone, job, main, server>>

\* select takes either case that is ready, so a job may start although the
\* context has ended.
StartJob(j) ==
    /\ Up /\ job[j] = "waits" /\ j \in ticked
    /\ job' = [job EXCEPT ![j] = "runs"] /\ ticked' = ticked \ {j}
    /\ UNCHANGED <<limiter, ctxDone, main, server>>

EndJob(j) ==
    /\ Up /\ job[j] = "runs"
    /\ job' = [job EXCEPT ![j] = "waits"]
    /\ UNCHANGED <<limiter, ctxDone, ticked, main, server>>

\* A plausible slip: the ticks that came are served first.
StopJobUnlessTicked(j) ==
    /\ Up /\ job[j] = "waits" /\ ctxDone /\ j \notin ticked
    /\ job' = [job EXCEPT ![j] = "stopped"]
    /\ UNCHANGED <<limiter, ctxDone, ticked, main, server>>

StopJob(j) ==
    /\ Up /\ job[j] = "waits" /\ ctxDone
    /\ job' = [job EXCEPT ![j] = "stopped"] /\ ticked' = ticked \ {j}
    /\ UNCHANGED <<limiter, ctxDone, main, server>>

(* The HTTP server. *)

Request(k) ==
    /\ Listening /\ Len(admitted[k]) + refused[k] < MaxRequests
    /\ \/ /\ Admit(k)
          /\ handled' = handled \cup {<<k, Len(admitted'[k])>>}
          /\ UNCHANGED refused
       \/ /\ Refuse(k)
          /\ refused' = [refused EXCEPT ![k] = @ + 1]
          /\ UNCHANGED handled
    /\ UNCHANGED <<ctxDone, scheduler, main, answered>>

Answer(r) ==
    /\ Up /\ r \in handled
    /\ handled' = handled \ {r} /\ answered' = answered \cup {r}
    /\ UNCHANGED <<limiter, ctxDone, scheduler, main, refused>>

ListenFails ==
    /\ Listening /\ main' = "fatal"
    /\ UNCHANGED <<limiter, ctxDone, scheduler, server>>

(* The shutdown. *)

Signal ==
    /\ Up /\ ~ctxDone /\ ctxDone' = TRUE
    /\ UNCHANGED <<limiter, scheduler, main, server>>

StopScheduler ==
    /\ main = "serves" /\ ctxDone /\ main' = "stops"
    /\ UNCHANGED <<limiter, ctxDone, scheduler, server>>

\* A plausible slip: no wg.Wait.
DrainAtOnce ==
    /\ main = "stops" /\ main' = "drains"
    /\ UNCHANGED <<limiter, ctxDone, scheduler, server>>

\* sched.Stop returns and srv.Shutdown closes the listener.
Drain ==
    /\ main = "stops" /\ \A j \in Jobs : job[j] = "stopped"
    /\ main' = "drains"
    /\ UNCHANGED <<limiter, ctxDone, scheduler, server>>

\* The deferred calls close Redis and the database.
Exit ==
    /\ main = "drains" /\ handled = {} /\ main' = "exited"
    /\ UNCHANGED <<limiter, ctxDone, scheduler, server>>

\* Ten seconds are over before every request is answered.
DrainTimesOut ==
    /\ main = "drains" /\ handled # {} /\ main' = "fatal"
    /\ UNCHANGED <<limiter, ctxDone, scheduler, server>>

Clock == Up /\ Tick /\ UNCHANGED <<ctxDone, scheduler, main, server>>

-----------------------------------------------------------------------------
ServerInit ==
    /\ Init
    /\ ctxDone = FALSE
    /\ job = [j \in Jobs |-> "waits"] /\ ticked = {}
    /\ main = "serves"
    /\ handled = {} /\ answered = {} /\ refused = [k \in Keys |-> 0]

ServerNext ==
    \/ \E j \in Jobs : TickerFires(j) \/ StartJob(j) \/ EndJob(j) \/ StopJob(j)
    \/ \E k \in Keys : Request(k)
    \/ \E r \in handled : Answer(r)
    \/ ListenFails \/ Signal \/ StopScheduler \/ Drain \/ Exit \/ DrainTimesOut
    \/ Clock

ServerSpec == ServerInit /\ [][ServerNext]_allVars

\* A job's function returns (Reconcile ends under a context that has ended), a
\* select that finds two cases ready again and again takes each of them (it
\* draws at random), and the drain has a timeout.  Requests need not end.
FairSpec ==
    /\ ServerSpec
    /\ \A j \in Jobs : WF_allVars(EndJob(j)) /\ SF_allVars(StopJob(j))
    /\ WF_allVars(StopScheduler) /\ WF_allVars(Drain)
    /\ WF_allVars(Exit \/ DrainTimesOut)

-----------------------------------------------------------------------------
\* The type invariant of the limiter and of the server.
ServerTypeOK ==
    /\ TypeOK
    /\ ctxDone \in BOOLEAN /\ job \in [Jobs -> {"waits", "runs", "stopped"}]
    /\ ticked \subseteq Jobs
    /\ main \in {"serves", "stops", "drains", "exited", "fatal"}
    /\ handled \cup answered \subseteq Keys \X Nat
    /\ refused \in [Keys -> 0 .. MaxRequests]

\* A server that has stopped gracefully, and so has closed its database, left
\* no job under way and answered every request that the limiter let through,
\* those included that came while the scheduler was being stopped.
GracefulExitIsQuiet ==
    main = "exited" =>
        /\ \A j \in Jobs : job[j] # "runs"
        /\ answered = {r \in Keys \X (1 .. MaxRequests) : r[2] <= Len(admitted[r[1]])}

\* A signal ends the process, however often the tickers fire meanwhile and
\* whether or not the requests end.
ShutdownEnds == ctxDone ~> ~Up
=============================================================================
