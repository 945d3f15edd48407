---------------------------- MODULE Neo4jClient ----------------------------
(***************************************************************************)
(* The Neo4j client of infra/neo4j/client.py: one driver that every task   *)
(* of the process shares, connected on demand, verified with retries, and  *)
(* closed by whichever call meets an error.                                *)
(*                                                                         *)
(* asyncio switches tasks only at an await, so the steps of a call are the *)
(* stretches of code between its awaits.  A call reads self._driver again  *)
(* after most of them, and another one may have closed it, or opened the   *)
(* next, in between.                                                       *)
(*                                                                         *)
(* The database is external: an operation that waits for it succeeds, or   *)
(* fails with an error the code names, or ends the call in a way no        *)
(* handler catches (Abandon).  A driver is named after the call that       *)
(* creates it, because a call creates at most one.  The text of the last   *)
(* connection error is only logged and is left out.                        *)
(***************************************************************************)
EXTENDS Naturals

CONSTANTS
  Calls,     \* the calls of the client's methods
  MaxTries,  \* settings.NEO4J_CONNECT_MAX_RETRIES
  NoDriver   \* Python's None

\* stop_after_attempt(max(1, settings.NEO4J_CONNECT_MAX_RETRIES)).
ASSUME TriesAssumption == MaxTries \in Nat \ {0}

ASSUME NoDriverAssumption == NoDriver \notin Calls

VARIABLES
  driver,   \* self._driver
  blocked,  \* monotonic() < self._reconnect_blocked_until
  opened,   \* the drivers created and not yet closed
  kind,     \* kind[p]: the method call p is of
  at,       \* at[p]: what call p awaits, or how it ended
  on,       \* on[p]: the driver it does that with
  tries     \* tries[p]: the connectivity checks its connect has started

vars == <<driver, blocked, opened, kind, at, on, tries>>

\* The lifespan's connect and close, the queries of the knowledge-graph
\* retriever (execute_read and execute_write do the same), and /health.
Kinds == {"startup", "query", "health", "shutdown"}

\* verify:  connect awaits verify_connectivity
\* backoff: tenacity sleeps before the next attempt
\* query:   the session runs the statement and fetches the records
\* check:   health_check awaits verify_connectivity itself
\* close:   _reset_driver awaits the driver's close
Awaits == {"verify", "backoff", "query", "check", "close"}

\* served:  it returned what was asked for
\* failed:  it raised an error of the driver; health_check returned False
\* refused: connect raised because of the cooldown; False in health_check
\* lost:    RuntimeError("neo4j_driver_not_initialized"); False likewise
\* crashed: an attribute of None was called
\* abandoned: another exception, or the cancellation of the task
Ends == {"served", "failed", "refused", "lost", "crashed", "abandoned"}

Init == /\ driver = NoDriver
        /\ blocked = FALSE
        /\ opened = {}
        /\ kind = [p \in Calls |-> "none"]
        /\ at = [p \in Calls |-> "idle"]
        /\ on = [p \in Calls |-> NoDriver]
        /\ tries = [p \in Calls |-> 0]

Move(p, w, d) == /\ at' = [at EXCEPT ![p] = w]
                 /\ on' = [on EXCEPT ![p] = d]

\* What a call does once connect has returned, or found a driver in place.
UseDriver(p, k) ==
  CASE k = "startup"                          -> Move(p, "served", NoDriver)
    [] k # "startup" /\ driver = NoDriver     -> Move(p, "crashed", NoDriver)
    [] k = "query" /\ driver # NoDriver       -> Move(p, "query", driver)
    [] k = "health" /\ driver # NoDriver      -> Move(p, "check", driver)

\* Plausible bugs in _reset_driver, which the runs must tell from the code:
\* a call resets only the driver it has used itself,
ResetOwn(p) ==
  IF driver = on[p] /\ driver # NoDriver
    THEN driver' = NoDriver /\ Move(p, "close", driver)
    ELSE Move(p, "failed", NoDriver) /\ UNCHANGED driver

\* the driver is unset and not closed,
ResetUnclosed(p) == driver' = NoDriver /\ Move(p, "failed", NoDriver)

\* or it is closed and stays published meanwhile.
ResetPublished(p) ==
  /\ UNCHANGED driver
  /\ IF driver = NoDriver THEN Move(p, "failed", NoDriver)
                          ELSE Move(p, "close", driver)

\* _reset_driver unsets self._driver, whichever it is by now, and then
\* awaits its close; without one it returns at once.
ResetDriver(p) ==
  /\ driver' = NoDriver
  /\ IF driver = NoDriver THEN Move(p, "failed", NoDriver)
                          ELSE Move(p, "close", driver)

\* The lifespan connects before the application serves, and closes after.
Served == \E q \in Calls : kind[q] = "startup" /\ at[q] \in Ends

MayStart(k) == \/ k = "startup" /\ \A q \in Calls : at[q] = "idle"
               \/ k # "startup" /\ Served

\* connect: within the cooldown it raises, otherwise it publishes a new
\* driver and verifies it.
ConnectFor(p) ==
  IF blocked
    THEN Move(p, "refused", NoDriver) /\ UNCHANGED <<driver, opened, tries>>
    ELSE /\ driver' = p
         /\ opened' = opened \cup {p}
         /\ tries' = [tries EXCEPT ![p] = 1]
         /\ Move(p, "verify", p)

\* A call starts: it connects first if there is no driver.
Start(p, k) ==
  /\ at[p] = "idle"
  /\ k # "shutdown"
  /\ MayStart(k)
  /\ kind' = [kind EXCEPT ![p] = k]
  /\ UNCHANGED blocked
  /\ \/ /\ driver = NoDriver
        /\ ConnectFor(p)
     \/ /\ driver # NoDriver
        /\ UseDriver(p, k)
        /\ UNCHANGED <<driver, opened, tries>>

\* close, at shutdown: calls of tasks that still run may overlap it.
Shutdown(p) ==
  /\ at[p] = "idle"
  /\ MayStart("shutdown")
  /\ kind' = [kind EXCEPT ![p] = "shutdown"]
  /\ IF driver = NoDriver
       THEN Move(p, "served", NoDriver) /\ UNCHANGED driver
       ELSE ResetDriver(p)
  /\ UNCHANGED <<blocked, opened, tries>>

\* verify_connectivity returns: connect ends the cooldown and returns.
Verified(p) ==
  /\ at[p] = "verify"
  /\ blocked' = FALSE
  /\ UseDriver(p, kind[p])
  /\ tries' = [tries EXCEPT ![p] = 0]
  /\ UNCHANGED <<driver, opened, kind>>

\* Mutated: one attempt too many.
MayRetryOnceMore(p) == tries[p] <= MaxTries

\* tenacity retries unless the attempts are used up.
MayRetry(p) == tries[p] < MaxTries

\* Mutated: an attempt that fails unsets the driver, so that the next one
\* connects afresh.
VerifyFailsUnset(p) ==
  /\ at[p] = "verify"
  /\ MayRetry(p)
  /\ driver' = NoDriver
  /\ opened' = opened \ {driver}
  /\ Move(p, "backoff", NoDriver)
  /\ UNCHANGED <<blocked, kind, tries>>

\* An error that is retried: the task sleeps.
VerifyFailsForNow(p) ==
  /\ at[p] = "verify"
  /\ MayRetry(p)
  /\ Move(p, "backoff", NoDriver)
  /\ UNCHANGED <<driver, blocked, opened, kind, tries>>

\* The last attempt's error, or one that is not retried (AuthError, another
\* Neo4jError): connect starts the cooldown and resets the driver.
VerifyFails(p) ==
  /\ at[p] = "verify"
  /\ blocked' = TRUE
  /\ ResetDriver(p)
  /\ tries' = [tries EXCEPT ![p] = 0]
  /\ UNCHANGED <<opened, kind>>

\* Mutated: the attempts are not counted.
VerifyUncounted(p) ==
  /\ at[p] = "backoff"
  /\ IF driver = NoDriver THEN Move(p, "lost", NoDriver)
                          ELSE Move(p, "verify", driver)
  /\ UNCHANGED <<driver, blocked, opened, kind, tries>>

\* The next attempt reads self._driver again; without one the RuntimeError
\* leaves connect past its except clause, and so without a cooldown.
VerifyAgain(p) ==
  /\ at[p] = "backoff"
  /\ IF driver = NoDriver
       THEN /\ Move(p, "lost", NoDriver)
            /\ tries' = [tries EXCEPT ![p] = 0]
       ELSE /\ Move(p, "verify", driver)
            /\ tries' = [tries EXCEPT ![p] = @ + 1]
  /\ UNCHANGED <<driver, blocked, opened, kind>>

\* The records have been fetched, or the health check has its answer.
Answered(p) ==
  /\ at[p] \in {"query", "check"}
  /\ Move(p, "served", NoDriver)
  /\ UNCHANGED <<driver, blocked, opened, kind, tries>>

\* An error of the session closes the driver for everyone.
QueryFails(p) ==
  /\ at[p] = "query"
  /\ ResetDriver(p)
  /\ UNCHANGED <<blocked, opened, kind, tries>>

\* An error of the health check is only reported.
CheckFails(p) ==
  /\ at[p] = "check"
  /\ Move(p, "failed", NoDriver)
  /\ UNCHANGED <<driver, blocked, opened, kind, tries>>

\* close returns, or raises an error _reset_driver logs; then the error that
\* led there is raised again, and a shutdown is done.
Closed(p) ==
  /\ at[p] = "close"
  /\ opened' = opened \ {on[p]}
  /\ Move(p, IF kind[p] = "shutdown" THEN "served" ELSE "failed", NoDriver)
  /\ UNCHANGED <<driver, blocked, kind, tries>>

\* The task is cancelled (the reader of a stream leaves), or an exception no
\* clause names is raised.  A close that is cut short still drops the
\* driver's sockets.
Abandon(p) ==
  /\ at[p] \in Awaits
  /\ opened' = IF at[p] = "close" THEN opened \ {on[p]} ELSE opened
  /\ Move(p, "abandoned", NoDriver)
  /\ tries' = [tries EXCEPT ![p] = 0]
  /\ UNCHANGED <<driver, blocked, kind>>

\* The cooldown runs out.
CooledDown ==
  /\ blocked
  /\ blocked' = FALSE
  /\ UNCHANGED <<driver, opened, kind, at, on, tries>>

Proceed(p) == \/ Verified(p)
              \/ VerifyFailsForNow(p)
              \/ VerifyFails(p)
              \/ VerifyAgain(p)
              \/ Answered(p)
              \/ QueryFails(p)
              \/ CheckFails(p)
              \/ Closed(p)

Next == \/ \E p \in Calls, k \in Kinds : Start(p, k)
        \/ \E p \in Calls : Shutdown(p)
        \/ \E p \in Calls : Proceed(p)
        \/ \E p \in Calls : Abandon(p)
        \/ CooledDown

\* What a call awaits comes to an end: the driver has timeouts of its own
\* (settings the client leaves at their defaults), and a sleep is finite.
Fairness == \A p \in Calls : WF_vars(Proceed(p))

Spec == Init /\ [][Next]_vars /\ Fairness
=============================================================================
