----------------------- MODULE Neo4jClientProperties -----------------------
(***************************************************************************)
(* What the Neo4j client has to keep true however its calls interleave.    *)
(***************************************************************************)
EXTENDS Neo4jClient

\* The variables of the client and the calls have their types; no call makes
\* more than MaxTries connectivity checks (_verify_connectivity_with_retry).
TypeOK == /\ driver \in Calls \cup {NoDriver}
          /\ blocked \in BOOLEAN
          /\ opened \subseteq Calls
          /\ kind \in [Calls -> Kinds \cup {"none"}]
          /\ at \in [Calls -> {"idle"} \cup Awaits \cup Ends]
          /\ on \in [Calls -> Calls \cup {NoDriver}]
          /\ tries \in [Calls -> 0..MaxTries]

\* While the cooldown of a failed connect lasts no driver is published, so
\* that every call is refused at once instead of waiting for the timeouts of
\* a database that is down: connect arms the cooldown and resets whatever
\* driver there is in one step, and connects no other until it is over.
CooldownHasNoDriver == blocked => driver = NoDriver

\* The drivers that are open are the published one and those a call is
\* closing: no interleaving of connects and resets loses one with its pool
\* of connections.
NoDriverLeaks ==
  opened = {d \in Calls : \/ d = driver
                          \/ \E p \in Calls : at[p] = "close" /\ on[p] = d}

\* A driver is closed by one call only, and is unpublished by then:
\* _reset_driver unsets self._driver before it awaits the close, so nobody
\* opens a session on a driver that is being closed.
ClosedOnce ==
  \A p \in Calls : at[p] = "close" =>
    /\ on[p] # driver
    /\ \A q \in Calls \ {p} : at[q] = "close" => on[q] # on[p]

\* Call q has met an error, was cut short or shuts the client down: only such
\* a call takes the driver away.
MayHaveReset(q) == \/ at[q] \in {"close", "failed", "abandoned"}
                   \/ kind[q] = "shutdown" /\ at[q] \in Ends

\* A call that has connected and then finds no driver (client.py:51, :122,
\* :144) has lost it to the failure of another call: what it does itself, the
\* retries of its verification included, never takes the driver away from it,
\* and neither do calls that succeed or are refused.
LostOnlyToAFailure ==
  \A p \in Calls : at[p] \in {"lost", "crashed"} =>
    \E q \in Calls \ {p} : MayHaveReset(q)

\* Refinement: the drivers that are open and not published are being closed.
D == INSTANCE SharedDriver WITH
       Drivers <- Calls,
       None    <- NoDriver,
       current <- driver,
       closing <- opened \ {driver},
       cooling <- blocked

\* All calls together treat the driver as one that is shared with care, in
\* whatever order their awaits return: none replaces a driver that is there,
\* revives one that is retired, or connects while a cooldown lasts.
SharesOneDriver == D!Spec

\* Every call comes to an end, whatever the others do to the driver it
\* waits for: the retries of the verification are bounded.
EveryCallReturns == \A p \in Calls : at[p] \in Awaits ~> at[p] \in Ends

\* How far a call is: the attempts of its connect, the use of the driver, the
\* close after an error, and its end.
Rung(p) == CASE at[p] = "idle"               -> 0
             [] at[p] = "verify"             -> 2 * tries[p]
             [] at[p] = "backoff"            -> 2 * tries[p] + 1
             [] at[p] \in {"query", "check"} -> 2 * MaxTries + 2
             [] at[p] = "close"              -> 2 * MaxTries + 3
             [] OTHER                        -> 2 * MaxTries + 4

\* The safety half of it: a step takes one call nearer to its end and no other
\* one back, whatever it does to the driver they share; or the cooldown ends,
\* which only a call that fails starts again.
EveryStepIsProgress ==
  [][\/ \E p \in Calls : /\ Rung(p)' > Rung(p)
                        /\ \A q \in Calls \ {p} : Rung(q)' = Rung(q)
     \/ /\ blocked /\ ~ blocked'
        /\ \A q \in Calls : Rung(q)' = Rung(q)]_vars

\* Unless the application shuts down, a connect that fails starts the
\* cooldown.  The changelog of the connection fix promises it, in
\* docs/changelog/2026-02-10-v1.3, section 3, item 2: a cooldown window after
\* a failure.  It is not so when a query has closed the driver while the
\* connect was backing off.
FailedConnectCoolsDown ==
  [][\A p \in Calls :
       /\ at[p] \in {"verify", "backoff"}
       /\ at'[p] \in {"close", "failed", "lost"}
       /\ \A q \in Calls : kind[q] # "shutdown"
       => blocked']_vars
=============================================================================
