------------------------- MODULE Neo4jClientProofs -------------------------
(***************************************************************************)
(* Proofs of the safety properties of the Neo4j client, for any number of  *)
(* calls and of attempts.                                                  *)
(*                                                                         *)
(* The properties are inductive together once it is known that the call    *)
(* that creates a driver has created none before, so that its name is new, *)
(* that a call sleeps only while it has attempts left, and that the close  *)
(* of the shutdown never connects.                                         *)
(***************************************************************************)
EXTENDS Neo4jClientProperties, TLAPS

\* A call that has not started has opened no driver.
Fresh == \A p \in Calls : at[p] = "idle" => p \notin opened

\* A call that sleeps before the next attempt has one left.
AttemptsLeft == \A p \in Calls : at[p] = "backoff" => tries[p] < MaxTries

\* A call that closes a driver has one to close.
ClosesOne == \A p \in Calls : at[p] = "close" => on[p] \in Calls

\* The part of the invariant that is about the drivers alone.
Drivers == NoDriverLeaks /\ ClosedOnce /\ Fresh /\ ClosesOne

\* Only a call that wants the driver for itself connects.
WantsDriver == \A p \in Calls :
  at[p] \in {"verify", "backoff"} => kind[p] \in {"startup", "query", "health"}

Inv == TypeOK /\ CooldownHasNoDriver /\ Drivers /\ AttemptsLeft /\ WantsDriver

\* The state a step of call p leaves when it neither opens nor closes a
\* driver: it waits for something else than a close.
LEMMA DriversKept ==
  ASSUME TypeOK, Drivers,
         NEW p \in Calls, NEW w \in {"idle"} \cup Awaits \cup Ends,
         NEW d \in Calls \cup {NoDriver},
         at[p] # "close", w # "close", w # "idle",
         Move(p, w, d), UNCHANGED <<driver, opened>>
  PROVE  Drivers'
<1>1. /\ at'[p] = w
      /\ \A q \in Calls \ {p} : at'[q] = at[q] /\ on'[q] = on[q]
  BY DEF TypeOK, Move
<1>2. \A q \in Calls : at'[q] = "close" <=> at[q] = "close"
  BY <1>1
<1>3. \A q \in Calls : at[q] = "close" => on'[q] = on[q]
  BY <1>1
<1>4. NoDriverLeaks'
  BY <1>2, <1>3 DEF Drivers, NoDriverLeaks
<1>5. ClosedOnce'
  BY <1>2, <1>3 DEF Drivers, ClosedOnce
<1>6. Fresh'
  BY <1>1 DEF Drivers, Fresh
<1>7. ClosesOne'
  BY <1>2, <1>3 DEF Drivers, ClosesOne
<1>8. QED
  BY <1>4, <1>5, <1>6, <1>7 DEF Drivers

\* A call that resets the driver closes the one that was published, which
\* nobody else is closing.
LEMMA DriversReset ==
  ASSUME TypeOK, Drivers, NoDriver \notin Calls,
         NEW p \in Calls, at[p] # "close", ResetDriver(p), UNCHANGED opened
  PROVE  Drivers'
<1>1. CASE driver = NoDriver
  <2>1. Move(p, "failed", NoDriver) /\ UNCHANGED <<driver, opened>>
    BY <1>1 DEF ResetDriver
  <2>2. QED
    BY <2>1, DriversKept DEF Ends
<1>2. CASE driver # NoDriver
  <2>1. /\ driver' = NoDriver
        /\ opened' = opened
        /\ at'[p] = "close" /\ on'[p] = driver
        /\ \A q \in Calls \ {p} : at'[q] = at[q] /\ on'[q] = on[q]
    BY <1>2 DEF ResetDriver, Move, TypeOK
  <2>2. driver \in Calls
    BY <1>2 DEF TypeOK
  <2>3. NoDriverLeaks'
    <3>1. \A e \in Calls :
            (e = driver \/ \E q \in Calls : at[q] = "close" /\ on[q] = e)
              <=> \E q \in Calls : at'[q] = "close" /\ on'[q] = e
      BY <2>1
    <3>2. opened' = {e \in Calls : \E q \in Calls : at'[q] = "close" /\ on'[q] = e}
      BY <2>1, <3>1 DEF Drivers, NoDriverLeaks
    <3>3. QED
      BY <2>1, <3>2 DEF NoDriverLeaks
  <2>4. ClosedOnce'
    <3>1. \A q \in Calls \ {p} : at[q] = "close" => on[q] # driver
      BY DEF Drivers, ClosedOnce
    <3>2. \A q \in Calls : at'[q] = "close" => on'[q] # NoDriver
      BY <2>1, <2>2 DEF Drivers, ClosesOne
    <3>3. QED
      BY <2>1, <2>2, <3>1, <3>2 DEF Drivers, ClosedOnce
  <2>5. Fresh'
    BY <2>1 DEF Drivers, Fresh
  <2>6. ClosesOne'
    BY <2>1, <2>2 DEF Drivers, ClosesOne
  <2>7. QED
    BY <2>3, <2>4, <2>5, <2>6 DEF Drivers
<1>3. QED
  BY <1>1, <1>2

\* A call that connects publishes a driver nobody has seen yet.
LEMMA DriverCreated ==
  ASSUME TypeOK, Drivers, NoDriver \notin Calls, driver = NoDriver,
         NEW p \in Calls, at[p] = "idle", ~blocked, ConnectFor(p)
  PROVE  Drivers'
<1>1. /\ driver' = p
      /\ opened' = opened \cup {p}
      /\ at'[p] = "verify"
      /\ \A q \in Calls \ {p} : at'[q] = at[q] /\ on'[q] = on[q]
  BY DEF ConnectFor, Move, TypeOK
<1>2. \A q \in Calls : at'[q] = "close" <=> at[q] = "close"
  BY <1>1
<1>3. \A q \in Calls : at[q] = "close" => on'[q] = on[q]
  BY <1>1
<1>4. \A q \in Calls : at[q] = "close" => on[q] # p
  BY DEF Drivers, NoDriverLeaks, Fresh, ClosesOne
<1>5. NoDriverLeaks'
  <2>1. opened = {e \in Calls : \E q \in Calls : at[q] = "close" /\ on[q] = e}
    BY DEF Drivers, NoDriverLeaks
  <2>2. QED
    BY <1>1, <1>2, <1>3, <2>1 DEF NoDriverLeaks
<1>6. ClosedOnce'
  BY <1>1, <1>2, <1>3, <1>4 DEF Drivers, ClosedOnce
<1>7. Fresh'
  BY <1>1 DEF Drivers, Fresh
<1>8. ClosesOne'
  BY <1>2, <1>3 DEF Drivers, ClosesOne
<1>9. QED
  BY <1>5, <1>6, <1>7, <1>8 DEF Drivers

\* A call that has closed its driver, or is cut short while it does, takes
\* it out of the open ones.
LEMMA DriverClosed ==
  ASSUME TypeOK, Drivers,
         NEW p \in Calls, NEW w \in Ends, at[p] = "close",
         Move(p, w, NoDriver), opened' = opened \ {on[p]}, UNCHANGED driver
  PROVE  Drivers'
<1>1. /\ at'[p] = w
      /\ w # "close" /\ w # "idle"
      /\ \A q \in Calls \ {p} : at'[q] = at[q] /\ on'[q] = on[q]
  BY DEF TypeOK, Move, Ends
<1>2. \A q \in Calls \ {p} : at[q] = "close" => on[q] # on[p]
  BY DEF Drivers, ClosedOnce
<1>3. on[p] # driver
  BY DEF Drivers, ClosedOnce
<1>4. NoDriverLeaks'
  <2>1. \A e \in Calls :
          (\E q \in Calls : at'[q] = "close" /\ on'[q] = e)
            <=> e # on[p] /\ \E q \in Calls : at[q] = "close" /\ on[q] = e
    BY <1>1, <1>2
  <2>2. QED
    BY <2>1, <1>3 DEF Drivers, NoDriverLeaks
<1>5. ClosedOnce'
  BY <1>1 DEF Drivers, ClosedOnce
<1>6. Fresh'
  BY <1>1 DEF Drivers, Fresh
<1>7. ClosesOne'
  BY <1>1 DEF Drivers, ClosesOne
<1>8. QED
  BY <1>4, <1>5, <1>6, <1>7 DEF Drivers

\* What a call does with the driver, or with its absence.
LEMMA DriverUsed ==
  ASSUME TypeOK, NEW p \in Calls, NEW k \in {"startup", "query", "health"},
         UseDriver(p, k)
  PROVE  \E w \in {"served", "crashed", "query", "check"},
            d \in Calls \cup {NoDriver} : Move(p, w, d)
<1>1. CASE k = "startup"
  BY <1>1 DEF UseDriver
<1>2. CASE k # "startup" /\ driver = NoDriver
  BY <1>2 DEF UseDriver
<1>3. CASE k = "query" /\ driver # NoDriver
  BY <1>3 DEF UseDriver, TypeOK
<1>4. CASE k = "health" /\ driver # NoDriver
  BY <1>4 DEF UseDriver, TypeOK
<1>5. QED
  BY <1>1, <1>2, <1>3, <1>4

\* The rest of the invariant follows from a move of one call.
LEMMA CallMoved ==
  ASSUME Inv,
         NEW p \in Calls, NEW w \in Awaits \cup Ends,
         NEW d \in Calls \cup {NoDriver}, NEW k \in Kinds \cup {"none"},
         Move(p, w, d), kind' = [kind EXCEPT ![p] = k],
         tries' \in [Calls -> 0..MaxTries],
         \A q \in Calls \ {p} : tries'[q] = tries[q],
         w = "backoff" => tries'[p] < MaxTries,
         w \in {"verify", "backoff"} => k \in {"startup", "query", "health"},
         driver' \in Calls \cup {NoDriver}, blocked' \in BOOLEAN,
         opened' \subseteq Calls,
         blocked' => driver' = NoDriver,
         Drivers'
  PROVE  Inv'
<1>1. /\ at'[p] = w /\ kind'[p] = k
      /\ \A q \in Calls \ {p} : at'[q] = at[q] /\ kind'[q] = kind[q]
  BY DEF Inv, TypeOK, Move
<1>2. TypeOK'
  BY DEF Inv, TypeOK, Move
<1>3. AttemptsLeft'
  BY <1>1 DEF Inv, AttemptsLeft
<1>4. WantsDriver'
  BY <1>1 DEF Inv, WantsDriver
<1>5. QED
  BY <1>2, <1>3, <1>4 DEF Inv, CooldownHasNoDriver

\* A step of a call that already runs: its kind is what it was, and the
\* attempts it has made are counted or forgotten.
LEMMA CallProceeds ==
  ASSUME Inv,
         NEW p \in Calls, NEW w \in Awaits \cup Ends,
         NEW d \in Calls \cup {NoDriver}, NEW n \in 0..MaxTries,
         Move(p, w, d), UNCHANGED kind, tries' = [tries EXCEPT ![p] = n],
         w = "backoff" => n < MaxTries,
         w \in {"verify", "backoff"} => at[p] \in {"verify", "backoff"},
         driver' \in {driver, NoDriver}, blocked' \in BOOLEAN,
         opened' \subseteq opened,
         blocked' => blocked \/ driver' = NoDriver,
         Drivers'
  PROVE  Inv'
<1>1. TypeOK /\ CooldownHasNoDriver /\ WantsDriver
  BY DEF Inv
<1>2. kind' = [kind EXCEPT ![p] = kind[p]] /\ kind[p] \in Kinds \cup {"none"}
  BY <1>1 DEF TypeOK
<1>3. /\ tries' \in [Calls -> 0..MaxTries]
      /\ tries'[p] = n
      /\ \A q \in Calls \ {p} : tries'[q] = tries[q]
  BY <1>1 DEF TypeOK
<1>4. w \in {"verify", "backoff"} => kind[p] \in {"startup", "query", "health"}
  BY <1>1 DEF WantsDriver
<1>5. driver' \in Calls \cup {NoDriver} /\ opened' \subseteq Calls
  BY <1>1 DEF TypeOK
<1>6. blocked' => driver' = NoDriver
  BY <1>1 DEF CooldownHasNoDriver
<1>7. QED
  BY <1>2, <1>3, <1>4, <1>5, <1>6, CallMoved

\* The invariant holds at first and every step of the client keeps it, for
\* any set of calls and any number of attempts.
THEOREM Invariance == Spec => []Inv
<1> USE NoDriverAssumption, TriesAssumption
<1>1. Init => Inv
  <2> SUFFICES ASSUME Init PROVE Inv
    OBVIOUS
  <2>1. TypeOK
    <3>1. tries \in [Calls -> 0..MaxTries]
      BY DEF Init
    <3>2. at \in [Calls -> {"idle"} \cup Awaits \cup Ends]
      BY DEF Init
    <3>3. kind \in [Calls -> Kinds \cup {"none"}]
      BY DEF Init
    <3>4. QED
      BY <3>1, <3>2, <3>3 DEF Init, TypeOK
  <2>2. Drivers
    BY DEF Init, Drivers, NoDriverLeaks, ClosedOnce, Fresh, ClosesOne
  <2>3. QED
    BY <2>1, <2>2 DEF Init, Inv, CooldownHasNoDriver, AttemptsLeft, WantsDriver
<1>2. Inv /\ [Next]_vars => Inv'
  <2> SUFFICES ASSUME Inv, [Next]_vars PROVE Inv'
    OBVIOUS
  <2>1. TypeOK /\ Drivers /\ CooldownHasNoDriver /\ AttemptsLeft /\ WantsDriver
    BY DEF Inv
  <2>2. ASSUME NEW p \in Calls, NEW k \in Kinds, Start(p, k) PROVE Inv'
    <3>1. /\ at[p] = "idle" /\ k \in {"startup", "query", "health"}
          /\ kind' = [kind EXCEPT ![p] = k] /\ blocked' = blocked
      BY <2>2 DEF Start, Kinds
    <3>2. CASE driver = NoDriver /\ blocked /\ ConnectFor(p)
      <4>1. /\ Move(p, "refused", NoDriver)
            /\ driver' = driver /\ opened' = opened /\ tries' = tries
        BY <3>2 DEF ConnectFor
      <4>2. Drivers'
        BY <2>1, <3>1, <4>1, DriversKept DEF Ends
      <4>3. QED
        BY <2>1, <3>1, <3>2, <4>1, <4>2, CallMoved DEF TypeOK, Ends
    <3>3. CASE driver = NoDriver /\ ~blocked /\ ConnectFor(p)
      <4>1. /\ Move(p, "verify", p) /\ driver' = p
            /\ opened' = opened \cup {p} /\ tries' = [tries EXCEPT ![p] = 1]
        BY <3>3 DEF ConnectFor
      <4>2. Drivers'
        BY <2>1, <3>1, <3>3, DriverCreated
      <4>3. tries' \in [Calls -> 0..MaxTries]
        BY <2>1, <4>1 DEF TypeOK
      <4>4. \A q \in Calls \ {p} : tries'[q] = tries[q]
        BY <2>1, <4>1 DEF TypeOK
      <4>5. opened' \subseteq Calls /\ driver' \in Calls /\ blocked' = FALSE
        BY <2>1, <3>1, <3>3, <4>1 DEF TypeOK
      <4>6. QED
        BY <3>1, <4>1, <4>2, <4>3, <4>4, <4>5, CallMoved DEF Awaits
    <3>4. CASE driver # NoDriver /\ UseDriver(p, k)
               /\ UNCHANGED <<driver, opened, tries>>
      <4>1. PICK w \in {"served", "crashed", "query", "check"},
                 d \in Calls \cup {NoDriver} : Move(p, w, d)
        BY <2>1, <3>1, <3>4, DriverUsed
      <4>2. Drivers'
        BY <2>1, <3>1, <3>4, <4>1, DriversKept DEF Awaits, Ends
      <4>3. w \in Awaits \cup Ends
        BY DEF Awaits, Ends
      <4>4. /\ tries' \in [Calls -> 0..MaxTries] /\ opened' \subseteq Calls
            /\ driver' \in Calls \cup {NoDriver} /\ blocked' \in BOOLEAN
            /\ blocked' => driver' = NoDriver
        BY <2>1, <3>1, <3>4 DEF TypeOK, CooldownHasNoDriver
      <4>5. QED
        BY <3>1, <3>4, <4>1, <4>2, <4>3, <4>4, CallMoved
    <3>5. QED
      BY <2>2, <3>2, <3>3, <3>4 DEF Start
  <2>3. ASSUME NEW p \in Calls, Shutdown(p) PROVE Inv'
    <3>1. /\ at[p] = "idle" /\ kind' = [kind EXCEPT ![p] = "shutdown"]
          /\ blocked' = blocked /\ opened' = opened /\ tries' = tries
      BY <2>3 DEF Shutdown
    <3>2. CASE driver = NoDriver
      <4>1. Move(p, "served", NoDriver) /\ driver' = driver
        BY <2>3, <3>2 DEF Shutdown
      <4>2. Drivers'
        BY <2>1, <3>1, <4>1, DriversKept DEF Ends
      <4>3. QED
        BY <2>1, <3>1, <3>2, <4>1, <4>2, CallMoved DEF TypeOK, Ends, Kinds
    <3>3. CASE driver # NoDriver
      <4>1. Move(p, "close", driver) /\ driver' = NoDriver
        BY <2>3, <3>3 DEF Shutdown, ResetDriver
      <4>2. Drivers'
        BY <2>1, <2>3, <3>1, <3>3, DriversReset DEF Shutdown
      <4>3. QED
        BY <2>1, <3>1, <3>3, <4>1, <4>2, CallMoved DEF TypeOK, Awaits, Kinds
    <3>4. QED
      BY <3>2, <3>3
  <2>4. ASSUME NEW p \in Calls, Verified(p) PROVE Inv'
    <3>1. /\ at[p] = "verify" /\ blocked' = FALSE /\ UseDriver(p, kind[p])
          /\ tries' = [tries EXCEPT ![p] = 0]
          /\ driver' = driver /\ opened' = opened /\ kind' = kind
      BY <2>4 DEF Verified
    <3>2. kind[p] \in {"startup", "query", "health"}
      BY <2>1, <3>1 DEF WantsDriver
    <3>3. PICK w \in {"served", "crashed", "query", "check"},
               d \in Calls \cup {NoDriver} : Move(p, w, d)
      BY <2>1, <3>1, <3>2, DriverUsed
    <3>4. Drivers'
      BY <2>1, <3>1, <3>3, DriversKept DEF Awaits, Ends
    <3>5. w \in Awaits \cup Ends
      BY DEF Awaits, Ends
    <3>6. 0 \in 0..MaxTries
      OBVIOUS
    <3>7. QED
      BY <3>1, <3>3, <3>4, <3>5, <3>6, CallProceeds
  <2>5. ASSUME NEW p \in Calls, VerifyFailsForNow(p) PROVE Inv'
    <3>1. /\ at[p] = "verify" /\ tries[p] < MaxTries
          /\ Move(p, "backoff", NoDriver)
          /\ UNCHANGED <<driver, blocked, opened, kind, tries>>
      BY <2>5 DEF VerifyFailsForNow, MayRetry
    <3>2. Drivers'
      BY <2>1, <3>1, DriversKept DEF Awaits
    <3>3. tries[p] \in 0..MaxTries /\ tries' = [tries EXCEPT ![p] = tries[p]]
      BY <2>1, <3>1 DEF TypeOK
    <3>4. QED
      BY <2>1, <3>1, <3>2, <3>3, CallProceeds DEF TypeOK, Awaits
  <2>6. ASSUME NEW p \in Calls, VerifyFails(p) PROVE Inv'
    <3>1. /\ at[p] = "verify" /\ blocked' = TRUE /\ ResetDriver(p)
          /\ tries' = [tries EXCEPT ![p] = 0] /\ UNCHANGED <<opened, kind>>
      BY <2>6 DEF VerifyFails
    <3>2. driver' = NoDriver
      BY <3>1 DEF ResetDriver
    <3>3. PICK w \in {"failed", "close"}, d \in Calls \cup {NoDriver} : Move(p, w, d)
      BY <2>1, <3>1 DEF ResetDriver, TypeOK
    <3>4. Drivers'
      BY <2>1, <3>1, DriversReset
    <3>5. w \in Awaits \cup Ends /\ 0 \in 0..MaxTries /\ blocked' \in BOOLEAN
      BY <3>1 DEF Awaits, Ends
    <3>6. QED
      BY <3>1, <3>2, <3>3, <3>4, <3>5, CallProceeds
  <2>7. ASSUME NEW p \in Calls, VerifyAgain(p) PROVE Inv'
    <3>1. at[p] = "backoff" /\ UNCHANGED <<driver, blocked, opened, kind>>
      BY <2>7 DEF VerifyAgain
    <3>2. CASE driver = NoDriver
      <4>1. Move(p, "lost", NoDriver) /\ tries' = [tries EXCEPT ![p] = 0]
        BY <2>7, <3>2 DEF VerifyAgain
      <4>2. Drivers'
        BY <2>1, <3>1, <4>1, DriversKept DEF Ends
      <4>3. "lost" \in Awaits \cup Ends /\ 0 \in 0..MaxTries /\ blocked' \in BOOLEAN
        BY <2>1, <3>1 DEF TypeOK, Ends
      <4>4. QED
        BY <3>1, <4>1, <4>2, <4>3, CallProceeds
    <3>3. CASE driver # NoDriver
      <4>1. /\ Move(p, "verify", driver) /\ driver \in Calls
            /\ tries' = [tries EXCEPT ![p] = tries[p] + 1]
            /\ tries[p] + 1 \in 0..MaxTries
        BY <2>1, <2>7, <3>1, <3>3 DEF VerifyAgain, TypeOK, AttemptsLeft
      <4>2. Drivers'
        BY <2>1, <3>1, <4>1, DriversKept DEF Awaits
      <4>3. QED
        BY <2>1, <3>1, <4>1, <4>2, CallProceeds DEF TypeOK, Awaits
    <3>4. QED
      BY <3>2, <3>3
  <2>8. ASSUME NEW p \in Calls, Answered(p) \/ CheckFails(p) PROVE Inv'
    <3>1. /\ at[p] \in {"query", "check"}
          /\ UNCHANGED <<driver, blocked, opened, kind, tries>>
          /\ \E w \in {"served", "failed"} : Move(p, w, NoDriver)
      BY <2>8 DEF Answered, CheckFails
    <3>2. PICK w \in {"served", "failed"} : Move(p, w, NoDriver)
      BY <3>1
    <3>3. Drivers'
      BY <2>1, <3>1, <3>2, DriversKept DEF Ends
    <3>4. tries[p] \in 0..MaxTries /\ tries' = [tries EXCEPT ![p] = tries[p]]
      BY <2>1, <3>1 DEF TypeOK
    <3>5. QED
      BY <2>1, <3>1, <3>2, <3>3, <3>4, CallProceeds DEF TypeOK, Ends
  <2>9. ASSUME NEW p \in Calls, QueryFails(p) PROVE Inv'
    <3>1. /\ at[p] = "query" /\ ResetDriver(p)
          /\ UNCHANGED <<blocked, opened, kind, tries>>
      BY <2>9 DEF QueryFails
    <3>2. driver' = NoDriver /\ \E w \in {"failed", "close"},
              d \in Calls \cup {NoDriver} : Move(p, w, d)
      BY <2>1, <3>1 DEF ResetDriver, TypeOK
    <3>3. Drivers'
      BY <2>1, <3>1, DriversReset
    <3>4. tries[p] \in 0..MaxTries /\ tries' = [tries EXCEPT ![p] = tries[p]]
      BY <2>1, <3>1 DEF TypeOK
    <3>5. QED
      BY <2>1, <3>1, <3>2, <3>3, <3>4, CallProceeds DEF TypeOK, Awaits, Ends
  <2>10. ASSUME NEW p \in Calls, Closed(p) PROVE Inv'
    <3>1. /\ at[p] = "close" /\ opened' = opened \ {on[p]}
          /\ UNCHANGED <<driver, blocked, kind, tries>>
          /\ \E w \in {"served", "failed"} : Move(p, w, NoDriver)
      BY <2>10 DEF Closed
    <3>2. PICK w \in {"served", "failed"} : Move(p, w, NoDriver)
      BY <3>1
    <3>3. Drivers'
      BY <2>1, <3>1, <3>2, DriverClosed DEF Ends
    <3>4. tries[p] \in 0..MaxTries /\ tries' = [tries EXCEPT ![p] = tries[p]]
      BY <2>1, <3>1 DEF TypeOK
    <3>5. QED
      BY <2>1, <3>1, <3>2, <3>3, <3>4, CallProceeds DEF TypeOK, Ends
  <2>11. ASSUME NEW p \in Calls, Abandon(p) PROVE Inv'
    <3>1. /\ Move(p, "abandoned", NoDriver) /\ tries' = [tries EXCEPT ![p] = 0]
          /\ UNCHANGED <<driver, blocked, kind>>
      BY <2>11 DEF Abandon
    <3>2. opened' \subseteq opened
      BY <2>11 DEF Abandon
    <3>3. Drivers'
      <4>1. CASE at[p] = "close"
        BY <2>1, <2>11, <3>1, <4>1, DriverClosed DEF Abandon, Ends
      <4>2. CASE at[p] # "close"
        BY <2>1, <2>11, <3>1, <4>2, DriversKept DEF Abandon, Ends
      <4>3. QED
        BY <4>1, <4>2
    <3>4. "abandoned" \in Awaits \cup Ends /\ 0 \in 0..MaxTries /\ blocked' \in BOOLEAN
      BY <2>1, <3>1 DEF TypeOK, Ends
    <3>5. QED
      BY <3>1, <3>2, <3>3, <3>4, CallProceeds
  <2>12. CASE CooledDown
    BY <2>1, <2>12 DEF CooledDown, Inv, TypeOK, CooldownHasNoDriver, Drivers,
       NoDriverLeaks, ClosedOnce, Fresh, ClosesOne, AttemptsLeft, WantsDriver
  <2>13. CASE UNCHANGED vars
    BY <2>1, <2>13 DEF vars, Inv, TypeOK, CooldownHasNoDriver, Drivers,
       NoDriverLeaks, ClosedOnce, Fresh, ClosesOne, AttemptsLeft, WantsDriver
  <2>14. QED
    BY <2>2, <2>3, <2>4, <2>5, <2>6, <2>7, <2>8, <2>9, <2>10, <2>11, <2>12,
       <2>13 DEF Next, Proceed
<1>3. QED
  BY <1>1, <1>2, PTL DEF Spec

\* The client's and the calls' state is well typed, and no call verifies the
\* connection more than MaxTries times.
THEOREM TypeCorrect == Spec => []TypeOK
<1>1. Inv => TypeOK
  BY DEF Inv
<1>2. QED
  BY <1>1, Invariance, PTL

\* Nothing is published while the cooldown lasts: however the calls overlap,
\* a failed connect never leaves the driver of another call behind.
THEOREM CooldownRefusesAll == Spec => []CooldownHasNoDriver
<1>1. Inv => CooldownHasNoDriver
  BY DEF Inv
<1>2. QED
  BY <1>1, Invariance, PTL

\* No driver is lost open: each one is published or about to be closed.
THEOREM DriversAreKeptTrackOf == Spec => []NoDriverLeaks
<1>1. Inv => NoDriverLeaks
  BY DEF Inv, Drivers
<1>2. QED
  BY <1>1, Invariance, PTL

\* No driver is closed twice or used while it is being closed.
THEOREM DriversCloseOnce == Spec => []ClosedOnce
<1>1. Inv => ClosedOnce
  BY DEF Inv, Drivers
<1>2. QED
  BY <1>1, Invariance, PTL

-----------------------------------------------------------------------------
(* A call loses its driver only to the failure of another one: as soon as   *)
(* a connecting call has no driver, some other call can be named.           *)

ForLackOfDriver(p) == \/ at[p] \in {"lost", "crashed"}
                      \/ at[p] \in {"verify", "backoff"} /\ driver = NoDriver

Blamed == \A p \in Calls : ForLackOfDriver(p) => \E q \in Calls \ {p} : MayHaveReset(q)

\* What a step of call p has to satisfy.
LEMMA BlameKept ==
  ASSUME Inv, Blamed,
         NEW p \in Calls, NEW w, NEW d, Move(p, w, d),
         \A q \in Calls \ {p} : kind'[q] = kind[q],
         MayHaveReset(p) => MayHaveReset(p)',
         driver' = NoDriver => driver = NoDriver \/ MayHaveReset(p)',
         ForLackOfDriver(p)' => ForLackOfDriver(p)
  PROVE  Blamed'
<1>1. \A q \in Calls \ {p} : at'[q] = at[q] /\ kind'[q] = kind[q]
  BY DEF Inv, TypeOK, Move
<1>2. \A q \in Calls : MayHaveReset(q) => MayHaveReset(q)'
  BY <1>1 DEF MayHaveReset
<1> SUFFICES ASSUME NEW c \in Calls, ForLackOfDriver(c)'
             PROVE  \E q \in Calls \ {c} : MayHaveReset(q)'
  BY DEF Blamed
<1>3. CASE ForLackOfDriver(c)
  BY <1>2, <1>3 DEF Blamed
<1>4. CASE ~ ForLackOfDriver(c)
  <2>1. c # p /\ driver' = NoDriver /\ driver # NoDriver
    BY <1>1, <1>4 DEF ForLackOfDriver
  <2> QED
    BY <2>1
<1> QED
  BY <1>3, <1>4

\* A call that resets the driver can be blamed for it.
LEMMA ResetKeepsBlame ==
  ASSUME Inv, Blamed, NEW p \in Calls, at[p] \notin Ends \cup {"close"},
         ResetDriver(p), \A q \in Calls \ {p} : kind'[q] = kind[q]
  PROVE  Blamed'
<1>1. PICK w \in {"failed", "close"}, d \in {driver, NoDriver} : Move(p, w, d)
  BY DEF ResetDriver
<1>2. at'[p] = w
  BY <1>1 DEF Inv, TypeOK, Move
<1>3. ~ MayHaveReset(p) /\ MayHaveReset(p)' /\ ~ ForLackOfDriver(p)'
  BY <1>2 DEF MayHaveReset, ForLackOfDriver, Ends
<1> QED
  BY <1>1, <1>3, BlameKept

\* A call whose step leaves the driver alone loses it only if it had lost it.
LEMMA UseKeepsBlame ==
  ASSUME Inv, Blamed, NEW p \in Calls, at[p] \notin Ends,
         NEW w \in Awaits \cup Ends, NEW d, Move(p, w, d),
         \A q \in Calls \ {p} : kind'[q] = kind[q],
         driver' = NoDriver => driver = NoDriver,
         at[p] = "close" => MayHaveReset(p)',
         w \in {"verify", "backoff", "lost", "crashed"} /\ ForLackOfDriver(p)' =>
           at[p] \in {"verify", "backoff"} /\ driver = NoDriver
  PROVE  Blamed'
<1>1. at'[p] = w
  BY DEF Inv, TypeOK, Move
<1>2. MayHaveReset(p) => at[p] = "close"
  BY DEF MayHaveReset, Ends
<1>3. ForLackOfDriver(p)' => w \in {"verify", "backoff", "lost", "crashed"}
  BY <1>1 DEF ForLackOfDriver
<1>4. ForLackOfDriver(p)' => ForLackOfDriver(p)
  BY <1>3 DEF ForLackOfDriver
<1> QED
  BY <1>2, <1>4, BlameKept

LEMMA NextKeepsBlame == Inv /\ Blamed /\ [Next]_vars => Blamed'
<1> SUFFICES ASSUME Inv, Blamed, [Next]_vars PROVE Blamed'
  OBVIOUS
<1> USE NoDriverAssumption
<1>1. TypeOK /\ Drivers /\ WantsDriver
  BY DEF Inv
<1>2. ASSUME NEW p \in Calls, NEW k \in Kinds, Start(p, k) PROVE Blamed'
  <2>1. /\ at[p] = "idle" /\ k \in {"startup", "query", "health"}
        /\ \A q \in Calls \ {p} : kind'[q] = kind[q]
    BY <1>1, <1>2 DEF Start, Kinds, TypeOK
  <2>2. CASE driver = NoDriver /\ ConnectFor(p)
    <3>1. PICK w, d : w \in {"refused", "verify"} /\
            Move(p, w, d) /\ (w = "verify" => driver' = p) /\ driver' \in {driver, p}
      BY <2>2 DEF ConnectFor
    <3>2. ~ ForLackOfDriver(p)'
      BY <1>1, <3>1 DEF ForLackOfDriver, TypeOK, Move
    <3> QED
      BY <2>1, <2>2, <3>1, <3>2, UseKeepsBlame DEF Awaits, Ends
  <2>3. CASE driver # NoDriver /\ UseDriver(p, k) /\ UNCHANGED <<driver, opened, tries>>
    <3>1. PICK w \in {"served", "crashed", "query", "check"},
               d \in Calls \cup {NoDriver} : Move(p, w, d) /\ w # "crashed"
      BY <1>1, <2>1, <2>3 DEF UseDriver, TypeOK
    <3>2. ~ ForLackOfDriver(p)'
      BY <1>1, <3>1 DEF ForLackOfDriver, TypeOK, Move
    <3> QED
      BY <2>1, <2>3, <3>1, <3>2, UseKeepsBlame DEF Awaits, Ends
  <2> QED
    BY <1>2, <2>2, <2>3 DEF Start
<1>3. ASSUME NEW p \in Calls, Shutdown(p) PROVE Blamed'
  <2>1. /\ at[p] = "idle" /\ \A q \in Calls \ {p} : kind'[q] = kind[q]
    BY <1>1, <1>3 DEF Shutdown, TypeOK
  <2>2. CASE driver = NoDriver
    <3>1. Move(p, "served", NoDriver) /\ driver' = driver
      BY <1>3, <2>2 DEF Shutdown
    <3> QED
      BY <2>1, <2>2, <3>1, UseKeepsBlame DEF Ends
  <2>3. CASE driver # NoDriver
    BY <1>3, <2>1, <2>3, ResetKeepsBlame DEF Shutdown, Ends
  <2> QED
    BY <2>2, <2>3
<1>4. ASSUME NEW p \in Calls, Verified(p) PROVE Blamed'
  <2>1. /\ at[p] = "verify" /\ UseDriver(p, kind[p])
        /\ driver' = driver /\ kind' = kind
        /\ kind[p] \in {"startup", "query", "health"}
    BY <1>1, <1>4 DEF Verified, WantsDriver
  <2>2. PICK w \in {"served", "crashed", "query", "check"},
             d \in Calls \cup {NoDriver} :
          Move(p, w, d) /\ (w = "crashed" => driver = NoDriver)
    BY <1>1, <2>1 DEF UseDriver, TypeOK
  <2>3. at'[p] = w
    BY <1>1, <2>2 DEF TypeOK, Move
  <2> QED
    BY <2>1, <2>2, <2>3, UseKeepsBlame DEF Awaits, Ends
<1>5. ASSUME NEW p \in Calls, VerifyFailsForNow(p) \/ VerifyAgain(p) PROVE Blamed'
  <2>1. PICK w, d : w \in {"backoff", "lost", "verify"} /\
          Move(p, w, d) /\ (w = "lost" => driver = NoDriver)
    BY <1>5 DEF VerifyFailsForNow, VerifyAgain
  <2>2. at[p] \in {"verify", "backoff"} /\ driver' = driver /\ kind' = kind
    BY <1>5 DEF VerifyFailsForNow, VerifyAgain
  <2>3. at'[p] = w
    BY <1>1, <2>1 DEF TypeOK, Move
  <2>4. ForLackOfDriver(p)' => driver = NoDriver
    BY <2>1, <2>2, <2>3 DEF ForLackOfDriver
  <2> QED
    BY <2>1, <2>2, <2>4, UseKeepsBlame DEF Awaits, Ends
<1>6. ASSUME NEW p \in Calls, VerifyFails(p) \/ QueryFails(p) PROVE Blamed'
  BY <1>6, ResetKeepsBlame DEF VerifyFails, QueryFails, Ends
<1>7. ASSUME NEW p \in Calls,
             Answered(p) \/ CheckFails(p) \/ Closed(p) \/ Abandon(p)
      PROVE  Blamed'
  <2>1. PICK w \in {"served", "failed", "abandoned"} :
          /\ Move(p, w, NoDriver)
          /\ at[p] = "close" => w # "served" \/ kind[p] = "shutdown"
    BY <1>7 DEF Answered, CheckFails, Closed, Abandon
  <2>2. at[p] \in Awaits /\ driver' = driver /\ kind' = kind /\ at'[p] = w
    BY <1>1, <1>7, <2>1
       DEF Answered, CheckFails, Closed, Abandon, Awaits, TypeOK, Move
  <2>3. at[p] = "close" => MayHaveReset(p)'
    BY <2>1, <2>2 DEF MayHaveReset, Ends
  <2>4. at[p] \notin Ends
    BY <2>2 DEF Awaits, Ends
  <2> QED
    BY <2>1, <2>2, <2>3, <2>4, UseKeepsBlame DEF Ends
<1>8. CASE CooledDown \/ UNCHANGED vars
  BY <1>8 DEF CooledDown, vars, Blamed, ForLackOfDriver, MayHaveReset
<1> QED
  BY <1>2, <1>3, <1>4, <1>5, <1>6, <1>7, <1>8 DEF Next, Proceed

\* No call fails for the lack of a driver unless another call has failed,
\* was cut short, or shuts the client down.
THEOREM LossesHaveACause == Spec => []LostOnlyToAFailure
<1>1. Init => Blamed
  BY DEF Init, Blamed, ForLackOfDriver
<1>2. Blamed => LostOnlyToAFailure
  BY DEF Blamed, ForLackOfDriver, LostOnlyToAFailure
<1> QED
  BY <1>1, <1>2, NextKeepsBlame, Invariance, PTL DEF Spec

-----------------------------------------------------------------------------
(* The client implements SharedDriver                                       *)

\* The published driver is open, and a driver that is being closed is open
\* and not published.
LEMMA OpenDrivers ==
  ASSUME Inv
  PROVE  /\ driver # NoDriver => driver \in opened
         /\ NoDriver \notin opened
         /\ \A p \in Calls : at[p] = "close" => on[p] \in opened \ {driver}
BY NoDriverAssumption DEF Inv, TypeOK, Drivers, NoDriverLeaks, ClosedOnce, ClosesOne

\* A step that leaves the drivers alone, and may end the cooldown.
LEMMA UseMaps ==
  ASSUME UNCHANGED <<driver, opened>>, blocked' \in {blocked, FALSE}
  PROVE  [D!Next]_(D!vars)
BY DEF D!Next, D!Recover, D!vars

LEMMA ResetMaps ==
  ASSUME Inv, NEW p \in Calls, ResetDriver(p), UNCHANGED opened,
         blocked' \in {blocked, TRUE}
  PROVE  [D!Next]_(D!vars)
<1>1. CASE driver = NoDriver
  <2>1. driver' = driver
    BY <1>1 DEF ResetDriver
  <2> QED
    BY <1>1, <2>1 DEF D!Next, D!CoolDown, D!vars
<1>2. CASE driver # NoDriver
  <2>1. driver' = NoDriver
    BY DEF ResetDriver
  <2>2. opened' \ {driver'} = (opened \ {driver}) \cup {driver}
    BY <1>2, <2>1, OpenDrivers
  <2> QED
    BY <1>2, <2>1, <2>2 DEF D!Next, D!Retire
<1> QED
  BY <1>1, <1>2

LEMMA ConnectMaps ==
  ASSUME Inv, NEW p \in Calls, at[p] = "idle", driver = NoDriver, ConnectFor(p),
         UNCHANGED blocked
  PROVE  [D!Next]_(D!vars)
<1>1. CASE blocked
  BY <1>1, UseMaps DEF ConnectFor
<1>2. CASE ~ blocked
  <2>1. driver' = p /\ opened' = opened \cup {p}
    BY <1>2 DEF ConnectFor
  <2>2. p \notin opened
    BY DEF Inv, Drivers, Fresh
  <2>3. opened' \ {driver'} = opened \ {driver}
    BY <2>1, <2>2, OpenDrivers
  <2> QED
    BY <1>2, <2>1, <2>2, <2>3 DEF D!Next, D!Connect
<1> QED
  BY <1>1, <1>2

LEMMA CloseMaps ==
  ASSUME Inv, NEW p \in Calls, at[p] = "close", opened' = opened \ {on[p]},
         UNCHANGED <<driver, blocked>>
  PROVE  [D!Next]_(D!vars)
<1>1. on[p] \in Calls /\ on[p] \in opened \ {driver}
  BY OpenDrivers DEF Inv, Drivers, ClosesOne
<1>2. opened' \ {driver'} = (opened \ {driver}) \ {on[p]}
  OBVIOUS
<1> QED
  BY <1>1, <1>2 DEF D!Next, D!Close

LEMMA NextMaps == Inv /\ [Next]_vars => [D!Next]_(D!vars)
<1> SUFFICES ASSUME Inv, [Next]_vars PROVE [D!Next]_(D!vars)
  OBVIOUS
<1>1. ASSUME NEW p \in Calls, NEW k \in Kinds, Start(p, k) PROVE [D!Next]_(D!vars)
  BY <1>1, ConnectMaps, UseMaps DEF Start
<1>2. ASSUME NEW p \in Calls, Shutdown(p) PROVE [D!Next]_(D!vars)
  BY <1>2, ResetMaps, UseMaps DEF Shutdown
<1>3. ASSUME NEW p \in Calls,
             \/ Verified(p) \/ VerifyFailsForNow(p) \/ VerifyAgain(p)
             \/ Answered(p) \/ CheckFails(p)
      PROVE  [D!Next]_(D!vars)
  BY <1>3, UseMaps DEF Verified, VerifyFailsForNow, VerifyAgain, Answered, CheckFails
<1>4. ASSUME NEW p \in Calls, VerifyFails(p) \/ QueryFails(p)
      PROVE  [D!Next]_(D!vars)
  BY <1>4, ResetMaps DEF VerifyFails, QueryFails
<1>5. ASSUME NEW p \in Calls, Closed(p) PROVE [D!Next]_(D!vars)
  BY <1>5, CloseMaps DEF Closed
<1>6. ASSUME NEW p \in Calls, Abandon(p) PROVE [D!Next]_(D!vars)
  BY <1>6, CloseMaps, UseMaps DEF Abandon
<1>7. CASE CooledDown \/ UNCHANGED vars
  BY <1>7, UseMaps DEF CooledDown, vars
<1> QED
  BY <1>1, <1>2, <1>3, <1>4, <1>5, <1>6, <1>7 DEF Next, Proceed

\* Together the calls treat the driver as SharedDriver promises.
THEOREM ImplementsSharedDriver == Spec => SharesOneDriver
<1>1. Init => D!Init
  BY DEF Init, D!Init
<1> QED
  BY <1>1, NextMaps, Invariance, PTL DEF Spec, SharesOneDriver, D!Spec

-----------------------------------------------------------------------------
(* Every step takes a call nearer to its end *)

Progress ==
  \/ \E p \in Calls : /\ Rung(p)' > Rung(p)
                     /\ \A q \in Calls \ {p} : Rung(q)' = Rung(q)
  \/ /\ blocked /\ ~ blocked'
     /\ \A q \in Calls : Rung(q)' = Rung(q)

\* A call that connects or sleeps is below the one that uses the driver, that
\* below the one that closes it, and that below the one that has ended.
LEMMA Rungs ==
  ASSUME NEW p \in Calls, NEW a, NEW t \in 0..MaxTries, at[p] = a, tries[p] = t
  PROVE  /\ a = "idle" => Rung(p) = 0
         /\ a = "verify" => Rung(p) = 2 * t
         /\ a = "backoff" => Rung(p) = 2 * t + 1
         /\ a \in {"query", "check"} => Rung(p) = 2 * MaxTries + 2
         /\ a = "close" => Rung(p) = 2 * MaxTries + 3
         /\ a \in Ends => Rung(p) = 2 * MaxTries + 4
  BY TriesAssumption DEF Rung, Ends

\* A call that moves leaves the others where they are.
LEMMA OthersStay ==
  ASSUME TypeOK, NEW p \in Calls, NEW w, NEW d, NEW t, Move(p, w, d),
         tries' = [tries EXCEPT ![p] = t]
  PROVE  /\ at'[p] = w /\ tries'[p] = t
         /\ \A q \in Calls \ {p} : Rung(q)' = Rung(q)
<1>1. /\ at'[p] = w /\ tries'[p] = t
      /\ \A q \in Calls \ {p} : at'[q] = at[q] /\ tries'[q] = tries[q]
  BY DEF TypeOK, Move
<1>2. \A q \in Calls \ {p} : Rung(q)' = Rung(q)
  BY <1>1 DEF Rung
<1> QED
  BY <1>1, <1>2

\* The moves that there are, all of them upwards.
LEMMA MovesClimb ==
  ASSUME TypeOK, NEW p \in Calls, NEW w, NEW d, NEW t \in 0..MaxTries,
         Move(p, w, d), tries' = [tries EXCEPT ![p] = t],
         \/ at[p] = "idle" /\ w = "verify" /\ t = 1
         \/ at[p] = "verify" /\ w = "backoff" /\ t = tries[p]
         \/ at[p] = "backoff" /\ w = "verify" /\ t = tries[p] + 1
         \/ at[p] \in {"idle", "verify"} /\ w \in {"query", "check"}
         \/ at[p] \in ({"idle"} \cup Awaits) \ {"close"} /\ w = "close"
         \/ at[p] \in {"idle"} \cup Awaits /\ w \in Ends
  PROVE  Progress
<1>1. /\ at'[p] = w /\ tries'[p] = t /\ \A q \in Calls \ {p} : Rung(q)' = Rung(q)
  BY OthersStay
<1>2. tries[p] \in 0..MaxTries /\ MaxTries \in Nat
  BY TriesAssumption DEF TypeOK
<1>3. /\ at[p] = "idle" => Rung(p) = 0
      /\ at[p] = "verify" => Rung(p) = 2 * tries[p]
      /\ at[p] = "backoff" => Rung(p) = 2 * tries[p] + 1
      /\ at[p] \in {"query", "check"} => Rung(p) = 2 * MaxTries + 2
      /\ at[p] = "close" => Rung(p) = 2 * MaxTries + 3
  BY <1>2, Rungs
<1>4. /\ w = "verify" => Rung(p)' = 2 * t
      /\ w = "backoff" => Rung(p)' = 2 * t + 1
      /\ w \in {"query", "check"} => Rung(p)' = 2 * MaxTries + 2
      /\ w = "close" => Rung(p)' = 2 * MaxTries + 3
      /\ w \in Ends => Rung(p)' = 2 * MaxTries + 4
  BY <1>1, <1>2, TriesAssumption DEF Rung, Ends
<1>5. Rung(p)' > Rung(p)
  BY <1>2, <1>3, <1>4 DEF Awaits
<1> QED
  BY <1>1, <1>5 DEF Progress

LEMMA StepsProgress == Inv /\ [Next]_vars => [Progress]_vars
<1> SUFFICES ASSUME Inv, Next PROVE Progress
  OBVIOUS
<1> USE NoDriverAssumption
<1>1. TypeOK /\ WantsDriver /\ AttemptsLeft /\ MaxTries \in Nat \ {0}
  BY TriesAssumption DEF Inv
<1>2. \A p \in Calls : /\ tries[p] \in 0..MaxTries
                       /\ tries = [tries EXCEPT ![p] = tries[p]]
  BY <1>1 DEF TypeOK
<1>3. ASSUME NEW p \in Calls, NEW k \in Kinds, Start(p, k) PROVE Progress
  <2>1. at[p] = "idle" /\ k \in {"startup", "query", "health"}
    BY <1>3 DEF Start, Kinds
  <2>2. CASE driver = NoDriver /\ ConnectFor(p)
    <3>1. CASE blocked
      BY <1>1, <1>2, <2>1, <2>2, <3>1, MovesClimb DEF ConnectFor, Ends
    <3>2. CASE ~ blocked
      BY <1>1, <2>1, <2>2, <3>2, MovesClimb DEF ConnectFor
    <3> QED
      BY <3>1, <3>2
  <2>3. CASE driver # NoDriver /\ UseDriver(p, k) /\ tries' = tries
    <3>1. PICK w \in {"served", "query", "check"}, d \in {driver, NoDriver} :
            Move(p, w, d)
      BY <2>1, <2>3 DEF UseDriver
    <3> QED
      BY <1>1, <1>2, <2>1, <2>3, <3>1, MovesClimb DEF Ends
  <2> QED
    BY <1>3, <2>2, <2>3 DEF Start
<1>4. ASSUME NEW p \in Calls, ResetDriver(p),
             at[p] \in {"idle", "verify", "query"},
             NEW t \in 0..MaxTries, tries' = [tries EXCEPT ![p] = t]
      PROVE  Progress
  <2>1. PICK w, d : w \in {"failed", "close"} /\ Move(p, w, d)
    BY <1>4 DEF ResetDriver
  <2> QED
    BY <1>1, <1>4, <2>1, MovesClimb DEF Ends, Awaits
<1>5. ASSUME NEW p \in Calls, Shutdown(p) PROVE Progress
  <2>1. at[p] = "idle" /\ tries' = [tries EXCEPT ![p] = tries[p]]
    BY <1>2, <1>5 DEF Shutdown
  <2>2. CASE driver = NoDriver
    BY <1>1, <1>2, <1>5, <2>1, <2>2, MovesClimb DEF Shutdown, Ends
  <2>3. CASE driver # NoDriver
    BY <1>2, <1>4, <1>5, <2>1, <2>3 DEF Shutdown
  <2> QED
    BY <2>2, <2>3
<1>6. ASSUME NEW p \in Calls, Verified(p) PROVE Progress
  <2>1. /\ at[p] = "verify" /\ UseDriver(p, kind[p])
        /\ tries' = [tries EXCEPT ![p] = 0] /\ 0 \in 0..MaxTries
        /\ kind[p] \in {"startup", "query", "health"}
    BY <1>1, <1>6 DEF Verified, WantsDriver
  <2>2. PICK w \in {"served", "crashed", "query", "check"},
             d \in {driver, NoDriver} : Move(p, w, d)
    BY <2>1 DEF UseDriver
  <2> QED
    BY <1>1, <2>1, <2>2, MovesClimb DEF Ends, Awaits
<1>7. ASSUME NEW p \in Calls, VerifyFailsForNow(p) PROVE Progress
  BY <1>1, <1>2, <1>7, MovesClimb DEF VerifyFailsForNow
<1>8. ASSUME NEW p \in Calls, VerifyAgain(p) PROVE Progress
  <2>1. /\ at[p] = "backoff" /\ tries[p] + 1 \in 0..MaxTries /\ 0 \in 0..MaxTries
    BY <1>1, <1>2, <1>8 DEF VerifyAgain, AttemptsLeft
  <2>2. CASE driver = NoDriver
    BY <1>1, <1>8, <2>1, <2>2, MovesClimb DEF VerifyAgain, Ends, Awaits
  <2>3. CASE driver # NoDriver
    BY <1>1, <1>8, <2>1, <2>3, MovesClimb DEF VerifyAgain
  <2> QED
    BY <2>2, <2>3
<1>9. ASSUME NEW p \in Calls, VerifyFails(p) \/ QueryFails(p) PROVE Progress
  <2>1. 0 \in 0..MaxTries
    BY <1>1
  <2> QED
    BY <1>2, <1>4, <1>9, <2>1 DEF VerifyFails, QueryFails
<1>10. ASSUME NEW p \in Calls, Answered(p) \/ CheckFails(p) \/ Closed(p) \/ Abandon(p)
       PROVE  Progress
  <2>1. PICK w \in Ends : Move(p, w, NoDriver)
    BY <1>10 DEF Answered, CheckFails, Closed, Abandon, Ends
  <2>2. at[p] \in Awaits
    BY <1>10 DEF Answered, CheckFails, Closed, Abandon, Awaits
  <2>3. \E t \in 0..MaxTries : tries' = [tries EXCEPT ![p] = t]
    BY <1>1, <1>2, <1>10 DEF Answered, CheckFails, Closed, Abandon
  <2> QED
    BY <1>1, <2>1, <2>2, <2>3, MovesClimb
<1>11. CASE CooledDown
  BY <1>11 DEF CooledDown, Progress, Rung
<1> QED
  BY <1>3, <1>5, <1>6, <1>7, <1>8, <1>9, <1>10, <1>11 DEF Next, Proceed

\* No call goes on for ever, and none throws another one back: each step takes
\* a call nearer to its end (client.py:40).
THEOREM CallsProgress == Spec => EveryStepIsProgress
  BY Invariance, StepsProgress, PTL DEF Spec, EveryStepIsProgress, Progress
=============================================================================
