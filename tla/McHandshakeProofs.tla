-------------------------- MODULE McHandshakeProofs --------------------------
(***************************************************************************)
(* Theorems about McHandshake, for any program and any number of threads   *)
(* and traces: one thread moves at a time, what trace process is left when *)
(* McMini exits, and the scheduler knows what the trace did and does next. *)
(***************************************************************************)
EXTENDS McHandshake, FiniteSetTheorems, SequenceTheorems, WellFoundedInduction, TLAPS

\* The part of the types that the argument needs.
Typed ==
  /\ at \in [Routines -> Places] /\ self = [r \in Routines |-> self[r]] /\ stage \in Stages
  /\ wake \in [Tids -> Nat] /\ back \in [Tids -> Nat] /\ binary \in Nat
  /\ process \in {"none", "running", "zombie"} /\ (stage = "waiting" => current \in Tids)

\* The stages at which there is no trace process.
NoTrace == {"fork", "between", "exiting", "blocked"}
NoTraceThen == stage \in NoTrace => process = "none"

\* While the scheduler neither waits nor stops, no thread moves or is about to, and no
\* semaphore holds a permit.
Quiet ==
  stage \notin {"waiting", "stopping"} =>
    Moving = {} /\ \A t \in Tids : wake[t] = 0 /\ back[t] = 0

\* The right to move is one token: a permit of the resumed thread, in one semaphore or the
\* other, or that thread itself on the move.
OneToken ==
  /\ \A t \in Tids : wake[t] + back[t] > 0 => t = current /\ wake[t] + back[t] = 1 /\ Moving = {}
  /\ \A r \in Moving : self[r] = current /\ current \in Tids
  /\ \A r, q \in Moving : r = q

\* A new thread has not registered, or its creator has been told, but not both.
OneNewborn ==
  /\ \A r \in Routines : at[r] = "newborn" =>
       binary = 0 /\ \E q \in Routines : at[q] = "creating"
  /\ \A r, q \in Routines : at[r] = "newborn" /\ at[q] = "newborn" => r = q
  /\ binary > 0 => binary = 1 /\ \E q \in Routines : at[q] = "creating"

Orderly == Quiet /\ OneToken /\ OneNewborn

IInv == Typed /\ NoTraceThen /\ (process = "running" => Orderly)

MovingPlaces == {"going", "joining", "aborting", "creating", "posting", "waking", "leaving",
                 "parting"}

\* Which threads move is read off where they are.
LEMMA MovingAt == Typed => Moving = {r \in Routines : at[r] \in MovingPlaces}
  BY DEF Typed, Moving, MovingPlaces, Places

\* Where a thread goes after an operation, it moves.
LEMMA AfterMoves == \A op : After(op) \in MovingPlaces /\ After(op) # "creating"
  BY DEF After, MovingPlaces

\* The order holds before McMini forks anything.
THEOREM InitInv == Init => IInv
<1> SUFFICES ASSUME Init PROVE IInv
  OBVIOUS
<1> QED BY DEF Init, IInv, Typed, NoTraceThen, Places, Stages, NoTrace

\* While a thread moves, the token is with it.
LEMMA Mover ==
  ASSUME IInv, process = "running", NEW r \in Routines, at[r] \in MovingPlaces
  PROVE  /\ Moving = {r} /\ stage \in {"waiting", "stopping"}
         /\ self[r] = current /\ current \in Tids
         /\ \A t \in Tids : wake[t] = 0 /\ back[t] = 0
<1> USE DEF IInv, Orderly
<1>1. r \in Moving
  BY MovingAt DEF IInv
<1>2. Moving = {r} /\ self[r] = current /\ current \in Tids
  BY <1>1 DEF OneToken, Moving
<1>3. stage \in {"waiting", "stopping"}
  BY <1>1 DEF Quiet
<1>4. \A t \in Tids : wake[t] = 0 /\ back[t] = 0
  <2> SUFFICES ASSUME NEW t \in Tids PROVE wake[t] = 0 /\ back[t] = 0
    OBVIOUS
  <2>1. ~(wake[t] + back[t] > 0)
    BY <1>1 DEF OneToken
  <2>2. wake[t] \in Nat /\ back[t] \in Nat
    BY DEF Typed
  <2> QED BY <2>1, <2>2
<1> QED BY <1>2, <1>3, <1>4

\* A step within the code of one moving thread keeps the order.
LEMMA StillMoving ==
  ASSUME IInv, NEW r \in Routines, NEW from \in MovingPlaces, NEW to \in MovingPlaces,
         Moves(r, from, to), UNCHANGED <<process, self, wake, back, stage, current>>,
         \/ from # "creating" /\ to # "creating" /\ UNCHANGED binary
         \/ from = "creating" /\ binary > 0 /\ binary' = binary - 1
  PROVE  IInv'
<1>1. process = "running" /\ at[r] = from /\ at' = [at EXCEPT ![r] = to] /\ Typed
  BY DEF Moves, IInv
<1>2. /\ Moving = {r} /\ stage \in {"waiting", "stopping"}
      /\ self[r] = current /\ current \in Tids
      /\ \A t \in Tids : wake[t] = 0 /\ back[t] = 0
  BY <1>1, Mover
<1>3. Typed'
  BY <1>1 DEF Typed, MovingPlaces, Places
<1>4. Moving' = {r}
  <2>1. Moving' = {q \in Routines : at'[q] \in MovingPlaces}
    BY <1>3, MovingAt DEF Typed, Moving, MovingPlaces, Places
  <2>2. \A q \in Routines : at'[q] = IF q = r THEN to ELSE at[q]
    BY <1>1 DEF Typed
  <2>3. \A q \in Routines : q # r => at[q] \notin MovingPlaces
    BY <1>1, <1>2, MovingAt
  <2> QED BY <2>1, <2>2, <2>3
<1>5. Quiet'
  BY <1>2 DEF Quiet
<1>6. OneToken'
  BY <1>2, <1>4 DEF OneToken
<1>7. OneNewborn'
  <2>1. \A q \in Routines : at'[q] = IF q = r THEN to ELSE at[q]
    BY <1>1 DEF Typed
  <2>2. OneNewborn /\ binary \in Nat
    BY <1>1 DEF IInv, Orderly, Typed
  <2>3. \A q \in Routines : at[q] = "creating" => q = r
    BY <1>1, <1>2, MovingAt DEF MovingPlaces
  <2>4. CASE from # "creating" /\ to # "creating" /\ UNCHANGED binary
    BY <2>1, <2>2, <2>3, <2>4, <1>1 DEF OneNewborn, MovingPlaces
  <2>5. CASE from = "creating" /\ binary > 0 /\ binary' = binary - 1
    BY <2>1, <2>2, <2>3, <2>5, <1>1 DEF OneNewborn, MovingPlaces
  <2> QED BY <2>4, <2>5
<1>8. NoTraceThen'
  BY <1>1 DEF IInv, NoTraceThen
<1> QED BY <1>3, <1>5, <1>6, <1>7, <1>8 DEF IInv, Orderly

\* A new thread takes its id and sleeps, and its creator may go on.
LEMMA RegisterStep == ASSUME IInv, NEW r \in Routines, Register(r) PROVE IInv'
<1>1. /\ process = "running" /\ at[r] = "newborn" /\ at' = [at EXCEPT ![r] = "asleep"]
      /\ self' = [self EXCEPT ![r] = nextId + 1] /\ binary' = binary + 1
      /\ UNCHANGED <<process, wake, back, stage, current>>
      /\ Typed /\ Orderly
  BY DEF Register, Moves, sharedVars, schedVars, IInv
<1>2. /\ binary = 0
      /\ \A q \in Routines : at'[q] = IF q = r THEN "asleep" ELSE at[q]
      /\ \A q \in Routines : q # r => self'[q] = self[q]
  BY <1>1 DEF Typed, Orderly, OneNewborn
<1>3. Typed'
  BY <1>1, <1>2 DEF Typed, Places
<1>4. Moving' = Moving /\ r \notin Moving
  BY <1>1, <1>2 DEF Moving
<1>5. Quiet' /\ OneToken'
  BY <1>1, <1>2, <1>4 DEF Orderly, Quiet, OneToken, Moving
<1>6. OneNewborn'
  BY <1>1, <1>2 DEF Orderly, OneNewborn
<1>7. NoTraceThen'
  BY <1>1 DEF IInv, NoTraceThen
<1> QED BY <1>3, <1>5, <1>6, <1>7 DEF IInv, Orderly

\* The thread that was woken takes its permit and moves.
LEMMA GoStep == ASSUME IInv, NEW r \in Routines, Go(r) PROVE IInv'
<1> DEFINE to == After(Pending(r))
<1>1. /\ process = "running" /\ at[r] = "asleep" /\ at' = [at EXCEPT ![r] = to]
      /\ self[r] \in Tids /\ wake[self[r]] > 0 /\ wake' = [wake EXCEPT ![self[r]] = @ - 1]
      /\ UNCHANGED <<process, self, back, binary, stage, current>>
      /\ Typed /\ Orderly
  BY DEF Go, Moves, schedVars, IInv
<1>2. to \in MovingPlaces /\ to # "creating"
  BY AfterMoves
<1> HIDE DEF to
<1>3. self[r] = current /\ Moving = {} /\ wake[current] = 1 /\ back[current] = 0
  BY <1>1 DEF Orderly, OneToken, Typed
<1>4. \A t \in Tids : wake'[t] = 0 /\ back'[t] = 0
  <2> SUFFICES ASSUME NEW t \in Tids PROVE wake'[t] = 0 /\ back'[t] = 0
    OBVIOUS
  <2>1. wake[t] \in Nat /\ back[t] \in Nat
    BY <1>1 DEF Typed
  <2>2. wake[t] + back[t] > 0 => t = current
    BY <1>1 DEF Orderly, OneToken
  <2>3. wake'[t] = IF t = current THEN 0 ELSE wake[t]
    BY <1>1, <1>3 DEF Typed
  <2> QED BY <1>1, <1>3, <2>1, <2>2, <2>3
<1>5. \A q \in Routines : at'[q] = IF q = r THEN to ELSE at[q]
  BY <1>1 DEF Typed
<1>6. Typed'
  <2>1. wake' \in [Tids -> Nat]
    BY <1>1, <1>3 DEF Typed
  <2> QED BY <1>1, <1>2, <2>1 DEF Typed, MovingPlaces, Places
<1>7. Moving' = {r}
  BY <1>2, <1>3, <1>5 DEF Moving, MovingPlaces
<1>8. Quiet'
  <2>1. stage \in {"waiting", "stopping"}
    BY <1>1, <1>3 DEF Orderly, Quiet
  <2> QED BY <2>1, <1>1 DEF Quiet
<1>9. OneToken'
  BY <1>1, <1>3, <1>4, <1>7 DEF OneToken
<1>10. OneNewborn'
  <2>1. \A q \in Routines : at[q] # "creating"
    BY <1>3 DEF Moving
  <2>2. ~(binary > 0) /\ \A q \in Routines : at[q] # "newborn"
    BY <2>1, <1>1 DEF Orderly, OneNewborn
  <2>3. \A q \in Routines : at'[q] # "newborn"
    BY <2>2, <1>2, <1>5 DEF MovingPlaces
  <2> QED BY <2>2, <2>3, <1>1 DEF OneNewborn
<1>11. NoTraceThen'
  BY <1>1 DEF IInv, NoTraceThen
<1> QED BY <1>6, <1>8, <1>9, <1>10, <1>11 DEF IInv, Orderly

\* A thread that wakes the scheduler hands the token back.
LEMMA HandBack ==
  ASSUME IInv, NEW r \in Routines, NEW from \in {"waking", "parting"}, NEW to \in {"asleep", "gone"},
         Moves(r, from, to), back' = [back EXCEPT ![self[r]] = @ + 1],
         UNCHANGED <<process, self, wake, binary, stage, current>>
  PROVE  IInv'
<1>1. process = "running" /\ at[r] = from /\ at' = [at EXCEPT ![r] = to] /\ Typed
  BY DEF Moves, IInv
<1>2. /\ Moving = {r} /\ stage \in {"waiting", "stopping"}
      /\ self[r] = current /\ current \in Tids
      /\ \A t \in Tids : wake[t] = 0 /\ back[t] = 0
  BY <1>1, Mover DEF MovingPlaces
<1>3. \A t \in Tids : wake'[t] = 0 /\ back'[t] = IF t = current THEN 1 ELSE 0
  BY <1>1, <1>2 DEF Typed
<1>4. \A q \in Routines : at'[q] = IF q = r THEN to ELSE at[q]
  BY <1>1 DEF Typed
<1>5. Typed'
  <2>1. back' \in [Tids -> Nat]
    BY <1>1, <1>2 DEF Typed
  <2> QED BY <1>1, <2>1 DEF Typed, Places
<1>6. Moving' = {}
  BY <1>2, <1>4 DEF Moving
<1>7. Quiet'
  BY <1>2 DEF Quiet
<1>8. OneToken'
  BY <1>2, <1>3, <1>6 DEF OneToken
<1>9. OneNewborn'
  BY <1>1, <1>4 DEF IInv, Orderly, OneNewborn
<1>10. NoTraceThen'
  BY <1>1 DEF IInv, NoTraceThen
<1> QED BY <1>5, <1>7, <1>8, <1>9, <1>10 DEF IInv, Orderly

\* pthread_create() returns, and the creator waits for the new thread.
LEMMA CreateThreadStep == ASSUME IInv, NEW r \in Routines, CreateThread(r) PROVE IInv'
<1> DEFINE child == Pending(r).to
<1>1. /\ process = "running" /\ at[r] = "going" /\ at[child] = "unborn"
      /\ at' = [at EXCEPT ![r] = "creating", ![child] = "newborn"]
      /\ UNCHANGED <<process, self, wake, back, binary, stage, current>>
      /\ Typed
  BY DEF CreateThread, sharedVars, schedVars, IInv
<1> HIDE DEF child
<1>2. /\ Moving = {r} /\ stage \in {"waiting", "stopping"}
      /\ self[r] = current /\ current \in Tids
      /\ \A t \in Tids : wake[t] = 0 /\ back[t] = 0
  BY <1>1, Mover DEF MovingPlaces
<1>3. \A q \in Routines : at'[q] = IF q = child THEN "newborn"
                                   ELSE IF q = r THEN "creating" ELSE at[q]
  BY <1>1 DEF Typed
<1>4. Typed'
  BY <1>1, <1>3 DEF Typed, Places
<1>5. Moving' = {r}
  <2>1. Moving' = {q \in Routines : at'[q] \in MovingPlaces}
    BY <1>4 DEF Typed, Moving, MovingPlaces, Places
  <2>2. \A q \in Routines : at[q] \in MovingPlaces <=> q = r
    BY <1>1, <1>2, MovingAt DEF MovingPlaces
  <2>3. r # child
    BY <1>1
  <2>4. \A q \in Routines : at'[q] \in MovingPlaces <=> q = r
    <3> TAKE q \in Routines
    <3>1. CASE q = child
      BY <3>1, <1>3, <2>3 DEF MovingPlaces
    <3>2. CASE q = r
      BY <3>2, <1>3, <2>3 DEF MovingPlaces
    <3>3. CASE q # child /\ q # r
      <4>1. at'[q] = at[q]
        BY <3>3, <1>3
      <4> QED BY <4>1, <3>3, <2>2
    <3> QED BY <3>1, <3>2, <3>3
  <2> QED BY <2>1, <2>4
<1>6. Quiet'
  BY <1>1, <1>2 DEF Quiet
<1>7. OneToken'
  BY <1>1, <1>2, <1>5 DEF OneToken
<1>8. OneNewborn'
  <2>1. \A q \in Routines : at[q] # "creating"
    BY <1>1, <1>2 DEF Moving
  <2>2. binary = 0 /\ \A q \in Routines : at[q] # "newborn"
    BY <2>1, <1>1 DEF IInv, Orderly, OneNewborn, Typed
  <2>3. at'[r] = "creating"
    BY <1>1, <1>3
  <2>4. \A q \in Routines : at'[q] = "newborn" => q = child
    BY <1>3, <2>2
  <2>5. binary' = 0
    BY <1>1, <2>2
  <2> QED BY <2>3, <2>4, <2>5 DEF OneNewborn
<1>9. NoTraceThen'
  BY <1>1 DEF IInv, NoTraceThen
<1> QED BY <1>4, <1>6, <1>7, <1>8, <1>9 DEF IInv, Orderly

\* A dead trace process, or none, has no order to keep.
LEMMA NotRunning ==
  ASSUME Typed', NoTraceThen', process' # "running" PROVE IInv'
BY DEF IInv

\* The trace process dies of itself.
LEMMA DieStep == ASSUME IInv, NEW r \in Routines, Die(r) PROVE IInv'
<1>1. process = "running" /\ process' = "zombie" /\ Typed /\ NoTraceThen
      /\ UNCHANGED <<at, self, stage, wake, back, binary, current>>
  BY DEF Die, sharedVars, schedVars, IInv
<1>2. Typed'
  BY <1>1 DEF Typed
<1>3. NoTraceThen'
  BY <1>1 DEF NoTraceThen
<1> QED BY <1>1, <1>2, <1>3, NotRunning

\* The steps of a thread.
LEMMA ThreadSteps == ASSUME IInv, NEW r \in Routines, ThreadStep(r) PROVE IInv'
<1>1. CASE Register(r)
  BY <1>1, RegisterStep
<1>2. CASE Go(r)
  BY <1>2, GoStep
<1>3. CASE Joined(r)
  <2>1. Moves(r, "joining", "going") /\ UNCHANGED <<process, self, wake, back, stage, current, binary>>
    BY <1>3 DEF Joined, sharedVars, schedVars
  <2> QED BY <2>1, StillMoving DEF MovingPlaces
<1>4. CASE CreateThread(r)
  BY <1>4, CreateThreadStep
<1>5. CASE ChildRegistered(r)
  <2>1. Moves(r, "creating", "posting") /\ UNCHANGED <<process, self, wake, back, stage, current>>
        /\ binary > 0 /\ binary' = binary - 1
    BY <1>5 DEF ChildRegistered, sharedVars, schedVars
  <2> QED BY <2>1, StillMoving DEF MovingPlaces
<1>6. CASE Arrive(r)
  <2>1. Moves(r, "going", "posting") /\ UNCHANGED <<process, self, wake, back, stage, current, binary>>
    BY <1>6 DEF Arrive, sharedVars, schedVars
  <2> QED BY <2>1, StillMoving DEF MovingPlaces
<1>7. CASE Die(r)
  BY <1>7, DieStep
<1>8. CASE Post(r)
  <2>1. Moves(r, "posting", "waking") /\ UNCHANGED <<process, self, wake, back, stage, current, binary>>
    BY <1>8 DEF Post, schedVars
  <2> QED BY <2>1, StillMoving DEF MovingPlaces
<1>9. CASE Await(r)
  <2>1. Moves(r, "waking", "asleep") /\ back' = [back EXCEPT ![self[r]] = @ + 1]
        /\ UNCHANGED <<process, self, wake, binary, stage, current>>
    BY <1>9 DEF Await, schedVars
  <2> QED BY <2>1, HandBack
<1>10. CASE PostFinish(r)
  <2>1. Moves(r, "leaving", "parting") /\ UNCHANGED <<process, self, wake, back, stage, current, binary>>
    BY <1>10 DEF PostFinish, schedVars
  <2> QED BY <2>1, StillMoving DEF MovingPlaces
<1>11. CASE Leave(r)
  <2>1. Moves(r, "parting", "gone") /\ back' = [back EXCEPT ![self[r]] = @ + 1]
        /\ UNCHANGED <<process, self, wake, binary, stage, current>>
    BY <1>11 DEF Leave, schedVars
  <2> QED BY <2>1, HandBack
<1> QED BY <1>1, <1>2, <1>3, <1>4, <1>5, <1>6, <1>7, <1>8, <1>9, <1>10, <1>11 DEF ThreadStep

-----------------------------------------------------------------------------
(* The steps of the scheduler.                                             *)

\* A trace process is forked, with nobody moving.
LEMMA ForkStep == ASSUME IInv, Fork PROVE IInv'
<1>1. /\ process' = "running" /\ stage' = "ready"
      /\ at' = [r \in Routines |-> IF r = Main THEN "asleep" ELSE "unborn"]
      /\ self' = [r \in Routines |-> IF r = Main THEN 1 ELSE 0]
      /\ binary' = 0 /\ wake' = [t \in Tids |-> 0] /\ back' = [t \in Tids |-> 0]
  BY DEF Fork
<1>2. Typed'
  BY <1>1 DEF Typed, Places, Stages
<1>3. NoTraceThen'
  BY <1>1 DEF NoTraceThen, NoTrace
<1>4. Moving' = {}
  BY <1>1 DEF Moving
<1>5. Quiet' /\ OneToken' /\ OneNewborn'
  BY <1>1, <1>4 DEF Quiet, OneToken, OneNewborn
<1> QED BY <1>2, <1>3, <1>5 DEF IInv, Orderly

\* The scheduler gives the token to a thread.
LEMMA ResumeStep == ASSUME IInv, NEW t \in Tids, Resume(t) PROVE IInv'
<1>1. /\ stage \in {"ready", "search"} /\ stage' = "waiting" /\ current' = t
      /\ wake' = [wake EXCEPT ![t] = @ + 1]
      /\ UNCHANGED <<process, at, self, back, binary>> /\ Typed
  BY DEF Resume, traceVars, IInv
<1>2. Typed'
  BY <1>1 DEF Typed, Stages
<1>3. NoTraceThen'
  BY <1>1 DEF NoTraceThen, NoTrace
<1>4. ASSUME process = "running" PROVE Orderly'
  <2>1. Moving = {} /\ \A u \in Tids : wake[u] = 0 /\ back[u] = 0
    BY <1>1, <1>4 DEF IInv, Orderly, Quiet
  <2>2. Moving' = {}
    BY <2>1, <1>1 DEF Moving
  <2>3. \A u \in Tids : wake'[u] = (IF u = t THEN 1 ELSE 0) /\ back'[u] = 0
    BY <2>1, <1>1 DEF Typed
  <2>4. Quiet'
    BY <1>1 DEF Quiet
  <2>5. OneToken'
    BY <1>1, <2>2, <2>3 DEF OneToken
  <2>6. OneNewborn'
    BY <1>1, <1>4 DEF IInv, Orderly, OneNewborn
  <2> QED BY <2>4, <2>5, <2>6 DEF Orderly
<1> QED BY <1>1, <1>2, <1>3, <1>4 DEF IInv

\* The scheduler has the token back, or gave up.
LEMMA WaitOverStep == ASSUME IInv, WaitOver PROVE IInv'
<1>1. /\ stage = "waiting" /\ stage' \in {"ready", "reading"} /\ back[current] > 0
      /\ back' = [back EXCEPT ![current] = @ - 1]
      /\ UNCHANGED <<process, at, self, wake, binary, current>> /\ Typed
  BY DEF WaitOver, traceVars, IInv
<1>2. current \in Tids /\ wake \in [Tids -> Nat] /\ back \in [Tids -> Nat]
  BY <1>1 DEF Typed
<1>3. \A u \in Tids : back'[u] = IF u = current THEN back[u] - 1 ELSE back[u]
  BY <1>1, <1>2
<1>4. Typed'
  <2>1. back' \in [Tids -> Nat]
    BY <1>1, <1>2
  <2> QED BY <1>1, <2>1 DEF Typed, Stages
<1>5. NoTraceThen'
  BY <1>1 DEF NoTraceThen, NoTrace
<1>6. ASSUME process = "running" PROVE Orderly'
  <2>1. OneToken /\ OneNewborn
    BY <1>6 DEF IInv, Orderly
  <2>2. Moving = {} /\ wake[current] = 0 /\ back[current] = 1
    BY <2>1, <1>1, <1>2 DEF OneToken
  <2>3. \A u \in Tids : wake'[u] = 0 /\ back'[u] = 0
    <3> SUFFICES ASSUME NEW u \in Tids PROVE wake'[u] = 0 /\ back'[u] = 0
      OBVIOUS
    <3>1. wake[u] + back[u] > 0 => u = current
      BY <2>1 DEF OneToken
    <3>2. wake[u] \in Nat /\ back[u] \in Nat
      BY <1>2
    <3> QED BY <1>1, <1>3, <2>2, <3>1, <3>2
  <2>4. Moving' = {}
    BY <2>2, <1>1 DEF Moving
  <2>5. Quiet' /\ OneToken'
    BY <2>3, <2>4 DEF Quiet, OneToken
  <2>6. OneNewborn'
    BY <2>1, <1>1 DEF OneNewborn
  <2> QED BY <2>5, <2>6 DEF Orderly
<1> QED BY <1>1, <1>4, <1>5, <1>6 DEF IInv

\* Steps of the scheduler between two waits, with a trace process that sleeps.
LEMMA QuietStep ==
  ASSUME IInv, stage \in {"search", "reading"}, stage' \in {"search", "ending", "undefined", "exited"},
         UNCHANGED <<process, at, self, wake, back, binary, current>>
  PROVE  IInv'
<1>1. Typed'
  BY DEF IInv, Typed, Stages
<1>2. NoTraceThen'
  BY DEF NoTraceThen, NoTrace
<1>3. ASSUME process = "running" PROVE Orderly'
  <2>1. Orderly /\ Moving' = Moving
    BY <1>3 DEF IInv, Moving
  <2>2. Moving = {} /\ \A t \in Tids : wake[t] = 0 /\ back[t] = 0
    BY <2>1 DEF Orderly, Quiet
  <2>3. Quiet' /\ OneToken'
    BY <2>1, <2>2 DEF Quiet, OneToken
  <2>4. OneNewborn'
    BY <2>1 DEF Orderly, OneNewborn
  <2> QED BY <2>3, <2>4 DEF Orderly
<1> QED BY <1>1, <1>2, <1>3 DEF IInv

\* Steps after which no trace process runs.
LEMMA NoTraceStep ==
  ASSUME IInv, Killed \/ Reap \/ InterceptedExit \/ Branch \/ Finished PROVE IInv'
<1>1. CASE Killed
  <2>1. process' = "zombie" /\ stage \notin NoTrace /\ Typed
        /\ UNCHANGED <<at, self, stage, wake, back, binary, current>>
    BY <1>1 DEF Killed, sharedVars, schedVars, IInv, NoTrace
  <2>2. Typed' /\ NoTraceThen'
    BY <2>1 DEF Typed, NoTraceThen
  <2> QED BY <2>1, <2>2, NotRunning
<1>2. CASE Reap
  <2>1. process' = "none" /\ stage' \in {"between", "exited", "exiting"} /\ Typed
        /\ UNCHANGED <<at, self, wake, back, binary, current>>
    BY <1>2 DEF Reap, AfterTrace, sharedVars, IInv
  <2>2. Typed' /\ NoTraceThen'
    BY <2>1 DEF Typed, NoTraceThen, Stages
  <2> QED BY <2>1, <2>2, NotRunning
<1>3. CASE InterceptedExit
  <2>1. process = "none" /\ process' = "none" /\ stage' \in {"exited", "blocked"} /\ Typed
        /\ back' = [back EXCEPT ![1] = @ + 1]
        /\ UNCHANGED <<at, self, wake, binary, current>>
    BY <1>3 DEF InterceptedExit, traceVars, IInv, NoTraceThen, NoTrace
  <2>2. back \in [Tids -> Nat] /\ \A t \in Tids : back'[t] = IF t = 1 THEN back[t] + 1 ELSE back[t]
    BY <2>1 DEF Typed
  <2>3. back' \in [Tids -> Nat]
    <3>1. back' = [t \in Tids |-> back'[t]]
      BY <2>1, <2>2
    <3>2. \A t \in Tids : back'[t] \in Nat
      BY <2>2
    <3> QED BY <3>1, <3>2
  <2>4. Typed' /\ NoTraceThen'
    BY <2>1, <2>3 DEF Typed, NoTraceThen, Stages
  <2> QED BY <2>1, <2>4, NotRunning
<1>4. CASE Branch \/ Finished
  <2>1. process = "none" /\ stage' \in {"fork", "stopping"} /\ Typed
        /\ UNCHANGED <<process, at, self, wake, back, binary, current>>
    BY <1>4 DEF Branch, Finished, traceVars, sharedVars, IInv, NoTraceThen, NoTrace
  <2>2. Typed' /\ NoTraceThen'
    BY <2>1 DEF Typed, NoTraceThen, Stages
  <2> QED BY <2>1, <2>2, NotRunning
<1> QED BY <1>1, <1>2, <1>3, <1>4

\* A signal ends the search.
LEMMA SignalledStep == ASSUME IInv, Signalled PROVE IInv'
<1>1. /\ stage' = "stopping"
      /\ UNCHANGED <<process, at, self, wake, back, binary, current>>
  BY DEF Signalled, traceVars, sharedVars
<1>2. Typed' /\ NoTraceThen'
  BY <1>1 DEF IInv, Typed, NoTraceThen, Stages, NoTrace
<1>3. ASSUME process = "running" PROVE Orderly'
  <2>1. Orderly /\ Moving' = Moving
    BY <1>1, <1>3 DEF IInv, Moving
  <2>2. OneToken'
    BY <1>1, <2>1 DEF Orderly, OneToken
  <2>3. Quiet' /\ OneNewborn'
    BY <1>1, <2>1 DEF Orderly, Quiet, OneNewborn
  <2> QED BY <2>2, <2>3 DEF Orderly
<1> QED BY <1>1, <1>2, <1>3 DEF IInv

\* Nothing happens.
LEMMA Stutter == ASSUME IInv, UNCHANGED vars PROVE IInv'
<1>1. UNCHANGED <<process, at, self, stage, wake, back, binary, current>>
  BY DEF vars, traceVars, sharedVars, schedVars
<1>2. Typed' /\ NoTraceThen' /\ Moving' = Moving
  BY <1>1 DEF IInv, Typed, NoTraceThen, Moving
<1>3. Orderly => Orderly'
  BY <1>1, <1>2 DEF Orderly, Quiet, OneToken, OneNewborn
<1> QED BY <1>1, <1>2, <1>3 DEF IInv

\* Every step keeps the order.
LEMMA NextInv == IInv /\ [Next]_vars => IInv'
<1> SUFFICES ASSUME IInv, [Next]_vars PROVE IInv'
  OBVIOUS
<1>1. CASE \E r \in Routines : ThreadStep(r)
  BY <1>1, ThreadSteps
<1>2. CASE SchedulerStep
  <2>1. CASE Fork
    BY <2>1, ForkStep
  <2>2. CASE \E t \in Tids : Resume(t)
    BY <2>2, ResumeStep
  <2>3. CASE WaitOver
    BY <2>3, WaitOverStep
  <2>4. CASE Read
    <3>1. stage = "reading" /\ stage' \in {"search", "undefined"}
          /\ UNCHANGED <<process, at, self, wake, back, binary, current>>
      BY <2>4 DEF Read, traceVars, sharedVars
    <3> QED BY <3>1, QuietStep
  <2>5. CASE EndTrace \/ ExitAtDeadlock
    <3>1. stage = "search" /\ stage' \in {"ending", "exited"}
          /\ UNCHANGED <<process, at, self, wake, back, binary, current>>
      BY <2>5 DEF EndTrace, ExitAtDeadlock, traceVars, sharedVars
    <3> QED BY <3>1, QuietStep
  <2>6. CASE Reap \/ InterceptedExit \/ Branch \/ Finished
    BY <2>6, NoTraceStep
  <2> QED BY <1>2, <2>1, <2>2, <2>3, <2>4, <2>5, <2>6 DEF SchedulerStep
<1>3. CASE Killed
  BY <1>3, NoTraceStep
<1>4. CASE Signalled
  BY <1>4, SignalledStep
<1>5. CASE UNCHANGED vars
  BY <1>5, Stutter
<1> QED BY <1>1, <1>2, <1>3, <1>4, <1>5 DEF Next

-----------------------------------------------------------------------------
(* The theorems.                                                           *)

\* In that order one thread moves at a time.
LEMMA InvOneAtATime == IInv => OneAtATime
<1> SUFFICES ASSUME IInv, process = "running" PROVE OneAtATime
  BY DEF OneAtATime
<1>1. Quiet /\ OneToken /\ OneNewborn
  BY DEF IInv, Orderly
<1>2. ASSUME NEW r \in Moving
      PROVE  \/ stage \in {"stopping", "exited"}
             \/ stage = "waiting" /\ current = self[r]
  <2>1. stage \in {"waiting", "stopping"}
    BY <1>1 DEF Quiet
  <2> QED BY <1>1, <2>1 DEF OneToken
<1>3. \A r \in Routines : at[r] = "newborn" => \E q \in Moving : at[q] = "creating"
  BY <1>1 DEF OneNewborn, Moving
<1> QED BY <1>1, <1>2, <1>3 DEF OneAtATime, OneToken

\* At most one thread of the trace moves, the one the scheduler waits for: for any program,
\* any number of threads and of traces.
THEOREM OneThreadMoves == Spec => []OneAtATime
<1> QED BY InitInv, NextInv, InvOneAtATime, PTL DEF Spec

\* A trace process is left when McMini exits only under --first-deadlock.
LeftThen == stage = "exited" /\ process # "none" => prog \in StopAtFirst

LEMMA LeftStep == ASSUME IInv, LeftThen, [Next]_vars PROVE LeftThen'
<1>1. CASE \E r \in Routines : ThreadStep(r)
  <2>1. process # "none" /\ UNCHANGED <<stage, prog>>
    BY <1>1 DEF ThreadStep, Moves, Register, Go, Joined, CreateThread, ChildRegistered, Arrive, Die,
                Post, Await, PostFinish, Leave, schedVars
  <2> QED BY <2>1 DEF LeftThen
<1>2. CASE ExitAtDeadlock
  BY <1>2 DEF ExitAtDeadlock, LeftThen
<1>3. CASE Reap
  BY <1>3 DEF Reap, LeftThen
<1>4. CASE InterceptedExit
  BY <1>4 DEF InterceptedExit, traceVars, IInv, NoTraceThen, NoTrace, LeftThen
<1>5. CASE Fork \/ (\E t \in Tids : Resume(t)) \/ WaitOver \/ Read \/ EndTrace \/ Branch \/ Finished
  <2>1. stage' # "exited"
    BY <1>5 DEF Fork, Resume, WaitOver, Read, EndTrace, Branch, Finished
  <2> QED BY <2>1 DEF LeftThen
<1>6. CASE Killed \/ Signalled
  <2>1. stage' # "exited"
    BY <1>6 DEF Killed, Signalled, schedVars
  <2> QED BY <2>1 DEF LeftThen
<1>7. CASE UNCHANGED vars
  BY <1>7 DEF vars, traceVars, schedVars, LeftThen
<1> QED BY <1>1, <1>2, <1>3, <1>4, <1>5, <1>6, <1>7 DEF Next, SchedulerStep

\* NothingLeftBehind: McMini leaves no trace process, but for the trace of the deadlock that
\* --first-deadlock stops at, and no thread of that one ever moves again.
THEOREM NoTraceLeft == Spec => []NothingLeftBehind
<1>1. Init => LeftThen
  BY DEF Init, LeftThen
<1>2. ASSUME IInv, stage = "exited", process = "running"
      PROVE  SleepsForEver
  <2>1. Moving = {} /\ (\A t \in Tids : wake[t] = 0) /\ OneNewborn
    BY <1>2 DEF IInv, Orderly, Quiet
  <2>2. ASSUME NEW r \in Routines
        PROVE  at[r] \in {"unborn", "asleep", "gone"}
    BY <2>1 DEF Moving, OneNewborn
  <2> QED BY <2>1, <2>2 DEF SleepsForEver
<1>3. IInv /\ LeftThen => NothingLeftBehind
  BY <1>2 DEF LeftThen, NothingLeftBehind
<1> QED BY <1>1, <1>3, InitInv, NextInv, LeftStep, PTL DEF Spec

-----------------------------------------------------------------------------
(* What a trace is after some transitions: which id each routine has, how   *)
(* many operations it did, and how many ids were given.                     *)

\* The types of the operations of p, and its operations.
Kinds(p) == {"start", "finish"} \cup UNION {{p[r][n].type : n \in 1..Len(p[r])} : r \in Routines}
OpSet(p) == [type : Kinds(p), to : Routines \cup {Nobody}]
Transitions(p) == [tid : Nat, type : Kinds(p), obj : Nat]

Ops(p, r) == <<Start>> \o p[r] \o <<Finish>>

\* The operation that routine r stops at after n of them; a thread posts its finish twice.
OpAt(p, r, n) == IF n < Len(Ops(p, r)) THEN Ops(p, r)[n + 1] ELSE Finish

Begun == [self |-> [r \in Routines |-> IF r = Main THEN 1 ELSE 0],
          done |-> [r \in Routines |-> 0], made |-> 1]

\* Routine r goes on to its next operation; a thread it creates gets the next id.
Onward(p, a, r) ==
    LET op == OpAt(p, r, a.done[r] + 1)
    IN [self |-> IF Creates(op) THEN [a.self EXCEPT ![op.to] = a.made + 1] ELSE a.self,
        done |-> [a.done EXCEPT ![r] = @ + 1],
        made |-> IF Creates(op) THEN a.made + 1 ELSE a.made]

\* It has an operation left, and creates only who is not born, and names only who is.
CanGo(p, a, r) ==
    /\ a.self[r] # 0 /\ a.done[r] < Len(Ops(p, r))
    /\ LET op == OpAt(p, r, a.done[r] + 1)
       IN op.to # Nobody => (a.self[op.to] = 0 <=> Creates(op))

Id(a, who) == IF who = Nobody THEN 0 ELSE a.self[who]

\* What the scheduler makes of what routine r posted.
Announced(p, a, r) ==
    LET op == OpAt(p, r, a.done[r]) IN Transition(a.self[r], op.type, Id(a, op.to))

Sound(p, a) ==
    /\ a = [self |-> a.self, done |-> a.done, made |-> a.made]
    /\ a.made \in Nat \ {0} /\ a.self \in [Routines -> 0..a.made] /\ a.self[Main] = 1
    /\ \A q, r \in Routines : a.self[q] = a.self[r] /\ a.self[q] # 0 => q = r
    /\ \A t \in 1..a.made : \E r \in Routines : a.self[r] = t
    /\ a.done \in [Routines -> Nat] /\ \A r \in Routines : a.done[r] <= Len(Ops(p, r))
    /\ \A r \in Routines : a.self[r] = 0 => a.done[r] = 0
    /\ a.done[Main] = 0 => a.made = 1

\* Whom the routines name, up to the operation each of them stopped at, is born, and
\* created by one operation.
Arrived(p, a, r, n) == a.self[r] # 0 /\ n \in 1..Len(Ops(p, r)) /\ n <= a.done[r] + 1

OneCreator(p, a) ==
    /\ \A r \in Routines : \A n \in 1..Len(Ops(p, r)) :
           Arrived(p, a, r, n) /\ Ops(p, r)[n].to # Nobody => a.self[Ops(p, r)[n].to] # 0
    /\ \A r \in Routines : \A n \in 1..Len(Ops(p, r)) :
           Arrived(p, a, r, n) /\ Creates(Ops(p, r)[n]) => Ops(p, r)[n].to # Main
    /\ \A q, r \in Routines : \A m \in 1..Len(Ops(p, q)) : \A n \in 1..Len(Ops(p, r)) :
           /\ Arrived(p, a, q, m) /\ Creates(Ops(p, q)[m])
           /\ Arrived(p, a, r, n) /\ Creates(Ops(p, r)[n])
           /\ Ops(p, q)[m].to = Ops(p, r)[n].to
           => q = r /\ m = n

Grown(a, b) ==
    /\ \A r \in Routines : /\ a.self[r] # 0 => b.self[r] = a.self[r]
                           /\ a.done[r] <= b.done[r]
    /\ a.made <= b.made

Ran(s, t, k) == {i \in 1..k : s[i].tid = t}

\* The k-th transition of s is what a routine had announced, and h[k] is the trace after it.
WentOn(p, s, h, k) ==
    \E r \in Routines : /\ CanGo(p, h[k - 1], r)
                        /\ s[k] = Announced(p, h[k - 1], r) /\ h[k] = Onward(p, h[k - 1], r)

\* The trace a did as many operations as there are among the first k transitions of s.
Counted(p, s, a, k) ==
    \A r \in Routines : a.self[r] # 0 =>
        /\ a.done[r] = Cardinality(Ran(s, a.self[r], k))
        /\ a.done[r] = Len(Ops(p, r)) => \E j \in Ran(s, a.self[r], k) : s[j].type = "finish"

\* The transitions s are a run of the program, with h[k] the trace after k of them.
Chronicle(p, s, h) ==
    /\ h[0] = Begun
    /\ \A k \in 1..Len(s) : WentOn(p, s, h, k)
    /\ \A k \in 0..Len(s) : Sound(p, h[k]) /\ OneCreator(p, h[k]) /\ Counted(p, s, h[k], k)
    /\ \A k \in 0..Len(s) : \A j \in 0..k : Grown(h[j], h[k])

MakesThread(tr, t) == tr.type \in {"create", "createWithAttr"} /\ tr.obj = t

\* No thread runs before the transition that creates it did.
CreatedFirst(s) ==
    /\ \A j \in 1..Len(s) : s[j].tid # 1 => \E i \in 1..(j - 1) : MakesThread(s[i], s[j].tid)
    /\ \A i \in 1..Len(s) : \A j \in 1..i : ~MakesThread(s[i], s[j].tid)

-----------------------------------------------------------------------------
\* The scheduler's ids are those of the trace, and it knows the next operation of each.
KnowsNext(p, s, h, ids, nexts) ==
    LET a == h[Len(s)]
    IN /\ ids \in Seq(Nat) /\ nexts \in Seq(Transitions(p)) /\ Len(nexts) = Len(ids)
       /\ \A t \in 1..Len(ids) : ids[t] = t
       /\ \A k \in 0..Len(s) : h[k].made <= Len(ids)
       /\ \A r \in Routines : a.self[r] # 0 => nexts[a.self[r]] = Announced(p, a, r)
       /\ \A t \in 1..Len(ids) : t > a.made => nexts[t] = Transition(t, "start", 0)

\* Where a thread is that does not move.
Place(p, a, r) == IF a.self[r] = 0 THEN "unborn"
                  ELSE IF a.done[r] < Len(Ops(p, r)) THEN "asleep" ELSE "gone"

\* Its pthread_t is the id of each thread that was not joined, for the system gives new ones in order.
Named(q) == handle[q] = self[q] \/ (handle[q] = 0 /\ at[q] = "gone")

\* The trace process is at a, and everybody waits.
Rests(a) ==
    /\ process = "running"
    /\ self = a.self /\ done = a.done
    /\ \A q \in Routines : at[q] = Place(prog, a, q) /\ Named(q)
    /\ a.done[Main] # 0 => nextId = a.made

LetterOf(p, a, r) ==
    LET op == OpAt(p, r, a.done[r])
    IN [tid |-> a.self[r], type |-> op.type, handle |-> Id(a, op.to)]

\* Where the threads are that have not moved since the trace was at a.
Others(a, moved) == \A q \in Routines \ moved : at[q] = Place(prog, a, q)

\* Routine r is let go on from a, and is in its own code ...
SetsOut(a, r) ==
    LET n == a.done[r] + 1
    IN /\ at[r] \in {"going", "joining", "aborting"} /\ n < Len(Ops(prog, r))
       /\ at[r] = "joining" => Ops(prog, r)[n].type = "join"
       /\ self = a.self /\ nextId = a.made /\ Others(a, {r})

\* ... or has created a thread that has not registered ...
AwaitsChild(a, r) ==
    LET op == OpAt(prog, r, a.done[r] + 1)
    IN /\ at[r] = "creating" /\ a.done[r] + 1 < Len(Ops(prog, r))
       /\ Creates(op) /\ op.to # r /\ a.self[op.to] = 0
       /\ self = a.self /\ nextId = a.made /\ Others(a, {r, op.to})
       /\ at[op.to] = "newborn" /\ handle[op.to] = a.made + 1

\* ... or has ...
HasChild(a, r) ==
    LET op == OpAt(prog, r, a.done[r] + 1)
        b == Onward(prog, a, r)
    IN /\ at[r] = "creating" /\ a.done[r] + 1 < Len(Ops(prog, r))
       /\ Creates(op) /\ op.to # r /\ a.self[op.to] = 0
       /\ self = b.self /\ nextId = b.made /\ Others(a, {r, op.to})
       /\ at[op.to] = "asleep"

\* ... or tells the scheduler what it is about to do ...
Posts(a, r) ==
    LET op == OpAt(prog, r, a.done[r] + 1)
        b == Onward(prog, a, r)
    IN /\ at[r] \in {"posting", "waking"} /\ a.done[r] + 1 < Len(Ops(prog, r)) /\ CanGo(prog, a, r)
       /\ self = b.self /\ nextId = b.made /\ Others(b, {r})
       /\ op.to # Nobody => handle[op.to] = self[op.to]
       /\ at[r] = "waking" => mailbox = LetterOf(prog, b, r)

\* ... or that it finishes.
Leaves(a, r) ==
    /\ at[r] \in {"leaving", "parting"} /\ a.done[r] + 1 = Len(Ops(prog, r))
    /\ self = a.self /\ nextId = a.made /\ Others(a, {r})
    /\ at[r] = "parting" => mailbox = LetterOf(prog, Onward(prog, a, r), r)

OnTheWay(a, r) ==
    /\ process = "running" /\ done = Onward(prog, a, r).done
    /\ \A q \in Routines : Named(q) \/ at[q] = "newborn"
    /\ SetsOut(a, r) \/ AwaitsChild(a, r) \/ HasChild(a, r) \/ Posts(a, r) \/ Leaves(a, r)

Stopped(a, r) ==
    /\ CanGo(prog, a, r)
    /\ Rests(Onward(prog, a, r)) /\ mailbox = LetterOf(prog, Onward(prog, a, r), r)

\* Routine r does the transition that the scheduler waits for.
HasTurn(h, r) ==
    LET a == h[rerun]
    IN /\ a.self[r] = current /\ current # 0 /\ a.done[r] < Len(Ops(prog, r))
       /\ IF rerun < Len(stack) THEN CanGo(prog, a, r) /\ h[rerun + 1] = Onward(prog, a, r)
          ELSE current \in Alive(stack)

\* The scheduler waits for routine r: it is to go on, is on its way, or has stopped again.
Waits(h, r) ==
    /\ HasTurn(h, r)
    /\ \/ wake[current] > 0 /\ Rests(h[rerun])
       \/ wake[current] = 0 /\ back[current] = 0 /\ OnTheWay(h[rerun], r)
       \/ back[current] > 0 /\ Stopped(h[rerun], r)

\* The trace process is where the first transitions of the stack, that it has rerun, lead to.
KeepsPace(h) ==
    /\ stage \in {"ready", "search", "waiting", "reading"} => rerun \in 0..Len(stack)
    /\ stage \in {"search", "reading"} => rerun = Len(stack)
    /\ stage \in {"ready", "search"} => Rests(h[rerun])
    /\ stage = "waiting" => \E r \in Routines : Waits(h, r)
    /\ stage = "reading" => \E r \in Routines : HasTurn(h, r) /\ Stopped(h[rerun], r)

\* The stack is a run of the program, and the scheduler knows what the trace is after it.
Story(h) ==
    /\ stack \in Seq(Transitions(prog)) /\ Chronicle(prog, stack, h) /\ CreatedFirst(stack)
    /\ KnowsNext(prog, stack, h, known, next)

\* A signal or undefined behaviour ends the search, whatever the trace does.
Ending == signals # {} \/ stage \in {"undefined", "stopping", "exiting", "blocked", "exited"}

\* As long as nothing ended the search there is a history of the stack that the two processes
\* agree on.
KInv ==
    /\ prog \in Programs /\ handle = [r \in Routines |-> handle[r]]
    /\ Ending \/ \E h : Story(h) /\ KeepsPace(h)

-----------------------------------------------------------------------------
(* What the history of a stack is like.                                    *)

\* What a program gives a routine to do, between its start and its finish.
LEMMA OpsAre ==
  ASSUME NEW p \in Programs, NEW r \in Routines
  PROVE  /\ Ops(p, r) \in Seq(OpSet(p)) /\ Len(Ops(p, r)) \in Nat /\ Len(Ops(p, r)) >= 2
         /\ Ops(p, r)[1] = Start /\ Ops(p, r)[Len(Ops(p, r))] = Finish
         /\ \A n \in 1..Len(Ops(p, r)) :
              /\ Ops(p, r)[n] \in OpSet(p)
              /\ Ops(p, r)[n].type = "start" <=> n = 1
              /\ Ops(p, r)[n].type = "finish" <=> n = Len(Ops(p, r))
              /\ Ops(p, r)[n].to # Nobody <=> Ops(p, r)[n].type \in {"create", "createWithAttr", "join"}
<1> DEFINE body == p[r]
           L == Len(body)
<1>0. /\ body \in Seq([type : STRING, to : Routines \cup {Nobody}])
      /\ \A n \in 1..L : /\ body[n].type \notin {"start", "finish"}
                         /\ body[n].to # Nobody <=> body[n].type \in {"create", "createWithAttr", "join"}
  BY ProgramsAssumption
<1>1. body \in Seq(OpSet(p))
  <2>1. L \in Nat /\ \A n \in 1..L : body[n] \in [type : STRING, to : Routines \cup {Nobody}]
    BY <1>0, LenProperties, ElementOfSeq
  <2>2. \A n \in 1..L : body[n].type \in Kinds(p)
    BY DEF Kinds
  <2>3. \A n \in 1..L : body[n] \in OpSet(p)
    BY <2>1, <2>2 DEF OpSet
  <2>4. body = [n \in 1..L |-> body[n]]
    BY <1>0, LenProperties
  <2> QED BY <2>1, <2>3, <2>4, SeqDef
<1>2. Ops(p, r) = <<Start>> \o body \o <<Finish>>
  BY DEF Ops
<1>3. Start \in OpSet(p) /\ Finish \in OpSet(p)
  BY DEF Start, Finish, Operation, OpSet, Kinds
<1> HIDE DEF body
<1>4. L \in Nat /\ \A n \in 1..L : body[n] \in OpSet(p)
  BY <1>1
<1> DEFINE front == <<Start>> \o body
<1>5. /\ front \in Seq(OpSet(p)) /\ Len(front) = L + 1
      /\ \A n \in 1..(L + 1) : front[n] = IF n = 1 THEN Start ELSE body[n - 1]
  BY <1>1, <1>3, <1>4
<1>9. /\ Ops(p, r) \in Seq(OpSet(p)) /\ Len(Ops(p, r)) = L + 2
      /\ \A n \in 1..(L + 2) : Ops(p, r)[n] = IF n = L + 2 THEN Finish ELSE front[n]
  <2>1. Ops(p, r) = Append(front, Finish)
    <3>1. Ops(p, r) = front \o <<Finish>>
      BY <1>2
    <3> HIDE DEF front
    <3> QED BY ONLY <3>1, <1>3, <1>5, AppendIsConcat
  <2> HIDE DEF front
  <2> QED BY ONLY <2>1, <1>3, <1>4, <1>5, AppendProperties
<1> HIDE DEF front
<1>6. \A n \in 1..(L + 2) : Ops(p, r)[n] = IF n = 1 THEN Start ELSE IF n = L + 2 THEN Finish ELSE body[n - 1]
  BY <1>4, <1>5, <1>9
<1>7. ASSUME NEW n \in 1..(L + 2)
      PROVE  /\ Ops(p, r)[n] \in OpSet(p)
             /\ Ops(p, r)[n].type = "start" <=> n = 1
             /\ Ops(p, r)[n].type = "finish" <=> n = L + 2
             /\ Ops(p, r)[n].to # Nobody <=> Ops(p, r)[n].type \in {"create", "createWithAttr", "join"}
  <2>1. CASE n = 1
    BY <2>1, <1>3, <1>4, <1>6 DEF Start, Finish, Operation
  <2>2. CASE n = L + 2
    BY <2>2, <1>3, <1>4, <1>6 DEF Start, Finish, Operation
  <2>3. CASE n # 1 /\ n # L + 2
    <3>1. n - 1 \in 1..L /\ Ops(p, r)[n] = body[n - 1]
      BY <2>3, <1>4, <1>6
    <3> QED BY <3>1, <2>3, <1>0, <1>4
  <2> QED BY <2>1, <2>2, <2>3
<1> QED BY <1>4, <1>6, <1>7, <1>9

\* The operation after n of them.
LEMMA OpAtIs ==
  ASSUME NEW p \in Programs, NEW r \in Routines, NEW n \in Nat
  PROVE  /\ OpAt(p, r, n) \in OpSet(p)
         /\ OpAt(p, r, n).type \in Kinds(p) /\ OpAt(p, r, n).to \in Routines \cup {Nobody}
         /\ OpAt(p, r, n).to # Nobody <=> OpAt(p, r, n).type \in {"create", "createWithAttr", "join"}
         /\ Creates(OpAt(p, r, n)) => OpAt(p, r, n).to \in Routines /\ n >= 1 /\ n + 1 < Len(Ops(p, r))
         /\ n = 0 <=> OpAt(p, r, n).type = "start"
         /\ n + 1 >= Len(Ops(p, r)) <=> OpAt(p, r, n).type = "finish"
         /\ n + 1 >= Len(Ops(p, r)) => OpAt(p, r, n) = Finish
         /\ n = 0 => OpAt(p, r, n) = Start
         /\ n < Len(Ops(p, r)) => OpAt(p, r, n) = Ops(p, r)[n + 1]
<1> DEFINE L == Len(Ops(p, r))
           op == OpAt(p, r, n)
<1>1. /\ L \in Nat /\ L >= 2 /\ Ops(p, r)[1] = Start /\ Ops(p, r)[L] = Finish
      /\ \A m \in 1..L :
           /\ Ops(p, r)[m] \in OpSet(p)
           /\ Ops(p, r)[m].type = "start" <=> m = 1
           /\ Ops(p, r)[m].type = "finish" <=> m = L
           /\ Ops(p, r)[m].to # Nobody <=> Ops(p, r)[m].type \in {"create", "createWithAttr", "join"}
  BY OpsAre
<1>2. op = IF n < L THEN Ops(p, r)[n + 1] ELSE Finish
  BY DEF OpAt
<1>3. Finish \in OpSet(p) /\ Finish.type = "finish" /\ Finish.to = Nobody
  BY DEF Finish, Operation, OpSet, Kinds
<1> HIDE DEF L, op
<1>4. /\ op \in OpSet(p)
      /\ op.to # Nobody <=> op.type \in {"create", "createWithAttr", "join"}
      /\ n = 0 <=> op.type = "start"
      /\ n + 1 >= L <=> op.type = "finish"
      /\ n + 1 >= L => op = Finish
      /\ n = 0 => op = Start
  <2>1. CASE n < L
    <3>1. n + 1 \in 1..L /\ op = Ops(p, r)[n + 1]
      BY <2>1, <1>1, <1>2
    <3> QED BY <3>1, <1>1, <2>1
  <2>2. CASE ~(n < L)
    BY <2>2, <1>1, <1>2, <1>3
  <2> QED BY <2>1, <2>2
<1>5. op.type \in Kinds(p) /\ op.to \in Routines \cup {Nobody}
  BY <1>4 DEF OpSet
<1>6. Creates(op) => op.to \in Routines /\ n >= 1 /\ n + 1 < L
  <2> SUFFICES ASSUME Creates(op) PROVE op.to \in Routines /\ n >= 1 /\ n + 1 < L
    OBVIOUS
  <2>1. op.type \in {"create", "createWithAttr"}
    BY DEF Creates
  <2>2. op.type # "start" /\ op.type # "finish" /\ op.to # Nobody
    BY <2>1, <1>4
  <2> QED BY <2>2, <1>1, <1>4, <1>5
<1> QED BY <1>1, <1>2, <1>4, <1>5, <1>6 DEF L, op

\* A start and a finish name nobody.
LEMMA CreatesNoFinish == ~Creates(Start) /\ ~Creates(Finish) /\ Start.to = Nobody /\ Finish.to = Nobody
  BY DEF Creates, Start, Finish, Operation

\* What one operation of a routine changes.
LEMMA OnwardIs ==
  ASSUME NEW p \in Programs, NEW r \in Routines, NEW a, NEW b, NEW op,
         Sound(p, a), CanGo(p, a, r), b = Onward(p, a, r), op = OpAt(p, r, a.done[r] + 1)
  PROVE  /\ b = [self |-> b.self, done |-> b.done, made |-> b.made]
         /\ b.done \in [Routines -> Nat]
         /\ \A q \in Routines : b.done[q] = IF q = r THEN a.done[r] + 1 ELSE a.done[q]
         /\ b.made = IF Creates(op) THEN a.made + 1 ELSE a.made
         /\ \A q \in Routines : b.self[q] = IF Creates(op) /\ q = op.to THEN a.made + 1 ELSE a.self[q]
         /\ b.self \in [Routines -> 0..b.made]
         /\ Creates(op) => op.to \in Routines /\ op.to # r /\ a.self[op.to] = 0
         /\ ~Creates(op) => b.self = a.self
<1>1. /\ a.made \in Nat \ {0} /\ a.self \in [Routines -> 0..a.made] /\ a.done \in [Routines -> Nat]
  BY DEF Sound
<1>2. a.done[r] + 1 \in Nat
  BY <1>1
<1>3. Creates(op) => op.to \in Routines
  BY <1>2, OpAtIs
<1>4. op.to \in Routines \cup {Nobody} /\ Nobody \notin Routines
  BY <1>2, OpAtIs, RoutinesAssumption
<1>5. a.self[r] # 0 /\ (op.to # Nobody => (a.self[op.to] = 0 <=> Creates(op)))
  BY DEF CanGo
<1>6. Creates(op) => op.to # r /\ a.self[op.to] = 0
  BY <1>3, <1>4, <1>5
<1>7. b = [self |-> IF Creates(op) THEN [a.self EXCEPT ![op.to] = a.made + 1] ELSE a.self,
           done |-> [a.done EXCEPT ![r] = @ + 1],
           made |-> IF Creates(op) THEN a.made + 1 ELSE a.made]
  BY DEF Onward
<1> HIDE DEF Creates
<1>8. /\ b = [self |-> b.self, done |-> b.done, made |-> b.made]
      /\ b.self = IF Creates(op) THEN [a.self EXCEPT ![op.to] = a.made + 1] ELSE a.self
      /\ b.done = [a.done EXCEPT ![r] = @ + 1]
      /\ b.made = IF Creates(op) THEN a.made + 1 ELSE a.made
  BY <1>7
<1>9. /\ b.done \in [Routines -> Nat]
      /\ \A q \in Routines : b.done[q] = IF q = r THEN a.done[r] + 1 ELSE a.done[q]
  BY <1>1, <1>8
<1>10. CASE Creates(op)
  <2>1. \A q \in Routines : b.self[q] = IF q = op.to THEN a.made + 1 ELSE a.self[q]
    BY <1>10, <1>8, <1>1, <1>3
  <2>2. b.self \in [Routines -> 0..b.made]
    <3>1. b.made = a.made + 1 /\ a.made \in Nat /\ b.self = [a.self EXCEPT ![op.to] = a.made + 1]
      BY <1>10, <1>8, <1>1
    <3>2. \A q \in Routines : a.self[q] \in 0..a.made
      BY <1>1
    <3>3. \A q \in Routines : b.self[q] \in 0..b.made
      BY <2>1, <3>1, <3>2
    <3>4. b.self = [q \in Routines |-> b.self[q]]
      BY <3>1, <1>1
    <3> QED BY <3>3, <3>4
  <2> QED BY <1>10, <2>1, <2>2, <1>6, <1>8, <1>9, <1>3
<1>11. CASE ~Creates(op)
  BY <1>11, <1>1, <1>8, <1>9
<1> QED BY <1>10, <1>11

\* A trace only grows: ids stay, counts do not go back.
LEMMA OnwardGrows ==
  ASSUME NEW p \in Programs, NEW r \in Routines, NEW a, Sound(p, a), CanGo(p, a, r)
  PROVE  Grown(a, Onward(p, a, r))
<1> DEFINE b == Onward(p, a, r)
           op == OpAt(p, r, a.done[r] + 1)
<1>1. /\ b.done \in [Routines -> Nat]
      /\ \A q \in Routines : b.done[q] = IF q = r THEN a.done[r] + 1 ELSE a.done[q]
      /\ b.made = IF Creates(op) THEN a.made + 1 ELSE a.made
      /\ \A q \in Routines : b.self[q] = IF Creates(op) /\ q = op.to THEN a.made + 1 ELSE a.self[q]
      /\ Creates(op) => a.self[op.to] = 0
  BY OnwardIs
<1>2. a.made \in Nat /\ a.done \in [Routines -> Nat]
  BY DEF Sound
<1> HIDE DEF b, op
<1>3. Grown(a, b)
  BY <1>1, <1>2 DEF Grown
<1> QED BY <1>3 DEF b

\* It stays sound.
LEMMA OnwardSound ==
  ASSUME NEW p \in Programs, NEW r \in Routines, NEW a, Sound(p, a), CanGo(p, a, r)
  PROVE  Sound(p, Onward(p, a, r))
<1> DEFINE b == Onward(p, a, r)
           op == OpAt(p, r, a.done[r] + 1)
<1>1. /\ b = [self |-> b.self, done |-> b.done, made |-> b.made]
      /\ b.done \in [Routines -> Nat]
      /\ \A q \in Routines : b.done[q] = IF q = r THEN a.done[r] + 1 ELSE a.done[q]
      /\ b.made = IF Creates(op) THEN a.made + 1 ELSE a.made
      /\ \A q \in Routines : b.self[q] = IF Creates(op) /\ q = op.to THEN a.made + 1 ELSE a.self[q]
      /\ b.self \in [Routines -> 0..b.made]
      /\ Creates(op) => op.to \in Routines /\ op.to # r /\ a.self[op.to] = 0
  BY OnwardIs
<1>2. /\ a.made \in Nat \ {0} /\ a.self \in [Routines -> 0..a.made] /\ a.self[Main] = 1
      /\ \A q, s \in Routines : a.self[q] = a.self[s] /\ a.self[q] # 0 => q = s
      /\ \A t \in 1..a.made : \E s \in Routines : a.self[s] = t
      /\ a.done \in [Routines -> Nat] /\ \A s \in Routines : a.done[s] <= Len(Ops(p, s))
      /\ \A s \in Routines : a.self[s] = 0 => a.done[s] = 0
      /\ a.done[Main] = 0 => a.made = 1
      /\ Main \in Routines
  BY RoutinesAssumption DEF Sound
<1>3. a.self[r] # 0 /\ a.done[r] < Len(Ops(p, r)) /\ Len(Ops(p, r)) \in Nat
  BY OpsAre DEF CanGo
<1> HIDE DEF b, op
<1>4. b.made \in Nat \ {0} /\ b.self[Main] = 1
  BY <1>1, <1>2
<1>5. \A q, s \in Routines : b.self[q] = b.self[s] /\ b.self[q] # 0 => q = s
  <2> TAKE q, s \in Routines
  <2>1. a.self[q] # a.made + 1 /\ a.self[s] # a.made + 1
    BY <1>2
  <2>2. CASE ~Creates(op)
    BY <2>2, <1>1, <1>2
  <2>3. CASE Creates(op)
    <3>1. /\ b.self[q] = IF q = op.to THEN a.made + 1 ELSE a.self[q]
          /\ b.self[s] = IF s = op.to THEN a.made + 1 ELSE a.self[s]
      BY <2>3, <1>1
    <3>2. a.self[q] = a.self[s] /\ a.self[q] # 0 => q = s
      BY <1>2
    <3> QED BY <2>1, <3>1, <3>2
  <2> QED BY <2>2, <2>3
<1>6. \A t \in 1..b.made : \E s \in Routines : b.self[s] = t
  <2> TAKE t \in 1..b.made
  <2>1. CASE t \in 1..a.made
    <3>1. PICK s \in Routines : a.self[s] = t
      BY <2>1, <1>2
    <3>2. b.self[s] = t
      BY <3>1, <2>1, <1>1
    <3> QED BY <3>2
  <2>2. CASE t \notin 1..a.made
    <3>1. Creates(op) /\ t = a.made + 1
      BY <2>2, <1>1, <1>2
    <3> QED BY <3>1, <1>1
  <2> QED BY <2>1, <2>2
<1>7. \A s \in Routines : b.done[s] <= Len(Ops(p, s))
  <2> TAKE s \in Routines
  <2>1. CASE s = r
    BY <2>1, <1>1, <1>2, <1>3
  <2>2. CASE s # r
    BY <2>2, <1>1, <1>2
  <2> QED BY <2>1, <2>2
<1>8. \A s \in Routines : b.self[s] = 0 => b.done[s] = 0
  BY <1>1, <1>2, <1>3
<1>9. b.done[Main] = 0 => b.made = 1
  <2> SUFFICES ASSUME b.done[Main] = 0 PROVE b.made = 1
    OBVIOUS
  <2>1. a.done[Main] = 0 /\ r # Main
    BY <1>1, <1>2
  <2>2. a.made = 1
    BY <2>1, <1>2
  <2>3. a.self[r] \in 0..1
    BY <2>2, <1>2
  <2>4. a.self[r] = 1
    BY <2>3, <1>3
  <2> QED BY <2>1, <2>4, <1>2
<1>10. Sound(p, b)
  BY <1>1, <1>4, <1>5, <1>6, <1>7, <1>8, <1>9 DEF Sound
<1> QED BY <1>10 DEF b

\* Who is named is born, and has one creator, after one more operation too.
LEMMA OnwardOneCreator ==
  ASSUME NEW p \in Programs, NEW r \in Routines, NEW a, Sound(p, a), CanGo(p, a, r), OneCreator(p, a)
  PROVE  OneCreator(p, Onward(p, a, r))
<1> DEFINE b == Onward(p, a, r)
           m == a.done[r] + 1
           op == OpAt(p, r, m)
<1>1. /\ \A q \in Routines : b.done[q] = IF q = r THEN a.done[r] + 1 ELSE a.done[q]
      /\ \A q \in Routines : b.self[q] = IF Creates(op) /\ q = op.to THEN a.made + 1 ELSE a.self[q]
      /\ Creates(op) => op.to \in Routines /\ op.to # r /\ a.self[op.to] = 0
  BY OnwardIs
<1>2. /\ a.made \in Nat \ {0} /\ a.self[Main] = 1 /\ a.done \in [Routines -> Nat]
      /\ \A s \in Routines : a.self[s] = 0 => a.done[s] = 0
      /\ Main \in Routines /\ Nobody \notin Routines
  BY RoutinesAssumption DEF Sound
<1>3. /\ a.self[r] # 0 /\ a.done[r] < Len(Ops(p, r))
      /\ op.to # Nobody => (a.self[op.to] = 0 <=> Creates(op))
  BY DEF CanGo
<1>4. \A s \in Routines : Len(Ops(p, s)) \in Nat /\ Len(Ops(p, s)) >= 2 /\ Ops(p, s)[1] = Start
  BY OpsAre
<1>13. \A s \in Routines : \A i \in 1..Len(Ops(p, s)) :
         /\ Ops(p, s)[i].to \in Routines \cup {Nobody}
         /\ Creates(Ops(p, s)[i]) => Ops(p, s)[i].to # Nobody
  BY OpsAre DEF Creates, OpSet
<1>5. m \in Nat /\ (m < Len(Ops(p, r)) => op = Ops(p, r)[m + 1])
  <2>1. m \in Nat
    BY <1>2
  <2> QED BY <2>1, OpAtIs
<1>6. ~Creates(Start) /\ Start.to = Nobody
  BY CreatesNoFinish
<1> HIDE DEF b, op, m
\* What is new at b: the operation r stops at, and the start of its child.
<1>7. ASSUME NEW q \in Routines, NEW n \in 1..Len(Ops(p, q)), Arrived(p, b, q, n), ~Arrived(p, a, q, n)
      PROVE  \/ q = r /\ n = m + 1 /\ Ops(p, q)[n] = op
             \/ Ops(p, q)[n] = Start
  <2>1. b.self[q] # 0 /\ n <= b.done[q] + 1 /\ ~(a.self[q] # 0 /\ n <= a.done[q] + 1) /\ n \in Nat
    BY <1>7, <1>4 DEF Arrived
  <2>2. CASE q = r
    <3>1. n = m + 1
      BY <2>1, <2>2, <1>1, <1>2, <1>3 DEF m
    <3> QED BY <3>1, <2>2, <1>4, <1>5
  <2>3. CASE q # r
    <3>1. a.self[q] = 0 /\ a.done[q] = 0 /\ b.done[q] = a.done[q]
      BY <2>1, <2>3, <1>1, <1>2
    <3>2. n = 1
      BY <3>1, <2>1, <1>4
    <3>3. Ops(p, q)[n] = Start
      BY <3>2, <1>4
    <3> QED BY <3>3
  <2> QED BY <2>2, <2>3
<1>8. ASSUME NEW q \in Routines, NEW n \in 1..Len(Ops(p, q)), Arrived(p, b, q, n), Ops(p, q)[n].to # Nobody
      PROVE  b.self[Ops(p, q)[n].to] # 0
  <2>1. CASE Arrived(p, a, q, n)
    <3>1. Ops(p, q)[n].to \in Routines
      BY <1>8, <1>13
    <3>2. a.self[Ops(p, q)[n].to] # 0
      BY ONLY <2>1, <1>8, OneCreator(p, a), q \in Routines, n \in 1..Len(Ops(p, q)) DEF OneCreator
    <3> QED BY <3>1, <3>2, <1>1, <1>2
  <2>2. CASE ~Arrived(p, a, q, n)
    <3>1. Ops(p, q)[n] = op
      BY <2>2, <1>6, <1>7, <1>8
    <3>2. op.to # Nobody /\ op.to \in Routines
      BY ONLY <3>1, <1>13, <1>8, q \in Routines, n \in 1..Len(Ops(p, q))
    <3>3. a.self[op.to] = 0 <=> Creates(op)
      BY <3>2, <1>3
    <3> QED BY <3>1, <3>2, <3>3, <1>1, <1>2
  <2> QED BY <2>1, <2>2
<1>9. ASSUME NEW q \in Routines, NEW n \in 1..Len(Ops(p, q)), Arrived(p, b, q, n), Creates(Ops(p, q)[n])
      PROVE  \/ Arrived(p, a, q, n) /\ a.self[Ops(p, q)[n].to] # 0 /\ Ops(p, q)[n].to # Main
             \/ q = r /\ n = m + 1 /\ a.self[Ops(p, q)[n].to] = 0
  <2>1. CASE Arrived(p, a, q, n)
    <3>1. Ops(p, q)[n].to # Nobody
      BY ONLY <1>9, <1>13, q \in Routines, n \in 1..Len(Ops(p, q))
    <3>2. a.self[Ops(p, q)[n].to] # 0 /\ Ops(p, q)[n].to # Main
      BY ONLY <2>1, <3>1, <1>9, OneCreator(p, a), q \in Routines, n \in 1..Len(Ops(p, q)) DEF OneCreator
    <3> QED BY <2>1, <3>2
  <2>2. CASE ~Arrived(p, a, q, n)
    BY <2>2, <1>1, <1>6, <1>7, <1>9
  <2> QED BY <2>1, <2>2
<1>10. ASSUME NEW q \in Routines, NEW n \in 1..Len(Ops(p, q)), Arrived(p, b, q, n), Creates(Ops(p, q)[n])
       PROVE  Ops(p, q)[n].to # Main
  BY <1>9, <1>10, <1>2
<1>11. ASSUME NEW q \in Routines, NEW s \in Routines, NEW i \in 1..Len(Ops(p, q)), NEW n \in 1..Len(Ops(p, s)),
              Arrived(p, b, q, i), Creates(Ops(p, q)[i]), Arrived(p, b, s, n), Creates(Ops(p, s)[n]),
              Ops(p, q)[i].to = Ops(p, s)[n].to
       PROVE  q = s /\ i = n
  <2>1. CASE Arrived(p, a, q, i) /\ Arrived(p, a, s, n)
    BY <2>1, <1>11 DEF OneCreator
  <2>2. CASE ~(Arrived(p, a, q, i) /\ Arrived(p, a, s, n))
    BY <2>2, <1>9, <1>11
  <2> QED BY <2>1, <2>2
<1>12. OneCreator(p, b)
  BY <1>8, <1>10, <1>11 DEF OneCreator
<1> QED BY <1>12 DEF b

\* The transitions of a thread are some of a finite number.
LEMMA RanIs ==
  ASSUME NEW s, NEW t, NEW k \in Nat
  PROVE  /\ IsFiniteSet(Ran(s, t, k)) /\ Cardinality(Ran(s, t, k)) \in Nat
         /\ Ran(s, t, k) \subseteq 1..k
<1>1. Ran(s, t, k) \subseteq 1..k
  BY DEF Ran
<1>2. IsFiniteSet(1..k)
  BY FS_Interval
<1>3. IsFiniteSet(Ran(s, t, k))
  BY <1>1, <1>2, FS_Subset
<1> QED BY <1>1, <1>3, FS_CardinalityType

\* Transitions that agree are counted alike.
LEMMA SameRan ==
  ASSUME NEW s, NEW u, NEW t, NEW k \in Nat, \A i \in 1..k : s[i] = u[i]
  PROVE  Ran(s, t, k) = Ran(u, t, k)
BY DEF Ran

\* One more transition is counted for its thread and no other.
LEMMA NextRan ==
  ASSUME NEW s, NEW t, NEW k \in Nat
  PROVE  Ran(s, t, k + 1) = IF s[k + 1].tid = t THEN Ran(s, t, k) \cup {k + 1} ELSE Ran(s, t, k)
<1>1. \A i : i \in 1..(k + 1) <=> i \in 1..k \/ i = k + 1
  OBVIOUS
<1> QED BY <1>1 DEF Ran

\* The same, of their number.
LEMMA NextRanCount ==
  ASSUME NEW s, NEW t, NEW k \in Nat
  PROVE  Cardinality(Ran(s, t, k + 1)) =
           IF s[k + 1].tid = t THEN Cardinality(Ran(s, t, k)) + 1 ELSE Cardinality(Ran(s, t, k))
<1>1. IsFiniteSet(Ran(s, t, k)) /\ k + 1 \notin Ran(s, t, k)
  BY RanIs
<1>2. Cardinality(Ran(s, t, k) \cup {k + 1}) = Cardinality(Ran(s, t, k)) + 1
  BY <1>1, FS_AddElement
<1>3. Ran(s, t, k + 1) = IF s[k + 1].tid = t THEN Ran(s, t, k) \cup {k + 1} ELSE Ran(s, t, k)
  BY NextRan
<1> QED BY <1>2, <1>3

\* What a thread announces is a transition of the program.
LEMMA AnnouncedIs ==
  ASSUME NEW p \in Programs, NEW r \in Routines, NEW a, Sound(p, a)
  PROVE  /\ Announced(p, a, r) \in Transitions(p)
         /\ Announced(p, a, r).tid = a.self[r]
         /\ Announced(p, a, r).type = OpAt(p, r, a.done[r]).type
         /\ Announced(p, a, r).obj = Id(a, OpAt(p, r, a.done[r]).to)
         /\ \A t : MakesThread(Announced(p, a, r), t) <=>
              /\ Creates(OpAt(p, r, a.done[r])) /\ OpAt(p, r, a.done[r]).to \in Routines
              /\ a.self[OpAt(p, r, a.done[r]).to] = t
<1> DEFINE op == OpAt(p, r, a.done[r])
<1>1. a.done[r] \in Nat /\ a.self \in [Routines -> 0..a.made] /\ a.made \in Nat
  BY DEF Sound
<1>2. /\ op.type \in Kinds(p) /\ op.to \in Routines \cup {Nobody}
      /\ Creates(op) => op.to \in Routines
  BY <1>1, OpAtIs
<1>3. Announced(p, a, r) = [tid |-> a.self[r], type |-> op.type, obj |-> Id(a, op.to)]
  BY DEF Announced, Transition
<1>4. Id(a, op.to) \in Nat /\ (op.to \in Routines => Id(a, op.to) = a.self[op.to])
  BY <1>1, <1>2, RoutinesAssumption DEF Id
<1>5. a.self[r] \in Nat
  BY <1>1
<1>6. \A t : MakesThread(Announced(p, a, r), t) <=> Creates(op) /\ op.to \in Routines /\ a.self[op.to] = t
  BY <1>2, <1>3, <1>4 DEF MakesThread, Creates
<1> QED BY <1>2, <1>3, <1>4, <1>5, <1>6 DEF Transitions

\* No transition is one of a thread that is not born after it.
LEMMA RanOfBorn ==
  ASSUME NEW p \in Programs, NEW s, NEW h, Chronicle(p, s, h), Len(s) \in Nat,
         NEW k \in 0..Len(s), NEW t \in Nat, t > h[k].made
  PROVE  Ran(s, t, k) = {}
<1> SUFFICES ASSUME NEW i \in 1..k, s[i].tid = t PROVE FALSE
  BY DEF Ran
<1>1. i \in 1..Len(s) /\ i - 1 \in 0..Len(s) /\ i - 1 \in 0..k /\ i \in Nat /\ k \in Nat
  OBVIOUS
<1>2. PICK r \in Routines : s[i] = Announced(p, h[i - 1], r)
  BY <1>1 DEF Chronicle, WentOn
<1>3. Sound(p, h[i - 1]) /\ Sound(p, h[k]) /\ Grown(h[i - 1], h[k])
  BY <1>1 DEF Chronicle
<1>4. t = h[i - 1].self[r]
  BY <1>2, <1>3, AnnouncedIs
<1>5. h[i - 1].self[r] <= h[i - 1].made /\ h[i - 1].made \in Nat /\ h[k].made \in Nat
  BY <1>3 DEF Sound
<1>6. h[i - 1].made <= h[k].made
  BY <1>3 DEF Grown
<1>7. h[i - 1].self[r] \in Nat
  BY <1>3 DEF Sound
<1> QED BY <1>4, <1>5, <1>6, <1>7

\* Transitions that agree up to k count the same.
LEMMA SameCounted ==
  ASSUME NEW p, NEW s, NEW u, NEW a, NEW k \in Nat, \A i \in 1..k : s[i] = u[i], Counted(p, s, a, k)
  PROVE  Counted(p, u, a, k)
<1>1. ASSUME NEW t PROVE Ran(u, t, k) = Ran(s, t, k) /\ \A j \in Ran(s, t, k) : u[j] = s[j]
  BY SameRan DEF Ran
<1> SUFFICES ASSUME NEW r \in Routines, a.self[r] # 0
             PROVE  /\ a.done[r] = Cardinality(Ran(u, a.self[r], k))
                    /\ a.done[r] = Len(Ops(p, r)) => \E j \in Ran(u, a.self[r], k) : u[j].type = "finish"
  BY DEF Counted
<1>2. /\ a.done[r] = Cardinality(Ran(s, a.self[r], k))
      /\ a.done[r] = Len(Ops(p, r)) => \E j \in Ran(s, a.self[r], k) : s[j].type = "finish"
  BY DEF Counted
<1> QED BY <1>1, <1>2

\* A run of the program cut short is one.
LEMMA ChroniclePrefix ==
  ASSUME NEW p \in Programs, NEW s \in Seq(Transitions(p)), NEW h, Chronicle(p, s, h), NEW k \in 0..Len(s)
  PROVE  /\ SubSeq(s, 1, k) \in Seq(Transitions(p)) /\ Len(SubSeq(s, 1, k)) = k
         /\ \A i \in 1..k : SubSeq(s, 1, k)[i] = s[i]
         /\ Chronicle(p, SubSeq(s, 1, k), h)
<1> DEFINE u == SubSeq(s, 1, k)
<1>1. Len(s) \in Nat /\ k \in Nat
  OBVIOUS
<1>2. u \in Seq(Transitions(p)) /\ Len(u) = k /\ \A i \in 1..k : u[i] = s[i]
  BY <1>1
<1> HIDE DEF u
<1>3. \A i \in 1..k : i \in 1..Len(s)
  BY <1>1
<1>4. \A i \in 0..k : i \in 0..Len(s) /\ i \in Nat
  BY <1>1
<1>5. \A i \in 1..k : WentOn(p, u, h, i)
  BY <1>2, <1>3 DEF Chronicle, WentOn
<1>6. ASSUME NEW i \in 0..k PROVE Counted(p, u, h[i], i)
  <2>1. i \in Nat /\ Counted(p, s, h[i], i)
    BY <1>4 DEF Chronicle
  <2>2. \A j \in 1..i : j \in 1..k
    BY <1>1
  <2> QED BY <2>1, <2>2, <1>2, SameCounted
<1>7. Chronicle(p, u, h)
  BY <1>2, <1>4, <1>5, <1>6 DEF Chronicle
<1> QED BY <1>2, <1>7 DEF u

\* Growing is transitive.
LEMMA GrownGrows ==
  ASSUME NEW p, NEW a, NEW b, NEW c, Sound(p, a), Sound(p, b), Sound(p, c), Grown(a, b), Grown(b, c)
  PROVE  Grown(a, c)
<1>1. a.made \in Nat /\ b.made \in Nat /\ c.made \in Nat
  BY DEF Sound
<1>2. \A r \in Routines : a.done[r] \in Nat /\ b.done[r] \in Nat /\ c.done[r] \in Nat
  BY DEF Sound
<1> QED BY <1>1, <1>2 DEF Grown

\* Not to grow is to grow too.
LEMMA GrownSelf == ASSUME NEW p, NEW a, Sound(p, a) PROVE Grown(a, a)
  BY DEF Sound, Grown

\* The history of a run that went on by one transition of routine r.
Longer(p, s, h, r) ==
    [k \in 0..(Len(s) + 1) |-> IF k <= Len(s) THEN h[k] ELSE Onward(p, h[Len(s)], r)]

\* The stack counts the operations of each thread after one more.
LEMMA CountedOnward ==
  ASSUME NEW p \in Programs, NEW s \in Seq(Transitions(p)), NEW h, Chronicle(p, s, h),
         NEW r \in Routines, CanGo(p, h[Len(s)], r),
         NEW u, \A i \in 1..Len(s) : u[i] = s[i], u[Len(s) + 1] = Announced(p, h[Len(s)], r)
  PROVE  Counted(p, u, Onward(p, h[Len(s)], r), Len(s) + 1)
<1> DEFINE k == Len(s)
           a == h[k]
<1>1. k \in Nat /\ k \in 0..k
  OBVIOUS
<1>2. Sound(p, a) /\ Counted(p, s, a, k) /\ CanGo(p, a, r)
  BY <1>1 DEF Chronicle
<1>15. \A t \in Nat : t > a.made => Ran(s, t, k) = {}
  BY <1>1, RanOfBorn
<1>16. (\A i \in 1..k : u[i] = s[i]) /\ u[k + 1] = Announced(p, a, r)
  OBVIOUS
<1> HIDE DEF a, k
<1> DEFINE b == Onward(p, a, r)
           op == OpAt(p, r, a.done[r] + 1)
<1>3. Counted(p, u, a, k)
  BY <1>1, <1>2, <1>16, SameCounted
<1>4. /\ \A q \in Routines : b.done[q] = IF q = r THEN a.done[r] + 1 ELSE a.done[q]
      /\ \A q \in Routines : b.self[q] = IF Creates(op) /\ q = op.to THEN a.made + 1 ELSE a.self[q]
      /\ Creates(op) => op.to \in Routines /\ op.to # r /\ a.self[op.to] = 0
  BY <1>2, OnwardIs
<1>5. /\ a.made \in Nat /\ a.self \in [Routines -> 0..a.made]
      /\ \A q, x \in Routines : a.self[q] = a.self[x] /\ a.self[q] # 0 => q = x
      /\ \A q \in Routines : a.self[q] = 0 => a.done[q] = 0
      /\ \A q \in Routines : a.done[q] \in Nat
  BY <1>2 DEF Sound
<1>6. u[k + 1].tid = a.self[r] /\ u[k + 1].type = OpAt(p, r, a.done[r]).type
  BY <1>2, <1>16, AnnouncedIs
<1>7. a.self[r] # 0 /\ a.done[r] < Len(Ops(p, r)) /\ Len(Ops(p, r)) \in Nat
  BY <1>2, OpsAre DEF CanGo
<1>8. ASSUME NEW t, a.self[r] # t PROVE Ran(u, t, k + 1) = Ran(u, t, k)
  BY <1>1, <1>6, <1>8, NextRan
<1>9. Ran(u, a.self[r], k + 1) = Ran(u, a.self[r], k) \cup {k + 1}
  BY <1>1, <1>6, NextRan
<1>10. Cardinality(Ran(u, a.self[r], k + 1)) = Cardinality(Ran(u, a.self[r], k)) + 1
  BY <1>1, <1>6, NextRanCount
<1>11. Ran(u, a.made + 1, k) = {}
  <2>1. Ran(s, a.made + 1, k) = {}
    BY <1>5, <1>15
  <2> QED BY <2>1, <1>1, <1>16, SameRan
<1> HIDE DEF b, op
<1> SUFFICES ASSUME NEW q \in Routines, b.self[q] # 0
             PROVE  /\ b.done[q] = Cardinality(Ran(u, b.self[q], k + 1))
                    /\ b.done[q] = Len(Ops(p, q)) => \E j \in Ran(u, b.self[q], k + 1) : u[j].type = "finish"
  BY DEF Counted, a, k, b
<1>12. CASE q = r
  <2>1. b.self[q] = a.self[r] /\ b.done[q] = a.done[r] + 1
    BY <1>12, <1>4
  <2>2. a.done[r] = Cardinality(Ran(u, a.self[r], k))
    BY <1>3, <1>7 DEF Counted
  <2>3. ASSUME b.done[q] = Len(Ops(p, q)) PROVE u[k + 1].type = "finish"
    <3>1. a.done[r] \in Nat /\ a.done[r] + 1 >= Len(Ops(p, r))
      BY <2>1, <2>3, <1>5, <1>7, <1>12
    <3> QED BY <3>1, <1>6, OpAtIs
  <2> QED BY <2>1, <2>2, <2>3, <1>9, <1>10, <1>12
<1>13. CASE Creates(op) /\ q = op.to
  <2>1. b.self[q] = a.made + 1 /\ b.done[q] = 0
    BY <1>13, <1>4, <1>5
  <2>2. a.self[r] # a.made + 1
    BY <1>5
  <2>3. Ran(u, a.made + 1, k + 1) = {}
    BY <2>2, <1>8, <1>11
  <2>4. Len(Ops(p, q)) # 0
    BY OpsAre
  <2> QED BY <2>1, <2>3, <2>4, FS_EmptySet
<1>14. CASE q # r /\ ~(Creates(op) /\ q = op.to)
  <2>1. b.self[q] = a.self[q] /\ b.done[q] = a.done[q]
    BY <1>14, <1>4
  <2>2. a.self[q] # 0 /\ a.self[q] # a.self[r]
    BY <2>1, <1>5, <1>14
  <2>3. Ran(u, a.self[q], k + 1) = Ran(u, a.self[q], k)
    BY <2>2, <1>8
  <2> QED BY <2>1, <2>2, <2>3, <1>3 DEF Counted
<1> QED BY <1>12, <1>13, <1>14

\* A run of the program goes on.
LEMMA ChronicleGrows ==
  ASSUME NEW p \in Programs, NEW s \in Seq(Transitions(p)), NEW h, Chronicle(p, s, h),
         NEW r \in Routines, CanGo(p, h[Len(s)], r), NEW u, NEW g,
         u = Append(s, Announced(p, h[Len(s)], r)), g = Longer(p, s, h, r)
  PROVE  /\ u \in Seq(Transitions(p)) /\ Len(u) = Len(s) + 1
         /\ u[Len(s) + 1] = Announced(p, h[Len(s)], r) /\ \A i \in 1..Len(s) : u[i] = s[i]
         /\ \A k \in 0..Len(s) : g[k] = h[k]
         /\ g[Len(s) + 1] = Onward(p, h[Len(s)], r)
         /\ Chronicle(p, u, g)
<1> DEFINE k == Len(s)
           a == h[k]
           b == Onward(p, a, r)
           tr == Announced(p, a, r)
<1>1. k \in Nat
  OBVIOUS
<1>2. Sound(p, a) /\ OneCreator(p, a)
  BY <1>1 DEF Chronicle
<1>3. tr \in Transitions(p)
  BY <1>2, AnnouncedIs
<1>4. Sound(p, b) /\ OneCreator(p, b) /\ Grown(a, b) /\ Grown(b, b)
  BY <1>2, OnwardSound, OnwardGrows, OnwardOneCreator, GrownSelf
<1>5. /\ u \in Seq(Transitions(p)) /\ Len(u) = k + 1
      /\ u[k + 1] = tr /\ \A i \in 1..k : u[i] = s[i]
  <2>1. u = Append(s, tr)
    OBVIOUS
  <2> HIDE DEF tr
  <2> QED BY <1>3, <2>1
<1>6. Counted(p, u, b, k + 1)
  BY <1>5, CountedOnward
<1>7. /\ \A i \in 0..k : g[i] = h[i]
      /\ g[k + 1] = b
  BY <1>1 DEF Longer
<1> HIDE DEF a, b, tr, k
<1>8. \A i \in 0..(k + 1) : i \in 0..k \/ i = k + 1
  BY <1>1
<1>9. ASSUME NEW i \in 1..(k + 1) PROVE WentOn(p, u, g, i)
  <2>1. CASE i = k + 1
    <3>1. g[i - 1] = a /\ g[i] = b /\ u[i] = tr /\ CanGo(p, a, r)
      BY <2>1, <1>1, <1>5, <1>7 DEF a, k
    <3> QED BY <3>1 DEF WentOn, b, tr
  <2>2. CASE i # k + 1
    <3>1. i \in 1..k /\ i - 1 \in 0..k /\ i \in 0..k
      BY <2>2, <1>1
    <3>2. WentOn(p, s, h, i)
      BY <3>1 DEF Chronicle, k
    <3>3. g[i - 1] = h[i - 1] /\ g[i] = h[i] /\ u[i] = s[i]
      BY <3>1, <1>5, <1>7
    <3> QED BY <3>2, <3>3 DEF WentOn
  <2> QED BY <2>1, <2>2
<1>10. ASSUME NEW i \in 0..(k + 1)
       PROVE  Sound(p, g[i]) /\ OneCreator(p, g[i]) /\ Counted(p, u, g[i], i)
  <2>1. CASE i = k + 1
    BY <2>1, <1>4, <1>6, <1>7
  <2>2. CASE i \in 0..k
    <3>1. Sound(p, h[i]) /\ OneCreator(p, h[i]) /\ Counted(p, s, h[i], i)
      BY <2>2 DEF Chronicle, k
    <3>2. i \in Nat /\ \A j \in 1..i : u[j] = s[j]
      BY <2>2, <1>1, <1>5
    <3>3. Counted(p, u, h[i], i)
      BY <3>1, <3>2, SameCounted
    <3> QED BY <2>2, <3>1, <3>3, <1>7
  <2> QED BY <2>1, <2>2, <1>8
<1>11. ASSUME NEW i \in 0..(k + 1), NEW j \in 0..i PROVE Grown(g[j], g[i])
  <2>1. CASE i \in 0..k
    <3>1. j \in 0..k /\ Grown(h[j], h[i])
      BY <2>1, <1>1 DEF Chronicle, k
    <3> QED BY <2>1, <3>1, <1>7
  <2>2. CASE i = k + 1 /\ j = k + 1
    BY <2>2, <1>4, <1>7
  <2>3. CASE i = k + 1 /\ j \in 0..k
    <3>1. Grown(h[j], a) /\ Sound(p, h[j])
      BY <2>3, <1>1 DEF Chronicle, k, a
    <3>2. Grown(h[j], b)
      BY <3>1, <1>2, <1>4, GrownGrows
    <3> QED BY <2>3, <3>2, <1>7
  <2>4. j \in 0..(k + 1)
    BY <1>1
  <2> QED BY <2>1, <2>2, <2>3, <2>4, <1>8
<1>12. g[0] = Begun
  BY <1>1, <1>7 DEF Chronicle
<1>13. Chronicle(p, u, g)
  BY <1>5, <1>9, <1>10, <1>11, <1>12 DEF Chronicle
<1> QED BY <1>5, <1>7, <1>13 DEF a, b, tr, k

-----------------------------------------------------------------------------
(* Who is created, and by whom.                                            *)

\* What one transition of a run was.
LEMMA TransitionWas ==
  ASSUME NEW p \in Programs, NEW s, NEW h, Chronicle(p, s, h), Len(s) \in Nat,
         NEW i \in 1..Len(s)
  PROVE  /\ Sound(p, h[i - 1]) /\ OneCreator(p, h[i - 1]) /\ Counted(p, s, h[i - 1], i - 1)
         /\ Sound(p, h[i]) /\ Grown(h[i - 1], h[i])
         /\ \A k \in i..Len(s) : Grown(h[i - 1], h[k]) /\ Grown(h[i], h[k])
         /\ \E q \in Routines :
              /\ CanGo(p, h[i - 1], q) /\ s[i] = Announced(p, h[i - 1], q)
              /\ s[i].tid = h[i - 1].self[q] /\ h[i].done[q] = h[i - 1].done[q] + 1
<1>1. i \in 0..Len(s) /\ i - 1 \in 0..Len(s) /\ i - 1 \in 0..i /\ i \in Nat
  OBVIOUS
<1>2. /\ Sound(p, h[i - 1]) /\ OneCreator(p, h[i - 1]) /\ Counted(p, s, h[i - 1], i - 1)
      /\ Sound(p, h[i]) /\ Grown(h[i - 1], h[i])
  BY <1>1 DEF Chronicle
<1>3. ASSUME NEW k \in i..Len(s) PROVE Grown(h[i - 1], h[k]) /\ Grown(h[i], h[k])
  <2>1. k \in 0..Len(s) /\ i \in 0..k /\ i - 1 \in 0..k
    BY <1>1
  <2> QED BY <2>1 DEF Chronicle
<1>4. PICK q \in Routines : /\ CanGo(p, h[i - 1], q) /\ s[i] = Announced(p, h[i - 1], q)
                            /\ h[i] = Onward(p, h[i - 1], q)
  BY DEF Chronicle, WentOn
<1>5. s[i].tid = h[i - 1].self[q]
  BY <1>2, <1>4, AnnouncedIs
<1>6. h[i].done[q] = h[i - 1].done[q] + 1
  BY <1>2, <1>4, OnwardIs
<1> QED BY <1>2, <1>3, <1>4, <1>5, <1>6

\* A thread is created once: the one that routine r stopped at creating was not made before.
LEMMA NotMadeYet ==
  ASSUME NEW p \in Programs, NEW s, NEW h, Chronicle(p, s, h), Len(s) \in Nat,
         NEW r \in Routines, NEW a, a = h[Len(s)], a.self[r] # 0, a.done[r] < Len(Ops(p, r)),
         Creates(OpAt(p, r, a.done[r])), NEW i \in 1..Len(s)
  PROVE  ~MakesThread(s[i], a.self[OpAt(p, r, a.done[r]).to])
<1> DEFINE op == OpAt(p, r, a.done[r])
           b == h[i - 1]
<1> SUFFICES ASSUME MakesThread(s[i], a.self[op.to]) PROVE FALSE
  OBVIOUS
<1>1. Sound(p, a) /\ OneCreator(p, a) /\ Len(s) \in i..Len(s) /\ i \in Nat
  BY DEF Chronicle
<1>2. /\ Sound(p, b) /\ OneCreator(p, b) /\ Grown(b, a) /\ Grown(h[i], a)
      /\ \E q \in Routines : /\ CanGo(p, b, q) /\ s[i] = Announced(p, b, q)
                             /\ h[i].done[q] = b.done[q] + 1
  BY <1>1, TransitionWas
<1> HIDE DEF b
<1>3. PICK q \in Routines : /\ CanGo(p, b, q) /\ s[i] = Announced(p, b, q)
                            /\ h[i].done[q] = b.done[q] + 1
  BY <1>2
<1> DEFINE oq == OpAt(p, q, b.done[q])
<1>4. Creates(oq) /\ oq.to \in Routines /\ b.self[oq.to] = a.self[op.to]
  <2>1. MakesThread(Announced(p, b, q), a.self[op.to]) /\ Sound(p, b)
    BY <1>2, <1>3
  <2> HIDE DEF op
  <2> QED BY ONLY <2>1, p \in Programs, q \in Routines, AnnouncedIs
<1>5. /\ b.done[q] \in Nat /\ a.done[r] \in Nat /\ a.done[q] \in Nat
      /\ \A x, y \in Routines : a.self[x] = a.self[y] /\ a.self[x] # 0 => x = y
  BY <1>1, <1>2 DEF Sound
<1>6. b.self[q] # 0 /\ b.done[q] < Len(Ops(p, q)) /\ Len(Ops(p, q)) \in Nat /\ Len(Ops(p, r)) \in Nat
  BY <1>3, OpsAre DEF CanGo
<1>7. /\ oq = Ops(p, q)[b.done[q] + 1] /\ op = Ops(p, r)[a.done[r] + 1]
      /\ op.to \in Routines
  <2>1. OpAt(p, q, b.done[q]) = Ops(p, q)[b.done[q] + 1]
    BY ONLY <1>5, <1>6 DEF OpAt
  <2>2. OpAt(p, r, a.done[r]) = Ops(p, r)[a.done[r] + 1]
    BY ONLY a.done[r] < Len(Ops(p, r)) DEF OpAt
  <2>3. Creates(OpAt(p, r, a.done[r])) /\ a.done[r] \in Nat
    BY <1>5
  <2>4. op.to \in Routines
    BY ONLY <2>3, p \in Programs, r \in Routines, OpAtIs
  <2> QED BY <2>1, <2>2, <2>4
<1>8. a.self[q] # 0 /\ b.done[q] + 1 <= a.done[q]
  BY <1>2, <1>3, <1>6 DEF Grown
<1>9. /\ b.done[q] + 1 \in 1..Len(Ops(p, q)) /\ a.done[r] + 1 \in 1..Len(Ops(p, r))
  <2>1. b.done[q] + 1 \in 1..Len(Ops(p, q))
    BY ONLY <1>5, <1>6
  <2>2. \A m, n \in Nat : m < n => m + 1 \in 1..n
    OBVIOUS
  <2>3. a.done[r] \in Nat /\ Len(Ops(p, r)) \in Nat /\ a.done[r] < Len(Ops(p, r))
    BY <1>5, <1>6
  <2>4. a.done[r] + 1 \in 1..Len(Ops(p, r))
    BY ONLY <2>2, <2>3
  <2> QED BY <2>1, <2>4
<1>10. Arrived(p, b, q, b.done[q] + 1) /\ Arrived(p, a, q, b.done[q] + 1) /\ Arrived(p, a, r, a.done[r] + 1)
  <2>1. a.self[r] # 0 /\ b.done[q] + 1 <= b.done[q] + 1 /\ a.done[r] + 1 <= a.done[r] + 1
    BY <1>5
  <2>2. b.done[q] + 1 <= a.done[q] + 1
    BY ONLY <1>5, <1>8
  <2> QED BY ONLY <2>1, <2>2, <1>6, <1>8, <1>9 DEF Arrived
<1> HIDE DEF op, oq
<1>11. b.self[oq.to] # 0
  BY <1>2, <1>4, <1>7, <1>9, <1>10, RoutinesAssumption DEF OneCreator
<1>12. a.self[oq.to] = a.self[op.to] /\ a.self[oq.to] # 0
  BY <1>2, <1>4, <1>11 DEF Grown
<1>13. oq.to = op.to
  BY <1>4, <1>5, <1>7, <1>12
<1>14. Creates(op)
  BY DEF op
<1>15. q = r /\ b.done[q] + 1 = a.done[r] + 1
  BY <1>1, <1>4, <1>7, <1>9, <1>10, <1>13, <1>14 DEF OneCreator
<1> QED BY <1>5, <1>8, <1>15

\* The thread a routine is about to create is not the main thread.
LEMMA NotMain ==
  ASSUME NEW p \in Programs, NEW a, Sound(p, a), OneCreator(p, a), NEW r \in Routines,
         a.self[r] # 0, a.done[r] < Len(Ops(p, r)), Creates(OpAt(p, r, a.done[r]))
  PROVE  OpAt(p, r, a.done[r]).to \in Routines /\ a.self[OpAt(p, r, a.done[r]).to] \notin {0, 1}
<1> DEFINE op == OpAt(p, r, a.done[r])
<1>1. /\ a.done[r] \in Nat /\ Len(Ops(p, r)) \in Nat /\ a.self[Main] = 1 /\ Main \in Routines
      /\ \A x, y \in Routines : a.self[x] = a.self[y] /\ a.self[x] # 0 => x = y
  BY OpsAre, RoutinesAssumption DEF Sound
<1>2. op = Ops(p, r)[a.done[r] + 1] /\ op.to \in Routines
  <2>1. a.done[r] \in Nat /\ a.done[r] < Len(Ops(p, r)) /\ Creates(op)
    BY <1>1
  <2>2. op = Ops(p, r)[a.done[r] + 1]
    BY ONLY <2>1, p \in Programs, r \in Routines, OpAtIs
  <2>3. op.to \in Routines
    BY ONLY <2>1, p \in Programs, r \in Routines, OpAtIs
  <2> QED BY <2>2, <2>3
<1>3. a.done[r] + 1 \in 1..Len(Ops(p, r))
  BY <1>1
<1>4. Arrived(p, a, r, a.done[r] + 1)
  BY <1>1, <1>3 DEF Arrived
<1>5. Creates(op)
  OBVIOUS
<1> HIDE DEF op
<1>6. op.to # Main /\ a.self[op.to] # 0
  BY <1>2, <1>3, <1>4, <1>5, RoutinesAssumption DEF OneCreator
<1>7. a.self[op.to] # 1
  BY <1>1, <1>2, <1>6
<1> QED BY <1>2, <1>6, <1>7 DEF op

\* The scheduler only runs threads that were created and did not finish.
LEMMA CreatedFirstGrows ==
  ASSUME NEW p \in Programs, NEW s \in Seq(Transitions(p)), NEW h, Chronicle(p, s, h), CreatedFirst(s),
         NEW r \in Routines, NEW a, a = h[Len(s)], CanGo(p, a, r), a.self[r] \in Alive(s),
         NEW u, Len(u) = Len(s) + 1, \A i \in 1..Len(s) : u[i] = s[i],
         u[Len(s) + 1] = Announced(p, a, r)
  PROVE  CreatedFirst(u)
<1> DEFINE k == Len(s)
           op == OpAt(p, r, a.done[r])
           me == a.self[r]
<1>1. k \in Nat /\ Sound(p, a) /\ OneCreator(p, a)
  BY DEF Chronicle
<1>2. me # 0 /\ a.done[r] < Len(Ops(p, r))
  BY DEF CanGo
<1>3. u[k + 1].tid = me /\ \A t : MakesThread(u[k + 1], t) => Creates(op) /\ a.self[op.to] = t
  BY <1>1, AnnouncedIs
<1>4. ASSUME me # 1 PROVE \E i \in 1..k : MakesThread(s[i], me)
  <2>1. PICK i \in 0..k : IF i = 0 THEN me = 1 ELSE s[i].type \in {"create", "createWithAttr"} /\ s[i].obj = me
    BY DEF Alive
  <2>2. i \in 1..k
    BY <1>1, <1>4, <2>1
  <2> QED BY <1>4, <2>1, <2>2 DEF MakesThread
<1>5. ASSUME Creates(op), NEW i \in 1..k PROVE ~MakesThread(s[i], a.self[op.to])
  BY <1>1, <1>2, <1>5, NotMadeYet
<1>6. ASSUME Creates(op) PROVE a.self[op.to] # 1
  BY <1>1, <1>2, <1>6, NotMain
<1> HIDE DEF k, op, me
<1>7. Len(u) = k + 1 /\ \A i \in 1..k : u[i] = s[i]
  BY DEF k
<1>8. ASSUME NEW j \in 1..(k + 1), u[j].tid # 1 PROVE \E i \in 1..(j - 1) : MakesThread(u[i], u[j].tid)
  <2>1. CASE j = k + 1
    <3>1. PICK i \in 1..k : MakesThread(s[i], me)
      BY <2>1, <1>3, <1>4, <1>8
    <3>2. i \in 1..(j - 1) /\ u[i] = s[i]
      BY <2>1, <3>1, <1>1, <1>7
    <3> QED BY <2>1, <3>1, <3>2, <1>3
  <2>2. CASE j # k + 1
    <3>1. j \in 1..k /\ u[j] = s[j]
      BY <2>2, <1>1, <1>7
    <3>2. PICK i \in 1..(j - 1) : MakesThread(s[i], s[j].tid)
      BY <3>1, <1>8 DEF CreatedFirst, k
    <3>3. u[i] = s[i]
      BY <3>1, <1>1, <1>7
    <3> QED BY <3>1, <3>2, <3>3
  <2> QED BY <2>1, <2>2
<1>9. ASSUME NEW i \in 1..(k + 1), NEW j \in 1..i PROVE ~MakesThread(u[i], u[j].tid)
  <2>1. CASE i = k + 1
    <3> SUFFICES ASSUME MakesThread(u[i], u[j].tid) PROVE FALSE
      OBVIOUS
    <3>1. Creates(op) /\ a.self[op.to] = u[j].tid
      BY <2>1, <1>3
    <3>2. u[j].tid # 1
      BY <3>1, <1>6
    <3>3. j \in 1..(k + 1)
      BY <2>1
    <3>4. PICK n \in 1..(j - 1) : MakesThread(u[n], u[j].tid)
      BY <3>2, <3>3, <1>8
    <3>5. n \in 1..k
      BY <3>3, <1>1
    <3>6. MakesThread(s[n], a.self[op.to])
      BY <3>1, <3>4, <3>5, <1>7
    <3> QED BY <3>1, <3>5, <3>6, <1>5
  <2>2. CASE i # k + 1
    <3>1. i \in 1..k /\ u[i] = s[i] /\ j \in 1..k /\ u[j] = s[j]
      BY <2>2, <1>1, <1>7
    <3> QED BY <3>1 DEF CreatedFirst, k
  <2> QED BY <2>1, <2>2
<1> QED BY <1>7, <1>8, <1>9 DEF CreatedFirst

\* The same when the stack is cut short.
LEMMA CreatedFirstPrefix ==
  ASSUME NEW s, NEW u, Len(s) \in Nat, CreatedFirst(s), Len(u) \in 0..Len(s), \A i \in 1..Len(u) : u[i] = s[i]
  PROVE  CreatedFirst(u)
<1>1. Len(u) \in Nat /\ \A i \in 1..Len(u) : i \in 1..Len(s)
  OBVIOUS
<1>2. \A j \in 1..Len(u) : \A i \in 1..(j - 1) : i \in 1..Len(u)
  BY <1>1
<1>3. \A i \in 1..Len(u) : \A j \in 1..i : j \in 1..Len(u)
  BY <1>1
<1> QED BY <1>1, <1>2, <1>3 DEF CreatedFirst

\* A thread the scheduler takes for alive is a thread of the trace that did not finish.
LEMMA AliveRuns ==
  ASSUME NEW p \in Programs, NEW s, NEW h, Chronicle(p, s, h), Len(s) \in Nat, CreatedFirst(s),
         NEW t \in Alive(s)
  PROVE  \E r \in Routines : /\ h[Len(s)].self[r] = t /\ t # 0
                             /\ h[Len(s)].done[r] < Len(Ops(p, r))
<1> DEFINE k == Len(s)
           a == h[k]
<1>1. PICK i \in 0..k :
        /\ IF i = 0 THEN t = 1 ELSE s[i].type \in {"create", "createWithAttr"} /\ s[i].obj = t
        /\ \A j \in (i + 1)..k : ~(s[j].type = "finish" /\ s[j].tid = t)
  BY DEF Alive
<1>2. t \in Nat \ {0}
  BY DEF Alive
<1>3. k \in Nat /\ k \in 0..k /\ i \in Nat
  OBVIOUS
<1>4. Sound(p, a) /\ Counted(p, s, a, k)
  BY <1>3 DEF Chronicle
<1>5. \E r \in Routines : a.self[r] = t
  <2>1. CASE i = 0
    BY <2>1, <1>1, <1>4, RoutinesAssumption DEF Sound
  <2>2. CASE i # 0
    <3>1. i \in 1..k /\ k \in i..k
      BY <2>2, <1>3
    <3>2. /\ Sound(p, h[i - 1]) /\ Grown(h[i - 1], a)
          /\ \E q \in Routines : s[i] = Announced(p, h[i - 1], q)
      BY <3>1, TransitionWas
    <3>3. MakesThread(s[i], t)
      BY <2>2, <1>1 DEF MakesThread
    <3>4. \E r \in Routines : h[i - 1].self[r] = t
      BY <3>2, <3>3, AnnouncedIs
    <3> QED BY <3>2, <3>4, <1>2 DEF Grown
  <2> QED BY <2>1, <2>2
<1>6. PICK r \in Routines : a.self[r] = t
  BY <1>5
<1>7. a.done[r] # Len(Ops(p, r))
  <2> SUFFICES ASSUME a.done[r] = Len(Ops(p, r)) PROVE FALSE
    OBVIOUS
  <2>1. PICK j \in Ran(s, t, k) : s[j].type = "finish"
    BY <1>2, <1>4, <1>6 DEF Counted
  <2>2. j \in 1..k /\ s[j].tid = t
    BY <2>1 DEF Ran
  <2>3. j \notin (i + 1)..k
    BY <1>1, <2>1, <2>2
  <2>4. i \in 1..k /\ j \in 1..i
    BY <2>2, <2>3, <1>3
  <2>5. MakesThread(s[i], s[j].tid)
    BY <2>2, <2>4, <1>1 DEF MakesThread
  <2> QED BY <2>4, <2>5 DEF CreatedFirst
<1>8. a.done[r] \in Nat /\ a.done[r] <= Len(Ops(p, r)) /\ Len(Ops(p, r)) \in Nat
  BY <1>4, OpsAre DEF Sound
<1> QED BY <1>2, <1>6, <1>7, <1>8

-----------------------------------------------------------------------------
(* What the scheduler knows.                                               *)

\* What a thread announced is about the same thread for as long as it does not go on.
LEMMA SameAnnounced ==
  ASSUME NEW p \in Programs, NEW a, NEW b, Sound(p, a), OneCreator(p, a), Grown(a, b),
         NEW r \in Routines, a.self[r] # 0, b.done[r] = a.done[r]
  PROVE  Announced(p, b, r) = Announced(p, a, r)
<1> DEFINE n == a.done[r]
           op == OpAt(p, r, n)
<1>1. n \in Nat /\ Len(Ops(p, r)) \in Nat
  BY OpsAre DEF Sound
<1>2. /\ op.to \in Routines \cup {Nobody}
      /\ n + 1 >= Len(Ops(p, r)) => op = Finish
      /\ n < Len(Ops(p, r)) => op = Ops(p, r)[n + 1]
  BY <1>1, OpAtIs
<1>3. b.self[r] = a.self[r]
  BY DEF Grown
<1>4. ASSUME op.to # Nobody PROVE a.self[op.to] # 0
  <2> HIDE DEF op
  <2>1. n + 1 < Len(Ops(p, r))
    BY <1>1, <1>2, <1>4, CreatesNoFinish
  <2>2. op = Ops(p, r)[n + 1] /\ n + 1 \in 1..Len(Ops(p, r))
    BY <1>1, <1>2, <2>1
  <2>3. Arrived(p, a, r, n + 1)
    BY <2>2, <1>1 DEF Arrived
  <2> QED BY <2>2, <2>3, <1>4 DEF OneCreator
<1>5. Id(b, op.to) = Id(a, op.to)
  BY <1>2, <1>4 DEF Id, Grown
<1>6. Announced(p, a, r) = Transition(a.self[r], op.type, Id(a, op.to))
  BY DEF Announced
<1>7. Announced(p, b, r) = Transition(b.self[r], op.type, Id(b, op.to))
  BY DEF Announced
<1> QED BY <1>3, <1>5, <1>6, <1>7

\* What a thread announces before it has begun.
LEMMA StartAnnounced ==
  ASSUME NEW p \in Programs, NEW a, NEW r \in Routines, a.done[r] = 0
  PROVE  Announced(p, a, r) = Transition(a.self[r], "start", 0)
<1>1. OpAt(p, r, 0) = Start
  BY OpAtIs
<1> QED BY <1>1 DEF Announced, Id, Start, Operation

\* A start is a transition of every program.
LEMMA StartKind == ASSUME NEW p, NEW t \in Nat PROVE Transition(t, "start", 0) \in Transitions(p)
  BY DEF Transition, Transitions, Kinds

\* What the scheduler makes of what routine r posts when it has gone on: an id not seen before
\* is that of a new thread.
Told(nexts, t, tr) == [nexts EXCEPT ![t] = tr]
WithNew(ids, id) == IF id = Len(ids) + 1 THEN Append(ids, id) ELSE ids
WithStart(nexts, ids, id) ==
    IF id = Len(ids) + 1 THEN Append(nexts, Transition(id, "start", 0)) ELSE nexts

LearntBy(p, a, r, b, op, id, read, ids, nexts, ids2, nexts2) ==
    /\ b = Onward(p, a, r) /\ op = OpAt(p, r, a.done[r] + 1) /\ id = Id(b, op.to)
    /\ read = Told(nexts, a.self[r], Transition(b.self[r], op.type, id))
    /\ ids2 = WithNew(ids, id) /\ nexts2 = WithStart(read, ids, id)

Learnt(p, a, r, ids, nexts, ids2, nexts2) ==
    \E b, op, id, read : LearntBy(p, a, r, b, op, id, read, ids, nexts, ids2, nexts2)

OneMore(s, h, u, g, b) ==
    /\ Len(u) = Len(s) + 1 /\ g[Len(s) + 1] = b
    /\ \A k \in 0..Len(s) : g[k] = h[k]

\* It learns the next operation of the thread that stopped, and of the thread that creates.
LEMMA KnowsNextGrows ==
  ASSUME NEW p \in Programs, NEW s \in Seq(Transitions(p)), NEW h, Chronicle(p, s, h),
         NEW ids, NEW nexts, KnowsNext(p, s, h, ids, nexts),
         NEW r \in Routines, NEW a, a = h[Len(s)], CanGo(p, a, r),
         NEW b, NEW op, NEW id, NEW read, NEW ids2, NEW nexts2,
         LearntBy(p, a, r, b, op, id, read, ids, nexts, ids2, nexts2),
         NEW u, NEW g, OneMore(s, h, u, g, b)
  PROVE  KnowsNext(p, u, g, ids2, nexts2)
<1> b = Onward(p, a, r) /\ op = OpAt(p, r, a.done[r] + 1) /\ id = Id(b, op.to)
  BY DEF LearntBy
<1> read = Told(nexts, a.self[r], Transition(b.self[r], op.type, id))
  BY DEF LearntBy
<1> ids2 = WithNew(ids, id) /\ nexts2 = WithStart(read, ids, id)
  BY DEF LearntBy
<1> Len(u) = Len(s) + 1 /\ g[Len(s) + 1] = b /\ \A k \in 0..Len(s) : g[k] = h[k]
  BY DEF OneMore
<1> DEFINE L == Len(ids)
           k == Len(s)
           cur == a.self[r]
<1>1. /\ ids \in Seq(Nat) /\ nexts \in Seq(Transitions(p)) /\ Len(nexts) = L /\ L \in Nat
      /\ \A t \in 1..L : ids[t] = t
      /\ \A i \in 0..k : h[i].made <= L
      /\ \A q \in Routines : a.self[q] # 0 => nexts[a.self[q]] = Announced(p, a, q)
      /\ \A t \in 1..L : t > a.made => nexts[t] = Transition(t, "start", 0)
      /\ k \in Nat /\ k \in 0..k
  BY ONLY KnowsNext(p, s, h, ids, nexts), s \in Seq(Transitions(p)), a = h[Len(s)] DEF KnowsNext
<1>2. Sound(p, a) /\ OneCreator(p, a)
  BY <1>1 DEF Chronicle
<1>3. /\ a.made \in Nat \ {0} /\ a.self \in [Routines -> 0..a.made] /\ a.done \in [Routines -> Nat]
      /\ \A q, x \in Routines : a.self[q] = a.self[x] /\ a.self[q] # 0 => q = x
      /\ \A q \in Routines : a.self[q] = 0 => a.done[q] = 0
  BY <1>2 DEF Sound
<1>4. /\ \A q \in Routines : b.done[q] = IF q = r THEN a.done[r] + 1 ELSE a.done[q]
      /\ b.made = IF Creates(op) THEN a.made + 1 ELSE a.made
      /\ \A q \in Routines : b.self[q] = IF Creates(op) /\ q = op.to THEN a.made + 1 ELSE a.self[q]
      /\ b.self \in [Routines -> 0..b.made]
      /\ Creates(op) => op.to \in Routines /\ op.to # r /\ a.self[op.to] = 0
  <2>1. Sound(p, a) /\ CanGo(p, a, r) /\ b = Onward(p, a, r) /\ op = OpAt(p, r, a.done[r] + 1)
    BY <1>2
  <2> QED BY ONLY <2>1, p \in Programs, r \in Routines, OnwardIs
<1>5. Sound(p, b) /\ Grown(a, b)
  BY <1>2, OnwardSound, OnwardGrows
<1>6. op.to \in Routines \cup {Nobody} /\ op = OpAt(p, r, b.done[r])
  <2>1. a.done[r] + 1 \in Nat
    BY ONLY <1>3, r \in Routines
  <2> QED BY <2>1, <1>4, OpAtIs
<1>7. cur \in 1..a.made /\ cur \in 1..L /\ a.made <= L /\ b.self[r] = cur
  <2>1. a.self[r] # 0
    BY DEF CanGo
  <2>2. a.self[r] \in 0..a.made /\ a.made \in Nat
    BY <1>3
  <2>3. a.made <= L
    BY <1>1
  <2>4. b.self[r] = a.self[r]
    BY <1>4
  <2> QED BY ONLY <2>1, <2>2, <2>3, <2>4, <1>1
<1>8. Announced(p, b, r) = Transition(b.self[r], op.type, id)
  BY <1>6 DEF Announced
<1>9. Announced(p, b, r) \in Transitions(p)
  BY <1>5, AnnouncedIs
<1>10. id \in 0..b.made /\ (Creates(op) => id = a.made + 1)
  <2>1. b.made \in Nat
    BY ONLY <1>3, <1>4
  <2>2. CASE op.to = Nobody
    BY ONLY <2>1, <2>2, <1>4, id = Id(b, op.to), RoutinesAssumption DEF Id
  <2>3. CASE op.to # Nobody
    <3>1. id = b.self[op.to] /\ op.to \in Routines
      BY <2>3, <1>6 DEF Id
    <3>2. b.self[op.to] \in 0..b.made
      BY <3>1, <1>4
    <3> QED BY <3>1, <3>2, <1>4
  <2> QED BY <2>2, <2>3
<1>11. /\ id = L + 1 => Creates(op) /\ a.made = L
       /\ id \in Nat /\ id <= L + 1
  <2>1. a.made \in Nat /\ L \in Nat /\ a.made <= L
    BY <1>1, <1>3, <1>7
  <2>2. b.made = IF Creates(op) THEN a.made + 1 ELSE a.made
    BY <1>4
  <2> HIDE DEF L
  <2> QED BY ONLY <2>1, <2>2, <1>10
<1>12. Transition(id, "start", 0) \in Transitions(p)
  BY <1>11, StartKind
<1> HIDE DEF L, k, cur
<1>13. /\ read \in Seq(Transitions(p)) /\ Len(read) = L
       /\ \A t \in 1..L : read[t] = IF t = cur THEN Announced(p, b, r) ELSE nexts[t]
  <2>1. read = [nexts EXCEPT ![cur] = Announced(p, b, r)]
    BY <1>8 DEF Told, cur
  <2>2. nexts \in Seq(Transitions(p)) /\ Len(nexts) = L /\ cur \in 1..Len(nexts)
    BY <1>1, <1>7 DEF L
  <2> HIDE DEF cur
  <2> QED BY ONLY <2>1, <2>2, <1>9, ExceptSeq
<1>21. /\ Len(ids) = L /\ L \in Nat /\ ids \in Seq(Nat)
       /\ a.made \in Nat /\ a.made <= L /\ cur \in 1..a.made /\ cur \in 1..L
       /\ b.made = IF Creates(op) THEN a.made + 1 ELSE a.made
  BY <1>1, <1>3, <1>4, <1>7 DEF L
<1>14. /\ nexts2 \in Seq(Transitions(p)) /\ ids2 \in Seq(Nat) /\ Len(nexts2) = Len(ids2)
       /\ Len(ids2) = IF id = L + 1 THEN L + 1 ELSE L
       /\ \A t \in 1..L : nexts2[t] = read[t] /\ ids2[t] = ids[t]
       /\ id = L + 1 => nexts2[L + 1] = Transition(id, "start", 0) /\ ids2[L + 1] = id
  <2>1. CASE id = L + 1
    <3>1. nexts2 = Append(read, Transition(id, "start", 0)) /\ ids2 = Append(ids, id)
      BY <2>1, <1>21 DEF WithNew, WithStart
    <3>2. /\ ids2 \in Seq(Nat) /\ Len(ids2) = L + 1 /\ ids2[L + 1] = id
          /\ \A t \in 1..L : ids2[t] = ids[t]
      <4>1. ids2 = Append(ids, id) /\ id = L + 1 /\ id \in Nat /\ ids \in Seq(Nat) /\ Len(ids) = L
        BY <2>1, <3>1, <1>11, <1>21
      <4> QED BY ONLY <4>1, AppendProperties
    <3>3. /\ nexts2 \in Seq(Transitions(p)) /\ Len(nexts2) = L + 1
          /\ nexts2[L + 1] = Transition(id, "start", 0)
          /\ \A t \in 1..L : nexts2[t] = read[t]
      BY ONLY <3>1, <1>12, <1>13, <1>21, AppendProperties
    <3> QED BY ONLY <2>1, <3>2, <3>3
  <2>2. CASE id # L + 1
    <3>1. nexts2 = read /\ ids2 = ids
      BY <2>2, <1>21 DEF WithNew, WithStart
    <3> QED BY ONLY <3>1, <2>2, <1>13, <1>21
  <2> QED BY ONLY <2>1, <2>2
<1>15. Len(ids2) \in Nat /\ L <= Len(ids2) /\ Len(ids2) <= L + 1 /\ b.made <= Len(ids2)
  <2>1. Len(ids2) = IF id = L + 1 THEN L + 1 ELSE L
    BY <1>14
  <2>2. L \in Nat /\ a.made \in Nat /\ a.made <= L /\ b.made = IF Creates(op) THEN a.made + 1 ELSE a.made
    BY <1>21
  <2>3. Creates(op) => id = a.made + 1
    BY <1>10
  <2> QED BY ONLY <2>1, <2>2, <2>3
<1>16. \A t \in 1..Len(ids2) : t \in 1..L \/ (t = L + 1 /\ id = L + 1)
  BY ONLY <1>14, <1>15, <1>21
<1>22. \A t \in 1..L : nexts2[t] = IF t = cur THEN Announced(p, b, r) ELSE nexts[t]
  BY ONLY <1>13, <1>14
<1>23. \A t \in 1..Len(ids2) : ids2[t] = t
  <2>1. \A t \in 1..L : ids[t] = t
    BY <1>1
  <2> QED BY ONLY <2>1, <1>14, <1>16
<1>17. \A i \in 0..Len(u) : g[i].made <= Len(ids2)
  <2> TAKE i \in 0..Len(u)
  <2>1. CASE i \in 0..k
    <3>1. h[i].made <= L /\ g[i] = h[i]
      BY <2>1, <1>1 DEF k
    <3>2. h[i].made \in Nat
      BY <2>1 DEF Chronicle, Sound, k
    <3> QED BY ONLY <3>1, <3>2, <1>15, <1>21
  <2>2. CASE i \notin 0..k
    <3>1. i = k + 1
      BY ONLY <2>2, <1>1, i \in 0..Len(u), Len(u) = Len(s) + 1 DEF k
    <3> QED BY <3>1, <1>15 DEF k
  <2> QED BY <2>1, <2>2
<1>24. \A t \in 1..L : t > a.made => nexts[t] = Transition(t, "start", 0)
  BY <1>1
<1>18. ASSUME NEW q \in Routines, b.self[q] # 0 PROVE nexts2[b.self[q]] = Announced(p, b, q)
  <2>1. CASE q = r
    BY ONLY <2>1, <1>7, <1>21, <1>22
  <2>2. CASE Creates(op) /\ q = op.to
    <3>1. b.self[q] = a.made + 1 /\ id = a.made + 1 /\ b.done[q] = 0
      BY <2>2, <1>3, <1>4, <1>10
    <3>2. Announced(p, b, q) = Transition(id, "start", 0)
      BY ONLY <3>1, q \in Routines, p \in Programs, StartAnnounced
    <3>3. CASE id = L + 1
      BY ONLY <3>1, <3>2, <3>3, <1>14, <1>21
    <3>4. CASE id # L + 1
      <4>1. id \in 1..L /\ id # cur /\ id > a.made
        BY ONLY <3>1, <3>4, <1>11, <1>21
      <4> QED BY ONLY <4>1, <3>1, <3>2, <1>22, <1>24
    <3> QED BY <3>3, <3>4
  <2>3. CASE q # r /\ ~(Creates(op) /\ q = op.to)
    <3>1. b.self[q] = a.self[q] /\ b.done[q] = a.done[q]
      BY <2>3, <1>4
    <3>2. a.self[q] # cur /\ a.self[q] \in 1..a.made
      BY ONLY <3>1, <2>3, <1>3, b.self[q] # 0, q \in Routines, r \in Routines DEF cur
    <3>3. a.self[q] \in 1..L
      BY ONLY <3>2, <1>21
    <3>4. Announced(p, b, q) = Announced(p, a, q)
      BY <3>1, <1>2, <1>5, <1>18, SameAnnounced
    <3>5. nexts[a.self[q]] = Announced(p, a, q)
      BY <3>1, <1>1, <1>18
    <3> QED BY ONLY <3>1, <3>2, <3>3, <3>4, <3>5, <1>22
  <2> QED BY <2>1, <2>2, <2>3
<1>19. ASSUME NEW t \in 1..Len(ids2), t > b.made PROVE nexts2[t] = Transition(t, "start", 0)
  <2>1. CASE t \in 1..L
    <3>1. t > a.made /\ t # cur
      BY ONLY <1>19, <1>21, <2>1
    <3> QED BY ONLY <3>1, <2>1, <1>22, <1>24
  <2>2. CASE t \notin 1..L
    BY ONLY <2>2, <1>14, <1>16, t \in 1..Len(ids2)
  <2> QED BY <2>1, <2>2
<1>20. g[Len(u)] = b
  OBVIOUS
<1>25. nexts2 \in Seq(Transitions(p)) /\ ids2 \in Seq(Nat) /\ Len(nexts2) = Len(ids2)
  BY <1>14
<1> QED BY ONLY <1>17, <1>18, <1>19, <1>20, <1>23, <1>25 DEF KnowsNext

\* The same, of what the mailbox says.
LEMMA LearnsNext ==
  ASSUME NEW p \in Programs, NEW s \in Seq(Transitions(p)), NEW h, Chronicle(p, s, h),
         NEW ids, NEW nexts, KnowsNext(p, s, h, ids, nexts),
         NEW r \in Routines, CanGo(p, h[Len(s)], r),
         NEW ids2, NEW nexts2, Learnt(p, h[Len(s)], r, ids, nexts, ids2, nexts2),
         NEW u, Len(u) = Len(s) + 1, NEW g, \A k \in 0..Len(s) : g[k] = h[k],
         g[Len(s) + 1] = Onward(p, h[Len(s)], r)
  PROVE  KnowsNext(p, u, g, ids2, nexts2)
<1> PICK a : a = h[Len(s)]
  OBVIOUS
<1>1. Learnt(p, a, r, ids, nexts, ids2, nexts2)
  OBVIOUS
<1>2. PICK b, op, id, read : LearntBy(p, a, r, b, op, id, read, ids, nexts, ids2, nexts2)
  BY <1>1 DEF Learnt
<1>3. b = Onward(p, a, r)
  BY <1>2 DEF LearntBy
<1>4. OneMore(s, h, u, g, b)
  BY <1>3 DEF OneMore
<1>5. CanGo(p, a, r)
  OBVIOUS
<1>6. KnowsNext(p, s, h, ids, nexts) /\ Chronicle(p, s, h) /\ a = h[Len(s)]
  OBVIOUS
<1> QED BY ONLY <1>2, <1>4, <1>5, <1>6, p \in Programs, s \in Seq(Transitions(p)), r \in Routines,
            KnowsNextGrows

\* A set of numbers that is not empty has a least one.
LEMMA LeastOf ==
  ASSUME NEW S \in SUBSET Nat, S # {}
  PROVE  \E x \in S : \A y \in S : x <= y
<1>1. PICK x \in S : \A y \in S : ~(<<y, x>> \in OpToRel(<, Nat))
  BY NatLessThanWellFounded, WFMin
<1>2. \A y \in S : ~(y < x)
  BY <1>1 DEF OpToRel
<1> QED BY <1>2

\* A thread that is not born announces its start.
LEMMA UnbornAnnounced ==
  ASSUME NEW p \in Programs, NEW s, NEW h, Chronicle(p, s, h), Len(s) \in Nat, NEW k \in 0..Len(s),
         NEW t \in Nat, t > h[k].made, NEW i \in k..Len(s), NEW r \in Routines,
         h[i].self[r] = t, Ran(s, t, i) = {}
  PROVE  Announced(p, h[i], r) = Transition(t, "start", 0)
<1>1. Sound(p, h[i]) /\ Sound(p, h[k]) /\ Counted(p, s, h[i], i)
  BY DEF Chronicle
<1>2. t # 0
  BY <1>1 DEF Sound
<1>3. h[i].done[r] = 0
  BY <1>1, <1>2, FS_EmptySet DEF Counted
<1> QED BY <1>3, StartAnnounced

\* The next transitions when all but the first k of s are undone.
Undone(nexts, s, k) ==
    [t \in DOMAIN nexts |->
       LET dropped == {i \in (k + 1)..Len(s) : s[i].tid = t}
       IN  IF dropped = {} THEN nexts[t]
           ELSE s[CHOOSE i \in dropped : \A j \in dropped : i <= j]]

\* After a branch the first transition dropped of each thread is its next one again, and that
\* is what the thread announces.
LEMMA BranchKnows ==
  ASSUME NEW p \in Programs, NEW s \in Seq(Transitions(p)), NEW h, Chronicle(p, s, h),
         NEW ids, NEW nexts, KnowsNext(p, s, h, ids, nexts), NEW k \in 0..Len(s),
         NEW u, Len(u) = k, NEW nexts2, nexts2 = Undone(nexts, s, k)
  PROVE  KnowsNext(p, u, h, ids, nexts2)
<1> DEFINE L == Len(ids)
           n == Len(s)
           a == h[k]
           dropped(t) == {i \in (k + 1)..n : s[i].tid = t}
<1>1. /\ ids \in Seq(Nat) /\ nexts \in Seq(Transitions(p)) /\ Len(nexts) = L /\ L \in Nat
      /\ n \in Nat /\ k \in Nat /\ k <= n
  BY DEF KnowsNext
<1>2. /\ \A t \in 1..L : ids[t] = t
      /\ \A i \in 0..n : h[i].made <= L
      /\ \A q \in Routines : h[n].self[q] # 0 => nexts[h[n].self[q]] = Announced(p, h[n], q)
      /\ \A t \in 1..L : t > h[n].made => nexts[t] = Transition(t, "start", 0)
  BY DEF KnowsNext
<1>3. nexts2 = [t \in 1..L |->
                  IF dropped(t) = {} THEN nexts[t]
                  ELSE s[CHOOSE i \in dropped(t) : \A j \in dropped(t) : i <= j]]
  BY <1>1 DEF Undone
<1>4. Sound(p, a) /\ OneCreator(p, a) /\ Sound(p, h[n]) /\ Grown(a, h[n]) /\ Counted(p, s, a, k)
      /\ Counted(p, s, h[n], n)
  BY <1>1 DEF Chronicle
\* The first transition dropped of thread t, if there is one.
<1>5. ASSUME NEW t \in 1..L, dropped(t) # {}
      PROVE  \E i \in (k + 1)..n : /\ s[i].tid = t /\ nexts2[t] = s[i]
                                   /\ Ran(s, t, i - 1) = Ran(s, t, k)
  <2>1. dropped(t) \in SUBSET Nat
    BY <1>1
  <2>2. \E i \in dropped(t) : \A j \in dropped(t) : i <= j
    BY <2>1, <1>5, LeastOf
  <2> DEFINE i == CHOOSE i \in dropped(t) : \A j \in dropped(t) : i <= j
  <2>3. i \in dropped(t) /\ \A j \in dropped(t) : i <= j
    BY <2>2
  <2>4. nexts2[t] = s[i]
    BY <1>3, <1>5
  <2> HIDE DEF i
  <2>5. i \in (k + 1)..n /\ s[i].tid = t
    BY <2>3
  <2>6. \A j \in (k + 1)..(i - 1) : s[j].tid # t
    <3> TAKE j \in (k + 1)..(i - 1)
    <3>1. j \in (k + 1)..n /\ ~(i <= j)
      BY <1>1, <2>5
    <3> QED BY <2>3, <3>1
  <2>7. Ran(s, t, i - 1) = Ran(s, t, k)
    <3>1. \A j \in 1..(i - 1) : j \in 1..k \/ j \in (k + 1)..(i - 1)
      BY <1>1, <2>5
    <3>2. \A j \in 1..k : j \in 1..(i - 1)
      BY <1>1, <2>5
    <3> QED BY <2>6, <3>1, <3>2 DEF Ran
  <2> QED BY <2>4, <2>5, <2>7
<1>6. ASSUME NEW t, dropped(t) = {} PROVE Ran(s, t, n) = Ran(s, t, k)
  <2>1. \A j \in 1..n : j \in 1..k \/ j \in (k + 1)..n
    BY <1>1
  <2>2. \A j \in 1..k : j \in 1..n
    BY <1>1
  <2> QED BY <1>6, <2>1, <2>2 DEF Ran
<1>7. \A t \in 1..L : dropped(t) = {} => nexts2[t] = nexts[t]
  BY <1>3
<1>8. ASSUME NEW t \in 1..L PROVE nexts2[t] \in Transitions(p)
  <2>1. CASE dropped(t) = {}
    BY <2>1, <1>1, <1>7
  <2>2. CASE dropped(t) # {}
    <3>1. PICK i \in (k + 1)..n : nexts2[t] = s[i]
      BY <2>2, <1>5
    <3>2. i \in 1..Len(s)
      BY <1>1
    <3> QED BY <3>1, <3>2, ElementOfSeq
  <2> QED BY <2>1, <2>2
<1> HIDE DEF dropped, L, n, a
<1>9. nexts2 \in Seq(Transitions(p)) /\ Len(nexts2) = L
  <2>1. nexts2 = [t \in 1..L |-> nexts2[t]]
    BY <1>3
  <2>2. L \in Nat /\ \A t \in 1..L : nexts2[t] \in Transitions(p)
    BY <1>1, <1>8
  <2>3. [t \in 1..L |-> nexts2[t]] \in Seq(Transitions(p)) /\ Len([t \in 1..L |-> nexts2[t]]) = L
    BY ONLY <2>2
  <2> QED BY ONLY <2>1, <2>3
<1>10. ASSUME NEW r \in Routines, a.self[r] # 0 PROVE nexts2[a.self[r]] = Announced(p, a, r)
  <2> DEFINE t == a.self[r]
  <2>1. t \in 1..L /\ t \in 1..a.made
    <3>1. a.self[r] \in 0..a.made /\ a.made \in Nat
      BY <1>4 DEF Sound
    <3>2. a.made <= L
      BY <1>1, <1>2 DEF a
    <3> QED BY <3>1, <3>2, <1>1, <1>10
  <2>2. CASE dropped(t) = {}
    <3>1. Ran(s, t, n) = Ran(s, t, k)
      BY <2>2, <1>6
    <3>2. h[n].self[r] = t
      BY <1>4, <1>10 DEF Grown
    <3>3. h[n].done[r] = a.done[r]
      BY <3>1, <3>2, <1>4, <1>10 DEF Counted
    <3>4. Announced(p, h[n], r) = Announced(p, a, r)
      BY <3>3, <1>4, <1>10, SameAnnounced
    <3>5. nexts[t] = Announced(p, h[n], r)
      BY <3>2, <1>2, <1>10
    <3>6. nexts2[t] = nexts[t]
      BY <2>1, <2>2, <1>7
    <3> QED BY <3>4, <3>5, <3>6
  <2>3. CASE dropped(t) # {}
    <3>1. PICK i \in (k + 1)..n : s[i].tid = t /\ nexts2[t] = s[i] /\ Ran(s, t, i - 1) = Ran(s, t, k)
      BY <2>1, <2>3, <1>5
    <3>2. i \in 1..Len(s) /\ k \in 0..(i - 1) /\ i - 1 \in 0..Len(s)
      BY <1>1 DEF n
    <3>3. Sound(p, h[i - 1]) /\ Counted(p, s, h[i - 1], i - 1) /\ Grown(a, h[i - 1])
      BY <3>2 DEF Chronicle, a
    <3>4. PICK q \in Routines : s[i] = Announced(p, h[i - 1], q) /\ s[i].tid = h[i - 1].self[q]
      BY ONLY <3>2, Len(s) \in Nat, Chronicle(p, s, h), p \in Programs, TransitionWas
    <3>5. h[i - 1].self[r] = t
      BY <3>3, <1>10 DEF Grown
    <3>6. q = r
      BY <3>1, <3>3, <3>4, <3>5, <1>10 DEF Sound
    <3>7. h[i - 1].done[r] = a.done[r]
      BY <3>1, <3>3, <3>5, <1>4, <1>10 DEF Counted
    <3>8. Announced(p, h[i - 1], r) = Announced(p, a, r)
      BY <3>3, <3>7, <1>4, <1>10, SameAnnounced
    <3> QED BY <3>1, <3>4, <3>6, <3>8
  <2> QED BY <2>2, <2>3
<1>11. ASSUME NEW t \in 1..L, t > a.made PROVE nexts2[t] = Transition(t, "start", 0)
  <2>1. t \in Nat /\ k \in 0..Len(s) /\ Len(s) \in Nat /\ t # 0
    BY <1>1 DEF n
  <2>2. Ran(s, t, k) = {}
    BY <2>1, <1>11, RanOfBorn DEF a
  <2>3. CASE dropped(t) = {}
    <3>1. Ran(s, t, n) = {}
      BY <2>2, <2>3, <1>6
    <3>2. CASE t > h[n].made
      BY <3>2, <2>3, <1>2, <1>7
    <3>3. CASE ~(t > h[n].made)
      <4>1. t \in 1..h[n].made
        BY <3>3, <2>1, <1>4 DEF Sound
      <4>2. PICK r \in Routines : h[n].self[r] = t
        BY <4>1, <1>4 DEF Sound
      <4>3. n \in k..Len(s)
        BY <1>1 DEF n
      <4>4. Announced(p, h[n], r) = Transition(t, "start", 0)
        BY <4>2, <4>3, <3>1, <2>1, <1>11, UnbornAnnounced DEF a
      <4> QED BY <4>2, <4>4, <2>1, <2>3, <1>2, <1>7
    <3> QED BY <3>2, <3>3
  <2>4. CASE dropped(t) # {}
    <3>1. PICK i \in (k + 1)..n : s[i].tid = t /\ nexts2[t] = s[i] /\ Ran(s, t, i - 1) = Ran(s, t, k)
      BY <2>4, <1>5
    <3>2. i \in 1..Len(s) /\ i - 1 \in k..Len(s)
      BY <1>1 DEF n
    <3>3. PICK q \in Routines : s[i] = Announced(p, h[i - 1], q) /\ s[i].tid = h[i - 1].self[q]
      BY ONLY <3>2, Len(s) \in Nat, Chronicle(p, s, h), p \in Programs, TransitionWas
    <3>4. Announced(p, h[i - 1], q) = Transition(t, "start", 0)
      BY <3>1, <3>2, <3>3, <2>1, <2>2, <1>11, UnbornAnnounced DEF a
    <3> QED BY <3>1, <3>3, <3>4
  <2> QED BY <2>3, <2>4
<1>12. \A i \in 0..Len(u) : h[i].made <= Len(ids)
  <2>1. \A i \in 0..k : i \in 0..n
    BY <1>1
  <2> QED BY <2>1, <1>2 DEF L
<1> QED BY <1>1, <1>2, <1>9, <1>10, <1>11, <1>12 DEF KnowsNext, L, a

-----------------------------------------------------------------------------
(* The steps of the thread that was let go on.                             *)

\* The operations of McHandshake are those of the history.
LEMMA VisibleIs == \A r \in Routines : Visible(r) = Ops(prog, r)
  BY DEF Visible, Ops

\* Where a thread is that has an operation left.
LEMMA PlaceIs ==
  ASSUME NEW p, NEW a, NEW r \in Routines
  PROVE  /\ Place(p, a, r) \in {"unborn", "asleep", "gone"}
         /\ Place(p, a, r) = "unborn" <=> a.self[r] = 0
         /\ a.self[r] # 0 /\ a.done[r] < Len(Ops(p, r)) => Place(p, a, r) = "asleep"
         /\ a.self[r] # 0 /\ ~(a.done[r] < Len(Ops(p, r))) => Place(p, a, r) = "gone"
  BY DEF Place

\* Where a thread is depends on nothing but its own id and count.
LEMMA SamePlace ==
  ASSUME NEW p, NEW a, NEW b, NEW r \in Routines, b.self[r] = a.self[r], b.done[r] = a.done[r]
  PROVE  Place(p, b, r) = Place(p, a, r)
  BY DEF Place

\* The scheduler lets a thread go on.
LEMMA GoSetsOut ==
  ASSUME Typed, prog \in Programs, NEW a, Sound(prog, a), NEW r \in Routines, Rests(a),
         a.self[r] # 0, a.done[r] < Len(Ops(prog, r)), Go(r)
  PROVE  OnTheWay(a, r)'
<1> DEFINE op == OpAt(prog, r, a.done[r])
<1>1. /\ process = "running" /\ at[r] = "asleep" /\ at' = [at EXCEPT ![r] = After(Pending(r))]
      /\ done' = [done EXCEPT ![r] = @ + 1]
      /\ nextId' = IF r = Main /\ Pending(r) = Start THEN 1 ELSE nextId
      /\ UNCHANGED <<prog, process, self, handle, mailbox>>
  BY DEF Go, Moves
<1>2. /\ self = a.self /\ done = a.done /\ (a.done[Main] # 0 => nextId = a.made)
      /\ \A q \in Routines : at[q] = Place(prog, a, q) /\ Named(q)
  BY DEF Rests
<1>3. /\ a.done[r] \in Nat /\ Len(Ops(prog, r)) \in Nat /\ a.done \in [Routines -> Nat]
      /\ a.self \in [Routines -> 0..a.made] /\ a.made \in Nat /\ a.self[Main] = 1
      /\ \A q, x \in Routines : a.self[q] = a.self[x] /\ a.self[q] # 0 => q = x
      /\ a.done[Main] = 0 => a.made = 1
      /\ Main \in Routines
  BY OpsAre, RoutinesAssumption DEF Sound
<1>4. /\ op = Ops(prog, r)[a.done[r] + 1]
      /\ (a.done[r] = 0 <=> op.type = "start") /\ (a.done[r] = 0 => op = Start)
      /\ (a.done[r] + 1 >= Len(Ops(prog, r)) <=> op.type = "finish")
  <2> DEFINE m == a.done[r]
  <2>1. m \in Nat /\ m < Len(Ops(prog, r))
    BY <1>3
  <2> HIDE DEF m
  <2>2. /\ OpAt(prog, r, m) = Ops(prog, r)[m + 1]
        /\ (m = 0 <=> OpAt(prog, r, m).type = "start") /\ (m = 0 => OpAt(prog, r, m) = Start)
        /\ (m + 1 >= Len(Ops(prog, r)) <=> OpAt(prog, r, m).type = "finish")
    BY ONLY <2>1, prog \in Programs, r \in Routines, OpAtIs
  <2> QED BY <2>2 DEF m
<1>5. Pending(r) = op
  BY <1>2, <1>4, VisibleIs DEF Pending
<1>6. nextId' = a.made
  <2>1. CASE a.done[Main] # 0
    <3>1. ~(r = Main /\ op = Start)
      BY <2>1, <1>4 DEF Start, Operation
    <3> QED BY <2>1, <3>1, <1>1, <1>2, <1>5
  <2>2. CASE a.done[Main] = 0
    <3>1. a.made = 1 /\ a.self[r] \in 0..1
      BY <2>2, <1>3
    <3>2. r = Main
      BY <3>1, <1>3
    <3> QED BY <2>2, <3>1, <3>2, <1>1, <1>4, <1>5
  <2> QED BY <2>1, <2>2
<1>7. done' = Onward(prog, a, r).done
  BY <1>1, <1>2 DEF Onward
<1> HIDE DEF op
<1>8. \A q \in Routines : at'[q] = IF q = r THEN After(op) ELSE at[q]
  BY <1>1, <1>5 DEF Typed
<1>9. \A q \in Routines : Named(q)'
  BY <1>1, <1>2, <1>8 DEF Named
<1>10. Others(a, {r})'
  BY <1>1, <1>2, <1>8 DEF Others
<1>11. CASE op.type = "finish"
  <2>1. at'[r] = "leaving"
    BY <1>8, <1>11 DEF After
  <2>2. a.done[r] + 1 = Len(Ops(prog, r))
    BY <1>3, <1>4, <1>11
  <2>3. Leaves(a, r)'
    BY <2>1, <2>2, <1>1, <1>2, <1>6, <1>10 DEF Leaves
  <2> QED BY <2>3, <1>1, <1>7, <1>9 DEF OnTheWay
<1>12. CASE op.type # "finish"
  <2>1. at'[r] \in {"going", "joining", "aborting"} /\ (at'[r] = "joining" => op.type = "join")
    BY <1>8, <1>12 DEF After
  <2>2. a.done[r] + 1 < Len(Ops(prog, r))
    BY <1>3, <1>4, <1>12
  <2>3. SetsOut(a, r)'
    BY <2>1, <2>2, <1>1, <1>2, <1>4, <1>6, <1>10 DEF SetsOut
  <2> QED BY <2>3, <1>1, <1>7, <1>9 DEF OnTheWay
<1> QED BY <1>11, <1>12

\* The thread it waits for is gone.
LEMMA JoinedOnTheWay ==
  ASSUME Typed, prog \in Programs, handle = [q \in Routines |-> handle[q]], NEW a, Sound(prog, a),
         NEW r \in Routines, OnTheWay(a, r), Joined(r)
  PROVE  OnTheWay(a, r)'
<1> DEFINE n == a.done[r] + 1
           child == Ops(prog, r)[n].to
<1>1. /\ process = "running" /\ at[r] = "joining" /\ at' = [at EXCEPT ![r] = "going"]
      /\ at[Visible(r)[done[r]].to] = "gone" /\ handle' = [handle EXCEPT ![Visible(r)[done[r]].to] = 0]
      /\ UNCHANGED <<prog, process, done, self, nextId, mailbox>>
  BY DEF Joined, Moves, sharedVars
<1>2. /\ SetsOut(a, r) /\ done = Onward(prog, a, r).done
      /\ \A q \in Routines : Named(q) \/ at[q] = "newborn"
  BY <1>1 DEF OnTheWay, AwaitsChild, HasChild, Posts, Leaves
<1>3. /\ n < Len(Ops(prog, r)) /\ Ops(prog, r)[n].type = "join"
      /\ self = a.self /\ nextId = a.made /\ Others(a, {r})
  BY <1>1, <1>2 DEF SetsOut
<1>4. a.done[r] \in Nat /\ a.done \in [Routines -> Nat] /\ Len(Ops(prog, r)) \in Nat
  BY OpsAre DEF Sound
<1>5. done[r] = n
  BY <1>2, <1>4 DEF Onward
<1>6. child \in Routines
  <2>1. n \in 1..Len(Ops(prog, r))
    BY <1>3, <1>4
  <2>2. child \in Routines \cup {Nobody} /\ child # Nobody
    BY <2>1, <1>3, OpsAre DEF OpSet
  <2> QED BY <2>2
<1>7. at[child] = "gone" /\ handle' = [handle EXCEPT ![child] = 0]
  BY <1>1, <1>5, VisibleIs
<1> HIDE DEF child, n
<1>8. \A q \in Routines : at'[q] = IF q = r THEN "going" ELSE at[q]
  BY <1>1 DEF Typed
<1>9. \A q \in Routines : handle'[q] = IF q = child THEN 0 ELSE handle[q]
  BY <1>6, <1>7
<1>10. child # r
  BY <1>1, <1>7
<1>11. \A q \in Routines : Named(q)' \/ at'[q] = "newborn"
  <2> TAKE q \in Routines
  <2>1. CASE q = child
    BY <2>1, <1>7, <1>8, <1>9, <1>10 DEF Named
  <2>2. CASE q = r
    BY <2>2, <1>1, <1>2, <1>8, <1>9, <1>10 DEF Named
  <2>3. CASE q # child /\ q # r
    BY <2>3, <1>1, <1>2, <1>8, <1>9 DEF Named
  <2> QED BY <2>1, <2>2, <2>3
<1>12. Others(a, {r})'
  BY <1>1, <1>3, <1>8 DEF Others
<1>13. SetsOut(a, r)'
  BY <1>1, <1>3, <1>8, <1>12 DEF SetsOut, n
<1> QED BY <1>1, <1>2, <1>11, <1>13 DEF OnTheWay

\* As long as no pthread_t was given back, the first that is free is the next id.
LEMMA FreeHandleIs ==
  ASSUME NEW p, NEW a, Sound(p, a), NEW child \in Routines, a.self[child] = 0,
         \A q \in Routines : handle[q] = a.self[q]
  PROVE  FreeHandle = a.made + 1
<1>1. /\ a.made \in Nat /\ a.self \in [Routines -> 0..a.made]
      /\ \A q, x \in Routines : a.self[q] = a.self[x] /\ a.self[q] # 0 => q = x
      /\ \A t \in 1..a.made : \E r \in Routines : a.self[r] = t
  BY DEF Sound
<1>2. a.made + 1 <= Cardinality(Routines) /\ Cardinality(Routines) \in Nat
  <2> DEFINE f == [t \in 1..a.made |-> CHOOSE r \in Routines : a.self[r] = t]
             S == Routines \ {child}
  <2>1. \A t \in 1..a.made : f[t] \in Routines /\ a.self[f[t]] = t
    BY <1>1
  <2>2. \A t \in 1..a.made : t # 0
    BY <1>1
  <2>3. f \in [1..a.made -> S]
    BY <2>1, <2>2
  <2>4. f \in Injection(1..a.made, S)
    BY <2>1, <2>3 DEF Injection, IsInjective
  <2> HIDE DEF f
  <2>5. /\ IsFiniteSet(Routines) /\ IsFiniteSet(S) /\ Cardinality(S) = Cardinality(Routines) - 1
        /\ Cardinality(Routines) \in Nat
    BY RoutinesAssumption, FS_RemoveElement, FS_CardinalityType
  <2>6. Cardinality(1..a.made) <= Cardinality(S)
    BY <2>4, <2>5, FS_Injection
  <2>7. Cardinality(1..a.made) = a.made
    <3> DEFINE m == a.made
    <3>1. m \in Nat
      BY <1>1
    <3> HIDE DEF m
    <3>2. 1 \in Int /\ m \in Int /\ Cardinality(1..m) = IF 1 > m THEN 0 ELSE m - 1 + 1
      BY ONLY <3>1, FS_Interval
    <3>3. Cardinality(1..m) = m
      BY ONLY <3>1, <3>2
    <3> QED BY <3>3 DEF m
  <2> HIDE DEF S
  <2> QED BY <2>5, <2>6, <2>7, <1>1
<1> DEFINE Free(h) == /\ \A q \in Routines : handle[q] # h
                      /\ \A g \in 1..(h - 1) : \E q \in Routines : handle[q] = g
<1>3. a.made + 1 \in Tids /\ Free(a.made + 1)
  <2>1. \A q \in Routines : handle[q] # a.made + 1
    BY <1>1
  <2>2. \A g \in 1..(a.made + 1 - 1) : \E q \in Routines : handle[q] = g
    BY <1>1
  <2> QED BY <1>1, <1>2, <2>1, <2>2 DEF Tids
<1>4. ASSUME NEW h \in Tids, Free(h) PROVE h = a.made + 1
  <2>1. h \in Nat \ {0}
    BY <1>2 DEF Tids
  <2>2. ~(h <= a.made)
    <3> SUFFICES ASSUME h <= a.made PROVE FALSE
      OBVIOUS
    <3>1. h \in 1..a.made
      BY <2>1, <1>1
    <3> QED BY <3>1, <1>1, <1>4
  <2>3. ~(h > a.made + 1)
    <3> SUFFICES ASSUME h > a.made + 1 PROVE FALSE
      OBVIOUS
    <3>1. a.made + 1 \in 1..(h - 1)
      BY <2>1, <1>1
    <3> QED BY <3>1, <1>3, <1>4
  <2> QED BY <2>1, <2>2, <2>3, <1>1
<1>5. FreeHandle = CHOOSE h \in Tids : Free(h)
  BY DEF FreeHandle
<1> HIDE DEF Free
<1> QED BY <1>3, <1>4, <1>5

\* Which of the ways a routine is on its way by, from where it is.
LEMMA WhichWay ==
  ASSUME NEW a, NEW r, OnTheWay(a, r)
  PROVE  /\ at[r] \in MovingPlaces
         /\ at[r] \in {"going", "joining", "aborting"} => SetsOut(a, r)
         /\ at[r] = "creating" => AwaitsChild(a, r) \/ HasChild(a, r)
         /\ at[r] \in {"posting", "waking"} => Posts(a, r)
         /\ at[r] \in {"leaving", "parting"} => Leaves(a, r)
  BY DEF OnTheWay, SetsOut, AwaitsChild, HasChild, Posts, Leaves, MovingPlaces

\* A thread is created.
LEMMA CreateThreadOnTheWay ==
  ASSUME Typed, prog \in Programs, handle = [q \in Routines |-> handle[q]], NEW a, Sound(prog, a),
         NEW r \in Routines, a.self[r] # 0, OnTheWay(a, r), OneNameEach, CreateThread(r),
         \A q \in Routines : at[q] # "newborn"
  PROVE  OnTheWay(a, r)'
<1> DEFINE n == a.done[r] + 1
           op == OpAt(prog, r, n)
           child == op.to
<1>1. /\ process = "running" /\ at[r] = "going" /\ Creates(Pending(r)) /\ at[Pending(r).to] = "unborn"
      /\ at' = [at EXCEPT ![r] = "creating", ![Pending(r).to] = "newborn"]
      /\ handle' = [handle EXCEPT ![Pending(r).to] = FreeHandle]
      /\ UNCHANGED <<prog, process, done, self, nextId, mailbox>>
  BY DEF CreateThread, sharedVars
<1>2. /\ SetsOut(a, r) /\ done = Onward(prog, a, r).done
      /\ \A q \in Routines : Named(q)
  BY <1>1, WhichWay DEF OnTheWay
<1>3. n < Len(Ops(prog, r)) /\ self = a.self /\ nextId = a.made /\ Others(a, {r})
  BY <1>1, <1>2 DEF SetsOut
<1>4. a.done[r] \in Nat /\ a.done \in [Routines -> Nat] /\ Len(Ops(prog, r)) \in Nat /\ n \in Nat
  BY OpsAre DEF Sound
<1>5. done[r] = n
  BY <1>2, <1>4 DEF Onward
<1>6. Pending(r) = op
  BY <1>3, <1>4, <1>5, OpAtIs, VisibleIs DEF Pending
<1>7. Creates(op) /\ child \in Routines
  BY <1>1, <1>4, <1>6, OpAtIs
<1> HIDE DEF op, n
<1>8. at[child] = "unborn" /\ child # r
  BY <1>1, <1>6
<1>9. a.self[child] = 0
  BY <1>3, <1>7, <1>8, PlaceIs DEF Others
<1>10. \A q \in Routines : handle[q] = a.self[q]
  BY <1>1, <1>2, <1>3, <1>6, <1>7 DEF OneNameEach, Named
<1>11. FreeHandle = a.made + 1
  BY <1>7, <1>9, <1>10, FreeHandleIs
<1>12. \A q \in Routines : at'[q] = IF q = child THEN "newborn" ELSE IF q = r THEN "creating" ELSE at[q]
  BY <1>1, <1>6 DEF Typed
<1>13. \A q \in Routines : handle'[q] = IF q = child THEN a.made + 1 ELSE handle[q]
  BY <1>1, <1>6, <1>7, <1>11
<1>14. \A q \in Routines : Named(q)' \/ at'[q] = "newborn"
  BY <1>1, <1>2, <1>3, <1>10, <1>12, <1>13 DEF Named
<1>15. Others(a, {r, child})'
  <2>1. ASSUME NEW q \in Routines \ {r, child} PROVE at'[q] = Place(prog, a, q)
    <3>1. q \in Routines /\ q # r /\ q # child
      OBVIOUS
    <3> QED BY <3>1, <1>3, <1>12 DEF Others
  <2>2. child' = child
    BY <1>1 DEF op, n, OpAt, Ops
  <2> QED BY <2>1, <2>2, <1>1 DEF Others
<1>16. AwaitsChild(a, r)'
  <2>1. at'[r] = "creating" /\ at'[child] = "newborn" /\ handle'[child] = a.made + 1
    BY <1>7, <1>8, <1>12, <1>13
  <2> QED BY <2>1, <1>1, <1>3, <1>7, <1>8, <1>9, <1>15 DEF AwaitsChild, op, n
<1> QED BY <1>1, <1>2, <1>14, <1>16 DEF OnTheWay

\* The new thread takes its id.
LEMMA RegisterOnTheWay ==
  ASSUME Typed, prog \in Programs, NEW a, Sound(prog, a), NEW r \in Routines, a.self[r] # 0,
         OnTheWay(a, r), NEW c \in Routines, Register(c)
  PROVE  OnTheWay(a, r)'
<1> DEFINE n == a.done[r] + 1
           op == OpAt(prog, r, n)
           b == Onward(prog, a, r)
<1>1. /\ process = "running" /\ at[c] = "newborn" /\ at' = [at EXCEPT ![c] = "asleep"]
      /\ nextId' = nextId + 1 /\ self' = [self EXCEPT ![c] = nextId + 1]
      /\ UNCHANGED <<prog, process, done, handle, mailbox>>
  BY DEF Register, Moves, sharedVars
<1>2. \A q \in Routines : Place(prog, a, q) # "newborn" /\ Place(prog, b, q) # "newborn"
  BY PlaceIs
<1>3. done = b.done /\ at[r] \in MovingPlaces /\ \A q \in Routines : Named(q) \/ at[q] = "newborn"
  BY WhichWay DEF OnTheWay
<1>4. c # r
  BY <1>1, <1>3 DEF MovingPlaces
<1>5. AwaitsChild(a, r) /\ c = op.to
  <2>1. ~SetsOut(a, r) /\ ~Leaves(a, r)
    BY <1>1, <1>2, <1>4 DEF SetsOut, Leaves, Others
  <2>2. ~Posts(a, r)
    BY <1>1, <1>2, <1>4 DEF Posts, Others
  <2>3. ~HasChild(a, r)
    BY <1>1, <1>2, <1>4 DEF HasChild, Others
  <2>4. AwaitsChild(a, r)
    BY <2>1, <2>2, <2>3 DEF OnTheWay
  <2> QED BY <2>4, <1>1, <1>2, <1>4 DEF AwaitsChild, Others
<1>6. /\ at[r] = "creating" /\ n < Len(Ops(prog, r)) /\ Creates(op) /\ op.to # r /\ a.self[op.to] = 0
      /\ self = a.self /\ nextId = a.made /\ Others(a, {r, op.to})
      /\ handle[c] = a.made + 1
  BY <1>5 DEF AwaitsChild
<1>7. a.made \in Nat /\ a.self \in [Routines -> 0..a.made]
  BY DEF Sound
<1>8. b.self = [a.self EXCEPT ![c] = a.made + 1] /\ b.made = a.made + 1
  BY <1>5, <1>6 DEF Onward
<1>9. self' = b.self /\ nextId' = b.made
  BY <1>1, <1>6, <1>8
<1>10. self'[c] = a.made + 1 /\ \A q \in Routines : q # c => self'[q] = self[q]
  BY <1>1, <1>6, <1>7
<1> HIDE DEF op, b, n
<1>11. \A q \in Routines : at'[q] = IF q = c THEN "asleep" ELSE at[q]
  BY <1>1 DEF Typed
<1>12. \A q \in Routines : Named(q)' \/ at'[q] = "newborn"
  BY <1>1, <1>3, <1>6, <1>10, <1>11 DEF Named
<1>13. Others(a, {r, op.to})'
  <2>1. ASSUME NEW q \in Routines \ {r, op.to} PROVE at'[q] = Place(prog, a, q)
    <3>1. q \in Routines /\ q # c
      BY <1>5
    <3> QED BY <3>1, <1>6, <1>11 DEF Others
  <2>2. op' = op
    BY <1>1 DEF op, n, OpAt, Ops
  <2> QED BY <2>1, <2>2, <1>1 DEF Others
<1>14. at'[r] = "creating" /\ at'[op.to] = "asleep"
  BY <1>4, <1>5, <1>6, <1>11
<1>15. HasChild(a, r)'
  BY <1>1, <1>6, <1>9, <1>13, <1>14 DEF HasChild, op, b, n
<1> QED BY <1>1, <1>3, <1>12, <1>15 DEF OnTheWay, b

\* The creator knows that its thread has registered.
LEMMA ChildRegisteredOnTheWay ==
  ASSUME Typed, prog \in Programs, NEW a, Sound(prog, a), NEW r \in Routines, a.self[r] # 0,
         OnTheWay(a, r), ChildRegistered(r), \A q \in Routines : at[q] # "newborn"
  PROVE  OnTheWay(a, r)'
<1> DEFINE n == a.done[r] + 1
           op == OpAt(prog, r, n)
           child == op.to
           b == Onward(prog, a, r)
<1>1. /\ process = "running" /\ at[r] = "creating" /\ at' = [at EXCEPT ![r] = "posting"]
      /\ UNCHANGED <<prog, process, done, self, nextId, handle, mailbox>>
  BY DEF ChildRegistered, Moves, sharedVars
<1>2. /\ done = b.done /\ \A q \in Routines : Named(q)
      /\ AwaitsChild(a, r) \/ HasChild(a, r)
  BY <1>1, WhichWay DEF OnTheWay
<1>3. a.done[r] \in Nat /\ Len(Ops(prog, r)) \in Nat /\ a.self \in [Routines -> 0..a.made] /\ a.made \in Nat
  BY OpsAre DEF Sound
<1>4. Creates(op)
  BY <1>2 DEF AwaitsChild, HasChild
<1>5. child \in Routines
  <2>1. n \in Nat
    BY <1>3
  <2> HIDE DEF n
  <2> QED BY ONLY <2>1, <1>4, prog \in Programs, r \in Routines, OpAtIs
<1>6. HasChild(a, r)
  BY <1>2, <1>5 DEF AwaitsChild
<1>7. /\ n < Len(Ops(prog, r)) /\ child # r /\ a.self[child] = 0
      /\ self = b.self /\ nextId = b.made /\ Others(a, {r, child}) /\ at[child] = "asleep"
  BY <1>6 DEF HasChild
<1>8. CanGo(prog, a, r)
  BY <1>3, <1>4, <1>7 DEF CanGo
<1>9. /\ \A q \in Routines : b.done[q] = IF q = r THEN a.done[r] + 1 ELSE a.done[q]
      /\ \A q \in Routines : b.self[q] = IF q = child THEN a.made + 1 ELSE a.self[q]
  BY <1>4, <1>8, OnwardIs
<1>10. a.done[child] = 0 /\ 0 < Len(Ops(prog, child))
  BY <1>5, <1>7, OpsAre DEF Sound
<1>11. handle[child] = self[child]
  BY <1>2, <1>5, <1>7 DEF Named
<1>12. prog' = prog /\ n' = n /\ op' = op /\ b' = b
  BY <1>1 DEF op, n, b, OpAt, Ops, Onward
<1> HIDE DEF op, n, b
<1>13. \A q \in Routines : at'[q] = IF q = r THEN "posting" ELSE at[q]
  BY <1>1 DEF Typed
<1>14. \A q \in Routines : Named(q)'
  BY <1>1, <1>2, <1>13 DEF Named
<1>15. ASSUME NEW q \in Routines \ {r} PROVE at'[q] = Place(prog, b, q)
  <2>1. CASE q = child
    <3>1. b.self[child] # 0 /\ b.done[child] < Len(Ops(prog, child))
      BY <1>3, <1>5, <1>7, <1>9, <1>10
    <3> QED BY <2>1, <3>1, <1>5, <1>7, <1>13, PlaceIs
  <2>2. CASE q # child
    <3>1. Place(prog, b, q) = Place(prog, a, q)
      BY <2>2, <1>9, SamePlace
    <3>2. q \in Routines \ {r, child}
      BY <2>2
    <3> QED BY <3>1, <3>2, <1>7, <1>13 DEF Others
  <2> QED BY <2>1, <2>2
<1>16. Others(b, {r})'
  BY <1>1, <1>12, <1>15 DEF Others
<1>17. Posts(a, r)'
  <2>1. at'[r] = "posting" /\ CanGo(prog, a, r)' /\ (handle[child] = self[child])'
    BY <1>1, <1>8, <1>11, <1>12, <1>13 DEF CanGo, OpAt, Ops
  <2> QED BY <2>1, <1>1, <1>7, <1>12, <1>16 DEF Posts, op, n, b
<1> QED BY <1>1, <1>2, <1>12, <1>14, <1>17 DEF OnTheWay, b

\* A thread stops at an operation that creates none.
LEMMA ArriveOnTheWay ==
  ASSUME Typed, prog \in Programs, NEW a, Sound(prog, a), NEW r \in Routines, a.self[r] # 0,
         OnTheWay(a, r), OneNameEach, Arrive(r), \A q \in Routines : at[q] # "newborn"
  PROVE  OnTheWay(a, r)'
<1> DEFINE n == a.done[r] + 1
           op == OpAt(prog, r, n)
           b == Onward(prog, a, r)
<1>1. /\ process = "running" /\ at[r] = "going" /\ at' = [at EXCEPT ![r] = "posting"]
      /\ ~Creates(Pending(r))
      /\ UNCHANGED <<prog, process, done, self, nextId, handle, mailbox>>
  BY DEF Arrive, Moves, sharedVars
<1>2. /\ done = b.done /\ (\A q \in Routines : Named(q)) /\ SetsOut(a, r)
  BY <1>1, WhichWay DEF OnTheWay
<1>3. n < Len(Ops(prog, r)) /\ self = a.self /\ nextId = a.made /\ Others(a, {r})
  BY <1>1, <1>2 DEF SetsOut
<1>4. /\ a.done[r] \in Nat /\ Len(Ops(prog, r)) \in Nat /\ n \in Nat /\ a.done \in [Routines -> Nat]
      /\ a.self \in [Routines -> 0..a.made] /\ a.made \in Nat
  BY OpsAre DEF Sound
<1>5. done[r] = n
  BY <1>2, <1>4 DEF Onward
<1>6. Pending(r) = op
  <2>1. op = Ops(prog, r)[n + 1]
    BY <1>3 DEF OpAt
  <2> QED BY <2>1, <1>5, VisibleIs DEF Pending
<1>7. ASSUME op.to # Nobody PROVE op.to \in Routines /\ handle[op.to] = self[op.to] /\ a.self[op.to] # 0
  <2>1. op.to \in Routines /\ op.type = "join"
    <3>1. op.to \in Routines \cup {Nobody} /\ (op.to # Nobody <=> op.type \in {"create", "createWithAttr", "join"})
      BY <1>4, OpAtIs
    <3>2. ~Creates(op)
      BY <1>1, <1>6
    <3> HIDE DEF op
    <3> QED BY <3>1, <3>2, <1>7 DEF Creates
  <2>2. handle[op.to] # 0
    BY <2>1, <1>1, <1>6 DEF OneNameEach
  <2> QED BY <2>1, <2>2, <1>2, <1>3 DEF Named
<1>8. CanGo(prog, a, r)
  BY <1>1, <1>3, <1>4, <1>6, <1>7 DEF CanGo
<1>9. /\ b.self = a.self /\ b.made = a.made
      /\ \A q \in Routines : b.done[q] = IF q = r THEN a.done[r] + 1 ELSE a.done[q]
  BY <1>1, <1>6, <1>8, OnwardIs
<1>12. prog' = prog /\ n' = n /\ op' = op /\ b' = b
  BY <1>1 DEF op, n, b, OpAt, Ops, Onward
<1> HIDE DEF op, n, b
<1>13. \A q \in Routines : at'[q] = IF q = r THEN "posting" ELSE at[q]
  BY <1>1 DEF Typed
<1>14. \A q \in Routines : Named(q)'
  BY <1>1, <1>2, <1>13 DEF Named
<1>15. ASSUME NEW q \in Routines \ {r} PROVE at'[q] = Place(prog, b, q)
  <2>1. Place(prog, b, q) = Place(prog, a, q)
    BY <1>9, SamePlace
  <2> QED BY <2>1, <1>3, <1>13 DEF Others
<1>16. Others(b, {r})'
  BY <1>1, <1>12, <1>15 DEF Others
<1>17. Posts(a, r)'
  <2>1. at'[r] = "posting" /\ CanGo(prog, a, r)' /\ (op.to # Nobody => handle[op.to] = self[op.to])'
    BY <1>1, <1>7, <1>8, <1>12, <1>13 DEF CanGo, OpAt, Ops
  <2> QED BY <2>1, <1>1, <1>3, <1>9, <1>12, <1>16 DEF Posts, op, n, b
<1> QED BY <1>1, <1>2, <1>12, <1>14, <1>17 DEF OnTheWay, b

\* What a thread that goes on posts.
LEMMA LetterIs ==
  ASSUME NEW p \in Programs, NEW a, Sound(p, a), NEW r \in Routines, CanGo(p, a, r),
         NEW op, op = OpAt(p, r, a.done[r] + 1), NEW b, b = Onward(p, a, r)
  PROVE  LetterOf(p, b, r) = [tid |-> b.self[r], type |-> op.type, handle |-> Id(b, op.to)]
<1>1. b.done[r] = a.done[r] + 1
  BY OnwardIs
<1> QED BY <1>1 DEF LetterOf

\* A thread puts its operation in the mailbox.
LEMMA PostOnTheWay ==
  ASSUME Typed, prog \in Programs, NEW a, Sound(prog, a), NEW r \in Routines,
         OnTheWay(a, r), Post(r)
  PROVE  OnTheWay(a, r)'
<1> DEFINE n == a.done[r] + 1
           op == OpAt(prog, r, n)
           b == Onward(prog, a, r)
<1>1. /\ process = "running" /\ at[r] = "posting" /\ at' = [at EXCEPT ![r] = "waking"]
      /\ mailbox' = Letter(r, Pending(r))
      /\ UNCHANGED <<prog, process, done, self, nextId, handle>>
  BY DEF Post, Moves
<1>2. done = b.done /\ (\A q \in Routines : Named(q) \/ at[q] = "newborn") /\ Posts(a, r)
  BY <1>1, WhichWay DEF OnTheWay
<1>3. /\ n < Len(Ops(prog, r)) /\ CanGo(prog, a, r) /\ self = b.self /\ nextId = b.made
      /\ Others(b, {r}) /\ (op.to # Nobody => handle[op.to] = self[op.to])
  BY <1>2 DEF Posts
<1>4. b.done[r] = n
  BY <1>3, OnwardIs
<1>5. Pending(r) = op
  <2>1. op = Ops(prog, r)[n + 1]
    BY <1>3 DEF OpAt
  <2>2. done[r] = n
    BY <1>2, <1>4
  <2> QED BY <2>1, <2>2, VisibleIs DEF Pending
<1>6. LetterOf(prog, b, r) = [tid |-> b.self[r], type |-> op.type, handle |-> Id(b, op.to)]
  BY <1>3, LetterIs
<1>7. prog' = prog /\ n' = n /\ op' = op /\ b' = b
  BY <1>1 DEF op, n, b, OpAt, Ops, Onward
<1> HIDE DEF op, n, b
<1>8. mailbox' = LetterOf(prog, b, r)
  BY <1>1, <1>3, <1>5, <1>6 DEF Letter, Id
<1>9. \A q \in Routines : at'[q] = IF q = r THEN "waking" ELSE at[q]
  BY <1>1 DEF Typed
<1>10. \A q \in Routines : Named(q)' \/ at'[q] = "newborn"
  BY <1>1, <1>2, <1>9 DEF Named
<1>11. Others(b, {r})'
  BY <1>1, <1>3, <1>7, <1>9 DEF Others
<1>12. Posts(a, r)'
  <2>1. at'[r] = "waking" /\ CanGo(prog, a, r)' /\ (op.to # Nobody => handle[op.to] = self[op.to])'
        /\ LetterOf(prog, b, r)' = LetterOf(prog, b, r)
    BY <1>1, <1>3, <1>7, <1>9 DEF CanGo, OpAt, Ops, LetterOf, Id
  <2> QED BY <2>1, <1>1, <1>3, <1>7, <1>8, <1>11 DEF Posts, op, n, b
<1> QED BY <1>1, <1>2, <1>7, <1>10, <1>12 DEF OnTheWay, b

\* It wakes the scheduler and waits: everybody rests.
LEMMA AwaitStops ==
  ASSUME Typed, prog \in Programs, NEW a, Sound(prog, a), NEW r \in Routines,
         OnTheWay(a, r), Await(r)
  PROVE  Stopped(a, r)'
<1> DEFINE b == Onward(prog, a, r)
<1>1. /\ process = "running" /\ at[r] = "waking" /\ at' = [at EXCEPT ![r] = "asleep"]
      /\ UNCHANGED <<prog, process, done, self, nextId, handle, mailbox>>
  BY DEF Await, Moves
<1>2. done = b.done /\ (\A q \in Routines : Named(q) \/ at[q] = "newborn") /\ Posts(a, r)
  BY <1>1, WhichWay DEF OnTheWay
<1>3. /\ a.done[r] + 1 < Len(Ops(prog, r)) /\ CanGo(prog, a, r) /\ self = b.self /\ nextId = b.made
      /\ Others(b, {r}) /\ mailbox = LetterOf(prog, b, r)
  BY <1>1, <1>2 DEF Posts
<1>4. b.done[r] = a.done[r] + 1
  BY <1>3, OnwardIs
<1>5. b.self[r] # 0
  <2>1. Grown(a, b) /\ a.self[r] # 0
    BY <1>3, OnwardGrows DEF CanGo
  <2> QED BY <2>1 DEF Grown
<1>6. Place(prog, b, r) = "asleep"
  BY <1>3, <1>4, <1>5, PlaceIs
<1>7. prog' = prog /\ b' = b
  BY <1>1 DEF b, OpAt, Ops, Onward
<1> HIDE DEF b
<1>8. \A q \in Routines : at'[q] = IF q = r THEN "asleep" ELSE at[q]
  BY <1>1 DEF Typed
<1>9. \A q \in Routines : at'[q] = Place(prog, b, q)
  <2> TAKE q \in Routines
  <2>1. CASE q = r
    BY <2>1, <1>6, <1>8
  <2>2. CASE q # r
    BY <2>2, <1>3, <1>8 DEF Others
  <2> QED BY <2>1, <2>2
<1>10. \A q \in Routines : Named(q)'
  <2> TAKE q \in Routines
  <2>1. Place(prog, b, q) # "newborn"
    BY PlaceIs
  <2> QED BY <2>1, <1>1, <1>2, <1>8, <1>9 DEF Named
<1>11. Rests(b)'
  BY <1>1, <1>2, <1>3, <1>7, <1>9, <1>10 DEF Rests
<1>12. CanGo(prog, a, r)' /\ LetterOf(prog, b, r)' = LetterOf(prog, b, r)
  BY <1>1, <1>3, <1>7 DEF CanGo, OpAt, Ops, LetterOf, Id
<1> QED BY <1>1, <1>3, <1>7, <1>11, <1>12 DEF Stopped, b

\* The last operation of a thread.
LEMMA LastOne ==
  ASSUME NEW p \in Programs, NEW a, Sound(p, a), NEW r \in Routines, a.self[r] # 0,
         a.done[r] + 1 = Len(Ops(p, r)), NEW b, b = Onward(p, a, r)
  PROVE  /\ CanGo(p, a, r) /\ b.self = a.self /\ b.made = a.made
         /\ \A q \in Routines : b.done[q] = IF q = r THEN a.done[r] + 1 ELSE a.done[q]
         /\ LetterOf(p, b, r) = [tid |-> a.self[r], type |-> "finish", handle |-> 0]
<1> DEFINE n == a.done[r] + 1
<1>1. a.done[r] \in Nat /\ n \in Nat /\ Len(Ops(p, r)) \in Nat
  BY OpsAre DEF Sound
<1>2. OpAt(p, r, n) = Finish
  BY <1>1, OpAtIs
<1>3. Finish.to = Nobody /\ Finish.type = "finish" /\ ~Creates(Finish)
  BY CreatesNoFinish DEF Finish, Operation
<1>4. CanGo(p, a, r)
  BY <1>1, <1>2, <1>3 DEF CanGo
<1>5. /\ b.self = a.self /\ b.made = a.made
      /\ \A q \in Routines : b.done[q] = IF q = r THEN a.done[r] + 1 ELSE a.done[q]
  BY <1>2, <1>3, <1>4, OnwardIs
<1>6. LetterOf(p, b, r) = [tid |-> a.self[r], type |-> "finish", handle |-> 0]
  BY <1>2, <1>3, <1>4, <1>5, LetterIs DEF Id
<1> QED BY <1>4, <1>5, <1>6

\* A thread allowed to finish posts that once more.
LEMMA PostFinishOnTheWay ==
  ASSUME Typed, prog \in Programs, NEW a, Sound(prog, a), NEW r \in Routines, a.self[r] # 0,
         OnTheWay(a, r), PostFinish(r)
  PROVE  OnTheWay(a, r)'
<1> DEFINE b == Onward(prog, a, r)
<1>1. /\ process = "running" /\ at[r] = "leaving" /\ at' = [at EXCEPT ![r] = "parting"]
      /\ mailbox' = Letter(r, Finish)
      /\ UNCHANGED <<prog, process, done, self, nextId, handle>>
  BY DEF PostFinish, Moves
<1>2. done = b.done /\ (\A q \in Routines : Named(q) \/ at[q] = "newborn") /\ Leaves(a, r)
  BY <1>1, WhichWay DEF OnTheWay
<1>3. a.done[r] + 1 = Len(Ops(prog, r)) /\ self = a.self /\ nextId = a.made /\ Others(a, {r})
  BY <1>2 DEF Leaves
<1>4. LetterOf(prog, b, r) = [tid |-> a.self[r], type |-> "finish", handle |-> 0]
  BY <1>3, LastOne
<1>5. prog' = prog /\ b' = b /\ LetterOf(prog, b, r)' = LetterOf(prog, b, r)
  BY <1>1 DEF b, OpAt, Ops, Onward, LetterOf, Id
<1> HIDE DEF b
<1>6. mailbox' = LetterOf(prog, b, r)
  BY <1>1, <1>3, <1>4 DEF Letter, Finish, Operation
<1>7. \A q \in Routines : at'[q] = IF q = r THEN "parting" ELSE at[q]
  BY <1>1 DEF Typed
<1>8. \A q \in Routines : Named(q)' \/ at'[q] = "newborn"
  BY <1>1, <1>2, <1>7 DEF Named
<1>9. Others(a, {r})'
  BY <1>1, <1>3, <1>7 DEF Others
<1>10. Leaves(a, r)'
  BY <1>1, <1>3, <1>5, <1>6, <1>7, <1>9 DEF Leaves, Ops, b
<1> QED BY <1>1, <1>2, <1>5, <1>8, <1>10 DEF OnTheWay, b

\* It wakes the scheduler and is gone: everybody else rests.
LEMMA LeaveStops ==
  ASSUME Typed, prog \in Programs, NEW a, Sound(prog, a), NEW r \in Routines, a.self[r] # 0,
         OnTheWay(a, r), Leave(r)
  PROVE  Stopped(a, r)'
<1> DEFINE b == Onward(prog, a, r)
<1>1. /\ process = "running" /\ at[r] = "parting" /\ at' = [at EXCEPT ![r] = "gone"]
      /\ UNCHANGED <<prog, process, done, self, nextId, handle, mailbox>>
  BY DEF Leave, Moves
<1>2. done = b.done /\ (\A q \in Routines : Named(q) \/ at[q] = "newborn") /\ Leaves(a, r)
  BY <1>1, WhichWay DEF OnTheWay
<1>3. /\ a.done[r] + 1 = Len(Ops(prog, r)) /\ self = a.self /\ nextId = a.made
      /\ Others(a, {r}) /\ mailbox = LetterOf(prog, b, r)
  BY <1>1, <1>2 DEF Leaves
<1>4. /\ CanGo(prog, a, r) /\ b.self = a.self /\ b.made = a.made
      /\ \A q \in Routines : b.done[q] = IF q = r THEN a.done[r] + 1 ELSE a.done[q]
  BY <1>3, LastOne
<1>5. Place(prog, b, r) = "gone"
  <2>1. Len(Ops(prog, r)) \in Nat
    BY OpsAre
  <2>2. b.self[r] # 0 /\ b.done[r] = Len(Ops(prog, r))
    BY <1>3, <1>4
  <2> HIDE DEF b
  <2> QED BY <2>1, <2>2, PlaceIs
<1>7. prog' = prog /\ b' = b
  BY <1>1 DEF b, OpAt, Ops, Onward
<1> HIDE DEF b
<1>8. \A q \in Routines : at'[q] = IF q = r THEN "gone" ELSE at[q]
  BY <1>1 DEF Typed
<1>9. \A q \in Routines : at'[q] = Place(prog, b, q)
  <2> TAKE q \in Routines
  <2>1. CASE q = r
    BY <2>1, <1>5, <1>8
  <2>2. CASE q # r
    <3>1. Place(prog, b, q) = Place(prog, a, q)
      BY <2>2, <1>4, SamePlace
    <3> QED BY <2>2, <3>1, <1>3, <1>8 DEF Others
  <2> QED BY <2>1, <2>2
<1>10. \A q \in Routines : Named(q)'
  <2> TAKE q \in Routines
  <2>1. Place(prog, b, q) # "newborn"
    BY PlaceIs
  <2> QED BY <2>1, <1>1, <1>2, <1>8, <1>9 DEF Named
<1>11. Rests(b)'
  BY <1>1, <1>2, <1>3, <1>4, <1>7, <1>9, <1>10 DEF Rests
<1>12. CanGo(prog, a, r)' /\ LetterOf(prog, b, r)' = LetterOf(prog, b, r)
  BY <1>1, <1>4, <1>7 DEF CanGo, OpAt, Ops, LetterOf, Id
<1> QED BY <1>1, <1>3, <1>7, <1>11, <1>12 DEF Stopped, b

\* The routine that has a turn is a routine of a sound trace.
LEMMA TurnSound ==
  ASSUME prog \in Programs, NEW h, Story(h), rerun \in 0..Len(stack), NEW w \in Routines, HasTurn(h, w),
         NEW a, a = h[rerun]
  PROVE  /\ Sound(prog, a) /\ OneCreator(prog, a) /\ a.self[w] = current /\ a.self[w] # 0
         /\ a.done[w] < Len(Ops(prog, w))
  BY DEF Story, Chronicle, HasTurn

\* What a thread does changes nothing the scheduler knows.
LEMMA ThreadFrame ==
  ASSUME NEW r \in Routines, ThreadStep(r)
  PROVE  /\ UNCHANGED <<prog, schedVars>> /\ (signals \subseteq signals')
         /\ process = "running"
  BY DEF ThreadStep, Register, Go, Joined, CreateThread, ChildRegistered, Arrive, Die, Post, Await,
         PostFinish, Leave, Moves

\* The steps of a thread that moves.
LEMMA MovingStep ==
  ASSUME Typed, NEW r \in Routines, ThreadStep(r), ~Go(r), ~Register(r)
  PROVE  at[r] \in MovingPlaces
  BY DEF ThreadStep, Joined, CreateThread, ChildRegistered, Arrive, Die, Post, Await,
         PostFinish, Leave, Moves, MovingPlaces

\* Nobody is newborn when no thread waits for a new one.
LEMMA NoNewborn ==
  ASSUME IInv, process = "running", \A q \in Routines : at[q] # "creating" \/ binary > 0
  PROVE  \A q \in Routines : at[q] # "newborn"
<1> SUFFICES ASSUME NEW q \in Routines, at[q] = "newborn" PROVE FALSE
  OBVIOUS
<1>1. binary = 0 /\ \E c \in Routines : at[c] = "creating"
  BY DEF IInv, Orderly, OneNewborn
<1> QED BY <1>1

\* The thread that was let go on is the one that goes.
LEMMA GoesOn ==
  ASSUME IInv, prog \in Programs, NEW a, Sound(prog, a), NEW w \in Routines, a.self[w] = current,
         a.self[w] # 0, a.done[w] < Len(Ops(prog, w)), current \in Tids, wake[current] > 0, Rests(a),
         NEW r \in Routines, ThreadStep(r)
  PROVE  r = w /\ OnTheWay(a, w)' /\ wake'[current] = 0 /\ back'[current] = 0
<1>1. process = "running" /\ Typed /\ Orderly /\ self = a.self
  BY ThreadFrame DEF IInv, Rests
<1>2. Moving = {} /\ wake[current] + back[current] = 1 /\ wake[current] \in Nat /\ back[current] \in Nat
  BY <1>1 DEF Orderly, OneToken, Typed
<1>3. \A q \in Routines : at[q] \notin MovingPlaces
  BY <1>1, <1>2, MovingAt
<1>4. \A q \in Routines : at[q] # "newborn"
  BY <1>1, <1>3, NoNewborn DEF MovingPlaces
<1>5. Go(r)
  BY <1>1, <1>3, <1>4, MovingStep DEF Register, Moves
<1>6. /\ self[r] \in Tids /\ wake[self[r]] > 0 /\ wake' = [wake EXCEPT ![self[r]] = @ - 1]
      /\ UNCHANGED back
  BY <1>5 DEF Go
<1>7. self[r] = current
  BY <1>1, <1>6 DEF Orderly, OneToken, Typed
<1>8. r = w
  BY <1>1, <1>7 DEF Sound
<1>9. wake'[current] = wake[current] - 1 /\ back'[current] = back[current]
  BY <1>1, <1>6, <1>7 DEF Typed
<1>10. wake'[current] = 0 /\ back'[current] = 0
  BY ONLY <1>2, <1>9, wake[current] > 0
<1> QED BY <1>1, <1>5, <1>8, <1>10, GoSetsOut

\* The thread that is on its way is the one that moves, until it stops.
LEMMA MovesOn ==
  ASSUME IInv, prog \in Programs, handle = [q \in Routines |-> handle[q]], OneNameEach,
         NEW a, Sound(prog, a), NEW w \in Routines, a.self[w] # 0,
         wake[current] = 0, back[current] = 0, OnTheWay(a, w),
         NEW r \in Routines, ThreadStep(r), ~Die(r)
  PROVE  \/ OnTheWay(a, w)' /\ wake'[current] = 0 /\ back'[current] = 0
         \/ back'[current] > 0 /\ Stopped(a, w)'
<1>1. process = "running" /\ Typed /\ at[w] \in MovingPlaces
  BY ThreadFrame, WhichWay DEF IInv
<1>2. /\ Moving = {w} /\ self[w] = current /\ current \in Tids
      /\ \A t \in Tids : wake[t] = 0 /\ back[t] = 0
  BY <1>1, Mover
<1>3. ~Go(r)
  BY <1>2 DEF Go
<1>4. CASE Register(r)
  <2>1. UNCHANGED <<wake, back>>
    BY <1>4 DEF Register, sharedVars
  <2> QED BY <2>1, <1>1, <1>4, RegisterOnTheWay
<1>5. CASE ~Register(r)
  <2>1. r = w
    BY <1>1, <1>2, <1>3, <1>5, MovingStep, MovingAt
  <2>2. \A q \in Routines : at[q] = "creating" => q = w
    BY <1>1, <1>2, MovingAt DEF MovingPlaces
  <2>3. CASE Joined(w)
    <3>1. UNCHANGED <<wake, back>>
      BY <2>3 DEF Joined, sharedVars
    <3> QED BY <3>1, <2>3, <1>1, JoinedOnTheWay
  <2>4. CASE CreateThread(w)
    <3>1. UNCHANGED <<wake, back>> /\ at[w] = "going"
      BY <2>4 DEF CreateThread, sharedVars
    <3>2. \A q \in Routines : at[q] # "newborn"
      BY <3>1, <2>2, <1>1, NoNewborn
    <3> QED BY <3>1, <3>2, <2>4, <1>1, CreateThreadOnTheWay
  <2>5. CASE ChildRegistered(w)
    <3>1. UNCHANGED <<wake, back>> /\ binary > 0
      BY <2>5 DEF ChildRegistered, sharedVars
    <3>2. \A q \in Routines : at[q] # "newborn"
      BY <3>1, <1>1, NoNewborn
    <3> QED BY <3>1, <3>2, <2>5, <1>1, ChildRegisteredOnTheWay
  <2>6. CASE Arrive(w)
    <3>1. UNCHANGED <<wake, back>> /\ at[w] = "going"
      BY <2>6 DEF Arrive, Moves, sharedVars
    <3>2. \A q \in Routines : at[q] # "newborn"
      BY <3>1, <2>2, <1>1, NoNewborn
    <3> QED BY <3>1, <3>2, <2>6, <1>1, ArriveOnTheWay
  <2>7. CASE Post(w)
    <3>1. UNCHANGED <<wake, back>>
      BY <2>7 DEF Post
    <3> QED BY <3>1, <2>7, <1>1, PostOnTheWay
  <2>8. CASE PostFinish(w)
    <3>1. UNCHANGED <<wake, back>>
      BY <2>8 DEF PostFinish
    <3> QED BY <3>1, <2>8, <1>1, PostFinishOnTheWay
  <2>9. ASSUME back' = [back EXCEPT ![self[w]] = @ + 1], UNCHANGED current PROVE back'[current] > 0
    <3>1. back'[current] = back[current] + 1
      BY <2>9, <1>1, <1>2 DEF Typed
    <3> QED BY <3>1, <2>9
  <2>10. CASE Await(w)
    <3>1. back' = [back EXCEPT ![self[w]] = @ + 1] /\ UNCHANGED current
      BY <2>10 DEF Await, schedVars
    <3> QED BY <3>1, <2>9, <2>10, <1>1, AwaitStops
  <2>11. CASE Leave(w)
    <3>1. back' = [back EXCEPT ![self[w]] = @ + 1] /\ UNCHANGED current
      BY <2>11 DEF Leave, schedVars
    <3> QED BY <3>1, <2>9, <2>11, <1>1, LeaveStops
  <2>12. \/ Joined(w) \/ CreateThread(w) \/ ChildRegistered(w) \/ Arrive(w) \/ Post(w) \/ PostFinish(w)
         \/ Await(w) \/ Leave(w)
    BY <2>1, <1>3, <1>5 DEF ThreadStep
  <2> QED BY <2>3, <2>4, <2>5, <2>6, <2>7, <2>8, <2>10, <2>11, <2>12
<1> QED BY <1>4, <1>5

\* A thread that has stopped was the last to move.
LEMMA NobodyMoves ==
  ASSUME IInv, current \in Tids, back[current] > 0, NEW r \in Routines, ThreadStep(r) PROVE FALSE
<1>1. process = "running" /\ Typed /\ Orderly
  BY ThreadFrame DEF IInv
<1>2. Moving = {} /\ wake[current] + back[current] = 1 /\ wake[current] \in Nat /\ back[current] \in Nat
  <2>1. wake[current] \in Nat /\ back[current] \in Nat
    BY <1>1 DEF Typed
  <2>2. wake[current] + back[current] > 0
    BY ONLY <2>1, back[current] > 0
  <2> QED BY <2>1, <2>2, <1>1 DEF Orderly, OneToken
<1>3. \A q \in Routines : at[q] \notin MovingPlaces
  BY <1>1, <1>2, MovingAt
<1>4. \A q \in Routines : at[q] # "newborn"
  BY <1>1, <1>3, NoNewborn DEF MovingPlaces
<1>5. Go(r)
  BY <1>1, <1>3, <1>4, MovingStep DEF Register, Moves
<1>6. self[r] \in Tids /\ wake[self[r]] > 0
  BY <1>5 DEF Go
<1>7. wake[self[r]] \in Nat /\ back[self[r]] \in Nat
  BY <1>1, <1>6 DEF Typed
<1>8. self[r] = current
  BY <1>1, <1>6, <1>7 DEF Orderly, OneToken
<1>9. wake[current] > 0
  BY <1>6, <1>8
<1> QED BY ONLY <1>2, <1>9, back[current] > 0

-----------------------------------------------------------------------------
(* The two processes keep pace.                                            *)

\* The story is about the stack and what the scheduler knows, and nothing else.
LEMMA SameStory ==
  ASSUME NEW h, Story(h), UNCHANGED <<prog, stack, next, known>> PROVE Story(h)'
<1>1. Chronicle(prog, stack, h)' /\ CreatedFirst(stack)' /\ KnowsNext(prog, stack, h, known, next)'
  <2>1. Chronicle(prog, stack, h) /\ CreatedFirst(stack) /\ KnowsNext(prog, stack, h, known, next)
    BY DEF Story
  <2>2. Chronicle(prog', stack', h)
    BY <2>1
  <2>3. CreatedFirst(stack') /\ KnowsNext(prog', stack', h, known', next')
    BY <2>1
  <2> QED BY <2>2, <2>3
<1>2. (stack \in Seq(Transitions(prog)))'
  BY DEF Story
<1> QED BY <1>1, <1>2 DEF Story

\* Whose turn it is depends on nothing but the stack and the current thread.
LEMMA SameTurn ==
  ASSUME NEW h, NEW r, HasTurn(h, r), UNCHANGED <<prog, stack, known, rerun, current>> PROVE HasTurn(h, r)'
<1>1. Alive(stack)' = Alive(stack)
  BY DEF Alive
<1>2. CanGo(prog, h[rerun], r)' = CanGo(prog, h[rerun], r)
  BY DEF CanGo, OpAt, Ops
<1>3. Onward(prog, h[rerun], r)' = Onward(prog, h[rerun], r)
  BY DEF Onward, OpAt, Ops
<1>4. Len(Ops(prog, r))' = Len(Ops(prog, r))
  BY DEF Ops
<1> QED BY <1>1, <1>2, <1>3, <1>4 DEF HasTurn

\* A step of a thread.
LEMMA ThreadKeepsPace ==
  ASSUME IInv, KInv, OneNameEach, NEW r \in Routines, ThreadStep(r) PROVE KInv'
<1>1. /\ UNCHANGED <<prog, stage, current, stack, rerun, next, known>> /\ (signals \subseteq signals')
      /\ process = "running" /\ prog \in Programs /\ prog' \in Programs
  BY ThreadFrame DEF schedVars, KInv
<1>2. handle' = [q \in Routines |-> handle'[q]]
  BY DEF KInv, ThreadStep, Register, Go, Joined, CreateThread, ChildRegistered, Arrive, Die, Post,
         Await, PostFinish, Leave
<1>3. CASE Ending'
  BY <1>1, <1>2, <1>3 DEF KInv
<1>4. CASE ~Ending'
  <2>1. ~Ending
    BY <1>1, <1>4 DEF Ending
  <2>2. PICK h : Story(h) /\ KeepsPace(h)
    BY <2>1 DEF KInv
  <2>3. ~Die(r)
    BY <1>4 DEF Die, Ending
  <2>4. stage = "waiting" /\ current \in Tids
    <3>1. Moving # {} \/ (\E t \in Tids : wake[t] # 0)
      <4>1. CASE Go(r)
        BY <4>1 DEF Go, IInv, Typed
      <4>2. CASE Register(r)
        <5>1. at[r] = "newborn"
          BY <4>2 DEF Register, Moves
        <5>2. \E q \in Routines : at[q] = "creating"
          BY <5>1, <1>1 DEF IInv, Orderly, OneNewborn
        <5> QED BY <5>2 DEF Moving
      <4>3. CASE ~Go(r) /\ ~Register(r)
        BY <4>3, MovingStep, MovingAt DEF IInv
      <4> QED BY <4>1, <4>2, <4>3
    <3>2. stage \in {"waiting", "stopping"}
      BY <3>1, <1>1 DEF IInv, Orderly, Quiet
    <3> QED BY <3>2, <2>1 DEF Ending, IInv, Typed
  <2>5. PICK w \in Routines : Waits(h, w)
    BY <2>2, <2>4 DEF KeepsPace
  <2>6. PICK a : a = h[rerun]
    OBVIOUS
  <2>7. HasTurn(h, w) /\ rerun \in 0..Len(stack)
    BY <2>2, <2>4, <2>5 DEF Waits, KeepsPace
  <2>8. Sound(prog, a) /\ a.self[w] = current /\ a.self[w] # 0 /\ a.done[w] < Len(Ops(prog, w))
    BY <1>1, <2>2, <2>6, <2>7, TurnSound
  <2>9. ~(back[current] > 0)
    BY <2>4, NobodyMoves
  <2>10. \/ OnTheWay(a, w)' /\ wake'[current] = 0 /\ back'[current] = 0
         \/ back'[current] > 0 /\ Stopped(a, w)'
    <3>1. CASE wake[current] > 0 /\ Rests(a)
      BY <3>1, <1>1, <2>4, <2>8, GoesOn
    <3>2. CASE wake[current] = 0 /\ back[current] = 0 /\ OnTheWay(a, w)
      BY <3>2, <1>1, <2>3, <2>8, MovesOn DEF KInv
    <3> QED BY <3>1, <3>2, <2>5, <2>6, <2>9 DEF Waits
  <2>11. HasTurn(h, w)'
    BY <1>1, <2>7, SameTurn
  <2>12. h[rerun]' = a /\ current' = current
    BY <1>1, <2>6
  <2>13. Waits(h, w)'
    <3>1. CASE OnTheWay(a, w)' /\ wake'[current] = 0 /\ back'[current] = 0
      <4>1. OnTheWay(h[rerun], w)'
        BY <3>1, <2>12
      <4> QED BY <4>1, <3>1, <2>11, <2>12 DEF Waits
    <3>2. CASE back'[current] > 0 /\ Stopped(a, w)'
      <4>1. Stopped(h[rerun], w)'
        BY <3>2, <2>12
      <4> QED BY <4>1, <3>2, <2>11, <2>12 DEF Waits
    <3> QED BY <3>1, <3>2, <2>10
  <2>14. KeepsPace(h)'
    BY <1>1, <2>4, <2>7, <2>13 DEF KeepsPace
  <2>15. Story(h)'
    BY <1>1, <2>2, SameStory
  <2> QED BY <1>1, <1>2, <2>14, <2>15 DEF KInv
<1> QED BY <1>3, <1>4

\* The end that a signal or undefined behaviour brings is not taken back.
LEMMA EndingLasts == ASSUME Ending, SchedulerStep \/ Killed \/ Signalled PROVE Ending'
<1>1. CASE Fork \/ (\E t \in Tids : Resume(t)) \/ WaitOver \/ Read \/ EndTrace \/ ExitAtDeadlock
            \/ Branch \/ Finished
  <2>1. signals # {} \/ stage \notin {"ready", "search", "waiting", "reading", "between", "fork"}
    BY DEF Ending
  <2>2. stage \in {"ready", "search", "waiting", "reading", "between", "fork"} /\ signals' = signals
    BY <1>1 DEF Fork, Resume, WaitOver, Read, EndTrace, ExitAtDeadlock, Branch, Finished
  <2> QED BY <2>1, <2>2 DEF Ending
<1>2. CASE Reap
  BY <1>2 DEF Ending, Reap, AfterTrace
<1>3. CASE InterceptedExit
  BY <1>3 DEF Ending, InterceptedExit
<1>4. CASE Killed
  BY <1>4 DEF Ending, Killed, schedVars
<1>5. CASE Signalled
  BY <1>5 DEF Ending, Signalled
<1> QED BY <1>1, <1>2, <1>3, <1>4, <1>5 DEF SchedulerStep

\* A new trace is at its beginning.
LEMMA ForkRests == ASSUME prog \in Programs, Fork PROVE Rests(Begun)'
<1>1. /\ process' = "running" /\ UNCHANGED prog
      /\ at' = [r \in Routines |-> IF r = Main THEN "asleep" ELSE "unborn"]
      /\ done' = [r \in Routines |-> 0]
      /\ self' = [r \in Routines |-> IF r = Main THEN 1 ELSE 0]
      /\ handle' = [r \in Routines |-> IF r = Main THEN 1 ELSE 0]
  BY DEF Fork
<1>2. Main \in Routines
  BY RoutinesAssumption
<1>3. ASSUME NEW q \in Routines PROVE at'[q] = Place(prog, Begun, q) /\ handle'[q] = self'[q]
  <2>1. 0 < Len(Ops(prog, q))
    BY OpsAre
  <2>2. Begun.self[q] = (IF q = Main THEN 1 ELSE 0) /\ Begun.done[q] = 0
    BY DEF Begun
  <2>3. Place(prog, Begun, q) = IF q = Main THEN "asleep" ELSE "unborn"
    BY <2>1, <2>2, PlaceIs
  <2> QED BY <2>3, <1>1
<1>4. self' = Begun.self /\ done' = Begun.done /\ Begun.done[Main] = 0
  BY <1>1, <1>2 DEF Begun
<1>5. Begun' = Begun
  BY DEF Begun
<1>6. \A q \in Routines : Place(prog, Begun, q)' = Place(prog, Begun, q)
  BY <1>1 DEF Place, Ops, Begun
<1> HIDE DEF Begun
<1> QED BY <1>1, <1>3, <1>4, <1>5, <1>6 DEF Rests, Named

\* Where the trace process rests depends on nothing else.
LEMMA SameRests ==
  ASSUME NEW a, Rests(a), UNCHANGED <<prog, process, at, done, self, nextId, handle>> PROVE Rests(a)'
<1>1. \A q \in Routines : Place(prog, a, q)' = Place(prog, a, q)
  BY DEF Place, Ops
<1> QED BY <1>1 DEF Rests, Named

\* Where a thread stopped, the others at rest, depends on nothing else.
LEMMA SameStopped ==
  ASSUME NEW a, NEW r, Stopped(a, r),
         UNCHANGED <<prog, process, at, done, self, nextId, handle, mailbox>>
  PROVE  Stopped(a, r)'
<1> PICK b : b = Onward(prog, a, r)
  OBVIOUS
<1>1. CanGo(prog, a, r)' = CanGo(prog, a, r) /\ Onward(prog, a, r)' = b
  BY DEF CanGo, Onward, OpAt, Ops
<1>2. LetterOf(prog, b, r)' = LetterOf(prog, b, r)
  BY DEF LetterOf, OpAt, Ops, Id
<1>3. CanGo(prog, a, r) /\ Rests(b) /\ mailbox = LetterOf(prog, b, r)
  BY DEF Stopped
<1>4. Rests(b)'
  BY <1>3, SameRests
<1>5. Rests(Onward(prog, a, r))' /\ (mailbox = LetterOf(prog, Onward(prog, a, r), r))'
  BY <1>1, <1>2, <1>3, <1>4
<1> QED BY <1>1, <1>3, <1>5 DEF Stopped

\* A thread is let go on.
LEMMA ResumeKeepsPace ==
  ASSUME IInv, prog \in Programs, NEW h, Story(h), KeepsPace(h), NEW t \in Tids, Resume(t)
  PROVE  Story(h)' /\ KeepsPace(h)'
<1>1. /\ stage \in {"ready", "search"} /\ stage' = "waiting" /\ current' = t
      /\ IF rerun < Len(stack) THEN t = stack[rerun + 1].tid ELSE Enabled(t)
      /\ wake' = [wake EXCEPT ![t] = @ + 1]
      /\ UNCHANGED <<prog, traceVars, back, mailbox, stack, rerun, next, known>>
  BY DEF Resume
<1>2. Story(h)'
  BY <1>1, SameStory
<1>3. rerun \in 0..Len(stack) /\ Rests(h[rerun]) /\ Len(stack) \in Nat
  BY <1>1 DEF KeepsPace, Story
<1>4. PICK a : a = h[rerun]
  OBVIOUS
<1>5. Rests(a)'
  BY <1>1, <1>3, <1>4, SameRests DEF traceVars
<1>6. wake'[t] > 0
  <2>1. wake[t] \in Nat /\ wake'[t] = wake[t] + 1
    BY <1>1 DEF IInv, Typed
  <2> QED BY ONLY <2>1
<1>7. t # 0
  BY RoutinesAssumption DEF Tids
<1>8. Alive(stack)' = Alive(stack)
  BY <1>1 DEF Alive
<1>9. \E r \in Routines :
        /\ a.self[r] = t /\ a.done[r] < Len(Ops(prog, r))
        /\ IF rerun < Len(stack) THEN CanGo(prog, a, r) /\ h[rerun + 1] = Onward(prog, a, r)
           ELSE t \in Alive(stack)
  <2>1. CASE rerun < Len(stack)
    <3> PICK k : k = rerun + 1
      OBVIOUS
    <3>1. k \in 1..Len(stack) /\ k - 1 = rerun
      BY <2>1, <1>3
    <3>2. WentOn(prog, stack, h, k)
      BY <3>1 DEF Story, Chronicle
    <3>3. PICK r \in Routines : /\ CanGo(prog, a, r) /\ stack[rerun + 1] = Announced(prog, a, r)
                                /\ h[rerun + 1] = Onward(prog, a, r)
      BY <3>1, <3>2, <1>4 DEF WentOn
    <3>4. Sound(prog, a)
      BY <1>3, <1>4 DEF Story, Chronicle
    <3>5. t = a.self[r]
      BY <2>1, <3>3, <3>4, <1>1, AnnouncedIs
    <3> QED BY <2>1, <3>3, <3>5 DEF CanGo
  <2>2. CASE ~(rerun < Len(stack))
    <3>1. rerun = Len(stack)
      BY <2>2, <1>3
    <3>2. t \in Alive(stack)
      BY <2>2, <1>1 DEF Enabled
    <3>3. Chronicle(prog, stack, h) /\ CreatedFirst(stack)
      BY DEF Story
    <3>4. \E r \in Routines : h[Len(stack)].self[r] = t /\ h[Len(stack)].done[r] < Len(Ops(prog, r))
      BY <3>2, <3>3, <1>3, AliveRuns
    <3> QED BY <2>2, <3>1, <3>2, <3>4, <1>4
  <2> QED BY <2>1, <2>2
<1>10. PICK r \in Routines :
        /\ a.self[r] = t /\ a.done[r] < Len(Ops(prog, r))
        /\ IF rerun < Len(stack) THEN CanGo(prog, a, r) /\ h[rerun + 1] = Onward(prog, a, r)
           ELSE t \in Alive(stack)
  BY <1>9
<1>11. CanGo(prog, a, r)' = CanGo(prog, a, r) /\ Onward(prog, a, r)' = Onward(prog, a, r)
       /\ Ops(prog, r)' = Ops(prog, r)
  BY <1>1 DEF CanGo, Onward, OpAt, Ops
<1>12. h[rerun]' = a /\ h[rerun + 1]' = h[rerun + 1]
  BY <1>1, <1>4
<1>13. HasTurn(h, r)'
  BY <1>1, <1>7, <1>8, <1>10, <1>11, <1>12 DEF HasTurn
<1>14. Waits(h, r)'
  <2>1. Rests(h[rerun])' /\ wake'[current'] > 0
    BY <1>1, <1>5, <1>6, <1>12
  <2> QED BY <2>1, <1>13 DEF Waits
<1>15. KeepsPace(h)'
  BY <1>1, <1>3, <1>14 DEF KeepsPace
<1> QED BY <1>2, <1>15

\* The scheduler has waited long enough.
LEMMA WaitOverKeepsPace ==
  ASSUME IInv, prog \in Programs, NEW h, Story(h), KeepsPace(h), WaitOver
  PROVE  Story(h)' /\ KeepsPace(h)'
<1>1. /\ stage = "waiting" /\ back[current] > 0
      /\ IF rerun < Len(stack) THEN rerun' = rerun + 1 /\ stage' = "ready"
                               ELSE stage' = "reading" /\ UNCHANGED rerun
      /\ UNCHANGED <<prog, traceVars, wake, mailbox, current, stack, next, known>>
  BY DEF WaitOver
<1>2. Story(h)'
  BY <1>1, SameStory
<1>3. rerun \in 0..Len(stack) /\ Len(stack) \in Nat
  BY <1>1 DEF KeepsPace, Story
<1>4. PICK r \in Routines : Waits(h, r)
  BY <1>1 DEF KeepsPace
<1>5. PICK a : a = h[rerun]
  OBVIOUS
<1>6. HasTurn(h, r)
  BY <1>4 DEF Waits
<1>7. Stopped(a, r)
  <2>1. ~(wake[current] > 0 /\ Rests(a))
    <3> SUFFICES ASSUME wake[current] > 0, Rests(a) PROVE FALSE
      OBVIOUS
    <3>1. Orderly /\ current \in Tids /\ wake[current] \in Nat /\ back[current] \in Nat
      BY <1>1 DEF IInv, Rests, Typed
    <3>2. wake[current] + back[current] > 0 /\ wake[current] + back[current] # 1
      BY ONLY <3>1, <1>1, wake[current] > 0
    <3> QED BY <3>1, <3>2 DEF Orderly, OneToken
  <2>2. back[current] # 0
    BY ONLY <1>1
  <2> QED BY <2>1, <2>2, <1>4, <1>5 DEF Waits
<1>8. Stopped(a, r)'
  BY <1>1, <1>7, SameStopped DEF traceVars
<1>9. CASE rerun < Len(stack)
  <2>1. rerun' = rerun + 1 /\ stage' = "ready" /\ rerun + 1 \in 0..Len(stack)
    BY <1>1, <1>3, <1>9
  <2>2. h[rerun + 1] = Onward(prog, a, r)
    BY <1>5, <1>6, <1>9 DEF HasTurn
  <2>3. Rests(Onward(prog, a, r))'
    BY <1>8 DEF Stopped
  <2>4. Onward(prog, a, r)' = Onward(prog, a, r)
    BY <1>1 DEF Onward, OpAt, Ops
  <2>5. h[rerun]' = Onward(prog, a, r)'
    BY <2>1, <2>2, <2>4
  <2>6. Rests(h[rerun])'
    BY <2>3, <2>5
  <2>7. KeepsPace(h)'
    BY <2>1, <2>6, <1>1 DEF KeepsPace
  <2> QED BY <2>7, <1>2
<1>10. CASE ~(rerun < Len(stack))
  <2>1. rerun' = rerun /\ stage' = "reading" /\ rerun = Len(stack)
    BY <1>1, <1>3, <1>10
  <2>2. HasTurn(h, r)'
    BY <2>1, <1>1, <1>6, SameTurn
  <2>3. h[rerun]' = a
    BY <2>1, <1>5
  <2>4. Stopped(h[rerun], r)'
    BY <2>3, <1>8
  <2>5. KeepsPace(h)'
    BY <2>1, <2>2, <2>4, <1>1, <1>3 DEF KeepsPace
  <2> QED BY <2>5, <1>2
<1> QED BY <1>9, <1>10

\* The scheduler finds the id of a thread by its pthread_t, or gives it the next one.
LEMMA IdOfIs ==
  ASSUME Len(known) \in Nat, \A t \in 1..Len(known) : known[t] = t, NEW x \in 1..(Len(known) + 1)
  PROVE  IdOf(x) = x
<1> DEFINE L == Len(known)
           First(t) == known[t] = x /\ \A u \in 1..(t - 1) : known[u] # x
<1>1. CASE x \in 1..L
  <2>1. First(x)
    <3>1. \A u \in 1..(x - 1) : u \in 1..L /\ u # x
      BY <1>1
    <3> QED BY <1>1, <3>1
  <2>2. \A t \in 1..L : First(t) => t = x
    OBVIOUS
  <2>3. IdOf(x) = CHOOSE t \in 1..L : First(t)
    BY <1>1 DEF IdOf
  <2> HIDE DEF First
  <2> QED BY <1>1, <2>1, <2>2, <2>3
<1>2. CASE x \notin 1..L
  <2>1. x = L + 1
    BY <1>2
  <2>2. \A t \in 1..L : known[t] # x
    BY <1>2
  <2> QED BY <2>1, <2>2 DEF IdOf
<1> QED BY <1>1, <1>2

\* What the scheduler makes of the mailbox.
LEMMA ReadIs ==
  ASSUME prog \in Programs, NEW h, Story(h), rerun = Len(stack), NEW r \in Routines, NEW a, a = h[rerun],
         a.self[r] = current, Stopped(a, r), Read
  PROVE  /\ Learnt(prog, a, r, known, next, known', next')
         /\ stack' = Append(stack, Announced(prog, a, r))
<1> PICK b : b = Onward(prog, a, r)
  OBVIOUS
<1> PICK op : op = OpAt(prog, r, a.done[r] + 1)
  OBVIOUS
<1> PICK id : id = Id(b, op.to)
  OBVIOUS
<1> PICK read : read = Told(next, a.self[r], Transition(b.self[r], op.type, id))
  OBVIOUS
<1>1. /\ CanGo(prog, a, r) /\ mailbox = LetterOf(prog, b, r)
      /\ Sound(prog, a) /\ KnowsNext(prog, stack, h, known, next) /\ Len(stack) \in Nat
  BY DEF Stopped, Story, Chronicle
<1>2. /\ known \in Seq(Nat) /\ \A t \in 1..Len(known) : known[t] = t
      /\ a.made <= Len(known) /\ next[current] = Announced(prog, a, r) /\ Len(known) \in Nat
  <2>1. known \in Seq(Nat) /\ \A t \in 1..Len(known) : known[t] = t
    BY <1>1 DEF KnowsNext
  <2>2. a.made <= Len(known)
    BY <1>1 DEF KnowsNext
  <2>3. next[a.self[r]] = Announced(prog, a, r)
    BY <1>1 DEF KnowsNext, CanGo
  <2>4. Len(known) \in Nat
    BY <2>1, LenProperties
  <2> QED BY <2>1, <2>2, <2>3, <2>4
<1>3. mailbox = [tid |-> b.self[r], type |-> op.type, handle |-> id]
  BY <1>1, LetterIs
<1>4. a.done[r] + 1 \in Nat /\ a.made \in Nat
  BY <1>1 DEF Sound
<1>5. op.to \in Routines \cup {Nobody}
  BY <1>4, OpAtIs
<1>6. /\ b.self \in [Routines -> 0..b.made] /\ b.made \in Nat /\ b.made <= a.made + 1
      /\ op.to # Nobody => b.self[op.to] # 0
  <2>1. Sound(prog, b)
    BY <1>1, OnwardSound
  <2>2. b.made = IF Creates(op) THEN a.made + 1 ELSE a.made
    BY <1>1, OnwardIs
  <2>3. ASSUME op.to # Nobody PROVE b.self[op.to] # 0
    <3>1. op.to \in Routines
      BY <2>3, <1>5
    <3>2. CASE Creates(op)
      <4>1. b.self[op.to] = a.made + 1
        BY <3>1, <3>2, <1>1, OnwardIs
      <4> QED BY ONLY <4>1, <1>4
    <3>3. CASE ~Creates(op)
      <4>1. a.self[op.to] # 0
        BY <2>3, <3>3, <1>1 DEF CanGo
      <4>2. b.self = a.self
        <5>1. Sound(prog, a) /\ CanGo(prog, a, r)
          BY <1>1
        <5>2. b = Onward(prog, a, r) /\ op = OpAt(prog, r, a.done[r] + 1)
          OBVIOUS
        <5> QED BY ONLY <5>1, <5>2, <3>3, prog \in Programs, r \in Routines, OnwardIs
      <4> QED BY <4>1, <4>2
    <3> QED BY <3>2, <3>3
  <2>4. b.self \in [Routines -> 0..b.made] /\ b.made \in Nat
    BY <2>1 DEF Sound
  <2>5. b.made <= a.made + 1
    BY ONLY <2>2, <1>4
  <2> QED BY <2>3, <2>4, <2>5
<1>7. id = 0 \/ id \in 1..(Len(known) + 1)
  <2>1. CASE op.to = Nobody
    BY <2>1 DEF Id
  <2>2. CASE op.to # Nobody
    <3>1. id = b.self[op.to] /\ id \in 0..b.made /\ id # 0
      BY <2>2, <1>5, <1>6 DEF Id
    <3> QED BY ONLY <3>1, <1>2, <1>4, <1>6
  <2> QED BY <2>1, <2>2
<1>8. (IF mailbox.handle = 0 THEN 0 ELSE IdOf(mailbox.handle)) = id
  <2>1. mailbox.handle = id
    BY <1>3
  <2>2. id # 0 => IdOf(id) = id
    BY <1>2, <1>7, IdOfIs
  <2> QED BY <2>1, <2>2
<1>9. [next EXCEPT ![current] = Transition(mailbox.tid, mailbox.type, id)] = read
  BY <1>3 DEF Told
<1>10. mailbox.handle = id
  BY <1>3
<1>11. /\ known' = IF id = Len(known) + 1 THEN Append(known, id) ELSE known
       /\ next' = IF id = Len(known) + 1 THEN Append(read, Transition(id, "start", 0)) ELSE read
       /\ stack' = Append(stack, Announced(prog, a, r))
  BY <1>2, <1>8, <1>9, <1>10 DEF Read
<1>12. known' = WithNew(known, id) /\ next' = WithStart(read, known, id)
  BY <1>11 DEF WithNew, WithStart
<1>13. LearntBy(prog, a, r, b, op, id, read, known, next, known', next')
  BY <1>12 DEF LearntBy
<1>14. Learnt(prog, a, r, known, next, known', next')
  BY ONLY <1>13 DEF Learnt
<1> QED BY ONLY <1>11, <1>14

\* A transition that the trace did is put on the stack.
LEMMA ReadKeepsPace ==
  ASSUME prog \in Programs, NEW h, Story(h), KeepsPace(h), Read
  PROVE  \E g : Story(g)' /\ KeepsPace(g)'
<1>1. /\ stage = "reading" /\ stage' \in {"undefined", "search"} /\ rerun' = rerun + 1
      /\ UNCHANGED <<prog, process, at, done, self, nextId, handle>>
  BY DEF Read, traceVars
<1>2. rerun = Len(stack) /\ stack \in Seq(Transitions(prog)) /\ Chronicle(prog, stack, h) /\ Len(stack) \in Nat
      /\ CreatedFirst(stack) /\ KnowsNext(prog, stack, h, known, next)
  BY <1>1 DEF KeepsPace, Story
<1>3. PICK r \in Routines : HasTurn(h, r) /\ Stopped(h[rerun], r)
  BY <1>1 DEF KeepsPace
<1> PICK a : a = h[rerun]
  OBVIOUS
<1> PICK g : g = Longer(prog, stack, h, r)
  OBVIOUS
<1>4. a = h[Len(stack)] /\ a.self[r] = current /\ current \in Alive(stack) /\ Stopped(a, r)
      /\ CanGo(prog, a, r)
  BY <1>2, <1>3 DEF HasTurn, Stopped
<1>5. Learnt(prog, a, r, known, next, known', next') /\ stack' = Append(stack, Announced(prog, a, r))
  BY <1>2, <1>4, ReadIs
<1> PICK b : b = Onward(prog, a, r)
  OBVIOUS
<1>6. /\ stack' \in Seq(Transitions(prog)) /\ Len(stack') = Len(stack) + 1
      /\ stack'[Len(stack) + 1] = Announced(prog, a, r)
      /\ \A i \in 1..Len(stack) : stack'[i] = stack[i]
      /\ \A k \in 0..Len(stack) : g[k] = h[k]
      /\ g[Len(stack) + 1] = b
      /\ Chronicle(prog, stack', g)
  <2> PICK p, s, u : p = prog /\ s = stack /\ u = stack'
    OBVIOUS
  <2>1. /\ p \in Programs /\ s \in Seq(Transitions(p)) /\ Chronicle(p, s, h) /\ CanGo(p, h[Len(s)], r)
        /\ u = Append(s, Announced(p, h[Len(s)], r)) /\ g = Longer(p, s, h, r)
    BY <1>2, <1>4, <1>5
  <2>2. u \in Seq(Transitions(p)) /\ Len(u) = Len(s) + 1
    BY ONLY <2>1, r \in Routines, ChronicleGrows
  <2>3. u[Len(s) + 1] = Announced(p, h[Len(s)], r)
    BY ONLY <2>1, r \in Routines, ChronicleGrows
  <2>4. \A i \in 1..Len(s) : u[i] = s[i]
    BY ONLY <2>1, r \in Routines, ChronicleGrows
  <2>5. \A k \in 0..Len(s) : g[k] = h[k]
    BY ONLY <2>1, r \in Routines, ChronicleGrows
  <2>6. g[Len(s) + 1] = Onward(p, h[Len(s)], r)
    BY ONLY <2>1, r \in Routines, ChronicleGrows
  <2>7. Chronicle(p, u, g)
    BY ONLY <2>1, r \in Routines, ChronicleGrows
  <2> QED BY <2>2, <2>3, <2>4, <2>5, <2>6, <2>7, <1>4
<1>7. CreatedFirst(stack')
  BY <1>2, <1>4, <1>6, CreatedFirstGrows
<1>8. KnowsNext(prog, stack', g, known', next')
  <2> PICK p, s, u, ids, nexts, ids2, nexts2 :
        p = prog /\ s = stack /\ u = stack' /\ ids = known /\ nexts = next /\ ids2 = known' /\ nexts2 = next'
    OBVIOUS
  <2>1. /\ p \in Programs /\ s \in Seq(Transitions(p)) /\ Chronicle(p, s, h)
        /\ KnowsNext(p, s, h, ids, nexts) /\ CanGo(p, h[Len(s)], r)
        /\ Learnt(p, h[Len(s)], r, ids, nexts, ids2, nexts2)
    BY <1>2, <1>4, <1>5
  <2>2. Len(u) = Len(s) + 1
    BY <1>6
  <2>3. \A k \in 0..Len(s) : g[k] = h[k]
    BY <1>6
  <2>4. g[Len(s) + 1] = Onward(p, h[Len(s)], r)
    BY <1>4, <1>6
  <2>5. KnowsNext(p, u, g, ids2, nexts2)
    BY ONLY <2>1, <2>2, <2>3, <2>4, r \in Routines, LearnsNext
  <2> QED BY <2>5
<1>9. Story(g)'
  BY <1>1, <1>6, <1>7, <1>8 DEF Story
<1>10. Rests(b)'
  <2>1. Rests(b)
    BY <1>4 DEF Stopped
  <2> QED BY <2>1, <1>1, SameRests
<1>11. rerun' = Len(stack') /\ rerun' \in 0..Len(stack') /\ g[rerun]' = b
  BY <1>1, <1>2, <1>6
<1>12. KeepsPace(g)'
  <2>1. Rests(g[rerun])'
    BY <1>10, <1>11
  <2> QED BY <2>1, <1>1, <1>11 DEF KeepsPace
<1> QED BY <1>9, <1>12

\* The search goes back: the stack is cut short.
LEMMA BranchKeepsPace ==
  ASSUME prog \in Programs, NEW h, Story(h), Branch
  PROVE  Story(h)' /\ KeepsPace(h)'
<1>1. PICK k \in 0..(Len(stack) - 1) :
        /\ stack' = SubSeq(stack, 1, k)
        /\ next' = Undone(next, stack, k)
  BY DEF Branch, Undone
<1>2. stage' = "fork" /\ UNCHANGED <<prog, known>>
  BY DEF Branch
<1>3. /\ stack \in Seq(Transitions(prog)) /\ Chronicle(prog, stack, h) /\ CreatedFirst(stack)
      /\ KnowsNext(prog, stack, h, known, next) /\ Len(stack) \in Nat
  BY DEF Story
<1>4. k \in 0..Len(stack)
  BY <1>3
<1>5. /\ stack' \in Seq(Transitions(prog)) /\ Len(stack') = k
      /\ \A i \in 1..k : stack'[i] = stack[i]
      /\ Chronicle(prog, stack', h)
  BY <1>1, <1>3, <1>4, ChroniclePrefix
<1>6. CreatedFirst(stack')
  BY <1>3, <1>4, <1>5, CreatedFirstPrefix
<1>7. KnowsNext(prog, stack', h, known, next')
  <2>1. Len(stack') = k
    BY <1>5
  <2> QED BY <1>1, <1>3, <1>4, <2>1, BranchKnows
<1>8. Story(h)'
  BY <1>2, <1>5, <1>6, <1>7 DEF Story
<1>9. KeepsPace(h)'
  BY <1>2 DEF KeepsPace
<1> QED BY <1>8, <1>9

\* The steps of the scheduler, and the end of a trace process.
LEMMA SchedulerKeepsPace ==
  ASSUME IInv, KInv, SchedulerStep \/ Killed \/ Signalled PROVE KInv'
<1>1. prog \in Programs /\ prog' \in Programs
  <2>1. UNCHANGED prog
    BY DEF SchedulerStep, Fork, Resume, WaitOver, Read, EndTrace, ExitAtDeadlock, Reap,
           InterceptedExit, Branch, Finished, Killed, Signalled
  <2> QED BY <2>1 DEF KInv
<1>2. handle' = [r \in Routines |-> handle'[r]]
  BY DEF KInv, SchedulerStep, Fork, Resume, WaitOver, Read, EndTrace, ExitAtDeadlock, Reap,
         InterceptedExit, Branch, Finished, Killed, Signalled, traceVars
<1>3. CASE Ending
  BY <1>1, <1>2, <1>3, EndingLasts DEF KInv
<1>4. CASE ~Ending
  <2>1. PICK h : Story(h) /\ KeepsPace(h)
    BY <1>4 DEF KInv
  <2>2. CASE Fork
    <3>1. /\ UNCHANGED <<prog, stack, next, known>> /\ stage' = "ready" /\ rerun' = 0
      BY <2>2 DEF Fork
    <3>2. Story(h)'
      BY <2>1, <3>1, SameStory
    <3>3. h[0] = Begun /\ Len(stack) \in Nat
      BY <2>1 DEF Story, Chronicle
    <3>4. Rests(Begun)'
      BY <1>1, <2>2, ForkRests
    <3>5. h[rerun]' = Begun'
      BY <3>1, <3>3 DEF Begun
    <3>6. Rests(h[rerun])'
      BY <3>4, <3>5
    <3>7. KeepsPace(h)'
      BY <3>1, <3>3, <3>6 DEF KeepsPace
    <3> QED BY <3>2, <3>7, <1>1, <1>2 DEF KInv
  <2>3. CASE \E t \in Tids : Resume(t)
    BY <2>1, <2>3, <1>1, <1>2, ResumeKeepsPace DEF KInv
  <2>4. CASE WaitOver
    BY <2>1, <2>4, <1>1, <1>2, WaitOverKeepsPace DEF KInv
  <2>5. CASE Read
    <3>1. \E g : Story(g)' /\ KeepsPace(g)'
      BY <2>1, <2>5, <1>1, ReadKeepsPace
    <3> QED BY <3>1, <1>1, <1>2 DEF KInv
  <2>6. CASE EndTrace \/ Reap \/ Killed
    <3>1. UNCHANGED <<prog, stack, next, known>>
      BY <2>6 DEF EndTrace, Reap, Killed, schedVars
    <3>2. stage' \in {"ending", "undefined", "stopping", "between", "exited", "exiting"}
      BY <2>6 DEF EndTrace, Reap, Killed, schedVars, AfterTrace
    <3>3. Story(h)'
      BY <2>1, <3>1, SameStory
    <3>4. KeepsPace(h)'
      BY <3>2 DEF KeepsPace
    <3> QED BY <3>3, <3>4, <1>1, <1>2 DEF KInv
  <2>7. CASE ExitAtDeadlock \/ InterceptedExit \/ Finished \/ Signalled
    <3>1. Ending'
      BY <2>7 DEF ExitAtDeadlock, InterceptedExit, Finished, Signalled, Ending
    <3> QED BY <3>1, <1>1, <1>2 DEF KInv
  <2>8. CASE Branch
    BY <2>1, <2>8, <1>1, <1>2, BranchKeepsPace DEF KInv
  <2> QED BY <2>2, <2>3, <2>4, <2>5, <2>6, <2>7, <2>8 DEF SchedulerStep
<1> QED BY <1>3, <1>4

\* Nor does where a thread is on its way.
LEMMA SameWay ==
  ASSUME NEW a, NEW r, OnTheWay(a, r),
         UNCHANGED <<prog, process, at, done, self, nextId, handle, mailbox>>
  PROVE  OnTheWay(a, r)'
<1>1. \A n : OpAt(prog, r, n)' = OpAt(prog, r, n)
  BY DEF OpAt, Ops
<1>2. Onward(prog, a, r)' = Onward(prog, a, r) /\ CanGo(prog, a, r)' = CanGo(prog, a, r) /\ Ops(prog, r)' = Ops(prog, r)
  BY DEF Onward, CanGo, OpAt, Ops
<1>3. \A c, m : Others(c, m)' = Others(c, m)
  BY DEF Others, Place, Ops
<1>4. \A c : LetterOf(prog, c, r)' = LetterOf(prog, c, r)
  BY DEF LetterOf, OpAt, Ops, Id
<1>5. \A q \in Routines : Named(q)' = Named(q)
  BY DEF Named
<1>6. SetsOut(a, r) => SetsOut(a, r)'
  BY <1>2, <1>3 DEF SetsOut
<1>7. AwaitsChild(a, r) => AwaitsChild(a, r)'
  BY <1>1, <1>2, <1>3 DEF AwaitsChild
<1>8. HasChild(a, r) => HasChild(a, r)'
  BY <1>1, <1>2, <1>3 DEF HasChild
<1>9. Posts(a, r) => Posts(a, r)'
  BY <1>1, <1>2, <1>3, <1>4 DEF Posts
<1>10. Leaves(a, r) => Leaves(a, r)'
  BY <1>2, <1>3, <1>4 DEF Leaves
<1> QED BY <1>2, <1>5, <1>6, <1>7, <1>8, <1>9, <1>10 DEF OnTheWay

\* Nothing happens.
LEMMA StutterKeepsPace == ASSUME KInv, UNCHANGED vars PROVE KInv'
<1>1. UNCHANGED <<prog, process, at, done, self, nextId, handle, wake, back, mailbox, stage,
                  current, stack, rerun, next, known, signals>>
  BY DEF vars, traceVars, sharedVars, schedVars
<1>2. CASE Ending
  BY <1>1, <1>2 DEF KInv, Ending
<1>3. CASE ~Ending
  <2>1. PICK h : Story(h) /\ KeepsPace(h)
    BY <1>3 DEF KInv
  <2>2. Story(h)'
    BY <1>1, <2>1, SameStory
  <2>3. KeepsPace(h)'
    <3> PICK a : a = h[rerun]
      OBVIOUS
    <3>1. h[rerun]' = a
      BY <1>1
    <3>2. \A r \in Routines : HasTurn(h, r) => HasTurn(h, r)'
      BY <1>1, SameTurn
    <3>3. \A r \in Routines : Stopped(a, r) => Stopped(a, r)'
      BY <1>1, SameStopped
    <3>4. Rests(a) => Rests(a)'
      BY <1>1, SameRests
    <3>5. \A r \in Routines : OnTheWay(a, r) => OnTheWay(a, r)'
      BY <1>1, SameWay
    <3>6. \A r \in Routines : Waits(h, r) => Waits(h, r)'
      <4> SUFFICES ASSUME NEW r \in Routines, Waits(h, r) PROVE Waits(h, r)'
        OBVIOUS
      <4>1. HasTurn(h, r) /\ HasTurn(h, r)'
        BY <3>2 DEF Waits
      <4>2. CASE wake[current] > 0 /\ Rests(a)
        <5>1. Rests(h[rerun])' /\ wake'[current'] > 0
          BY <4>2, <3>1, <3>4, <1>1
        <5> QED BY <5>1, <4>1 DEF Waits
      <4>3. CASE wake[current] = 0 /\ back[current] = 0 /\ OnTheWay(a, r)
        <5>1. OnTheWay(h[rerun], r)' /\ wake'[current'] = 0 /\ back'[current'] = 0
          BY <4>3, <3>1, <3>5, <1>1
        <5> QED BY <5>1, <4>1 DEF Waits
      <4>4. CASE back[current] > 0 /\ Stopped(a, r)
        <5>1. Stopped(h[rerun], r)' /\ back'[current'] > 0
          BY <4>4, <3>1, <3>3, <1>1
        <5> QED BY <5>1, <4>1 DEF Waits
      <4> QED BY <4>2, <4>3, <4>4 DEF Waits
    <3>7. Rests(h[rerun]) => Rests(h[rerun])'
      BY <3>1, <3>4
    <3>8. \A r \in Routines : Stopped(h[rerun], r) => Stopped(h[rerun], r)'
      BY <3>1, <3>3
    <3> QED BY <1>1, <2>1, <3>2, <3>6, <3>7, <3>8 DEF KeepsPace
  <2> QED BY <1>1, <2>2, <2>3 DEF KInv
<1> QED BY <1>2, <1>3

\* A step of McHandshake keeps the processes in pace as long as a pthread_t stands for one thread.
LEMMA NextKeepsPace == IInv /\ KInv /\ OneNameEach /\ [Next]_vars => KInv'
<1> SUFFICES ASSUME IInv, KInv, OneNameEach, [Next]_vars PROVE KInv'
  OBVIOUS
<1>1. CASE \E r \in Routines : ThreadStep(r)
  BY <1>1, ThreadKeepsPace
<1>2. CASE SchedulerStep \/ Killed \/ Signalled
  BY <1>2, SchedulerKeepsPace
<1>3. CASE UNCHANGED vars
  BY <1>3, StutterKeepsPace
<1> QED BY <1>1, <1>2, <1>3 DEF Next

\* Nothing has been done, and main() is to start.
LEMMA BegunIs ==
  ASSUME NEW p \in Programs
  PROVE  /\ Sound(p, Begun) /\ OneCreator(p, Begun) /\ Counted(p, <<>>, Begun, 0)
         /\ Announced(p, Begun, Main) = Transition(1, "start", 0)
         /\ Begun.made = 1 /\ Begun.self[Main] = 1
         /\ \A r \in Routines : Begun.self[r] # 0 => r = Main
<1>1. /\ Begun.made = 1 /\ Main \in Routines
      /\ \A r \in Routines : Begun.self[r] = (IF r = Main THEN 1 ELSE 0) /\ Begun.done[r] = 0
      /\ Begun.self \in [Routines -> 0..1] /\ Begun.done \in [Routines -> Nat]
      /\ Begun = [self |-> Begun.self, done |-> Begun.done, made |-> Begun.made]
  BY RoutinesAssumption DEF Begun
<1>2. \A r \in Routines : Len(Ops(p, r)) \in Nat /\ Len(Ops(p, r)) >= 2
  BY OpsAre
<1>3. Ops(p, Main)[1] = Start
  BY <1>1, OpsAre
<1> HIDE DEF Begun
<1>4. Sound(p, Begun)
  BY <1>1, <1>2 DEF Sound
<1>5. \A r \in Routines : \A n \in 1..Len(Ops(p, r)) :
        Arrived(p, Begun, r, n) => Ops(p, r)[n].to = Nobody /\ ~Creates(Ops(p, r)[n])
  <2> SUFFICES ASSUME NEW r \in Routines, NEW n \in 1..Len(Ops(p, r)), Arrived(p, Begun, r, n)
               PROVE  Ops(p, r)[n].to = Nobody /\ ~Creates(Ops(p, r)[n])
    OBVIOUS
  <2>1. r = Main /\ n = 1
    BY <1>1, <1>2 DEF Arrived
  <2> QED BY <2>1, <1>3, CreatesNoFinish
<1>6. OneCreator(p, Begun)
  BY <1>5 DEF OneCreator
<1>7. Counted(p, <<>>, Begun, 0)
  <2>1. \A t : Ran(<<>>, t, 0) = {}
    BY DEF Ran
  <2>2. Cardinality({}) = 0
    BY FS_EmptySet
  <2> QED BY <2>1, <2>2, <1>1, <1>2 DEF Counted
<1>8. Announced(p, Begun, Main) = Transition(1, "start", 0)
  BY <1>1, StartAnnounced
<1> QED BY <1>1, <1>4, <1>6, <1>7, <1>8

\* The processes begin in pace.
LEMMA InitKeepsPace == Init => KInv
<1> SUFFICES ASSUME Init PROVE KInv
  OBVIOUS
<1> PICK h : h = [k \in {0} |-> Begun]
  OBVIOUS
<1>1. /\ prog \in Programs /\ stack = <<>> /\ stage = "fork"
      /\ known = <<1>> /\ next = <<Transition(1, "start", 0)>>
      /\ handle = [r \in Routines |-> handle[r]]
  BY DEF Init
<1>2. /\ Sound(prog, Begun) /\ OneCreator(prog, Begun) /\ Counted(prog, <<>>, Begun, 0)
      /\ Announced(prog, Begun, Main) = Transition(1, "start", 0)
      /\ Begun.made = 1 /\ Begun.self[Main] = 1
      /\ \A r \in Routines : Begun.self[r] # 0 => r = Main
  BY <1>1, BegunIs
<1>3. h[0] = Begun /\ Len(stack) = 0 /\ \A k \in 0..0 : k = 0
  BY <1>1
<1>4. stack \in Seq(Transitions(prog))
  BY <1>1
<1>5. Chronicle(prog, stack, h)
  <2>1. Grown(Begun, Begun)
    BY <1>2, GrownSelf
  <2>2. \A k \in 1..Len(stack) : WentOn(prog, stack, h, k)
    BY <1>3
  <2> QED BY <2>1, <2>2, <1>1, <1>2, <1>3 DEF Chronicle
<1>6. CreatedFirst(stack)
  BY <1>1 DEF CreatedFirst
<1>7. KnowsNext(prog, stack, h, known, next)
  <2>1. Transition(1, "start", 0) \in Transitions(prog)
    BY StartKind
  <2>2. known \in Seq(Nat) /\ next \in Seq(Transitions(prog)) /\ Len(known) = 1 /\ Len(next) = 1
        /\ known[1] = 1 /\ next[1] = Transition(1, "start", 0)
    BY <2>1, <1>1
  <2>3. \A t \in 1..Len(known) : t = 1
    BY <2>2
  <2> HIDE DEF Transition
  <2> QED BY <2>2, <2>3, <1>2, <1>3 DEF KnowsNext
<1>8. KeepsPace(h)
  BY <1>1 DEF KeepsPace
<1> QED BY <1>1, <1>4, <1>5, <1>6, <1>7, <1>8 DEF KInv, Story

\* A scheduler in pace with the trace knows it: ids, transitions and what comes next.
LEMMA InvSchedulerKnowsTrace == KInv => SchedulerKnowsTrace
<1> SUFFICES ASSUME KInv, stage \in {"ready", "search"}, rerun = Len(stack), signals = {},
                    NEW t \in Alive(stack)
             PROVE  \E r \in Routines :
                      /\ self[r] = t /\ at[r] = "asleep"
                      /\ done[r] = Cardinality({i \in DOMAIN stack : stack[i].tid = t})
                      /\ next[t].type = Pending(r).type
                      /\ Pending(r).to # Nobody => next[t].obj = self[Pending(r).to]
  BY DEF SchedulerKnowsTrace
<1>1. prog \in Programs
  BY DEF KInv
<1>2. PICK h : Story(h) /\ KeepsPace(h)
  BY DEF KInv, Ending
<1> PICK a : a = h[rerun]
  OBVIOUS
<1>3. /\ stack \in Seq(Transitions(prog)) /\ Chronicle(prog, stack, h) /\ CreatedFirst(stack)
      /\ KnowsNext(prog, stack, h, known, next) /\ Len(stack) \in Nat
  BY <1>2 DEF Story
<1>4. Rests(a)
  BY <1>2 DEF KeepsPace
<1>5. PICK r \in Routines : a.self[r] = t /\ t # 0 /\ a.done[r] < Len(Ops(prog, r))
  BY <1>1, <1>3, AliveRuns
<1>6. Sound(prog, a) /\ Counted(prog, stack, a, Len(stack))
  BY <1>3 DEF Chronicle
<1>7. self = a.self /\ done = a.done /\ at[r] = "asleep"
  BY <1>4, <1>5, PlaceIs DEF Rests
<1>8. done[r] = Cardinality({i \in DOMAIN stack : stack[i].tid = t})
  <2>1. Ran(stack, t, Len(stack)) = {i \in DOMAIN stack : stack[i].tid = t}
    <3>1. DOMAIN stack = 1..Len(stack)
      BY <1>3
    <3> QED BY <3>1 DEF Ran
  <2> QED BY <2>1, <1>5, <1>6, <1>7 DEF Counted
<1>9. Pending(r) = OpAt(prog, r, a.done[r])
  BY <1>5, <1>7, VisibleIs DEF Pending, OpAt
<1>10. next[t] = Announced(prog, a, r)
  BY <1>3, <1>5 DEF KnowsNext
<1>11. next[t].type = Pending(r).type /\ next[t].obj = Id(a, Pending(r).to)
  BY <1>1, <1>6, <1>9, <1>10, AnnouncedIs
<1> QED BY <1>5, <1>7, <1>8, <1>11 DEF Id

\* The scheduler knows the trace, for any program and any number of threads and traces, as
\* long as no pthread_t is used again: every thread that it takes for alive sleeps, has that
\* id, did as many operations as the stack says, and stopped at the one that next says.
THEOREM SchedulerKnows == Spec /\ []OneNameEach => []SchedulerKnowsTrace
<1> QED BY InitInv, NextInv, InitKeepsPace, NextKeepsPace, InvSchedulerKnowsTrace, PTL DEF Spec
==============================================================================
