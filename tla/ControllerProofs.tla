-------------------------- MODULE ControllerProofs --------------------------
(***************************************************************************)
(* Proofs about Controller: for any number of handlers, callers of Start   *)
(* and Stop and worker goroutines, invocations of a handler never overlap, *)
(* there is one loop at a time, and a closed done channel means that every *)
(* goroutine of the generation has finished.                               *)
(***************************************************************************)
EXTENDS Controller, FiniteSetTheorems, TLAPS

\* A loop, and every live goroutine, belongs to the current generation.
OwnedByCurrent ==
    /\ \A s \in Starter : loop[s].pc # "idle" => loop[s].gen = cur /\ cur # NoGen
    /\ \A w \in Worker : worker[w].pc # "idle" => worker[w].gen = cur /\ cur # NoGen

\* Generations are created in order and a closed one is not current.
GenOrder ==
    /\ \A p \in Stopper : stop[p].pc # "idle" => stop[p].gen # NoGen
    /\ cur <= gens
    /\ cur \notin closed
    /\ \A g \in closed : g <= gens

\* The key of every handler in progress is in runningHandlers.
Marked == \A w \in Worker : worker[w].pc = "run" => worker[w].key \in running

\* Facts about the loop's control state.
LoopState ==
    \A s \in Starter :
        /\ loop[s].pc = "start" => loop[s].todo # <<>>
        /\ loop[s].pc = "clear" => \A w \in Worker : worker[w].pc = "idle"

\* A late start needs a cancelled context, and leaves the loop away from the
\* only place from which another one is possible.
LateInv ==
    /\ \A g \in Gen : late[g] <= 1
    /\ \A g \in Gen : late[g] > 0 =>
          /\ g \in cancelled
          /\ \A s \in Starter : loop[s].gen = g => loop[s].pc # "start"

\* The inductive invariant.
IInv ==
    /\ TypeOK /\ OwnedByCurrent /\ GenOrder /\ Marked /\ LoopState
    /\ NoOverlap /\ SingleLoop /\ CounterExact /\ LateInv

LEMMA InitInv == Init => IInv
<1> SUFFICES ASSUME Init PROVE IInv
  OBVIOUS
<1> USE ControllerAssumption DEF Init, NoGen, Gen, IdleLoop, IdleWorker
<1>1. TypeOK
  BY DEF TypeOK
<1>2. OwnedByCurrent /\ GenOrder /\ Marked /\ LoopState /\ LateInv
  BY DEF OwnedByCurrent, GenOrder, Marked, LoopState, LateInv
<1>3. NoOverlap /\ SingleLoop
  BY DEF NoOverlap, SingleLoop, Looping
<1>4. CounterExact
  <2>1. Active = {}
    BY DEF Active
  <2> QED
    BY <2>1, FS_EmptySet DEF CounterExact
<1> QED
  BY <1>1, <1>2, <1>3, <1>4 DEF IInv

\* Every step keeps the shape of the state.
LEMMA TypeStep == IInv /\ [Next]_vars => TypeOK'
<1> SUFFICES ASSUME IInv, [Next]_vars PROVE TypeOK'
  OBVIOUS
<1> USE ControllerAssumption DEF IInv, TypeOK, NoGen, Gen, IdleLoop, IdleWorker, Goto
<1>1. ASSUME NEW h \in Handler, StatusRegister(h) PROVE TypeOK'
  BY <1>1 DEF StatusRegister
<1>2. ASSUME NEW s \in Starter, Start(s) PROVE TypeOK'
  BY <1>2 DEF Start
<1>3. ASSUME NEW s \in Starter, Snapshot(s) PROVE TypeOK'
  BY <1>3 DEF Snapshot
<1>4. ASSUME NEW s \in Starter, CheckCtx(s) PROVE TypeOK'
  <2>1. CASE Goto(s, "select", <<>>)
    BY <1>4, <2>1 DEF CheckCtx
  <2>2. CASE Goto(s, "start", loop[s].todo)
    BY <1>4, <2>2 DEF CheckCtx
  <2> QED
    BY <1>4, <2>1, <2>2 DEF CheckCtx
<1>5. ASSUME NEW s \in Starter, SkipRunning(s) PROVE TypeOK'
  BY <1>5 DEF SkipRunning, LoopState
<1>6. ASSUME NEW s \in Starter, NEW w \in Worker, StartHandler(s, w) PROVE TypeOK'
  <2>1. loop[s].todo \in Seq(Handler) /\ loop[s].todo # <<>>
    BY <1>6 DEF StartHandler, LoopState
  <2>2. Head(loop[s].todo) \in Handler /\ Tail(loop[s].todo) \in Seq(Handler)
    BY <2>1
  <2>3. loop[s].gen \in Gen
    BY <1>6 DEF StartHandler, OwnedByCurrent
  <2>4. loop' \in [Starter -> [pc : {"idle", "snapshot", "check", "start", "select",
                                   "wait", "clear"},
                             gen : Gen \cup {NoGen}, todo : Seq(Handler)]]
    BY <1>6, <2>2 DEF StartHandler
  <2>5. worker' \in [Worker -> [pc : {"idle", "run", "deleted"},
                              gen : Gen \cup {NoGen}, key : Handler \cup {<<>>}]]
    <3> DEFINE r == [pc |-> "run", gen |-> loop[s].gen, key |-> Head(loop[s].todo)]
    <3>1. r \in [pc : {"idle", "run", "deleted"}, gen : Gen \cup {NoGen},
                key : Handler \cup {<<>>}]
      BY <2>2, <2>3
    <3>2. worker' = [worker EXCEPT ![w] = r]
      BY <1>6 DEF StartHandler
    <3> HIDE DEF r
    <3> QED
      BY <3>1, <3>2
  <2>6. late' \in [Gen -> Nat]
    <3>1. late' = late \/ late' = [late EXCEPT ![loop[s].gen] = late[loop[s].gen] + 1]
      BY <1>6 DEF StartHandler
    <3>2. late \in [Gen -> Nat] /\ late[loop[s].gen] + 1 \in Nat
      BY <2>3
    <3> HIDE DEF Gen, IInv, TypeOK
    <3> QED
      BY <2>3, <3>1, <3>2
  <2>7. running' \subseteq Handler /\ wg' \in Nat
    BY <1>6, <2>2 DEF StartHandler
  <2>8. UNCHANGED <<handlers, cur, gens, cancelled, closed, stop, tick>>
    BY <1>6 DEF StartHandler
  <2> QED
    BY <2>4, <2>5, <2>6, <2>7, <2>8
<1>7. ASSUME NEW s \in Starter, SelectTick(s) PROVE TypeOK'
  BY <1>7 DEF SelectTick
<1>8. ASSUME NEW s \in Starter, SelectDone(s) PROVE TypeOK'
  BY <1>8 DEF SelectDone
<1>9. ASSUME NEW s \in Starter, WaitWorkers(s) PROVE TypeOK'
  BY <1>9 DEF WaitWorkers
<1>10. ASSUME NEW s \in Starter, CloseDone(s) PROVE TypeOK'
  <2>1. loop[s].gen \in Gen
    BY <1>10 DEF CloseDone, OwnedByCurrent
  <2>2. loop' \in [Starter -> [pc : {"idle", "snapshot", "check", "start", "select",
                                   "wait", "clear"},
                             gen : Gen \cup {NoGen}, todo : Seq(Handler)]]
    BY <1>10 DEF CloseDone
  <2> QED
    BY <1>10, <2>1, <2>2 DEF CloseDone
<1>11. ASSUME NEW w \in Worker, HandlerReturns(w) PROVE TypeOK'
  BY <1>11 DEF HandlerReturns
<1>12. ASSUME NEW w \in Worker, WorkerDone(w) PROVE TypeOK'
  <2>1. IsFiniteSet(Active) /\ w \in Active
    BY <1>12, FS_Subset DEF WorkerDone, Active
  <2>2. wg - 1 \in Nat
    BY <2>1, FS_EmptySet, FS_CardinalityType DEF CounterExact
  <2> QED
    BY <1>12, <2>2 DEF WorkerDone
<1>13. CASE TickerFires
  BY <1>13 DEF TickerFires
<1>14. ASSUME NEW p \in Stopper, StopRead(p) PROVE TypeOK'
  BY <1>14 DEF StopRead
<1>15. ASSUME NEW p \in Stopper, StopCancel(p) PROVE TypeOK'
  BY <1>15 DEF StopCancel, GenOrder
<1>16. ASSUME NEW p \in Stopper, StopReturn(p) PROVE TypeOK'
  BY <1>16 DEF StopReturn
<1>17. CASE UNCHANGED vars
  BY <1>17 DEF vars
<1> QED
  BY <1>1, <1>2, <1>3, <1>4, <1>5, <1>6, <1>7, <1>8, <1>9, <1>10, <1>11, <1>12,
     <1>13, <1>14, <1>15, <1>16, <1>17 DEF Next, LoopStep

\* Every step keeps loops and goroutines with the current generation.
LEMMA OwnedStep == IInv /\ [Next]_vars => (OwnedByCurrent /\ GenOrder)'
<1> SUFFICES ASSUME IInv, [Next]_vars PROVE (OwnedByCurrent /\ GenOrder)'
  OBVIOUS
<1> USE ControllerAssumption
    DEF IInv, TypeOK, OwnedByCurrent, GenOrder, NoGen, Gen, IdleLoop, IdleWorker, Goto
<1>1. ASSUME NEW h \in Handler, StatusRegister(h) PROVE (OwnedByCurrent /\ GenOrder)'
  BY <1>1 DEF StatusRegister
<1>2. ASSUME NEW s \in Starter, Start(s) PROVE (OwnedByCurrent /\ GenOrder)'
  BY <1>2 DEF Start
<1>3. ASSUME NEW s \in Starter, Snapshot(s) PROVE (OwnedByCurrent /\ GenOrder)'
  BY <1>3 DEF Snapshot
<1>4. ASSUME NEW s \in Starter, CheckCtx(s) PROVE (OwnedByCurrent /\ GenOrder)'
  <2>1. PICK pc, todo : Goto(s, pc, todo)
    BY <1>4 DEF CheckCtx
  <2> QED
    BY <1>4, <2>1 DEF CheckCtx
<1>5. ASSUME NEW s \in Starter, SkipRunning(s) PROVE (OwnedByCurrent /\ GenOrder)'
  BY <1>5 DEF SkipRunning
<1>6. ASSUME NEW s \in Starter, NEW w \in Worker, StartHandler(s, w)
      PROVE (OwnedByCurrent /\ GenOrder)'
  BY <1>6 DEF StartHandler
<1>7. ASSUME NEW s \in Starter, SelectTick(s) PROVE (OwnedByCurrent /\ GenOrder)'
  BY <1>7 DEF SelectTick
<1>8. ASSUME NEW s \in Starter, SelectDone(s) PROVE (OwnedByCurrent /\ GenOrder)'
  BY <1>8 DEF SelectDone
<1>9. ASSUME NEW s \in Starter, WaitWorkers(s) PROVE (OwnedByCurrent /\ GenOrder)'
  BY <1>9 DEF WaitWorkers
<1>10. ASSUME NEW s \in Starter, CloseDone(s) PROVE (OwnedByCurrent /\ GenOrder)'
  BY <1>10 DEF CloseDone, SingleLoop, Looping, LoopState
<1>11. ASSUME NEW w \in Worker, HandlerReturns(w) PROVE (OwnedByCurrent /\ GenOrder)'
  BY <1>11 DEF HandlerReturns
<1>12. ASSUME NEW w \in Worker, WorkerDone(w) PROVE (OwnedByCurrent /\ GenOrder)'
  BY <1>12 DEF WorkerDone
<1>13. CASE TickerFires
  BY <1>13 DEF TickerFires
<1>14. ASSUME NEW p \in Stopper, StopRead(p) PROVE (OwnedByCurrent /\ GenOrder)'
  BY <1>14 DEF StopRead
<1>15. ASSUME NEW p \in Stopper, StopCancel(p) PROVE (OwnedByCurrent /\ GenOrder)'
  BY <1>15 DEF StopCancel
<1>16. ASSUME NEW p \in Stopper, StopReturn(p) PROVE (OwnedByCurrent /\ GenOrder)'
  BY <1>16 DEF StopReturn
<1>17. CASE UNCHANGED vars
  BY <1>17 DEF vars
<1> QED
  BY <1>1, <1>2, <1>3, <1>4, <1>5, <1>6, <1>7, <1>8, <1>9, <1>10, <1>11, <1>12,
     <1>13, <1>14, <1>15, <1>16, <1>17 DEF Next, LoopStep

\* Every step keeps one loop at a time and its control state.
LEMMA LoopStepInv == IInv /\ [Next]_vars => (SingleLoop /\ LoopState)'
<1> SUFFICES ASSUME IInv, [Next]_vars PROVE (SingleLoop /\ LoopState)'
  OBVIOUS
<1> USE ControllerAssumption
    DEF IInv, TypeOK, OwnedByCurrent, SingleLoop, Looping, LoopState,
        NoGen, Gen, IdleLoop, IdleWorker, Goto
<1>1. ASSUME NEW h \in Handler, StatusRegister(h) PROVE (SingleLoop /\ LoopState)'
  BY <1>1 DEF StatusRegister
<1>2. ASSUME NEW s \in Starter, Start(s) PROVE (SingleLoop /\ LoopState)'
  BY <1>2 DEF Start
<1>3. ASSUME NEW s \in Starter, Snapshot(s) PROVE (SingleLoop /\ LoopState)'
  BY <1>3 DEF Snapshot
<1>4. ASSUME NEW s \in Starter, CheckCtx(s) PROVE (SingleLoop /\ LoopState)'
  <2>1. loop[s].pc = "check" /\ worker' = worker
    BY <1>4 DEF CheckCtx
  <2>2. CASE loop' = [loop EXCEPT ![s] = [pc |-> "select", gen |-> loop[s].gen,
                                          todo |-> <<>>]]
    BY <2>1, <2>2
  <2>3. CASE /\ loop[s].todo # <<>>
             /\ loop' = [loop EXCEPT ![s] = [pc |-> "start", gen |-> loop[s].gen,
                                             todo |-> loop[s].todo]]
    BY <2>1, <2>3
  <2> QED
    BY <1>4, <2>2, <2>3 DEF CheckCtx
<1>5. ASSUME NEW s \in Starter, SkipRunning(s) PROVE (SingleLoop /\ LoopState)'
  BY <1>5 DEF SkipRunning
<1>6. ASSUME NEW s \in Starter, NEW w \in Worker, StartHandler(s, w)
      PROVE (SingleLoop /\ LoopState)'
  BY <1>6 DEF StartHandler
<1>7. ASSUME NEW s \in Starter, SelectTick(s) PROVE (SingleLoop /\ LoopState)'
  BY <1>7 DEF SelectTick
<1>8. ASSUME NEW s \in Starter, SelectDone(s) PROVE (SingleLoop /\ LoopState)'
  BY <1>8 DEF SelectDone
<1>9. ASSUME NEW s \in Starter, WaitWorkers(s) PROVE (SingleLoop /\ LoopState)'
  <2>1. IsFiniteSet(Active) /\ Cardinality(Active) = 0
    BY <1>9, FS_Subset DEF WaitWorkers, Active, CounterExact
  <2>2. Active = {}
    BY <2>1, FS_EmptySet
  <2>3. \A w \in Worker : worker[w].pc = "idle"
    BY <2>2 DEF Active
  <2> QED
    BY <1>9, <2>3 DEF WaitWorkers
<1>10. ASSUME NEW s \in Starter, CloseDone(s) PROVE (SingleLoop /\ LoopState)'
  BY <1>10 DEF CloseDone
<1>11. ASSUME NEW w \in Worker, HandlerReturns(w) PROVE (SingleLoop /\ LoopState)'
  BY <1>11 DEF HandlerReturns
<1>12. ASSUME NEW w \in Worker, WorkerDone(w) PROVE (SingleLoop /\ LoopState)'
  BY <1>12 DEF WorkerDone
<1>13. CASE UNCHANGED <<loop, worker>>
  BY <1>13
<1> QED
  BY <1>1, <1>2, <1>3, <1>4, <1>5, <1>6, <1>7, <1>8, <1>9, <1>10, <1>11, <1>12, <1>13
     DEF Next, LoopStep, TickerFires, StopRead, StopCancel, StopReturn, vars

\* Every step keeps the keys of the handlers in progress marked and distinct.
LEMMA OverlapStep == IInv /\ [Next]_vars => (Marked /\ NoOverlap)'
<1> SUFFICES ASSUME IInv, [Next]_vars PROVE (Marked /\ NoOverlap)'
  OBVIOUS
<1> USE DEF IInv, TypeOK, Marked, NoOverlap, IdleWorker
<1>1. ASSUME NEW s \in Starter, NEW w \in Worker, StartHandler(s, w)
      PROVE (Marked /\ NoOverlap)'
  BY <1>1 DEF StartHandler
<1>2. ASSUME NEW w \in Worker, HandlerReturns(w) PROVE (Marked /\ NoOverlap)'
  BY <1>2 DEF HandlerReturns
<1>3. ASSUME NEW w \in Worker, WorkerDone(w) PROVE (Marked /\ NoOverlap)'
  BY <1>3 DEF WorkerDone
<1>4. CASE UNCHANGED <<running, worker>>
  BY <1>4
<1> QED
  BY <1>1, <1>2, <1>3, <1>4
     DEF Next, LoopStep, StatusRegister, Start, Snapshot, CheckCtx, SkipRunning,
         SelectTick, SelectDone, WaitWorkers, CloseDone, TickerFires, StopRead,
         StopCancel, StopReturn, vars

\* Every step keeps the WaitGroup counter exact.
LEMMA CounterStep == IInv /\ [Next]_vars => CounterExact'
<1> SUFFICES ASSUME IInv, [Next]_vars PROVE CounterExact'
  OBVIOUS
<1> USE DEF IInv, CounterExact
<1>0. IsFiniteSet(Active) /\ worker \in [Worker -> [pc : {"idle", "run", "deleted"},
                              gen : Gen \cup {NoGen}, key : Handler \cup {<<>>}]]
  BY ControllerAssumption, FS_Subset DEF Active, TypeOK
<1>1. ASSUME NEW s \in Starter, NEW w \in Worker, StartHandler(s, w)
      PROVE CounterExact'
  <2>1. w \notin Active /\ Active' = Active \cup {w}
    BY <1>0, <1>1 DEF StartHandler, Active
  <2> QED
    BY <1>0, <1>1, <2>1, FS_AddElement DEF StartHandler
<1>2. ASSUME NEW w \in Worker, HandlerReturns(w) PROVE CounterExact'
  <2>1. Active' = Active
    BY <1>0, <1>2 DEF HandlerReturns, Active
  <2> QED
    BY <1>2, <2>1 DEF HandlerReturns
<1>3. ASSUME NEW w \in Worker, WorkerDone(w) PROVE CounterExact'
  <2>1. w \in Active /\ Active' = Active \ {w}
    BY <1>0, <1>3 DEF WorkerDone, Active, IdleWorker
  <2> QED
    BY <1>0, <1>3, <2>1, FS_RemoveElement DEF WorkerDone
<1>4. CASE UNCHANGED <<wg, worker>>
  BY <1>4 DEF Active
<1> QED
  BY <1>1, <1>2, <1>3, <1>4
     DEF Next, LoopStep, StatusRegister, Start, Snapshot, CheckCtx, SkipRunning,
         SelectTick, SelectDone, WaitWorkers, CloseDone, TickerFires, StopRead,
         StopCancel, StopReturn, vars

\* Every step keeps late starts to one per generation.
LEMMA LateStep == IInv /\ [Next]_vars => LateInv'
<1> SUFFICES ASSUME IInv, [Next]_vars PROVE LateInv'
  OBVIOUS
<1> USE DEF IInv, TypeOK, LateInv, NoGen, IdleLoop, Goto
<1>1. ASSUME NEW s \in Starter, NEW w \in Worker, StartHandler(s, w) PROVE LateInv'
  <2> DEFINE g == loop[s].gen
  <2>1. g \in Gen /\ loop[s].pc = "start" /\ cancelled' = cancelled
    BY <1>1 DEF StartHandler, OwnedByCurrent
  <2>2. loop' = [loop EXCEPT ![s] = [pc |-> "check", gen |-> g, todo |-> Tail(loop[s].todo)]]
    BY <1>1 DEF StartHandler
  <2>3. late[g] = 0
    BY <2>1
  <2>4. CASE late' = late
    BY <2>1, <2>2, <2>4
  <2>5. CASE g \in cancelled /\ late' = [late EXCEPT ![g] = late[g] + 1]
    <3>1. ASSUME NEW t \in Starter PROVE loop'[t].gen = g => loop'[t].pc # "start"
      <4>1. CASE t = s
        BY <2>2, <4>1
      <4>2. CASE t # s
        <5>1. loop[t].pc # "start"
          BY <2>1, <4>2 DEF SingleLoop, Looping
        <5> QED
          BY <2>2, <4>2, <5>1
      <4> QED
        BY <4>1, <4>2
    <3>2. \A h \in Gen : late'[h] = IF h = g THEN 1 ELSE late[h]
      BY <2>1, <2>3, <2>5
    <3>3. \A h \in Gen \ {g} : \A t \in Starter :
             loop'[t].gen = h /\ loop'[t].pc = "start" =>
               loop[t].gen = h /\ loop[t].pc = "start"
      BY <2>1, <2>2
    <3> QED
      BY <2>1, <2>5, <3>1, <3>2, <3>3
  <2> QED
    BY <1>1, <2>4, <2>5 DEF StartHandler
<1>2. ASSUME NEW s \in Starter, Start(s) PROVE LateInv'
  BY <1>2 DEF Start
<1>3. ASSUME NEW s \in Starter, Snapshot(s) PROVE LateInv'
  BY <1>3 DEF Snapshot
<1>4. ASSUME NEW s \in Starter, CheckCtx(s) PROVE LateInv'
  <2>1. late' = late /\ cancelled' = cancelled /\ loop[s].pc = "check"
    BY <1>4 DEF CheckCtx
  <2>2. CASE loop' = [loop EXCEPT ![s] = [pc |-> "select", gen |-> loop[s].gen,
                                          todo |-> <<>>]]
    BY <2>1, <2>2
  <2>3. CASE /\ loop[s].gen \notin cancelled
             /\ loop' = [loop EXCEPT ![s] = [pc |-> "start", gen |-> loop[s].gen,
                                             todo |-> loop[s].todo]]
    BY <2>1, <2>3
  <2> QED
    BY <1>4, <2>2, <2>3 DEF CheckCtx
<1>5. ASSUME NEW s \in Starter, SkipRunning(s) PROVE LateInv'
  BY <1>5 DEF SkipRunning
<1>6. ASSUME NEW s \in Starter, SelectTick(s) PROVE LateInv'
  BY <1>6 DEF SelectTick
<1>7. ASSUME NEW s \in Starter, SelectDone(s) PROVE LateInv'
  BY <1>7 DEF SelectDone
<1>8. ASSUME NEW s \in Starter, WaitWorkers(s) PROVE LateInv'
  BY <1>8 DEF WaitWorkers
<1>9. ASSUME NEW s \in Starter, CloseDone(s) PROVE LateInv'
  BY <1>9 DEF CloseDone
<1>10. ASSUME NEW p \in Stopper, StopCancel(p) PROVE LateInv'
  BY <1>10 DEF StopCancel
<1>11. CASE UNCHANGED <<loop, late, cancelled>>
  BY <1>11
<1> QED
  BY <1>1, <1>2, <1>3, <1>4, <1>5, <1>6, <1>7, <1>8, <1>9, <1>10, <1>11
     DEF Next, LoopStep, StatusRegister, HandlerReturns, WorkerDone, TickerFires,
         StopRead, StopReturn, vars

\* IInv is an invariant of the controller.
THEOREM Invariance == Spec => []IInv
<1>1. Init => IInv
  BY InitInv
<1>2. IInv /\ [Next]_vars => IInv'
  BY TypeStep, OwnedStep, LoopStepInv, OverlapStep, CounterStep, LateStep DEF IInv
<1> QED
  BY <1>1, <1>2, PTL DEF Spec

\* The comment on Start ("A handler is never started while its previous
\* invocation is active") holds for any handlers, callers and registrations.
THEOREM HandlersNeverOverlap == Spec => []NoOverlap
<1>1. IInv => NoOverlap
  BY DEF IInv
<1> QED
  BY <1>1, Invariance, PTL

\* Never two loops, so WaitGroup.Add never races with another loop's Wait.
THEOREM OneLoopAtATime == Spec => []SingleLoop
<1>1. IInv => SingleLoop
  BY DEF IInv
<1> QED
  BY <1>1, Invariance, PTL

\* A Stop that returned left no goroutine of its generation behind: those
\* that live belong to the current generation, which is not closed.
THEOREM StopLeavesNoWorker == Spec => []StoppedIsQuiet
<1>1. IInv => StoppedIsQuiet
  BY DEF IInv, StoppedIsQuiet, Active, OwnedByCurrent, GenOrder
<1> QED
  BY <1>1, Invariance, PTL

\* The WaitGroup counter equals the number of live goroutines, never negative.
THEOREM WaitGroupExact == Spec => []CounterExact
<1>1. IInv => CounterExact
  BY DEF IInv
<1> QED
  BY <1>1, Invariance, PTL

\* After cancel() at most one handler of the generation is still started.
THEOREM OneLateStart == Spec => []AtMostOneLateStart
<1>1. IInv => AtMostOneLateStart
  BY DEF IInv, LateInv, AtMostOneLateStart
<1> QED
  BY <1>1, Invariance, PTL

\* Type correctness of the controller's state.
THEOREM TypeCorrect == Spec => []TypeOK
<1>1. IInv => TypeOK
  BY DEF IInv
<1> QED
  BY <1>1, Invariance, PTL
=============================================================================
