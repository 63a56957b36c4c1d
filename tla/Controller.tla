----------------------------- MODULE Controller -----------------------------
(***************************************************************************)
(* The status controller (internal/service/controller/controller.go): the  *)
(* process-wide loop that runs the registered status handlers at once and  *)
(* then on every tick of a 30 s ticker.                                    *)
(*                                                                         *)
(* A call of Start that finds no loop creates a generation: a context, its *)
(* cancel function and a done channel.  c.cancel and c.done are always     *)
(* assigned together, so both are one variable, cur.  Each section the     *)
(* code runs under lifecycleMu or mu is one atomic step; everything else   *)
(* interleaves: the loop, its worker goroutines, callers of Stop and of    *)
(* StatusRegister, and the ticker.                                         *)
(***************************************************************************)
EXTENDS Integers, Sequences, FiniteSets

CONSTANTS
    Handler,        \* the handler functions (their code pointers are the keys)
    Starter,        \* goroutines that call Start
    Stopper,        \* goroutines that call Stop
    Worker,         \* goroutines that startHandler may spawn at the same time
    MaxRegister,    \* bound: calls of StatusRegister
    MaxGen          \* bound: calls of Start that create a loop

ASSUME ControllerAssumption ==
    /\ IsFiniteSet(Worker)
    /\ MaxRegister \in Nat
    /\ MaxGen \in Nat

NoGen == 0
Gen == 1..MaxGen

VARIABLES
    handlers,   \* c.handlers: registered functions, duplicates allowed
    running,    \* c.runningHandlers: keys with an invocation in progress
    wg,         \* c.workerWG: its counter
    cur,        \* c.cancel and c.done: the current generation, or NoGen (nil)
    gens,       \* number of generations created so far
    cancelled,  \* generations whose context is cancelled
    closed,     \* generations whose done channel is closed
    loop,       \* per Starter: where its call of Start is
    stop,       \* per Stopper: where its call of Stop is
    worker,     \* per Worker: the goroutine spawned by startHandler
    tick,       \* the ticker: not created yet ("none"), or ticker.C's buffer
    late        \* history: handlers started after their context was cancelled

vars == <<handlers, running, wg, cur, gens, cancelled, closed, loop, stop,
          worker, tick, late>>

IdleLoop == [pc |-> "idle", gen |-> NoGen, todo |-> <<>>]
IdleWorker == [pc |-> "idle", gen |-> NoGen, key |-> <<>>]

\* Start calls between the first lifecycleMu section and the deferred one.
Looping == {s \in Starter : loop[s].pc # "idle"}
\* Goroutines that the WaitGroup counts.
Active == {w \in Worker : worker[w].pc # "idle"}

Init ==
    /\ handlers = <<>>
    /\ running = {}
    /\ wg = 0
    /\ cur = NoGen
    /\ gens = 0
    /\ cancelled = {}
    /\ closed = {}
    /\ loop = [s \in Starter |-> IdleLoop]
    /\ stop = [p \in Stopper |-> [pc |-> "idle", gen |-> NoGen]]
    /\ worker = [w \in Worker |-> IdleWorker]
    /\ tick = "none"
    /\ late = [g \in Gen |-> 0]

-----------------------------------------------------------------------------
\* The Start call of s goes to a control point with handlers left to dispatch.
Goto(s, pc, todo) ==
    loop' = [loop EXCEPT ![s] = [pc |-> pc, gen |-> loop[s].gen, todo |-> todo]]

\* StatusRegister: append under mu, at any time.
StatusRegister(h) ==
    /\ Len(handlers) < MaxRegister
    /\ handlers' = Append(handlers, h)
    /\ UNCHANGED <<running, wg, cur, gens, cancelled, closed, loop, stop,
                   worker, tick, late>>

\* Start, first section.  When c.cancel is not nil the call returns at once
\* (a stuttering step), also while that generation is being stopped.
Start(s) ==
    /\ loop[s].pc = "idle"
    /\ cur = NoGen
    /\ gens < MaxGen
    /\ gens' = gens + 1
    /\ cur' = gens + 1
    /\ loop' = [loop EXCEPT ![s] = [pc |-> "snapshot", gen |-> gens + 1, todo |-> <<>>]]
    /\ UNCHANGED <<handlers, running, wg, cancelled, closed, stop, worker, tick, late>>

\* dispatchHandlers: copy the handler list under the read lock.
Snapshot(s) ==
    /\ loop[s].pc = "snapshot"
    /\ Goto(s, "check", handlers)
    /\ UNCHANGED <<handlers, running, wg, cur, gens, cancelled, closed, stop,
                   worker, tick, late>>

\* dispatchHandlers: the test of ctx.Done() before each handler, and the end
\* of the range loop; Start creates the ticker after its first dispatch.
CheckCtx(s) ==
    /\ loop[s].pc = "check"
    /\ IF loop[s].todo = <<>> \/ loop[s].gen \in cancelled
       THEN Goto(s, "select", <<>>)
       ELSE Goto(s, "start", loop[s].todo)
    /\ tick' = IF loop'[s].pc = "select" /\ tick = "none" THEN "empty" ELSE tick
    /\ UNCHANGED <<handlers, running, wg, cur, gens, cancelled, closed, stop,
                   worker, late>>

\* startHandler finds the key in runningHandlers: the handler is left out.
SkipRunning(s) ==
    /\ loop[s].pc = "start"
    /\ Head(loop[s].todo) \in running
    /\ Goto(s, "check", Tail(loop[s].todo))
    /\ UNCHANGED <<handlers, running, wg, cur, gens, cancelled, closed, stop,
                   worker, tick, late>>

\* Mutant: the key is marked but never looked up.
StartHandlerAlways(s, w) ==
    LET key == Head(loop[s].todo)  g == loop[s].gen IN
    /\ loop[s].pc = "start"
    /\ worker[w].pc = "idle"
    /\ running' = running \cup {key}
    /\ wg' = wg + 1
    /\ worker' = [worker EXCEPT ![w] = [pc |-> "run", gen |-> g, key |-> key]]
    /\ Goto(s, "check", Tail(loop[s].todo))
    /\ late' = IF g \in cancelled THEN [late EXCEPT ![g] = @ + 1] ELSE late
    /\ UNCHANGED <<handlers, cur, gens, cancelled, closed, stop, tick>>

\* startHandler under mu: mark the key, WaitGroup.Add(1), spawn the goroutine.
StartHandler(s, w) ==
    LET key == Head(loop[s].todo)  g == loop[s].gen IN
    /\ loop[s].pc = "start"
    /\ key \notin running
    /\ worker[w].pc = "idle"
    /\ running' = running \cup {key}
    /\ wg' = wg + 1
    /\ worker' = [worker EXCEPT ![w] = [pc |-> "run", gen |-> g, key |-> key]]
    /\ Goto(s, "check", Tail(loop[s].todo))
    /\ late' = IF g \in cancelled THEN [late EXCEPT ![g] = @ + 1] ELSE late
    /\ UNCHANGED <<handlers, cur, gens, cancelled, closed, stop, tick>>

\* Mutant: the key survives a panic of the handler.
HandlerReturnsKeepsKey(w) ==
    /\ worker[w].pc = "run"
    /\ worker' = [worker EXCEPT ![w].pc = "deleted"]
    /\ UNCHANGED <<handlers, running, wg, cur, gens, cancelled, closed, loop, stop,
                   tick, late>>

\* Mutant: Done is called where the key is deleted and again when leaving.
HandlerReturnsTwiceDone(w) ==
    /\ worker[w].pc = "run"
    /\ running' = running \ {worker[w].key}
    /\ wg' = wg - 1
    /\ worker' = [worker EXCEPT ![w].pc = "deleted"]
    /\ UNCHANGED <<handlers, cur, gens, cancelled, closed, loop, stop, tick, late>>

\* The handler returns or panics (runRegisteredHandler recovers) and the
\* first deferred function deletes the key under mu.
HandlerReturns(w) ==
    /\ worker[w].pc = "run"
    /\ running' = running \ {worker[w].key}
    /\ worker' = [worker EXCEPT ![w].pc = "deleted"]
    /\ UNCHANGED <<handlers, wg, cur, gens, cancelled, closed, loop, stop, tick, late>>

\* Mutant: a goroutine that leaves without Done.
WorkerDoneForgotten(w) ==
    /\ worker[w].pc = "deleted"
    /\ worker' = [worker EXCEPT ![w] = IdleWorker]
    /\ UNCHANGED <<handlers, running, wg, cur, gens, cancelled, closed, loop, stop,
                   tick, late>>

\* The second deferred function: WaitGroup.Done().
WorkerDone(w) ==
    /\ worker[w].pc = "deleted"
    /\ wg' = wg - 1
    /\ worker' = [worker EXCEPT ![w] = IdleWorker]
    /\ UNCHANGED <<handlers, running, cur, gens, cancelled, closed, loop, stop,
                   tick, late>>

\* The ticker puts a tick in its one-element channel.
TickerFires ==
    /\ tick = "empty"
    /\ tick' = "full"
    /\ UNCHANGED <<handlers, running, wg, cur, gens, cancelled, closed, loop,
                   stop, worker, late>>

\* The select of Start: case <-ticker.C.
SelectTick(s) ==
    /\ loop[s].pc = "select"
    /\ tick = "full"
    /\ tick' = "empty"
    /\ Goto(s, "snapshot", loop[s].todo)
    /\ UNCHANGED <<handlers, running, wg, cur, gens, cancelled, closed, stop,
                   worker, late>>

\* The select of Start: case <-ctx.Done(); the deferred ticker.Stop().
SelectDone(s) ==
    /\ loop[s].pc = "select"
    /\ loop[s].gen \in cancelled
    /\ tick' = "none"
    /\ Goto(s, "wait", loop[s].todo)
    /\ UNCHANGED <<handlers, running, wg, cur, gens, cancelled, closed, stop,
                   worker, late>>

\* Mutant: done is closed without waiting for the workers.
WaitWorkersNot(s) ==
    /\ loop[s].pc = "wait"
    /\ Goto(s, "clear", loop[s].todo)
    /\ UNCHANGED <<handlers, running, wg, cur, gens, cancelled, closed, stop,
                   worker, tick, late>>

\* Deferred by Start: workerWG.Wait() returns.
WaitWorkers(s) ==
    /\ loop[s].pc = "wait"
    /\ wg = 0
    /\ Goto(s, "clear", loop[s].todo)
    /\ UNCHANGED <<handlers, running, wg, cur, gens, cancelled, closed, stop,
                   worker, tick, late>>

\* Deferred by Start under lifecycleMu: reset c.cancel and c.done if they are
\* still this generation's, then close(done).
CloseDone(s) ==
    LET g == loop[s].gen IN
    /\ loop[s].pc = "clear"
    /\ cur' = IF cur = g THEN NoGen ELSE cur
    /\ closed' = closed \cup {g}
    /\ loop' = [loop EXCEPT ![s] = IdleLoop]
    /\ UNCHANGED <<handlers, running, wg, gens, cancelled, stop, worker, tick, late>>

\* Mutant: Stop itself resets c.cancel and c.done when it takes them.
StopReadResets(p) ==
    /\ stop[p].pc = "idle"
    /\ cur # NoGen
    /\ cur' = NoGen
    /\ stop' = [stop EXCEPT ![p] = [pc |-> "cancel", gen |-> cur]]
    /\ UNCHANGED <<handlers, running, wg, gens, cancelled, closed, loop,
                   worker, tick, late>>

\* Stop: copy c.cancel and c.done under lifecycleMu; nil returns at once.
StopRead(p) ==
    /\ stop[p].pc = "idle"
    /\ cur # NoGen
    /\ stop' = [stop EXCEPT ![p] = [pc |-> "cancel", gen |-> cur]]
    /\ UNCHANGED <<handlers, running, wg, cur, gens, cancelled, closed, loop,
                   worker, tick, late>>

\* Stop: cancel().
StopCancel(p) ==
    /\ stop[p].pc = "cancel"
    /\ cancelled' = cancelled \cup {stop[p].gen}
    /\ stop' = [stop EXCEPT ![p].pc = "await"]
    /\ UNCHANGED <<handlers, running, wg, cur, gens, closed, loop, worker, tick, late>>

\* Stop: <-done, then the call returns.
StopReturn(p) ==
    /\ stop[p].pc = "await"
    /\ stop[p].gen \in closed
    /\ stop' = [stop EXCEPT ![p] = [pc |-> "idle", gen |-> NoGen]]
    /\ UNCHANGED <<handlers, running, wg, cur, gens, cancelled, closed, loop,
                   worker, tick, late>>

LoopStep(s) ==
    \/ Snapshot(s) \/ CheckCtx(s) \/ SkipRunning(s)
    \/ \E w \in Worker : StartHandler(s, w)
    \/ SelectTick(s) \/ SelectDone(s) \/ WaitWorkers(s) \/ CloseDone(s)

Next ==
    \/ \E h \in Handler : StatusRegister(h)
    \/ \E s \in Starter : Start(s) \/ LoopStep(s)
    \/ \E w \in Worker : HandlerReturns(w) \/ WorkerDone(w)
    \/ TickerFires
    \/ \E p \in Stopper : StopRead(p) \/ StopCancel(p) \/ StopReturn(p)

\* The Go scheduler runs every goroutine that can run; a select with two ready
\* cases picks each of them with equal probability, so ctx.Done() is not
\* passed over for ever; handlers return (their commands have timeouts).
Fairness ==
    /\ \A s \in Starter : WF_vars(LoopStep(s)) /\ SF_vars(SelectDone(s))
    /\ \A w \in Worker : WF_vars(HandlerReturns(w)) /\ WF_vars(WorkerDone(w))
    /\ WF_vars(TickerFires)
    /\ \A p \in Stopper : WF_vars(StopCancel(p)) /\ WF_vars(StopReturn(p))

Spec == Init /\ [][Next]_vars
FairSpec == Spec /\ Fairness

-----------------------------------------------------------------------------
\* Shape of the state.
TypeOK ==
    /\ handlers \in Seq(Handler)
    /\ running \subseteq Handler
    /\ wg \in Nat
    /\ cur \in Gen \cup {NoGen}
    /\ gens \in 0..MaxGen
    /\ cancelled \subseteq Gen
    /\ closed \subseteq Gen
    /\ loop \in [Starter -> [pc : {"idle", "snapshot", "check", "start", "select",
                                   "wait", "clear"},
                             gen : Gen \cup {NoGen}, todo : Seq(Handler)]]
    /\ stop \in [Stopper -> [pc : {"idle", "cancel", "await"}, gen : Gen \cup {NoGen}]]
    /\ worker \in [Worker -> [pc : {"idle", "run", "deleted"},
                              gen : Gen \cup {NoGen}, key : Handler \cup {<<>>}]]
    /\ tick \in {"none", "empty", "full"}
    /\ late \in [Gen -> Nat]

\* "A handler is never started while its previous invocation is active"
\* (the comment on Start): no two goroutines run the same handler, whatever
\* the loops, restarts and duplicate registrations.
NoOverlap ==
    \A v, w \in Worker :
        worker[v].pc = "run" /\ worker[w].pc = "run" /\ worker[v].key = worker[w].key
            => v = w

\* At most one loop exists, also while one generation is being stopped and a
\* caller asks for the next: workerWG.Add is never concurrent with the Wait
\* of another loop, which sync.WaitGroup forbids.
SingleLoop == \A s, t \in Looping : s = t

\* When Stop returns (done of its generation is closed) every goroutine that
\* generation spawned has finished.
StoppedIsQuiet == \A w \in Active : worker[w].gen \notin closed

\* The WaitGroup counter is the number of live goroutines: it never goes
\* negative (which panics) and is zero only when none is left.
CounterExact == wg = Cardinality(Active)

\* Cancelling stops the dispatch: at most the one handler whose ctx check had
\* passed is started after cancel().
AtMostOneLateStart == \A g \in Gen : late[g] <= 1

\* Stop always returns, whoever else stops, starts or registers meanwhile.
StopReturns == \A p \in Stopper : stop[p].pc = "await" ~> stop[p].pc = "idle"

\* A registered handler is run again and again as long as its loop is not
\* cancelled: a skipped, slow or panicking handler does not starve the others.
HandlersKeepRunning ==
    \A h \in Handler :
        (h \in {handlers[i] : i \in DOMAIN handlers} /\ cur # NoGen)
            ~> \/ \E w \in Worker : worker[w].pc = "run" /\ worker[w].key = h
               \/ cur = NoGen \/ cur \in cancelled
=============================================================================
