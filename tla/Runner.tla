------------------------------- MODULE Runner -------------------------------
(***************************************************************************)
(* Requests that are at work at the same time, each a handler of Script.    *)
(* The module that instantiates this one says what can be asked for, which  *)
(* steps that takes, and what a command does to the world.                  *)
(*                                                                          *)
(* A command may fail, or be killed when its time is over (the timeout of   *)
(* runCommandOutputWithEnv, or of a call to another host): then it may have *)
(* done its work all the same.  The server may stop: then the request ends  *)
(* and no deferred call runs.  A command <<"lock", ...>> or <<"unlock",     *)
(* ...>> is one of a mutex of the server: it waits, and never fails.        *)
(***************************************************************************)
EXTENDS Script

CONSTANTS
    Client,         \* requests
    Asks(_),        \* what can be asked for in a world
    Start(_, _),    \* the steps of a request in a world
    Body(_, _),     \* the steps of a Call in a world
    Effect(_, _),   \* the worlds after a command, {} when it cannot succeed
    Matters(_),     \* commands whose failure a property asks for
    Begins,         \* the worlds at the beginning
    Drifts(_),      \* the worlds that others may turn a world into while no request is at work
    MaxFaults       \* commands that fail, and servers that stop

VARIABLES
    w,              \* the world
    req,            \* per request: what was asked for, and its handler
    overlap,        \* history: two requests were at work at the same time
    last,           \* history: the last request, when it has succeeded and none has overlapped
    lost,           \* history: the commands that matter and have failed; "stop" for a server that stopped
    faults

vars == <<w, req, overlap, last, lost, faults>>

NoAsk == [act |-> "none"]
Idle == [ask |-> NoAsk, state |-> "idle", run |-> Handler(<<>>)]
Done == [Idle EXCEPT !.state = "done"]
Running == {c \in Client : req[c].state = "runs"}

Init ==
    /\ w \in Begins
    /\ req = [c \in Client |-> Idle]
    /\ overlap = FALSE /\ last = NoAsk /\ lost = {} /\ faults = 0

\* A request arrives.  Nothing keeps it apart from the others.
Request(c) ==
    /\ req[c].state = "idle"
    /\ \E ask \in Asks(w) :
          req' = [req EXCEPT ![c] = [ask |-> ask, state |-> "runs", run |-> Handler(Start(ask, w))]]
    /\ overlap' = (overlap \/ Running # {})
    /\ last' = NoAsk
    /\ UNCHANGED <<w, lost, faults>>

\* The handler of c goes on as r; when that is its end, its answer is known.
Becomes(c, r) ==
    /\ req' = [req EXCEPT ![c] = IF Ended(r) THEN Done ELSE [@ EXCEPT !.run = r]]
    /\ last' = IF Ended(r) /\ ~r.bad /\ ~overlap THEN req[c].ask ELSE last

\* A step that runs no command.
Continue(c) ==
    /\ Inner(req[c].run)
    /\ Becomes(c, Inside(req[c].run, LAMBDA cmd : Body(cmd, w)))
    /\ UNCHANGED <<w, overlap, lost, faults>>

OfMutex(cmd) == cmd[1] \in {"lock", "unlock"}

Command(c) ==
    LET r == req[c].run  worlds == Effect(Now(r), w) IN
    /\ ~Inner(r)
    /\ \/ w' \in worlds /\ Becomes(c, Passes(r))
       \/ worlds = {} /\ ~OfMutex(Now(r)) /\ Becomes(c, Fails(r)) /\ UNCHANGED w
    /\ UNCHANGED <<overlap, lost, faults>>

CommandFails(c) ==
    LET r == req[c].run IN
    /\ ~Inner(r) /\ ~OfMutex(Now(r))
    /\ faults < MaxFaults /\ faults' = faults + 1
    /\ w' \in {w} \cup Effect(Now(r), w)
    /\ Becomes(c, Fails(r))
    /\ lost' = IF Matters(Now(r)) THEN lost \cup {Now(r)} ELSE lost
    /\ UNCHANGED overlap

ServerStops(c) ==
    /\ faults < MaxFaults /\ faults' = faults + 1
    /\ req' = [req EXCEPT ![c] = Done]
    /\ lost' = lost \cup {<<"stop">>}
    /\ UNCHANGED <<w, overlap, last>>

\* Something else changes.
Drift ==
    /\ Running = {} /\ w' \in Drifts(w) \ {w}
    /\ last' = NoAsk
    /\ UNCHANGED <<req, overlap, lost, faults>>

Next ==
    \/ \E c \in Client : Request(c)
    \/ \E c \in Running : Continue(c) \/ Command(c) \/ CommandFails(c) \/ ServerStops(c)
    \/ Drift

Spec == Init /\ [][Next]_vars

=============================================================================
