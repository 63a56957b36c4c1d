------------------------------- MODULE Script -------------------------------
(***************************************************************************)
(* Handlers that run one command after the other.  A handler is a record    *)
(*   todo   the steps that are left,                                         *)
(*   defer  the steps of its deferred calls, run when it ends early or late, *)
(*   bad    whether a step has failed that the handler reports.              *)
(* What a step does when its command fails is written with the step:         *)
(*   Must   the handler returns the error,                                   *)
(*   Try    the error is ignored; TryOr, and the next n steps are skipped,   *)
(*   Note   the error is kept and the next step runs; Verdict returns it;    *)
(*   NoteOr the same, but the next n steps are skipped;                      *)
(*   First  the error is ignored; when there is none the next n are skipped. *)
(* Call puts steps in its place that are decided when it is reached, IfBad   *)
(* has steps for a handler that has failed, Defer adds a deferred call.      *)
(* A command is a tuple; what it does is defined where Script is used.       *)
(***************************************************************************)
EXTENDS Naturals, Sequences, SequencesExt

Step(cmd, on) == <<[cmd |-> cmd, on |-> on, skip |-> 0]>>
Must(cmd) == Step(cmd, "return")
Try(cmd) == Step(cmd, "ignore")
TryOr(cmd, n) == <<[cmd |-> cmd, on |-> "ignore", skip |-> n]>>
Note(cmd) == Step(cmd, "keep")
NoteOr(cmd, n) == <<[cmd |-> cmd, on |-> "keep", skip |-> n]>>
First(cmd, n) == <<[cmd |-> cmd, on |-> "first", skip |-> n]>>
Verdict == Step(<<"verdict">>, "verdict")
Call(cmd) == Step(cmd, "call")
IfBad(steps) == <<[cmd |-> <<"if bad">>, on |-> "ifbad", skip |-> Len(steps)]>> \o steps
Defer(cmd) == Step(cmd, "defer")

\* One target of a fan-out: the steps there end with the first that fails.
Target(cmds) == FlattenSeq([i \in 1..Len(cmds) |-> NoteOr(cmds[i], Len(cmds) - i)])

\* n attempts; what the last one's failure means is on's.
Retry(cmd, n, on) == FlattenSeq([i \in 1..n |-> IF i < n THEN First(cmd, n - i) ELSE Step(cmd, on)])

\* The steps F(x) for each x of a set, in a fixed order.
Each(S, F(_)) == LET s == SetToSeq(S) IN FlattenSeq([i \in 1..Len(s) |-> F(s[i])])
If(b, steps) == IF b THEN steps ELSE <<>>

Handler(todo) == [todo |-> todo, defer |-> <<>>, bad |-> FALSE]

\* Deferred calls follow the last step.
Settle(r) == IF r.todo = <<>> THEN [r EXCEPT !.todo = r.defer, !.defer = <<>>] ELSE r
Return(r) == Settle([r EXCEPT !.todo = <<>>, !.bad = TRUE])
Go(r) == Settle([r EXCEPT !.todo = Tail(@)])

Now(r) == Head(r.todo).cmd
On(r) == Head(r.todo).on
Skips(r) == Go([r EXCEPT !.todo = SubSeq(@, Head(r.todo).skip + 1, Len(@))])
Passes(r) == IF On(r) = "first" THEN Skips(r) ELSE Go(r)
Fails(r) ==
    CASE On(r) = "return" -> Return(r)
      [] On(r) = "first" -> Go(r)
      [] OTHER -> Skips([r EXCEPT !.bad = @ \/ On(r) = "keep"])
Ended(r) == r.todo = <<>>

\* The steps that run no command.
Inner(r) == On(r) \in {"verdict", "call", "ifbad", "defer"}
Inside(r, Body(_)) ==
    CASE On(r) = "verdict" -> IF r.bad THEN Return(r) ELSE Go(r)
      [] On(r) = "call" -> Settle([r EXCEPT !.todo = Body(Now(r)) \o Tail(@)])
      [] On(r) = "ifbad" -> IF r.bad THEN Go(r) ELSE Skips(r)
      [] On(r) = "defer" -> Go([r EXCEPT !.defer = Try(Now(r)) \o @])

=============================================================================
