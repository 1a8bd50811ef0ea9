--------------------------- MODULE MCSessionServices ---------------------------
(***************************************************************************)
(* Sessions for SessionServices: the event sources with one call of a tool, *)
(* and several calls without them.                                         *)
(***************************************************************************)
EXTENDS SessionServices

CONSTANTS Timers, periodic, once

Schedulers == [e \in Entry |-> IF e = once THEN WakeUp ELSE Timers]
Walkers == {"close", "reset"}

Starts(sources, n, m) == [sources |-> sources, calls |-> n, wakes |-> m]
Sessions == {Starts({Watcher}, 0, 0), Starts({Timers}, 0, 1),
             Starts({}, 1, 1), Starts({}, 2, 0)}
Eventful == {Starts({Timers}, 0, 0)}
=============================================================================
