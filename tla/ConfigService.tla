--------------------------- MODULE ConfigService ---------------------------
(***************************************************************************)
(* What the controller may rely on when it has FRR load a configuration:   *)
(* FRR's configuration changes only while an update is pending, and only   *)
(* to the configuration of the last attempt, to a broken one that the      *)
(* attempt left, or back to the initial one; an update is over only when   *)
(* FRR runs what is wanted.  There is no file, no request and no handler   *)
(* here.  FRRReload implements it.                                         *)
(***************************************************************************)
CONSTANTS Config, Invalid, Torn, Startup

VARIABLES
    wanted,     \* the configuration the API asks for
    pending,    \* an update is under way or due
    attempt,    \* the configuration of the last attempt
    running,    \* FRR's configuration
    void        \* attempts overlapped: nothing is promised any more

vars == <<wanted, pending, attempt, running, void>>

Init ==
    /\ wanted \in Config /\ attempt \in Config
    /\ pending = TRUE
    /\ running = Startup
    /\ void = FALSE

\* The API, or a controller that starts, asks; perhaps for the same again.
Ask ==
    /\ wanted' \in Config
    /\ pending' = TRUE
    /\ UNCHANGED <<attempt, running, void>>

Try ==
    /\ pending
    /\ attempt' = wanted
    /\ UNCHANGED <<wanted, pending, running, void>>

Apply ==
    /\ pending
    /\ attempt \notin Invalid
    /\ running' \in {attempt, Torn}
    /\ UNCHANGED <<wanted, pending, attempt, void>>

Finish ==
    /\ pending /\ running = wanted
    /\ pending' = FALSE
    /\ UNCHANGED <<wanted, attempt, running, void>>

\* The router is new.
Restart ==
    /\ pending' = TRUE
    /\ running' = Startup
    /\ UNCHANGED <<wanted, attempt, void>>

Next == Ask \/ Try \/ Apply \/ Finish \/ Restart \/ void'

Spec == Init /\ [][Next]_vars

=============================================================================
