----------------------------- MODULE HostWatch -----------------------------
(***************************************************************************)
(* What the host manager promises about one host: what may happen to the   *)
(* watch over it, to a loss of connection that was noticed, and to the     *)
(* status that operators are shown.                                        *)
(*                                                                         *)
(* The watch over a trusted host ends only with the manager.  A status is  *)
(* written from a report only while the timer of a watched host runs, so   *)
(* it never hides a silence that has been noticed.  A host is marked only  *)
(* when some timer of it has run out, and the loss of a silent host is     *)
(* dropped only when the host is no longer shown as connected, or when     *)
(* Inventory has refused every retry.                                      *)
(***************************************************************************)

VARIABLES
    up,        \* the manager serves
    trusted,   \* the host is not being deauthorised or deleted
    watch,     \* "off", "armed" (the timer runs), "silent" (it has run out),
               \* or "abandoned" (silent, and the loss was given up)
    shown,     \* the status that is shown
    loss,      \* a loss of the host is still to be written
    stray      \* a check of a heartbeat that was let go is still to run

watchVars == <<up, trusted, watch, shown, loss, stray>>

Connected == {"running", "booting", "error"}

WatchInit ==
    /\ ~up /\ trusted /\ watch = "off"
    /\ shown \in {"booting", "running"}
    /\ ~loss /\ ~stray

\* A manager that starts watches at least the trusted hosts shown running.
Start ==
    /\ ~up /\ up'
    /\ watch' \in {"off", "armed"}
    /\ trusted /\ shown = "running" => watch' = "armed"
    /\ UNCHANGED <<trusted, shown, loss, stray>>

Crash ==
    /\ up /\ ~up'
    /\ watch' = "off" /\ ~loss' /\ ~stray'
    /\ UNCHANGED <<trusted, shown>>

\* A heartbeat (re)starts the timer.
Beat ==
    /\ up /\ watch' = "armed"
    /\ UNCHANGED <<up, trusted, shown, loss, stray>>

\* A second first heartbeat replaces the one that is watched, of which a
\* check may have begun.
Replace ==
    /\ up /\ watch # "off" /\ watch' = "armed" /\ stray'
    /\ UNCHANGED <<up, trusted, shown, loss>>

Forget ==
    /\ up /\ ~trusted /\ watch # "off" /\ watch' = "off"
    /\ stray' \in {stray, TRUE}
    /\ UNCHANGED <<up, trusted, shown, loss>>

Fire ==
    /\ watch = "armed" /\ watch' = "silent" /\ loss'
    /\ UNCHANGED <<up, trusted, shown, stray>>

\* The timer of a heartbeat that was let go runs out, or has not.
StrayFires ==
    /\ stray /\ stray' \in BOOLEAN /\ loss'
    /\ watch' = IF watch = "abandoned" THEN "silent" ELSE watch
    /\ UNCHANGED <<up, trusted, shown>>

StrayEnds ==
    /\ stray /\ ~stray'
    /\ UNCHANGED <<up, trusted, watch, shown, loss>>

\* A report is shown.
Show ==
    /\ up
    /\ watch = "armed" \/ (watch = "off" /\ ~trusted)
    /\ shown' \in {"unknown", "running", "error"}
    /\ UNCHANGED <<up, trusted, watch, loss, stray>>

\* A loss is written. Inventory may have applied a write that it reports as
\* failed: then the loss is tried again, or was tried for the last time.
Mark ==
    /\ loss /\ loss' \in BOOLEAN
    /\ shown' = "noConnection"
    /\ watch' \in {watch} \cup IF watch = "silent" THEN {"abandoned"} ELSE {}
    /\ UNCHANGED <<up, trusted, stray>>

\* A loss is dropped: there is nothing to mark any more.
Dismiss ==
    /\ loss /\ ~loss'
    /\ watch # "silent" \/ shown \notin Connected
    /\ UNCHANGED <<up, trusted, watch, shown, stray>>

GiveUp ==
    /\ loss /\ loss' \in BOOLEAN
    /\ watch = "silent" /\ watch' = "abandoned"
    /\ UNCHANGED <<up, trusted, shown, stray>>

Distrust ==
    /\ trusted /\ ~trusted'
    /\ UNCHANGED <<up, watch, shown, loss, stray>>

WatchNext ==
    \/ Start \/ Crash
    \/ Beat \/ Replace \/ Forget
    \/ Fire \/ StrayFires \/ StrayEnds
    \/ Show
    \/ Mark \/ Dismiss \/ GiveUp
    \/ Distrust

WatchSpec == WatchInit /\ [][WatchNext]_watchVars
=============================================================================
