---------------------------- MODULE Availability ----------------------------
(***************************************************************************)
(* What a reader of an upstream's health record sees (src/autopilot.rs,    *)
(* is_available), and what it may rely on.  Health has how the record      *)
(* comes about.                                                            *)
(***************************************************************************)
CONSTANT Recorders  \* tasks that may be in record_probe at the same time

VARIABLES
    healthy,
    lastUnhealthy,  \* last_unhealthy: "never", or "recent", or the cooldown has "past"
    record          \* [Recorders -> what its call of record_probe has yet to do]

\* is_available.
Available == healthy \/ lastUnhealthy = "past"

(* An upstream that is marked unhealthy is asked again once its cooldown   *)
(* has passed (is_available, autopilot.rs:455): it has a time from which   *)
(* to count, or somebody is about to write one, however successes and      *)
(* failures interleave.  Without one it would be shut out until a probe    *)
(* happens to succeed.                                                     *)
NotShutOut ==
    ~Available /\ lastUnhealthy = "never" =>
        \E r \in Recorders : "note" \in record[r]
=============================================================================
