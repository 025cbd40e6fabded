------------------------------ MODULE PanelWatch ------------------------------
(***************************************************************************)
(* The daily volume budget of the panels (internal/db/panels.go) and the   *)
(* hourly health check that watches it (internal/scheduler/scheduler.go    *)
(* 81-125).  healthCheck runs on a goroutine of its own beside the         *)
(* midnight job; the two share the map of warnings.                        *)
(***************************************************************************)
EXTENDS Integers, SequencesExt

CONSTANTS
    Panels,    \* ids of panel rows, all enabled and of equal priority
    LimitMB    \* daily limit of each panel; 0 = unlimited

ASSUME WatchAssumption == LimitMB \in Nat /\ Panels # {}

VARIABLES
    used,     \* used_today_mb
    healthy,  \* panels whose last ping failed are not in it
    warned,   \* panels warned of today
    hc,       \* the locals of healthCheck
    said,     \* history: what the last alert of a panel told the administrators, "void"
              \* if it did not arrive or was sent before a restart
    warnings, \* history: warnings of a panel since Tehran midnight
    clears    \* history: how often warned was emptied since Tehran midnight

watchVars == <<healthy, warned, hc, said, warnings, clears>>

NoCheck == [at |-> "idle", todo |-> {}, cur |-> CHOOSE p \in Panels : TRUE,
            near |-> {}, now |-> TRUE, quiet |-> FALSE, late |-> FALSE]

WatchTypeOK ==
    /\ used \in [Panels -> Nat]
    /\ healthy \subseteq Panels /\ warned \subseteq Panels
    /\ hc \in [at : {"idle", "ping", "alert", "usage", "send"}, todo : SUBSET Panels,
               cur : Panels, near : SUBSET Panels, now : BOOLEAN, quiet : BOOLEAN, late : BOOLEAN]
    /\ said \in [Panels -> {"none", "down", "up", "void"}]
    /\ warnings \in [Panels -> Nat] /\ clears \in Nat

WatchInit ==
    /\ used = [p \in Panels |-> 0]
    /\ healthy = Panels /\ warned = {}
    /\ hc = NoCheck
    /\ said = [p \in Panels |-> "none"]
    /\ warnings = [p \in Panels |-> 0] /\ clears = 0

\* Mutant of the next definition: the new volume is not added.
HasLeft(p, mb) == LimitMB = 0 \/ used[p] <= LimitMB

HasRoom(p, mb) == LimitMB = 0 \/ used[p] + mb <= LimitMB

\* The panels with room, least used first; equals come in any order.
PanelsForVolume(mb) ==
    {s \in SetToSeqs({p \in Panels : HasRoom(p, mb)}) :
        \A i, j \in DOMAIN s : i < j => used[s[i]] <= used[s[j]]}

AddPanelUsage(p, mb) == used' = [used EXCEPT ![p] = @ + mb]

ResetPanelUsage == used' = [p \in Panels |-> 0]

(***************************************************************************)
(* healthCheck.                                                            *)
(***************************************************************************)

NearCapacity(p) == LimitMB > 0 /\ used[p] >= (LimitMB * 90) \div 100

\* The rows are read once; the usage it warns of may be stale.
CheckStart ==
    /\ hc.at = "idle"
    /\ hc' = [NoCheck EXCEPT !.at = "ping", !.todo = Panels, !.near = {p \in Panels : NearCapacity(p)}]
    /\ UNCHANGED <<used, healthy, warned, said, warnings, clears>>

\* The ping, then the first section under the lock.
PingPanel(p) ==
    /\ hc.at = "ping" /\ p \in hc.todo
    /\ \E now, quiet \in BOOLEAN :
         /\ quiet <=> p \in warned
         /\ healthy' = IF now THEN healthy \cup {p} ELSE healthy \ {p}
         /\ hc' = [hc EXCEPT !.at = IF now <=> p \notin healthy THEN "alert" ELSE "usage",
                             !.cur = p, !.now = now, !.quiet = quiet]
    /\ UNCHANGED <<used, warned, said, warnings, clears>>

\* Mutant of the next definition: a recovery is not announced.
OnlyDown == IF hc.now THEN said[hc.cur] ELSE "down"

Announced == IF hc.now THEN "up" ELSE "down"

\* notifyAdmins ignores what becomes of the message; the map has changed already, so a
\* lost alert is not repeated.
SendAlert ==
    /\ hc.at = "alert"
    /\ \E word \in {Announced, "void"} : said' = [said EXCEPT ![hc.cur] = word]
    /\ hc' = [hc EXCEPT !.at = "usage"]
    /\ UNCHANGED <<used, healthy, warned, warnings, clears>>

NextPanel ==
    IF hc.todo = {hc.cur} THEN NoCheck
    ELSE [NoCheck EXCEPT !.at = "ping", !.todo = hc.todo \ {hc.cur}, !.near = hc.near,
                         !.late = hc.late]

\* Mutant of the next definition: the map is not written.
Forgotten(p) == warned

Remembered(p) == warned \cup {p}

\* The second section under the lock, if there is something to warn of.
JudgeUsage ==
    LET warn == hc.now /\ hc.cur \in hc.near /\ ~hc.quiet IN
    /\ hc.at = "usage"
    /\ warned' = IF warn THEN Remembered(hc.cur) ELSE warned
    /\ hc' = IF warn THEN [hc EXCEPT !.at = "send"] ELSE NextPanel
    /\ UNCHANGED <<used, healthy, said, warnings, clears>>

SendWarning ==
    /\ hc.at = "send"
    /\ warnings' \in {warnings, [warnings EXCEPT ![hc.cur] = @ + 1]}
    /\ hc' = NextPanel
    /\ UNCHANGED <<used, healthy, warned, said, clears>>

CheckStep ==
    \/ CheckStart \/ SendAlert \/ JudgeUsage \/ SendWarning
    \/ \E p \in Panels : PingPanel(p)

\* The last part of the midnight job.  A check that runs on beside it is done long
\* before the next midnight: hc.late marks it.
ClearWarned ==
    /\ warned' = {} /\ clears' = clears + 1
    /\ hc' = IF hc.at = "idle" THEN hc ELSE [hc EXCEPT !.late = TRUE]
    /\ UNCHANGED <<healthy, said, warnings>>

\* The maps are in memory only.
ForgetMaps ==
    /\ healthy' = Panels /\ warned' = {}
    /\ hc' = NoCheck
    /\ said' = [p \in Panels |-> IF said[p] = "none" THEN "none" ELSE "void"]

\* Tehran midnight, for the histories of a day.
CountAnew == warnings' = [p \in Panels |-> 0] /\ clears' = 0

(***************************************************************************)
(* Properties.                                                             *)
(***************************************************************************)

\* The administrators' last word on a panel is its last known health, once the alert of
\* the change is out, unless that alert was lost or a restart has forgotten the health
\* ("alerts admins on state changes", scheduler.go:81).
AlertMatchesHealth ==
    \A p \in Panels :
        \/ hc.at = "alert" /\ hc.cur = p
        \/ said[p] = "void"
        \/ (said[p] = "down") <=> p \notin healthy

\* A panel is warned of once a day (scheduler.go:31, 113), and once more for each time
\* the map was emptied since midnight: by the midnight job, which the check of that hour
\* races, and by every restart.
WarnedOncePerClear == \A p \in Panels : warnings[p] <= 1 + clears
=============================================================================
