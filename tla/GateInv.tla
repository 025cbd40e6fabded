-------------------------------- MODULE GateInv --------------------------------
(***************************************************************************)
(* The inductive invariant of the membership gate: why its properties hold *)
(* of the channels whose lookups and writes do not fail.                   *)
(***************************************************************************)
EXTENDS ChannelGate

Row(c, u) == shown[<<c, u>>] # NoRow

(***************************************************************************)
(* However the taps of a user overlap.                                     *)
(***************************************************************************)

\* Both flags belong to a row.
FlagsHaveRow ==
    \A c \in Sturdy, u \in Users : ~Row(c, u) => <<c, u>> \notin was \cup counted

\* A member from before the bot's first look is waiting for it or was found by it.
LoyalKnown ==
    \A c \in Sturdy, u \in Users : <<c, u>> \in loyal /\ Row(c, u) => <<c, u>> \in was

\* What a handler saw of him is still so when it writes the first row.
SightKept ==
    \A h \in Handlers :
        LET c == g[h].cur IN
        At(h, "assign") /\ c \in Sturdy /\ <<c, User(h)>> \in loyal /\ ~Row(c, User(h))
            => g[h].saw

NoticeBacked == \A c \in Sturdy \cap notified : there[c] = "kept" /\ joins[c] >= target[c]

(***************************************************************************)
(* With one tap of a user at a time.                                       *)
(***************************************************************************)

OneTap ==
    \A h, k \in Handlers : ~At(h, "idle") /\ ~At(k, "idle") /\ User(h) = User(k) => h = k

ShownKept == \A c \in Sturdy, u \in Users : Row(c, u) => there[c] = "kept"

Requirement(h, c) == Enabled(c) /\ shown[<<c, User(h)>>] = g[h].date
Choosing == {"snapshot", "assign"}
Settling == {"state", "credit", "mark"}
Judging == Settling \cup {"check", "issue"}

\* What a handler knows of the sturdy channel c at each place.
TapKnows(h, c) ==
    LET x == <<c, User(h)>> IN
    /\ At(h, "pick") => ~Requirement(h, c)
    /\ g[h].at \in Choosing \cup Judging /\ c \in g[h].chs => there[c] = "kept"
    /\ g[h].at \in Choosing =>
         /\ Requirement(h, c) => c \in g[h].chs
         /\ c \in g[h].chs \ g[h].todo => shown[x] = g[h].date
    /\ g[h].at \in Judging =>
         /\ c \in g[h].chs => shown[x] = g[h].date
         /\ Requirement(h, c) =>
              \/ x \in counted
              \/ c \in g[h].todo \cup g[h].missing
              \/ g[h].at \in Settling /\ c = g[h].cur
    /\ g[h].at \in Settling \cup {"assign"} /\ c = g[h].cur => c \in g[h].chs
    /\ At(h, "credit") /\ c = g[h].cur => x \notin was \cup counted
    /\ At(h, "mark") /\ c = g[h].cur => x \in was

TodoChosen == \A h \in Handlers : g[h].at \in Choosing \cup Judging => g[h].todo \subseteq g[h].chs

NothingLeft == \A h \in Handlers : At(h, "issue") => g[h].todo = {} /\ g[h].missing = {}

TapInv == \A h \in Handlers, c \in Sturdy : TapKnows(h, c)

\* The inductive invariant of the gate: flags are written with a row, members of
\* old are known as such, notices are backed by joins and, while the taps of one
\* user do not overlap, every place of tryClaim knows which channels are settled.
GateInv ==
    /\ FlagsHaveRow /\ LoyalKnown /\ SightKept /\ NoticeBacked
    /\ ~Overlap => OneTap /\ ShownKept /\ TodoChosen /\ NothingLeft /\ TapInv
                   /\ CounterMatchesRows
=============================================================================
