-------------------------- MODULE DownloadService --------------------------
(***************************************************************************)
(* What Ensure promises, without queue, worker, transfers or locks: a call *)
(* asks for tiles, every tile it asked for is answered once, "usable" only *)
(* when a usable file is on disk (or was vouched for by an earlier check), *)
(* "withdrawn" only when the caller gave up or the service stops; the call *)
(* returns when everything is answered or it is withdrawn.                 *)
(***************************************************************************)
CONSTANTS Calls, Keys

VARIABLES
    status,     \* [Calls -> {"idle", "open", "returned"}]
    answer,     \* [Calls -> [Keys -> {"none", "asked", "usable", "failed", "withdrawn"}]]
    usable,     \* keys whose file is usable
    vouched,    \* keys a recorded check vouches for
    withdrawn,  \* calls whose owner lost interest
    closed      \* the service stops

vars == <<status, answer, usable, vouched, withdrawn, closed>>

GivenUp(c) == closed \/ c \in withdrawn

Init ==
    /\ status = [c \in Calls |-> "idle"]
    /\ answer = [c \in Calls |-> [k \in Keys |-> "none"]]
    /\ usable \subseteq Keys /\ vouched = {}
    /\ withdrawn = {} /\ closed = FALSE

Ask(c) ==
    /\ status[c] = "idle"
    /\ status' = [status EXCEPT ![c] = "open"]
    /\ \E S \in SUBSET Keys :
        answer' = [answer EXCEPT ![c] = [k \in Keys |-> IF k \in S THEN "asked" ELSE "none"]]
    /\ UNCHANGED <<usable, vouched, withdrawn, closed>>

\* The answers a tile asked for may get in one step.
Answers(c, k) ==
    {"asked", "failed"}
        \cup (IF k \in usable' \cup vouched THEN {"usable"} ELSE {})
        \cup (IF GivenUp(c) THEN {"withdrawn"} ELSE {})

\* Tiles are answered and the files on disk change, in any order.
Answer ==
    /\ usable' \in SUBSET Keys /\ vouched' \in SUBSET Keys
    /\ answer' \in [Calls -> [Keys -> {"none", "asked", "usable", "failed", "withdrawn"}]]
    /\ \A c \in Calls, k \in Keys :
        IF answer[c][k] = "asked" THEN answer'[c][k] \in Answers(c, k)
                                  ELSE answer'[c][k] = answer[c][k]
    /\ UNCHANGED <<status, withdrawn, closed>>

Return(c) ==
    /\ status[c] = "open"
    /\ GivenUp(c) \/ \A k \in Keys : answer[c][k] # "asked"
    /\ status' = [status EXCEPT ![c] = "returned"]
    /\ UNCHANGED <<answer, usable, vouched, withdrawn, closed>>

Withdraw(c) ==
    /\ status[c] = "open"
    /\ withdrawn' = withdrawn \cup {c}
    /\ UNCHANGED <<status, answer, usable, vouched, closed>>

Close ==
    /\ closed' = TRUE
    /\ UNCHANGED <<status, answer, usable, vouched, withdrawn>>

Next == Answer \/ Close \/ \E c \in Calls : Ask(c) \/ Return(c) \/ Withdraw(c)

Spec == Init /\ [][Next]_vars

=============================================================================
