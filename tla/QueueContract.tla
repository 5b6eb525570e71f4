---------------------------- MODULE QueueContract ----------------------------
(***************************************************************************)
(* What a queue of rounds promises, without log, lock or processes         *)
(* (docs/schemas/queue-events.md, as the code keeps it): entries move      *)
(* forward only, start in the order they were enqueued, one at a time, and *)
(* are never started twice; a cancel always wins but never hits a round    *)
(* that is executing.                                                      *)
(***************************************************************************)
CONSTANT Entries

VARIABLES
    status,     \* what a reader derives for each entry
    ahead,      \* the entries that were enqueued before each entry
    active      \* the entries whose round is executing

vars == <<status, ahead, active>>

Init ==
    /\ status = [e \in Entries |-> "unknown"]
    /\ ahead = [e \in Entries |-> {}]
    /\ active = {}

Enqueue(e) ==
    /\ status[e] = "unknown"
    /\ status' = [status EXCEPT ![e] = "queued"]
    /\ ahead' = [ahead EXCEPT ![e] = {f \in Entries : status[f] # "unknown"}]
    /\ UNCHANGED active

Start(e) ==
    /\ active = {}
    /\ status[e] = "queued"
    /\ \A f \in ahead[e] : status[f] # "queued"
    /\ status' = [status EXCEPT ![e] = "running"]
    /\ active' = {e}
    /\ UNCHANGED ahead

Settle(e) ==
    /\ active = {e} /\ status[e] = "running"
    /\ \E v \in {"done", "failed"} : status' = [status EXCEPT ![e] = v]
    /\ active' = {}
    /\ UNCHANGED ahead

\* The round ends without a verdict: the entry stays "running".
Lose(e) ==
    /\ active = {e}
    /\ active' = {}
    /\ UNCHANGED <<status, ahead>>

Cancel(e) ==
    /\ status[e] # "unknown" /\ e \notin active
    /\ status' = [status EXCEPT ![e] = "canceled"]
    /\ UNCHANGED <<ahead, active>>

Next == \E e \in Entries : Enqueue(e) \/ Start(e) \/ Settle(e) \/ Lose(e) \/ Cancel(e)

Spec == Init /\ [][Next]_vars
=============================================================================
