----------------------------- MODULE ClaimQueue -----------------------------
(***************************************************************************)
(* What a queue of durable jobs promises, whatever the jobs do and however *)
(* they are stored.  A job is queued, workers run it, and it leaves the    *)
(* queue.  It is run by one worker at a time, which runs no other job; a   *)
(* worker that stops may leave it unfinished, then another one takes it;   *)
(* and it never comes back once it is out.                                 *)
(***************************************************************************)
CONSTANTS Jobs, Workers

VARIABLES
    phase,    \* where each job stands
    runners   \* the workers that run each job

Phases == {"absent", "queued", "taken", "out"}

Init == /\ phase \in [Jobs -> {"absent", "queued"}]
        /\ runners = [j \in Jobs |-> {}]

Enqueue(j) ==
    /\ phase[j] = "absent"
    /\ phase' = [phase EXCEPT ![j] = "queued"]
    /\ UNCHANGED runners

Take(w, j) ==
    /\ phase[j] \in {"queued", "taken"}
    /\ runners[j] = {}
    /\ \A k \in Jobs : w \notin runners[k]
    /\ phase' = [phase EXCEPT ![j] = "taken"]
    /\ runners' = [runners EXCEPT ![j] = {w}]

(* The worker is done, gives up or dies, and the job is out or is not. *)
Stop(w, j) ==
    /\ w \in runners[j]
    /\ runners' = [runners EXCEPT ![j] = @ \ {w}]
    /\ \E p \in {phase[j], "out"} : phase' = [phase EXCEPT ![j] = p]

(* The job is finished or called off, by its runner or someone else. *)
Leave(j) ==
    /\ phase[j] \in {"queued", "taken"}
    /\ phase' = [phase EXCEPT ![j] = "out"]
    /\ UNCHANGED runners

Next == \E j \in Jobs : \/ Enqueue(j) \/ Leave(j)
                        \/ \E w \in Workers : Take(w, j) \/ Stop(w, j)

Spec == Init /\ [][Next]_<<phase, runners>>
=============================================================================
