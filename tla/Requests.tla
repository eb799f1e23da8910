------------------------------ MODULE Requests ------------------------------
(***************************************************************************)
(* The asyncio service as a set of requests in flight.  One event loop     *)
(* runs every handler; a handler gives way at each await.  task[w] is the  *)
(* coroutine that slot w holds: where it is suspended and the locals it    *)
(* will still use.  A step of a slot is one answered await (a database     *)
(* command, a call to ORCID) and the code that runs up to the next await.  *)
(***************************************************************************)
EXTENDS Entities

CONSTANTS
    Workers,    \* bound: requests in flight at once
    Endpoints   \* the operations that clients call in this instance

AllEndpoints == {"create", "start", "continue", "finish", "cancel", "unlink", "use",
                 "refresh_tokens", "delete_expired", "admin_delete"}

ASSUME RequestsAssumption == Endpoints \subseteq AllEndpoints

VARIABLES
    task,   \* the suspended coroutine of each slot
    now     \* posix_time_millis, in clock units

requestVars == <<task, now>>

Idle == [pc |-> "idle"]

At(w, pc) == task[w].pc = pc

AllIdle == \A w \in Workers : task[w] = Idle

Goto(w, k) == task' = [task EXCEPT ![w] = k]

(* A request for operation op reaches a free slot, passes the checks made  *)
(* before its first effect, and suspends as k.  A request that fails those *)
(* checks is answered with an error and changes nothing: it is a stutter.  *)
Accept(w, op, k) ==
    /\ op \in Endpoints
    /\ task[w] = Idle
    /\ Goto(w, k)

(* The handler returns, redirects the browser or raises.                   *)
Answer(w) == Goto(w, Idle)

RequestsInit ==
    /\ task = [w \in Workers |-> Idle]
    /\ now = 0
=============================================================================
