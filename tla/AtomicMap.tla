----------------------------- MODULE AtomicMap ------------------------------
(***************************************************************************)
(* What the HTTP server promises: a map from keys to values on which every *)
(* request takes effect at one instant between its arrival and its answer, *)
(* or is answered 409 without an effect.  Programs that share the database *)
(* with the server may change the map at any time.                         *)
(***************************************************************************)
CONSTANTS Client, Key, Value,
          None    \* no value

VARIABLES map,    \* the value of each key
          job     \* each client's request and its answer

vars == <<map, job>>

Ops == {"get", "exists", "insert", "update", "delete"}
Resting == [phase |-> "none", op |-> "none", key |-> None, val |-> None,
            status |-> 0, ans |-> None]

Init ==
    /\ map = [k \in Key |-> None]
    /\ job = [c \in Client |-> Resting]

Receive(c) ==
    /\ job[c].phase = "none"
    /\ \E op \in Ops, k \in Key, v \in Value \cup {None} :
          job' = [job EXCEPT ![c] = [Resting EXCEPT !.phase = "asked", !.op = op,
                                                   !.key = k, !.val = v]]
    /\ UNCHANGED map

Answer(c, status, ans) ==
    job' = [job EXCEPT ![c].phase = "answered", ![c].status = status, ![c].ans = ans]

Put(c, v) == map' = [map EXCEPT ![job[c].key] = v]

\* The instant at which a request takes effect.
Perform(c) ==
    LET old == map[job[c].key]
    IN  /\ job[c].phase = "asked"
        /\ \/ job[c].op = "get" /\ Answer(c, 200, old) /\ UNCHANGED map
           \/ job[c].op = "exists" /\ Answer(c, 200, old # None) /\ UNCHANGED map
           \/ job[c].op = "insert" /\ old = None /\ Answer(c, 200, job[c].val)
                 /\ Put(c, job[c].val)
           \/ job[c].op = "insert" /\ old # None /\ Answer(c, 409, None) /\ UNCHANGED map
           \/ job[c].op = "update" /\ Answer(c, 200, job[c].val) /\ Put(c, job[c].val)
           \/ job[c].op = "delete" /\ Answer(c, 200, old) /\ Put(c, None)

\* A write that lost against another one.
Refuse(c) ==
    /\ job[c].phase = "asked" /\ job[c].op \in {"insert", "update", "delete"}
    /\ Answer(c, 409, None)
    /\ UNCHANGED map

Reply(c) ==
    /\ job[c].phase = "answered"
    /\ job' = [job EXCEPT ![c] = Resting]
    /\ UNCHANGED map

Others ==
    /\ map' \in [Key -> Value \cup {None}]
    /\ UNCHANGED job

Next ==
    \/ Others
    \/ \E c \in Client : Reply(c) \/ Perform(c) \/ Refuse(c) \/ Receive(c)

Spec == Init /\ [][Next]_vars
=============================================================================
