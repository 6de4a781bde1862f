------------------------------ MODULE AtomicKV ------------------------------
(***************************************************************************)
(* What a thread-safe engine promises its callers: every get, set and      *)
(* remove takes effect once, at one instant between its call and its       *)
(* return, on the one map they share.                                      *)
(***************************************************************************)
CONSTANTS Client, Key, Value, None

VARIABLES
    store,      \* the map
    call        \* call[c]: the call of c, and how far it got

vars == <<store, call>>

\* ERASE is a REMOVE that answers whether the key was there.
Op == [type : {"GET", "REMOVE", "ERASE"}, key : Key] \union
      [type : {"SET"}, key : Key, value : Value]

Idle == [state |-> "idle"]

Init ==
    /\ store = [k \in Key |-> None]
    /\ call = [c \in Client |-> Idle]

Call(c, op) ==
    /\ call[c].state = "idle"
    /\ call' = [call EXCEPT ![c] = [state |-> "called", op |-> op]]
    /\ UNCHANGED store

\* The effect of op on map s.
Effect(s, op) ==
    CASE op.type = "GET"    -> s
      [] op.type = "SET"    -> [s EXCEPT ![op.key] = op.value]
      [] op.type \in {"REMOVE", "ERASE"} -> [s EXCEPT ![op.key] = None]

\* What op answers on map s.
Answer(s, op) ==
    CASE op.type = "GET"   -> s[op.key]
      [] op.type = "ERASE" -> s[op.key] # None
      [] OTHER             -> None

Do(c) ==
    /\ call[c].state = "called"
    /\ store' = Effect(store, call[c].op)
    /\ call' = [call EXCEPT ![c] = [state |-> "done", result |-> Answer(store, call[c].op)]]

Return(c) ==
    /\ call[c].state = "done"
    /\ call' = [call EXCEPT ![c] = Idle]
    /\ UNCHANGED store

Next == \E c \in Client : Do(c) \/ Return(c) \/ \E op \in Op : Call(c, op)

Spec == Init /\ [][Next]_vars

=============================================================================
