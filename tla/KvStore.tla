------------------------------ MODULE KvStore ------------------------------
(***************************************************************************)
(* What libkvdb (m9) promises its callers: a linearizable map from keys to *)
(* values that survives the death of its callers and the loss of power.    *)
(*                                                                         *)
(* Every call is split into its invocation, the instant it takes effect    *)
(* and its return.  A put that returned success is on stable storage; a    *)
(* put that failed, or whose caller died, took effect either at one        *)
(* instant of the call or never; a get returns what the map held at one    *)
(* instant of the call.                                                    *)
(***************************************************************************)
CONSTANTS Thread, Key, Val,
          Absent,       \* "no such key": what kvdb_get reports as -1
          MayFail       \* whether a system call may fail

VARIABLES store,        \* the map a caller observes
          saved,        \* the maps a loss of power may leave behind
          phase,        \* where the call of a thread stands
          call,         \* its arguments
          got,          \* the value a get has read
          ret           \* what the last call of a thread returned

vars == <<store, saved, phase, call, got, ret>>

Maps == [Key -> Val \cup {Absent}]

Phases == {"idle", "put", "applied", "acked", "get", "read", "failed"}

Init == /\ store = [k \in Key |-> Absent]
        /\ saved = {store}
        /\ phase = [t \in Thread |-> "idle"]
        /\ call = [t \in Thread |-> Absent]
        /\ got = [t \in Thread |-> Absent]
        /\ ret = [t \in Thread |-> "none"]

Step(t, from, to) == /\ phase[t] = from
                     /\ phase' = [phase EXCEPT ![t] = to]

Invoke(t) == /\ Step(t, "idle", "put") \/ Step(t, "idle", "get")
             /\ \E k \in Key, v \in Val \cup {Absent} :
                   call' = [call EXCEPT ![t] = [key |-> k, val |-> v]]
             /\ ret' = [ret EXCEPT ![t] = "none"]
             /\ UNCHANGED <<store, saved, got>>

\* A call the library refuses at once: a bad key or a closed handle.
Reject(t) == /\ phase[t] = "idle"
             /\ ret' = [ret EXCEPT ![t] = "fail"]
             /\ UNCHANGED <<store, saved, phase, call, got>>

Apply(t) == /\ Step(t, "put", "applied")
            /\ store' = [store EXCEPT ![call[t].key] = call[t].val]
            /\ saved' = saved \cup {store'}
            /\ UNCHANGED <<call, got, ret>>

Ack(t) == /\ Step(t, "applied", "acked")
          /\ saved' = {store}
          /\ UNCHANGED <<store, call, got, ret>>

Read(t) == /\ Step(t, "get", "read")
           /\ got' = [got EXCEPT ![t] = store[call[t].key]]
           /\ UNCHANGED <<store, saved, call, ret>>

Fail(t) == /\ MayFail
           /\ \/ Step(t, "put", "failed")
              \/ Step(t, "applied", "failed")
              \/ Step(t, "get", "failed")
           /\ UNCHANGED <<store, saved, call, got, ret>>

Return(t) ==
    /\ \/ Step(t, "acked", "idle") /\ ret' = [ret EXCEPT ![t] = "ok"]
       \/ Step(t, "failed", "idle") /\ ret' = [ret EXCEPT ![t] = "fail"]
       \/ /\ Step(t, "read", "idle")
          /\ ret' = [ret EXCEPT ![t] = IF got[t] = Absent THEN "fail" ELSE got[t]]
    /\ call' = [call EXCEPT ![t] = Absent]
    /\ got' = [got EXCEPT ![t] = Absent]
    /\ UNCHANGED <<store, saved>>

\* Dirty data reaches stable storage, at the latest when a caller syncs.
WriteBack == /\ saved' = {store}
             /\ UNCHANGED <<store, phase, call, got, ret>>

\* Some callers die; whatever their calls had not done is never done.
Die(T) ==
    /\ phase' = [t \in Thread |-> IF t \in T THEN "idle" ELSE phase[t]]
    /\ call' = [t \in Thread |-> IF t \in T THEN Absent ELSE call[t]]
    /\ got' = [t \in Thread |-> IF t \in T THEN Absent ELSE got[t]]
    /\ ret' = [t \in Thread |-> IF t \in T THEN "none" ELSE ret[t]]

Crash(T) == Die(T) /\ UNCHANGED <<store, saved>>

PowerLoss == /\ store' \in saved
             /\ saved' = {store'}
             /\ Die(Thread)

Next == \/ \E t \in Thread : \/ Invoke(t) \/ Reject(t) \/ Apply(t) \/ Ack(t)
                             \/ Read(t) \/ Fail(t) \/ Return(t)
        \/ WriteBack
        \/ \E T \in SUBSET Thread : Crash(T)
        \/ PowerLoss

Spec == Init /\ [][Next]_vars
=============================================================================
