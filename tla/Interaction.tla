------------------------------ MODULE Interaction ------------------------------
(***************************************************************************)
(* What the identity provider and the pod managers have in common: calls   *)
(* that are interleaved at every await, a server that restarts, and        *)
(* key-value storages, of which one get, set or delete is one step.        *)
(***************************************************************************)
EXTENDS Naturals, FiniteSets

CONSTANTS
  Calls,
  Kind,          \* what each of them does,
  Input,         \* and what it is called with
  Workloads,     \* bound: the sets of calls that are made together
  MaxRestarts    \* bound: how often the server is restarted

\* Names that stand for the absence of a call.
ASSUME CallsAssumption ==
  /\ "none" \notin Calls /\ "never" \notin Calls
  /\ \A W \in Workloads : W \subseteq Calls
  /\ MaxRestarts \in Nat

VARIABLES
  pc,            \* what each call of the workload does next, or its outcome
  phase,         \* of the server: starting, up, or down for good
  restarts

callVars == <<pc, phase, restarts>>

Outcomes == {"done", "failed", "told", "none", "crashed"}

Workload == DOMAIN pc

Running(c) == pc[c] \notin {"idle"} \cup Outcomes
Go(c, to) == pc' = [pc EXCEPT ![c] = to] /\ UNCHANGED <<phase, restarts>>

Is(c, kind) == Kind[c] = kind

\* Calls that are being made, or still may be; and those that were made.
Active == {c \in Workload : pc[c] \notin Outcomes}
Made == {c \in Workload : pc[c] # "idle"}

\* The first step of a call, once the server accepts requests.
At(c, kind) == pc[c] = "idle" /\ phase = "up" /\ Is(c, kind)

\* The storages.
Get(storage, key, missing) == IF key \in DOMAIN storage THEN storage[key] ELSE missing

Set(storage, key, value) ==
  [k \in DOMAIN storage \cup {key} |-> IF k = key THEN value ELSE storage[k]]

Delete(storage, keys) == [k \in DOMAIN storage \ keys |-> storage[k]]

Empty == [k \in {} |-> {}]
=============================================================================
