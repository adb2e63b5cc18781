---------------------------- MODULE CodeRegistry ----------------------------
(***************************************************************************)
(* What PredecodeCache promises its embedder, without locks, tables or     *)
(* predecoding: a growing set of disjoint code intervals.  A registration  *)
(* takes effect in one instant or not at all, its status tells which of    *)
(* the two and why, and a lookup is answered from one instant's set.       *)
(***************************************************************************)
EXTENDS Integers

CONSTANTS
    Registrars,   \* callers of RegisterCodeRange
    Simulators,   \* callers of FindRange, directly or through cur_range_
    Requests,     \* <<start, size>> pairs
    Pcs           \* instruction addresses looked up

VARIABLES
    intervals,    \* the registered <<start, size>> pairs
    call,         \* per Registrar: <<"idle">>, <<"pending", req>>, <<"done", status>>
    lookup        \* per Simulator: <<"idle">>, <<"pending", pc>>, <<"answer", b>>

registryVars == <<intervals, call, lookup>>

Contains(i, a) == i[1] <= a /\ a < i[1] + i[2]
Registered(a) == \E i \in intervals : Contains(i, a)
WellFormed(req) == req[2] # 0 /\ req[2] % 4 = 0 /\ req[1] % 4 = 0

\* Two well-formed requests that share an address share a word address.
Clashes(req) ==
    \E i \in intervals : i[1] < req[1] + req[2] /\ req[1] < i[1] + i[2]

RegistryInit ==
    /\ intervals = {}
    /\ call = [t \in Registrars |-> <<"idle">>]
    /\ lookup = [s \in Simulators |-> <<"idle">>]

Begin(t) ==
    /\ call[t][1] # "pending"
    /\ \E req \in Requests : call' = [call EXCEPT ![t] = <<"pending", req>>]
    /\ UNCHANGED <<intervals, lookup>>

\* The one instant at which a call takes effect, or is refused.
Resolve(t) ==
    /\ call[t][1] = "pending"
    /\ LET req == call[t][2]
       IN  \E status \in {"Ok", "InvalidArgument", "OverlappingRange", "OutOfMemory"} :
             /\ (status = "InvalidArgument") <=> ~WellFormed(req)
             /\ (status = "OverlappingRange") <=> (WellFormed(req) /\ Clashes(req))
             /\ intervals' = IF status = "Ok" THEN intervals \cup {req} ELSE intervals
             /\ call' = [call EXCEPT ![t] = <<"done", status>>]
    /\ UNCHANGED lookup

Ask(s) ==
    /\ lookup[s][1] = "idle" \/ lookup[s] = <<"answer", TRUE>>
    /\ \E pc \in Pcs : lookup' = [lookup EXCEPT ![s] = <<"pending", pc>>]
    /\ UNCHANGED <<intervals, call>>

Answer(s) ==
    /\ lookup[s][1] = "pending"
    /\ lookup' = [lookup EXCEPT ![s] = <<"answer", Registered(lookup[s][2])>>]
    /\ UNCHANGED <<intervals, call>>

RegistryNext ==
    \/ \E t \in Registrars : Begin(t) \/ Resolve(t)
    \/ \E s \in Simulators : Ask(s) \/ Answer(s)

RegistrySpec == RegistryInit /\ [][RegistryNext]_registryVars
=============================================================================
