--------------------------- MODULE StackOwnership ---------------------------
(***************************************************************************)
(* What the Guarded Control Stacks of several Simulators promise, without  *)
(* slots, tokens, seals or locks.  A stack is a sequence of return         *)
(* addresses.  It is run by at most one Simulator, only that Simulator     *)
(* changes it, and a Simulator can only take over a stack that was put     *)
(* down in order.                                                          *)
(***************************************************************************)
EXTENDS Sequences, Naturals

CONSTANTS Sims, Stacks, Addrs

VARIABLES
    owner,   \* per stack: a Simulator, "sealed", "left" or "none"
    calls    \* per stack: the return addresses on it

ownVars == <<owner, calls>>

OwnInit ==
    /\ owner = [i \in Stacks |-> "none"]
    /\ calls = [i \in Stacks |-> <<>>]

Runs(s, i) == owner[i] = s

\* A new stack, for its creator to run or to be handed around.
New(i, o) ==
    /\ owner[i] = "none"
    /\ o \in Sims => ~\E j \in Stacks : Runs(o, j)
    /\ owner' = [owner EXCEPT ![i] = o]
    /\ UNCHANGED calls

Release(i) ==
    /\ owner[i] \in Sims \cup {"sealed"}
    /\ owner' = [owner EXCEPT ![i] = "none"]
    /\ calls' = [calls EXCEPT ![i] = <<>>]

Push(s, i, a) ==
    /\ Runs(s, i)
    /\ calls' = [calls EXCEPT ![i] = Append(@, a)]
    /\ UNCHANGED owner

Pop(s, i) ==
    /\ Runs(s, i)
    /\ calls[i] # <<>>
    /\ calls' = [calls EXCEPT ![i] = SubSeq(@, 1, Len(@) - 1)]
    /\ UNCHANGED owner

TakeOver(s, i, j) ==
    /\ Runs(s, i)
    /\ owner[j] = "sealed"
    /\ owner' = [owner EXCEPT ![i] = "left", ![j] = s]
    /\ UNCHANGED calls

PutDown(i) ==
    /\ owner[i] = "left"
    /\ owner' = [owner EXCEPT ![i] = "sealed"]
    /\ UNCHANGED calls

OwnNext ==
    \/ \E i \in Stacks : Release(i) \/ PutDown(i)
    \/ \E i \in Stacks, o \in Sims \cup {"sealed"} : New(i, o)
    \/ \E s \in Sims, i \in Stacks :
         \/ Pop(s, i)
         \/ \E a \in Addrs : Push(s, i, a)
         \/ \E j \in Stacks : TakeOver(s, i, j)

OwnSpec == OwnInit /\ [][OwnNext]_ownVars
=============================================================================
