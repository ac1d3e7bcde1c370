-------------------------- MODULE SocketSetupProofs --------------------------
(***************************************************************************)
(* Proofs about the functions that bind or connect a socket, for any       *)
(* number of candidates: nothing but the socket returned stays open, and   *)
(* it is the first that works.                                             *)
(***************************************************************************)
EXTENDS SocketSetup, TLAPS

TypesOK ==
    /\ outcome \in [All -> {"no_socket", "refused", "works"}]
    /\ pc \in {"getaddrinfo", "loop", "attach", "free", "returned", "crashed"}
    /\ candidate \in 1..NULL
    /\ list \in {"unset", "held", "freed"}

\* No socket is open in the loop; one is while it is bound or connected, and
\* the loop is left early with that one, which works.
OneAtATime ==
    /\ pc = "getaddrinfo" => list = "unset" /\ candidate = 1
    /\ pc \in {"getaddrinfo", "loop"} => open = {}
    /\ pc = "attach" =>
         candidate # NULL /\ descriptor = candidate /\ open = {candidate}
    /\ pc = "free" =>
         IF candidate = NULL THEN open = {}
         ELSE /\ descriptor = candidate /\ open = {candidate}
              /\ outcome[candidate] = "works"
    /\ pc = "returned" => list \in {"unset", "freed"}

\* The candidates behind are those that failed.
FailedBehind == \A i \in All : i < candidate => outcome[i] # "works"

\* A function that got a list of candidates returns the first that works.
ReturnsFirstWorking ==
    pc = "returned" /\ list = "freed" =>
        \/ /\ result \in All /\ outcome[result] = "works"
           /\ \A i \in All : i < result => outcome[i] # "works"
        \/ /\ result = INVALID_SOCKET
           /\ \A i \in All : outcome[i] # "works"

IInv == /\ TypesOK /\ OneAtATime /\ FailedBehind
        /\ OnlyResultOpen /\ ReturnsFirstWorking

\* Every step of the function keeps the invariant.
LEMMA StepIInv ==
    ASSUME IInv, [Next]_vars
    PROVE  IInv'
<1> USE CandidatesAreSome DEF All, NULL, INVALID_SOCKET, IInv, TypesOK,
        OneAtATime, FailedBehind, OnlyResultOpen, ReturnsFirstWorking
<1>1. CASE Resolve
    BY <1>1 DEF Resolve
<1>2. CASE ResolveFails
    BY <1>2 DEF ResolveFails
<1>3. CASE Socket
    BY <1>3 DEF Socket
<1>4. CASE Attach
    BY <1>4 DEF Attach
<1>5. CASE LoopEnds
    BY <1>5 DEF LoopEnds
<1>6. CASE Return
    BY <1>6 DEF Return
<1>7. CASE UNCHANGED vars
    BY <1>7 DEF vars
<1>8. QED
    BY <1>1, <1>2, <1>3, <1>4, <1>5, <1>6, <1>7 DEF Next

\* Every step keeps the invariant.
LEMMA SetupInvariant == Spec => []IInv
<1>1. Init => IInv
    BY CandidatesAreSome DEF Init, All, NULL, IInv, TypesOK, OneAtATime,
      FailedBehind, OnlyResultOpen, ReturnsFirstWorking
<1>2. QED
    BY <1>1, StepIInv, PTL DEF Spec

(***************************************************************************)
(* fn_server_broadcast and connect_to_address_port leak no descriptor, and *)
(* close none they return, however many candidates fail at socket(),       *)
(* bind() or connect().                                                    *)
(***************************************************************************)
THEOREM AlwaysOnlyResultOpen == Spec => []OnlyResultOpen
<1>1. IInv => OnlyResultOpen
    BY DEF IInv
<1>2. QED
    BY <1>1, SetupInvariant, PTL

(***************************************************************************)
(* What they return is the first candidate that works, and INVALID_SOCKET  *)
(* only if none does.                                                      *)
(***************************************************************************)
THEOREM AlwaysReturnsFirstWorking == Spec => []ReturnsFirstWorking
<1>1. IInv => ReturnsFirstWorking
    BY DEF IInv
<1>2. QED
    BY <1>1, SetupInvariant, PTL
==============================================================================
