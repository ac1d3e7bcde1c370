------------------------------ MODULE SocketSetup ------------------------------
(***************************************************************************)
(* How a program gets its socket: fn_server_broadcast binds one            *)
(* (server/server_broadcast.cpp) and connect_to_address_port connects one  *)
(* (client/client_connection.cpp).  Both walk the candidates getaddrinfo   *)
(* returned.  They differ where getaddrinfo fails: the server then frees   *)
(* the list it was not given, a pointer it never set.                      *)
(***************************************************************************)
EXTENDS Integers, FiniteSets

CONSTANTS Candidates,   \* how many addresses getaddrinfo returns
          Program       \* "server" or "client"

ASSUME CandidatesAreSome == Candidates \in Nat /\ Program \in {"server", "client"}

INVALID_SOCKET == -1

VARIABLES
    outcome,      \* what each candidate will do (the operating system's part)
    pc,           \* where the function is
    candidate,    \* server_address: a candidate, or NULL behind the last one
    descriptor,   \* socket_descriptor
    open,         \* the sockets the process has open
    list,         \* address_candidates: "unset", "held" or "freed"
    result        \* what the function returned

vars == <<outcome, pc, candidate, descriptor, open, list, result>>

\* A candidate is the number of its socket, too.
All == 1..Candidates

NULL == Candidates + 1

Init ==
    /\ outcome \in [All -> {"no_socket", "refused", "works"}]
    /\ pc = "getaddrinfo"
    /\ candidate = 1
    /\ descriptor = 0
    /\ open = {}
    /\ list = "unset"
    /\ result = 0

Resolve ==
    /\ pc = "getaddrinfo"
    /\ list' = "held"
    /\ pc' = "loop"
    /\ UNCHANGED <<outcome, candidate, descriptor, open, result>>

\* getaddrinfo fails.  Freeing an unset pointer may do nothing or end the
\* process.
ResolveFails ==
    /\ pc = "getaddrinfo"
    /\ \/ pc' = "returned" /\ result' = INVALID_SOCKET
       \/ Program = "server" /\ pc' = "crashed" /\ UNCHANGED result
    /\ UNCHANGED <<outcome, candidate, descriptor, open, list>>

Socket ==
    /\ pc = "loop" /\ candidate # NULL
    /\ IF outcome[candidate] = "no_socket"
         THEN /\ descriptor' = INVALID_SOCKET
              /\ candidate' = candidate + 1
              /\ UNCHANGED <<pc, open>>
         ELSE /\ descriptor' = candidate
              /\ open' = open \union {candidate}
              /\ pc' = "attach"
              /\ UNCHANGED candidate
    /\ UNCHANGED <<outcome, list, result>>

\* Mutant: the socket that did not work stays open.
Attach_keeps ==
    /\ pc = "attach"
    /\ IF outcome[candidate] = "works"
         THEN pc' = "free" /\ UNCHANGED candidate
         ELSE pc' = "loop" /\ candidate' = candidate + 1
    /\ UNCHANGED <<outcome, descriptor, open, list, result>>

\* bind() or connect(), and close() if it failed.
Attach ==
    /\ pc = "attach"
    /\ IF outcome[candidate] = "works"
         THEN pc' = "free" /\ UNCHANGED <<candidate, open>>
         ELSE /\ pc' = "loop"
              /\ candidate' = candidate + 1
              /\ open' = open \ {descriptor}
    /\ UNCHANGED <<outcome, descriptor, list, result>>

LoopEnds ==
    /\ pc = "loop" /\ candidate = NULL
    /\ pc' = "free"
    /\ UNCHANGED <<outcome, candidate, descriptor, open, list, result>>

\* Mutant: the descriptor decides, not the candidate.
Return_by_descriptor ==
    /\ pc = "free"
    /\ list' = "freed"
    /\ result' = descriptor
    /\ pc' = "returned"
    /\ UNCHANGED <<outcome, candidate, descriptor, open>>

\* freeaddrinfo, and the test whether the loop ran to its end.
Return ==
    /\ pc = "free"
    /\ list' = "freed"
    /\ result' = IF candidate = NULL THEN INVALID_SOCKET ELSE descriptor
    /\ pc' = "returned"
    /\ UNCHANGED <<outcome, candidate, descriptor, open>>

Next == Resolve \/ ResolveFails \/ Socket \/ Attach \/ LoopEnds \/ Return

Spec == Init /\ [][Next]_vars /\ WF_vars(Next)

(***************************************************************************)
(* A function that returns leaves open just the socket it returns, and     *)
(* none if it failed, although each candidate may fail at either call.     *)
(***************************************************************************)
OnlyResultOpen ==
    pc = "returned" =>
        open = (IF result = INVALID_SOCKET THEN {} ELSE {result})

(***************************************************************************)
(* Once the names are resolved the function returns, with the first        *)
(* candidate that works, or INVALID_SOCKET if there is none.               *)
(***************************************************************************)
FirstWorkingReturned ==
    LET working == {i \in All : outcome[i] = "works"}
    IN  list = "held" ~>
          /\ pc = "returned" /\ list = "freed"
          /\ IF working = {} THEN result = INVALID_SOCKET
             ELSE result \in working /\ \A i \in working : result <= i
===============================================================================
