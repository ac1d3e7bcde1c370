------------------------------ MODULE Register ------------------------------
(***************************************************************************)
(* What AtomicVar and AtomicMultipleReadersVar (shared/atomic.h) promise:  *)
(* each call takes effect in one step between its call and its return, on  *)
(* a value that is always whole; and while a thread is between lock and    *)
(* unlock no call of another thread takes effect.                          *)
(***************************************************************************)
CONSTANTS Threads, Values,
          None      \* no thread, no value

VARIABLES val,      \* the value
          holder,   \* the thread between lock and unlock
          stage,    \* by thread: "idle", "called" or "done"
          call,     \* by thread: its call, [op, arg], if any
          result    \* by thread: the value a call that is done will return

Reads == {"read", "read_and_replace", "locked_read"}

Writes == {"write", "read_and_replace", "locked_write"}

Locked == {"unlock", "locked_read", "locked_write"}

\* A call that writes has the value as its argument.
Calls == {c \in [op  : Reads \cup Writes \cup Locked \cup {"lock"},
                 arg : Values \cup {None}] :
            c.op \in Writes <=> c.arg # None}

Init ==
  /\ val \in Values
  /\ holder = None
  /\ stage = [t \in Threads |-> "idle"]
  /\ call = [t \in Threads |-> None]
  /\ result = [t \in Threads |-> None]

Invoke(t, c) ==
  /\ stage[t] = "idle"
  /\ c.op \in Locked <=> holder = t
  /\ stage' = [stage EXCEPT ![t] = "called"]
  /\ call' = [call EXCEPT ![t] = c]
  /\ UNCHANGED <<val, holder, result>>

Effect(t) ==
  /\ stage[t] = "called"
  /\ holder \in {None, t}
  /\ stage' = [stage EXCEPT ![t] = "done"]
  /\ result' = [result EXCEPT ![t] = IF call[t].op \in Reads THEN val ELSE None]
  /\ val' = IF call[t].op \in Writes THEN call[t].arg ELSE val
  /\ holder' = CASE call[t].op = "lock"   -> t
                 [] call[t].op = "unlock" -> None
                 [] OTHER                 -> holder
  /\ UNCHANGED call

Return(t) ==
  /\ stage[t] = "done"
  /\ stage' = [stage EXCEPT ![t] = "idle"]
  /\ call' = [call EXCEPT ![t] = None]
  /\ result' = [result EXCEPT ![t] = None]
  /\ UNCHANGED <<val, holder>>

Next == \E t \in Threads : (\E c \in Calls : Invoke(t, c)) \/ Effect(t) \/ Return(t)

Spec == Init /\ [][Next]_<<val, holder, stage, call, result>>
=============================================================================
