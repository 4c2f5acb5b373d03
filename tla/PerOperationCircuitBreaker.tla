--------------------- MODULE PerOperationCircuitBreaker ---------------------
(***************************************************************************)
(* Goroutines using one PerOperationCircuitBreaker                         *)
(* (src/per_operation_circuit_breaker.go): a map from operation to         *)
(* breaker, filled on demand behind the RWMutex pocb.mu.                   *)
(*                                                                         *)
(* A critical section that calls nothing is one step.  Reset,              *)
(* GetAllStates and GetAllStats hold the read lock while they visit the    *)
(* breakers one after another, each behind its own mutex, so every visit   *)
(* is a step.  As in Go, a goroutine waiting for the write lock keeps new  *)
(* readers out.                                                            *)
(***************************************************************************)
EXTENDS Breaker, FiniteSets

CONSTANTS
    Callers,        \* the goroutines
    Operations,
    Addresses,      \* where a CircuitBreaker may be allocated
    NoAddress,      \* no entry in the map
    Nobody,         \* not behind a breaker
    MaxErrors       \* bound on consecutiveErrors

ASSUME PerOperationAssumption ==
    /\ IsFiniteSet(Callers) /\ IsFiniteSet(Operations)
    /\ NoAddress \notin Addresses
    /\ Nobody \notin Operations
    /\ MaxErrors \in Nat

VARIABLES
    breakers,   \* pocb.breakers: operation -> address
    heap,       \* address -> the CircuitBreaker there
    allocated,  \* the addresses in use
    pc,         \* where each goroutine is
    op,         \* the operation it is about
    cb,         \* its local variable cb
    todo        \* the operations its range loop has yet to visit

vars == <<breakers, heap, allocated, pc, op, cb, todo>>
locals == <<op, cb, todo>>

Known == {o \in Operations : breakers[o] # NoAddress}

Init ==
    /\ breakers = [o \in Operations |-> NoAddress]
    /\ heap = [a \in Addresses |-> NewCircuitBreaker]
    /\ allocated = {}
    /\ pc = [g \in Callers |-> "idle"]
    /\ op \in [Callers -> Operations]
    /\ cb = [g \in Callers |-> NoAddress]
    /\ todo = [g \in Callers |-> {}]

Goto(g, label) == pc' = [pc EXCEPT ![g] = label]

\* pocb.mu: who reads, and whether RLock would block.
readers == {g \in Callers : pc[g] \in {"resetting", "reading"}}
RLockFree == \A g \in Callers : pc[g] # "waiting"

-----------------------------------------------------------------------------
(* GetCircuitBreaker, called by Call                                       *)

\* The lookup under the read lock.
Lookup(g, o) ==
    /\ pc[g] = "idle"
    /\ RLockFree
    /\ op' = [op EXCEPT ![g] = o]
    /\ cb' = [cb EXCEPT ![g] = breakers[o]]
    /\ Goto(g, IF o \in Known THEN "have" ELSE "absent")
    /\ UNCHANGED <<breakers, heap, allocated, todo>>

\* pocb.mu.Lock() is called.
CallLock(g) ==
    /\ pc[g] = "absent"
    /\ Goto(g, "waiting")
    /\ UNCHANGED <<breakers, heap, allocated, locals>>

\* The map's entry for o becomes a new, closed breaker at a.
Install(g, o, a) ==
    /\ breakers' = [breakers EXCEPT ![o] = a]
    /\ heap' = [heap EXCEPT ![a] = NewCircuitBreaker]
    /\ allocated' = allocated \cup {a}
    /\ cb' = [cb EXCEPT ![g] = a]

\* The second check finds the breaker somebody else has created.
FoundAfterAll(g) ==
    /\ pc[g] = "waiting"
    /\ readers = {}
    /\ op[g] \in Known
    /\ cb' = [cb EXCEPT ![g] = breakers[op[g]]]
    /\ Goto(g, "have")
    /\ UNCHANGED <<breakers, heap, allocated, op, todo>>

\* Mutant: there is no second check.
CreateUnchecked(g) ==
    /\ pc[g] = "waiting"
    /\ readers = {}
    /\ \E a \in Addresses \ allocated : Install(g, op[g], a)
    /\ Goto(g, "have")
    /\ UNCHANGED <<op, todo>>

\* Mutant: the map is written under the read lock.
CreateAmongReaders(g) ==
    /\ pc[g] = "waiting"
    /\ op[g] \notin Known
    /\ \E a \in Addresses \ allocated : Install(g, op[g], a)
    /\ Goto(g, "have")
    /\ UNCHANGED <<op, todo>>

Create(g) ==
    /\ pc[g] = "waiting"
    /\ readers = {}
    /\ op[g] \notin Known
    /\ \E a \in Addresses \ allocated : Install(g, op[g], a)
    /\ Goto(g, "have")
    /\ UNCHANGED <<op, todo>>

-----------------------------------------------------------------------------
(* cb.Call(fn) on the breaker that was found                               *)

\* The mutex of the breaker at a is taken and released: it becomes b.
At(a, b) == heap' = [heap EXCEPT ![a] = b]

Admit(g) ==
    /\ pc[g] = "have"
    /\ Allows(heap[cb[g]])
    /\ At(cb[g], allowCall(heap[cb[g]]))
    /\ Goto(g, "running")
    /\ UNCHANGED <<breakers, allocated, locals>>

Reject(g) ==
    /\ pc[g] = "have"
    /\ ~Allows(heap[cb[g]])
    /\ At(cb[g], allowCall(heap[cb[g]]))
    /\ Goto(g, "idle")
    /\ UNCHANGED <<breakers, allocated, locals>>

RecordSuccess(g) ==
    /\ pc[g] = "running"
    /\ At(cb[g], onSuccess(heap[cb[g]]))
    /\ Goto(g, "idle")
    /\ UNCHANGED <<breakers, allocated, locals>>

RecordFailure(g) ==
    /\ pc[g] = "running"
    /\ heap[cb[g]].consecutiveErrors < MaxErrors
    /\ At(cb[g], onFailure(heap[cb[g]]))
    /\ Goto(g, "idle")
    /\ UNCHANGED <<breakers, allocated, locals>>

-----------------------------------------------------------------------------
(* Reset, GetAllStates and GetAllStats: a range loop under the read lock   *)

StartLoop(g, label) ==
    /\ pc[g] = "idle"
    /\ RLockFree
    /\ todo' = [todo EXCEPT ![g] = Known]
    /\ Goto(g, label)
    /\ UNCHANGED <<breakers, heap, allocated, op, cb>>

Reset(g) == StartLoop(g, "resetting")
GetAllStates(g) == StartLoop(g, "reading")

\* cb.Reset(), or cb.GetState() and cb.GetStats(), of one breaker.
Visit(g, o) ==
    LET a == breakers[o] IN
    /\ g \in readers
    /\ o \in todo[g]
    /\ At(a, IF pc[g] = "resetting" THEN reset(heap[a]) ELSE heap[a])
    /\ todo' = [todo EXCEPT ![g] = @ \ {o}]
    /\ UNCHANGED <<breakers, allocated, pc, op, cb>>

\* Mutant: the read lock is released only by a Reset.
EndLoopKeepsLock(g) ==
    /\ pc[g] = "resetting"
    /\ todo[g] = {}
    /\ Goto(g, "idle")
    /\ UNCHANGED <<breakers, heap, allocated, locals>>

\* The deferred RUnlock.
EndLoop(g) ==
    /\ g \in readers
    /\ todo[g] = {}
    /\ Goto(g, "idle")
    /\ UNCHANGED <<breakers, heap, allocated, locals>>

-----------------------------------------------------------------------------
(* ResetOperation: a lookup, then cb.Reset() without pocb.mu               *)

ResetOperation(g, o) ==
    /\ pc[g] = "idle"
    /\ RLockFree
    /\ op' = [op EXCEPT ![g] = o]
    /\ cb' = [cb EXCEPT ![g] = breakers[o]]
    /\ Goto(g, IF o \in Known THEN "found" ELSE "idle")
    /\ UNCHANGED <<breakers, heap, allocated, todo>>

ResetFound(g) ==
    /\ pc[g] = "found"
    /\ At(cb[g], reset(heap[cb[g]]))
    /\ Goto(g, "idle")
    /\ UNCHANGED <<breakers, allocated, locals>>

Tick ==
    /\ heap' = [a \in Addresses |-> Age(heap[a])]
    /\ UNCHANGED <<breakers, allocated, pc, locals>>

-----------------------------------------------------------------------------
Step(g) ==
    \/ CallLock(g) \/ FoundAfterAll(g) \/ Create(g)
    \/ Admit(g) \/ Reject(g) \/ RecordSuccess(g) \/ RecordFailure(g)
    \/ \E o \in Operations : Visit(g, o)
    \/ EndLoop(g)
    \/ ResetFound(g)

Next ==
    \/ \E g \in Callers, o \in Operations : Lookup(g, o) \/ ResetOperation(g, o)
    \/ \E g \in Callers : Reset(g) \/ GetAllStates(g) \/ Step(g)
    \/ Tick

Spec == Init /\ [][Next]_vars

\* A goroutine inside a method is scheduled, gets the mutexes it asks for, and
\* the functions it calls return.
FairSpec == Spec /\ \A g \in Callers : WF_vars(Step(g))

-----------------------------------------------------------------------------
(* Properties.                                                             *)

\* Every variable has its type.
TypeOK ==
    /\ breakers \in [Operations -> Addresses \cup {NoAddress}]
    /\ heap \in [Addresses -> Breakers]
    /\ allocated \subseteq Addresses
    /\ pc \in [Callers -> {"idle", "absent", "waiting", "have", "running",
                           "resetting", "reading", "found"}]
    /\ op \in [Callers -> Operations]
    /\ cb \in [Callers -> Addresses \cup {NoAddress}]
    /\ todo \in [Callers -> SUBSET Operations]

\* However many goroutines ask for a breaker before it exists, all of them get
\* the same one, and it is the one in the map: the breaker a goroutine is
\* about to call, is behind or is about to reset is the breaker of its
\* operation, and two operations never share one.
OneBreakerPerOperation ==
    /\ \A g \in Callers : pc[g] \in {"have", "running", "found"} =>
           op[g] \in Known /\ cb[g] = breakers[op[g]]
    /\ \A o, p \in Known : breakers[o] = breakers[p] => o = p

\* The map is never written while a range loop runs over it (Go would abort the
\* process), so Reset also meets every breaker there is when it returns.
NoWriteDuringLoop ==
    [][\A g \in readers : breakers' = breakers]_vars

\* A breaker that was missing is found: neither the loops that hold the read
\* lock nor the other goroutines that create breakers keep a goroutine from
\* getting its own.
MissingBreakerArrives ==
    \A g \in Callers : pc[g] = "absent" ~> pc[g] = "have"

\* The breaker of o, as seen from outside, and the operation whose breaker has
\* admitted g.
arrayed(o) == IF o \in Known THEN heap[breakers[o]] ELSE NewCircuitBreaker
admitted(g) == IF pc[g] = "running" THEN op[g] ELSE Nobody

Array == INSTANCE BreakerArray
             WITH Keys <- Operations,
                  breaker <- [o \in Operations |-> arrayed(o)],
                  behind <- [g \in Callers |-> admitted(g)]

\* Creating breakers on demand cannot be told from having them all along.
ImplementsArray == Array!Spec
=============================================================================
