------------------------- MODULE PerOperationProofs -------------------------
(***************************************************************************)
(* Proofs about PerOperationCircuitBreaker, for every set of goroutines,   *)
(* operations and addresses.                                               *)
(***************************************************************************)
EXTENDS PerOperationCircuitBreaker, BreakerProofs, TLAPS

\* A breaker in the map is never allocated again.
MapIsAllocated == \A o \in Known : breakers[o] \in allocated

\* A range loop only visits operations that have a breaker.
LoopsVisitKnown == \A g \in readers : todo[g] \subseteq Known

\* OneBreakerPerOperation, with what it needs to be inductive: a new breaker
\* must not be one that is in the map already.
IInv ==
    /\ TypeOK
    /\ OneBreakerPerOperation
    /\ MapIsAllocated
    /\ LoopsVisitKnown

-----------------------------------------------------------------------------
(* The inductive invariant                                                 *)

\* There are no breakers, so nothing is shared.
LEMMA InitIInv == Init => IInv
<1> SUFFICES ASSUME Init PROVE IInv
  OBVIOUS
<1>1. TypeOK
  BY PerOperationAssumption, MethodsKeepType DEF Init, TypeOK
<1>2. Known = {} /\ readers = {}
  BY DEF Init, Known, readers
<1>3. OneBreakerPerOperation
  BY <1>2 DEF OneBreakerPerOperation, Init
<1> QED
  BY <1>1, <1>2, <1>3 DEF IInv, MapIsAllocated, LoopsVisitKnown

\* GetCircuitBreaker and ResetOperation read the map under the read lock.
LEMMA LookupStep ==
    ASSUME IInv, NEW g \in Callers, NEW o \in Operations,
           Lookup(g, o) \/ ResetOperation(g, o)
    PROVE  IInv'
<1> USE DEF IInv
<1>1. TypeOK'
  BY DEF TypeOK, Lookup, ResetOperation, Goto
<1>2. Known' = Known /\ breakers' = breakers /\ allocated' = allocated /\ todo' = todo
  BY DEF Lookup, ResetOperation, Known
<1>3. readers' = readers
  BY DEF Lookup, ResetOperation, Goto, readers, TypeOK
<1>4. OneBreakerPerOperation'
  BY <1>2 DEF OneBreakerPerOperation, Lookup, ResetOperation, Goto, TypeOK
<1> QED
  BY <1>1, <1>2, <1>3, <1>4 DEF MapIsAllocated, LoopsVisitKnown

\* The goroutine goes for the write lock, or finds a breaker behind it.
LEMMA LockStep ==
    ASSUME IInv, NEW g \in Callers, CallLock(g) \/ FoundAfterAll(g)
    PROVE  IInv'
<1> USE DEF IInv
<1>1. TypeOK'
  BY DEF TypeOK, CallLock, FoundAfterAll, Goto, locals
<1>2. Known' = Known /\ breakers' = breakers /\ allocated' = allocated /\ todo' = todo
  BY DEF CallLock, FoundAfterAll, Known, locals
<1>3. readers' = readers
  BY DEF CallLock, FoundAfterAll, Goto, readers, TypeOK
<1>4. OneBreakerPerOperation'
  BY <1>2 DEF OneBreakerPerOperation, CallLock, FoundAfterAll, Goto, TypeOK, locals
<1> QED
  BY <1>1, <1>2, <1>3, <1>4 DEF MapIsAllocated, LoopsVisitKnown

\* A breaker is created for an operation that has none, at a fresh address.
LEMMA CreateStep ==
    ASSUME IInv, NEW g \in Callers, Create(g)
    PROVE  IInv'
<1> USE DEF IInv
<1>0. PICK a \in Addresses \ allocated : Install(g, op[g], a)
  BY DEF Create
<1>1. TypeOK'
  BY <1>0, MethodsKeepType DEF TypeOK, Create, Install, Goto
<1>2. /\ op[g] \in Operations /\ op[g] \notin Known /\ a # NoAddress
      /\ breakers' = [breakers EXCEPT ![op[g]] = a]
      /\ allocated' = allocated \cup {a}
  BY <1>0, PerOperationAssumption DEF Create, Install, TypeOK
<1>3. Known' = Known \cup {op[g]}
  BY <1>2 DEF Known, TypeOK
<1>4. \A o \in Known : breakers'[o] = breakers[o]
  BY <1>2 DEF Known, TypeOK
<1>5. breakers'[op[g]] = a
  BY <1>2 DEF TypeOK
<1>6. \A h \in Callers : pc'[h] \in {"have", "running", "found"} =>
          op'[h] \in Known' /\ cb'[h] = breakers'[op'[h]]
  <2> SUFFICES ASSUME NEW h \in Callers, pc'[h] \in {"have", "running", "found"}
               PROVE  op'[h] \in Known' /\ cb'[h] = breakers'[op'[h]]
    OBVIOUS
  <2>1. op' = op
    BY DEF Create
  <2>2. CASE h = g
    BY <1>0, <1>3, <1>5, <2>1, <2>2 DEF Install, TypeOK
  <2>3. CASE h # g
    <3>1. pc'[h] = pc[h] /\ cb'[h] = cb[h]
      BY <1>0, <2>3 DEF Create, Goto, Install, TypeOK
    <3> QED
      BY <1>3, <1>4, <2>1, <3>1 DEF OneBreakerPerOperation
  <2> QED
    BY <2>2, <2>3
<1>7. \A o, p \in Known' : breakers'[o] = breakers'[p] => o = p
  <2>1. \A o \in Known : breakers[o] # a
    BY DEF MapIsAllocated
  <2> QED
    BY <1>3, <1>4, <1>5, <2>1 DEF OneBreakerPerOperation
<1>8. MapIsAllocated'
  BY <1>2, <1>3, <1>4, <1>5 DEF MapIsAllocated
<1>9. LoopsVisitKnown'
  <2>1. readers' = {}
    BY DEF Create, Goto, readers, TypeOK
  <2> QED
    BY <2>1 DEF LoopsVisitKnown
<1> QED
  BY <1>1, <1>6, <1>7, <1>8, <1>9 DEF OneBreakerPerOperation

\* The breaker at the goroutine's address is one of the array.
LEMMA HeldBreaker ==
    ASSUME IInv, NEW g \in Callers, pc[g] \in {"have", "running", "found"}
    PROVE  /\ op[g] \in Known /\ op[g] \in Operations
           /\ cb[g] = breakers[op[g]] /\ cb[g] \in Addresses
           /\ heap[cb[g]] \in Breakers
  BY DEF IInv, OneBreakerPerOperation, TypeOK, Known

\* A method of the breaker that was found.
LEMMA BreakerStep ==
    ASSUME IInv, NEW g \in Callers,
           \/ Admit(g) \/ Reject(g) \/ RecordSuccess(g) \/ RecordFailure(g)
           \/ ResetFound(g)
    PROVE  IInv'
<1> USE DEF IInv
<1>1. pc[g] \in {"have", "running", "found"}
  BY DEF Admit, Reject, RecordSuccess, RecordFailure, ResetFound
<1>2. PICK b \in Breakers, q \in {"running", "idle"} :
          /\ heap' = [heap EXCEPT ![cb[g]] = b]
          /\ pc' = [pc EXCEPT ![g] = q]
          /\ q = "running" => pc[g] = "have"
  BY <1>1, HeldBreaker, MethodsKeepType
  DEF Admit, Reject, RecordSuccess, RecordFailure, ResetFound, At, Goto
<1>3. UNCHANGED <<breakers, allocated, locals>>
  BY DEF Admit, Reject, RecordSuccess, RecordFailure, ResetFound
<1>4. TypeOK'
  BY <1>2, <1>3 DEF TypeOK, locals
<1>5. Known' = Known
  BY <1>3 DEF Known
<1>6. readers' = readers
  BY <1>1, <1>2 DEF readers, TypeOK
<1>7. OneBreakerPerOperation'
  BY <1>2, <1>3, <1>5 DEF OneBreakerPerOperation, TypeOK, locals
<1> QED
  BY <1>3, <1>4, <1>5, <1>6, <1>7 DEF MapIsAllocated, LoopsVisitKnown, locals

\* The range loops begin, visit a breaker and end.
LEMMA LoopStep ==
    ASSUME IInv, NEW g \in Callers,
           \/ Reset(g) \/ GetAllStates(g) \/ EndLoop(g)
           \/ \E o \in Operations : Visit(g, o)
    PROVE  IInv'
<1> USE DEF IInv
<1>1. CASE Reset(g) \/ GetAllStates(g)
  <2>1. TypeOK'
    BY <1>1 DEF TypeOK, Reset, GetAllStates, StartLoop, Goto, Known
  <2>2. /\ Known' = Known /\ UNCHANGED <<breakers, allocated, op, cb>>
        /\ todo' = [todo EXCEPT ![g] = Known]
    BY <1>1 DEF Reset, GetAllStates, StartLoop, Known
  <2>3. OneBreakerPerOperation'
    BY <1>1, <2>2 DEF OneBreakerPerOperation, Reset, GetAllStates, StartLoop, Goto, TypeOK
  <2>4. LoopsVisitKnown'
    BY <1>1, <2>2
    DEF LoopsVisitKnown, readers, Reset, GetAllStates, StartLoop, Goto, TypeOK
  <2> QED
    BY <2>1, <2>2, <2>3, <2>4 DEF MapIsAllocated
<1>2. CASE EndLoop(g)
  <2>1. TypeOK'
    BY <1>2 DEF TypeOK, EndLoop, Goto, locals
  <2>2. Known' = Known /\ UNCHANGED <<breakers, allocated, op, cb, todo>>
    BY <1>2 DEF EndLoop, Known, locals
  <2>3. OneBreakerPerOperation'
    BY <1>2, <2>2 DEF OneBreakerPerOperation, EndLoop, Goto, TypeOK
  <2>4. LoopsVisitKnown'
    BY <1>2, <2>2 DEF LoopsVisitKnown, readers, EndLoop, Goto, TypeOK
  <2> QED
    BY <2>1, <2>2, <2>3, <2>4 DEF MapIsAllocated
<1>3. ASSUME NEW o \in Operations, Visit(g, o) PROVE IInv'
  <2>1. breakers[o] \in Addresses /\ heap[breakers[o]] \in Breakers
    BY <1>3 DEF Visit, LoopsVisitKnown, Known, TypeOK
  <2>2. PICK b \in Breakers : heap' = [heap EXCEPT ![breakers[o]] = b]
    BY <1>3, <2>1, MethodsKeepType DEF Visit, At
  <2>3. /\ UNCHANGED <<breakers, allocated, pc, op, cb>>
        /\ todo' = [todo EXCEPT ![g] = @ \ {o}]
    BY <1>3 DEF Visit
  <2>4. TypeOK'
    BY <2>2, <2>3 DEF TypeOK
  <2>5. Known' = Known /\ readers' = readers
    BY <2>3 DEF Known, readers
  <2>6. LoopsVisitKnown'
    BY <2>3, <2>5 DEF LoopsVisitKnown, TypeOK, readers
  <2>7. OneBreakerPerOperation'
    BY <2>3, <2>5 DEF OneBreakerPerOperation
  <2> QED
    BY <2>3, <2>4, <2>5, <2>6, <2>7 DEF MapIsAllocated
<1> QED
  BY <1>1, <1>2, <1>3

\* Time passes for every breaker.
LEMMA TickStep ==
    ASSUME IInv, Tick
    PROVE  IInv'
<1> USE DEF IInv
<1>1. TypeOK'
  BY MethodsKeepType DEF TypeOK, Tick, locals
<1> QED
  BY <1>1 DEF Tick, locals, OneBreakerPerOperation, MapIsAllocated, LoopsVisitKnown,
      Known, readers

\* No step breaks the invariant.
LEMMA NextIInv == IInv /\ [Next]_vars => IInv'
<1> SUFFICES ASSUME IInv, [Next]_vars PROVE IInv'
  OBVIOUS
<1>1. CASE UNCHANGED vars
  BY <1>1 DEF vars, IInv, TypeOK, OneBreakerPerOperation, MapIsAllocated,
      LoopsVisitKnown, Known, readers
<1>2. CASE Next
  BY <1>2, LookupStep, LockStep, CreateStep, BreakerStep, LoopStep, TickStep
  DEF Next, Step
<1> QED
  BY <1>1, <1>2

-----------------------------------------------------------------------------
(* The theorems                                                            *)

\* IInv holds in every reachable state.
LEMMA AlwaysIInv == Spec => []IInv
  BY InitIInv, NextIInv, PTL DEF Spec

\* Every variable keeps its type, however the goroutines interleave.
THEOREM TypeCorrect == Spec => []TypeOK
<1>1. IInv => TypeOK
  BY DEF IInv
<1> QED
  BY <1>1, AlwaysIInv, PTL

\* GetCircuitBreaker gives every goroutine the breaker that is in the map, and
\* no two operations the same one: the second check behind the write lock is
\* enough.
THEOREM OneBreaker == Spec => []OneBreakerPerOperation
<1>1. IInv => OneBreakerPerOperation
  BY DEF IInv
<1> QED
  BY <1>1, AlwaysIInv, PTL

\* The map is written only when no range loop holds the read lock.
THEOREM LoopsAreSafe == Spec => NoWriteDuringLoop
<1>1. [Next]_vars => [\A g \in readers : breakers' = breakers]_vars
  <2> SUFFICES ASSUME Next, NEW g \in readers PROVE breakers' = breakers
    OBVIOUS
  <2>1. ASSUME NEW h \in Callers, Create(h) PROVE FALSE
    BY <2>1 DEF Create
  <2>2. CASE \E h \in Callers, o \in Operations : Lookup(h, o) \/ ResetOperation(h, o)
    BY <2>2 DEF Lookup, ResetOperation
  <2>3. CASE \E h \in Callers : Reset(h) \/ GetAllStates(h) \/ Step(h)
    BY <2>1, <2>3
    DEF Reset, GetAllStates, StartLoop, Step, CallLock, FoundAfterAll, Admit, Reject,
        RecordSuccess, RecordFailure, Visit, EndLoop, ResetFound
  <2>4. CASE Tick
    BY <2>4 DEF Tick
  <2> QED
    BY <2>2, <2>3, <2>4 DEF Next
<1> QED
  BY <1>1, PTL DEF Spec, NoWriteDuringLoop

-----------------------------------------------------------------------------
(* The refinement of BreakerArray                                          *)

\* BreakerArray means by a breaker what PerOperationCircuitBreaker does.
LEMMA SameBreakers ==
    /\ Array!NewCircuitBreaker = NewCircuitBreaker
    /\ \A b : /\ Array!Allows(b) <=> Allows(b)
              /\ Array!allowCall(b) = allowCall(b)
              /\ Array!onSuccess(b) = onSuccess(b)
              /\ Array!onFailure(b) = onFailure(b)
              /\ Array!reset(b) = reset(b)
              /\ Array!Age(b) = Age(b)
<1> USE DEF Array!StateClosed, StateClosed, Array!StateOpen, StateOpen,
            Array!StateHalfOpen, StateHalfOpen
<1>1. Array!NewCircuitBreaker = NewCircuitBreaker
  BY Zenon DEF Array!NewCircuitBreaker, NewCircuitBreaker
<1>2. ASSUME NEW b PROVE Array!Allows(b) <=> Allows(b)
  BY Zenon DEF Array!Allows, Allows
<1>3. ASSUME NEW b PROVE Array!allowCall(b) = allowCall(b)
  BY Zenon DEF Array!allowCall, allowCall, Array!Allows, Allows, Array!setState, setState
<1>4. ASSUME NEW b PROVE Array!onSuccess(b) = onSuccess(b)
  BY Zenon DEF Array!onSuccess, onSuccess, Array!setState, setState
<1>5. ASSUME NEW b PROVE Array!onFailure(b) = onFailure(b)
  BY Zenon DEF Array!onFailure, onFailure, Array!setState, setState
<1>6. ASSUME NEW b PROVE Array!reset(b) = reset(b)
  BY Zenon DEF Array!reset, reset, Array!setState, setState
<1>7. ASSUME NEW b PROVE Array!Age(b) = Age(b)
  BY Zenon DEF Array!Age, Age, Array!Advance, Advance
<1> QED
  BY <1>1, <1>2, <1>3, <1>4, <1>5, <1>6, <1>7, Zenon

\* A breaker is created as BreakerArray has it from the start.
LEMMA InitArray == Init => Array!Init
<1> SUFFICES ASSUME Init PROVE Array!Init
  OBVIOUS
<1>1. Known = {}
  BY DEF Init, Known
<1>2. \A o \in Operations : arrayed(o) = NewCircuitBreaker
  BY <1>1 DEF arrayed
<1>3. \A g \in Callers : admitted(g) = Nobody
  BY DEF admitted, Init
<1> QED
  BY <1>2, <1>3, SameBreakers DEF Array!Init

\* A method of the breaker of o changes the array at o only.
LEMMA OneChange ==
    ASSUME IInv, NEW o \in Known, NEW b, breakers' = breakers,
           heap' = [heap EXCEPT ![breakers[o]] = b]
    PROVE  /\ arrayed(o) = heap[breakers[o]]
           /\ [p \in Operations |-> arrayed(p)]' =
                  [[p \in Operations |-> arrayed(p)] EXCEPT ![o] = b]
<1>1. Known' = Known
  BY DEF Known
<1>2. breakers[o] \in Addresses /\ o \in Operations
  BY DEF IInv, TypeOK, Known
<1>3. arrayed(o)' = b
  BY <1>1, <1>2 DEF arrayed, IInv, TypeOK
<1>4. \A p \in Operations : p # o => arrayed(p)' = arrayed(p)
  BY <1>1, <1>2 DEF arrayed, IInv, TypeOK, OneBreakerPerOperation
<1> QED
  BY <1>2, <1>3, <1>4 DEF arrayed

\* The goroutines' part of the array after one of them has moved.
LEMMA OneMove ==
    ASSUME IInv, NEW g \in Callers, NEW q, pc' = [pc EXCEPT ![g] = q], op' = op
    PROVE  [h \in Callers |-> admitted(h)]' =
               [[h \in Callers |-> admitted(h)] EXCEPT
                    ![g] = IF q = "running" THEN op[g] ELSE Nobody]
<1>1. admitted(g)' = IF q = "running" THEN op[g] ELSE Nobody
  BY DEF admitted, IInv, TypeOK
<1>2. \A h \in Callers : h # g => admitted(h)' = admitted(h)
  BY DEF admitted, IInv, TypeOK
<1> QED
  BY <1>1, <1>2

\* A breaker that has never been called does not feel time.
LEMMA NewIsAgeless == Age(NewCircuitBreaker) = NewCircuitBreaker
  BY BreakerAssumption DEF Age, Advance, NewCircuitBreaker

\* Nobody outside sees a lookup, a creation or the end of a loop.
LEMMA InvisibleStep ==
    ASSUME IInv, NEW g \in Callers,
           \/ \E o \in Operations : Lookup(g, o) \/ ResetOperation(g, o)
           \/ CallLock(g) \/ FoundAfterAll(g) \/ Create(g)
           \/ Reset(g) \/ GetAllStates(g) \/ EndLoop(g)
    PROVE  UNCHANGED Array!vars
<1>1. \A o \in Operations : arrayed(o)' = arrayed(o)
  <2>1. CASE Create(g)
    <3>1. PICK a \in Addresses \ allocated : Install(g, op[g], a)
      BY <2>1 DEF Create
    <3>2. /\ op[g] \in Operations /\ op[g] \notin Known /\ a # NoAddress
          /\ breakers' = [breakers EXCEPT ![op[g]] = a]
          /\ heap' = [heap EXCEPT ![a] = NewCircuitBreaker]
      BY <2>1, <3>1, PerOperationAssumption DEF Create, Install, IInv, TypeOK
    <3>3. Known' = Known \cup {op[g]}
      BY <3>2 DEF Known, IInv, TypeOK
    <3>4. \A o \in Known : breakers'[o] = breakers[o] /\ breakers[o] # a
      BY <3>1, <3>2 DEF IInv, MapIsAllocated, TypeOK, Known
    <3>5. \A o \in Known : breakers[o] \in Addresses
      BY DEF Known, IInv, TypeOK
    <3>6. breakers'[op[g]] = a /\ heap'[a] = NewCircuitBreaker
      BY <3>1, <3>2 DEF IInv, TypeOK
    <3>7. \A o \in Known : heap'[breakers[o]] = heap[breakers[o]]
      BY <3>2, <3>4, <3>5 DEF IInv, TypeOK
    <3> QED
      BY <3>2, <3>3, <3>4, <3>6, <3>7 DEF arrayed
  <2>2. CASE ~Create(g)
    <3>1. breakers' = breakers /\ heap' = heap
      BY <2>2 DEF Lookup, ResetOperation, CallLock, FoundAfterAll, Reset, GetAllStates,
          StartLoop, EndLoop
    <3> QED
      BY <3>1 DEF arrayed, Known
  <2> QED
    BY <2>1, <2>2
<1>2. \A h \in Callers : admitted(h)' = admitted(h)
  BY DEF admitted, Lookup, ResetOperation, CallLock, FoundAfterAll, Create, Reset,
      GetAllStates, StartLoop, EndLoop, Goto, locals, readers, IInv, TypeOK
<1> QED
  BY <1>1, <1>2 DEF Array!vars

\* Admissions, refusals, results and resets are those of BreakerArray.
LEMMA VisibleStep ==
    ASSUME IInv, NEW g \in Callers,
           \/ Admit(g) \/ Reject(g) \/ RecordSuccess(g) \/ RecordFailure(g)
           \/ ResetFound(g)
    PROVE  [Array!Next]_Array!vars
<1> DEFINE k == op[g]
           bar == [p \in Operations |-> arrayed(p)]
           who == [h \in Callers |-> admitted(h)]
<1>1. pc[g] \in {"have", "running", "found"}
  BY DEF Admit, Reject, RecordSuccess, RecordFailure, ResetFound
<1>2. /\ k \in Known /\ k \in Operations /\ cb[g] = breakers[k]
      /\ cb[g] \in Addresses /\ heap[cb[g]] \in Breakers
  BY <1>1, HeldBreaker
<1>3. bar[k] = heap[cb[g]]
  BY <1>2 DEF arrayed
<1>4. breakers' = breakers /\ op' = op
  BY DEF Admit, Reject, RecordSuccess, RecordFailure, ResetFound, locals
<1>5. ASSUME NEW b, At(cb[g], b) PROVE bar' = [bar EXCEPT ![k] = b]
  BY <1>2, <1>4, <1>5, OneChange DEF At
<1>6. ASSUME NEW q, Goto(g, q)
      PROVE  who' = [who EXCEPT ![g] = IF q = "running" THEN k ELSE Nobody]
  BY <1>4, <1>6, OneMove DEF Goto
<1>7. who[g] = IF pc[g] = "running" THEN k ELSE Nobody
  BY DEF admitted
<1> HIDE DEF bar, who, k
<1>8. CASE Admit(g)
  <2>1. /\ who[g] = Nobody /\ Allows(bar[k])
        /\ bar' = [bar EXCEPT ![k] = allowCall(bar[k])]
        /\ who' = [who EXCEPT ![g] = k]
    BY <1>3, <1>5, <1>6, <1>7, <1>8 DEF Admit
  <2>2. Array!Admit(g, k)
    BY <2>1, SameBreakers DEF Array!Admit, bar, who
  <2> QED
    BY <1>2, <2>2 DEF Array!Next
<1>9. CASE Reject(g)
  <2>1. allowCall(bar[k]) = bar[k]
    BY <1>3, <1>9 DEF Reject, allowCall
  <2>2. /\ bar' = [bar EXCEPT ![k] = bar[k]]
        /\ who' = [who EXCEPT ![g] = who[g]]
    BY <1>3, <1>5, <1>6, <1>7, <1>9, <2>1 DEF Reject
  <2>3. bar' = bar /\ who' = who
    BY <2>2 DEF bar, who
  <2> QED
    BY <2>3 DEF Array!vars, bar, who
<1>10. CASE RecordSuccess(g) \/ RecordFailure(g)
  <2>1. /\ who[g] = k
        /\ \E b \in {onSuccess(bar[k]), onFailure(bar[k])} : bar' = [bar EXCEPT ![k] = b]
        /\ who' = [who EXCEPT ![g] = Nobody]
    BY <1>3, <1>5, <1>6, <1>7, <1>10 DEF RecordSuccess, RecordFailure
  <2>2. Array!Record(g, k)
    BY <2>1, SameBreakers DEF Array!Record, bar, who
  <2> QED
    BY <1>2, <2>2 DEF Array!Next
<1>11. CASE ResetFound(g)
  <2>1. /\ bar' = [bar EXCEPT ![k] = reset(bar[k])]
        /\ who' = [who EXCEPT ![g] = who[g]]
    BY <1>3, <1>5, <1>6, <1>7, <1>11 DEF ResetFound
  <2>2. who' = who
    BY <2>1 DEF who
  <2>3. Array!Reset(k)
    BY <2>1, <2>2, SameBreakers DEF Array!Reset, bar, who
  <2> QED
    BY <1>2, <2>3 DEF Array!Next
<1> QED
  BY <1>8, <1>9, <1>10, <1>11

\* A visit resets the breaker of one operation, or only looks at it.
LEMMA VisitStep ==
    ASSUME IInv, NEW g \in Callers, NEW o \in Operations, Visit(g, o)
    PROVE  [Array!Next]_Array!vars
<1> DEFINE bar == [p \in Operations |-> arrayed(p)]
           who == [h \in Callers |-> admitted(h)]
<1>1. /\ o \in Known /\ breakers[o] \in Addresses
      /\ UNCHANGED <<breakers, pc, op>>
  BY DEF Visit, IInv, LoopsVisitKnown, Known, TypeOK
<1>2. who' = who
  BY <1>1 DEF admitted
<1>3. bar[o] = heap[breakers[o]]
  BY <1>1 DEF arrayed
<1>4. ASSUME NEW b, At(breakers[o], b) PROVE bar' = [bar EXCEPT ![o] = b]
  BY <1>1, <1>4, OneChange DEF At
<1> HIDE DEF bar, who
<1>5. CASE pc[g] = "resetting"
  <2>1. bar' = [bar EXCEPT ![o] = reset(bar[o])]
    BY <1>3, <1>4, <1>5 DEF Visit
  <2>2. Array!Reset(o)
    BY <1>2, <2>1, SameBreakers DEF Array!Reset, bar, who
  <2> QED
    BY <2>2 DEF Array!Next
<1>6. CASE pc[g] # "resetting"
  <2>1. bar' = [bar EXCEPT ![o] = bar[o]]
    BY <1>3, <1>4, <1>6 DEF Visit
  <2>2. bar' = bar
    BY <2>1 DEF bar
  <2> QED
    BY <1>2, <2>2 DEF Array!vars, bar, who
<1> QED
  BY <1>5, <1>6

\* Time passes for the breakers that do not exist yet as well.
LEMMA TickArray ==
    ASSUME IInv, Tick
    PROVE  Array!Tick
<1>1. \A o \in Known : breakers[o] \in Addresses
  BY DEF Known, IInv, TypeOK
<1>2. \A o \in Operations : arrayed(o)' = Age(arrayed(o))
  BY <1>1, NewIsAgeless DEF arrayed, Tick, Known
<1>3. \A g \in Callers : admitted(g)' = admitted(g)
  BY DEF Tick, admitted, locals
<1> QED
  BY <1>2, <1>3, SameBreakers DEF Array!Tick

\* Every step is one of BreakerArray, or changes nothing there.
LEMMA StepArray == IInv /\ [Next]_vars => [Array!Next]_Array!vars
<1> SUFFICES ASSUME IInv, [Next]_vars PROVE [Array!Next]_Array!vars
  OBVIOUS
<1>1. CASE UNCHANGED vars
  BY <1>1 DEF vars, Array!vars, arrayed, admitted, Known
<1>2. CASE Tick
  BY <1>2, TickArray DEF Array!Next
<1>3. CASE Next /\ ~Tick
  BY <1>3, InvisibleStep, VisibleStep, VisitStep DEF Next, Step
<1> QED
  BY <1>1, <1>2, <1>3

\* Breakers created on demand behind the RWMutex implement an array of breakers
\* that are there from the start, each call recorded where it was admitted.
THEOREM Refinement == Spec => ImplementsArray
  BY InitArray, StepArray, AlwaysIInv, PTL DEF Spec, ImplementsArray, Array!Spec
=============================================================================
