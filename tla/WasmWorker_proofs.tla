---------------------------- MODULE WasmWorker_proofs ----------------------------
(***************************************************************************)
(* A careful client of the worker: the sessions own exactly the native     *)
(* handles, duplicates are refused, and 'close' ends every session, for    *)
(* any number of streams and requests.                                     *)
(***************************************************************************)
EXTENDS WasmWorker, TLAPS

\* A careful client never has a creation and another creation, or a 'close', in flight
\* together: what waits, waits for the current module and was posted since the last 'close'.
Current ==
  /\ initialised => modulePromise # 0 /\ modules[modulePromise] = "loaded"
  /\ \A w \in waiting : w.module = modulePromise /\ w.epoch = closes

\* A waiting creation is the only one, and its stream still has no session.
Alone ==
  \A w \in waiting : w.op = "create" =>
    /\ w.key \in Key /\ sessions[w.key] = NoSession
    /\ \A v \in waiting : v.op = "create" => v = w

\* Handles are named by requests that have been answered.
Fresh ==
  /\ native \subseteq 1 .. requests
  /\ \A w \in waiting : /\ w.number \in 1 .. requests /\ w.number \notin native
                        /\ \A v \in waiting : v.number = w.number => v = w

NoneFromBefore == \A k \in Key : Has(k) => sessions[k].epoch = closes

Inductive == TypeOK /\ Current /\ Alone /\ Fresh /\ Owned /\ NoneFromBefore

LEMMA InitInductive == Init => Inductive
<1> SUFFICES ASSUME Init PROVE Inductive
  OBVIOUS
<1>1. TypeOK
  <2>1. NoSession \in Session /\ <<>> \in Seq(ModuleState) /\ Len(<<>>) = 0
    BY DEF NoSession, Session
  <2>2. modules \in Seq(ModuleState) /\ modulePromise \in 0 .. Len(modules)
    BY <2>1 DEF Init
  <2>3. sessions \in [Key -> Session]
    BY <2>1 DEF Init
  <2> QED BY <2>2, <2>3 DEF Init, TypeOK
<1>2a. Current /\ Alone /\ Fresh
  BY DEF Init, Current, Alone, Fresh
<1>2. \A k \in Key : ~Has(k)
  BY DEF Init, Has
<1>3. native = {sessions[k].handle : k \in {k \in Key : Has(k)}}
  BY <1>2 DEF Init
<1>4. Owned /\ NoneFromBefore
  BY <1>2, <1>3 DEF Owned, NoneFromBefore
<1> QED BY <1>1, <1>2a, <1>4 DEF Inductive

\* When a careful client posts anything but 'init', nothing waits.
LEMMA NothingWaits ==
  ASSUME careful, Inductive, NEW op, op # "init", Receive(op)
  PROVE  waiting = {}
  BY DEF Inductive, Current, TypeOK, Receive, MayPost, NoneReady, Ready

\* The types survive the wait for a module.
LEMMA AwaitType ==
  ASSUME TypeOK, NEW op \in Awaiting, NEW k \in Key \cup {NoKey},
         AwaitModule(op, k)
  PROVE  /\ modules' \in Seq(ModuleState)
         /\ modulePromise' \in 0 .. Len(modules')
         /\ modulePromise' \in DOMAIN modules'
         /\ \A m \in DOMAIN modules : m \in DOMAIN modules' /\ modules'[m] = modules[m]
         /\ waiting' \subseteq Continuation
         /\ \A w \in waiting' : w.module \in DOMAIN modules'
<1> DEFINE w0 == [number |-> requests + 1, op |-> op, key |-> k, module |-> Module,
                  epoch |-> closes]
<1>1. CASE modulePromise = 0
  <2>1. modules' = Append(modules, "loading") /\ Module = Len(modules) + 1
    BY <1>1 DEF AwaitModule, Module
  <2>2. /\ modules' \in Seq(ModuleState) /\ Len(modules') = Len(modules) + 1
        /\ \A m \in DOMAIN modules : m \in DOMAIN modules' /\ modules'[m] = modules[m]
        /\ Module \in DOMAIN modules'
    BY <2>1 DEF TypeOK, ModuleState
  <2>3. w0 \in Continuation
    BY <2>1 DEF TypeOK, Continuation
  <2> QED BY <2>1, <2>2, <2>3 DEF AwaitModule, TypeOK
<1>2. CASE modulePromise # 0
  <2>1. modules' = modules /\ Module = modulePromise /\ modulePromise \in DOMAIN modules
    BY <1>2 DEF AwaitModule, Module, TypeOK
  <2>2. w0 \in Continuation
    BY <2>1 DEF TypeOK, Continuation
  <2> QED BY <2>1, <2>2 DEF AwaitModule, TypeOK
<1> QED BY <1>1, <1>2

\* Closing one session keeps the rest.
LEMMA CloseSessionOwned ==
  ASSUME Inductive, NEW k \in Key, Has(k), CloseSession(k), closes' = closes
  PROVE  Owned' /\ NoneFromBefore' /\ sessions' \in [Key -> Session]
         /\ native' \subseteq native
  BY DEF Inductive, TypeOK, Owned, NoneFromBefore, Has, CloseSession, NoSession, Session

LEMMA StepInductive ==
  ASSUME careful, Inductive, [Next]_vars
  PROVE  Inductive'
<1> SUFFICES ASSUME (Step /\ careful' = careful) \/ UNCHANGED vars
             PROVE  Inductive'
  BY DEF Next
<1>0. careful' = careful
  BY DEF vars
<1> USE <1>0
<1>1. CASE AwaitInitOrBatch
  <2> PICK op \in {"init", "batch"} : Receive(op) /\ AwaitModule(op, NoKey)
    BY <1>1 DEF AwaitInitOrBatch
  <2> USE <1>1 DEF AwaitInitOrBatch
  <2>1. TypeOK'
    BY AwaitType DEF Inductive, TypeOK, Receive, Awaiting
  <2>2. Current'
    <3>1. \A w \in waiting : modulePromise # 0 /\ w.module = modulePromise
      BY DEF Inductive, Current, TypeOK
    <3>2. initialised => modulePromise' = modulePromise /\ modules' = modules
      BY DEF Inductive, Current, AwaitModule, Module
    <3> QED BY <3>1, <3>2 DEF Inductive, Current, AwaitModule, Module
  <2>3. Alone'
    BY DEF Inductive, Alone, AwaitModule
  <2>4. Fresh'
    BY DEF Inductive, TypeOK, Fresh, AwaitModule, Receive
  <2>5. Owned' /\ NoneFromBefore'
    BY DEF Inductive, Owned, NoneFromBefore, Has
  <2> QED BY <2>1, <2>2, <2>3, <2>4, <2>5 DEF Inductive
<1>2. ASSUME NEW k \in Key, Create(k)
      PROVE  Inductive'
  <2>0. Receive("create")
    BY <1>2 DEF Create
  <2>1. waiting = {}
    BY <1>2, <2>0, NothingWaits DEF Create
  <2>2. Owned' /\ NoneFromBefore'
    BY <1>2 DEF Create, Inductive, Owned, NoneFromBefore, Has
  <2>3. CASE Has(k) /\ UNCHANGED <<modules, modulePromise, waiting>>
    BY <1>2, <2>0, <2>1, <2>2, <2>3
       DEF Create, Inductive, TypeOK, Current, Alone, Fresh, Receive
  <2>4. CASE ~Has(k) /\ AwaitModule("create", k)
    <3>1. TypeOK'
      BY <1>2, <2>0, <2>4, AwaitType DEF Create, Inductive, TypeOK, Receive, Awaiting
    <3>2. Current'
      <4>1. initialised => modulePromise' = modulePromise /\ modules' = modules
        BY <2>4 DEF Inductive, Current, AwaitModule, Module
      <4> QED BY <1>2, <2>1, <2>4, <4>1 DEF Create, Inductive, Current, AwaitModule, Module
    <3>3. Alone'
      BY <1>2, <2>1, <2>4 DEF Create, Alone, AwaitModule, Has
    <3>4. Fresh'
      BY <1>2, <2>0, <2>1, <2>4 DEF Create, Inductive, TypeOK, Fresh, AwaitModule, Receive
    <3> QED BY <3>1, <3>2, <3>3, <3>4, <2>2 DEF Inductive
  <2> QED BY <1>2, <2>3, <2>4 DEF Create
<1>3. ASSUME NEW k \in Key, Use(k) \/ FinishOrCloseOne(k)
      PROVE  Inductive'
  <2>1. PICK op : op # "init" /\ Receive(op)
    BY <1>3 DEF Use, FinishOrCloseOne
  <2>2. waiting = {} /\ waiting' = {}
    BY <1>3, <2>1, NothingWaits DEF Use, FinishOrCloseOne
  <2>3. UNCHANGED <<modules, modulePromise, closes, initialised>>
    BY <1>3 DEF Use, FinishOrCloseOne
  <2>4. /\ Owned' /\ NoneFromBefore' /\ sessions' \in [Key -> Session]
        /\ native' \subseteq native
    <3>1. CASE Has(k) /\ CloseSession(k)
      BY <3>1, <2>3, CloseSessionOwned
    <3>2. CASE UNCHANGED <<sessions, native>>
      BY <3>2, <2>3 DEF Inductive, TypeOK, Owned, NoneFromBefore, Has
    <3> QED BY <1>3, <3>1, <3>2 DEF Use, FinishOrCloseOne
  <2>5. requests' = requests + 1
    BY <2>1 DEF Receive
  <2> QED BY <2>2, <2>3, <2>4, <2>5 DEF Inductive, TypeOK, Current, Alone, Fresh
<1>4. CASE CloseAll
  <2>1. waiting = {} /\ waiting' = {}
    BY <1>4, NothingWaits DEF CloseAll
  <2>2. native' = {}
    BY <1>4 DEF CloseAll, Inductive, Owned
  <2>3. Owned' /\ NoneFromBefore' /\ sessions' \in [Key -> Session]
    BY <1>4, <2>2 DEF CloseAll, Owned, NoneFromBefore, Has, NoSession, Session
  <2>4. UNCHANGED modules /\ modulePromise' = 0 /\ initialised' = FALSE
        /\ closes' = closes + 1 /\ requests' = requests + 1
    BY <1>4 DEF CloseAll, Receive
  <2>5. TypeOK'
    <3>1. modules' \in Seq(ModuleState) /\ modulePromise' \in 0 .. Len(modules')
      BY <2>4 DEF Inductive, TypeOK
    <3>2. requests' \in Nat /\ closes' \in Nat
      BY <2>4 DEF Inductive, TypeOK
    <3> QED BY <2>1, <2>2, <2>3, <2>4, <3>1, <3>2 DEF TypeOK
  <2>6. Current' /\ Alone' /\ Fresh'
    BY <2>1, <2>2, <2>4 DEF Current, Alone, Fresh
  <2> QED BY <2>3, <2>5, <2>6 DEF Inductive
<1>5. CASE Reject
  <2>1. /\ requests' = requests + 1
        /\ UNCHANGED <<modules, modulePromise, sessions, native, waiting, closes, initialised>>
    BY <1>5 DEF Reject, Receive
  <2>2. TypeOK'
    BY <2>1 DEF Inductive, TypeOK
  <2>3. Fresh'
    BY <2>1 DEF Inductive, TypeOK, Fresh
  <2>4. Current' /\ Alone' /\ Owned' /\ NoneFromBefore'
    BY <2>1 DEF Inductive, Current, Alone, Owned, NoneFromBefore, Has
  <2> QED BY <2>2, <2>3, <2>4 DEF Inductive
<1>6. ASSUME NEW m \in DOMAIN modules, Settle(m)
      PROVE  Inductive'
  <2>1. /\ modules' \in Seq(ModuleState) /\ Len(modules') = Len(modules)
        /\ DOMAIN modules' = DOMAIN modules
        /\ \A i \in DOMAIN modules : modules[i] # "loading" => modules'[i] = modules[i]
    BY <1>6 DEF Settle, Inductive, TypeOK, ModuleState
  <2> QED BY <1>6, <2>1 DEF Settle, Inductive, TypeOK, Current, Alone, Fresh, Owned,
                            NoneFromBefore, Has
<1>7. ASSUME NEW w \in waiting, Answer(w), UNCHANGED <<modules, modulePromise, sessions, native, requests, closes>>,
             initialised' = (initialised \/ (modules[w.module] = "loaded" /\ w.epoch = closes))
               \/ initialised' = initialised
      PROVE  Inductive'
  <2>0. /\ initialised' = initialised
           \/ (initialised' = TRUE /\ modules[w.module] = "loaded" /\ w.epoch = closes)
    BY <1>7 DEF Inductive, TypeOK
  <2>1. TypeOK'
    BY <1>7, <2>0 DEF Answer, Inductive, TypeOK
  <2>1a. Current'
    <3>1. w.module = modulePromise /\ modulePromise # 0
      BY DEF Inductive, TypeOK, Current
    <3>2. initialised' => modulePromise # 0 /\ modules[modulePromise] = "loaded"
      BY <2>0, <3>1 DEF Inductive, Current
    <3> QED BY <1>7, <3>2 DEF Answer, Inductive, Current
  <2>2. Alone' /\ Fresh' /\ Owned' /\ NoneFromBefore'
    BY <1>7 DEF Answer, Inductive, Alone, Fresh, Owned, NoneFromBefore, Has
  <2> QED BY <2>1, <2>1a, <2>2 DEF Inductive
<1>8. ASSUME NEW w \in waiting, ContinueCreate(w)
      PROVE  Inductive'
  <2>1. w.key \in Key /\ ~Has(w.key) /\ w.number \in 1 .. requests /\ w.number \notin native
    BY <1>8 DEF ContinueCreate, Inductive, Alone, Fresh, Has
  <2>2. waiting' = waiting \ {w} /\ \A v \in waiting' : v.op # "create"
    BY <1>8 DEF ContinueCreate, Answer, Inductive, Alone
  <2>3. w \in Continuation /\ w.epoch = closes
    BY <1>8 DEF Inductive, TypeOK, Current
  <2>4. TypeOK'
    BY <1>8, <2>1, <2>2, <2>3 DEF ContinueCreate, Inductive, TypeOK, Session, Continuation
  <2>5. Current' /\ Alone'
    BY <1>8, <2>2 DEF ContinueCreate, Inductive, Current, Alone
  <2>6. Fresh'
    <3>1. \A v \in waiting' : v.number # w.number
      BY <2>2 DEF Inductive, Fresh
    <3> QED BY <1>8, <2>1, <2>2, <3>1 DEF ContinueCreate, Inductive, Fresh
  <2>7. Owned' /\ NoneFromBefore'
    BY <1>8, <2>1, <2>3 DEF ContinueCreate, Inductive, TypeOK, Owned, NoneFromBefore,
                            Has, NoSession, Session
  <2> QED BY <2>4, <2>5, <2>6, <2>7 DEF Inductive
<1>9. CASE UNCHANGED vars
  BY <1>9 DEF vars, Inductive, TypeOK, Current, Alone, Fresh, Owned,
              NoneFromBefore, Has
<1>10. CASE Continue
  BY <1>10, <1>7, <1>8
     DEF Continue, ContinueInit, ContinueBatch, ContinueCreateFails
<1> QED BY <1>1, <1>2, <1>3, <1>4, <1>5, <1>6, <1>9, <1>10 DEF Step

\* A client is careful, and then the invariant holds, or it is not.
LEMMA CarefulOrNot == Spec => [](careful => Inductive)
<1>1. (careful => Inductive) /\ [Next]_vars => (careful => Inductive)'
  <2> SUFFICES ASSUME careful => Inductive, [Next]_vars, careful'
               PROVE  Inductive'
    OBVIOUS
  <2>1. careful
    BY DEF Next, vars
  <2> QED BY <2>1, StepInductive
<1> QED BY InitInductive, <1>1, PTL DEF Spec

\* Which native handles exist is known from the two maps: a careful client leaks none and
\* shares none.
THEOREM HandlesAreOwned ==
  Spec => []HandlesOwned
<1>1. (careful => Inductive) => HandlesOwned
  BY DEF Inductive, HandlesOwned
<1> QED BY CarefulOrNot, <1>1, PTL

\* Every variable of the worker has its type, for a careful client.
THEOREM TypeCorrect ==
  Spec => [](careful => TypeOK)
<1>1. Inductive => TypeOK
  BY DEF Inductive
<1> QED BY CarefulOrNot, <1>1, PTL

\* No session survives a 'close', for a careful client.
THEOREM CloseIsFinal ==
  Spec => []CloseEndsSessions
<1>1. (careful => Inductive) => CloseEndsSessions
  BY DEF Inductive, NoneFromBefore, CloseEndsSessions
<1> QED BY CarefulOrNot, <1>1, PTL

\* The second creation of a stream is refused, for a careful client.
THEOREM NoDuplicates ==
  Spec => DuplicatesRefused
<1>1. ASSUME Inductive, [Next]_vars
      PROVE  [KeepsSessions]_vars
  <2> USE DEF KeepsSessions
  <2>1. CASE UNCHANGED sessions
    BY <2>1
  <2>2. ASSUME NEW j \in Key, CloseSession(j)
        PROVE  KeepsSessions
    BY <1>1, <2>2 DEF CloseSession, Inductive, TypeOK
  <2>3. CASE CloseAll
    BY <2>3 DEF CloseAll
  <2>4. ASSUME NEW w \in waiting, ContinueCreate(w)
        PROVE  KeepsSessions
    BY <1>1, <2>4 DEF ContinueCreate, Inductive, TypeOK, Alone, Has
  <2>5. CASE UNCHANGED vars
    BY <2>5 DEF vars
  <2> QED BY <1>1, <2>1, <2>2, <2>3, <2>4, <2>5
          DEF Next, Step, AwaitInitOrBatch, Create, Use, FinishOrCloseOne, Reject, Settle,
              Continue, ContinueInit, ContinueBatch, ContinueCreateFails
<1>2. (careful => Inductive) /\ [Next]_vars => [careful => KeepsSessions]_vars
  BY <1>1
<1> QED BY CarefulOrNot, <1>2, PTL DEF Spec, DuplicatesRefused
=============================================================================
