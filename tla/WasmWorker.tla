------------------------------- MODULE WasmWorker -------------------------------
(***************************************************************************)
(* The worker of the WASM package, packages/iox-wasm/worker.js, with the   *)
(* classes of index.js that it wraps, and its client.                      *)
(*                                                                         *)
(* A handler runs without interruption up to an `await' of the module;     *)
(* what follows the await is a continuation that runs once the module has  *)
(* settled, and before the next message is taken.  The channel to the      *)
(* worker is FIFO, so that posting a request and handling it are one step. *)
(***************************************************************************)
EXTENDS Naturals, Sequences

CONSTANTS
  StreamIds,        \* values of request.streamId
  MaxRequests       \* a bound on the requests of one client

ASSUME MaxRequestsAssumption == MaxRequests \in Nat

Key == {"reader", "writer"} \X StreamIds      \* the two maps and their keys

VARIABLES
  careful,        \* the client is a careful one, see MayPost
  modules,        \* the modules that createIoxModule was called for
  modulePromise,  \* index of the current one, 0 for null
  sessions,       \* the maps readers and writers
  native,         \* the native handles created and not destroyed
  waiting,        \* the handlers that await a module
  requests,       \* number of requests posted
  closes,         \* number of 'close' requests handled
  initialised     \* the client has the answer to an 'init' since its last 'close'

vars ==
  <<careful, modules, modulePromise, sessions, native, waiting, requests, closes, initialised>>

ModuleState == {"loading", "loaded", "failed"}

\* The operations that await the module, without what they do to no session.
Awaiting == {"init", "batch", "create"}

\* Handles are named by the request that made them.  Only a creation has a key.
NoKey == <<>>
NoSession == [handle |-> 0, epoch |-> 0]
Session == [handle : Nat, epoch : Nat]
Continuation == [number : Nat, op : Awaiting, key : Key \cup {NoKey}, module : Nat, epoch : Nat]

Init ==
  /\ modules = <<>> /\ modulePromise = 0
  /\ sessions = [k \in Key |-> NoSession]
  /\ native = {} /\ waiting = {}
  /\ requests = 0 /\ closes = 0 /\ initialised = FALSE
  /\ careful \in BOOLEAN

-----------------------------------------------------------------------------
Has(k) == sessions[k] # NoSession

Ready(w) == modules[w.module] # "loading"

\* Continuations run before the next message: first those of 'init', which await the promise
\* itself and not an async function that returns it, and each kind in the order of the requests.
NoneReady == \A w \in waiting : ~Ready(w)
Ahead(v, w) ==
  \/ v.op = "init" /\ w.op # "init"
  \/ (v.op = "init" <=> w.op = "init") /\ v.number < w.number
First(w) == w \in waiting /\ Ready(w) /\ \A v \in waiting : Ready(v) => ~Ahead(v, w)

\* A careful client sends its requests one after the other, or else only after an answered
\* 'init'; further 'init's do no harm.
MayPost(op) == careful => op = "init" \/ initialised \/ waiting = {}

\* A request of the client is taken from the channel.
Receive(op) ==
  /\ requests < MaxRequests
  /\ NoneReady
  /\ MayPost(op)
  /\ requests' = requests + 1

\* modulePromise ??= createIoxModule()
Module == IF modulePromise = 0 THEN Len(modules) + 1 ELSE modulePromise

AwaitModule(op, k) ==
  /\ modules' = IF modulePromise = 0 THEN Append(modules, "loading") ELSE modules
  /\ modulePromise' = Module
  /\ waiting' = waiting \cup
       {[number |-> requests + 1, op |-> op, key |-> k, module |-> Module, epoch |-> closes]}

\* 'init', 'readAll', 'writeAll' up to the await.
AwaitInitOrBatch ==
  \E op \in {"init", "batch"} :
    /\ Receive(op)
    /\ AwaitModule(op, NoKey)
    /\ UNCHANGED <<sessions, native, closes, initialised>>

\* Mutant of Create: the duplicate is looked for in neither map.
CreateUnchecked(k) ==
  /\ Receive("create")
  /\ AwaitModule("create", k)
  /\ UNCHANGED <<sessions, native, closes, initialised>>

\* 'readerCreate', 'writerCreate' up to the await.
Create(k) ==
  /\ Receive("create")
  /\ \/ Has(k) /\ UNCHANGED <<modules, modulePromise, waiting>>
     \/ ~Has(k) /\ AwaitModule("create", k)
  /\ UNCHANGED <<sessions, native, closes, initialised>>

\* session.close(), and the entry is deleted.
CloseSession(k) ==
  /\ native' = native \ {sessions[k].handle}
  /\ sessions' = [sessions EXCEPT ![k] = NoSession]

\* 'readerFeed', 'writerWrite': an error ends the session.
Use(k) ==
  /\ Receive("use")
  /\ \/ UNCHANGED <<sessions, native>>
     \/ Has(k) /\ CloseSession(k)
  /\ UNCHANGED <<modules, modulePromise, waiting, closes, initialised>>

\* Mutant of FinishOrCloseOne: the entry is deleted, but the session is not closed.
DeleteOnly(k) ==
  /\ Receive("finish")
  /\ sessions' = [sessions EXCEPT ![k] = NoSession]
  /\ UNCHANGED <<native, modules, modulePromise, waiting, closes, initialised>>

\* 'readerFinish', 'writerFinish' close in their finally, 'readerClose', 'writerClose' at once.
FinishOrCloseOne(k) ==
  /\ Receive("finish")
  /\ \/ Has(k) /\ CloseSession(k)
     \/ ~Has(k) /\ UNCHANGED <<sessions, native>>
  /\ UNCHANGED <<modules, modulePromise, waiting, closes, initialised>>

\* Mutant of CloseAll: the map of the writers is not cleared.
CloseAllReaders ==
  /\ Receive("close")
  /\ native' = native \ {sessions[k].handle : k \in Key}
  /\ sessions' = [k \in Key |-> IF k[1] = "writer" THEN sessions[k] ELSE NoSession]
  /\ modulePromise' = 0
  /\ closes' = closes + 1 /\ initialised' = FALSE
  /\ UNCHANGED <<modules, waiting>>

\* 'close'
CloseAll ==
  /\ Receive("close")
  /\ native' = native \ {sessions[k].handle : k \in Key}
  /\ sessions' = [k \in Key |-> NoSession]
  /\ modulePromise' = 0
  /\ closes' = closes + 1 /\ initialised' = FALSE
  /\ UNCHANGED <<modules, waiting>>

\* A request without streamId or of an unknown type.
Reject ==
  /\ Receive("reject")
  /\ UNCHANGED <<modules, modulePromise, sessions, native, waiting, closes, initialised>>

-----------------------------------------------------------------------------
\* createIoxModule resolves or rejects.
Settle(m) ==
  /\ modules[m] = "loading" /\ NoneReady
  /\ \E s \in {"loaded", "failed"} : modules' = [modules EXCEPT ![m] = s]
  /\ UNCHANGED <<modulePromise, sessions, native, waiting, requests, closes, initialised>>

\* Mutant of Answer: the handlers that await a failed module are forgotten only when it loads.
AnswerIfLoaded(w) == First(w) /\ modules[w.module] = "loaded" /\ waiting' = waiting \ {w}

Answer(w) == First(w) /\ waiting' = waiting \ {w}

ContinueInit(w) ==
  /\ Answer(w) /\ w.op = "init"
  /\ initialised' = (initialised \/ (modules[w.module] = "loaded" /\ w.epoch = closes))
  /\ UNCHANGED <<modules, modulePromise, sessions, native, requests, closes>>

\* readAll and writeAll close what they create.
ContinueBatch(w) ==
  /\ Answer(w) /\ w.op = "batch"
  /\ UNCHANGED <<modules, modulePromise, sessions, native, requests, closes, initialised>>

\* The session is made and entered, whatever has happened since the test for a duplicate.
ContinueCreate(w) ==
  /\ Answer(w) /\ w.op = "create"
  /\ modules[w.module] = "loaded"
  /\ native' = native \cup {w.number}
  /\ sessions' = [sessions EXCEPT ![w.key] = [handle |-> w.number, epoch |-> w.epoch]]
  /\ UNCHANGED <<modules, modulePromise, requests, closes, initialised>>

\* The module has failed, or the options are refused.
ContinueCreateFails(w) ==
  /\ Answer(w) /\ w.op = "create"
  /\ UNCHANGED <<modules, modulePromise, sessions, native, requests, closes, initialised>>

Continue ==
  \E w \in waiting : \/ ContinueInit(w) \/ ContinueBatch(w)
                     \/ ContinueCreate(w) \/ ContinueCreateFails(w)

Step ==
  \/ AwaitInitOrBatch
  \/ \E k \in Key : Create(k) \/ Use(k) \/ FinishOrCloseOne(k)
  \/ CloseAll \/ Reject
  \/ \E m \in DOMAIN modules : Settle(m)
  \/ Continue

\* What a client is like does not change.
Next == Step /\ UNCHANGED careful

Spec == Init /\ [][Next]_vars

\* Loading a module ends, and what is ready runs.
FairSpec ==
  /\ Spec
  /\ \A m \in 1 .. MaxRequests :
       WF_vars(m \in DOMAIN modules /\ Settle(m) /\ UNCHANGED careful)
  /\ WF_vars(Continue /\ UNCHANGED careful)
-----------------------------------------------------------------------------
\* Every variable has its type.
TypeOK ==
  /\ modules \in Seq(ModuleState)
  /\ modulePromise \in 0 .. Len(modules)
  /\ sessions \in [Key -> Session]
  /\ native \subseteq Nat
  /\ waiting \subseteq Continuation
  /\ \A w \in waiting : w.module \in DOMAIN modules
  /\ requests \in Nat /\ closes \in Nat
  /\ initialised \in BOOLEAN /\ careful \in BOOLEAN

\* The native handles that exist are those of the sessions in the two maps, one each.
Owned ==
  /\ native = {sessions[k].handle : k \in {k \in Key : Has(k)}}
  /\ \A j, k \in Key :
       Has(j) /\ Has(k) /\ sessions[j].handle = sessions[k].handle => j = k

\* A careful client's handles: none leaks when a session ends or is replaced, and no session uses
\* one that is destroyed or that another session has.
HandlesOwned == careful => Owned

\* A session is not replaced by another one: it ends first.
KeepsSessions == \A k \in Key : Has(k) => sessions'[k] \in {sessions[k], NoSession}

\* Of two creations of one stream by a careful client, the second is refused.
DuplicatesRefused == [][careful => KeepsSessions]_vars

\* The same of any client.
EveryDuplicateRefused == [][KeepsSessions]_vars

\* After 'close', no session of a careful client exists that was requested before it.
CloseEndsSessions == careful => \A k \in Key : Has(k) => sessions[k].epoch = closes

\* Every request of any client is answered, even if the module cannot be loaded.
EveryRequestAnswered ==
  \A n \in 1 .. MaxRequests :
    (\E w \in waiting : w.number = n) ~> ~(\E w \in waiting : w.number = n)
=============================================================================
