----------------------------- MODULE CoreWorker -----------------------------
(***************************************************************************)
(* packages/backends/browser/core.worker.ts: the Dedicated Worker that     *)
(* owns the WASM module.  Requests are handled one after another through a *)
(* SerialQueue.  Only handleInit waits for the outside (the import of the  *)
(* module, then its factory), and only there can another message come in   *)
(* between; getInfo and transform run to their end in one turn.  The steps *)
(* of a transform are spelled out because each of its C calls may fail,    *)
(* and what was allocated before has to be freed whatever happens.         *)
(***************************************************************************)
EXTENDS Integers, Sequences, FiniteSets

CONSTANTS MaxRequests,    (* bound on the messages the page sends          *)
          MaxErrors       (* bound on the error events                     *)

ASSUME WorkerAssumption == MaxRequests \in Nat /\ MaxErrors \in Nat

VARIABLES state,      (* WorkerState                                       *)
          mod,        (* TRUE while the WASM module is held                *)
          queue,      (* handlers waiting in the SerialQueue               *)
          current,    (* the request being handled, NoRequest if none      *)
          pc,         (* how far its handler is                            *)
          heap,       (* blocks allocated in the WASM heap                 *)
          allocated,  (* the handler's list of blocks to free              *)
          received,   (* ids of the well-formed requests, in order         *)
          replies,    (* replies posted to the page, in order              *)
          errors      (* malformed messages and uncaught errors so far     *)

workerVars == <<state, mod, queue, current, pc, heap, allocated, received, replies,
          errors>>

Methods == {"init", "getInfo", "transform"}
NoRequest == [id |-> 0]

(* A transform of no values needs the checksum block only.                 *)
Requests(id) ==
  [id : {id}, method : {"init", "getInfo"}]
    \cup [id : {id}, method : {"transform"}, empty : BOOLEAN]

Blocks(req) == IF req.empty THEN <<"sum">> ELSE <<"in", "out", "sum">>

WorkerInit ==
  /\ state = "uninitialized"
  /\ mod = FALSE
  /\ queue = <<>>
  /\ current = NoRequest
  /\ pc = "idle"
  /\ heap = {}
  /\ allocated = <<>>
  /\ received = <<>>
  /\ replies = <<>>
  /\ errors = 0

-----------------------------------------------------------------------------
AwaitsOutside == pc \in {"importing", "instantiating"}

Post(result) ==
  replies' = Append(replies,
                    [id |-> current.id, method |-> current.method, result |-> result])

Finish ==
  /\ pc' = "idle"
  /\ current' = NoRequest

(* onmessage with a well-formed request: its handler joins the queue.      *)
Receive ==
  /\ pc = "idle" \/ AwaitsOutside
  /\ Len(received) + errors < MaxRequests
  /\ \E req \in Requests(Len(received) + 1) : queue' = Append(queue, req)
  /\ received' = Append(received, Len(received) + 1)
  /\ UNCHANGED <<state, mod, current, pc, heap, allocated, replies, errors>>

(* onmessage with anything else: nothing can be answered, so the worker    *)
(* fails and throws, which reaches the page as an error event.             *)
ReceiveMalformed ==
  /\ pc = "idle" \/ AwaitsOutside
  /\ Len(received) + errors < MaxRequests
  /\ errors < MaxErrors
  /\ errors' = errors + 1
  /\ state' = "failed"
  /\ mod' = FALSE
  /\ UNCHANGED <<queue, current, pc, heap, allocated, received, replies>>

(* onerror: what no handler caught, such as an error thrown by the module  *)
(* between two turns; the module is kept.                                  *)
OnError ==
  /\ pc = "idle" \/ AwaitsOutside
  /\ errors < MaxErrors
  /\ errors' = errors + 1
  /\ state' = "failed"
  /\ UNCHANGED <<mod, queue, current, pc, heap, allocated, received, replies>>

(* Mutant: a failed worker leaves its queue alone.                         *)
StartUnlessFailed ==
  /\ pc = "idle" /\ state # "failed"
  /\ queue # <<>>
  /\ current' = Head(queue)
  /\ queue' = Tail(queue)
  /\ pc' = Head(queue).method
  /\ UNCHANGED <<state, mod, heap, allocated, received, replies, errors>>

(* The SerialQueue starts the next handler when the last one has ended.    *)
Start ==
  /\ pc = "idle"
  /\ queue # <<>>
  /\ current' = Head(queue)
  /\ queue' = Tail(queue)
  /\ pc' = Head(queue).method
  /\ UNCHANGED <<state, mod, heap, allocated, received, replies, errors>>

-----------------------------------------------------------------------------
(* handleInit *)

(* Mutant: a second init is ignored.                                       *)
IgnoreInit ==
  /\ pc = "init"
  /\ state # "uninitialized"
  /\ Finish
  /\ UNCHANGED <<state, mod, queue, heap, allocated, received, replies, errors>>

RejectInit ==
  /\ pc = "init"
  /\ state # "uninitialized"
  /\ Post("INITIALIZATION_FAILED")
  /\ Finish
  /\ UNCHANGED <<state, mod, queue, heap, allocated, received, errors>>

BeginInit ==
  /\ pc = "init"
  /\ state = "uninitialized"
  /\ state' = "initializing"
  /\ pc' = "importing"
  /\ UNCHANGED <<mod, queue, current, heap, allocated, received, replies, errors>>

(* checkUrls finds fault with the URLs of the module.                      *)
RefuseUrls ==
  /\ pc = "init"
  /\ state = "uninitialized"
  /\ state' = "failed"
  /\ Post("INITIALIZATION_FAILED")
  /\ Finish
  /\ UNCHANGED <<mod, queue, heap, allocated, received, errors>>

Imported ==
  /\ pc = "importing"
  /\ \/ /\ pc' = "instantiating"
        /\ UNCHANGED <<state, replies, current>>
     \/ /\ state' = "failed"                    \* no module, or no factory
        /\ Post("INITIALIZATION_FAILED")
        /\ Finish
  /\ UNCHANGED <<mod, queue, heap, allocated, received, errors>>

(* After the second await the state is set, not looked at.                 *)
Instantiated ==
  /\ pc = "instantiating"
  /\ \/ /\ mod' = TRUE
        /\ state' = "ready"
        /\ Post("ok")
     \/ /\ state' = "failed"
        /\ mod' = mod
        /\ \E code \in {"INITIALIZATION_FAILED", "ABI_MISMATCH"} : Post(code)
  /\ Finish
  /\ UNCHANGED <<queue, heap, allocated, received, errors>>

(* Mutant: only the module is looked for, not the state.                   *)
GetInfoOfModule ==
  /\ pc = "getInfo"
  /\ Post(IF mod THEN "ok" ELSE "INITIALIZATION_FAILED")
  /\ Finish
  /\ UNCHANGED <<state, mod, queue, heap, allocated, received, errors>>

(* handleGetInfo *)
GetInfo ==
  /\ pc = "getInfo"
  /\ IF state = "ready" /\ mod
     THEN \/ Post("ok") /\ state' = state
          \/ /\ state' = "failed"
             /\ \E code \in {"ABI_MISMATCH", "CORE_FAILURE"} : Post(code)
     ELSE Post("INITIALIZATION_FAILED") /\ state' = state
  /\ Finish
  /\ UNCHANGED <<mod, queue, heap, allocated, received, errors>>

-----------------------------------------------------------------------------
(* handleTransform *)

RefuseTransform ==
  /\ pc = "transform"
  /\ \/ ~(state = "ready" /\ mod) /\ Post("INITIALIZATION_FAILED")
     \/ state = "ready" /\ mod /\ Post("INVALID_ARGUMENT")
  /\ Finish
  /\ UNCHANGED <<state, mod, queue, heap, allocated, received, errors>>

BeginTransform ==
  /\ pc = "transform"
  /\ state = "ready" /\ mod
  /\ pc' = "alloc"
  /\ allocated' = <<>>
  /\ UNCHANGED <<state, mod, queue, current, heap, received, replies, errors>>

NextBlock == [id |-> current.id, name |-> Blocks(current)[Len(allocated) + 1]]
AllAllocated == Len(allocated) = Len(Blocks(current))

Malloc ==
  /\ pc = "alloc"
  /\ ~AllAllocated
  /\ heap' = heap \cup {NextBlock}
  /\ allocated' = Append(allocated, NextBlock)
  /\ UNCHANGED <<state, mod, queue, current, pc, received, replies, errors>>

(* Mutant: the early return skips finally.                                 *)
MallocReturnsZeroLeaks ==
  /\ pc = "alloc"
  /\ ~AllAllocated
  /\ Post("OUT_OF_MEMORY")
  /\ Finish
  /\ UNCHANGED <<state, mod, queue, heap, allocated, received, errors>>

(* _malloc returns 0: the request alone fails.                             *)
MallocReturnsZero ==
  /\ pc = "alloc"
  /\ ~AllAllocated
  /\ Post("OUT_OF_MEMORY")
  /\ pc' = "free"
  /\ UNCHANGED <<state, mod, queue, current, heap, allocated, received, errors>>

(* A call into the module traps, or the C function returns a status.       *)
CoreTraps ==
  /\ pc = "alloc"
  /\ state' = "failed"
  /\ Post("CORE_FAILURE")
  /\ pc' = "free"
  /\ UNCHANGED <<mod, queue, current, heap, allocated, received, errors>>

CoreRuns ==
  /\ pc = "alloc"
  /\ AllAllocated
  /\ Post("ok")
  /\ pc' = "free"
  /\ UNCHANGED <<state, mod, queue, current, heap, allocated, received, errors>>

(* finally: every block is freed once.                                     *)
Free ==
  /\ pc = "free"
  /\ allocated # <<>>
  /\ heap' = heap \ {Head(allocated)}
  /\ allocated' = Tail(allocated)
  /\ UNCHANGED <<state, mod, queue, current, pc, received, replies, errors>>

FreeDone ==
  /\ pc = "free"
  /\ allocated = <<>>
  /\ Finish
  /\ UNCHANGED <<state, mod, queue, heap, allocated, received, replies, errors>>

(* _free throws: the module is dropped with its heap, and no second reply  *)
(* is sent.                                                                *)
FreeTraps ==
  /\ pc = "free"
  /\ allocated # <<>>
  /\ state' = "failed"
  /\ mod' = FALSE
  /\ allocated' = <<>>
  /\ Finish
  /\ UNCHANGED <<queue, heap, received, replies, errors>>

-----------------------------------------------------------------------------
Handler ==
  \/ Start
  \/ RejectInit \/ BeginInit \/ RefuseUrls \/ Imported \/ Instantiated
  \/ GetInfo
  \/ RefuseTransform \/ BeginTransform
  \/ Malloc \/ MallocReturnsZero \/ CoreTraps \/ CoreRuns
  \/ Free \/ FreeDone \/ FreeTraps

WorkerNext == Receive \/ ReceiveMalformed \/ OnError \/ Handler

WorkerSpec == WorkerInit /\ [][WorkerNext]_workerVars

(* The import and the factory settle and the worker's turns are run.       *)
FairWorkerSpec == WorkerSpec /\ WF_workerVars(Handler)

-----------------------------------------------------------------------------
(* The type of every variable; a ready worker holds the module.            *)
WorkerTypeOK ==
  /\ state \in {"uninitialized", "initializing", "ready", "failed"}
  /\ mod \in BOOLEAN
  /\ state = "ready" => mod
  /\ queue \in Seq(UNION {Requests(id) : id \in 1 .. MaxRequests})
  /\ pc \in Methods \cup {"idle", "importing", "instantiating", "alloc", "free"}
  /\ IsFiniteSet(heap)
  /\ errors \in 0 .. MaxErrors

Ids(s) == [i \in DOMAIN s |-> s[i].id]

InProgress ==
  IF current = NoRequest \/ pc = "free" THEN <<>> ELSE <<current.id>>

(* The replies, the request being handled and the queue are together all   *)
(* the requests in the order they came: each is answered once, in order,   *)
(* and none is dropped, also those that arrive while init still loads.     *)
RepliesInOrder == Ids(replies) \o InProgress \o Ids(queue) = received

(* While the module is kept nothing stays allocated between two requests,  *)
(* whichever of the allocations or calls of earlier requests failed.       *)
HeapClean == mod /\ current = NoRequest => heap = {}

(* The blocks still to be freed are allocated, and each is listed once, so *)
(* finally frees no block twice.                                           *)
FreesOnlyLive ==
  /\ \A i \in DOMAIN allocated : allocated[i] \in heap
  /\ \A i, j \in DOMAIN allocated : i # j => allocated[i] # allocated[j]

(* The heap is sound.                                                      *)
WorkerInv == WorkerTypeOK /\ HeapClean /\ FreesOnlyLive

(* The worker as the page knows it.  While init waits for its module the   *)
(* worker counts as uninitialized, whatever failed it meanwhile: the end of*)
(* init sets the state and does not look at it.                            *)
ToPage == INSTANCE WorkerContract
            WITH phase <- IF AwaitsOutside THEN "uninitialized" ELSE state

(* Every reply is one the page's model of the worker allows where it comes:*)
(* init succeeds at most once, nothing succeeds before it, and once the    *)
(* worker has failed, whether it told so or not, it never succeeds again,  *)
(* except that init may still end as it would have.                        *)
ImplementsContract == ToPage!Spec

(* Every request that arrives is answered.                                 *)
EveryRequestAnswered ==
  \A id \in 1 .. MaxRequests :
    Len(received) >= id ~> Len(replies) >= id
=============================================================================
