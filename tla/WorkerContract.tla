--------------------------- MODULE WorkerContract ---------------------------
(***************************************************************************)
(* What the page may expect of packages/backends/browser/core.worker.ts:   *)
(* the replies it may post, one per request, and how it fails.  The browser*)
(* backend is checked against these answers, and CoreWorker, where the     *)
(* handlers are spelled out, is shown to implement this module.            *)
(***************************************************************************)
EXTENDS Naturals, Sequences

VARIABLES phase,    (* what the worker has come to                         *)
          replies   (* the replies posted so far, in order                 *)

Phases == {"uninitialized", "ready", "failed"}
Methods == {"init", "getInfo", "transform"}

(* What a request may be answered in each phase, and the phase that follows*)
(* A transform may leave the worker failed although it answered, when      *)
(* freeing the heap throws.                                                *)
Answers(m) ==
  CASE m = "init" /\ phase = "uninitialized" ->
         {<<"ok", "ready">>, <<"INITIALIZATION_FAILED", "failed">>,
          <<"ABI_MISMATCH", "failed">>}
    [] m = "init" /\ phase # "uninitialized" -> {<<"INITIALIZATION_FAILED", phase>>}
    [] m # "init" /\ phase # "ready" -> {<<"INITIALIZATION_FAILED", phase>>}
    [] m = "getInfo" /\ phase = "ready" ->
         {<<"ok", "ready">>, <<"ABI_MISMATCH", "failed">>, <<"CORE_FAILURE", "failed">>}
    [] m = "transform" /\ phase = "ready" ->
         {<<"CORE_FAILURE", "failed">>}
           \cup {"ok", "INVALID_ARGUMENT", "OUT_OF_MEMORY"} \X {"ready", "failed"}

Init ==
  /\ phase = "uninitialized"
  /\ replies = <<>>

(* One more reply, to a request of this method, as the phase allows.       *)
Answer(m) ==
  /\ Len(replies') = Len(replies) + 1
  /\ SubSeq(replies', 1, Len(replies)) = replies
  /\ replies'[Len(replies')].method = m
  /\ <<replies'[Len(replies')].result, phase'>> \in Answers(m)

(* Something fails that no reply tells of.                                 *)
Break ==
  /\ phase' = "failed"
  /\ UNCHANGED replies

Next == Break \/ \E m \in Methods : Answer(m)

Spec == Init /\ [][Next]_<<phase, replies>>
=============================================================================
