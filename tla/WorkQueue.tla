---------------------------- MODULE WorkQueue ----------------------------
(***************************************************************************)
(* The rate limited work queue of client-go, as the controller uses it.    *)
(* It is a library, so it is modelled from its documented contract:        *)
(*   dirty       keys that have to be processed,                           *)
(*   processing  keys a worker holds between Get and Done,                 *)
(*   delayed     keys waiting for AddAfter or AddRateLimited to expire.    *)
(* A key that is added while a worker holds it stays dirty and becomes     *)
(* ready again when the worker calls Done, so no two workers ever hold the *)
(* same key and no addition is lost.                                       *)
(***************************************************************************)

\* A queue over a set of keys.
QueueOf(keys) == [dirty : SUBSET keys, processing : SUBSET keys, delayed : SUBSET keys]

\* workqueue.NewTypedRateLimitingQueue
EmptyQueue == [dirty |-> {}, processing |-> {}, delayed |-> {}]

\* The keys Get may return.
Ready(q) == q.dirty \ q.processing

\* queue.Add for every key in keys.
Add(q, keys) == [q EXCEPT !.dirty = @ \cup keys]

\* queue.Get returning key.
Get(q, key) == [q EXCEPT !.dirty = @ \ {key}, !.processing = @ \cup {key}]

\* queue.Forget and queue.Done: the key was handled.
Done(q, key) == [q EXCEPT !.processing = @ \ {key}]

\* queue.AddAfter: the key becomes dirty when its delay expires.
AddAfter(q, key) == [q EXCEPT !.delayed = @ \cup {key}]

\* queue.AddRateLimited and queue.Done: the key failed and is retried later.
Retry(q, key) == Done(AddAfter(q, key), key)

\* The delay of key expires.
Expire(q, key) == [q EXCEPT !.delayed = @ \ {key}, !.dirty = @ \cup {key}]

\* No worker holds key and nothing will hand it to one.
IsIdle(q, key) == key \notin q.dirty \cup q.processing \cup q.delayed
==========================================================================
