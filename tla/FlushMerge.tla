----------------------------- MODULE FlushMerge -----------------------------
(***************************************************************************)
(* The flush thread of F2FS (mount option flush_merge, segment.c): fsync() *)
(* puts a request on a lockless list; the thread takes all requests of the *)
(* list at once, has the device flush its cache, and completes them.       *)
(*                                                                         *)
(* What a flush makes durable belongs to the module that uses this one.    *)
(***************************************************************************)
CONSTANT Threads

VARIABLES
    issueList,     \* issue_list
    dispatchList,  \* the requests of dispatch_list that are still to be completed
    flusher,       \* where issue_flush_thread() is
    request,       \* where f2fs_issue_flush() of each thread is
    completed      \* the requests that complete() was called for

flushVars == <<issueList, dispatchList, flusher, request, completed>>

FlushTypeOK ==
    /\ issueList \subseteq Threads
    /\ dispatchList \subseteq Threads
    /\ flusher \in {"awake", "flush", "complete", "asleep"}
    /\ request \in [Threads -> {"none", "added", "waiting"}]
    /\ completed \subseteq Threads

\* create_flush_cmd_control()
FlushInit ==
    /\ issueList = {}
    /\ dispatchList = {}
    /\ flusher = "awake"
    /\ request = [t \in Threads |-> "none"]
    /\ completed = {}

-----------------------------------------------------------------------------
(* f2fs_issue_flush().                                                     *)

IssueFlush(t) ==
    /\ request[t] = "none"
    /\ issueList' = issueList \cup {t}
    /\ request' = [request EXCEPT ![t] = "added"]
    /\ UNCHANGED <<dispatchList, flusher, completed>>

\* dispatch_list is NULL until a flush begins and after its last request
DispatchListNull == flusher \in {"awake", "asleep"}

\* wake_up(), if the thread has no list in hand
WakeFlusher(t) ==
    /\ request[t] = "added"
    /\ request' = [request EXCEPT ![t] = "waiting"]
    /\ flusher' = IF DispatchListNull THEN "awake" ELSE flusher
    /\ UNCHANGED <<issueList, dispatchList, completed>>

\* wait_for_completion()
FlushReturned(t) ==
    /\ request[t] = "waiting" /\ t \in completed
    /\ request' = [request EXCEPT ![t] = "none"]
    /\ completed' = completed \ {t}
    /\ UNCHANGED <<issueList, dispatchList, flusher>>

-----------------------------------------------------------------------------
(* issue_flush_thread().                                                   *)

\* llist_del_all(), and the flush is submitted
TakeRequests ==
    /\ flusher = "awake" /\ issueList # {}
    /\ dispatchList' = issueList
    /\ issueList' = {}
    /\ flusher' = "flush"
    /\ UNCHANGED <<request, completed>>

\* submit_bio_wait() returns
FlushDone ==
    /\ flusher = "flush"
    /\ flusher' = "complete"
    /\ UNCHANGED <<issueList, dispatchList, request, completed>>

\* complete(): the requests of dispatch_list, one at a time
CompleteRequest(t) ==
    /\ flusher = "complete" /\ t \in dispatchList
    /\ dispatchList' = dispatchList \ {t}
    /\ completed' = completed \cup {t}
    /\ UNCHANGED <<issueList, flusher, request>>

FlushEnd ==
    /\ flusher = "complete" /\ dispatchList = {}
    /\ flusher' = "awake"
    /\ UNCHANGED <<issueList, dispatchList, request, completed>>

\* wrong: it sleeps without a look at the list
WaitEvent_Unconditional ==
    /\ flusher = "awake"
    /\ flusher' = "asleep"
    /\ UNCHANGED <<issueList, dispatchList, request, completed>>

\* wait_event_interruptible() tests the list before it sleeps
WaitEvent ==
    /\ flusher = "awake" /\ issueList = {}
    /\ flusher' = "asleep"
    /\ UNCHANGED <<issueList, dispatchList, request, completed>>

-----------------------------------------------------------------------------
(* Properties.                                                             *)

\* A request that is on the list is seen: the thread sleeps beside a list with
\* requests only while one of the threads that added them has its wake_up() to come.
NoLostWakeup ==
    flusher = "asleep" /\ issueList # {} => \E t \in issueList : request[t] = "added"
=============================================================================
