----------------------------- MODULE PostBuffers -----------------------------
(***************************************************************************)
(* Who owns the bytes of a message between a vsomeip thread and Dart       *)
(* (src/vsomeip_bridge.cpp).  post_to_dart and post_message_to_dart hand   *)
(* their buffer over to Dart's garbage collector if the post succeeds and  *)
(* free it themselves if it does not; the callback API passes a pointer    *)
(* and frees the buffer as soon as the callback has returned.              *)
(*                                                                         *)
(* Headers are copied by the post (Dart_CObject_kTypedData) and own        *)
(* nothing, so a message is the buffer of its payload, or None.            *)
(***************************************************************************)
EXTENDS Naturals, FiniteSets, Sequences, SequencesExt

CONSTANTS
    Threads,   \* vsomeip threads that post
    Buffers,   \* what new uint8_t[] returns; bound: messages ever allocated
    None,      \* no buffer: nullptr, Dart_CObject_kNull
    MaxQueue   \* bound: an empty message is posted while fewer are queued

ASSUME NoneAssumption == None \notin Buffers
ASSUME MaxQueueAssumption == MaxQueue \in Nat \ {0}

VARIABLES
    ready,      \* g_post_cobject is set: vsomeip_bridge_init has succeeded
    pc,         \* [Threads -> "idle", "filled", "posted", "refused", "called"]
    owned,      \* [Threads -> the buffer the thread's own pointer holds]
    allocated,  \* buffers handed out by new so far
    frees,      \* [Buffers -> how often delete[] was called]
    portOpen,   \* is the Dart port open?
    port,       \* what is queued there, oldest first
    reachable,  \* buffers of messages Dart code can still reach
    garbage,    \* buffers of unreachable messages, finalizer not yet run
    listener,   \* pointers queued for the NativeCallable.listener closure
    dangling    \* history: the listener has read a buffer that was freed

dart == <<portOpen, port, reachable, garbage>>
vars == <<ready, pc, owned, allocated, frees, dart, listener, dangling>>

Init ==
    /\ ready = FALSE
    /\ pc = [t \in Threads |-> "idle"] /\ owned = [t \in Threads |-> None]
    /\ allocated = {} /\ frees = [b \in Buffers |-> 0]
    /\ portOpen = TRUE /\ port = <<>> /\ reachable = {} /\ garbage = {}
    /\ listener = <<>> /\ dangling = FALSE

\* vsomeip_bridge_init; posts before it are dropped without a trace.
BridgeInit ==
    /\ ready' = TRUE
    /\ UNCHANGED <<pc, owned, allocated, frees, dart, listener, dangling>>

New(t, b) ==
    /\ b \in Buffers \ allocated
    /\ allocated' = allocated \cup {b}
    /\ owned' = [owned EXCEPT ![t] = b]

Delete(b) == frees' = [frees EXCEPT ![b] = @ + 1]

-----------------------------------------------------------------------------
(* post_to_dart and post_message_to_dart. *)

\* A message of legal size and its copy.  An oversize one, or one the allocator
\* has no memory for, is dropped before anything is owned.
Fill(t, b) ==
    /\ ready /\ pc[t] = "idle"
    /\ New(t, b)
    /\ pc' = [pc EXCEPT ![t] = "filled"]
    /\ UNCHANGED <<ready, frees, dart, listener, dangling>>

\* post_message_to_dart without a payload allocates nothing.
FillEmpty(t) ==
    /\ ready /\ pc[t] = "idle" /\ Len(port) < MaxQueue
    /\ pc' = [pc EXCEPT ![t] = "filled"]
    /\ UNCHANGED <<ready, owned, allocated, frees, dart, listener, dangling>>

\* g_post_cobject returns true: Dart owns the buffer as well until release().
PostAccepted(t) ==
    /\ pc[t] = "filled" /\ portOpen
    /\ port' = Append(port, owned[t])
    /\ pc' = [pc EXCEPT ![t] = "posted"]
    /\ UNCHANGED <<ready, owned, allocated, frees, portOpen, reachable, garbage, listener, dangling>>

\* Mutant: the buffer is released before the post has been accepted.
PostRefusedReleased(t) ==
    /\ pc[t] = "filled" /\ ~portOpen
    /\ pc' = [pc EXCEPT ![t] = "refused"]
    /\ owned' = [owned EXCEPT ![t] = None]
    /\ UNCHANGED <<ready, allocated, frees, dart, listener, dangling>>

\* It returns false: the port is closed.
PostRefused(t) ==
    /\ pc[t] = "filled" /\ ~portOpen
    /\ pc' = [pc EXCEPT ![t] = "refused"]
    /\ UNCHANGED <<ready, owned, allocated, frees, dart, listener, dangling>>

\* Mutant: no release(), the unique_ptr frees the buffer whatever happened.
ReleaseForgotten(t) ==
    /\ pc[t] = "posted"
    /\ IF owned[t] = None THEN UNCHANGED frees ELSE Delete(owned[t])
    /\ owned' = [owned EXCEPT ![t] = None]
    /\ pc' = [pc EXCEPT ![t] = "idle"]
    /\ UNCHANGED <<ready, allocated, dart, listener, dangling>>

\* owned.release(), then the function returns.
Release(t) ==
    /\ pc[t] = "posted"
    /\ owned' = [owned EXCEPT ![t] = None]
    /\ pc' = [pc EXCEPT ![t] = "idle"]
    /\ UNCHANGED <<ready, allocated, frees, dart, listener, dangling>>

\* The unique_ptr deletes the buffer nobody took.
ScopeExit(t) ==
    /\ pc[t] = "refused"
    /\ IF owned[t] = None THEN UNCHANGED frees ELSE Delete(owned[t])
    /\ owned' = [owned EXCEPT ![t] = None]
    /\ pc' = [pc EXCEPT ![t] = "idle"]
    /\ UNCHANGED <<ready, allocated, dart, listener, dangling>>

-----------------------------------------------------------------------------
(* Dart: the isolate behind the port, its heap and its garbage collector. *)

\* The isolate takes a message.
Receive ==
    /\ portOpen /\ port # <<>>
    /\ port' = Tail(port)
    /\ reachable' = reachable \cup ({Head(port)} \ {None})
    /\ UNCHANGED <<ready, pc, owned, allocated, frees, portOpen, garbage, listener, dangling>>

\* The application lets go of it.
Forget(b) ==
    /\ b \in reachable
    /\ reachable' = reachable \ {b} /\ garbage' = garbage \cup {b}
    /\ UNCHANGED <<ready, pc, owned, allocated, frees, portOpen, port, listener, dangling>>

\* The port closes: what is queued in it becomes garbage.
PortCloses ==
    /\ portOpen
    /\ portOpen' = FALSE
    /\ port' = <<>> /\ garbage' = garbage \cup (ToSet(port) \ {None})
    /\ UNCHANGED <<ready, pc, owned, allocated, frees, reachable, listener, dangling>>

\* The finalizer, callback(isolate_data, peer), runs once per message.
Finalize(b) ==
    /\ b \in garbage
    /\ garbage' = garbage \ {b}
    /\ Delete(b)
    /\ UNCHANGED <<ready, pc, owned, allocated, portOpen, port, reachable, listener, dangling>>

-----------------------------------------------------------------------------
(* vsomeip_subscribe_with_callback. *)

\* The closure NativeCallable.listener made queues the arguments and returns.
CallListener(t, b) ==
    /\ pc[t] = "idle"
    /\ New(t, b)
    /\ listener' = Append(listener, b)
    /\ pc' = [pc EXCEPT ![t] = "called"]
    /\ UNCHANGED <<ready, frees, dart, dangling>>

\* delete[] buf.
CallbackReturns(t) ==
    /\ pc[t] = "called"
    /\ Delete(owned[t])
    /\ owned' = [owned EXCEPT ![t] = None]
    /\ pc' = [pc EXCEPT ![t] = "idle"]
    /\ UNCHANGED <<ready, allocated, dart, listener, dangling>>

\* The listening isolate gets to the call and reads through the pointer.
ListenerReads ==
    /\ listener # <<>>
    /\ listener' = Tail(listener)
    /\ dangling' = (dangling \/ frees[Head(listener)] > 0)
    /\ UNCHANGED <<ready, pc, owned, allocated, frees, dart>>

PostStep(t) == PostAccepted(t) \/ PostRefused(t) \/ Release(t) \/ ScopeExit(t)
               \/ CallbackReturns(t)
Collect == \E b \in Buffers : Finalize(b)

Next == \/ BridgeInit
        \/ \E t \in Threads : PostStep(t) \/ FillEmpty(t)
        \/ \E t \in Threads, b \in Buffers : Fill(t, b) \/ CallListener(t, b)
        \/ Receive \/ (\E b \in Buffers : Forget(b)) \/ PortCloses \/ Collect \/ ListenerReads

Spec == Init /\ [][Next]_vars

\* The threads run, the isolate takes what is in its port, the application keeps
\* no message for ever, and garbage is collected.
FairSpec == Spec /\ (\A t \in Threads : WF_vars(PostStep(t))) /\ WF_vars(Receive)
                 /\ (\A b \in Buffers : WF_vars(Forget(b)) /\ WF_vars(Finalize(b)))

-----------------------------------------------------------------------------
(* Properties *)

\* Every variable holds a value of its kind.
TypeOK ==
    /\ ready \in BOOLEAN /\ portOpen \in BOOLEAN /\ dangling \in BOOLEAN
    /\ pc \in [Threads -> {"idle", "filled", "posted", "refused", "called"}]
    /\ owned \in [Threads -> Buffers \cup {None}]
    /\ allocated \subseteq Buffers
    /\ \A t \in Threads : owned[t] # None => owned[t] \in allocated
    /\ port \in Seq(allocated \cup {None}) /\ listener \in Seq(allocated)
    /\ reachable \cup garbage \subseteq allocated

\* "no leak, no double free": no buffer is deleted twice, whichever way its post
\* ended and whenever the port was closed.
FreedOnce == \A b \in Buffers : frees[b] <= 1

\* What Dart code can reach, or will take from its port, is not freed memory,
\* although the posting thread's unique_ptr still holds it after the post.
DartSeesLive == \A b \in reachable \cup (ToSet(port) \ {None}) : frees[b] = 0

\* The other half of "no leak, no double free": every buffer is freed in the end.
FreedInTheEnd == \A b \in Buffers : b \in allocated ~> frees[b] > 0

\* "the Dart side should use NativeCallable.listener": the closure it makes must
\* not read a buffer that is gone.
ListenerSeesLive == ~dangling
=============================================================================
