------------------------------- MODULE FdBody -------------------------------
(***************************************************************************)
(* fd_body (cotamer_impl.hh, io.cc): the counted owner of a file           *)
(* descriptor that coroutines on several threads share.  Strong references *)
(* are the fd objects; the drivers that watch the descriptor are its       *)
(* listeners and keep a plain pointer to the body.  The operating system's *)
(* descriptor is closed when it was asked for and the last listener is     *)
(* gone; the body is deleted when the last reference and the last listener *)
(* are gone.  Threads interleave at the accesses to the atomic fields and  *)
(* at the sections under the body's spin lock, each one step.  Drivers     *)
(* outlive the run.                                                        *)
(***************************************************************************)
EXTENDS Naturals, FiniteSets

CONSTANTS
    Thread,     \* the threads, each with its driver
    Watchers,   \* the threads that wait for events of the descriptor
    Closers,    \* the threads that call fd::close()
    MaxCopies   \* bound: copies made of the first fd object

VARIABLES
    fd_,        \* FALSE once close was asked for
    base_fd_,   \* TRUE while the body still has to close the descriptor
    ref_,       \* the strong count
    drivers_,   \* the listeners
    freed,      \* has the body been deleted
    osOpen,     \* the operating system's descriptor
    handles,    \* fd objects of each thread
    fdrec,      \* does the driver's fdrec point to the body
    registered, \* is the descriptor registered with the driver's epoll
    migrated,   \* is the close in the driver's migrate_fd_close_
    copies,     \* copies made
    pc, because_deref, drivers, closable, deletable    \* the locals of each thread

shared == <<fd_, base_fd_, ref_, drivers_, freed, osOpen>>
local == <<because_deref, drivers, closable, deletable>>
driver == <<fdrec, registered, migrated>>
vars == <<shared, handles, driver, copies, pc, local>>

Goto(t, l) == pc' = [pc EXCEPT ![t] = l]

\* The first fd object belongs to one of the threads.
Init ==
    /\ fd_ = TRUE /\ base_fd_ = TRUE /\ ref_ = 1 /\ drivers_ = {}
    /\ freed = FALSE /\ osOpen = TRUE
    /\ \E t \in Thread : handles = [u \in Thread |-> IF u = t THEN 1 ELSE 0]
    /\ fdrec = [t \in Thread |-> FALSE]
    /\ registered = [t \in Thread |-> FALSE]
    /\ migrated = [t \in Thread |-> FALSE]
    /\ copies = 0
    /\ pc = [t \in Thread |-> "idle"]
    /\ because_deref = [t \in Thread |-> FALSE]
    /\ drivers = [t \in Thread |-> {}]
    /\ closable = [t \in Thread |-> FALSE]
    /\ deletable = [t \in Thread |-> FALSE]

\* The copy of an fd object, for a coroutine on the same or another thread.
ref(t, u) ==
    /\ pc[t] = "idle" /\ handles[t] > 0 /\ copies < MaxCopies
    /\ copies' = copies + 1
    /\ ref_' = ref_ + 1
    /\ handles' = [handles EXCEPT ![u] = @ + 1]
    /\ UNCHANGED <<fd_, base_fd_, drivers_, freed, osOpen, driver, pc, local>>

\* file_event: fileno() is read first.
Fileno(t) ==
    /\ pc[t] = "idle" /\ t \in Watchers /\ handles[t] > 0 /\ fd_
    /\ Goto(t, "watch")
    /\ UNCHANGED <<shared, handles, driver, copies, local>>

\* watch: the fdrec, and add_listener if the driver is new to the body.
add_listener(t) ==
    /\ pc[t] = "watch"
    /\ fdrec' = [fdrec EXCEPT ![t] = TRUE]
    /\ drivers_' = drivers_ \union {t}
    /\ Goto(t, "idle")
    /\ UNCHANGED <<fd_, base_fd_, ref_, freed, osOpen, handles, registered, migrated, copies, local>>

\* The loop registers the watched descriptor, and removes the registration when
\* no watch is left.
Register(t) ==
    /\ pc[t] = "idle" /\ fdrec[t]
    /\ registered' = [registered EXCEPT ![t] = ~@]
    /\ UNCHANGED <<shared, handles, fdrec, migrated, copies, pc, local>>

\* An fd object goes away: deref reads the count...
Deref(t) ==
    /\ pc[t] = "idle" /\ handles[t] > 0
    /\ handles' = [handles EXCEPT ![t] = @ - 1]
    /\ because_deref' = [because_deref EXCEPT ![t] = TRUE]
    /\ Goto(t, IF ref_ = 1 THEN "close" ELSE "sub")
    /\ UNCHANGED <<shared, driver, copies, drivers, closable, deletable>>

\* ... and lowers it in a second access.
DerefSub(t) ==
    /\ pc[t] = "sub"
    /\ ref_' = ref_ - 1
    /\ Goto(t, "idle")
    /\ UNCHANGED <<fd_, base_fd_, drivers_, freed, osOpen, handles, driver, copies, local>>

\* fd::close().
Close(t) ==
    /\ pc[t] = "idle" /\ t \in Closers /\ handles[t] > 0
    /\ because_deref' = [because_deref EXCEPT ![t] = FALSE]
    /\ Goto(t, "close")
    /\ UNCHANGED <<shared, handles, driver, copies, drivers, closable, deletable>>

\* Mutants: the body is deleted although a driver still points to it; a driver
\* that was not the last deletes it too.
MutantDeletable(t) == because_deref[t]
MutantUnreferenced == ref_ <= 1

\* Does this close find no listener to wait for?
CloseNow == fd_ /\ base_fd_ /\ drivers_ = {}

CloseDeletes(t) == because_deref[t] /\ drivers_ = {}

\* fd_body::close, the section under the lock.
close(t) ==
    /\ pc[t] = "close"
    /\ fd_' = FALSE
    /\ drivers' = [drivers EXCEPT ![t] = IF fd_ THEN drivers_ ELSE {}]
    /\ closable' = [closable EXCEPT ![t] = CloseNow]
    /\ base_fd_' = (base_fd_ /\ ~CloseNow)
    /\ deletable' = [deletable EXCEPT ![t] = CloseDeletes(t)]
    /\ ref_' = IF because_deref[t] THEN ref_ - 1 ELSE ref_
    /\ Goto(t, "unlocked")
    /\ UNCHANGED <<drivers_, freed, osOpen, handles, driver, copies, because_deref>>

\* The calls after the lock is released: ::close,
CloseOs(t) ==
    /\ pc[t] = "unlocked" /\ closable[t]
    /\ osOpen' = FALSE
    /\ closable' = [closable EXCEPT ![t] = FALSE]
    /\ UNCHANGED <<fd_, base_fd_, ref_, drivers_, freed, handles, driver, copies, pc, because_deref, drivers, deletable>>

\* delete this, whose destructor closes what is still to close,
Delete(t) ==
    /\ pc[t] = "unlocked" /\ ~closable[t] /\ deletable[t]
    /\ freed' = TRUE
    /\ osOpen' = (osOpen /\ ~base_fd_)
    /\ base_fd_' = FALSE
    /\ deletable' = [deletable EXCEPT ![t] = FALSE]
    /\ UNCHANGED <<fd_, ref_, drivers_, handles, driver, copies, pc, because_deref, drivers, closable>>

\* the listeners: notify_close on the own driver, migrate_fd_close on another.
Notify(t, d) ==
    /\ pc[t] = "unlocked" /\ ~closable[t] /\ ~deletable[t]
    /\ d \in drivers[t]
    /\ drivers' = [drivers EXCEPT ![t] = @ \ {d}]
    /\ IF d = t THEN Goto(t, "notify_close") /\ UNCHANGED migrated
       ELSE migrated' = [migrated EXCEPT ![d] = TRUE] /\ UNCHANGED pc
    /\ UNCHANGED <<shared, handles, fdrec, registered, copies, because_deref, closable, deletable>>

CloseReturns(t) ==
    /\ pc[t] = "unlocked" /\ ~closable[t] /\ ~deletable[t] /\ drivers[t] = {}
    /\ Goto(t, "idle")
    /\ UNCHANGED <<shared, handles, driver, copies, local>>

\* migrate_fd_close on the driver's own thread.
migrate_fd_close(t) ==
    /\ pc[t] = "idle" /\ migrated[t]
    /\ migrated' = [migrated EXCEPT ![t] = FALSE]
    /\ Goto(t, "notify_close")
    /\ UNCHANGED <<shared, handles, fdrec, registered, copies, local>>

\* driver::notify_close: fd_close, the registration removed.
notify_close(t) ==
    /\ pc[t] = "notify_close"
    /\ IF fdrec[t] /\ ~fd_
       THEN /\ fdrec' = [fdrec EXCEPT ![t] = FALSE]
            /\ registered' = [registered EXCEPT ![t] = FALSE]
            /\ Goto(t, "remove_listener")
       ELSE Goto(t, "unlocked") /\ UNCHANGED <<fdrec, registered>>
    /\ UNCHANGED <<shared, handles, migrated, copies, local>>

Unreferenced == ref_ = 0

\* remove_listener, the section under the lock.
remove_listener(t) ==
    /\ pc[t] = "remove_listener"
    /\ drivers_' = drivers_ \ {t}
    /\ LET last == drivers_' = {} IN
        /\ deletable' = [deletable EXCEPT ![t] = last /\ Unreferenced]
        /\ closable' = [closable EXCEPT ![t] = last /\ ~fd_ /\ base_fd_]
        /\ base_fd_' = (base_fd_ /\ ~(last /\ ~fd_))
    /\ Goto(t, "unlocked")
    /\ UNCHANGED <<fd_, ref_, freed, osOpen, handles, driver, copies, because_deref, drivers>>

Step(t) ==
    \/ \E u \in Thread : ref(t, u) \/ Notify(t, u)
    \/ Fileno(t) \/ add_listener(t) \/ Register(t)
    \/ Deref(t) \/ DerefSub(t) \/ Close(t) \/ close(t)
    \/ CloseOs(t) \/ Delete(t) \/ CloseReturns(t)
    \/ migrate_fd_close(t) \/ notify_close(t) \/ remove_listener(t)

Next == \E t \in Thread : Step(t)

Spec == Init /\ [][Next]_vars
-----------------------------------------------------------------------------
Using(t) ==
    \/ handles[t] > 0 \/ fdrec[t]
    \/ pc[t] \in {"watch", "sub", "close", "remove_listener"}

Deleting(t) == pc[t] = "unlocked" /\ deletable[t]

\* The body is deleted once, and not while an fd object, a driver or a call in
\* progress on any thread will still use it.
BodyAlive ==
    /\ freed => \A t \in Thread : ~Using(t) /\ ~Deleting(t)
    /\ \A t, u \in Thread : Deleting(t) /\ Deleting(u) => t = u

Quiet == \A t \in Thread : pc[t] = "idle" /\ handles[t] = 0 /\ ~migrated[t]

\* "When the last strong reference is dropped, the underlying fd is closed"
\* (cotamer.hh): when no fd object is left and no call is in progress, it is.
LastCloses == Quiet => ~osOpen

=============================================================================
