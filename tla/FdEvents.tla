------------------------------ MODULE FdEvents ------------------------------
(***************************************************************************)
(* The file descriptor events of one driver (cotamer/io.cc, io.hh and the  *)
(* fd_event_set of cotamer_impl.hh), for one descriptor number and epoll:  *)
(* the watches coroutines install, the kernel registration the loop keeps  *)
(* in step with them, the events epoll_wait returns, and the close and     *)
(* reuse of the number while such events are still unprocessed.  Epochs    *)
(* tell the registrations of the number apart.  Coroutines run in the      *)
(* asap part of the loop and also between the events of a batch and        *)
(* between the triggers of one event, so their calls may happen there.     *)
(***************************************************************************)
EXTENDS Naturals, FiniteSets, FiniteSetsExt

CONSTANTS
    MaxWatch,   \* bound: watches installed
    MaxOpen,    \* bound: times the number is opened
    Mask        \* the masks callers ask for, subsets of {"read", "write", "close"}

\* Whoever waits waits for something.
ASSUME WatchAssumption ==
    MaxWatch \in Nat /\ Mask \subseteq (SUBSET {"read", "write", "close"}) \ {{}}

VARIABLES
    phase,      \* the part of driver::loop: "user", "update", "wait", "batch", "chain"
    gen,        \* how often the number was opened, the identity of its fd_body
    open,       \* is the descriptor open
    body,       \* fdrec.body: the body the driver listens for, 0 for none
    epoch,      \* fdrec.epoch
    wlist,      \* the watch list of the fdrec, in the order of the watches' numbers
    update,     \* is the fdrec on the update list
    fdctl,      \* the mask the driver recorded in fdctl_
    kernel,     \* the epoll registration [mask, epoch, gen], mask {} for none
    batch,      \* the unprocessed event [mask, epoch, gen] of epoll_wait
    chain,      \* the watches take_watch_list detached, being triggered
    watch,      \* of each watch [mask, gen]
    ev          \* of each watch: "none", "live", "empty" (nobody waits), "triggered"

fdsVars == <<phase, gen, open, body, epoch, wlist, update, fdctl, kernel, batch, chain, watch, ev>>
osvars == <<gen, open>>
recvars == <<body, epoch, wlist, update>>
kvars == <<fdctl, kernel>>

EpollEvent == {"in", "out", "rdhup", "hup"}
user_epoch == 2

Watch == 1..MaxWatch
NoEvent == [mask |-> {}, epoch |-> 0, gen |-> 0]

Live(w) == ev[w] = "live"

\* fd_batch::mask_out and mask_in for epoll; hup stands for EPOLLHUP and EPOLLERR,
\* which the kernel reports unasked.
mask_out(mask) ==
    (IF "read" \in mask THEN {"in", "rdhup"} ELSE {})
        \union (IF "write" \in mask THEN {"out"} ELSE {})
        \union (IF "close" \in mask THEN {"rdhup"} ELSE {})

mask_in(events) ==
    (IF events \intersect {"in", "rdhup", "hup"} # {} THEN {"read"} ELSE {})
        \union (IF events \intersect {"out", "hup"} # {} THEN {"write"} ELSE {})
        \union (IF events \intersect {"rdhup", "hup"} # {} THEN {"close"} ELSE {})

\* A mutant: only the first watch counts.
MutantWatchListMask(ws) == IF ws = {} THEN {} ELSE watch[Min(ws)].mask

watch_list_mask(ws) == UNION {watch[w].mask : w \in {u \in ws : Live(u)}}

FdsInit ==
    /\ phase = "user"
    /\ gen = 1 /\ open = TRUE
    /\ body = 0 /\ epoch = 0 /\ wlist = {} /\ update = FALSE
    /\ fdctl = {} /\ kernel = NoEvent /\ batch = NoEvent /\ chain = {}
    /\ watch = [w \in Watch |-> [mask |-> {}, gen |-> 0]]
    /\ ev = [w \in Watch |-> "none"]

\* Coroutines run here.
UserTurn == phase \in {"user", "batch", "chain"}

NextWatch == Cardinality({w \in Watch : ev[w] # "none"}) + 1

\* A mutant: the update is queued only for a body that is new to the driver.
MutantFileEvent(mask) ==
    /\ UserTurn /\ open /\ NextWatch \in Watch
    /\ watch' = [watch EXCEPT ![NextWatch] = [mask |-> mask, gen |-> gen]]
    /\ ev' = [ev EXCEPT ![NextWatch] = "live"]
    /\ wlist' = wlist \union {NextWatch}
    /\ body' = gen
    /\ update' = (update \/ body # gen)
    /\ UNCHANGED <<phase, osvars, epoch, kvars, batch, chain>>

\* fd_event_set::watch on an open descriptor, the listener added to the body.
file_event(mask) ==
    /\ UserTurn /\ open /\ NextWatch \in Watch
    /\ watch' = [watch EXCEPT ![NextWatch] = [mask |-> mask, gen |-> gen]]
    /\ ev' = [ev EXCEPT ![NextWatch] = "live"]
    /\ wlist' = wlist \union {NextWatch}
    /\ body' = gen
    /\ update' = TRUE
    /\ UNCHANGED <<phase, osvars, epoch, kvars, batch, chain>>

\* watch when fileno() is negative: an event no list knows of.
FileEventClosed(mask) ==
    /\ UserTurn /\ ~open /\ NextWatch \in Watch
    /\ watch' = [watch EXCEPT ![NextWatch] = [mask |-> mask, gen |-> gen]]
    /\ ev' = [ev EXCEPT ![NextWatch] = "live"]
    /\ UNCHANGED <<phase, osvars, recvars, kvars, batch, chain>>

\* The last waiter of a watch goes away.
Abandon(w) ==
    /\ UserTurn /\ Live(w)
    /\ ev' = [ev EXCEPT ![w] = "empty"]
    /\ UNCHANGED <<phase, osvars, recvars, kvars, batch, chain, watch>>

Triggered(ws) == [w \in Watch |-> IF w \in ws /\ Live(w) THEN "triggered" ELSE ev[w]]

\* A mutant: the epoch is left for pop_update to bump.
MutantClosedEpoch == epoch

\* driver::apply_fd_update with fd_batch::add: nothing when the mask is the one
\* recorded, else one epoll_ctl.
apply_fd_update(mask, e) ==
    IF fdctl = mask THEN UNCHANGED kvars
    ELSE /\ fdctl' = mask
         /\ kernel' = IF mask = {} THEN NoEvent ELSE [mask |-> mask, epoch |-> e, gen |-> gen]

\* The epoch after fd_close.
ClosedEpoch == epoch + 1

\* A mutant: the kernel registration is left to the next update.
MutantCloseWatched ==
    /\ UserTurn /\ open /\ body = gen
    /\ open' = FALSE
    /\ ev' = Triggered(wlist)
    /\ wlist' = {}
    /\ epoch' = ClosedEpoch
    /\ update' = TRUE
    /\ body' = 0
    /\ UNCHANGED <<phase, gen, kvars, batch, chain, watch>>

\* fd_body::close when the driver listens: notify_close, fd_close, the kernel
\* registration removed, remove_listener, and only then the descriptor.
CloseWatched ==
    /\ UserTurn /\ open /\ body = gen
    /\ open' = FALSE
    /\ ev' = Triggered(wlist)
    /\ wlist' = {}
    /\ epoch' = ClosedEpoch
    /\ update' = TRUE
    /\ body' = 0
    /\ apply_fd_update({}, epoch)
    /\ UNCHANGED <<phase, gen, batch, chain, watch>>

\* fd_body::close when no driver listens.
CloseUnwatched ==
    /\ UserTurn /\ open /\ body # gen
    /\ open' = FALSE
    /\ UNCHANGED <<phase, gen, recvars, kvars, batch, chain, watch, ev>>

\* A new descriptor, to which the kernel gives the same number.
Open ==
    /\ UserTurn /\ ~open /\ gen < MaxOpen
    /\ gen' = gen + 1 /\ open' = TRUE
    /\ UNCHANGED <<phase, recvars, kvars, batch, chain, watch, ev>>

\* take_watch_list: the watches that match or are empty, and the ones kept.
Matches(imask, w) == imask \intersect watch[w].mask # {} \/ ~Live(w)
Taken(imask, ws) == {w \in ws : Matches(imask, w)}
NotTaken(imask, ws) == {w \in ws : ~Matches(imask, w)}

\* driver::process_clearing takes every watch, whatever its epoch.
TakeAllWatches ==
    /\ phase = "user"
    /\ phase' = "chain"
    /\ chain' = wlist
    /\ wlist' = {}
    /\ update' = (update \/ wlist # {})
    /\ UNCHANGED <<osvars, body, epoch, kvars, batch, watch, ev>>

EndUser ==
    /\ phase = "user"
    /\ phase' = "update"
    /\ UNCHANGED <<osvars, recvars, kvars, batch, chain, watch, ev>>

\* pop_update, and the change applied.
pop_update ==
    /\ phase = "update" /\ update
    /\ update' = FALSE
    /\ LET mask == watch_list_mask(wlist)
           e == IF mask # {} /\ epoch < user_epoch THEN user_epoch ELSE epoch
       IN /\ epoch' = IF mask = {} THEN epoch + 1 ELSE e
          /\ apply_fd_update(mask, e)
    /\ UNCHANGED <<phase, osvars, body, wlist, batch, chain, watch, ev>>

UpdatesDone ==
    /\ phase = "update" /\ ~update
    /\ phase' = "wait"
    /\ UNCHANGED <<osvars, recvars, kvars, batch, chain, watch, ev>>

\* watch_fds: epoll_wait returns without an event of the descriptor, or is skipped.
WaitEmpty ==
    /\ phase = "wait"
    /\ phase' = "user"
    /\ UNCHANGED <<osvars, recvars, kvars, batch, chain, watch, ev>>

\* epoll_wait returns events, fd_batch::pop translates them.
Wait(events) ==
    /\ phase = "wait"
    /\ kernel.mask # {}
    /\ events # {} /\ events \subseteq mask_out(kernel.mask) \union {"hup"}
    /\ phase' = "batch"
    /\ batch' = [kernel EXCEPT !.mask = mask_in(events)]
    /\ UNCHANGED <<osvars, recvars, kvars, chain, watch, ev>>

\* An event of an old registration of the number.
StaleEvent(e) == wlist = {} \/ (e.epoch # 0 /\ e.epoch # epoch)

\* take_watch_list on the event of the batch.
take_watch_list ==
    /\ phase = "batch"
    /\ IF StaleEvent(batch)
       THEN /\ phase' = "user"
            /\ batch' = NoEvent
            /\ UNCHANGED <<chain, wlist, update>>
       ELSE /\ phase' = "chain"
            /\ chain' = Taken(batch.mask, wlist)
            /\ wlist' = NotTaken(batch.mask, wlist)
            /\ update' = (update \/ chain' # {})
            /\ UNCHANGED batch
    /\ UNCHANGED <<osvars, body, epoch, kvars, watch, ev>>

\* pop_watch_list_event, and the event triggered.
pop_watch_list_event ==
    /\ phase = "chain" /\ chain # {}
    /\ chain' = chain \ {Min(chain)}
    /\ ev' = Triggered({Min(chain)})
    /\ UNCHANGED <<phase, osvars, recvars, kvars, batch, watch>>

\* Back to watch_fds, or from process_clearing to the updates.
ChainDone ==
    /\ phase = "chain" /\ chain = {}
    /\ phase' = IF batch = NoEvent THEN "update" ELSE "user"
    /\ batch' = NoEvent
    /\ UNCHANGED <<osvars, recvars, kvars, chain, watch, ev>>

LoopStep ==
    \/ EndUser \/ pop_update \/ UpdatesDone \/ take_watch_list
    \/ pop_watch_list_event \/ ChainDone

FdsNext ==
    \/ \E m \in Mask : file_event(m) \/ FileEventClosed(m)
    \/ \E w \in Watch : Abandon(w)
    \/ CloseWatched \/ CloseUnwatched \/ Open
    \/ TakeAllWatches
    \/ LoopStep \/ WaitEmpty
    \/ \E events \in SUBSET EpollEvent : Wait(events)

FdsSpec == FdsInit /\ [][FdsNext]_fdsVars

-----------------------------------------------------------------------------
\* An event epoll_wait returned for one opening of the number triggers no watch
\* on another: coroutines of the same batch may have closed and reopened it.
NoStaleWake ==
    phase = "chain" /\ batch # NoEvent =>
        \A w \in chain : Live(w) => watch[w].gen = batch.gen

\* Before epoll_wait the kernel watches for all that coroutines wait for, under
\* the epoch that take_watch_list will accept.
WatchedByKernel ==
    phase = "wait" =>
        \A w \in wlist :
            Live(w) => watch[w].mask \subseteq kernel.mask /\ kernel.epoch = epoch

\* The driver's record of the registration is the kernel's, and only an open
\* descriptor is registered, so that no epoll_ctl call fails.
KernelExact ==
    /\ fdctl = kernel.mask
    /\ kernel.mask # {} => open /\ kernel.gen = gen /\ body = gen

\* An event of a descriptor wakes only watches of its own opening, and before the
\* driver blocks the kernel watches for all that coroutines wait for.
WatchesRight == NoStaleWake /\ WatchedByKernel /\ KernelExact

\* When the peer hangs up every watch ends, through any sequence of other
\* watches, closes and reopenings.
HangupWakes ==
    \A w \in Watch : Live(w) /\ w \in wlist ~> ~Live(w)

=============================================================================
