------------------------------ MODULE CotEvent ------------------------------
(***************************************************************************)
(* Events and quorum events of cotamer (cotamer_impl.hh): reference counts, *)
(* per-event locks, listeners and members, while several threads trigger    *)
(* events and one coroutine builds quorums over them, waits for the last    *)
(* one and may give up waiting.                                             *)
(*                                                                          *)
(* Every thread has a stack of frames, one per active call; a step is what  *)
(* the code does between two accesses that another thread can observe: the  *)
(* acquisition of an event's lock, the work under it up to its release, the *)
(* read of the flags in the destructor of a handle, a reference count.      *)
(* The recursion of the code (trigger_unlock, trigger_member, cull_members, *)
(* the destructor of a handle, hard_deref) is the growth of the stack.      *)
(* The interest{} optimisation (ef_want_interest) is not modelled.          *)
(***************************************************************************)
EXTENDS Naturals, Sequences, FiniteSets, SequencesExt, FiniteSetsExt

CONSTANTS
    Plain,      \* events that are not quorums; a thread each triggers it once
    Quorums,    \* the sequence of the quorums, in the order they are made
    Members,    \* the members of each quorum, a sequence of events made before it
    Quorum,     \* quorum_: how many of them have to trigger
    Waiter      \* the thread of the coroutine, and its driver

VARIABLES
    alive,      \* the bodies that are allocated
    ref,        \* refcount_
    locked,     \* the ef_lock flag
    trig,       \* the ef_triggered flag
    full,       \* ~ef_empty_members, as stored in flags_
    listeners,  \* listeners_: quorums and the coroutine
    members,    \* members_ of a quorum
    count,      \* triggered_ of a quorum
    stack,      \* the active calls of each thread, the innermost first
    posted,     \* the events on the asap or migrate list of the driver
    co          \* the coroutine: "building", "suspended", "resumed", "destroyed"

vars == <<alive, ref, locked, trig, full, listeners, members, count, stack, posted, co>>

Quorate == Range(Quorums)
MaxMembers == Max({Len(Members[q]) : q \in Quorate})
Event   == Plain \union Quorate
Top     == Last(Quorums)
Runner  == Plain \union {Waiter}      \* the thread that triggers e is named e
Coroutine == Waiter                   \* a listener that is not a quorum

\* The handles of an event that the coroutine starts with: one for each place
\* where it is a member, and the one it waits on.
Handles(b) ==
    Cardinality({<<q, i>> \in Quorate \X (1..MaxMembers) :
                    i <= Len(Members[q]) /\ Members[q][i] = b})
    + (IF b = Top THEN 1 ELSE 0)

\* An active call: what it does next, its event, an argument, a position or list.
Frame(op, b, arg, todo) == [op |-> op, b |-> b, arg |-> arg, todo |-> todo]
Call(op, b) == Frame(op, b, b, <<>>)

Init ==
    /\ alive = Plain
    /\ ref = [b \in Event |-> IF b \in Plain THEN 1 + Handles(b) ELSE 0]
    /\ locked = [b \in Event |-> FALSE]
    /\ trig = [b \in Event |-> FALSE]
    /\ full = [b \in Event |-> FALSE]
    /\ listeners = [b \in Event |-> <<>>]
    /\ members = [q \in Quorate |-> <<>>]
    /\ count = [q \in Quorate |-> 0]
    /\ stack = [t \in Runner |->
            IF t = Waiter
            THEN [i \in 1..Len(Quorums) |-> Call("make", Quorums[i])]
                 \o <<Call("await", Top)>> 
            ELSE <<Call("trigger", t), Call("deref", t)>>]
    /\ posted = <<>>
    /\ co = "building"

Op(t)    == Head(stack[t]).op
Body(t)  == Head(stack[t]).b
Arg(t)   == Head(stack[t]).arg
Todo(t)  == Head(stack[t]).todo
At(t, op) == stack[t] # <<>> /\ Op(t) = op

\* The innermost call is over, goes on as f, or calls f.
Return(t)    == stack' = [stack EXCEPT ![t] = Tail(@)]
GoOn(t, f)   == stack' = [stack EXCEPT ![t] = <<f>> \o Tail(@)]
Calls(t, f, g) == stack' = [stack EXCEPT ![t] = <<g, f>> \o Tail(@)]

\* Take one element out of a small_vector: the last one takes its place.
SwapOut(s, i) == SubSeq([s EXCEPT ![i] = s[Len(s)]], 1, Len(s) - 1)
RemoveOne(s, x) == IF x \in Range(s) THEN SwapOut(s, SelectInSeq(s, LAMBDA y : y = x)) ELSE s

MutantReached(q) == count[q] + 1 >= Quorum[q]
MutantReachedLate(q) == count[q] > Quorum[q]
\* triggered_ >= quorum_
Reached(q) == count[q] >= Quorum[q]

MutantLastTrigger(q) == FALSE
\* trigger_member is the last to know the quorum.
LastTrigger(q) == members[q] = <<>> /\ ref[q] = 0

Lock(b)   == ~locked[b] /\ locked' = [locked EXCEPT ![b] = TRUE]
\* unlock(flags): the flags of a quorum say whether it has members left.
Unlock(b) ==
    /\ locked' = [locked EXCEPT ![b] = FALSE]
    /\ full' = [full EXCEPT ![b] = b \in Quorate /\ members[b] # <<>>]

-----------------------------------------------------------------------------
(* quorum_event_body::make *)

make(t) ==
    /\ At(t, "make")
    /\ LET q == Body(t) IN
        /\ alive' = alive \union {q}
        /\ ref' = [ref EXCEPT ![q] = Handles(q)]
        /\ locked' = [locked EXCEPT ![q] = TRUE]
        /\ GoOn(t, Frame("add_member", q, q, Members[q]))
    /\ UNCHANGED <<trig, full, listeners, members, count, posted, co>>

\* add_member of an event that has triggered; the handle passed for it goes.
AddTriggered(t) ==
    /\ At(t, "add_member") /\ Todo(t) # <<>> /\ trig[Head(Todo(t))]
    /\ count' = [count EXCEPT ![Body(t)] = @ + 1]
    /\ Calls(t, Frame("add_member", Body(t), Body(t), Tail(Todo(t))), Call("deref", Head(Todo(t))))
    /\ UNCHANGED <<alive, ref, locked, trig, full, listeners, members, posted, co>>

\* add_member: untriggered_lock of the event.
AddLock(t) ==
    /\ At(t, "add_member") /\ Todo(t) # <<>> /\ ~trig[Head(Todo(t))]
    /\ Lock(Head(Todo(t)))
    /\ GoOn(t, [Head(stack[t]) EXCEPT !.op = "add_listener"])
    /\ UNCHANGED <<alive, ref, trig, full, listeners, members, count, posted, co>>

\* add_member: add_listener_unlock, members_.push_back.
add_member(t) ==
    /\ At(t, "add_listener")
    /\ LET q == Body(t)  e == Head(Todo(t)) IN
        /\ listeners' = [listeners EXCEPT ![e] = Append(@, q)]
        /\ members' = [members EXCEPT ![q] = Append(@, e)]
        /\ locked' = [locked EXCEPT ![e] = FALSE]
        /\ GoOn(t, Frame("add_member", q, q, Tail(Todo(t))))
    /\ UNCHANGED <<alive, ref, trig, full, count, posted, co>>

seal(t) ==
    /\ At(t, "add_member") /\ Todo(t) = <<>>
    /\ LET q == Body(t) IN
        IF Reached(q)
        THEN /\ ref' = [ref EXCEPT ![q] = @ + 1]
             /\ GoOn(t, Frame("cull", q, "mark", 1))
             /\ UNCHANGED <<locked, full, members>>
        ELSE /\ Unlock(q) /\ Return(t)
             /\ UNCHANGED <<ref, members>>
    /\ UNCHANGED <<alive, trig, listeners, count, posted, co>>

-----------------------------------------------------------------------------
(* event_body::trigger, trigger_unlock; quorum_event_body::trigger_member *)

\* trigger: untriggered_lock finds the event triggered, or locks it.
trigger(t) ==
    /\ At(t, "trigger")
    /\ IF trig[Body(t)] THEN Return(t) /\ UNCHANGED locked
       ELSE Lock(Body(t)) /\ GoOn(t, Call("mark", Body(t)))
    /\ UNCHANGED <<alive, ref, trig, full, listeners, members, count, posted, co>>

\* cull_members: a member that is still triggering stays.
CullSkip(t) ==
    /\ At(t, "cull") /\ Todo(t) <= Len(members[Body(t)])
    /\ trig[members[Body(t)][Todo(t)]]
    /\ GoOn(t, [Head(stack[t]) EXCEPT !.todo = @ + 1])
    /\ UNCHANGED <<alive, ref, locked, trig, full, listeners, members, count, posted, co>>

CullLock(t) ==
    /\ At(t, "cull") /\ Todo(t) <= Len(members[Body(t)])
    /\ ~trig[members[Body(t)][Todo(t)]]
    /\ Lock(members[Body(t)][Todo(t)])
    /\ GoOn(t, [Head(stack[t]) EXCEPT !.op = "cull_remove"])
    /\ UNCHANGED <<alive, ref, trig, full, listeners, members, count, posted, co>>

\* cull_members: remove_listener_unlock, and the handle of the member goes.
cull_members(t) ==
    /\ At(t, "cull_remove")
    /\ LET q == Body(t)  i == Todo(t)  e == members[q][i] IN
        /\ listeners' = [listeners EXCEPT ![e] = RemoveOne(@, q)]
        /\ locked' = [locked EXCEPT ![e] = FALSE]
        /\ members' = [members EXCEPT ![q] = SwapOut(@, i)]
        /\ Calls(t, [Head(stack[t]) EXCEPT !.op = "cull"], Call("deref", e))
    /\ UNCHANGED <<alive, ref, trig, full, count, posted, co>>

CullDone(t) ==
    /\ At(t, "cull") /\ Todo(t) > Len(members[Body(t)])
    /\ GoOn(t, Call(Arg(t), Body(t)))
    /\ UNCHANGED <<alive, ref, locked, trig, full, listeners, members, count, posted, co>>

\* trigger_unlock: the quorums leave the listeners and the event is triggered;
\* the argument of the call says whether a driver has a coroutine to run.
Mark(t) ==
    /\ At(t, "mark")
    /\ LET b == Body(t) IN
        /\ trig' = [trig EXCEPT ![b] = TRUE]
        /\ listeners' = [listeners EXCEPT ![b] = SelectSeq(@, LAMBDA l : l = Coroutine)]
        /\ UNCHANGED members
        /\ Unlock(b)
        /\ GoOn(t, Frame("inform", b, Coroutine \in Range(listeners[b]), SelectSeq(listeners[b], LAMBDA l : l # Coroutine)))
    /\ UNCHANGED <<alive, ref, count, posted, co>>

\* trigger_unlock: inform the quorums, then post the event to the driver of the
\* coroutine, then drop a quorum's temporary reference.
trigger_unlock(t) ==
    /\ At(t, "inform")
    /\ LET b == Body(t) IN
        IF Todo(t) # <<>>
        THEN /\ Calls(t, Frame("inform", b, Arg(t), Tail(Todo(t))), Frame("member", Head(Todo(t)), b, <<>>))
             /\ UNCHANGED <<ref, posted>>
        ELSE /\ IF Arg(t)
                THEN ref' = [ref EXCEPT ![b] = @ + 1] /\ posted' = Append(posted, b)
                ELSE UNCHANGED <<ref, posted>>
             /\ IF b \in Quorate THEN GoOn(t, Call("deref", b)) ELSE Return(t)
    /\ UNCHANGED <<alive, locked, trig, full, listeners, members, count, co>>

\* trigger_member: lock the quorum.
MemberLock(t) ==
    /\ At(t, "member")
    /\ Lock(Body(t))
    /\ GoOn(t, [Head(stack[t]) EXCEPT !.op = "member_count"])
    /\ UNCHANGED <<alive, ref, trig, full, listeners, members, count, posted, co>>

\* trigger_member: the member is counted and its handle goes, once.
MemberCount(t) ==
    /\ At(t, "member_count")
    /\ LET q == Body(t)  e == Arg(t) IN
        IF e \in Range(members[q])
        THEN /\ count' = [count EXCEPT ![q] = @ + 1]
             /\ members' = [members EXCEPT ![q] = RemoveOne(@, e)]
             /\ Calls(t, Call("member_done", q), Call("deref", e))
        ELSE /\ GoOn(t, Call("member_done", q))
             /\ UNCHANGED <<count, members>>
    /\ UNCHANGED <<alive, ref, locked, trig, full, listeners, posted, co>>

\* trigger_member: trigger the quorum, delete it, or unlock it.
trigger_member(t) ==
    /\ At(t, "member_done")
    /\ LET q == Body(t) IN
        IF ~trig[q] /\ Reached(q)
        THEN /\ ref' = [ref EXCEPT ![q] = @ + 1]
             /\ GoOn(t, Frame("cull", q, "mark", 1))
             /\ UNCHANGED <<alive, locked, full, members>>
        ELSE /\ IF LastTrigger(q)
                THEN alive' = alive \ {q} /\ UNCHANGED <<locked, full, members>>
                ELSE UNCHANGED <<alive, members>> /\ Unlock(q)
             /\ Return(t)
             /\ UNCHANGED ref
    /\ UNCHANGED <<trig, listeners, count, posted, co>>

-----------------------------------------------------------------------------
(* event_handle::~event_handle, quorum_event_body::hard_deref *)

\* ~event_handle: the flags decide between hard_deref and the count alone.
MutantDerefFlags(t) ==
    /\ At(t, "deref")
    /\ GoOn(t, Call("deref_count", Body(t)))
    /\ UNCHANGED <<alive, ref, locked, trig, full, listeners, members, count, posted, co>>
DerefFlags(t) ==
    /\ At(t, "deref")
    /\ GoOn(t, Call(IF full[Body(t)] THEN "hard_deref" ELSE "deref_count", Body(t)))
    /\ UNCHANGED <<alive, ref, locked, trig, full, listeners, members, count, posted, co>>

DerefCount(t) ==
    /\ At(t, "deref_count")
    /\ ref' = [ref EXCEPT ![Body(t)] = @ - 1]
    /\ alive' = IF ref[Body(t)] = 1 THEN alive \ {Body(t)} ELSE alive
    /\ Return(t)
    /\ UNCHANGED <<locked, trig, full, listeners, members, count, posted, co>>

HardLock(t) ==
    /\ At(t, "hard_deref")
    /\ Lock(Body(t))
    /\ GoOn(t, Call("hard_count", Body(t)))
    /\ UNCHANGED <<alive, ref, trig, full, listeners, members, count, posted, co>>

hard_deref(t) ==
    /\ At(t, "hard_count")
    /\ LET q == Body(t) IN
        /\ ref' = [ref EXCEPT ![q] = @ - 1]
        /\ UNCHANGED members
        /\ IF ref[q] # 1 THEN Unlock(q) /\ Return(t)
           ELSE /\ GoOn(t, IF trig[q] THEN Call("hard_end", q) ELSE Frame("cull", q, "hard_end", 1))
                /\ UNCHANGED <<locked, full>>
    /\ UNCHANGED <<alive, trig, listeners, count, posted, co>>

\* hard_deref: delete the quorum, or leave that to the last trigger under way.
HardEnd(t) ==
    /\ At(t, "hard_end")
    /\ LET q == Body(t) IN
        IF members[q] = <<>> THEN alive' = alive \ {q} /\ UNCHANGED <<locked, full, members>>
        ELSE UNCHANGED <<alive, members>> /\ Unlock(q)
    /\ Return(t)
    /\ UNCHANGED <<ref, trig, listeners, count, posted, co>>

-----------------------------------------------------------------------------
(* task_event_awaiter, event_body::driver_trigger: the coroutine *)

\* await_suspend: do not suspend if the event has triggered; lock it otherwise.
AwaitLock(t) ==
    /\ At(t, "await")
    /\ IF trig[Top] THEN /\ co' = "resumed" /\ GoOn(t, Call("deref", Top)) /\ UNCHANGED locked
       ELSE Lock(Top) /\ GoOn(t, Call("await_add", Top)) /\ UNCHANGED co
    /\ UNCHANGED <<alive, ref, trig, full, listeners, members, count, posted>>

await_suspend(t) ==
    /\ At(t, "await_add")
    /\ listeners' = [listeners EXCEPT ![Top] = Append(@, Coroutine)]
    /\ UNCHANGED members /\ Unlock(Top)
    /\ co' = "suspended"
    /\ Return(t)
    /\ UNCHANGED <<alive, ref, trig, count, posted>>

\* The task is destroyed while it waits: ~task_event_awaiter removes the
\* listener, then the handle goes.
Destroy ==
    /\ co = "suspended" /\ stack[Waiter] = <<>>
    /\ co' = "destroyed"
    /\ stack' = [stack EXCEPT ![Waiter] = <<Call("remove_lock", Top), Call("deref", Top)>>]
    /\ UNCHANGED <<alive, ref, locked, trig, full, listeners, members, count, posted>>

RemoveLock(t) ==
    /\ At(t, "remove_lock")
    /\ Lock(Body(t))
    /\ GoOn(t, Call("remove", Body(t)))
    /\ UNCHANGED <<alive, ref, trig, full, listeners, members, count, posted, co>>

remove_listener(t) ==
    /\ At(t, "remove")
    /\ listeners' = [listeners EXCEPT ![Body(t)] = RemoveOne(@, Coroutine)]
    /\ UNCHANGED members /\ Unlock(Body(t))
    /\ Return(t)
    /\ UNCHANGED <<alive, ref, trig, count, posted, co>>

\* The driver takes a posted event from its list.
TakePosted ==
    /\ stack[Waiter] = <<>> /\ posted # <<>>
    /\ posted' = Tail(posted)
    /\ stack' = [stack EXCEPT ![Waiter] = <<Call("drive", Head(posted)), Call("deref", Head(posted))>>]
    /\ UNCHANGED <<alive, ref, locked, trig, full, listeners, members, count, co>>

\* driver_trigger: nothing left to do, or lock and look for the coroutine.
DriveLock(t) ==
    /\ At(t, "drive")
    /\ IF trig[Body(t)] /\ listeners[Body(t)] = <<>> THEN Return(t) /\ UNCHANGED locked
       ELSE Lock(Body(t)) /\ GoOn(t, Call("drive_run", Body(t)))
    /\ UNCHANGED <<alive, ref, trig, full, listeners, members, count, posted, co>>

\* driver_trigger found the coroutine; it resumes and drops its handle.
driver_trigger(t) ==
    /\ At(t, "drive_run")
    /\ listeners' = [listeners EXCEPT ![Body(t)] = RemoveOne(@, Coroutine)]
    /\ UNCHANGED members /\ Unlock(Body(t))
    /\ IF Coroutine \in Range(listeners[Body(t)])
       THEN co' = "resumed" /\ GoOn(t, Call("deref", Body(t)))
       ELSE UNCHANGED co /\ Return(t)
    /\ UNCHANGED <<alive, ref, trig, count, posted>>

Step(t) ==
    \/ make(t) \/ AddTriggered(t) \/ AddLock(t) \/ add_member(t) \/ seal(t)
    \/ trigger(t) \/ CullSkip(t) \/ CullLock(t) \/ cull_members(t) \/ CullDone(t)
    \/ Mark(t) \/ trigger_unlock(t) \/ MemberLock(t) \/ MemberCount(t) \/ trigger_member(t)
    \/ DerefFlags(t) \/ DerefCount(t) \/ HardLock(t) \/ hard_deref(t) \/ HardEnd(t)
    \/ AwaitLock(t) \/ await_suspend(t) \/ RemoveLock(t) \/ remove_listener(t)
    \/ DriveLock(t) \/ driver_trigger(t)

\* Nothing is left to run: no call is active and nothing is posted.
Quiet == posted = <<>> /\ \A t \in Runner : stack[t] = <<>>

Next == (\E t \in Runner : Step(t)) \/ Destroy \/ TakePosted

Spec == Init /\ [][Next]_vars

-----------------------------------------------------------------------------
\* No active call, list of members or posted event refers to a deleted body:
\* "logic in trigger_unlock() and around reference counts ensures everything
\* works out", whatever the order of triggers and dropped handles.
NoUseAfterFree ==
    /\ \A t \in Runner : \A i \in DOMAIN stack[t] :
        stack[t][i].op \in {"make", "await"} \/ stack[t][i].b \in alive
    /\ \A q \in alive \cap Quorate : Range(members[q]) \subseteq alive
    /\ Range(posted) \subseteq alive
    /\ \A b \in alive : Range(listeners[b]) \subseteq alive \union {Coroutine}

\* When nothing runs any more and no coroutine waits, every body has been
\* deleted: the last of the threads that saw a quorum deletes it.
NoLeak == Quiet /\ co # "suspended" => alive = {}

\* The places of a quorum whose event has triggered.
Fired(q) == {i \in DOMAIN Members[q] : trig[Members[q][i]]}

\* A quorum triggers only once enough of its members have, each counted once
\* for each place it has among them.
QuorumSound == \A q \in Quorate : trig[q] => Cardinality(Fired(q)) >= Quorum[q]

\* When nothing runs any more every event has been triggered, so no coroutine is
\* suspended still: no order of add_member, trigger, trigger_member and
\* await_suspend loses the notification.
Resumed == Quiet => co # "suspended"
=============================================================================
