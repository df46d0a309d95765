------------------------------ MODULE EventLoop ------------------------------
(***************************************************************************)
(* The main loop of a node (node/mod.rs) and the tasks it lives on.        *)
(*                                                                         *)
(* A listener task locks the event stream of routing, takes one event and  *)
(* maps it to a duty with the lock still held; for a change of elders the  *)
(* mapping (event_mapping/mod.rs) waits until routing has the key of the   *)
(* new elders.  The loop takes the results of finished tasks in any order, *)
(* handles the duty, adds the threads this starts, and spawns a listener   *)
(* whenever it finds the stream unlocked.  A listener that was spawned but *)
(* has not locked the stream yet is not noticed, so several can exist.     *)
(*                                                                         *)
(* Every event is known by its place in the order of emission; listeners   *)
(* that wait for the lock are alike and only counted.                      *)
(***************************************************************************)
EXTENDS Naturals

CONSTANTS
  EventCount,   \* how many events routing will emit
  Kind,         \* Kind[e]: a client's request, a change of elders seen by an
                \* elder or by the node it promotes, or any other event
  Key,          \* Key[e]: the section key of a change of elders
  MaxKey,       \* the last section key
  SanityLimit   \* 240 in the code: how often a missing key set is polled

Event == 1..EventCount

ASSUME EventAssumption ==
  /\ EventCount \in Nat /\ MaxKey \in Nat /\ SanityLimit \in Nat
  /\ Kind \in [Event -> {"client", "elders", "promoted", "other"}]
  /\ Key \in [Event -> 1..MaxKey]

VARIABLES
  pkset,     \* the key of routing's our_public_key_set(), 0 when it is an Err
  emitted,   \* the events routing has emitted
  sender,    \* routing's end of the stream: "open", or "dropped"
  taken,     \* the events taken from the stream
  lock,      \* of the stream: "free", or its holder waits for an event or maps one
  counter,   \* sanity_counter of the mapping
  waiting,   \* the listeners that wait for the lock
  mapped,    \* duties of finished listeners, <<event, duty>>
  none,      \* finished listeners that found the stream at its end
  thread,    \* running threads, <<event, what it does>>
  returned,  \* finished threads, <<event, result>>
  at,        \* the loop is at threads.next() or at the check of the lock
  handled,   \* the events whose duty was handled
  gaveUp     \* the changes of elders mapped without a key

vars == <<pkset, emitted, sender, taken, lock, counter, waiting, mapped, none,
          thread, returned, at, handled, gaveUp>>

stream == <<emitted, sender>>
listeners == <<taken, lock, counter, waiting, mapped, none, gaveUp>>
loop == <<at, handled>>

Duty == {"ProcessMsg", "EldersChanged", "newbie", "NoOp"}

TypeOK ==
  /\ pkset \in 0..MaxKey
  /\ emitted \in 0..EventCount
  /\ sender \in {"open", "dropped"}
  /\ taken \in 0..emitted
  /\ lock \in {"free", "listen", "map"}
  /\ counter \in 0..(SanityLimit + 1)
  /\ waiting \in Nat
  /\ mapped \subseteq Event \X Duty
  /\ none \in Nat
  /\ thread \subseteq Event \X {"duty", "send"}
  /\ returned \subseteq Event \X {"Result", "None", "Err"}
  /\ at \in {"next", "check"}
  /\ handled \subseteq Event
  /\ gaveUp \subseteq Event

\* Node::run spawns the first listener before it enters the loop.
Init ==
  /\ pkset \in {0, 1} \cap 0..MaxKey
  /\ emitted = 0 /\ sender = "open"
  /\ taken = 0 /\ lock = "free" /\ counter = 0
  /\ waiting = 1 /\ mapped = {} /\ none = 0 /\ gaveUp = {}
  /\ thread = {} /\ returned = {}
  /\ at = "next" /\ handled = {}

-----------------------------------------------------------------------------
(* Routing, which runs by itself. *)

Emit ==
  /\ sender = "open" /\ emitted < EventCount
  /\ emitted' = emitted + 1
  /\ UNCHANGED <<pkset, sender, thread, returned, listeners, loop>>

Close ==
  /\ sender = "open" /\ emitted = EventCount
  /\ sender' = "dropped"
  /\ UNCHANGED <<pkset, emitted, thread, returned, listeners, loop>>

\* A key generation ends: routing has the next key set of the section.  It may
\* have it before or after it emits the change of elders, but by the next key
\* the event of the last one was emitted.
FinishDkg ==
  /\ pkset < MaxKey
  /\ \A e \in Event : Kind[e] \in {"elders", "promoted"} /\ Key[e] <= pkset => e <= emitted
  /\ pkset' = pkset + 1
  /\ UNCHANGED <<thread, returned, stream, listeners, loop>>

-----------------------------------------------------------------------------
(* process_routing_event. *)

Lock ==
  /\ lock = "free" /\ waiting > 0
  /\ lock' = "listen"
  /\ waiting' = waiting - 1
  /\ UNCHANGED <<pkset, taken, counter, mapped, none, gaveUp, thread, returned, stream, loop>>

TakeEvent ==
  /\ lock = "listen" /\ taken < emitted
  /\ taken' = taken + 1
  /\ lock' = "map"
  /\ counter' = 0
  /\ UNCHANGED <<pkset, waiting, mapped, none, gaveUp, thread, returned, stream, loop>>

EndOfStream ==
  /\ lock = "listen" /\ sender = "dropped" /\ taken = emitted
  /\ lock' = "free"
  /\ none' = none + 1
  /\ UNCHANGED <<pkset, taken, counter, waiting, mapped, gaveUp, thread, returned, stream, loop>>

\* The listener is done: it lets go of the lock, then its task completes.
MappedTo(d) ==
  /\ lock' = "free"
  /\ mapped' = mapped \cup {<<taken, d>>}
  /\ UNCHANGED <<pkset, taken, counter, waiting, none, thread, returned, stream, loop>>

\* Faulty variant of PollAgain: a missing key set ends the task without a duty.
GiveUpOnMissingKeys ==
  /\ lock' = "free"
  /\ none' = none + 1
  /\ UNCHANGED <<pkset, taken, counter, waiting, mapped, gaveUp, thread, returned, stream, loop>>

PollAgain ==
  /\ counter' = counter + 1
  /\ UNCHANGED <<pkset, taken, lock, waiting, mapped, none, gaveUp, thread, returned, stream, loop>>

\* Faulty variant of EldersKeyReached: any key set is taken for the right one.
AnyKeyReached(e) == pkset # 0

\* Faulty variant of EldersKeyReached: waits for a key after that of the elders.
LaterKeyReached(e) == pkset > Key[e]

\* The wait of an elder for the key of the new elders ends when the keys are
\* equal; a key that differs, in either direction, does not count as a poll.
EldersKeyReached(e) == pkset = Key[e]

MapEldersChanged ==
  /\ lock = "map" /\ Kind[taken] = "elders"
  /\ \/ counter < SanityLimit /\ EldersKeyReached(taken) /\ gaveUp' = gaveUp
        /\ MappedTo("EldersChanged")
     \/ counter < SanityLimit /\ pkset = 0 /\ PollAgain
     \/ counter < SanityLimit /\ pkset # 0 /\ ~EldersKeyReached(taken) /\ UNCHANGED vars
     \/ counter >= SanityLimit /\ gaveUp' = gaveUp \cup {taken}
        /\ MappedTo("EldersChanged")

MapPromoted ==
  /\ lock = "map" /\ Kind[taken] = "promoted"
  /\ \/ pkset # 0 /\ gaveUp' = gaveUp /\ MappedTo("newbie")
     \/ pkset = 0 /\ counter > SanityLimit /\ gaveUp' = gaveUp \cup {taken}
        /\ MappedTo("NoOp")
     \/ pkset = 0 /\ counter <= SanityLimit /\ PollAgain

MapOther ==
  /\ lock = "map" /\ Kind[taken] \in {"client", "other"}
  /\ gaveUp' = gaveUp
  /\ MappedTo(IF Kind[taken] = "client" THEN "ProcessMsg" ELSE "NoOp")

-----------------------------------------------------------------------------
(* Threads of duties. *)

\* A duty's thread ends with duties to do, with none, or with an error.
FinishThread(e) ==
  /\ \/ /\ <<e, "duty">> \in thread
        /\ thread' = thread \ {<<e, "duty">>}
        /\ \E r \in {"Result", "None", "Err"} : returned' = returned \cup {<<e, r>>}
     \/ /\ <<e, "send">> \in thread
        /\ thread' = thread \ {<<e, "send">>}
        /\ \E r \in {"None", "Err"} : returned' = returned \cup {<<e, r>>}
  /\ UNCHANGED <<pkset, stream, listeners, loop>>

-----------------------------------------------------------------------------
(* The loop of Node::run. *)

\* handle(duty): most duties start a thread.  A role that cannot do the duty
\* is an error at once, with the context of the event: a client gets an
\* error message, sent by a thread of its own.
Started(e, d) ==
  IF d = "ProcessMsg" THEN {{<<e, "duty">>}, {<<e, "send">>}}
  ELSE IF d = "EldersChanged" THEN {{<<e, "duty">>}, {}}
  ELSE {{}}

HandleMapped(e) ==
  /\ at = "next" /\ at' = "check"
  /\ \E d \in Duty :
       /\ <<e, d>> \in mapped
       /\ mapped' = mapped \ {<<e, d>>}
       /\ \E new \in Started(e, d) : thread' = thread \cup new
  /\ handled' = handled \cup {e}
  /\ UNCHANGED <<pkset, taken, lock, counter, waiting, none, gaveUp, returned, stream>>

\* The duties a thread returns are handled in turn (their context is None); an
\* error of a thread has lost its context too and ends as a NoOp.
HandleReturned(e) ==
  /\ at = "next" /\ at' = "check"
  /\ \E r \in {"Result", "None", "Err"} :
       /\ <<e, r>> \in returned
       /\ returned' = returned \ {<<e, r>>}
       /\ thread' = IF r = "Result" THEN thread \cup {<<e, "send">>} ELSE thread
  /\ UNCHANGED <<pkset, handled, listeners, stream>>

HandleNone ==
  /\ at = "next" /\ at' = "check"
  /\ none > 0 /\ none' = none - 1
  /\ UNCHANGED <<pkset, handled, taken, lock, counter, waiting, mapped, gaveUp,
                 thread, returned, stream>>

\* Faulty variant of CheckLock: a listener is spawned for a locked stream.
CheckLockInverted ==
  /\ at = "check" /\ at' = "next"
  /\ waiting' = IF lock # "free" THEN waiting + 1 ELSE waiting
  /\ UNCHANGED <<pkset, handled, taken, lock, counter, mapped, none, gaveUp,
                 thread, returned, stream>>

CheckLock ==
  /\ at = "check" /\ at' = "next"
  /\ waiting' = IF lock = "free" THEN waiting + 1 ELSE waiting
  /\ UNCHANGED <<pkset, handled, taken, lock, counter, mapped, none, gaveUp,
                 thread, returned, stream>>

Next ==
  \/ Emit \/ Close \/ FinishDkg
  \/ Lock \/ TakeEvent \/ EndOfStream
  \/ MapEldersChanged \/ MapPromoted \/ MapOther
  \/ \E e \in Event : FinishThread(e) \/ HandleMapped(e) \/ HandleReturned(e)
  \/ HandleNone \/ CheckLock

Spec == Init /\ [][Next]_vars

\* tokio runs every task that can run, and FuturesUnordered hands its finished
\* tasks out in the order they became ready, so none waits for ever; key
\* generations end.  Routing need not emit another event, and a duty's thread
\* may run for ever.
Fairness ==
  /\ WF_vars(FinishDkg)
  /\ WF_vars(Lock) /\ WF_vars(TakeEvent) /\ WF_vars(EndOfStream)
  /\ WF_vars(MapEldersChanged) /\ WF_vars(MapPromoted) /\ WF_vars(MapOther)
  /\ WF_vars(CheckLock)
  /\ \A e \in Event : SF_vars(HandleMapped(e))

FairSpec == Spec /\ Fairness

-----------------------------------------------------------------------------
(* Properties. *)

Threads == waiting + none > 0 \/ lock # "free" \/ mapped # {} \/ thread # {} \/ returned # {}

\* The loop `while let Some(result) = threads.next().await` never ends: whenever
\* it comes round some task is left in threads, also after errors, after the
\* end of the stream, and when the lock was held at the check by a listener
\* that has finished since.
LoopNeverEnds == at = "next" => Threads

\* An event is mapped while the lock is held, so the next one is taken, and
\* handled, only when every earlier one is mapped, and none is dropped on the
\* way: nothing overtakes a change of elders that waits for its key.
NoneOvertakesAMapping ==
  handled \cup {m[1] : m \in mapped} = 1..(IF lock = "map" THEN taken - 1 ELSE taken)

\* When the loop handles a change of elders routing has the key of those
\* elders, or a later one, unless the polls of a missing key set ran out.
KeyBeforeEldersChanged ==
  \A e \in handled : Kind[e] = "elders" /\ e \notin gaveUp => pkset >= Key[e]

\* A listener waits for a key that routing has already replaced.
Overtaken == lock = "map" /\ Kind[taken] = "elders" /\ pkset > Key[taken]

\* Whatever routing has emitted is handled in the end, or a listener is stuck
\* with the lock, waiting for a key that was replaced before it was polled.
EventsAreHandled == []<>(1..emitted \subseteq handled \/ Overtaken)

\* Node::run, at the check of the lock: "If the Mutex is locked, it means there
\* is already a task running which is listening for routing events".  So a
\* locked stream is always listened to again.  The code does not keep this when
\* a mapping waits for a key that was replaced.
LockedMeansListening == lock # "free" ~> lock = "listen"
=============================================================================
