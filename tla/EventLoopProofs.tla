--------------------------- MODULE EventLoopProofs ---------------------------
(***************************************************************************)
(* Proofs about the main loop, for every trace of routing events and every *)
(* limit of the polls: the loop never runs out of tasks, no event          *)
(* overtakes one that is being mapped, and an elder handles a change of    *)
(* elders with the key of those elders at hand.                            *)
(***************************************************************************)
EXTENDS EventLoop, TLAPS

\* What is said of handled changes of elders, for the mapped ones.
KeyBeforeMapped ==
  \A m \in mapped :
    Kind[m[1]] = "elders" /\ m[1] \notin gaveUp => pkset >= Key[m[1]]

\* The inductive invariant.
LoopInv ==
  /\ TypeOK
  /\ lock = "map" => taken > 0
  /\ LoopNeverEnds
  /\ NoneOvertakesAMapping
  /\ KeyBeforeEldersChanged
  /\ KeyBeforeMapped

USE EventAssumption DEF Event

\* The loop starts with one listener and no event.
LEMMA LoopInit == Init => LoopInv
BY DEF Init, LoopInv, TypeOK, LoopNeverEnds, NoneOvertakesAMapping,
       KeyBeforeEldersChanged, KeyBeforeMapped, Threads, Duty

\* What the mapping of an event does, one poll at a time.
LEMMA MapSteps ==
  ASSUME LoopInv, MapEldersChanged \/ MapPromoted \/ MapOther
  PROVE  /\ lock = "map" /\ taken \in Event
         /\ \/ UNCHANGED vars
            \/ PollAgain /\ counter <= SanityLimit
            \/ \E d \in Duty :
                 /\ MappedTo(d)
                 /\ \/ gaveUp' = gaveUp \cup {taken}
                    \/ gaveUp' = gaveUp /\ (Kind[taken] = "elders" => pkset >= Key[taken])
<1>1. lock = "map" /\ taken \in Event
  BY DEF MapEldersChanged, MapPromoted, MapOther, LoopInv, TypeOK
<1>2. CASE MapEldersChanged
  BY <1>1, <1>2 DEF MapEldersChanged, EldersKeyReached, Duty, LoopInv, TypeOK
<1>3. CASE MapPromoted
  BY <1>1, <1>3 DEF MapPromoted, Duty
<1>4. CASE MapOther
  BY <1>1, <1>4, Zenon DEF MapOther, Duty
<1> QED BY <1>1, <1>2, <1>3, <1>4

\* Every step keeps the types, and a listener maps only an event it has taken.
LEMMA LoopTypes ==
  ASSUME LoopInv, [Next]_vars
  PROVE  TypeOK' /\ (lock = "map" => taken > 0)'
<1> USE DEF LoopInv, TypeOK, loop, stream
<1>1. CASE Emit
  BY <1>1 DEF Emit, listeners
<1>2. CASE Close
  BY <1>2 DEF Close, listeners
<1>3. CASE FinishDkg
  BY <1>3 DEF FinishDkg, listeners
<1>4. CASE Lock
  BY <1>4 DEF Lock
<1>5. CASE TakeEvent
  BY <1>5 DEF TakeEvent
<1>6. CASE EndOfStream
  BY <1>6 DEF EndOfStream
<1>7. CASE MapEldersChanged \/ MapPromoted \/ MapOther
  <2>1. CASE PollAgain /\ counter <= SanityLimit
    BY <2>1 DEF PollAgain
  <2>2. ASSUME NEW d \in Duty, MappedTo(d), gaveUp' \in {gaveUp, gaveUp \cup {taken}}
        PROVE  TypeOK' /\ (lock = "map" => taken > 0)'
    <3>1. taken \in Event
      BY <1>7, MapSteps
    <3>2. lock' = "free" /\ mapped' \subseteq Event \X Duty /\ gaveUp' \subseteq Event
      BY <2>2, <3>1 DEF MappedTo
    <3>3. UNCHANGED <<pkset, taken, counter, waiting, none, thread, returned, stream, loop>>
      BY <2>2 DEF MappedTo
    <3> QED BY <3>2, <3>3
  <2>3. CASE UNCHANGED vars
    BY <2>3 DEF vars
  <2> QED BY <1>7, <2>1, <2>2, <2>3, MapSteps
<1>8. ASSUME NEW e \in Event, FinishThread(e)
      PROVE  TypeOK' /\ (lock = "map" => taken > 0)'
  BY <1>8 DEF FinishThread, listeners
<1>9. ASSUME NEW e \in Event, HandleMapped(e)
      PROVE  TypeOK' /\ (lock = "map" => taken > 0)'
  BY <1>9 DEF HandleMapped, Started
<1>10. ASSUME NEW e \in Event, HandleReturned(e)
      PROVE  TypeOK' /\ (lock = "map" => taken > 0)'
  BY <1>10 DEF HandleReturned, listeners
<1>11. CASE HandleNone
  BY <1>11 DEF HandleNone
<1>12. CASE CheckLock
  BY <1>12 DEF CheckLock
<1>13. CASE UNCHANGED vars
  BY <1>13 DEF vars
<1> QED BY <1>1, <1>2, <1>3, <1>4, <1>5, <1>6, <1>7, <1>8, <1>9, <1>10, <1>11, <1>12, <1>13
        DEF Next

\* At the head of the loop some task is left: the check spawns a listener or
\* has seen one that holds the lock, and tasks only leave by being handled.
LEMMA LoopTasks ==
  ASSUME LoopInv, [Next]_vars
  PROVE  LoopNeverEnds'
<1> USE DEF LoopInv, TypeOK, LoopNeverEnds, Threads, loop, stream
<1>1. CASE Emit \/ Close \/ FinishDkg
  BY <1>1 DEF Emit, Close, FinishDkg, listeners
<1>2. CASE Lock
  BY <1>2 DEF Lock
<1>3. CASE TakeEvent
  BY <1>3 DEF TakeEvent
<1>4. CASE EndOfStream
  BY <1>4 DEF EndOfStream
<1>5. CASE MapEldersChanged \/ MapPromoted \/ MapOther
  <2>1. CASE PollAgain
    BY <2>1 DEF PollAgain
  <2>2. ASSUME NEW d \in Duty, MappedTo(d)
        PROVE  LoopNeverEnds'
    BY <2>2 DEF MappedTo
  <2>3. CASE UNCHANGED vars
    BY <2>3 DEF vars
  <2> QED BY <1>5, <2>1, <2>2, <2>3, MapSteps
<1>6. ASSUME NEW e \in Event, FinishThread(e)
      PROVE  LoopNeverEnds'
  BY <1>6 DEF FinishThread, listeners
<1>7. CASE HandleNone \/ \E e \in Event : HandleMapped(e) \/ HandleReturned(e)
  BY <1>7 DEF HandleNone, HandleMapped, HandleReturned
<1>8. CASE CheckLock
  BY <1>8 DEF CheckLock
<1>9. CASE UNCHANGED vars
  BY <1>9 DEF vars
<1> QED BY <1>1, <1>2, <1>3, <1>4, <1>5, <1>6, <1>7, <1>8, <1>9 DEF Next

\* The events taken are the mapped and the handled ones, and the one in hand.
LEMMA LoopOrder ==
  ASSUME LoopInv, [Next]_vars
  PROVE  NoneOvertakesAMapping'
<1> USE DEF LoopInv, TypeOK, NoneOvertakesAMapping, loop, stream
<1>1. CASE Emit \/ Close \/ FinishDkg
  BY <1>1 DEF Emit, Close, FinishDkg, listeners
<1>2. CASE Lock
  BY <1>2 DEF Lock
<1>3. CASE TakeEvent
  BY <1>3 DEF TakeEvent
<1>4. CASE EndOfStream
  BY <1>4 DEF EndOfStream
<1>5. CASE MapEldersChanged \/ MapPromoted \/ MapOther
  <2>1. CASE PollAgain
    BY <2>1 DEF PollAgain
  <2>2. ASSUME NEW d \in Duty, MappedTo(d)
        PROVE  NoneOvertakesAMapping'
    <3>1. lock = "map" /\ taken \in Event
      BY <1>5, MapSteps
    <3>2. lock' = "free" /\ mapped' = mapped \cup {<<taken, d>>} /\ UNCHANGED <<handled, taken>>
      BY <2>2 DEF MappedTo
    <3>3. {m[1] : m \in mapped'} = {m[1] : m \in mapped} \cup {taken}
      <4>1. <<taken, d>>[1] = taken
        OBVIOUS
      <4> HIDE DEF TypeOK, LoopInv, NoneOvertakesAMapping, loop, stream
      <4> QED BY <3>2, <4>1, Zenon
    <3>4. 1..taken = 1..(taken - 1) \cup {taken}
      BY <3>1
    <3> QED BY <3>1, <3>2, <3>3, <3>4
  <2>3. CASE UNCHANGED vars
    BY <2>3 DEF vars
  <2> QED BY <1>5, <2>1, <2>2, <2>3, MapSteps
<1>6. ASSUME NEW e \in Event, FinishThread(e) \/ HandleReturned(e)
      PROVE  NoneOvertakesAMapping'
  BY <1>6 DEF FinishThread, HandleReturned, listeners
<1>7. ASSUME NEW e \in Event, HandleMapped(e)
      PROVE  NoneOvertakesAMapping'
  <2>1. PICK d \in Duty : <<e, d>> \in mapped /\ mapped' = mapped \ {<<e, d>>}
    BY <1>7 DEF HandleMapped
  <2>2. handled' = handled \cup {e} /\ UNCHANGED <<lock, taken>>
    BY <1>7 DEF HandleMapped
  <2>3. {m[1] : m \in mapped} = {m[1] : m \in mapped'} \cup {e}
    BY <2>1
  <2> QED BY <2>2, <2>3
<1>8. CASE HandleNone \/ CheckLock
  BY <1>8 DEF HandleNone, CheckLock
<1>9. CASE UNCHANGED vars
  BY <1>9 DEF vars
<1> QED BY <1>1, <1>2, <1>3, <1>4, <1>5, <1>6, <1>7, <1>8, <1>9 DEF Next

\* Keys only grow, so what held at the mapping holds at the handling.
LEMMA LoopKeys ==
  ASSUME LoopInv, [Next]_vars
  PROVE  KeyBeforeEldersChanged' /\ KeyBeforeMapped'
<1> USE DEF LoopInv, TypeOK, KeyBeforeEldersChanged, KeyBeforeMapped, loop, stream
<1>1. CASE Emit \/ Close
  BY <1>1 DEF Emit, Close, listeners
<1>10. CASE FinishDkg
  <2>1. pkset' >= pkset /\ UNCHANGED <<handled, mapped, gaveUp>>
    BY <1>10 DEF FinishDkg, listeners
  <2>2. ASSUME NEW e \in Event, pkset >= Key[e]
        PROVE  pkset' >= Key[e]
    BY <1>10, <2>2 DEF FinishDkg
  <2>3. KeyBeforeEldersChanged'
    BY <2>1, <2>2
  <2>4. KeyBeforeMapped'
    BY <2>1, <2>2
  <2> QED BY <2>3, <2>4
<1>2. CASE Lock \/ TakeEvent \/ EndOfStream
  BY <1>2 DEF Lock, TakeEvent, EndOfStream
<1>3. CASE MapEldersChanged \/ MapPromoted \/ MapOther
  <2>1. CASE PollAgain
    BY <2>1 DEF PollAgain
  <2>2. ASSUME NEW d \in Duty, MappedTo(d),
               \/ gaveUp' = gaveUp \cup {taken}
               \/ gaveUp' = gaveUp /\ (Kind[taken] = "elders" => pkset >= Key[taken])
        PROVE  KeyBeforeEldersChanged' /\ KeyBeforeMapped'
    BY <2>2 DEF MappedTo
  <2>3. CASE UNCHANGED vars
    BY <2>3 DEF vars
  <2> QED BY <1>3, <2>1, <2>2, <2>3, MapSteps
<1>4. ASSUME NEW e \in Event, FinishThread(e) \/ HandleReturned(e)
      PROVE  KeyBeforeEldersChanged' /\ KeyBeforeMapped'
  BY <1>4 DEF FinishThread, HandleReturned, listeners
<1>5. ASSUME NEW e \in Event, HandleMapped(e)
      PROVE  KeyBeforeEldersChanged' /\ KeyBeforeMapped'
  BY <1>5 DEF HandleMapped
<1>6. CASE HandleNone \/ CheckLock
  BY <1>6 DEF HandleNone, CheckLock
<1>7. CASE UNCHANGED vars
  BY <1>7 DEF vars
<1> QED BY <1>1, <1>2, <1>3, <1>4, <1>5, <1>6, <1>7, <1>10 DEF Next

\* The inductive invariant holds in every state of every run of the node.
THEOREM LoopInvariant == Spec => []LoopInv
<1>1. LoopInv /\ [Next]_vars => LoopInv'
  BY LoopTypes, LoopTasks, LoopOrder, LoopKeys DEF LoopInv
<1> QED BY <1>1, LoopInit, PTL DEF Spec

\* Node::run never returns: `while let Some(result) = threads.next().await`
\* always finds a task, whatever the events, errors and order of completion.
THEOREM RunNeverReturns == Spec => []LoopNeverEnds
BY LoopInvariant, PTL DEF LoopInv

\* The lock that process_routing_event holds through the mapping serialises
\* the events: none is skipped, none is taken while another is being mapped.
THEOREM MappingIsSerial == Spec => []NoneOvertakesAMapping
BY LoopInvariant, PTL DEF LoopInv

\* An elder handles EldersChanged with the key it names, or a later one, at
\* hand, except after SanityLimit polls without any key set.
THEOREM EldersChangedHasItsKey == Spec => []KeyBeforeEldersChanged
BY LoopInvariant, PTL DEF LoopInv

\* In every state the lock, the tasks and the event stream keep their types.
THEOREM TypeCorrect == Spec => []TypeOK
<1>1. LoopInv => TypeOK
  BY DEF LoopInv
<1> QED BY <1>1, LoopInvariant, PTL
=============================================================================
