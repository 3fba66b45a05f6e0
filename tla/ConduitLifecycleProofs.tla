----------------------- MODULE ConduitLifecycleProofs ------------------------
(* Proofs about ConduitLifecycle, for any sets of clients, consumers and      *)
(* hooks, any number of starts and every way to use a conduit.                *)
EXTENDS ConduitLifecycle, TLAPS

------------------------------------------------------------------------------
(* Lemmas on sequences and on the closures that wait.                         *)

\* Appending adds one element to the range of a sequence.
LEMMA RangeAppend ==
  ASSUME NEW S, NEW s \in Seq(S), NEW x \in S
  PROVE  Range(Append(s, x)) = Range(s) \cup {x}
<1>1. /\ DOMAIN Append(s, x) = 1..(Len(s) + 1)
      /\ DOMAIN s = 1..Len(s)
      /\ \A i \in 1..Len(s) : Append(s, x)[i] = s[i]
      /\ Append(s, x)[Len(s) + 1] = x
      /\ Len(s) \in Nat
  OBVIOUS
<1>2. ASSUME NEW y \in Range(s) PROVE y \in Range(Append(s, x))
  <2>1. PICK i \in 1..Len(s) : y = s[i]  BY <1>1 DEF Range
  <2>2. i \in DOMAIN Append(s, x) /\ Append(s, x)[i] = y  BY <1>1, <2>1
  <2>3. QED  BY <2>2 DEF Range
<1>3. x \in Range(Append(s, x))
  <2>1. Len(s) + 1 \in DOMAIN Append(s, x)  BY <1>1
  <2>2. QED  BY <1>1, <2>1 DEF Range
<1>4. ASSUME NEW y \in Range(Append(s, x)) PROVE y \in Range(s) \cup {x}
  BY <1>1 DEF Range
<1>5. QED  BY <1>2, <1>3, <1>4

\* The range of a sequence by its indices, and that of the empty one.
LEMMA RangeIndices ==
  ASSUME NEW S, NEW s \in Seq(S)
  PROVE  /\ Len(s) \in Nat
         /\ \A y : y \in Range(s) <=> \E i \in 1..Len(s) : y = s[i]
         /\ Range(s) \subseteq S
BY DEF Range

LEMMA RangeEmpty == Range(<<>>) = {}
BY DEF Range

\* The closures are records of two kinds.
LEMMA ItemKinds ==
  ASSUME NEW x \in Items
  PROVE  /\ x.kind \in {"erase", "keep"} /\ x.owner \in Consumers \cup {None}
         /\ x.kind = "erase" => x.client \in Clients
BY DEF Items, EraseItem, KeepItem

------------------------------------------------------------------------------
(* What a step may do to the deferred queue and to the lists of clients.      *)

NewRequest(r) == NewAppRequest(r) \/ \E c \in Consumers : NewUserRequest(c, r)

\* A reference to a consumer is dropped, or taken of the one that is tracked.
References == \A c \in Consumers : Held(c)' => Held(c) \/ c = tracked

\* The steps by their effect on the queue, the lists and the owners; a queue that is swapped
\* finds the last batch done, and the lists are cleared when no erasure waits.
LEMMA Effects ==
  ASSUME InductiveInvariant, [Next]_vars
  PROVE  \/ References /\ UNCHANGED <<deferral, requests, tracked, loose>>
         \/ \E c \in Consumers : CreateConsumer(c)
         \/ \E c \in Consumers : AddConsumer(c)
         \/ \E r \in Clients : NewRequest(r) /\ UNCHANGED deferral
         \/ RemoveConsumer /\ UNCHANGED requests
         \/ Swap /\ batch = <<>> /\ UNCHANGED <<requests, owners>>
         \/ RunNext /\ UNCHANGED owners
         \/ EndBatch /\ UNCHANGED <<requests, owners>>
         \/ \E r \in Clients : Complete(r) /\ batch = <<>>
         \/ \E r \in Clients : CompleteThrows(r) /\ batch = <<>>
         \/ StopClear /\ batch = <<>> /\ (\A x \in Range(deferred) : x.kind = "keep")
         \/ StopReset
<1> USE DEF InductiveInvariant, Places, LateItems
<1>0. UNCHANGED <<deferral, requests, owners>>
        => References /\ UNCHANGED <<deferral, requests, tracked, loose>>
  BY DEF References, Held, owners
<1>1. CASE Start  BY <1>0, <1>1 DEF Start
<1>2. CASE App
  <2>1. ASSUME NEW r \in Clients, AppRequest(r)
        PROVE  NewRequest(r) /\ UNCHANGED deferral
    BY <2>1 DEF AppRequest, NewRequest, TypeOK
  <2>2. ASSUME NEW c \in Consumers, AppDrop(c)
        PROVE  References /\ UNCHANGED <<deferral, requests, tracked, loose>>
    BY <2>2 DEF AppDrop, References, Held
  <2>3. CASE AppLookup
    BY <2>3 DEF AppLookup, References, Held
  <2>4. CASE AppRemove  BY <2>4 DEF AppRemove
  <2>5. QED  BY <1>2, <2>1, <2>2, <2>3, <2>4 DEF App
<1>3. CASE Io
  <2>1. CASE Loop \/ PollEnd \/ Notify  BY <1>0, <2>1 DEF Loop, PollEnd, Notify
  <2>2. CASE RunDeferred
    BY <1>0, <2>2 DEF RunDeferred, IoDeferred, RunDangling
  <2>3. CASE \E r \in Clients : Complete(r) \/ CompleteThrows(r)
    BY <2>3 DEF Complete, CompleteThrows
  <2>4. QED  BY <1>3, <2>1, <2>2, <2>3 DEF Io
<1>4. CASE Stop
  <2>1. CASE StopDeferred
    BY <1>0, <2>1 DEF StopDeferred, RunDangling
  <2>2. CASE StopClear  BY <2>2 DEF StopClear
  <2>3. CASE StopBegin \/ StopJoined \/ JoinFails \/ StopDispatch \/ StopReset
    BY <1>0, <2>3 DEF StopBegin, StopJoined, JoinFails, StopDispatch
  <2>4. QED  BY <1>4, <2>1, <2>2, <2>3 DEF Stop
<1>5. CASE WaiterReturns  BY <1>0, <1>5 DEF WaiterReturns
<1>6. ASSUME NEW h \in Hooks, Hook(h)
      PROVE  \/ References /\ UNCHANGED <<deferral, requests, tracked, loose>>
             \/ \E r \in Clients : NewRequest(r) /\ UNCHANGED deferral
             \/ RemoveConsumer /\ UNCHANGED requests
  <2>1. CASE HookBegin(h)  BY <1>0, <2>1 DEF HookBegin
  <2>2. CASE HookLookup(h)
    <3>1. \A g \in Hooks : hookRef'[g] = IF g = h THEN tracked ELSE hookRef[g]
      BY <2>2 DEF HookLookup, TypeOK
    <3>2. QED  BY <2>2, <3>1 DEF HookLookup, References, Held
  <2>3. CASE HookRelease(h) \/ HookEnd(h)
    <3>1. \A g \in Hooks : hookRef'[g] = IF g = h THEN None ELSE hookRef[g]
      BY <2>3 DEF HookRelease, HookEnd, TypeOK
    <3>2. QED
      BY <2>3, <3>1, LifecycleAssumption DEF HookRelease, HookEnd, References, Held
  <2>4. CASE HookRemove(h)  BY <2>4 DEF HookRemove
  <2>5. ASSUME NEW r \in Clients, HookRequest(h, r)
        PROVE  NewRequest(r) /\ UNCHANGED deferral
    BY <2>5 DEF HookRequest, NewRequest, TypeOK
  <2>6. QED  BY <1>6, <2>1, <2>2, <2>3, <2>4, <2>5 DEF Hook
<1>7. CASE UNCHANGED vars  BY <1>0, <1>7 DEF vars
<1>8. QED  BY <1>1, <1>2, <1>3, <1>4, <1>5, <1>6, <1>7 DEF Next

------------------------------------------------------------------------------
(* Types.                                                                     *)

LEMMA ItemTypes ==
  /\ \A c \in Consumers \cup {None}, r \in Clients : EraseItem(c, r) \in Items
  /\ \A c \in Consumers : KeepItem(c) \in Items
BY DEF Items

\* What the closures and the lists may become has the types of TypeOK.
LEMMA NewRequestTypes ==
  ASSUME TypeOK, NEW r \in Clients, NewRequest(r)
  PROVE  /\ appReqs' \subseteq Clients /\ flying' \subseteq Clients /\ used' \subseteq Clients
         /\ userReqs' \in [Consumers -> SUBSET Clients] /\ loose' \subseteq Consumers
         /\ UNCHANGED <<thrown, tracked, appRef, hookRef>>
<1>1. CASE NewAppRequest(r)  BY <1>1 DEF TypeOK, NewAppRequest, Construct, owners
<1>2. ASSUME NEW c \in Consumers, NewUserRequest(c, r)
      PROVE  /\ appReqs' \subseteq Clients /\ flying' \subseteq Clients /\ used' \subseteq Clients
             /\ userReqs' \in [Consumers -> SUBSET Clients] /\ loose' \subseteq Consumers
             /\ UNCHANGED <<thrown, tracked, appRef, hookRef>>
  BY <1>2 DEF TypeOK, NewUserRequest, Construct
<1>3. QED  BY <1>1, <1>2 DEF NewRequest

LEMMA RemoveTypes ==
  ASSUME TypeOK, RemoveConsumer
  PROVE  /\ deferred' \in Seq(Items) /\ batch' = batch /\ position' = position
         /\ tracked' = None /\ loose' \subseteq Consumers /\ UNCHANGED <<appRef, hookRef>>
BY ItemTypes DEF TypeOK, RemoveConsumer, LoosenIfHeld

LEMMA SwapTypes ==
  ASSUME TypeOK, Swap
  PROVE  deferred' \in Seq(Items) /\ batch' \in Seq(Items) /\ position' \in 1..(Len(batch') + 1)
<1>1. deferred' = <<>> /\ batch' = deferred /\ position' = 1  BY DEF Swap
<1>2. Len(deferred) \in Nat  BY DEF TypeOK
<1>3. <<>> \in Seq(Items)  OBVIOUS
<1>4. QED  BY <1>1, <1>2, <1>3 DEF TypeOK

LEMMA RunNextTypes ==
  ASSUME TypeOK, RunNext
  PROVE  /\ appReqs' \subseteq Clients /\ userReqs' \in [Consumers -> SUBSET Clients]
         /\ position' \in 1..(Len(batch) + 1) /\ UNCHANGED <<deferred, batch, flying, used, thrown>>
<1>1. Len(batch) \in Nat /\ position \in 1..Len(batch)  BY DEF TypeOK, RunNext
<1>2. position' \in 1..(Len(batch) + 1)  BY <1>1 DEF RunNext
<1>3. appReqs' \subseteq Clients  BY DEF RunNext, Erase, TypeOK
<1>4. userReqs' \in [Consumers -> SUBSET Clients]  BY DEF RunNext, Erase, TypeOK
<1>5. QED  BY <1>2, <1>3, <1>4 DEF RunNext

LEMMA EndBatchTypes ==
  ASSUME TypeOK, EndBatch
  PROVE  deferred' = deferred /\ batch' \in Seq(Items) /\ position' \in 1..(Len(batch') + 1)
<1>1. batch' = <<>> /\ position' = 1 /\ deferred' = deferred  BY DEF EndBatch
<1>2. <<>> \in Seq(Items) /\ Len(<<>>) = 0  OBVIOUS
<1>3. QED  BY <1>1, <1>2

\* A request that completes is erased from the list it is in.
Owns(c, r) == r \in IF c = None THEN appReqs ELSE userReqs[c]

LEMMA CompleteOwner ==
  ASSUME NEW r \in Clients, Complete(r)
  PROVE  \E c \in Consumers \cup {None} :
           Owns(c, r) /\ deferred' = Append(deferred, EraseItem(c, r))
<1>1. CASE r \in appReqs /\ deferred' = Append(deferred, EraseItem(None, r))
  BY <1>1 DEF Owns
<1>2. ASSUME NEW c \in Consumers, r \in userReqs[c], deferred' = Append(deferred, EraseItem(c, r))
      PROVE  Owns(c, r)
  BY <1>2, LifecycleAssumption DEF Owns
<1>3. QED  BY <1>1, <1>2 DEF Complete

LEMMA TypeStep ==
  ASSUME TypeOK, [Next]_vars
  PROVE  TypeOK'
<1> USE LifecycleAssumption DEF threads, deferral, requests, owners, dispatch
<1>1. CASE Start  BY <1>1 DEF Start, TypeOK
<1>2. ASSUME NEW r \in Clients, AppRequest(r) PROVE TypeOK'
  <2>1. NewRequest(r)  BY <1>2 DEF AppRequest, NewRequest, TypeOK
  <2>2. QED  BY <1>2, <2>1, NewRequestTypes DEF AppRequest, TypeOK
<1>3. ASSUME NEW c \in Consumers, AddConsumer(c) PROVE TypeOK'
  BY <1>3 DEF AddConsumer, TypeOK
<1>3a. ASSUME NEW c \in Consumers, CreateConsumer(c) PROVE TypeOK'
  BY <1>3a DEF CreateConsumer, TypeOK
<1>3b. CASE AppLookup  BY <1>3b DEF AppLookup, TypeOK
<1>4. ASSUME NEW c \in Consumers, AppDrop(c) PROVE TypeOK'
  BY <1>4 DEF AppDrop, TypeOK
<1>5. CASE AppRemove  BY <1>5, RemoveTypes DEF AppRemove, TypeOK
<1>6. CASE Loop  BY <1>6 DEF Loop, TypeOK
<1>7. CASE RunDeferred
  <2>1. CASE io = "swap" /\ Swap /\ io' = "run" /\ UNCHANGED requests
    BY <1>7, <2>1, SwapTypes DEF RunDeferred, TypeOK
  <2>2. CASE io = "run" /\ RunNext /\ UNCHANGED io
    BY <1>7, <2>2, RunNextTypes DEF RunDeferred, TypeOK
  <2>3. CASE io = "run" /\ EndBatch /\ io' = "poll" /\ UNCHANGED requests
    BY <1>7, <2>3, EndBatchTypes DEF RunDeferred, TypeOK
  <2>4. CASE RunDangling /\ io' = "undefined"
    BY <1>7, <2>4 DEF RunDeferred, RunDangling, TypeOK
  <2>5. QED  BY <1>7, <2>1, <2>2, <2>3, <2>4 DEF RunDeferred, IoDeferred
<1>8. CASE PollEnd  BY <1>8 DEF PollEnd, TypeOK
<1>9. CASE Notify  BY <1>9 DEF Notify, TypeOK
<1>10. ASSUME NEW r \in Clients, Complete(r) PROVE TypeOK'
  <2>0. PICK c \in Consumers \cup {None} : deferred' = Append(deferred, EraseItem(c, r))
    BY <1>10, CompleteOwner
  <2>1. deferred' \in Seq(Items)  BY <2>0, ItemTypes DEF TypeOK
  <2>2. flying' \subseteq Clients  BY <1>10 DEF Complete, TypeOK
  <2>3. QED  BY <1>10, <2>1, <2>2 DEF Complete, TypeOK
<1>10a. ASSUME NEW r \in Clients, CompleteThrows(r) PROVE TypeOK'
  <2>0. EraseItem(None, r) \in Items  BY ItemTypes
  <2>1. deferred \in Seq(Items) /\ Append(deferred, EraseItem(None, r)) \in Seq(Items)
    BY <2>0 DEF TypeOK
  <2>2. deferred' \in Seq(Items)  BY <1>10a, <2>1 DEF CompleteThrows
  <2>3. thrown' \subseteq Clients  BY <1>10a DEF CompleteThrows, TypeOK
  <2>4. QED  BY <1>10a, <2>2, <2>3 DEF CompleteThrows, TypeOK
<1>11. ASSUME NEW h \in Hooks, HookBegin(h) PROVE TypeOK'
  BY <1>11 DEF HookBegin, TypeOK
<1>12. ASSUME NEW h \in Hooks, HookLookup(h) \/ HookRelease(h) PROVE TypeOK'
  BY <1>12 DEF HookLookup, HookRelease, TypeOK
<1>13. ASSUME NEW h \in Hooks, HookRemove(h) PROVE TypeOK'
  BY <1>13, RemoveTypes DEF HookRemove, TypeOK
<1>14. ASSUME NEW h \in Hooks, HookEnd(h) PROVE TypeOK'
  BY <1>14 DEF HookEnd, TypeOK
<1>15. ASSUME NEW h \in Hooks, NEW r \in Clients, HookRequest(h, r) PROVE TypeOK'
  <2>1. NewRequest(r)  BY <1>15 DEF HookRequest, NewRequest, TypeOK
  <2>2. QED  BY <1>15, <2>1, NewRequestTypes DEF HookRequest, TypeOK
<1>16. CASE StopBegin \/ StopJoined \/ JoinFails \/ StopDispatch \/ WaiterReturns
  BY <1>16 DEF StopBegin, StopJoined, JoinFails, StopDispatch, WaiterReturns, TypeOK
<1>17. CASE StopDeferred
  <2>1. CASE ctl = "swap" /\ Swap /\ ctl' = "run" /\ UNCHANGED requests
    BY <1>17, <2>1, SwapTypes DEF StopDeferred, TypeOK
  <2>2. CASE ctl = "run" /\ RunNext /\ UNCHANGED ctl
    BY <1>17, <2>2, RunNextTypes DEF StopDeferred, TypeOK
  <2>3. CASE ctl = "run" /\ EndBatch /\ ctl' = "draining" /\ UNCHANGED requests
    BY <1>17, <2>3, EndBatchTypes DEF StopDeferred, TypeOK
  <2>4. CASE ctl = "run" /\ RunDangling /\ ctl' = "undefined"
    BY <1>17, <2>4 DEF StopDeferred, RunDangling, TypeOK
  <2>5. QED  BY <1>17, <2>1, <2>2, <2>3, <2>4 DEF StopDeferred
<1>18. CASE StopClear  BY <1>18 DEF StopClear, LoosenIfHeld, TypeOK
<1>19. CASE StopReset  BY <1>19 DEF StopReset, TypeOK
<1>20. CASE UNCHANGED vars  BY <1>20 DEF vars, TypeOK
<1>21. QED
  BY <1>1, <1>2, <1>3, <1>3a, <1>3b, <1>4, <1>5, <1>6, <1>7, <1>8, <1>9, <1>10, <1>10a,
     <1>11, <1>12, <1>13, <1>14, <1>15, <1>16, <1>17, <1>18, <1>19, <1>20
     DEF Next, App, Io, Hook, Stop

------------------------------------------------------------------------------
(* Where the threads are.                                                     *)

LEMMA PlacesStep ==
  ASSUME TypeOK, Places, [Next]_vars
  PROVE  Places'
<1> USE DEF Places, threads, deferral, requests, owners, dispatch
<1>1. CASE Start  BY <1>1 DEF Start
<1>2. ASSUME NEW r \in Clients, AppRequest(r) PROVE Places'
  <2>1. UNCHANGED <<tracked, appRef, hookRef>> /\ ctl = "up"
    BY <1>2 DEF AppRequest, NewAppRequest, NewUserRequest
  <2>2. QED  BY <1>2, <2>1 DEF AppRequest
<1>3. ASSUME NEW c \in Consumers, AddConsumer(c) PROVE Places'
  BY <1>3 DEF AddConsumer
<1>3a. ASSUME NEW c \in Consumers, CreateConsumer(c) PROVE Places'
  BY <1>3a DEF CreateConsumer
<1>3b. CASE AppLookup  BY <1>3b DEF AppLookup
<1>4. ASSUME NEW c \in Consumers, AppDrop(c) PROVE Places'
  BY <1>4 DEF AppDrop
<1>5. CASE AppRemove  BY <1>5 DEF AppRemove, RemoveConsumer
<1>6. CASE Loop \/ PollEnd \/ Notify  BY <1>6 DEF Loop, PollEnd, Notify
<1>7. CASE RunDeferred
  BY <1>7 DEF RunDeferred, IoDeferred, Swap, RunNext, RunDangling, EndBatch, Erase
<1>8. ASSUME NEW r \in Clients, Complete(r) \/ CompleteThrows(r) PROVE Places'
  BY <1>8 DEF Complete, CompleteThrows
<1>9. ASSUME NEW h \in Hooks, HookBegin(h) PROVE Places'
  BY <1>9 DEF HookBegin, PoolIsUp, TypeOK
<1>10. ASSUME NEW h \in Hooks, HookLookup(h) \/ HookRelease(h) PROVE Places'
  BY <1>10 DEF HookLookup, HookRelease, TypeOK
<1>11. ASSUME NEW h \in Hooks, HookRemove(h) PROVE Places'
  BY <1>11 DEF HookRemove, RemoveConsumer
<1>12. ASSUME NEW h \in Hooks, HookEnd(h) PROVE Places'
  BY <1>12 DEF HookEnd, TypeOK
<1>13. ASSUME NEW h \in Hooks, NEW r \in Clients, HookRequest(h, r) PROVE Places'
  <2>1. UNCHANGED <<tracked, appRef, hookRef, hook, threads, deferral>> /\ hook[h] = "in"
    BY <1>13 DEF HookRequest, NewAppRequest, NewUserRequest
  <2>2. ctl \notin {"clearing", "reset", "down"}  BY <2>1
  <2>3. QED  BY <2>1, <2>2
<1>14. CASE WaiterReturns \/ StopBegin \/ StopJoined \/ JoinFails \/ StopDispatch
  BY <1>14 DEF WaiterReturns, StopBegin, StopJoined, JoinFails, StopDispatch
<1>15. CASE StopDeferred
  BY <1>15 DEF StopDeferred, Swap, RunNext, RunDangling, EndBatch, Erase
<1>16. CASE StopClear \/ StopReset  BY <1>16 DEF StopClear, StopReset
<1>17. CASE UNCHANGED vars  BY <1>17 DEF vars
<1>18. QED
  BY <1>1, <1>2, <1>3, <1>3a, <1>3b, <1>4, <1>5, <1>6, <1>7, <1>8, <1>9, <1>10, <1>11,
     <1>12, <1>13, <1>14, <1>15, <1>16, <1>17 DEF Next, App, Io, Hook, Stop

\* RemoveConsumer defers a reference.
LEMMA RemoveDefers ==
  ASSUME TypeOK, RemoveConsumer
  PROVE  /\ KeepItem(tracked) \in Items /\ KeepItem(tracked).kind = "keep"
         /\ Range(deferred') = Range(deferred) \cup {KeepItem(tracked)}
<1>1. tracked \in Consumers  BY DEF RemoveConsumer, TypeOK
<1>2. KeepItem(tracked) \in Items /\ KeepItem(tracked).kind = "keep"
  BY <1>1, ItemTypes DEF KeepItem
<1>3. Range(deferred') = Range(deferred) \cup {KeepItem(tracked)}
  BY <1>2, RangeAppend DEF RemoveConsumer, TypeOK
<1>4. QED  BY <1>2, <1>3

LEMMA LateItemsStep ==
  ASSUME TypeOK, Places, LateItems, [Next]_vars
  PROVE  LateItems'
<1> USE DEF Places, LateItems, threads, deferral
<1>1. CASE Start  BY <1>1 DEF Start
<1>2. CASE App
  <2>1. CASE ctl = "up" /\ ctl' = ctl  BY <2>1
  <2>2. ASSUME NEW c \in Consumers, AppDrop(c) PROVE LateItems'
    BY <2>2 DEF AppDrop
  <2>3. QED
    BY <1>2, <2>1, <2>2 DEF App, AppRequest, CreateConsumer, AddConsumer, AppLookup, AppRemove
<1>3. CASE Loop \/ PollEnd \/ Notify  BY <1>3 DEF Loop, PollEnd, Notify
<1>4. CASE RunDeferred \/ \E r \in Clients : Complete(r) \/ CompleteThrows(r)
  BY <1>4 DEF RunDeferred, IoDeferred, Complete, CompleteThrows
<1>5. ASSUME NEW h \in Hooks, HookRemove(h) PROVE LateItems'
  BY <1>5, RemoveDefers DEF HookRemove
<1>6. ASSUME NEW h \in Hooks, HookBegin(h) \/ HookLookup(h) \/ HookRelease(h) \/ HookEnd(h)
      PROVE  LateItems'
  BY <1>6 DEF HookBegin, HookLookup, HookRelease, HookEnd
<1>7. ASSUME NEW h \in Hooks, NEW r \in Clients, HookRequest(h, r) PROVE LateItems'
  BY <1>7 DEF HookRequest
<1>8. CASE WaiterReturns \/ StopBegin \/ StopJoined \/ JoinFails \/ StopDispatch
  BY <1>8 DEF WaiterReturns, StopBegin, StopJoined, JoinFails, StopDispatch
<1>9. CASE StopDeferred
  BY <1>9, RangeEmpty DEF StopDeferred, Swap, RunNext, RunDangling, EndBatch
<1>10. CASE StopClear \/ StopReset  BY <1>10 DEF StopClear, StopReset
<1>11. CASE UNCHANGED vars  BY <1>11 DEF vars
<1>12. QED
  BY <1>1, <1>2, <1>3, <1>4, <1>5, <1>6, <1>7, <1>8, <1>9, <1>10, <1>11
     DEF Next, Io, Hook, Stop

------------------------------------------------------------------------------
(* The closures that wait and the clients they erase.                         *)

LEMMA OneListStep ==
  ASSUME InductiveInvariant, [Next]_vars
  PROVE  OneList'
<1> USE DEF InductiveInvariant, OneList, TypeOK, requests
<1>1. ASSUME NEW r \in Clients, NewRequest(r) PROVE OneList'
  BY <1>1 DEF NewRequest, NewAppRequest, NewUserRequest, Construct
<1>2. CASE RunNext  BY <1>2 DEF RunNext, Erase
<1>3. ASSUME NEW r \in Clients, Complete(r) \/ CompleteThrows(r) PROVE OneList'
  BY <1>3 DEF Complete, CompleteThrows
<1>4. CASE StopClear \/ StopReset  BY <1>4 DEF StopClear, StopReset
<1>5. QED
  BY <1>1, <1>2, <1>3, <1>4, Effects DEF CreateConsumer, AddConsumer

\* What waits after each kind of step.
LEMMA WaitingRemove ==
  ASSUME TypeOK, RemoveConsumer
  PROVE  NotRun' = NotRun \cup {KeepItem(tracked)}
<1>1. batch' = batch /\ position' = position  BY DEF RemoveConsumer
<1>2. QED  BY <1>1, RemoveDefers DEF NotRun

LEMMA WaitingSwap ==
  ASSUME TypeOK, Swap, batch = <<>>
  PROVE  NotRun' = NotRun
<1>1. deferred' = <<>> /\ batch' = deferred /\ position' = 1  BY DEF Swap
<1>2. {batch[i] : i \in position..Len(batch)} = {}  BY DEF TypeOK
<1>3. {deferred[i] : i \in 1..Len(deferred)} = Range(deferred)
  BY RangeIndices DEF TypeOK
<1>4. QED  BY <1>1, <1>2, <1>3, RangeEmpty DEF NotRun

LEMMA WaitingRunNext ==
  ASSUME TypeOK, RunNext
  PROVE  /\ NotRun = NotRun' \cup {batch[position]}
         /\ \A y \in NotRun' : \/ \E i \in 1..Len(deferred) : y = deferred[i]
                               \/ \E j \in (position + 1)..Len(batch) : y = batch[j]
<1>1. /\ deferred' = deferred /\ batch' = batch /\ position' = position + 1
      /\ position \in 1..Len(batch) /\ Len(batch) \in Nat
  BY DEF RunNext, TypeOK
<1>2. position..Len(batch) = {position} \cup ((position + 1)..Len(batch))  BY <1>1
<1>3. NotRun' = Range(deferred) \cup {batch[i] : i \in (position + 1)..Len(batch)}
  BY <1>1 DEF NotRun
<1>4. \A y \in Range(deferred) : \E i \in 1..Len(deferred) : y = deferred[i]
  BY RangeIndices DEF TypeOK
<1>5. QED  BY <1>2, <1>3, <1>4 DEF NotRun

LEMMA WaitingEndBatch ==
  ASSUME TypeOK, EndBatch
  PROVE  NotRun' = NotRun /\ NotRun = Range(deferred)
<1>1. {batch[i] : i \in position..Len(batch)} = {}  BY DEF TypeOK, EndBatch
<1>2. {<<>>[i] : i \in 1..Len(<<>>)} = {}  OBVIOUS
<1>3. batch' = <<>> /\ position' = 1 /\ deferred' = deferred  BY DEF EndBatch
<1>4. QED  BY <1>1, <1>2, <1>3 DEF NotRun

LEMMA WaitingComplete ==
  ASSUME TypeOK, NEW r \in Clients, UNCHANGED <<batch, position>>,
         NEW c \in Consumers \cup {None}, deferred' = Append(deferred, EraseItem(c, r))
  PROVE  NotRun' = NotRun \cup {EraseItem(c, r)}
<1>1. batch' = batch /\ position' = position  OBVIOUS
<1>2. Range(deferred') = Range(deferred) \cup {EraseItem(c, r)}
  BY ItemTypes, RangeAppend DEF TypeOK
<1>3. QED  BY <1>1, <1>2 DEF NotRun

\* Every closure that waits is one of Items.
LEMMA WaitingTypes ==
  ASSUME TypeOK
  PROVE  /\ NotRun \subseteq Items
         /\ \A i \in 1..Len(deferred) : deferred[i] \in NotRun \cap Items
         /\ \A i \in position..Len(batch) : batch[i] \in NotRun \cap Items
<1>1. Len(batch) \in Nat /\ position \in Nat \ {0}  BY DEF TypeOK
<1>2. \A i \in 1..Len(deferred) : deferred[i] \in Items /\ deferred[i] \in Range(deferred)
  BY RangeIndices DEF TypeOK
<1>3. \A i \in position..Len(batch) : batch[i] \in Items  BY <1>1 DEF TypeOK
<1>4. Range(deferred) \subseteq Items  BY RangeIndices DEF TypeOK
<1>5. QED  BY <1>2, <1>3, <1>4 DEF NotRun

LEMMA ErasureOwnedStep ==
  ASSUME InductiveInvariant, [Next]_vars
  PROVE  ErasureOwned'
<1> DEFINE Fine(x) == x.kind = "erase" /\ x.client \notin thrown =>
                        x.client \in used \ flying /\ Owns(x.owner, x.client)
<1>1. \A x \in NotRun : Fine(x)
  BY DEF InductiveInvariant, ErasureOwned, Erasures, Owns
<1>2. SUFFICES \A x \in NotRun' : Fine(x)'
  BY DEF ErasureOwned, Erasures, Owns
<1>3. TypeOK /\ OneList /\ ErasedOnce  BY DEF InductiveInvariant
<1>4. \A x \in NotRun : x.owner \in Consumers \cup {None} /\ (x.kind = "erase" => x.client \in Clients)
  BY <1>3, WaitingTypes, ItemKinds
<1>5. CASE UNCHANGED <<deferral, requests>>
  BY <1>1, <1>5 DEF NotRun, Owns, deferral, requests
<1>6. ASSUME NEW r \in Clients, NewRequest(r), UNCHANGED deferral PROVE \A x \in NotRun' : Fine(x)'
  <2>1. NotRun' = NotRun  BY <1>6 DEF NotRun, deferral
  <2>2. ASSUME NEW x \in NotRun, x.kind = "erase", x.client \notin thrown PROVE Fine(x)'
    <3>1. x.client \in used /\ x.client # r
      BY <1>1, <1>6, <2>2 DEF NewRequest, NewAppRequest, NewUserRequest, Construct
    <3>2. QED
      BY <1>1, <1>3, <1>4, <1>6, <2>2, <3>1
         DEF NewRequest, NewAppRequest, NewUserRequest, Construct, Owns, TypeOK
  <2>3. QED  BY <1>6, <2>1, <2>2 DEF NewRequest, NewAppRequest, NewUserRequest, Construct
<1>7. CASE RemoveConsumer /\ UNCHANGED requests
  BY <1>1, <1>3, <1>7, WaitingRemove, RemoveDefers DEF Owns, requests
<1>8. CASE Swap /\ batch = <<>> /\ UNCHANGED <<requests, owners>>
  BY <1>1, <1>3, <1>8, WaitingSwap DEF Owns, requests
<1>9. CASE RunNext
  <2>1. UNCHANGED <<flying, used, thrown>>  BY <1>9 DEF RunNext
  <2>2. ASSUME NEW y \in NotRun', y.kind = "erase", y.client \notin thrown,
               NEW z, z = batch[position], z.kind = "erase"
        PROVE  y.client # z.client
    <3>1. position \in position..Len(batch) /\ \A j \in (position + 1)..Len(batch) :
             j \in position..Len(batch) /\ j # position
      BY <1>3, <1>9 DEF RunNext, TypeOK
    <3>2. QED  BY <1>3, <1>9, <2>2, <3>1, WaitingRunNext DEF ErasedOnce, SameClient
  <2>3. ASSUME NEW y \in NotRun', y.kind = "erase", y.client \notin thrown
        PROVE  Owns(y.owner, y.client)'
    <3>1. y \in NotRun  BY <1>3, <1>9, WaitingRunNext
    <3>2. Owns(y.owner, y.client)  BY <1>1, <2>3, <3>1
    <3>3. QED
      BY <1>3, <1>4, <1>9, <2>2, <2>3, <3>1, <3>2 DEF RunNext, Erase, Owns, TypeOK
  <2>4. QED  BY <1>1, <1>3, <1>9, <2>1, <2>3, WaitingRunNext
<1>10. CASE EndBatch /\ UNCHANGED <<requests, owners>>
  BY <1>1, <1>3, <1>10, WaitingEndBatch DEF Owns, requests
<1>11. ASSUME NEW r \in Clients, Complete(r) PROVE \A x \in NotRun' : Fine(x)'
  <2>1. PICK c \in Consumers \cup {None} :
          Owns(c, r) /\ deferred' = Append(deferred, EraseItem(c, r))
    BY <1>11, CompleteOwner
  <2>2. /\ UNCHANGED <<appReqs, userReqs, used, thrown, batch, position>>
        /\ flying' = flying \ {r} /\ r \in used
    BY <1>3, <1>11 DEF Complete, OneList
  <2>3. EraseItem(c, r).client = r /\ EraseItem(c, r).owner = c  BY DEF EraseItem
  <2>4. Fine(EraseItem(c, r))'  BY <2>1, <2>2, <2>3 DEF Owns
  <2>5. \A x \in NotRun : Fine(x)'  BY <1>1, <2>2 DEF Owns
  <2>6. QED  BY <1>3, <2>1, <2>2, <2>4, <2>5, WaitingComplete
<1>11a. ASSUME NEW r \in Clients, CompleteThrows(r) PROVE \A x \in NotRun' : Fine(x)'
  <2>1. /\ UNCHANGED <<appReqs, userReqs, flying, used, batch, position>>
        /\ thrown' = thrown \cup {r}
    BY <1>11a DEF CompleteThrows
  <2>2. EraseItem(None, r).client = r  BY DEF EraseItem
  <2>3. Fine(EraseItem(None, r))'  BY <2>1, <2>2
  <2>4. \A x \in NotRun : Fine(x)'  BY <1>1, <2>1 DEF Owns
  <2>5. CASE deferred' = deferred  BY <2>1, <2>4, <2>5 DEF NotRun
  <2>6. CASE deferred' = Append(deferred, EraseItem(None, r))
    BY <1>3, <2>1, <2>3, <2>4, <2>6, WaitingComplete
  <2>7. QED  BY <1>11a, <2>5, <2>6 DEF CompleteThrows
<1>12. CASE StopClear /\ batch = <<>> /\ (\A x \in Range(deferred) : x.kind = "keep")
  <2>1. deferred' = deferred /\ batch' = <<>> /\ position' = position  BY <1>12 DEF StopClear, deferral
  <2>2. NotRun' = Range(deferred)  BY <1>3, <1>12, <2>1 DEF NotRun, TypeOK
  <2>3. QED  BY <1>12, <2>2
<1>13. CASE StopReset
  BY <1>1, <1>13 DEF StopReset, NotRun, Owns, deferral
<1>14. QED
  BY <1>5, <1>6, <1>7, <1>8, <1>9, <1>10, <1>11, <1>11a, <1>12, <1>13, Effects
     DEF CreateConsumer, AddConsumer

LEMMA ErasedOnceStep ==
  ASSUME InductiveInvariant, [Next]_vars
  PROVE  ErasedOnce'
<1>1. TypeOK /\ OneList /\ ErasureOwned /\ ErasedOnce  BY DEF InductiveInvariant
<1>2. Len(deferred) \in Nat /\ Len(batch) \in Nat /\ position \in Nat \ {0}
  BY <1>1 DEF TypeOK
<1>2a. ASSUME [Next]_vars PROVE thrown \subseteq thrown'
  BY <1>2a, Effects DEF requests, NewRequest, NewAppRequest, NewUserRequest, Construct, RunNext,
     Complete, CompleteThrows, CreateConsumer, AddConsumer, StopClear, StopReset
<1>2b. \A x, y : SameClient(x, y)' => SameClient(x, y)
  BY <1>2a DEF SameClient
<1>3. CASE UNCHANGED deferral
  BY <1>1, <1>2b, <1>3 DEF ErasedOnce, deferral
<1>4. ASSUME NEW x \in Items, deferred' = Append(deferred, x), UNCHANGED <<batch, position>>,
             \A y \in NotRun : ~SameClient(y, x)'
      PROVE  ErasedOnce'
  <2>1. /\ Len(deferred') = Len(deferred) + 1 /\ deferred'[Len(deferred) + 1] = x
        /\ \A i \in 1..Len(deferred) : deferred'[i] = deferred[i]
    BY <1>1, <1>4 DEF TypeOK
  <2>2. \A i \in 1..(Len(deferred) + 1) : i \in 1..Len(deferred) \/ i = Len(deferred) + 1
    BY <1>2
  <2>3. /\ \A i \in 1..Len(deferred) : ~SameClient(deferred[i], x)' /\ ~SameClient(x, deferred[i])'
        /\ \A j \in position..Len(batch) : ~SameClient(x, batch[j])'
    BY <1>1, <1>4, WaitingTypes DEF SameClient
  <2>4. ASSUME NEW i \in 1..Len(deferred'), NEW j \in 1..Len(deferred'),
               SameClient(deferred[i], deferred[j])'
        PROVE  i = j
    BY <1>1, <1>2b, <2>1, <2>2, <2>3, <2>4 DEF ErasedOnce
  <2>5. ASSUME NEW i \in 1..Len(deferred'), NEW j \in position..Len(batch)
        PROVE  ~SameClient(deferred[i], batch[j])'
    BY <1>1, <1>2b, <1>4, <2>1, <2>2, <2>3 DEF ErasedOnce
  <2>6. QED  BY <1>1, <1>2b, <1>4, <2>4, <2>5 DEF ErasedOnce
<1>5. CASE RemoveConsumer
  <2>1. PICK x \in Items : x = KeepItem(tracked)  BY <1>1, <1>5, RemoveDefers
  <2>2. \A y \in NotRun : ~SameClient(y, x)'
    BY <1>1, <1>5, <2>1, RemoveDefers DEF SameClient
  <2>3. QED  BY <1>4, <1>5, <2>1, <2>2 DEF RemoveConsumer
<1>6. CASE Swap
  <2>1. deferred' = <<>> /\ batch' = deferred /\ position' = 1  BY <1>6 DEF Swap
  <2>2. 1..Len(deferred') = {}  BY <2>1
  <2>3. QED  BY <1>1, <1>2b, <2>1, <2>2 DEF ErasedOnce
<1>7. CASE RunNext
  <2>1. deferred' = deferred /\ batch' = batch /\ position' = position + 1
    BY <1>7 DEF RunNext
  <2>2. (position + 1)..Len(batch) \subseteq position..Len(batch)  BY <1>2
  <2>3. QED  BY <1>1, <1>2b, <2>1, <2>2 DEF ErasedOnce
<1>8. CASE EndBatch
  <2>1. deferred' = deferred /\ batch' = <<>> /\ position' = 1  BY <1>8 DEF EndBatch
  <2>2. position'..Len(batch') = {}  BY <2>1
  <2>3. QED  BY <1>1, <1>2b, <2>1, <2>2 DEF ErasedOnce
<1>9. ASSUME NEW r \in Clients, Complete(r) PROVE ErasedOnce'
  <2>1. PICK c \in Consumers \cup {None} : deferred' = Append(deferred, EraseItem(c, r))
    BY <1>9, CompleteOwner
  <2>2. EraseItem(c, r).client = r /\ EraseItem(c, r) \in Items
    BY ItemTypes DEF EraseItem
  <2>3. \A y \in NotRun : ~SameClient(y, EraseItem(c, r))'
    BY <1>1, <1>9, <2>2 DEF ErasureOwned, Erasures, SameClient, Complete
  <2>4. QED  BY <1>4, <1>9, <2>1, <2>2, <2>3 DEF Complete
<1>10. ASSUME NEW r \in Clients, CompleteThrows(r) PROVE ErasedOnce'
  <2>1. CASE deferred' = deferred
    BY <1>3, <1>10, <2>1 DEF CompleteThrows, deferral
  <2>2. CASE deferred' = Append(deferred, EraseItem(None, r))
    <3>1. EraseItem(None, r).client = r /\ EraseItem(None, r) \in Items
      BY ItemTypes DEF EraseItem
    <3>2. \A y \in NotRun : ~SameClient(y, EraseItem(None, r))'
      BY <1>10, <3>1 DEF SameClient, CompleteThrows
    <3>3. QED  BY <1>4, <1>10, <2>2, <3>1, <3>2 DEF CompleteThrows
  <2>3. QED  BY <1>10, <2>1, <2>2 DEF CompleteThrows
<1>11. QED
  BY <1>3, <1>5, <1>6, <1>7, <1>8, <1>9, <1>10, Effects
     DEF CreateConsumer, AddConsumer, StopClear, StopReset, deferral

LEMMA OwnersKeptStep ==
  ASSUME InductiveInvariant, [Next]_vars
  PROVE  OwnersKept'
<1>1. TypeOK /\ Places /\ OneList /\ OwnersKept /\ TightOwners  BY DEF InductiveInvariant
<1> DEFINE Goal == /\ \A x \in Range(deferred') : Kept(x, Range(deferred))'
                   /\ \A i \in position'..Len(batch') : Kept(batch[i], Closures)'
<1>2. SUFFICES Goal  BY DEF OwnersKept
<1>3. /\ \A x \in Range(deferred) : Kept(x, Range(deferred))
      /\ \A i \in position..Len(batch) : Kept(batch[i], Closures)
  BY <1>1 DEF OwnersKept
<1>4. Len(deferred) \in Nat /\ Len(batch) \in Nat /\ position \in Nat \ {0}
  BY <1>1 DEF TypeOK
<1>5. CASE UNCHANGED <<deferral, tracked>> /\ loose \subseteq loose'
  BY <1>3, <1>5 DEF Kept, Closures, deferral
<1>5a. ASSUME NEW c \in Consumers, CreateConsumer(c) PROVE Goal
  <2>1. UNCHANGED <<deferral, tracked>> /\ loose' = loose \ {c} /\ \A x \in Closures : x.owner # c
    BY <1>5a DEF CreateConsumer
  <2>2. \A i \in position..Len(batch) : batch[i] \in Closures
    BY <1>1, <1>4, RangeIndices DEF TypeOK, Closures
  <2>3. QED  BY <1>3, <2>1, <2>2 DEF Kept, Closures, deferral
<1>6. ASSUME NEW c \in Consumers, AddConsumer(c) PROVE Goal
  <2>1. UNCHANGED deferral /\ tracked' = c
        /\ loose' = IF tracked \in {None, c} THEN loose ELSE loose \cup {tracked}
    BY <1>6 DEF AddConsumer
  <2>2. ASSUME NEW x, NEW closures, Kept(x, closures)
        PROVE  x.kind = "erase" /\ x.owner \notin loose' \cup {None}
                 => tracked' = x.owner \/ KeepItem(x.owner) \in closures
    BY <2>1, <2>2 DEF Kept
  <2>3. QED  BY <1>3, <2>1, <2>2 DEF Kept, Closures, deferral
<1>7. CASE RemoveConsumer
  <2>1. batch' = batch /\ position' = position /\ tracked' = None /\ loose \subseteq loose'
    BY <1>7 DEF RemoveConsumer, LoosenIfHeld
  <2>2. Range(deferred') = Range(deferred) \cup {KeepItem(tracked)} /\ KeepItem(tracked).kind = "keep"
    BY <1>1, <1>7, RemoveDefers
  <2>3. QED  BY <1>3, <2>1, <2>2 DEF Kept, Closures
<1>8. CASE Swap /\ UNCHANGED owners
  <2>1. deferred' = <<>> /\ batch' = deferred /\ position' = 1  BY <1>8 DEF Swap
  <2>2. Range(deferred') = {} /\ Closures' = Range(deferred)
    BY <2>1, RangeEmpty DEF Closures
  <2>3. \A i \in 1..Len(deferred) : deferred[i] \in Range(deferred)
    BY <1>1, RangeIndices DEF TypeOK
  <2>4. QED  BY <1>3, <1>8, <2>1, <2>2, <2>3 DEF Kept, owners
<1>9. CASE RunNext /\ UNCHANGED owners
  <2>1. deferred' = deferred /\ batch' = batch /\ position' = position + 1
    BY <1>9 DEF RunNext
  <2>2. (position + 1)..Len(batch) \subseteq position..Len(batch)  BY <1>4
  <2>3. QED  BY <1>3, <1>9, <2>1, <2>2 DEF Kept, Closures, owners
<1>10. CASE EndBatch /\ UNCHANGED owners
  <2>1. deferred' = deferred /\ batch' = <<>> /\ position' = 1  BY <1>10 DEF EndBatch
  <2>2. position'..Len(batch') = {}  BY <2>1
  <2>3. QED  BY <1>3, <1>10, <2>1, <2>2 DEF Kept, owners
<1>11. ASSUME NEW r \in Clients, Complete(r), batch = <<>> PROVE Goal
  <2>0. UNCHANGED <<tracked, loose>>  BY <1>11 DEF Complete, owners
  <2>1. PICK c \in Consumers \cup {None} :
          Owns(c, r) /\ deferred' = Append(deferred, EraseItem(c, r))
    BY <1>11, CompleteOwner
  <2>2. Range(deferred') = Range(deferred) \cup {EraseItem(c, r)}
    BY <1>1, <2>1, ItemTypes, RangeAppend DEF TypeOK
  <2>3. batch' = <<>> /\ position' = position /\ position'..Len(batch') = {}
    BY <1>1, <1>11 DEF Complete, TypeOK
  <2>4. c \notin loose \cup {None} => tracked = c \/ KeepItem(c) \in Range(deferred)
    <3>1. SUFFICES ASSUME c \in Consumers \ loose
                   PROVE  tracked = c \/ KeepItem(c) \in Range(deferred)
      OBVIOUS
    <3>2. r \in userReqs[c] /\ r \notin appReqs
      BY <1>1, <2>1, <3>1, LifecycleAssumption DEF Owns, OneList
    <3>3. PICK d \in Consumers : Alive(d) /\ r \in userReqs[d]
      BY <1>11, <3>2 DEF Complete, LiveClients
    <3>4. d = c  BY <1>1, <3>1, <3>2, <3>3 DEF OneList
    <3>5. c # tracked => ~Held(c)  BY <1>1, <3>1, <3>2 DEF TightOwners
    <3>6. Closures = Range(deferred)  BY <1>11, RangeEmpty DEF Closures
    <3>7. QED  BY <3>3, <3>4, <3>5, <3>6 DEF Alive
  <2>5. Kept(EraseItem(c, r), Range(deferred))'
    BY <2>0, <2>2, <2>4 DEF Kept, EraseItem
  <2>6. QED  BY <1>3, <2>0, <2>2, <2>3, <2>5 DEF Kept
<1>12. ASSUME NEW r \in Clients, CompleteThrows(r), batch = <<>> PROVE Goal
  <2>0. UNCHANGED <<tracked, loose, batch, position>>  BY <1>12 DEF CompleteThrows, owners
  <2>1. batch' = <<>> /\ position'..Len(batch') = {}
    BY <1>1, <1>12, <2>0 DEF TypeOK
  <2>2. Range(deferred) \subseteq Range(deferred')
        /\ Range(deferred') \subseteq Range(deferred) \cup {EraseItem(None, r)}
    <3>1. EraseItem(None, r) \in Items /\ deferred \in Seq(Items)  BY <1>1, ItemTypes DEF TypeOK
    <3>2. Range(Append(deferred, EraseItem(None, r))) = Range(deferred) \cup {EraseItem(None, r)}
      BY <3>1, RangeAppend
    <3>3. QED  BY <1>12, <3>2 DEF CompleteThrows
  <2>3. Kept(EraseItem(None, r), Range(deferred))'  BY DEF Kept, EraseItem
  <2>4. QED  BY <1>3, <2>0, <2>1, <2>2, <2>3 DEF Kept
<1>13. CASE StopClear /\ batch = <<>> /\ (\A x \in Range(deferred) : x.kind = "keep")
  <2>1. deferred' = deferred /\ batch' = <<>> /\ position' = position
    BY <1>13 DEF StopClear, deferral
  <2>2. position'..Len(batch') = {}  BY <1>1, <1>13, <2>1 DEF TypeOK
  <2>3. QED  BY <1>13, <2>1, <2>2 DEF Kept
<1>14. ASSUME NEW r \in Clients, NewRequest(r), UNCHANGED deferral PROVE Goal
  BY <1>5, <1>14 DEF NewRequest, NewAppRequest, NewUserRequest, owners
<1>15. CASE StopReset  BY <1>5, <1>15 DEF StopReset, owners
<1>16. QED
  BY <1>5, <1>5a, <1>6, <1>7, <1>8, <1>9, <1>10, <1>11, <1>12, <1>13, <1>14, <1>15, Effects

LEMMA TightOwnersStep ==
  ASSUME InductiveInvariant, [Next]_vars
  PROVE  TightOwners'
<1>1. TypeOK /\ TightOwners  BY DEF InductiveInvariant
<1>2. SUFFICES ASSUME NEW c \in Consumers, c \notin loose', c # tracked', userReqs'[c] # {}
               PROVE  ~Held(c)'
  BY DEF TightOwners
<1>3. CASE /\ c \notin loose /\ c # tracked /\ userReqs[c] # {}
           /\ Held(c)' => Held(c) \/ c = tracked
  BY <1>1, <1>3 DEF TightOwners
<1>4. CASE References /\ UNCHANGED <<deferral, requests, tracked, loose>>
  BY <1>2, <1>3, <1>4 DEF References, requests
<1>5. CASE UNCHANGED owners /\ userReqs'[c] \subseteq userReqs[c]
  BY <1>2, <1>3, <1>5 DEF owners, Held
<1>6. ASSUME NEW d \in Consumers, CreateConsumer(d) PROVE ~Held(c)'
  BY <1>2, <1>3, <1>6 DEF CreateConsumer, Held, requests
<1>7. ASSUME NEW d \in Consumers, AddConsumer(d) PROVE ~Held(c)'
  <2>1. c # tracked /\ c \notin loose /\ userReqs[c] # {}
    BY <1>2, <1>7, LifecycleAssumption DEF AddConsumer, requests
  <2>2. QED  BY <1>3, <1>7, <2>1 DEF AddConsumer, Held
<1>8. ASSUME NEW r \in Clients, NewRequest(r) PROVE ~Held(c)'
  <2>1. CASE NewAppRequest(r)  BY <1>5, <2>1 DEF NewAppRequest
  <2>2. ASSUME NEW d \in Consumers, NewUserRequest(d, r) PROVE ~Held(c)'
    <3>1. UNCHANGED <<tracked, appRef, hookRef>> /\ loose \subseteq loose'
          /\ (d # tracked => d \in loose')
      BY <2>2 DEF NewUserRequest
    <3>2. d # c /\ userReqs'[c] = userReqs[c]
      BY <1>1, <1>2, <2>2, <3>1 DEF NewUserRequest, TypeOK
    <3>3. QED  BY <1>2, <1>3, <3>1, <3>2 DEF Held
  <2>3. QED  BY <1>8, <2>1, <2>2 DEF NewRequest
<1>9. CASE RemoveConsumer /\ UNCHANGED requests
  <2>1. UNCHANGED <<appRef, hookRef>> /\ (Held(c)' <=> Held(c))
    BY <1>9 DEF RemoveConsumer, Held
  <2>2. CASE c = tracked
    BY <1>2, <1>9, <2>1, <2>2, LifecycleAssumption DEF RemoveConsumer, LoosenIfHeld
  <2>3. CASE c # tracked
    BY <1>2, <1>3, <1>9, <2>1, <2>3 DEF RemoveConsumer, LoosenIfHeld, requests
  <2>4. QED  BY <2>2, <2>3
<1>10. CASE StopClear
  <2>1. UNCHANGED <<appRef, hookRef, userReqs>> /\ (Held(c)' <=> Held(c))
    BY <1>10 DEF StopClear, Held
  <2>2. CASE c = tracked
    BY <1>2, <1>10, <2>1, <2>2, LifecycleAssumption DEF StopClear, LoosenIfHeld
  <2>3. CASE c # tracked
    BY <1>2, <1>3, <1>10, <2>1, <2>3 DEF StopClear, LoosenIfHeld
  <2>4. QED  BY <2>2, <2>3
<1>11. CASE RunNext /\ UNCHANGED owners
  <2>1. userReqs'[c] \subseteq userReqs[c]  BY <1>1, <1>11 DEF RunNext, Erase, TypeOK
  <2>2. QED  BY <1>5, <1>11, <2>1
<1>12. CASE Swap /\ batch = <<>> /\ UNCHANGED <<requests, owners>>
  BY <1>5, <1>12 DEF requests
<1>13. CASE EndBatch /\ UNCHANGED <<requests, owners>>
  BY <1>5, <1>13 DEF requests
<1>14. ASSUME NEW r \in Clients, Complete(r) \/ CompleteThrows(r) PROVE ~Held(c)'
  BY <1>5, <1>14 DEF Complete, CompleteThrows
<1>15. CASE StopReset  BY <1>5, <1>15 DEF StopReset
<1>16. QED
  BY <1>4, <1>6, <1>7, <1>8, <1>9, <1>10, <1>11, <1>12, <1>13, <1>14, <1>15, Effects

------------------------------------------------------------------------------
(* The theorems.                                                              *)

LEMMA InitInvariant == Init => InductiveInvariant
<1> SUFFICES ASSUME Init PROVE InductiveInvariant
  OBVIOUS
<1>1. TypeOK
  <2>1. deferred \in Seq(Items) /\ batch \in Seq(Items) /\ position \in 1..(Len(batch) + 1)
    BY DEF Init
  <2>2. userReqs \in [Consumers -> SUBSET Clients] /\ hookRef \in [Hooks -> Consumers \cup {None}]
        /\ hook \in [Hooks -> {"idle", "in"}]
    BY DEF Init
  <2>3. starts \in 0..MaxStarts /\ notes \in 0..MaxNotes  BY LifecycleAssumption DEF Init
  <2>4. QED  BY <2>3, <2>1, <2>2, LifecycleAssumption DEF Init, TypeOK
<1>2. Places /\ OneList  BY LifecycleAssumption DEF Init, Places, OneList
<1>3. Range(deferred) = {} /\ NotRun = {}  BY RangeEmpty DEF Init, NotRun
<1>4. LateItems /\ ErasureOwned  BY <1>3 DEF Init, LateItems, ErasureOwned, Erasures
<1>5. 1..Len(deferred) = {} /\ position..Len(batch) = {}  BY DEF Init
<1>6. ErasedOnce /\ OwnersKept  BY <1>3, <1>5 DEF ErasedOnce, OwnersKept
<1>7. TightOwners  BY DEF Init, TightOwners
<1>8. QED  BY <1>1, <1>2, <1>4, <1>6, <1>7 DEF InductiveInvariant

\* InductiveInvariant holds in every state, for all constants.
THEOREM InductiveInvariantHolds == Spec => []InductiveInvariant
<1>1. InductiveInvariant /\ [Next]_vars => InductiveInvariant'
  BY TypeStep, PlacesStep, LateItemsStep, OneListStep, ErasureOwnedStep, ErasedOnceStep,
     OwnersKeptStep, TightOwnersStep DEF InductiveInvariant
<1>2. QED  BY InitInvariant, <1>1, PTL DEF Spec

\* A deferred erasure of a request whose `completed` did not throw finds its client in its list,
\* and its consumer too unless that was let go of in another way than by the closure of
\* remove_consumer(); run_deferred() is run by one thread at a time. In every way to use a conduit.
THEOREM EraseSafeHolds == Spec => []EraseSafe
<1>1. InductiveInvariant => EraseSafe
  <2> SUFFICES ASSUME InductiveInvariant PROVE EraseSafe
    OBVIOUS
  <2> USE DEF InductiveInvariant
  <2>1. AppEraseSafe  BY DEF AppEraseSafe, ErasureOwned, Erasures
  <2>2. OneRunner  BY DEF OneRunner, Places
  <2>3. ASSUME NEW x \in Erasures, x.owner \notin loose \cup {None}
        PROVE  Alive(x.owner) /\ x.client \in userReqs[x.owner]
    <3>1. tracked = x.owner \/ KeepItem(x.owner) \in Closures
      BY <2>3 DEF OwnersKept, Kept, Erasures, NotRun, Closures
    <3>2. QED  BY <2>3, <3>1 DEF Alive, ErasureOwned
  <2>4. QED  BY <2>1, <2>2, <2>3 DEF EraseSafe, UserEraseSafe
<1>2. QED  BY <1>1, InductiveInvariantHolds, PTL

\* When the socket engine is gone no https_client and no deferred closure is left, as long as no
\* hook removes a consumer and the application keeps none, whatever throws or is replaced.
THEOREM EngineGoesLastHolds == Spec => []EngineGoesLast
<1>1. InductiveInvariant => EngineGoesLast
  <2> SUFFICES ASSUME InductiveInvariant, ~engine PROVE EngineGoesLast
    BY DEF EngineGoesLast, EngineOutlivesClients, DeferredDrained
  <2> USE DEF InductiveInvariant, Places
  <2>1. batch = <<>> /\ appReqs = {} /\ tracked = None  OBVIOUS
  <2>2. "hook_remove" \notin uses => deferred = <<>>  BY DEF LateItems
  <2>3. ASSUME uses \cap {"hook_remove", "app_keep"} = {},
               NEW c \in Consumers
        PROVE  ~Alive(c)
    BY <2>1, <2>2, <2>3, RangeEmpty, LifecycleAssumption DEF Alive, Held, Closures
  <2>4. QED
    BY <2>1, <2>2, <2>3
       DEF EngineGoesLast, EngineOutlivesClients, DeferredDrained, LiveClients
<1>2. QED  BY <1>1, InductiveInvariantHolds, PTL

\* Without start(true), no thread fails in join(): the finding about it needs both.
THEOREM JoinNeedsWaiter == Spec => []("start_wait" \notin uses => NoFailedJoin)
<1>1. InductiveInvariant => ("start_wait" \notin uses => NoFailedJoin)
  BY DEF InductiveInvariant, Places, NoFailedJoin
<1>2. QED  BY <1>1, InductiveInvariantHolds, PTL
==============================================================================
