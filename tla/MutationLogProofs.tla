-------------------------- MODULE MutationLogProofs --------------------------
(***************************************************************************)
(* What holds of MutationLog for any number of brokers, events and         *)
(* tenants, any clocks within MaxSkew and any overlap:                     *)
(*   - its types, with the fact that no stamp lies in the future;          *)
(*   - if the overlap is wide enough, no row is left behind the cursor;    *)
(*   - it implements the delivery promise.                                 *)
(***************************************************************************)
EXTENDS MutationLog, TLAPS

(***************************************************************************)
(* Types                                                                   *)
(***************************************************************************)

\* Stamps are neither in the future nor before the first moment, at which
\* every clock already shows a natural number.
StampsPast ==
  /\ now >= MaxSkew
  /\ \A e \in issued : MaxSkew <= born[e] /\ born[e] <= now

TypeInv == TypeOK /\ StampsPast

\* What a broker writes into created_at_millis is a natural number.
LEMMA StampIsNat ==
  ASSUME TypeInv, NEW e \in issued
  PROVE  /\ CreatedAt(e) \in Nat
         /\ CreatedAt(e) <= born[e] + MaxSkew
         /\ CreatedAt(e) >= born[e] - MaxSkew
BY TimeAssumption DEF TypeInv, TypeOK, StampsPast, CreatedAt

\* The clock of a broker, saturated at zero, is a natural number.
LEMMA ClockIsNat ==
  ASSUME TypeInv, NEW b \in Broker
  PROVE  Clock(b) \in Nat /\ Clock(b) <= now + MaxSkew
BY TimeAssumption DEF TypeInv, TypeOK, StampsPast, Clock

\* Empty logs and fresh watchers satisfy the strengthened types.
LEMMA TypeInvInit == Init => TypeInv
<1> SUFFICES ASSUME Init PROVE TypeInv
  OBVIOUS
<1>1. (CHOOSE b \in Broker : TRUE) \in Broker
  BY BrokerAssumption
<1>2. QED
  BY <1>1, TimeAssumption DEF Init, TypeInv, TypeOK, StampsPast

\* Writes, replication, polls and restarts keep the strengthened types.
LEMMA TypeInvStep == TypeInv /\ [Next]_vars => TypeInv'
<1> SUFFICES ASSUME TypeInv, [Next]_vars PROVE TypeInv'
  OBVIOUS
<1> USE TimeAssumption, BrokerAssumption
<1> USE DEF TypeInv, TypeOK, StampsPast
<1>1. CASE Tick
  BY <1>1 DEF Tick, brokerVars, watchVars, history
<1>2. ASSUME NEW b \in Broker, NEW e \in EventId, Stamp(b, e) PROVE TypeInv'
  BY <1>2 DEF Stamp, watchVars, history
<1>3. ASSUME NEW b \in Broker, NEW e \in EventId, Replicate(b, e) PROVE TypeInv'
  BY <1>3 DEF Replicate, brokerVars, watchVars, history
<1>4. ASSUME NEW e \in EventId, Append(e) PROVE TypeInv'
  BY <1>4 DEF Append, watchVars, history
<1>5. ASSUME NEW e \in EventId, AppendFails(e) PROVE TypeInv'
  BY <1>5 DEF AppendFails, watchVars, history
<1>6. ASSUME NEW b \in Watching, PollList(b) PROVE TypeInv'
  <2> DEFINE rows == Window(b)
  <2>1. rows \subseteq issued /\ Fresh(b, rows) \subseteq issued
    BY DEF Window, ListAfter, Fresh
  <2>2. \A c \in {cursor[b]} \cup {CreatedAt(e) : e \in rows} : c \in Nat
    BY <2>1, StampIsNat
  <2>3. cursor' \in [Broker -> Nat]
    BY <1>6, <2>2 DEF PollList
  <2>4. batch' \in [Broker -> SUBSET issued] /\ settled' \in [Broker -> SUBSET issued]
    BY <1>6, <2>1 DEF PollList
  <2>5. /\ polling' \in [Broker -> BOOLEAN]
        /\ started' \in [Broker -> Nat]
        /\ seen' \in [Broker -> SUBSET issued]
        /\ UNCHANGED <<now, skew, log, lives, brokerVars, sent>>
    BY <1>6, <2>1 DEF PollList
  <2>6. QED
    BY <2>3, <2>4, <2>5 DEF brokerVars
<1>7. ASSUME NEW b \in Watching, PollEnd(b) PROVE TypeInv'
  BY <1>7, ClockIsNat DEF PollEnd, Larger, brokerVars, history
<1>8. ASSUME NEW b \in Watching, Restart(b) PROVE TypeInv'
  BY <1>8 DEF Restart, brokerVars
<1>9. ASSUME NEW b \in Watching, NEW t \in Tenant, Serve(b, t) PROVE TypeInv'
  <2> DEFINE events == {e \in batch[b] : TenantOf[e] = t}
  <2>1. PICK served \in SUBSET events :
          sent' = [sent EXCEPT ![b] =
                     [e \in EventId |-> IF e \in served THEN @[e] + 1 ELSE @[e]]]
    BY <1>9 DEF Serve
  <2>2. sent' \in [Broker -> [EventId -> Nat]]
    BY <2>1
  <2>3. /\ batch' \in [Broker -> SUBSET issued]
        /\ settled' \in [Broker -> SUBSET issued]
        /\ UNCHANGED <<now, skew, log, lives, brokerVars, cursor, seen, polling, started>>
    BY <1>9 DEF Serve
  <2>4. QED
    BY <2>2, <2>3 DEF brokerVars
<1>10. CASE UNCHANGED vars
  BY <1>10 DEF vars, brokerVars, watchVars, history
<1>11. QED
  BY <1>1, <1>2, <1>3, <1>4, <1>5, <1>6, <1>7, <1>8, <1>9, <1>10 DEF Next

\* The state of the log and of every watcher is always well typed.
THEOREM TypeCorrect == Spec => []TypeOK
<1>1. TypeInv => TypeOK
  BY DEF TypeInv
<1>2. QED
  BY <1>1, TypeInvInit, TypeInvStep, PTL DEF Spec

(***************************************************************************)
(* The window                                                              *)
(*                                                                         *)
(* UnseenInWindow is not inductive: why an arriving row is young enough    *)
(* depends on how far the cursor can be ahead of true time, and a row      *)
(* that arrives during a poll is only tested against a cursor that does    *)
(* not exist yet.  Timely, PollTimely, CursorBound and UnseenYoung say     *)
(* what is needed of the log, the poll, the cursor and those rows.         *)
(***************************************************************************)

\* A row that may still come to b is no older than MaxLag.
Timely ==
  \A e \in issued, b \in Watching :
    e \notin log[b] /\ (e \in inflight \/ \E h \in Broker : e \in log[h])
      => now <= born[e] + MaxLag

PollTimely ==
  \A b \in Watching :
    polling[b] => started[b] <= now /\ now <= started[b] + MaxPoll

\* No cursor exceeds the fastest clock at the time it was last moved.
CursorBound ==
  \A b \in Watching :
    cursor[b] <= (IF polling[b] THEN started[b] ELSE now) + MaxSkew

\* Only rows that came after the listing are unseen during a poll.
UnseenYoung ==
  \A b \in Watching : polling[b] =>
    \A e \in log[b] \ seen[b] : born[e] >= started[b] - MaxLag

\* The idle half of UnseenInWindow; the other half follows (WindowLemma).
IdleWindow ==
  \A b \in Watching : ~ polling[b] =>
    \A e \in log[b] \ seen[b] : CreatedAt(e) >= cursor[b] - Overlap

WindowInv ==
  /\ TypeInv
  /\ Timely
  /\ PollTimely
  /\ CursorBound
  /\ UnseenYoung
  /\ IdleWindow

\* Under the bounds on lateness the inductive invariant leaves no unseen
\* row behind the window of the next listing.
LEMMA WindowLemma == WideOverlap /\ WindowInv => UnseenInWindow
<1> SUFFICES ASSUME WideOverlap, WindowInv,
                    NEW b \in Watching, NEW e \in log[b] \ seen[b]
             PROVE  CreatedAt(e) >= NextCursor(b) - Overlap
  BY DEF UnseenInWindow
<1> USE BrokerAssumption, TimeAssumption
<1>1. b \in Broker /\ e \in issued
  BY DEF WindowInv, TypeInv, TypeOK
<1>2. CASE ~ polling[b]
  BY <1>2 DEF WindowInv, IdleWindow, NextCursor
<1>3. CASE polling[b]
  <2>1. CreatedAt(e) \in Nat /\ CreatedAt(e) >= started[b] - MaxLag - MaxSkew
    BY <1>1, <1>3, StampIsNat DEF WindowInv, UnseenYoung, TypeInv, TypeOK
  <2>2. /\ cursor[b] <= started[b] + MaxSkew
        /\ Clock(b) <= started[b] + MaxPoll + MaxSkew
    BY <1>1, <1>3, ClockIsNat
    DEF WindowInv, CursorBound, PollTimely, TypeInv, TypeOK
  <2>3. NextCursor(b) <= started[b] + MaxPoll + MaxSkew
    BY <2>2, <1>3, <1>1 DEF NextCursor, Larger, WindowInv, TypeInv, TypeOK
  <2>4. NextCursor(b) \in Nat
    BY <1>1, ClockIsNat DEF NextCursor, Larger, WindowInv, TypeInv, TypeOK
  <2>5. QED
    BY <2>1, <2>3, <2>4, <1>1 DEF WideOverlap, WindowInv, TypeInv, TypeOK
<1>4. QED
  BY <1>2, <1>3

\* Before the first poll no cursor has moved.
LEMMA WindowInit == Init => WindowInv
BY TypeInvInit, BrokerAssumption, TimeAssumption
DEF Init, WindowInv, Timely, PollTimely, CursorBound, UnseenYoung, IdleWindow

\* A row that arrives at an idle watcher is inside its next window, one that
\* arrives during a poll is younger than the listing by at most MaxLag.
LEMMA ArrivalLemma ==
  ASSUME WideOverlap, WindowInv, NEW b \in Watching, NEW e \in issued,
         e \notin log[b], e \in inflight \/ \E h \in Broker : e \in log[h]
  PROVE  /\ polling[b] => born[e] >= started[b] - MaxLag
         /\ ~ polling[b] => CreatedAt(e) >= cursor[b] - Overlap
<1> USE BrokerAssumption, TimeAssumption
<1>1. b \in Broker /\ now <= born[e] + MaxLag
  BY DEF WindowInv, Timely
<1>2. CreatedAt(e) \in Nat /\ CreatedAt(e) >= born[e] - MaxSkew
  BY StampIsNat DEF WindowInv
<1>3. CASE polling[b]
  BY <1>1, <1>3 DEF WindowInv, PollTimely, TypeInv, TypeOK
<1>4. CASE ~ polling[b]
  <2>1. cursor[b] <= now + MaxSkew
    BY <1>4 DEF WindowInv, CursorBound
  <2>2. QED
    BY <1>1, <1>2, <1>4, <2>1 DEF WideOverlap, WindowInv, TypeInv, TypeOK
<1>5. QED
  BY <1>3, <1>4

\* No step raises a cursor past a row that its broker has yet to see.
LEMMA WindowStep == WideOverlap /\ WindowInv /\ [Next]_vars => WindowInv'
<1> SUFFICES ASSUME WideOverlap, WindowInv, [Next]_vars PROVE WindowInv'
  OBVIOUS
<1> USE BrokerAssumption, TimeAssumption
<1>0. TypeInv /\ TypeInv'
  BY TypeInvStep DEF WindowInv
<1> SUFFICES (Timely /\ PollTimely /\ CursorBound /\ UnseenYoung /\ IdleWindow)'
  BY <1>0 DEF WindowInv
<1> USE DEF WindowInv, Timely, PollTimely, CursorBound, UnseenYoung, IdleWindow,
            TypeInv, TypeOK, CreatedAt
<1>1. CASE Tick
  BY <1>0, <1>1 DEF Tick, brokerVars, watchVars
<1>2. ASSUME NEW b \in Broker, NEW e \in EventId, Stamp(b, e)
      PROVE  (Timely /\ PollTimely /\ CursorBound /\ UnseenYoung /\ IdleWindow)'
  BY <1>0, <1>2 DEF Stamp, watchVars
<1>3. ASSUME NEW b \in Broker, NEW e \in EventId, Replicate(b, e)
      PROVE  (Timely /\ PollTimely /\ CursorBound /\ UnseenYoung /\ IdleWindow)'
  <2>1. e \in issued
    BY <1>3 DEF Replicate
  <2>2. b \in Watching => /\ polling[b] => born[e] >= started[b] - MaxLag
                          /\ ~ polling[b] => CreatedAt(e) >= cursor[b] - Overlap
    BY <1>3, <2>1, ArrivalLemma DEF Replicate
  <2>3. QED
    BY <1>0, <1>3, <2>1, <2>2 DEF Replicate, brokerVars, watchVars
<1>4. ASSUME NEW e \in EventId, Append(e)
      PROVE  (Timely /\ PollTimely /\ CursorBound /\ UnseenYoung /\ IdleWindow)'
  <2> DEFINE b == origin[e]
  <2>1. e \in issued /\ b \in Broker
    BY <1>4 DEF Append
  <2>2. b \in Watching /\ e \notin log[b]
          => /\ polling[b] => born[e] >= started[b] - MaxLag
             /\ ~ polling[b] => CreatedAt(e) >= cursor[b] - Overlap
    BY <1>4, <2>1, ArrivalLemma DEF Append
  <2>3. QED
    BY <1>0, <1>4, <2>1, <2>2 DEF Append, watchVars
<1>5. ASSUME NEW e \in EventId, AppendFails(e)
      PROVE  (Timely /\ PollTimely /\ CursorBound /\ UnseenYoung /\ IdleWindow)'
  BY <1>0, <1>5 DEF AppendFails, watchVars
<1>6. ASSUME NEW b \in Watching, PollList(b)
      PROVE  (Timely /\ PollTimely /\ CursorBound /\ UnseenYoung /\ IdleWindow)'
  <2> DEFINE rows == Window(b)
  <2>1. rows \subseteq issued
    BY DEF Window, ListAfter
  <2>2. \A c \in {cursor[b]} \cup {CreatedAt(e) : e \in rows} :
          c \in Nat /\ c <= now + MaxSkew
    <3>1. cursor[b] \in Nat /\ cursor[b] <= now + MaxSkew
      BY <1>6 DEF PollList
    <3>2. \A e \in rows : CreatedAt(e) \in Nat /\ CreatedAt(e) <= born[e] + MaxSkew
                          /\ born[e] <= now
      BY <2>1, StampIsNat DEF StampsPast
    <3>3. QED
      BY <3>1, <3>2, <2>1
  <2>3. /\ cursor'[b] <= now + MaxSkew
        /\ \A w \in Broker \ {b} : cursor'[w] = cursor[w]
    BY <1>6, <2>2 DEF PollList
  <2>4. log[b] \subseteq seen'[b]
    BY <1>6 DEF PollList, Window, ListAfter
  <2>5. /\ UNCHANGED <<now, skew, log, issued, origin, born, inflight>>
        /\ polling'[b] /\ started'[b] = now
        /\ \A w \in Broker \ {b} : /\ polling'[w] = polling[w]
                                    /\ started'[w] = started[w]
                                    /\ seen'[w] = seen[w]
    BY <1>6 DEF PollList, brokerVars
  <2>6. Timely' /\ PollTimely'
    <3>1. Timely'
      BY <2>5
    <3>2. ASSUME NEW w \in Watching, polling'[w]
          PROVE  started'[w] <= now /\ now <= started'[w] + MaxPoll
      <4>1. CASE w = b
        BY <2>5, <4>1
      <4>2. CASE w # b
        <5>1. w \in Broker \ {b}
          BY <4>2
        <5>2. polling[w] /\ started'[w] = started[w]
          BY <2>5, <3>2, <5>1
        <5>3. started[w] <= now /\ now <= started[w] + MaxPoll
          BY <5>2 DEF PollTimely
        <5>4. QED
          BY <5>2, <5>3
      <4>3. QED
        BY <4>1, <4>2
    <3>3. now' = now
      BY <2>5
    <3>4. QED
      BY <3>1, <3>2, <3>3
  <2>7. CursorBound'
    BY <1>0, <2>3, <2>5
  <2>8. UnseenYoung' /\ IdleWindow'
    <3> SUFFICES ASSUME NEW w \in Watching, NEW e \in log'[w] \ seen'[w]
                 PROVE  /\ polling'[w] => born'[e] >= started'[w] - MaxLag
                        /\ ~ polling'[w] => CreatedAt(e)' >= cursor'[w] - Overlap
      OBVIOUS
    <3>1. w # b
      BY <2>4, <2>5
    <3>2. e \in log[w] \ seen[w] /\ CreatedAt(e)' = CreatedAt(e)
      BY <2>5, <3>1
    <3>3. QED
      BY <2>3, <2>5, <3>1, <3>2
  <2>9. QED
    BY <2>6, <2>7, <2>8
<1>7. ASSUME NEW b \in Watching, PollEnd(b)
      PROVE  (Timely /\ PollTimely /\ CursorBound /\ UnseenYoung /\ IdleWindow)'
  <2>1. cursor'[b] = NextCursor(b)
    BY <1>7 DEF PollEnd, NextCursor
  <2>2. \A e \in log[b] \ seen[b] : CreatedAt(e) >= NextCursor(b) - Overlap
    BY WindowLemma DEF UnseenInWindow
  <2>3. cursor'[b] <= now + MaxSkew
    BY <1>7, ClockIsNat DEF PollEnd, Larger
  <2>4. QED
    BY <1>0, <1>7, <2>1, <2>2, <2>3 DEF PollEnd, brokerVars
<1>8. ASSUME NEW b \in Watching, Restart(b)
      PROVE  (Timely /\ PollTimely /\ CursorBound /\ UnseenYoung /\ IdleWindow)'
  <2>1. \A e \in issued : CreatedAt(e) >= 0
    BY StampIsNat
  <2>2. QED
    BY <1>0, <1>8, <2>1 DEF Restart, brokerVars
<1>9. ASSUME NEW b \in Watching, NEW t \in Tenant, Serve(b, t)
      PROVE  (Timely /\ PollTimely /\ CursorBound /\ UnseenYoung /\ IdleWindow)'
  <2>1. UNCHANGED <<now, skew, log, lives, brokerVars, cursor, seen, polling, started>>
    BY <1>9 DEF Serve
  <2>2. QED
    BY <1>0, <2>1 DEF brokerVars
<1>10. CASE UNCHANGED vars
  BY <1>0, <1>10 DEF vars, brokerVars, watchVars
<1>11. QED
  BY <1>1, <1>2, <1>3, <1>4, <1>5, <1>6, <1>7, <1>8, <1>9, <1>10 DEF Next

\* If the overlap covers the longest poll, the replication lag and twice the
\* clock skew, no event is ever left behind the cursor of a watching broker.
THEOREM NothingLeftBehind ==
  ASSUME WideOverlap
  PROVE  Spec => []UnseenInWindow
<1>1. Init => WindowInv
  BY WindowInit
<1>2. WindowInv /\ [Next]_vars => WindowInv'
  BY WindowStep
<1>3. WindowInv => UnseenInWindow
  BY WindowLemma
<1>4. QED
  BY <1>1, <1>2, <1>3, PTL DEF Spec

(***************************************************************************)
(* The promise                                                             *)
(***************************************************************************)

\* What a poll still has to announce was marked seen when it was listed and
\* not announced since; what was announced in this life is seen.
BatchInv ==
  \A b \in Broker :
    /\ \A e \in batch[b] : /\ e \in seen[b]
                           /\ sent[b][e] = 0
                           /\ OriginId(e) # BrokerId[b]
    /\ \A e \in EventId : sent[b][e] # 0 => e \in seen[b]

PromiseInv == TypeInv /\ BatchInv

\* At the start nothing is seen, batched or announced.
LEMMA PromiseInit == Init => PromiseInv
BY TypeInvInit DEF Init, PromiseInv, BatchInv

\* What a watcher has batched or announced stays foreign, seen, and in one
\* of the two places only.
LEMMA PromiseStep == PromiseInv /\ [Next]_vars => PromiseInv'
<1> SUFFICES ASSUME PromiseInv, [Next]_vars PROVE PromiseInv'
  OBVIOUS
<1> USE BrokerAssumption
<1>0. TypeInv /\ TypeInv'
  BY TypeInvStep DEF PromiseInv
<1> SUFFICES BatchInv'
  BY <1>0 DEF PromiseInv
<1> USE DEF PromiseInv, BatchInv, TypeInv, TypeOK, OriginId
<1>1. CASE Tick
  BY <1>1 DEF Tick, brokerVars, watchVars, history
<1>2. ASSUME NEW b \in Broker, NEW e \in EventId, Stamp(b, e) PROVE BatchInv'
  BY <1>2 DEF Stamp, watchVars, history
<1>3. ASSUME NEW b \in Broker, NEW e \in EventId, Replicate(b, e) PROVE BatchInv'
  BY <1>3 DEF Replicate, brokerVars, watchVars, history
<1>4. ASSUME NEW e \in EventId, Append(e) PROVE BatchInv'
  BY <1>4 DEF Append, watchVars, history
<1>5. ASSUME NEW e \in EventId, AppendFails(e) PROVE BatchInv'
  BY <1>5 DEF AppendFails, watchVars, history
<1>6. ASSUME NEW b \in Watching, PollList(b) PROVE BatchInv'
  <2> DEFINE rows == Window(b)
  <2>1. PICK quiet \in SUBSET Fresh(b, rows) :
          batch' = [batch EXCEPT ![b] = Fresh(b, rows) \ quiet]
    BY <1>6 DEF PollList
  <2>2. seen' = [seen EXCEPT ![b] = @ \cup rows] /\ UNCHANGED <<sent, origin>>
    BY <1>6 DEF PollList, brokerVars
  <2>3. \A e \in Fresh(b, rows) : e \in rows /\ e \notin seen[b] /\ e \in EventId
                                  /\ OriginId(e) # BrokerId[b]
    BY DEF Fresh, Window, ListAfter
  <2>4. QED
    BY <2>1, <2>2, <2>3
<1>7. ASSUME NEW b \in Watching, PollEnd(b) PROVE BatchInv'
  BY <1>7 DEF PollEnd, brokerVars, history
<1>8. ASSUME NEW b \in Watching, Restart(b) PROVE BatchInv'
  BY <1>8 DEF Restart, brokerVars
<1>9. ASSUME NEW b \in Watching, NEW t \in Tenant, Serve(b, t) PROVE BatchInv'
  <2> DEFINE events == {e \in batch[b] : TenantOf[e] = t}
  <2>1. PICK served \in SUBSET events :
          sent' = [sent EXCEPT ![b] =
                     [e \in EventId |-> IF e \in served THEN @[e] + 1 ELSE @[e]]]
    BY <1>9 DEF Serve
  <2>2. batch' = [batch EXCEPT ![b] = @ \ events] /\ UNCHANGED <<seen, origin>>
    BY <1>9 DEF Serve, brokerVars
  <2>3. QED
    BY <2>1, <2>2
<1>10. CASE UNCHANGED vars
  BY <1>10 DEF vars, brokerVars, watchVars, history
<1>11. QED
  BY <1>1, <1>2, <1>3, <1>4, <1>5, <1>6, <1>7, <1>8, <1>9, <1>10 DEF Next

\* Every step is a step of the promise or changes nothing it speaks of.
LEMMA PromiseSimulation ==
  PromiseInv /\ [Next]_vars => [Promise!Next]_(Promise!vars)
<1> SUFFICES ASSUME PromiseInv, [Next]_vars PROVE [Promise!Next]_(Promise!vars)
  OBVIOUS
<1> USE BrokerAssumption
<1> USE DEF Promise!vars, Promise!Next
<1>1. ASSUME NEW b \in Broker, NEW e \in EventId, Stamp(b, e)
      PROVE  Promise!Issue(b, e)
  BY <1>1 DEF Stamp, history, Promise!Issue
<1>2. ASSUME NEW b \in Watching, NEW t \in Tenant, Serve(b, t)
      PROVE  \E S \in SUBSET EventId : Promise!Announce(b, S)
  <2> DEFINE events == {e \in batch[b] : TenantOf[e] = t}
  <2>1. PICK served \in SUBSET events :
          sent' = [sent EXCEPT ![b] =
                     [e \in EventId |-> IF e \in served THEN @[e] + 1 ELSE @[e]]]
    BY <1>2 DEF Serve
  <2>2. b \in Broker /\ served \subseteq issued /\ served \subseteq EventId
    BY DEF PromiseInv, TypeInv, TypeOK
  <2>3. \A e \in served : Promise!Foreign(b, e) /\ sent[b][e] = 0
    BY <2>2 DEF PromiseInv, BatchInv, OriginId, Promise!Foreign
  <2>4. sent' = [sent EXCEPT ![b] = [e \in EventId |-> IF e \in served THEN 1 ELSE @[e]]]
    <3>1. [e \in EventId |-> IF e \in served THEN sent[b][e] + 1 ELSE sent[b][e]]
            = [e \in EventId |-> IF e \in served THEN 1 ELSE sent[b][e]]
      BY <2>3
    <3>2. QED
      BY <2>1, <3>1
  <2>5. UNCHANGED <<issued, origin>>
    BY <1>2 DEF Serve, brokerVars
  <2>6. Promise!Announce(b, served)
    BY <2>2, <2>3, <2>4, <2>5 DEF Promise!Announce
  <2>7. QED
    BY <2>2, <2>6
<1>3. ASSUME NEW b \in Watching, Restart(b)
      PROVE  Promise!Forget(b)
  BY <1>3 DEF Restart, brokerVars, Promise!Forget
<1>4. ASSUME \/ Tick
             \/ \E b \in Broker, e \in EventId : Replicate(b, e)
             \/ \E e \in EventId : Append(e) \/ AppendFails(e)
             \/ \E b \in Watching : PollList(b) \/ PollEnd(b)
             \/ UNCHANGED vars
      PROVE  UNCHANGED <<issued, origin, sent>>
  BY <1>4 DEF Tick, Replicate, Append, AppendFails, PollList, PollEnd,
              vars, brokerVars, history
<1>5. QED
  BY <1>1, <1>2, <1>3, <1>4 DEF Next

\* A watching broker announces an event at most once in a life of its
\* process, and never one it stamped itself.
THEOREM PromiseHolds == Spec => PromiseKept
<1>1. Init => Promise!Init
  <2>1. (CHOOSE b \in Broker : TRUE) \in Broker
    BY BrokerAssumption
  <2>2. QED
    BY <2>1 DEF Init, Promise!Init
<1>2. QED
  BY <1>1, PromiseInit, PromiseStep, PromiseSimulation, PTL
  DEF Spec, PromiseKept, Promise!Spec
===============================================================================
